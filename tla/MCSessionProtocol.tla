------------------------- MODULE MCSessionProtocol -------------------------
(***************************************************************************)
(* Small instances of SessionProtocol.                                     *)
(***************************************************************************)
EXTENDS SessionProtocol

CONSTANTS ps, pd, pc

\* One process of each kind of host.
EachHost == [p \in Proc |-> CASE p = ps -> "server" [] p = pd -> "desktop" [] p = pc -> "cli"]
=============================================================================
