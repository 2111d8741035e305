--------------------------- MODULE MCSessionEngine ---------------------------
(***************************************************************************)
(* Small instances of SessionEngine.                                       *)
(***************************************************************************)
EXTENDS SessionEngine, TLC

CONSTANTS p1, p2

\* Processes are interchangeable: whichever comes first starts the session.
Symmetric == Permutations(Proc)
=============================================================================
