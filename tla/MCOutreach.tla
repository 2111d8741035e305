------------------------------ MODULE MCOutreach ------------------------------
(***************************************************************************)
(* Small instances of Outreach.                                            *)
(***************************************************************************)
EXTENDS Outreach, TLC

CONSTANTS d1, d2, p1, p2

\* A limit of one, two OAuth clients, and an approval that can be withdrawn.
Options == {[enabled |-> TRUE, client |-> "c1", cohort |-> Draft, limit |-> 1],
            [enabled |-> TRUE, client |-> "c2", cohort |-> {}, limit |-> 1]}

\* Processes are interchangeable, and so are drafts.
Symmetric == Permutations(Proc) \cup Permutations(Draft)
=============================================================================
