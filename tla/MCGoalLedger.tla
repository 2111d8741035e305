---------------------------- MODULE MCGoalLedger ----------------------------
(***************************************************************************)
(* Small instances of GoalLedger.                                          *)
(***************************************************************************)
EXTENDS GoalLedger, TLC

CONSTANTS g1, g2, g3, p1

NoWakes  == <<>>
TwoWakes == <<g2, g3>>
OneHome  == [g \in Goal |-> p1]

\* Workers, sessions, questions and feedback are interchangeable.
Symmetric == Permutations(Slot) \cup Permutations(Owner)
             \cup Permutations(Question) \cup Permutations(Feedback)
=============================================================================
