---------------------------- MODULE MCLocalQueue ----------------------------
(***************************************************************************)
(* Small instances of LocalQueue.                                          *)
(***************************************************************************)
EXTENDS LocalQueue, TLC

\* Runners and tasks are interchangeable: the model treats none specially.
Symmetric == Permutations(Task) \cup Permutations(Runner)
=============================================================================
