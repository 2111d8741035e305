---------------------------- MODULE JournalProofs ----------------------------
(***************************************************************************)
(* What the write-ahead journal of JournaledEffects is worth to whoever    *)
(* implements it: its entries are true and its verdicts final.             *)
(***************************************************************************)
EXTENDS JournaledEffects, TLAPS

Inv == TypeOK /\ EntriesAreTrue

\* Every step of the journal preserves Inv.
LEMMA NextKeepsInv ==
  ASSUME Inv, [Next]_<<entry, acted>>
  PROVE  Inv'
<1>1. CASE UNCHANGED <<entry, acted>>
  BY <1>1 DEF Inv, TypeOK, EntriesAreTrue
<1>2. CASE Next
  <2>1. TypeOK'
    BY <1>2 DEF Next, TypeOK
  <2>2. EntriesAreTrue'
    BY <1>2 DEF Inv, EntriesAreTrue, Next, Keep, Intend, Act, Conclude, Void, Moves
  <2> QED
    BY <2>1, <2>2 DEF Inv
<1> QED
  BY <1>1, <1>2

\* Inv holds in every reachable state: nothing acts twice (TypeOK), nothing has acted
\* that is new or void, and what is done has acted.
THEOREM EntriesTellTheTruth == Spec => []Inv
<1>1. Init => Inv
  BY DEF Init, Inv, TypeOK, EntriesAreTrue, Entries
<1> QED
  BY <1>1, NextKeepsInv, PTL DEF Spec

\* VerdictsStay: what is done or void never changes again, nor does its effect.
THEOREM VerdictsAreFinal == Spec => VerdictsStay
<1>1. ASSUME [Next]_<<entry, acted>>
      PROVE  \A i \in Item : entry[i] \in {"done", "void"} =>
               entry'[i] = entry[i] /\ acted'[i] = acted[i]
  BY <1>1 DEF Next, Keep, Intend, Act, Conclude, Void, Moves
<1> QED
  BY <1>1, PTL DEF Spec, VerdictsStay
=============================================================================
