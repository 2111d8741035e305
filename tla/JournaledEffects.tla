--------------------------- MODULE JournaledEffects ---------------------------
(***************************************************************************)
(* What a write-ahead journal promises about effects that cannot be taken  *)
(* back, without locks, processes, retries or crashes: nothing acts before *)
(* its entry says that it is about to, nothing acts twice, "done" is only  *)
(* written of what has acted, and "void" only of what never will.  An      *)
(* entry may stay "intended" for ever: then nobody knows, and nobody tries *)
(* again.  Posts of reviewed e-mail (Outreach) and the mutating calls of   *)
(* an agent session (SessionEngine) are such effects.                      *)
(***************************************************************************)
EXTENDS Naturals

CONSTANT Item          \* the effects

VARIABLES entry,       \* what the journal says of an effect
          acted        \* how often it has happened

Entries == {"new", "intended", "done", "void"}

TypeOK == /\ entry \in [Item -> Entries]
          /\ acted \in [Item -> 0..1]

Init == /\ entry = [i \in Item |-> "new"]
        /\ acted = [i \in Item |-> 0]

Moves(i, from, to) == entry[i] \in from /\ entry'[i] = to

Keep(i)     == entry'[i] = entry[i] /\ acted'[i] = acted[i]
Intend(i)   == Moves(i, {"new"}, "intended") /\ acted'[i] = acted[i]
Act(i)      == Moves(i, {"intended"}, "intended") /\ acted[i] = 0 /\ acted'[i] = 1
Conclude(i) == Moves(i, {"intended"}, "done") /\ acted[i] = 1 /\ acted'[i] = 1
Void(i)     == Moves(i, {"new", "intended"}, "void") /\ acted[i] = 0 /\ acted'[i] = 0

\* One transaction may write several entries.
Next == /\ entry' \in [Item -> Entries]
        /\ acted' \in [Item -> 0..1]
        /\ \A i \in Item : Keep(i) \/ Intend(i) \/ Act(i) \/ Conclude(i) \/ Void(i)

Spec == Init /\ [][Next]_<<entry, acted>>

\* The entries tell the truth.
EntriesAreTrue ==
  \A i \in Item : /\ entry[i] \in {"new", "void"} => acted[i] = 0
                  /\ entry[i] = "done" => acted[i] = 1

\* A verdict is final.
VerdictsStay ==
  [][\A i \in Item : entry[i] \in {"done", "void"} =>
       entry'[i] = entry[i] /\ acted'[i] = acted[i]]_<<entry, acted>>
=============================================================================
