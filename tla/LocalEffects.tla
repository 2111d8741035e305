---------------------------- MODULE LocalEffects ----------------------------
(***************************************************************************)
(* What the task store promises about an action that changes the user's    *)
(* machine, without leases, queues, workers or retries: an action is       *)
(* started only while a permission for it is on record, a started action   *)
(* never returns to the queue by itself, and putting a finished one back   *)
(* withdraws the permission, so every start has a permission of its own.   *)
(***************************************************************************)

CONSTANT Item          \* the actions

VARIABLES phase,       \* "waiting", "started" or "over"
          permit       \* a permission is on record

TypeOK == /\ phase \in [Item -> {"waiting", "started", "over"}]
          /\ permit \in [Item -> BOOLEAN]

Init == /\ phase = [i \in Item |-> "waiting"]
        /\ permit \in [Item -> BOOLEAN]

\* Permissions are given and withdrawn at any time.
Keep(i)   == phase'[i] = phase[i]
Start(i)  == phase[i] = "waiting" /\ phase'[i] = "started" /\ permit'[i]
Finish(i) == phase[i] # "over" /\ phase'[i] = "over"
Reopen(i) == phase[i] = "over" /\ phase'[i] = "waiting" /\ ~permit'[i]

\* One transaction may move several actions.
Next == /\ phase' \in [Item -> {"waiting", "started", "over"}]
        /\ permit' \in [Item -> BOOLEAN]
        /\ \A i \in Item : Keep(i) \/ Start(i) \/ Finish(i) \/ Reopen(i)

Spec == Init /\ [][Next]_<<phase, permit>>
=============================================================================
