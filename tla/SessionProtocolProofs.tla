------------------------ MODULE SessionProtocolProofs ------------------------
(***************************************************************************)
(* Proofs about SessionProtocol for every number of turns, processes,      *)
(* calls, cancellations and deaths.  Inv is inductive: each action has a   *)
(* lemma, ...KeepsInv, with one step for every part of Inv; SuccessIsKept  *)
(* covers the actions that leave the envelope alone.                       *)
(***************************************************************************)
EXTENDS SessionProtocol, TLAPS

-----------------------------------------------------------------------------
\* A checkpoint stores a status and never hides a cancellation on record.
LEMMA CheckpointFacts ==
  ASSUME Inv, NEW t \in Turn, NEW s \in ACTIVE \cup TERMINAL, flag' = flag,
         Checkpoint(s) \/ GuardedCheckpoint(t, s) \/ UNCHANGED envelope
  PROVE  /\ envelope' \in ACTIVE \cup TERMINAL \cup {"created"}
         /\ CancellationShows'
<1> "cancelled" \in TERMINAL
  BY DEF TERMINAL
<1>1. CASE Checkpoint(s)
  BY <1>1 DEF Inv, CancellationShows, Checkpoint
<1>2. CASE UNCHANGED envelope
  BY <1>2 DEF Inv, CancellationShows, TypeOK
<1> QED
  BY <1>1, <1>2 DEF GuardedCheckpoint

\* A call that is over leaves its worker idle and no approval to use.
LEMMA ReturnFacts ==
  ASSUME Inv, NEW t \in Turn, Return(t)
  PROVE  /\ stage' \in [Turn -> Stages] /\ gated' \in [Turn -> BOOLEAN]
         /\ answer' \in [Turn -> Decisions] /\ decision' \in [Turn -> Decisions]
         /\ AllowedIsRecorded' /\ EffectsAreApproved'
<1>1. /\ stage' \in [Turn -> Stages] /\ gated' \in [Turn -> BOOLEAN]
      /\ answer' \in [Turn -> Decisions]
  BY DEF Inv, Return, Goes, Stages, Decisions, TypeOK
<1>2. decision' \in [Turn -> Decisions]
  BY DEF Inv, Return, Decisions, TypeOK
<1>3. AllowedIsRecorded' /\ EffectsAreApproved'
  BY DEF Inv, Return, Goes, AllowedIsRecorded, EffectsAreApproved, TypeOK
<1> QED
  BY <1>1, <1>2, <1>3

\* A worker that takes one step keeps the other stages.
LEMMA GoesFacts ==
  ASSUME Inv, NEW t \in Turn, NEW s \in Stages, Goes(t, s)
  PROVE  /\ stage' \in [Turn -> Stages]
         /\ stage'[t] = s
         /\ \A u \in Turn \ {t} : stage'[u] = stage[u]
BY DEF Inv, Goes, TypeOK

\* While a worker is between its first checkpoint and its last, a success that
\* the envelope shows is not about its turn.
LEMMA SuccessIsKept ==
  ASSUME Inv, NEW t \in Turn, UNCHANGED <<latest, owner>>,
         stage[t] \notin {"opened", "begun", "started", "finishing", "over"},
         \A u \in Turn \ {t} : stage'[u] = stage[u] /\ verdict'[u] = verdict[u],
         envelope' = envelope \/ envelope' # "completed"
  PROVE  SuccessIsCurrent'
<1> SUFFICES ASSUME envelope' = "completed"
             PROVE  SuccessIsCurrent'
  BY DEF SuccessIsCurrent
<1>1. PICK s \in Turn :
        /\ verdict[s] = "completed" /\ stage[s] \in {"finishing", "over"}
        /\ \/ latest = s
           \/ stage[latest] \in {"opened", "begun", "over"}
           \/ stage[latest] = "started" /\ HostOf(latest) = "cli"
  BY DEF Inv, SuccessIsCurrent
<1>2. latest \in Turn
  BY <1>1, SessionProtocolAssumption DEF Inv, TurnsAreNumbered, Turn, TypeOK
<1> QED
  BY <1>1, <1>2 DEF SuccessIsCurrent, HostOf

\* The beginning of a turn, which ends the live turn of a dead process, preserves Inv.
LEMMA BeginKeepsInv ==
  ASSUME Inv, NEW t \in Turn, NEW p \in Proc, Begin(t, p)
  PROVE  Inv'
<1>1. TypeOK'
  BY SessionProtocolAssumption DEF Inv, Begin, Turn, Goes, envVars, outside, ACTIVE,
         TERMINAL, Stages, Decisions, TypeOK
<1>2. TurnsAreNumbered' /\ LiveTurnIsLatest'
  BY SessionProtocolAssumption DEF Inv, Begin, TurnsAreNumbered, LiveTurnIsLatest,
         Active, Goes, ACTIVE, TypeOK
<1>3. QuestionsAreLive'
  BY DEF Inv, Begin, QuestionsAreLive, Goes
<1>4. AllowedIsRecorded' /\ EffectsAreApproved'
  BY DEF Inv, Begin, AllowedIsRecorded, EffectsAreApproved, Goes
<1>5. LateIsLast' /\ OneLateEffect'
  BY DEF Inv, Begin, LateIsLast, OneLateEffect, TurnsAreNumbered, Active, Goes, TypeOK
<1>6. CancellationShows'
  BY DEF Inv, Begin, CancellationShows, Goes, envVars
<1>7. VerdictIsGiven'
  BY DEF Inv, Begin, VerdictIsGiven, Goes
<1>8. SuccessIsCurrent'
  BY DEF Inv, Begin, SuccessIsCurrent, TurnsAreNumbered, Goes, envVars, TypeOK
<1> QED
  BY <1>1, <1>2, <1>3, <1>4, <1>5, <1>6, <1>7, <1>8 DEF Inv

\* The item of the request preserves Inv.
LEMMA OpenKeepsInv ==
  ASSUME Inv, NEW t \in Turn, Open(t)
  PROVE  Inv'
<1>1. TypeOK'
  BY SessionProtocolAssumption DEF Inv, Open, Goes, rowVars, envVars, Stages, TypeOK
<1>2. TurnsAreNumbered' /\ LiveTurnIsLatest'
  BY SessionProtocolAssumption DEF Inv, Open, TurnsAreNumbered, LiveTurnIsLatest, Goes,
         Active, rowVars
<1>3. QuestionsAreLive'
  BY DEF Inv, Open, QuestionsAreLive, Goes, Active, rowVars
<1>4. AllowedIsRecorded' /\ EffectsAreApproved'
  BY DEF Inv, Open, AllowedIsRecorded, EffectsAreApproved, Goes
<1>5. LateIsLast' /\ OneLateEffect'
  BY DEF Inv, Open, LateIsLast, OneLateEffect, Goes, Active, rowVars
<1>6. CancellationShows'
  BY DEF Inv, Open, CancellationShows, Goes, envVars
<1>7. VerdictIsGiven'
  BY DEF Inv, Open, VerdictIsGiven, Goes
<1>8. SuccessIsCurrent'
  BY DEF Inv, Open, SuccessIsCurrent, Goes, HostOf, rowVars, envVars
<1> QED
  BY <1>1, <1>2, <1>3, <1>4, <1>5, <1>6, <1>7, <1>8 DEF Inv

\* The new envelope preserves Inv.
LEMMA StartTurnKeepsInv ==
  ASSUME Inv, NEW t \in Turn, StartTurn(t)
  PROVE  Inv'
<1>1. TypeOK'
  BY SessionProtocolAssumption DEF Inv, StartTurn, Steps, rowVars, outside, Stages, Goes,
         TypeOK
<1>2. TurnsAreNumbered' /\ LiveTurnIsLatest'
  BY SessionProtocolAssumption DEF Inv, StartTurn, TurnsAreNumbered, LiveTurnIsLatest,
         Steps, rowVars, Active, Goes
<1>3. QuestionsAreLive'
  BY DEF Inv, StartTurn, QuestionsAreLive, rowVars, Active, Goes
<1>4. AllowedIsRecorded' /\ EffectsAreApproved'
  BY DEF Inv, StartTurn, AllowedIsRecorded, EffectsAreApproved, Steps, Goes
<1>5. LateIsLast' /\ OneLateEffect'
  BY DEF Inv, StartTurn, LateIsLast, OneLateEffect, Steps, rowVars, Active, Goes
<1>6. CancellationShows'
  BY DEF Inv, StartTurn, CancellationShows, Goes
<1>7. VerdictIsGiven'
  BY DEF Inv, StartTurn, VerdictIsGiven, Steps, Goes
<1>8. SuccessIsCurrent'
  BY DEF Inv, StartTurn, SuccessIsCurrent, Goes
<1> QED
  BY <1>1, <1>2, <1>3, <1>4, <1>5, <1>6, <1>7, <1>8 DEF Inv

\* The binding of a CLI session preserves Inv.
LEMMA BindCliKeepsInv ==
  ASSUME Inv, NEW t \in Turn, BindCli(t)
  PROVE  Inv'
<1>1. TypeOK'
  BY SessionProtocolAssumption DEF Inv, BindCli, Goes, rowVars, envVars, outside, Stages,
         TypeOK
<1>2. TurnsAreNumbered' /\ LiveTurnIsLatest'
  BY SessionProtocolAssumption DEF Inv, BindCli, TurnsAreNumbered, LiveTurnIsLatest,
         Goes, Active, rowVars
<1>3. QuestionsAreLive'
  BY DEF Inv, BindCli, QuestionsAreLive, Goes, Active, rowVars
<1>4. AllowedIsRecorded' /\ EffectsAreApproved'
  BY DEF Inv, BindCli, AllowedIsRecorded, EffectsAreApproved, Goes
<1>5. LateIsLast' /\ OneLateEffect'
  BY DEF Inv, BindCli, LateIsLast, OneLateEffect, Goes, Active, rowVars
<1>6. CancellationShows'
  BY DEF Inv, BindCli, CancellationShows, Goes, envVars
<1>7. VerdictIsGiven'
  BY DEF Inv, BindCli, VerdictIsGiven, Goes
<1>8. SuccessIsCurrent'
  BY DEF Inv, BindCli, SuccessIsCurrent, HostOf, Goes, rowVars, envVars
<1> QED
  BY <1>1, <1>2, <1>3, <1>4, <1>5, <1>6, <1>7, <1>8 DEF Inv

\* The first checkpoint of a worker preserves Inv.
LEMMA AnnounceKeepsInv ==
  ASSUME Inv, NEW t \in Turn, Announce(t)
  PROVE  Inv'
<1>1. TypeOK'
  <2>1. envelope' \in ACTIVE \cup TERMINAL \cup {"created"}
    BY CheckpointFacts, SessionProtocolAssumption DEF Announce, HostOf, Steps, Hosts,
           ACTIVE, Inv, Lives, TypeOK
  <2>2. stage' \in [Turn -> Stages]
    BY GoesFacts DEF Announce, Steps, Stages
  <2> QED
    BY <2>1, <2>2 DEF Inv, Announce, rowVars, outside, TypeOK
<1>2. TurnsAreNumbered' /\ LiveTurnIsLatest'
  BY SessionProtocolAssumption DEF Inv, Announce, TurnsAreNumbered, LiveTurnIsLatest,
         Steps, rowVars, Active, Goes
<1>3. QuestionsAreLive'
  BY DEF Inv, Announce, QuestionsAreLive, rowVars, Active, Goes
<1>4. AllowedIsRecorded' /\ EffectsAreApproved'
  BY DEF Inv, Announce, AllowedIsRecorded, EffectsAreApproved, Steps, Goes
<1>5. LateIsLast' /\ OneLateEffect'
  BY DEF Inv, Announce, LateIsLast, OneLateEffect, Steps, rowVars, Active, Goes
<1>6. CancellationShows'
  BY CheckpointFacts, SessionProtocolAssumption DEF Announce, HostOf, Steps, Hosts,
         ACTIVE, Inv, Lives, TypeOK
<1>7. VerdictIsGiven'
  BY DEF Inv, Announce, VerdictIsGiven, Steps, Goes
<1>8. SuccessIsCurrent'
  <2> SUFFICES ASSUME envelope' = "completed"
               PROVE  SuccessIsCurrent'
    BY DEF SuccessIsCurrent
  <2>1. /\ HostOf(t) \in {"server", "desktop", "cli"}
        /\ envelope = "completed" => ~flag
    BY SessionProtocolAssumption DEF Inv, Announce, Steps, Lives, HostOf, Hosts,
           CancellationShows, TypeOK
  <2>2. HostOf(t) = "server" /\ ~Current(t) /\ UNCHANGED envelope
    BY <2>1 DEF Announce, GuardedCheckpoint, Checkpoint
  <2>3. PICK s \in Turn :
          /\ verdict[s] = "completed" /\ stage[s] \in {"finishing", "over"}
          /\ \/ latest = s
             \/ stage[latest] \in {"opened", "begun", "over"}
             \/ stage[latest] = "started" /\ HostOf(latest) = "cli"
    BY <2>2 DEF Inv, SuccessIsCurrent
  <2>4. latest \in Turn /\ (latest # t \/ latest = s)
    BY <2>2, <2>3, SessionProtocolAssumption DEF Inv, TurnsAreNumbered, Turn, Announce,
           Steps, TypeOK
  <2>5. \A u \in Turn \ {t} : stage'[u] = stage[u] /\ verdict'[u] = verdict[u]
    BY GoesFacts DEF Announce, Steps, Stages
  <2>6. s # t
    BY <2>3 DEF Announce, Steps
  <2> QED
    BY <2>3, <2>4, <2>5, <2>6 DEF SuccessIsCurrent, HostOf, Announce, rowVars
<1> QED
  BY <1>1, <1>2, <1>3, <1>4, <1>5, <1>6, <1>7, <1>8 DEF Inv

\* The first look at the thread preserves Inv.
LEMMA EnterKeepsInv ==
  ASSUME Inv, NEW t \in Turn, Enter(t)
  PROVE  Inv'
<1>1. TypeOK'
  <2>1. stage' \in [Turn -> Stages]
    BY GoesFacts DEF Enter, Stages
  <2>2. verdict' \in [Turn -> Verdicts \cup {None}]
    BY DEF Inv, Enter, Verdicts, TERMINAL, TypeOK
  <2> QED
    BY <2>1, <2>2 DEF Inv, Enter, rowVars, envVars, outside, TypeOK
<1>2. TurnsAreNumbered' /\ LiveTurnIsLatest'
  BY SessionProtocolAssumption DEF Inv, Enter, TurnsAreNumbered, LiveTurnIsLatest, Goes,
         Active, rowVars, TypeOK
<1>3. QuestionsAreLive'
  BY DEF Inv, Enter, QuestionsAreLive, Goes, Active, rowVars
<1>4. AllowedIsRecorded' /\ EffectsAreApproved'
  <2>1. stage'[t] \in {"quitting", "saving", "idle"}
    BY GoesFacts DEF Enter, Stages
  <2>2. \A u \in Turn \ {t} : stage'[u] = stage[u]
    BY GoesFacts DEF Enter, Stages
  <2> QED
    BY <2>1, <2>2 DEF Inv, Enter, AllowedIsRecorded, EffectsAreApproved
<1>5. LateIsLast' /\ OneLateEffect'
  BY DEF Inv, Enter, LateIsLast, OneLateEffect, Goes, Active, rowVars, TypeOK
<1>6. CancellationShows'
  BY DEF Inv, Enter, CancellationShows, Goes, envVars
<1>7. VerdictIsGiven'
  <2>1. \A u \in Turn \ {t} : stage'[u] = stage[u] /\ verdict'[u] = verdict[u]
    BY GoesFacts DEF Inv, Enter, Stages, TypeOK
  <2>2. stage'[t] = "idle" \/ verdict'[t] \in {"cancelled", "failed"}
    BY GoesFacts DEF Inv, Enter, Stages, TypeOK
  <2> QED
    BY <2>1, <2>2 DEF Inv, VerdictIsGiven, Verdicts, TERMINAL
<1>8. SuccessIsCurrent'
  <2>1. \A u \in Turn \ {t} : stage'[u] = stage[u] /\ verdict'[u] = verdict[u]
    BY DEF Inv, Enter, Goes, TypeOK
  <2> QED
    BY <2>1, SuccessIsKept DEF Enter, rowVars, envVars
<1> QED
  BY <1>1, <1>2, <1>3, <1>4, <1>5, <1>6, <1>7, <1>8 DEF Inv

\* The exit of a cancelled Desktop turn preserves Inv.
LEMMA QuitKeepsInv ==
  ASSUME Inv, NEW t \in Turn, Quit(t)
  PROVE  Inv'
<1>1. TypeOK'
  BY SessionProtocolAssumption DEF Inv, Quit, Steps, Checkpoint, rowVars, outside,
         TERMINAL, Stages, Goes, TypeOK
<1>2. TurnsAreNumbered' /\ LiveTurnIsLatest'
  BY SessionProtocolAssumption DEF Inv, Quit, TurnsAreNumbered, LiveTurnIsLatest, Steps,
         rowVars, Active, Goes
<1>3. QuestionsAreLive'
  BY DEF Inv, Quit, QuestionsAreLive, rowVars, Active, Goes
<1>4. AllowedIsRecorded' /\ EffectsAreApproved'
  BY DEF Inv, Quit, AllowedIsRecorded, EffectsAreApproved, Steps, Goes
<1>5. LateIsLast' /\ OneLateEffect'
  BY DEF Inv, Quit, LateIsLast, OneLateEffect, Steps, rowVars, Active, Goes
<1>6. CancellationShows'
  BY DEF Inv, Quit, CancellationShows, Checkpoint, Goes
<1>7. VerdictIsGiven'
  BY DEF Inv, Quit, VerdictIsGiven, Steps, Goes
<1>8. SuccessIsCurrent'
  BY DEF Inv, Quit, SuccessIsCurrent, Checkpoint, Goes
<1> QED
  BY <1>1, <1>2, <1>3, <1>4, <1>5, <1>6, <1>7, <1>8 DEF Inv

\* The item of a tool call preserves Inv.
LEMMA StartCallKeepsInv ==
  ASSUME Inv, NEW t \in Turn, NEW g \in BOOLEAN, StartCall(t, g)
  PROVE  Inv'
<1>1. TypeOK'
  <2>1. calls' \in [Turn -> 0 .. MaxCalls]
    BY SessionProtocolAssumption DEF Inv, StartCall, TypeOK
  <2>2. stage' \in [Turn -> Stages] /\ gated' \in [Turn -> BOOLEAN]
    BY DEF Inv, StartCall, Goes, Stages, TypeOK
  <2> QED
    BY <2>1, <2>2 DEF Inv, StartCall, rowVars, envVars, outside, TypeOK
<1>2. TurnsAreNumbered' /\ LiveTurnIsLatest'
  BY SessionProtocolAssumption DEF Inv, StartCall, TurnsAreNumbered, LiveTurnIsLatest,
         Active, Goes, rowVars, TypeOK
<1>3. QuestionsAreLive'
  BY DEF Inv, StartCall, QuestionsAreLive, Active, Goes, rowVars
<1>4. AllowedIsRecorded' /\ EffectsAreApproved'
  BY DEF Inv, StartCall, AllowedIsRecorded, EffectsAreApproved, Goes, TypeOK
<1>5. LateIsLast' /\ OneLateEffect'
  BY DEF Inv, StartCall, LateIsLast, OneLateEffect, Active, Goes, rowVars, TypeOK
<1>6. CancellationShows'
  BY DEF Inv, StartCall, CancellationShows, Goes, envVars
<1>7. VerdictIsGiven'
  BY DEF Inv, StartCall, VerdictIsGiven, Goes, TypeOK
<1>8. SuccessIsCurrent'
  <2>1. \A u \in Turn \ {t} : stage'[u] = stage[u] /\ verdict'[u] = verdict[u]
    BY DEF Inv, StartCall, Goes, TypeOK
  <2> QED
    BY <2>1, SuccessIsKept DEF StartCall, rowVars, envVars
<1> QED
  BY <1>1, <1>2, <1>3, <1>4, <1>5, <1>6, <1>7, <1>8 DEF Inv

\* A question preserves Inv.
LEMMA AskKeepsInv ==
  ASSUME Inv, NEW t \in Turn, Ask(t)
  PROVE  Inv'
<1>1. TypeOK'
  <2>1. /\ stage' \in [Turn -> Stages] /\ gated' \in [Turn -> BOOLEAN]
        /\ answer' \in [Turn -> Decisions] /\ decision' \in [Turn -> Decisions]
    <3>1. CASE Active(t)
      BY <3>1 DEF Inv, Ask, Goes, Stages, Decisions, TypeOK
    <3>2. CASE ~Active(t)
      BY <3>2, ReturnFacts DEF Ask
    <3> QED
      BY <3>1, <3>2
  <2>2. turn' \in [Turn -> ACTIVE \cup TERMINAL \cup {"absent"}]
    BY DEF Inv, Ask, ACTIVE, TypeOK
  <2> QED
    BY <2>1, <2>2 DEF Inv, Ask, envVars, outside, TypeOK
<1>2. TurnsAreNumbered' /\ LiveTurnIsLatest'
  BY SessionProtocolAssumption DEF Inv, Ask, TurnsAreNumbered, LiveTurnIsLatest, Active,
         Goes, Return, TypeOK
<1>3. QuestionsAreLive'
  BY DEF Inv, Ask, QuestionsAreLive, Active, Goes, Return, ACTIVE, TypeOK
<1>4. AllowedIsRecorded' /\ EffectsAreApproved'
  <2>1. CASE Active(t)
    BY <2>1 DEF Inv, Ask, Goes, AllowedIsRecorded, EffectsAreApproved, TypeOK
  <2>2. CASE ~(Active(t))
    BY <2>2, ReturnFacts DEF Ask
  <2> QED
    BY <2>1, <2>2
<1>5. LateIsLast' /\ OneLateEffect'
  BY DEF Inv, Ask, LateIsLast, OneLateEffect, Active, Goes, Return, TypeOK
<1>6. CancellationShows'
  BY DEF Inv, Ask, CancellationShows, Goes, envVars
<1>7. VerdictIsGiven'
  BY DEF Inv, Ask, VerdictIsGiven, Goes, Return, TypeOK
<1>8. SuccessIsCurrent'
  <2>1. \A u \in Turn \ {t} : stage'[u] = stage[u] /\ verdict'[u] = verdict[u]
    BY DEF Inv, Ask, Goes, Return, TypeOK
  <2> QED
    BY <2>1, SuccessIsKept DEF Ask, envVars
<1> QED
  BY <1>1, <1>2, <1>3, <1>4, <1>5, <1>6, <1>7, <1>8 DEF Inv

\* The checkpoint of a question preserves Inv.
LEMMA AnnounceWaitKeepsInv ==
  ASSUME Inv, NEW t \in Turn, AnnounceWait(t)
  PROVE  Inv'
<1>1. TypeOK'
  BY SessionProtocolAssumption DEF Inv, AnnounceWait, GuardedCheckpoint, rowVars,
         outside, ACTIVE, TERMINAL, Stages, Goes, Checkpoint, TypeOK
<1>2. TurnsAreNumbered' /\ LiveTurnIsLatest'
  BY SessionProtocolAssumption DEF Inv, AnnounceWait, TurnsAreNumbered, LiveTurnIsLatest,
         rowVars, Active, Goes
<1>3. QuestionsAreLive'
  BY DEF Inv, AnnounceWait, QuestionsAreLive, rowVars, Active, Goes
<1>4. AllowedIsRecorded' /\ EffectsAreApproved'
  BY DEF Inv, AnnounceWait, AllowedIsRecorded, EffectsAreApproved, Goes
<1>5. LateIsLast' /\ OneLateEffect'
  BY DEF Inv, AnnounceWait, LateIsLast, OneLateEffect, rowVars, Active, Goes
<1>6. CancellationShows'
  BY DEF Inv, AnnounceWait, CancellationShows, GuardedCheckpoint, Goes, Checkpoint
<1>7. VerdictIsGiven'
  BY DEF Inv, AnnounceWait, VerdictIsGiven, Goes
<1>8. SuccessIsCurrent'
  BY DEF Inv, AnnounceWait, SuccessIsCurrent, GuardedCheckpoint, rowVars, HostOf,
         Goes, Checkpoint
<1> QED
  BY <1>1, <1>2, <1>3, <1>4, <1>5, <1>6, <1>7, <1>8 DEF Inv

\* What an answer or the end of a prompt at the CLI's terminal may change.
LEMMA PromptFacts ==
  ASSUME Inv, NEW t \in Turn, NEW d \in {"allow", "deny"},
         PromptAnswered(t, d) \/ PromptFails(t)
  PROVE  /\ stage[t] = "prompted" /\ UNCHANGED <<rowVars, envVars, late, outside>>
         /\ stage' \in [Turn -> Stages] /\ stage'[t] \in {"polling", "idle", "saving"}
         /\ verdict' \in [Turn -> Verdicts \cup {None}] /\ calls' \in [Turn -> 0 .. MaxCalls]
         /\ stage'[t] = "saving" => verdict'[t] \in Verdicts
         /\ gated' \in [Turn -> BOOLEAN] /\ answer' \in [Turn -> Decisions]
         /\ decision' \in [Turn -> Decisions]
         /\ decision'[t] = "pending" => decision[t] = "pending"
         /\ \A u \in Turn \ {t} :
              /\ stage'[u] = stage[u] /\ verdict'[u] = verdict[u] /\ gated'[u] = gated[u]
              /\ answer'[u] = answer[u] /\ decision'[u] = decision[u]
<1>1. stage[t] = "prompted" /\ UNCHANGED <<rowVars, envVars, late, outside>>
  BY DEF PromptAnswered, PromptFails
<1>2. CASE PromptRaises(t) /\ Abort(t)
  <2>1. /\ verdict' \in [Turn -> Verdicts \cup {None}] /\ verdict'[t] \in Verdicts
        /\ calls' \in [Turn -> 0 .. MaxCalls]
    BY <1>2, SessionProtocolAssumption DEF Inv, Abort, Verdicts, TERMINAL, TypeOK
  <2>2. /\ gated' \in [Turn -> BOOLEAN] /\ answer' \in [Turn -> Decisions]
        /\ decision' \in [Turn -> Decisions]
        /\ decision'[t] = "pending" => decision[t] = "pending"
    BY <1>2 DEF Inv, Abort, Decisions, TypeOK
  <2>3. /\ stage' \in [Turn -> Stages] /\ stage'[t] = "saving"
        /\ \A u \in Turn \ {t} : stage'[u] = stage[u]
    BY <1>2, GoesFacts DEF Abort, Stages
  <2>4. \A u \in Turn \ {t} :
          /\ verdict'[u] = verdict[u] /\ gated'[u] = gated[u]
          /\ answer'[u] = answer[u] /\ decision'[u] = decision[u]
    BY <1>2 DEF Inv, Abort, TypeOK
  <2> QED
    BY <1>1, <2>1, <2>2, <2>3, <2>4
<1>3. CASE Return(t) /\ UNCHANGED <<verdict, calls>>
  <2>1. /\ stage'[t] = "idle" /\ \A u \in Turn \ {t} : stage'[u] = stage[u]
        /\ decision'[t] = "pending" => decision[t] = "pending"
        /\ \A u \in Turn \ {t} :
              /\ gated'[u] = gated[u] /\ answer'[u] = answer[u] /\ decision'[u] = decision[u]
    BY <1>3 DEF Inv, Return, Goes, TypeOK
  <2> QED
    BY <1>1, <1>3, <2>1, ReturnFacts DEF Inv, TypeOK
<1>4. CASE /\ Goes(t, "polling") /\ decision' = [decision EXCEPT ![t] = d]
           /\ UNCHANGED <<gated, answer, verdict, calls>>
  <2>1. /\ stage' \in [Turn -> Stages] /\ stage'[t] = "polling"
        /\ \A u \in Turn \ {t} : stage'[u] = stage[u]
    BY <1>4, GoesFacts DEF Stages
  <2>2. /\ decision' \in [Turn -> Decisions] /\ decision'[t] # "pending"
        /\ \A u \in Turn \ {t} : decision'[u] = decision[u]
    BY <1>4 DEF Inv, Decisions, TypeOK
  <2> QED
    BY <1>1, <1>4, <2>1, <2>2 DEF Inv, TypeOK
<1> QED
  BY <1>2, <1>3, <1>4 DEF PromptAnswered, PromptFails, PromptRaises

\* The answer at the CLI's terminal, taken or refused, and the end of its input preserve
\* Inv.
LEMMA PromptKeepsInv ==
  ASSUME Inv, NEW t \in Turn, NEW d \in {"allow", "deny"},
         PromptAnswered(t, d) \/ PromptFails(t)
  PROVE  Inv'
<1>1. TypeOK'
  BY PromptFacts DEF Inv, rowVars, envVars, outside, TypeOK
<1>2. TurnsAreNumbered' /\ LiveTurnIsLatest'
  BY PromptFacts DEF Inv, TurnsAreNumbered, LiveTurnIsLatest, rowVars, Active
<1>3. QuestionsAreLive'
  BY PromptFacts DEF Inv, QuestionsAreLive, rowVars, Active
<1>4. AllowedIsRecorded' /\ EffectsAreApproved'
  BY PromptFacts DEF Inv, AllowedIsRecorded, EffectsAreApproved
<1>5. LateIsLast' /\ OneLateEffect'
  BY PromptFacts DEF Inv, LateIsLast, OneLateEffect, rowVars, Active
<1>6. CancellationShows'
  BY PromptFacts DEF Inv, CancellationShows, envVars
<1>7. VerdictIsGiven'
  BY PromptFacts DEF Inv, VerdictIsGiven
<1>8. SuccessIsCurrent'
  BY PromptFacts, SuccessIsKept DEF rowVars, envVars
<1> QED
  BY <1>1, <1>2, <1>3, <1>4, <1>5, <1>6, <1>7, <1>8 DEF Inv

\* A poll of the cancellation and the turn preserves Inv.
LEMMA PollKeepsInv ==
  ASSUME Inv, NEW t \in Turn, Poll(t)
  PROVE  Inv'
<1>1. TypeOK'
  <2>1. /\ stage' \in [Turn -> Stages] /\ gated' \in [Turn -> BOOLEAN]
        /\ answer' \in [Turn -> Decisions] /\ decision' \in [Turn -> Decisions]
    <3>1. CASE flag \/ ~Active(t)
      BY <3>1, ReturnFacts DEF Poll
    <3>2. CASE ~(flag \/ ~Active(t))
      BY <3>2 DEF Inv, Poll, Goes, Stages, TypeOK
    <3> QED
      BY <3>1, <3>2
  <2> QED
    BY <2>1 DEF Inv, Poll, rowVars, envVars, outside, TypeOK
<1>2. TurnsAreNumbered' /\ LiveTurnIsLatest'
  BY SessionProtocolAssumption DEF Inv, Poll, TurnsAreNumbered, LiveTurnIsLatest, Active,
         Return, Goes, rowVars, TypeOK
<1>3. QuestionsAreLive'
  BY DEF Inv, Poll, QuestionsAreLive, Active, Return, Goes, rowVars, TypeOK
<1>4. AllowedIsRecorded' /\ EffectsAreApproved'
  <2>1. CASE flag \/ ~Active(t)
    BY <2>1, ReturnFacts DEF Poll
  <2>2. CASE ~(flag \/ ~Active(t))
    BY <2>2 DEF Inv, Poll, Goes, AllowedIsRecorded, EffectsAreApproved, TypeOK
  <2> QED
    BY <2>1, <2>2
<1>5. LateIsLast' /\ OneLateEffect'
  BY DEF Inv, Poll, LateIsLast, OneLateEffect, Active, Return, Goes, rowVars, TypeOK
<1>6. CancellationShows'
  BY DEF Inv, Poll, CancellationShows, Goes, envVars
<1>7. VerdictIsGiven'
  BY DEF Inv, Poll, VerdictIsGiven, Return, Goes, TypeOK
<1>8. SuccessIsCurrent'
  <2>1. \A u \in Turn \ {t} : stage'[u] = stage[u] /\ verdict'[u] = verdict[u]
    BY DEF Inv, Poll, Goes, Return, TypeOK
  <2> QED
    BY <2>1, SuccessIsKept DEF Poll, rowVars, envVars
<1> QED
  BY <1>1, <1>2, <1>3, <1>4, <1>5, <1>6, <1>7, <1>8 DEF Inv

\* A poll of the answer preserves Inv.
LEMMA ReadDecisionKeepsInv ==
  ASSUME Inv, NEW t \in Turn, ReadDecision(t)
  PROVE  Inv'
<1>1. TypeOK'
  BY SessionProtocolAssumption DEF Inv, ReadDecision, Goes, rowVars, envVars, outside,
         Stages, Decisions, TypeOK
<1>2. TurnsAreNumbered' /\ LiveTurnIsLatest'
  BY SessionProtocolAssumption DEF Inv, ReadDecision, TurnsAreNumbered, LiveTurnIsLatest,
         Goes, rowVars, Active, TypeOK
<1>3. QuestionsAreLive'
  BY DEF Inv, ReadDecision, QuestionsAreLive, Goes, rowVars, Active
<1>4. AllowedIsRecorded' /\ EffectsAreApproved'
  <2>1. CASE decision[t] = "pending"
    BY <2>1 DEF Inv, ReadDecision, Goes, AllowedIsRecorded, EffectsAreApproved, TypeOK
  <2>2. CASE ~(decision[t] = "pending")
    BY <2>2 DEF Inv, ReadDecision, Goes, AllowedIsRecorded, EffectsAreApproved, TypeOK
  <2> QED
    BY <2>1, <2>2
<1>5. LateIsLast' /\ OneLateEffect'
  BY DEF Inv, ReadDecision, LateIsLast, OneLateEffect, Goes, rowVars, Active, TypeOK
<1>6. CancellationShows'
  BY DEF Inv, ReadDecision, CancellationShows, Goes, envVars
<1>7. VerdictIsGiven'
  BY DEF Inv, ReadDecision, VerdictIsGiven, Goes, TypeOK
<1>8. SuccessIsCurrent'
  <2>1. \A u \in Turn \ {t} : stage'[u] = stage[u] /\ verdict'[u] = verdict[u]
    BY DEF Inv, ReadDecision, Goes, TypeOK
  <2> QED
    BY <2>1, SuccessIsKept DEF ReadDecision, rowVars, envVars
<1> QED
  BY <1>1, <1>2, <1>3, <1>4, <1>5, <1>6, <1>7, <1>8 DEF Inv

\* The deadline of a question preserves Inv.
LEMMA ExpireKeepsInv ==
  ASSUME Inv, NEW t \in Turn, Expire(t)
  PROVE  Inv'
<1>1. TypeOK'
  BY SessionProtocolAssumption DEF Inv, Expire, Steps, Late, rowVars, envVars, outside,
         Stages, Decisions, Goes, TypeOK
<1>2. TurnsAreNumbered' /\ LiveTurnIsLatest'
  BY SessionProtocolAssumption DEF Inv, Expire, TurnsAreNumbered, LiveTurnIsLatest,
         Steps, Late, rowVars, Active, Goes
<1>3. QuestionsAreLive'
  BY DEF Inv, Expire, QuestionsAreLive, Late, rowVars, Active, Goes
<1>4. AllowedIsRecorded' /\ EffectsAreApproved'
  BY DEF Inv, Expire, AllowedIsRecorded, EffectsAreApproved, Steps, Late, Goes, TypeOK
<1>5. LateIsLast' /\ OneLateEffect'
  BY DEF Inv, Expire, LateIsLast, OneLateEffect, Steps, Late, rowVars, Active, Goes
<1>6. CancellationShows'
  BY DEF Inv, Expire, CancellationShows, Late, envVars, Goes
<1>7. VerdictIsGiven'
  BY DEF Inv, Expire, VerdictIsGiven, Steps, Late, Goes
<1>8. SuccessIsCurrent'
  BY DEF Inv, Expire, SuccessIsCurrent, Steps, Late, rowVars, envVars, HostOf, Goes
<1> QED
  BY <1>1, <1>2, <1>3, <1>4, <1>5, <1>6, <1>7, <1>8 DEF Inv

\* The end of the wait preserves Inv.
LEMMA SettleKeepsInv ==
  ASSUME Inv, NEW t \in Turn, Settle(t)
  PROVE  Inv'
<1>1. TypeOK'
  BY SessionProtocolAssumption DEF Inv, Settle, Steps, envVars, outside, ACTIVE, Stages,
         Goes, TypeOK
<1>2. TurnsAreNumbered' /\ LiveTurnIsLatest'
  BY SessionProtocolAssumption DEF Inv, Settle, TurnsAreNumbered, LiveTurnIsLatest,
         Steps, Active, ACTIVE, Goes
<1>3. QuestionsAreLive'
  BY DEF Inv, Settle, QuestionsAreLive, Active, ACTIVE, Goes
<1>4. AllowedIsRecorded' /\ EffectsAreApproved'
  BY DEF Inv, Settle, AllowedIsRecorded, EffectsAreApproved, Steps, Goes
<1>5. LateIsLast' /\ OneLateEffect'
  BY DEF Inv, Settle, LateIsLast, OneLateEffect, Steps, Active, Goes
<1>6. CancellationShows'
  BY DEF Inv, Settle, CancellationShows, envVars, Goes
<1>7. VerdictIsGiven'
  BY DEF Inv, Settle, VerdictIsGiven, Steps, Goes
<1>8. SuccessIsCurrent'
  BY DEF Inv, Settle, SuccessIsCurrent, Steps, envVars, HostOf, Goes
<1> QED
  BY <1>1, <1>2, <1>3, <1>4, <1>5, <1>6, <1>7, <1>8 DEF Inv

\* The use of an answer preserves Inv.
LEMMA ResolveKeepsInv ==
  ASSUME Inv, NEW t \in Turn, Resolve(t)
  PROVE  Inv'
<1>1. TypeOK'
  <2>1. /\ stage' \in [Turn -> Stages] /\ gated' \in [Turn -> BOOLEAN]
        /\ answer' \in [Turn -> Decisions] /\ decision' \in [Turn -> Decisions]
    <3>1. CASE answer[t] = "allow"
      BY <3>1 DEF Inv, Resolve, Goes, Stages, TypeOK
    <3>2. CASE ~(answer[t] = "allow")
      BY <3>2, ReturnFacts DEF Resolve
    <3> QED
      BY <3>1, <3>2
  <2>2. envelope' \in ACTIVE \cup TERMINAL \cup {"created"}
    BY CheckpointFacts DEF Resolve, ACTIVE
  <2> QED
    BY <2>1, <2>2 DEF Inv, Resolve, rowVars, outside, TypeOK
<1>2. TurnsAreNumbered' /\ LiveTurnIsLatest'
  BY SessionProtocolAssumption DEF Inv, Resolve, TurnsAreNumbered, LiveTurnIsLatest,
         Goes, Return, rowVars, Active, TypeOK
<1>3. QuestionsAreLive'
  BY DEF Inv, Resolve, QuestionsAreLive, Goes, Return, rowVars, Active, TypeOK
<1>4. AllowedIsRecorded' /\ EffectsAreApproved'
  <2>1. CASE answer[t] = "allow"
    BY <2>1 DEF Inv, Resolve, Goes, AllowedIsRecorded, EffectsAreApproved, TypeOK
  <2>2. CASE ~(answer[t] = "allow")
    BY <2>2, ReturnFacts DEF Resolve
  <2> QED
    BY <2>1, <2>2
<1>5. LateIsLast' /\ OneLateEffect'
  BY DEF Inv, Resolve, LateIsLast, OneLateEffect, Goes, Return, rowVars, Active, TypeOK
<1>6. CancellationShows'
  BY DEF Inv, Resolve, CancellationShows, GuardedCheckpoint, Goes, Checkpoint
<1>7. VerdictIsGiven'
  BY DEF Inv, Resolve, VerdictIsGiven, Goes, Return, TypeOK
<1>8. SuccessIsCurrent'
  <2>1. \A u \in Turn \ {t} : stage'[u] = stage[u] /\ verdict'[u] = verdict[u]
    BY DEF Inv, Resolve, Goes, Return, TypeOK
  <2>2. envelope' = envelope \/ envelope' # "completed"
    BY DEF Resolve, GuardedCheckpoint, Checkpoint
  <2> QED
    BY <2>1, <2>2, SuccessIsKept DEF Resolve, rowVars
<1> QED
  BY <1>1, <1>2, <1>3, <1>4, <1>5, <1>6, <1>7, <1>8 DEF Inv

\* The last check before the effect preserves Inv.
LEMMA CheckCancelKeepsInv ==
  ASSUME Inv, NEW t \in Turn, CheckCancel(t)
  PROVE  Inv'
<1>1. TypeOK'
  <2>1. /\ stage' \in [Turn -> Stages] /\ gated' \in [Turn -> BOOLEAN]
        /\ answer' \in [Turn -> Decisions] /\ decision' \in [Turn -> Decisions]
    <3>1. CASE flag
      BY <3>1, ReturnFacts DEF CheckCancel
    <3>2. CASE ~(flag)
      BY <3>2 DEF Inv, CheckCancel, Goes, Stages, TypeOK
    <3> QED
      BY <3>1, <3>2
  <2> QED
    BY <2>1 DEF Inv, CheckCancel, rowVars, envVars, outside, TypeOK
<1>2. TurnsAreNumbered' /\ LiveTurnIsLatest'
  BY SessionProtocolAssumption DEF Inv, CheckCancel, TurnsAreNumbered, LiveTurnIsLatest,
         Return, Goes, rowVars, Active, TypeOK
<1>3. QuestionsAreLive'
  BY DEF Inv, CheckCancel, QuestionsAreLive, Return, Goes, rowVars, Active, TypeOK
<1>4. AllowedIsRecorded' /\ EffectsAreApproved'
  <2>1. CASE flag
    BY <2>1, ReturnFacts DEF CheckCancel
  <2>2. CASE ~(flag)
    BY <2>2 DEF Inv, CheckCancel, Goes, AllowedIsRecorded, EffectsAreApproved, TypeOK
  <2> QED
    BY <2>1, <2>2
<1>5. LateIsLast' /\ OneLateEffect'
  BY DEF Inv, CheckCancel, LateIsLast, OneLateEffect, Return, Goes, rowVars, Active,
         TypeOK
<1>6. CancellationShows'
  BY DEF Inv, CheckCancel, CancellationShows, Goes, envVars
<1>7. VerdictIsGiven'
  BY DEF Inv, CheckCancel, VerdictIsGiven, Return, Goes, TypeOK
<1>8. SuccessIsCurrent'
  <2>1. \A u \in Turn \ {t} : stage'[u] = stage[u] /\ verdict'[u] = verdict[u]
    BY DEF Inv, CheckCancel, Goes, Return, TypeOK
  <2> QED
    BY <2>1, SuccessIsKept DEF CheckCancel, rowVars, envVars
<1> QED
  BY <1>1, <1>2, <1>3, <1>4, <1>5, <1>6, <1>7, <1>8 DEF Inv

\* The effect preserves Inv.
LEMMA ActKeepsInv ==
  ASSUME Inv, NEW t \in Turn, Act(t)
  PROVE  Inv'
<1>1. TypeOK'
  BY SessionProtocolAssumption DEF Inv, Act, Steps, rowVars, envVars, outside, Stages,
         Goes, TypeOK
<1>2. TurnsAreNumbered' /\ LiveTurnIsLatest'
  BY SessionProtocolAssumption DEF Inv, Act, TurnsAreNumbered, LiveTurnIsLatest, Steps,
         Active, rowVars, Goes
<1>3. QuestionsAreLive'
  BY DEF Inv, Act, QuestionsAreLive, Active, rowVars, Goes
<1>4. AllowedIsRecorded' /\ EffectsAreApproved'
  BY DEF Inv, Act, AllowedIsRecorded, EffectsAreApproved, Steps, Goes
<1>5. LateIsLast' /\ OneLateEffect'
  <2>1. \A u \in Turn \ {t} : late'[u] = late[u] /\ stage'[u] = stage[u]
    BY DEF Inv, Act, Steps, Goes
  <2>2. late[t] = 0
    BY DEF Inv, LateIsLast, Act, Steps
  <2>3. late'[t] = (IF Active(t) THEN 0 ELSE 1) /\ stage'[t] = "acting"
    BY <2>2 DEF Inv, Act, Steps, Goes, TypeOK
  <2> QED
    BY <2>1, <2>3 DEF Inv, Act, Active, rowVars, LateIsLast, OneLateEffect
<1>6. CancellationShows'
  BY DEF Inv, Act, CancellationShows, envVars, Goes
<1>7. VerdictIsGiven'
  BY DEF Inv, Act, VerdictIsGiven, Steps, Goes
<1>8. SuccessIsCurrent'
  BY DEF Inv, Act, SuccessIsCurrent, Steps, rowVars, envVars, HostOf, Goes
<1> QED
  BY <1>1, <1>2, <1>3, <1>4, <1>5, <1>6, <1>7, <1>8 DEF Inv

\* The return of a call preserves Inv.
LEMMA EndCallKeepsInv ==
  ASSUME Inv, NEW t \in Turn, EndCall(t)
  PROVE  Inv'
<1>1. TypeOK'
  BY SessionProtocolAssumption DEF Inv, EndCall, Return, rowVars, envVars, outside,
         Stages, Decisions, Goes, TypeOK
<1>2. TurnsAreNumbered' /\ LiveTurnIsLatest'
  BY SessionProtocolAssumption DEF Inv, EndCall, TurnsAreNumbered, LiveTurnIsLatest,
         Return, rowVars, Active, Goes
<1>3. QuestionsAreLive'
  BY DEF Inv, EndCall, QuestionsAreLive, Return, rowVars, Active, Goes
<1>4. AllowedIsRecorded' /\ EffectsAreApproved'
  BY DEF Inv, EndCall, AllowedIsRecorded, EffectsAreApproved, Return, Goes, TypeOK
<1>5. LateIsLast' /\ OneLateEffect'
  BY DEF Inv, EndCall, LateIsLast, OneLateEffect, Return, rowVars, Active, Goes
<1>6. CancellationShows'
  BY DEF Inv, EndCall, CancellationShows, envVars, Goes
<1>7. VerdictIsGiven'
  BY DEF Inv, EndCall, VerdictIsGiven, Return, Goes
<1>8. SuccessIsCurrent'
  BY DEF Inv, EndCall, SuccessIsCurrent, Return, rowVars, envVars, HostOf, Goes
<1> QED
  BY <1>1, <1>2, <1>3, <1>4, <1>5, <1>6, <1>7, <1>8 DEF Inv

\* The result of the agent preserves Inv.
LEMMA EndLoopKeepsInv ==
  ASSUME Inv, NEW t \in Turn, NEW v \in Outcomes, EndLoop(t, v)
  PROVE  Inv'
<1>1. TypeOK'
  BY SessionProtocolAssumption DEF Inv, EndLoop, Steps, rowVars, envVars, outside,
         TERMINAL, Stages, Verdicts, Goes, TypeOK
<1>2. TurnsAreNumbered' /\ LiveTurnIsLatest'
  BY SessionProtocolAssumption DEF Inv, EndLoop, TurnsAreNumbered, LiveTurnIsLatest,
         Steps, rowVars, Active, Goes
<1>3. QuestionsAreLive'
  BY DEF Inv, EndLoop, QuestionsAreLive, rowVars, Active, Goes
<1>4. AllowedIsRecorded' /\ EffectsAreApproved'
  BY DEF Inv, EndLoop, AllowedIsRecorded, EffectsAreApproved, Steps, Goes
<1>5. LateIsLast' /\ OneLateEffect'
  BY DEF Inv, EndLoop, LateIsLast, OneLateEffect, Steps, rowVars, Active, Goes
<1>6. CancellationShows'
  BY DEF Inv, EndLoop, CancellationShows, envVars, Goes
<1>7. VerdictIsGiven'
  <2>1. \A u \in Turn \ {t} : stage'[u] = stage[u] /\ verdict'[u] = verdict[u]
    BY GoesFacts DEF Inv, EndLoop, Steps, Stages
  <2>2. verdict'[t] \in Verdicts
    BY SessionProtocolAssumption DEF Inv, EndLoop, Verdicts, TERMINAL, TypeOK
  <2> QED
    BY <2>1, <2>2 DEF Inv, VerdictIsGiven
<1>8. SuccessIsCurrent'
  BY DEF Inv, EndLoop, SuccessIsCurrent, Steps, rowVars, envVars, HostOf, Goes
<1> QED
  BY <1>1, <1>2, <1>3, <1>4, <1>5, <1>6, <1>7, <1>8 DEF Inv

\* The last checkpoint preserves Inv.
LEMMA SaveKeepsInv ==
  ASSUME Inv, NEW t \in Turn, Save(t)
  PROVE  Inv'
<1>1. TypeOK'
  <2>1. verdict[t] \in TERMINAL
    BY DEF Inv, VerdictIsGiven, Verdicts, Save, Steps
  <2>2. envelope' \in ACTIVE \cup TERMINAL \cup {"created"}
    BY <2>1, CheckpointFacts DEF Save
  <2>3. stage' \in [Turn -> Stages]
    BY GoesFacts DEF Save, Steps, Stages
  <2> QED
    BY <2>2, <2>3 DEF Inv, Save, rowVars, outside, TypeOK
<1>2. TurnsAreNumbered' /\ LiveTurnIsLatest'
  BY SessionProtocolAssumption DEF Inv, Save, TurnsAreNumbered, LiveTurnIsLatest, Steps,
         rowVars, Active, Goes
<1>3. QuestionsAreLive'
  BY DEF Inv, Save, QuestionsAreLive, rowVars, Active, Goes
<1>4. AllowedIsRecorded' /\ EffectsAreApproved'
  BY DEF Inv, Save, AllowedIsRecorded, EffectsAreApproved, Steps, Goes
<1>5. LateIsLast' /\ OneLateEffect'
  BY DEF Inv, Save, LateIsLast, OneLateEffect, Steps, rowVars, Active, Goes
<1>6. CancellationShows'
  BY DEF Inv, Save, CancellationShows, GuardedCheckpoint, Goes, Checkpoint
<1>7. VerdictIsGiven'
  BY DEF Inv, Save, VerdictIsGiven, Steps, Goes
<1>8. SuccessIsCurrent'
  BY DEF Inv, Save, SuccessIsCurrent, Steps, GuardedCheckpoint, rowVars, HostOf, Goes,
         Current, Checkpoint, TypeOK
<1> QED
  BY <1>1, <1>2, <1>3, <1>4, <1>5, <1>6, <1>7, <1>8 DEF Inv

\* The end of a turn by its worker preserves Inv.
LEMMA FinishKeepsInv ==
  ASSUME Inv, NEW t \in Turn, Finish(t)
  PROVE  Inv'
<1>1. TypeOK'
  <2>1. verdict[t] \in TERMINAL
    BY DEF Inv, Verdicts, VerdictIsGiven, Finish, Steps
  <2>2. turn' \in [Turn -> ACTIVE \cup TERMINAL \cup {"absent"}]
    BY <2>1 DEF Inv, Finish, End, TERMINAL, TypeOK
  <2>3. decision' \in [Turn -> Decisions]
    BY DEF Inv, Finish, End, Decisions, TypeOK
  <2>4. stage' \in [Turn -> Stages]
    BY GoesFacts DEF Finish, Steps, Stages
  <2> QED
    BY <2>2, <2>3, <2>4 DEF Inv, Finish, envVars, outside, TypeOK
<1>2. TurnsAreNumbered' /\ LiveTurnIsLatest'
  <2>1. verdict[t] \in TERMINAL
    BY DEF Inv, Verdicts, VerdictIsGiven, Finish, Steps
  <2>2. ~(t > latest)
    BY DEF Inv, TurnsAreNumbered, Finish, Steps
  <2>3. /\ stage'[t] = "over" /\ \A u \in Turn \ {t} : stage'[u] = stage[u]
    BY GoesFacts DEF Finish, Steps, Stages
  <2>4. /\ turn'[t] = turn[t] \/ turn'[t] \in TERMINAL
        /\ \A u \in Turn \ {t} : turn'[u] = turn[u]
    BY <2>1 DEF Inv, Finish, End, TERMINAL
  <2> QED
    BY <2>2, <2>3, <2>4 DEF Inv, Finish, TurnsAreNumbered, LiveTurnIsLatest, Active,
           TERMINAL
<1>3. QuestionsAreLive'
  BY DEF Inv, Finish, QuestionsAreLive, Active, End, Goes
<1>4. AllowedIsRecorded' /\ EffectsAreApproved'
  <2>1. \A u \in Turn : decision[u] = "allow" => decision'[u] = "allow"
    BY DEF Inv, Finish, End
  <2>2. /\ stage'[t] = "over" /\ \A u \in Turn \ {t} : stage'[u] = stage[u]
    BY GoesFacts DEF Finish, Steps, Stages
  <2> QED
    BY <2>1, <2>2 DEF Inv, Finish, AllowedIsRecorded, EffectsAreApproved
<1>5. LateIsLast' /\ OneLateEffect'
  BY DEF Inv, Finish, LateIsLast, OneLateEffect, Steps, Active, End, Goes
<1>6. CancellationShows'
  BY DEF Inv, Finish, CancellationShows, envVars, Goes
<1>7. VerdictIsGiven'
  BY DEF Inv, Finish, VerdictIsGiven, Steps, Goes
<1>8. SuccessIsCurrent'
  BY DEF Inv, Finish, SuccessIsCurrent, Steps, envVars, HostOf, Goes
<1> QED
  BY <1>1, <1>2, <1>3, <1>4, <1>5, <1>6, <1>7, <1>8 DEF Inv

\* An answer preserves Inv.
LEMMA RespondKeepsInv ==
  ASSUME Inv, NEW t \in Turn, NEW d \in Decisions, Respond(t, d)
  PROVE  Inv'
<1>1. TypeOK'
  BY SessionProtocolAssumption DEF Inv, Respond, rowVars, envVars, workerVars, outside,
         TypeOK
<1>2. TurnsAreNumbered' /\ LiveTurnIsLatest'
  BY SessionProtocolAssumption DEF Inv, Respond, TurnsAreNumbered, LiveTurnIsLatest,
         Active, rowVars, workerVars
<1>3. QuestionsAreLive'
  BY DEF Inv, Respond, QuestionsAreLive, Active, rowVars
<1>4. AllowedIsRecorded' /\ EffectsAreApproved'
  BY DEF Inv, Respond, AllowedIsRecorded, EffectsAreApproved, workerVars
<1>5. LateIsLast' /\ OneLateEffect'
  BY DEF Inv, Respond, LateIsLast, OneLateEffect, Active, rowVars, workerVars
<1>6. CancellationShows'
  BY DEF Inv, Respond, CancellationShows, envVars
<1>7. VerdictIsGiven'
  BY DEF Inv, Respond, VerdictIsGiven, workerVars
<1>8. SuccessIsCurrent'
  BY DEF Inv, Respond, SuccessIsCurrent, rowVars, envVars, workerVars, HostOf
<1> QED
  BY <1>1, <1>2, <1>3, <1>4, <1>5, <1>6, <1>7, <1>8 DEF Inv

\* A cancellation preserves Inv.
LEMMA RequestCancelKeepsInv ==
  ASSUME Inv, RequestCancel
  PROVE  Inv'
<1>1. TypeOK'
  <2>1. envelope' \in ACTIVE \cup TERMINAL \cup {"created"} /\ flag' \in BOOLEAN
    BY DEF Inv, RequestCancel, TERMINAL, envVars, TypeOK
  <2>2. interrupts' \in 0 .. MaxInterrupts /\ halfway' \in Nat
    BY SessionProtocolAssumption DEF Inv, RequestCancel, TypeOK
  <2> QED
    BY <2>1, <2>2 DEF Inv, RequestCancel, rowVars, workerVars, TypeOK
<1>2. TurnsAreNumbered' /\ LiveTurnIsLatest'
  BY SessionProtocolAssumption DEF Inv, RequestCancel, TurnsAreNumbered,
         LiveTurnIsLatest, rowVars, workerVars, Active
<1>3. QuestionsAreLive'
  BY DEF Inv, RequestCancel, QuestionsAreLive, rowVars, Active
<1>4. AllowedIsRecorded' /\ EffectsAreApproved'
  BY DEF Inv, RequestCancel, AllowedIsRecorded, EffectsAreApproved, workerVars
<1>5. LateIsLast' /\ OneLateEffect'
  BY DEF Inv, RequestCancel, LateIsLast, OneLateEffect, rowVars, workerVars, Active
<1>6. CancellationShows'
  BY DEF Inv, RequestCancel, CancellationShows, envVars
<1>7. VerdictIsGiven'
  BY DEF Inv, RequestCancel, VerdictIsGiven, workerVars
<1>8. SuccessIsCurrent'
  BY DEF Inv, RequestCancel, SuccessIsCurrent, envVars, rowVars, workerVars, HostOf
<1> QED
  BY <1>1, <1>2, <1>3, <1>4, <1>5, <1>6, <1>7, <1>8 DEF Inv

\* The end of the live turns by an interrupt preserves Inv.
LEMMA EndTurnsKeepsInv ==
  ASSUME Inv, EndTurns
  PROVE  Inv'
<1>1. TypeOK'
  BY SessionProtocolAssumption DEF Inv, EndTurns, End, envVars, workerVars, TERMINAL,
         Decisions, TypeOK
<1>2. TurnsAreNumbered' /\ LiveTurnIsLatest'
  BY SessionProtocolAssumption DEF Inv, EndTurns, TurnsAreNumbered, LiveTurnIsLatest,
         End, Active, workerVars, TypeOK
<1>3. QuestionsAreLive'
  BY DEF Inv, EndTurns, QuestionsAreLive, End
<1>4. AllowedIsRecorded' /\ EffectsAreApproved'
  BY DEF Inv, EndTurns, AllowedIsRecorded, EffectsAreApproved, End, workerVars
<1>5. LateIsLast' /\ OneLateEffect'
  BY DEF Inv, EndTurns, LateIsLast, OneLateEffect, End, Active, workerVars
<1>6. CancellationShows'
  BY DEF Inv, EndTurns, CancellationShows, envVars
<1>7. VerdictIsGiven'
  BY DEF Inv, EndTurns, VerdictIsGiven, workerVars
<1>8. SuccessIsCurrent'
  BY DEF Inv, EndTurns, SuccessIsCurrent, envVars, workerVars, HostOf
<1> QED
  BY <1>1, <1>2, <1>3, <1>4, <1>5, <1>6, <1>7, <1>8 DEF Inv

\* The death of a process preserves Inv.
LEMMA DieKeepsInv ==
  ASSUME Inv, NEW p \in Proc, Die(p)
  PROVE  Inv'
<1>1. TypeOK'
  BY SessionProtocolAssumption DEF Inv, Die, rowVars, envVars, workerVars, TypeOK
<1>2. TurnsAreNumbered' /\ LiveTurnIsLatest'
  BY SessionProtocolAssumption DEF Inv, Die, TurnsAreNumbered, LiveTurnIsLatest, rowVars,
         workerVars, Active
<1>3. QuestionsAreLive'
  BY DEF Inv, Die, QuestionsAreLive, rowVars, Active
<1>4. AllowedIsRecorded' /\ EffectsAreApproved'
  BY DEF Inv, Die, AllowedIsRecorded, EffectsAreApproved, workerVars
<1>5. LateIsLast' /\ OneLateEffect'
  BY DEF Inv, Die, LateIsLast, OneLateEffect, rowVars, workerVars, Active
<1>6. CancellationShows'
  BY DEF Inv, Die, CancellationShows, envVars
<1>7. VerdictIsGiven'
  BY DEF Inv, Die, VerdictIsGiven, workerVars
<1>8. SuccessIsCurrent'
  BY DEF Inv, Die, SuccessIsCurrent, rowVars, envVars, workerVars, HostOf
<1> QED
  BY <1>1, <1>2, <1>3, <1>4, <1>5, <1>6, <1>7, <1>8 DEF Inv

\* A stuttering step preserves Inv.
LEMMA StutterKeepsInv ==
  ASSUME Inv, UNCHANGED vars
  PROVE  Inv'
<1>1. TypeOK'
  BY SessionProtocolAssumption DEF Inv, vars, rowVars, envVars, workerVars, outside,
         TypeOK
<1>2. TurnsAreNumbered' /\ LiveTurnIsLatest'
  BY SessionProtocolAssumption DEF Inv, vars, TurnsAreNumbered, LiveTurnIsLatest,
         rowVars, workerVars, Active
<1>3. QuestionsAreLive'
  BY DEF Inv, vars, QuestionsAreLive, rowVars, Active
<1>4. AllowedIsRecorded' /\ EffectsAreApproved'
  BY DEF Inv, vars, AllowedIsRecorded, EffectsAreApproved, workerVars
<1>5. LateIsLast' /\ OneLateEffect'
  BY DEF Inv, vars, LateIsLast, OneLateEffect, rowVars, workerVars, Active
<1>6. CancellationShows'
  BY DEF Inv, vars, CancellationShows, envVars
<1>7. VerdictIsGiven'
  BY DEF Inv, vars, VerdictIsGiven, workerVars
<1>8. SuccessIsCurrent'
  BY DEF Inv, vars, SuccessIsCurrent, rowVars, envVars, workerVars, HostOf
<1> QED
  BY <1>1, <1>2, <1>3, <1>4, <1>5, <1>6, <1>7, <1>8 DEF Inv

-----------------------------------------------------------------------------
(* The theorems *)

\* A thread that nobody has used satisfies Inv.
LEMMA InitInv == Init => Inv
<1> SUFFICES ASSUME Init PROVE Inv
  OBVIOUS
<1>1. TypeOK
  <2>1. latest \in 0 .. MaxTurns /\ calls \in [Turn -> 0 .. MaxCalls]
        /\ interrupts \in 0 .. MaxInterrupts /\ deaths \in 0 .. MaxDeaths
    BY SessionProtocolAssumption DEF Init
  <2>2. decision \in [Turn -> Decisions] /\ answer \in [Turn -> Decisions]
        /\ stage \in [Turn -> Stages]
    BY DEF Init, Decisions, Stages
  <2>3. late \in [Turn -> Nat] /\ halfway \in Nat /\ gated \in [Turn -> BOOLEAN]
        /\ verdict \in [Turn -> Verdicts \cup {None}]
        /\ owner \in [Turn -> Proc \cup {None}]
    BY DEF Init
  <2>4. turn \in [Turn -> ACTIVE \cup TERMINAL \cup {"absent"}]
    BY DEF Init
  <2> QED
    BY <2>1, <2>2, <2>3, <2>4 DEF Init, TypeOK
<1>2. TurnsAreNumbered /\ LiveTurnIsLatest /\ QuestionsAreLive
  BY DEF Init, TurnsAreNumbered, LiveTurnIsLatest, QuestionsAreLive, Active, ACTIVE, Turn
<1>3. AllowedIsRecorded /\ EffectsAreApproved /\ VerdictIsGiven
  BY DEF Init, AllowedIsRecorded, EffectsAreApproved, VerdictIsGiven
<1>4. LateIsLast /\ OneLateEffect /\ CancellationShows /\ SuccessIsCurrent
  BY DEF Init, LateIsLast, OneLateEffect, CancellationShows, SuccessIsCurrent
<1> QED
  BY <1>1, <1>2, <1>3, <1>4 DEF Inv

\* Every step of Next preserves Inv.
LEMMA NextKeepsInv ==
  ASSUME Inv, [Next]_vars
  PROVE  Inv'
<1>1. ASSUME NEW t \in Turn, Work(t)
      PROVE  Inv'
  BY <1>1, OpenKeepsInv, StartTurnKeepsInv, BindCliKeepsInv, AnnounceKeepsInv, EnterKeepsInv,
     QuitKeepsInv, StartCallKeepsInv, AskKeepsInv, AnnounceWaitKeepsInv, PollKeepsInv,
     ReadDecisionKeepsInv, SettleKeepsInv, ResolveKeepsInv, CheckCancelKeepsInv, ActKeepsInv,
     EndCallKeepsInv, EndLoopKeepsInv, SaveKeepsInv, FinishKeepsInv
     DEF Work
<1>2. ASSUME NEW t \in Turn, NEW d \in {"allow", "deny"},
             PromptAnswered(t, d) \/ PromptFails(t) \/ Respond(t, d)
      PROVE  Inv'
  BY <1>2, PromptKeepsInv, RespondKeepsInv DEF Decisions
<1> QED
  BY <1>1, <1>2, BeginKeepsInv, ExpireKeepsInv, RequestCancelKeepsInv, EndTurnsKeepsInv,
     DieKeepsInv, StutterKeepsInv
     DEF Next

\* Inv holds in every reachable state.
THEOREM InvHolds == Spec => []Inv
<1> QED
  BY InitInv, NextKeepsInv, PTL DEF Spec

\* A gated tool call reaches its effect only with its own approval allowed
\* (execute and _approve of session_protocol.py).
THEOREM GatedEffectsAreApproved == Spec => []EffectsAreApproved
<1>1. Inv => EffectsAreApproved
  BY DEF Inv
<1> QED
  BY <1>1, InvHolds, PTL

\* An approval that is open belongs to the live turn begun last: _end expires the
\* others and begin ends the turn of a host that died.
THEOREM OpenQuestionsAreCurrent == Spec => []QuestionsAreCurrent
<1>1. Inv => QuestionsAreCurrent
  BY DEF Inv, QuestionsAreLive, LiveTurnIsLatest, QuestionsAreCurrent
<1> QED
  BY <1>1, InvHolds, PTL

\* After the end of its turn a worker starts at most the effect it had checked.
THEOREM InterruptedTurnsActOnce == Spec => []OneLateEffect
<1>1. Inv => OneLateEffect
  BY DEF Inv
<1> QED
  BY <1>1, InvHolds, PTL

\* No worker overwrites a cancellation on record (checkpoint).
THEOREM RecordedCancellationsShow == Spec => []CancellationShows
<1>1. Inv => CancellationShows
  BY DEF Inv
<1> QED
  BY <1>1, InvHolds, PTL

\* Success on the envelope is that of the turn begun last (checkpoint with
\* expected_turn_id).
THEOREM ReportedSuccessIsCurrent == Spec => []SuccessIsCurrent
<1>1. Inv => SuccessIsCurrent
  BY DEF Inv
<1> QED
  BY <1>1, InvHolds, PTL

-----------------------------------------------------------------------------
(* The ends of turns.                                                      *)

\* A turn that is over is live never again, and the worker that stops leaves no live turn.
TurnMoves(t) ==
  /\ turn[t] \in TERMINAL => turn'[t] = turn[t]
  /\ Active(t)' => \/ Active(t) /\ stage'[t] = stage[t]
                  \/ stage'[t] \notin {"none", "over"}

\* Every step moves every turn like that.
LEMMA TurnSteps ==
  ASSUME Inv, [Next]_vars
  PROVE  \A t \in Turn : TurnMoves(t)
<1> USE DEF TurnMoves, Active, ACTIVE, TERMINAL, rowVars, workerVars
<1>1. ASSUME NEW u \in Turn, NEW p \in Proc, Begin(u, p)
      PROVE  \A t \in Turn : TurnMoves(t)
  <2>1. turn[u] = "absent" /\ stage'[u] = "opened"
    BY <1>1, SessionProtocolAssumption DEF Begin, Inv, TurnsAreNumbered, TypeOK, Turn, Goes
  <2>2. \A t \in Turn \ {u} :
          /\ turn'[t] = (IF Active(t) THEN "needs_input" ELSE turn[t])
          /\ stage'[t] = stage[t]
    BY <1>1 DEF Begin, Inv, TypeOK, Goes
  <2> QED
    BY <2>1, <2>2
<1>2. ASSUME NEW u \in Turn, Open(u) \/ BindCli(u)
      PROVE  \A t \in Turn : TurnMoves(t)
  BY <1>2 DEF Open, BindCli, Goes, Inv, TypeOK
<1>3. ASSUME NEW u \in Turn, Finish(u)
      PROVE  \A t \in Turn : TurnMoves(t)
  <2>1. verdict[u] \in TERMINAL
    BY <1>3 DEF Finish, Steps, Inv, VerdictIsGiven, Verdicts
  <2> QED
    BY <1>3, <2>1 DEF Finish, Steps, End, Goes, Inv, TypeOK
<1>4. ASSUME NEW u \in Turn,
             \/ StartTurn(u) \/ Announce(u) \/ Enter(u) \/ Quit(u)
             \/ \E g \in BOOLEAN : StartCall(u, g)
             \/ (\E d \in {"allow", "deny"} : PromptAnswered(u, d)) \/ PromptFails(u)
             \/ AnnounceWait(u) \/ Poll(u) \/ ReadDecision(u) \/ Expire(u) \/ Resolve(u)
             \/ CheckCancel(u) \/ Act(u) \/ EndCall(u)
             \/ (\E v \in Outcomes : EndLoop(u, v)) \/ Save(u)
      PROVE  \A t \in Turn : TurnMoves(t)
  <2>1. turn' = turn /\ \A t \in Turn \ {u} : stage'[t] = stage[t]
    BY <1>4 DEF StartTurn, Announce, Enter, Quit, StartCall, AnnounceWait, PromptAnswered,
           PromptFails, PromptRaises, Abort, Poll, ReadDecision, Expire, Resolve,
           CheckCancel, Act, EndCall, EndLoop, Save, Steps, Return, Goes, Inv, TypeOK
  <2>2. stage'[u] \notin {"none", "over"} \/ stage'[u] = stage[u]
    BY <1>4 DEF StartTurn, Announce, Enter, Quit, StartCall, AnnounceWait, PromptAnswered,
           PromptFails, PromptRaises, Abort, Poll, ReadDecision, Expire, Resolve,
           CheckCancel, Act, EndCall, EndLoop, Save, Steps, Return, Goes, Inv, TypeOK
  <2> QED
    BY <2>1, <2>2
<1>5. ASSUME NEW u \in Turn, Ask(u)
      PROVE  \A t \in Turn : TurnMoves(t)
  BY <1>5 DEF Ask, Return, Goes, Inv, TypeOK
<1>6. ASSUME NEW u \in Turn, Settle(u)
      PROVE  \A t \in Turn : TurnMoves(t)
  BY <1>6 DEF Settle, Steps, Goes, Inv, TypeOK
<1>7. ASSUME EndTurns
      PROVE  \A t \in Turn : TurnMoves(t)
  BY <1>7 DEF EndTurns, End
<1>8. ASSUME \/ \E t \in Turn, d \in {"allow", "deny"} : Respond(t, d)
             \/ RequestCancel \/ (\E p \in Proc : Die(p)) \/ UNCHANGED vars
      PROVE  \A t \in Turn : TurnMoves(t)
  BY <1>8 DEF Respond, RequestCancel, Die, vars
<1> QED
  BY <1>1, <1>2, <1>3, <1>4, <1>5, <1>6, <1>7, <1>8 DEF Next, Work

\* The safety core of TurnEnds: a turn that blocks every later one has a worker (begin,
\* finish and the hosts' loops), so that it ends or its host is found dead.
THEOREM BlockingTurnsAreWorked == Spec => []LiveTurnsAreWorked
<1>1. Init => LiveTurnsAreWorked
  BY DEF Init, LiveTurnsAreWorked, Active, ACTIVE
<1>2. ASSUME Inv, LiveTurnsAreWorked, [Next]_vars
      PROVE  LiveTurnsAreWorked'
  BY <1>2, TurnSteps DEF LiveTurnsAreWorked, TurnMoves, Active
<1> QED
  BY <1>1, <1>2, InvHolds, PTL DEF Spec

\* FirstEndStands: _end, finish and begin write only what is still live.
THEOREM EndsAreFinal == Spec => FirstEndStands
<1>1. ASSUME Inv, [Next]_vars
      PROVE  \A t \in Turn : turn[t] \in TERMINAL => turn'[t] = turn[t]
  BY <1>1, TurnSteps DEF TurnMoves
<1> QED
  BY <1>1, InvHolds, PTL DEF Spec, FirstEndStands
=============================================================================
