--------------------------- MODULE SessionProtocol ---------------------------
(***************************************************************************)
(* One conversation thread of the session ledger:                          *)
(* src/src/smara/session_protocol.py (turns, tool items, approvals) over   *)
(* runtime_session.py (the envelope that clients read), and the three      *)
(* hosts that run turns on it: the app server (app_server.py), the Desktop *)
(* companion (local_agent_runtime.py) and the CLI (cli.py).                *)
(*                                                                         *)
(* Threads share no row, so one is modelled.  A turn is executed by one    *)
(* worker thread of its host; every database transaction of the worker is  *)
(* an action, and other processes act between any two.  Items and the      *)
(* event journal only record what the other state decides: left out.       *)
(***************************************************************************)
EXTENDS Naturals

CONSTANTS
  MaxTurns,      \* bound: turns of the thread
  Proc,          \* host processes; one that died does not come back
  None,
  Host,          \* what each process is
  Outcomes,      \* how an agent that was not cancelled may end
  MaxCalls,      \* bound: tool calls of a turn (its agent budget)
  MaxInterrupts, \* bound: cancellations asked by clients
  MaxDeaths      \* bound: processes killed

Turn  == 1 .. MaxTurns     \* turns are numbered as they begin
Hosts == {"server", "desktop", "cli"}

ASSUME SessionProtocolAssumption ==
  /\ None \notin Proc /\ MaxTurns \in Nat
  /\ Host \in [Proc -> Hosts]
  /\ Outcomes \subseteq {"completed", "failed", "needs_input"}
  /\ MaxCalls \in Nat /\ MaxInterrupts \in Nat /\ MaxDeaths \in Nat

VARIABLES
  turn,       \* protocol_turns.status; "absent" before begin
  owner,      \* protocol_turns.owner_pid
  latest,     \* the turn created last, 0 before the first
  envelope,   \* runtime_sessions.status
  flag,       \* runtime_sessions.cancel_requested
  stage,      \* where the worker of a turn is
  gated,      \* its tool call needs an approval
  decision,   \* protocol_approvals.decision of that call
  answer,     \* the decision the worker read
  verdict,    \* the status the worker is about to save
  calls,      \* tool calls begun
  alive,      \* processes that run
  halfway,    \* clients between the two transactions of interrupt
  interrupts, \* cancellations so far
  deaths,     \* processes killed so far
  late        \* history: actions started after the end of their turn

rowVars    == <<turn, owner, latest>>
envVars    == <<envelope, flag>>
workerVars == <<stage, gated, answer, verdict, calls, late>>
outside    == <<alive, halfway, interrupts, deaths>>
vars == <<rowVars, envVars, workerVars, decision, outside>>

ACTIVE   == {"running", "waiting_approval"}
TERMINAL == {"completed", "failed", "needs_input", "cancelled"}
Verdicts == TERMINAL
Decisions == {"none", "pending", "allow", "deny", "expired"}

\* begin and its first item; start_turn; checkpoint(running); the loop of tool
\* calls (idle), one call from its item to its effect; the steps of the end.
Stages == {"none", "opened", "begun", "started", "announced", "quitting", "idle",
           "item", "asked", "prompted", "polling", "polled", "decided", "settled",
           "checked", "go", "acting", "saving", "finishing", "over"}

Active(t)  == turn[t] \in ACTIVE
Current(t) == latest = t /\ Active(t)
Lives(t)   == owner[t] \in alive
HostOf(t)  == Host[owner[t]]

TypeOK ==
  /\ turn \in [Turn -> ACTIVE \cup TERMINAL \cup {"absent"}]
  /\ owner \in [Turn -> Proc \cup {None}] /\ latest \in 0 .. MaxTurns
  /\ envelope \in ACTIVE \cup TERMINAL \cup {"created"} /\ flag \in BOOLEAN
  /\ stage \in [Turn -> Stages]
  /\ gated \in [Turn -> BOOLEAN]
  /\ decision \in [Turn -> Decisions] /\ answer \in [Turn -> Decisions]
  /\ verdict \in [Turn -> Verdicts \cup {None}]
  /\ calls \in [Turn -> 0 .. MaxCalls] /\ late \in [Turn -> Nat]
  /\ alive \subseteq Proc /\ halfway \in Nat
  /\ interrupts \in 0 .. MaxInterrupts /\ deaths \in 0 .. MaxDeaths

\* create_or_get made the thread.
Init ==
  /\ turn = [t \in Turn |-> "absent"] /\ owner = [t \in Turn |-> None]
  /\ latest = 0 /\ envelope = "created" /\ flag = FALSE
  /\ stage = [t \in Turn |-> "none"]
  /\ gated = [t \in Turn |-> FALSE]
  /\ decision = [t \in Turn |-> "none"] /\ answer = [t \in Turn |-> "none"]
  /\ verdict = [t \in Turn |-> None]
  /\ calls = [t \in Turn |-> 0] /\ late = [t \in Turn |-> 0]
  /\ alive = Proc /\ halfway = 0 /\ interrupts = 0 /\ deaths = 0

-----------------------------------------------------------------------------
(* The pieces of the transactions *)

Goes(t, s) == stage' = [stage EXCEPT ![t] = s]

\* _end, for every turn in S: the turn's status and its open approvals.
End(S, s) ==
  /\ turn' = [t \in Turn |-> IF t \in S THEN s ELSE turn[t]]
  /\ decision' = [t \in Turn |-> IF t \in S /\ decision[t] = "pending"
                                 THEN "expired" ELSE decision[t]]

\* Mutants: the last writer wins; a worker writes for whatever turn is live.
CheckpointPlain(s) == envelope' = s
GuardedCheckpointAny(t, s) == envelope' = IF flag THEN "cancelled" ELSE s

\* checkpoint: a recorded cancellation wins over every other status.
Checkpoint(s) == envelope' = IF flag THEN "cancelled" ELSE s
\* With expected_turn_id a worker whose turn is not the live one writes nothing.
GuardedCheckpoint(t, s) == IF Current(t) THEN Checkpoint(s) ELSE UNCHANGED envelope

Steps(t, from, to) == Lives(t) /\ stage[t] = from /\ Goes(t, to)

-----------------------------------------------------------------------------
(* A turn begins: three transactions *)

\* Mutant: begin ends the turn of a dead process but leaves its question open.
BeginKeepsQuestions(t, p) ==
  /\ p \in alive /\ t = latest + 1
  /\ \A u \in Turn : Active(u) => ~Lives(u)
  /\ turn' = [u \in Turn |-> IF u = t THEN "running"
                             ELSE IF Active(u) THEN "needs_input" ELSE turn[u]]
  /\ owner' = [owner EXCEPT ![t] = p] /\ latest' = t /\ Goes(t, "opened")
  /\ UNCHANGED <<decision, envVars, gated, answer, verdict, calls, late, outside>>

\* begin refuses while the owner of an active turn lives, and ends the turn of
\* a dead one without running its tools again.
Begin(t, p) ==
  /\ p \in alive /\ t = latest + 1
  /\ \A u \in Turn : Active(u) => ~Lives(u)
  /\ LET Orphans == {u \in Turn : Active(u)} IN
       /\ turn' = [u \in Turn |-> IF u = t THEN "running"
                                  ELSE IF u \in Orphans THEN "needs_input" ELSE turn[u]]
       /\ decision' = [u \in Turn |-> IF u \in Orphans /\ decision[u] = "pending"
                                      THEN "expired" ELSE decision[u]]
  /\ owner' = [owner EXCEPT ![t] = p] /\ latest' = t /\ Goes(t, "opened")
  /\ UNCHANGED <<envVars, gated, answer, verdict, calls, late, outside>>

\* begin then records the request as an item, which an interrupted turn
\* refuses: the host does not start.  (The app server's loop catches no
\* RuntimeError, so that process ends.)
Open(t) ==
  /\ Lives(t) /\ stage[t] = "opened"
  /\ Goes(t, IF Active(t) THEN "begun" ELSE "over")
  /\ alive' = IF ~Active(t) /\ HostOf(t) = "server" THEN alive \ {owner[t]} ELSE alive
  /\ UNCHANGED <<rowVars, envVars, gated, answer, verdict, calls, late,
                 decision, halfway, interrupts, deaths>>

\* start_turn gives the stable thread a new envelope and clears a cancellation.
StartTurn(t) ==
  /\ Steps(t, "begun", "started") /\ HostOf(t) # "cli"
  /\ envelope' = "created" /\ flag' = FALSE
  /\ UNCHANGED <<rowVars, gated, answer, verdict, calls, late, decision, outside>>

\* The CLI continues a session's envelope: bind_execution needs an active turn.
BindCli(t) ==
  /\ Lives(t) /\ stage[t] = "begun" /\ HostOf(t) = "cli"
  /\ Goes(t, IF Active(t) THEN "started" ELSE "over")
  /\ UNCHANGED <<rowVars, envVars, gated, answer, verdict, calls, late, decision, outside>>

\* checkpoint(running).  The app server passes its turn; the Desktop and the
\* CLI do not, and the CLI skips it once a cancellation is on record.
Announce(t) ==
  /\ Steps(t, "started", "announced")
  /\ CASE HostOf(t) = "server"  -> GuardedCheckpoint(t, "running")
       [] HostOf(t) = "desktop" -> Checkpoint("running")
       [] HostOf(t) = "cli"     -> IF flag THEN UNCHANGED envelope ELSE Checkpoint("running")
  /\ UNCHANGED <<rowVars, flag, gated, answer, verdict, calls, late, decision, outside>>

\* The worker's first look at the thread.  A cancelled Desktop turn quits; the
\* app server's bind_execution fails on an ended turn, which is saved as failed.
Enter(t) ==
  /\ Lives(t) /\ stage[t] = "announced"
  /\ \/ /\ flag /\ HostOf(t) = "desktop"
        /\ Goes(t, "quitting") /\ verdict' = [verdict EXCEPT ![t] = "cancelled"]
     \/ /\ HostOf(t) = "server" /\ ~Active(t)
        /\ Goes(t, "saving") /\ verdict' = [verdict EXCEPT ![t] = "failed"]
     \/ /\ HostOf(t) = "desktop" => ~flag
        /\ HostOf(t) = "server" => Active(t)
        /\ Goes(t, "idle") /\ UNCHANGED verdict
  /\ UNCHANGED <<rowVars, envVars, gated, answer, calls, late, decision, outside>>

\* That Desktop turn writes the envelope without naming itself.
Quit(t) ==
  /\ Steps(t, "quitting", "finishing") /\ Checkpoint("cancelled")
  /\ UNCHANGED <<rowVars, flag, gated, answer, verdict, calls, late, decision, outside>>

-----------------------------------------------------------------------------
(* One tool call: execute and _approve *)

\* Mutant: a call starts whatever became of its turn.
StartCallUnchecked(t, g) ==
  /\ Lives(t) /\ stage[t] = "idle" /\ calls[t] < MaxCalls
  /\ calls' = [calls EXCEPT ![t] = @ + 1]
  /\ Goes(t, IF g THEN "item" ELSE "checked")
  /\ gated' = [gated EXCEPT ![t] = g]
  /\ UNCHANGED <<rowVars, envVars, decision, answer, verdict, late, outside>>

\* item: an ended turn refuses the call, and the agent goes on without it.
\* READ_TOOLS, and every tool in approval mode "auto", are not gated.
StartCall(t, g) ==
  /\ Lives(t) /\ stage[t] = "idle" /\ calls[t] < MaxCalls
  /\ calls' = [calls EXCEPT ![t] = @ + 1]
  /\ IF Active(t)
     THEN /\ Goes(t, IF g THEN "item" ELSE "checked")
          /\ gated' = [gated EXCEPT ![t] = g]
     ELSE UNCHANGED <<stage, gated>>
  /\ UNCHANGED <<rowVars, envVars, decision, answer, verdict, late, outside>>

\* The call is over; its approval is forgotten here once it is decided.
Return(t) ==
  /\ Goes(t, "idle")
  /\ gated' = [gated EXCEPT ![t] = FALSE]
  /\ answer' = [answer EXCEPT ![t] = "none"]
  /\ decision' = [decision EXCEPT ![t] = IF @ = "pending" THEN @ ELSE "none"]

\* One approval of a turn is open at a time: one that a cancelled call leaves
\* open is closed with the turn.
Ask(t) ==
  /\ Lives(t) /\ stage[t] = "item"
  /\ IF Active(t)
     THEN /\ decision' = [decision EXCEPT ![t] = "pending"]
          /\ turn' = [turn EXCEPT ![t] = "waiting_approval"]
          /\ Goes(t, "asked") /\ UNCHANGED <<gated, answer>>
     ELSE Return(t) /\ UNCHANGED turn
  /\ UNCHANGED <<owner, latest, envVars, verdict, calls, late, outside>>

\* The CLI, alone of the hosts, has an approval handler, which is asked before the
\* deadline is set and before the first poll.
AnnounceWait(t) ==
  /\ Lives(t) /\ stage[t] = "asked"
  /\ Goes(t, IF HostOf(t) = "cli" THEN "prompted" ELSE "polling")
  /\ GuardedCheckpoint(t, "waiting_approval")
  /\ UNCHANGED <<rowVars, flag, gated, answer, verdict, calls, late, decision, outside>>

\* The CLI's turn ends by an exception of its agent.
Abort(t) ==
  /\ Goes(t, "saving")
  /\ verdict' = [verdict EXCEPT ![t] = IF flag THEN "cancelled" ELSE "failed"]
  /\ calls' = [calls EXCEPT ![t] = MaxCalls]
  /\ gated' = [gated EXCEPT ![t] = FALSE]
  /\ answer' = [answer EXCEPT ![t] = "none"]
  /\ decision' = [decision EXCEPT ![t] = IF @ = "pending" THEN @ ELSE "none"]

\* What the handler or its respond raises is no RuntimeError, so it is the agent that
\* fails and not the call; only the recovery of a research report catches it.
PromptRaises(t) ==
  \/ Abort(t)
  \/ Return(t) /\ UNCHANGED <<verdict, calls>>

\* The person at the terminal answers, or no terminal is there and the handler denies
\* at once; respond raises if the turn is over or cancelled by now, or if another client
\* has decided otherwise.
PromptAnswered(t, d) ==
  /\ Lives(t) /\ stage[t] = "prompted"
  /\ IF Active(t) /\ ~flag /\ decision[t] \in {"pending", d}
     THEN /\ Goes(t, "polling") /\ decision' = [decision EXCEPT ![t] = d]
          /\ UNCHANGED <<gated, answer, verdict, calls>>
     ELSE PromptRaises(t)
  /\ UNCHANGED <<rowVars, envVars, late, outside>>

\* The terminal's input ends (EOFError).
PromptFails(t) ==
  /\ Lives(t) /\ stage[t] = "prompted" /\ PromptRaises(t)
  /\ UNCHANGED <<rowVars, envVars, late, outside>>

\* should_cancel and the status of the turn; an ended turn never lives again,
\* so the two reads are one.
Poll(t) ==
  /\ Lives(t) /\ stage[t] = "polling"
  /\ IF flag \/ ~Active(t) THEN Return(t)
     ELSE Goes(t, "polled") /\ UNCHANGED <<gated, answer, decision>>
  /\ UNCHANGED <<rowVars, envVars, verdict, calls, late, outside>>

ReadDecision(t) ==
  /\ Lives(t) /\ stage[t] = "polled"
  /\ IF decision[t] = "pending"
     THEN Goes(t, "polling") /\ UNCHANGED answer
     ELSE Goes(t, "decided") /\ answer' = [answer EXCEPT ![t] = decision[t]]
  /\ UNCHANGED <<rowVars, envVars, gated, verdict, calls, late, decision, outside>>

\* After 300 s: an answer that arrived since the read is kept and used.
Late(t) == IF decision[t] = "pending" THEN "expired" ELSE decision[t]

\* Mutant: the deadline is looked at only once the question is decided.
ExpireDecided(t) ==
  /\ decision[t] # "pending" /\ Steps(t, "polled", "decided")
  /\ answer' = [answer EXCEPT ![t] = decision[t]]
  /\ UNCHANGED <<rowVars, envVars, gated, verdict, calls, late, decision, outside>>

Expire(t) ==
  /\ Steps(t, "polled", "decided")
  /\ decision' = [decision EXCEPT ![t] = Late(t)]
  /\ answer' = [answer EXCEPT ![t] = Late(t)]
  /\ UNCHANGED <<rowVars, envVars, gated, verdict, calls, late, outside>>

Settle(t) ==
  /\ Steps(t, "decided", "settled")
  /\ turn' = [turn EXCEPT ![t] = IF @ = "waiting_approval" THEN "running" ELSE @]
  /\ UNCHANGED <<owner, latest, envVars, gated, answer, verdict, calls, late,
                 decision, outside>>

\* Mutant: only a refusal stops the call.
ResolveUnlessDenied(t) ==
  /\ Lives(t) /\ stage[t] = "settled" /\ GuardedCheckpoint(t, "running")
  /\ IF answer[t] # "deny"
     THEN Goes(t, "checked") /\ UNCHANGED <<gated, answer, decision>>
     ELSE Return(t)
  /\ UNCHANGED <<rowVars, flag, verdict, calls, late, outside>>

\* Only "allow" lets the call go on.
Resolve(t) ==
  /\ Lives(t) /\ stage[t] = "settled" /\ GuardedCheckpoint(t, "running")
  /\ IF answer[t] = "allow"
     THEN Goes(t, "checked") /\ UNCHANGED <<gated, answer, decision>>
     ELSE Return(t)
  /\ UNCHANGED <<rowVars, flag, verdict, calls, late, outside>>

\* The last check before the effect reads the flag of the thread.
CheckCancel(t) ==
  /\ Lives(t) /\ stage[t] = "checked"
  /\ IF flag THEN Return(t) ELSE Goes(t, "go") /\ UNCHANGED <<gated, answer, decision>>
  /\ UNCHANGED <<rowVars, envVars, verdict, calls, late, outside>>

Act(t) ==
  /\ Steps(t, "go", "acting")
  /\ late' = [late EXCEPT ![t] = IF Active(t) THEN @ ELSE @ + 1]
  /\ UNCHANGED <<rowVars, envVars, gated, answer, verdict, calls, decision, outside>>

EndCall(t) ==
  /\ Lives(t) /\ stage[t] = "acting" /\ Return(t)
  /\ UNCHANGED <<rowVars, envVars, verdict, calls, late, outside>>

-----------------------------------------------------------------------------
(* A turn ends: the agent's result, the envelope, the turn *)

EndLoop(t, v) ==
  /\ Steps(t, "idle", "saving")
  /\ verdict' = [verdict EXCEPT ![t] = IF flag THEN "cancelled" ELSE v]
  /\ calls' = [calls EXCEPT ![t] = MaxCalls]
  /\ UNCHANGED <<rowVars, envVars, gated, answer, late, decision, outside>>

Save(t) ==
  /\ Steps(t, "saving", "finishing") /\ GuardedCheckpoint(t, verdict[t])
  /\ UNCHANGED <<rowVars, flag, gated, answer, verdict, calls, late, decision, outside>>

\* finish: the first end of a turn stands.
Finish(t) ==
  /\ Steps(t, "finishing", "over")
  /\ IF Active(t) THEN End({t}, IF flag THEN "cancelled" ELSE verdict[t])
                  ELSE UNCHANGED <<turn, decision>>
  /\ UNCHANGED <<owner, latest, envVars, gated, answer, verdict, calls, late, outside>>

-----------------------------------------------------------------------------
(* Clients and processes *)

\* respond: one decision per approval, while its turn is live and uncancelled.
Respond(t, d) ==
  /\ decision[t] = "pending"
  /\ Active(t) /\ ~flag /\ Lives(t)
  /\ decision' = [decision EXCEPT ![t] = d]
  /\ UNCHANGED <<rowVars, envVars, workerVars, outside>>

\* request_cancel, alone (CLI, HTTP) or as the first half of an interrupt, whose
\* second half need not come.  A thread whose result stands ignores it.
RequestCancel ==
  /\ interrupts < MaxInterrupts /\ interrupts' = interrupts + 1
  /\ IF envelope \in TERMINAL \ {"cancelled"} THEN UNCHANGED envVars
     ELSE envelope' = "cancelled" /\ flag' = TRUE
  /\ halfway' = halfway + 1
  /\ UNCHANGED <<rowVars, workerVars, decision, alive, deaths>>

\* The second half of interrupt ends whatever turn is live by now.
EndTurns ==
  /\ halfway > 0 /\ halfway' = halfway - 1
  /\ End({t \in Turn : Active(t)}, "cancelled")
  /\ UNCHANGED <<owner, latest, envVars, workerVars, alive, interrupts, deaths>>

\* Killed: its workers are gone, its live turn stays until the next begin.
Die(p) ==
  /\ p \in alive /\ deaths < MaxDeaths /\ deaths' = deaths + 1
  /\ alive' = alive \ {p}
  /\ UNCHANGED <<rowVars, envVars, workerVars, decision, halfway, interrupts>>

-----------------------------------------------------------------------------

\* What the worker of a turn does of its own accord.
Work(t) ==
  \/ Open(t) \/ StartTurn(t) \/ BindCli(t) \/ Announce(t) \/ Enter(t) \/ Quit(t)
  \/ \E g \in BOOLEAN : StartCall(t, g)
  \/ Ask(t) \/ AnnounceWait(t) \/ Poll(t) \/ ReadDecision(t)
  \/ Settle(t) \/ Resolve(t) \/ CheckCancel(t) \/ Act(t) \/ EndCall(t)
  \/ \E v \in Outcomes : EndLoop(t, v)
  \/ Save(t) \/ Finish(t)

Next ==
  \/ \E t \in Turn : Work(t) \/ Expire(t)
  \/ \E t \in Turn, p \in Proc : Begin(t, p)
  \/ \E t \in Turn, d \in {"allow", "deny"} : PromptAnswered(t, d) \/ Respond(t, d)
  \/ \E t \in Turn : PromptFails(t)
  \/ RequestCancel \/ EndTurns
  \/ \E p \in Proc : Die(p)

Spec == Init /\ [][Next]_vars

\* A worker thread keeps running and its agent has a budget; a poll that goes
\* on reaches its deadline of 300 s.  Nobody has to answer, at a terminal either.
FairSpec ==
  /\ Spec
  /\ \A t \in Turn : WF_vars(Work(t)) /\ SF_vars(Expire(t))

-----------------------------------------------------------------------------
(* Safety *)

\* session_protocol.py:126 and the unique index protocol_single_turn: only the
\* turn begun last can be live, also after a host died with a live turn.
LiveTurnIsLatest == \A t \in Turn : Active(t) => latest = t

\* session_protocol.py:4 ("receipts for the exact in-memory action"): a gated
\* call reaches its effect only with its own approval allowed, whatever
\* answers, time-outs and interrupts came while it was polled.
EffectsAreApproved ==
  \A t \in Turn : gated[t] /\ stage[t] \in {"checked", "go", "acting"}
                    => decision[t] = "allow"

\* A question that clients are shown has a live turn: ending a turn closes it.
QuestionsAreLive == \A t \in Turn : decision[t] = "pending" => Active(t)

\* What clients are asked is about the turn begun last: neither an interrupt between
\* whose halves another turn begins, nor a host that died with a question open and
\* is followed by another, leaves a question of an earlier turn to be answered.
QuestionsAreCurrent ==
  \A t \in Turn : decision[t] = "pending" => Active(t) /\ latest = t

\* An interrupt cannot take back the call that has passed its checks, but that
\* is all a worker can still do after the end of its turn.
OneLateEffect == \A t \in Turn : late[t] <= 1

\* runtime_session.py:388 ("A cancelled session can never be reported as
\* successfully completed by a stale writer"): while a cancellation is on
\* record the envelope says so, whichever workers still write.
CancellationShows == flag => envelope = "cancelled"

\* The envelope reports success only for the turn begun last, or until that
\* turn has made the envelope its own.
SuccessIsCurrent ==
  envelope = "completed" =>
    \E t \in Turn :
      /\ verdict[t] = "completed" /\ stage[t] \in {"finishing", "over"}
      /\ \/ latest = t
         \/ stage[latest] \in {"opened", "begun", "over"}
         \/ stage[latest] = "started" /\ HostOf(latest) = "cli"

\* The inductive invariant: what the properties above rest on.
TurnsAreNumbered ==
  \A t \in Turn : IF t > latest THEN turn[t] = "absent" /\ stage[t] = "none" /\ late[t] = 0
                  ELSE turn[t] # "absent" /\ owner[t] \in Proc

\* An answer that lets the call go on is the decision on record.
AllowedIsRecorded ==
  \A t \in Turn : stage[t] \in {"decided", "settled"} /\ answer[t] = "allow"
                  => decision[t] = "allow"

\* A late effect was the last call of its worker.
LateIsLast ==
  \A t \in Turn : late[t] # 0 =>
    ~Active(t) /\ stage[t] \in {"acting", "idle", "saving", "finishing", "over"}

\* A worker that ends a turn has a result to save.
VerdictIsGiven ==
  \A t \in Turn : stage[t] \in {"quitting", "saving", "finishing"} => verdict[t] \in Verdicts

Inv ==
  /\ TypeOK
  /\ VerdictIsGiven
  /\ TurnsAreNumbered
  /\ LiveTurnIsLatest
  /\ QuestionsAreLive
  /\ AllowedIsRecorded
  /\ EffectsAreApproved
  /\ LateIsLast
  /\ OneLateEffect
  /\ CancellationShows
  /\ SuccessIsCurrent

\* Of several that would end a turn - its worker, an interrupt, the next begin after the
\* death of its host - the first one stands.
FirstEndStands ==
  [][\A t \in Turn : turn[t] \in TERMINAL => turn'[t] = turn[t]]_vars

-----------------------------------------------------------------------------
(* Liveness *)

\* What progress rests on: a live turn, which makes every later begin fail while its
\* host lives, has a worker that is still on its way to end it.
LiveTurnsAreWorked == \A t \in Turn : Active(t) => stage[t] \notin {"none", "over"}

\* The CLI's worker does not stand at the terminal's prompt for ever.
PromptIsLeft(t) == []<>(stage[t] # "prompted")

\* A turn ends and its worker stops, also when nobody answers its questions and when it
\* is cancelled while the worker is between two reads.  One wait has no deadline and sees
\* no cancellation: the input() of the CLI's approval handler (session_protocol.py:329,
\* before the deadline of line 331).  There it takes the person at the terminal.
TurnEnds ==
  \A t \in Turn :
    PromptIsLeft(t) =>
      (stage[t] # "none" ~> ((stage[t] = "over" /\ ~Active(t)) \/ ~Lives(t)))
=============================================================================
