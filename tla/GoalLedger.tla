----------------------------- MODULE GoalLedger -----------------------------
(***************************************************************************)
(* The persistent goals of the native Desktop: GoalStore in                *)
(* src/src/smara/native_goals.py (a SQLite ledger shared by the Desktop,   *)
(* the CLI and Telegram), the supervisor and its cycles in                 *)
(* native_goal_runtime.py, the recurring wakes of native_background.py and *)
(* the interactive sessions of native_runtime.py.                          *)
(*                                                                         *)
(* Every ledger operation is one transaction, so one action.  A cycle is a *)
(* thread of the supervisor between two transactions; it polls its goal    *)
(* every 0.2 s and closes its native session before it saves.              *)
(***************************************************************************)
EXTENDS Naturals

CONSTANTS
  Goal,        \* goal identities; one is used by one goal only
  Project,     \* workspace keys
  Owner,       \* interactive sessions and CLI activities
  Slot,        \* MAX_CONCURRENT_GOALS cycles at a time
  Question,    \* approvals and inputs asked by cycles (bounds their number)
  Feedback,    \* feedback identities (bounds their number)
  None,
  home,        \* the project of a goal
  MaxRuns,     \* max_runs of the one schedule
  wakeGoal,    \* the goal created by its i-th wake
  CycleLimits, \* values of max_cycles
  Allowances,  \* values of max_token_estimate
  Estimates,   \* reservation estimates of a model request
  Lapses,      \* a live session's heartbeat may be over 10 s old
  FolderLost,  \* the schedule's project folder may be missing
  MaxCrashes   \* bound: supervisors killed in a behaviour

Runs  == 1 .. MaxRuns
Wakes == {wakeGoal[i] : i \in Runs}

ASSUME GoalLedgerAssumption ==
  /\ None \notin Goal \cup Project \cup Owner
  /\ home \in [Goal -> Project]
  /\ MaxRuns \in Nat
  /\ wakeGoal \in [Runs -> Goal]
  /\ \A i, j \in Runs : wakeGoal[i] = wakeGoal[j] => i = j
  /\ CycleLimits \subseteq Nat \ {0}
  /\ Allowances \subseteq Nat \ {0}
  /\ Estimates \subseteq Nat \ {0}
  /\ Lapses \in BOOLEAN /\ FolderLost \in BOOLEAN
  /\ MaxCrashes \in Nat

VARIABLES
  state,       \* goals.state; "absent" before create, "deleted" after dismiss
  lease,       \* goals.lease: the number of the cycle that owns it, 0 for NULL
  cycles,      \* goals.cycles
  cycleLimit,  \* spec.max_cycles
  spent,       \* goals.token_estimate
  allowance,   \* spec.max_token_estimate
  exhausted,   \* goal_meta budget_blocked: the allowance refused (0 for none)
  unread,      \* goal_feedback rows not consumed
  sent,        \* feedback identities used
  question,    \* goal_requests rows: goal_id, lease and state
  job,         \* the goal a cycle works on
  mine,        \* the lease it was given
  phase,       \* where the cycle is
  verdict,     \* what it is about to save
  heard,       \* the feedback it put in its prompt
  sup,         \* the supervisor process
  serviceStop, \* goal_meta service_stop
  busy,        \* goal_meta interactive: owner of a busy project
  fresh,       \* its heartbeat is less than 10 s old
  working,     \* the project a session really works in
  enabled,     \* goal_schedules.enabled
  runs,        \* goal_schedules.runs
  consent,     \* history: goals to run, until they are paused, stopped or blocked
  accepted,    \* history: goals whose result the user accepted
  stopAsked,   \* history: the supervisor was asked to stop
  crashes      \* supervisors killed so far

goalVars  == <<state, lease, cycles, cycleLimit, spent, allowance, exhausted, unread, sent>>
cycleVars == <<job, mine, phase, verdict, heard>>
supVars   == <<sup, serviceStop, stopAsked, crashes>>
busyVars  == <<busy, fresh, working>>
wakeVars  == <<enabled, runs>>
history   == <<consent, accepted>>
vars == <<goalVars, question, cycleVars, supVars, busyVars, wakeVars, history>>

TERMINAL == {"completed", "stopped"}
ACTIVE   == {"running", "awaiting_approval"}
States   == TERMINAL \cup ACTIVE \cup
            {"queued", "ready_for_review", "blocked", "paused"}
Unwanted == {"absent", "deleted"}
Exists(g) == state[g] \notin Unwanted

\* "interrupted" and "failed" cycles save paused and blocked, and no feedback.
Verdicts == {"queued", "blocked", "ready_for_review", "interrupted", "failed"}
Phases   == {"free", "starting", "working", "closing", "returning", "done", "raised"}
Open     == {"pending", "answered"}

\* A question not asked yet, and one delivered, expired or deleted.
Unasked == [goal |-> None, lease |-> 0, state |-> "none"]
Closed  == [goal |-> None, lease |-> 0, state |-> "closed"]
IsOpen(q) == question[q].state \in Open

TypeOK ==
  /\ state \in [Goal -> States \cup Unwanted]
  /\ lease \in [Goal -> Nat] /\ cycles \in [Goal -> Nat]
  /\ cycleLimit \in [Goal -> Nat]
  /\ spent \in [Goal -> Nat] /\ allowance \in [Goal -> Nat]
  /\ exhausted \in [Goal -> Nat]
  /\ unread \in [Goal -> SUBSET Feedback] /\ sent \subseteq Feedback
  /\ question \in [Question -> [goal : Goal, lease : Nat, state : Open]
                               \cup {Unasked, Closed}]
  /\ job \in [Slot -> Goal \cup {None}] /\ mine \in [Slot -> Nat]
  /\ phase \in [Slot -> Phases]
  /\ verdict \in [Slot -> Verdicts \cup {None}]
  /\ heard \in [Slot -> SUBSET Feedback]
  /\ sup \in {"off", "on", "ending"} /\ serviceStop \in BOOLEAN
  /\ busy \in [Project -> Owner \cup {None}] /\ fresh \in [Project -> BOOLEAN]
  /\ working \in [Owner -> Project \cup {None}]
  /\ enabled \in BOOLEAN /\ runs \in 0 .. MaxRuns
  /\ consent \subseteq Goal /\ accepted \subseteq Goal
  /\ stopAsked \in BOOLEAN /\ crashes \in 0 .. MaxCrashes

Init ==
  /\ state = [g \in Goal |-> "absent"]
  /\ lease = [g \in Goal |-> 0] /\ cycles = [g \in Goal |-> 0]
  /\ cycleLimit = [g \in Goal |-> 0]
  /\ spent = [g \in Goal |-> 0] /\ allowance = [g \in Goal |-> 0]
  /\ exhausted = [g \in Goal |-> 0]
  /\ unread = [g \in Goal |-> {}] /\ sent = {}
  /\ question = [q \in Question |-> Unasked]
  /\ job = [s \in Slot |-> None] /\ mine = [s \in Slot |-> 0]
  /\ phase = [s \in Slot |-> "free"]
  /\ verdict = [s \in Slot |-> None]
  /\ heard = [s \in Slot |-> {}]
  /\ sup = "off" /\ serviceStop = FALSE
  /\ busy = [p \in Project |-> None] /\ fresh = [p \in Project |-> FALSE]
  /\ working = [o \in Owner |-> None]
  /\ enabled = FALSE /\ runs = 0
  /\ consent = {} /\ accepted = {}
  /\ stopAsked = FALSE /\ crashes = 0

-----------------------------------------------------------------------------
(* The user's actions on the ledger *)

\* INSERT of a queued goal; a repeated creation receipt changes nothing.
Insert(g) ==
  /\ state[g] = "absent"
  /\ state' = [state EXCEPT ![g] = "queued"]
  /\ \E c \in CycleLimits, a \in Allowances :
       /\ cycleLimit' = [cycleLimit EXCEPT ![g] = c]
       /\ allowance' = [allowance EXCEPT ![g] = a]
  /\ consent' = consent \cup {g}
  /\ UNCHANGED <<lease, cycles, spent, exhausted, unread, sent, accepted,
                 question, cycleVars, supVars, busyVars>>

Create(g) ==
  /\ g \notin Wakes
  /\ Insert(g)
  /\ UNCHANGED wakeVars

\* Feedback invalidates a result pending review; other states stay.
GiveFeedback(g, f) ==
  /\ Exists(g) /\ state[g] \notin TERMINAL
  /\ f \notin sent
  /\ sent' = sent \cup {f}
  /\ unread' = [unread EXCEPT ![g] = @ \cup {f}]
  /\ state' = [state EXCEPT ![g] = IF @ = "ready_for_review" THEN "queued" ELSE @]
  /\ UNCHANGED <<lease, cycles, cycleLimit, spent, allowance, exhausted, question,
                 cycleVars, supVars, busyVars, wakeVars, history>>

\* Changes of the state column alone.
SetState(g, s) ==
  /\ state' = [state EXCEPT ![g] = s]
  /\ UNCHANGED <<lease, cycles, cycleLimit, spent, allowance, exhausted, unread,
                 sent, question, cycleVars, supVars, busyVars, wakeVars>>

Control(g, s) ==
  /\ Exists(g) /\ state[g] \notin TERMINAL
  /\ SetState(g, s)
  /\ consent' = consent \ {g}
  /\ UNCHANGED accepted

Pause(g) == Control(g, "paused")
Stop(g)  == Control(g, "stopped")

\* OverBudget is what claim and resume test; a reservation tests more.
OverBudget(g) == cycles[g] >= cycleLimit[g] \/ spent[g] >= allowance[g]

\* Mutant: the refused reservation is forgotten.
ResumeRefused(g) ==
  /\ Exists(g) /\ lease[g] = 0
  /\ state[g] \notin TERMINAL \cup {"ready_for_review"}
  /\ ~OverBudget(g)
  /\ SetState(g, "queued")
  /\ consent' = consent \cup {g}
  /\ UNCHANGED accepted

Resume(g) ==
  /\ Exists(g) /\ lease[g] = 0
  /\ state[g] \notin TERMINAL \cup {"ready_for_review"}
  /\ ~OverBudget(g) /\ exhausted[g] = 0
  /\ SetState(g, "queued")
  /\ consent' = consent \cup {g}
  /\ UNCHANGED accepted

\* Larger or smaller limits; the refusal is forgotten once the allowance grew.
Extend(g) ==
  /\ Exists(g) /\ lease[g] = 0 /\ state[g] \notin TERMINAL
  /\ \E c \in CycleLimits, a \in Allowances :
       /\ cycleLimit' = [cycleLimit EXCEPT ![g] = c]
       /\ allowance' = [allowance EXCEPT ![g] = a]
       /\ exhausted' = [exhausted EXCEPT ![g] = IF a > @ THEN 0 ELSE @]
  /\ UNCHANGED <<state, lease, cycles, spent, unread, sent, question, cycleVars,
                 supVars, busyVars, wakeVars, history>>

\* validate_acceptance may refuse: whether files changed since is data.
Accept(g) ==
  /\ state[g] = "ready_for_review" /\ lease[g] = 0
  /\ SetState(g, "completed")
  /\ accepted' = accepted \cup {g}
  /\ UNCHANGED consent

\* Deletes the goal with its requests and feedback.
Dismiss(g) ==
  /\ Exists(g) /\ lease[g] = 0 /\ state[g] \notin ACTIVE
  /\ state' = [state EXCEPT ![g] = "deleted"]
  /\ cycles' = [cycles EXCEPT ![g] = 0] /\ cycleLimit' = [cycleLimit EXCEPT ![g] = 0]
  /\ spent' = [spent EXCEPT ![g] = 0] /\ allowance' = [allowance EXCEPT ![g] = 0]
  /\ unread' = [unread EXCEPT ![g] = {}]
  /\ question' = [q \in Question |-> IF question[q].goal = g THEN Closed ELSE question[q]]
  /\ consent' = consent \ {g}
  /\ UNCHANGED <<lease, exhausted, sent, cycleVars, supVars, busyVars, wakeVars, accepted>>

\* respond: only to a question of the cycle that owns the goal now.
Respond(q) ==
  /\ question[q].state = "pending"
  /\ question[q].lease = lease[question[q].goal]
  /\ state[question[q].goal] = "awaiting_approval"
  /\ question' = [question EXCEPT ![q].state = "answered"]
  /\ UNCHANGED <<goalVars, cycleVars, supVars, busyVars, wakeVars, history>>

Enable(b) ==
  /\ enabled' = b
  /\ b => runs < MaxRuns
  /\ UNCHANGED <<runs, goalVars, question, cycleVars, supVars, busyVars, history>>

\* A request made while no supervisor runs is erased by the next start.
RequestStop ==
  /\ sup # "off"
  /\ serviceStop' = TRUE
  /\ stopAsked' = TRUE
  /\ UNCHANGED <<sup, crashes, goalVars, question, cycleVars, busyVars, wakeVars, history>>

User ==
  \/ \E g \in Goal : \/ Create(g) \/ Pause(g) \/ Stop(g) \/ Resume(g)
                     \/ Extend(g) \/ Accept(g) \/ Dismiss(g)
                     \/ \E f \in Feedback : GiveFeedback(g, f)
  \/ \E q \in Question : Respond(q)
  \/ \E b \in BOOLEAN : Enable(b)
  \/ RequestStop

-----------------------------------------------------------------------------
(* Interactive sessions *)

Leased(p) == \E g \in Goal : home[g] = p /\ lease[g] # 0

\* interactive(busy=True) accepts o as the worker of p.
Admits(p, o) ==
  /\ ~Leased(p)
  /\ ~(busy[p] \notin {None, o} /\ fresh[p])

Occupy(o, p) ==
  /\ Admits(p, o)
  /\ busy' = [busy EXCEPT ![p] = o]
  /\ fresh' = [fresh EXCEPT ![p] = TRUE]

SessionOnly == UNCHANGED <<goalVars, question, cycleVars, supVars, wakeVars, history>>

BeginWork(o, p) ==
  /\ working[o] = None
  /\ Occupy(o, p)
  /\ working' = [working EXCEPT ![o] = p]
  /\ SessionOnly

\* The pulse every 2 s; a refused one changes nothing.
Pulse(o) ==
  /\ working[o] # None
  /\ Occupy(o, working[o])
  /\ UNCHANGED working
  /\ SessionOnly

EndWork(o) ==
  /\ working[o] # None
  /\ LET p == working[o] IN
       /\ busy' = [busy EXCEPT ![p] = IF @ = o THEN None ELSE @]
       /\ fresh' = [fresh EXCEPT ![p] = @ /\ busy[p] # o]
  /\ working' = [working EXCEPT ![o] = None]
  /\ SessionOnly

\* A session that dies leaves its record behind.
OwnerDies(o) ==
  /\ working[o] # None
  /\ working' = [working EXCEPT ![o] = None]
  /\ UNCHANGED <<busy, fresh>>
  /\ SessionOnly

\* Ten seconds without a pulse: its owner is gone, or (Lapses) was suspended.
HeartbeatAges(p) ==
  /\ fresh[p]
  /\ Lapses \/ \A o \in Owner : busy[p] = o => working[o] # p
  /\ fresh' = [fresh EXCEPT ![p] = FALSE]
  /\ UNCHANGED <<busy, working>>
  /\ SessionOnly

Sessions ==
  \/ \E o \in Owner : \/ Pulse(o) \/ EndWork(o) \/ OwnerDies(o)
                      \/ \E p \in Project : BeginWork(o, p)
  \/ \E p \in Project : HeartbeatAges(p)

-----------------------------------------------------------------------------
(* The supervisor *)

\* Mutant: recovery queues what it interrupted.
StartRequeues ==
  /\ sup = "off"
  /\ sup' = "on" /\ serviceStop' = FALSE /\ stopAsked' = FALSE
  /\ state' = [g \in Goal |-> IF lease[g] # 0 /\ state[g] # "stopped"
                              THEN "queued" ELSE state[g]]
  /\ lease' = [g \in Goal |-> 0]
  /\ question' = [q \in Question |-> IF IsOpen(q) THEN Closed ELSE question[q]]
  /\ consent' = {g \in consent : lease[g] = 0}
  /\ UNCHANGED <<cycles, cycleLimit, spent, allowance, exhausted, unread, sent,
                 cycleVars, crashes, busyVars, wakeVars, accepted>>

\* supervisor_lock, recover and the reset of service_stop.
Start ==
  /\ sup = "off"
  /\ sup' = "on" /\ serviceStop' = FALSE /\ stopAsked' = FALSE
  /\ state' = [g \in Goal |-> IF lease[g] # 0 /\ state[g] # "stopped"
                              THEN "paused" ELSE state[g]]
  /\ lease' = [g \in Goal |-> 0]
  /\ question' = [q \in Question |-> IF IsOpen(q) THEN Closed ELSE question[q]]
  /\ consent' = {g \in consent : lease[g] = 0}
  /\ UNCHANGED <<cycles, cycleLimit, spent, allowance, exhausted, unread, sent,
                 cycleVars, crashes, busyVars, wakeVars, accepted>>

\* Mutant: a claim that does not look at sessions.
ClaimableBusy(g) ==
  /\ state[g] = "queued" /\ lease[g] = 0
  /\ ~Leased(home[g])

\* claim considers the goals that are due; the time of a goal is abstracted.
Claimable(g) ==
  /\ state[g] = "queued" /\ lease[g] = 0
  /\ ~Leased(home[g])
  /\ ~(busy[home[g]] # None /\ fresh[home[g]])

\* claim and the submission of the cycle to a free worker.
Claim(g, s) ==
  /\ sup = "on" /\ phase[s] = "free"
  /\ Claimable(g) /\ ~OverBudget(g)
  /\ state' = [state EXCEPT ![g] = "running"]
  /\ cycles' = [cycles EXCEPT ![g] = @ + 1]
  /\ lease' = [lease EXCEPT ![g] = cycles[g] + 1]
  /\ job' = [job EXCEPT ![s] = g]
  /\ mine' = [mine EXCEPT ![s] = cycles[g] + 1]
  /\ phase' = [phase EXCEPT ![s] = "starting"]
  /\ UNCHANGED <<cycleLimit, spent, allowance, exhausted, unread, sent, verdict,
                 heard, question, supVars, busyVars, wakeVars, history>>

ClaimOverBudget(g) ==
  /\ sup = "on" /\ \E s \in Slot : phase[s] = "free"
  /\ Claimable(g) /\ OverBudget(g)
  /\ SetState(g, "paused")
  /\ consent' = consent \ {g}
  /\ UNCHANGED accepted

\* The heartbeat thread sees service_stop; the loop claims nothing more.
StopNoticed ==
  /\ sup = "on" /\ serviceStop
  /\ sup' = "ending"
  /\ UNCHANGED <<serviceStop, stopAsked, crashes, goalVars, question, cycleVars,
                 busyVars, wakeVars, history>>

\* An exception leaves the loop; its finally asks every cycle to stop.
LoopRaises ==
  /\ sup' = "ending" /\ serviceStop' = TRUE
  /\ UNCHANGED <<stopAsked, crashes, goalVars, question, cycleVars, busyVars,
                 wakeVars, history>>

\* Slots whose thread is gone.
Free(S) ==
  /\ job' = [s \in Slot |-> IF s \in S THEN None ELSE job[s]]
  /\ mine' = [s \in Slot |-> IF s \in S THEN 0 ELSE mine[s]]
  /\ phase' = [s \in Slot |-> IF s \in S THEN "free" ELSE phase[s]]
  /\ verdict' = [s \in Slot |-> IF s \in S THEN None ELSE verdict[s]]
  /\ heard' = [s \in Slot |-> IF s \in S THEN {} ELSE heard[s]]

\* workers.shutdown waits for every cycle; nobody looks at their results.
Shutdown ==
  /\ sup = "ending"
  /\ \A s \in Slot : phase[s] \in {"free", "done", "raised"}
  /\ sup' = "off"
  /\ Free(Slot)
  /\ UNCHANGED <<serviceStop, stopAsked, crashes, goalVars, question, busyVars,
                 wakeVars, history>>

Crash ==
  /\ sup # "off" /\ crashes < MaxCrashes
  /\ sup' = "off" /\ crashes' = crashes + 1
  /\ Free(Slot)
  /\ UNCHANGED <<serviceStop, stopAsked, goalVars, question, busyVars, wakeVars, history>>

OpenOf(g, n) ==
  {q \in Question : question[q].goal = g /\ question[q].lease = n /\ IsOpen(q)}

\* Mutant: the verdict ignores late feedback.
FinishedUnheard(g, v, read) ==
  IF state[g] \in {"paused", "stopped"} THEN state[g] ELSE v

\* finish: save under the lease.  A pause or stop outlives the cycle's verdict,
\* and feedback the cycle has not read defers the review.
Finished(g, v, read) ==
  IF state[g] \in {"paused", "stopped"} THEN state[g]
  ELSE IF v = "ready_for_review" /\ unread[g] \ read # {} THEN "queued" ELSE v

Save(g, v, read) ==
  /\ state' = [state EXCEPT ![g] = Finished(g, v, read)]
  /\ unread' = [unread EXCEPT ![g] = @ \ read]
  /\ lease' = [lease EXCEPT ![g] = 0]
  /\ question' = [q \in Question |-> IF q \in OpenOf(g, lease[g]) THEN Closed
                                     ELSE question[q]]
  /\ consent' = IF Finished(g, v, read) \in {"paused", "stopped", "blocked"}
                THEN consent \ {g} ELSE consent
  /\ UNCHANGED <<cycles, cycleLimit, spent, allowance, exhausted, sent, accepted>>

ReapOnly(s) ==
  /\ Free({s})
  /\ UNCHANGED <<supVars, busyVars, wakeVars>>

ReapDone(s) ==
  /\ sup = "on" /\ phase[s] = "done"
  /\ ReapOnly(s)
  /\ UNCHANGED <<goalVars, question, history>>

\* The future raised: the loop blocks the goal if the cycle still owns it.
ReapRaised(s) ==
  /\ sup = "on" /\ phase[s] = "raised" /\ Exists(job[s])
  /\ IF lease[job[s]] = mine[s]
     THEN Save(job[s], "blocked", {})
     ELSE UNCHANGED <<goalVars, question, history>>
  /\ ReapOnly(s)

\* finish raises ValueError for a goal dismissed meanwhile; only RuntimeError
\* is caught.
ReapDismissed(s) ==
  /\ sup = "on" /\ phase[s] = "raised" /\ ~Exists(job[s])
  /\ LoopRaises

\* Mutant: a wake whose goal was dismissed counts as accepted.
WakeReadyDismissed ==
  /\ sup = "on" /\ enabled /\ runs < MaxRuns
  /\ runs > 0 => state[wakeGoal[runs]] \in {"completed", "deleted"}

\* The schedule is due; the prior wake is accepted or there is none.
WakeReady ==
  /\ sup = "on" /\ enabled /\ runs < MaxRuns
  /\ runs > 0 => state[wakeGoal[runs]] = "completed"

Wake ==
  /\ WakeReady
  /\ Insert(wakeGoal[runs + 1])
  /\ runs' = runs + 1
  /\ UNCHANGED enabled

\* goal_spec resolves the folder strictly, and nothing catches the error.
WakeRaises ==
  /\ FolderLost /\ WakeReady
  /\ LoopRaises

WakesExhausted ==
  /\ sup = "on" /\ enabled /\ runs = MaxRuns
  /\ enabled' = FALSE
  /\ UNCHANGED <<runs, goalVars, question, cycleVars, supVars, busyVars, history>>

Supervisor ==
  \/ Start \/ StopNoticed \/ Shutdown \/ Crash
  \/ Wake \/ WakeRaises \/ WakesExhausted
  \/ \E g \in Goal : ClaimOverBudget(g) \/ \E s \in Slot : Claim(g, s)
  \/ \E s \in Slot : ReapDone(s) \/ ReapRaised(s) \/ ReapDismissed(s)

-----------------------------------------------------------------------------
(* Cycles: execute_cycle and the polling loop of NativeGoalSession.next *)

CycleOnly == UNCHANGED <<supVars, busyVars, wakeVars>>

Goto(s, ph) == phase' = [phase EXCEPT ![s] = ph]

\* The feedback is read once, before the prompt is built.
ReadFeedback(s) ==
  /\ phase[s] = "starting"
  /\ Goto(s, "working")
  /\ heard' = [heard EXCEPT ![s] = unread[job[s]]]
  /\ UNCHANGED <<job, mine, verdict, goalVars, question, history>>
  /\ CycleOnly

\* pending: the row is written even if the goal is no longer running.
AskUser(s, q) ==
  /\ phase[s] = "working" /\ question[q] = Unasked
  /\ question' = [question EXCEPT ![q] =
                    [goal |-> job[s], lease |-> mine[s], state |-> "pending"]]
  /\ state' = [state EXCEPT ![job[s]] =
                 IF lease[job[s]] = mine[s] /\ @ = "running"
                 THEN "awaiting_approval" ELSE @]
  /\ UNCHANGED <<lease, cycles, cycleLimit, spent, allowance, exhausted, unread,
                 sent, cycleVars, history>>
  /\ CycleOnly

\* Mutant: any answer lets the goal run again.
DeliverAny(s, q) ==
  /\ phase[s] = "working"
  /\ question[q] = [goal |-> job[s], lease |-> mine[s], state |-> "answered"]
  /\ lease[job[s]] = mine[s] /\ state[job[s]] \in ACTIVE
  /\ question' = [question EXCEPT ![q] = Closed]
  /\ state' = [state EXCEPT ![job[s]] = "running"]
  /\ UNCHANGED <<lease, cycles, cycleLimit, spent, allowance, exhausted, unread,
                 sent, cycleVars, history>>
  /\ CycleOnly

\* consume_response; the last answer lets the goal run again.
Deliver(s, q) ==
  /\ phase[s] = "working"
  /\ question[q] = [goal |-> job[s], lease |-> mine[s], state |-> "answered"]
  /\ lease[job[s]] = mine[s] /\ state[job[s]] \in ACTIVE
  /\ question' = [question EXCEPT ![q] = Closed]
  /\ state' = [state EXCEPT ![job[s]] =
                 IF OpenOf(job[s], mine[s]) = {q} THEN "running" ELSE @]
  /\ UNCHANGED <<lease, cycles, cycleLimit, spent, allowance, exhausted, unread,
                 sent, cycleVars, history>>
  /\ CycleOnly

\* reserve, before the native process sends a model request; it may still send
\* one while it is being closed.
MayReserve(s) ==
  /\ phase[s] \in {"working", "closing"}
  /\ lease[job[s]] = mine[s] /\ state[job[s]] \in ACTIVE

Reserve(s, e) ==
  /\ MayReserve(s) /\ spent[job[s]] + e <= allowance[job[s]]
  /\ spent' = [spent EXCEPT ![job[s]] = @ + e]
  /\ UNCHANGED <<state, lease, cycles, cycleLimit, allowance, exhausted, unread,
                 sent, question, cycleVars, history>>
  /\ CycleOnly

ReserveRefused(s, e) ==
  /\ MayReserve(s) /\ spent[job[s]] + e > allowance[job[s]]
  /\ state' = [state EXCEPT ![job[s]] = "paused"]
  /\ exhausted' = [exhausted EXCEPT ![job[s]] = allowance[job[s]]]
  /\ consent' = consent \ {job[s]}
  /\ UNCHANGED <<lease, cycles, cycleLimit, spent, allowance, unread, sent,
                 question, cycleVars, accepted>>
  /\ CycleOnly

Conclude(s, v) ==
  /\ verdict' = [verdict EXCEPT ![s] = v]
  /\ Goto(s, "closing")
  /\ UNCHANGED <<job, mine, heard, goalVars, question, history>>
  /\ CycleOnly

\* Mutants: a cycle that polls its goal only, or the supervisor only.
InterruptOnPause(s) ==
  /\ phase[s] = "working"
  /\ state[job[s]] \notin ACTIVE
  /\ Conclude(s, "interrupted")
InterruptOnStop(s) ==
  /\ phase[s] = "working"
  /\ serviceStop
  /\ Conclude(s, "interrupted")

\* The goal was paused or stopped, or the supervisor is to stop.
Interrupt(s) ==
  /\ phase[s] = "working"
  /\ state[job[s]] \notin ACTIVE \/ serviceStop
  /\ Conclude(s, "interrupted")

\* The turn is over: the verdict is the checkpoint's decision after the checks
\* of its evidence and of progress, or "failed" for any exception.
TurnEnds(s, v) ==
  /\ phase[s] = "working" /\ v # "interrupted"
  /\ Conclude(s, v)

CycleFinishes(s) ==
  /\ phase[s] = "closing" /\ lease[job[s]] = mine[s]
  /\ CASE verdict[s] = "interrupted" -> Save(job[s], "paused", {})
       [] verdict[s] = "failed"      -> Save(job[s], "blocked", {})
       [] OTHER                      -> Save(job[s], verdict[s], heard[s])
  /\ Goto(s, "returning")
  /\ verdict' = [verdict EXCEPT ![s] = None] /\ heard' = [heard EXCEPT ![s] = {}]
  /\ UNCHANGED <<job, mine>>
  /\ CycleOnly

\* An exception outside the try, in a handler or in finish itself.
CycleRaises(s) ==
  /\ phase[s] \in {"starting", "closing"}
  /\ Goto(s, "raised")
  /\ verdict' = [verdict EXCEPT ![s] = None] /\ heard' = [heard EXCEPT ![s] = {}]
  /\ UNCHANGED <<job, mine, goalVars, question, history>>
  /\ CycleOnly

\* The last statement of execute_cycle reads the goal again.
CycleReturns(s) ==
  /\ phase[s] = "returning"
  /\ Goto(s, IF Exists(job[s]) THEN "done" ELSE "raised")
  /\ UNCHANGED <<job, mine, verdict, heard, goalVars, question, history>>
  /\ CycleOnly

Cycle(s) ==
  \/ ReadFeedback(s) \/ Interrupt(s) \/ CycleFinishes(s)
  \/ CycleRaises(s) \/ CycleReturns(s)
  \/ \E v \in Verdicts : TurnEnds(s, v)
  \/ \E q \in Question : AskUser(s, q) \/ Deliver(s, q)
  \/ \E e \in Estimates : Reserve(s, e) \/ ReserveRefused(s, e)

Next == User \/ Sessions \/ Supervisor \/ \E s \in Slot : Cycle(s)

Spec == Init /\ [][Next]_vars

-----------------------------------------------------------------------------
(* Safety *)

\* A cycle whose native process may use the project's files and tools.
Holding(s) == phase[s] \in {"starting", "working", "closing"}

\* At any time one cycle or one session at most works in a project, although
\* claims, sessions and supervisors that die race each other and a cycle keeps
\* its lease while it is being closed.  (native_goals.py:510: "Exclude concurrent
\* goal cycles while a local CLI/review action owns files.")
ProjectHasOneWriter ==
  /\ \A s, t \in Slot :
       Holding(s) /\ Holding(t) /\ home[job[s]] = home[job[t]] => s = t
  /\ \A s \in Slot, o \in Owner : Holding(s) => working[o] # home[job[s]]
  /\ \A o, r \in Owner : working[o] = working[r] /\ working[o] # None => o = r

\* A goal that may run, runs or offers its result is one the user wants to run:
\* neither the end of a cycle, feedback, a wake nor recovery undoes a pause, a
\* stop, a block, a spent allowance or an interruption; only the user's resume does.
Wanted == ACTIVE \cup {"queued", "ready_for_review"}
RunsByConsent == \A g \in Goal : state[g] \in Wanted => g \in consent

\* A result offered or accepted takes all feedback into account, also the one
\* that arrived while the cycle was running.
FeedbackIsHeard ==
  \A g \in Goal : state[g] \in {"ready_for_review", "completed"} => unread[g] = {}

\* A goal waits for its user exactly while its cycle has a question that is not
\* answered and delivered, and no question outlives its cycle.
WaitingMeansAsked ==
  /\ \A g \in Goal : state[g] = "awaiting_approval" => OpenOf(g, lease[g]) # {}
  /\ \A g \in Goal : state[g] = "running" => OpenOf(g, lease[g]) = {}
  /\ \A q \in Question : IsOpen(q) => /\ question[q].lease # 0
                                     /\ lease[question[q].goal] = question[q].lease

\* Once the allowance refused a request, no cycle runs before it is extended.
RefusedStaysPaused ==
  \A g \in Goal : exhausted[g] # 0 => state[g] \notin Wanted

\* Every wake but the last was accepted by the user, whatever became of its goal.
NextWakeAwaitsAcceptance ==
  \A i \in Runs : i < runs => wakeGoal[i] \in accepted

\* A goal that was completed or stopped stays so until it is dismissed, and a
\* dismissed one never comes back: no cycle that still runs for it, no late
\* feedback, answer or wake and no recovery writes its state again.
EndsStand ==
  [][\A g \in Goal : state[g] \in TERMINAL \cup {"deleted"} =>
       state'[g] \in {state[g], "deleted"}]_vars

(* The inductive invariant: what leases, cycles and sessions have in common   *)

\* Cycles exist under a supervisor only; each has a goal and a lease number, and
\* knows what to save when it closes.
CyclesAreSupervised ==
  \A s \in Slot :
    /\ phase[s] # "free" => sup # "off" /\ job[s] \in Goal /\ mine[s] # 0
    /\ phase[s] = "closing" => verdict[s] \in Verdicts

\* A lease is the number of the latest cycle and only a claimed goal has one.
LeasesAreClaims ==
  \A g \in Goal :
    /\ lease[g] \in {0, cycles[g]}
    /\ state[g] \in ACTIVE => lease[g] # 0
    /\ lease[g] # 0 => state[g] \in ACTIVE \cup {"paused", "stopped"}
    /\ state[g] = "absent" => cycles[g] = 0 /\ exhausted[g] = 0

\* A cycle owns its goal until it has saved; two cycles of a goal differ.
CyclesOwnLeases ==
  /\ \A s \in Slot : Holding(s) => lease[job[s]] = mine[s]
  /\ \A s \in Slot : phase[s] # "free" /\ state[job[s]] # "deleted"
                     => mine[s] <= cycles[job[s]] /\ state[job[s]] # "absent"
  /\ \A s, t \in Slot : phase[s] # "free" /\ phase[t] # "free" /\ job[s] = job[t]
                        /\ mine[s] = mine[t] => s = t

OneLeasePerProject ==
  \A g, h \in Goal : lease[g] # 0 /\ lease[h] # 0 /\ home[g] = home[h] => g = h

\* A session that works is on record, and no goal of its project has a lease.
SessionsAreOnRecord ==
  ~Lapses => \A o \in Owner : working[o] # None =>
               busy[working[o]] = o /\ fresh[working[o]] /\ ~Leased(working[o])

\* Completed goals were accepted, and so were all wakes but the last.
AcceptedWakes ==
  /\ \A g \in Goal : state[g] = "completed" => g \in accepted
  /\ NextWakeAwaitsAcceptance

Inv ==
  /\ TypeOK
  /\ CyclesAreSupervised
  /\ LeasesAreClaims
  /\ CyclesOwnLeases
  /\ OneLeasePerProject
  /\ SessionsAreOnRecord
  /\ RunsByConsent
  /\ FeedbackIsHeard
  /\ WaitingMeansAsked
  /\ RefusedStaysPaused
  /\ AcceptedWakes

\* A cycle that gives its goal's lease back: it has not saved yet, or it raised and
\* is still to be reaped.
Returns(s, g) ==
  /\ job[s] = g /\ mine[s] = lease[g]
  /\ phase[s] \in {"starting", "working", "closing", "raised"}

\* While a supervisor lives, every lease has a cycle that gives it back.  Neither
\* a dismissal, a cycle that raises nor a crash leaves a lease nobody holds; this
\* is what PauseIsHonoured rests on.
LeasesAreWorked ==
  sup # "off" => \A g \in Goal : lease[g] # 0 => \E s \in Slot : Returns(s, g)

-----------------------------------------------------------------------------
(* Liveness: every thread keeps running.  The turn itself ends by the cycle's  *)
(* deadline, which is extended while the user is asked.                        *)

Progress(s) ==
  \/ ReadFeedback(s) \/ Interrupt(s) \/ CycleFinishes(s) \/ CycleReturns(s)
  \/ ReapDone(s) \/ ReapRaised(s)

LiveSpec ==
  /\ Spec
  /\ \A s \in Slot : WF_vars(Progress(s))
  /\ WF_vars(StopNoticed) /\ WF_vars(Shutdown)

\* A paused or stopped goal gives its lease back, so that it can be resumed or
\* dismissed, unless the supervisor is gone and its next start releases it.
PauseIsHonoured ==
  \A g \in Goal : state[g] \in {"paused", "stopped"} /\ lease[g] # 0
                    ~> lease[g] = 0 \/ sup = "off"

\* A supervisor asked to stop ends, also with cycles that wait for the user.
StopIsHonoured == (serviceStop /\ sup # "off") ~> (sup = "off")
=============================================================================
