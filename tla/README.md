# SMARA: a TLA+ model of its durable work

SMARA is an agent product: a hosted API with workers, paired desktops, a native
Desktop application with persistent goals, and a private local mode.  What a
user entrusts to it survives processes: tasks, steps, approvals, goals, leases,
turns, mails and receipts are rows of SQLite (or Postgres) databases and of a
bounded JSON file, and several processes and threads act on each of them.  This directory
models those stores together with the processes that drive them, model-checks
the models on small instances with TLC, and proves their main safety properties
for every instance with TLAPS.

Line numbers refer to `src/src/smara/` unless another path is given.
`PROJECT.json` maps every definition to its lines.

## 1. Inventory

| Component | State | Operations | Talks to |
|---|---|---|---|
| Task graph store (`store.py`) | tasks, runs, steps with leases and attempts, approvals, dead letters, desktop executors | create, decide, cancel, retry, claim, heartbeat, complete, fail, lease recovery | API, workers, devices |
| Hosted worker (`worker.py`) | the step it executes | poll `claim_one`, run a model, research or sandbox step, report | store |
| Desktop executor (`desktop_executor.py`) | the step it executes, a journal of executions | poll over HTTP, heartbeat, report; run the local queue | API, local queue |
| Local task queue (`local_agent.py`) | a JSON file of tasks, newest first | create, approve, claim, cancel, complete, fail, recover | Desktop window, runners |
| Goal ledger (`native_goals.py`) | goals, questions, feedback, project occupancy, one SQLite ledger | create, pause, stop, resume, extend, accept, dismiss, respond, claim, reserve, finish, recover | Desktop, CLI, Telegram, supervisor, native sessions |
| Supervisor and cycles (`native_goal_runtime.py`) | a loop, a heartbeat thread, up to two cycle threads | claim goals, run one bounded turn each, reap, shut down | ledger, native engine |
| Recurring wakes (`native_background.py`) | schedules with a run allowance | enqueue a goal when due | ledger, supervisor |
| Interactive sessions (`native_runtime.py`) | a pulse thread | occupy a project, heartbeat, release | ledger, native engine |
| Turn budgets (`native_budget.py`, `native_limits.py`) | estimates | reserve before each model request | ledger |
| Runtime sessions and session protocol (`runtime_session.py`, `session_protocol.py`) | threads, turns, items, approvals, an envelope with a cancellation flag | begin, announce, ask, respond, interrupt, finish | app server, Desktop companion, CLI |
| Integration actions (`store.py`, `integration_worker.py`) | connections, encrypted credentials, actions with risk, approval and lease | connect, disconnect, request, decide, claim, refresh, call, complete, fail | providers |
| Reviewed e-mail (`native_outreach.py`, `native_mail_oauth.py`) | drafts and dispatches, settings, a Gmail credential and its health file | draft, edit, send, reconcile, suppress, connect, disconnect | Gmail, window, CLI, draft tool |
| Session engine (`harness.py` under `autonomous_agent.py`) | an execution journal: calls, usage, evidence, cached reads, a file lock | reserve, retry, reconcile, execute, finish, cancel, resume | providers, tools, workspace |
| Provider admission (`native_admission.py`) | leases of a provider's concurrency | acquire, renew, release | all native requests |
| Local scheduler (`local_scheduler.py`), hosted schedules (`scheduler.py`) | schedules with a `running` flag or a next run | claim, run, complete | local agent, store |
| Executor journal (`desktop_executor.py`) | receipts of a device | begin, finish, look up | device |
| Skills, pairing codes, message gateway, workflows | further tables | publish, consume once, deliver at least once, order by dependencies | API |
| Agent loops, tools, research, memory, UI, vendored engine | in memory or none | calls of models and tools | all stores |

`PROJECT.json` "components" lists each of them with what is modelled; the last
section of this file gives the reasons for what is not.

### What is hard here

* **Several transactions per operation.**  `decide`, `cancel`, `retry_task` and
  `request_approval` read a task in one connection and write it in another;
  `complete_executor_step` and `fail_executor_step` check the lease in one
  transaction and report in another.
* **Leases and late answers.**  Hosted leases last 60 s and are not renewed, so a
  slow worker is overtaken and reports afterwards; all workers use the same
  `lease_owner`.  Desktop leases are recovered by the poll of *some* device.
* **Effects that cannot be undone.**  A write on a user's machine may have
  happened when its device disappears; only the user may repeat it.
* **Recovery while others are alive.**  A local runner, and a goal supervisor,
  begin by declaring everything in progress interrupted.
* **Decisions against running work.**  A user pauses, stops, cancels, gives
  feedback or dismisses while a cycle is about to save its verdict.
* **Answers racing their time-outs.**  An approval expires, a lease runs out and a
  mail counts as lost while the answer is on its way.
* **Late writers.**  A worker of an earlier turn, an OAuth helper that was
  overtaken, a sender taken for dead and a decision read long ago still write.
* **Cancellation beside a lock.**  An interrupt is two transactions; the engine's
  cancel takes no lock, so that it never waits for a tool.
* **Occupancy by heartbeat.**  Sessions and cycles exclude each other from a
  project by a lease on one side and a heartbeat on the other.

`PROJECT.json` "hazards" lists these at their lines.

### What makes each component correct

* Task store: no effect on a user's machine is repeated by the system; local
  work starts behind an approval on record; leases belong to whom they name;
  completed means completed; failures stay visible; cancellations and tasks end.
* Local queue: one execution at a time, which recovery never hits; every start
  has a permission; cancellation requests do not leak into later runs; queued
  work is taken up and cancellations are answered.
* Goal ledger: one writer per project; the user's last word stands; feedback is
  heard; waiting means asked; a refused allowance holds; wakes wait for
  acceptance; pauses and stops are honoured.
* Session protocol: a gated call acts only with its own approval; questions
  belong to live turns; an ended turn acts at most once more; no late writer
  hides a cancellation or claims success for another turn; turns end.
* Integrations: only approved writes reach the provider, as often as approvals
  and lapsed leases account for; completed means performed; a removed account
  is used only by calls under way; approved actions end.
* Reviewed e-mail: each draft is posted once, as reviewed; its verdict is true;
  "do not contact" and the daily limit hold; a proved dispatch stays proved; an
  overtaken connection stores nothing.
* Session engine: a write acts after its row admits it, at most once, and its row
  tells what became of it; at most one call starts
  after a cancellation; a waiting session is quiet; budgets hold across
  resumptions; nothing is undercharged; completed work has its declared artifacts valid or, if it declares
  none, has passed a check as it stands.

## 2. Modules

    LocalEffects          what the task store promises about local effects
        ^ refined by
    TaskStore             store.py + worker.py + the devices and API calls
        ^ EXTENDS                        ^ EXTENDS
    MCTaskStore (TLC)                TaskStoreProofs (TLAPS)

    LocalQueue            local_agent.py + the runners + the window
    MCLocalQueue          LocalQueueProofs

    GoalLedger            native_goals.py + supervisor, cycles, wakes, sessions
    MCGoalLedger          GoalLedgerProofs

    SessionProtocol       session_protocol.py + runtime_session.py + three hosts
    MCSessionProtocol     SessionProtocolProofs

    IntegrationActions    the action log of store.py + integration_worker.py
    MCIntegrationActions  IntegrationProofs

    JournaledEffects      what a write-ahead journal promises about its effects
        ^ refined by                     ^ EXTENDS
        |                              JournalProofs
    Outreach              native_outreach.py + native_mail_oauth.py
    MCOutreach            OutreachProofs
        | and by
    SessionEngine         harness.py under the agent loop
    MCSessionEngine       SessionEngineProofs

Each component module has its constants with a named assumption, its variables
with the column or memory each stands for, one action per transaction (or per
stretch of code between two observable effects), then safety, the inductive
invariant and liveness.  Definitions marked *Variant* or *Mutant* next to the
original are plausible bugs of that code; they are used only to show that the
properties notice them.  In no module is a RECURSIVE operator declared.

### The abstract specifications

`LocalEffects` says how often an effect on a user's machine starts: once per
permission, and never again by itself.  Under the mapping of TaskStore an effect is
a side-effecting step, which is waiting, started or over, and its permission is the approval
on record of a task whose gate is open.

`JournaledEffects` says what a row may claim about an effect that cannot be taken
back.  Its entry is new, intended, done or void: nothing acts before it is
intended, nothing acts twice, "done" is written of what has acted and "void" of
what never will, and both are final.  An entry that stays intended is an effect nobody
knows about.  Two components implement it:

| | an effect | new | intended | done | void | has acted |
|---|---|---|---|---|---|---|
| Outreach | the post of a draft | none, draft | sending, unknown | accepted, sent_verified, suppressed after its delivery | failed, suppressed before | Gmail has got the post, or will |
| SessionEngine | a mutating call | none, pending | admitted | completed | never | the tool has been run |

The void entries are where Outreach is delicate: a row becomes "failed" while its
sender or a lookup may still be on the way, and the mapping says that no post of it
ever arrives.  Approved integration actions are no such journal: after a lapsed
lease or a second decision an action is performed again, which `EffectsAreAccounted`
counts.

### TaskStore

*State.*  `tstat`, `req`, `cancelReq`, `created`, `rstat`, `approval` are columns of
tasks, task_runs and approvals; `sstat`, `owner`, `lease`, `attempts`, `backoff`, `dead`,
`xlease` of task_steps, task_dead_letters and executor_leases; `devices` of
desktop_executors.  `job`, `begun` and `hold` are what workers and devices have
in memory; `calls` and `reports` carry what a two-transaction method remembers
from its first transaction.

*Actions.*  `Create`; `…Read` and `…Write` of request_approval, decide,
decide_for_executor, cancel and retry_task, with `CallLost` when the API process
dies between them; `ClaimOne` (recovery of expired leases, the approval
prompt and the claim are one transaction), `BeginSandbox`, `WorkerComplete`,
`WorkerFail`, `WorkerCrash`; `PairExecutor`, `RevokeExecutor`, `ClaimForExecutor`
(recovery, dead letters, automatic approval and claim, in this order),
`HeartbeatExecutorStep`, `CompleteExecutorStep`, `FailExecutorStep` and their
second half `FinishReport`, `ReportLost`, `ExecutorRefused`, `ExecutorCrash`;
`LeaseExpires` and `BackoffEnds` for time.

*Abstractions.*  A task has one run, as the code creates it.  Retry delays and
lease lengths are "may be over at any time".  The authentication read of a
device call is merged with the transaction that follows it.  Claims order by creation and
ordinal as the SQL does.  `Limit` is the number of attempts `fail_step` allows.
Events, artifacts, progress, executor heartbeats without a step and account
deletion are left out.  SQLite transactions are serial, and what a method reads in
the connection of its first write is merged with that write; the Postgres variants
(store.py:1814–1990) have the same contract with `SKIP LOCKED`, and anomalies of
READ COMMITTED beyond it are not modelled.  README.md:264 of the repository
calls the pairing workflow legacy compatibility; the native Desktop's own
state is in GoalLedger.

### LocalQueue

*State.*  `entries` is the order of the file, `status`, `cancelReq` and `attempt` the
fields of a task; `phase`, `want` and `job` are a runner process.  `granted` counts
permissions and is history only.

*Actions.*  `CreateGated`, `CreateQueued`, `RunTask`, `Approve`, `Cancel` are the window's
(creation and approval include the launch of a runner; a window that dies in
between is a `Crash` of the waiting runner).  `Acquire` takes the runners' lock and
runs recover_interrupted; `GiveUp` ends a drainer after its 75 s; `Claim`, `Drained`,
`Checkpoint`, `Complete`, `CompleteFails`, `Fail`, `FinishCancelled`, `LoseTask` follow run_once
and drain; `Crash` kills a runner and the operating system frees its lock.
`Dropped` is the eviction of tasks beyond `max_entries`.

*Abstractions.*  Recovery is merged with taking the lock: the lock is held from
before it to the exit of the process, so no other runner sees the difference,
and the window's operations commute with it.  Progress messages are left out.

### GoalLedger

*State.*  `state` … `sent` are the goal's row (requests and token estimate, two
cumulative counters under the same rule, are one counter `spent`), `question` the rows
of goal_requests, `job` … `heard` the cycle threads, `sup`, `serviceStop` the supervisor,
`busy` and `fresh` the occupancy record of a project, `working` what a session does in
truth, `enabled` and `runs` the schedule.  `consent`, `accepted` and `stopAsked` are history.

*Actions.*  The user's actions of GoalStore.action, `Respond`, `Enable` and `RequestStop`;
`Occupy`, `BeginWork`, `Pulse`, `EndWork`, `OwnerDies` and `HeartbeatAges` of sessions and CLI
activities; `Start` (with recover), `Claim`, `ClaimOverBudget`, `StopNoticed`, `LoopRaises`, `Shutdown`, `Crash`
and the three ways of reaping a cycle; `Wake`, `WakeRaises`, `WakesExhausted`; and the
phases of a cycle: `ReadFeedback`, `AskUser`, `Deliver`, `Reserve`, `ReserveRefused`, `Interrupt`,
`TurnEnds`, `CycleFinishes`, `CycleRaises`, `CycleReturns`.

*Abstractions.*  The verdict of a turn, after the checks of evidence and the stall
rule, is a choice.  A lease (a fresh uuid in the code) is the number of the
cycle.  The rows of a dismissed goal are back at their initial values; questions that are delivered, expired
or deleted are `Closed`.  The pausing of goals over budget, which claim does on its
way to the goal it takes, is an action of its own: nothing observes the
difference, as it touches only queued goals that no one else may take.  Due
times, attachments, progress receipts, Telegram messages and whether the
computer is online are nondeterministic or left out.  A killed supervisor's
native process is taken to end with it.  `validate_acceptance` is a choice of accepting or not.

### SessionProtocol

*State.*  `turn`, `owner`, `decision` are columns of protocol_turns and
protocol_approvals, `envelope` and `flag` the status and cancel_requested of
runtime_sessions; `stage`, `gated`, `answer`, `verdict`, `calls` are the worker thread of a
turn, `alive` the processes, `halfway` the clients between the two transactions of
interrupt.  `late` is history.

*Actions.*  `Begin`, `Open`, `StartTurn`, `BindCli`, `Announce` bring a turn from its row to its agent;
`StartCall`, `Ask`, `AnnounceWait`, `Poll`, `ReadDecision`, `Expire`, `Settle`, `Resolve`, `CheckCancel`,
`Act`, `EndCall` are one tool call under session_protocol.execute and _approve.  Between `AnnounceWait`
and `Poll` the CLI's approval handler has its say: `PromptAnswered` is the answer at the terminal (or the
denial without one) with the respond that follows, `PromptFails` the end of the terminal's input, and what either
raises leaves the agent (`PromptRaises`, `Abort`).  `EndLoop`,
`Save`, `Finish` and `Quit` end it.  `Respond`, `RequestCancel` and `EndTurns` (the two halves of
interrupt) are other processes', `Die` kills one.

*Abstractions.*  The item and event journal, snapshots and replay cursors record what
the rest decides.  turn/resume begins a turn like any other.  The server's bound
of four workers and the hosted API's start_turn are left out.  Ctrl-C at the
terminal ends the CLI's process, which is `Die`.

*What the model shows about the code.*  An effect whose checks were passed may
start once after its turn was interrupted.  An interrupt between begin's
transaction and its first item makes that item raise RuntimeError, which
the loop of the app server (app_server.py:99) does not catch; between begin and
start_turn it leaves the envelope as that start_turn writes it.  A question at the CLI's
terminal is asked before its deadline is set (session_protocol.py:328–331): while input() waits it
neither expires nor sees a cancellation, and begin refuses the next turn unless an
interrupt ends this one.  An answer that comes after another client's opposite
decision, or after the cancellation, raises ValueError and ends the whole turn, where the same refusal found by a
poll ends the call only.  No document promises otherwise, so none is a finding.

### IntegrationActions

*State.*  `conn`, `policy`, `secret` are the connection of an account and its credential,
`status`, `risk`, `link`, `overdue`, `attempts` the action log; `client` is what a request of the
API has read before it writes, `at`, `job`, `held`, `target` the worker processes.  `asked`,
`approvals`, `recovered`, `acts`, `inFlight`, `revoked` are history.

*Actions.*  `Configure`, `Disconnect`, and read and write of storing a credential, of a
request and of a decision; `Claim` (with recovery), `LookUp`, `Load`, `Refresh`,
`ReadForRefresh`, `StoreRefreshed`, `Call`, `Complete`, `Fail` of run_once; `Crash`, `Restart`, `Lapse`.

*Abstractions.*  Payloads and previews, retry delays and the OAuth state of the first
authorization are left out.  A worker's action is at the provider from `Call` on;
whether a failed call was performed is a choice.  Chat and task workers read through an account's connection
beside the action log (`connected_integration_runner`, integrations.py:101–131), refreshing and
storing its credential as integration_worker does; this path is left out, so the uses that
`RevokedUsesWereInFlight` counts are those of approved actions.

*What the model shows about the code.*  A decision made from an old read overwrites a
running or finished action (store.py:1595); each repetition is then paid for by
an approval, which is what `EffectsAreAccounted` says.  A credential whose read
preceded a disconnection stays behind it (store.py:1516, 1550), and a refreshed grant is
stored under whatever connection the provider has by then
(integration_worker.py:37).  Reads stay drafts, so that the retry of reads never
runs.  An approved write can be performed again after its lease has run
out: the docstring at store.py:1624 speaks of failed calls only, so this is no
contradiction of it.

### Outreach

*State.*  `state`, `content`, `account`, `age` are the row of a draft, `settings`, `vault`, `health` the
settings file, the stored credential and the health file; `helper`, `clientOf`, `accountOf`
the connection helpers, `pc` … `answer` the processes that send or reconcile; `mail`,
`transit`, `delivered` are Gmail.

*Actions.*  `Create`, `Edit`, `Suppress`, `List` (which ages what hangs), `Save`; `Check`, `Reserve`,
`TokenServes`, `Refresh`, `Post`, `Settle` of send, `Reconcile`, `LookUp`, `Verify` of
reconcile; `Connect`, `Authorize`, `Consent`, `Deny`, `Store`, `Disconnect` of the connection; `Arrive` and
`Pass` for Gmail and time; `Die`.

*Abstractions.*  A draft stands for its project and recipient.  Texts, evidence and
headers are one content hash.  The guard of 200 s in start() is abstracted to
"another connection may be started".

*What the model shows about the code.*  access_token (native_outreach.py:260) writes the
credential it has refreshed back without asking whether the account was
disconnected or replaced meanwhile; line 289 and native_mail_oauth.py:101 do ask.
`ConnectionIsCurrent` therefore excludes what such a refresh leaves (`stray`).
"Do not contact" is kept per project.  The daily limit and the allow-list are read
before the transaction that reserves, so a change of settings reaches the next
send only.

### SessionEngine

*State.*  `started` … `result`, `declared`, `row`, `changed`, `evidence`, `cache`, `tools`, `models`, `tokens` are the
journal's tables; `rev` is the hash of the workspace; `stage`, `at`, `before`, `passed`, `tries` the
processes.  `effects`, `runs`, `late`, `tested`, `blurred`, `known`, `open` are history.

*Actions.*  `Begin`, `Inspect`, `Resume`; `Reserve`, `Retry`, `GiveUp`, `Answer`, `AnswerUnknown` for
provider requests; `Enter`, `Reuse`, `Replay`, `Exhausted`, `Admit`, `Perform`, `Journal`, `Raise` for
one call of a tool under execute_incremental; `Finish`, `Fail`, `Cancel`, `Edit`, `Crash`.

*Abstractions.*  Plan runs, child budgets, the wall clock and dollars are left out; so is
the text of a receipt.  Of an output contract the model has the declared artifacts
(`declared`, `Valid`); its checks of the answer's form, owned processes and research
validation only turn a completion into "needs_input", which the agent may propose anyway.
Whether the artifacts pass is taken to depend on `rev` alone, so `rev` stands for what
workspace_revision hashes and for an artifact in a folder that it skips (harness.py:53–59).  `Finish`
reads revision, evidence and artifacts in one step (harness.py:748–766): an edit between these
reads is not modelled.
A terminal command may change the workspace, whether it passes or not (`Perform`): its
evidence is for the revision it left, which is what `tested` records, although what it
tested may be the revision before.  A revision that somebody makes between the
verdict of a check and the reading of the revision is `blurred`: the evidence is for that one.

*What the model shows about the code.*  A session whose declared artifacts all pass is
completed with its changes tested by nothing (harness.py:768;
tests/test_final_artifact_contract.py:27–37 wants it so); one whose artifacts fail is not
completed whatever its tests say.  `CompletionIsTested` states both cases.
A tool that raises leaves its call admitted;
finish_incremental looks at completed calls only, so a session may be called
completed although the effect of such a call is unknown (HARNESS_STATUS.md:81–82 describes
the state as needing the user).  A reused read has a row without a result; its
call id, replayed in another revision, meets a NULL there.  Root admission does not
count what is reserved for children.  finish_incremental does not look at
`cancelled`.  An answer whose reconciliation meets a busy journal is requested
again, and stays charged.

## 3. What is checked

All numbers are for TLC with two workers.

| Run | Instance | Shows |
|---|---|---|
| `Hosted` | one task, a hosted and a sandbox step, 2 workers, 1 client call in flight, 1 crash; 116 k states | completed means done, local starts are approved |
| `Desktop` | one task, a read (2 attempts) and a write, 2 devices, 1 hosted worker, all approval policies, late reports; 213 k states | who may hold a lease, and the refinement of LocalEffects: no automatic replay, every start approved |
| `DesktopLive` | two writes in a chain, asked or approved by policy, 2 devices, 2 client calls in flight (approve, cancel, retry), 1 crash; 102 k states | while a device keeps its token, tasks settle or are stranded by a stale write, and cancellations that no call overlaps end |
| `LocalQueue` | 3 tasks, a file of 2, 3 runners, 1 crash, direct runs | one execution, granted starts, current requests |
| `LocalQueueLive` | 2 tasks, 3 draining runners | queued tasks are taken, cancellations answered |
| `GoalCycles` | 1 goal, 2 cycle threads, 2 questions, feedback, allowances 1 and 3, requests of 2, cycle limit 2; 154 k states | feedback, questions, allowance; pause and stop are honoured |
| `GoalProject` | 3 goals of a project, 2 by wakes, 1 session, 2 cycle threads, 1 crash, a missing folder; 469 k states | one writer, consent, wakes |
| `Sessions` | 2 turns, an app server, a Desktop companion and a CLI process, 2 calls a turn, 1 interruption, 1 death; 493 k states | approvals, current questions, interruption, late writers; turns end unless a terminal's prompt is left unanswered |
| `Integrations` | 2 API requests, 2 workers, 1 connection, 1 action, 3 attempts, policies observe and assisted, 1 crash, 1 overrun lease; 526 k states | approval, accounting, revocation; approved actions end |
| `Outreach` | 2 drafts, 2 revisions, 1 account, 2 processes, 2 settings, 1 connection; 1.1 M states | one post as reviewed, suppression, limit, connection; the refinement of JournaledEffects: true and final verdicts |
| `Engine` | 2 processes, a write, a check and a read, 2 revisions of which 1 has valid artifacts, artifacts declared or not, 2 runs, 2 requests, 5 tokens, 1 edit, 1 crash; 3.3 M states | stopped sessions are quiet, budget, charges, tested or validated completion; the refinement of JournaledEffects: no replay |
| `CancelResumes` | one hosted step | the finding below |

The runs check what a user would notice.  The following are proved for every value of
the constants and repeated by no run: the type invariants and the inductive invariants that contain
them; what the refinements imply (`NoAutomaticReplay`, `VerdictsAreTrue`, `VerifiedStays`,
`WritesRunOnce`); `LeaseMatchesStatus` and `FailedIsVisible`; the safety cores of the
liveness properties (`CancellingIsRunning`, `QueuedIsWatched`, `RunningIsRun`, `LeasesAreWorked`,
`LiveTurnsAreWorked`); and the action properties that say what is final (`VerdictsStand`,
`FirstEndStands`, `EndsStand`, `OnlyDecisionsReopen`, `ReopenedOnCall`).

### Bounds and why they are enough

* *Attempts* are counted up to `AttemptCap`, one more than every limit: no comparison
  of the store sees a difference above it.
* *One call in flight* (`MaxCalls`) puts any other operation between the two halves
  of a call, including the whole of a device's or a worker's; `MaxReports` does the
  same for reports.  Two user calls at a time meet in `DesktopLive`; for the safety
  properties they are covered by the proofs.
* *Two steps* are the least with parallel work, with dependencies and with one
  step failing beside another; two workers or devices the least that overtake
  each other.  One task: claims of different tasks touch different rows, and
  the proofs cover any number.
* *Two entries* in the local file are fewer than its real minimum of ten, so that
  eviction happens with three tasks; three runners are a holder, one that waits
  and one launched later.
* *Two cycles, allowances of 1 and 3 and requests of 2* let a goal be refused with
  nothing spent, be extended and be refused again; two questions are the least with an order; a cycle thread that
  is still winding down beside a new claim of its goal needs two slots.
* *Two turns* are the least with a late worker of an earlier one; each of the three
  hosts runs either, and the killed process may be any of them.
* *One action, two decisions and two workers* let a stale decision meet a running
  action, and a worker that lost its lease meet the one that has it; with three
  attempts an action is recovered and runs out of them.
* *Two drafts and a limit of 1* are the least that reach the limit from two
  processes; settings differ in client, allow-list and enabling.  Two accounts or
  two connections at a time are covered by the proofs only.
* *Two runs, two requests and five tokens* with an estimate of 2 and answers of 1
  and 3 exhaust each budget, refuse a retry and overrun the estimate; two runs are
  a change and its check, in either order.  An edit may bring the first revision back.
* *One crash* meets every state; recovery restores a state a second crash meets too.
* Devices, sessions, runners, questions and (LocalQueue) tasks are symmetric in
  runs of safety only; no liveness run uses symmetry.

Every bound is a constant named in the module; the theorems hold for all values.
Deadlock is not checked in the TaskStore, LocalQueue, Sessions, Integrations and
Engine runs: tasks, turns, actions and processes are finite there and end, so the
system comes to rest.  The GoalLedger and Outreach runs check it.

### Fairness and why the code justifies it

* **TaskStore** (`FairSpec`, run `DesktopLive`).  Weak fairness of each worker's claim and
  of the end of its job (`worker.main` polls for ever and each kind of work has a
  deadline); of each device's poll, under whichever policy it has then, and of its report; of
  the second transaction of a call or report; of the passing of time.  Nothing
  obliges a user to act or a process to crash.  The properties assume that
  one paired device keeps its token (`DeviceStays`), because nothing else recovers a desktop lease.
  Two calls may overlap, and a poll may approve by policy while a person decides.  A decision
  or a retry written after such a call, after an automatic approval or after a late report may leave
  an open task with nothing to run (`Stranded`; see below).  `DesktopTaskSettles` names that
  outcome and excludes every other way of not settling; `DesktopCancelTerminates` has the premise that calls do not
  overlap (`CallsAreSerial`), as a stale approval undoes a cancellation.
  The calls are those that open, close or reopen a task; to ask for approval and to deny it open none.
  File reads and hosted steps are left out of this run on purpose: their recovery ignores
  the attempt limit (store.py:919), so work that outlives every lease is started
  again for ever, and no line of the repository promises otherwise.
* **LocalQueue** (`FairSpec`).  Weak fairness of `Work(r)`: a runner polls its lock every
  0.1 s and each capability ends by its own deadline.  `GiveUp` needs no fairness.  The run
  leaves out `--local-run-task` runners, kills and evictions: behind a
  runner that ends after its own task a queued task waits for the next launch.
* **GoalLedger** (`LiveSpec`).  Weak fairness of each cycle's own steps (`Progress`), of the
  supervisor noticing a stop (`StopNoticed`) and of its shutdown: these are threads
  that loop with short sleeps (0.2 s and 1 s).  `TurnEnds` is *not* fair: the deadline of a turn is
  extended while the user is asked, so a pause or a stop must be honoured without
  the turn ending by itself.

* **SessionProtocol** (`FairSpec`).  Weak fairness of `Work(t)`: a worker is a thread of a live
  process and its agent has a budget of calls.  Strong fairness of `Expire(t)`: the
  poll alternates with a sleep, and at its deadline of 300 s it expires the
  approval itself.  Nobody has to answer, interrupt or die.  At the CLI's terminal
  this is not enough, as input() has no deadline: `PromptAnswered` and `PromptFails` are not fair, and
  `TurnEnds` assumes of a turn that its prompt is left some time (`PromptIsLeft`).
* **IntegrationActions** (`FairSpec`).  Weak fairness of `RunOnce(w)` and `Restart(w)` (the worker
  loops, its calls have time-outs and its container restarts unless stopped) and
  of the lapse of a lease nobody works on.  No request of the API has to come.

### Findings and divergences

One is a run that TLC finds violated, with the promise it breaks.

1. `CancelResumes`: fail_step (store.py:1020) requeues a step of a task whose
   cancellation is recorded, and claim_one starts it again.
   tests/test_control_plane.py:204 promises that cancellation stops future steps.

The models also reproduce the following, which no property forbids because the
code does it; each deserves a decision of its maintainers.

* Between the lease check and the completion of complete_executor_step
  (store.py:1439) another device may recover and claim the step; the completion of
  the first then finishes it.  README.md:272 of the repository excludes that.
* A retryable failure reopens a task that a parallel step has already failed
  (store.py:1021); it can then neither end nor be retried.
* decide (store.py:792) writes the task as queued whatever has become of it since it was
  read.  An approval that overlaps an automatic approval, a device's late report of a failure or a
  cancellation therefore reopens a finished or cancelled task with no step left to run; so may two overlapping
  retries (store.py:848).  Such a task is `Stranded` in the run `DesktopLive`: it stays open, runs nothing and asks nobody
  until a client cancels it.  `ReopenedOnCall` says that nothing but such calls, and the retryable
  failure above, reopens a task.
* A session whose heartbeat is late while it works loses its project to a goal
  cycle (native_goals.py:356); the comment at native_goals.py:511 excludes that.
* Dismissing a goal in a small window ends the supervisor of all projects
  (native_goal_runtime.py:704), against the comment at line 700.  The missing
  folder of a schedule ends it too (native_background.py:94).
* A task that mixes hosted and desktop steps is refused by both approval paths
  and can only be cancelled (store.py:826).
* Recovery of hosted steps and file reads ignores the limit of attempts
  (store.py:919).

## 4. What is proved

`tlapm` checks all obligations of the eight proof modules.  The assumptions are
the named ones on the constants of each module: bounds are naturals, sets that
are counted are finite, `None` is no member of what it stands beside, kinds of
tools are disjoint, settings and policies are well formed, and in TaskStore
creation ranks are cardinalities.  TLC evaluates them in every run.  Each module
proves an inductive `Inv` with one lemma per action and one step per part of it,
and then the properties.

**JournalProofs.**  The entries of `JournaledEffects` tell the truth and a verdict is final.  The proofs
need no helper: the abstract specification is made so that its promises can be
read off its steps.  The refinements below carry them to two components.

**TaskStoreProofs.**  `NoAutomaticReplay` (a started side effect has at most one attempt
since its last retry_task) is not inductive.  `Inv` adds the reasons: a running task
has its gate open (`GateClosesTask`), so claim_one, which looks at gated desktop
steps, only prompts for them; hence a worker never holds desktop work
(`WorkersStayHosted`); a device reports only reads as retryable (`RetryOnlyReads`);
hence a queued side-effecting step has no attempt (`QueuedUnstarted`).  The proof has one lemma per
action.  `Typing`, `Invariance`, `AtMostOnce` follow.  A second invariant on top of it,
`Settled`, is the conjunction of `LeaseMatchesStatus`, `LeaseAuthority`, `CompletedMeansDone` and
`FailedIsVisible`: each needs the others, as a completion is only counted if its step
was running, and a running step has its lease.  `LocalWorkIsApproved` rests on `Gated`: nothing
refers to a task before its creation (`AbsentIsQuiet`), local work waits for its gate or
has its approval (`LocalWaits`), and a retry that was read without a gate is of other work
(`PlainRetries`).  Last, `Refinement`: every step of
TaskStore is a step or a stutter of LocalEffects under the mapping of a step's
status to waiting, started or over and of the task's approval to a permission.
`OnlyCallsReopenTasks` goes through the actions that write a task's status.
`CancellingTasksHaveARunningStep` is inductive on top of `Inv` and `Settled`: whatever takes the
last running step from a task that is being cancelled also closes the task, because it reads
the request on record in the same transaction.

**LocalQueueProofs.**  `Inv` adds that the lock has one holder (`OneHolder`) to the three
properties.  Recovery is performed by the holder alone, so it can only meet
tasks of runners that are gone; what is executed is therefore always marked as
executing.  `granted` bounds the attempts because only creation and approval queue a task.
A second invariant, `Watch`, is about who still looks.  `RunningIsRun`: without kills, a
task marked as running is a live runner's.  `QueuedIsWatched`: a runner that may find
the file empty holds the lock, so that a task queued after its look has its own
runner waiting, and a drainer gives up only behind a holder; it needs that the file has every task (`FileIsComplete`) and
that all runners drain (`AllDrain`).

**GoalLedgerProofs.**  The proof turns on leases.  A lease is the number of its
goal's latest cycle and only a goal that was claimed has one (`LeasesAreClaims`);
a cycle owns its goal's lease until it has saved, and two cycles of a goal, one of
them winding down, have different numbers (`CyclesOwnLeases`); a project has one
lease (`OneLeasePerProject`); a working session is on record and its project has no lease
(`SessionsAreOnRecord`, if heartbeats do not lapse).  From these `Exclusion`
derives that a project has one writer.  `RunsByConsent`, `FeedbackIsHeard`,
`WaitingMeansAsked`, `RefusedStaysPaused` and `AcceptedWakes` are conjuncts of the
invariant, as each is inductive only together with the leases.  `Exclusion` assumes
`~Lapses`; the divergence at native_goals.py:356 shows that it needs to.
`LeasesAreReturned` adds the converse of owning: each lease has a cycle (`Returns`) that is
starting, working, closing or has raised, and each of these ends in giving it back;
only the start of the next supervisor does so for a dead one.  `EndsAreFinal` holds since
every late writer asks for the lease, which a goal that ended has lost or keeps only
until its cycle saves, and the save itself looks at the state.

**SessionProtocolProofs.**  `EffectsAreApproved` rests on `AllowedIsRecorded` (a worker
goes on with an answer only if the row still says so: nothing rewrites a decision
that was given) and on `QuestionsAreLive`.  `OneLateEffect` needs `LateIsLast`: once an effect
started late, its worker sees the end of the turn before the next.
`SuccessIsCurrent` needs that live turns are the latest (`LiveTurnIsLatest`), since
a checkpoint with an expected turn writes only for that one.
`BlockingTurnsAreWorked` and `EndsAreFinal` say what a thread may rely on: whoever is in its
way is being worked on, and of several that end a turn the first decides.

**IntegrationProofs.**  `EffectsAreAccounted` follows from a chain of counts: performances plus
workers before their call are at most the attempts (`ActsAreAttempts`, a
cardinality), and attempts plus a pending approval at most approvals plus
recoveries (`AttemptsAreAccounted`).  `WritesAreApproved` needs that whatever was once up for
a decision, or is being decided, may be asked for (`DecidableIsPermitted`), because a
decision writes to the row whatever has become of it.  `RevokedConnectionsEnd` counts: the
uses of a removed connection and the calls still under way on it are at most the
calls under way at its removal.  It needs that connections are numbered as they are made and
that no use counts before the removal (`ConnsAreCounted`).  `OutcomesStandUntilDecided`: complete
and fail ask for a running row, and a claim for a queued one, so an outcome is overwritten
by a decision only, which asks for nothing.

**OutreachProofs.**  A row has one process between reservation and outcome (`Single`), which
knows its content and account (`Owned`); before it has posted, nothing was posted
(`Before`), so `PostedOnceAsReviewed`.  `Told` and `Found` relate what a process knows to what
Gmail did; from them `VerdictsAreTrue` although a row may be taken for lost under
its sender.  `OutreachImplementsJournal` maps every step: the post itself acts, the transactions write
entries, and listing the table, which ages what hangs, changes what rows say only
within "intended".  `DailyCap` is a cardinality: the reservation counts the attempts
of a day in its own transaction.

**SessionEngineProofs.**  One process holds the lock (`OneWriter`), and the row of what it
runs is admitted (`CallsAreHeld`).  An admitted write is never admitted again and
a row that is not has no effect yet (`EffectsFollowRows`); hence `WritesRunOnce` over
exceptions, crashes and resumptions, and `EngineImplementsJournal`.  `StoppedIsQuiet` rests on the
lock for a waiting session, and for a cancelled one on the one process that was past its check.  `TokensCoverUse` follows the three ways a
charge changes; `CompletionIsTested` is an action property: a declared
artifact is read when the session finishes, and for evidence it needs `EvidenceIsTested`.

**Only model-checked.**  The liveness properties: liveness under fairness is beyond the
prover.  For most of them the state that progress starts from is a theorem.

| Property | Proved beneath it |
|---|---|
| `DesktopCancelTerminates` | `CancellingIsRunning`: a step runs that will find the request |
| `QueuedIsTaken` | `QueuedIsWatched`: a runner will look at the file |
| `CancelIsAnswered` | `RunningIsRun`: a runner has the task |
| `PauseIsHonoured` | `LeasesAreWorked`: a cycle has the lease |
| `StopIsHonoured` | none beyond the type invariant: it is about the supervisor and its threads only |
| `TurnEnds` | `LiveTurnsAreWorked`: a worker has the turn, at a prompt perhaps |
| `DesktopTaskSettles` | none: a write after a stale read may strand a task whatever state it is in |
| `ApprovedEnds` | none: a lease may lapse whenever it is held, so that what ends an action is the bound on its attempts |

Every safety and action property of the passing runs is a theorem.

## 5. Plan

Built, in the order of the damage: effects on a user's machine first (LocalEffects,
TaskStore, LocalQueue), then the places where recovery meets live work
(GoalLedger), then what acts in a user's name (SessionProtocol, IntegrationActions,
Outreach) and the journal under every agent session (SessionEngine).

Next, each as component module, MC module and run:

1. `ProviderAdmission` (native_admission.py): leases, lost renewals, the window
   of a minute; composed with GoalLedger's cycles as its users.
2. `ExecutorJournal` (desktop_executor.py:2785–2940): the device's receipts, composed with
   TaskStore's reports so that a lost response meets the journal.
3. `LocalScheduler` (local_scheduler.py, scheduler.py): claim, callback and completion, enabling
   during a run, crashes.
4. Skills and pairing codes (store.py:319–520): the reads before their writes.

The executor journal, of which an entry means what a receipt does, is the next to compare with
JournaledEffects.  Then the plan runs and child budgets of SessionEngine.
An abstract specification of IntegrationActions would have to count credit, an
approval or a lapsed lease per performance, where LocalEffects has one permission.

## 6. What is not modelled and why

* Language models, prompts, tools, research, memory and learning: data
  processing whose result is a choice wherever a modelled component uses it.
* Authentication, encryption, HTTP parsing, migrations, user interface, mobile
  application, build and deployment: no protocol state beyond the rows above.
* Vendored engine (`src/vendor/codex`): third-party; how cycles and sessions
  use it is in GoalLedger.
* Terminals, browsers, documents and other capabilities: operating-system I/O.
* Provider admission, executor journal, local and hosted schedules: in the plan.
  The goal schedules that the Desktop uses are in GoalLedger.  The retired
  native_schedule is not used.
* Skill lifecycle, pairing codes, message gateway, workflows, rate limiter:
  smaller than the planned modules in what can go wrong.
* The failure of a disk or a database beyond an exception in the middle of a
  call: SQLite and `os.replace` are taken to be atomic.
