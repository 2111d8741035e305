------------------------------ MODULE TaskStore ------------------------------
(***************************************************************************)
(* The durable task graph of src/src/smara/store.py: tasks, their single   *)
(* run, their steps, the approval gate, hosted and desktop leases, retries *)
(* and dead letters, together with the processes that drive it: hosted     *)
(* workers (worker.py), paired desktop executors and API clients.          *)
(*                                                                         *)
(* One action is one database transaction.  A method that reads in one     *)
(* transaction and writes in another (decide, cancel, retry_task,          *)
(* request_approval, complete_executor_step, fail_executor_step) is two    *)
(* actions; what it carries from the first to the second is a record in    *)
(* `calls' or `reports', and the API process may die in between.           *)
(*                                                                         *)
(* Time is abstracted: a lease is live until LeaseExpires, a retry backoff *)
(* holds until BackoffEnds.                                                *)
(***************************************************************************)
EXTENDS Naturals, FiniteSets

CONSTANTS
  Task, Step,         \* task and step identities
  TaskOf,             \* [Step -> Task]: the task a step belongs to
  Ordinal,            \* [Step -> Nat]: position of a step inside its task
  DependsOn,          \* [Step -> SUBSET Step]: task_step_dependencies
  Kind,               \* [Step -> Kinds]: executor_kind
  Cap,                \* [Step -> capability]: required_capability
  Limit,              \* [Step -> Nat]: total attempts that fail_step allows
  Account,            \* [Task \cup Executor -> account]
  Worker,             \* concurrent run_once coroutines, over all processes
  Executor,           \* paired desktops
  DeviceCaps,         \* [Executor -> set of capabilities declared at pairing]
  WorkerId,           \* the lease_owner every hosted worker uses
  None,               \* SQL NULL
  SandboxEnabled,     \* deployment setting: workers claim sandbox steps
  Policies,           \* approval policies the devices poll with
  ClientOps,          \* the client operations exercised, a subset of ClientOp
  MaxCalls,           \* bound: client calls in flight between two transactions
  MaxReports,         \* bound: executor reports in flight between two transactions
  MaxCrashes,         \* bound: crashes (worker, device or API process) in a behaviour
  AttemptCap          \* bound: `attempts' is counted up to this value

Kinds      == {"hosted", "sandbox", "desktop"}
RunStatus  == {"queued", "running", "completed", "failed", "cancelled"}
TaskStatus == RunStatus \cup {"waiting_approval", "cancelling"}
Terminal   == {"completed", "failed", "cancelled"}

\* The capability names the store treats specially; any other capability
\* ("local_file_write", "local_terminal", ...) is merely compared.
FileRead == "local_file_read"
SafeCaps == {"local_file_read", "local_browser", "local_integration",
             "local_calculate", "local_python", "local_graph"}

StepsOf(t)     == {s \in Step : TaskOf[s] = t}
Local(t)       == \E s \in StepsOf(t) : Kind[s] \in {"desktop", "sandbox"}
DesktopMode(t) == \E s \in StepsOf(t) : Kind[s] = "desktop"
AllDesktop(t)  == \A s \in StepsOf(t) : Kind[s] = "desktop"

\* A desktop step whose effect on the user's machine must not be repeated.
SideEffecting == {s \in Step : Kind[s] = "desktop" /\ Cap[s] # FileRead}

ASSUME ConstantsAssumption ==
  /\ TaskOf \in [Step -> Task]
  /\ Ordinal \in [Step -> Nat]
  /\ DependsOn \in [Step -> SUBSET Step]
  /\ Kind \in [Step -> Kinds]
  /\ Limit \in [Step -> Nat]
  /\ WorkerId \notin Executor /\ None \notin Executor /\ None # WorkerId
  /\ None \notin Step
  /\ SandboxEnabled \in BOOLEAN
  /\ MaxCalls \in Nat /\ MaxReports \in Nat /\ MaxCrashes \in Nat

\* A database holds finitely many tasks; their creation ranks are numbers.
ASSUME TaskFiniteness == IsFiniteSet(Task)

\* `attempts' is counted exactly up to AttemptCap.  One more than every limit is
\* enough to decide every comparison the store makes.
ASSUME AttemptCapAssumption ==
  /\ AttemptCap \in Nat /\ AttemptCap > 1
  /\ \A s \in Step : Limit[s] < AttemptCap

VARIABLES
  tstat,       \* tasks.status, "absent" before create
  req,         \* tasks.requires_approval
  cancelReq,   \* tasks.cancel_requested
  created,     \* tasks.created_at, as a rank
  rstat,       \* task_runs.status of the task's only run
  approval,    \* approvals.status, "none" without a row
  sstat,       \* task_steps.status
  owner,       \* task_steps.lease_owner
  lease,       \* task_steps.lease_expires_at: "none", "live" or "expired"
  attempts,    \* task_steps.attempts
  backoff,     \* task_steps.retry_at lies in the future
  dead,        \* steps with an unresolved task_dead_letters row
  xlease,      \* executor_leases: the device of the row with completed_at NULL
  devices,     \* desktop_executors.status, "absent" before pairing
  job,         \* step a hosted worker is executing (its memory, not the store)
  begun,       \* the worker has passed the sandbox approval check
  hold,        \* step a device is executing (its memory)
  calls,       \* client calls between their read and their write
  reports,     \* executor reports between their two transactions
  crashes      \* crashes so far

taskVars == <<tstat, req, cancelReq, created, rstat, approval>>
stepVars == <<sstat, owner, lease, attempts, backoff, dead, xlease>>
procVars == <<devices, job, begun, hold, calls, reports, crashes>>
vars     == <<taskVars, stepVars, procVars>>

ClientOp == {"request", "cancel", "approve", "deny", "retry", "retry_gated"}
ReportOp == {"complete", "fail", "fail_retryable"}
Call     == [op : ClientOp, task : Task]
Report   == [op : ReportOp, step : Step, exec : Executor]

TypeOK ==
  /\ tstat \in [Task -> TaskStatus \cup {"absent"}]
  /\ req \in [Task -> BOOLEAN]
  /\ cancelReq \in [Task -> BOOLEAN]
  /\ created \in [Task -> Nat]
  /\ rstat \in [Task -> RunStatus]
  /\ approval \in [Task -> {"none", "approved", "denied"}]
  /\ sstat \in [Step -> RunStatus]
  /\ owner \in [Step -> Executor \cup {WorkerId, None}]
  /\ lease \in [Step -> {"none", "live", "expired"}]
  /\ attempts \in [Step -> 0 .. AttemptCap]
  /\ backoff \in [Step -> BOOLEAN]
  /\ dead \in SUBSET Step
  /\ xlease \in [Step -> Executor \cup {None}]
  /\ devices \in [Executor -> {"absent", "active", "revoked"}]
  /\ job \in [Worker -> Step \cup {None}]
  /\ begun \in [Worker -> BOOLEAN]
  /\ hold \in [Executor -> Step \cup {None}]
  /\ calls \in SUBSET Call
  /\ reports \in SUBSET Report
  /\ crashes \in 0 .. MaxCrashes

Init ==
  /\ tstat = [t \in Task |-> "absent"]
  /\ req = [t \in Task |-> FALSE]
  /\ cancelReq = [t \in Task |-> FALSE]
  /\ created = [t \in Task |-> 0]
  /\ rstat = [t \in Task |-> "queued"]
  /\ approval = [t \in Task |-> "none"]
  /\ sstat = [s \in Step |-> "queued"]
  /\ owner = [s \in Step |-> None]
  /\ lease = [s \in Step |-> "none"]
  /\ attempts = [s \in Step |-> 0]
  /\ backoff = [s \in Step |-> FALSE]
  /\ dead = {}
  /\ xlease = [s \in Step |-> None]
  /\ devices = [e \in Executor |-> "absent"]
  /\ job = [w \in Worker |-> None]
  /\ begun = [w \in Worker |-> FALSE]
  /\ hold = [e \in Executor |-> None]
  /\ calls = {}
  /\ reports = {}
  /\ crashes = 0

-----------------------------------------------------------------------------
(* Creation and pairing *)

\* The rows of a task exist from its creation on; work on local machines is
\* always created behind the approval gate (models.TaskCreate).
Create(t, r) ==
  /\ tstat[t] = "absent"
  /\ Local(t) => r
  /\ tstat' = [tstat EXCEPT ![t] = "queued"]
  /\ req' = [req EXCEPT ![t] = r]
  /\ created' = [created EXCEPT ![t] = 1 + Cardinality({u \in Task : tstat[u] # "absent"})]
  /\ UNCHANGED <<cancelReq, rstat, approval, stepVars, procVars>>

PairExecutor(e) ==
  /\ devices[e] = "absent"
  /\ devices' = [devices EXCEPT ![e] = "active"]
  /\ UNCHANGED <<taskVars, stepVars, job, begun, hold, calls, reports, crashes>>

RevokeExecutor(e) ==
  /\ devices[e] = "active"
  /\ devices' = [devices EXCEPT ![e] = "revoked"]
  /\ UNCHANGED <<taskVars, stepVars, job, begun, hold, calls, reports, crashes>>

-----------------------------------------------------------------------------
(* Client calls, first transaction: read the task and decide to go on *)

Read(t, op) ==
  /\ op \in ClientOps /\ Cardinality(calls) < MaxCalls
  /\ calls' = calls \cup {[op |-> op, task |-> t]}
  /\ UNCHANGED <<taskVars, stepVars, devices, job, begun, hold, reports, crashes>>

RequestApprovalRead(t) ==
  /\ tstat[t] = "queued" /\ req[t]
  /\ Read(t, "request")

Decidable(t) == req[t] /\ tstat[t] \in {"queued", "waiting_approval"}

Verdict == {"approve", "deny"}

\* POST /v1/tasks/{id}/approval refuses desktop tasks before store.decide.
DecideRead(t, v) ==
  /\ ~DesktopMode(t) /\ Decidable(t)
  /\ Read(t, v)

\* decide_for_executor: the device owns every step and every capability.
DecideForExecutorRead(e, t, v) ==
  /\ devices[e] = "active" /\ Account[e] = Account[t]
  /\ DesktopMode(t) /\ AllDesktop(t)
  /\ \A s \in StepsOf(t) : Cap[s] \in DeviceCaps[e]
  /\ Decidable(t)
  /\ Read(t, v)

CancelRead(t) ==
  /\ tstat[t] \notin Terminal \cup {"absent"}
  /\ Read(t, "cancel")

\* Variant: retry_task keeps the gate only if it was closed.
RetryTaskReadForgetsLocal(t) ==
  /\ tstat[t] = "failed"
  /\ \E s \in StepsOf(t) : sstat[s] = "failed"
  /\ Read(t, IF req[t] THEN "retry_gated" ELSE "retry")

RetryTaskRead(t) ==
  /\ tstat[t] = "failed"
  /\ \E s \in StepsOf(t) : sstat[s] = "failed"
  /\ Read(t, IF req[t] \/ Local(t) THEN "retry_gated" ELSE "retry")

-----------------------------------------------------------------------------
(* Client calls, second transaction: write without looking again *)

Return(c) == calls' = calls \ {c}

RequestApprovalWrite(c) ==
  /\ c \in calls /\ c.op = "request"
  /\ tstat' = [tstat EXCEPT ![c.task] = IF @ = "queued" THEN "waiting_approval" ELSE @]
  /\ Return(c)
  /\ UNCHANGED <<req, cancelReq, created, rstat, approval, stepVars,
                 devices, job, begun, hold, reports, crashes>>

\* task_steps of task t in one of the statuses `from' become `to'.
MoveSteps(t, from, to) ==
  [s \in Step |-> IF TaskOf[s] = t /\ sstat[s] \in from THEN to ELSE sstat[s]]

CloseRun(t, to) ==
  rstat' = [rstat EXCEPT ![t] = IF @ # "completed" THEN to ELSE @]

DecideWrite(c) ==
  /\ c \in calls /\ c.op \in Verdict
  /\ LET t == c.task
         yes == c.op = "approve"
     IN /\ approval' = [approval EXCEPT ![t] = IF yes THEN "approved" ELSE "denied"]
        /\ tstat' = [tstat EXCEPT ![t] = IF yes THEN "queued" ELSE "cancelled"]
        /\ req' = [req EXCEPT ![t] = ~yes]
        /\ IF yes THEN UNCHANGED <<sstat, rstat>>
           ELSE /\ sstat' = MoveSteps(t, {"queued"}, "cancelled")
                /\ CloseRun(t, "cancelled")
  /\ Return(c)
  /\ UNCHANGED <<cancelReq, created, owner, lease, attempts, backoff, dead, xlease,
                 devices, job, begun, hold, reports, crashes>>

\* Variant: cancel leaves closing the task to a running step, even without one.
CancelWriteNeverCloses(c) ==
  /\ c \in calls /\ c.op = "cancel"
  /\ cancelReq' = [cancelReq EXCEPT ![c.task] = TRUE]
  /\ sstat' = MoveSteps(c.task, {"queued"}, "cancelled")
  /\ tstat' = [tstat EXCEPT ![c.task] = "cancelling"]
  /\ Return(c)
  /\ UNCHANGED <<req, created, rstat, approval, owner, lease, attempts, backoff, dead,
                 xlease, devices, job, begun, hold, reports, crashes>>

CancelWrite(c) ==
  /\ c \in calls /\ c.op = "cancel"
  /\ LET t == c.task
         busy == \E s \in StepsOf(t) : sstat[s] = "running"
     IN /\ cancelReq' = [cancelReq EXCEPT ![t] = TRUE]
        /\ sstat' = MoveSteps(t, {"queued"}, "cancelled")
        /\ tstat' = [tstat EXCEPT ![t] = IF busy THEN "cancelling" ELSE "cancelled"]
        /\ IF busy THEN UNCHANGED rstat ELSE CloseRun(t, "cancelled")
  /\ Return(c)
  /\ UNCHANGED <<req, created, approval, owner, lease, attempts, backoff, dead, xlease,
                 devices, job, begun, hold, reports, crashes>>

RetryTaskWrite(c) ==
  /\ c \in calls /\ c.op \in {"retry", "retry_gated"}
  /\ LET t == c.task
         gated == c.op = "retry_gated"
         reset == {s \in StepsOf(t) : sstat[s] \in {"failed", "cancelled"}}
     IN /\ sstat' = MoveSteps(t, {"failed", "cancelled"}, "queued")
        /\ owner' = [s \in Step |-> IF s \in reset THEN None ELSE owner[s]]
        /\ lease' = [s \in Step |-> IF s \in reset THEN "none" ELSE lease[s]]
        /\ attempts' = [s \in Step |-> IF s \in reset THEN 0 ELSE attempts[s]]
        /\ backoff' = [s \in Step |-> IF s \in reset THEN FALSE ELSE backoff[s]]
        /\ CloseRun(t, "queued")
        /\ dead' = dead \ StepsOf(t)
        /\ approval' = [approval EXCEPT ![t] = "none"]
        /\ tstat' = [tstat EXCEPT ![t] = IF gated THEN "waiting_approval" ELSE "queued"]
        /\ req' = [req EXCEPT ![t] = gated]
        /\ cancelReq' = [cancelReq EXCEPT ![t] = FALSE]
  /\ Return(c)
  /\ UNCHANGED <<created, xlease, devices, job, begun, hold, reports, crashes>>

\* The API process dies between the two transactions.
CallLost(c) ==
  /\ c \in calls /\ crashes < MaxCrashes
  /\ Return(c)
  /\ crashes' = crashes + 1
  /\ UNCHANGED <<taskVars, stepVars, devices, job, begun, hold, reports>>

-----------------------------------------------------------------------------
(* Lease recovery, the first half of every claim *)

\* Variant: leases never count as expired.
ExpiredNever(kinds) == {}

Expired(kinds) ==
  {s \in Step : sstat[s] = "running" /\ Kind[s] \in kinds /\ lease[s] = "expired"}

\* What recovery makes of an expired step.  Hosted work is requeued; desktop
\* work is requeued only if it merely read a file.
\* Variant: every expired step is requeued.
RecoveredAsReplay(s) == IF cancelReq[TaskOf[s]] THEN "cancelled" ELSE "queued"

RecoveredAs(s) ==
  IF cancelReq[TaskOf[s]] THEN "cancelled"
  ELSE IF s \in SideEffecting THEN "failed"
  ELSE "queued"

RecoveredSteps(E) ==
  [s \in Step |-> IF s \in E THEN RecoveredAs(s) ELSE sstat[s]]

\* Task and run status after recovering the steps in E, whatever the order in
\* which the loop visits them.
RecoveredTasks(E) ==
  [t \in Task |->
     LET outcome == {RecoveredAs(s) : s \in E \cap StepsOf(t)} IN
     IF "cancelled" \in outcome THEN "cancelled"
     ELSE IF "failed" \in outcome THEN "failed"
     ELSE IF "queued" \in outcome /\ tstat[t] = "running" THEN "queued"
     ELSE tstat[t]]

RecoveredRuns(E) ==
  [t \in Task |->
     LET outcome == {RecoveredAs(s) : s \in E \cap StepsOf(t)} IN
     IF "cancelled" \in outcome THEN "cancelled"
     ELSE IF "failed" \in outcome THEN "failed"
     ELSE rstat[t]]

Released(f, E, null) == [s \in Step |-> IF s \in E THEN null ELSE f[s]]

RecoveredDead(E) == dead \cup {s \in E : RecoveredAs(s) = "failed"}

-----------------------------------------------------------------------------
(* Hosted workers *)

\* Step s may be handed out, given task statuses ts and step statuses ss: its
\* task is open, its backoff is over and every step it depends on is completed.
Ready(s, ts, ss) ==
  /\ ts[TaskOf[s]] \in {"queued", "running"}
  /\ ss[s] = "queued" /\ ~backoff[s]
  /\ \A p \in DependsOn[s] : ss[p] = "completed"

\* ORDER BY t.created_at, s.ordinal
Before(r, s) ==
  \/ created[TaskOf[r]] < created[TaskOf[s]]
  \/ created[TaskOf[r]] = created[TaskOf[s]] /\ Ordinal[r] < Ordinal[s]

First(s, S) == s \in S /\ \A r \in S \ {s} : ~Before(r, s)

WorkerKinds == IF SandboxEnabled THEN {"hosted", "sandbox"} ELSE {"hosted"}

Bump(n) == IF n < AttemptCap THEN n + 1 ELSE n

\* Step s leaves the queue: the lease, the task and the run move together.  ts,
\* rs, ss, own and ls are the rows as recovery left them.
StartStep(s, id, ts, rs, ss, own, ls) ==
  /\ tstat' = [ts EXCEPT ![TaskOf[s]] = "running"]
  /\ rstat' = [rs EXCEPT ![TaskOf[s]] = "running"]
  /\ sstat' = [ss EXCEPT ![s] = "running"]
  /\ owner' = [own EXCEPT ![s] = id]
  /\ lease' = [ls EXCEPT ![s] = "live"]
  /\ attempts' = [attempts EXCEPT ![s] = Bump(@)]
  /\ backoff' = [backoff EXCEPT ![s] = FALSE]

\* What a worker may be offered: hosted work, or gated desktop work that it only
\* brings to the approval prompt.
\* Variant: gated or not, desktop work is offered to workers.
OfferedDesktop(ts, ss) ==
  {s \in Step : Ready(s, ts, ss) /\ Kind[s] \in WorkerKinds \cup {"desktop"}}

Offered(ts, ss) ==
  {s \in Step : /\ Ready(s, ts, ss)
                /\ \/ Kind[s] \in WorkerKinds
                   \/ Kind[s] = "desktop" /\ req[TaskOf[s]]}

ClaimOne(w) ==
  /\ job[w] = None
  /\ LET E  == Expired({"hosted", "sandbox"})
         ts == RecoveredTasks(E)
         rs == RecoveredRuns(E)
         ss == RecoveredSteps(E)
         own == Released(owner, E, None)
         ls == Released(lease, E, "none")
         offered == Offered(ts, ss)
     IN \/ /\ offered = {} /\ E # {}
           /\ tstat' = ts /\ rstat' = rs /\ sstat' = ss /\ owner' = own /\ lease' = ls
           /\ UNCHANGED <<attempts, backoff, job, begun>>
        \/ \E s \in offered :
             /\ First(s, offered)
             /\ req[TaskOf[s]] /\ ts[TaskOf[s]] = "queued"
             /\ tstat' = [ts EXCEPT ![TaskOf[s]] = "waiting_approval"]
             /\ rstat' = rs /\ sstat' = ss /\ owner' = own /\ lease' = ls
             /\ UNCHANGED <<attempts, backoff, job, begun>>
        \/ \E s \in offered :
             /\ First(s, offered)
             /\ ~(req[TaskOf[s]] /\ ts[TaskOf[s]] = "queued")
             /\ StartStep(s, WorkerId, ts, rs, ss, own, ls)
             /\ job' = [job EXCEPT ![w] = s]
             /\ begun' = [begun EXCEPT ![w] = Kind[s] # "sandbox"]
  /\ UNCHANGED <<req, cancelReq, created, approval, dead, xlease,
                 devices, hold, calls, reports, crashes>>

\* run_once asks task_is_approved before it runs a sandbox command.
BeginSandbox(w) ==
  /\ job[w] # None /\ ~begun[w]
  /\ approval[TaskOf[job[w]]] = "approved"
  /\ begun' = [begun EXCEPT ![w] = TRUE]
  /\ UNCHANGED <<taskVars, stepVars, devices, job, hold, calls, reports, crashes>>

\* complete_step looks at the step's status, never at its lease_owner.
\* Variant: a task is done when nothing is queued or running any more.
CompleteStepIgnoresFailures(s) ==
  LET t == TaskOf[s]
      live == sstat[s] = "running"
      ss == [sstat EXCEPT ![s] = IF live THEN "completed" ELSE @]
      ends == IF cancelReq[t] THEN "cancelled"
              ELSE IF \A x \in StepsOf(t) : ss[x] \notin {"queued", "running"} THEN "completed"
              ELSE "open"
  IN /\ sstat' = ss
     /\ owner' = [owner EXCEPT ![s] = IF live THEN None ELSE @]
     /\ lease' = [lease EXCEPT ![s] = IF live THEN "none" ELSE @]
     /\ backoff' = [backoff EXCEPT ![s] = IF live THEN FALSE ELSE @]
     /\ tstat' = [tstat EXCEPT ![t] = IF ends = "open" THEN @ ELSE ends]
     /\ rstat' = [rstat EXCEPT ![t] = IF ends = "open" THEN @ ELSE ends]
     /\ UNCHANGED <<req, cancelReq, created, approval, attempts, dead, xlease>>

CompleteStep(s) ==
  LET t == TaskOf[s]
      live == sstat[s] = "running"
      ss == [sstat EXCEPT ![s] = IF live THEN "completed" ELSE @]
      ends == IF cancelReq[t] THEN "cancelled"
              ELSE IF \A x \in StepsOf(t) : ss[x] = "completed" THEN "completed"
              ELSE "open"
  IN /\ sstat' = ss
     /\ owner' = [owner EXCEPT ![s] = IF live THEN None ELSE @]
     /\ lease' = [lease EXCEPT ![s] = IF live THEN "none" ELSE @]
     /\ backoff' = [backoff EXCEPT ![s] = IF live THEN FALSE ELSE @]
     /\ tstat' = [tstat EXCEPT ![t] = IF ends = "open" THEN @ ELSE ends]
     /\ rstat' = [rstat EXCEPT ![t] = IF ends = "open" THEN @ ELSE ends]
     /\ UNCHANGED <<req, cancelReq, created, approval, attempts, dead, xlease>>

\* fail_step looks at neither: it overwrites step and task status.
FailStep(s, retryable) ==
  LET t == TaskOf[s]
      again == retryable /\ attempts[s] < Limit[s]
  IN /\ sstat' = [sstat EXCEPT ![s] = IF again THEN "queued" ELSE "failed"]
     /\ tstat' = [tstat EXCEPT ![t] = IF again THEN "queued" ELSE "failed"]
     /\ rstat' = [rstat EXCEPT ![t] = IF again THEN @ ELSE "failed"]
     /\ dead' = IF again THEN dead ELSE dead \cup {s}
     /\ backoff' = [backoff EXCEPT ![s] = again \/ @]
     /\ owner' = [owner EXCEPT ![s] = None]
     /\ lease' = [lease EXCEPT ![s] = "none"]
     /\ UNCHANGED <<req, cancelReq, created, approval, attempts, xlease>>

JobOver(w) ==
  /\ job' = [job EXCEPT ![w] = None]
  /\ begun' = [begun EXCEPT ![w] = FALSE]
  /\ UNCHANGED <<devices, hold, calls, reports, crashes>>

WorkerComplete(w) ==
  /\ job[w] # None /\ begun[w]
  /\ CompleteStep(job[w])
  /\ JobOver(w)

WorkerFail(w, retryable) ==
  /\ job[w] # None
  /\ FailStep(job[w], retryable)
  /\ JobOver(w)

WorkerCrash(w) ==
  /\ job[w] # None /\ crashes < MaxCrashes
  /\ job' = [job EXCEPT ![w] = None]
  /\ begun' = [begun EXCEPT ![w] = FALSE]
  /\ crashes' = crashes + 1
  /\ UNCHANGED <<taskVars, stepVars, devices, hold, calls, reports>>

-----------------------------------------------------------------------------
(* Desktop executors *)

\* Tasks that the polling device's approval policy releases without a prompt.
AutoApproved(e, policy, ts, ss) ==
  LET allowed == IF policy = "local" THEN DeviceCaps[e] ELSE SafeCaps \cap DeviceCaps[e]
      safe    == IF policy = "local" THEN DeviceCaps[e] ELSE SafeCaps
  IN IF policy = "ask" THEN {}
     ELSE {t \in Task :
             /\ Account[t] = Account[e]
             /\ ts[t] \in {"queued", "waiting_approval"} /\ req[t]
             /\ \E s \in StepsOf(t) : ss[s] = "queued" /\ Kind[s] = "desktop" /\ Cap[s] \in allowed
             /\ \A s \in StepsOf(t) : Kind[s] = "desktop" /\ Cap[s] \in safe
             /\ approval[t] = "none"}

\* Approved desktop work of the device's account that it is capable of.
Claimable(e, ts, ss, rq, ap) ==
  {s \in Step : /\ Ready(s, ts, ss)
                /\ Kind[s] = "desktop"
                /\ Account[TaskOf[s]] = Account[e]
                /\ ap[TaskOf[s]] = "approved" /\ ~rq[TaskOf[s]]
                /\ Cap[s] \in DeviceCaps[e]}

ClaimForExecutor(e, policy) ==
  /\ devices[e] = "active" /\ hold[e] = None
  /\ LET E  == Expired({"desktop"})
         rs == RecoveredRuns(E)
         ss == RecoveredSteps(E)
         own == Released(owner, E, None)
         ls == Released(lease, E, "none")
         xl == Released(xlease, E, None)
         auto == AutoApproved(e, policy, RecoveredTasks(E), ss)
         ts == [t \in Task |-> IF t \in auto THEN "queued" ELSE RecoveredTasks(E)[t]]
         rq == [t \in Task |-> t \notin auto /\ req[t]]
         ap == [t \in Task |-> IF t \in auto THEN "approved" ELSE approval[t]]
         claimable == Claimable(e, ts, ss, rq, ap)
     IN /\ req' = rq /\ approval' = ap /\ dead' = RecoveredDead(E)
        /\ \/ /\ claimable = {} /\ (E # {} \/ auto # {})
              /\ tstat' = ts /\ rstat' = rs /\ sstat' = ss /\ owner' = own /\ lease' = ls
              /\ xlease' = xl
              /\ UNCHANGED <<attempts, backoff, hold>>
           \/ \E s \in claimable :
                /\ First(s, claimable)
                /\ StartStep(s, e, ts, rs, ss, own, ls)
                /\ xlease' = [xl EXCEPT ![s] = e]
                /\ hold' = [hold EXCEPT ![e] = s]
  /\ UNCHANGED <<cancelReq, created, devices, job, begun, calls, reports, crashes>>

Owns(e, s) == sstat[s] = "running" /\ owner[s] = e

\* Called immediately before completion; a requested cancellation is reported
\* and the lease is left alone.
HeartbeatExecutorStep(e) ==
  /\ devices[e] = "active" /\ hold[e] # None
  /\ Owns(e, hold[e]) /\ ~cancelReq[TaskOf[hold[e]]]
  /\ lease' = [lease EXCEPT ![hold[e]] = "live"]
  /\ UNCHANGED <<taskVars, sstat, owner, attempts, backoff, dead, xlease, procVars>>

\* executor_leases.completed_at is set for the row of this step and device.
CloseExecutorLease(e, s) ==
  xlease' = [xlease EXCEPT ![s] = IF @ = e THEN None ELSE @]

Reporting(e, op) ==
  /\ Cardinality(reports) < MaxReports
  /\ reports' = reports \cup {[op |-> op, step |-> hold[e], exec |-> e]}
  /\ hold' = [hold EXCEPT ![e] = None]
  /\ CloseExecutorLease(e, hold[e])
  /\ UNCHANGED <<devices, job, begun, calls, crashes>>

\* First transaction of complete_executor_step.
CompleteExecutorStep(e) ==
  /\ devices[e] = "active" /\ hold[e] # None /\ Owns(e, hold[e])
  /\ Reporting(e, "complete")
  /\ UNCHANGED <<taskVars, sstat, owner, lease, attempts, backoff, dead>>

\* First transaction of fail_executor_step: a requested cancellation ends the
\* step here, otherwise fail_step follows.
FailExecutorStep(e) ==
  /\ devices[e] = "active" /\ hold[e] # None /\ Owns(e, hold[e])
  /\ LET s == hold[e]
         t == TaskOf[s]
     IN \/ /\ cancelReq[t]
           /\ sstat' = [sstat EXCEPT ![s] = "cancelled"]
           /\ owner' = [owner EXCEPT ![s] = None]
           /\ lease' = [lease EXCEPT ![s] = "none"]
           /\ rstat' = [rstat EXCEPT ![t] = "cancelled"]
           /\ tstat' = [tstat EXCEPT ![t] = "cancelled"]
           /\ CloseExecutorLease(e, s)
           /\ hold' = [hold EXCEPT ![e] = None]
           /\ UNCHANGED <<devices, job, begun, calls, reports, crashes>>
        \/ /\ ~cancelReq[t]
           /\ Reporting(e, IF Cap[s] = FileRead THEN "fail_retryable" ELSE "fail")
           /\ UNCHANGED <<tstat, rstat, sstat, owner, lease>>
  /\ UNCHANGED <<req, cancelReq, created, approval, attempts, backoff, dead>>

\* Second transaction of either report.
FinishReport(r) ==
  /\ r \in reports
  /\ \/ r.op = "complete" /\ CompleteStep(r.step)
     \/ r.op \in {"fail", "fail_retryable"} /\ FailStep(r.step, r.op = "fail_retryable")
  /\ reports' = reports \ {r}
  /\ UNCHANGED <<devices, job, begun, hold, calls, crashes>>

ReportLost(r) ==
  /\ r \in reports /\ crashes < MaxCrashes
  /\ reports' = reports \ {r}
  /\ crashes' = crashes + 1
  /\ UNCHANGED <<taskVars, stepVars, devices, job, begun, hold, calls>>

\* The device gives up a step: it crashed, or its lease is no longer valid
\* and every report it could send is refused.
ExecutorCrash(e) ==
  /\ hold[e] # None /\ crashes < MaxCrashes
  /\ hold' = [hold EXCEPT ![e] = None]
  /\ crashes' = crashes + 1
  /\ UNCHANGED <<taskVars, stepVars, devices, job, begun, calls, reports>>

ExecutorRefused(e) ==
  /\ hold[e] # None
  /\ devices[e] # "active" \/ ~Owns(e, hold[e])
  /\ hold' = [hold EXCEPT ![e] = None]
  /\ UNCHANGED <<taskVars, stepVars, devices, job, begun, calls, reports, crashes>>

-----------------------------------------------------------------------------
(* Time *)

LeaseExpires(s) ==
  /\ lease[s] = "live"
  /\ lease' = [lease EXCEPT ![s] = "expired"]
  /\ UNCHANGED <<taskVars, sstat, owner, attempts, backoff, dead, xlease, procVars>>

BackoffEnds(s) ==
  /\ backoff[s]
  /\ backoff' = [backoff EXCEPT ![s] = FALSE]
  /\ UNCHANGED <<taskVars, sstat, owner, lease, attempts, dead, xlease, procVars>>

-----------------------------------------------------------------------------

ClientRead(t) ==
  \/ RequestApprovalRead(t)
  \/ \E v \in Verdict : DecideRead(t, v)
  \/ \E v \in Verdict, e \in Executor : DecideForExecutorRead(e, t, v)
  \/ CancelRead(t)
  \/ RetryTaskRead(t)

ClientWrite(c) ==
  \/ RequestApprovalWrite(c)
  \/ DecideWrite(c)
  \/ CancelWrite(c)
  \/ RetryTaskWrite(c)

WorkerEnds(w) == WorkerComplete(w) \/ \E r \in BOOLEAN : WorkerFail(w, r)

ExecutorStep(e) ==
  \/ PairExecutor(e)
  \/ RevokeExecutor(e)
  \/ \E p \in Policies : ClaimForExecutor(e, p)
  \/ HeartbeatExecutorStep(e)
  \/ CompleteExecutorStep(e)
  \/ FailExecutorStep(e)
  \/ ExecutorCrash(e)
  \/ ExecutorRefused(e)

Next ==
  \/ \E t \in Task, r \in BOOLEAN : Create(t, r)
  \/ \E t \in Task : ClientRead(t)
  \/ \E c \in calls : ClientWrite(c) \/ CallLost(c)
  \/ \E w \in Worker : ClaimOne(w) \/ BeginSandbox(w) \/ WorkerEnds(w) \/ WorkerCrash(w)
  \/ \E e \in Executor : ExecutorStep(e)
  \/ \E r \in reports : FinishReport(r) \/ ReportLost(r)
  \/ \E s \in Step : LeaseExpires(s) \/ BackoffEnds(s)

Spec == Init /\ [][Next]_vars

\* Workers and devices keep polling (worker.main and the desktop loop never
\* return), started work ends, the second transaction of a call follows its
\* first, and time passes.  Nothing obliges a user to call the API and nothing
\* obliges a process to crash.
Fairness ==
  /\ \A w \in Worker : WF_vars(ClaimOne(w)) /\ WF_vars(WorkerEnds(w))
  /\ \A e \in Executor :
       /\ WF_vars(\E p \in Policies : ClaimForExecutor(e, p))
       /\ WF_vars(CompleteExecutorStep(e) \/ FailExecutorStep(e) \/ ExecutorRefused(e))
  /\ WF_vars(\E c \in calls : ClientWrite(c))
  /\ WF_vars(\E r \in reports : FinishReport(r))
  /\ \A s \in Step : WF_vars(LeaseExpires(s)) /\ WF_vars(BackoffEnds(s))

FairSpec == Spec /\ Fairness

-----------------------------------------------------------------------------
(* Safety *)

\* A write, command or browser launch on the user's machine is started at most
\* once after each explicit retry_task: neither lease recovery, nor a late
\* report, nor a hosted worker ever starts it again (the comment "only an
\* explicit human retry may run it again" in claim_for_executor).  attempts is
\* reset to 0 by retry_task and by nothing else.
NoAutomaticReplay == \A s \in SideEffecting : attempts[s] <= 1

\* Why it holds.  A task with a closed gate is never running, so claim_one only
\* ever prompts for desktop work; a worker therefore never reports on it; the
\* device's own report is retryable for file reads only; hence nothing but
\* retry_task puts a started side-effecting step back into the queue.
GateClosesTask == \A t \in Task : tstat[t] = "running" => ~req[t]
WorkersStayHosted == \A w \in Worker : job[w] # None => Kind[job[w]] # "desktop"
RetryOnlyReads == \A r \in reports : r.op = "fail_retryable" => r.step \notin SideEffecting
QueuedUnstarted ==
  \A s \in SideEffecting : attempts[s] <= 1 /\ (sstat[s] = "queued" => attempts[s] = 0)

\* The inductive invariant.
Inv ==
  /\ TypeOK
  /\ GateClosesTask
  /\ WorkersStayHosted
  /\ RetryOnlyReads
  /\ QueuedUnstarted

\* Hosted workers never hold a desktop step, although claim_one does select
\* gated desktop steps; and the device that holds one belongs to the task's
\* account and declared the capability when it was paired.
LeaseAuthority ==
  \A s \in Step : sstat[s] = "running" =>
    IF Kind[s] = "desktop"
    THEN /\ owner[s] \in Executor
         /\ Account[owner[s]] = Account[TaskOf[s]]
         /\ Cap[s] \in DeviceCaps[owner[s]]
    ELSE owner[s] = WorkerId

\* Only a running step carries a lease; every path out of "running" (completion,
\* failure, recovery, cancellation) clears it, so no queued or finished step
\* can look owned to executor_step_status or to the ownership checks.
LeaseMatchesStatus ==
  \A s \in Step : /\ sstat[s] = "running" <=> owner[s] # None
                  /\ sstat[s] = "running" <=> lease[s] # "none"

\* A task reported as completed has no unfinished step, whatever late reports,
\* cancellations and recoveries raced with the completion.
CompletedMeansDone ==
  \A t \in Task : tstat[t] = "completed" => \A s \in StepsOf(t) : sstat[s] = "completed"

\* No failure is lost: every failed step has an unresolved dead letter (README:
\* "Terminal task failures are retained in GET /v1/dead-letters for human
\* review rather than disappearing after retries").
FailedIsVisible == \A s \in Step : sstat[s] = "failed" => s \in dead

\* Sandbox commands and desktop actions leave the queue only in a task whose
\* approval is on record at that moment, even though claim_one itself only
\* looks at requires_approval.
LocalStartsApproved ==
  [][\A s \in Step :
       Kind[s] # "hosted" /\ sstat[s] # "running" /\ sstat'[s] = "running"
         => approval'[TaskOf[s]] = "approved" /\ ~req'[TaskOf[s]]]_vars

\* Why it holds.  Nothing happens to a task before its creation, which closes the gate
\* of local work; only a decision opens it, and an ungated retry is of other work.
AbsentIsQuiet ==
  \A t \in Task : tstat[t] = "absent" =>
    /\ \A c \in calls : c.task # t
    /\ \A r \in reports : TaskOf[r.step] # t
    /\ \A w \in Worker : job[w] # None => TaskOf[job[w]] # t
    /\ \A e \in Executor : hold[e] # None => TaskOf[hold[e]] # t
    /\ \A s \in StepsOf(t) : sstat[s] = "queued"
LocalWaits ==
  \A t \in Task : Local(t) => tstat[t] = "absent" \/ req[t] \/ approval[t] = "approved"
PlainRetries == \A c \in calls : c.op = "retry" => ~Local(c.task)

\* A task that is over is opened again by the second half of a client's call or by the
\* failure of a step that may be tried again (decide and fail_step write without
\* looking), and by nothing else: no claim, recovery, completion or device does.
ReopenedOnCall ==
  [][\A t \in Task : tstat[t] \in Terminal /\ tstat'[t] \notin Terminal =>
       \/ \E c \in calls \ calls' : c.task = t /\ c.op \notin {"request", "deny"}
       \/ \E s \in StepsOf(t) \ SideEffecting : sstat'[s] = "queued" /\ backoff'[s]]_vars

\* The store keeps the promise of LocalEffects for every side-effecting step:
\* whatever recovery, late reports, retries and crashes do, a started write or
\* command goes back to the queue only through retry_task, and then only behind
\* a new approval.
PhaseOf(s) == IF sstat[s] = "queued" THEN "waiting"
              ELSE IF sstat[s] = "running" THEN "started" ELSE "over"

\* The approval of s's task is on record and its gate is open.
Permit(s) == approval[TaskOf[s]] = "approved" /\ ~req[TaskOf[s]]

PhaseMap  == [s \in SideEffecting |-> PhaseOf(s)]
PermitMap == [s \in SideEffecting |-> Permit(s)]

Effects == INSTANCE LocalEffects
  WITH Item <- SideEffecting, phase <- PhaseMap, permit <- PermitMap

ImplementsLocalEffects == Effects!Spec

\* A task that is being cancelled has a running step, which will find the request when
\* it ends or loses its lease, whatever approvals, retries, claims and late reports
\* raced with the cancellation; this is what DesktopCancelTerminates rests on.
CancellingIsRunning ==
  \A t \in Task : tstat[t] = "cancelling" =>
    cancelReq[t] /\ \E s \in StepsOf(t) : sstat[s] = "running"

-----------------------------------------------------------------------------
(* Liveness *)

\* A recorded cancellation ends in a terminal status: the running step finishes, fails
\* or loses its lease, and one of these closes the task.
CancelTerminates == \A t \in Task : cancelReq[t] ~> tstat[t] \in Terminal

\* An open task in which nothing runs or can be started: each of its queued steps, if
\* any, waits for one that failed or was cancelled.  Only a client's call or a report
\* that is still on its way can change such a task.
Stranded(t) ==
  /\ tstat[t] \in {"queued", "running"}
  /\ \A s \in StepsOf(t) :
       /\ sstat[s] # "running"
       /\ sstat[s] = "queued" => \E d \in DependsOn[s] : sstat[d] \in {"failed", "cancelled"}

\* A created task comes back to a terminal status or to a person, or is stranded.
TaskSettles ==
  \A t \in Task : tstat[t] # "absent" ~>
                    tstat[t] \in Terminal \cup {"waiting_approval"} \/ Stranded(t)

\* Desktop leases are recovered only by another poll of some device, so for
\* desktop work both hold as long as one paired device keeps its token.
DeviceStays == <>[](\E e \in Executor : devices[e] = "active")

\* No client call is read before the write of another.
CallsAreSerial == [](Cardinality(calls) <= 1)

\* A desktop cancellation ends, provided a paired device remains to poll and no other
\* call overlaps it: an approval read before the cancellation and written after it
\* reopens the task (decide writes without looking again).
DesktopCancelTerminates == DeviceStays /\ CallsAreSerial => CancelTerminates

\* A desktop task ends or comes back to a person, provided a paired device remains to
\* poll, and with one exception: a decision or retry written after another call, an
\* automatic approval or a late report of a device may leave it open with nothing to run.
\* No other way of getting stuck exists: with a step that runs or can run it goes on.
DesktopTaskSettles == DeviceStays => TaskSettles

-----------------------------------------------------------------------------
(* What the repository says, and the code does not do *)

\* tests/test_control_plane.py:204 and :211 ("cancellation stops future steps
\* ... the already-claimed operation can finish"): once a cancellation is
\* recorded, no step of the task starts.
CancellationStopsFutureSteps ==
  [][\A s \in Step : cancelReq[TaskOf[s]] /\ cancelReq'[TaskOf[s]] /\ sstat[s] # "running"
                       => sstat'[s] # "running"]_vars
=============================================================================
