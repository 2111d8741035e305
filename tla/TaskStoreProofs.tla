--------------------------- MODULE TaskStoreProofs ---------------------------
(***************************************************************************)
(* Machine-checked proofs about TaskStore: its type invariant, that a      *)
(* side-effecting desktop step is started at most once per explicit retry, *)
(* that leases, completed tasks and dead letters agree with the steps, and *)
(* that the task store implements LocalEffects.                            *)
(***************************************************************************)
EXTENDS TaskStore, FiniteSetTheorems, TLAPS

\* Recovery of expired leases keeps the status columns well typed.
LEMMA RecoveredTyping ==
  ASSUME TypeOK, NEW E \in SUBSET Step
  PROVE  /\ RecoveredSteps(E) \in [Step -> RunStatus]
         /\ RecoveredTasks(E) \in [Task -> TaskStatus \cup {"absent"}]
         /\ RecoveredRuns(E) \in [Task -> RunStatus]
         /\ Released(owner, E, None) \in [Step -> Executor \cup {WorkerId, None}]
         /\ Released(lease, E, "none") \in [Step -> {"none", "live", "expired"}]
         /\ Released(xlease, E, None) \in [Step -> Executor \cup {None}]
         /\ RecoveredDead(E) \in SUBSET Step
<1>1. RecoveredSteps(E) \in [Step -> RunStatus]
  BY DEF TypeOK, RecoveredSteps, RecoveredAs, RunStatus
<1>2. RecoveredTasks(E) \in [Task -> TaskStatus \cup {"absent"}]
  BY DEF TypeOK, RecoveredTasks, RunStatus, TaskStatus
<1>3. RecoveredRuns(E) \in [Task -> RunStatus]
  BY DEF TypeOK, RecoveredRuns, RunStatus
<1>4. Released(owner, E, None) \in [Step -> Executor \cup {WorkerId, None}]
  BY DEF TypeOK, Released
<1>5. Released(lease, E, "none") \in [Step -> {"none", "live", "expired"}]
  BY DEF TypeOK, Released
<1>6. Released(xlease, E, None) \in [Step -> Executor \cup {None}]
  BY DEF TypeOK, Released
<1>7. RecoveredDead(E) \in SUBSET Step
  BY DEF TypeOK, RecoveredDead
<1> QED
  BY <1>1, <1>2, <1>3, <1>4, <1>5, <1>6, <1>7

\* Expired leases belong to steps.
LEMMA ExpiredTyping == ASSUME NEW kinds PROVE Expired(kinds) \in SUBSET Step
BY DEF Expired

\* Attempts never leave the range the model counts in.
LEMMA BumpTyping == ASSUME NEW n \in 0 .. AttemptCap PROVE Bump(n) \in 0 .. AttemptCap
BY AttemptCapAssumption DEF Bump

\* An empty database is well typed.
LEMMA InitTypeOK == Init => TypeOK
BY ConstantsAssumption, AttemptCapAssumption
   DEF Init, TypeOK, TaskStatus, RunStatus

\* An empty database satisfies every part of Inv.
LEMMA InitInv == Init => Inv
<1> SUFFICES ASSUME Init PROVE Inv
  OBVIOUS
<1>1. TypeOK
  BY InitTypeOK
<1>2. GateClosesTask
  BY DEF Init, GateClosesTask
<1>3. WorkersStayHosted
  BY DEF Init, WorkersStayHosted
<1>4. RetryOnlyReads
  BY DEF Init, RetryOnlyReads
<1>5. QueuedUnstarted
  BY DEF Init, QueuedUnstarted, SideEffecting
<1> QED
  BY <1>1, <1>2, <1>3, <1>4, <1>5 DEF Inv

-----------------------------------------------------------------------------
(* Type correctness *)

\* The client's requests (create, decide, cancel, retry, devices) keep all
\* columns well typed.
LEMMA TypeOKClient ==
  ASSUME TypeOK,
         \/ \E t \in Task, r \in BOOLEAN : Create(t, r)
         \/ \E t \in Task : ClientRead(t)
         \/ \E c \in calls : ClientWrite(c) \/ CallLost(c)
  PROVE  TypeOK'
<1> USE DEF TypeOK, taskVars, stepVars, procVars
<1>1. ASSUME NEW t \in Task, NEW r \in BOOLEAN, Create(t, r) PROVE TypeOK'
  <2>1. Cardinality({u \in Task : tstat[u] # "absent"}) \in Nat
    BY TaskFiniteness, FS_Subset, FS_CardinalityType
  <2> QED
    BY <1>1, <2>1 DEF Create, TaskStatus, RunStatus
<1>2. ASSUME NEW t \in Task, NEW op \in ClientOp, Read(t, op) PROVE TypeOK'
  BY <1>2 DEF Read, Call
<1>3. ASSUME NEW t \in Task, ClientRead(t) PROVE TypeOK'
  BY <1>2, <1>3 DEF ClientRead, RequestApprovalRead, DecideRead, DecideForExecutorRead,
                    CancelRead, RetryTaskRead, Verdict, ClientOp
<1>4. ASSUME NEW c \in calls, RequestApprovalWrite(c) PROVE TypeOK'
  BY <1>4 DEF RequestApprovalWrite, Return, TaskStatus, Call
<1>5. ASSUME NEW c \in calls, DecideWrite(c) PROVE TypeOK'
  BY <1>5 DEF DecideWrite, Return, MoveSteps, CloseRun, TaskStatus, RunStatus, Call
<1>6. ASSUME NEW c \in calls, CancelWrite(c) PROVE TypeOK'
  BY <1>6 DEF CancelWrite, Return, MoveSteps, CloseRun, TaskStatus, RunStatus, Call
<1>7. ASSUME NEW c \in calls, RetryTaskWrite(c) PROVE TypeOK'
  <2>1. c.task \in Task /\ 0 \in 0 .. AttemptCap
    BY AttemptCapAssumption DEF Call
  <2>2. sstat' \in [Step -> RunStatus] /\ owner' \in [Step -> Executor \cup {WorkerId, None}]
    BY <1>7 DEF RetryTaskWrite, MoveSteps, RunStatus
  <2>3. lease' \in [Step -> {"none", "live", "expired"}] /\ backoff' \in [Step -> BOOLEAN]
    BY <1>7 DEF RetryTaskWrite
  <2>4. attempts' \in [Step -> 0 .. AttemptCap] /\ dead' \in SUBSET Step
    BY <1>7, <2>1 DEF RetryTaskWrite
  <2>5. tstat' \in [Task -> TaskStatus \cup {"absent"}] /\ rstat' \in [Task -> RunStatus]
    BY <1>7, <2>1 DEF RetryTaskWrite, CloseRun, TaskStatus, RunStatus
  <2>6. approval' \in [Task -> {"none", "approved", "denied"}]
    BY <1>7, <2>1 DEF RetryTaskWrite
  <2>7. req' \in [Task -> BOOLEAN] /\ cancelReq' \in [Task -> BOOLEAN]
    <3>1. req' = [req EXCEPT ![c.task] = (c.op = "retry_gated")]
      BY <1>7 DEF RetryTaskWrite
    <3>2. cancelReq' = [cancelReq EXCEPT ![c.task] = FALSE]
      BY <1>7 DEF RetryTaskWrite
    <3> QED
      BY <3>1, <3>2, <2>1, Zenon
  <2> QED
    BY <1>7, <2>2, <2>3, <2>4, <2>5, <2>6, <2>7 DEF RetryTaskWrite, Return
<1>8. ASSUME NEW c \in calls, CallLost(c) PROVE TypeOK'
  BY <1>8, ConstantsAssumption DEF CallLost, Return
<1> QED
  BY <1>1, <1>3, <1>4, <1>5, <1>6, <1>7, <1>8 DEF ClientWrite

\* Starting a step, hosted or on a device, keeps all columns well typed.
LEMMA StartTyping ==
  ASSUME TypeOK, NEW s \in Step, NEW id \in Executor \cup {WorkerId},
         NEW ts \in [Task -> TaskStatus \cup {"absent"}], NEW rs \in [Task -> RunStatus],
         NEW ss \in [Step -> RunStatus],
         NEW own \in [Step -> Executor \cup {WorkerId, None}],
         NEW ls \in [Step -> {"none", "live", "expired"}],
         StartStep(s, id, ts, rs, ss, own, ls)
  PROVE  /\ tstat' \in [Task -> TaskStatus \cup {"absent"}] /\ rstat' \in [Task -> RunStatus]
         /\ sstat' \in [Step -> RunStatus]
         /\ owner' \in [Step -> Executor \cup {WorkerId, None}]
         /\ lease' \in [Step -> {"none", "live", "expired"}]
         /\ attempts' \in [Step -> 0 .. AttemptCap] /\ backoff' \in [Step -> BOOLEAN]
<1>1. attempts' \in [Step -> 0 .. AttemptCap]
  BY BumpTyping DEF StartStep, TypeOK
<1>2. tstat' \in [Task -> TaskStatus \cup {"absent"}] /\ rstat' \in [Task -> RunStatus]
  BY DEF StartStep, TypeOK, TaskStatus, RunStatus
<1>3. sstat' \in [Step -> RunStatus] /\ owner' \in [Step -> Executor \cup {WorkerId, None}]
  BY DEF StartStep, TypeOK, RunStatus
<1>4. lease' \in [Step -> {"none", "live", "expired"}] /\ backoff' \in [Step -> BOOLEAN]
  BY DEF StartStep, TypeOK
<1> QED
  BY <1>1, <1>2, <1>3, <1>4

\* complete_step keeps all columns well typed.
LEMMA CompleteTyping ==
  ASSUME TypeOK, NEW s \in Step, CompleteStep(s),
         devices' \in [Executor -> {"absent", "active", "revoked"}],
         job' \in [Worker -> Step \cup {None}], begun' \in [Worker -> BOOLEAN],
         hold' = hold, calls' = calls, reports' \in SUBSET Report, crashes' = crashes
  PROVE  TypeOK'
<1>1. TaskOf[s] \in Task
  BY ConstantsAssumption
<1>2. sstat' \in [Step -> RunStatus] /\ owner' \in [Step -> Executor \cup {WorkerId, None}]
  BY DEF CompleteStep, TypeOK, RunStatus
<1>3. lease' \in [Step -> {"none", "live", "expired"}]
  BY DEF CompleteStep, TypeOK
<1>4. backoff' \in [Step -> BOOLEAN]
  BY DEF CompleteStep, TypeOK
<1>5. tstat' \in [Task -> TaskStatus \cup {"absent"}] /\ rstat' \in [Task -> RunStatus]
  BY <1>1 DEF CompleteStep, TypeOK, TaskStatus, RunStatus
<1> QED
  BY <1>2, <1>3, <1>4, <1>5 DEF TypeOK, CompleteStep

\* fail_step keeps all columns well typed.
LEMMA FailTyping ==
  ASSUME TypeOK, NEW s \in Step, NEW retryable \in BOOLEAN, FailStep(s, retryable),
         devices' \in [Executor -> {"absent", "active", "revoked"}],
         job' \in [Worker -> Step \cup {None}], begun' \in [Worker -> BOOLEAN],
         hold' = hold, calls' = calls, reports' \in SUBSET Report, crashes' = crashes
  PROVE  TypeOK'
<1>1. TaskOf[s] \in Task
  BY ConstantsAssumption
<1>2. sstat' \in [Step -> RunStatus] /\ owner' \in [Step -> Executor \cup {WorkerId, None}]
  BY DEF FailStep, TypeOK, RunStatus
<1>3. lease' \in [Step -> {"none", "live", "expired"}] /\ dead' \in SUBSET Step
  BY DEF FailStep, TypeOK
<1>4. backoff' \in [Step -> BOOLEAN]
  <2>1. backoff' = [backoff EXCEPT ![s] = (retryable /\ attempts[s] < Limit[s]) \/ backoff[s]]
    BY DEF FailStep
  <2> QED
    BY <2>1, Zenon DEF TypeOK
<1>5. tstat' \in [Task -> TaskStatus \cup {"absent"}] /\ rstat' \in [Task -> RunStatus]
  BY <1>1 DEF FailStep, TypeOK, TaskStatus, RunStatus
<1> QED
  BY <1>2, <1>3, <1>4, <1>5 DEF TypeOK, FailStep

\* A hosted worker's transactions keep all columns well typed.
LEMMA TypeOKWorker ==
  ASSUME TypeOK, NEW w \in Worker,
         ClaimOne(w) \/ BeginSandbox(w) \/ WorkerEnds(w) \/ WorkerCrash(w)
  PROVE  TypeOK'
<1>1. CASE ClaimOne(w)
  <2> DEFINE E == Expired({"hosted", "sandbox"})
             offered == Offered(RecoveredTasks(E), RecoveredSteps(E))
  <2>1. E \in SUBSET Step
    BY ExpiredTyping
  <2>2. offered \in SUBSET Step
    BY DEF Offered
  <2>3. /\ RecoveredSteps(E) \in [Step -> RunStatus]
        /\ RecoveredTasks(E) \in [Task -> TaskStatus \cup {"absent"}]
        /\ RecoveredRuns(E) \in [Task -> RunStatus]
        /\ Released(owner, E, None) \in [Step -> Executor \cup {WorkerId, None}]
        /\ Released(lease, E, "none") \in [Step -> {"none", "live", "expired"}]
    BY <2>1, RecoveredTyping
  <2>4. CASE /\ tstat' = RecoveredTasks(E) /\ rstat' = RecoveredRuns(E)
             /\ sstat' = RecoveredSteps(E) /\ owner' = Released(owner, E, None)
             /\ lease' = Released(lease, E, "none")
             /\ UNCHANGED <<attempts, backoff, job, begun>>
    BY <1>1, <2>3, <2>4 DEF ClaimOne, TypeOK
  <2>5. ASSUME NEW s \in offered,
               /\ tstat' = [RecoveredTasks(E) EXCEPT ![TaskOf[s]] = "waiting_approval"]
               /\ rstat' = RecoveredRuns(E)
               /\ sstat' = RecoveredSteps(E) /\ owner' = Released(owner, E, None)
               /\ lease' = Released(lease, E, "none")
               /\ UNCHANGED <<attempts, backoff, job, begun>>
        PROVE  TypeOK'
    <3>1. tstat' \in [Task -> TaskStatus \cup {"absent"}]
      BY <2>3, <2>5 DEF TaskStatus
    <3> QED
      BY <1>1, <2>3, <2>5, <3>1 DEF ClaimOne, TypeOK
  <2>6. ASSUME NEW s \in offered,
               StartStep(s, WorkerId, RecoveredTasks(E), RecoveredRuns(E), RecoveredSteps(E),
                         Released(owner, E, None), Released(lease, E, "none")),
               job' = [job EXCEPT ![w] = s], begun' = [begun EXCEPT ![w] = Kind[s] # "sandbox"]
        PROVE  TypeOK'
    <3>1. s \in Step
      BY <2>2, <2>6
    <3>2. /\ tstat' \in [Task -> TaskStatus \cup {"absent"}] /\ rstat' \in [Task -> RunStatus]
          /\ sstat' \in [Step -> RunStatus]
          /\ owner' \in [Step -> Executor \cup {WorkerId, None}]
          /\ lease' \in [Step -> {"none", "live", "expired"}]
          /\ attempts' \in [Step -> 0 .. AttemptCap] /\ backoff' \in [Step -> BOOLEAN]
      BY <2>3, <2>6, <3>1, StartTyping
    <3>3. job' \in [Worker -> Step \cup {None}]
      BY <2>6, <3>1 DEF TypeOK
    <3>4. begun' \in [Worker -> BOOLEAN]
      BY <2>6, Zenon DEF TypeOK
    <3> QED
      BY <1>1, <3>2, <3>3, <3>4 DEF ClaimOne, TypeOK
  <2> QED
    BY <1>1, <2>4, <2>5, <2>6, Zenon DEF ClaimOne
<1>2. CASE BeginSandbox(w)
  BY <1>2 DEF BeginSandbox, TypeOK, taskVars, stepVars
<1>3. ASSUME job[w] # None, JobOver(w)
      PROVE  /\ job' \in [Worker -> Step \cup {None}] /\ begun' \in [Worker -> BOOLEAN]
             /\ job[w] \in Step
             /\ devices' \in [Executor -> {"absent", "active", "revoked"}]
             /\ hold' = hold /\ calls' = calls /\ reports' \in SUBSET Report
             /\ crashes' = crashes
  BY <1>3 DEF JobOver, TypeOK
<1>4. CASE WorkerComplete(w)
  BY <1>3, <1>4, CompleteTyping DEF WorkerComplete
<1>5. ASSUME NEW r \in BOOLEAN, WorkerFail(w, r) PROVE TypeOK'
  BY <1>3, <1>5, FailTyping DEF WorkerFail
<1>6. CASE WorkerCrash(w)
  BY <1>6, ConstantsAssumption DEF WorkerCrash, TypeOK, taskVars, stepVars
<1> QED
  BY <1>1, <1>2, <1>4, <1>5, <1>6 DEF WorkerEnds

\* A device's poll, renewal and effect keep all columns well typed.
LEMMA TypeOKExecutor ==
  ASSUME TypeOK, NEW e \in Executor, ExecutorStep(e)
  PROVE  TypeOK'
<1> USE DEF taskVars, stepVars, procVars
<1>1. CASE PairExecutor(e) \/ RevokeExecutor(e)
  BY <1>1 DEF PairExecutor, RevokeExecutor, TypeOK
<1>2. ASSUME NEW p \in Policies, ClaimForExecutor(e, p) PROVE TypeOK'
  <2> DEFINE E == Expired({"desktop"})
             auto == AutoApproved(e, p, RecoveredTasks(E), RecoveredSteps(E))
             ts == [t \in Task |-> IF t \in auto THEN "queued" ELSE RecoveredTasks(E)[t]]
             rq == [t \in Task |-> t \notin auto /\ req[t]]
             ap == [t \in Task |-> IF t \in auto THEN "approved" ELSE approval[t]]
             claimable == Claimable(e, ts, RecoveredSteps(E), rq, ap)
  <2>1. E \in SUBSET Step
    BY ExpiredTyping
  <2>2. claimable \in SUBSET Step
    BY DEF Claimable
  <2>3. /\ RecoveredSteps(E) \in [Step -> RunStatus]
        /\ RecoveredTasks(E) \in [Task -> TaskStatus \cup {"absent"}]
        /\ RecoveredRuns(E) \in [Task -> RunStatus]
        /\ Released(owner, E, None) \in [Step -> Executor \cup {WorkerId, None}]
        /\ Released(lease, E, "none") \in [Step -> {"none", "live", "expired"}]
        /\ Released(xlease, E, None) \in [Step -> Executor \cup {None}]
        /\ RecoveredDead(E) \in SUBSET Step
    BY <2>1, RecoveredTyping
  <2>4. ts \in [Task -> TaskStatus \cup {"absent"}]
    BY <2>3 DEF TaskStatus, RunStatus
  <2>5. rq \in [Task -> BOOLEAN]
    BY DEF TypeOK
  <2>6. ap \in [Task -> {"none", "approved", "denied"}]
    BY DEF TypeOK
  <2>7. /\ req' = rq /\ approval' = ap /\ dead' = RecoveredDead(E)
        /\ UNCHANGED <<cancelReq, created, devices, job, begun, calls, reports, crashes>>
    BY <1>2 DEF ClaimForExecutor
  <2>8. CASE /\ tstat' = ts /\ rstat' = RecoveredRuns(E) /\ sstat' = RecoveredSteps(E)
             /\ owner' = Released(owner, E, None) /\ lease' = Released(lease, E, "none")
             /\ xlease' = Released(xlease, E, None)
             /\ UNCHANGED <<attempts, backoff, hold>>
    BY <2>3, <2>4, <2>5, <2>6, <2>7, <2>8 DEF TypeOK
  <2>9. ASSUME NEW s \in claimable,
               StartStep(s, e, ts, RecoveredRuns(E), RecoveredSteps(E),
                         Released(owner, E, None), Released(lease, E, "none")),
               xlease' = [Released(xlease, E, None) EXCEPT ![s] = e],
               hold' = [hold EXCEPT ![e] = s]
        PROVE  TypeOK'
    <3>1. s \in Step
      BY <2>2, <2>9
    <3>2. /\ tstat' \in [Task -> TaskStatus \cup {"absent"}] /\ rstat' \in [Task -> RunStatus]
          /\ sstat' \in [Step -> RunStatus]
          /\ owner' \in [Step -> Executor \cup {WorkerId, None}]
          /\ lease' \in [Step -> {"none", "live", "expired"}]
          /\ attempts' \in [Step -> 0 .. AttemptCap] /\ backoff' \in [Step -> BOOLEAN]
      BY <2>3, <2>4, <2>9, <3>1, StartTyping
    <3>3. hold' \in [Executor -> Step \cup {None}] /\ xlease' \in [Step -> Executor \cup {None}]
      BY <2>3, <2>9, <3>1 DEF TypeOK
    <3> QED
      BY <2>5, <2>6, <2>3, <2>7, <3>2, <3>3 DEF TypeOK
  <2> QED
    BY <1>2, <2>8, <2>9, Zenon DEF ClaimForExecutor
<1>3. CASE HeartbeatExecutorStep(e)
  BY <1>3 DEF HeartbeatExecutorStep, TypeOK
<1>4. ASSUME NEW op \in ReportOp, hold[e] # None, Reporting(e, op)
      PROVE  /\ reports' \in SUBSET Report /\ hold' \in [Executor -> Step \cup {None}]
             /\ xlease' \in [Step -> Executor \cup {None}]
             /\ UNCHANGED <<devices, job, begun, calls, crashes>>
  BY <1>4 DEF Reporting, CloseExecutorLease, TypeOK, Report
<1>5. CASE CompleteExecutorStep(e)
  BY <1>4, <1>5 DEF CompleteExecutorStep, TypeOK, ReportOp
<1>6. CASE FailExecutorStep(e)
  <2> DEFINE s == hold[e]
             t == TaskOf[s]
  <2>1. s \in Step /\ t \in Task
    BY <1>6, ConstantsAssumption DEF FailExecutorStep, TypeOK
  <2>2. CASE cancelReq[t]
    BY <1>6, <2>1, <2>2 DEF FailExecutorStep, CloseExecutorLease, TypeOK, TaskStatus, RunStatus
  <2>3. CASE ~cancelReq[t]
    <3>1. Reporting(e, IF Cap[s] = FileRead THEN "fail_retryable" ELSE "fail")
      BY <1>6, <2>3 DEF FailExecutorStep
    <3> QED
      BY <1>4, <1>6, <2>3, <3>1 DEF FailExecutorStep, TypeOK, ReportOp
  <2> QED
    BY <2>2, <2>3
<1>7. CASE ExecutorCrash(e) \/ ExecutorRefused(e)
  BY <1>7, ConstantsAssumption DEF ExecutorCrash, ExecutorRefused, TypeOK
<1> QED
  BY <1>1, <1>2, <1>3, <1>5, <1>6, <1>7 DEF ExecutorStep

\* A device's report keeps all columns well typed.
LEMMA TypeOKReport ==
  ASSUME TypeOK, NEW r \in reports, FinishReport(r) \/ ReportLost(r)
  PROVE  TypeOK'
<1>1. r \in Report /\ r.step \in Step /\ r.op \in ReportOp
  BY DEF TypeOK, Report
<1>2. CASE FinishReport(r)
  <2>1. /\ reports' \in SUBSET Report
        /\ devices' \in [Executor -> {"absent", "active", "revoked"}]
        /\ job' \in [Worker -> Step \cup {None}] /\ begun' \in [Worker -> BOOLEAN]
        /\ hold' = hold /\ calls' = calls /\ crashes' = crashes
    BY <1>2 DEF FinishReport, TypeOK
  <2>2. CASE CompleteStep(r.step)
    BY <1>1, <2>1, <2>2, CompleteTyping
  <2>3. CASE FailStep(r.step, r.op = "fail_retryable")
    BY <1>1, <2>1, <2>3, FailTyping
  <2> QED
    BY <1>2, <2>2, <2>3 DEF FinishReport
<1>3. CASE ReportLost(r)
  BY <1>3, ConstantsAssumption DEF ReportLost, TypeOK, taskVars, stepVars
<1> QED
  BY <1>2, <1>3

\* Leases that run out and backoffs that end keep all columns well typed.
LEMMA TypeOKTime ==
  ASSUME TypeOK, NEW s \in Step, LeaseExpires(s) \/ BackoffEnds(s)
  PROVE  TypeOK'
<1> USE DEF taskVars, procVars
<1>1. CASE LeaseExpires(s)
  BY <1>1 DEF LeaseExpires, TypeOK
<1>2. CASE BackoffEnds(s)
  <2>1. backoff' = [backoff EXCEPT ![s] = FALSE]
    BY <1>2 DEF BackoffEnds
  <2>2. backoff' \in [Step -> BOOLEAN]
    BY <2>1, Zenon DEF TypeOK
  <2> QED
    BY <1>2, <2>2 DEF BackoffEnds, TypeOK
<1> QED
  BY <1>1, <1>2

\* Every step of the store keeps all columns well typed.
LEMMA TypeOKStep == TypeOK /\ [Next]_vars => TypeOK'
<1> SUFFICES ASSUME TypeOK, [Next]_vars PROVE TypeOK'
  OBVIOUS
<1>1. CASE \/ \E t \in Task, r \in BOOLEAN : Create(t, r)
           \/ \E t \in Task : ClientRead(t)
           \/ \E c \in calls : ClientWrite(c) \/ CallLost(c)
  BY <1>1, TypeOKClient
<1>2. CASE \E w \in Worker : ClaimOne(w) \/ BeginSandbox(w) \/ WorkerEnds(w) \/ WorkerCrash(w)
  BY <1>2, TypeOKWorker
<1>3. CASE \E e \in Executor : ExecutorStep(e)
  BY <1>3, TypeOKExecutor
<1>4. CASE \E r \in reports : FinishReport(r) \/ ReportLost(r)
  BY <1>4, TypeOKReport
<1>5. CASE \E s \in Step : LeaseExpires(s) \/ BackoffEnds(s)
  BY <1>5, TypeOKTime
<1>6. CASE UNCHANGED vars
  BY <1>6 DEF TypeOK, vars, taskVars, stepVars, procVars
<1> QED
  BY <1>1, <1>2, <1>3, <1>4, <1>5, <1>6 DEF Next

-----------------------------------------------------------------------------
(* The approval gate and the hosted workers *)

\* Recovery never makes a task run.
LEMMA RecoveredNotRunning ==
  ASSUME TypeOK, NEW E \in SUBSET Step, NEW t \in Task, RecoveredTasks(E)[t] = "running"
  PROVE  tstat[t] = "running"
BY DEF RecoveredTasks, TypeOK

\* What claim_one starts is hosted or sandbox work of a task with an open gate.
LEMMA WorkerStarts ==
  ASSUME Inv, NEW s \in Step,
         NEW E \in SUBSET Step,
         s \in Offered(RecoveredTasks(E), RecoveredSteps(E)),
         ~(req[TaskOf[s]] /\ RecoveredTasks(E)[TaskOf[s]] = "queued")
  PROVE  Kind[s] # "desktop" /\ ~req[TaskOf[s]]
<1>1. TaskOf[s] \in Task
  BY ConstantsAssumption
<1>2. RecoveredTasks(E)[TaskOf[s]] \in {"queued", "running"}
  BY DEF Offered, Ready
<1>3. ~req[TaskOf[s]]
  BY <1>1, <1>2, RecoveredNotRunning DEF Inv, GateClosesTask
<1>4. Kind[s] \in WorkerKinds \/ req[TaskOf[s]]
  BY DEF Offered
<1> QED
  BY <1>3, <1>4 DEF WorkerKinds

\* No action puts a task that still needs approval to running.
LEMMA GateStep == Inv /\ Next => GateClosesTask'
<1> SUFFICES ASSUME Inv, Next, NEW t \in Task, tstat'[t] = "running" PROVE ~req'[t]
  BY DEF GateClosesTask
<1> USE DEF taskVars, stepVars, procVars
<1>0. tstat[t] = "running" => ~req[t]
  BY DEF Inv, GateClosesTask
<1>1. tstat \in [Task -> TaskStatus \cup {"absent"}] /\ req \in [Task -> BOOLEAN]
  BY DEF Inv, TypeOK
<1>2. ASSUME NEW u \in Task, NEW r \in BOOLEAN, Create(u, r) PROVE ~req'[t]
  BY <1>0, <1>1, <1>2 DEF Create
<1>3. ASSUME NEW u \in Task, ClientRead(u) PROVE ~req'[t]
  BY <1>0, <1>3 DEF ClientRead, RequestApprovalRead, DecideRead, DecideForExecutorRead,
                    CancelRead, RetryTaskRead, Read
<1>4. ASSUME NEW c \in calls, ClientWrite(c) PROVE ~req'[t]
  <2>1. CASE RequestApprovalWrite(c)
    BY <1>0, <1>1, <2>1 DEF RequestApprovalWrite
  <2>2. CASE DecideWrite(c)
    BY <1>0, <1>1, <2>2 DEF DecideWrite
  <2>3. CASE CancelWrite(c)
    BY <1>0, <1>1, <2>3 DEF CancelWrite
  <2>4. CASE RetryTaskWrite(c)
    BY <1>0, <1>1, <2>4 DEF RetryTaskWrite
  <2> QED
    BY <1>4, <2>1, <2>2, <2>3, <2>4 DEF ClientWrite
<1>5. ASSUME NEW c \in calls, CallLost(c) PROVE ~req'[t]
  BY <1>0, <1>5 DEF CallLost
<1>6. ASSUME NEW w \in Worker, ClaimOne(w) PROVE ~req'[t]
  <2> DEFINE E == Expired({"hosted", "sandbox"})
             offered == Offered(RecoveredTasks(E), RecoveredSteps(E))
  <2>1. E \in SUBSET Step /\ offered \in SUBSET Step
    BY ExpiredTyping DEF Offered
  <2>2. req' = req
    BY <1>6 DEF ClaimOne
  <2>3. CASE tstat' = RecoveredTasks(E)
    BY <1>0, <2>1, <2>2, <2>3, RecoveredNotRunning DEF Inv
  <2>4. ASSUME NEW s \in offered,
               tstat' = [RecoveredTasks(E) EXCEPT ![TaskOf[s]] = "waiting_approval"]
        PROVE  ~req'[t]
    <3>1. RecoveredTasks(E)[t] = "running"
      BY <2>4 DEF RecoveredTasks
    <3> QED
      BY <1>0, <2>1, <2>2, <3>1, RecoveredNotRunning DEF Inv
  <2>5. ASSUME NEW s \in offered,
               ~(req[TaskOf[s]] /\ RecoveredTasks(E)[TaskOf[s]] = "queued"),
               tstat' = [RecoveredTasks(E) EXCEPT ![TaskOf[s]] = "running"]
        PROVE  ~req'[t]
    <3>1. ~req[TaskOf[s]]
      BY <2>1, <2>5, WorkerStarts
    <3>2. t = TaskOf[s] \/ RecoveredTasks(E)[t] = "running"
      BY <2>5 DEF RecoveredTasks
    <3> QED
      BY <1>0, <2>1, <2>2, <3>1, <3>2, RecoveredNotRunning DEF Inv
  <2> QED
    BY <1>6, <2>3, <2>4, <2>5 DEF ClaimOne, StartStep
<1>7. ASSUME NEW s \in Step, CompleteStep(s) PROVE ~req'[t]
  BY <1>0, <1>1, <1>7 DEF CompleteStep
<1>8. ASSUME NEW s \in Step, NEW r \in BOOLEAN, FailStep(s, r) PROVE ~req'[t]
  BY <1>0, <1>1, <1>8 DEF FailStep
<1>9. ASSUME NEW w \in Worker, BeginSandbox(w) \/ WorkerEnds(w) \/ WorkerCrash(w)
      PROVE  ~req'[t]
  <2>1. job[w] # None => job[w] \in Step
    BY DEF Inv, TypeOK
  <2> QED
    BY <1>0, <1>7, <1>8, <1>9, <2>1
       DEF BeginSandbox, WorkerEnds, WorkerComplete, WorkerFail, WorkerCrash
<1>10. ASSUME NEW e \in Executor, NEW p \in Policies, ClaimForExecutor(e, p) PROVE ~req'[t]
  <2> DEFINE E == Expired({"desktop"})
             auto == AutoApproved(e, p, RecoveredTasks(E), RecoveredSteps(E))
             ts == [u \in Task |-> IF u \in auto THEN "queued" ELSE RecoveredTasks(E)[u]]
             rq == [u \in Task |-> u \notin auto /\ req[u]]
             ap == [u \in Task |-> IF u \in auto THEN "approved" ELSE approval[u]]
             claimable == Claimable(e, ts, RecoveredSteps(E), rq, ap)
  <2>1. req' = rq /\ E \in SUBSET Step
    BY <1>10, ExpiredTyping DEF ClaimForExecutor
  <2>2. ts[t] = "running" => ~req'[t]
    <3>1. SUFFICES ASSUME ts[t] = "running" PROVE ~req'[t]
      OBVIOUS
    <3>2. RecoveredTasks(E)[t] = "running"
      BY <3>1
    <3>3. ~req[t]
      BY <1>0, <2>1, <3>2, RecoveredNotRunning DEF Inv
    <3> QED
      BY <2>1, <3>3, Zenon
  <2>3. ASSUME NEW s \in claimable, tstat' = [ts EXCEPT ![TaskOf[s]] = "running"]
        PROVE  ~req'[t]
    <3>1. ~rq[TaskOf[s]]
      BY DEF Claimable
    <3>2. t = TaskOf[s] \/ ts[t] = "running"
      BY <2>3
    <3> QED
      BY <2>1, <2>2, <3>1, <3>2
  <2>4. tstat' = ts \/ \E s \in claimable : tstat' = [ts EXCEPT ![TaskOf[s]] = "running"]
    BY <1>10, Zenon DEF ClaimForExecutor, StartStep
  <2> HIDE DEF ts, rq, claimable, auto, ap
  <2> QED
    BY <2>2, <2>3, <2>4
<1>11. ASSUME NEW e \in Executor, ExecutorStep(e) PROVE ~req'[t]
  <2>1. CASE FailExecutorStep(e)
    BY <1>0, <1>1, <2>1 DEF FailExecutorStep, Reporting
  <2> QED
    BY <1>0, <1>10, <1>11, <2>1
       DEF ExecutorStep, PairExecutor, RevokeExecutor, HeartbeatExecutorStep,
           CompleteExecutorStep, Reporting, ExecutorCrash, ExecutorRefused
<1>12. ASSUME NEW r \in reports, FinishReport(r) \/ ReportLost(r) PROVE ~req'[t]
  <2>1. r.step \in Step
    BY DEF Inv, TypeOK, Report
  <2> QED
    BY <1>0, <1>7, <1>8, <1>12, <2>1 DEF FinishReport, ReportLost
<1>13. ASSUME NEW s \in Step, LeaseExpires(s) \/ BackoffEnds(s) PROVE ~req'[t]
  BY <1>0, <1>13 DEF LeaseExpires, BackoffEnds
<1> QED
  BY <1>2, <1>3, <1>4, <1>5, <1>6, <1>9, <1>11, <1>12, <1>13 DEF Next

\* No action hands a desktop step to a hosted worker.
LEMMA HostedStep == Inv /\ Next => WorkersStayHosted'
<1> SUFFICES ASSUME Inv, Next, NEW v \in Worker, job'[v] # None
             PROVE  Kind[job'[v]] # "desktop"
  BY DEF WorkersStayHosted
<1> USE DEF procVars
<1>0. job[v] # None => Kind[job[v]] # "desktop"
  BY DEF Inv, WorkersStayHosted
<1>1. job \in [Worker -> Step \cup {None}]
  BY DEF Inv, TypeOK
<1>2. ASSUME NEW w \in Worker, ClaimOne(w) PROVE Kind[job'[v]] # "desktop"
  <2> DEFINE E == Expired({"hosted", "sandbox"})
             offered == Offered(RecoveredTasks(E), RecoveredSteps(E))
  <2>1. E \in SUBSET Step /\ offered \in SUBSET Step
    BY ExpiredTyping DEF Offered
  <2>2. CASE job' = job
    BY <1>0, <2>2
  <2>3. ASSUME NEW s \in offered, job' = [job EXCEPT ![w] = s],
               ~(req[TaskOf[s]] /\ RecoveredTasks(E)[TaskOf[s]] = "queued")
        PROVE  Kind[job'[v]] # "desktop"
    <3>1. Kind[s] # "desktop"
      BY <2>1, <2>3, WorkerStarts
    <3> QED
      BY <1>0, <1>1, <2>3, <3>1
  <2> QED
    BY <1>2, <2>2, <2>3, Zenon DEF ClaimOne
<1>3. ASSUME NEW w \in Worker, BeginSandbox(w) \/ WorkerEnds(w) \/ WorkerCrash(w)
      PROVE  Kind[job'[v]] # "desktop"
  BY <1>0, <1>1, <1>3 DEF BeginSandbox, WorkerEnds, WorkerComplete, WorkerFail, JobOver,
                          WorkerCrash
<1>4. job' = job \/ \E w \in Worker : \/ ClaimOne(w) \/ BeginSandbox(w)
                                     \/ WorkerEnds(w) \/ WorkerCrash(w)
  <2>1. ASSUME NEW t \in Task, ClientRead(t) PROVE job' = job
    BY <2>1 DEF ClientRead, RequestApprovalRead, DecideRead, DecideForExecutorRead,
                CancelRead, RetryTaskRead, Read
  <2>2. ASSUME NEW c \in calls, ClientWrite(c) \/ CallLost(c) PROVE job' = job
    BY <2>2 DEF ClientWrite, RequestApprovalWrite, DecideWrite, CancelWrite, RetryTaskWrite,
                CallLost
  <2>3. ASSUME NEW e \in Executor, ExecutorStep(e) PROVE job' = job
    BY <2>3 DEF ExecutorStep, PairExecutor, RevokeExecutor, ClaimForExecutor,
                HeartbeatExecutorStep, CompleteExecutorStep, FailExecutorStep, Reporting,
                ExecutorCrash, ExecutorRefused
  <2>4. ASSUME NEW r \in reports, FinishReport(r) \/ ReportLost(r) PROVE job' = job
    BY <2>4 DEF FinishReport, ReportLost
  <2> QED
    BY <2>1, <2>2, <2>3, <2>4 DEF Next, Create, LeaseExpires, BackoffEnds
<1> QED
  BY <1>0, <1>2, <1>3, <1>4

\* No action reports a retryable failure of a side-effecting step.
LEMMA ReportStep == Inv /\ Next => RetryOnlyReads'
<1> SUFFICES ASSUME Inv, Next PROVE RetryOnlyReads'
  OBVIOUS
<1> USE DEF procVars
<1>0. ASSUME reports' \subseteq reports PROVE RetryOnlyReads'
  BY <1>0 DEF Inv, RetryOnlyReads, SideEffecting
<1>1. ASSUME NEW e \in Executor, ExecutorStep(e) PROVE RetryOnlyReads'
  <2>1. ASSUME CompleteExecutorStep(e) PROVE RetryOnlyReads'
    BY <2>1 DEF CompleteExecutorStep, Reporting, Inv, RetryOnlyReads, SideEffecting
  <2>2. ASSUME FailExecutorStep(e) PROVE RetryOnlyReads'
    <3>1. CASE reports' = reports
      BY <1>0, <3>1
    <3>2. CASE Reporting(e, IF Cap[hold[e]] = FileRead THEN "fail_retryable" ELSE "fail")
      BY <3>2 DEF Reporting, Inv, RetryOnlyReads, SideEffecting
    <3> QED
      BY <2>2, <3>1, <3>2 DEF FailExecutorStep
  <2> QED
    BY <1>0, <1>1, <2>1, <2>2
       DEF ExecutorStep, PairExecutor, RevokeExecutor, ClaimForExecutor,
           HeartbeatExecutorStep, ExecutorCrash, ExecutorRefused
<1>2. ASSUME NEW t \in Task, ClientRead(t) PROVE RetryOnlyReads'
  BY <1>0, <1>2 DEF ClientRead, RequestApprovalRead, DecideRead, DecideForExecutorRead,
                    CancelRead, RetryTaskRead, Read
<1>3. ASSUME NEW c \in calls, ClientWrite(c) \/ CallLost(c) PROVE RetryOnlyReads'
  BY <1>0, <1>3 DEF ClientWrite, RequestApprovalWrite, DecideWrite, CancelWrite,
                    RetryTaskWrite, CallLost
<1>4. ASSUME NEW w \in Worker,
             ClaimOne(w) \/ BeginSandbox(w) \/ WorkerEnds(w) \/ WorkerCrash(w)
      PROVE  RetryOnlyReads'
  BY <1>0, <1>4 DEF ClaimOne, BeginSandbox, WorkerEnds, WorkerComplete, WorkerFail, JobOver,
                    WorkerCrash
<1>5. ASSUME NEW r \in reports, FinishReport(r) \/ ReportLost(r) PROVE RetryOnlyReads'
  BY <1>0, <1>5 DEF FinishReport, ReportLost
<1> QED
  BY <1>0, <1>1, <1>2, <1>3, <1>4, <1>5 DEF Next, Create, LeaseExpires, BackoffEnds

-----------------------------------------------------------------------------
(* Side-effecting steps *)

\* The four ways in which a transaction may treat a side-effecting step.
Stays(s)   == sstat'[s] = sstat[s]
Ends(s)    == sstat'[s] \in Terminal
Starts(s)  == sstat[s] = "queued" /\ sstat'[s] = "running" /\ Permit(s)'
Reopens(s) == sstat[s] \in Terminal /\ sstat'[s] = "queued" /\ ~Permit(s)'
EffectStep == \A s \in SideEffecting : Stays(s) \/ Ends(s) \/ Starts(s) \/ Reopens(s)

\* Steps that only stay or end keep what is known about the queue.
LEMMA Winding ==
  ASSUME Inv, attempts' = attempts, \A s \in SideEffecting : Stays(s) \/ Ends(s)
  PROVE  EffectStep /\ QueuedUnstarted'
BY DEF Inv, EffectStep, QueuedUnstarted, SideEffecting, Stays, Ends, Terminal

\* Recovery only ends side-effecting steps.
LEMMA RecoveryEnds ==
  ASSUME NEW E \in SUBSET Step, NEW s \in SideEffecting
  PROVE  RecoveredSteps(E)[s] = sstat[s] \/ RecoveredSteps(E)[s] \in Terminal
BY DEF RecoveredSteps, RecoveredAs, SideEffecting, Terminal

\* A claim starts one queued step, on top of a recovery.
LEMMA Starting ==
  ASSUME Inv, NEW s \in Step, NEW id, NEW E \in SUBSET Step,
         NEW ts, NEW rs, NEW own, NEW ls,
         StartStep(s, id, ts, rs, RecoveredSteps(E), own, ls),
         RecoveredSteps(E)[s] = "queued",
         s \in SideEffecting => Permit(s)'
  PROVE  EffectStep /\ QueuedUnstarted'
<1> USE DEF Stays, Ends, Starts
<1>1. sstat' = [RecoveredSteps(E) EXCEPT ![s] = "running"]
      /\ attempts' = [attempts EXCEPT ![s] = Bump(@)]
  BY DEF StartStep
<1>2. attempts \in [Step -> 0 .. AttemptCap] /\ SideEffecting \subseteq Step
  BY DEF Inv, TypeOK, SideEffecting
<1>3. ASSUME NEW x \in SideEffecting
      PROVE  /\ Stays(x) \/ Ends(x) \/ Starts(x)
             /\ attempts'[x] <= 1 /\ (sstat'[x] = "queued" => attempts'[x] = 0)
  <2>1. CASE x = s
    <3>1. sstat[s] = "queued"
      BY <2>1, RecoveryEnds DEF Terminal
    <3>2. attempts[s] = 0 /\ attempts'[s] = 1
      BY <1>1, <1>2, <2>1, <3>1, AttemptCapAssumption DEF Inv, QueuedUnstarted, Bump
    <3>3. sstat'[s] = "running"
      BY <1>1 DEF RecoveredSteps
    <3> QED
      BY <2>1, <3>1, <3>2, <3>3
  <2>2. CASE x # s
    <3>1. sstat'[x] = RecoveredSteps(E)[x] /\ attempts'[x] = attempts[x]
      BY <1>1, <1>2, <2>2 DEF RecoveredSteps
    <3>2. Stays(x) \/ Ends(x)
      BY <3>1, RecoveryEnds
    <3> QED
      BY <3>1, <3>2 DEF Inv, QueuedUnstarted, Terminal
  <2> QED
    BY <2>1, <2>2
<1> QED
  BY <1>3 DEF EffectStep, QueuedUnstarted, SideEffecting

\* No late report requeues a side-effecting step.
LEMMA FailingEnds ==
  ASSUME Inv, NEW s \in Step, NEW r \in BOOLEAN, FailStep(s, r),
         s \in SideEffecting => ~r
  PROVE  EffectStep /\ QueuedUnstarted'
<1>1. \A x \in SideEffecting : Stays(x) \/ Ends(x)
  BY DEF FailStep, Inv, TypeOK, SideEffecting, Stays, Ends, Terminal
<1> QED
  BY <1>1, Winding DEF FailStep

\* Completing a step ends its side effect for good, one way or the other.
LEMMA CompletingEnds ==
  ASSUME Inv, NEW s \in Step, CompleteStep(s)
  PROVE  EffectStep /\ QueuedUnstarted'
<1>1. \A x \in SideEffecting : Stays(x) \/ Ends(x)
  BY DEF CompleteStep, Inv, TypeOK, SideEffecting, Stays, Ends, Terminal
<1> QED
  BY <1>1, Winding DEF CompleteStep

\* retry_task is the only way back, and it withdraws the approval.
LEMMA RetryReopens ==
  ASSUME Inv, NEW c \in calls, RetryTaskWrite(c)
  PROVE  EffectStep /\ QueuedUnstarted'
<1>1. c.task \in Task
  BY DEF Inv, TypeOK, Call
<1>2. ~(approval'[c.task] = "approved")
  BY <1>1 DEF RetryTaskWrite, Inv, TypeOK
<1>3. ASSUME NEW x \in SideEffecting
      PROVE  /\ Stays(x) \/ Reopens(x)
             /\ attempts'[x] <= 1 /\ (sstat'[x] = "queued" => attempts'[x] = 0)
  <2> DEFINE reset == {s \in StepsOf(c.task) : sstat[s] \in {"failed", "cancelled"}}
  <2>1. x \in Step
    BY DEF SideEffecting
  <2>2. CASE x \in reset
    <3>1. TaskOf[x] = c.task /\ sstat[x] \in {"failed", "cancelled"}
      BY <2>2 DEF StepsOf
    <3>2. sstat'[x] = "queued" /\ attempts'[x] = 0
      BY <2>1, <2>2, <3>1 DEF RetryTaskWrite, MoveSteps
    <3>3. Reopens(x)
      BY <1>2, <3>1, <3>2 DEF Reopens, Permit, Terminal
    <3> QED
      BY <3>2, <3>3
  <2>3. CASE x \notin reset
    <3>1. sstat'[x] = sstat[x] /\ attempts'[x] = attempts[x]
      BY <2>1, <2>3 DEF RetryTaskWrite, MoveSteps, StepsOf
    <3> QED
      BY <3>1 DEF Stays, Inv, QueuedUnstarted
  <2> QED
    BY <2>2, <2>3
<1> QED
  BY <1>3 DEF EffectStep, QueuedUnstarted, SideEffecting

\* Every action is a step of the side effects, and an unstarted step has no
\* effect.
LEMMA LocalStep == Inv /\ Next => EffectStep /\ QueuedUnstarted'
<1> SUFFICES ASSUME Inv, Next PROVE EffectStep /\ QueuedUnstarted'
  OBVIOUS
<1> USE DEF taskVars, stepVars, procVars
<1>1. ASSUME sstat' = sstat, attempts' = attempts PROVE EffectStep /\ QueuedUnstarted'
  BY <1>1, Winding DEF Stays
<1>2. ASSUME NEW t \in Task, ClientRead(t) PROVE EffectStep /\ QueuedUnstarted'
  BY <1>1, <1>2 DEF ClientRead, RequestApprovalRead, DecideRead, DecideForExecutorRead,
                    CancelRead, RetryTaskRead, Read
<1>3. ASSUME NEW c \in calls, ClientWrite(c) \/ CallLost(c)
      PROVE  EffectStep /\ QueuedUnstarted'
  <2>1. CASE DecideWrite(c) \/ CancelWrite(c)
    <3>1. attempts' = attempts /\ (sstat' = sstat \/ sstat' = MoveSteps(c.task, {"queued"}, "cancelled"))
      BY <2>1 DEF DecideWrite, CancelWrite
    <3>2. \A x \in SideEffecting : Stays(x) \/ Ends(x)
      BY <3>1 DEF MoveSteps, SideEffecting, Stays, Ends, Terminal
    <3> QED
      BY <3>1, <3>2, Winding
  <2> QED
    BY <1>1, <1>3, <2>1, RetryReopens DEF ClientWrite, RequestApprovalWrite, CallLost
<1>4. ASSUME NEW w \in Worker, ClaimOne(w) PROVE EffectStep /\ QueuedUnstarted'
  <2> DEFINE E == Expired({"hosted", "sandbox"})
             ss == RecoveredSteps(E)
             offered == Offered(RecoveredTasks(E), ss)
  <2>1. E \in SUBSET Step /\ offered \in SUBSET Step
    BY ExpiredTyping DEF Offered
  <2>2. CASE sstat' = ss /\ attempts' = attempts
    BY <2>1, <2>2, RecoveryEnds, Winding DEF Stays, Ends
  <2>3. ASSUME NEW s \in offered,
               StartStep(s, WorkerId, RecoveredTasks(E), RecoveredRuns(E), ss,
                         Released(owner, E, None), Released(lease, E, "none")),
               ~(req[TaskOf[s]] /\ RecoveredTasks(E)[TaskOf[s]] = "queued")
        PROVE  EffectStep /\ QueuedUnstarted'
    <3>1. s \in Step /\ ss[s] = "queued"
      BY <2>1 DEF Offered, Ready
    <3>2. s \notin SideEffecting
      BY <2>1, <2>3, <3>1, WorkerStarts DEF SideEffecting
    <3> QED
      BY <2>1, <2>3, <3>1, <3>2, Starting
  <2> QED
    BY <1>4, <2>2, <2>3, Zenon DEF ClaimOne
<1>5. ASSUME NEW w \in Worker, BeginSandbox(w) \/ WorkerEnds(w) \/ WorkerCrash(w)
      PROVE  EffectStep /\ QueuedUnstarted'
  <2>1. job[w] # None => job[w] \in Step /\ job[w] \notin SideEffecting
    BY DEF Inv, TypeOK, WorkersStayHosted, SideEffecting
  <2> QED
    BY <1>1, <1>5, <2>1, CompletingEnds, FailingEnds
       DEF BeginSandbox, WorkerEnds, WorkerComplete, WorkerFail, WorkerCrash
<1>6. ASSUME NEW e \in Executor, NEW p \in Policies, ClaimForExecutor(e, p)
      PROVE  EffectStep /\ QueuedUnstarted'
  <2> DEFINE E == Expired({"desktop"})
             ss == RecoveredSteps(E)
             auto == AutoApproved(e, p, RecoveredTasks(E), ss)
             ts == [u \in Task |-> IF u \in auto THEN "queued" ELSE RecoveredTasks(E)[u]]
             rq == [u \in Task |-> u \notin auto /\ req[u]]
             ap == [u \in Task |-> IF u \in auto THEN "approved" ELSE approval[u]]
             claimable == Claimable(e, ts, ss, rq, ap)
  <2>1. E \in SUBSET Step /\ claimable \in SUBSET Step
    BY ExpiredTyping DEF Claimable
  <2>2. req' = rq /\ approval' = ap
    BY <1>6 DEF ClaimForExecutor
  <2>3. CASE sstat' = ss /\ attempts' = attempts
    BY <2>1, <2>3, RecoveryEnds, Winding DEF Stays, Ends
  <2>4. ASSUME NEW s \in claimable,
               StartStep(s, e, ts, RecoveredRuns(E), ss,
                         Released(owner, E, None), Released(lease, E, "none"))
        PROVE  EffectStep /\ QueuedUnstarted'
    <3>1. s \in Step /\ ss[s] = "queued" /\ ap[TaskOf[s]] = "approved" /\ ~rq[TaskOf[s]]
      BY <2>1 DEF Claimable, Ready
    <3>2. Permit(s)'
      BY <2>2, <3>1 DEF Permit
    <3> QED
      BY <2>1, <2>4, <3>1, <3>2, Starting
  <2> QED
    BY <1>6, <2>3, <2>4, Zenon DEF ClaimForExecutor
<1>7. ASSUME NEW e \in Executor, FailExecutorStep(e) PROVE EffectStep /\ QueuedUnstarted'
  <2>1. attempts' = attempts
        /\ (sstat' = sstat \/ sstat' = [sstat EXCEPT ![hold[e]] = "cancelled"])
    BY <1>7 DEF FailExecutorStep
  <2>2. \A x \in SideEffecting : Stays(x) \/ Ends(x)
    BY <2>1 DEF Inv, TypeOK, SideEffecting, Stays, Ends, Terminal
  <2> QED
    BY <2>1, <2>2, Winding
<1>8. ASSUME NEW e \in Executor, ExecutorStep(e) PROVE EffectStep /\ QueuedUnstarted'
  BY <1>1, <1>6, <1>7, <1>8
     DEF ExecutorStep, PairExecutor, RevokeExecutor, HeartbeatExecutorStep,
         CompleteExecutorStep, ExecutorCrash, ExecutorRefused
<1>9. ASSUME NEW r \in reports, FinishReport(r) \/ ReportLost(r)
      PROVE  EffectStep /\ QueuedUnstarted'
  <2>1. r.step \in Step /\ (r.op = "fail_retryable" => r.step \notin SideEffecting)
    BY DEF Inv, TypeOK, Report, RetryOnlyReads
  <2>2. FailStep(r.step, r.op = "fail_retryable") => EffectStep /\ QueuedUnstarted'
    BY <2>1, FailingEnds
  <2> QED
    BY <1>1, <1>9, <2>1, <2>2, CompletingEnds DEF FinishReport, ReportLost
<1>10. ASSUME NEW s \in Step, LeaseExpires(s) \/ BackoffEnds(s)
       PROVE  EffectStep /\ QueuedUnstarted'
  BY <1>1, <1>10 DEF LeaseExpires, BackoffEnds
<1>11. ASSUME NEW t \in Task, NEW r \in BOOLEAN, Create(t, r)
       PROVE  EffectStep /\ QueuedUnstarted'
  BY <1>1, <1>11 DEF Create
<1> QED
  BY <1>2, <1>3, <1>4, <1>5, <1>8, <1>9, <1>10, <1>11 DEF Next

-----------------------------------------------------------------------------
(* The theorems *)

\* Inv is inductive.
LEMMA InvStep == Inv /\ [Next]_vars => Inv'
<1> SUFFICES ASSUME Inv, [Next]_vars PROVE Inv'
  OBVIOUS
<1>1. CASE Next
  BY <1>1, TypeOKStep, GateStep, HostedStep, ReportStep, LocalStep DEF Inv
<1>2. CASE UNCHANGED vars
  <2>1. TypeOK'
    BY <1>2, TypeOKStep DEF Inv
  <2> QED
    BY <1>2, <2>1 DEF Inv, GateClosesTask, WorkersStayHosted, RetryOnlyReads,
                      QueuedUnstarted, SideEffecting, vars, taskVars, stepVars, procVars
<1> QED
  BY <1>1, <1>2

\* The rows, leases and process memories keep their types through every
\* transaction, crash and expiry, and with them the parts of Inv: a running task
\* has its gate open, workers hold no desktop step, only file reads are reported
\* as retryable, and a queued side-effecting step was not started since its last
\* retry_task.
THEOREM Invariance == Spec => []Inv
<1> QED
  BY InitInv, InvStep, PTL DEF Spec

\* Type correctness of the store's rows and of what the processes remember.
THEOREM Typing == Spec => []TypeOK
<1>1. Inv => TypeOK
  BY DEF Inv
<1> QED
  BY Invariance, <1>1, PTL

\* claim_for_executor, claim_one and every report together start a write, command
\* or browser launch at most once per explicit retry_task, however many devices,
\* workers, tasks, crashes and concurrent client calls there are.
THEOREM AtMostOnce == Spec => []NoAutomaticReplay
<1>1. Inv => NoAutomaticReplay
  BY DEF Inv, QueuedUnstarted, NoAutomaticReplay
<1> QED
  BY Invariance, <1>1, PTL

-----------------------------------------------------------------------------
(* Leases, completed tasks and dead letters *)

\* What the rows of steps and tasks say about each other, whoever wrote them last.
Settled == LeaseMatchesStatus /\ LeaseAuthority /\ CompletedMeansDone /\ FailedIsVisible

\* Steps keep their leases, tasks keep or lose "completed" and failures their
\* dead letters: the step changes nothing that Settled is about.
LEMMA NothingSettles ==
  ASSUME Settled, UNCHANGED <<sstat, owner, dead>>,
         \A s \in Step : lease'[s] = "none" <=> lease[s] = "none",
         \A t \in Task : tstat'[t] = "completed" => tstat[t] = "completed"
  PROVE  Settled'
BY DEF Settled, LeaseMatchesStatus, LeaseAuthority, CompletedMeansDone, FailedIsVisible

\* Recovery takes expired steps out of "running" and clears their leases; it
\* completes nothing and fails only side-effecting steps.
LEMMA RecoverySettles ==
  ASSUME Inv, Settled, NEW kinds,
         NEW E, E = Expired(kinds)
  PROVE  /\ \A s \in Step : /\ RecoveredSteps(E)[s] = "running"
                                 <=> Released(owner, E, None)[s] # None
                            /\ RecoveredSteps(E)[s] = "running"
                                 <=> Released(lease, E, "none")[s] # "none"
                            /\ RecoveredSteps(E)[s] = "running" =>
                                 /\ sstat[s] = "running"
                                 /\ Released(owner, E, None)[s] = owner[s]
                            /\ RecoveredSteps(E)[s] = "failed" => s \in RecoveredDead(E)
                            /\ RecoveredSteps(E)[s] = "failed" =>
                                 s \in dead \/ (s \in E /\ s \in SideEffecting)
         /\ \A t \in Task : RecoveredTasks(E)[t] = "completed" =>
              \A s \in StepsOf(t) : RecoveredSteps(E)[s] = "completed"
<1>1. E \in SUBSET Step /\ \A s \in E : sstat[s] = "running"
  BY DEF Expired
<1>2. ASSUME NEW s \in Step
      PROVE  /\ RecoveredSteps(E)[s] = "running" <=> Released(owner, E, None)[s] # None
             /\ RecoveredSteps(E)[s] = "running" <=> Released(lease, E, "none")[s] # "none"
             /\ RecoveredSteps(E)[s] = "running" =>
                  sstat[s] = "running" /\ Released(owner, E, None)[s] = owner[s]
  <2>1. CASE s \in E
    BY <2>1 DEF RecoveredSteps, RecoveredAs, Released
  <2>2. CASE s \notin E
    BY <2>2 DEF RecoveredSteps, Released, Settled, LeaseMatchesStatus
  <2> QED
    BY <2>1, <2>2
<1>3. ASSUME NEW s \in Step, RecoveredSteps(E)[s] = "failed"
      PROVE  /\ s \in RecoveredDead(E)
             /\ s \in dead \/ (s \in E /\ s \in SideEffecting)
  <2>1. CASE s \in E
    <3>1. RecoveredAs(s) = "failed"
      BY <1>3, <2>1 DEF RecoveredSteps
    <3> QED
      BY <2>1, <3>1 DEF RecoveredAs, RecoveredDead
  <2>2. CASE s \notin E
    <3>1. sstat[s] = "failed"
      BY <1>3, <2>2 DEF RecoveredSteps
    <3>2. s \in dead
      BY <3>1 DEF Settled, FailedIsVisible
    <3> QED
      BY <3>2 DEF RecoveredDead
  <2> QED
    BY <2>1, <2>2
<1>4. ASSUME NEW t \in Task, RecoveredTasks(E)[t] = "completed", NEW s \in StepsOf(t)
      PROVE  RecoveredSteps(E)[s] = "completed"
  <2>1. tstat[t] = "completed"
    BY <1>4 DEF RecoveredTasks
  <2>2. s \in Step /\ sstat[s] = "completed"
    BY <2>1 DEF Settled, CompletedMeansDone, StepsOf
  <2> QED
    BY <1>1, <2>2 DEF RecoveredSteps
<1> QED
  BY <1>2, <1>3, <1>4

\* The rows as recovery leaves them, written together, keep Settled.
LEMMA RowsSettle ==
  ASSUME NEW ts, NEW ss, NEW own, NEW ls,
         Settled,
         \A s \in Step : /\ ss[s] = "running" <=> own[s] # None
                         /\ ss[s] = "running" <=> ls[s] # "none"
                         /\ ss[s] = "running" => sstat[s] = "running" /\ own[s] = owner[s]
                         /\ ss[s] = "failed" => s \in dead',
         \A t \in Task : ts[t] = "completed" => \A s \in StepsOf(t) : ss[s] = "completed",
         \A t \in Task : tstat'[t] = "completed" => ts[t] = "completed",
         sstat' = ss, owner' = own, lease' = ls
  PROVE  Settled'
BY DEF Settled, LeaseMatchesStatus, LeaseAuthority, CompletedMeansDone, FailedIsVisible, StepsOf

\* Starting a queued step of an open task keeps Settled if its new owner may hold it.
LEMMA StartSettles ==
  ASSUME Inv, Settled, NEW ts, NEW rs, NEW ss, NEW own, NEW ls,
         ts \in [Task -> TaskStatus \cup {"absent"}], ss \in [Step -> RunStatus],
         own \in [Step -> Executor \cup {WorkerId, None}],
         ls \in [Step -> {"none", "live", "expired"}],
         NEW x \in Step, NEW id \in Executor \cup {WorkerId},
         \A s \in Step : /\ ss[s] = "running" <=> own[s] # None
                         /\ ss[s] = "running" <=> ls[s] # "none"
                         /\ ss[s] = "running" => sstat[s] = "running" /\ own[s] = owner[s]
                         /\ ss[s] = "failed" => s \in dead',
         \A t \in Task : ts[t] = "completed" => \A s \in StepsOf(t) : ss[s] = "completed",
         ts[TaskOf[x]] \in {"queued", "running"},
         IF Kind[x] = "desktop"
         THEN /\ id \in Executor /\ Account[id] = Account[TaskOf[x]]
              /\ Cap[x] \in DeviceCaps[id]
         ELSE id = WorkerId,
         StartStep(x, id, ts, rs, ss, own, ls)
  PROVE  Settled'
<1>1. id # None /\ TaskOf[x] \in Task
  BY ConstantsAssumption
<1>2. \A s \in Step : IF s = x
                      THEN sstat'[s] = "running" /\ owner'[s] = id /\ lease'[s] = "live"
                      ELSE sstat'[s] = ss[s] /\ owner'[s] = own[s] /\ lease'[s] = ls[s]
  BY DEF StartStep
<1>3. \A t \in Task : tstat'[t] = IF t = TaskOf[x] THEN "running" ELSE ts[t]
  BY DEF StartStep
<1>4. LeaseMatchesStatus'
  BY <1>1, <1>2 DEF LeaseMatchesStatus
<1>5. LeaseAuthority'
  BY <1>2 DEF Settled, LeaseAuthority
<1>6. CompletedMeansDone'
  BY <1>2, <1>3 DEF CompletedMeansDone, StepsOf
<1>7. FailedIsVisible'
  BY <1>2 DEF FailedIsVisible
<1> QED
  BY <1>4, <1>5, <1>6, <1>7 DEF Settled

\* claim_one, with or without work to start.
LEMMA ClaimOneSettles ==
  ASSUME Inv, Settled, NEW w \in Worker, ClaimOne(w)
  PROVE  Settled'
<1> DEFINE E == Expired({"hosted", "sandbox"})
           ts == RecoveredTasks(E)
           rs == RecoveredRuns(E)
           ss == RecoveredSteps(E)
           own == Released(owner, E, None)
           ls == Released(lease, E, "none")
           offered == Offered(ts, ss)
<1>1. /\ \A s \in Step : /\ ss[s] = "running" <=> own[s] # None
                         /\ ss[s] = "running" <=> ls[s] # "none"
                         /\ ss[s] = "running" => sstat[s] = "running" /\ own[s] = owner[s]
                         /\ ss[s] = "failed" => s \in dead'
      /\ \A t \in Task : ts[t] = "completed" => \A s \in StepsOf(t) : ss[s] = "completed"
  <2>1. E \cap SideEffecting = {} /\ dead' = dead
    BY DEF Expired, SideEffecting, ClaimOne
  <2> HIDE DEF E
  <2> QED
    BY <2>1, RecoverySettles DEF E
<1>2. /\ ts \in [Task -> TaskStatus \cup {"absent"}] /\ ss \in [Step -> RunStatus]
      /\ own \in [Step -> Executor \cup {WorkerId, None}]
      /\ ls \in [Step -> {"none", "live", "expired"}]
  BY ExpiredTyping, RecoveredTyping DEF Inv
<1>3. ASSUME NEW s \in offered, ~(req[TaskOf[s]] /\ ts[TaskOf[s]] = "queued")
      PROVE  s \in Step /\ ts[TaskOf[s]] \in {"queued", "running"} /\ Kind[s] # "desktop"
  <2>1. s \in Step /\ ts[TaskOf[s]] \in {"queued", "running"}
    BY DEF Offered, Ready
  <2> QED
    BY <1>3, <2>1, WorkerStarts, ExpiredTyping
<1>4. \/ tstat' = ts /\ sstat' = ss /\ owner' = own /\ lease' = ls
      \/ \E s \in offered :
           /\ tstat' = [ts EXCEPT ![TaskOf[s]] = "waiting_approval"]
           /\ sstat' = ss /\ owner' = own /\ lease' = ls
      \/ \E s \in offered : /\ ~(req[TaskOf[s]] /\ ts[TaskOf[s]] = "queued")
                            /\ StartStep(s, WorkerId, ts, rs, ss, own, ls)
  BY Zenon DEF ClaimOne
<1> HIDE DEF ts, rs, ss, own, ls, offered
<1>5. CASE tstat' = ts /\ sstat' = ss /\ owner' = own /\ lease' = ls
  BY <1>1, <1>5, RowsSettle
<1>6. ASSUME NEW s \in offered, tstat' = [ts EXCEPT ![TaskOf[s]] = "waiting_approval"],
             sstat' = ss, owner' = own, lease' = ls
      PROVE  Settled'
  <2>1. \A t \in Task : tstat'[t] = "completed" => ts[t] = "completed"
    BY <1>2, <1>6
  <2> QED
    BY <1>1, <1>6, <2>1, RowsSettle
<1>7. ASSUME NEW s \in offered, ~(req[TaskOf[s]] /\ ts[TaskOf[s]] = "queued"),
             StartStep(s, WorkerId, ts, rs, ss, own, ls)
      PROVE  Settled'
  BY <1>1, <1>2, <1>3, <1>7, StartSettles
<1> QED
  BY <1>4, <1>5, <1>6, <1>7

\* claim_for_executor, with or without work to start.
LEMMA ClaimForExecutorSettles ==
  ASSUME Inv, Settled, NEW e \in Executor, NEW p \in Policies, ClaimForExecutor(e, p)
  PROVE  Settled'
<1> DEFINE E == Expired({"desktop"})
           rs == RecoveredRuns(E)
           ss == RecoveredSteps(E)
           own == Released(owner, E, None)
           ls == Released(lease, E, "none")
           auto == AutoApproved(e, p, RecoveredTasks(E), ss)
           ts == [t \in Task |-> IF t \in auto THEN "queued" ELSE RecoveredTasks(E)[t]]
           rq == [t \in Task |-> t \notin auto /\ req[t]]
           ap == [t \in Task |-> IF t \in auto THEN "approved" ELSE approval[t]]
           claimable == Claimable(e, ts, ss, rq, ap)
<1>1. \A s \in Step : /\ ss[s] = "running" <=> own[s] # None
                      /\ ss[s] = "running" <=> ls[s] # "none"
                      /\ ss[s] = "running" => sstat[s] = "running" /\ own[s] = owner[s]
                      /\ ss[s] = "failed" => s \in dead'
  <2>1. dead' = RecoveredDead(E)
    BY DEF ClaimForExecutor
  <2> HIDE DEF E
  <2> QED
    BY <2>1, RecoverySettles DEF E
<1>2. \A t \in Task : ts[t] = "completed" => \A s \in StepsOf(t) : ss[s] = "completed"
  BY RecoverySettles
<1>3. /\ ts \in [Task -> TaskStatus \cup {"absent"}] /\ ss \in [Step -> RunStatus]
      /\ own \in [Step -> Executor \cup {WorkerId, None}]
      /\ ls \in [Step -> {"none", "live", "expired"}]
  <2>1. RecoveredTasks(E) \in [Task -> TaskStatus \cup {"absent"}]
    BY ExpiredTyping, RecoveredTyping DEF Inv
  <2>2. ts \in [Task -> TaskStatus \cup {"absent"}]
    BY <2>1 DEF TaskStatus, RunStatus
  <2> QED
    BY <2>2, ExpiredTyping, RecoveredTyping DEF Inv
<1>4. ASSUME NEW s \in claimable
      PROVE  /\ s \in Step /\ ts[TaskOf[s]] \in {"queued", "running"} /\ Kind[s] = "desktop"
             /\ Account[e] = Account[TaskOf[s]] /\ Cap[s] \in DeviceCaps[e]
  BY DEF Claimable, Ready
<1>5. \/ tstat' = ts /\ sstat' = ss /\ owner' = own /\ lease' = ls
      \/ \E s \in claimable : StartStep(s, e, ts, rs, ss, own, ls)
  BY Zenon DEF ClaimForExecutor
<1> HIDE DEF ts, rs, ss, own, ls, claimable
<1>6. CASE tstat' = ts /\ sstat' = ss /\ owner' = own /\ lease' = ls
  BY <1>1, <1>2, <1>6, RowsSettle
<1>7. ASSUME NEW s \in claimable, StartStep(s, e, ts, rs, ss, own, ls) PROVE Settled'
  BY <1>1, <1>2, <1>3, <1>4, <1>7, StartSettles
<1> QED
  BY <1>5, <1>6, <1>7

\* complete_step and fail_step, called at any moment, by the owner or a late one.
LEMMA EndsSettle ==
  ASSUME Inv, Settled, NEW s \in Step,
         CompleteStep(s) \/ \E r \in BOOLEAN : FailStep(s, r)
  PROVE  Settled'
<1> USE DEF Inv, TypeOK
<1>1. TaskOf[s] \in Task
  BY ConstantsAssumption
<1>2. CASE CompleteStep(s)
  <2>1. LeaseMatchesStatus' /\ LeaseAuthority'
    BY <1>2 DEF Settled, LeaseMatchesStatus, LeaseAuthority, CompleteStep
  <2>2. CompletedMeansDone'
    BY <1>1, <1>2 DEF Settled, CompletedMeansDone, CompleteStep, StepsOf
  <2>3. FailedIsVisible'
    BY <1>2 DEF Settled, FailedIsVisible, CompleteStep
  <2> QED
    BY <2>1, <2>2, <2>3 DEF Settled
<1>3. ASSUME NEW r \in BOOLEAN, FailStep(s, r) PROVE Settled'
  <2>1. LeaseMatchesStatus' /\ LeaseAuthority'
    BY <1>3 DEF Settled, LeaseMatchesStatus, LeaseAuthority, FailStep
  <2>2. CompletedMeansDone'
    BY <1>1, <1>3 DEF Settled, CompletedMeansDone, FailStep, StepsOf
  <2>3. FailedIsVisible'
    BY <1>3 DEF Settled, FailedIsVisible, FailStep
  <2> QED
    BY <2>1, <2>2, <2>3 DEF Settled
<1> QED
  BY <1>2, <1>3

\* The writes of the client's calls, which never look at the rows again.
LEMMA ClientWriteSettles ==
  ASSUME Inv, Settled, NEW c \in calls, ClientWrite(c)
  PROVE  Settled'
<1> USE DEF Inv, TypeOK
<1>1. c.task \in Task
  BY DEF Call
<1>2. CASE RequestApprovalWrite(c)
  BY <1>1, <1>2, NothingSettles DEF RequestApprovalWrite, stepVars
<1>3. CASE DecideWrite(c)
  <2>1. LeaseMatchesStatus' /\ LeaseAuthority' /\ FailedIsVisible'
    BY <1>3 DEF Settled, LeaseMatchesStatus, LeaseAuthority, FailedIsVisible, DecideWrite,
                MoveSteps
  <2>2. CompletedMeansDone'
    BY <1>1, <1>3 DEF Settled, CompletedMeansDone, DecideWrite, MoveSteps, StepsOf
  <2> QED
    BY <2>1, <2>2 DEF Settled
<1>4. CASE CancelWrite(c)
  <2>1. LeaseMatchesStatus' /\ LeaseAuthority' /\ FailedIsVisible'
    BY <1>4 DEF Settled, LeaseMatchesStatus, LeaseAuthority, FailedIsVisible, CancelWrite,
                MoveSteps
  <2>2. CompletedMeansDone'
    BY <1>1, <1>4 DEF Settled, CompletedMeansDone, CancelWrite, MoveSteps, StepsOf
  <2> QED
    BY <2>1, <2>2 DEF Settled
<1>5. CASE RetryTaskWrite(c)
  <2>1. LeaseMatchesStatus' /\ LeaseAuthority'
    BY <1>5 DEF Settled, LeaseMatchesStatus, LeaseAuthority, RetryTaskWrite, MoveSteps, StepsOf
  <2>2. FailedIsVisible'
    BY <1>5 DEF Settled, FailedIsVisible, RetryTaskWrite, MoveSteps, StepsOf
  <2>3. CompletedMeansDone'
    BY <1>1, <1>5 DEF Settled, CompletedMeansDone, RetryTaskWrite, MoveSteps, StepsOf
  <2> QED
    BY <2>1, <2>2, <2>3 DEF Settled
<1> QED
  BY <1>2, <1>3, <1>4, <1>5 DEF ClientWrite

\* What the devices do besides claiming.
LEMMA DeviceSettles ==
  ASSUME Inv, Settled, NEW e \in Executor, ExecutorStep(e),
         \A p \in Policies : ~ClaimForExecutor(e, p)
  PROVE  Settled'
<1> USE DEF Inv, TypeOK, taskVars, stepVars, procVars
<1>1. CASE PairExecutor(e) \/ RevokeExecutor(e) \/ ExecutorCrash(e) \/ ExecutorRefused(e)
  BY <1>1, NothingSettles DEF PairExecutor, RevokeExecutor, ExecutorCrash, ExecutorRefused
<1>2. CASE HeartbeatExecutorStep(e)
  <2>1. hold[e] \in Step /\ lease[hold[e]] # "none"
    BY <1>2 DEF HeartbeatExecutorStep, Owns, Settled, LeaseMatchesStatus
  <2> QED
    BY <1>2, <2>1, NothingSettles DEF HeartbeatExecutorStep
<1>3. CASE CompleteExecutorStep(e)
  BY <1>3, NothingSettles DEF CompleteExecutorStep, Reporting
<1>4. CASE FailExecutorStep(e)
  <2>1. CASE UNCHANGED <<tstat, rstat, sstat, owner, lease>>
    BY <1>4, <2>1, NothingSettles DEF FailExecutorStep
  <2>2. ASSUME NEW s \in Step, NEW t \in Task,
               sstat' = [sstat EXCEPT ![s] = "cancelled"],
               owner' = [owner EXCEPT ![s] = None], lease' = [lease EXCEPT ![s] = "none"],
               tstat' = [tstat EXCEPT ![t] = "cancelled"], t = TaskOf[s], dead' = dead
        PROVE  Settled'
    <3>1. LeaseMatchesStatus' /\ LeaseAuthority' /\ FailedIsVisible'
      BY <2>2 DEF Settled, LeaseMatchesStatus, LeaseAuthority, FailedIsVisible
    <3>2. CompletedMeansDone'
      BY <2>2 DEF Settled, CompletedMeansDone, StepsOf
    <3> QED
      BY <3>1, <3>2 DEF Settled
  <2>3. hold[e] \in Step /\ TaskOf[hold[e]] \in Task
    BY <1>4, ConstantsAssumption DEF FailExecutorStep
  <2> QED
    BY <1>4, <2>1, <2>2, <2>3 DEF FailExecutorStep
<1> QED
  BY <1>1, <1>2, <1>3, <1>4 DEF ExecutorStep

\* Every action keeps the rows of steps, tasks and dead letters in agreement.
LEMMA SettledStep == Inv /\ Settled /\ [Next]_vars => Settled'
<1> SUFFICES ASSUME Inv, Settled, [Next]_vars PROVE Settled'
  OBVIOUS
<1> USE DEF taskVars, stepVars, procVars
<1>1. CASE UNCHANGED vars
  BY <1>1, NothingSettles DEF vars
<1>2. ASSUME NEW t \in Task, NEW r \in BOOLEAN, Create(t, r) PROVE Settled'
  BY <1>2, NothingSettles DEF Create, Inv, TypeOK
<1>3. ASSUME NEW t \in Task, ClientRead(t) PROVE Settled'
  BY <1>3, NothingSettles
     DEF ClientRead, RequestApprovalRead, DecideRead, DecideForExecutorRead, CancelRead,
         RetryTaskRead, Read
<1>4. ASSUME NEW c \in calls, ClientWrite(c) \/ CallLost(c) PROVE Settled'
  BY <1>4, ClientWriteSettles, NothingSettles DEF CallLost
<1>5. ASSUME NEW w \in Worker, ClaimOne(w) PROVE Settled'
  BY <1>5, ClaimOneSettles
<1>6. ASSUME NEW w \in Worker, BeginSandbox(w) \/ WorkerCrash(w) PROVE Settled'
  BY <1>6, NothingSettles DEF BeginSandbox, WorkerCrash
<1>7. ASSUME NEW w \in Worker, WorkerEnds(w) PROVE Settled'
  <2>1. job[w] \in Step
    BY <1>7 DEF Inv, TypeOK, WorkerEnds, WorkerComplete, WorkerFail
  <2> QED
    BY <1>7, <2>1, EndsSettle DEF WorkerEnds, WorkerComplete, WorkerFail
<1>8. ASSUME NEW e \in Executor, ExecutorStep(e) PROVE Settled'
  BY <1>8, ClaimForExecutorSettles, DeviceSettles
<1>9. ASSUME NEW r \in reports, FinishReport(r) \/ ReportLost(r) PROVE Settled'
  <2>1. r.step \in Step
    BY DEF Inv, TypeOK, Report
  <2>2. CASE FinishReport(r)
    <3>1. CompleteStep(r.step) \/ \E q \in BOOLEAN : FailStep(r.step, q)
      BY <2>2 DEF FinishReport
    <3> QED
      BY <2>1, <3>1, EndsSettle
  <2>3. CASE ReportLost(r)
    BY <2>3, NothingSettles DEF ReportLost
  <2> QED
    BY <1>9, <2>2, <2>3
<1>10. ASSUME NEW s \in Step, LeaseExpires(s) \/ BackoffEnds(s) PROVE Settled'
  BY <1>10, NothingSettles DEF LeaseExpires, BackoffEnds, Inv, TypeOK
<1> QED
  BY <1>1, <1>2, <1>3, <1>4, <1>5, <1>6, <1>7, <1>8, <1>9, <1>10 DEF Next

\* Together with Inv, Settled holds in every state of the store.
LEMMA SettledInvariance == Spec => []Settled
<1>1. Init => Settled
  BY DEF Init, Settled, LeaseMatchesStatus, LeaseAuthority, CompletedMeansDone, FailedIsVisible,
         StepsOf
<1> QED
  BY <1>1, SettledStep, Invariance, PTL DEF Spec

\* claim_one, claim_for_executor, the reports, recovery and cancellation write the
\* status of a step and its lease together, in every interleaving.
THEOREM LeasesFollowStatus == Spec => []LeaseMatchesStatus
<1>1. Settled => LeaseMatchesStatus
  BY DEF Settled
<1> QED
  BY SettledInvariance, <1>1, PTL

\* claim_one never starts desktop work, and claim_for_executor hands a step only to
\* a device of its account that declared its capability.
THEOREM LeasesAreAuthorised == Spec => []LeaseAuthority
<1>1. Settled => LeaseAuthority
  BY DEF Settled
<1> QED
  BY SettledInvariance, <1>1, PTL

\* complete_step closes a task only when all its steps are completed, and no late
\* report, retry or recovery reopens a step behind its back.
THEOREM CompletedTasksAreDone == Spec => []CompletedMeansDone
<1>1. Settled => CompletedMeansDone
  BY DEF Settled
<1> QED
  BY SettledInvariance, <1>1, PTL

\* fail_step and the recovery of claim_for_executor leave a dead letter with every
\* failed step, and only retry_task resolves it.
THEOREM FailuresAreVisible == Spec => []FailedIsVisible
<1>1. Settled => FailedIsVisible
  BY DEF Settled
<1> QED
  BY SettledInvariance, <1>1, PTL

-----------------------------------------------------------------------------
(* The approval of local work *)

\* What a task's gate rests on, beside the inductive invariant.
Gated == AbsentIsQuiet /\ LocalWaits /\ PlainRetries

\* A task that nothing refers to before its creation stays so while calls, reports,
\* jobs and devices take up only tasks that exist.
LEMMA QuietStays ==
  ASSUME TypeOK, AbsentIsQuiet,
         \A t \in Task : tstat'[t] = "absent" => tstat[t] = "absent",
         \A c \in calls' : c \in calls \/ tstat[c.task] # "absent",
         \A r \in reports' : r \in reports \/ tstat[TaskOf[r.step]] # "absent",
         \A w \in Worker : job'[w] \in {None, job[w]} \/ tstat[TaskOf[job'[w]]] # "absent",
         \A e \in Executor : hold'[e] \in {None, hold[e]} \/ tstat[TaskOf[hold'[e]]] # "absent",
         \A s \in Step : tstat[TaskOf[s]] = "absent" => sstat'[s] = sstat[s]
  PROVE  AbsentIsQuiet'
BY DEF AbsentIsQuiet, StepsOf

\* Local work keeps its gate where neither the gate nor an approval is written.
LEMMA GateStays ==
  ASSUME LocalWaits, PlainRetries, req' = req, approval' = approval,
         \A t \in Task : tstat[t] = "absent" => tstat'[t] = "absent",
         \A c \in calls' : c \in calls \/ (c.op = "retry" => ~Local(c.task))
  PROVE  LocalWaits' /\ PlainRetries'
BY DEF LocalWaits, PlainRetries, Local, StepsOf

\* An action that leaves the calls, jobs and reports alone, or ends some of them,
\* and the gate, creates nothing and moves existing work only, keeps local work gated.
LEMMA NothingGates ==
  ASSUME TypeOK, Gated, req' = req, approval' = approval,
         \A t \in Task : tstat'[t] = "absent" <=> tstat[t] = "absent",
         calls' \subseteq calls, reports' \subseteq reports,
         \A w \in Worker : job'[w] \in {None, job[w]},
         \A e \in Executor : hold'[e] \in {None, hold[e]},
         \A s \in Step : tstat[TaskOf[s]] = "absent" => sstat'[s] = sstat[s]
  PROVE  Gated'
<1>1. AbsentIsQuiet'
  BY QuietStays DEF Gated
<1>2. LocalWaits' /\ PlainRetries'
  BY GateStays DEF Gated
<1> QED
  BY <1>1, <1>2 DEF Gated

\* The first half of a client's call is about a task that exists, and retry_task
\* forgets no gate.
LEMMA ReadsGate ==
  ASSUME TypeOK, Gated, NEW t \in Task, ClientRead(t)
  PROVE  Gated'
<1>1. tstat[t] # "absent"
  BY DEF ClientRead, RequestApprovalRead, DecideRead, DecideForExecutorRead, CancelRead,
         RetryTaskRead, Decidable
<1>2. PICK op \in ClientOps : Read(t, op) /\ (op = "retry" => ~Local(t))
  BY DEF ClientRead, RequestApprovalRead, DecideRead, DecideForExecutorRead, CancelRead,
         RetryTaskRead, Verdict, Read
<1>3. /\ calls' = calls \cup {[op |-> op, task |-> t]}
      /\ UNCHANGED <<tstat, req, approval, sstat, job, hold, reports>>
  BY <1>2 DEF Read, taskVars, stepVars
<1>4. AbsentIsQuiet'
  BY <1>1, <1>3, QuietStays DEF Gated
<1>5. LocalWaits' /\ PlainRetries'
  BY <1>2, <1>3, GateStays DEF Gated
<1> QED
  BY <1>4, <1>5 DEF Gated

\* The second half: a denial closes the gate, an approval is on record when it opens,
\* and retry_task closes it unless the task has no local work.
LEMMA WritesGate ==
  ASSUME TypeOK, Gated, NEW c \in calls, ClientWrite(c)
  PROVE  Gated'
<1> USE DEF Return, stepVars, procVars
<1>1. c.task \in Task /\ tstat[c.task] # "absent"
  BY DEF TypeOK, Call, Gated, AbsentIsQuiet
<1>2. CASE RequestApprovalWrite(c)
  BY <1>1, <1>2, NothingGates DEF RequestApprovalWrite, TypeOK
<1>3. CASE CancelWrite(c)
  BY <1>1, <1>3, NothingGates DEF CancelWrite, MoveSteps, TypeOK
<1>4. CASE DecideWrite(c)
  <2>1. AbsentIsQuiet'
    BY <1>1, <1>4, QuietStays DEF DecideWrite, MoveSteps, TypeOK, Gated
  <2>2. LocalWaits'
    BY <1>1, <1>4 DEF DecideWrite, TypeOK, Gated, LocalWaits, Local, StepsOf
  <2>3. PlainRetries'
    BY <1>4 DEF DecideWrite, Gated, PlainRetries, Local, StepsOf
  <2> QED
    BY <2>1, <2>2, <2>3 DEF Gated
<1>5. CASE RetryTaskWrite(c)
  <2>1. AbsentIsQuiet'
    BY <1>1, <1>5, QuietStays DEF RetryTaskWrite, MoveSteps, TypeOK, Gated
  <2>2. LocalWaits'
    <3>1. Local(c.task) => c.op = "retry_gated"
      BY <1>5 DEF RetryTaskWrite, Gated, PlainRetries
    <3> QED
      BY <1>1, <1>5, <3>1 DEF RetryTaskWrite, TypeOK, Gated, LocalWaits, Local, StepsOf
  <2>3. PlainRetries'
    BY <1>5 DEF RetryTaskWrite, Gated, PlainRetries, Local, StepsOf
  <2> QED
    BY <2>1, <2>2, <2>3 DEF Gated
<1> QED
  BY <1>2, <1>3, <1>4, <1>5 DEF ClientWrite

\* Recovery touches running work only, so no task that does not exist.
LEMMA RecoveryGates ==
  ASSUME TypeOK, AbsentIsQuiet, NEW kinds
  PROVE  /\ \A t \in Task : RecoveredTasks(Expired(kinds))[t] = "absent" <=> tstat[t] = "absent"
         /\ \A s \in Step : tstat[TaskOf[s]] = "absent"
                           => RecoveredSteps(Expired(kinds))[s] = sstat[s]
<1>1. \A s \in Expired(kinds) : s \in Step /\ tstat[TaskOf[s]] # "absent"
  BY ConstantsAssumption DEF Expired, AbsentIsQuiet, StepsOf
<1>2. ASSUME NEW t \in Task
      PROVE  RecoveredTasks(Expired(kinds))[t] = "absent" <=> tstat[t] = "absent"
  <2>1. CASE tstat[t] = "absent"
    <3>1. {RecoveredAs(s) : s \in Expired(kinds) \cap StepsOf(t)} = {}
      BY <1>1, <2>1 DEF StepsOf
    <3> QED
      BY <2>1, <3>1 DEF RecoveredTasks
  <2>2. CASE tstat[t] # "absent"
    BY <2>2 DEF RecoveredTasks
  <2> QED
    BY <2>1, <2>2
<1> QED
  BY <1>1, <1>2 DEF RecoveredSteps

\* claim_one.
LEMMA ClaimOneGates ==
  ASSUME TypeOK, Gated, NEW w \in Worker, ClaimOne(w)
  PROVE  Gated'
<1> DEFINE E == Expired({"hosted", "sandbox"})
           ts == RecoveredTasks(E)
           ss == RecoveredSteps(E)
           offered == Offered(ts, ss)
<1>1. /\ \A t \in Task : ts[t] = "absent" <=> tstat[t] = "absent"
      /\ \A s \in Step : tstat[TaskOf[s]] = "absent" => ss[s] = sstat[s]
  BY RecoveryGates DEF Gated
<1>2. \A s \in offered : s \in Step /\ TaskOf[s] \in Task /\ tstat[TaskOf[s]] # "absent"
  BY <1>1, ConstantsAssumption DEF Offered, Ready
<1>3. UNCHANGED <<req, approval, hold, calls, reports>>
  BY DEF ClaimOne
<1>4. DOMAIN ts = Task /\ DOMAIN ss = Step
  BY DEF RecoveredTasks, RecoveredSteps
<1>5. job \in [Worker -> Step \cup {None}]
  BY DEF TypeOK
<1>6. \/ tstat' = ts /\ sstat' = ss /\ job' = job
      \/ \E s \in offered : tstat' = [ts EXCEPT ![TaskOf[s]] = "waiting_approval"]
                            /\ sstat' = ss /\ job' = job
      \/ \E s \in offered : /\ tstat' = [ts EXCEPT ![TaskOf[s]] = "running"]
                            /\ sstat' = [ss EXCEPT ![s] = "running"]
                            /\ job' = [job EXCEPT ![w] = s]
  BY Zenon DEF ClaimOne, StartStep
<1> HIDE DEF E, ts, ss, offered
<1>7. /\ \A t \in Task : tstat'[t] = "absent" <=> tstat[t] = "absent"
      /\ \A s \in Step : tstat[TaskOf[s]] = "absent" => sstat'[s] = sstat[s]
      /\ \A v \in Worker : job'[v] = job[v] \/ tstat[TaskOf[job'[v]]] # "absent"
  BY <1>1, <1>2, <1>4, <1>5, <1>6
<1>8. AbsentIsQuiet'
  BY <1>3, <1>7, QuietStays DEF Gated
<1>9. LocalWaits' /\ PlainRetries'
  BY <1>3, <1>7, GateStays DEF Gated
<1> QED
  BY <1>8, <1>9 DEF Gated

\* claim_for_executor: what it opens, it approves.
LEMMA ClaimForExecutorGates ==
  ASSUME TypeOK, Gated, NEW e \in Executor, NEW p \in Policies, ClaimForExecutor(e, p)
  PROVE  Gated'
<1> DEFINE E == Expired({"desktop"})
           ss == RecoveredSteps(E)
           auto == AutoApproved(e, p, RecoveredTasks(E), ss)
           ts == [t \in Task |-> IF t \in auto THEN "queued" ELSE RecoveredTasks(E)[t]]
           rq == [t \in Task |-> t \notin auto /\ req[t]]
           ap == [t \in Task |-> IF t \in auto THEN "approved" ELSE approval[t]]
           claimable == Claimable(e, ts, ss, rq, ap)
<1>1. /\ \A t \in Task : RecoveredTasks(E)[t] = "absent" <=> tstat[t] = "absent"
      /\ \A s \in Step : tstat[TaskOf[s]] = "absent" => ss[s] = sstat[s]
  BY RecoveryGates DEF Gated
<1>2. \A t \in auto : RecoveredTasks(E)[t] # "absent"
  BY DEF AutoApproved
<1>3. \A t \in Task : ts[t] = "absent" <=> tstat[t] = "absent"
  BY <1>1, <1>2
<1>4. \A s \in claimable : s \in Step /\ TaskOf[s] \in Task /\ tstat[TaskOf[s]] # "absent"
  BY <1>3, ConstantsAssumption DEF Claimable, Ready
<1>5. req' = rq /\ approval' = ap /\ UNCHANGED <<job, calls, reports>>
  BY DEF ClaimForExecutor
<1>6. DOMAIN ts = Task /\ DOMAIN ss = Step
  BY DEF RecoveredSteps
<1>7. hold \in [Executor -> Step \cup {None}]
  BY DEF TypeOK
<1>8. \/ tstat' = ts /\ sstat' = ss /\ hold' = hold
      \/ \E s \in claimable : /\ tstat' = [ts EXCEPT ![TaskOf[s]] = "running"]
                              /\ sstat' = [ss EXCEPT ![s] = "running"]
                              /\ hold' = [hold EXCEPT ![e] = s]
  BY Zenon DEF ClaimForExecutor, StartStep
<1>9. \A t \in Task : ap[t] = IF t \in auto THEN "approved" ELSE approval[t]
  OBVIOUS
<1>10. \A t \in Task : t \notin auto /\ req[t] => rq[t]
  BY Zenon
<1> HIDE DEF E, ts, ss, auto, rq, ap, claimable
<1>11. /\ \A t \in Task : tstat'[t] = "absent" <=> tstat[t] = "absent"
       /\ \A s \in Step : tstat[TaskOf[s]] = "absent" => sstat'[s] = sstat[s]
       /\ \A d \in Executor : hold'[d] = hold[d] \/ tstat[TaskOf[hold'[d]]] # "absent"
  BY <1>1, <1>3, <1>4, <1>6, <1>7, <1>8
<1>12. AbsentIsQuiet'
  BY <1>5, <1>11, QuietStays DEF Gated
<1>13. LocalWaits'
  BY <1>5, <1>9, <1>10, <1>11 DEF Gated, LocalWaits, Local, StepsOf
<1>14. PlainRetries'
  BY <1>5 DEF Gated, PlainRetries, Local, StepsOf
<1> QED
  BY <1>12, <1>13, <1>14 DEF Gated

\* Reports, of workers and of devices, are about tasks that exist.
LEMMA EndsGate ==
  ASSUME TypeOK, NEW s \in Step, tstat[TaskOf[s]] # "absent",
         CompleteStep(s) \/ \E r \in BOOLEAN : FailStep(s, r)
  PROVE  /\ \A t \in Task : tstat'[t] = "absent" <=> tstat[t] = "absent"
         /\ \A x \in Step : tstat[TaskOf[x]] = "absent" => sstat'[x] = sstat[x]
         /\ req' = req /\ approval' = approval
<1>1. TaskOf[s] \in Task
  BY ConstantsAssumption
<1>2. CASE CompleteStep(s)
  BY <1>1, <1>2 DEF CompleteStep, TypeOK
<1>3. ASSUME NEW r \in BOOLEAN, FailStep(s, r)
      PROVE  /\ \A t \in Task : tstat'[t] = "absent" <=> tstat[t] = "absent"
             /\ \A x \in Step : tstat[TaskOf[x]] = "absent" => sstat'[x] = sstat[x]
             /\ req' = req /\ approval' = approval
  BY <1>1, <1>3 DEF FailStep, TypeOK
<1> QED
  BY <1>2, <1>3

\* The devices' other calls.
LEMMA DeviceGates ==
  ASSUME TypeOK, Gated, NEW e \in Executor, ExecutorStep(e),
         ~\E p \in Policies : ClaimForExecutor(e, p)
  PROVE  Gated'
<1> USE DEF taskVars, stepVars, procVars
<1>1. CASE CompleteExecutorStep(e)
  <2>1. tstat[TaskOf[hold[e]]] # "absent"
    BY <1>1, ConstantsAssumption DEF CompleteExecutorStep, Gated, AbsentIsQuiet, TypeOK
  <2>2. /\ UNCHANGED <<tstat, req, approval, sstat, job, calls>>
        /\ reports' = reports \cup {[op |-> "complete", step |-> hold[e], exec |-> e]}
        /\ hold' = [hold EXCEPT ![e] = None]
    BY <1>1 DEF CompleteExecutorStep, Reporting
  <2>3. AbsentIsQuiet'
    BY <2>1, <2>2, QuietStays DEF Gated, TypeOK
  <2> QED
    BY <2>2, <2>3, GateStays DEF Gated
<1>2. CASE FailExecutorStep(e)
  <2>1. hold[e] \in Step /\ TaskOf[hold[e]] \in Task /\ tstat[TaskOf[hold[e]]] # "absent"
    BY <1>2, ConstantsAssumption DEF FailExecutorStep, Gated, AbsentIsQuiet, TypeOK
  <2>2. UNCHANGED <<req, approval, job, calls>> /\ hold' = [hold EXCEPT ![e] = None]
    BY <1>2 DEF FailExecutorStep, Reporting
  <2>3. \/ /\ reports' = reports
           /\ sstat' = [sstat EXCEPT ![hold[e]] = "cancelled"]
           /\ tstat' = [tstat EXCEPT ![TaskOf[hold[e]]] = "cancelled"]
        \/ /\ \E op \in ReportOp :
                reports' = reports \cup {[op |-> op, step |-> hold[e], exec |-> e]}
           /\ UNCHANGED <<tstat, sstat>>
    BY <1>2 DEF FailExecutorStep, Reporting, ReportOp
  <2>4. /\ \A t \in Task : tstat'[t] = "absent" <=> tstat[t] = "absent"
        /\ \A s \in Step : tstat[TaskOf[s]] = "absent" => sstat'[s] = sstat[s]
        /\ \A r \in reports' : r \in reports \/ tstat[TaskOf[r.step]] # "absent"
    BY <2>1, <2>3 DEF TypeOK
  <2>5. AbsentIsQuiet'
    BY <2>2, <2>4, QuietStays DEF Gated, TypeOK
  <2> QED
    BY <2>2, <2>4, <2>5, GateStays DEF Gated
<1>3. CASE HeartbeatExecutorStep(e)
  BY <1>3, NothingGates DEF HeartbeatExecutorStep
<1>4. CASE PairExecutor(e) \/ RevokeExecutor(e)
  BY <1>4, NothingGates DEF PairExecutor, RevokeExecutor
<1>5. CASE ExecutorCrash(e) \/ ExecutorRefused(e)
  BY <1>5, NothingGates DEF ExecutorCrash, ExecutorRefused, TypeOK
<1> QED
  BY <1>1, <1>2, <1>3, <1>4, <1>5 DEF ExecutorStep

\* Every step keeps local work behind its gate.
LEMMA GatedStep == Inv /\ Gated /\ [Next]_vars => Gated'
<1> SUFFICES ASSUME Inv, Gated, [Next]_vars PROVE Gated'
  OBVIOUS
<1> USE DEF taskVars, stepVars, procVars
<1>0. TypeOK
  BY DEF Inv
<1>1. CASE UNCHANGED vars
  BY <1>0, <1>1, NothingGates DEF vars
<1>2. ASSUME NEW t \in Task, NEW r \in BOOLEAN, Create(t, r) PROVE Gated'
  <2>1. AbsentIsQuiet'
    BY <1>0, <1>2, QuietStays DEF Create, Gated, TypeOK
  <2>2. LocalWaits'
    BY <1>0, <1>2 DEF Create, Gated, LocalWaits, Local, StepsOf, TypeOK
  <2>3. PlainRetries'
    BY <1>2 DEF Create, Gated, PlainRetries, Local, StepsOf
  <2> QED
    BY <2>1, <2>2, <2>3 DEF Gated
<1>3. ASSUME NEW t \in Task, ClientRead(t) PROVE Gated'
  BY <1>0, <1>3, ReadsGate
<1>4. ASSUME NEW c \in calls, ClientWrite(c) \/ CallLost(c) PROVE Gated'
  <2>1. CASE CallLost(c)
    BY <1>0, <2>1, NothingGates DEF CallLost, Return
  <2> QED
    BY <1>0, <1>4, <2>1, WritesGate
<1>5. ASSUME NEW w \in Worker, ClaimOne(w) PROVE Gated'
  BY <1>0, <1>5, ClaimOneGates
<1>6. ASSUME NEW w \in Worker, BeginSandbox(w) \/ WorkerCrash(w) PROVE Gated'
  BY <1>0, <1>6, NothingGates DEF BeginSandbox, WorkerCrash, TypeOK
<1>7. ASSUME NEW w \in Worker, WorkerEnds(w) PROVE Gated'
  <2>1. /\ job[w] \in Step
        /\ CompleteStep(job[w]) \/ \E r \in BOOLEAN : FailStep(job[w], r)
        /\ JobOver(w)
    BY <1>0, <1>7 DEF TypeOK, WorkerEnds, WorkerComplete, WorkerFail
  <2>2. tstat[TaskOf[job[w]]] # "absent"
    BY <2>1, <1>7, ConstantsAssumption
       DEF Gated, AbsentIsQuiet, WorkerEnds, WorkerComplete, WorkerFail
  <2>3. /\ \A t \in Task : tstat'[t] = "absent" <=> tstat[t] = "absent"
        /\ \A s \in Step : tstat[TaskOf[s]] = "absent" => sstat'[s] = sstat[s]
        /\ req' = req /\ approval' = approval
    BY <1>0, <2>1, <2>2, EndsGate
  <2> QED
    BY <1>0, <2>1, <2>3, NothingGates DEF JobOver, TypeOK
<1>8. ASSUME NEW e \in Executor, ExecutorStep(e) PROVE Gated'
  BY <1>0, <1>8, DeviceGates, ClaimForExecutorGates
<1>9. ASSUME NEW r \in reports, FinishReport(r) \/ ReportLost(r) PROVE Gated'
  <2>1. r.step \in Step /\ tstat[TaskOf[r.step]] # "absent"
    BY <1>0, ConstantsAssumption DEF TypeOK, Report, Gated, AbsentIsQuiet
  <2>2. CASE FinishReport(r)
    <3>1. CompleteStep(r.step) \/ \E q \in BOOLEAN : FailStep(r.step, q)
      BY <2>2 DEF FinishReport
    <3>2. /\ \A t \in Task : tstat'[t] = "absent" <=> tstat[t] = "absent"
          /\ \A s \in Step : tstat[TaskOf[s]] = "absent" => sstat'[s] = sstat[s]
          /\ req' = req /\ approval' = approval
      BY <1>0, <2>1, <3>1, EndsGate
    <3> QED
      BY <1>0, <2>2, <3>2, NothingGates DEF FinishReport
  <2>3. CASE ReportLost(r)
    BY <1>0, <2>3, NothingGates DEF ReportLost
  <2> QED
    BY <1>9, <2>2, <2>3
<1>10. ASSUME NEW s \in Step, LeaseExpires(s) \/ BackoffEnds(s) PROVE Gated'
  BY <1>0, <1>10, NothingGates DEF LeaseExpires, BackoffEnds
<1> QED
  BY <1>1, <1>2, <1>3, <1>4, <1>5, <1>6, <1>7, <1>8, <1>9, <1>10 DEF Next

\* Only claim_one and claim_for_executor start a step.
LEMMA ClaimsStart ==
  ASSUME Inv, Next, NEW s \in Step, sstat[s] # "running", sstat'[s] = "running"
  PROVE  \/ \E w \in Worker : ClaimOne(w)
         \/ \E e \in Executor, p \in Policies : ClaimForExecutor(e, p)
<1> USE DEF taskVars, stepVars, procVars
<1>0. sstat \in [Step -> RunStatus] /\ job \in [Worker -> Step \cup {None}]
      /\ hold \in [Executor -> Step \cup {None}] /\ reports \in SUBSET Report
  BY DEF Inv, TypeOK
<1>1. ASSUME NEW x \in Step, CompleteStep(x) PROVE FALSE
  BY <1>0, <1>1 DEF CompleteStep
<1>2. ASSUME NEW x \in Step, NEW r \in BOOLEAN, FailStep(x, r) PROVE FALSE
  BY <1>0, <1>2 DEF FailStep
<1>3. ASSUME NEW w \in Worker, BeginSandbox(w) \/ WorkerEnds(w) \/ WorkerCrash(w) PROVE FALSE
  BY <1>0, <1>1, <1>2, <1>3 DEF BeginSandbox, WorkerEnds, WorkerComplete, WorkerFail, WorkerCrash
<1>4. ASSUME NEW r \in reports, FinishReport(r) \/ ReportLost(r) PROVE FALSE
  BY <1>0, <1>1, <1>2, <1>4 DEF FinishReport, ReportLost, Report
<1>5. ASSUME NEW t \in Task, ClientRead(t) PROVE FALSE
  BY <1>5 DEF ClientRead, RequestApprovalRead, DecideRead, DecideForExecutorRead, CancelRead,
              RetryTaskRead, Read
<1>6. ASSUME NEW c \in calls, ClientWrite(c) \/ CallLost(c) PROVE FALSE
  <2>1. CASE DecideWrite(c)
    BY <2>1 DEF DecideWrite, MoveSteps
  <2>2. CASE CancelWrite(c)
    BY <2>2 DEF CancelWrite, MoveSteps
  <2>3. CASE RetryTaskWrite(c)
    BY <2>3 DEF RetryTaskWrite, MoveSteps
  <2> QED
    BY <1>6, <2>1, <2>2, <2>3 DEF ClientWrite, RequestApprovalWrite, CallLost
<1>7. ASSUME NEW e \in Executor, ExecutorStep(e), ~\E p \in Policies : ClaimForExecutor(e, p)
      PROVE  FALSE
  BY <1>0, <1>7 DEF ExecutorStep, PairExecutor, RevokeExecutor, HeartbeatExecutorStep,
                    CompleteExecutorStep, FailExecutorStep, ExecutorCrash, ExecutorRefused
<1> QED
  BY <1>3, <1>4, <1>5, <1>6, <1>7 DEF Next, Create, LeaseExpires, BackoffEnds

\* A sandbox command and a desktop action leave the queue with their approval on record:
\* claim_one looks at the gate only, which only an approval opens.
THEOREM LocalWorkIsApproved == Spec => LocalStartsApproved
<1> DEFINE ApprovedStart(s) ==
             Kind[s] # "hosted" /\ sstat[s] # "running" /\ sstat'[s] = "running"
               => approval'[TaskOf[s]] = "approved" /\ ~req'[TaskOf[s]]
<1>1. Inv /\ Gated /\ [Next]_vars => [\A s \in Step : ApprovedStart(s)]_vars
  <2> SUFFICES ASSUME Inv, Gated, Next, NEW s \in Step, Kind[s] # "hosted",
                      sstat[s] # "running", sstat'[s] = "running"
               PROVE  approval'[TaskOf[s]] = "approved" /\ ~req'[TaskOf[s]]
    OBVIOUS
  <2>1. TaskOf[s] \in Task /\ Kind[s] \in Kinds /\ TypeOK
    BY ConstantsAssumption DEF Inv
  <2>2. ASSUME NEW w \in Worker, ClaimOne(w)
        PROVE  approval'[TaskOf[s]] = "approved" /\ ~req'[TaskOf[s]]
    <3> DEFINE E == Expired({"hosted", "sandbox"})
               offered == Offered(RecoveredTasks(E), RecoveredSteps(E))
    <3>1. E \in SUBSET Step /\ DOMAIN RecoveredSteps(E) = Step
      BY ExpiredTyping DEF RecoveredSteps
    <3>2. RecoveredSteps(E)[s] # "running"
      BY <3>1 DEF RecoveredSteps, RecoveredAs
    <3>3. \/ sstat' = RecoveredSteps(E)
          \/ \E x \in offered : /\ ~(req[TaskOf[x]] /\ RecoveredTasks(E)[TaskOf[x]] = "queued")
                                /\ sstat' = [RecoveredSteps(E) EXCEPT ![x] = "running"]
      BY <2>2, Zenon DEF ClaimOne, StartStep
    <3>4. s \in offered /\ ~(req[TaskOf[s]] /\ RecoveredTasks(E)[TaskOf[s]] = "queued")
      BY <3>1, <3>2, <3>3
    <3>5. Kind[s] # "desktop" /\ ~req[TaskOf[s]]
      BY <3>1, <3>4, WorkerStarts
    <3>6. tstat[TaskOf[s]] # "absent"
      BY <2>1, <3>4, RecoveryGates DEF Offered, Ready, Gated
    <3>7. Local(TaskOf[s])
      BY <2>1, <3>5 DEF Local, StepsOf, Kinds
    <3>8. req' = req /\ approval' = approval
      BY <2>2 DEF ClaimOne
    <3> QED
      BY <2>1, <3>5, <3>6, <3>7, <3>8 DEF Gated, LocalWaits
  <2>3. ASSUME NEW e \in Executor, NEW p \in Policies, ClaimForExecutor(e, p)
        PROVE  approval'[TaskOf[s]] = "approved" /\ ~req'[TaskOf[s]]
    <3> DEFINE E == Expired({"desktop"})
               ss == RecoveredSteps(E)
               auto == AutoApproved(e, p, RecoveredTasks(E), ss)
               ts == [t \in Task |-> IF t \in auto THEN "queued" ELSE RecoveredTasks(E)[t]]
               rq == [t \in Task |-> t \notin auto /\ req[t]]
               ap == [t \in Task |-> IF t \in auto THEN "approved" ELSE approval[t]]
               claimable == Claimable(e, ts, ss, rq, ap)
    <3>1. E \in SUBSET Step /\ DOMAIN ss = Step
      BY ExpiredTyping DEF RecoveredSteps
    <3>2. ss[s] # "running"
      BY <3>1 DEF RecoveredSteps, RecoveredAs
    <3>3. req' = rq /\ approval' = ap
      BY <2>3 DEF ClaimForExecutor
    <3>4. sstat' = ss \/ \E x \in claimable : sstat' = [ss EXCEPT ![x] = "running"]
      BY <2>3, Zenon DEF ClaimForExecutor, StartStep
    <3>5. \A x \in claimable : ap[TaskOf[x]] = "approved" /\ ~rq[TaskOf[x]]
      BY DEF Claimable
    <3> HIDE DEF ss, rq, ap, claimable
    <3> QED
      BY <3>1, <3>2, <3>3, <3>4, <3>5
  <2> QED
    BY <2>2, <2>3, ClaimsStart
<1>2. Init => Gated
  BY DEF Init, Gated, AbsentIsQuiet, LocalWaits, PlainRetries, StepsOf
<1> QED
  BY <1>1, <1>2, GatedStep, Invariance, PTL DEF Spec, LocalStartsApproved

-----------------------------------------------------------------------------
(* The refinement of LocalEffects *)

\* EffectStep is a step, or a stutter, of LocalEffects.
LEMMA EffectsInit == Init => Effects!Init
<1> SUFFICES ASSUME Init PROVE Effects!Init
  OBVIOUS
<1>1. PhaseMap = [s \in SideEffecting |-> "waiting"]
  BY DEF Init, PhaseMap, PhaseOf, SideEffecting
<1>2. PermitMap \in [SideEffecting -> BOOLEAN]
  BY DEF PermitMap, Permit
<1> QED
  BY <1>1, <1>2 DEF Effects!Init

\* Every step of the store is a step of the abstract side effects or a stutter.
LEMMA EffectsStep == Inv /\ [Next]_vars => [Effects!Next]_<<PhaseMap, PermitMap>>
<1> SUFFICES ASSUME Inv, [Next]_vars PROVE [Effects!Next]_<<PhaseMap, PermitMap>>
  OBVIOUS
<1>1. CASE UNCHANGED vars
  BY <1>1 DEF vars, taskVars, stepVars, PhaseMap, PhaseOf, PermitMap, Permit, SideEffecting
<1>2. CASE Next
  <2>1. PhaseMap' \in [SideEffecting -> {"waiting", "started", "over"}]
    BY DEF PhaseMap, PhaseOf, SideEffecting
  <2>2. PermitMap' \in [SideEffecting -> BOOLEAN]
    BY DEF PermitMap, Permit, SideEffecting
  <2>3. ASSUME NEW s \in SideEffecting
        PROVE  Effects!Keep(s) \/ Effects!Start(s) \/ Effects!Finish(s) \/ Effects!Reopen(s)
    <3>1. Stays(s) \/ Ends(s) \/ Starts(s) \/ Reopens(s)
      BY <1>2, LocalStep DEF EffectStep
    <3>2. PhaseMap[s] = PhaseOf(s) /\ PhaseMap'[s] = PhaseOf(s)'
      BY DEF PhaseMap, PhaseOf, SideEffecting
    <3>3. PermitMap'[s] = Permit(s)'
      BY Zenon DEF PermitMap, Permit, SideEffecting
    <3>4. CASE Stays(s)
      BY <3>2, <3>4 DEF Stays, PhaseOf, Effects!Keep
    <3>5. CASE Ends(s)
      BY <3>2, <3>5 DEF Ends, Terminal, PhaseOf, Effects!Keep, Effects!Finish
    <3>6. CASE Starts(s)
      BY <3>2, <3>3, <3>6 DEF Starts, PhaseOf, Effects!Start
    <3>7. CASE Reopens(s)
      BY <3>2, <3>3, <3>7 DEF Reopens, Terminal, PhaseOf, Effects!Reopen
    <3> QED
      BY <3>1, <3>4, <3>5, <3>6, <3>7
  <2> QED
    BY <2>1, <2>2, <2>3 DEF Effects!Next
<1> QED
  BY <1>1, <1>2

\* The store implements LocalEffects: a started write or command never returns to
\* the queue by itself, and retry_task withdraws the approval it was started with.
THEOREM Refinement == Spec => ImplementsLocalEffects
<1> QED
  BY Invariance, EffectsInit, EffectsStep, PTL DEF Spec, ImplementsLocalEffects, Effects!Spec

-----------------------------------------------------------------------------
(* What opens a task that is over *)

\* What ReopenedOnCall says of one task and one step.
Revives(t) == tstat[t] \in Terminal /\ tstat'[t] \notin Terminal
Called(t)  == \E c \in calls \ calls' : c.task = t /\ c.op \notin {"request", "deny"}
Again(t)   == \E s \in StepsOf(t) \ SideEffecting : sstat'[s] = "queued" /\ backoff'[s]
Explained  == \A t \in Task : Revives(t) => Called(t) \/ Again(t)

\* Recovery ends tasks, or queues one that is running.
LEMMA RecoveryStaysOver ==
  ASSUME NEW E, NEW t \in Task, tstat[t] \in Terminal
  PROVE  RecoveredTasks(E)[t] \in Terminal
BY DEF RecoveredTasks, Terminal

\* A step is handed out, or prompted for, in an open task only.
LEMMA ClaimsReopenNothing ==
  ASSUME Inv,
         \/ \E w \in Worker : ClaimOne(w)
         \/ \E e \in Executor, p \in Policies : ClaimForExecutor(e, p)
  PROVE  \A t \in Task : ~Revives(t)
<1> SUFFICES ASSUME NEW t \in Task, tstat[t] \in Terminal PROVE tstat'[t] \in Terminal
  BY DEF Revives
<1> USE ConstantsAssumption, RecoveryStaysOver
<1>1. ASSUME NEW w \in Worker, ClaimOne(w) PROVE tstat'[t] \in Terminal
  <2> DEFINE ts == RecoveredTasks(Expired({"hosted", "sandbox"}))
  <2>1. ts[t] \in Terminal /\ ts \in [Task -> {ts[u] : u \in Task}]
    BY DEF RecoveredTasks
  <2>2. \/ tstat' = ts
        \/ \E s \in Step, st \in {"waiting_approval", "running"} :
             ts[TaskOf[s]] \in {"queued", "running"} /\ tstat' = [ts EXCEPT ![TaskOf[s]] = st]
    BY <1>1 DEF ClaimOne, Offered, Ready, StartStep
  <2> QED
    BY <2>1, <2>2 DEF Terminal
<1>2. ASSUME NEW e \in Executor, NEW p \in Policies, ClaimForExecutor(e, p)
      PROVE  tstat'[t] \in Terminal
  <2> DEFINE E    == Expired({"desktop"})
             ss   == RecoveredSteps(E)
             auto == AutoApproved(e, p, RecoveredTasks(E), ss)
             ts   == [u \in Task |-> IF u \in auto THEN "queued" ELSE RecoveredTasks(E)[u]]
             rq   == [u \in Task |-> u \notin auto /\ req[u]]
             ap   == [u \in Task |-> IF u \in auto THEN "approved" ELSE approval[u]]
             claimable == Claimable(e, ts, ss, rq, ap)
  <2>1. t \in auto => RecoveredTasks(E)[t] \in {"queued", "waiting_approval"}
    BY DEF AutoApproved
  <2>2. ts[t] \in Terminal /\ DOMAIN ts = Task
    BY <2>1 DEF Terminal
  <2>3. \A s \in claimable : ts[TaskOf[s]] \in {"queued", "running"}
    BY DEF Claimable, Ready
  <2>4. tstat' = ts \/ \E s \in claimable : tstat' = [ts EXCEPT ![TaskOf[s]] = "running"]
    BY <1>2, Zenon DEF ClaimForExecutor, StartStep
  <2> HIDE DEF ts, claimable
  <2> QED
    BY <2>2, <2>3, <2>4 DEF Terminal
<1> QED
  BY <1>1, <1>2

\* complete_step ends a task or leaves it; fail_step opens it for a step to try again.
LEMMA EndsReopen ==
  ASSUME Inv, NEW x \in Step, NEW r \in BOOLEAN, r => x \notin SideEffecting,
         CompleteStep(x) \/ FailStep(x, r)
  PROVE  Explained
<1> USE ConstantsAssumption
<1>1. CASE CompleteStep(x)
  BY <1>1 DEF CompleteStep, Explained, Revives, Terminal, Inv, TypeOK
<1>2. CASE FailStep(x, r)
  <2>1. CASE r /\ attempts[x] < Limit[x]
    <3>1. /\ tstat' = [tstat EXCEPT ![TaskOf[x]] = "queued"]
          /\ sstat'[x] = "queued" /\ backoff'[x] = TRUE
      BY <1>2, <2>1 DEF FailStep, Inv, TypeOK
    <3>2. x \in StepsOf(TaskOf[x]) \ SideEffecting
      BY <2>1 DEF StepsOf
    <3> QED
      BY <3>1, <3>2 DEF Explained, Revives, Again, Inv, TypeOK
  <2>2. CASE ~(r /\ attempts[x] < Limit[x])
    BY <1>2, <2>2 DEF FailStep, Explained, Revives, Terminal, Inv, TypeOK
  <2> QED
    BY <2>1, <2>2
<1> QED
  BY <1>1, <1>2

\* The second half of a client's call writes its own task.
LEMMA CallsReopen ==
  ASSUME Inv, NEW c \in calls, ClientWrite(c)
  PROVE  Explained
<1>1. c \notin calls' /\ c.task \in Task /\ c.op \in ClientOp
  BY DEF ClientWrite, RequestApprovalWrite, DecideWrite, CancelWrite, RetryTaskWrite, Return,
         Inv, TypeOK, Call
<1>2. \A t \in Task : t # c.task => tstat'[t] = tstat[t]
  BY DEF ClientWrite, RequestApprovalWrite, DecideWrite, CancelWrite, RetryTaskWrite, Inv, TypeOK
<1>3. c.op \in {"request", "deny"} => ~Revives(c.task)
  BY <1>1 DEF ClientWrite, RequestApprovalWrite, DecideWrite, CancelWrite, RetryTaskWrite,
         Inv, TypeOK, Revives, Terminal, Verdict
<1> QED
  BY <1>1, <1>2, <1>3 DEF Explained, Revives, Called

\* Every step explains the tasks it opens again.
LEMMA NextRevives ==
  ASSUME Inv, [Next]_vars
  PROVE  Explained
<1> USE DEF taskVars, stepVars, procVars
<1>1. CASE UNCHANGED tstat
  BY <1>1 DEF Explained, Revives
<1>2. ASSUME NEW t \in Task, NEW r \in BOOLEAN, Create(t, r) PROVE Explained
  BY <1>2 DEF Create, Explained, Revives, Terminal, Inv, TypeOK
<1>3. ASSUME NEW t \in Task, ClientRead(t) PROVE Explained
  BY <1>1, <1>3 DEF ClientRead, RequestApprovalRead, DecideRead, DecideForExecutorRead,
         CancelRead, RetryTaskRead, Read
<1>4. ASSUME NEW w \in Worker, ClaimOne(w) \/ BeginSandbox(w) \/ WorkerEnds(w) \/ WorkerCrash(w)
      PROVE  Explained
  <2>1. CASE ClaimOne(w)
    BY <2>1, ClaimsReopenNothing DEF Explained
  <2>2. CASE WorkerEnds(w)
    <3>1. job[w] \in Step /\ job[w] \notin SideEffecting
      BY <2>2 DEF WorkerEnds, WorkerComplete, WorkerFail, Inv, TypeOK, WorkersStayHosted,
             SideEffecting
    <3> QED
      BY <2>2, <3>1, EndsReopen DEF WorkerEnds, WorkerComplete, WorkerFail
  <2> QED
    BY <1>1, <1>4, <2>1, <2>2 DEF BeginSandbox, WorkerCrash
<1>5. ASSUME NEW e \in Executor, ExecutorStep(e) PROVE Explained
  <2>1. ASSUME NEW p \in Policies, ClaimForExecutor(e, p) PROVE Explained
    BY <2>1, ClaimsReopenNothing DEF Explained
  <2>2. CASE FailExecutorStep(e)
    BY <1>1, <2>2, ConstantsAssumption DEF FailExecutorStep, Explained, Revives, Terminal, Inv,
           TypeOK
  <2> QED
    BY <1>1, <1>5, <2>1, <2>2 DEF ExecutorStep, PairExecutor, RevokeExecutor,
           HeartbeatExecutorStep, CompleteExecutorStep, ExecutorCrash, ExecutorRefused
<1>6. ASSUME NEW r \in reports, FinishReport(r) \/ ReportLost(r) PROVE Explained
  <2>1. CASE FinishReport(r)
    <3>1. r.step \in Step /\ (r.op = "fail_retryable" => r.step \notin SideEffecting)
      BY DEF Inv, TypeOK, Report, RetryOnlyReads
    <3>2. CASE CompleteStep(r.step)
      BY <3>1, <3>2, EndsReopen
    <3>3. CASE r.op = "fail_retryable" /\ FailStep(r.step, TRUE)
      BY <3>1, <3>3, EndsReopen
    <3>4. CASE FailStep(r.step, FALSE)
      BY <3>1, <3>4, EndsReopen
    <3> QED
      BY <2>1, <3>2, <3>3, <3>4 DEF FinishReport
  <2> QED
    BY <1>1, <1>6, <2>1 DEF ReportLost
<1>7. ASSUME NEW c \in calls, ClientWrite(c) \/ CallLost(c) PROVE Explained
  BY <1>1, <1>7, CallsReopen DEF CallLost
<1> QED
  BY <1>1, <1>2, <1>3, <1>4, <1>5, <1>6, <1>7 DEF Next, vars, LeaseExpires, BackoffEnds

\* ReopenedOnCall: of all that writes tasks.status (store.py), only decide, cancel_task,
\* retry_task and fail_step open a task that is over.
THEOREM OnlyCallsReopenTasks == Spec => ReopenedOnCall
<1>1. ASSUME Inv, [Next]_vars
      PROVE  \A t \in Task : tstat[t] \in Terminal /\ tstat'[t] \notin Terminal =>
               \/ \E c \in calls \ calls' : c.task = t /\ c.op \notin {"request", "deny"}
               \/ \E s \in StepsOf(t) \ SideEffecting : sstat'[s] = "queued" /\ backoff'[s]
  BY <1>1, NextRevives DEF Explained, Revives, Called, Again
<1> QED
  BY <1>1, Invariance, PTL DEF Spec, ReopenedOnCall

-----------------------------------------------------------------------------
(* What the end of a cancellation rests on *)

\* A step that makes no task cancelling, and takes neither its request nor a running
\* step from one that stays so.
LEMMA CancellingStays ==
  ASSUME CancellingIsRunning,
         \A t \in Task : tstat'[t] = "cancelling" =>
           /\ tstat[t] = "cancelling" /\ cancelReq'[t] = cancelReq[t]
           /\ \A s \in StepsOf(t) : sstat[s] = "running" => sstat'[s] = "running"
  PROVE  CancellingIsRunning'
BY DEF CancellingIsRunning, StepsOf

\* Recovery ends a cancelling task that loses a step; a claim starts none of its steps.
LEMMA RecoveryStaysCancelling ==
  ASSUME CancellingIsRunning, NEW kinds, NEW t \in Task,
         RecoveredTasks(Expired(kinds))[t] = "cancelling"
  PROVE  /\ tstat[t] = "cancelling"
         /\ \A s \in StepsOf(t) : RecoveredSteps(Expired(kinds))[s] = sstat[s]
<1> DEFINE E == Expired(kinds)
<1>1. tstat[t] = "cancelling"
  BY DEF RecoveredTasks
<1>2. cancelReq[t]
  BY <1>1 DEF CancellingIsRunning
<1>3. ASSUME NEW s \in StepsOf(t), s \in E PROVE FALSE
  <2>1. RecoveredAs(s) = "cancelled"
    BY <1>2 DEF RecoveredAs, StepsOf
  <2>2. "cancelled" \in {RecoveredAs(x) : x \in E \cap StepsOf(t)}
    BY <1>3, <2>1
  <2> QED
    BY <2>2 DEF RecoveredTasks
<1> QED
  BY <1>1, <1>3 DEF RecoveredSteps, StepsOf

\* Both claims keep cancelling tasks as they are.
LEMMA ClaimsKeepCancelling ==
  ASSUME Inv, CancellingIsRunning,
         \/ \E w \in Worker : ClaimOne(w)
         \/ \E e \in Executor, p \in Policies : ClaimForExecutor(e, p)
  PROVE  CancellingIsRunning'
<1> USE ConstantsAssumption
<1>1. ASSUME NEW w \in Worker, ClaimOne(w) PROVE CancellingIsRunning'
  <2> DEFINE E  == Expired({"hosted", "sandbox"})
             ts == RecoveredTasks(E)
             ss == RecoveredSteps(E)
  <2>1. DOMAIN ts = Task /\ DOMAIN ss = Step
    BY DEF RecoveredTasks, RecoveredSteps
  <2>2. \/ tstat' = ts /\ sstat' = ss
        \/ \E s \in Step : tstat' = [ts EXCEPT ![TaskOf[s]] = "waiting_approval"] /\ sstat' = ss
        \/ \E s \in Step : /\ tstat' = [ts EXCEPT ![TaskOf[s]] = "running"]
                           /\ sstat' = [ss EXCEPT ![s] = "running"]
    BY <1>1 DEF ClaimOne, Offered, StartStep
  <2>3. \A t \in Task : ts[t] = "cancelling" =>
          tstat[t] = "cancelling" /\ \A s \in StepsOf(t) : ss[s] = sstat[s]
    BY RecoveryStaysCancelling
  <2>4. cancelReq' = cancelReq
    BY <1>1 DEF ClaimOne
  <2> HIDE DEF ts, ss
  <2>5. \A t \in Task : tstat'[t] = "cancelling" => ts[t] = "cancelling"
    BY <2>1, <2>2
  <2>6. \A s \in Step : sstat'[s] = ss[s] \/ sstat'[s] = "running"
    BY <2>1, <2>2
  <2> QED
    BY <2>3, <2>4, <2>5, <2>6, CancellingStays DEF StepsOf
<1>2. ASSUME NEW e \in Executor, NEW p \in Policies, ClaimForExecutor(e, p)
      PROVE  CancellingIsRunning'
  <2> DEFINE E    == Expired({"desktop"})
             ss   == RecoveredSteps(E)
             auto == AutoApproved(e, p, RecoveredTasks(E), ss)
             ts   == [u \in Task |-> IF u \in auto THEN "queued" ELSE RecoveredTasks(E)[u]]
             rq   == [u \in Task |-> u \notin auto /\ req[u]]
             ap   == [u \in Task |-> IF u \in auto THEN "approved" ELSE approval[u]]
             claimable == Claimable(e, ts, ss, rq, ap)
  <2>1. DOMAIN ts = Task /\ DOMAIN ss = Step
    BY DEF RecoveredSteps
  <2>2. \A s \in claimable : s \in Step
    BY DEF Claimable
  <2>3. \/ tstat' = ts /\ sstat' = ss
        \/ \E s \in claimable : /\ tstat' = [ts EXCEPT ![TaskOf[s]] = "running"]
                                /\ sstat' = [ss EXCEPT ![s] = "running"]
    BY <1>2, Zenon DEF ClaimForExecutor, StartStep
  <2>4. \A t \in Task : RecoveredTasks(E)[t] = "cancelling" =>
          tstat[t] = "cancelling" /\ \A s \in StepsOf(t) : ss[s] = sstat[s]
    BY RecoveryStaysCancelling
  <2>5. \A t \in Task : ts[t] = "cancelling" => RecoveredTasks(E)[t] = "cancelling"
    OBVIOUS
  <2>6. cancelReq' = cancelReq
    BY <1>2 DEF ClaimForExecutor
  <2> HIDE DEF ts, ss, claimable
  <2>7. \A t \in Task : tstat'[t] = "cancelling" => ts[t] = "cancelling"
    BY <2>1, <2>2, <2>3
  <2>8. \A s \in Step : sstat'[s] = ss[s] \/ sstat'[s] = "running"
    BY <2>1, <2>2, <2>3
  <2> QED
    BY <2>4, <2>5, <2>6, <2>7, <2>8, CancellingStays DEF StepsOf
<1> QED
  BY <1>1, <1>2

\* The end of a step closes its task if it is being cancelled.
LEMMA EndsKeepCancelling ==
  ASSUME Inv, CancellingIsRunning, NEW x \in Step,
         CompleteStep(x) \/ \E r \in BOOLEAN : FailStep(x, r)
  PROVE  CancellingIsRunning'
<1> USE ConstantsAssumption
<1>0. TaskOf[x] \in Task /\ tstat \in [Task -> TaskStatus \cup {"absent"}]
      /\ sstat \in [Step -> RunStatus]
  BY DEF Inv, TypeOK
<1>1. CASE CompleteStep(x)
  <2>1. CASE cancelReq[TaskOf[x]]
    BY <1>0, <1>1, <2>1, CancellingStays DEF CompleteStep, StepsOf
  <2>2. CASE ~cancelReq[TaskOf[x]]
    <3>1. tstat[TaskOf[x]] # "cancelling"
      BY <1>0, <2>2 DEF CancellingIsRunning
    <3>2. tstat'[TaskOf[x]] \in {tstat[TaskOf[x]], "completed"}
      BY <1>0, <1>1, <2>2 DEF CompleteStep
    <3> QED
      BY <1>0, <1>1, <3>1, <3>2, CancellingStays DEF CompleteStep, StepsOf
  <2> QED
    BY <2>1, <2>2
<1>2. ASSUME NEW r \in BOOLEAN, FailStep(x, r) PROVE CancellingIsRunning'
  <2>1. /\ tstat'[TaskOf[x]] \in {"queued", "failed"} /\ cancelReq' = cancelReq
        /\ \A t \in Task : t # TaskOf[x] => tstat'[t] = tstat[t]
        /\ \A s \in Step : s # x => sstat'[s] = sstat[s]
    BY <1>0, <1>2 DEF FailStep
  <2> QED
    BY <2>1, CancellingStays DEF StepsOf
<1> QED
  BY <1>1, <1>2

\* A call writes its own task; a cancellation leaves it cancelling while a step runs.
LEMMA CallsKeepCancelling ==
  ASSUME Inv, CancellingIsRunning, NEW c \in calls, ClientWrite(c)
  PROVE  CancellingIsRunning'
<1>1. c.task \in Task
  BY DEF Inv, TypeOK, Call
<1>2. CASE RequestApprovalWrite(c)
  BY <1>1, <1>2, CancellingStays DEF RequestApprovalWrite, stepVars, Inv, TypeOK
<1>3. CASE DecideWrite(c) \/ RetryTaskWrite(c)
  <2>1. /\ tstat'[c.task] # "cancelling"
        /\ \A t \in Task : t # c.task => tstat'[t] = tstat[t] /\ cancelReq'[t] = cancelReq[t]
        /\ \A s \in Step : TaskOf[s] # c.task => sstat'[s] = sstat[s]
    <3>1. tstat \in [Task -> TaskStatus \cup {"absent"}] /\ sstat \in [Step -> RunStatus]
          /\ cancelReq \in [Task -> BOOLEAN]
      BY DEF Inv, TypeOK
    <3>2. CASE DecideWrite(c)
      BY <1>1, <3>1, <3>2 DEF DecideWrite, MoveSteps
    <3>3. CASE RetryTaskWrite(c)
      BY <1>1, <3>1, <3>3 DEF RetryTaskWrite, MoveSteps
    <3> QED
      BY <1>3, <3>2, <3>3
  <2> QED
    BY <2>1, CancellingStays DEF StepsOf
<1>4. CASE CancelWrite(c)
  <2>1. /\ cancelReq' = [cancelReq EXCEPT ![c.task] = TRUE]
        /\ tstat'[c.task] = "cancelling" => \E s \in StepsOf(c.task) : sstat[s] = "running"
        /\ \A t \in Task : t # c.task => tstat'[t] = tstat[t]
    BY <1>1, <1>4 DEF CancelWrite, Inv, TypeOK
  <2>2. \A s \in Step : sstat[s] = "running" => sstat'[s] = "running"
    BY <1>4 DEF CancelWrite, MoveSteps, Inv, TypeOK
  <2> QED
    BY <1>1, <2>1, <2>2 DEF CancellingIsRunning, StepsOf, Inv, TypeOK
<1> QED
  BY <1>2, <1>3, <1>4 DEF ClientWrite

\* Every step keeps the running step of a cancelling task.
LEMMA NextKeepsCancelling ==
  ASSUME Inv, CancellingIsRunning, [Next]_vars
  PROVE  CancellingIsRunning'
<1> USE DEF taskVars, stepVars, procVars
<1>1. CASE UNCHANGED <<tstat, cancelReq, sstat>>
  BY <1>1, CancellingStays
<1>2. ASSUME NEW t \in Task, NEW r \in BOOLEAN, Create(t, r) PROVE CancellingIsRunning'
  BY <1>2, CancellingStays DEF Create, Inv, TypeOK
<1>3. ASSUME NEW t \in Task, ClientRead(t) PROVE CancellingIsRunning'
  BY <1>1, <1>3 DEF ClientRead, RequestApprovalRead, DecideRead, DecideForExecutorRead,
         CancelRead, RetryTaskRead, Read
<1>4. ASSUME NEW w \in Worker, ClaimOne(w) \/ BeginSandbox(w) \/ WorkerEnds(w) \/ WorkerCrash(w)
      PROVE  CancellingIsRunning'
  <2>1. CASE WorkerEnds(w)
    <3>1. job[w] \in Step
      BY <2>1 DEF WorkerEnds, WorkerComplete, WorkerFail, Inv, TypeOK
    <3> QED
      BY <2>1, <3>1, EndsKeepCancelling DEF WorkerEnds, WorkerComplete, WorkerFail
  <2> QED
    BY <1>1, <1>4, <2>1, ClaimsKeepCancelling DEF BeginSandbox, WorkerCrash
<1>5. ASSUME NEW e \in Executor, ExecutorStep(e) PROVE CancellingIsRunning'
  <2>1. CASE FailExecutorStep(e)
    <3>1. \/ UNCHANGED <<tstat, sstat>>
          \/ \E s \in Step : /\ tstat' = [tstat EXCEPT ![TaskOf[s]] = "cancelled"]
                             /\ sstat' = [sstat EXCEPT ![s] = "cancelled"]
      BY <2>1 DEF FailExecutorStep, Inv, TypeOK
    <3>2. cancelReq' = cancelReq
      BY <2>1 DEF FailExecutorStep
    <3> QED
      BY <1>1, <3>1, <3>2, CancellingStays, ConstantsAssumption DEF StepsOf, Inv, TypeOK
  <2> QED
    BY <1>1, <1>5, <2>1, ClaimsKeepCancelling DEF ExecutorStep, PairExecutor, RevokeExecutor,
           HeartbeatExecutorStep, CompleteExecutorStep, ExecutorCrash, ExecutorRefused
<1>6. ASSUME NEW r \in reports, FinishReport(r) \/ ReportLost(r) PROVE CancellingIsRunning'
  <2>1. r.step \in Step
    BY DEF Inv, TypeOK, Report
  <2>2. CASE FinishReport(r)
    <3>1. CompleteStep(r.step) \/ \E q \in BOOLEAN : FailStep(r.step, q)
      BY <2>2 DEF FinishReport
    <3> QED
      BY <2>1, <3>1, EndsKeepCancelling
  <2> QED
    BY <1>1, <1>6, <2>2 DEF ReportLost
<1>7. ASSUME NEW c \in calls, ClientWrite(c) \/ CallLost(c) PROVE CancellingIsRunning'
  BY <1>1, <1>7, CallsKeepCancelling DEF CallLost
<1> QED
  BY <1>1, <1>2, <1>3, <1>4, <1>5, <1>6, <1>7 DEF Next, vars, LeaseExpires, BackoffEnds

\* The safety core of DesktopCancelTerminates: no approval, retry, claim, recovery or late
\* report leaves a task "cancelling" (cancel_task) without a step whose end closes it.
THEOREM CancellingTasksHaveARunningStep == Spec => []CancellingIsRunning
<1>1. Init => CancellingIsRunning
  BY DEF Init, CancellingIsRunning
<1> QED
  BY <1>1, NextKeepsCancelling, Invariance, PTL DEF Spec
=============================================================================
