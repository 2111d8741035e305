-------------------------- MODULE LocalQueueProofs --------------------------
(***************************************************************************)
(* Machine-checked proofs about LocalQueue: the runner lock makes recovery *)
(* safe, and no task starts without a permission of its own, for any       *)
(* number of tasks, runners and crashes and any size of the file.          *)
(***************************************************************************)
EXTENDS LocalQueue, TLAPS

\* An empty queue satisfies Inv.
LEMMA InitInv == Init => Inv
<1> SUFFICES ASSUME Init PROVE Inv
  OBVIOUS
<1>1. TypeOK
  BY LocalQueueAssumption DEF Init, TypeOK, Phases
<1>2. OneHolder /\ ExecutionIsExclusive
  BY DEF Init, OneHolder, ExecutionIsExclusive, Holds, Busy, BusyPhases
<1>3. StartsAreGranted /\ RequestIsCurrent
  BY DEF Init, StartsAreGranted, RequestIsCurrent
<1> QED
  BY <1>1, <1>2, <1>3 DEF Inv

\* Counting one more start of a task stays a count of starts.
LEMMA Increment ==
  ASSUME NEW f \in [Task -> Nat], NEW t \in Task
  PROVE  [f EXCEPT ![t] = @ + 1] \in [Task -> Nat]
OBVIOUS

\* The file after an insertion is again a sequence of tasks.
LEMMA InsertTyping ==
  ASSUME TypeOK, NEW t \in Task, NEW s \in Statuses, Insert(t, s)
  PROVE  /\ entries' \in Seq(Task)
         /\ status' \in [Task -> Statuses \cup {"absent", "evicted"}]
<1>1. <<t>> \o entries \in Seq(Task) /\ Len(<<t>> \o entries) = 1 + Len(entries)
  BY DEF TypeOK
<1>2. Len(entries) \in Nat
  BY DEF TypeOK
<1>3. PICK n \in 0 .. Len(<<t>> \o entries) : entries' = SubSeq(<<t>> \o entries, 1, n)
  BY <1>1, <1>2, LocalQueueAssumption DEF Insert
<1>4. entries' \in Seq(Task)
  BY <1>1, <1>3
<1> QED
  BY <1>4 DEF Insert, TypeOK

\* create_local_task with an approval pending preserves Inv.
LEMMA CreateGatedStep ==
  ASSUME Inv, NEW t \in Task, CreateGated(t)
  PROVE  Inv'
<1>1. TypeOK'
  BY InsertTyping DEF Inv, TypeOK, CreateGated, Insert, Statuses
<1>2. OneHolder' /\ ExecutionIsExclusive'
  BY DEF Inv, TypeOK, OneHolder, ExecutionIsExclusive, Holds, Busy, CreateGated, Insert
<1>3. StartsAreGranted' /\ RequestIsCurrent'
  BY DEF Inv, TypeOK, StartsAreGranted, RequestIsCurrent, CreateGated, Insert
<1> QED
  BY <1>1, <1>2, <1>3 DEF Inv

\* create_local_task with the launch of a runner preserves Inv.
LEMMA CreateQueuedStep ==
  ASSUME Inv, NEW t \in Task, NEW r \in Runner, CreateQueued(t, r)
  PROVE  Inv'
<1>1. TypeOK'
  <2>1. granted' \in [Task -> Nat]
    BY Increment DEF Inv, TypeOK, CreateQueued
  <2>2. entries' \in Seq(Task) /\ status' \in [Task -> Statuses \cup {"absent", "evicted"}]
    BY InsertTyping DEF Inv, CreateQueued, Statuses
  <2> QED
    BY <2>1, <2>2 DEF Inv, TypeOK, CreateQueued, Insert, Launch, Phases
<1>2. OneHolder' /\ ExecutionIsExclusive'
  BY DEF Inv, TypeOK, OneHolder, ExecutionIsExclusive, Holds, Busy, BusyPhases,
         CreateQueued, Insert, Launch
<1>3. StartsAreGranted' /\ RequestIsCurrent'
  BY DEF Inv, TypeOK, StartsAreGranted, RequestIsCurrent, CreateQueued, Insert
<1> QED
  BY <1>1, <1>2, <1>3 DEF Inv

\* The launch of a runner for one task (--local-run-task) preserves Inv.
LEMMA RunTaskStep ==
  ASSUME Inv, NEW t \in Task, NEW r \in Runner, RunTask(t, r)
  PROVE  Inv'
<1>1. TypeOK'
  BY DEF Inv, TypeOK, RunTask, Launch, Phases, fileVars
<1>2. OneHolder' /\ ExecutionIsExclusive'
  BY DEF Inv, TypeOK, OneHolder, ExecutionIsExclusive, Holds, Busy, BusyPhases,
         RunTask, Launch, fileVars
<1>3. StartsAreGranted' /\ RequestIsCurrent'
  BY DEF Inv, StartsAreGranted, RequestIsCurrent, RunTask, fileVars
<1> QED
  BY <1>1, <1>2, <1>3 DEF Inv

\* An approval never touches a task that is being executed, and queues with a
\* permission or not at all.
LEMMA ApproveStep ==
  ASSUME Inv, NEW t \in Task, NEW r \in Runner, Approve(t, r)
  PROVE  Inv'
<1>1. TypeOK'
  <2>1. granted' \in [Task -> Nat]
    BY Increment DEF Inv, TypeOK, Approve
  <2>2. status' \in [Task -> Statuses \cup {"absent", "evicted"}]
    BY DEF Inv, TypeOK, Approve, Statuses
  <2>3. cancelReq' \in [Task -> BOOLEAN]
    BY DEF Inv, TypeOK, Approve
  <2> QED
    BY <2>1, <2>2, <2>3 DEF Inv, TypeOK, Approve, Launch, Phases
<1>2. OneHolder'
  BY DEF Inv, TypeOK, OneHolder, Holds, Busy, BusyPhases, Approve, Launch
<1>3. ExecutionIsExclusive'
  BY DEF Inv, TypeOK, ExecutionIsExclusive, Busy, BusyPhases, Approve, Launch
<1>4. StartsAreGranted' /\ RequestIsCurrent'
  <2>1. CASE status[t] \in {"waiting_approval", "review_required", "failed"}
    <3>1. /\ status' = [status EXCEPT ![t] = "queued"]
          /\ cancelReq' = [cancelReq EXCEPT ![t] = FALSE]
          /\ granted' = [granted EXCEPT ![t] = @ + 1]
          /\ attempt' = attempt
      BY <2>1 DEF Approve
    <3> QED
      BY <2>1, <3>1 DEF Inv, TypeOK, StartsAreGranted, RequestIsCurrent
  <2>2. CASE status[t] \notin {"waiting_approval", "review_required", "failed"}
    <3>1. UNCHANGED <<status, cancelReq, granted, attempt>>
      BY <2>2 DEF Approve
    <3> QED
      BY <3>1 DEF Inv, StartsAreGranted, RequestIsCurrent
  <2> QED
    BY <2>1, <2>2
<1> QED
  BY <1>1, <1>2, <1>3, <1>4 DEF Inv

\* A cancellation preserves Inv: it marks a running task and closes a waiting
\* one.
LEMMA CancelStep ==
  ASSUME Inv, NEW t \in Task, Cancel(t)
  PROVE  Inv'
<1>1. TypeOK'
  BY DEF Inv, TypeOK, Cancel, runnerVars, Statuses
<1>2. OneHolder' /\ ExecutionIsExclusive'
  BY DEF Inv, TypeOK, OneHolder, ExecutionIsExclusive, Holds, Busy, Cancel, Stored, runnerVars
<1>3. StartsAreGranted' /\ RequestIsCurrent'
  BY DEF Inv, TypeOK, StartsAreGranted, RequestIsCurrent, Cancel
<1> QED
  BY <1>1, <1>2, <1>3 DEF Inv

\* Recovery runs while nobody executes: the lock was free.
LEMMA AcquireStep ==
  ASSUME Inv, NEW r \in Runner, Acquire(r)
  PROVE  Inv'
<1>1. TypeOK'
  BY DEF Inv, TypeOK, Acquire, Recover, Interrupted, Statuses, Phases
<1>2. \A q \in Runner : Holds(q)' => q = r
  BY DEF Inv, TypeOK, Acquire, LockFree, Holds, Busy
<1>3. \A q \in Runner : ~Busy(q)'
  BY DEF Inv, TypeOK, Acquire, LockFree, Holds, Busy, BusyPhases
<1>4. OneHolder' /\ ExecutionIsExclusive'
  BY <1>2, <1>3 DEF OneHolder, ExecutionIsExclusive
<1>5. StartsAreGranted' /\ RequestIsCurrent'
  BY DEF Inv, TypeOK, StartsAreGranted, RequestIsCurrent, Acquire, Recover, Interrupted
<1> QED
  BY <1>1, <1>4, <1>5 DEF Inv

\* The claiming runner holds the lock, so nobody else is busy.
LEMMA ClaimStep ==
  ASSUME Inv, NEW r \in Runner, Claim(r)
  PROVE  Inv'
<1>1. PICK t \in Task : /\ status[t] = "queued"
                        /\ status' = [status EXCEPT ![t] = "running"]
                        /\ attempt' = [attempt EXCEPT ![t] = @ + 1]
                        /\ cancelReq' = [cancelReq EXCEPT ![t] = FALSE]
                        /\ job' = [job EXCEPT ![r] = t]
  <2>1. \A i \in 1 .. Len(entries) : entries[i] \in Task
    BY DEF Inv, TypeOK
  <2> QED
    BY <2>1 DEF Claim, Claimable
<1>2. TypeOK'
  <2>1. attempt' \in [Task -> Nat]
    BY <1>1, Increment DEF Inv, TypeOK
  <2> QED
    BY <1>1, <2>1 DEF Inv, TypeOK, Claim, Statuses, Phases, BusyPhases
<1>3. \A q \in Runner : Holds(q)' => q = r
  BY DEF Inv, TypeOK, OneHolder, Claim, Holds, Busy
<1>4. OneHolder' /\ ExecutionIsExclusive'
  BY <1>1, <1>3 DEF Inv, TypeOK, OneHolder, ExecutionIsExclusive, Holds
<1>5. StartsAreGranted' /\ RequestIsCurrent'
  BY <1>1 DEF Inv, TypeOK, StartsAreGranted, RequestIsCurrent, Claim
<1> QED
  BY <1>2, <1>4, <1>5 DEF Inv

\* A runner that only moves on in its own program, or exits.
LEMMA GoesStep ==
  ASSUME Inv, NEW r \in Runner, NEW p \in BusyPhases \cup {"gone"},
         p = "gone" \/ Busy(r),
         phase' = [phase EXCEPT ![r] = p],
         UNCHANGED <<fileVars, want, job, granted>>, crashes' \in 0 .. MaxCrashes
  PROVE  Inv'
<1>1. TypeOK'
  BY DEF Inv, TypeOK, Phases, fileVars
<1>2. \A q \in Runner : (Busy(q)' => Busy(q)) /\ (Holds(q)' => Holds(q))
  BY DEF Inv, TypeOK, Holds, Busy, BusyPhases
<1>3. OneHolder' /\ ExecutionIsExclusive'
  BY <1>2 DEF Inv, OneHolder, ExecutionIsExclusive, fileVars
<1>4. StartsAreGranted' /\ RequestIsCurrent'
  BY DEF Inv, StartsAreGranted, RequestIsCurrent, fileVars
<1> QED
  BY <1>1, <1>3, <1>4 DEF Inv

\* A task leaves execution, and its runner is the only busy one.
LEMMA FinishStep ==
  ASSUME Inv, NEW r \in Runner, Busy(r),
         NEW s \in {"completed", "failed", "cancelled"}, NEW c \in BOOLEAN,
         c => s = "cancelled", Finish(r, s, c)
  PROVE  Inv'
<1>1. job[r] \in Task /\ phase'[r] \in {"draining", "gone"}
  BY DEF Inv, TypeOK, ExecutionIsExclusive, Finish, NextRound
<1>2. TypeOK'
  BY <1>1 DEF Inv, TypeOK, Finish, NextRound, Statuses, Phases
<1>3. \A q \in Runner : Holds(q)' => q = r
  BY DEF Inv, TypeOK, OneHolder, Finish, Holds, Busy
<1>4. \A q \in Runner : ~Busy(q)'
  BY <1>1, <1>3 DEF Holds, Busy, BusyPhases
<1>5. OneHolder' /\ ExecutionIsExclusive'
  BY <1>3, <1>4 DEF OneHolder, ExecutionIsExclusive
<1>6. StartsAreGranted' /\ RequestIsCurrent'
  BY <1>1 DEF Inv, TypeOK, StartsAreGranted, RequestIsCurrent, Finish
<1> QED
  BY <1>2, <1>5, <1>6 DEF Inv

\* Every step of a runner preserves Inv: only the holder of the lock has a
\* running task.
LEMMA WorkStep ==
  ASSUME Inv, NEW r \in Runner, Work(r)
  PROVE  Inv'
<1>1. CASE Acquire(r)
  BY <1>1, AcquireStep
<1>2. CASE Claim(r)
  BY <1>2, ClaimStep
<1>3. CASE Drained(r)
  BY <1>3, GoesStep DEF Drained, Inv, TypeOK
<1>4. CASE \/ Checkpoint(r) \/ CheckpointUnreadable(r) \/ ExecuteFails(r)
           \/ CompleteFails(r) \/ LoseTask(r)
  <2>1. PICK p \in BusyPhases \cup {"gone"} : Busy(r) /\ Goes(r, p)
    BY <1>4 DEF Checkpoint, CheckpointUnreadable, ExecuteFails, CompleteFails, LoseTask, Busy, BusyPhases
  <2> QED
    BY <2>1, GoesStep DEF Goes, Inv, TypeOK
<1>5. CASE Complete(r)
  BY <1>5, FinishStep DEF Complete, Busy, BusyPhases
<1>6. CASE Fail(r)
  BY <1>6, FinishStep DEF Fail, Busy, BusyPhases
<1>7. CASE FinishCancelled(r)
  BY <1>7, FinishStep DEF FinishCancelled, Busy, BusyPhases
<1> QED
  BY <1>1, <1>2, <1>3, <1>4, <1>5, <1>6, <1>7 DEF Work

\* Inv is inductive.
LEMMA InvStep == Inv /\ [Next]_vars => Inv'
<1> SUFFICES ASSUME Inv, [Next]_vars PROVE Inv'
  OBVIOUS
<1>1. CASE Window
  BY <1>1, CreateGatedStep, CancelStep, CreateQueuedStep, RunTaskStep, ApproveStep DEF Window
<1>2. ASSUME NEW r \in Runner, Work(r) PROVE Inv'
  BY <1>2, WorkStep
<1>3. ASSUME NEW r \in Runner, GiveUp(r) PROVE Inv'
  BY <1>3, GoesStep DEF GiveUp, Inv, TypeOK
<1>4. ASSUME NEW r \in Runner, Crash(r) PROVE Inv'
  <2>1. crashes' \in 0 .. MaxCrashes
    BY <1>4, LocalQueueAssumption DEF Crash, Inv, TypeOK
  <2> QED
    BY <1>4, <2>1, GoesStep DEF Crash
<1>5. CASE UNCHANGED vars
  BY <1>5 DEF vars, fileVars, runnerVars, Inv, TypeOK, OneHolder, ExecutionIsExclusive,
              StartsAreGranted, RequestIsCurrent, Holds, Busy
<1> QED
  BY <1>1, <1>2, <1>3, <1>4, <1>5 DEF Next

\* The types of the file and of the runners' memories, that one runner holds the
\* lock at most, and the three properties below, through every creation,
\* eviction, approval, cancellation, claim, crash and recovery.
THEOREM Invariance == Spec => []Inv
<1> QED
  BY InitInv, InvStep, PTL DEF Spec

\* recover_interrupted never marks a running execution as interrupted and claim
\* never starts a second one.
THEOREM Exclusion == Spec => []ExecutionIsExclusive
<1>1. Inv => ExecutionIsExclusive
  BY DEF Inv
<1> QED
  BY Invariance, <1>1, PTL

\* An interrupted, failed or cancelled task starts again only after an approval of
\* its own: claim never takes a task that the owner has not queued.
THEOREM GrantedStarts == Spec => []StartsAreGranted
<1>1. Inv => StartsAreGranted
  BY DEF Inv
<1> QED
  BY Invariance, <1>1, PTL

\* request_cancel and claim keep the request and the status together: a cancellation
\* on record is answered or being answered, and no later run inherits it.
THEOREM RequestedStops == Spec => []RequestIsCurrent
<1>1. Inv => RequestIsCurrent
  BY DEF Inv
<1> QED
  BY Invariance, <1>1, PTL

-----------------------------------------------------------------------------
(* The state in which the queue makes progress.                            *)

\* A task that stays in the file keeps its place or moves down by one.
LEMMA InsertKeepsFile ==
  ASSUME TypeOK, FileIsComplete, NEW t \in Task, NEW s \in Statuses, Insert(t, s)
  PROVE  FileIsComplete'
<1>1. entries \in Seq(Task) /\ Len(entries) \in Nat /\ status \in [Task -> Statuses \cup {"absent", "evicted"}]
  BY DEF TypeOK
<1>2. /\ <<t>> \o entries \in Seq(Task) /\ Len(<<t>> \o entries) = Len(entries) + 1
      /\ (<<t>> \o entries)[1] = t
      /\ \A i \in 1 .. Len(entries) : (<<t>> \o entries)[i + 1] = entries[i]
  BY <1>1
<1>3. PICK n \in 1 .. Len(entries) + 1 :
        /\ n = (IF Len(entries) < MaxEntries THEN Len(entries) + 1 ELSE MaxEntries)
        /\ entries' = SubSeq(<<t>> \o entries, 1, n)
  BY <1>1, LocalQueueAssumption DEF Insert
<1>4. Len(entries') = n /\ \A i \in 1 .. n : entries'[i] = (<<t>> \o entries)[i]
  BY <1>1, <1>2, <1>3
<1>5. ASSUME NEW u \in Task, Stored(u)'
      PROVE  \E i \in 1 .. Len(entries') : entries'[i] = u
  <2>1. CASE u = t
    BY <1>1, <1>2, <1>3, <1>4, <2>1
  <2>2. CASE u # t
    <3>1. Stored(u) /\ u \notin Dropped
      BY <1>1, <1>5, <2>2 DEF Insert, Stored
    <3>2. PICK i \in 1 .. Len(entries) : entries[i] = u
      BY <3>1 DEF FileIsComplete
    <3>3. i + 1 \in 1 .. n
      BY <1>1, <1>3, <3>1, <3>2, LocalQueueAssumption DEF Dropped
    <3> QED
      BY <1>2, <1>4, <3>2, <3>3
  <2> QED
    BY <2>1, <2>2
<1> QED
  BY <1>5 DEF FileIsComplete

\* A task that is created joins the file, watched by the drainer launched with it.
LEMMA InsertKeepsWatch ==
  ASSUME Inv, Watch, NEW t \in Task, CreateGated(t) \/ \E r \in Runner : CreateQueued(t, r)
  PROVE  Watch'
<1>1. PICK s \in {"waiting_approval", "queued"} :
        /\ Insert(t, s)
        /\ \/ s = "waiting_approval" /\ UNCHANGED <<phase, want>>
           \/ \E r \in Runner : Launch(r, None)
  BY DEF CreateGated, CreateQueued
<1>2. FileIsComplete'
  BY <1>1, InsertKeepsFile DEF Inv, Watch, Statuses
<1>3. \A r \in Runner : (Busy(r) <=> Busy(r)') /\ (Holds(r) <=> Holds(r)')
  BY <1>1 DEF Inv, TypeOK, Launch, Holds, Busy, BusyPhases
<1>4. \A r \in Runner : phase[r] = "waiting" => phase'[r] = "waiting"
  BY <1>1 DEF Inv, TypeOK, Launch
<1>5. RunningIsRun'
  BY <1>1, <1>3 DEF Inv, TypeOK, Watch, RunningIsRun, Insert
<1>6. AllDrain'
  BY <1>1 DEF Inv, TypeOK, Watch, AllDrain, Launch
<1>7. QueuedIsWatched'
  <2>1. CASE \E r \in Runner : Launch(r, None)
    BY <2>1 DEF QueuedIsWatched, Launch, Inv, TypeOK
  <2>2. CASE s = "waiting_approval"
    BY <1>1, <1>3, <1>4, <2>2 DEF Inv, TypeOK, Watch, QueuedIsWatched, Insert
  <2> QED
    BY <1>1, <2>1, <2>2
<1> QED
  BY <1>2, <1>5, <1>6, <1>7 DEF Watch

\* The decisions of the owner: only an approval queues a task, and it launches a drainer.
LEMMA WindowKeepsWatch ==
  ASSUME Inv, Watch, Window
  PROVE  Watch'
<1>1. ASSUME NEW t \in Task, NEW r \in Runner, RunTask(t, r)
      PROVE  Watch'
  <2>1. DirectRuns /\ UNCHANGED <<entries, status, job, crashes>>
    BY <1>1 DEF RunTask, fileVars
  <2>2. \A q \in Runner : Busy(q) => Busy(q)'
    BY <1>1 DEF RunTask, Launch, Inv, TypeOK, Busy, BusyPhases
  <2> QED
    BY <2>1, <2>2 DEF Watch, FileIsComplete, Stored, RunningIsRun, QueuedIsWatched, AllDrain
<1>2. ASSUME NEW t \in Task, NEW r \in Runner, Approve(t, r)
      PROVE  Watch'
  <2>1. /\ UNCHANGED <<entries, job, crashes>> /\ Stored(t)
        /\ phase' = [phase EXCEPT ![r] = "waiting"] /\ want' = [want EXCEPT ![r] = None]
        /\ phase[r] = "unborn"
    BY <1>2 DEF Approve, Launch
  <2>2. \A u \in Task : /\ Stored(u)' => Stored(u)
                        /\ status'[u] \in {"running", "cancelling"} => status'[u] = status[u]
    BY <1>2, <2>1 DEF Approve, Inv, TypeOK, Stored
  <2>3. \A q \in Runner : Busy(q) => Busy(q)'
    BY <2>1 DEF Inv, TypeOK, Busy, BusyPhases
  <2>4. phase'[r] = "waiting"
    BY <2>1 DEF Inv, TypeOK
  <2>5. FileIsComplete' /\ RunningIsRun'
    BY <2>1, <2>2, <2>3 DEF Watch, FileIsComplete, RunningIsRun
  <2>6. QueuedIsWatched' /\ AllDrain'
    BY <2>1, <2>4 DEF Watch, QueuedIsWatched, AllDrain, Inv, TypeOK
  <2> QED
    BY <2>5, <2>6 DEF Watch
<1>3. ASSUME NEW t \in Task, Cancel(t)
      PROVE  Watch'
  <2>1. UNCHANGED <<entries, job, crashes, phase, want>> /\ Stored(t)
    BY <1>3 DEF Cancel, runnerVars
  <2>2. \A u \in Task : /\ Stored(u)' => Stored(u)
                        /\ status'[u] = "evicted" <=> status[u] = "evicted"
                        /\ status'[u] = "queued" => status[u] = "queued"
                        /\ status'[u] \in {"running", "cancelling"} =>
                             status[u] \in {"running", "cancelling"}
    BY <1>3, <2>1 DEF Cancel, Inv, TypeOK, Stored
  <2> QED
    BY <2>1, <2>2 DEF Watch, FileIsComplete, RunningIsRun, QueuedIsWatched, AllDrain, Busy, Holds
<1> QED
  BY <1>1, <1>2, <1>3, InsertKeepsWatch DEF Window

\* A runner that takes the lock finds no run under way, and will look at the file.
LEMMA AcquireKeepsWatch ==
  ASSUME Inv, Watch, NEW r \in Runner, Acquire(r)
  PROVE  Watch'
<1>1. /\ UNCHANGED <<entries, want, job, crashes>>
      /\ phase' = [phase EXCEPT ![r] = "draining"] /\ phase'[r] = "draining"
  BY DEF Acquire, Inv, TypeOK
<1>2. \A u \in Task : /\ Stored(u)' => Stored(u)
                      /\ status'[u] \notin {"running", "cancelling"}
  BY DEF Acquire, Recover, Interrupted, Inv, TypeOK, Stored
<1> QED
  BY <1>1, <1>2 DEF Watch, FileIsComplete, RunningIsRun, QueuedIsWatched, AllDrain, Holds

\* The runner that marks a task as running is the one that runs it.
LEMMA ClaimKeepsWatch ==
  ASSUME Inv, Watch, NEW r \in Runner, Claim(r)
  PROVE  Watch'
<1>1. PICK t \in Task : /\ status[t] = "queued"
                        /\ status' = [status EXCEPT ![t] = "running"]
                        /\ job' = [job EXCEPT ![r] = t]
  <2>1. \A i \in 1 .. Len(entries) : entries[i] \in Task
    BY DEF Inv, TypeOK
  <2> QED
    BY <2>1 DEF Claim, Claimable
<1>2. /\ UNCHANGED <<entries, want, crashes>> /\ phase[r] = "draining"
      /\ phase' = [phase EXCEPT ![r] = "executing"]
  BY DEF Claim
<1>3. Busy(r)' /\ Holds(r)' /\ job'[r] = t
  BY <1>1, <1>2 DEF Inv, TypeOK, Busy, Holds, BusyPhases
<1>4. \A q \in Runner : ~Busy(q)
  BY <1>2 DEF Inv, OneHolder, Holds, Busy, BusyPhases
<1>5. FileIsComplete'
  BY <1>1, <1>2 DEF Inv, TypeOK, Watch, FileIsComplete, Stored
<1>6. RunningIsRun'
  BY <1>1, <1>2, <1>3, <1>4 DEF Inv, TypeOK, Watch, RunningIsRun
<1> QED
  BY <1>2, <1>3, <1>5, <1>6 DEF Watch, QueuedIsWatched, AllDrain

\* A runner leaves the lock when no queued task is in the file, and the file is complete.
LEMMA DrainedKeepsWatch ==
  ASSUME Inv, Watch, NEW r \in Runner, Drained(r)
  PROVE  Watch'
<1>1. UNCHANGED <<entries, status, want, job, crashes>> /\ phase' = [phase EXCEPT ![r] = "gone"]
  BY DEF Drained, fileVars
<1>2. \A q \in Runner : Busy(q) => Busy(q)'
  BY <1>1 DEF Drained, Inv, TypeOK, Busy, BusyPhases
<1>3. ~DirectRuns => \A t \in Task : status[t] # "queued"
  BY DEF Drained, Claimable, Watch, AllDrain, FileIsComplete, Stored
<1> QED
  BY <1>1, <1>2, <1>3 DEF Watch, FileIsComplete, Stored, RunningIsRun, QueuedIsWatched, AllDrain

\* A runner that moves on within its task, or ends because it is killed, gave up while
\* another one worked, or lost its task.
LEMMA GoesKeepsWatch ==
  ASSUME Inv, Watch, NEW r \in Runner, NEW p \in BusyPhases \cup {"gone"},
         phase' = [phase EXCEPT ![r] = p],
         UNCHANGED <<fileVars, want, job>>, crashes' \in Nat,
         \/ p # "gone" /\ Busy(r) /\ crashes' = crashes
         \/ crashes' # 0
         \/ phase[r] = "waiting" /\ (\E q \in Runner : Busy(q)) /\ crashes' = crashes
         \/ Busy(r) /\ status[job[r]] = "evicted" /\ crashes' = crashes
  PROVE  Watch'
<1>1. FileIsComplete' /\ AllDrain'
  BY DEF Watch, FileIsComplete, Stored, AllDrain, fileVars
<1>2. ASSUME crashes' = 0
      PROVE  \A q \in Runner : Busy(q) /\ status[job[q]] # "evicted" => Busy(q)' /\ Holds(q)'
  BY <1>2 DEF Inv, TypeOK, Busy, Holds, BusyPhases
<1>3. RunningIsRun'
  BY <1>2 DEF Watch, RunningIsRun, fileVars
<1>4. ASSUME crashes' = 0, \A t \in Task : status[t] # "evicted",
             NEW q \in Runner, phase[q] = "waiting" \/ Holds(q)
      PROVE  \E o \in Runner : phase'[o] = "waiting" \/ Holds(o)'
  <2>1. \A o \in Runner : Busy(o) => Holds(o)'
    BY <1>2, <1>4 DEF Inv, ExecutionIsExclusive
  <2>2. q # r => phase'[q] = phase[q] /\ (Holds(q)' <=> Holds(q))
    BY DEF Inv, TypeOK, Holds, Busy
  <2>3. q = r => \E o \in Runner : Busy(o)
    BY <1>4 DEF Inv, ExecutionIsExclusive
  <2> QED
    BY <1>4, <2>1, <2>2, <2>3
<1>5. QueuedIsWatched'
  BY <1>4 DEF Watch, QueuedIsWatched, fileVars
<1> QED
  BY <1>1, <1>3, <1>5 DEF Watch

\* A runner that has finished its task goes on draining.
LEMMA FinishKeepsWatch ==
  ASSUME Inv, Watch, NEW r \in Runner, Busy(r),
         NEW s \in {"completed", "failed", "cancelled"}, NEW c \in BOOLEAN, Finish(r, s, c)
  PROVE  Watch'
<1>1. /\ UNCHANGED <<entries, want, crashes>> /\ job[r] \in Task
      /\ status' = [status EXCEPT ![job[r]] = s]
      /\ phase' = [phase EXCEPT ![r] = NextRound(r)] /\ job' = [job EXCEPT ![r] = None]
      /\ status[job[r]] \notin {"absent", "evicted"}
  BY DEF Inv, ExecutionIsExclusive, Finish
<1>2. \A u \in Task : /\ Stored(u)' => Stored(u)
                      /\ status'[u] = "evicted" <=> status[u] = "evicted"
                      /\ status'[u] = "queued" => status[u] = "queued"
                      /\ status'[u] \in {"running", "cancelling"} =>
                           u # job[r] /\ status[u] \in {"running", "cancelling"}
  BY <1>1 DEF Inv, TypeOK, Stored
<1>3. FileIsComplete'
  BY <1>1, <1>2 DEF Watch, FileIsComplete
<1>4. RunningIsRun'
  BY <1>1, <1>2 DEF Inv, ExecutionIsExclusive, Watch, RunningIsRun
<1>5. ~DirectRuns => phase'[r] = "draining"
  BY <1>1 DEF Watch, AllDrain, NextRound, Inv, TypeOK
<1> QED
  BY <1>1, <1>3, <1>4, <1>5 DEF Watch, QueuedIsWatched, AllDrain, Holds

\* Every step preserves Watch.
LEMMA WatchStep ==
  ASSUME Inv, Watch, [Next]_vars
  PROVE  Watch'
<1>0. crashes \in Nat
  BY LocalQueueAssumption DEF Inv, TypeOK
<1>1. CASE UNCHANGED vars
  BY <1>1 DEF vars, fileVars, runnerVars, Watch, FileIsComplete, Stored, RunningIsRun,
         QueuedIsWatched, AllDrain, Busy, Holds
<1>2. ASSUME NEW r \in Runner, Work(r)
      PROVE  Watch'
  <2>1. CASE Complete(r) \/ Fail(r) \/ FinishCancelled(r)
    <3>1. Busy(r) /\ \E s \in {"completed", "failed", "cancelled"}, c \in BOOLEAN : Finish(r, s, c)
      BY <2>1 DEF Complete, Fail, FinishCancelled, Busy, BusyPhases
    <3> QED
      BY <3>1, FinishKeepsWatch
  <2>2. CASE Checkpoint(r) \/ CheckpointUnreadable(r) \/ ExecuteFails(r) \/ CompleteFails(r)
    <3>1. PICK p \in BusyPhases : Busy(r) /\ Goes(r, p)
      BY <2>2 DEF Checkpoint, CheckpointUnreadable, ExecuteFails, CompleteFails, Busy, BusyPhases
    <3>2. p # "gone"
      BY DEF BusyPhases
    <3> QED
      BY <1>0, <3>1, <3>2, GoesKeepsWatch DEF Goes
  <2>3. CASE LoseTask(r)
    BY <1>0, <2>3, GoesKeepsWatch DEF LoseTask, Goes
  <2> QED
    BY <1>2, <2>1, <2>2, <2>3, AcquireKeepsWatch, ClaimKeepsWatch, DrainedKeepsWatch DEF Work
<1>3. ASSUME NEW r \in Runner, GiveUp(r)
      PROVE  Watch'
  BY <1>0, <1>3, GoesKeepsWatch DEF GiveUp
<1>4. ASSUME NEW r \in Runner, Crash(r)
      PROVE  Watch'
  <2>1. crashes' \in Nat /\ crashes' # 0
    BY <1>0, <1>4 DEF Crash
  <2>2. phase' = [phase EXCEPT ![r] = "gone"] /\ UNCHANGED <<fileVars, want, job>>
    BY <1>4 DEF Crash
  <2> QED
    BY <2>1, <2>2, GoesKeepsWatch
<1> QED
  BY <1>1, <1>2, <1>3, <1>4, WindowKeepsWatch DEF Next

\* Watch holds in every reachable state.
LEMMA WatchHolds == Spec => []Watch
<1>1. Init => Watch
  BY DEF Init, Watch, FileIsComplete, Stored, RunningIsRun, QueuedIsWatched, AllDrain
<1> QED
  BY <1>1, WatchStep, Invariance, PTL DEF Spec

\* The safety core of CancelIsAnswered: while no runner is killed, a task that is marked
\* as running or cancelling is in the hands of a runner (claim, run_once).
THEOREM RunsHaveARunner == Spec => []RunningIsRun
<1>1. Watch => RunningIsRun
  BY DEF Watch
<1> QED
  BY <1>1, WatchHolds, PTL

\* The safety core of QueuedIsTaken: no drainer ends, by itself or because it has waited
\* long enough (local_runner_lock), while it is the last one to look at a queued task.
THEOREM NoQueuedTaskIsLeftBehind == Spec => []QueuedIsWatched
<1>1. Watch => QueuedIsWatched
  BY DEF Watch
<1> QED
  BY <1>1, WatchHolds, PTL

\* VerdictsStand: the lock keeps every runner that could write of a task from one that
\* is over (recover_interrupted, run_once), and the window's transitions start elsewhere.
THEOREM VerdictsAreFinal == Spec => VerdictsStand
<1> DEFINE Stands(t) == status[t] \in {"completed", "cancelled"} =>
                          status'[t] \in {status[t], "evicted"} /\ attempt'[t] = attempt[t]
<1>1. ASSUME Inv, [Next]_vars
      PROVE  \A t \in Task : Stands(t)
  <2> TAKE t \in Task
  <2>1. CASE Window
    BY <1>1, <2>1 DEF Window, CreateGated, Cancel, CreateQueued, RunTask, Approve, Insert, Inv,
           TypeOK, fileVars
  <2>2. ASSUME NEW r \in Runner, Acquire(r) \/ Claim(r)
        PROVE  Stands(t)
    BY <1>1, <2>2 DEF Acquire, Recover, Claim, Claimable, Inv, TypeOK
  <2>3. ASSUME NEW r \in Runner, Complete(r) \/ Fail(r) \/ FinishCancelled(r)
        PROVE  Stands(t)
    <3>1. Busy(r) /\ \E s \in Statuses, c \in BOOLEAN : Finish(r, s, c)
      BY <2>3 DEF Complete, Fail, FinishCancelled, Busy, BusyPhases, Statuses
    <3>2. status[job[r]] \in {"running", "cancelling", "evicted"}
      BY <1>1, <3>1 DEF Inv, ExecutionIsExclusive
    <3> QED
      BY <1>1, <3>1, <3>2 DEF Finish, Inv, TypeOK
  <2>4. CASE UNCHANGED fileVars
    BY <2>4 DEF fileVars
  <2>5. ASSUME NEW r \in Runner, Work(r) \/ GiveUp(r) \/ Crash(r)
        PROVE  Stands(t)
    BY <2>2, <2>3, <2>4, <2>5 DEF Work, Drained, Checkpoint, CheckpointUnreadable, ExecuteFails,
           CompleteFails, LoseTask, Goes, GiveUp, Crash
  <2> QED
    BY <1>1, <2>1, <2>4, <2>5 DEF Next, vars
<1> QED
  BY <1>1, Invariance, PTL DEF Spec, VerdictsStand
=============================================================================
