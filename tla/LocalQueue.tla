----------------------------- MODULE LocalQueue -----------------------------
(***************************************************************************)
(* The private task queue of a Desktop in local mode: LocalTaskStore in    *)
(* src/src/smara/local_agent.py, a bounded JSON file; LocalRunner in       *)
(* desktop_executor.py, a detached process that drains it; and the window  *)
(* of apps/desktop, which creates, approves and cancels tasks and launches *)
(* a runner after each creation or approval.                               *)
(*                                                                         *)
(* Every mutation of the file happens under its own lock, so one action is *)
(* one mutation together with the code up to the next one.  Runners hold a *)
(* second lock from recovery to exit, and the operating system releases it *)
(* when a runner dies.                                                     *)
(***************************************************************************)
EXTENDS Naturals, Sequences

CONSTANTS
  Task,        \* task identities
  Runner,      \* runner processes launched in a behaviour
  None,        \* no task
  MaxEntries,  \* max_entries: tasks the file keeps
  DirectRuns,  \* chat turns also run their own task (--local-run-task)
  MaxCrashes   \* bound: runners killed in a behaviour

ASSUME LocalQueueAssumption ==
  /\ None \notin Task
  /\ MaxEntries \in Nat \ {0}
  /\ DirectRuns \in BOOLEAN
  /\ MaxCrashes \in Nat

VARIABLES
  entries,    \* the file: tasks, newest first
  status,     \* status of a task; "absent" before create, "evicted" once dropped
  cancelReq,  \* cancel_requested
  attempt,    \* attempt
  phase,      \* where a runner process is
  want,       \* the task of --local-run-task, None for --local-run
  job,        \* the task a runner is executing
  granted,    \* history: starts of a task allowed by its creation or its owner
  crashes     \* runners killed so far

fileVars   == <<entries, status, cancelReq, attempt>>
runnerVars == <<phase, want, job>>
vars       == <<fileVars, runnerVars, granted, crashes>>

Statuses == {"queued", "waiting_approval", "running", "cancelling",
             "review_required", "completed", "failed", "cancelled"}

\* A busy runner has claimed a task: it executes it, is about to record its
\* result, its failure or its cancellation.
BusyPhases == {"executing", "committing", "failing", "stopping"}
Phases     == {"unborn", "waiting", "draining", "gone"} \cup BusyPhases

TypeOK ==
  /\ entries \in Seq(Task)
  /\ status \in [Task -> Statuses \cup {"absent", "evicted"}]
  /\ cancelReq \in [Task -> BOOLEAN]
  /\ attempt \in [Task -> Nat]
  /\ phase \in [Runner -> Phases]
  /\ want \in [Runner -> Task \cup {None}]
  /\ job \in [Runner -> Task \cup {None}]
  /\ granted \in [Task -> Nat]
  /\ crashes \in 0 .. MaxCrashes

Init ==
  /\ entries = <<>>
  /\ status = [t \in Task |-> "absent"]
  /\ cancelReq = [t \in Task |-> FALSE]
  /\ attempt = [t \in Task |-> 0]
  /\ phase = [r \in Runner |-> "unborn"]
  /\ want = [r \in Runner |-> None]
  /\ job = [r \in Runner |-> None]
  /\ granted = [t \in Task |-> 0]
  /\ crashes = 0

Busy(r)    == phase[r] \in BusyPhases
Holds(r)   == phase[r] = "draining" \/ Busy(r)
LockFree   == \A r \in Runner : ~Holds(r)
Stored(t)  == status[t] \notin {"absent", "evicted"}

-----------------------------------------------------------------------------
(* The window *)

Launch(r, t) ==
  /\ phase[r] = "unborn"
  /\ phase' = [phase EXCEPT ![r] = "waiting"]
  /\ want' = [want EXCEPT ![r] = t]

\* The file keeps the newest MaxEntries tasks, whatever the status of the others.
Dropped == IF Len(entries) < MaxEntries THEN {}
           ELSE {entries[i] : i \in MaxEntries .. Len(entries)}

Insert(t, s) ==
  /\ status[t] = "absent"
  /\ entries' = SubSeq(<<t>> \o entries, 1,
                       IF Len(entries) < MaxEntries THEN Len(entries) + 1 ELSE MaxEntries)
  /\ status' = [u \in Task |-> IF u = t THEN s
                               ELSE IF u \in Dropped THEN "evicted" ELSE status[u]]
  /\ UNCHANGED <<cancelReq, attempt, job, crashes>>

\* A task that needs approval (approval_mode "ask", and every file deletion).
CreateGated(t) ==
  /\ Insert(t, "waiting_approval")
  /\ UNCHANGED <<phase, want, granted>>

\* A task under approval_mode "auto" is queued and a drainer launched.
CreateQueued(t, r) ==
  /\ Insert(t, "queued")
  /\ granted' = [granted EXCEPT ![t] = @ + 1]
  /\ Launch(r, None)

\* execute_local_action_and_get_result runs the task it has just created.
RunTask(t, r) ==
  /\ DirectRuns /\ status[t] # "absent"
  /\ Launch(r, t)
  /\ UNCHANGED <<fileVars, job, granted, crashes>>

\* decide_local_task(approved): approve the task, or find it already on its way,
\* then launch a drainer.  A cancelled or unknown task is refused.
Approve(t, r) ==
  /\ Stored(t) /\ status[t] # "cancelled"
  /\ Launch(r, None)
  /\ IF status[t] \in {"waiting_approval", "review_required", "failed"}
     THEN /\ status' = [status EXCEPT ![t] = "queued"]
          /\ cancelReq' = [cancelReq EXCEPT ![t] = FALSE]
          /\ granted' = [granted EXCEPT ![t] = @ + 1]
     ELSE UNCHANGED <<status, cancelReq, granted>>
  /\ UNCHANGED <<entries, attempt, job, crashes>>

\* decide_local_task(denied).
Cancel(t) ==
  /\ Stored(t) /\ status[t] \notin {"completed", "failed", "cancelled"}
  /\ status' = [status EXCEPT ![t] =
                  IF @ \in {"running", "cancelling"} THEN "cancelling" ELSE "cancelled"]
  /\ cancelReq' = [cancelReq EXCEPT ![t] = TRUE]
  /\ UNCHANGED <<entries, attempt, runnerVars, granted, crashes>>

-----------------------------------------------------------------------------
(* The runner *)

\* What recover_interrupted makes of a task that nobody can be executing.
\* Variant: it is queued again.
InterruptedReplayed == "queued"
Interrupted == "review_required"

\* Variant: the recovery leaves the cancellation request of the dead run behind.
RecoverKeepsRequest ==
  /\ status' = [t \in Task |-> IF status[t] \in {"running", "cancelling"}
                               THEN Interrupted ELSE status[t]]
  /\ UNCHANGED cancelReq

Recover ==
  /\ status' = [t \in Task |-> IF status[t] \in {"running", "cancelling"}
                               THEN Interrupted ELSE status[t]]
  /\ cancelReq' = [t \in Task |-> cancelReq[t] /\ status[t] \notin {"running", "cancelling"}]

\* Variant: a runner that has waited long enough goes ahead without the lock.
AcquireAnyway(r) ==
  /\ phase[r] = "waiting"
  /\ Recover
  /\ phase' = [phase EXCEPT ![r] = "draining"]
  /\ UNCHANGED <<entries, attempt, want, job, granted, crashes>>

Acquire(r) ==
  /\ phase[r] = "waiting" /\ LockFree
  /\ Recover
  /\ phase' = [phase EXCEPT ![r] = "draining"]
  /\ UNCHANGED <<entries, attempt, want, job, granted, crashes>>

\* The lock was taken for all of the waiting time.
GiveUp(r) ==
  /\ phase[r] = "waiting"
  /\ \E q \in Runner : Busy(q)
  /\ phase' = [phase EXCEPT ![r] = "gone"]
  /\ UNCHANGED <<fileVars, want, job, granted, crashes>>

\* Position i of the file holds a queued task this runner may claim.
Claimable(r, i) == status[entries[i]] = "queued" /\ want[r] \in {None, entries[i]}

Claim(r) ==
  /\ phase[r] = "draining"
  /\ \E i \in 1 .. Len(entries) :
       /\ Claimable(r, i)
       /\ \A j \in 1 .. i - 1 : ~Claimable(r, j)
       /\ LET t == entries[i] IN
            /\ status' = [status EXCEPT ![t] = "running"]
            /\ attempt' = [attempt EXCEPT ![t] = @ + 1]
            /\ cancelReq' = [cancelReq EXCEPT ![t] = FALSE]
            /\ job' = [job EXCEPT ![r] = t]
  /\ phase' = [phase EXCEPT ![r] = "executing"]
  /\ UNCHANGED <<entries, want, granted, crashes>>

\* Nothing to claim: the process releases its lock and exits.
Drained(r) ==
  /\ phase[r] = "draining"
  /\ \A i \in 1 .. Len(entries) : ~Claimable(r, i)
  /\ phase' = [phase EXCEPT ![r] = "gone"]
  /\ UNCHANGED <<fileVars, want, job, granted, crashes>>

Goes(r, p) ==
  /\ phase' = [phase EXCEPT ![r] = p]
  /\ UNCHANGED <<fileVars, want, job, granted, crashes>>

ShouldCancel(t) ==
  cancelReq[t] \/ status[t] \in {"cancelling", "cancelled", "evicted"}

\* The checkpoints inside execute_step and the one after it.
Checkpoint(r) ==
  /\ phase[r] = "executing"
  /\ Goes(r, IF ShouldCancel(job[r]) THEN "stopping" ELSE "committing")

\* get answers an unreadable file with "no such task", which reads as cancelled.
CheckpointUnreadable(r) == phase[r] = "executing" /\ Goes(r, "stopping")

\* execute_step raises.
ExecuteFails(r) == phase[r] = "executing" /\ Goes(r, "failing")

\* After one task: --local-run claims on, --local-run-task exits.
\* Variant: every runner stops after its first task.
NextRoundNever(r) == "gone"
NextRound(r) == IF want[r] = None THEN "draining" ELSE "gone"

Finish(r, s, requested) ==
  LET t == job[r] IN
  /\ status[t] # "evicted"
  /\ status' = [status EXCEPT ![t] = s]
  /\ cancelReq' = [cancelReq EXCEPT ![t] = requested]
  /\ phase' = [phase EXCEPT ![r] = NextRound(r)]
  /\ job' = [job EXCEPT ![r] = None]
  /\ UNCHANGED <<entries, attempt, want, granted, crashes>>

\* A cancelling task has no transition to completed.
Complete(r) ==
  /\ phase[r] = "committing" /\ status[job[r]] = "running"
  /\ Finish(r, "completed", FALSE)

\* complete raises: the transition is refused, the file is busy or unwritable.
\* Variant: run_once does not catch it, and the process ends.
CompleteFailsUncaught(r) ==
  /\ phase[r] = "committing" /\ status[job[r]] # "evicted"
  /\ Goes(r, "gone")

CompleteFails(r) ==
  /\ phase[r] = "committing" /\ status[job[r]] # "evicted"
  /\ Goes(r, "failing")

Fail(r) == phase[r] = "failing" /\ Finish(r, "failed", FALSE)

FinishCancelled(r) == phase[r] = "stopping" /\ Finish(r, "cancelled", TRUE)

\* Every store method raises KeyError for an evicted task, which run_once does
\* not catch.
LoseTask(r) ==
  /\ Busy(r) /\ status[job[r]] = "evicted"
  /\ Goes(r, "gone")

\* The process is killed; an uncaught exception ends it in the same way.
Crash(r) ==
  /\ phase[r] = "waiting" \/ Holds(r)
  /\ crashes < MaxCrashes
  /\ crashes' = crashes + 1
  /\ phase' = [phase EXCEPT ![r] = "gone"]
  /\ UNCHANGED <<fileVars, want, job, granted>>

-----------------------------------------------------------------------------

Window ==
  \/ \E t \in Task : CreateGated(t) \/ Cancel(t)
  \/ \E t \in Task, r \in Runner : CreateQueued(t, r) \/ RunTask(t, r) \/ Approve(t, r)

\* What a living runner does of its own accord.
Work(r) ==
  \/ Acquire(r)
  \/ Claim(r)
  \/ Drained(r)
  \/ Checkpoint(r)
  \/ CheckpointUnreadable(r)
  \/ ExecuteFails(r)
  \/ Complete(r)
  \/ CompleteFails(r)
  \/ Fail(r)
  \/ FinishCancelled(r)
  \/ LoseTask(r)

Next ==
  \/ Window
  \/ \E r \in Runner : Work(r) \/ GiveUp(r) \/ Crash(r)

Spec == Init /\ [][Next]_vars

\* A runner keeps polling its lock every 0.1 s, and execute_step ends: each
\* capability has its own deadline.
FairSpec == Spec /\ \A r \in Runner : WF_vars(Work(r))

-----------------------------------------------------------------------------
(* Safety *)

\* Two runners never execute at a time, and what a runner executes is marked as
\* executing: recovery, which any runner performs on every task in progress,
\* never hits a live run, and no second run of its task can be claimed.
ExecutionIsExclusive ==
  \A r \in Runner : Busy(r) =>
    /\ job[r] \in Task
    /\ status[job[r]] \in {"running", "cancelling", "evicted"}
    /\ \A q \in Runner : Busy(q) => q = r

\* README.md:259 ("never replayed until the owner explicitly retries it"): every
\* start of a task is matched by one permission, the automatic one of its
\* creation or an approval; interruptions, failures and cancellations give none.
StartsAreGranted ==
  \A t \in Task : attempt[t] + (IF status[t] = "queued" THEN 1 ELSE 0) <= granted[t]

\* A cancellation request stands only while it is carried out or has been:
\* none is left behind by an interruption, a failure or a completion to stop
\* the next run of the task at its first checkpoint.
RequestIsCurrent ==
  \A t \in Task : cancelReq[t] => status[t] \in {"cancelling", "cancelled", "evicted"}

\* A task that was completed or cancelled is not touched again, by an approval, by
\* recovery, or by a runner that is still on its way from an earlier run.
VerdictsStand ==
  [][\A t \in Task : status[t] \in {"completed", "cancelled"} =>
       status'[t] \in {status[t], "evicted"} /\ attempt'[t] = attempt[t]]_vars

\* The inductive invariant: the lock makes recovery safe.
OneHolder == \A q, r \in Runner : Holds(q) /\ Holds(r) => q = r

Inv ==
  /\ TypeOK
  /\ OneHolder
  /\ ExecutionIsExclusive
  /\ StartsAreGranted
  /\ RequestIsCurrent

-----------------------------------------------------------------------------
(* What progress rests on *)

\* The file has every task that was created and not evicted.
FileIsComplete ==
  \A t \in Task : Stored(t) => \E i \in 1 .. Len(entries) : entries[i] = t

\* As long as no runner is killed, a task that is marked as running is being run: a
\* cancellation of it has somebody to answer it.
RunningIsRun ==
  crashes = 0 =>
    \A t \in Task : status[t] \in {"running", "cancelling"} =>
      \E r \in Runner : Busy(r) /\ job[r] = t

\* No queued task is left behind: a runner waits for the lock or has it, which will
\* look at the file once more, although the drainer launched for the task may have
\* given up.  A killed runner, one that lost its task to an eviction and one that was
\* launched for a task of its own do not look.
QueuedIsWatched ==
  crashes = 0 /\ ~DirectRuns /\ (\A t \in Task : status[t] # "evicted") =>
    \A t \in Task : status[t] = "queued" =>
      \E r \in Runner : phase[r] = "waiting" \/ Holds(r)

\* Without --local-run-task every runner drains the queue.
AllDrain == ~DirectRuns => \A r \in Runner : want[r] = None

Watch == FileIsComplete /\ RunningIsRun /\ QueuedIsWatched /\ AllDrain

-----------------------------------------------------------------------------
(* Liveness *)

\* A queued task is taken up, although the drainer launched for it may give up
\* while another runner works: desktop_executor.py:655 ("Serialize detached
\* local queue drainers, waiting for the active run").
QueuedIsTaken == \A t \in Task : status[t] = "queued" ~> status[t] # "queued"

\* A cancellation of running work is carried out, or overtaken by a failure.
CancelIsAnswered ==
  \A t \in Task : status[t] = "cancelling" ~> status[t] # "cancelling"
=============================================================================
