---------------------------- MODULE SessionEngine ----------------------------
(***************************************************************************)
(* The execution journal of one agent session (harness.py, SessionEngine)  *)
(* under the agent loop that uses it (autonomous_agent.py).  A process     *)
(* reserves a provider request, sends it, and runs the tool calls the      *)
(* answer asks for; the journal in SQLite records a call before and after  *)
(* it runs.  A file lock that nobody waits for keeps one writer at a time; *)
(* cancel is the one writer that takes no lock.  After a crash, or next to *)
(* a process that still works, another process may resume the session.     *)
(***************************************************************************)
EXTENDS Integers, FiniteSets

CONSTANTS
  None,
  Proc,                \* processes: one starts the session, the others resume it
  Write, Check, Read,  \* call ids: tools that edit the workspace, terminal
                       \* commands that test it, and reads that may be reused
  Revision, First,     \* workspace_revision: a hash, so an old one can come back
  Valid,               \* revisions in which every declared artifact passes its validator
  MaxTools, MaxModels, MaxTokens,   \* the budget of the session
  Estimate, Actual,    \* billed tokens: as reserved, and as providers report them
  MaxAttempts,         \* requests for one reservation
  MaxEdits, MaxCrashes              \* bounds on edits by others and on crashes

ASSUME BudgetsAreNaturals ==
  {MaxTools, MaxModels, MaxTokens, Estimate, MaxAttempts, MaxEdits, MaxCrashes} \subseteq Nat
ASSUME UsageIsNatural == Actual \subseteq Nat
ASSUME FirstIsARevision == First \in Revision
ASSUME ValidAreRevisions == Valid \subseteq Revision
ASSUME KindsAreDisjoint == Check \cap Read = {} /\ Write \cap Read = {} /\ Write \cap Check = {}
ASSUME NoneIsNoCall == None \notin Write \cup Check \cup Read

Call     == Write \cup Check \cup Read
Mutating == Write \cup Check      \* terminal commands count as mutating
Status   == {"completed", "needs_input", "budget_exhausted", "tool_error"}
Rows     == {"none", "pending", "admitted", "completed", "reused"}
Stages   == {"idle", "resuming", "ready", "asking", "entered", "running", "ran", "closing", "over"}

VARIABLES
  started, cancelled, paused, result,   \* the state table
  declared,            \* whether the output contract of the session names artifacts
  row, changed,        \* calls: state, and whether before and after differ; "reused"
                       \* is a completed row without a result
  evidence, cache,     \* revisions with a passing check; revisions with a cached read
  tools, models, tokens,                \* usage
  rev,                 \* the workspace
  stage, at, before, passed, tries,     \* a process: its call, the revision it read, the
                                        \* verdict of its check, its attempts
  edits, crashes,      \* counted for the bounds
  effects, runs, late, \* calls whose tool acted; runs of tools; those admitted after cancel
  tested, blurred,     \* revisions that a check which passed has left; those edited in
                       \* between its verdict and the reading of the revision
  known, open          \* tokens reported; tokens reserved for what nobody reported

stateVars == <<started, cancelled, paused, result, declared>>
callVars  == <<row, changed, evidence, cache, tools>>
modelVars == <<models, tokens, known, open>>
procVars  == <<stage, at, before, passed, tries>>
workVars  == <<rev, edits, tested, blurred>>
pastVars  == <<effects, runs, late>>
vars == <<stateVars, callVars, modelVars, procVars, workVars, pastVars, crashes>>

Init ==
  /\ started = FALSE /\ cancelled = FALSE /\ paused = FALSE /\ result = "none"
  /\ declared \in BOOLEAN
  /\ row = [c \in Call |-> "none"]
  /\ changed = [c \in Call |-> FALSE]
  /\ evidence = {} /\ cache = {}
  /\ tools = 0 /\ models = 0 /\ tokens = 0
  /\ rev = First
  /\ stage = [p \in Proc |-> "idle"]
  /\ at = [p \in Proc |-> None]
  /\ before = [p \in Proc |-> First]
  /\ passed = [p \in Proc |-> FALSE]
  /\ tries = [p \in Proc |-> 0]
  /\ edits = 0 /\ crashes = 0
  /\ effects = [c \in Call |-> 0]
  /\ runs = 0 /\ late = 0
  /\ tested = {} /\ blurred = {}
  /\ known = 0 /\ open = 0

-----------------------------------------------------------------------------
(* The writer lock.  A tool runs under it; every other operation takes and *)
(* releases it within a step.  Whoever finds it taken gets SessionBusy.    *)

Holds(p) == stage[p] \in {"entered", "running", "ran"}
Free     == \A p \in Proc : ~Holds(p)
Goes(p, s) == stage' = [stage EXCEPT ![p] = s]

\* A process that has left its call, its request or the session.
Leaves(p, s) == /\ Goes(p, s)
                /\ at' = [at EXCEPT ![p] = None]
                /\ before' = [before EXCEPT ![p] = First]
                /\ passed' = [passed EXCEPT ![p] = FALSE]
                /\ tries' = [tries EXCEPT ![p] = 0]

Stays(p) == UNCHANGED <<at, before, passed, tries>>

-----------------------------------------------------------------------------
(* A process comes to the session.                                         *)

\* begin_incremental and the first checkpoint of a new session.
Begin(p) ==
  /\ stage[p] = "idle" /\ ~started /\ Free
  /\ started' = TRUE
  /\ Goes(p, "ready")
  /\ Stays(p)
  /\ UNCHANGED <<cancelled, paused, result, declared,
                 callVars, modelVars, workVars, pastVars, crashes>>

\* prepare_resume reads the journal without the lock ...
Inspect(p) ==
  /\ stage[p] = "idle" /\ started
  /\ ~cancelled
  /\ result # "completed"
  /\ \A c \in Mutating : row[c] # "admitted"
  /\ Goes(p, "resuming")
  /\ Stays(p)
  /\ UNCHANGED <<stateVars, callVars, modelVars, workVars, pastVars, crashes>>

\* Mutant: the usage starts again.
ResumeAnew(p) ==
  /\ stage[p] = "resuming" /\ Free
  /\ paused' = FALSE /\ tools' = 0
  /\ Goes(p, "ready")
  /\ Stays(p)
  /\ UNCHANGED <<started, cancelled, result, declared, row, changed, evidence, cache,
                 modelVars, workVars, pastVars, crashes>>

\* ... and resume_clock, begin_incremental and checkpoint with it.
Resume(p) ==
  /\ stage[p] = "resuming" /\ Free
  /\ paused' = FALSE
  /\ Goes(p, "ready")
  /\ Stays(p)
  /\ UNCHANGED <<started, cancelled, result, declared,
                 callVars, modelVars, workVars, pastVars, crashes>>

-----------------------------------------------------------------------------
(* Provider requests.                                                      *)

Affordable == models + 1 <= MaxModels /\ tokens + Estimate <= MaxTokens
\* Mutant: a cancelled session still admits.
AdmissibleCancelled == Free /\ ~paused

Admissible == Free /\ ~cancelled /\ ~paused

Charge == /\ models' = models + 1
          /\ tokens' = tokens + Estimate
          /\ open' = open + Estimate
          /\ UNCHANGED known

\* reserve_model_call
Reserve(p) ==
  /\ stage[p] = "ready"
  /\ Admissible /\ Affordable
  /\ Charge
  /\ Goes(p, "asking")
  /\ tries' = [tries EXCEPT ![p] = 1]
  /\ UNCHANGED <<at, before, passed, stateVars, callVars, workVars, pastVars, crashes>>

\* A failed attempt, or an answer that found the journal busy: reserve_model_retry.
Retry(p) ==
  /\ stage[p] = "asking" /\ tries[p] < MaxAttempts
  /\ Admissible /\ Affordable
  /\ Charge
  /\ tries' = [tries EXCEPT ![p] = @ + 1]
  /\ UNCHANGED <<stage, at, before, passed, stateVars, callVars, workVars, pastVars, crashes>>

\* BudgetExceeded or SessionBusy, the last attempt, or an answer after a
\* cancellation: what was reserved stays charged.
GiveUp(p) ==
  /\ \/ stage[p] = "ready" /\ ~(Admissible /\ Affordable)
     \/ stage[p] = "asking"
  /\ Leaves(p, "closing")
  /\ UNCHANGED <<stateVars, callVars, modelVars, workVars, pastVars, crashes>>

\* Mutant: a usage that the provider did not report is taken for none.
AnswerUnknownFree(p) ==
  /\ stage[p] = "asking" /\ Free /\ ~cancelled
  /\ Leaves(p, "ready")
  /\ tokens' = IF tokens >= Estimate THEN tokens - Estimate ELSE 0
  /\ UNCHANGED <<models, known, open, stateVars, callVars, workVars, pastVars, crashes>>

\* An answer without usage.
AnswerUnknown(p) ==
  /\ stage[p] = "asking" /\ Free /\ ~cancelled
  /\ Leaves(p, "ready")
  /\ UNCHANGED <<stateVars, callVars, modelVars, workVars, pastVars, crashes>>

\* reconcile_model_call: the last attempt costs what the provider reports.
Answer(p, n) ==
  /\ stage[p] = "asking" /\ Free /\ ~cancelled
  /\ Leaves(p, "ready")
  /\ tokens' = IF tokens - Estimate + n >= 0 THEN tokens - Estimate + n ELSE 0
  /\ known' = known + n
  /\ open' = open - Estimate
  /\ UNCHANGED <<models, stateVars, callVars, workVars, pastVars, crashes>>

-----------------------------------------------------------------------------
(* execute_incremental.                                                    *)

\* The lock is taken and the session is neither cancelled nor paused.
Enter(p, c) ==
  /\ stage[p] = "ready"
  /\ Admissible
  /\ Goes(p, "entered")
  /\ at' = [at EXCEPT ![p] = c]
  /\ UNCHANGED <<before, passed, tries, stateVars, callVars, modelVars, workVars, pastVars, crashes>>

Cached(p) == at[p] \in Read /\ rev \in cache

\* A read of this revision is answered from the cache.  The new row keeps its
\* receipt in the column of the revision and none in that of the result.
Reuse(p) ==
  /\ stage[p] = "entered" /\ Cached(p)
  /\ row' = [row EXCEPT ![at[p]] = IF @ = "none" THEN "reused" ELSE @]
  /\ Leaves(p, "ready")
  /\ UNCHANGED <<changed, evidence, cache, tools,
                 stateVars, modelVars, workVars, pastVars, crashes>>

\* Mutant: only a completed call is answered from its row.
MayRunAgain(c) == row[c] \in {"none", "pending", "admitted"}

MayRun(c) == \/ row[c] \in {"none", "pending"}
             \/ row[c] = "admitted" /\ c \notin Mutating

\* A completed call is answered from its row, an admitted write is uncertain,
\* and a reused read has no result to answer with.
Replay(p) ==
  /\ stage[p] = "entered" /\ ~Cached(p)
  /\ ~MayRun(at[p])
  /\ Leaves(p, "ready")
  /\ UNCHANGED <<stateVars, callVars, modelVars, workVars, pastVars, crashes>>

\* The row is written before the budget refuses the call.
Exhausted(p) ==
  /\ stage[p] = "entered" /\ ~Cached(p)
  /\ MayRun(at[p]) /\ tools + 1 > MaxTools
  /\ row' = [row EXCEPT ![at[p]] = IF @ = "none" THEN "pending" ELSE @]
  /\ Leaves(p, "ready")
  /\ UNCHANGED <<changed, evidence, cache, tools,
                 stateVars, modelVars, workVars, pastVars, crashes>>

Admit(p) ==
  /\ stage[p] = "entered" /\ ~Cached(p)
  /\ MayRun(at[p]) /\ tools + 1 <= MaxTools
  /\ tools' = tools + 1
  /\ row' = [row EXCEPT ![at[p]] = "admitted"]
  /\ before' = [before EXCEPT ![p] = rev]
  /\ late' = IF cancelled THEN late + 1 ELSE late
  /\ Goes(p, "running")
  /\ UNCHANGED <<at, passed, tries, changed, evidence, cache, effects, runs,
                 stateVars, modelVars, workVars, crashes>>

\* The tool acts.  A write or a command leaves some revision; a check passes or
\* fails, and what it says is of the revision it leaves.
Perform(p, r, ok) ==
  /\ stage[p] = "running"
  /\ at[p] \in Read => r = rev
  /\ ok => at[p] \in Check
  /\ rev' = r
  /\ effects' = [effects EXCEPT ![at[p]] = @ + 1]
  /\ runs' = runs + 1
  /\ passed' = [passed EXCEPT ![p] = ok]
  /\ tested' = IF ok THEN tested \cup {r} ELSE tested
  /\ Goes(p, "ran")
  /\ UNCHANGED <<at, before, tries, late, edits, blurred, stateVars, callVars, modelVars, crashes>>

\* The result is journaled with the revision it left; a check that passed is
\* evidence for that revision.
Journal(p) ==
  /\ stage[p] = "ran"
  /\ row' = [row EXCEPT ![at[p]] = "completed"]
  /\ changed' = [changed EXCEPT ![at[p]] = (before[p] # rev)]
  /\ evidence' = IF passed[p] THEN evidence \cup {rev} ELSE evidence
  /\ cache' = IF at[p] \in Read THEN cache \cup {before[p]} ELSE cache
  /\ Leaves(p, "ready")
  /\ UNCHANGED <<tools, stateVars, modelVars, workVars, pastVars, crashes>>

\* The tool raised an exception, before or after it acted: the call stays
\* admitted and the agent goes on.
Raise(p) ==
  /\ stage[p] \in {"running", "ran"}
  /\ Leaves(p, "ready")
  /\ UNCHANGED <<stateVars, callVars, modelVars, workVars, pastVars, crashes>>

-----------------------------------------------------------------------------
(* The end of a run, and what others do.                                   *)

Mutated == \E c \in Mutating : row[c] = "completed" /\ changed[c]

\* Mutant: any evidence will do.
VerifiedEver == evidence # {}

Verified == rev \in evidence

\* Each declared artifact is validated, and all of them pass.
ArtifactsHold == declared /\ rev \in Valid

\* A declared artifact that fails refuses the completion, and so do changes that
\* neither a check nor the artifacts vouch for.
Refused == \/ declared /\ ~ArtifactsHold
           \/ Mutated /\ ~Verified /\ ~ArtifactsHold

\* finish_incremental: s is what the agent proposes.
Finish(p, s) ==
  /\ stage[p] \in {"ready", "closing"} /\ Free
  /\ result' = IF s = "completed" /\ Refused THEN "needs_input" ELSE s
  /\ paused' = (paused \/ result' = "needs_input")
  /\ Leaves(p, "over")
  /\ UNCHANGED <<started, cancelled, declared, callVars, modelVars, workVars, pastVars, crashes>>

\* SessionBusy when the session is resumed or finished: the turn fails.
Fail(p) ==
  /\ stage[p] \in {"resuming", "ready", "closing"} /\ ~Free
  /\ Leaves(p, "over")
  /\ UNCHANGED <<stateVars, callVars, modelVars, workVars, pastVars, crashes>>

\* cancel takes no lock.
Cancel ==
  /\ started /\ ~cancelled
  /\ cancelled' = TRUE
  /\ UNCHANGED <<started, paused, result, declared,
                 callVars, modelVars, procVars, workVars, pastVars, crashes>>

\* The user, an editor or another session edits the workspace.
Edit(r) ==
  /\ edits < MaxEdits /\ r # rev
  /\ edits' = edits + 1
  /\ rev' = r
  /\ blurred' = IF \E p \in Proc : stage[p] = "ran" /\ at[p] \in Check
                THEN blurred \cup {r} ELSE blurred
  /\ UNCHANGED <<tested, stateVars, callVars, modelVars, procVars, pastVars, crashes>>

\* The process dies; the operating system releases its lock.
Crash(p) ==
  /\ crashes < MaxCrashes
  /\ stage[p] \notin {"idle", "over"}
  /\ crashes' = crashes + 1
  /\ Leaves(p, "over")
  /\ UNCHANGED <<stateVars, callVars, modelVars, workVars, pastVars>>

Step(p) ==
  \/ Begin(p) \/ Inspect(p) \/ Resume(p)
  \/ Reserve(p) \/ Retry(p) \/ GiveUp(p) \/ AnswerUnknown(p)
  \/ \E n \in Actual : Answer(p, n)
  \/ \E c \in Call : Enter(p, c)
  \/ Reuse(p) \/ Replay(p) \/ Exhausted(p) \/ Admit(p)
  \/ \E r \in Revision, ok \in BOOLEAN : Perform(p, r, ok)
  \/ Journal(p) \/ Raise(p)
  \/ \E s \in Status : Finish(p, s)
  \/ Fail(p) \/ Crash(p)

Next == (\E p \in Proc : Step(p)) \/ Cancel \/ \E r \in Revision : Edit(r)

Spec == Init /\ [][Next]_vars

-----------------------------------------------------------------------------
(* Properties                                                              *)

TypeOK ==
  /\ started \in BOOLEAN /\ cancelled \in BOOLEAN /\ paused \in BOOLEAN
  /\ declared \in BOOLEAN
  /\ result \in Status \cup {"none"}
  /\ row \in [Call -> Rows] /\ changed \in [Call -> BOOLEAN]
  /\ evidence \subseteq Revision /\ cache \subseteq Revision
  /\ tools \in Nat /\ models \in Nat /\ tokens \in Nat
  /\ rev \in Revision
  /\ stage \in [Proc -> Stages]
  /\ at \in [Proc -> Call \cup {None}]
  /\ before \in [Proc -> Revision] /\ passed \in [Proc -> BOOLEAN] /\ tries \in [Proc -> Nat]
  /\ edits \in Nat /\ crashes \in Nat
  /\ effects \in [Call -> Nat] /\ runs \in Nat /\ late \in Nat
  /\ tested \subseteq Revision /\ blurred \subseteq Revision
  /\ known \in Nat /\ open \in Int

\* One process at a time has the lock.
OneWriter == \A p, q \in Proc : Holds(p) /\ Holds(q) => p = q

\* Whoever has the lock has a call, and while its tool runs the row is admitted.
CallsAreHeld == \A p \in Proc :
  /\ Holds(p) <=> at[p] \in Call
  /\ stage[p] \in {"running", "ran"} => row[at[p]] = "admitted"
  /\ passed[p] => at[p] \in Check

\* A write that has not been admitted has not acted, one under way acts once, and
\* one that is completed has acted.
EffectsFollowRows ==
  /\ \A c \in Mutating : /\ row[c] # "reused"
                         /\ row[c] \in {"none", "pending"} => effects[c] = 0
                         /\ row[c] = "completed" => effects[c] = 1
  /\ \A p \in Proc : at[p] \in Mutating =>
       /\ stage[p] = "running" => effects[at[p]] = 0
       /\ stage[p] = "ran" => effects[at[p]] = 1

\* However often a call id comes back, from the provider, after an exception or
\* after a crash, a write of the workspace or a command runs at most once.
WritesRunOnce == \A c \in Mutating : effects[c] <= 1

\* After a cancellation at most one tool starts: the one whose process had
\* already passed the check when cancel, which takes no lock, set the flag.
OneLateCall ==
  /\ late <= 1
  /\ late = 1 => cancelled /\ \A p \in Proc : stage[p] # "entered"

\* While a session waits for its user nothing of it runs.
PausedIsQuiet == paused => Free

\* Of a session that was stopped only the one call goes on that had passed the check
\* before a cancellation, and nothing at all while it waits for its user.
StoppedIsQuiet == OneLateCall /\ PausedIsQuiet

\* Every run of a tool was charged before it ran, over all processes, crashes
\* and resumptions, and the charges stay within the budget.
RunsAreCharged ==
  /\ tools <= MaxTools /\ models <= MaxModels
  /\ runs + (IF \E p \in Proc : stage[p] = "running" THEN 1 ELSE 0) <= tools

\* The session is never charged less than the tokens that providers reported
\* plus the estimate of every request whose usage nobody knows.
TokensCoverUse == tokens >= known + open

\* Evidence is for a revision that a check which passed has left, or for one that
\* somebody else made between the verdict of a check and the reading of the revision.
EvidenceIsTested ==
  /\ evidence \subseteq tested \cup blurred
  /\ \A p \in Proc : stage[p] = "ran" /\ passed[p] => rev \in tested \cup blurred

Inv ==
  /\ TypeOK /\ OneWriter /\ CallsAreHeld /\ EffectsFollowRows /\ WritesRunOnce
  /\ OneLateCall /\ PausedIsQuiet /\ RunsAreCharged /\ TokensCoverUse /\ EvidenceIsTested

\* A session becomes completed only with every artifact it declared valid in the
\* workspace as it is then.  If it declared none and a call that its journal
\* completed has changed the workspace, a check that passed has left this very
\* revision: what was edited since, by this session or another, is checked again.
CompletionIsTested ==
  [][(result' = "completed" /\ result # "completed") =>
       IF declared THEN rev \in Valid
       ELSE Mutated => rev \in tested \cup blurred]_vars

-----------------------------------------------------------------------------
(* The journal of a session is a write-ahead journal of its mutating calls. *)

EntryOf(c) == IF row[c] \in {"none", "pending"} THEN "new"
              ELSE IF row[c] = "admitted" THEN "intended" ELSE "done"

Writes == INSTANCE JournaledEffects
            WITH Item <- Mutating,
                 entry <- [c \in Mutating |-> EntryOf(c)],
                 acted <- [c \in Mutating |-> effects[c]]

\* Whatever crashes, exceptions, second processes and late cancellations do between
\* the row, the tool and its result: a write or command acts only after its row says
\* "admitted", at most once, and a completed row, which answers for it from then on,
\* is of one that has acted.
WritesAreJournaled == Writes!Spec
=============================================================================
