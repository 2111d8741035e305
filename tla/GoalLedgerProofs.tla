-------------------------- MODULE GoalLedgerProofs --------------------------
(***************************************************************************)
(* Proofs about GoalLedger for every number of goals, projects, sessions,  *)
(* cycles, questions, wakes and crashes.  Inv is inductive: each action    *)
(* has a lemma, ...Step, with one step for every part of Inv that it can   *)
(* disturb; the parts whose variables it leaves alone are one last step.   *)
(* What the end of a cycle writes (Save) is shared by two actions and has  *)
(* lemmas of its own.                                                      *)
(***************************************************************************)
EXTENDS GoalLedger, TLAPS

-----------------------------------------------------------------------------
(* Cycles, and what the end of one does to the ledger *)

\* A thread that runs a cycle has a goal and the number of its lease (claim).
LEMMA LiveCycle ==
  ASSUME Inv, NEW s \in Slot, phase[s] # "free"
  PROVE  job[s] \in Goal /\ mine[s] \in Nat \ {0}
BY DEF Inv, TypeOK, CyclesAreSupervised

\* save keeps the columns it writes well typed.
LEMMA SaveTyping ==
  ASSUME Inv, NEW g \in Goal, NEW v \in {"queued", "blocked", "ready_for_review", "paused"},
         NEW read, Save(g, v, read)
  PROVE  /\ state' \in [Goal -> States \cup Unwanted]
         /\ lease' \in [Goal -> Nat]
         /\ unread' \in [Goal -> SUBSET Feedback]
         /\ question' \in [Question -> [goal : Goal, lease : Nat, state : Open]
                                       \cup {Unasked, Closed}]
         /\ consent' \subseteq Goal
<1>1. Finished(g, v, read) \in States \cup Unwanted
  BY DEF Finished, States, TERMINAL, ACTIVE, Unwanted
<1> QED
  BY <1>1 DEF Inv, TypeOK, Save

\* save under the owner's lease keeps all that Inv says of goals, questions,
\* sessions and wakes: it releases the lease, closes the questions of the cycle
\* and lets a pause, a stop or unread feedback win over the verdict.
LEMMA SaveKeeps ==
  ASSUME Inv, NEW g \in Goal, NEW v \in {"queued", "blocked", "ready_for_review", "paused"},
         NEW read, Save(g, v, read), lease[g] # 0
  PROVE  /\ LeasesAreClaims' /\ OneLeasePerProject' /\ FeedbackIsHeard'
         /\ WaitingMeansAsked' /\ RefusedStaysPaused'
         /\ RunsByConsent'
         /\ UNCHANGED runs => AcceptedWakes'
         /\ UNCHANGED busyVars => SessionsAreOnRecord'
<1>1. state[g] \in {"running", "awaiting_approval", "paused", "stopped"}
  BY DEF Inv, LeasesAreClaims, ACTIVE
<1>2. state' = [state EXCEPT ![g] = Finished(g, v, read)] /\ lease' = [lease EXCEPT ![g] = 0]
      /\ unread' = [unread EXCEPT ![g] = @ \ read]
  BY DEF Save
<1>3. Finished(g, v, read) \in {"paused", "stopped", "queued", "blocked", "ready_for_review"}
  BY DEF Finished
<1>4. LeasesAreClaims'
  BY <1>2, <1>3 DEF Inv, TypeOK, LeasesAreClaims, ACTIVE, Save
<1>5. OneLeasePerProject'
  BY <1>2 DEF Inv, TypeOK, OneLeasePerProject
<1>6. FeedbackIsHeard'
  BY <1>1, <1>2 DEF Inv, TypeOK, FeedbackIsHeard, Finished
<1>7. WaitingMeansAsked'
  <2>1. \A q \in Question : q \in OpenOf(g, lease[g]) => ~IsOpen(q)'
    BY DEF Inv, TypeOK, Save, IsOpen, Open, Closed
  <2>2. \A q \in Question : q \notin OpenOf(g, lease[g]) => question'[q] = question[q]
    BY DEF Inv, TypeOK, Save
  <2>3. \A q \in Question : IsOpen(q)' => question'[q] = question[q] /\ question[q].goal # g
    BY <2>1, <2>2 DEF Inv, WaitingMeansAsked, OpenOf, IsOpen
  <2>4. \A h \in Goal : h # g => OpenOf(h, lease[h])' = OpenOf(h, lease[h])
    BY <1>2, <2>1, <2>2, <2>3 DEF Inv, TypeOK, OpenOf, IsOpen
  <2>5. state'[g] \notin ACTIVE /\ \A h \in Goal : h # g => state'[h] = state[h]
    BY <1>2, <1>3 DEF Inv, TypeOK, ACTIVE
  <2>6. \A q \in Question : IsOpen(q)' => /\ question'[q].lease # 0
                                         /\ lease'[question'[q].goal] = question'[q].lease
    <3> SUFFICES ASSUME NEW q \in Question, IsOpen(q)'
                 PROVE  question'[q].lease # 0 /\ lease'[question'[q].goal] = question'[q].lease
      OBVIOUS
    <3>1. question'[q] = question[q] /\ question[q].goal # g /\ IsOpen(q)
      BY <2>3 DEF IsOpen
    <3>2. question[q].goal \in Goal
      BY <3>1 DEF Inv, TypeOK, IsOpen, Open, Unasked, Closed
    <3> QED
      BY <1>2, <3>1, <3>2 DEF Inv, TypeOK, WaitingMeansAsked
  <2> QED
    BY <2>4, <2>5, <2>6 DEF Inv, WaitingMeansAsked, ACTIVE
<1>8. RefusedStaysPaused'
  BY <1>1, <1>2 DEF Inv, TypeOK, RefusedStaysPaused, Save, Finished, Wanted, ACTIVE
<1>9. RunsByConsent'
  BY <1>1, <1>2 DEF Inv, TypeOK, RunsByConsent, Save, Finished, Wanted, ACTIVE
<1>10. UNCHANGED runs => AcceptedWakes'
  BY <1>2, <1>3 DEF Inv, TypeOK, AcceptedWakes, NextWakeAwaitsAcceptance, Save
<1>11. UNCHANGED busyVars => SessionsAreOnRecord'
  BY <1>2 DEF Inv, TypeOK, SessionsAreOnRecord, Leased, busyVars
<1> QED
  BY <1>4, <1>5, <1>6, <1>7, <1>8, <1>9, <1>10, <1>11

\* The cycle that saves does not hold its goal any more, and no other cycle does.
LEMMA SaveEnds ==
  ASSUME Inv, NEW s \in Slot, NEW v \in {"queued", "blocked", "ready_for_review", "paused"},
         NEW read, Save(job[s], v, read), phase[s] # "free", lease[job[s]] = mine[s],
         \A t \in Slot : t # s => /\ phase'[t] = phase[t]
                                 /\ job'[t] = job[t] /\ mine'[t] = mine[t],
         ~Holding(s)',
         phase'[s] = "free" \/ (job'[s] = job[s] /\ mine'[s] = mine[s])
  PROVE  CyclesOwnLeases'
<1>1. /\ job[s] \in Goal /\ mine[s] # 0
      /\ \A t \in Slot : phase[t] # "free" => job[t] \in Goal
  BY LiveCycle
<1>2. state[job[s]] \in {"running", "awaiting_approval", "paused", "stopped"}
  BY <1>1 DEF Inv, LeasesAreClaims, ACTIVE
<1>3. /\ cycles' = cycles
      /\ \A h \in Goal : h # job[s] => lease'[h] = lease[h] /\ state'[h] = state[h]
      /\ state'[job[s]] \in {"paused", "stopped", "queued", "blocked", "ready_for_review"}
  BY <1>1 DEF Inv, TypeOK, Save, Finished
<1>4. \A t \in Slot : Holding(t)' => lease'[job'[t]] = mine'[t]
  BY <1>1, <1>3 DEF Inv, CyclesOwnLeases, Holding
<1>5. \A t \in Slot : phase'[t] # "free" /\ state'[job'[t]] # "deleted"
                     => mine'[t] <= cycles'[job'[t]] /\ state'[job'[t]] # "absent"
  BY <1>1, <1>2, <1>3 DEF Inv, CyclesOwnLeases
<1>6. \A t, u \in Slot : phase'[t] # "free" /\ phase'[u] # "free" /\ job'[t] = job'[u]
                         /\ mine'[t] = mine'[u] => t = u
  <2>1. \A t \in Slot : phase'[t] # "free" => /\ phase[t] # "free" /\ job'[t] = job[t]
                                              /\ mine'[t] = mine[t]
    OBVIOUS
  <2> QED
    BY <2>1 DEF Inv, CyclesOwnLeases
<1> QED
  BY <1>4, <1>5, <1>6 DEF CyclesOwnLeases

-----------------------------------------------------------------------------
(* The user's actions *)

\* create, feedback, pause, stop, resume, extend, accept, dismiss, respond, the
\* schedule's switch and the request to stop (native_goals.py,
\* native_background.py) preserve Inv.
LEMMA CreateStep ==
  ASSUME Inv, NEW g \in Goal, Create(g)
  PROVE  Inv'
<1>1. TypeOK'
  BY GoalLedgerAssumption DEF Inv, TypeOK, Create, Insert, goalVars,
    cycleVars, supVars, busyVars, wakeVars, history, States, TERMINAL,
    ACTIVE, Unwanted
<1>2. LeasesAreClaims'
  BY DEF Inv, TypeOK, LeasesAreClaims, ACTIVE, Create, Insert, goalVars
<1>3. CyclesOwnLeases'
  BY DEF Inv, TypeOK, CyclesOwnLeases, Holding, Create, Insert, goalVars,
    cycleVars
<1>4. RunsByConsent'
  BY DEF Inv, TypeOK, RunsByConsent, Wanted, ACTIVE, Create, Insert
<1>5. FeedbackIsHeard'
  BY DEF Inv, TypeOK, FeedbackIsHeard, Create, Insert, goalVars
<1>6. WaitingMeansAsked'
  BY DEF Inv, TypeOK, WaitingMeansAsked, OpenOf, IsOpen, Open, ACTIVE,
    Create, Insert, goalVars
<1>7. RefusedStaysPaused'
  BY DEF Inv, TypeOK, RefusedStaysPaused, Wanted, ACTIVE, Create, Insert,
    goalVars, LeasesAreClaims
<1>8. AcceptedWakes'
  BY DEF Inv, TypeOK, AcceptedWakes, NextWakeAwaitsAcceptance, Runs, Create,
    Insert, wakeVars, history
<1>9. CyclesAreSupervised' /\ OneLeasePerProject' /\ SessionsAreOnRecord'
  BY DEF Inv, Create, Insert, goalVars, cycleVars, supVars, busyVars,
    CyclesAreSupervised, OneLeasePerProject, SessionsAreOnRecord, Leased
<1> QED
  BY <1>1, <1>2, <1>3, <1>4, <1>5, <1>6, <1>7, <1>8, <1>9 DEF Inv

\* Feedback sends a result under review back to the queue.
LEMMA GiveFeedbackStep ==
  ASSUME Inv, NEW g \in Goal, NEW f \in Feedback, GiveFeedback(g, f)
  PROVE  Inv'
<1>1. TypeOK'
  BY GoalLedgerAssumption DEF Inv, TypeOK, GiveFeedback, Exists, goalVars,
    cycleVars, supVars, busyVars, wakeVars, history, States, TERMINAL,
    ACTIVE, Unwanted
<1>2. LeasesAreClaims'
  BY DEF Inv, TypeOK, LeasesAreClaims, ACTIVE, GiveFeedback, Exists, goalVars
<1>3. CyclesOwnLeases'
  BY DEF Inv, TypeOK, CyclesOwnLeases, Holding, GiveFeedback, Exists,
    goalVars, cycleVars
<1>4. RunsByConsent'
  BY DEF Inv, TypeOK, RunsByConsent, Wanted, ACTIVE, GiveFeedback, Exists,
    history
<1>5. FeedbackIsHeard'
  BY DEF Inv, TypeOK, FeedbackIsHeard, GiveFeedback, Exists, TERMINAL
<1>6. WaitingMeansAsked'
  BY DEF Inv, TypeOK, WaitingMeansAsked, OpenOf, IsOpen, Open, ACTIVE,
    GiveFeedback, Exists, goalVars
<1>7. RefusedStaysPaused'
  BY DEF Inv, TypeOK, RefusedStaysPaused, Wanted, ACTIVE, GiveFeedback,
    Exists, goalVars
<1>8. AcceptedWakes'
  BY DEF Inv, TypeOK, AcceptedWakes, NextWakeAwaitsAcceptance, Runs,
    GiveFeedback, Exists, wakeVars, history
<1>9. CyclesAreSupervised' /\ OneLeasePerProject' /\ SessionsAreOnRecord'
  BY DEF Inv, GiveFeedback, Exists, goalVars, cycleVars, supVars, busyVars,
    CyclesAreSupervised, OneLeasePerProject, SessionsAreOnRecord, Leased
<1> QED
  BY <1>1, <1>2, <1>3, <1>4, <1>5, <1>6, <1>7, <1>8, <1>9 DEF Inv

\* A pause withdraws the consent and leaves the lease to its cycle.
LEMMA PauseStep ==
  ASSUME Inv, NEW g \in Goal, Pause(g)
  PROVE  Inv'
<1>1. TypeOK'
  BY GoalLedgerAssumption DEF Inv, TypeOK, Pause, Control, SetState, Exists,
    goalVars, cycleVars, supVars, busyVars, wakeVars, history, States,
    TERMINAL, ACTIVE, Unwanted
<1>2. LeasesAreClaims'
  BY DEF Inv, TypeOK, LeasesAreClaims, ACTIVE, Pause, Control, SetState,
    Exists, goalVars
<1>3. CyclesOwnLeases'
  BY DEF Inv, TypeOK, CyclesOwnLeases, Holding, Pause, Control, SetState,
    Exists, goalVars, cycleVars, CyclesAreSupervised, Unwanted
<1>4. RunsByConsent'
  BY DEF Inv, TypeOK, RunsByConsent, Wanted, ACTIVE, Pause, Control,
    SetState, Exists
<1>5. FeedbackIsHeard'
  BY DEF Inv, TypeOK, FeedbackIsHeard, Pause, Control, SetState, Exists,
    goalVars
<1>6. WaitingMeansAsked'
  BY DEF Inv, TypeOK, WaitingMeansAsked, OpenOf, IsOpen, Open, ACTIVE, Pause,
    Control, SetState, Exists, goalVars
<1>7. RefusedStaysPaused'
  BY DEF Inv, TypeOK, RefusedStaysPaused, Wanted, ACTIVE, Pause, Control,
    SetState, Exists, goalVars
<1>8. AcceptedWakes'
  BY DEF Inv, TypeOK, AcceptedWakes, NextWakeAwaitsAcceptance, Runs, Pause,
    Control, SetState, Exists, wakeVars, history
<1>9. CyclesAreSupervised' /\ OneLeasePerProject' /\ SessionsAreOnRecord'
  BY DEF Inv, Pause, Control, SetState, Exists, goalVars, cycleVars, supVars,
    busyVars, CyclesAreSupervised, OneLeasePerProject, SessionsAreOnRecord,
    Leased
<1> QED
  BY <1>1, <1>2, <1>3, <1>4, <1>5, <1>6, <1>7, <1>8, <1>9 DEF Inv

\* A stop withdraws the consent and leaves the lease to its cycle.
LEMMA StopStep ==
  ASSUME Inv, NEW g \in Goal, Stop(g)
  PROVE  Inv'
<1>1. TypeOK'
  BY GoalLedgerAssumption DEF Inv, TypeOK, Stop, Control, SetState, Exists,
    goalVars, cycleVars, supVars, busyVars, wakeVars, history, States,
    TERMINAL, ACTIVE, Unwanted
<1>2. LeasesAreClaims'
  BY DEF Inv, TypeOK, LeasesAreClaims, ACTIVE, Stop, Control, SetState,
    Exists, goalVars
<1>3. CyclesOwnLeases'
  BY DEF Inv, TypeOK, CyclesOwnLeases, Holding, Stop, Control, SetState,
    Exists, goalVars, cycleVars, CyclesAreSupervised, Unwanted
<1>4. RunsByConsent'
  BY DEF Inv, TypeOK, RunsByConsent, Wanted, ACTIVE, Stop, Control, SetState,
    Exists
<1>5. FeedbackIsHeard'
  BY DEF Inv, TypeOK, FeedbackIsHeard, Stop, Control, SetState, Exists,
    goalVars
<1>6. WaitingMeansAsked'
  BY DEF Inv, TypeOK, WaitingMeansAsked, OpenOf, IsOpen, Open, ACTIVE, Stop,
    Control, SetState, Exists, goalVars
<1>7. RefusedStaysPaused'
  BY DEF Inv, TypeOK, RefusedStaysPaused, Wanted, ACTIVE, Stop, Control,
    SetState, Exists, goalVars
<1>8. AcceptedWakes'
  BY DEF Inv, TypeOK, AcceptedWakes, NextWakeAwaitsAcceptance, Runs, Stop,
    Control, SetState, Exists, wakeVars, history
<1>9. CyclesAreSupervised' /\ OneLeasePerProject' /\ SessionsAreOnRecord'
  BY DEF Inv, Stop, Control, SetState, Exists, goalVars, cycleVars, supVars,
    busyVars, CyclesAreSupervised, OneLeasePerProject, SessionsAreOnRecord,
    Leased
<1> QED
  BY <1>1, <1>2, <1>3, <1>4, <1>5, <1>6, <1>7, <1>8, <1>9 DEF Inv

\* A resume is the consent to run again; nothing holds the goal then.
LEMMA ResumeStep ==
  ASSUME Inv, NEW g \in Goal, Resume(g)
  PROVE  Inv'
<1>1. TypeOK'
  BY GoalLedgerAssumption DEF Inv, TypeOK, Resume, SetState, Exists,
    goalVars, cycleVars, supVars, busyVars, wakeVars, history, States,
    TERMINAL, ACTIVE, Unwanted
<1>2. LeasesAreClaims'
  BY DEF Inv, TypeOK, LeasesAreClaims, ACTIVE, Resume, SetState, Exists,
    goalVars
<1>3. CyclesOwnLeases'
  BY DEF Inv, TypeOK, CyclesOwnLeases, Holding, Resume, SetState, Exists,
    goalVars, cycleVars, CyclesAreSupervised, Unwanted
<1>4. RunsByConsent'
  BY DEF Inv, TypeOK, RunsByConsent, Wanted, ACTIVE, Resume, SetState, Exists
<1>5. FeedbackIsHeard'
  BY DEF Inv, TypeOK, FeedbackIsHeard, Resume, SetState, Exists, goalVars
<1>6. WaitingMeansAsked'
  BY DEF Inv, TypeOK, WaitingMeansAsked, OpenOf, IsOpen, Open, ACTIVE,
    Resume, SetState, Exists, goalVars
<1>7. RefusedStaysPaused'
  BY DEF Inv, TypeOK, RefusedStaysPaused, Wanted, ACTIVE, Resume, SetState,
    Exists, goalVars
<1>8. AcceptedWakes'
  BY DEF Inv, TypeOK, AcceptedWakes, NextWakeAwaitsAcceptance, Runs, Resume,
    SetState, Exists, wakeVars, history
<1>9. CyclesAreSupervised' /\ OneLeasePerProject' /\ SessionsAreOnRecord'
  BY DEF Inv, Resume, SetState, Exists, goalVars, cycleVars, supVars,
    busyVars, CyclesAreSupervised, OneLeasePerProject, SessionsAreOnRecord,
    Leased
<1> QED
  BY <1>1, <1>2, <1>3, <1>4, <1>5, <1>6, <1>7, <1>8, <1>9 DEF Inv

\* New limits change no state; a larger allowance forgets its refusal.
LEMMA ExtendStep ==
  ASSUME Inv, NEW g \in Goal, Extend(g)
  PROVE  Inv'
<1>1. TypeOK'
  BY GoalLedgerAssumption DEF Inv, TypeOK, Extend, Exists, goalVars,
    cycleVars, supVars, busyVars, wakeVars, history
<1>2. LeasesAreClaims'
  BY DEF Inv, TypeOK, LeasesAreClaims, ACTIVE, Extend, Exists, goalVars
<1>3. RefusedStaysPaused'
  BY DEF Inv, TypeOK, RefusedStaysPaused, Wanted, ACTIVE, Extend, Exists,
    goalVars
<1>4. CyclesAreSupervised' /\ CyclesOwnLeases' /\ OneLeasePerProject'
      /\ SessionsAreOnRecord' /\ RunsByConsent' /\ FeedbackIsHeard' /\
      WaitingMeansAsked' /\ AcceptedWakes'
  BY DEF Inv, Extend, Exists, goalVars, cycleVars, supVars, busyVars,
    wakeVars, history, CyclesAreSupervised, CyclesOwnLeases,
    OneLeasePerProject, SessionsAreOnRecord, RunsByConsent, FeedbackIsHeard,
    WaitingMeansAsked, AcceptedWakes, Holding, Leased, Wanted, ACTIVE,
    OpenOf, IsOpen, Open, NextWakeAwaitsAcceptance, Runs
<1> QED
  BY <1>1, <1>2, <1>3, <1>4 DEF Inv

\* Only a result under review is accepted, so all feedback was heard.
LEMMA AcceptStep ==
  ASSUME Inv, NEW g \in Goal, Accept(g)
  PROVE  Inv'
<1>1. TypeOK'
  BY GoalLedgerAssumption DEF Inv, TypeOK, Accept, SetState, goalVars,
    cycleVars, supVars, busyVars, wakeVars, history, States, TERMINAL,
    ACTIVE, Unwanted
<1>2. LeasesAreClaims'
  BY DEF Inv, TypeOK, LeasesAreClaims, ACTIVE, Accept, SetState, goalVars
<1>3. CyclesOwnLeases'
  BY DEF Inv, TypeOK, CyclesOwnLeases, Holding, Accept, SetState, goalVars,
    cycleVars
<1>4. RunsByConsent'
  BY DEF Inv, TypeOK, RunsByConsent, Wanted, ACTIVE, Accept, SetState, history
<1>5. FeedbackIsHeard'
  BY DEF Inv, TypeOK, FeedbackIsHeard, Accept, SetState, goalVars
<1>6. WaitingMeansAsked'
  BY DEF Inv, TypeOK, WaitingMeansAsked, OpenOf, IsOpen, Open, ACTIVE,
    Accept, SetState, goalVars
<1>7. RefusedStaysPaused'
  BY DEF Inv, TypeOK, RefusedStaysPaused, Wanted, ACTIVE, Accept, SetState,
    goalVars
<1>8. AcceptedWakes'
  BY DEF Inv, TypeOK, AcceptedWakes, NextWakeAwaitsAcceptance, Runs, Accept,
    SetState, wakeVars
<1>9. CyclesAreSupervised' /\ OneLeasePerProject' /\ SessionsAreOnRecord'
  BY DEF Inv, Accept, SetState, goalVars, cycleVars, supVars, busyVars,
    CyclesAreSupervised, OneLeasePerProject, SessionsAreOnRecord, Leased
<1> QED
  BY <1>1, <1>2, <1>3, <1>4, <1>5, <1>6, <1>7, <1>8, <1>9 DEF Inv

\* A goal without a lease has no open question, so deleting its rows closes
\* none.
LEMMA DismissStep ==
  ASSUME Inv, NEW g \in Goal, Dismiss(g)
  PROVE  Inv'
<1>1. TypeOK'
  BY GoalLedgerAssumption DEF Inv, TypeOK, Dismiss, Exists, goalVars,
    cycleVars, supVars, busyVars, wakeVars, history, States, TERMINAL,
    ACTIVE, Unwanted
<1>2. LeasesAreClaims'
  BY DEF Inv, TypeOK, LeasesAreClaims, ACTIVE, Dismiss, Exists, goalVars
<1>3. CyclesOwnLeases'
  BY DEF Inv, TypeOK, CyclesOwnLeases, Holding, Dismiss, Exists, goalVars,
    cycleVars
<1>4. RunsByConsent'
  BY DEF Inv, TypeOK, RunsByConsent, Wanted, ACTIVE, Dismiss, Exists
<1>5. FeedbackIsHeard'
  BY DEF Inv, TypeOK, FeedbackIsHeard, Dismiss, Exists
<1>6. WaitingMeansAsked'
  <2>1. \A q \in Question : IsOpen(q) => question[q].goal # g
    BY DEF Inv, WaitingMeansAsked, Dismiss
  <2>2. \A q \in Question : IsOpen(q) \/ IsOpen(q)' => question'[q] = question[q]
    BY <2>1 DEF Inv, TypeOK, Dismiss, IsOpen, Open, Closed
  <2>3. lease' = lease /\ state' = [state EXCEPT ![g] = "deleted"]
    BY DEF Dismiss
  <2>4. \A h \in Goal : OpenOf(h, lease[h])' = OpenOf(h, lease[h])
    <3> SUFFICES ASSUME NEW h \in Goal, NEW q \in Question
                 PROVE  (q \in OpenOf(h, lease[h]))' <=> q \in OpenOf(h, lease[h])
      BY DEF OpenOf
    <3> QED
      BY <2>2, <2>3 DEF OpenOf, IsOpen
  <2>5. \A h \in Goal : h # g => state'[h] = state[h]
    BY <2>3 DEF Inv, TypeOK
  <2>6. state'[g] = "deleted"
    BY <2>3 DEF Inv, TypeOK
  <2>7. \A q \in Question : IsOpen(q)' => question'[q].lease # 0 /\ lease'[question'[q].goal] = question'[q].lease
    BY <2>2, <2>3 DEF Inv, WaitingMeansAsked, IsOpen
  <2> QED
    BY <2>3, <2>4, <2>5, <2>6, <2>7 DEF Inv, WaitingMeansAsked
<1>7. RefusedStaysPaused'
  BY DEF Inv, TypeOK, RefusedStaysPaused, Wanted, ACTIVE, Dismiss, Exists,
    goalVars
<1>8. AcceptedWakes'
  BY DEF Inv, TypeOK, AcceptedWakes, NextWakeAwaitsAcceptance, Runs, Dismiss,
    Exists, wakeVars, history
<1>9. CyclesAreSupervised' /\ OneLeasePerProject' /\ SessionsAreOnRecord'
  BY DEF Inv, Dismiss, Exists, goalVars, cycleVars, supVars, busyVars,
    CyclesAreSupervised, OneLeasePerProject, SessionsAreOnRecord, Leased
<1> QED
  BY <1>1, <1>2, <1>3, <1>4, <1>5, <1>6, <1>7, <1>8, <1>9 DEF Inv

\* An answered question still keeps its goal waiting.
LEMMA RespondStep ==
  ASSUME Inv, NEW q \in Question, Respond(q)
  PROVE  Inv'
<1>1. TypeOK'
  <2>1. question'[q] \in [goal : Goal, lease : Nat, state : Open]
    BY DEF Inv, TypeOK, Respond, Open, Unasked, Closed
  <2> QED
    BY <2>1 DEF Inv, TypeOK, Respond, goalVars, cycleVars, supVars,
    busyVars, wakeVars, history
<1>2. WaitingMeansAsked'
  BY DEF Inv, TypeOK, WaitingMeansAsked, OpenOf, IsOpen, Open, ACTIVE,
    Respond, goalVars
<1>3. CyclesAreSupervised' /\ LeasesAreClaims' /\ CyclesOwnLeases' /\
      OneLeasePerProject' /\ SessionsAreOnRecord' /\ RunsByConsent' /\
      FeedbackIsHeard' /\ RefusedStaysPaused' /\ AcceptedWakes'
  BY DEF Inv, Respond, goalVars, cycleVars, supVars, busyVars, wakeVars,
    history, CyclesAreSupervised, LeasesAreClaims, CyclesOwnLeases,
    OneLeasePerProject, SessionsAreOnRecord, RunsByConsent, FeedbackIsHeard,
    RefusedStaysPaused, AcceptedWakes, ACTIVE, Holding, Leased, Wanted,
    NextWakeAwaitsAcceptance, Runs
<1> QED
  BY <1>1, <1>2, <1>3 DEF Inv

\* The schedule's switch touches no goal.
LEMMA EnableStep ==
  ASSUME Inv, NEW b \in BOOLEAN, Enable(b)
  PROVE  Inv'
<1>1. TypeOK'
  BY DEF Inv, TypeOK, Enable, goalVars, cycleVars, supVars, busyVars,
    wakeVars, history
<1>2. CyclesAreSupervised' /\ LeasesAreClaims' /\ CyclesOwnLeases' /\
      OneLeasePerProject' /\ SessionsAreOnRecord' /\ RunsByConsent' /\
      FeedbackIsHeard' /\ WaitingMeansAsked' /\ RefusedStaysPaused' /\
      AcceptedWakes'
  BY DEF Inv, Enable, goalVars, cycleVars, supVars, busyVars, wakeVars,
    history, CyclesAreSupervised, LeasesAreClaims, CyclesOwnLeases,
    OneLeasePerProject, SessionsAreOnRecord, RunsByConsent, FeedbackIsHeard,
    WaitingMeansAsked, RefusedStaysPaused, AcceptedWakes, ACTIVE, Holding,
    Leased, Wanted, OpenOf, IsOpen, Open, NextWakeAwaitsAcceptance, Runs
<1> QED
  BY <1>1, <1>2 DEF Inv

\* A request to stop touches no goal.
LEMMA RequestStopStep ==
  ASSUME Inv, RequestStop
  PROVE  Inv'
<1>1. TypeOK'
  BY DEF Inv, TypeOK, RequestStop, goalVars, cycleVars, supVars, busyVars,
    wakeVars, history
<1>2. CyclesAreSupervised' /\ LeasesAreClaims' /\ CyclesOwnLeases' /\
      OneLeasePerProject' /\ SessionsAreOnRecord' /\ RunsByConsent' /\
      FeedbackIsHeard' /\ WaitingMeansAsked' /\ RefusedStaysPaused' /\
      AcceptedWakes'
  BY DEF Inv, RequestStop, goalVars, cycleVars, supVars, busyVars, wakeVars,
    history, CyclesAreSupervised, LeasesAreClaims, CyclesOwnLeases,
    OneLeasePerProject, SessionsAreOnRecord, RunsByConsent, FeedbackIsHeard,
    WaitingMeansAsked, RefusedStaysPaused, AcceptedWakes, ACTIVE, Holding,
    Leased, Wanted, OpenOf, IsOpen, Open, NextWakeAwaitsAcceptance, Runs
<1> QED
  BY <1>1, <1>2 DEF Inv

-----------------------------------------------------------------------------
(* Interactive sessions *)

\* A session is admitted only where no goal has a lease and no live session
\* works.
LEMMA BeginWorkStep ==
  ASSUME Inv, NEW o \in Owner, NEW p \in Project, BeginWork(o, p)
  PROVE  Inv'
<1>1. TypeOK'
  BY DEF Inv, TypeOK, BeginWork, Occupy, Admits, SessionOnly, goalVars,
    cycleVars, supVars, busyVars, wakeVars, history
<1>2. SessionsAreOnRecord'
  BY GoalLedgerAssumption DEF Inv, TypeOK, SessionsAreOnRecord, Leased,
    BeginWork, Occupy, Admits, SessionOnly, goalVars
<1>3. CyclesAreSupervised' /\ LeasesAreClaims' /\ CyclesOwnLeases' /\
      OneLeasePerProject' /\ RunsByConsent' /\ FeedbackIsHeard' /\
      WaitingMeansAsked' /\ RefusedStaysPaused' /\ AcceptedWakes'
  BY DEF Inv, BeginWork, Occupy, Admits, SessionOnly, goalVars, cycleVars,
    supVars, wakeVars, history, CyclesAreSupervised, LeasesAreClaims,
    CyclesOwnLeases, OneLeasePerProject, RunsByConsent, FeedbackIsHeard,
    WaitingMeansAsked, RefusedStaysPaused, AcceptedWakes, ACTIVE, Holding,
    Wanted, OpenOf, IsOpen, Open, NextWakeAwaitsAcceptance, Runs
<1> QED
  BY <1>1, <1>2, <1>3 DEF Inv

\* A pulse renews the record of the session that sent it.
LEMMA PulseStep ==
  ASSUME Inv, NEW o \in Owner, Pulse(o)
  PROVE  Inv'
<1>1. TypeOK'
  BY DEF Inv, TypeOK, Pulse, Occupy, Admits, SessionOnly, goalVars,
    cycleVars, supVars, busyVars, wakeVars, history
<1>2. SessionsAreOnRecord'
  BY DEF Inv, TypeOK, SessionsAreOnRecord, Leased, Pulse, Occupy, Admits,
    SessionOnly, goalVars, busyVars
<1>3. CyclesAreSupervised' /\ LeasesAreClaims' /\ CyclesOwnLeases' /\
      OneLeasePerProject' /\ RunsByConsent' /\ FeedbackIsHeard' /\
      WaitingMeansAsked' /\ RefusedStaysPaused' /\ AcceptedWakes'
  BY DEF Inv, Pulse, Occupy, Admits, SessionOnly, goalVars, cycleVars,
    supVars, wakeVars, history, CyclesAreSupervised, LeasesAreClaims,
    CyclesOwnLeases, OneLeasePerProject, RunsByConsent, FeedbackIsHeard,
    WaitingMeansAsked, RefusedStaysPaused, AcceptedWakes, ACTIVE, Holding,
    Wanted, OpenOf, IsOpen, Open, NextWakeAwaitsAcceptance, Runs
<1> QED
  BY <1>1, <1>2, <1>3 DEF Inv

\* A session that ends removes its own record only.
LEMMA EndWorkStep ==
  ASSUME Inv, NEW o \in Owner, EndWork(o)
  PROVE  Inv'
<1>1. TypeOK'
  BY DEF Inv, TypeOK, EndWork, SessionOnly, goalVars, cycleVars, supVars,
    busyVars, wakeVars, history
<1>2. SessionsAreOnRecord'
  BY DEF Inv, TypeOK, SessionsAreOnRecord, Leased, EndWork, SessionOnly,
    goalVars
<1>3. CyclesAreSupervised' /\ LeasesAreClaims' /\ CyclesOwnLeases' /\
      OneLeasePerProject' /\ RunsByConsent' /\ FeedbackIsHeard' /\
      WaitingMeansAsked' /\ RefusedStaysPaused' /\ AcceptedWakes'
  BY DEF Inv, EndWork, SessionOnly, goalVars, cycleVars, supVars, wakeVars,
    history, CyclesAreSupervised, LeasesAreClaims, CyclesOwnLeases,
    OneLeasePerProject, RunsByConsent, FeedbackIsHeard, WaitingMeansAsked,
    RefusedStaysPaused, AcceptedWakes, ACTIVE, Holding, Wanted, OpenOf,
    IsOpen, Open, NextWakeAwaitsAcceptance, Runs
<1> QED
  BY <1>1, <1>2, <1>3 DEF Inv

\* A session that dies leaves a record that only ages.
LEMMA OwnerDiesStep ==
  ASSUME Inv, NEW o \in Owner, OwnerDies(o)
  PROVE  Inv'
<1>1. TypeOK'
  BY DEF Inv, TypeOK, OwnerDies, SessionOnly, goalVars, cycleVars, supVars,
    busyVars, wakeVars, history
<1>2. SessionsAreOnRecord'
  BY DEF Inv, TypeOK, SessionsAreOnRecord, Leased, OwnerDies, SessionOnly,
    goalVars, busyVars
<1>3. CyclesAreSupervised' /\ LeasesAreClaims' /\ CyclesOwnLeases' /\
      OneLeasePerProject' /\ RunsByConsent' /\ FeedbackIsHeard' /\
      WaitingMeansAsked' /\ RefusedStaysPaused' /\ AcceptedWakes'
  BY DEF Inv, OwnerDies, SessionOnly, goalVars, cycleVars, supVars, wakeVars,
    history, CyclesAreSupervised, LeasesAreClaims, CyclesOwnLeases,
    OneLeasePerProject, RunsByConsent, FeedbackIsHeard, WaitingMeansAsked,
    RefusedStaysPaused, AcceptedWakes, ACTIVE, Holding, Wanted, OpenOf,
    IsOpen, Open, NextWakeAwaitsAcceptance, Runs
<1> QED
  BY <1>1, <1>2, <1>3 DEF Inv

\* A heartbeat ages once its session is gone (or, under Lapses, suspended).
LEMMA HeartbeatAgesStep ==
  ASSUME Inv, NEW p \in Project, HeartbeatAges(p)
  PROVE  Inv'
<1>1. TypeOK'
  BY DEF Inv, TypeOK, HeartbeatAges, SessionOnly, goalVars, cycleVars,
    supVars, busyVars, wakeVars, history
<1>2. SessionsAreOnRecord'
  BY DEF Inv, TypeOK, SessionsAreOnRecord, Leased, HeartbeatAges,
    SessionOnly, goalVars, busyVars
<1>3. CyclesAreSupervised' /\ LeasesAreClaims' /\ CyclesOwnLeases' /\
      OneLeasePerProject' /\ RunsByConsent' /\ FeedbackIsHeard' /\
      WaitingMeansAsked' /\ RefusedStaysPaused' /\ AcceptedWakes'
  BY DEF Inv, HeartbeatAges, SessionOnly, goalVars, cycleVars, supVars,
    wakeVars, history, CyclesAreSupervised, LeasesAreClaims, CyclesOwnLeases,
    OneLeasePerProject, RunsByConsent, FeedbackIsHeard, WaitingMeansAsked,
    RefusedStaysPaused, AcceptedWakes, ACTIVE, Holding, Wanted, OpenOf,
    IsOpen, Open, NextWakeAwaitsAcceptance, Runs
<1> QED
  BY <1>1, <1>2, <1>3 DEF Inv

-----------------------------------------------------------------------------
(* The supervisor *)

\* Recovery pauses what has a lease, closes its questions and withdraws its
\* consent.
LEMMA StartStep ==
  ASSUME Inv, Start
  PROVE  Inv'
<1>1. TypeOK'
  BY GoalLedgerAssumption DEF Inv, TypeOK, Start, goalVars, cycleVars,
    supVars, busyVars, wakeVars, history, States, TERMINAL, ACTIVE, Unwanted
<1>2. CyclesAreSupervised'
  BY DEF Inv, TypeOK, CyclesAreSupervised, Start, cycleVars
<1>3. LeasesAreClaims'
  BY DEF Inv, TypeOK, LeasesAreClaims, ACTIVE, Start, goalVars
<1>4. CyclesOwnLeases'
  BY DEF Inv, TypeOK, CyclesOwnLeases, Holding, Start, goalVars, cycleVars,
    CyclesAreSupervised
<1>5. OneLeasePerProject'
  BY DEF Inv, TypeOK, OneLeasePerProject, Start
<1>6. SessionsAreOnRecord'
  BY DEF Inv, TypeOK, SessionsAreOnRecord, Leased, Start, busyVars
<1>7. RunsByConsent'
  BY DEF Inv, TypeOK, RunsByConsent, Wanted, ACTIVE, Start
<1>8. FeedbackIsHeard'
  BY DEF Inv, TypeOK, FeedbackIsHeard, Start, goalVars
<1>9. WaitingMeansAsked'
  BY DEF Inv, TypeOK, WaitingMeansAsked, OpenOf, IsOpen, Open, ACTIVE, Start,
    Closed, LeasesAreClaims
<1>10. RefusedStaysPaused'
  BY DEF Inv, TypeOK, RefusedStaysPaused, Wanted, ACTIVE, Start, goalVars
<1>11. AcceptedWakes'
  BY DEF Inv, TypeOK, AcceptedWakes, NextWakeAwaitsAcceptance, Runs, Start,
    wakeVars, history
<1> QED
  BY <1>1, <1>2, <1>3, <1>4, <1>5, <1>6, <1>7, <1>8, <1>9, <1>10, <1>11 DEF Inv

\* The claimed number is new, and no other goal or session of the project is
\* active.
LEMMA ClaimStep ==
  ASSUME Inv, NEW g \in Goal, NEW s \in Slot, Claim(g, s)
  PROVE  Inv'
<1>1. TypeOK'
  BY GoalLedgerAssumption DEF Inv, TypeOK, Claim, Claimable, Leased,
    goalVars, cycleVars, supVars, busyVars, wakeVars, history, States,
    TERMINAL, ACTIVE, Unwanted, Phases, CyclesAreSupervised
<1>2. CyclesAreSupervised'
  BY DEF Inv, TypeOK, CyclesAreSupervised, Claim, Claimable, Leased,
    cycleVars, supVars
<1>3. LeasesAreClaims'
  BY DEF Inv, TypeOK, LeasesAreClaims, ACTIVE, Claim, Claimable, Leased,
    goalVars
<1>4. CyclesOwnLeases'
  <2>1. \A t \in Slot : phase[t] # "free" => job[t] \in Goal /\ mine[t] \in Nat \ {0}
    BY LiveCycle
  <2>2. cycles[g] \in Nat /\ state[g] = "queued" /\ lease[g] = 0
    BY DEF Inv, TypeOK, Claim, Claimable
  <2>3. \A t \in Slot : phase[t] # "free" /\ job[t] = g => mine[t] <= cycles[g]
    BY <2>2 DEF Inv, CyclesOwnLeases
  <2>4. \A t \in Slot : Holding(t) => job[t] # g
    BY <2>1, <2>2 DEF Inv, CyclesOwnLeases, Holding
  <2>5. \A t \in Slot : t # s => /\ job'[t] = job[t] /\ mine'[t] = mine[t]
                               /\ phase'[t] = phase[t]
    BY DEF Inv, TypeOK, Claim
  <2>6. job'[s] = g /\ mine'[s] = cycles[g] + 1 /\ phase'[s] = "starting"
    BY DEF Inv, TypeOK, Claim
  <2>7. lease'[g] = cycles[g] + 1 /\ cycles'[g] = cycles[g] + 1 /\ state'[g] = "running"
    BY DEF Inv, TypeOK, Claim
  <2>8. \A h \in Goal \ {g} : /\ lease'[h] = lease[h] /\ cycles'[h] = cycles[h]
                             /\ state'[h] = state[h]
    BY DEF Inv, TypeOK, Claim
  <2>9. \A t \in Slot : Holding(t)' => lease'[job'[t]] = mine'[t]
    BY <2>1, <2>4, <2>5, <2>6, <2>7, <2>8 DEF Inv, CyclesOwnLeases, Holding
  <2>10. \A t \in Slot : phase'[t] # "free" /\ state'[job'[t]] # "deleted"
                        => mine'[t] <= cycles'[job'[t]] /\ state'[job'[t]] # "absent"
    <3> SUFFICES ASSUME NEW t \in Slot, phase'[t] # "free", state'[job'[t]] # "deleted"
                 PROVE  mine'[t] <= cycles'[job'[t]] /\ state'[job'[t]] # "absent"
      OBVIOUS
    <3>1. CASE t = s
      BY <3>1, <2>2, <2>6, <2>7
    <3>2. CASE t # s /\ job[t] = g
      BY <3>2, <2>1, <2>2, <2>3, <2>5, <2>7
    <3>3. CASE t # s /\ job[t] # g
      BY <3>3, <2>1, <2>5, <2>8 DEF Inv, CyclesOwnLeases
    <3> QED
      BY <3>1, <3>2, <3>3
  <2>11. \A t \in Slot : phase[t] # "free" /\ job[t] = g => mine[t] # cycles[g] + 1
    BY <2>1, <2>2, <2>3
  <2>12. \A t, u \in Slot : phase'[t] # "free" /\ phase'[u] # "free" /\ job'[t] = job'[u]
                            /\ mine'[t] = mine'[u] => t = u
    <3>1. \A t, u \in Slot : phase[t] # "free" /\ phase[u] # "free" /\ job[t] = job[u]
                             /\ mine[t] = mine[u] => t = u
      BY DEF Inv, CyclesOwnLeases
    <3> SUFFICES ASSUME NEW t \in Slot, NEW u \in Slot, phase'[t] # "free", phase'[u] # "free",
                        job'[t] = job'[u], mine'[t] = mine'[u], t # u
                 PROVE  FALSE
      OBVIOUS
    <3>2. CASE t = s
      BY <2>5, <2>6, <2>11, <3>2
    <3>3. CASE u = s
      BY <2>5, <2>6, <2>11, <3>3
    <3> QED
      BY <2>5, <3>1, <3>2, <3>3
  <2> QED
    BY <2>9, <2>10, <2>12 DEF CyclesOwnLeases
<1>5. OneLeasePerProject'
  BY DEF Inv, TypeOK, OneLeasePerProject, Claim, Claimable, Leased
<1>6. SessionsAreOnRecord'
  BY GoalLedgerAssumption DEF Inv, TypeOK, SessionsAreOnRecord, Leased,
    Claim, Claimable, busyVars
<1>7. RunsByConsent'
  BY DEF Inv, TypeOK, RunsByConsent, Wanted, ACTIVE, Claim, Claimable,
    Leased, history
<1>8. FeedbackIsHeard'
  BY DEF Inv, TypeOK, FeedbackIsHeard, Claim, Claimable, Leased, goalVars
<1>9. WaitingMeansAsked'
  BY DEF Inv, TypeOK, WaitingMeansAsked, OpenOf, IsOpen, Open, ACTIVE, Claim,
    Claimable, Leased
<1>10. RefusedStaysPaused'
  BY DEF Inv, TypeOK, RefusedStaysPaused, Wanted, ACTIVE, Claim, Claimable,
    Leased, goalVars
<1>11. AcceptedWakes'
  BY DEF Inv, TypeOK, AcceptedWakes, NextWakeAwaitsAcceptance, Runs, Claim,
    Claimable, Leased, wakeVars, history
<1> QED
  BY <1>1, <1>2, <1>3, <1>4, <1>5, <1>6, <1>7, <1>8, <1>9, <1>10, <1>11 DEF Inv

\* A goal over its budget is paused instead of claimed.
LEMMA ClaimOverBudgetStep ==
  ASSUME Inv, NEW g \in Goal, ClaimOverBudget(g)
  PROVE  Inv'
<1>1. TypeOK'
  BY GoalLedgerAssumption DEF Inv, TypeOK, ClaimOverBudget, Claimable,
    SetState, goalVars, cycleVars, supVars, busyVars, wakeVars, history,
    States, TERMINAL, ACTIVE, Unwanted
<1>2. LeasesAreClaims'
  BY DEF Inv, TypeOK, LeasesAreClaims, ACTIVE, ClaimOverBudget, Claimable,
    SetState, goalVars
<1>3. CyclesOwnLeases'
  BY DEF Inv, TypeOK, CyclesOwnLeases, Holding, ClaimOverBudget, Claimable,
    SetState, goalVars, cycleVars
<1>4. RunsByConsent'
  BY DEF Inv, TypeOK, RunsByConsent, Wanted, ACTIVE, ClaimOverBudget,
    Claimable, SetState
<1>5. FeedbackIsHeard'
  BY DEF Inv, TypeOK, FeedbackIsHeard, ClaimOverBudget, Claimable, SetState,
    goalVars
<1>6. WaitingMeansAsked'
  BY DEF Inv, TypeOK, WaitingMeansAsked, OpenOf, IsOpen, Open, ACTIVE,
    ClaimOverBudget, Claimable, SetState, goalVars
<1>7. RefusedStaysPaused'
  BY DEF Inv, TypeOK, RefusedStaysPaused, Wanted, ACTIVE, ClaimOverBudget,
    Claimable, SetState, goalVars
<1>8. AcceptedWakes'
  BY DEF Inv, TypeOK, AcceptedWakes, NextWakeAwaitsAcceptance, Runs,
    ClaimOverBudget, Claimable, SetState, wakeVars, history
<1>9. CyclesAreSupervised' /\ OneLeasePerProject' /\ SessionsAreOnRecord'
  BY DEF Inv, ClaimOverBudget, Claimable, SetState, goalVars, cycleVars,
    supVars, busyVars, CyclesAreSupervised, OneLeasePerProject,
    SessionsAreOnRecord, Leased
<1> QED
  BY <1>1, <1>2, <1>3, <1>4, <1>5, <1>6, <1>7, <1>8, <1>9 DEF Inv

\* Noticing the request to stop touches no goal.
LEMMA StopNoticedStep ==
  ASSUME Inv, StopNoticed
  PROVE  Inv'
<1>1. TypeOK'
  BY DEF Inv, TypeOK, StopNoticed, goalVars, cycleVars, supVars, busyVars,
    wakeVars, history
<1>2. CyclesAreSupervised'
  BY DEF Inv, TypeOK, CyclesAreSupervised, StopNoticed, cycleVars
<1>3. LeasesAreClaims' /\ CyclesOwnLeases' /\ OneLeasePerProject' /\
      SessionsAreOnRecord' /\ RunsByConsent' /\ FeedbackIsHeard' /\
      WaitingMeansAsked' /\ RefusedStaysPaused' /\ AcceptedWakes'
  BY DEF Inv, StopNoticed, goalVars, cycleVars, busyVars, wakeVars, history,
    LeasesAreClaims, CyclesOwnLeases, OneLeasePerProject,
    SessionsAreOnRecord, RunsByConsent, FeedbackIsHeard, WaitingMeansAsked,
    RefusedStaysPaused, AcceptedWakes, ACTIVE, Holding, Leased, Wanted,
    OpenOf, IsOpen, Open, NextWakeAwaitsAcceptance, Runs
<1> QED
  BY <1>1, <1>2, <1>3 DEF Inv

\* The supervisor leaves when no cycle holds a goal.
LEMMA ShutdownStep ==
  ASSUME Inv, Shutdown
  PROVE  Inv'
<1>1. TypeOK'
  BY DEF Inv, TypeOK, Shutdown, Free, goalVars, cycleVars, supVars, busyVars,
    wakeVars, history, Phases, Verdicts
<1>2. CyclesAreSupervised'
  BY DEF Inv, TypeOK, CyclesAreSupervised, Shutdown, Free
<1>3. CyclesOwnLeases'
  BY DEF Inv, TypeOK, CyclesOwnLeases, Holding, Shutdown, Free, goalVars
<1>4. LeasesAreClaims' /\ OneLeasePerProject' /\ SessionsAreOnRecord'
      /\ RunsByConsent' /\ FeedbackIsHeard' /\ WaitingMeansAsked' /\
      RefusedStaysPaused' /\ AcceptedWakes'
  BY DEF Inv, Shutdown, Free, goalVars, busyVars, wakeVars, history,
    LeasesAreClaims, OneLeasePerProject, SessionsAreOnRecord, RunsByConsent,
    FeedbackIsHeard, WaitingMeansAsked, RefusedStaysPaused, AcceptedWakes,
    ACTIVE, Leased, Wanted, OpenOf, IsOpen, Open, NextWakeAwaitsAcceptance,
    Runs
<1> QED
  BY <1>1, <1>2, <1>3, <1>4 DEF Inv

\* A crash loses every cycle and leaves leases to the next recovery.
LEMMA CrashStep ==
  ASSUME Inv, Crash
  PROVE  Inv'
<1>1. TypeOK'
  BY GoalLedgerAssumption DEF Inv, TypeOK, Crash, Free, goalVars, cycleVars,
    supVars, busyVars, wakeVars, history, Phases
<1>2. CyclesAreSupervised'
  BY DEF Inv, TypeOK, CyclesAreSupervised, Crash, Free
<1>3. CyclesOwnLeases'
  BY DEF Inv, TypeOK, CyclesOwnLeases, Holding, Crash, Free, goalVars
<1>4. LeasesAreClaims' /\ OneLeasePerProject' /\ SessionsAreOnRecord'
      /\ RunsByConsent' /\ FeedbackIsHeard' /\ WaitingMeansAsked' /\
      RefusedStaysPaused' /\ AcceptedWakes'
  BY DEF Inv, Crash, Free, goalVars, busyVars, wakeVars, history,
    LeasesAreClaims, OneLeasePerProject, SessionsAreOnRecord, RunsByConsent,
    FeedbackIsHeard, WaitingMeansAsked, RefusedStaysPaused, AcceptedWakes,
    ACTIVE, Leased, Wanted, OpenOf, IsOpen, Open, NextWakeAwaitsAcceptance,
    Runs
<1> QED
  BY <1>1, <1>2, <1>3, <1>4 DEF Inv

\* The thread of a cycle that saved is gone.
LEMMA ReapDoneStep ==
  ASSUME Inv, NEW s \in Slot, ReapDone(s)
  PROVE  Inv'
<1>1. TypeOK'
  BY DEF Inv, TypeOK, ReapDone, ReapOnly, Free, goalVars, cycleVars, supVars,
    busyVars, wakeVars, history, Phases, Verdicts
<1>2. CyclesAreSupervised'
  BY DEF Inv, TypeOK, CyclesAreSupervised, ReapDone, ReapOnly, Free, supVars
<1>3. CyclesOwnLeases'
  BY DEF Inv, TypeOK, CyclesOwnLeases, Holding, ReapDone, ReapOnly, Free,
    goalVars
<1>4. LeasesAreClaims' /\ OneLeasePerProject' /\ SessionsAreOnRecord'
      /\ RunsByConsent' /\ FeedbackIsHeard' /\ WaitingMeansAsked' /\
      RefusedStaysPaused' /\ AcceptedWakes'
  BY DEF Inv, ReapDone, ReapOnly, Free, goalVars, busyVars, wakeVars,
    history, LeasesAreClaims, OneLeasePerProject, SessionsAreOnRecord,
    RunsByConsent, FeedbackIsHeard, WaitingMeansAsked, RefusedStaysPaused,
    AcceptedWakes, ACTIVE, Leased, Wanted, OpenOf, IsOpen, Open,
    NextWakeAwaitsAcceptance, Runs
<1> QED
  BY <1>1, <1>2, <1>3, <1>4 DEF Inv

\* A cycle that raised loses its goal, which is blocked, unless paused or
\* stopped.
LEMMA ReapRaisedStep ==
  ASSUME Inv, NEW s \in Slot, ReapRaised(s)
  PROVE  Inv'
<1>1. /\ job[s] \in Goal /\ mine[s] \in Nat \ {0} /\ phase[s] # "free"
      /\ phase' = [phase EXCEPT ![s] = "free"]
      /\ \A t \in Slot : t # s => /\ job'[t] = job[t] /\ mine'[t] = mine[t]
                                  /\ phase'[t] = phase[t] /\ verdict'[t] = verdict[t]
      /\ phase'[s] = "free"
  BY LiveCycle DEF Inv, TypeOK, ReapRaised, ReapOnly, Free
<1>2. CyclesAreSupervised'
  BY <1>1 DEF Inv, TypeOK, CyclesAreSupervised, ReapRaised, ReapOnly, supVars
<1>3. CASE lease[job[s]] = mine[s]
  <2>1. Save(job[s], "blocked", {})
    BY <1>3 DEF ReapRaised
  <2>2. TypeOK'
    <3>1. /\ job' \in [Slot -> Goal \cup {None}] /\ mine' \in [Slot -> Nat]
          /\ phase' \in [Slot -> Phases] /\ verdict' \in [Slot -> Verdicts \cup {None}]
          /\ heard' \in [Slot -> SUBSET Feedback]
      BY DEF Inv, TypeOK, ReapRaised, ReapOnly, Free, Phases
    <3>2. UNCHANGED <<cycles, cycleLimit, spent, allowance, exhausted, sent, supVars,
                      busyVars, wakeVars, accepted>>
      BY <2>1 DEF Save, ReapRaised, ReapOnly
    <3>3. /\ state' \in [Goal -> States \cup Unwanted] /\ lease' \in [Goal -> Nat]
          /\ unread' \in [Goal -> SUBSET Feedback]
          /\ question' \in [Question -> [goal : Goal, lease : Nat, state : Open]
                                        \cup {Unasked, Closed}]
          /\ consent' \subseteq Goal
      BY <1>1, <2>1, SaveTyping
    <3> QED
      BY <3>1, <3>2, <3>3 DEF Inv, TypeOK, supVars, busyVars, wakeVars
  <2>3. CyclesOwnLeases'
    <3>1. ~Holding(s)'
      BY <1>1 DEF Holding
    <3>2. \A t \in Slot : t # s => /\ phase'[t] = phase[t]
                                  /\ job'[t] = job[t] /\ mine'[t] = mine[t]
      BY <1>1
    <3>3. PICK v \in {"queued", "blocked", "ready_for_review", "paused"}, read \in {{}} :
            Save(job[s], v, read)
      BY <2>1
    <3>4. /\ phase[s] # "free" /\ lease[job[s]] = mine[s]
          /\ phase'[s] = "free" \/ (job'[s] = job[s] /\ mine'[s] = mine[s])
      BY <1>1, <1>3
    <3> QED
      BY <3>1, <3>2, <3>3, <3>4, SaveEnds
  <2>4. /\ LeasesAreClaims' /\ OneLeasePerProject' /\ SessionsAreOnRecord'
        /\ RunsByConsent' /\ FeedbackIsHeard' /\ WaitingMeansAsked'
        /\ RefusedStaysPaused' /\ AcceptedWakes'
    BY <1>1, <1>3, <2>1, SaveKeeps DEF ReapRaised, ReapOnly, busyVars, wakeVars, history
  <2> QED
    BY <1>2, <2>2, <2>3, <2>4 DEF Inv
<1>4. CASE lease[job[s]] # mine[s]
  <2>1. UNCHANGED <<goalVars, question, busyVars, wakeVars, history>>
    BY <1>4 DEF ReapRaised, ReapOnly
  <2>2. TypeOK'
    BY <1>1, <2>1 DEF Inv, TypeOK, ReapRaised, ReapOnly, Free, goalVars, supVars,
      busyVars, wakeVars, history, Phases
  <2>3. CyclesOwnLeases'
    BY <1>1, <2>1 DEF Inv, TypeOK, CyclesOwnLeases, Holding, goalVars
  <2>4. /\ LeasesAreClaims' /\ OneLeasePerProject' /\ SessionsAreOnRecord'
        /\ RunsByConsent' /\ FeedbackIsHeard' /\ RefusedStaysPaused'
    BY <2>1 DEF Inv, LeasesAreClaims, OneLeasePerProject, SessionsAreOnRecord, Leased,
      RunsByConsent, FeedbackIsHeard, RefusedStaysPaused, goalVars, busyVars, history
  <2>5. WaitingMeansAsked' /\ AcceptedWakes'
    BY <2>1 DEF Inv, WaitingMeansAsked, OpenOf, IsOpen, AcceptedWakes,
      NextWakeAwaitsAcceptance, goalVars, wakeVars, history
  <2> QED
    BY <1>2, <2>2, <2>3, <2>4, <2>5 DEF Inv
<1> QED
  BY <1>3, <1>4

\* An exception of the loop touches no goal.
LEMMA ReapDismissedStep ==
  ASSUME Inv, NEW s \in Slot, ReapDismissed(s)
  PROVE  Inv'
<1>1. TypeOK'
  BY DEF Inv, TypeOK, ReapDismissed, LoopRaises, goalVars, cycleVars,
    supVars, busyVars, wakeVars, history
<1>2. CyclesAreSupervised'
  BY DEF Inv, TypeOK, CyclesAreSupervised, ReapDismissed, LoopRaises,
    cycleVars
<1>3. LeasesAreClaims' /\ CyclesOwnLeases' /\ OneLeasePerProject' /\
      SessionsAreOnRecord' /\ RunsByConsent' /\ FeedbackIsHeard' /\
      WaitingMeansAsked' /\ RefusedStaysPaused' /\ AcceptedWakes'
  BY DEF Inv, ReapDismissed, LoopRaises, goalVars, cycleVars, busyVars,
    wakeVars, history, LeasesAreClaims, CyclesOwnLeases, OneLeasePerProject,
    SessionsAreOnRecord, RunsByConsent, FeedbackIsHeard, WaitingMeansAsked,
    RefusedStaysPaused, AcceptedWakes, ACTIVE, Holding, Leased, Wanted,
    OpenOf, IsOpen, Open, NextWakeAwaitsAcceptance, Runs
<1> QED
  BY <1>1, <1>2, <1>3 DEF Inv

\* A wake creates a goal of its own, and the wake before it was accepted.
LEMMA WakeStep ==
  ASSUME Inv, Wake
  PROVE  Inv'
<1>1. TypeOK'
  <2>1. runs + 1 \in Runs /\ runs' \in 0 .. MaxRuns
    BY GoalLedgerAssumption DEF Inv, TypeOK, Wake, WakeReady, Runs
  <2>2. wakeGoal[runs + 1] \in Goal
    BY <2>1, GoalLedgerAssumption
  <2> QED
    BY <2>1, <2>2, GoalLedgerAssumption DEF Inv, TypeOK, Wake, Insert, goalVars,
      cycleVars, supVars, busyVars, wakeVars, States, TERMINAL, ACTIVE, Unwanted
<1>2. LeasesAreClaims'
  BY DEF Inv, TypeOK, LeasesAreClaims, ACTIVE, Wake, WakeReady, Insert,
    goalVars
<1>3. CyclesOwnLeases'
  BY DEF Inv, TypeOK, CyclesOwnLeases, Holding, Wake, WakeReady, Insert,
    goalVars, cycleVars
<1>4. RunsByConsent'
  BY DEF Inv, TypeOK, RunsByConsent, Wanted, ACTIVE, Wake, WakeReady, Insert
<1>5. FeedbackIsHeard'
  BY DEF Inv, TypeOK, FeedbackIsHeard, Wake, WakeReady, Insert, goalVars
<1>6. WaitingMeansAsked'
  BY DEF Inv, TypeOK, WaitingMeansAsked, OpenOf, IsOpen, Open, ACTIVE, Wake,
    WakeReady, Insert, goalVars
<1>7. RefusedStaysPaused'
  BY GoalLedgerAssumption DEF Inv, TypeOK, RefusedStaysPaused, Wanted,
    ACTIVE, Wake, WakeReady, Insert, goalVars, LeasesAreClaims
<1>8. AcceptedWakes'
  <2>1. runs > 0 => wakeGoal[runs] \in accepted
    <3>1. runs > 0 => runs \in Runs
      BY GoalLedgerAssumption DEF Inv, TypeOK, Runs
    <3> QED
      BY <3>1, GoalLedgerAssumption DEF Inv, AcceptedWakes, Wake, WakeReady
  <2>2. \A i \in Runs : i < runs + 1 => i < runs \/ (i = runs /\ runs > 0)
    BY DEF Inv, TypeOK, Runs
  <2>3. NextWakeAwaitsAcceptance'
    BY <2>1, <2>2 DEF Inv, AcceptedWakes, NextWakeAwaitsAcceptance, Wake, Insert
  <2> QED
    BY <2>3, GoalLedgerAssumption DEF Inv, TypeOK, AcceptedWakes, Wake, Insert
<1>9. CyclesAreSupervised' /\ OneLeasePerProject' /\ SessionsAreOnRecord'
  BY DEF Inv, Wake, WakeReady, Insert, goalVars, cycleVars, supVars,
    busyVars, CyclesAreSupervised, OneLeasePerProject, SessionsAreOnRecord,
    Leased
<1> QED
  BY <1>1, <1>2, <1>3, <1>4, <1>5, <1>6, <1>7, <1>8, <1>9 DEF Inv

\* A wake that cannot resolve its folder touches no goal.
LEMMA WakeRaisesStep ==
  ASSUME Inv, WakeRaises
  PROVE  Inv'
<1>1. TypeOK'
  BY DEF Inv, TypeOK, WakeRaises, LoopRaises, WakeReady, goalVars, cycleVars,
    supVars, busyVars, wakeVars, history
<1>2. CyclesAreSupervised'
  BY DEF Inv, TypeOK, CyclesAreSupervised, WakeRaises, LoopRaises, WakeReady,
    cycleVars
<1>3. LeasesAreClaims' /\ CyclesOwnLeases' /\ OneLeasePerProject' /\
      SessionsAreOnRecord' /\ RunsByConsent' /\ FeedbackIsHeard' /\
      WaitingMeansAsked' /\ RefusedStaysPaused' /\ AcceptedWakes'
  BY DEF Inv, WakeRaises, LoopRaises, WakeReady, goalVars, cycleVars,
    busyVars, wakeVars, history, LeasesAreClaims, CyclesOwnLeases,
    OneLeasePerProject, SessionsAreOnRecord, RunsByConsent, FeedbackIsHeard,
    WaitingMeansAsked, RefusedStaysPaused, AcceptedWakes, ACTIVE, Holding,
    Leased, Wanted, OpenOf, IsOpen, Open, NextWakeAwaitsAcceptance, Runs
<1> QED
  BY <1>1, <1>2, <1>3 DEF Inv

\* The schedule that has no run left is disabled.
LEMMA WakesExhaustedStep ==
  ASSUME Inv, WakesExhausted
  PROVE  Inv'
<1>1. TypeOK'
  BY DEF Inv, TypeOK, WakesExhausted, goalVars, cycleVars, supVars, busyVars,
    wakeVars, history
<1>2. CyclesAreSupervised' /\ LeasesAreClaims' /\ CyclesOwnLeases' /\
      OneLeasePerProject' /\ SessionsAreOnRecord' /\ RunsByConsent' /\
      FeedbackIsHeard' /\ WaitingMeansAsked' /\ RefusedStaysPaused' /\
      AcceptedWakes'
  BY DEF Inv, WakesExhausted, goalVars, cycleVars, supVars, busyVars,
    wakeVars, history, CyclesAreSupervised, LeasesAreClaims, CyclesOwnLeases,
    OneLeasePerProject, SessionsAreOnRecord, RunsByConsent, FeedbackIsHeard,
    WaitingMeansAsked, RefusedStaysPaused, AcceptedWakes, ACTIVE, Holding,
    Leased, Wanted, OpenOf, IsOpen, Open, NextWakeAwaitsAcceptance, Runs
<1> QED
  BY <1>1, <1>2 DEF Inv

-----------------------------------------------------------------------------
(* Cycles *)

\* Reading the feedback changes no row.
LEMMA ReadFeedbackStep ==
  ASSUME Inv, NEW s \in Slot, ReadFeedback(s)
  PROVE  Inv'
<1>1. TypeOK'
  BY LiveCycle DEF Inv, TypeOK, ReadFeedback, Goto, CycleOnly, goalVars, cycleVars, supVars,
    busyVars, wakeVars, history, Phases
<1>2. CyclesAreSupervised'
  BY DEF Inv, TypeOK, CyclesAreSupervised, ReadFeedback, Goto, CycleOnly,
    cycleVars, supVars
<1>3. CyclesOwnLeases'
  BY DEF Inv, TypeOK, CyclesOwnLeases, Holding, ReadFeedback, Goto,
    CycleOnly, goalVars, cycleVars
<1>4. LeasesAreClaims' /\ OneLeasePerProject' /\ SessionsAreOnRecord'
      /\ RunsByConsent' /\ FeedbackIsHeard' /\ WaitingMeansAsked' /\
      RefusedStaysPaused' /\ AcceptedWakes'
  BY DEF Inv, ReadFeedback, Goto, CycleOnly, goalVars, busyVars, wakeVars,
    history, LeasesAreClaims, OneLeasePerProject, SessionsAreOnRecord,
    RunsByConsent, FeedbackIsHeard, WaitingMeansAsked, RefusedStaysPaused,
    AcceptedWakes, ACTIVE, Leased, Wanted, OpenOf, IsOpen, Open,
    NextWakeAwaitsAcceptance, Runs
<1> QED
  BY <1>1, <1>2, <1>3, <1>4 DEF Inv

\* A question of the current cycle makes its running goal wait.
LEMMA AskUserStep ==
  ASSUME Inv, NEW s \in Slot, NEW q \in Question, AskUser(s, q)
  PROVE  Inv'
<1>1. TypeOK'
  <2>1. question'[q] \in [goal : Goal, lease : Nat, state : Open]
    BY LiveCycle DEF Inv, TypeOK, AskUser, Open
  <2> QED
    BY <2>1, LiveCycle DEF Inv, TypeOK, AskUser, CycleOnly, goalVars, cycleVars,
      supVars, busyVars, wakeVars, history, States, TERMINAL, ACTIVE, Unwanted
<1>2. LeasesAreClaims'
  BY DEF Inv, TypeOK, LeasesAreClaims, ACTIVE, AskUser, CycleOnly, goalVars
<1>3. CyclesOwnLeases'
  BY DEF Inv, TypeOK, CyclesOwnLeases, Holding, AskUser, CycleOnly, goalVars,
    cycleVars
<1>4. RunsByConsent'
  BY DEF Inv, TypeOK, RunsByConsent, Wanted, ACTIVE, AskUser, CycleOnly,
    history
<1>5. FeedbackIsHeard'
  BY DEF Inv, TypeOK, FeedbackIsHeard, AskUser, CycleOnly, goalVars
<1>6. WaitingMeansAsked'
  <2>1. job[s] \in Goal /\ mine[s] \in Nat \ {0} /\ lease[job[s]] = mine[s]
    BY LiveCycle DEF Inv, CyclesOwnLeases, Holding, AskUser
  <2>2. IsOpen(q)' /\ ~IsOpen(q) /\ question'[q].goal = job[s] /\ question'[q].lease = mine[s]
    BY DEF Inv, TypeOK, AskUser, IsOpen, Open, Unasked
  <2>3. \A r \in Question : r # q => question'[r] = question[r]
    BY DEF Inv, TypeOK, AskUser
  <2>4. \A h \in Goal : h # job[s] => OpenOf(h, lease[h])' = OpenOf(h, lease[h])
    BY <2>2, <2>3 DEF OpenOf, IsOpen, AskUser
  <2>5. q \in OpenOf(job[s], lease[job[s]])' /\ state'[job[s]] # "running"
    <3>1. lease' = lease /\ job' = job
      BY DEF AskUser, cycleVars
    <3>2. state'[job[s]] # "running"
      BY <2>1 DEF Inv, TypeOK, AskUser
    <3> QED
      BY <2>1, <2>2, <3>1, <3>2 DEF OpenOf
  <2>6. \A h \in Goal : h # job[s] => state'[h] = state[h]
    BY DEF Inv, TypeOK, AskUser
  <2>7. \A r \in Question : IsOpen(r)' => /\ question'[r].lease # 0
                                         /\ lease'[question'[r].goal] = question'[r].lease
    BY <2>1, <2>2, <2>3 DEF Inv, WaitingMeansAsked, IsOpen, AskUser
  <2> QED
    <3>1. job' = job
      BY DEF AskUser, cycleVars
    <3> QED
      BY <2>4, <2>5, <2>6, <2>7, <3>1 DEF Inv, WaitingMeansAsked
<1>7. RefusedStaysPaused'
  BY DEF Inv, TypeOK, RefusedStaysPaused, Wanted, ACTIVE, AskUser, CycleOnly,
    goalVars
<1>8. AcceptedWakes'
  BY DEF Inv, TypeOK, AcceptedWakes, NextWakeAwaitsAcceptance, Runs, AskUser,
    CycleOnly, wakeVars, history
<1>9. CyclesAreSupervised' /\ OneLeasePerProject' /\ SessionsAreOnRecord'
  BY DEF Inv, AskUser, CycleOnly, goalVars, cycleVars, supVars, busyVars,
    CyclesAreSupervised, OneLeasePerProject, SessionsAreOnRecord, Leased
<1> QED
  BY <1>1, <1>2, <1>3, <1>4, <1>5, <1>6, <1>7, <1>8, <1>9 DEF Inv

\* The last answer of the current cycle lets the goal run again.
LEMMA DeliverStep ==
  ASSUME Inv, NEW s \in Slot, NEW q \in Question, Deliver(s, q)
  PROVE  Inv'
<1>1. TypeOK'
  BY GoalLedgerAssumption DEF Inv, TypeOK, Deliver, CycleOnly, OpenOf,
    IsOpen, goalVars, cycleVars, supVars, busyVars, wakeVars, history,
    States, TERMINAL, ACTIVE, Unwanted, CyclesAreSupervised
<1>2. LeasesAreClaims'
  BY DEF Inv, TypeOK, LeasesAreClaims, ACTIVE, Deliver, CycleOnly, OpenOf,
    IsOpen, goalVars
<1>3. CyclesOwnLeases'
  BY DEF Inv, TypeOK, CyclesOwnLeases, Holding, Deliver, CycleOnly, OpenOf,
    IsOpen, goalVars, cycleVars, CyclesAreSupervised, ACTIVE
<1>4. RunsByConsent'
  BY DEF Inv, TypeOK, RunsByConsent, Wanted, ACTIVE, Deliver, CycleOnly,
    OpenOf, IsOpen, history
<1>5. FeedbackIsHeard'
  BY DEF Inv, TypeOK, FeedbackIsHeard, Deliver, CycleOnly, OpenOf, IsOpen,
    goalVars
<1>6. WaitingMeansAsked'
  BY DEF Inv, TypeOK, WaitingMeansAsked, OpenOf, IsOpen, Open, ACTIVE,
    Deliver, CycleOnly, goalVars, CyclesAreSupervised, CyclesOwnLeases, Closed
<1>7. RefusedStaysPaused'
  BY DEF Inv, TypeOK, RefusedStaysPaused, Wanted, ACTIVE, Deliver, CycleOnly,
    OpenOf, IsOpen, goalVars
<1>8. AcceptedWakes'
  BY DEF Inv, TypeOK, AcceptedWakes, NextWakeAwaitsAcceptance, Runs, Deliver,
    CycleOnly, OpenOf, IsOpen, wakeVars, history
<1>9. CyclesAreSupervised' /\ OneLeasePerProject' /\ SessionsAreOnRecord'
  BY DEF Inv, Deliver, CycleOnly, OpenOf, IsOpen, goalVars, cycleVars,
    supVars, busyVars, CyclesAreSupervised, OneLeasePerProject,
    SessionsAreOnRecord, Leased
<1> QED
  BY <1>1, <1>2, <1>3, <1>4, <1>5, <1>6, <1>7, <1>8, <1>9 DEF Inv

\* A reservation within the allowance changes no state.
LEMMA ReserveStep ==
  ASSUME Inv, NEW s \in Slot, NEW e \in Estimates, Reserve(s, e)
  PROVE  Inv'
<1>1. TypeOK'
  BY GoalLedgerAssumption DEF Inv, TypeOK, Reserve, MayReserve, CycleOnly,
    goalVars, cycleVars, supVars, busyVars, wakeVars, history,
    CyclesAreSupervised
<1>2. CyclesAreSupervised' /\ LeasesAreClaims' /\ CyclesOwnLeases' /\
      OneLeasePerProject' /\ SessionsAreOnRecord' /\ RunsByConsent' /\
      FeedbackIsHeard' /\ WaitingMeansAsked' /\ RefusedStaysPaused' /\
      AcceptedWakes'
  BY DEF Inv, Reserve, MayReserve, CycleOnly, goalVars, cycleVars, supVars,
    busyVars, wakeVars, history, CyclesAreSupervised, LeasesAreClaims,
    CyclesOwnLeases, OneLeasePerProject, SessionsAreOnRecord, RunsByConsent,
    FeedbackIsHeard, WaitingMeansAsked, RefusedStaysPaused, AcceptedWakes,
    ACTIVE, Holding, Leased, Wanted, OpenOf, IsOpen, Open,
    NextWakeAwaitsAcceptance, Runs
<1> QED
  BY <1>1, <1>2 DEF Inv

\* A refused reservation pauses the goal and is remembered.
LEMMA ReserveRefusedStep ==
  ASSUME Inv, NEW s \in Slot, NEW e \in Estimates, ReserveRefused(s, e)
  PROVE  Inv'
<1>1. TypeOK'
  BY GoalLedgerAssumption DEF Inv, TypeOK, ReserveRefused, MayReserve,
    CycleOnly, goalVars, cycleVars, supVars, busyVars, wakeVars, history,
    States, TERMINAL, ACTIVE, Unwanted
<1>2. LeasesAreClaims'
  BY DEF Inv, TypeOK, LeasesAreClaims, ACTIVE, ReserveRefused, MayReserve,
    CycleOnly, goalVars
<1>3. CyclesOwnLeases'
  BY DEF Inv, TypeOK, CyclesOwnLeases, Holding, ReserveRefused, MayReserve,
    CycleOnly, goalVars, cycleVars, CyclesAreSupervised, ACTIVE
<1>4. RunsByConsent'
  BY DEF Inv, TypeOK, RunsByConsent, Wanted, ACTIVE, ReserveRefused,
    MayReserve, CycleOnly
<1>5. FeedbackIsHeard'
  BY DEF Inv, TypeOK, FeedbackIsHeard, ReserveRefused, MayReserve, CycleOnly,
    goalVars
<1>6. WaitingMeansAsked'
  BY DEF Inv, TypeOK, WaitingMeansAsked, OpenOf, IsOpen, Open, ACTIVE,
    ReserveRefused, MayReserve, CycleOnly, goalVars
<1>7. RefusedStaysPaused'
  BY DEF Inv, TypeOK, RefusedStaysPaused, Wanted, ACTIVE, ReserveRefused,
    MayReserve, CycleOnly
<1>8. AcceptedWakes'
  BY DEF Inv, TypeOK, AcceptedWakes, NextWakeAwaitsAcceptance, Runs,
    ReserveRefused, MayReserve, CycleOnly, wakeVars, history
<1>9. CyclesAreSupervised' /\ OneLeasePerProject' /\ SessionsAreOnRecord'
  BY DEF Inv, ReserveRefused, MayReserve, CycleOnly, goalVars, cycleVars,
    supVars, busyVars, CyclesAreSupervised, OneLeasePerProject,
    SessionsAreOnRecord, Leased
<1> QED
  BY <1>1, <1>2, <1>3, <1>4, <1>5, <1>6, <1>7, <1>8, <1>9 DEF Inv

\* An interrupted cycle closes before it saves.
LEMMA InterruptStep ==
  ASSUME Inv, NEW s \in Slot, Interrupt(s)
  PROVE  Inv'
<1>1. TypeOK'
  BY DEF Inv, TypeOK, Interrupt, Conclude, Goto, CycleOnly, goalVars,
    cycleVars, supVars, busyVars, wakeVars, history, Phases, Verdicts
<1>2. CyclesAreSupervised'
  BY DEF Inv, TypeOK, CyclesAreSupervised, Verdicts, Interrupt, Conclude,
    Goto, CycleOnly, cycleVars, supVars
<1>3. CyclesOwnLeases'
  BY DEF Inv, TypeOK, CyclesOwnLeases, Holding, Interrupt, Conclude, Goto,
    CycleOnly, goalVars, cycleVars
<1>4. LeasesAreClaims' /\ OneLeasePerProject' /\ SessionsAreOnRecord'
      /\ RunsByConsent' /\ FeedbackIsHeard' /\ WaitingMeansAsked' /\
      RefusedStaysPaused' /\ AcceptedWakes'
  BY DEF Inv, Interrupt, Conclude, Goto, CycleOnly, goalVars, busyVars,
    wakeVars, history, LeasesAreClaims, OneLeasePerProject,
    SessionsAreOnRecord, RunsByConsent, FeedbackIsHeard, WaitingMeansAsked,
    RefusedStaysPaused, AcceptedWakes, ACTIVE, Leased, Wanted, OpenOf,
    IsOpen, Open, NextWakeAwaitsAcceptance, Runs
<1> QED
  BY <1>1, <1>2, <1>3, <1>4 DEF Inv

\* A turn that ended closes before it saves its verdict.
LEMMA TurnEndsStep ==
  ASSUME Inv, NEW s \in Slot, NEW v \in Verdicts, TurnEnds(s, v)
  PROVE  Inv'
<1>1. TypeOK'
  BY DEF Inv, TypeOK, TurnEnds, Conclude, Goto, CycleOnly, goalVars,
    cycleVars, supVars, busyVars, wakeVars, history, Phases, Verdicts
<1>2. CyclesAreSupervised'
  BY DEF Inv, TypeOK, CyclesAreSupervised, TurnEnds, Conclude, Goto,
    CycleOnly, cycleVars, supVars
<1>3. CyclesOwnLeases'
  BY DEF Inv, TypeOK, CyclesOwnLeases, Holding, TurnEnds, Conclude, Goto,
    CycleOnly, goalVars, cycleVars
<1>4. LeasesAreClaims' /\ OneLeasePerProject' /\ SessionsAreOnRecord'
      /\ RunsByConsent' /\ FeedbackIsHeard' /\ WaitingMeansAsked' /\
      RefusedStaysPaused' /\ AcceptedWakes'
  BY DEF Inv, TurnEnds, Conclude, Goto, CycleOnly, goalVars, busyVars,
    wakeVars, history, LeasesAreClaims, OneLeasePerProject,
    SessionsAreOnRecord, RunsByConsent, FeedbackIsHeard, WaitingMeansAsked,
    RefusedStaysPaused, AcceptedWakes, ACTIVE, Leased, Wanted, OpenOf,
    IsOpen, Open, NextWakeAwaitsAcceptance, Runs
<1> QED
  BY <1>1, <1>2, <1>3, <1>4 DEF Inv

\* The cycle saves under its own lease and gives the goal up.
LEMMA CycleFinishesStep ==
  ASSUME Inv, NEW s \in Slot, CycleFinishes(s)
  PROVE  Inv'
<1>1. /\ job[s] \in Goal /\ mine[s] \in Nat \ {0} /\ lease[job[s]] = mine[s]
      /\ phase[s] # "free" /\ sup # "off"
  BY LiveCycle DEF Inv, CyclesAreSupervised, CycleFinishes
<1>2. PICK v \in {"queued", "blocked", "ready_for_review", "paused"}, read \in SUBSET Feedback :
        Save(job[s], v, read)
  <2>1. heard[s] \in SUBSET Feedback /\ {} \in SUBSET Feedback
    BY DEF Inv, TypeOK
  <2>2. CASE verdict[s] \in {"interrupted", "failed"}
    BY <2>1, <2>2 DEF CycleFinishes
  <2>3. CASE verdict[s] \in {"queued", "blocked", "ready_for_review"}
    BY <2>1, <2>3 DEF CycleFinishes
  <2> QED
    BY <2>2, <2>3 DEF Inv, CyclesAreSupervised, CycleFinishes, Verdicts
<1>3. TypeOK'
  BY <1>1, <1>2, SaveTyping DEF Inv, TypeOK, CycleFinishes, Goto, CycleOnly, Save,
    supVars, busyVars, wakeVars, history, Phases
<1>4. CyclesAreSupervised'
  BY <1>1 DEF Inv, TypeOK, CyclesAreSupervised, CycleFinishes, Goto, CycleOnly, supVars
<1>5. CyclesOwnLeases'
  <2>1. /\ phase' = [phase EXCEPT ![s] = "returning"] /\ job' = job /\ mine' = mine
    BY DEF CycleFinishes, Goto
  <2>2. ~Holding(s)' /\ \A t \in Slot : t # s => phase'[t] = phase[t]
    BY <2>1 DEF Inv, TypeOK, Holding
  <2> QED
    BY <1>1, <1>2, <2>1, <2>2, SaveEnds
<1>6. /\ LeasesAreClaims' /\ OneLeasePerProject' /\ SessionsAreOnRecord'
      /\ RunsByConsent' /\ FeedbackIsHeard' /\ WaitingMeansAsked'
      /\ RefusedStaysPaused' /\ AcceptedWakes'
  BY <1>1, <1>2, SaveKeeps DEF CycleFinishes, CycleOnly, busyVars, wakeVars, history
<1> QED
  BY <1>3, <1>4, <1>5, <1>6 DEF Inv

\* A cycle that raised has no session any more; its lease waits for the loop.
LEMMA CycleRaisesStep ==
  ASSUME Inv, NEW s \in Slot, CycleRaises(s)
  PROVE  Inv'
<1>1. TypeOK'
  BY DEF Inv, TypeOK, CycleRaises, Goto, CycleOnly, goalVars, cycleVars,
    supVars, busyVars, wakeVars, history, Phases, Verdicts
<1>2. CyclesAreSupervised'
  BY DEF Inv, TypeOK, CyclesAreSupervised, CycleRaises, Goto, CycleOnly,
    cycleVars, supVars
<1>3. CyclesOwnLeases'
  BY DEF Inv, TypeOK, CyclesOwnLeases, Holding, CycleRaises, Goto, CycleOnly,
    goalVars, cycleVars
<1>4. LeasesAreClaims' /\ OneLeasePerProject' /\ SessionsAreOnRecord'
      /\ RunsByConsent' /\ FeedbackIsHeard' /\ WaitingMeansAsked' /\
      RefusedStaysPaused' /\ AcceptedWakes'
  BY DEF Inv, CycleRaises, Goto, CycleOnly, goalVars, busyVars, wakeVars,
    history, LeasesAreClaims, OneLeasePerProject, SessionsAreOnRecord,
    RunsByConsent, FeedbackIsHeard, WaitingMeansAsked, RefusedStaysPaused,
    AcceptedWakes, ACTIVE, Leased, Wanted, OpenOf, IsOpen, Open,
    NextWakeAwaitsAcceptance, Runs
<1> QED
  BY <1>1, <1>2, <1>3, <1>4 DEF Inv

\* A cycle that saved holds nothing.
LEMMA CycleReturnsStep ==
  ASSUME Inv, NEW s \in Slot, CycleReturns(s)
  PROVE  Inv'
<1>1. TypeOK'
  BY DEF Inv, TypeOK, CycleReturns, Goto, CycleOnly, Exists, goalVars,
    cycleVars, supVars, busyVars, wakeVars, history, Phases
<1>2. CyclesAreSupervised'
  BY DEF Inv, TypeOK, CyclesAreSupervised, CycleReturns, Goto, CycleOnly,
    Exists, cycleVars, supVars
<1>3. CyclesOwnLeases'
  BY DEF Inv, TypeOK, CyclesOwnLeases, Holding, CycleReturns, Goto,
    CycleOnly, Exists, goalVars, cycleVars
<1>4. LeasesAreClaims' /\ OneLeasePerProject' /\ SessionsAreOnRecord'
      /\ RunsByConsent' /\ FeedbackIsHeard' /\ WaitingMeansAsked' /\
      RefusedStaysPaused' /\ AcceptedWakes'
  BY DEF Inv, CycleReturns, Goto, CycleOnly, Exists, goalVars, busyVars,
    wakeVars, history, LeasesAreClaims, OneLeasePerProject,
    SessionsAreOnRecord, RunsByConsent, FeedbackIsHeard, WaitingMeansAsked,
    RefusedStaysPaused, AcceptedWakes, ACTIVE, Leased, Wanted, OpenOf,
    IsOpen, Open, NextWakeAwaitsAcceptance, Runs
<1> QED
  BY <1>1, <1>2, <1>3, <1>4 DEF Inv

-----------------------------------------------------------------------------
(* The specification *)

\* An empty ledger satisfies every part of Inv.
LEMMA InitInv == Init => Inv
<1> SUFFICES ASSUME Init PROVE Inv
  OBVIOUS
<1>1. TypeOK
  <2>1. question \in [Question -> [goal : Goal, lease : Nat, state : Open] \cup {Unasked, Closed}]
    BY DEF Init
  <2>2. runs \in 0 .. MaxRuns /\ crashes \in 0 .. MaxCrashes
    BY GoalLedgerAssumption DEF Init
  <2>3. /\ job \in [Slot -> Goal \cup {None}] /\ mine \in [Slot -> Nat]
        /\ phase \in [Slot -> Phases] /\ verdict \in [Slot -> Verdicts \cup {None}]
        /\ heard \in [Slot -> SUBSET Feedback]
    BY DEF Init, Phases
  <2> QED
    BY <2>1, <2>2, <2>3 DEF Init, TypeOK, Unwanted
<1>2. CyclesAreSupervised /\ LeasesAreClaims /\ CyclesOwnLeases /\ OneLeasePerProject
  BY DEF Init, CyclesAreSupervised, LeasesAreClaims, CyclesOwnLeases, Holding,
    OneLeasePerProject, ACTIVE
<1>3. SessionsAreOnRecord /\ RunsByConsent /\ FeedbackIsHeard /\ RefusedStaysPaused
  BY DEF Init, SessionsAreOnRecord, RunsByConsent, FeedbackIsHeard, RefusedStaysPaused,
    Wanted, ACTIVE
<1>4. WaitingMeansAsked /\ AcceptedWakes
  BY GoalLedgerAssumption DEF Init, WaitingMeansAsked, IsOpen, Open, Unasked, AcceptedWakes,
    NextWakeAwaitsAcceptance, Runs
<1> QED
  BY <1>1, <1>2, <1>3, <1>4 DEF Inv

\* Inv depends on the variables of the ledger only.
LEMMA StutterStep ==
  ASSUME Inv, UNCHANGED vars
  PROVE  Inv'
<1>1. TypeOK'
  BY DEF Inv, TypeOK, vars, goalVars, cycleVars, supVars, busyVars, wakeVars, history
<1>2. CyclesAreSupervised' /\ LeasesAreClaims' /\ CyclesOwnLeases' /\ OneLeasePerProject'
  BY DEF Inv, CyclesAreSupervised, LeasesAreClaims, CyclesOwnLeases, Holding,
    OneLeasePerProject, vars, goalVars, cycleVars, supVars
<1>3. SessionsAreOnRecord' /\ RunsByConsent' /\ FeedbackIsHeard' /\ RefusedStaysPaused'
  BY DEF Inv, SessionsAreOnRecord, Leased, RunsByConsent, FeedbackIsHeard,
    RefusedStaysPaused, vars, goalVars, busyVars, history
<1>4. WaitingMeansAsked' /\ AcceptedWakes'
  BY DEF Inv, WaitingMeansAsked, OpenOf, IsOpen, AcceptedWakes,
    NextWakeAwaitsAcceptance, vars, goalVars, wakeVars, history
<1> QED
  BY <1>1, <1>2, <1>3, <1>4 DEF Inv

\* Inv is inductive.
LEMMA NextInv ==
  ASSUME Inv, [Next]_vars
  PROVE  Inv'
<1>1. CASE User
  BY <1>1, CreateStep, PauseStep, StopStep, ResumeStep, ExtendStep, AcceptStep,
    DismissStep, GiveFeedbackStep, RespondStep, EnableStep, RequestStopStep DEF User
<1>2. CASE Sessions
  BY <1>2, PulseStep, EndWorkStep, OwnerDiesStep, BeginWorkStep, HeartbeatAgesStep
    DEF Sessions
<1>3. CASE Supervisor
  BY <1>3, StartStep, StopNoticedStep, ShutdownStep, CrashStep, WakeStep, WakeRaisesStep,
    WakesExhaustedStep, ClaimOverBudgetStep, ClaimStep, ReapDoneStep, ReapRaisedStep,
    ReapDismissedStep DEF Supervisor
<1>4. ASSUME NEW s \in Slot, Cycle(s) PROVE Inv'
  BY <1>4, ReadFeedbackStep, InterruptStep, CycleFinishesStep, CycleRaisesStep,
    CycleReturnsStep, TurnEndsStep, AskUserStep, DeliverStep, ReserveStep,
    ReserveRefusedStep DEF Cycle
<1>5. CASE UNCHANGED vars
  BY <1>5, StutterStep
<1> QED
  BY <1>1, <1>2, <1>3, <1>4, <1>5 DEF Next

\* The inductive invariant holds of every behaviour of the ledger, for any
\* number of goals, projects, sessions, cycles, questions, wakes and crashes.
THEOREM Invariance == Spec => []Inv
<1>1. Init => Inv
  BY InitInv
<1>2. Inv /\ [Next]_vars => Inv'
  BY NextInv
<1> QED
  BY <1>1, <1>2, PTL DEF Spec

\* With fresh heartbeats, leases and session records exclude each other in a
\* project.
LEMMA InvExcludes ==
  ASSUME Inv, ~Lapses
  PROVE  ProjectHasOneWriter
<1>1. \A s \in Slot : Holding(s) => /\ job[s] \in Goal /\ mine[s] # 0
                                   /\ lease[job[s]] = mine[s] /\ phase[s] # "free"
  BY DEF Inv, CyclesAreSupervised, CyclesOwnLeases, Holding
<1>2. ASSUME NEW s \in Slot, NEW t \in Slot,
             Holding(s), Holding(t), home[job[s]] = home[job[t]]
      PROVE  s = t
  <2>1. job[s] = job[t]
    BY <1>1, <1>2 DEF Inv, OneLeasePerProject
  <2> QED
    BY <1>1, <1>2, <2>1 DEF Inv, CyclesOwnLeases
<1>3. ASSUME NEW s \in Slot, NEW o \in Owner, Holding(s)
      PROVE  working[o] # home[job[s]]
  <2>1. job[s] \in Goal /\ lease[job[s]] # 0 /\ home[job[s]] # None
    BY <1>1, <1>3, GoalLedgerAssumption
  <2> QED
    BY <2>1 DEF Inv, SessionsAreOnRecord, Leased
<1>4. ASSUME NEW o \in Owner, NEW r \in Owner, working[o] = working[r], working[o] # None
      PROVE  o = r
  BY <1>4 DEF Inv, SessionsAreOnRecord
<1> QED
  BY <1>2, <1>3, <1>4 DEF ProjectHasOneWriter

\* As long as live sessions keep their heartbeat fresh, a project has one writer:
\* one cycle or one session (claim and interactive of native_goals.py).
THEOREM Exclusion == ~Lapses /\ Spec => []ProjectHasOneWriter
<1>1. ASSUME ~Lapses PROVE Inv => ProjectHasOneWriter
  BY <1>1, InvExcludes
<1>2. ASSUME ~Lapses PROVE []Inv => []ProjectHasOneWriter
  BY <1>1, <1>2, PTL
<1> QED
  BY <1>2, Invariance

\* No cycle, recovery or wake runs a goal against its user's last word.
THEOREM Consent == Spec => []RunsByConsent
<1>1. Inv => RunsByConsent
  BY DEF Inv
<1> QED
  BY <1>1, Invariance, PTL

\* A result is offered and accepted only with all feedback taken into account.
THEOREM Hearing == Spec => []FeedbackIsHeard
<1>1. Inv => FeedbackIsHeard
  BY DEF Inv
<1> QED
  BY <1>1, Invariance, PTL

\* A goal waits exactly while its cycle has an open question.
THEOREM Waiting == Spec => []WaitingMeansAsked
<1>1. Inv => WaitingMeansAsked
  BY DEF Inv
<1> QED
  BY <1>1, Invariance, PTL

\* After a refused request the goal waits for a larger allowance.
THEOREM Refusal == Spec => []RefusedStaysPaused
<1>1. Inv => RefusedStaysPaused
  BY DEF Inv
<1> QED
  BY <1>1, Invariance, PTL

\* The next wake waits for the acceptance of the one before.
THEOREM WakesWait == Spec => []NextWakeAwaitsAcceptance
<1>1. Inv => NextWakeAwaitsAcceptance
  BY DEF Inv, AcceptedWakes
<1> QED
  BY <1>1, Invariance, PTL

-----------------------------------------------------------------------------
(* What the end of a pause rests on: no lease is left without its cycle       *)

\* A step that gives no lease, and after which every cycle that is to give back a
\* lease still there is still to do so, leaves no lease without its cycle.
LEMMA LeasesStayWorked ==
  ASSUME LeasesAreWorked, sup # "off",
         \A g \in Goal : lease'[g] \in {0, lease[g]},
         \A g \in Goal, s \in Slot : Returns(s, g) /\ lease'[g] # 0 => Returns(s, g)'
  PROVE  LeasesAreWorked'
BY DEF LeasesAreWorked

\* The ledger's other columns, sessions and schedules have no part in it.
LEMMA OtherSteps ==
  ASSUME LeasesAreWorked, UNCHANGED <<lease, cycleVars>>, sup' # "off" => sup # "off"
  PROVE  LeasesAreWorked'
BY DEF LeasesAreWorked, Returns, cycleVars

\* The start of a supervisor finds leases of a dead one and clears them; its end
\* leaves them to the next start.
LEMMA StartEndsWorked ==
  ASSUME Inv, LeasesAreWorked, Start \/ StopNoticed \/ Shutdown \/ Crash
  PROVE  LeasesAreWorked'
<1>1. CASE Start
  BY <1>1 DEF Start, LeasesAreWorked
<1>2. CASE StopNoticed
  BY <1>2, OtherSteps DEF StopNoticed, goalVars
<1>3. CASE Shutdown \/ Crash
  BY <1>3 DEF Shutdown, Crash, LeasesAreWorked
<1> QED
  BY <1>1, <1>2, <1>3

\* The claimed goal gets a free thread; the others keep theirs.
LEMMA ClaimWorked ==
  ASSUME Inv, LeasesAreWorked, NEW g \in Goal, NEW s \in Slot, Claim(g, s)
  PROVE  LeasesAreWorked'
<1>1. /\ sup = "on" /\ phase[s] = "free"
      /\ lease' = [lease EXCEPT ![g] = cycles[g] + 1]
      /\ job' = [job EXCEPT ![s] = g] /\ mine' = [mine EXCEPT ![s] = cycles[g] + 1]
      /\ phase' = [phase EXCEPT ![s] = "starting"]
  BY DEF Claim
<1>2. Returns(s, g)'
  BY <1>1 DEF Inv, TypeOK, Returns
<1>3. ASSUME NEW h \in Goal, h # g, lease'[h] # 0
      PROVE  \E t \in Slot : Returns(t, h)'
  <2>1. PICK t \in Slot : Returns(t, h)
    BY <1>1, <1>3 DEF Inv, TypeOK, LeasesAreWorked
  <2>2. t # s
    BY <1>1, <2>1 DEF Returns
  <2> QED
    BY <1>1, <1>3, <2>1, <2>2 DEF Inv, TypeOK, Returns
<1> QED
  BY <1>2, <1>3 DEF LeasesAreWorked

\* A thread is reaped once its lease is back: it saved, the loop saves for it, or
\* the lease was another cycle's all along.
LEMMA ReapWorked ==
  ASSUME Inv, LeasesAreWorked, NEW s \in Slot, ReapDone(s) \/ ReapRaised(s)
  PROVE  LeasesAreWorked'
<1>1. /\ sup # "off"
      /\ \A t \in Slot : t # s => /\ job'[t] = job[t] /\ mine'[t] = mine[t]
                                  /\ phase'[t] = phase[t]
  BY DEF ReapDone, ReapRaised, ReapOnly, Free
<1>2. \A g \in Goal : lease'[g] \in {0, lease[g]}
  BY DEF Inv, TypeOK, ReapDone, ReapRaised, Save, goalVars
<1>3. \A g \in Goal : lease'[g] # 0 => ~Returns(s, g)
  BY DEF Inv, TypeOK, ReapDone, ReapRaised, Save, Returns
<1>4. \A g \in Goal, t \in Slot : Returns(t, g) /\ lease'[g] # 0 => Returns(t, g)'
  BY <1>1, <1>2, <1>3 DEF Returns
<1> QED
  BY <1>1, <1>2, <1>4, LeasesStayWorked

\* A cycle goes on until it has saved its own goal, or raised.
LEMMA CycleWorked ==
  ASSUME Inv, LeasesAreWorked, NEW s \in Slot, Cycle(s)
  PROVE  LeasesAreWorked'
<1>1. CASE \E q \in Question : AskUser(s, q) \/ Deliver(s, q)
  BY <1>1, OtherSteps DEF AskUser, Deliver, CycleOnly, supVars
<1>2. CASE \E e \in Estimates : Reserve(s, e) \/ ReserveRefused(s, e)
  BY <1>2, OtherSteps DEF Reserve, ReserveRefused, CycleOnly, supVars
<1>3. ASSUME NEW ph \in {"working", "closing", "raised"}, Goto(s, ph),
             phase[s] \in {"starting", "working", "closing"},
             UNCHANGED <<job, mine, goalVars>>, CycleOnly
      PROVE  LeasesAreWorked'
  <2>1. sup # "off"
    BY <1>3 DEF Inv, CyclesAreSupervised
  <2>2. \A g \in Goal, t \in Slot : Returns(t, g) => Returns(t, g)'
    BY <1>3 DEF Inv, TypeOK, Returns, Goto, goalVars
  <2> QED
    BY <1>3, <2>1, <2>2, LeasesStayWorked DEF goalVars
<1>4. CASE ReadFeedback(s) \/ Interrupt(s) \/ CycleRaises(s) \/ \E v \in Verdicts : TurnEnds(s, v)
  BY <1>3, <1>4 DEF ReadFeedback, Interrupt, CycleRaises, TurnEnds, Conclude
<1>5. CASE CycleFinishes(s)
  <2>1. /\ sup # "off" /\ lease' = [lease EXCEPT ![job[s]] = 0]
        /\ phase' = [phase EXCEPT ![s] = "returning"] /\ UNCHANGED <<job, mine>>
    BY <1>5 DEF Inv, CyclesAreSupervised, CycleFinishes, Goto, Save
  <2>2. \A g \in Goal : lease'[g] \in {0, lease[g]}
    BY <2>1 DEF Inv, TypeOK
  <2>3. \A g \in Goal, t \in Slot : Returns(t, g) /\ lease'[g] # 0 => Returns(t, g)'
    BY <2>1 DEF Inv, TypeOK, Returns
  <2> QED
    BY <2>1, <2>2, <2>3, LeasesStayWorked
<1>6. CASE CycleReturns(s)
  <2>1. sup # "off" /\ phase[s] = "returning"
    BY <1>6 DEF Inv, CyclesAreSupervised, CycleReturns
  <2>2. \A g \in Goal, t \in Slot : Returns(t, g) => Returns(t, g)'
    BY <1>6 DEF Inv, TypeOK, CycleReturns, Goto, Returns, goalVars
  <2> QED
    BY <1>6, <2>1, <2>2, LeasesStayWorked DEF CycleReturns, goalVars
<1> QED
  BY <1>1, <1>2, <1>4, <1>5, <1>6 DEF Cycle

\* Every step keeps the cycle of every lease.
LEMMA NextWorked ==
  ASSUME Inv, LeasesAreWorked, [Next]_vars
  PROVE  LeasesAreWorked'
<1>1. CASE User
  <2>1. UNCHANGED <<lease, cycleVars>> /\ (sup' # "off" => sup # "off")
    BY <1>1 DEF User, Create, Insert, Pause, Stop, Control, SetState, Resume, Extend, Accept,
      Dismiss, GiveFeedback, Respond, Enable, RequestStop, goalVars, supVars
  <2> QED
    BY <2>1, OtherSteps
<1>2. CASE Sessions
  <2>1. UNCHANGED <<goalVars, cycleVars, supVars>>
    BY <1>2 DEF Sessions, Pulse, EndWork, OwnerDies, BeginWork, HeartbeatAges, SessionOnly
  <2> QED
    BY <2>1, OtherSteps DEF goalVars, supVars
<1>3. CASE Wake \/ WakeRaises \/ WakesExhausted \/ (\E s \in Slot : ReapDismissed(s))
           \/ (\E g \in Goal : ClaimOverBudget(g))
  <2>1. UNCHANGED <<lease, cycleVars>> /\ sup # "off"
    BY <1>3 DEF Wake, WakeReady, Insert, WakeRaises, WakesExhausted, ReapDismissed,
      LoopRaises, ClaimOverBudget, SetState, goalVars, supVars
  <2> QED
    BY <2>1, OtherSteps
<1>4. CASE Supervisor
  BY <1>3, <1>4, StartEndsWorked, ClaimWorked, ReapWorked DEF Supervisor
<1>5. ASSUME NEW s \in Slot, Cycle(s) PROVE LeasesAreWorked'
  BY <1>5, CycleWorked
<1>6. CASE UNCHANGED vars
  BY <1>6, OtherSteps DEF vars, goalVars, supVars
<1> QED
  BY <1>1, <1>2, <1>4, <1>5, <1>6 DEF Next

\* As long as a supervisor lives, every leased goal has a cycle that will give the
\* lease back: the safety that PauseIsHonoured needs beside the threads' fairness.
THEOREM LeasesAreReturned == Spec => []LeasesAreWorked
<1>1. Init => LeasesAreWorked
  BY DEF Init, LeasesAreWorked
<1>2. Inv /\ LeasesAreWorked /\ [Next]_vars => LeasesAreWorked'
  BY NextWorked
<1> QED
  BY <1>1, <1>2, Invariance, PTL DEF Spec

-----------------------------------------------------------------------------
(* The ends of a goal *)

\* What EndsStand says of one goal and one step.
Stands(g) == state[g] \in TERMINAL \cup {"deleted"} => state'[g] \in {state[g], "deleted"}

\* save writes of a leased goal, which has not ended, and keeps a stop.
LEMMA SaveStands ==
  ASSUME Inv, NEW g \in Goal, NEW v, NEW read, Save(g, v, read), lease[g] # 0
  PROVE  \A h \in Goal : Stands(h)
BY DEF Inv, TypeOK, LeasesAreClaims, Save, Finished, Stands, TERMINAL, ACTIVE

\* Every step leaves the ends of goals as they are.
LEMMA NextStands ==
  ASSUME Inv, [Next]_vars
  PROVE  \A g \in Goal : Stands(g)
<1> USE DEF Stands, TERMINAL
<1>1. CASE UNCHANGED state
  BY <1>1
<1>2. ASSUME NEW g \in Goal,
             \/ Create(g) \/ Pause(g) \/ Stop(g) \/ Resume(g) \/ Accept(g) \/ Dismiss(g)
             \/ ClaimOverBudget(g) \/ Insert(g)
             \/ (\E f \in Feedback : GiveFeedback(g, f)) \/ (\E s \in Slot : Claim(g, s))
      PROVE  \A h \in Goal : Stands(h)
  BY <1>2 DEF Inv, TypeOK, Create, Insert, Pause, Stop, Control, Resume, Accept, Dismiss,
    ClaimOverBudget, Claimable, Claim, SetState, GiveFeedback, Exists, Unwanted, ACTIVE
<1>3. CASE User
  BY <1>1, <1>2, <1>3 DEF User, Extend, Respond, Enable, RequestStop, goalVars
<1>4. CASE Sessions
  BY <1>1, <1>4 DEF Sessions, Pulse, EndWork, OwnerDies, BeginWork, HeartbeatAges, SessionOnly,
    goalVars
<1>5. CASE Start
  BY <1>5 DEF Inv, TypeOK, LeasesAreClaims, Start, ACTIVE
<1>6. CASE Wake
  BY <1>2, <1>6, GoalLedgerAssumption DEF Wake, WakeReady, Runs, Inv, TypeOK
<1>7. ASSUME NEW s \in Slot, ReapRaised(s)
      PROVE  \A h \in Goal : Stands(h)
  <2>1. phase[s] # "free"
    BY <1>7 DEF ReapRaised
  <2>2. job[s] \in Goal /\ mine[s] \in Nat \ {0}
    BY <2>1, LiveCycle
  <2> QED
    BY <1>1, <1>7, <2>2, SaveStands DEF ReapRaised, goalVars
<1>8. CASE StopNoticed \/ Shutdown \/ Crash \/ WakeRaises \/ WakesExhausted
           \/ (\E s \in Slot : ReapDone(s) \/ ReapDismissed(s))
  BY <1>1, <1>8 DEF StopNoticed, Shutdown, Crash, WakeRaises, WakesExhausted, LoopRaises,
    ReapDone, ReapDismissed, goalVars
<1>9. CASE Supervisor
  BY <1>2, <1>5, <1>6, <1>7, <1>8, <1>9 DEF Supervisor
<1>10. ASSUME NEW s \in Slot, Cycle(s)
       PROVE  \A h \in Goal : Stands(h)
  <2>1. CASE CycleFinishes(s)
    <3>1. phase[s] # "free" /\ lease[job[s]] = mine[s]
      BY <2>1 DEF CycleFinishes
    <3>2. job[s] \in Goal /\ mine[s] \in Nat \ {0}
      BY <3>1, LiveCycle
    <3>3. CASE verdict[s] = "interrupted"
      BY <2>1, <3>1, <3>2, <3>3, SaveStands DEF CycleFinishes
    <3>4. CASE verdict[s] = "failed"
      BY <2>1, <3>1, <3>2, <3>4, SaveStands DEF CycleFinishes
    <3>5. CASE verdict[s] \notin {"interrupted", "failed"}
      BY <2>1, <3>1, <3>2, <3>5, SaveStands DEF CycleFinishes
    <3> QED
      BY <3>3, <3>4, <3>5
  <2>2. CASE (\E q \in Question : AskUser(s, q) \/ Deliver(s, q))
             \/ (\E e \in Estimates : ReserveRefused(s, e))
    BY <2>2 DEF Inv, TypeOK, AskUser, Deliver, ReserveRefused, MayReserve, ACTIVE
  <2>3. CASE ReadFeedback(s) \/ Interrupt(s) \/ CycleRaises(s) \/ CycleReturns(s)
             \/ (\E v \in Verdicts : TurnEnds(s, v)) \/ (\E e \in Estimates : Reserve(s, e))
    BY <1>1, <2>3 DEF ReadFeedback, Interrupt, CycleRaises, CycleReturns, TurnEnds, Conclude,
      Reserve, goalVars
  <2> QED
    BY <1>10, <2>1, <2>2, <2>3 DEF Cycle
<1> QED
  BY <1>1, <1>3, <1>4, <1>9, <1>10 DEF Next, vars, goalVars

\* EndsStand: what the user accepted, stopped or dismissed is final (finish, save and
\* recover of native_goals.py write only what is not).
THEOREM EndsAreFinal == Spec => EndsStand
<1>1. ASSUME Inv, [Next]_vars
      PROVE  \A g \in Goal : state[g] \in TERMINAL \cup {"deleted"} =>
               state'[g] \in {state[g], "deleted"}
  BY <1>1, NextStands DEF Stands
<1> QED
  BY <1>1, Invariance, PTL DEF Spec, EndsStand
=============================================================================
