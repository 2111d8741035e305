------------------------ MODULE SessionEngineProofs -------------------------
(***************************************************************************)
(* Proofs about SessionEngine for every number of processes, calls,        *)
(* revisions, budgets, retries, edits and crashes.  Inv is inductive: each *)
(* action has a lemma, ...KeepsInv, with one step for every part of Inv.   *)
(***************************************************************************)
EXTENDS SessionEngine, TLAPS

-----------------------------------------------------------------------------
\* A new session preserves Inv.
LEMMA BeginKeepsInv ==
  ASSUME Inv, NEW p \in Proc, Begin(p)
  PROVE  Inv'
<1>1. TypeOK'
  BY DEF Inv, TypeOK, Stages, Begin, Goes, Stays, callVars, modelVars, workVars,
         pastVars, Rows
<1>2. OneWriter' /\ CallsAreHeld'
  BY DEF Inv, Begin, OneWriter, CallsAreHeld, Free, Goes, Stays, callVars, modelVars,
         Holds
<1>3. EffectsFollowRows' /\ WritesRunOnce'
  BY DEF Inv, Begin, EffectsFollowRows, WritesRunOnce, Goes, Stays, callVars, modelVars,
         pastVars
<1>4. OneLateCall' /\ PausedIsQuiet'
  BY DEF Inv, Begin, OneLateCall, PausedIsQuiet, Free, Goes, Stays, callVars, modelVars,
         pastVars, Holds
<1>5. RunsAreCharged'
  BY DEF Inv, Begin, RunsAreCharged, Goes, Stays, callVars, modelVars, pastVars
<1>6. TokensCoverUse'
  BY DEF Inv, Begin, TokensCoverUse, Stays, callVars, modelVars
<1>7. EvidenceIsTested'
  BY DEF Inv, Begin, EvidenceIsTested, Goes, Stays, callVars, modelVars, workVars
<1> QED
  BY <1>1, <1>2, <1>3, <1>4, <1>5, <1>6, <1>7 DEF Inv

\* The reading of the journal before a resumption preserves Inv.
LEMMA InspectKeepsInv ==
  ASSUME Inv, NEW p \in Proc, Inspect(p)
  PROVE  Inv'
<1>1. TypeOK'
  BY DEF Inv, TypeOK, Stages, Inspect, Goes, Stays, stateVars, callVars, modelVars,
         workVars, pastVars, Rows
<1>2. OneWriter' /\ CallsAreHeld'
  BY DEF Inv, Inspect, OneWriter, CallsAreHeld, Goes, Stays, stateVars, callVars,
         modelVars, Holds
<1>3. EffectsFollowRows' /\ WritesRunOnce'
  BY DEF Inv, Inspect, EffectsFollowRows, WritesRunOnce, Goes, Stays, stateVars,
         callVars, modelVars, pastVars
<1>4. OneLateCall' /\ PausedIsQuiet'
  BY DEF Inv, Inspect, OneLateCall, PausedIsQuiet, Goes, Stays, stateVars, callVars,
         modelVars, pastVars, Free, Holds
<1>5. RunsAreCharged'
  BY DEF Inv, Inspect, RunsAreCharged, Goes, Stays, stateVars, callVars, modelVars,
         pastVars
<1>6. TokensCoverUse'
  BY DEF Inv, Inspect, TokensCoverUse, Stays, stateVars, callVars, modelVars
<1>7. EvidenceIsTested'
  BY DEF Inv, Inspect, EvidenceIsTested, Goes, Stays, stateVars, callVars, modelVars,
         workVars
<1> QED
  BY <1>1, <1>2, <1>3, <1>4, <1>5, <1>6, <1>7 DEF Inv

\* A resumption preserves Inv.
LEMMA ResumeKeepsInv ==
  ASSUME Inv, NEW p \in Proc, Resume(p)
  PROVE  Inv'
<1>1. TypeOK'
  BY DEF Inv, TypeOK, Stages, Resume, Goes, Stays, callVars, modelVars, workVars,
         pastVars, Rows
<1>2. OneWriter' /\ CallsAreHeld'
  BY DEF Inv, Resume, OneWriter, CallsAreHeld, Free, Goes, Stays, callVars, modelVars,
         Holds
<1>3. EffectsFollowRows' /\ WritesRunOnce'
  BY DEF Inv, Resume, EffectsFollowRows, WritesRunOnce, Goes, Stays, callVars, modelVars,
         pastVars
<1>4. OneLateCall' /\ PausedIsQuiet'
  BY DEF Inv, Resume, OneLateCall, PausedIsQuiet, Goes, Stays, callVars, modelVars,
         pastVars
<1>5. RunsAreCharged'
  BY DEF Inv, Resume, RunsAreCharged, Goes, Stays, callVars, modelVars, pastVars
<1>6. TokensCoverUse'
  BY DEF Inv, Resume, TokensCoverUse, Stays, callVars, modelVars
<1>7. EvidenceIsTested'
  BY DEF Inv, Resume, EvidenceIsTested, Goes, Stays, callVars, modelVars, workVars
<1> QED
  BY <1>1, <1>2, <1>3, <1>4, <1>5, <1>6, <1>7 DEF Inv

\* A reserved request preserves Inv.
LEMMA ReserveKeepsInv ==
  ASSUME Inv, NEW p \in Proc, Reserve(p)
  PROVE  Inv'
<1>1. TypeOK'
  BY BudgetsAreNaturals, UsageIsNatural, FirstIsARevision DEF Inv, TypeOK, Stages,
         Reserve, Admissible, Affordable, Charge, Goes, stateVars, callVars, workVars,
         pastVars, Rows
<1>2. OneWriter' /\ CallsAreHeld'
  BY DEF Inv, Reserve, OneWriter, CallsAreHeld, Admissible, Affordable, Charge, Goes,
         stateVars, callVars, Holds, Free
<1>3. EffectsFollowRows' /\ WritesRunOnce'
  BY DEF Inv, Reserve, EffectsFollowRows, WritesRunOnce, Admissible, Affordable, Charge,
         Goes, stateVars, callVars, pastVars
<1>4. OneLateCall' /\ PausedIsQuiet'
  BY DEF Inv, Reserve, OneLateCall, PausedIsQuiet, Admissible, Affordable, Charge,
         stateVars, callVars, pastVars
<1>5. RunsAreCharged'
  BY DEF Inv, Reserve, RunsAreCharged, Admissible, Affordable, Charge, Goes, stateVars,
         callVars, pastVars
<1>6. TokensCoverUse'
  BY BudgetsAreNaturals, UsageIsNatural DEF Inv, Reserve, TokensCoverUse, Admissible,
         Affordable, Charge, stateVars, callVars, TypeOK
<1>7. EvidenceIsTested'
  BY DEF Inv, Reserve, EvidenceIsTested, Admissible, Affordable, Charge, Goes, stateVars,
         callVars, workVars
<1> QED
  BY <1>1, <1>2, <1>3, <1>4, <1>5, <1>6, <1>7 DEF Inv

\* A repeated request preserves Inv.
LEMMA RetryKeepsInv ==
  ASSUME Inv, NEW p \in Proc, Retry(p)
  PROVE  Inv'
<1>1. TypeOK'
  BY BudgetsAreNaturals, UsageIsNatural, FirstIsARevision DEF Inv, TypeOK, Stages, Retry,
         Admissible, Affordable, Charge, stateVars, callVars, workVars, pastVars, Rows
<1>2. OneWriter' /\ CallsAreHeld'
  BY DEF Inv, Retry, OneWriter, CallsAreHeld, Admissible, Affordable, Charge, stateVars,
         callVars, Holds, Free
<1>3. EffectsFollowRows' /\ WritesRunOnce'
  BY DEF Inv, Retry, EffectsFollowRows, WritesRunOnce, Admissible, Affordable, Charge,
         stateVars, callVars, pastVars
<1>4. OneLateCall' /\ PausedIsQuiet'
  BY DEF Inv, Retry, OneLateCall, PausedIsQuiet, Admissible, Affordable, Charge,
         stateVars, callVars, pastVars
<1>5. RunsAreCharged'
  BY DEF Inv, Retry, RunsAreCharged, Admissible, Affordable, Charge, stateVars, callVars,
         pastVars
<1>6. TokensCoverUse'
  BY BudgetsAreNaturals, UsageIsNatural DEF Inv, Retry, TokensCoverUse, Admissible,
         Affordable, Charge, stateVars, callVars, TypeOK
<1>7. EvidenceIsTested'
  BY DEF Inv, Retry, EvidenceIsTested, Admissible, Affordable, Charge, stateVars,
         callVars, workVars
<1> QED
  BY <1>1, <1>2, <1>3, <1>4, <1>5, <1>6, <1>7 DEF Inv

\* A request that is given up preserves Inv.
LEMMA GiveUpKeepsInv ==
  ASSUME Inv, NEW p \in Proc, GiveUp(p)
  PROVE  Inv'
<1>1. TypeOK'
  BY BudgetsAreNaturals, UsageIsNatural, FirstIsARevision DEF Inv, TypeOK, Stages,
         GiveUp, Admissible, Affordable, Leaves, stateVars, callVars, modelVars,
         workVars, pastVars, Goes, Rows
<1>2. OneWriter' /\ CallsAreHeld'
  BY NoneIsNoCall DEF Inv, GiveUp, OneWriter, CallsAreHeld, Admissible, Affordable,
         Leaves, stateVars, callVars, modelVars, Holds, Call, Free, Goes
<1>3. EffectsFollowRows' /\ WritesRunOnce'
  BY DEF Inv, GiveUp, EffectsFollowRows, WritesRunOnce, Admissible, Affordable, Leaves,
         stateVars, callVars, modelVars, pastVars, Goes
<1>4. OneLateCall' /\ PausedIsQuiet'
  BY DEF Inv, GiveUp, OneLateCall, PausedIsQuiet, Admissible, Affordable, Leaves,
         stateVars, callVars, modelVars, pastVars, Free, Goes, Holds
<1>5. RunsAreCharged'
  BY DEF Inv, GiveUp, RunsAreCharged, Admissible, Affordable, Leaves, stateVars,
         callVars, modelVars, pastVars, Goes
<1>6. TokensCoverUse'
  BY DEF Inv, GiveUp, TokensCoverUse, Admissible, Affordable, Leaves, stateVars,
         callVars, modelVars
<1>7. EvidenceIsTested'
  BY DEF Inv, GiveUp, EvidenceIsTested, Admissible, Affordable, Leaves, stateVars,
         callVars, modelVars, workVars, Goes
<1> QED
  BY <1>1, <1>2, <1>3, <1>4, <1>5, <1>6, <1>7 DEF Inv

\* An answer without usage preserves Inv.
LEMMA AnswerUnknownKeepsInv ==
  ASSUME Inv, NEW p \in Proc, AnswerUnknown(p)
  PROVE  Inv'
<1>1. TypeOK'
  BY BudgetsAreNaturals, UsageIsNatural, FirstIsARevision DEF Inv, TypeOK, Stages,
         AnswerUnknown, Leaves, stateVars, callVars, modelVars, workVars, pastVars, Goes,
         Rows
<1>2. OneWriter' /\ CallsAreHeld'
  BY NoneIsNoCall DEF Inv, AnswerUnknown, OneWriter, CallsAreHeld, Free, Leaves,
         stateVars, callVars, modelVars, Holds, Call, Goes
<1>3. EffectsFollowRows' /\ WritesRunOnce'
  BY DEF Inv, AnswerUnknown, EffectsFollowRows, WritesRunOnce, Leaves, stateVars,
         callVars, modelVars, pastVars, Goes
<1>4. OneLateCall' /\ PausedIsQuiet'
  BY DEF Inv, AnswerUnknown, OneLateCall, PausedIsQuiet, Free, Leaves, stateVars,
         callVars, modelVars, pastVars, Holds, Goes
<1>5. RunsAreCharged'
  BY DEF Inv, AnswerUnknown, RunsAreCharged, Leaves, stateVars, callVars, modelVars,
         pastVars, Goes
<1>6. TokensCoverUse'
  BY DEF Inv, AnswerUnknown, TokensCoverUse, Leaves, stateVars, callVars, modelVars
<1>7. EvidenceIsTested'
  BY DEF Inv, AnswerUnknown, EvidenceIsTested, Leaves, stateVars, callVars, modelVars,
         workVars, Goes
<1> QED
  BY <1>1, <1>2, <1>3, <1>4, <1>5, <1>6, <1>7 DEF Inv

\* An answer with its usage preserves Inv.
LEMMA AnswerKeepsInv ==
  ASSUME Inv, NEW p \in Proc, NEW n \in Actual, Answer(p, n)
  PROVE  Inv'
<1>1. TypeOK'
  BY BudgetsAreNaturals, UsageIsNatural, FirstIsARevision DEF Inv, TypeOK, Stages,
         Answer, Leaves, stateVars, callVars, workVars, pastVars, Goes, Rows
<1>2. OneWriter' /\ CallsAreHeld'
  BY NoneIsNoCall DEF Inv, Answer, OneWriter, CallsAreHeld, Free, Leaves, stateVars,
         callVars, Holds, Call, Goes
<1>3. EffectsFollowRows' /\ WritesRunOnce'
  BY DEF Inv, Answer, EffectsFollowRows, WritesRunOnce, Leaves, stateVars, callVars,
         pastVars, Goes
<1>4. OneLateCall' /\ PausedIsQuiet'
  BY DEF Inv, Answer, OneLateCall, PausedIsQuiet, Free, Leaves, stateVars, callVars,
         pastVars, Holds, Goes
<1>5. RunsAreCharged'
  BY DEF Inv, Answer, RunsAreCharged, Leaves, stateVars, callVars, pastVars, Goes
<1>6. TokensCoverUse'
  BY BudgetsAreNaturals, UsageIsNatural DEF Inv, Answer, TokensCoverUse, Leaves,
         stateVars, callVars, TypeOK
<1>7. EvidenceIsTested'
  BY DEF Inv, Answer, EvidenceIsTested, Leaves, stateVars, callVars, workVars, Goes
<1> QED
  BY <1>1, <1>2, <1>3, <1>4, <1>5, <1>6, <1>7 DEF Inv

\* A call that passes the first checks preserves Inv.
LEMMA EnterKeepsInv ==
  ASSUME Inv, NEW p \in Proc, NEW c \in Call, Enter(p, c)
  PROVE  Inv'
<1>1. TypeOK'
  BY DEF Inv, TypeOK, Stages, Enter, Admissible, Goes, stateVars, callVars, modelVars,
         workVars, pastVars, Rows
<1>2. OneWriter' /\ CallsAreHeld'
  <2>1. OneWriter'
    BY DEF Enter, OneWriter, Admissible, Free, Holds, Goes
  <2>2. CallsAreHeld'
    BY DEF Inv, TypeOK, Enter, CallsAreHeld, Admissible, Free, Holds, Goes, callVars,
           Mutating, Call
  <2> QED
    BY <2>1, <2>2
<1>3. EffectsFollowRows' /\ WritesRunOnce'
  BY DEF Inv, Enter, EffectsFollowRows, WritesRunOnce, Admissible, Goes, stateVars,
         callVars, modelVars, pastVars
<1>4. OneLateCall' /\ PausedIsQuiet'
  BY DEF Inv, Enter, OneLateCall, PausedIsQuiet, Admissible, stateVars, callVars,
         modelVars, pastVars
<1>5. RunsAreCharged'
  BY DEF Inv, Enter, RunsAreCharged, Admissible, Goes, stateVars, callVars, modelVars,
         pastVars
<1>6. TokensCoverUse'
  BY DEF Inv, Enter, TokensCoverUse, Admissible, stateVars, callVars, modelVars
<1>7. EvidenceIsTested'
  BY DEF Inv, Enter, EvidenceIsTested, Admissible, Goes, stateVars, callVars, modelVars,
         workVars
<1> QED
  BY <1>1, <1>2, <1>3, <1>4, <1>5, <1>6, <1>7 DEF Inv

\* A read answered from the cache preserves Inv.
LEMMA ReuseKeepsInv ==
  ASSUME Inv, NEW p \in Proc, Reuse(p)
  PROVE  Inv'
<1>1. TypeOK'
  BY BudgetsAreNaturals, UsageIsNatural, FirstIsARevision DEF Inv, TypeOK, Stages, Reuse,
         Cached, Leaves, stateVars, modelVars, workVars, pastVars, Goes, Rows
<1>2. OneWriter' /\ CallsAreHeld'
  BY NoneIsNoCall DEF Inv, Reuse, OneWriter, CallsAreHeld, Cached, Leaves, stateVars,
         modelVars, Holds, Call, Goes, TypeOK
<1>3. EffectsFollowRows' /\ WritesRunOnce'
  <2>1. \A c \in Mutating : row'[c] = row[c]
    BY KindsAreDisjoint DEF Inv, TypeOK, Reuse, Cached, Mutating, Call
  <2>2. \A q \in Proc : at'[q] \in Mutating => at'[q] = at[q] /\ stage'[q] = stage[q]
    BY NoneIsNoCall DEF Inv, TypeOK, Reuse, Leaves, Goes, Mutating
  <2> QED
    BY <2>1, <2>2 DEF Inv, Reuse, EffectsFollowRows, WritesRunOnce, pastVars
<1>4. OneLateCall' /\ PausedIsQuiet'
  BY DEF Inv, Reuse, OneLateCall, PausedIsQuiet, Cached, Leaves, stateVars, modelVars,
         pastVars, Free, Holds
<1>5. RunsAreCharged'
  BY DEF Inv, Reuse, RunsAreCharged, Cached, Leaves, stateVars, modelVars, pastVars,
         Goes
<1>6. TokensCoverUse'
  BY DEF Inv, Reuse, TokensCoverUse, Cached, Leaves, stateVars, modelVars
<1>7. EvidenceIsTested'
  BY DEF Inv, Reuse, EvidenceIsTested, Cached, Leaves, stateVars, modelVars, workVars,
         Goes
<1> QED
  BY <1>1, <1>2, <1>3, <1>4, <1>5, <1>6, <1>7 DEF Inv

\* A call answered from its row preserves Inv.
LEMMA ReplayKeepsInv ==
  ASSUME Inv, NEW p \in Proc, Replay(p)
  PROVE  Inv'
<1>1. TypeOK'
  BY BudgetsAreNaturals, UsageIsNatural, FirstIsARevision DEF Inv, TypeOK, Stages,
         Replay, Cached, MayRun, Leaves, stateVars, callVars, modelVars, workVars,
         pastVars, Goes, Rows
<1>2. OneWriter' /\ CallsAreHeld'
  BY NoneIsNoCall DEF Inv, Replay, OneWriter, CallsAreHeld, Cached, MayRun, Leaves,
         stateVars, callVars, modelVars, Holds, Call, Mutating, Goes, TypeOK
<1>3. EffectsFollowRows' /\ WritesRunOnce'
  BY DEF Inv, Replay, EffectsFollowRows, WritesRunOnce, Cached, MayRun, Leaves,
         stateVars, callVars, modelVars, pastVars, Goes
<1>4. OneLateCall' /\ PausedIsQuiet'
  BY DEF Inv, Replay, OneLateCall, PausedIsQuiet, Cached, MayRun, Leaves, stateVars,
         callVars, modelVars, pastVars, Free, Holds
<1>5. RunsAreCharged'
  BY DEF Inv, Replay, RunsAreCharged, Cached, MayRun, Leaves, stateVars, callVars,
         modelVars, pastVars, Goes
<1>6. TokensCoverUse'
  BY DEF Inv, Replay, TokensCoverUse, Cached, MayRun, Leaves, stateVars, callVars,
         modelVars
<1>7. EvidenceIsTested'
  BY DEF Inv, Replay, EvidenceIsTested, Cached, MayRun, Leaves, stateVars, callVars,
         modelVars, workVars, Goes
<1> QED
  BY <1>1, <1>2, <1>3, <1>4, <1>5, <1>6, <1>7 DEF Inv

\* A call beyond the budget preserves Inv.
LEMMA ExhaustedKeepsInv ==
  ASSUME Inv, NEW p \in Proc, Exhausted(p)
  PROVE  Inv'
<1>1. TypeOK'
  BY BudgetsAreNaturals, UsageIsNatural, FirstIsARevision DEF Inv, TypeOK, Stages,
         Exhausted, Cached, MayRun, Leaves, stateVars, modelVars, workVars, pastVars,
         Goes, Rows
<1>2. OneWriter' /\ CallsAreHeld'
  BY NoneIsNoCall DEF Inv, Exhausted, OneWriter, CallsAreHeld, Cached, MayRun, Leaves,
         stateVars, modelVars, Holds, Call, Mutating, Goes, TypeOK
<1>3. EffectsFollowRows' /\ WritesRunOnce'
  BY DEF Inv, Exhausted, EffectsFollowRows, WritesRunOnce, Cached, MayRun, Leaves,
         stateVars, modelVars, pastVars, Goes
<1>4. OneLateCall' /\ PausedIsQuiet'
  BY DEF Inv, Exhausted, OneLateCall, PausedIsQuiet, Cached, MayRun, Leaves, stateVars,
         modelVars, pastVars, Free, Holds
<1>5. RunsAreCharged'
  BY DEF Inv, Exhausted, RunsAreCharged, Cached, MayRun, Leaves, stateVars, modelVars,
         pastVars, Goes
<1>6. TokensCoverUse'
  BY DEF Inv, Exhausted, TokensCoverUse, Cached, MayRun, Leaves, stateVars, modelVars
<1>7. EvidenceIsTested'
  BY DEF Inv, Exhausted, EvidenceIsTested, Cached, MayRun, Leaves, stateVars, modelVars,
         workVars, Goes
<1> QED
  BY <1>1, <1>2, <1>3, <1>4, <1>5, <1>6, <1>7 DEF Inv

\* The admission of a call preserves Inv.
LEMMA AdmitKeepsInv ==
  ASSUME Inv, NEW p \in Proc, Admit(p)
  PROVE  Inv'
<1>1. TypeOK'
  <2>1. at[p] \in Call
    BY DEF Inv, CallsAreHeld, Holds, Admit
  <2>2. row' \in [Call -> Rows]
    BY <2>1 DEF Inv, TypeOK, Admit, Rows
  <2>3. /\ tools' \in Nat /\ late' \in Nat
        /\ before' \in [Proc -> Revision] /\ stage' \in [Proc -> Stages]
    BY DEF Inv, TypeOK, Admit, Goes, Stages
  <2> QED
    BY <2>2, <2>3 DEF Inv, TypeOK, Admit, stateVars, modelVars, workVars
<1>2. OneWriter' /\ CallsAreHeld'
  BY DEF Inv, Admit, OneWriter, CallsAreHeld, Cached, MayRun, Goes, stateVars, modelVars,
         Holds, TypeOK
<1>3. EffectsFollowRows' /\ WritesRunOnce'
  BY DEF Inv, Admit, EffectsFollowRows, WritesRunOnce, Cached, MayRun, Goes, stateVars,
         modelVars
<1>4. OneLateCall' /\ PausedIsQuiet'
  <2>1. Holds(p) /\ \A q \in Proc : stage[q] = "entered" => q = p
    BY DEF Inv, OneWriter, Holds, Admit
  <2>2. \A q \in Proc : stage'[q] # "entered"
    BY <2>1 DEF Inv, TypeOK, Admit, Goes
  <2>3. OneLateCall'
    BY <2>1, <2>2 DEF Inv, TypeOK, OneLateCall, Admit, stateVars
  <2>4. ~paused
    BY <2>1 DEF Inv, PausedIsQuiet, Free
  <2> QED
    BY <2>3, <2>4 DEF PausedIsQuiet, Admit, stateVars
<1>5. RunsAreCharged'
  BY DEF Inv, Admit, RunsAreCharged, Cached, MayRun, stateVars, modelVars, TypeOK
<1>6. TokensCoverUse'
  BY DEF Inv, Admit, TokensCoverUse, Cached, MayRun, stateVars, modelVars
<1>7. EvidenceIsTested'
  BY DEF Inv, Admit, EvidenceIsTested, Cached, MayRun, Goes, stateVars, modelVars,
         workVars
<1> QED
  BY <1>1, <1>2, <1>3, <1>4, <1>5, <1>6, <1>7 DEF Inv

\* The run of a tool preserves Inv.
LEMMA PerformKeepsInv ==
  ASSUME Inv, NEW p \in Proc, NEW r \in Revision, NEW ok \in BOOLEAN, Perform(p, r, ok)
  PROVE  Inv'
<1>1. TypeOK'
  <2>1. at[p] \in Call /\ row[at[p]] = "admitted"
    BY DEF Inv, CallsAreHeld, Holds, Perform
  <2>2. effects' \in [Call -> Nat] /\ runs' \in Nat
    BY <2>1 DEF Inv, TypeOK, Perform
  <2>3. /\ passed' \in [Proc -> BOOLEAN] /\ stage' \in [Proc -> Stages]
        /\ tested' \subseteq Revision
    BY DEF Inv, TypeOK, Perform, Goes, Stages
  <2> QED
    BY <2>2, <2>3 DEF Inv, TypeOK, Perform, stateVars, callVars, modelVars
<1>2. OneWriter' /\ CallsAreHeld'
  BY DEF Inv, Perform, OneWriter, CallsAreHeld, Goes, stateVars, callVars, modelVars,
         Holds
<1>3. EffectsFollowRows' /\ WritesRunOnce'
  <2>1. at[p] \in Call /\ row[at[p]] = "admitted"
    BY DEF Inv, CallsAreHeld, Holds, Perform
  <2>2. at[p] \in Mutating => effects[at[p]] = 0
    BY DEF Inv, EffectsFollowRows, Perform
  <2>3. \A c \in Call : effects'[c] = IF c = at[p] THEN effects[c] + 1 ELSE effects[c]
    BY <2>1 DEF Inv, TypeOK, Perform
  <2>4. \A c \in Mutating : c \in Call
    BY DEF Mutating, Call
  <2>5. WritesRunOnce'
    BY <2>2, <2>3, <2>4 DEF Inv, WritesRunOnce
  <2>6. \A q \in Proc : stage'[q] # "running" /\ (stage'[q] = "ran" => q = p)
    BY DEF Inv, TypeOK, OneWriter, Holds, Perform, Goes
  <2>7. row' = row /\ at' = at
    BY DEF Perform, callVars
  <2>8. \A c \in Mutating : /\ row'[c] # "reused"
                            /\ row'[c] \in {"none", "pending"} => effects'[c] = 0
                            /\ row'[c] = "completed" => effects'[c] = 1
    BY <2>1, <2>3, <2>4, <2>7 DEF Inv, EffectsFollowRows
  <2>9. at[p] \in Mutating => effects'[at[p]] = 1
    BY <2>2, <2>3, <2>4
  <2>10. \A q \in Proc : at'[q] \in Mutating =>
           /\ stage'[q] # "running"
           /\ stage'[q] = "ran" => effects'[at'[q]] = 1
    BY <2>6, <2>7, <2>9
  <2>11. EffectsFollowRows'
    BY <2>8, <2>10 DEF EffectsFollowRows
  <2> QED
    BY <2>5, <2>11
<1>4. OneLateCall' /\ PausedIsQuiet'
  BY DEF Inv, Perform, OneLateCall, PausedIsQuiet, Goes, stateVars, callVars, modelVars,
         Free, Holds
<1>5. RunsAreCharged'
  <2>1. \A q \in Proc : stage'[q] # "running"
    BY DEF Inv, TypeOK, OneWriter, Holds, Perform, Goes
  <2>2. stage[p] = "running"
    BY DEF Perform
  <2>3. runs + 1 <= tools
    BY <2>2 DEF Inv, RunsAreCharged
  <2>4. runs' <= tools' /\ runs' + 0 = runs'
    BY <2>3 DEF Inv, TypeOK, Perform, callVars
  <2> QED
    BY <2>1, <2>4 DEF Inv, RunsAreCharged, Perform, callVars, modelVars
<1>6. TokensCoverUse'
  BY DEF Inv, Perform, TokensCoverUse, stateVars, callVars, modelVars
<1>7. EvidenceIsTested'
  <2>1. \A q \in Proc : stage'[q] = "ran" => q = p
    BY DEF Inv, OneWriter, Holds, Perform, Goes
  <2>2. passed'[p] = ok
    BY DEF Inv, TypeOK, Perform
  <2>3. ok => rev' \in tested'
    BY DEF Perform
  <2>4. evidence' \subseteq tested' \cup blurred'
    BY DEF Inv, EvidenceIsTested, Perform, callVars
  <2> QED
    BY <2>1, <2>2, <2>3, <2>4 DEF EvidenceIsTested
<1> QED
  BY <1>1, <1>2, <1>3, <1>4, <1>5, <1>6, <1>7 DEF Inv

\* The result of a tool preserves Inv.
LEMMA JournalKeepsInv ==
  ASSUME Inv, NEW p \in Proc, Journal(p)
  PROVE  Inv'
<1>1. TypeOK'
  BY BudgetsAreNaturals, UsageIsNatural, FirstIsARevision DEF Inv, TypeOK, Stages,
         Journal, Leaves, stateVars, modelVars, workVars, pastVars, Goes, Rows
<1>2. OneWriter' /\ CallsAreHeld'
  BY NoneIsNoCall DEF Inv, Journal, OneWriter, CallsAreHeld, Leaves, stateVars,
         modelVars, Holds, Call, Goes, TypeOK
<1>3. EffectsFollowRows' /\ WritesRunOnce'
  <2>1. at[p] \in Mutating => effects[at[p]] = 1
    BY DEF Inv, EffectsFollowRows, Journal
  <2>2. \A c \in Call : row'[c] = IF c = at[p] THEN "completed" ELSE row[c]
    BY DEF Inv, TypeOK, Journal
  <2>3. \A q \in Proc : at'[q] \in Mutating => at'[q] = at[q] /\ stage'[q] = stage[q]
    BY NoneIsNoCall DEF Inv, TypeOK, Journal, Leaves, Goes, Mutating
  <2>4. effects' = effects /\ \A c \in Mutating : c \in Call
    BY DEF Journal, pastVars, Mutating, Call
  <2> QED
    BY <2>1, <2>2, <2>3, <2>4 DEF Inv, EffectsFollowRows, WritesRunOnce
<1>4. OneLateCall' /\ PausedIsQuiet'
  BY DEF Inv, Journal, OneLateCall, PausedIsQuiet, Leaves, stateVars, modelVars,
         pastVars, Free, Goes, Holds
<1>5. RunsAreCharged'
  BY DEF Inv, Journal, RunsAreCharged, Leaves, stateVars, modelVars, pastVars, Goes
<1>6. TokensCoverUse'
  BY DEF Inv, Journal, TokensCoverUse, Leaves, stateVars, modelVars
<1>7. EvidenceIsTested'
  BY DEF Inv, Journal, EvidenceIsTested, Leaves, stateVars, modelVars, workVars, Goes
<1> QED
  BY <1>1, <1>2, <1>3, <1>4, <1>5, <1>6, <1>7 DEF Inv

\* The exception of a tool preserves Inv.
LEMMA RaiseKeepsInv ==
  ASSUME Inv, NEW p \in Proc, Raise(p)
  PROVE  Inv'
<1>1. TypeOK'
  BY BudgetsAreNaturals, UsageIsNatural, FirstIsARevision DEF Inv, TypeOK, Stages, Raise,
         Leaves, stateVars, callVars, modelVars, workVars, pastVars, Goes, Rows
<1>2. OneWriter' /\ CallsAreHeld'
  BY NoneIsNoCall DEF Inv, Raise, OneWriter, CallsAreHeld, Leaves, stateVars, callVars,
         modelVars, Holds, Call, Goes, TypeOK
<1>3. EffectsFollowRows' /\ WritesRunOnce'
  BY NoneIsNoCall DEF Inv, Raise, EffectsFollowRows, WritesRunOnce, Leaves, stateVars,
         callVars, modelVars, pastVars, Mutating, Goes
<1>4. OneLateCall' /\ PausedIsQuiet'
  BY DEF Inv, Raise, OneLateCall, PausedIsQuiet, Leaves, stateVars, callVars, modelVars,
         pastVars, Free, Goes, Holds
<1>5. RunsAreCharged'
  BY DEF Inv, Raise, RunsAreCharged, Leaves, stateVars, callVars, modelVars, pastVars,
         Goes, TypeOK
<1>6. TokensCoverUse'
  BY DEF Inv, Raise, TokensCoverUse, Leaves, stateVars, callVars, modelVars
<1>7. EvidenceIsTested'
  BY DEF Inv, Raise, EvidenceIsTested, Leaves, stateVars, callVars, modelVars, workVars,
         Goes
<1> QED
  BY <1>1, <1>2, <1>3, <1>4, <1>5, <1>6, <1>7 DEF Inv

\* The result of a run preserves Inv.
LEMMA FinishKeepsInv ==
  ASSUME Inv, NEW p \in Proc, NEW s \in Status, Finish(p, s)
  PROVE  Inv'
<1>1. TypeOK'
  <2>1. result' \in Status \cup {"none"}
    BY DEF Finish, Status
  <2>2. paused' \in BOOLEAN
    BY DEF Finish
  <2>3. Leaves(p, "over")
    BY DEF Finish
  <2>4. /\ stage' \in [Proc -> Stages] /\ at' \in [Proc -> Call \cup {None}]
        /\ before' \in [Proc -> Revision]
    BY <2>3, FirstIsARevision DEF Inv, TypeOK, Leaves, Goes, Stages
  <2>5. passed' \in [Proc -> BOOLEAN] /\ tries' \in [Proc -> Nat]
    BY <2>3 DEF Inv, TypeOK, Leaves
  <2> QED
    BY <2>1, <2>2, <2>4, <2>5 DEF Inv, TypeOK, Finish, callVars, modelVars, workVars,
           pastVars
<1>2. OneWriter' /\ CallsAreHeld'
  BY NoneIsNoCall DEF Inv, Finish, OneWriter, CallsAreHeld, Free, Mutated, Verified,
         Leaves, callVars, modelVars, Holds, Call, Mutating, Goes
<1>3. EffectsFollowRows' /\ WritesRunOnce'
  BY DEF Inv, Finish, EffectsFollowRows, WritesRunOnce, Mutated, Verified, Leaves,
         callVars, modelVars, pastVars, Goes
<1>4. OneLateCall' /\ PausedIsQuiet'
  BY DEF Inv, Finish, OneLateCall, PausedIsQuiet, Free, Mutated, Verified, Leaves,
         callVars, modelVars, pastVars, Holds, Goes
<1>5. RunsAreCharged'
  BY DEF Inv, Finish, RunsAreCharged, Mutated, Verified, Leaves, callVars, modelVars,
         pastVars, Goes
<1>6. TokensCoverUse'
  BY DEF Inv, Finish, TokensCoverUse, Mutated, Verified, Leaves, callVars, modelVars
<1>7. EvidenceIsTested'
  BY DEF Inv, Finish, EvidenceIsTested, Mutated, Verified, Leaves, callVars, modelVars,
         workVars, Goes
<1> QED
  BY <1>1, <1>2, <1>3, <1>4, <1>5, <1>6, <1>7 DEF Inv

\* A run that finds the journal busy preserves Inv.
LEMMA FailKeepsInv ==
  ASSUME Inv, NEW p \in Proc, Fail(p)
  PROVE  Inv'
<1>1. TypeOK'
  BY BudgetsAreNaturals, UsageIsNatural, FirstIsARevision DEF Inv, TypeOK, Stages, Fail,
         Leaves, stateVars, callVars, modelVars, workVars, pastVars, Goes, Rows
<1>2. OneWriter' /\ CallsAreHeld'
  BY NoneIsNoCall DEF Inv, Fail, OneWriter, CallsAreHeld, Free, Leaves, stateVars,
         callVars, modelVars, Holds, Call, Goes
<1>3. EffectsFollowRows' /\ WritesRunOnce'
  BY DEF Inv, Fail, EffectsFollowRows, WritesRunOnce, Leaves, stateVars, callVars,
         modelVars, pastVars, Goes
<1>4. OneLateCall' /\ PausedIsQuiet'
  BY DEF Inv, Fail, OneLateCall, PausedIsQuiet, Leaves, stateVars, callVars, modelVars,
         pastVars, Goes
<1>5. RunsAreCharged'
  BY DEF Inv, Fail, RunsAreCharged, Leaves, stateVars, callVars, modelVars, pastVars,
         Goes
<1>6. TokensCoverUse'
  BY DEF Inv, Fail, TokensCoverUse, Leaves, stateVars, callVars, modelVars
<1>7. EvidenceIsTested'
  BY DEF Inv, Fail, EvidenceIsTested, Leaves, stateVars, callVars, modelVars, workVars,
         Goes
<1> QED
  BY <1>1, <1>2, <1>3, <1>4, <1>5, <1>6, <1>7 DEF Inv

\* A crash preserves Inv.
LEMMA CrashKeepsInv ==
  ASSUME Inv, NEW p \in Proc, Crash(p)
  PROVE  Inv'
<1>1. TypeOK'
  BY BudgetsAreNaturals, UsageIsNatural, FirstIsARevision DEF Inv, TypeOK, Stages, Crash,
         Leaves, stateVars, callVars, modelVars, workVars, pastVars, Goes, Rows
<1>2. OneWriter' /\ CallsAreHeld'
  BY NoneIsNoCall DEF Inv, Crash, OneWriter, CallsAreHeld, Leaves, stateVars, callVars,
         modelVars, Holds, Call, Goes, TypeOK
<1>3. EffectsFollowRows' /\ WritesRunOnce'
  BY NoneIsNoCall DEF Inv, Crash, EffectsFollowRows, WritesRunOnce, Leaves, stateVars,
         callVars, modelVars, pastVars, Mutating, Goes
<1>4. OneLateCall' /\ PausedIsQuiet'
  BY DEF Inv, Crash, OneLateCall, PausedIsQuiet, Leaves, stateVars, callVars, modelVars,
         pastVars, Free, Goes, Holds
<1>5. RunsAreCharged'
  BY DEF Inv, Crash, RunsAreCharged, Leaves, stateVars, callVars, modelVars, pastVars,
         Goes, TypeOK
<1>6. TokensCoverUse'
  BY DEF Inv, Crash, TokensCoverUse, Leaves, stateVars, callVars, modelVars
<1>7. EvidenceIsTested'
  BY DEF Inv, Crash, EvidenceIsTested, Leaves, stateVars, callVars, modelVars, workVars,
         Goes
<1> QED
  BY <1>1, <1>2, <1>3, <1>4, <1>5, <1>6, <1>7 DEF Inv

\* A cancellation preserves Inv.
LEMMA CancelKeepsInv ==
  ASSUME Inv, Cancel
  PROVE  Inv'
<1>1. TypeOK'
  BY DEF Inv, TypeOK, Stages, Cancel, callVars, modelVars, procVars, workVars, pastVars,
         Rows
<1>2. OneWriter' /\ CallsAreHeld'
  BY DEF Inv, Cancel, OneWriter, CallsAreHeld, callVars, modelVars, procVars, Holds
<1>3. EffectsFollowRows' /\ WritesRunOnce'
  BY DEF Inv, Cancel, EffectsFollowRows, WritesRunOnce, callVars, modelVars, procVars,
         pastVars
<1>4. OneLateCall' /\ PausedIsQuiet'
  BY DEF Inv, Cancel, OneLateCall, PausedIsQuiet, callVars, modelVars, procVars,
         pastVars, Free, Holds
<1>5. RunsAreCharged'
  BY DEF Inv, Cancel, RunsAreCharged, callVars, modelVars, procVars, pastVars
<1>6. TokensCoverUse'
  BY DEF Inv, Cancel, TokensCoverUse, callVars, modelVars, procVars
<1>7. EvidenceIsTested'
  BY DEF Inv, Cancel, EvidenceIsTested, callVars, modelVars, procVars, workVars
<1> QED
  BY <1>1, <1>2, <1>3, <1>4, <1>5, <1>6, <1>7 DEF Inv

\* An edit by somebody else preserves Inv.
LEMMA EditKeepsInv ==
  ASSUME Inv, NEW r \in Revision, Edit(r)
  PROVE  Inv'
<1>1. TypeOK'
  BY DEF Inv, TypeOK, Stages, Edit, stateVars, callVars, modelVars, procVars, pastVars,
         Rows
<1>2. OneWriter' /\ CallsAreHeld'
  BY DEF Inv, Edit, OneWriter, CallsAreHeld, stateVars, callVars, modelVars, procVars,
         Holds
<1>3. EffectsFollowRows' /\ WritesRunOnce'
  BY DEF Inv, Edit, EffectsFollowRows, WritesRunOnce, stateVars, callVars, modelVars,
         procVars, pastVars
<1>4. OneLateCall' /\ PausedIsQuiet'
  BY DEF Inv, Edit, OneLateCall, PausedIsQuiet, stateVars, callVars, modelVars, procVars,
         pastVars, Free, Holds
<1>5. RunsAreCharged'
  BY DEF Inv, Edit, RunsAreCharged, stateVars, callVars, modelVars, procVars, pastVars
<1>6. TokensCoverUse'
  BY DEF Inv, Edit, TokensCoverUse, stateVars, callVars, modelVars, procVars
<1>7. EvidenceIsTested'
  <2>1. \A p \in Proc : stage[p] = "ran" /\ passed[p] => rev' \in blurred'
    BY DEF Inv, CallsAreHeld, Edit
  <2>2. evidence' \subseteq tested' \cup blurred'
    BY DEF Inv, EvidenceIsTested, Edit, callVars
  <2> QED
    BY <2>1, <2>2 DEF EvidenceIsTested, Edit, procVars
<1> QED
  BY <1>1, <1>2, <1>3, <1>4, <1>5, <1>6, <1>7 DEF Inv

-----------------------------------------------------------------------------
(* The theorems *)

\* A session that nobody has started satisfies Inv.
LEMMA InitInv == Init => Inv
<1> SUFFICES ASSUME Init PROVE Inv
  OBVIOUS
<1>1. TypeOK
  <2>1. /\ row \in [Call -> Rows] /\ changed \in [Call -> BOOLEAN] /\ effects \in [Call -> Nat]
        /\ stage \in [Proc -> Stages] /\ at \in [Proc -> Call \cup {None}]
    BY DEF Init, Rows, Stages
  <2>2. /\ before \in [Proc -> Revision] /\ passed \in [Proc -> BOOLEAN]
        /\ tries \in [Proc -> Nat] /\ rev \in Revision
    BY FirstIsARevision DEF Init
  <2>3. /\ started \in BOOLEAN /\ cancelled \in BOOLEAN /\ paused \in BOOLEAN
        /\ declared \in BOOLEAN /\ result \in Status \cup {"none"}
    BY DEF Init
  <2>4. /\ evidence \subseteq Revision /\ cache \subseteq Revision
        /\ tested \subseteq Revision /\ blurred \subseteq Revision
    BY DEF Init
  <2>5. /\ tools \in Nat /\ models \in Nat /\ tokens \in Nat /\ edits \in Nat /\ crashes \in Nat
        /\ runs \in Nat /\ late \in Nat /\ known \in Nat /\ open \in Int
    BY DEF Init
  <2> QED
    BY <2>1, <2>2, <2>3, <2>4, <2>5 DEF TypeOK
<1>2. \A p \in Proc : stage[p] = "idle" /\ ~Holds(p)
  BY DEF Init, Holds
<1>3. OneWriter /\ CallsAreHeld /\ OneLateCall /\ PausedIsQuiet /\ EvidenceIsTested
  BY <1>2, NoneIsNoCall DEF Init, OneWriter, CallsAreHeld, OneLateCall, PausedIsQuiet,
         EvidenceIsTested, Call
<1>4. EffectsFollowRows /\ WritesRunOnce
  BY <1>2 DEF Init, EffectsFollowRows, WritesRunOnce, Mutating, Call
<1>5. RunsAreCharged /\ TokensCoverUse
  BY <1>2, BudgetsAreNaturals DEF Init, RunsAreCharged, TokensCoverUse
<1> QED
  BY <1>1, <1>3, <1>4, <1>5 DEF Inv

\* Every step of Next preserves Inv.
LEMMA NextKeepsInv ==
  ASSUME Inv, [Next]_vars
  PROVE  Inv'
<1>1. CASE UNCHANGED vars
  <2>1. TypeOK' /\ OneWriter' /\ CallsAreHeld'
    BY <1>1 DEF vars, stateVars, callVars, modelVars, procVars, workVars, pastVars, Inv,
           TypeOK, OneWriter, CallsAreHeld, Holds
  <2>2. EffectsFollowRows' /\ WritesRunOnce' /\ OneLateCall' /\ PausedIsQuiet'
    BY <1>1 DEF vars, stateVars, callVars, procVars, pastVars, Inv, EffectsFollowRows,
           WritesRunOnce, OneLateCall, PausedIsQuiet, Free, Holds
  <2>3. RunsAreCharged' /\ TokensCoverUse' /\ EvidenceIsTested'
    BY <1>1 DEF vars, callVars, modelVars, procVars, workVars, pastVars, Inv,
           RunsAreCharged, TokensCoverUse, EvidenceIsTested
  <2> QED
    BY <2>1, <2>2, <2>3 DEF Inv
<1>2. ASSUME NEW p \in Proc, Step(p)
      PROVE  Inv'
  BY <1>2, BeginKeepsInv, InspectKeepsInv, ResumeKeepsInv, ReserveKeepsInv, RetryKeepsInv,
     GiveUpKeepsInv, AnswerUnknownKeepsInv, AnswerKeepsInv, EnterKeepsInv, ReuseKeepsInv,
     ReplayKeepsInv, ExhaustedKeepsInv, AdmitKeepsInv, PerformKeepsInv, JournalKeepsInv,
     RaiseKeepsInv, FinishKeepsInv, FailKeepsInv, CrashKeepsInv
     DEF Step
<1> QED
  BY <1>1, <1>2, CancelKeepsInv, EditKeepsInv DEF Next

\* Inv holds in every reachable state.
THEOREM InvHolds == Spec => []Inv
<1> QED
  BY InitInv, NextKeepsInv, PTL DEF Spec

\* WritesRunOnce: a call id of an editing tool or a command acts at most once
\* (execute_incremental), for any number of processes, calls and crashes.
THEOREM UncertainWritesAreNotReplayed == Spec => []WritesRunOnce
<1>1. Inv => WritesRunOnce
  BY DEF Inv
<1> QED
  BY <1>1, InvHolds, PTL

\* StoppedIsQuiet: what may still start once cancel has set its flag without the
\* lock (cancel and execute_incremental); the pause of a waiting session is taken
\* under it (finish_incremental).
THEOREM StoppedSessionsAreQuiet == Spec => []StoppedIsQuiet
<1>1. Inv => StoppedIsQuiet
  BY DEF Inv, StoppedIsQuiet
<1> QED
  BY <1>1, InvHolds, PTL

\* RunsAreCharged: neither resumptions nor crashes give a session more runs than its budget.
THEOREM TheBudgetHolds == Spec => []RunsAreCharged
<1>1. Inv => RunsAreCharged
  BY DEF Inv
<1> QED
  BY <1>1, InvHolds, PTL

\* TokensCoverUse: retries and unreported usage stay charged
\* (reserve_model_retry and reconcile_model_call).
THEOREM UsageIsNeverUndercharged == Spec => []TokensCoverUse
<1>1. Inv => TokensCoverUse
  BY DEF Inv
<1> QED
  BY <1>1, InvHolds, PTL

\* What a step does to the row of a mutating call and to its effects: the row is
\* written before the tool acts, once, and completed after it.
LEMMA MutatingRows ==
  ASSUME Inv, [Next]_vars, NEW c \in Mutating
  PROVE  \/ row'[c] = row[c] /\ effects'[c] = effects[c]
         \/ row[c] = "none" /\ row'[c] = "pending" /\ effects'[c] = effects[c]
         \/ /\ row[c] \in {"none", "pending"} /\ row'[c] = "admitted"
            /\ effects'[c] = effects[c]
         \/ row[c] = "admitted" /\ row'[c] = row[c] /\ effects[c] = 0 /\ effects'[c] = 1
         \/ /\ row[c] = "admitted" /\ row'[c] = "completed"
            /\ effects[c] = 1 /\ effects'[c] = 1
<1>0. c \in Call /\ c \notin Read /\ row \in [Call -> Rows] /\ effects \in [Call -> Nat]
  BY KindsAreDisjoint DEF Inv, TypeOK, Mutating, Call
<1>1. CASE UNCHANGED vars
  BY <1>1 DEF vars, callVars, pastVars
<1>2. ASSUME NEW p \in Proc, Step(p), ~Reuse(p), ~Exhausted(p), ~Admit(p), ~Journal(p),
             \A r \in Revision, ok \in BOOLEAN : ~Perform(p, r, ok)
      PROVE  row' = row /\ effects' = effects
  BY <1>2 DEF Step, callVars, pastVars, Begin, Inspect, Resume, Reserve, Retry, GiveUp,
         AnswerUnknown, Answer, Enter, Replay, Raise, Finish, Fail, Crash
<1>3. ASSUME NEW p \in Proc, Reuse(p)
      PROVE  row'[c] = row[c] /\ effects'[c] = effects[c]
  BY <1>0, <1>3 DEF Reuse, Cached, pastVars
<1>4. ASSUME NEW p \in Proc, Exhausted(p)
      PROVE  /\ \/ row'[c] = row[c]
                \/ row[c] = "none" /\ row'[c] = "pending"
             /\ effects'[c] = effects[c]
  BY <1>0, <1>4 DEF Exhausted, pastVars
<1>5. ASSUME NEW p \in Proc, Admit(p)
      PROVE  /\ \/ row'[c] = row[c]
                \/ row[c] \in {"none", "pending"} /\ row'[c] = "admitted"
             /\ effects'[c] = effects[c]
  BY <1>0, <1>5 DEF Admit, MayRun
<1>6. ASSUME NEW p \in Proc, NEW r \in Revision, NEW ok \in BOOLEAN, Perform(p, r, ok)
      PROVE  /\ row'[c] = row[c]
             /\ \/ effects'[c] = effects[c]
                \/ row[c] = "admitted" /\ effects[c] = 0 /\ effects'[c] = 1
  BY <1>0, <1>6 DEF Perform, callVars, Inv, EffectsFollowRows, CallsAreHeld
<1>7. ASSUME NEW p \in Proc, Journal(p)
      PROVE  /\ effects'[c] = effects[c]
             /\ \/ row'[c] = row[c]
                \/ row[c] = "admitted" /\ row'[c] = "completed" /\ effects[c] = 1
  BY <1>0, <1>7 DEF Journal, pastVars, Inv, EffectsFollowRows, CallsAreHeld
<1>8. ASSUME Cancel \/ \E r \in Revision : Edit(r)
      PROVE  row' = row /\ effects' = effects
  BY <1>8 DEF Cancel, Edit, callVars, pastVars
<1> QED
  BY <1>1, <1>2, <1>3, <1>4, <1>5, <1>6, <1>7, <1>8 DEF Next

\* WritesAreJournaled: execute_incremental and its callers implement a write-ahead
\* journal of what they do to the workspace, whatever crashes or comes back.
THEOREM EngineImplementsJournal == Spec => WritesAreJournaled
<1>1. Init => Writes!Init
  BY DEF Init, Writes!Init, EntryOf, Mutating, Call
<1>2. ASSUME Inv, Inv', [Next]_vars
      PROVE  Writes!Next
  <2>1. [c \in Mutating |-> EntryOf(c)]' \in [Mutating -> Writes!Entries]
    BY DEF EntryOf, Writes!Entries
  <2>2. [c \in Mutating |-> effects[c]]' \in [Mutating -> 0..1]
    <3>1. ASSUME NEW c \in Mutating
          PROVE  effects'[c] \in 0..1
      <4>1. effects' \in [Call -> Nat] /\ c \in Call
        BY <1>2 DEF Inv, TypeOK, Mutating, Call
      <4>2. effects'[c] =< 1
        BY <1>2 DEF Inv, WritesRunOnce
      <4> QED
        BY <4>1, <4>2
    <3> QED
      BY <3>1
  <2>3. ASSUME NEW c \in Mutating
        PROVE  \/ Writes!Keep(c) \/ Writes!Intend(c) \/ Writes!Act(c)
               \/ Writes!Conclude(c) \/ Writes!Void(c)
    BY <1>2, <2>3, MutatingRows DEF EntryOf, Writes!Keep, Writes!Intend, Writes!Act,
           Writes!Conclude, Writes!Moves
  <2> QED
    BY <2>1, <2>2, <2>3 DEF Writes!Next
<1> QED
  BY <1>1, <1>2, InvHolds, PTL DEF Spec, WritesAreJournaled, Writes!Spec

\* CompletionIsTested: finish_incremental completes a session only with its declared
\* artifacts valid, or with passing evidence for the revision its changes have come to.
THEOREM CompletedWorkIsTested == Spec => CompletionIsTested
<1>1. ASSUME Inv, [Next]_vars, result' = "completed", result # "completed"
      PROVE  IF declared THEN rev \in Valid
             ELSE Mutated => rev \in tested \cup blurred
  <2>1. PICK p \in Proc, s \in Status : Finish(p, s)
    BY <1>1 DEF Next, Step, vars, stateVars, Begin, Inspect, Resume, Reserve, Retry,
           GiveUp, AnswerUnknown, Answer, Enter, Reuse, Replay, Exhausted, Admit,
           Perform, Journal, Raise, Fail, Crash, Cancel, Edit
  <2>2. ~Refused
    BY <1>1, <2>1 DEF Finish
  <2>3. CASE declared
    BY <2>2, <2>3 DEF Refused, ArtifactsHold
  <2>4. CASE ~declared
    <3>1. Mutated => Verified
      BY <2>2, <2>4 DEF Refused, ArtifactsHold
    <3> QED
      BY <1>1, <2>4, <3>1 DEF Verified, Inv, EvidenceIsTested
  <2> QED
    BY <2>3, <2>4
<1> QED
  BY <1>1, InvHolds, PTL DEF Spec, CompletionIsTested
=============================================================================
