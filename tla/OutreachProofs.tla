--------------------------- MODULE OutreachProofs ---------------------------
(***************************************************************************)
(* Proofs about Outreach for every number of drafts, processes, accounts,  *)
(* settings and connections.  Inv is inductive; each action has a lemma,   *)
(* ...KeepsInv, with one step for every group of its parts.                *)
(***************************************************************************)
EXTENDS Outreach, FiniteSetTheorems, TLAPS

-----------------------------------------------------------------------------
\* A process that is done forgets what it knew.
LEMMA LeaveFacts ==
  ASSUME TypeOK, NEW p \in Proc, Leave(p)
  PROVE  /\ pc' \in [Proc -> Points] /\ at' \in [Proc -> Draft \cup {None}]
         /\ seen' \in [Proc -> Revision \cup {None}] /\ cred' \in [Proc -> Grant \cup {None}]
         /\ cap' \in [Proc -> 0 .. MaxLimit]
         /\ answer' \in [Proc -> {"unknown", "accepted", "failed"}]
         /\ pc'[p] = "idle"
         /\ \A q \in Proc \ {p} : /\ pc'[q] = pc[q] /\ at'[q] = at[q] /\ seen'[q] = seen[q]
                                  /\ cred'[q] = cred[q] /\ answer'[q] = answer[q]
<1>1. 0 \in 0 .. MaxLimit /\ "idle" \in Points
  BY BoundsAreNaturals DEF Points
<1> QED
  BY <1>1 DEF TypeOK, Leave

\* What a connection says of itself.
LEMMA HealthFacts ==
  ASSUME NEW n \in 0 .. MaxGrants,
         NEW s \in {"none", "connecting", "connected", "failed", "disconnected"}
  PROVE  [state |-> s, gen |-> n] \in Health
BY DEF Health

\* The attempts of a day are finitely many.
LEMMA AttemptFacts ==
  ASSUME NEW s \in Sender
  PROVE  /\ IsFiniteSet(WithinADay(s)) /\ Cardinality(WithinADay(s)) \in Nat
         /\ IsFiniteSet(WithinADay(s)') /\ Cardinality(WithinADay(s)') \in Nat
<1>1. WithinADay(s) \subseteq Draft /\ WithinADay(s)' \subseteq Draft
  BY DEF WithinADay
<1> QED
  BY <1>1, DraftsAreFinite, FS_Subset, FS_CardinalityType

\* The list of a project ages what hangs.
LEMMA ListKeepsInv ==
  ASSUME Inv, List
  PROVE  Inv'
<1>1. TypeOK'
  BY DEF Inv, List, TypeOK, Swept, oauthVars, procVars, mailVars, States, Points
<1>2. PostedOnceAsReviewed' /\ Unsent' /\ Unborn'
  BY DEF Inv, List, PostedOnceAsReviewed, Unsent, Unborn, Owned, Busy, Swept, oauthVars,
         procVars, mailVars, Owns, Grant, Interrupted
<1>3. Single' /\ Owned' /\ Before'
  BY DEF Inv, List, Single, Owned, Before, Unsent, Busy, Unborn, Swept, oauthVars,
         procVars, mailVars, Owns
<1>4. Told' /\ Found' /\ Once'
  BY DEF Inv, List, Told, Found, Once, Before, Single, Swept, oauthVars, procVars,
         mailVars
<1>5. VerdictsAreTrue' /\ SuppressedIsSilent'
  BY DEF Inv, List, VerdictsAreTrue, SuppressedIsSilent, Told, Found, Once, Before,
         Single, Swept, oauthVars, procVars, mailVars, MayPost
<1>6. ConnectionIsCurrent' /\ Busy' /\ Granted'
  BY DEF Inv, List, ConnectionIsCurrent, Busy, Granted, Unborn, Swept, oauthVars,
         procVars, mailVars
<1>7. DailyCap'
  BY DEF Inv, List, DailyCap, Swept, procVars, WithinADay
<1> QED
  BY <1>1, <1>2, <1>3, <1>4, <1>5, <1>6, <1>7 DEF Inv

\* A new draft.
LEMMA CreateKeepsInv ==
  ASSUME Inv, NEW d \in Draft, NEW r \in Revision, Create(d, r)
  PROVE  Inv'
<1>1. TypeOK'
  BY DEF Inv, Create, TypeOK, Swept, oauthVars, procVars, mailVars, States, Points
<1>2. PostedOnceAsReviewed' /\ Unsent' /\ Unborn'
  BY DEF Inv, Create, PostedOnceAsReviewed, Unsent, Unborn, TypeOK, Owned, Busy, Swept,
         oauthVars, procVars, mailVars, Owns, Grant, Interrupted
<1>3. Single' /\ Owned' /\ Before'
  BY DEF Inv, Create, Single, Owned, Before, Unsent, Busy, Unborn, Swept, oauthVars,
         procVars, mailVars, Owns
<1>4. Told' /\ Found' /\ Once'
  BY DEF Inv, Create, Told, Found, Once, Before, Single, Swept, oauthVars, procVars,
         mailVars
<1>5. VerdictsAreTrue' /\ SuppressedIsSilent'
  BY NoneIsNone DEF Inv, Create, VerdictsAreTrue, SuppressedIsSilent, Told, Found, Once,
         Before, Single, Swept, oauthVars, procVars, mailVars, MayPost
<1>6. ConnectionIsCurrent' /\ Busy' /\ Granted'
  BY DEF Inv, Create, ConnectionIsCurrent, Busy, Granted, Unborn, Swept, oauthVars,
         procVars, mailVars
<1>7. DailyCap'
  BY DEF Inv, Create, DailyCap, Swept, procVars, WithinADay
<1> QED
  BY <1>1, <1>2, <1>3, <1>4, <1>5, <1>6, <1>7 DEF Inv

\* An edited draft.
LEMMA EditKeepsInv ==
  ASSUME Inv, NEW d \in Draft, NEW r \in Revision, Edit(d, r)
  PROVE  Inv'
<1>1. TypeOK'
  BY DEF Inv, Edit, TypeOK, Swept, oauthVars, procVars, mailVars, States, Points
<1>2. PostedOnceAsReviewed' /\ Unsent' /\ Unborn'
  BY DEF Inv, Edit, PostedOnceAsReviewed, Unsent, Unborn, Owned, Busy, Swept, oauthVars,
         procVars, mailVars, Owns, Grant, Interrupted
<1>3. Single' /\ Owned' /\ Before'
  BY DEF Inv, Edit, Single, Owned, Before, Unsent, Busy, Unborn, Swept, oauthVars,
         procVars, mailVars, Owns
<1>4. Told' /\ Found' /\ Once'
  BY DEF Inv, Edit, Told, Found, Once, Before, Single, Swept, oauthVars, procVars,
         mailVars
<1>5. VerdictsAreTrue' /\ SuppressedIsSilent'
  BY DEF Inv, Edit, VerdictsAreTrue, SuppressedIsSilent, Told, Found, Once, Before,
         Single, Swept, oauthVars, procVars, mailVars, MayPost
<1>6. ConnectionIsCurrent' /\ Busy' /\ Granted'
  BY DEF Inv, Edit, ConnectionIsCurrent, Busy, Granted, Unborn, Swept, oauthVars,
         procVars, mailVars
<1>7. DailyCap'
  BY DEF Inv, Edit, DailyCap, Swept, procVars, WithinADay
<1> QED
  BY <1>1, <1>2, <1>3, <1>4, <1>5, <1>6, <1>7 DEF Inv

\* A row is suppressed.
LEMMA SuppressKeepsInv ==
  ASSUME Inv, NEW d \in Draft, Suppress(d)
  PROVE  Inv'
<1>1. TypeOK'
  BY DEF Inv, Suppress, TypeOK, Suppressible, Swept, oauthVars, procVars, mailVars,
         States, Points
<1>2. PostedOnceAsReviewed' /\ Unsent' /\ Unborn'
  BY DEF Inv, Suppress, PostedOnceAsReviewed, Unsent, Unborn, Owned, Busy, Suppressible,
         Swept, oauthVars, procVars, mailVars, Owns, Grant, Interrupted
<1>3. Single' /\ Owned' /\ Before'
  BY DEF Inv, Suppress, Single, Owned, Before, Unsent, Busy, Unborn, Suppressible, Swept,
         oauthVars, procVars, mailVars, Owns
<1>4. Told' /\ Found' /\ Once'
  BY DEF Inv, Suppress, Told, Found, Once, Before, Single, Suppressible, Swept,
         oauthVars, procVars, mailVars
<1>5. VerdictsAreTrue' /\ SuppressedIsSilent'
  <2>1. \A e \in Draft : \/ state'[e] = state[e]
                         \/ e = d /\ state'[e] = "suppressed" /\ Suppressible(e)
                         \/ state'[e] = "unknown" /\ state[e] = "sending"
    BY DEF Inv, Suppress, Swept, Interrupted
  <2>2. Swept[d] = state[d] \/ Swept[d] = "unknown"
    BY DEF Swept
  <2>3. state[d] \notin {"none", "sending", "unknown"}
    BY <2>2 DEF Suppress, Suppressible, Swept
  <2>4. ~transit[d] /\ \A r \in Proc : ~MayPost(r, d)
    BY <2>3 DEF Inv, TypeOK, States, Unsent, VerdictsAreTrue, SuppressedIsSilent, Once,
           Before, MayPost
  <2> QED
    BY <2>1, <2>4 DEF Inv, VerdictsAreTrue, SuppressedIsSilent, MayPost, Suppress,
           procVars, mailVars
<1>6. ConnectionIsCurrent' /\ Busy' /\ Granted'
  BY DEF Inv, Suppress, ConnectionIsCurrent, Busy, Granted, Unborn, Suppressible, Swept,
         oauthVars, procVars, mailVars
<1>7. DailyCap'
  BY DEF Inv, Suppress, DailyCap, Suppressible, Swept, procVars, WithinADay
<1> QED
  BY <1>1, <1>2, <1>3, <1>4, <1>5, <1>6, <1>7 DEF Inv

\* Time passes for an attempt.
LEMMA PassKeepsInv ==
  ASSUME Inv, NEW d \in Draft, Pass(d)
  PROVE  Inv'
<1>1. TypeOK'
  BY DEF Inv, Pass, TypeOK, oauthVars, procVars, mailVars, States, Ages, Grant, Health,
         Points
<1>2. PostedOnceAsReviewed' /\ Unsent' /\ Unborn'
  BY DEF Inv, Pass, PostedOnceAsReviewed, Unsent, Unborn, Owned, Busy, oauthVars,
         procVars, mailVars, Owns
<1>3. Single' /\ Owned' /\ Before'
  BY DEF Inv, Pass, Single, Owned, Before, Unsent, Busy, Unborn, oauthVars, procVars,
         mailVars, Owns
<1>4. Told' /\ Found' /\ Once'
  BY DEF Inv, Pass, Told, Found, Once, Before, Single, oauthVars, procVars, mailVars
<1>5. VerdictsAreTrue' /\ SuppressedIsSilent'
  BY DEF Inv, Pass, VerdictsAreTrue, SuppressedIsSilent, Told, Found, Once, Before,
         Single, oauthVars, procVars, mailVars, MayPost
<1>6. ConnectionIsCurrent' /\ Busy' /\ Granted'
  BY DEF Inv, Pass, ConnectionIsCurrent, Busy, Granted, Unborn, oauthVars, procVars,
         mailVars
<1>7. DailyCap'
  <2> SUFFICES ASSUME NEW s \in Sender PROVE Cardinality(WithinADay(s)') <= MaxLimit
    BY DEF DailyCap
  <2>1. WithinADay(s)' \subseteq WithinADay(s)
    BY DEF Inv, Pass, WithinADay
  <2>2. Cardinality(WithinADay(s)') <= Cardinality(WithinADay(s))
    BY <2>1, AttemptFacts, FS_Subset
  <2>3. Cardinality(WithinADay(s)) <= MaxLimit
    BY DEF Inv, DailyCap
  <2> QED
    BY <2>2, <2>3, AttemptFacts, BoundsAreNaturals
<1> QED
  BY <1>1, <1>2, <1>3, <1>4, <1>5, <1>6, <1>7 DEF Inv

\* A send reads its row, settings and credential.
LEMMA CheckKeepsInv ==
  ASSUME Inv, NEW p \in Proc, NEW d \in Draft, NEW r \in Revision, Check(p, d, r)
  PROVE  Inv'
<1>1. TypeOK'
  BY BoundsAreNaturals, SettingsAreValid DEF Inv, Check, TypeOK, Swept, oauthVars,
         mailVars, States, Points
<1>2. PostedOnceAsReviewed' /\ Unsent' /\ Unborn'
  BY DEF Inv, Check, PostedOnceAsReviewed, Unsent, Unborn, Owned, Busy, Swept, oauthVars,
         mailVars, Owns, Grant, Interrupted
<1>3. Single' /\ Owned' /\ Before'
  BY DEF Inv, Check, Single, Owned, Before, Unsent, Busy, Unborn, Swept, oauthVars,
         mailVars, Owns
<1>4. Told' /\ Found' /\ Once'
  BY DEF Inv, Check, Told, Found, Once, Before, Single, Swept, oauthVars, mailVars
<1>5. VerdictsAreTrue' /\ SuppressedIsSilent'
  BY DEF Inv, Check, VerdictsAreTrue, SuppressedIsSilent, Told, Found, Once, Before,
         Single, Swept, oauthVars, mailVars, MayPost
<1>6. ConnectionIsCurrent' /\ Busy' /\ Granted'
  BY DEF Inv, Check, ConnectionIsCurrent, Busy, Granted, TypeOK, Unborn, Swept,
         oauthVars, mailVars
<1>7. DailyCap'
  BY DEF Inv, Check, DailyCap, Swept, WithinADay
<1> QED
  BY <1>1, <1>2, <1>3, <1>4, <1>5, <1>6, <1>7 DEF Inv

\* The reservation: the one step at which a row is taken for sending, under the limit.
LEMMA ReserveKeepsInv ==
  ASSUME Inv, NEW p \in Proc, Reserve(p)
  PROVE  Inv'
<1>1. TypeOK'
  BY DEF Inv, Reserve, TypeOK, Busy, Unborn, Allowed, oauthVars, mailVars, States, Ages,
         Grant, Health, Points, Attempts
<1>2. PostedOnceAsReviewed' /\ Unsent' /\ Unborn'
  BY DEF Inv, Reserve, PostedOnceAsReviewed, Unsent, Unborn, TypeOK, Owned, Busy,
         Allowed, oauthVars, mailVars, Owns, Attempts
<1>3. Single' /\ Owned' /\ Before'
  BY DEF Inv, Reserve, Single, Owned, Before, TypeOK, Unsent, Busy, Unborn, Allowed,
         oauthVars, mailVars, Owns, Attempts
<1>4. Told' /\ Found' /\ Once'
  BY DEF Inv, Reserve, Told, Found, Once, Before, Single, Allowed, oauthVars, mailVars,
         Attempts
<1>5. VerdictsAreTrue' /\ SuppressedIsSilent'
  BY DEF Inv, Reserve, VerdictsAreTrue, SuppressedIsSilent, Told, Found, Once, Before,
         Single, Allowed, oauthVars, mailVars, MayPost, Attempts
<1>6. ConnectionIsCurrent' /\ Busy' /\ Granted'
  BY DEF Inv, Reserve, ConnectionIsCurrent, Busy, Granted, Unborn, Allowed, oauthVars,
         mailVars, Attempts
<1>7. DailyCap'
  <2> SUFFICES ASSUME NEW s \in Sender PROVE Cardinality(WithinADay(s)') <= MaxLimit
    BY DEF DailyCap
  <2>1. /\ at[p] \in Draft /\ age[at[p]] = "never"
    BY DEF Inv, Busy, Unsent, Reserve, Allowed
  <2>2. Cardinality(WithinADay(s)) <= MaxLimit
    BY DEF Inv, DailyCap
  <2>3. CASE s = accountOf[cred[p]]
    <3>1. Cardinality(WithinADay(s)) < cap[p] /\ cap[p] \in 0 .. MaxLimit
      BY <2>3 DEF Inv, TypeOK, Reserve, Allowed, Attempts, WithinADay
    <3>2. WithinADay(s)' = WithinADay(s) \cup {at[p]} /\ at[p] \notin WithinADay(s)
      BY <2>1, <2>3 DEF Inv, TypeOK, Reserve, WithinADay
    <3>3. Cardinality(WithinADay(s)') = Cardinality(WithinADay(s)) + 1
      BY <3>2, AttemptFacts, FS_AddElement
    <3> QED
      BY <3>1, <3>3, AttemptFacts, BoundsAreNaturals
  <2>4. CASE s # accountOf[cred[p]]
    <3>1. WithinADay(s)' = WithinADay(s)
      BY <2>1, <2>4 DEF Inv, TypeOK, Reserve, WithinADay
    <3> QED
      BY <2>2, <3>1
  <2> QED
    BY <2>3, <2>4
<1> QED
  BY <1>1, <1>2, <1>3, <1>4, <1>5, <1>6, <1>7 DEF Inv

\* A reservation that is refused.
LEMMA RefusedKeepsInv ==
  ASSUME Inv, NEW p \in Proc, Refused(p)
  PROVE  Inv'
<1>1. TypeOK'
  BY LeaveFacts DEF Inv, TypeOK, Refused, rowVars, oauthVars, mailVars
<1>2. PostedOnceAsReviewed' /\ Unsent' /\ Unborn'
  BY DEF Inv, Refused, PostedOnceAsReviewed, Unsent, Unborn, Owned, Busy, Allowed, Leave,
         rowVars, oauthVars, mailVars, Owns, Attempts
<1>3. Single' /\ Owned' /\ Before'
  BY DEF Inv, Refused, Single, Owned, Before, Unsent, Busy, Unborn, Allowed, Leave,
         rowVars, oauthVars, mailVars, Owns, Attempts
<1>4. Told' /\ Found' /\ Once'
  BY DEF Inv, Refused, Told, Found, Once, Before, Single, Allowed, Leave, rowVars,
         oauthVars, mailVars, Attempts
<1>5. VerdictsAreTrue' /\ SuppressedIsSilent'
  BY DEF Inv, Refused, VerdictsAreTrue, SuppressedIsSilent, Told, Found, Once, Before,
         Single, Allowed, Leave, rowVars, oauthVars, mailVars, MayPost, Attempts
<1>6. ConnectionIsCurrent' /\ Busy' /\ Granted'
  BY DEF Inv, Refused, ConnectionIsCurrent, Busy, Granted, TypeOK, Unborn, Allowed,
         Leave, rowVars, oauthVars, mailVars, Attempts
<1>7. DailyCap'
  BY DEF Inv, Refused, DailyCap, Allowed, Leave, rowVars, WithinADay, Attempts
<1> QED
  BY <1>1, <1>2, <1>3, <1>4, <1>5, <1>6, <1>7 DEF Inv

\* The access token still serves.
LEMMA TokenServesKeepsInv ==
  ASSUME Inv, NEW p \in Proc, TokenServes(p)
  PROVE  Inv'
<1>1. TypeOK'
  BY DEF Inv, TokenServes, TypeOK, NextPoint, rowVars, oauthVars, mailVars, States,
         Points
<1>2. PostedOnceAsReviewed' /\ Unsent' /\ Unborn'
  BY DEF Inv, TokenServes, PostedOnceAsReviewed, Unsent, Unborn, Owned, Busy, NextPoint,
         rowVars, oauthVars, mailVars, Owns
<1>3. Single' /\ Owned' /\ Before'
  BY DEF Inv, TokenServes, Single, Owned, Before, Unsent, Busy, Unborn, NextPoint,
         rowVars, oauthVars, mailVars, Owns
<1>4. Told' /\ Found' /\ Once'
  BY DEF Inv, TokenServes, Told, Found, Once, Before, Single, NextPoint, rowVars,
         oauthVars, mailVars
<1>5. VerdictsAreTrue' /\ SuppressedIsSilent'
  BY DEF Inv, TokenServes, VerdictsAreTrue, SuppressedIsSilent, Told, Found, Once,
         Before, Single, NextPoint, rowVars, oauthVars, mailVars, MayPost
<1>6. ConnectionIsCurrent' /\ Busy' /\ Granted'
  BY DEF Inv, TokenServes, ConnectionIsCurrent, Busy, Granted, Unborn, NextPoint,
         rowVars, oauthVars, mailVars
<1>7. DailyCap'
  BY DEF Inv, TokenServes, DailyCap, NextPoint, rowVars, WithinADay
<1> QED
  BY <1>1, <1>2, <1>3, <1>4, <1>5, <1>6, <1>7 DEF Inv

\* The token is refreshed and stored.
LEMMA RefreshKeepsInv ==
  ASSUME Inv, NEW p \in Proc, Refresh(p)
  PROVE  Inv'
<1>1. TypeOK'
  BY DEF Inv, Refresh, TypeOK, NextPoint, rowVars, mailVars, States, Points
<1>2. PostedOnceAsReviewed' /\ Unsent' /\ Unborn'
  BY DEF Inv, Refresh, PostedOnceAsReviewed, Unsent, Unborn, Owned, Busy, NextPoint,
         rowVars, mailVars, Owns
<1>3. Single' /\ Owned' /\ Before'
  BY DEF Inv, Refresh, Single, Owned, Before, Unsent, Busy, Unborn, NextPoint, rowVars,
         mailVars, Owns
<1>4. Told' /\ Found' /\ Once'
  BY DEF Inv, Refresh, Told, Found, Once, Before, Single, NextPoint, rowVars, mailVars
<1>5. VerdictsAreTrue' /\ SuppressedIsSilent'
  BY DEF Inv, Refresh, VerdictsAreTrue, SuppressedIsSilent, Told, Found, Once, Before,
         Single, NextPoint, rowVars, mailVars, MayPost
<1>6. ConnectionIsCurrent' /\ Busy' /\ Granted'
  BY DEF Inv, Refresh, ConnectionIsCurrent, Busy, Granted, TypeOK, Unborn, NextPoint,
         rowVars
<1>7. DailyCap'
  BY DEF Inv, Refresh, DailyCap, NextPoint, rowVars, WithinADay
<1> QED
  BY <1>1, <1>2, <1>3, <1>4, <1>5, <1>6, <1>7 DEF Inv

\* The token cannot be refreshed.
LEMMA RefreshFailsKeepsInv ==
  ASSUME Inv, NEW p \in Proc, RefreshFails(p)
  PROVE  Inv'
<1>1. TypeOK'
  <2>1. CASE Leave(p)
    BY <2>1, LeaveFacts DEF Inv, TypeOK, RefreshFails, rowVars, oauthVars, mailVars
  <2>2. CASE ~Leave(p)
    BY <2>2 DEF Inv, TypeOK, RefreshFails, Points, rowVars, oauthVars, mailVars
  <2> QED
    BY <2>1, <2>2
<1>2. PostedOnceAsReviewed' /\ Unsent' /\ Unborn'
  BY DEF Inv, RefreshFails, PostedOnceAsReviewed, Unsent, Unborn, TypeOK, Owned, Busy,
         Leave, rowVars, oauthVars, mailVars, Owns
<1>3. Single' /\ Owned' /\ Before'
  <2>1. \A r \in Proc : pc'[r] # "idle" =>
        /\ at'[r] = at[r] /\ seen'[r] = seen[r] /\ cred'[r] = cred[r]
        /\ \/ pc'[r] = pc[r] /\ answer'[r] = answer[r]
           \/ pc[r] = "reserved" /\ pc'[r] = "answered" /\ answer'[r] = "unknown"
    BY LeaveFacts DEF Inv, TypeOK, RefreshFails
  <2>2. UNCHANGED <<rowVars, oauthVars, mailVars>>
    BY DEF RefreshFails
  <2> QED
    BY <2>1, <2>2 DEF Inv, Single, Owned, Before, Owns, rowVars, oauthVars, mailVars
<1>4. Told' /\ Found' /\ Once'
  <2>1. \A r \in Proc : pc'[r] # "idle" =>
        /\ at'[r] = at[r] /\ seen'[r] = seen[r] /\ cred'[r] = cred[r]
        /\ \/ pc'[r] = pc[r] /\ answer'[r] = answer[r]
           \/ pc[r] = "reserved" /\ pc'[r] = "answered" /\ answer'[r] = "unknown"
    BY LeaveFacts DEF Inv, TypeOK, RefreshFails
  <2>2. UNCHANGED <<rowVars, oauthVars, mailVars>>
    BY DEF RefreshFails
  <2> QED
    BY <2>1, <2>2 DEF Inv, Told, Found, Once, Before, mailVars
<1>5. VerdictsAreTrue' /\ SuppressedIsSilent'
  <2>1. \A r \in Proc : pc'[r] # "idle" =>
        /\ at'[r] = at[r] /\ seen'[r] = seen[r] /\ cred'[r] = cred[r]
        /\ \/ pc'[r] = pc[r] /\ answer'[r] = answer[r]
           \/ pc[r] = "reserved" /\ pc'[r] = "answered" /\ answer'[r] = "unknown"
    BY LeaveFacts DEF Inv, TypeOK, RefreshFails
  <2>2. UNCHANGED <<rowVars, oauthVars, mailVars>>
    BY DEF RefreshFails
  <2> QED
    BY <2>1, <2>2 DEF Inv, VerdictsAreTrue, SuppressedIsSilent, MayPost, rowVars,
           mailVars
<1>6. ConnectionIsCurrent' /\ Busy' /\ Granted'
  <2>1. \A r \in Proc : pc'[r] # "idle" =>
        /\ at'[r] = at[r] /\ seen'[r] = seen[r] /\ cred'[r] = cred[r]
        /\ \/ pc'[r] = pc[r] /\ answer'[r] = answer[r]
           \/ pc[r] = "reserved" /\ pc'[r] = "answered" /\ answer'[r] = "unknown"
    BY LeaveFacts DEF Inv, TypeOK, RefreshFails
  <2>2. UNCHANGED <<rowVars, settings, oauthVars>>
    BY DEF RefreshFails
  <2> QED
    BY <2>1, <2>2 DEF Inv, ConnectionIsCurrent, Busy, Granted, rowVars, oauthVars
<1>7. DailyCap'
  BY DEF Inv, RefreshFails, DailyCap, Leave, rowVars, WithinADay
<1> QED
  BY <1>1, <1>2, <1>3, <1>4, <1>5, <1>6, <1>7 DEF Inv

\* The message is posted to Gmail.
LEMMA PostKeepsInv ==
  ASSUME Inv, NEW p \in Proc, Post(p)
  PROVE  Inv'
<1>1. TypeOK'
  <2>1. at[p] \in Draft /\ mail[at[p]] = <<>>
    BY DEF Inv, Busy, Before, Post
  <2>6. seen[p] \in Revision
    BY <2>1 DEF Inv, Owned, Unborn, Post, Before
  <2>7. accountOf[cred[p]] \in Sender
    BY DEF Inv, Busy, Post
  <2>2. [text |-> seen[p], from |-> accountOf[cred[p]]] \in [text : Revision, from : Sender]
    BY <2>6, <2>7
  <2>8. Append(mail[at[p]], [text |-> seen[p], from |-> accountOf[cred[p]]])
          \in Seq([text : Revision, from : Sender])
    BY <2>1, <2>2 DEF Inv
  <2>3. mail' \in [Draft -> Seq([text : Revision, from : Sender])]
    BY <2>8 DEF Inv, TypeOK, Post
  <2>4. transit' \in [Draft -> BOOLEAN] /\ delivered' \in [Draft -> BOOLEAN]
    BY <2>1 DEF Inv, TypeOK, Post
  <2>5. answer' \in [Proc -> {"unknown", "accepted", "failed"}] /\ pc' \in [Proc -> Points]
    BY DEF Inv, TypeOK, Post, Answers, Points
  <2> QED
    BY <2>3, <2>4, <2>5 DEF Inv, TypeOK, Post, rowVars, oauthVars
<1>2. PostedOnceAsReviewed' /\ Unsent' /\ Unborn'
  <2>1. at[p] \in Draft /\ mail[at[p]] = <<>>
    BY DEF Inv, Busy, Before, Post
  <2>2. /\ seen[p] = content[at[p]] /\ account[at[p]] = accountOf[cred[p]]
    BY DEF Inv, Owned, Post
  <2>3. \A e \in Draft : \/ mail'[e] = mail[e]
                         \/ e = at[p] /\ mail'[e] = <<[text |-> content[e], from |-> account[e]]>>
    <3>1. mail'[at[p]] = Append(<<>>, [text |-> content[at[p]], from |-> account[at[p]]])
      BY <2>1, <2>2 DEF Inv, TypeOK, Post
    <3>2. mail'[at[p]] = <<[text |-> content[at[p]], from |-> account[at[p]]]>>
      BY <3>1
    <3> QED
      BY <3>2 DEF Inv, Post
  <2>4. PostedOnceAsReviewed'
    BY <2>3 DEF Inv, PostedOnceAsReviewed, Post, rowVars
  <2>5. state[at[p]] \notin {"none", "draft"}
    BY DEF Inv, Before, Post
  <2>6. Unsent' /\ Unborn'
    BY <2>1, <2>3, <2>5 DEF Inv, Unsent, Unborn, Owns, Post, rowVars
  <2> QED
    BY <2>4, <2>6
<1>3. Single' /\ Owned' /\ Before'
  BY DEF Inv, Post, Single, Owned, Before, TypeOK, Unsent, Busy, Unborn, Answers,
         rowVars, oauthVars, Owns
<1>4. Told' /\ Found' /\ Once'
  BY DEF Inv, Post, Told, Found, Once, TypeOK, Before, Single, Busy, Unsent, Answers,
         rowVars, Owns
<1>5. VerdictsAreTrue' /\ SuppressedIsSilent'
  BY DEF Inv, Post, VerdictsAreTrue, SuppressedIsSilent, Told, Found, Once, Before,
         Single, Answers, rowVars, MayPost
<1>6. ConnectionIsCurrent' /\ Busy' /\ Granted'
  BY DEF Inv, Post, ConnectionIsCurrent, Busy, Granted, Unborn, Answers, rowVars,
         oauthVars
<1>7. DailyCap'
  <2>1. \A s \in Sender : WithinADay(s)' = WithinADay(s)
    BY DEF Post, WithinADay, rowVars
  <2> QED
    BY <2>1 DEF Inv, DailyCap
<1> QED
  BY <1>1, <1>2, <1>3, <1>4, <1>5, <1>6, <1>7 DEF Inv

\* Gmail handles a message that was on its way.
LEMMA ArriveKeepsInv ==
  ASSUME Inv, NEW d \in Draft, Arrive(d)
  PROVE  Inv'
<1>1. TypeOK'
  BY DEF Inv, Arrive, TypeOK, rowVars, oauthVars, procVars, States, Points
<1>2. PostedOnceAsReviewed' /\ Unsent' /\ Unborn'
  BY DEF Inv, Arrive, PostedOnceAsReviewed, Unsent, Unborn, Owned, Busy, rowVars,
         procVars, Owns
<1>3. Single' /\ Owned' /\ Before'
  BY DEF Inv, Arrive, Single, Owned, Before, Unsent, Busy, Unborn, rowVars, oauthVars,
         procVars, Owns
<1>4. Told' /\ Found' /\ Once'
  BY DEF Inv, Arrive, Told, Found, Once, TypeOK, Before, Single, rowVars, procVars
<1>5. VerdictsAreTrue' /\ SuppressedIsSilent'
  BY DEF Inv, Arrive, VerdictsAreTrue, SuppressedIsSilent, Told, Found, Once, Before,
         Single, rowVars, procVars, MayPost
<1>6. ConnectionIsCurrent' /\ Busy' /\ Granted'
  BY DEF Inv, Arrive, ConnectionIsCurrent, Busy, Granted, Unborn, rowVars, oauthVars,
         procVars
<1>7. DailyCap'
  BY DEF Inv, Arrive, DailyCap, rowVars, procVars, WithinADay
<1> QED
  BY <1>1, <1>2, <1>3, <1>4, <1>5, <1>6, <1>7 DEF Inv

\* The outcome of a dispatch is recorded.
LEMMA SettleKeepsInv ==
  ASSUME Inv, NEW p \in Proc, Settle(p)
  PROVE  Inv'
<1>1. TypeOK'
  <2>1. at[p] \in Draft
    BY DEF Inv, Busy, Settle
  <2>2. Recorded(p) \in States
    BY <2>1 DEF Inv, TypeOK, Recorded, States
  <2>3. state' \in [Draft -> States]
    BY <2>1, <2>2 DEF Inv, TypeOK, Settle
  <2> QED
    BY <2>3, LeaveFacts DEF Inv, TypeOK, Settle, oauthVars, mailVars
<1>2. PostedOnceAsReviewed' /\ Unsent' /\ Unborn'
  <2>1. \A e \in Draft : state'[e] \in {"none", "draft"} <=> state[e] \in {"none", "draft"}
    BY DEF Inv, TypeOK, Settle, Recorded
  <2>2. \A r \in Proc, e \in Draft : Owns(r, e)' => Owns(r, e)
    BY LeaveFacts DEF Inv, Settle, Owns
  <2>3. \A e \in Draft : state'[e] # "none" => state[e] # "none"
    BY DEF Inv, Settle, Recorded
  <2> QED
    BY <2>1, <2>2, <2>3 DEF Inv, Settle, PostedOnceAsReviewed, Unsent, Unborn, mailVars
<1>3. Single' /\ Owned' /\ Before'
  BY DEF Inv, Settle, Single, Owned, Before, TypeOK, Unsent, Busy, Unborn, Recorded,
         Leave, oauthVars, mailVars, Owns
<1>4. Told' /\ Found' /\ Once'
  BY DEF Inv, Settle, Told, Found, Once, TypeOK, Before, Single, Recorded, Leave,
         oauthVars, mailVars
<1>5. VerdictsAreTrue' /\ SuppressedIsSilent'
  BY DEF Inv, Settle, VerdictsAreTrue, SuppressedIsSilent, TypeOK, Told, Found, Once,
         Before, Unsent, Single, Busy, Owned, Recorded, Leave, oauthVars, mailVars,
         MayPost, Grant, Owns
<1>6. ConnectionIsCurrent' /\ Busy' /\ Granted'
  BY BoundsAreNaturals, SettingsAreValid, NoneIsNone DEF Inv, Settle,
         ConnectionIsCurrent, Busy, Granted, TypeOK, Unborn, Recorded, Leave, oauthVars,
         mailVars, Grant
<1>7. DailyCap'
  BY DEF Inv, Settle, DailyCap, Recorded, Leave, WithinADay
<1> QED
  BY <1>1, <1>2, <1>3, <1>4, <1>5, <1>6, <1>7 DEF Inv

\* A process dies.
LEMMA DieKeepsInv ==
  ASSUME Inv, NEW p \in Proc, Die(p)
  PROVE  Inv'
<1>1. TypeOK'
  BY LeaveFacts DEF Inv, TypeOK, Die, rowVars, oauthVars, mailVars
<1>2. PostedOnceAsReviewed' /\ Unsent' /\ Unborn'
  BY DEF Inv, Die, PostedOnceAsReviewed, Unsent, Unborn, TypeOK, Owned, Busy, Leave,
         rowVars, oauthVars, mailVars, Owns
<1>3. Single' /\ Owned' /\ Before'
  BY DEF Inv, Die, Single, Owned, Before, TypeOK, Unsent, Busy, Unborn, Leave, rowVars,
         oauthVars, mailVars, Owns
<1>4. Told' /\ Found' /\ Once'
  BY DEF Inv, Die, Told, Found, Once, TypeOK, Before, Single, Leave, rowVars, oauthVars,
         mailVars
<1>5. VerdictsAreTrue' /\ SuppressedIsSilent'
  BY DEF Inv, Die, VerdictsAreTrue, SuppressedIsSilent, TypeOK, Told, Found, Once,
         Before, Single, Leave, rowVars, oauthVars, mailVars, MayPost
<1>6. ConnectionIsCurrent' /\ Busy' /\ Granted'
  BY DEF Inv, Die, ConnectionIsCurrent, Busy, Granted, TypeOK, Unborn, Leave, rowVars,
         oauthVars, mailVars
<1>7. DailyCap'
  BY DEF Inv, Die, DailyCap, Leave, rowVars, WithinADay
<1> QED
  BY <1>1, <1>2, <1>3, <1>4, <1>5, <1>6, <1>7 DEF Inv

\* A reconciliation starts.
LEMMA ReconcileKeepsInv ==
  ASSUME Inv, NEW p \in Proc, NEW d \in Draft, Reconcile(p, d)
  PROVE  Inv'
<1>1. TypeOK'
  BY DEF Inv, Reconcile, TypeOK, Swept, Dispatched, oauthVars, mailVars, States, Points
<1>2. PostedOnceAsReviewed' /\ Unsent' /\ Unborn'
  BY DEF Inv, Reconcile, PostedOnceAsReviewed, Unsent, Unborn, Owned, Busy, Swept,
         Dispatched, oauthVars, mailVars, Owns, Grant, Interrupted
<1>3. Single' /\ Owned' /\ Before'
  BY DEF Inv, Reconcile, Single, Owned, Before, Unsent, Busy, Unborn, Swept, Dispatched,
         oauthVars, mailVars, Owns
<1>4. Told' /\ Found' /\ Once'
  BY DEF Inv, Reconcile, Told, Found, Once, Before, Single, Swept, Dispatched, oauthVars,
         mailVars
<1>5. VerdictsAreTrue' /\ SuppressedIsSilent'
  BY DEF Inv, Reconcile, VerdictsAreTrue, SuppressedIsSilent, Told, Found, Once, Before,
         Single, Swept, Dispatched, oauthVars, mailVars, MayPost
<1>6. ConnectionIsCurrent' /\ Busy' /\ Granted'
  BY DEF Inv, Reconcile, ConnectionIsCurrent, Busy, Granted, TypeOK, Unborn, Swept,
         Dispatched, oauthVars, mailVars
<1>7. DailyCap'
  BY DEF Inv, Reconcile, DailyCap, Swept, Dispatched, WithinADay
<1> QED
  BY <1>1, <1>2, <1>3, <1>4, <1>5, <1>6, <1>7 DEF Inv

\* ... looks the message up in Gmail.
LEMMA LookUpKeepsInv ==
  ASSUME Inv, NEW p \in Proc, LookUp(p)
  PROVE  Inv'
<1>1. TypeOK'
  <2>1. \/ pc' \in [Proc -> Points] /\ UNCHANGED <<at, seen, cred, cap, answer>>
        \/ Leave(p)
    BY DEF Inv, TypeOK, LookUp, Points
  <2> QED
    BY <2>1, LeaveFacts DEF Inv, TypeOK, LookUp, rowVars, oauthVars, mailVars
<1>2. PostedOnceAsReviewed' /\ Unsent' /\ Unborn'
  BY DEF Inv, LookUp, PostedOnceAsReviewed, Unsent, Unborn, TypeOK, Before, Owned, Busy,
         Leave, rowVars, oauthVars, mailVars, Owns
<1>3. Single' /\ Owned' /\ Before'
  <2>1. \A r \in Proc : pc'[r] # "idle" =>
        /\ at'[r] = at[r] /\ seen'[r] = seen[r] /\ cred'[r] = cred[r]
        /\ \/ pc'[r] = pc[r] /\ answer'[r] = answer[r]
           \/ pc'[r] = "found" /\ delivered[at[r]]
    BY LeaveFacts DEF Inv, TypeOK, LookUp
  <2>2. UNCHANGED <<rowVars, oauthVars, mailVars>>
    BY DEF LookUp
  <2> QED
    BY <2>1, <2>2 DEF Inv, Single, Owned, Before, Owns, rowVars, oauthVars, mailVars
<1>4. Told' /\ Found' /\ Once'
  <2>1. \A r \in Proc : pc'[r] # "idle" =>
        /\ at'[r] = at[r] /\ seen'[r] = seen[r] /\ cred'[r] = cred[r]
        /\ \/ pc'[r] = pc[r] /\ answer'[r] = answer[r]
           \/ pc'[r] = "found" /\ delivered[at[r]]
    BY LeaveFacts DEF Inv, TypeOK, LookUp
  <2>2. UNCHANGED <<rowVars, oauthVars, mailVars>>
    BY DEF LookUp
  <2> QED
    BY <2>1, <2>2 DEF Inv, Told, Found, Once, Before, mailVars
<1>5. VerdictsAreTrue' /\ SuppressedIsSilent'
  <2>1. \A r \in Proc : pc'[r] # "idle" =>
        /\ at'[r] = at[r] /\ seen'[r] = seen[r] /\ cred'[r] = cred[r]
        /\ \/ pc'[r] = pc[r] /\ answer'[r] = answer[r]
           \/ pc'[r] = "found" /\ delivered[at[r]]
    BY LeaveFacts DEF Inv, TypeOK, LookUp
  <2>2. UNCHANGED <<rowVars, oauthVars, mailVars>>
    BY DEF LookUp
  <2> QED
    BY <2>1, <2>2 DEF Inv, VerdictsAreTrue, SuppressedIsSilent, MayPost, rowVars,
           mailVars
<1>6. ConnectionIsCurrent' /\ Busy' /\ Granted'
  BY DEF Inv, LookUp, ConnectionIsCurrent, Busy, Granted, TypeOK, Unborn, Leave, rowVars,
         oauthVars, mailVars
<1>7. DailyCap'
  BY DEF Inv, LookUp, DailyCap, Leave, rowVars, WithinADay
<1> QED
  BY <1>1, <1>2, <1>3, <1>4, <1>5, <1>6, <1>7 DEF Inv

\* ... and records what it found.
LEMMA VerifyKeepsInv ==
  ASSUME Inv, NEW p \in Proc, Verify(p)
  PROVE  Inv'
<1>1. TypeOK'
  <2>1. at[p] \in Draft
    BY DEF Inv, Busy, Verify
  <2>2. Verified(p) \in States
    BY <2>1 DEF Inv, TypeOK, Verified, States
  <2>3. state' \in [Draft -> States]
    BY <2>1, <2>2 DEF Inv, TypeOK, Verify
  <2> QED
    BY <2>3, LeaveFacts DEF Inv, TypeOK, Verify, oauthVars, mailVars
<1>2. PostedOnceAsReviewed' /\ Unsent' /\ Unborn'
  <2>1. \A e \in Draft : state'[e] \in {"none", "draft"} <=> state[e] \in {"none", "draft"}
    BY DEF Inv, Verify, Verified, Dispatched
  <2>2. \A r \in Proc, e \in Draft : Owns(r, e)' => Owns(r, e)
    BY LeaveFacts DEF Inv, Verify, Owns
  <2>3. \A e \in Draft : state'[e] # "none" => state[e] # "none"
    BY DEF Inv, Verify, Verified, Dispatched
  <2> QED
    BY <2>1, <2>2, <2>3 DEF Inv, Verify, PostedOnceAsReviewed, Unsent, Unborn, mailVars
<1>3. Single' /\ Owned' /\ Before'
  <2>1. \A r \in Proc : pc'[r] # "idle" =>
          /\ r # p /\ pc'[r] = pc[r] /\ at'[r] = at[r] /\ seen'[r] = seen[r] /\ cred'[r] = cred[r]
    BY LeaveFacts DEF Inv, Verify
  <2>2. \A e \in Draft : state'[e] # state[e] => e = at[p] /\ delivered[e]
    BY DEF Inv, Verify, Verified, Found
  <2> QED
    BY <2>1, <2>2 DEF Inv, Single, Owned, Before, Owns, Verify, mailVars, oauthVars
<1>4. Told' /\ Found' /\ Once'
  BY DEF Inv, Verify, Told, Found, Once, TypeOK, Before, Single, Verified, Leave,
         oauthVars, mailVars, Dispatched
<1>5. VerdictsAreTrue' /\ SuppressedIsSilent'
  BY DEF Inv, Verify, VerdictsAreTrue, SuppressedIsSilent, Told, Found, Once, Before,
         Single, Verified, Leave, oauthVars, mailVars, MayPost, Dispatched
<1>6. ConnectionIsCurrent' /\ Busy' /\ Granted'
  BY DEF Inv, Verify, ConnectionIsCurrent, Busy, Granted, TypeOK, Unborn, Verified,
         Leave, oauthVars, mailVars, Dispatched
<1>7. DailyCap'
  BY DEF Inv, Verify, DailyCap, Verified, Leave, WithinADay, Dispatched
<1> QED
  BY <1>1, <1>2, <1>3, <1>4, <1>5, <1>6, <1>7 DEF Inv

\* The settings are saved.
LEMMA SaveKeepsInv ==
  ASSUME Inv, NEW o \in Settings, Save(o)
  PROVE  Inv'
<1>1. TypeOK'
  BY DEF Inv, Save, TypeOK, rowVars, procVars, mailVars, States, Points
<1>2. PostedOnceAsReviewed' /\ Unsent' /\ Unborn'
  BY DEF Inv, Save, PostedOnceAsReviewed, Unsent, Unborn, Owned, Busy, rowVars, procVars,
         mailVars, Owns
<1>3. Single' /\ Owned' /\ Before'
  BY DEF Inv, Save, Single, Owned, Before, Unsent, Busy, Unborn, rowVars, procVars,
         mailVars, Owns
<1>4. Told' /\ Found' /\ Once'
  BY DEF Inv, Save, Told, Found, Once, Before, Single, rowVars, procVars, mailVars
<1>5. VerdictsAreTrue' /\ SuppressedIsSilent'
  BY DEF Inv, Save, VerdictsAreTrue, SuppressedIsSilent, Told, Found, Once, Before,
         Single, rowVars, procVars, mailVars, MayPost
<1>6. ConnectionIsCurrent' /\ Busy' /\ Granted'
  BY DEF Inv, Save, ConnectionIsCurrent, Busy, Granted, Unborn, rowVars, procVars
<1>7. DailyCap'
  BY DEF Inv, Save, DailyCap, rowVars, procVars, WithinADay
<1> QED
  BY <1>1, <1>2, <1>3, <1>4, <1>5, <1>6, <1>7 DEF Inv

\* The account is disconnected.
LEMMA DisconnectKeepsInv ==
  ASSUME Inv, Disconnect
  PROVE  Inv'
<1>1. TypeOK'
  <2>3. 0 \in 0 .. MaxGrants
    BY BoundsAreNaturals
  <2>1. health' \in Health
    BY <2>3, HealthFacts DEF Disconnect
  <2>2. state' \in [Draft -> States] /\ revoked' \in 0 .. MaxGrants
    BY DEF Inv, TypeOK, Disconnect, Swept, States
  <2> QED
    BY <2>1, <2>2 DEF Inv, TypeOK, Disconnect, procVars, mailVars
<1>2. PostedOnceAsReviewed' /\ Unsent' /\ Unborn'
  BY DEF Inv, Disconnect, PostedOnceAsReviewed, Unsent, Unborn, Owned, Busy, Swept,
         procVars, mailVars, Owns, Grant, Interrupted
<1>3. Single' /\ Owned' /\ Before'
  BY DEF Inv, Disconnect, Single, Owned, Before, Unsent, Busy, Unborn, Swept, procVars,
         mailVars, Owns
<1>4. Told' /\ Found' /\ Once'
  BY DEF Inv, Disconnect, Told, Found, Once, Before, Single, Swept, procVars, mailVars
<1>5. VerdictsAreTrue' /\ SuppressedIsSilent'
  BY DEF Inv, Disconnect, VerdictsAreTrue, SuppressedIsSilent, Told, Found, Once, Before,
         Single, Swept, procVars, mailVars, MayPost
<1>6. ConnectionIsCurrent' /\ Busy' /\ Granted'
  BY DEF Inv, Disconnect, ConnectionIsCurrent, Busy, Granted, TypeOK, Unborn, Swept,
         procVars
<1>7. DailyCap'
  BY DEF Inv, Disconnect, DailyCap, Swept, procVars, WithinADay
<1> QED
  BY <1>1, <1>2, <1>3, <1>4, <1>5, <1>6, <1>7 DEF Inv

\* A connection starts.
LEMMA ConnectKeepsInv ==
  ASSUME Inv, Connect
  PROVE  Inv'
<1>1. TypeOK'
  <2>1. grants + 1 \in 0 .. MaxGrants
    BY BoundsAreNaturals DEF Inv, TypeOK, Connect
  <2>5. 0 \in 0 .. MaxGrants
    BY BoundsAreNaturals
  <2>2. health' \in Health
    BY <2>1, <2>5, HealthFacts DEF Connect
  <2>3. state' \in [Draft -> States]
    BY DEF Inv, TypeOK, Connect, Swept, States
  <2>4. helper' \in [Grant -> {"none", "started", "consent", "granted", "over"}]
    BY DEF Inv, TypeOK, Connect
  <2> QED
    BY <2>1, <2>2, <2>3, <2>4 DEF Inv, TypeOK, Connect, procVars, mailVars
<1>2. PostedOnceAsReviewed' /\ Unsent' /\ Unborn'
  BY DEF Inv, Connect, PostedOnceAsReviewed, Unsent, Unborn, Owned, Busy, Swept,
         procVars, mailVars, Owns, Grant, Interrupted
<1>3. Single' /\ Owned' /\ Before'
  BY DEF Inv, Connect, Single, Owned, Before, Unsent, Busy, Unborn, Swept, procVars,
         mailVars, Owns
<1>4. Told' /\ Found' /\ Once'
  BY DEF Inv, Connect, Told, Found, Once, Before, Single, Swept, procVars, mailVars
<1>5. VerdictsAreTrue' /\ SuppressedIsSilent'
  BY DEF Inv, Connect, VerdictsAreTrue, SuppressedIsSilent, Told, Found, Once, Before,
         Single, Swept, procVars, mailVars, MayPost
<1>6. ConnectionIsCurrent' /\ Busy' /\ Granted'
  BY BoundsAreNaturals, SettingsAreValid DEF Inv, Connect, ConnectionIsCurrent, Busy,
         Granted, TypeOK, Unborn, Swept, procVars, Grant, Interrupted
<1>7. DailyCap'
  BY DEF Inv, Connect, DailyCap, Swept, procVars, WithinADay
<1> QED
  BY <1>1, <1>2, <1>3, <1>4, <1>5, <1>6, <1>7 DEF Inv

\* Its helper opens the consent page.
LEMMA AuthorizeKeepsInv ==
  ASSUME Inv, NEW g \in Grant, Authorize(g)
  PROVE  Inv'
<1>1. TypeOK'
  <2>1. g \in 0 .. MaxGrants
    BY DEF Grant
  <2>2. health' \in Health
    BY <2>1, HealthFacts DEF Inv, TypeOK, Authorize, GiveUp
  <2>3. helper' \in [Grant -> {"none", "started", "consent", "granted", "over"}]
    BY DEF Inv, TypeOK, Authorize, GiveUp
  <2> QED
    BY <2>2, <2>3 DEF Inv, TypeOK, Authorize, rowVars, procVars, mailVars
<1>2. PostedOnceAsReviewed' /\ Unsent' /\ Unborn'
  BY DEF Inv, Authorize, PostedOnceAsReviewed, Unsent, Unborn, Owned, Busy, GiveUp,
         rowVars, procVars, mailVars, Owns
<1>3. Single' /\ Owned' /\ Before'
  BY DEF Inv, Authorize, Single, Owned, Before, Unsent, Busy, Unborn, GiveUp, rowVars,
         procVars, mailVars, Owns
<1>4. Told' /\ Found' /\ Once'
  BY DEF Inv, Authorize, Told, Found, Once, Before, Single, GiveUp, rowVars, procVars,
         mailVars
<1>5. VerdictsAreTrue' /\ SuppressedIsSilent'
  BY DEF Inv, Authorize, VerdictsAreTrue, SuppressedIsSilent, Told, Found, Once, Before,
         Single, GiveUp, rowVars, procVars, mailVars, MayPost
<1>6. ConnectionIsCurrent' /\ Busy' /\ Granted'
  BY BoundsAreNaturals, SettingsAreValid DEF Inv, Authorize, ConnectionIsCurrent, Busy,
         Granted, TypeOK, Unborn, GiveUp, rowVars, procVars
<1>7. DailyCap'
  BY DEF Inv, Authorize, DailyCap, GiveUp, rowVars, procVars, WithinADay
<1> QED
  BY <1>1, <1>2, <1>3, <1>4, <1>5, <1>6, <1>7 DEF Inv

\* The user consents.
LEMMA ConsentKeepsInv ==
  ASSUME Inv, NEW g \in Grant, NEW s \in Sender, Consent(g, s)
  PROVE  Inv'
<1>1. TypeOK'
  BY DEF Inv, Consent, TypeOK, rowVars, procVars, mailVars, States, Points
<1>2. PostedOnceAsReviewed' /\ Unsent' /\ Unborn'
  BY DEF Inv, Consent, PostedOnceAsReviewed, Unsent, Unborn, Owned, Busy, rowVars,
         procVars, mailVars, Owns
<1>3. Single' /\ Owned' /\ Before'
  BY DEF Inv, Consent, Single, Owned, Before, Unsent, Busy, Unborn, rowVars, procVars,
         mailVars, Owns
<1>4. Told' /\ Found' /\ Once'
  BY DEF Inv, Consent, Told, Found, Once, Before, Single, rowVars, procVars, mailVars
<1>5. VerdictsAreTrue' /\ SuppressedIsSilent'
  BY DEF Inv, Consent, VerdictsAreTrue, SuppressedIsSilent, Told, Found, Once, Before,
         Single, rowVars, procVars, mailVars, MayPost
<1>6. ConnectionIsCurrent' /\ Busy' /\ Granted'
  BY DEF Inv, Consent, ConnectionIsCurrent, Busy, Granted, TypeOK, Unborn, rowVars,
         procVars
<1>7. DailyCap'
  BY DEF Inv, Consent, DailyCap, rowVars, procVars, WithinADay
<1> QED
  BY <1>1, <1>2, <1>3, <1>4, <1>5, <1>6, <1>7 DEF Inv

\* The helper gives up.
LEMMA DenyKeepsInv ==
  ASSUME Inv, NEW g \in Grant, Deny(g)
  PROVE  Inv'
<1>1. TypeOK'
  BY DEF Inv, Deny, TypeOK, GiveUp, rowVars, procVars, mailVars, States, Ages, Grant,
         Health, Points
<1>2. PostedOnceAsReviewed' /\ Unsent' /\ Unborn'
  BY DEF Inv, Deny, PostedOnceAsReviewed, Unsent, Unborn, Owned, Busy, GiveUp, rowVars,
         procVars, mailVars, Owns
<1>3. Single' /\ Owned' /\ Before'
  BY DEF Inv, Deny, Single, Owned, Before, Unsent, Busy, Unborn, GiveUp, rowVars,
         procVars, mailVars, Owns
<1>4. Told' /\ Found' /\ Once'
  BY DEF Inv, Deny, Told, Found, Once, Before, Single, GiveUp, rowVars, procVars,
         mailVars
<1>5. VerdictsAreTrue' /\ SuppressedIsSilent'
  BY DEF Inv, Deny, VerdictsAreTrue, SuppressedIsSilent, Told, Found, Once, Before,
         Single, GiveUp, rowVars, procVars, mailVars, MayPost
<1>6. ConnectionIsCurrent' /\ Busy' /\ Granted'
  BY DEF Inv, Deny, ConnectionIsCurrent, Busy, Granted, Unborn, GiveUp, rowVars,
         procVars
<1>7. DailyCap'
  BY DEF Inv, Deny, DailyCap, GiveUp, rowVars, procVars, WithinADay
<1> QED
  BY <1>1, <1>2, <1>3, <1>4, <1>5, <1>6, <1>7 DEF Inv

\* The helper stores its grant, if it is current.
LEMMA StoreKeepsInv ==
  ASSUME Inv, NEW g \in Grant, Store(g)
  PROVE  Inv'
<1>1. TypeOK'
  <2>1. g \in 0 .. MaxGrants
    BY DEF Grant
  <2>2. health' \in Health
    BY <2>1, HealthFacts DEF Inv, TypeOK, Store, GiveUp
  <2>3. /\ helper' \in [Grant -> {"none", "started", "consent", "granted", "over"}]
        /\ vault' \in Grant \cup {None}
    BY DEF Inv, TypeOK, Store, GiveUp
  <2> QED
    BY <2>2, <2>3 DEF Inv, TypeOK, Store, rowVars, procVars, mailVars
<1>2. PostedOnceAsReviewed' /\ Unsent' /\ Unborn'
  BY DEF Inv, Store, PostedOnceAsReviewed, Unsent, Unborn, Owned, Busy, IsCurrent,
         GiveUp, rowVars, procVars, mailVars, Owns
<1>3. Single' /\ Owned' /\ Before'
  BY DEF Inv, Store, Single, Owned, Before, Unsent, Busy, Unborn, IsCurrent, GiveUp,
         rowVars, procVars, mailVars, Owns
<1>4. Told' /\ Found' /\ Once'
  BY DEF Inv, Store, Told, Found, Once, Before, Single, IsCurrent, GiveUp, rowVars,
         procVars, mailVars
<1>5. VerdictsAreTrue' /\ SuppressedIsSilent'
  BY DEF Inv, Store, VerdictsAreTrue, SuppressedIsSilent, Told, Found, Once, Before,
         Single, IsCurrent, GiveUp, rowVars, procVars, mailVars, MayPost
<1>6. ConnectionIsCurrent' /\ Busy' /\ Granted'
  BY BoundsAreNaturals, SettingsAreValid DEF Inv, Store, ConnectionIsCurrent, Busy,
         Granted, TypeOK, Unborn, IsCurrent, GiveUp, rowVars, procVars, Grant
<1>7. DailyCap'
  BY DEF Inv, Store, DailyCap, IsCurrent, GiveUp, rowVars, procVars, WithinADay
<1> QED
  BY <1>1, <1>2, <1>3, <1>4, <1>5, <1>6, <1>7 DEF Inv

-----------------------------------------------------------------------------
(* The theorems *)

\* An empty store with any saved settings satisfies Inv.
LEMMA InitInv == Init => Inv
<1> SUFFICES ASSUME Init PROVE Inv
  OBVIOUS
<1>1. TypeOK
  <2>1. 0 \in 0 .. MaxGrants /\ 0 \in 0 .. MaxLimit
    BY BoundsAreNaturals
  <2>2. health \in Health
    BY <2>1, HealthFacts DEF Init
  <2>3. mail \in [Draft -> Seq([text : Revision, from : Sender])]
    BY DEF Init
  <2> QED
    BY <2>1, <2>2, <2>3 DEF Init, TypeOK, States, Ages, Points
<1>2. PostedOnceAsReviewed /\ VerdictsAreTrue /\ SuppressedIsSilent
  BY DEF Init, PostedOnceAsReviewed, VerdictsAreTrue, SuppressedIsSilent
<1>3. DailyCap
  <2>1. \A s \in Sender : WithinADay(s) = {}
    BY DEF Init, WithinADay
  <2> QED
    BY <2>1, FS_EmptySet, BoundsAreNaturals DEF DailyCap
<1>4. ConnectionIsCurrent /\ Granted
  BY DEF Init, ConnectionIsCurrent, Granted
<1>5. /\ Unsent /\ Unborn /\ Single /\ Owned /\ Before
      /\ Told /\ Found /\ Once /\ Busy
  BY DEF Init, Unsent, Unborn, Single, Owned, Before, Told, Found, Once, Busy, Owns
<1> QED
  BY <1>1, <1>2, <1>3, <1>4, <1>5 DEF Inv

\* Every step of Next preserves Inv.
LEMMA NextKeepsInv ==
  ASSUME Inv, [Next]_vars
  PROVE  Inv'
<1>1. CASE UNCHANGED vars
  <2>1. \A s \in Sender : WithinADay(s)' = WithinADay(s)
    BY <1>1 DEF vars, rowVars, WithinADay
  <2>2. DailyCap'
    BY <2>1 DEF Inv, DailyCap
  <2>3. TypeOK'
    BY <1>1 DEF vars, rowVars, oauthVars, procVars, mailVars, Inv, TypeOK
  <2>4. PostedOnceAsReviewed' /\ VerdictsAreTrue' /\ SuppressedIsSilent' /\ Unsent' /\ Unborn'
    BY <1>1 DEF vars, rowVars, procVars, mailVars, Inv, PostedOnceAsReviewed,
           VerdictsAreTrue, SuppressedIsSilent, Unsent, Unborn, Owns, MayPost
  <2>5. /\ Single' /\ Owned' /\ Before' /\ Told' /\ Found' /\ Once' /\ Busy'
        /\ ConnectionIsCurrent' /\ Granted'
    BY <1>1 DEF vars, rowVars, oauthVars, procVars, mailVars, Inv, Single, Owned, Before,
           Told, Found, Once, Busy, Owns, ConnectionIsCurrent, Granted
  <2> QED
    BY <2>2, <2>3, <2>4, <2>5 DEF Inv
<1>2. ASSUME NEW p \in Proc, Sending(p)
      PROVE  Inv'
  BY <1>2, CheckKeepsInv, ReserveKeepsInv, RefusedKeepsInv, TokenServesKeepsInv,
     RefreshKeepsInv, RefreshFailsKeepsInv, PostKeepsInv, SettleKeepsInv, DieKeepsInv,
     ReconcileKeepsInv, LookUpKeepsInv, VerifyKeepsInv
     DEF Sending
<1>3. ASSUME NEW d \in Draft, Drafting(d)
      PROVE  Inv'
  BY <1>3, CreateKeepsInv, EditKeepsInv, SuppressKeepsInv, PassKeepsInv, ArriveKeepsInv
     DEF Drafting
<1>4. CASE List \/ Connecting
  BY <1>4, ListKeepsInv, SaveKeepsInv, DisconnectKeepsInv, ConnectKeepsInv,
     AuthorizeKeepsInv, DenyKeepsInv, StoreKeepsInv, ConsentKeepsInv
     DEF Connecting
<1> QED
  BY <1>1, <1>2, <1>3, <1>4 DEF Next

\* Inv holds in every reachable state, for any number of drafts, processes,
\* accounts, connections and settings.
THEOREM InvHolds == Spec => []Inv
<1>1. Init => Inv
  BY InitInv
<1>2. Inv /\ [Next]_vars => Inv'
  BY NextKeepsInv
<1> QED
  BY <1>1, <1>2, PTL DEF Spec

\* A row is posted at most once, with the reviewed content and from the recorded
\* account (native_outreach.py:177-219).
THEOREM EachDraftIsPostedOnce == Spec => []PostedOnceAsReviewed
<1>1. Inv => PostedOnceAsReviewed
  BY DEF Inv
<1> QED
  BY <1>1, InvHolds, PTL

\* The outcome a row shows is what became of its message, through late answers,
\* interrupted senders and reconciliation (native_outreach.py:78, 216-218, 239-244).
THEOREM ShownVerdictsAreTrue == Spec => []VerdictsAreTrue
<1>1. Inv => VerdictsAreTrue
  BY DEF Inv
<1> QED
  BY <1>1, InvHolds, PTL

\* Nothing is posted for a suppressed row, and nothing is on its way
\* (native_outreach.py:169-175).
THEOREM SuppressedRowsAreSilent == Spec => []SuppressedIsSilent
<1>1. Inv => SuppressedIsSilent
  BY DEF Inv
<1> QED
  BY <1>1, InvHolds, PTL

\* The daily limit bounds what an account attempts, for any number of senders at
\* once (native_outreach.py:185-191).
THEOREM TheDailyCapHolds == Spec => []DailyCap
<1>1. Inv => DailyCap
  BY DEF Inv
<1> QED
  BY <1>1, InvHolds, PTL

\* A helper that was overtaken by a disconnection or by another OAuth client stores
\* no authorization (native_mail_oauth.py:104-110).
THEOREM StoredConnectionsAreCurrent == Spec => []ConnectionIsCurrent
<1>1. Inv => ConnectionIsCurrent
  BY DEF Inv
<1> QED
  BY <1>1, InvHolds, PTL

\* A dispatch that reconciliation has proved stays proved (native_outreach.py:217).
THEOREM ProvedDispatchesStay == Spec => VerifiedStays
<1>1. Inv /\ [Next]_vars =>
        [\A d \in Draft : state[d] = "sent_verified" =>
                            state'[d] \in {"sent_verified", "suppressed"}]_vars
  <2> SUFFICES ASSUME Inv, Next, NEW d \in Draft, state[d] = "sent_verified"
               PROVE  state'[d] \in {"sent_verified", "suppressed"}
    BY DEF vars
  <2>1. Swept[d] = "sent_verified"
    BY DEF Swept, Interrupted
  <2>2. ASSUME NEW p \in Proc, Sending(p)
        PROVE  state'[d] \in {"sent_verified", "suppressed"}
    BY <2>1, <2>2 DEF Sending, Check, Reserve, Allowed, Refused, TokenServes, Refresh,
           RefreshFails, Post, Settle, Recorded, Die, Reconcile, LookUp, Verify,
           Verified, Dispatched, rowVars, Inv, TypeOK, Swept
  <2>3. ASSUME NEW e \in Draft, Drafting(e)
        PROVE  state'[d] \in {"sent_verified", "suppressed"}
    BY <2>3 DEF Drafting, Create, Edit, Suppress, Pass, Arrive, rowVars, Swept,
           Interrupted, Inv
  <2>4. CASE List \/ Connecting
    BY <2>1, <2>4 DEF List, Connecting, Save, Disconnect, Connect, Authorize, Deny,
           Store, Consent, rowVars
  <2> QED
    BY <2>2, <2>3, <2>4 DEF Next
<1> QED
  BY <1>1, InvHolds, PTL DEF Spec, VerifiedStays

-----------------------------------------------------------------------------
(* The table of drafts implements a write-ahead journal.                   *)

\* Only a post and its late arrival concern Gmail.
LEMMA MailSteps ==
  ASSUME [Next]_vars, \A p \in Proc : ~Post(p), \A d \in Draft : ~Arrive(d)
  PROVE  UNCHANGED mailVars
<1>1. ASSUME NEW p \in Proc, Sending(p)
      PROVE  UNCHANGED mailVars
  BY <1>1 DEF Sending, Check, Reserve, Refused, TokenServes, Refresh, RefreshFails, Settle, Die,
         Reconcile, LookUp, Verify, mailVars
<1>2. ASSUME NEW d \in Draft, Drafting(d)
      PROVE  UNCHANGED mailVars
  BY <1>2 DEF Drafting, Create, Edit, Suppress, Pass, mailVars
<1>3. ASSUME List \/ Connecting
      PROVE  UNCHANGED mailVars
  BY <1>3 DEF List, Connecting, Save, Disconnect, Connect, Authorize, Deny, Store, Consent, mailVars
<1> QED
  BY <1>1, <1>2, <1>3 DEF Next, vars

\* What a post does to the row it is for, and to no other.
LEMMA PostSteps ==
  ASSUME Inv, NEW p \in Proc, Post(p)
  PROVE  /\ at[p] \in Draft /\ state' = state
         /\ state[at[p]] \in {"sending", "unknown"}
         /\ mail[at[p]] = <<>> /\ ~delivered[at[p]] /\ ~transit[at[p]]
         /\ mail'[at[p]] # <<>> /\ Len(mail'[at[p]]) = 1
         /\ \A d \in Draft \ {at[p]} :
              mail'[d] = mail[d] /\ delivered'[d] = delivered[d] /\ transit'[d] = transit[d]
<1>1. at[p] \in Draft /\ mail[at[p]] = <<>>
  BY DEF Inv, Busy, Before, Post
<1>2. mail'[at[p]] = Append(<<>>, [text |-> seen[p], from |-> accountOf[cred[p]]])
  BY <1>1 DEF Inv, TypeOK, Post
<1>3. mail'[at[p]] # <<>> /\ Len(mail'[at[p]]) = 1
  BY <1>2
<1> QED
  BY <1>1, <1>3 DEF Inv, TypeOK, Before, Post, rowVars

\* Posted holds in every reachable state.
LEMMA PostedHolds == Spec => []Posted
<1>1. Init => Posted
  BY DEF Init, Posted
<1>2. ASSUME Inv, Posted, [Next]_vars
      PROVE  Posted'
  <2>1. ASSUME NEW p \in Proc, Post(p)
        PROVE  Posted'
    BY <1>2, <2>1, PostSteps DEF Posted
  <2>2. ASSUME NEW d \in Draft, Arrive(d)
        PROVE  Posted'
    BY <1>2, <2>2 DEF Posted, Arrive, Inv, TypeOK
  <2>3. CASE UNCHANGED mailVars
    BY <1>2, <2>3 DEF Posted, mailVars
  <2> QED
    BY <1>2, <2>1, <2>2, <2>3, MailSteps
<1> QED
  BY <1>1, <1>2, InvHolds, PTL DEF Spec

\* The moves of a row, with what is known of its message by then.
RowMoves(d) ==
  \/ state'[d] = state[d]
  \/ state[d] = "none" /\ state'[d] = "draft"
  \/ state[d] = "draft" /\ state'[d] = "sending"
  \/ state[d] = "sending" /\ state'[d] = "unknown"
  \/ state[d] = "sending" /\ state'[d] = "accepted" /\ delivered[d]
  \/ state[d] = "sending" /\ state'[d] = "failed" /\ ~delivered[d] /\ ~transit[d]
  \/ state[d] \in Dispatched /\ state'[d] = "sent_verified" /\ delivered[d]
  \/ state[d] \notin {"none", "sending", "unknown"} /\ state'[d] = "suppressed"

\* Opening the store changes nothing but a dispatch that hangs.
LEMMA SweptMoves ==
  ASSUME Inv, state' = Swept
  PROVE  \A d \in Draft : RowMoves(d)
BY DEF Swept, Interrupted, RowMoves, Inv, TypeOK

\* A row moves along its life, whichever process moves it.
LEMMA RowSteps ==
  ASSUME Inv, [Next]_vars
  PROVE  \A d \in Draft : RowMoves(d)
<1>1. ASSUME UNCHANGED state
      PROVE  \A d \in Draft : RowMoves(d)
  BY <1>1 DEF RowMoves
<1>2. ASSUME NEW d \in Draft, NEW r \in Revision, Create(d, r)
      PROVE  \A e \in Draft : RowMoves(e)
  BY <1>2 DEF Create, Swept, Interrupted, RowMoves, Inv, TypeOK
<1>3. ASSUME NEW d \in Draft, Suppress(d)
      PROVE  \A e \in Draft : RowMoves(e)
  BY <1>3 DEF Suppress, Suppressible, Swept, Interrupted, RowMoves, Inv, TypeOK
<1>4. ASSUME NEW p \in Proc, Reserve(p)
      PROVE  \A e \in Draft : RowMoves(e)
  BY <1>4 DEF Reserve, Allowed, RowMoves, Inv, TypeOK
<1>5. ASSUME NEW p \in Proc, Settle(p)
      PROVE  \A e \in Draft : RowMoves(e)
  BY <1>5 DEF Settle, Recorded, RowMoves, Inv, TypeOK, Told
<1>6. ASSUME NEW p \in Proc, Verify(p)
      PROVE  \A e \in Draft : RowMoves(e)
  BY <1>6 DEF Verify, Verified, RowMoves, Inv, TypeOK, Found
<1>7. ASSUME NEW p \in Proc, Sending(p), ~Reserve(p), ~Settle(p), ~Verify(p)
      PROVE  state' = Swept \/ UNCHANGED state
  BY <1>7 DEF Sending, Check, Refused, TokenServes, Refresh, RefreshFails, Post, Die, Reconcile,
         LookUp, rowVars
<1>8. ASSUME NEW d \in Draft, Drafting(d), \A r \in Revision : ~Create(d, r), ~Suppress(d)
      PROVE  state' = Swept \/ UNCHANGED state
  BY <1>8 DEF Drafting, Edit, Pass, Arrive, rowVars
<1>9. ASSUME List \/ Connecting
      PROVE  state' = Swept \/ UNCHANGED state
  BY <1>9 DEF List, Connecting, Save, Disconnect, Connect, Authorize, Deny, Store, Consent, rowVars
<1>10. CASE UNCHANGED vars
  BY <1>1, <1>10 DEF vars, rowVars
<1> QED
  BY <1>1, <1>2, <1>3, <1>4, <1>5, <1>6, <1>7, <1>8, <1>9, <1>10, SweptMoves DEF Next

\* PostsAreJournaled: send, reconcile, suppress and the sweep of the store implement a
\* write-ahead journal of the posts, for any number of processes that send, die or list.
THEOREM OutreachImplementsJournal == Spec => PostsAreJournaled
<1>1. Init => Posts!Init
  BY DEF Init, Posts!Init, EntryOf, ActedOf
<1>2. ASSUME Inv, Inv', Posted, Posted', [Next]_vars
      PROVE  Posts!Next
  <2>1. [d \in Draft |-> EntryOf(d)]' \in [Draft -> Posts!Entries]
    BY DEF EntryOf, Posts!Entries
  <2>2. ASSUME NEW d \in Draft
        PROVE  /\ delivered[d] \/ transit[d] => Len(mail[d]) = 1
               /\ (delivered[d] \/ transit[d] => Len(mail[d]) = 1)'
    BY <1>2, <2>2 DEF Inv, PostedOnceAsReviewed, Posted
  <2>3. [d \in Draft |-> ActedOf(d)]' \in [Draft -> 0..1]
    BY <2>2 DEF ActedOf
  <2>4. ASSUME NEW d \in Draft, mail'[d] = mail[d], delivered'[d] = delivered[d],
               transit'[d] = transit[d]
        PROVE  \/ Posts!Keep(d) \/ Posts!Intend(d) \/ Posts!Act(d)
               \/ Posts!Conclude(d) \/ Posts!Void(d)
    <3>1. RowMoves(d) /\ ActedOf(d)' = ActedOf(d)
      BY <1>2, <2>4, RowSteps DEF ActedOf
    <3>2. /\ state[d] \in {"accepted", "sent_verified"} => delivered[d]
          /\ state[d] \in {"none", "draft", "failed"} => ~delivered[d] /\ ~transit[d]
          /\ state[d] = "suppressed" => ~transit[d]
          /\ delivered[d] => ~transit[d]
          /\ state[d] \in States
      BY <1>2, <2>4 DEF Inv, TypeOK, VerdictsAreTrue, Unsent, SuppressedIsSilent, Once
    <3>3. ActedOf(d) = IF delivered[d] \/ transit[d] THEN 1 ELSE 0
      BY <2>2, <2>4 DEF ActedOf
    <3> QED
      BY <2>4, <3>1, <3>2, <3>3 DEF RowMoves, EntryOf, States, Dispatched, Posts!Keep, Posts!Intend,
             Posts!Conclude, Posts!Void, Posts!Moves
  <2>5. ASSUME NEW p \in Proc, NEW d \in Draft, d = at[p], Post(p)
        PROVE  Posts!Keep(d) \/ Posts!Act(d)
    <3>1. EntryOf(d) = "intended" /\ EntryOf(d)' = "intended"
      BY <1>2, <2>5, PostSteps DEF EntryOf
    <3>2. ActedOf(d) = 0 /\ ActedOf(d)' \in {0, 1}
      BY <1>2, <2>5, PostSteps DEF ActedOf
    <3> QED
      BY <3>1, <3>2 DEF Posts!Keep, Posts!Act, Posts!Moves
  <2>6. ASSUME NEW d \in Draft, Arrive(d)
        PROVE  Posts!Keep(d)
    <3>1. state' = state /\ mail' = mail /\ transit[d] /\ delivered'[d]
      BY <1>2, <2>6 DEF Arrive, rowVars, Inv, TypeOK
    <3>2. state[d] # "suppressed"
      BY <1>2, <3>1 DEF Inv, SuppressedIsSilent
    <3> QED
      BY <2>6, <3>1, <3>2 DEF EntryOf, ActedOf, Posts!Keep
  <2>7. ASSUME NEW d \in Draft, Arrive(d)
        PROVE  \A e \in Draft \ {d} :
                 mail'[e] = mail[e] /\ delivered'[e] = delivered[e] /\ transit'[e] = transit[e]
    BY <1>2, <2>7 DEF Arrive, Inv, TypeOK
  <2>8. ASSUME UNCHANGED mailVars
        PROVE  \A e \in Draft :
                 mail'[e] = mail[e] /\ delivered'[e] = delivered[e] /\ transit'[e] = transit[e]
    BY <2>8 DEF mailVars
  <2>9. ASSUME NEW d \in Draft
        PROVE  \/ Posts!Keep(d) \/ Posts!Intend(d) \/ Posts!Act(d)
               \/ Posts!Conclude(d) \/ Posts!Void(d)
    BY <1>2, <2>4, <2>5, <2>6, <2>7, <2>8, <2>9, PostSteps, MailSteps
  <2> QED
    BY <2>1, <2>3, <2>9 DEF Posts!Next
<1> QED
  BY <1>1, <1>2, InvHolds, PostedHolds, PTL DEF Spec, PostsAreJournaled, Posts!Spec
=============================================================================
