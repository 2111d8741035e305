------------------------- MODULE IntegrationProofs --------------------------
(***************************************************************************)
(* Proofs about IntegrationActions for every number of requests, workers,  *)
(* actions, connections, attempts, crashes and lapsed leases.  Inv is      *)
(* inductive; each action has a lemma, ...KeepsInv, with one step for each *)
(* part of Inv.  ActsAreAttempts counts the workers before their call.     *)
(***************************************************************************)
EXTENDS IntegrationActions, FiniteSetTheorems, TLAPS

-----------------------------------------------------------------------------
\* The bounds are natural numbers.
LEMMA Bounds ==
  /\ MaxActions \in Nat /\ MaxConns \in Nat /\ MaxAttempts \in Nat
  /\ MaxCrashes \in Nat /\ MaxOverruns \in Nat
BY IntegrationAssumption

\* What a request of the API has read tells what it will write.
LEMMA ClientFacts ==
  ASSUME TypeOK, NEW k \in Client
  PROVE  /\ client[k].op = "store" => client[k].conn \in Conn
         /\ client[k].op = "request" =>
              /\ client[k].conn \in Conn /\ client[k].risk \in Risks
              /\ client[k].policy \in Policies
         /\ client[k].op = "decide" =>
              client[k].action \in Action /\ client[k].verdict \in {"approved", "denied"}
BY DEF TypeOK, Writes, Quiet

\* A request that has written is over.
LEMMA QuietFacts ==
  ASSUME TypeOK, NEW k \in Client, client' = [client EXCEPT ![k] = Quiet]
  PROVE  /\ client' \in [Client -> Writes]
         /\ \A j \in Client : client'[j] = client[j] \/ client'[j].op = "none"
BY DEF TypeOK, Writes, Quiet

\* A worker that takes a step leaves the places of the others alone.
LEMMA GoesFacts ==
  ASSUME TypeOK, NEW w \in Worker, NEW p \in Places, Goes(w, p)
  PROVE  /\ at' \in [Worker -> Places] /\ at'[w] = p
         /\ \A v \in Worker \ {w} : at'[v] = at[v]
BY DEF TypeOK, Goes

\* A worker that is done forgets its action.
LEMMA LeavesFacts ==
  ASSUME TypeOK, NEW w \in Worker, NEW p \in {"idle", "gone"}, Leaves(w, p)
  PROVE  /\ at' \in [Worker -> Places] /\ at'[w] = p
         /\ job' \in [Worker -> 0 .. MaxActions] /\ job'[w] = 0
         /\ held' \in [Worker -> 0 .. MaxConns]
         /\ \A v \in Worker \ {w} : at'[v] = at[v] /\ job'[v] = job[v]
BY IntegrationAssumption DEF TypeOK, Leaves, Goes, Places

\* An outcome is written to the worker's own row.
LEMMA OutcomeFacts ==
  ASSUME TypeOK, NEW w \in Worker, NEW s \in Statuses, Outcome(w, s)
  PROVE  /\ status' \in [Action -> Statuses] /\ overdue' \in [Action -> BOOLEAN]
         /\ \A a \in Action : status'[a] = IF a = job[w] THEN s ELSE status[a]
BY DEF TypeOK, Outcome

\* A busy worker has an action, and every place but idle and gone is busy.
LEMMA JobFacts ==
  ASSUME Inv, NEW w \in Worker, at[w] \notin {"idle", "gone"}
  PROVE  job[w] \in Action
BY DEF Inv, TypeOK, WorkersHaveJobs, Action

\* The workers that have not called yet are finitely many.
LEMMA UncalledFacts ==
  ASSUME NEW a \in Action
  PROVE  /\ IsFiniteSet(Uncalled(a)) /\ Cardinality(Uncalled(a)) \in Nat
         /\ IsFiniteSet(Uncalled(a)') /\ Cardinality(Uncalled(a)') \in Nat
<1>1. Uncalled(a) \subseteq Worker /\ Uncalled(a)' \subseteq Worker
  BY DEF Uncalled
<1>2. IsFiniteSet(Worker)
  BY IntegrationAssumption
<1> QED
  BY <1>1, <1>2, FS_Subset, FS_CardinalityType

\* Fewer workers before their call, and no new attempt or performance.
LEMMA ActsKept ==
  ASSUME Inv, UNCHANGED <<acts, attempts>>,
         \A a \in Action : Uncalled(a)' \subseteq Uncalled(a)
  PROVE  ActsAreAttempts'
<1> SUFFICES ASSUME NEW a \in Action
             PROVE  acts[a] + Cardinality(Uncalled(a)') <= attempts[a]
  BY DEF ActsAreAttempts
<1>1. /\ IsFiniteSet(Uncalled(a)) /\ Cardinality(Uncalled(a)) \in Nat
      /\ Cardinality(Uncalled(a)') \in Nat
  BY UncalledFacts
<1>2. Cardinality(Uncalled(a)') <= Cardinality(Uncalled(a))
  BY <1>1, FS_Subset
<1>3. acts[a] + Cardinality(Uncalled(a)) <= attempts[a]
  BY DEF Inv, ActsAreAttempts
<1> QED
  BY <1>1, <1>2, <1>3 DEF Inv, TypeOK

\* The policy of a connection changes.
LEMMA ConfigureKeepsInv ==
  ASSUME Inv, NEW p \in Policies, Configure(p)
  PROVE  Inv'
<1>1. TypeOK'
  BY IntegrationAssumption DEF Inv, Configure, TypeOK, WorkersHaveJobs, rowVars,
         workerVars, boundVars, pastVars, Statuses, Risks, Writes, Places
<1>2. DecidableIsPermitted'
  BY DEF Inv, Configure, DecidableIsPermitted, Permitted, TypeOK, WorkersHaveJobs,
         rowVars, workerVars, boundVars, pastVars, Undecidable
<1>3. WorkersHaveJobs'
  BY DEF Inv, Configure, WorkersHaveJobs, TypeOK, ApprovedIsRecorded, rowVars,
         workerVars, boundVars, pastVars
<1>4. AttemptsAreAccounted'
  BY DEF Inv, Configure, AttemptsAreAccounted, rowVars, workerVars, boundVars, pastVars
<1>5. ActsAreAttempts'
  BY DEF Inv, Configure, ActsAreAttempts, rowVars, workerVars, boundVars, pastVars,
         Uncalled
<1>6. ApprovedIsRecorded'
  BY DEF Inv, Configure, ApprovedIsRecorded, TypeOK, DecidableIsPermitted,
         WorkersHaveJobs, rowVars, workerVars, boundVars, pastVars
<1>7. CompletedWasPerformed'
  BY DEF Inv, Configure, CompletedWasPerformed, rowVars, workerVars, boundVars, pastVars
<1>8. PolicyIsSet' /\ LinkIsConn'
  BY DEF Inv, Configure, PolicyIsSet, LinkIsConn, rowVars, workerVars
<1> QED
  BY <1>1, <1>2, <1>3, <1>4, <1>5, <1>6, <1>7, <1>8 DEF Inv

\* The account is disconnected.
LEMMA DisconnectKeepsInv ==
  ASSUME Inv, Disconnect
  PROVE  Inv'
<1>1. TypeOK'
  <2>1. secret' \in [Conn -> 0 .. MaxConns]
    BY IntegrationAssumption DEF Inv, TypeOK, Disconnect, Conn
  <2>2. Cardinality(Under(conn)) \in Nat
    BY IntegrationAssumption, FS_Subset, FS_CardinalityType DEF Under
  <2>3. inFlight' \in [Conn -> Nat]
    BY <2>2 DEF Inv, TypeOK, Disconnect
  <2> QED
    BY <2>1, <2>3, IntegrationAssumption DEF Inv, TypeOK, Disconnect, rowVars,
           workerVars, boundVars
<1>2. DecidableIsPermitted'
  BY DEF Inv, Disconnect, DecidableIsPermitted, Permitted, TypeOK, WorkersHaveJobs,
         rowVars, workerVars, Undecidable
<1>3. WorkersHaveJobs'
  BY DEF Inv, Disconnect, WorkersHaveJobs, TypeOK, ApprovedIsRecorded, rowVars,
         workerVars
<1>4. AttemptsAreAccounted'
  BY DEF Inv, Disconnect, AttemptsAreAccounted, rowVars, workerVars
<1>5. ActsAreAttempts'
  BY DEF Inv, Disconnect, ActsAreAttempts, rowVars, workerVars, Uncalled
<1>6. ApprovedIsRecorded'
  BY DEF Inv, Disconnect, ApprovedIsRecorded, TypeOK, DecidableIsPermitted,
         WorkersHaveJobs, rowVars, workerVars
<1>7. CompletedWasPerformed'
  BY DEF Inv, Disconnect, CompletedWasPerformed, rowVars, workerVars
<1>8. PolicyIsSet' /\ LinkIsConn'
  BY DEF Inv, Disconnect, PolicyIsSet, LinkIsConn, rowVars, workerVars
<1> QED
  BY <1>1, <1>2, <1>3, <1>4, <1>5, <1>6, <1>7, <1>8 DEF Inv

\* A request reads the connection whose credential it will store.
LEMMA ReadForStoreKeepsInv ==
  ASSUME Inv, NEW k \in Client, ReadForStore(k)
  PROVE  Inv'
<1>1. TypeOK'
  <2>1. [op |-> "store", conn |-> conn] \in Writes
    BY IntegrationAssumption DEF Inv, TypeOK, ReadForStore, Writes, Conn
  <2> QED
    BY <2>1 DEF Inv, TypeOK, ReadForStore, Reads, connVars, rowVars, workerVars,
           boundVars, pastVars
<1>2. DecidableIsPermitted'
  BY DEF Inv, ReadForStore, DecidableIsPermitted, Permitted, TypeOK, WorkersHaveJobs,
         Reads, Undecidable, Quiet, connVars, rowVars, workerVars, boundVars, pastVars
<1>3. WorkersHaveJobs'
  BY DEF Inv, ReadForStore, WorkersHaveJobs, TypeOK, ApprovedIsRecorded, Reads, connVars,
         rowVars, workerVars, boundVars, pastVars
<1>4. AttemptsAreAccounted'
  BY DEF Inv, ReadForStore, AttemptsAreAccounted, Reads, connVars, rowVars, workerVars,
         boundVars, pastVars
<1>5. ActsAreAttempts'
  BY DEF Inv, ReadForStore, ActsAreAttempts, Reads, Uncalled, connVars, rowVars,
         workerVars, boundVars, pastVars
<1>6. ApprovedIsRecorded'
  BY DEF Inv, ReadForStore, ApprovedIsRecorded, TypeOK, DecidableIsPermitted,
         WorkersHaveJobs, Reads, connVars, rowVars, workerVars, boundVars, pastVars
<1>7. CompletedWasPerformed'
  BY DEF Inv, ReadForStore, CompletedWasPerformed, Reads, connVars, rowVars, workerVars,
         boundVars, pastVars
<1>8. PolicyIsSet' /\ LinkIsConn'
  BY DEF Inv, ReadForStore, PolicyIsSet, LinkIsConn, Reads, connVars, rowVars,
         workerVars
<1> QED
  BY <1>1, <1>2, <1>3, <1>4, <1>5, <1>6, <1>7, <1>8 DEF Inv

\* ... and stores it.
LEMMA StoreCredentialKeepsInv ==
  ASSUME Inv, NEW k \in Client, StoreCredential(k)
  PROVE  Inv'
<1>1. TypeOK'
  <2>1. client[k].conn \in Conn
    BY ClientFacts DEF Inv, StoreCredential
  <2>2. secret' \in [Conn -> 0 .. MaxConns]
    BY <2>1 DEF Inv, TypeOK, StoreCredential, Conn
  <2>3. client' \in [Client -> Writes]
    BY QuietFacts DEF Inv, StoreCredential
  <2> QED
    BY <2>2, <2>3 DEF Inv, TypeOK, StoreCredential, connVars, rowVars, workerVars,
           boundVars, pastVars
<1>2. DecidableIsPermitted'
  BY DEF Inv, StoreCredential, DecidableIsPermitted, Permitted, TypeOK, WorkersHaveJobs,
         Quiet, connVars, rowVars, workerVars, boundVars, pastVars, Undecidable
<1>3. WorkersHaveJobs'
  BY DEF Inv, StoreCredential, WorkersHaveJobs, TypeOK, ApprovedIsRecorded, connVars,
         rowVars, workerVars, boundVars, pastVars
<1>4. AttemptsAreAccounted'
  BY DEF Inv, StoreCredential, AttemptsAreAccounted, connVars, rowVars, workerVars,
         boundVars, pastVars
<1>5. ActsAreAttempts'
  BY DEF Inv, StoreCredential, ActsAreAttempts, connVars, rowVars, workerVars, boundVars,
         pastVars, Uncalled
<1>6. ApprovedIsRecorded'
  BY DEF Inv, StoreCredential, ApprovedIsRecorded, TypeOK, DecidableIsPermitted,
         WorkersHaveJobs, connVars, rowVars, workerVars, boundVars, pastVars
<1>7. CompletedWasPerformed'
  BY DEF Inv, StoreCredential, CompletedWasPerformed, connVars, rowVars, workerVars,
         boundVars, pastVars
<1>8. PolicyIsSet' /\ LinkIsConn'
  BY DEF Inv, StoreCredential, PolicyIsSet, LinkIsConn, connVars, rowVars, workerVars
<1> QED
  BY <1>1, <1>2, <1>3, <1>4, <1>5, <1>6, <1>7, <1>8 DEF Inv

\* A request of an action reads its connection and policy.
LEMMA ReadForRequestKeepsInv ==
  ASSUME Inv, NEW k \in Client, NEW r \in Risks, ReadForRequest(k, r)
  PROVE  Inv'
<1>1. TypeOK'
  <2>1. conn \in Conn /\ policy \in Policies
    BY IntegrationAssumption DEF Inv, TypeOK, ReadForRequest, PolicyIsSet, Conn
  <2>2. [op |-> "request", conn |-> conn, policy |-> policy, risk |-> r] \in Writes
    BY <2>1 DEF Writes
  <2> QED
    BY <2>2 DEF Inv, TypeOK, ReadForRequest, Reads, connVars, rowVars, workerVars,
           boundVars, pastVars
<1>2. DecidableIsPermitted'
  BY DEF Inv, ReadForRequest, DecidableIsPermitted, Permitted, TypeOK, WorkersHaveJobs,
         Reads, Undecidable, Quiet, connVars, rowVars, workerVars, boundVars, pastVars
<1>3. WorkersHaveJobs'
  BY DEF Inv, ReadForRequest, WorkersHaveJobs, TypeOK, ApprovedIsRecorded, Reads,
         connVars, rowVars, workerVars, boundVars, pastVars
<1>4. AttemptsAreAccounted'
  BY DEF Inv, ReadForRequest, AttemptsAreAccounted, Reads, connVars, rowVars, workerVars,
         boundVars, pastVars
<1>5. ActsAreAttempts'
  BY DEF Inv, ReadForRequest, ActsAreAttempts, Reads, Uncalled, connVars, rowVars,
         workerVars, boundVars, pastVars
<1>6. ApprovedIsRecorded'
  BY DEF Inv, ReadForRequest, ApprovedIsRecorded, TypeOK, DecidableIsPermitted,
         WorkersHaveJobs, Reads, connVars, rowVars, workerVars, boundVars, pastVars
<1>7. CompletedWasPerformed'
  BY DEF Inv, ReadForRequest, CompletedWasPerformed, Reads, connVars, rowVars,
         workerVars, boundVars, pastVars
<1>8. PolicyIsSet' /\ LinkIsConn'
  BY DEF Inv, ReadForRequest, PolicyIsSet, LinkIsConn, Reads, connVars, rowVars,
         workerVars
<1> QED
  BY <1>1, <1>2, <1>3, <1>4, <1>5, <1>6, <1>7, <1>8 DEF Inv

\* ... and inserts the action's row.
LEMMA RequestKeepsInv ==
  ASSUME Inv, NEW k \in Client, NEW a \in Action, Request(k, a)
  PROVE  Inv'
<1>1. TypeOK'
  <2>1. /\ client[k].conn \in Conn /\ client[k].risk \in Risks
        /\ client[k].policy \in Policies
    BY ClientFacts DEF Inv, Request
  <2>2. client' \in [Client -> Writes]
    BY QuietFacts DEF Inv, Request
  <2>3. FirstStatus(client[k].policy, client[k].risk) \in Statuses
    BY DEF FirstStatus, Statuses
  <2>4. client[k].conn \in 0 .. MaxConns
    BY <2>1, IntegrationAssumption DEF Conn
  <2>5. /\ status' \in [Action -> Statuses] /\ risk' \in [Action -> Risks]
        /\ link' \in [Action -> 0 .. MaxConns] /\ asked' \in [Action -> Policies \cup {"none"}]
    BY <2>1, <2>3, <2>4 DEF Inv, TypeOK, Request
  <2> QED
    BY <2>2, <2>5 DEF Inv, TypeOK, Request, connVars, workerVars, boundVars
<1>2. DecidableIsPermitted'
  <2>1. /\ client[k].risk \in Risks /\ client[k].policy \in Policies
    BY ClientFacts DEF Inv, Request
  <2>2. \A b \in Action : status'[b] \notin Undecidable => Permitted(b)'
    BY <2>1, IntegrationAssumption DEF Inv, TypeOK, Request, DecidableIsPermitted,
           Permitted, FirstStatus, Undecidable, Risks
  <2>3. \A j \in Client : client'[j] = client[j] \/ client'[j].op = "none"
    BY QuietFacts DEF Inv, Request
  <2>4. \A j \in Client : client[j].op = "decide" => client[j].action \in Action
    BY ClientFacts DEF Inv
  <2>5. \A b \in Action : status[b] \notin Undecidable => status'[b] \notin Undecidable
    BY DEF Inv, Request, Undecidable
  <2> QED
    BY <2>2, <2>3, <2>4, <2>5 DEF Inv, DecidableIsPermitted
<1>3. WorkersHaveJobs'
  BY DEF Inv, Request, WorkersHaveJobs, TypeOK, ApprovedIsRecorded, Quiet, FirstStatus,
         connVars, workerVars, Undecidable
<1>4. AttemptsAreAccounted'
  BY DEF Inv, Request, AttemptsAreAccounted, FirstStatus, connVars, workerVars
<1>5. ActsAreAttempts'
  BY DEF Inv, Request, ActsAreAttempts, FirstStatus, connVars, workerVars, Uncalled
<1>6. ApprovedIsRecorded'
  BY DEF Inv, Request, ApprovedIsRecorded, TypeOK, DecidableIsPermitted, WorkersHaveJobs,
         Quiet, FirstStatus, connVars, workerVars, Undecidable, Permitted
<1>7. CompletedWasPerformed'
  BY DEF Inv, Request, CompletedWasPerformed, FirstStatus, connVars, workerVars
<1>8. PolicyIsSet' /\ LinkIsConn'
  <2>1. client[k].conn \in Conn
    BY ClientFacts DEF Inv, Request
  <2>2. \A b \in Action : /\ status'[b] # "absent" => status[b] # "absent" \/ b = a
                          /\ link'[b] = IF b = a THEN client[k].conn ELSE link[b]
    BY DEF Inv, TypeOK, Request
  <2> QED
    BY <2>1, <2>2 DEF Inv, Request, PolicyIsSet, LinkIsConn, connVars
<1> QED
  BY <1>1, <1>2, <1>3, <1>4, <1>5, <1>6, <1>7, <1>8 DEF Inv

\* A decision reads the row it will update.
LEMMA ReadForDecisionKeepsInv ==
  ASSUME Inv, NEW k \in Client, NEW a \in Action, NEW v \in {"approved", "denied"},
  ReadForDecision(k, a, v)
  PROVE  Inv'
<1>1. TypeOK'
  <2>1. [op |-> "decide", action |-> a, verdict |-> v] \in Writes
    BY IntegrationAssumption DEF Inv, ReadForDecision, Writes
  <2> QED
    BY <2>1 DEF Inv, TypeOK, ReadForDecision, Reads, connVars, rowVars, workerVars,
           boundVars, pastVars
<1>2. DecidableIsPermitted'
  BY DEF Inv, ReadForDecision, DecidableIsPermitted, Permitted, TypeOK, WorkersHaveJobs,
         Reads, Undecidable, Quiet, connVars, rowVars, workerVars, boundVars, pastVars
<1>3. WorkersHaveJobs'
  BY DEF Inv, ReadForDecision, WorkersHaveJobs, TypeOK, ApprovedIsRecorded, Reads,
         connVars, rowVars, workerVars, boundVars, pastVars
<1>4. AttemptsAreAccounted'
  BY DEF Inv, ReadForDecision, AttemptsAreAccounted, Reads, connVars, rowVars,
         workerVars, boundVars, pastVars
<1>5. ActsAreAttempts'
  BY DEF Inv, ReadForDecision, ActsAreAttempts, Reads, Uncalled, connVars, rowVars,
         workerVars, boundVars, pastVars
<1>6. ApprovedIsRecorded'
  BY DEF Inv, ReadForDecision, ApprovedIsRecorded, TypeOK, DecidableIsPermitted,
         WorkersHaveJobs, Reads, connVars, rowVars, workerVars, boundVars, pastVars
<1>7. CompletedWasPerformed'
  BY DEF Inv, ReadForDecision, CompletedWasPerformed, Reads, connVars, rowVars,
         workerVars, boundVars, pastVars
<1>8. PolicyIsSet' /\ LinkIsConn'
  BY DEF Inv, ReadForDecision, PolicyIsSet, LinkIsConn, Reads, connVars, rowVars,
         workerVars
<1> QED
  BY <1>1, <1>2, <1>3, <1>4, <1>5, <1>6, <1>7, <1>8 DEF Inv

\* ... and updates it, whatever it has become.
LEMMA DecideKeepsInv ==
  ASSUME Inv, NEW k \in Client, Decide(k)
  PROVE  Inv'
<1>1. TypeOK'
  <2>1. client[k].action \in Action /\ client[k].verdict \in {"approved", "denied"}
    BY ClientFacts DEF Inv, Decide
  <2>2. client' \in [Client -> Writes]
    BY QuietFacts DEF Inv, Decide
  <2>3. status' \in [Action -> Statuses] /\ approvals' \in [Action -> Nat]
    BY <2>1 DEF Inv, TypeOK, Decide, Statuses
  <2> QED
    BY <2>2, <2>3 DEF Inv, TypeOK, Decide, connVars, workerVars, boundVars
<1>2. DecidableIsPermitted'
  <2>1. client[k].action \in Action /\ client[k].verdict \in {"approved", "denied"}
    BY ClientFacts DEF Inv, Decide
  <2>2. status[client[k].action] \notin Undecidable
    BY DEF Inv, DecidableIsPermitted, Decide
  <2>3. \A b \in Action : status'[b] \notin Undecidable => status[b] \notin Undecidable
    BY <2>1, <2>2 DEF Inv, Decide
  <2>4. \A b \in Action : status[b] \notin Undecidable => status'[b] \notin Undecidable
    BY <2>1, <2>2 DEF Inv, Decide, Undecidable
  <2>5. \A j \in Client : client'[j] = client[j] \/ client'[j].op = "none"
    BY QuietFacts DEF Inv, Decide
  <2>6. \A j \in Client : client[j].op = "decide" => client[j].action \in Action
    BY ClientFacts DEF Inv
  <2> QED
    BY <2>3, <2>4, <2>5, <2>6 DEF Inv, DecidableIsPermitted, Permitted, Decide
<1>3. WorkersHaveJobs'
  <2>1. client[k].action \in Action /\ client[k].verdict \in {"approved", "denied"}
    BY ClientFacts DEF Inv, Decide
  <2>2. \A b \in Action : status[b] \notin Undecidable => status'[b] \notin Undecidable
    BY <2>1 DEF Inv, Decide, Undecidable
  <2>3. \A w \in Worker : job[w] # 0 => job[w] \in Action
    BY DEF Inv, TypeOK, Action
  <2> QED
    BY <2>2, <2>3 DEF Inv, Decide, WorkersHaveJobs, workerVars
<1>4. AttemptsAreAccounted'
  BY DEF Inv, Decide, AttemptsAreAccounted, TypeOK, connVars, workerVars
<1>5. ActsAreAttempts'
  BY DEF Inv, Decide, ActsAreAttempts, connVars, workerVars, Uncalled
<1>6. ApprovedIsRecorded'
  <2>1. client[k].action \in Action /\ client[k].verdict \in {"approved", "denied"}
    BY ClientFacts DEF Inv, Decide
  <2>2. status[client[k].action] \notin Undecidable
    BY DEF Inv, DecidableIsPermitted, Decide
  <2>3. \A b \in Action : /\ approvals'[b] >= approvals[b]
                          /\ status'[b] # status[b] =>
                               status'[b] = "denied" \/ approvals'[b] > 0
    BY <2>1 DEF Inv, TypeOK, Decide
  <2>4. \A b \in Action : status[b] \notin Undecidable => status'[b] \notin Undecidable
    BY <2>1 DEF Inv, Decide, Undecidable
  <2>5. approvals' \in [Action -> Nat]
    BY <1>1 DEF TypeOK
  <2> QED
    BY <2>3, <2>4, <2>5 DEF Inv, TypeOK, Decide, ApprovedIsRecorded, workerVars
<1>7. CompletedWasPerformed'
  <2>1. client[k].action \in Action /\ client[k].verdict \in {"approved", "denied"}
    BY ClientFacts DEF Inv, Decide
  <2>2. \A b \in Action : status'[b] = "completed" => status[b] = "completed"
    BY <2>1 DEF Inv, Decide
  <2> QED
    BY <2>2 DEF Inv, CompletedWasPerformed, Decide
<1>8. PolicyIsSet' /\ LinkIsConn'
  <2>1. client[k].action \in Action /\ client[k].verdict \in {"approved", "denied"}
    BY ClientFacts DEF Inv, Decide
  <2>2. status[client[k].action] # "absent"
    BY DEF Inv, DecidableIsPermitted, Decide, Undecidable
  <2>3. \A b \in Action : status'[b] # "absent" => status[b] # "absent"
    BY <2>1, <2>2 DEF Inv, Decide
  <2> QED
    BY <2>3 DEF Inv, Decide, PolicyIsSet, LinkIsConn, connVars
<1> QED
  BY <1>1, <1>2, <1>3, <1>4, <1>5, <1>6, <1>7, <1>8 DEF Inv

\* Recovery of lapsed leases and the claim of an approved action.
LEMMA ClaimKeepsInv ==
  ASSUME Inv, NEW w \in Worker, Claim(w)
  PROVE  Inv'
<1>1. TypeOK'
  <2>1. PICK a \in Queued :
          /\ status' = [b \in Action |-> IF b = a THEN "running"
                              ELSE IF b \in Lapsed THEN "approved" ELSE status[b]]
          /\ attempts' = [attempts EXCEPT ![a] = @ + 1]
          /\ job' = [job EXCEPT ![w] = a]
    BY DEF Claim
  <2>2. a \in Action /\ a # 0 /\ status[a] \in {"approved", "running"}
    BY DEF Queued, Lapsed, Action
  <2>3. status' \in [Action -> Statuses]
    BY <2>1, <2>2 DEF Inv, TypeOK, Statuses
  <2>4. attempts' \in [Action -> Nat]
    BY <2>1, <2>2 DEF Inv, TypeOK
  <2>7. job' \in [Worker -> 0 .. MaxActions]
    <3>1. a \in 0 .. MaxActions
      BY <2>2, Bounds DEF Action
    <3> QED
      BY <2>1, <3>1 DEF Inv, TypeOK
  <2>5. overdue' \in [Action -> BOOLEAN] /\ recovered' \in [Action -> Nat]
    BY DEF Inv, TypeOK, Claim
  <2>6. at' \in [Worker -> Places]
    BY GoesFacts DEF Inv, Claim, Places
  <2> QED
    BY <2>3, <2>4, <2>5, <2>6, <2>7 DEF Inv, TypeOK, Claim, connVars, boundVars
<1>2. DecidableIsPermitted'
  <2>1. PICK a \in Queued :
          /\ status' = [b \in Action |-> IF b = a THEN "running"
                              ELSE IF b \in Lapsed THEN "approved" ELSE status[b]]
          /\ attempts' = [attempts EXCEPT ![a] = @ + 1]
          /\ job' = [job EXCEPT ![w] = a]
    BY DEF Claim
  <2>2. a \in Action /\ a # 0 /\ status[a] \in {"approved", "running"}
    BY DEF Queued, Lapsed, Action
  <2>3. \A b \in Action : status'[b] \notin Undecidable <=> status[b] \notin Undecidable
    BY <2>1, <2>2 DEF Inv, Lapsed, Undecidable
  <2>4. \A j \in Client : client[j].op = "decide" => client[j].action \in Action
    BY ClientFacts DEF Inv
  <2> QED
    BY <2>3, <2>4 DEF Inv, Claim, DecidableIsPermitted, Permitted
<1>3. WorkersHaveJobs'
  <2>1. PICK a \in Queued :
          /\ status' = [b \in Action |-> IF b = a THEN "running"
                              ELSE IF b \in Lapsed THEN "approved" ELSE status[b]]
          /\ attempts' = [attempts EXCEPT ![a] = @ + 1]
          /\ job' = [job EXCEPT ![w] = a]
    BY DEF Claim
  <2>2. a \in Action /\ a # 0 /\ status[a] \in {"approved", "running"}
    BY DEF Queued, Lapsed, Action
  <2>3. \A b \in Action : status[b] \notin Undecidable => status'[b] \notin Undecidable
    BY <2>1, <2>2 DEF Inv, Lapsed, Undecidable
  <2>4. status'[a] = "running" /\ job'[w] = a
    BY <2>1, <2>2 DEF Inv, TypeOK
  <2>5. /\ at'[w] = "claimed"
        /\ \A v \in Worker \ {w} : at'[v] = at[v] /\ job'[v] = job[v]
    BY <2>1, GoesFacts DEF Inv, Claim, Places
  <2>6. \A v \in Worker : job[v] # 0 => job[v] \in Action
    BY DEF Inv, TypeOK, Action
  <2> QED
    BY <2>2, <2>3, <2>4, <2>5, <2>6 DEF Inv, Claim, WorkersHaveJobs, Undecidable
<1>4. AttemptsAreAccounted'
  <2>1. PICK a \in Queued :
          /\ status' = [b \in Action |-> IF b = a THEN "running"
                              ELSE IF b \in Lapsed THEN "approved" ELSE status[b]]
          /\ attempts' = [attempts EXCEPT ![a] = @ + 1]
          /\ job' = [job EXCEPT ![w] = a]
    BY DEF Claim
  <2>2. a \in Action /\ a # 0 /\ status[a] \in {"approved", "running"}
    BY DEF Queued, Lapsed, Action
  <2>3. /\ attempts \in [Action -> Nat] /\ approvals \in [Action -> Nat]
        /\ recovered \in [Action -> Nat]
    BY DEF Inv, TypeOK
  <2>4. \A b \in Action : /\ attempts'[b] = IF b = a THEN attempts[b] + 1 ELSE attempts[b]
                          /\ recovered'[b] = IF b \in Lapsed THEN recovered[b] + 1 ELSE recovered[b]
                          /\ status'[b] = IF b = a THEN "running"
                                          ELSE IF b \in Lapsed THEN "approved" ELSE status[b]
                          /\ approvals'[b] = approvals[b]
    BY <2>1, <2>2, <2>3 DEF Claim
  <2> QED
    BY <2>2, <2>3, <2>4 DEF Inv, AttemptsAreAccounted, Queued, Lapsed
<1>5. ActsAreAttempts'
  <2>1. PICK a \in Queued :
          /\ status' = [b \in Action |-> IF b = a THEN "running"
                              ELSE IF b \in Lapsed THEN "approved" ELSE status[b]]
          /\ attempts' = [attempts EXCEPT ![a] = @ + 1]
          /\ job' = [job EXCEPT ![w] = a]
    BY DEF Claim
  <2>2. a \in Action /\ a # 0 /\ status[a] \in {"approved", "running"}
    BY DEF Queued, Lapsed, Action
  <2> SUFFICES ASSUME NEW b \in Action
               PROVE  acts'[b] + Cardinality(Uncalled(b)') <= attempts'[b]
    BY DEF ActsAreAttempts
  <2>3. /\ IsFiniteSet(Uncalled(b)) /\ Cardinality(Uncalled(b)) \in Nat
        /\ Cardinality(Uncalled(b)') \in Nat
    BY UncalledFacts
  <2>4. acts[b] + Cardinality(Uncalled(b)) <= attempts[b]
    BY DEF Inv, ActsAreAttempts
  <2>5. /\ at'[w] = "claimed" /\ job'[w] = a /\ at[w] = "idle"
        /\ \A v \in Worker \ {w} : at'[v] = at[v] /\ job'[v] = job[v]
    BY <2>1, GoesFacts DEF Inv, TypeOK, Claim, Places
  <2>6. acts'[b] = acts[b] /\ acts[b] \in Nat /\ attempts[b] \in Nat
    BY DEF Inv, TypeOK, Claim
  <2>7. CASE b = a
    <3>1. Uncalled(b)' = Uncalled(b) \cup {w} /\ w \notin Uncalled(b)
      BY <2>5, <2>7 DEF Uncalled, Prepares
    <3>2. Cardinality(Uncalled(b)') = Cardinality(Uncalled(b)) + 1
      BY <3>1, <2>3, FS_AddElement
    <3>3. attempts'[b] = attempts[b] + 1
      BY <2>1, <2>2, <2>7 DEF Inv, TypeOK
    <3> QED
      BY <3>2, <3>3, <2>3, <2>4, <2>6
  <2>8. CASE b # a
    <3>1. Uncalled(b)' \subseteq Uncalled(b)
      BY <2>5, <2>8 DEF Uncalled
    <3>2. Cardinality(Uncalled(b)') <= Cardinality(Uncalled(b))
      BY <3>1, <2>3, FS_Subset
    <3>3. attempts'[b] = attempts[b]
      BY <2>1, <2>2, <2>8 DEF Inv
    <3> QED
      BY <3>2, <3>3, <2>3, <2>4, <2>6
  <2> QED
    BY <2>7, <2>8
<1>6. ApprovedIsRecorded'
  BY DEF Inv, Claim, ApprovedIsRecorded, TypeOK, DecidableIsPermitted, WorkersHaveJobs,
         Queued, Lapsed, Goes, connVars, Undecidable, Permitted
<1>7. CompletedWasPerformed'
  BY DEF Inv, Claim, CompletedWasPerformed, Queued, Lapsed, Goes, connVars
<1>8. PolicyIsSet' /\ LinkIsConn'
  BY DEF Inv, Claim, PolicyIsSet, LinkIsConn, Queued, Lapsed, Goes, connVars
<1> QED
  BY <1>1, <1>2, <1>3, <1>4, <1>5, <1>6, <1>7, <1>8 DEF Inv

\* The worker looks the connection up.
LEMMA LookUpKeepsInv ==
  ASSUME Inv, NEW w \in Worker, LookUp(w)
  PROVE  Inv'
<1>1. TypeOK'
  BY IntegrationAssumption DEF Inv, LookUp, TypeOK, WorkersHaveJobs, Goes, connVars,
         rowVars, boundVars, pastVars, Conn, Action, Statuses, Risks, Writes, Places,
         Prepares
<1>2. DecidableIsPermitted'
  BY DEF Inv, LookUp, DecidableIsPermitted, Permitted, TypeOK, WorkersHaveJobs, Goes,
         connVars, rowVars, boundVars, pastVars, Undecidable
<1>3. WorkersHaveJobs'
  BY DEF Inv, LookUp, WorkersHaveJobs, TypeOK, ApprovedIsRecorded, Goes, connVars,
         rowVars, boundVars, pastVars
<1>4. AttemptsAreAccounted'
  BY DEF Inv, LookUp, AttemptsAreAccounted, Goes, connVars, rowVars, boundVars, pastVars
<1>5. ActsAreAttempts'
  <2>1. /\ at[w] \in Prepares \cup {"claimed"} /\ job' = job
        /\ \A v \in Worker \ {w} : at'[v] = at[v]
    BY DEF Inv, LookUp, Goes
  <2>2. \A a \in Action : Uncalled(a)' \subseteq Uncalled(a)
    BY <2>1 DEF Uncalled
  <2> QED
    BY <2>2, ActsKept DEF LookUp, rowVars, pastVars
<1>6. ApprovedIsRecorded'
  BY DEF Inv, LookUp, ApprovedIsRecorded, TypeOK, DecidableIsPermitted, WorkersHaveJobs,
         Goes, connVars, rowVars, boundVars, pastVars
<1>7. CompletedWasPerformed'
  BY DEF Inv, LookUp, CompletedWasPerformed, Goes, connVars, rowVars, boundVars,
         pastVars
<1>8. PolicyIsSet' /\ LinkIsConn'
  BY DEF Inv, LookUp, PolicyIsSet, LinkIsConn, Goes, connVars, rowVars
<1> QED
  BY <1>1, <1>2, <1>3, <1>4, <1>5, <1>6, <1>7, <1>8 DEF Inv

\* ... loads its secret.
LEMMA LoadKeepsInv ==
  ASSUME Inv, NEW w \in Worker, Load(w)
  PROVE  Inv'
<1>1. TypeOK'
  <2>1. at' \in [Worker -> Places]
    BY GoesFacts DEF Inv, Load, Places, Prepares
  <2>2. link[job[w]] \in Conn => secret[link[job[w]]] \in 0 .. MaxConns
    BY DEF Inv, TypeOK
  <2>3. job[w] \in Action /\ link[job[w]] \in Conn
    BY JobFacts DEF Load, Inv, LinkIsConn, WorkersHaveJobs, Undecidable
  <2>4. held' \in [Worker -> 0 .. MaxConns]
    BY <2>2, <2>3 DEF Inv, TypeOK, Load
  <2> QED
    BY <2>1, <2>4 DEF Inv, TypeOK, Load, connVars, rowVars, boundVars, pastVars
<1>2. DecidableIsPermitted'
  BY DEF Inv, Load, DecidableIsPermitted, Permitted, TypeOK, WorkersHaveJobs, Goes,
         connVars, rowVars, boundVars, pastVars, Undecidable
<1>3. WorkersHaveJobs'
  BY DEF Inv, Load, WorkersHaveJobs, TypeOK, ApprovedIsRecorded, Goes, connVars, rowVars,
         boundVars, pastVars
<1>4. AttemptsAreAccounted'
  BY DEF Inv, Load, AttemptsAreAccounted, Goes, connVars, rowVars, boundVars, pastVars
<1>5. ActsAreAttempts'
  <2>1. /\ at[w] \in Prepares \cup {"claimed"} /\ job' = job
        /\ \A v \in Worker \ {w} : at'[v] = at[v]
    BY DEF Inv, TypeOK, Load, Goes, Prepares
  <2>2. \A a \in Action : Uncalled(a)' \subseteq Uncalled(a)
    BY <2>1 DEF Uncalled
  <2> QED
    BY <2>2, ActsKept DEF Load, rowVars, pastVars
<1>6. ApprovedIsRecorded'
  BY DEF Inv, Load, ApprovedIsRecorded, TypeOK, DecidableIsPermitted, WorkersHaveJobs,
         Goes, connVars, rowVars, boundVars, pastVars
<1>7. CompletedWasPerformed'
  BY DEF Inv, Load, CompletedWasPerformed, Goes, connVars, rowVars, boundVars, pastVars
<1>8. PolicyIsSet' /\ LinkIsConn'
  BY DEF Inv, Load, PolicyIsSet, LinkIsConn, Goes, connVars, rowVars
<1> QED
  BY <1>1, <1>2, <1>3, <1>4, <1>5, <1>6, <1>7, <1>8 DEF Inv

\* ... refreshes the grant, or fails to.
LEMMA RefreshKeepsInv ==
  ASSUME Inv, NEW w \in Worker, NEW p \in Places, Refresh(w, p)
  PROVE  Inv'
<1>1. TypeOK'
  BY IntegrationAssumption DEF Inv, Refresh, TypeOK, WorkersHaveJobs, Goes, connVars,
         rowVars, boundVars, pastVars, Statuses, Risks, Writes, Places
<1>2. DecidableIsPermitted'
  BY DEF Inv, Refresh, DecidableIsPermitted, Permitted, TypeOK, WorkersHaveJobs, Goes,
         connVars, rowVars, boundVars, pastVars, Undecidable
<1>3. WorkersHaveJobs'
  BY DEF Inv, Refresh, WorkersHaveJobs, TypeOK, ApprovedIsRecorded, Goes, connVars,
         rowVars, boundVars, pastVars
<1>4. AttemptsAreAccounted'
  BY DEF Inv, Refresh, AttemptsAreAccounted, Goes, connVars, rowVars, boundVars,
         pastVars
<1>5. ActsAreAttempts'
  <2>1. /\ at[w] \in Prepares \cup {"claimed"} /\ job' = job
        /\ \A v \in Worker \ {w} : at'[v] = at[v]
    BY DEF Inv, Refresh, Goes, Prepares
  <2>2. \A a \in Action : Uncalled(a)' \subseteq Uncalled(a)
    BY <2>1 DEF Uncalled
  <2> QED
    BY <2>2, ActsKept DEF Refresh, rowVars, pastVars
<1>6. ApprovedIsRecorded'
  BY DEF Inv, Refresh, ApprovedIsRecorded, TypeOK, DecidableIsPermitted, WorkersHaveJobs,
         Goes, connVars, rowVars, boundVars, pastVars
<1>7. CompletedWasPerformed'
  BY DEF Inv, Refresh, CompletedWasPerformed, Goes, connVars, rowVars, boundVars,
         pastVars
<1>8. PolicyIsSet' /\ LinkIsConn'
  BY DEF Inv, Refresh, PolicyIsSet, LinkIsConn, Goes, connVars, rowVars
<1> QED
  BY <1>1, <1>2, <1>3, <1>4, <1>5, <1>6, <1>7, <1>8 DEF Inv

\* ... reads the connection it will store the refreshed grant for.
LEMMA ReadForRefreshKeepsInv ==
  ASSUME Inv, NEW w \in Worker, ReadForRefresh(w)
  PROVE  Inv'
<1>1. TypeOK'
  <2>1. at' \in [Worker -> Places]
    BY GoesFacts DEF Inv, ReadForRefresh, Places, Prepares
  <2>2. target' \in [Worker -> 0 .. MaxConns]
    BY DEF Inv, TypeOK, ReadForRefresh
  <2> QED
    BY <2>1, <2>2 DEF Inv, TypeOK, ReadForRefresh, connVars, rowVars, boundVars,
           pastVars
<1>2. DecidableIsPermitted'
  BY DEF Inv, ReadForRefresh, DecidableIsPermitted, Permitted, TypeOK, WorkersHaveJobs,
         Goes, connVars, rowVars, boundVars, pastVars, Undecidable
<1>3. WorkersHaveJobs'
  BY DEF Inv, ReadForRefresh, WorkersHaveJobs, TypeOK, ApprovedIsRecorded, Goes,
         connVars, rowVars, boundVars, pastVars
<1>4. AttemptsAreAccounted'
  BY DEF Inv, ReadForRefresh, AttemptsAreAccounted, Goes, connVars, rowVars, boundVars,
         pastVars
<1>5. ActsAreAttempts'
  <2>1. /\ at[w] \in Prepares \cup {"claimed"} /\ job' = job
        /\ \A v \in Worker \ {w} : at'[v] = at[v]
    BY DEF Inv, TypeOK, ReadForRefresh, Goes, Prepares
  <2>2. \A a \in Action : Uncalled(a)' \subseteq Uncalled(a)
    BY <2>1 DEF Uncalled
  <2> QED
    BY <2>2, ActsKept DEF ReadForRefresh, rowVars, pastVars
<1>6. ApprovedIsRecorded'
  BY DEF Inv, ReadForRefresh, ApprovedIsRecorded, TypeOK, DecidableIsPermitted,
         WorkersHaveJobs, Goes, connVars, rowVars, boundVars, pastVars
<1>7. CompletedWasPerformed'
  BY DEF Inv, ReadForRefresh, CompletedWasPerformed, Goes, connVars, rowVars, boundVars,
         pastVars
<1>8. PolicyIsSet' /\ LinkIsConn'
  BY DEF Inv, ReadForRefresh, PolicyIsSet, LinkIsConn, Goes, connVars, rowVars
<1> QED
  BY <1>1, <1>2, <1>3, <1>4, <1>5, <1>6, <1>7, <1>8 DEF Inv

\* ... and stores it.
LEMMA StoreRefreshedKeepsInv ==
  ASSUME Inv, NEW w \in Worker, StoreRefreshed(w)
  PROVE  Inv'
<1>1. TypeOK'
  <2>1. at' \in [Worker -> Places]
    BY GoesFacts DEF Inv, StoreRefreshed, Places, Prepares
  <2>2. secret' \in [Conn -> 0 .. MaxConns] /\ target' \in [Worker -> 0 .. MaxConns]
    BY Bounds DEF Inv, TypeOK, StoreRefreshed, WorkersHaveJobs, Conn
  <2> QED
    BY <2>1, <2>2 DEF Inv, TypeOK, StoreRefreshed, connVars, rowVars, boundVars,
           pastVars
<1>2. DecidableIsPermitted'
  BY DEF Inv, StoreRefreshed, DecidableIsPermitted, Permitted, TypeOK, WorkersHaveJobs,
         Goes, connVars, rowVars, boundVars, pastVars, Undecidable
<1>3. WorkersHaveJobs'
  BY DEF Inv, StoreRefreshed, WorkersHaveJobs, TypeOK, ApprovedIsRecorded, Goes,
         connVars, rowVars, boundVars, pastVars
<1>4. AttemptsAreAccounted'
  BY DEF Inv, StoreRefreshed, AttemptsAreAccounted, Goes, connVars, rowVars, boundVars,
         pastVars
<1>5. ActsAreAttempts'
  <2>1. /\ at[w] \in Prepares \cup {"claimed"} /\ job' = job
        /\ \A v \in Worker \ {w} : at'[v] = at[v]
    BY DEF Inv, StoreRefreshed, Goes, Prepares
  <2>2. \A a \in Action : Uncalled(a)' \subseteq Uncalled(a)
    BY <2>1 DEF Uncalled
  <2> QED
    BY <2>2, ActsKept DEF StoreRefreshed, rowVars, pastVars
<1>6. ApprovedIsRecorded'
  BY DEF Inv, StoreRefreshed, ApprovedIsRecorded, TypeOK, DecidableIsPermitted,
         WorkersHaveJobs, Goes, connVars, rowVars, boundVars, pastVars
<1>7. CompletedWasPerformed'
  BY DEF Inv, StoreRefreshed, CompletedWasPerformed, Goes, connVars, rowVars, boundVars,
         pastVars
<1>8. PolicyIsSet' /\ LinkIsConn'
  BY DEF Inv, StoreRefreshed, PolicyIsSet, LinkIsConn, Goes, connVars, rowVars
<1> QED
  BY <1>1, <1>2, <1>3, <1>4, <1>5, <1>6, <1>7, <1>8 DEF Inv

\* The call to the provider: one worker less before its call.
LEMMA CallKeepsInv ==
  ASSUME Inv, NEW w \in Worker, NEW p \in Places, NEW performed \in BOOLEAN, Call(w, p,
  performed)
  PROVE  Inv'
<1>1. TypeOK'
  <2>1. job[w] \in Action
    BY JobFacts DEF Call
  <2>2. acts' \in [Action -> Nat]
    BY <2>1 DEF Inv, TypeOK, Call
  <2>3. revoked' \in [Conn -> Nat]
    BY DEF Inv, TypeOK, Call
  <2>4. at' \in [Worker -> Places] /\ held' \in [Worker -> 0 .. MaxConns]
    BY IntegrationAssumption, GoesFacts DEF Inv, TypeOK, Call
  <2> QED
    BY <2>2, <2>3, <2>4 DEF Inv, TypeOK, Call, connVars, rowVars, boundVars
<1>2. DecidableIsPermitted'
  BY DEF Inv, Call, DecidableIsPermitted, Permitted, TypeOK, WorkersHaveJobs, Goes,
         connVars, rowVars, Undecidable
<1>3. WorkersHaveJobs'
  <2>1. /\ at'[w] \in {"ok", "error", "transient"} /\ at[w] = "ready" /\ job' = job
        /\ \A v \in Worker \ {w} : at'[v] = at[v]
    BY DEF Inv, TypeOK, Call, Goes
  <2>2. job[w] \in Action
    BY <2>1, JobFacts
  <2>3. /\ \A b \in Action : acts[b] > 0 => acts'[b] > 0
        /\ at'[w] = "ok" => acts'[job[w]] > 0
    BY <2>2 DEF Inv, TypeOK, Call, Goes
  <2>4. \A v \in Worker : at[v] = "ok" => job[v] \in Action
    BY JobFacts
  <2> QED
    BY <2>1, <2>3, <2>4 DEF Inv, WorkersHaveJobs, Call, rowVars
<1>4. AttemptsAreAccounted'
  BY DEF Inv, Call, AttemptsAreAccounted, Goes, connVars, rowVars
<1>5. ActsAreAttempts'
  <2>1. /\ at'[w] \in {"ok", "error", "transient"} /\ at[w] = "ready" /\ job' = job
        /\ \A v \in Worker \ {w} : at'[v] = at[v]
    BY DEF Inv, TypeOK, Call, Goes
  <2>2. \A b \in Action : Uncalled(b)' \subseteq Uncalled(b)
    BY <2>1 DEF Uncalled, Prepares
  <2>3. CASE ~performed
    BY <2>2, <2>3, ActsKept DEF Call, rowVars
  <2>4. CASE performed
    <3> SUFFICES ASSUME NEW b \in Action
                 PROVE  acts'[b] + Cardinality(Uncalled(b)') <= attempts[b]
      BY DEF ActsAreAttempts, Call, rowVars
    <3>1. /\ IsFiniteSet(Uncalled(b)) /\ Cardinality(Uncalled(b)) \in Nat
          /\ Cardinality(Uncalled(b)') \in Nat
      BY UncalledFacts
    <3>2. acts[b] + Cardinality(Uncalled(b)) <= attempts[b]
      BY DEF Inv, ActsAreAttempts
    <3>3. acts[b] \in Nat /\ attempts[b] \in Nat
      BY DEF Inv, TypeOK
    <3>4. CASE b = job[w]
      <4>1. acts'[b] = acts[b] + 1
        BY <2>4, <3>4 DEF Inv, TypeOK, Call
      <4>2. Uncalled(b)' = Uncalled(b) \ {w} /\ w \in Uncalled(b)
        BY <2>1, <3>4 DEF Uncalled, Prepares
      <4>3. Cardinality(Uncalled(b)') = Cardinality(Uncalled(b)) - 1
        BY <4>2, <3>1, FS_RemoveElement
      <4> QED
        BY <4>1, <4>3, <3>1, <3>2, <3>3
    <3>5. CASE b # job[w]
      <4>1. acts'[b] = acts[b]
        BY <2>4, <3>5 DEF Inv, TypeOK, Call
      <4>2. Cardinality(Uncalled(b)') <= Cardinality(Uncalled(b))
        BY <2>2, <3>1, FS_Subset
      <4> QED
        BY <4>1, <4>2, <3>1, <3>2, <3>3
    <3> QED
      BY <3>4, <3>5
  <2> QED
    BY <2>3, <2>4
<1>6. ApprovedIsRecorded'
  BY DEF Inv, Call, ApprovedIsRecorded, TypeOK, DecidableIsPermitted, WorkersHaveJobs,
         Goes, connVars, rowVars
<1>7. CompletedWasPerformed'
  BY DEF Inv, Call, CompletedWasPerformed, TypeOK, WorkersHaveJobs, Goes, connVars,
         rowVars
<1>8. PolicyIsSet' /\ LinkIsConn'
  BY DEF Inv, Call, PolicyIsSet, LinkIsConn, Goes, connVars, rowVars
<1> QED
  BY <1>1, <1>2, <1>3, <1>4, <1>5, <1>6, <1>7, <1>8 DEF Inv

\* The worker reports success.
LEMMA CompleteKeepsInv ==
  ASSUME Inv, NEW w \in Worker, Complete(w)
  PROVE  Inv'
<1>1. TypeOK'
  <2>1. CASE Leased(w)
    <3>1. /\ at' \in [Worker -> Places] /\ job' \in [Worker -> 0 .. MaxActions]
          /\ held' \in [Worker -> 0 .. MaxConns]
      BY <2>1, LeavesFacts DEF Inv, Complete
    <3>2. status' \in [Action -> Statuses] /\ overdue' \in [Action -> BOOLEAN]
      BY <2>1, OutcomeFacts DEF Inv, Complete, Statuses
    <3> QED
      BY <3>1, <3>2 DEF Inv, TypeOK, Complete, connVars, boundVars, pastVars
  <2>2. CASE ~Leased(w)
    <3>1. /\ at' \in [Worker -> Places] /\ job' \in [Worker -> 0 .. MaxActions]
          /\ held' \in [Worker -> 0 .. MaxConns]
      BY <2>2, GoesFacts DEF Inv, TypeOK, Complete, Places
    <3> QED
      BY <2>2, <3>1 DEF Inv, TypeOK, Complete, connVars, boundVars, pastVars
  <2> QED
    BY <2>1, <2>2
<1>2. DecidableIsPermitted'
  <2>1. \A b \in Action : status'[b] # status[b] =>
          status[b] = "running" /\ status'[b] \in {"completed"}
    BY OutcomeFacts DEF Inv, Complete, Leased, Statuses
  <2>2. \A j \in Client : client[j].op = "decide" => client[j].action \in Action
    BY ClientFacts DEF Inv
  <2> QED
    BY <2>1, <2>2 DEF Inv, Complete, DecidableIsPermitted, Permitted, Undecidable,
           pastVars
<1>3. WorkersHaveJobs'
  <2>1. \A b \in Action : status'[b] # status[b] =>
          status[b] = "running" /\ status'[b] \in {"completed"}
    BY OutcomeFacts DEF Inv, Complete, Leased, Statuses
  <2>2. \A v \in Worker \ {w} : at'[v] = at[v] /\ job'[v] = job[v]
    BY LeavesFacts, GoesFacts DEF Inv, Complete, Places
  <2>3. \/ at'[w] = "idle" /\ job'[w] = 0
        \/ at'[w] = "error" /\ job'[w] = job[w]
      <3>1. CASE Leased(w)
      <4>1. Leaves(w, "idle")
        BY <3>1 DEF Complete
      <4> QED
        BY <4>1, LeavesFacts DEF Inv
    <3>2. CASE ~Leased(w)
      BY <3>2, GoesFacts DEF Inv, Complete, Places
    <3> QED
      BY <3>1, <3>2
  <2>4. \A v \in Worker : job[v] # 0 => job[v] \in Action
    BY DEF Inv, TypeOK, Action
  <2> QED
    BY <2>1, <2>2, <2>3, <2>4 DEF Inv, Complete, WorkersHaveJobs, Undecidable, pastVars
<1>4. AttemptsAreAccounted'
  BY DEF Inv, Complete, AttemptsAreAccounted, TypeOK, Leased, Leaves, Outcome, Goes,
         connVars, boundVars, pastVars
<1>5. ActsAreAttempts'
  BY DEF Inv, Complete, ActsAreAttempts, TypeOK, Leased, Leaves, Outcome, Goes, connVars,
         boundVars, pastVars, Uncalled, Prepares
<1>6. ApprovedIsRecorded'
  BY DEF Inv, Complete, ApprovedIsRecorded, TypeOK, DecidableIsPermitted,
         WorkersHaveJobs, Leased, Leaves, Outcome, Goes, connVars, boundVars, pastVars,
         Undecidable, Permitted
<1>7. CompletedWasPerformed'
  BY DEF Inv, Complete, CompletedWasPerformed, TypeOK, WorkersHaveJobs, Leased, Leaves,
         Outcome, Goes, connVars, boundVars, pastVars
<1>8. PolicyIsSet' /\ LinkIsConn'
  BY DEF Inv, Complete, PolicyIsSet, LinkIsConn, TypeOK, Leased, Leaves, Outcome, Goes,
         connVars
<1> QED
  BY <1>1, <1>2, <1>3, <1>4, <1>5, <1>6, <1>7, <1>8 DEF Inv

\* The worker reports a failure.
LEMMA FailKeepsInv ==
  ASSUME Inv, NEW w \in Worker, Fail(w)
  PROVE  Inv'
<1>1. TypeOK'
  <2>1. CASE Leased(w)
    <3>1. /\ at' \in [Worker -> Places] /\ job' \in [Worker -> 0 .. MaxActions]
          /\ held' \in [Worker -> 0 .. MaxConns]
      BY <2>1, LeavesFacts DEF Inv, Fail
    <3>2. status' \in [Action -> Statuses] /\ overdue' \in [Action -> BOOLEAN]
      BY <2>1, OutcomeFacts DEF Inv, Fail, Statuses
    <3> QED
      BY <3>1, <3>2 DEF Inv, TypeOK, Fail, connVars, boundVars, pastVars
  <2>2. CASE ~Leased(w)
    <3>1. /\ at' \in [Worker -> Places] /\ job' \in [Worker -> 0 .. MaxActions]
          /\ held' \in [Worker -> 0 .. MaxConns]
      BY <2>2, LeavesFacts DEF Inv, Fail, Places
    <3> QED
      BY <2>2, <3>1 DEF Inv, TypeOK, Fail, connVars, boundVars, pastVars
  <2> QED
    BY <2>1, <2>2
<1>2. DecidableIsPermitted'
  <2>1. \A b \in Action : status'[b] # status[b] =>
          status[b] = "running" /\ status'[b] \in {"approved", "failed"}
    BY OutcomeFacts DEF Inv, Fail, Leased, Statuses
  <2>2. \A j \in Client : client[j].op = "decide" => client[j].action \in Action
    BY ClientFacts DEF Inv
  <2> QED
    BY <2>1, <2>2 DEF Inv, Fail, DecidableIsPermitted, Permitted, Undecidable, pastVars
<1>3. WorkersHaveJobs'
  <2>1. \A b \in Action : status'[b] # status[b] =>
          status[b] = "running" /\ status'[b] \in {"approved", "failed"}
    BY OutcomeFacts DEF Inv, Fail, Leased, Statuses
  <2>2. \A v \in Worker \ {w} : at'[v] = at[v] /\ job'[v] = job[v]
    BY LeavesFacts, GoesFacts DEF Inv, Fail, Places
  <2>3. at'[w] \in {"idle", "gone"} /\ job'[w] = 0
    BY JobFacts, LeavesFacts, GoesFacts DEF Inv, Fail, Places
  <2>4. \A v \in Worker : job[v] # 0 => job[v] \in Action
    BY DEF Inv, TypeOK, Action
  <2> QED
    BY <2>1, <2>2, <2>3, <2>4 DEF Inv, Fail, WorkersHaveJobs, Undecidable, pastVars
<1>4. AttemptsAreAccounted'
  <2>1. CASE Leased(w)
    <3>1. job[w] \in Action /\ status[job[w]] = "running"
      BY <2>1, JobFacts DEF Leased, Fail
    <3>2. risk[job[w]] = "external"
      BY <3>1 DEF Inv, DecidableIsPermitted, Permitted, Undecidable
    <3>3. Outcome(w, "failed")
      BY <2>1, <3>2 DEF Fail, Retries
    <3>4. \A b \in Action : status'[b] = "approved" => status[b] = "approved"
      BY <3>3, OutcomeFacts DEF Inv, Statuses
    <3> QED
      BY <3>4 DEF Inv, TypeOK, Fail, AttemptsAreAccounted, pastVars
  <2>2. CASE ~Leased(w)
    BY <2>2 DEF Inv, Fail, AttemptsAreAccounted, pastVars
  <2> QED
    BY <2>1, <2>2
<1>5. ActsAreAttempts'
  BY DEF Inv, Fail, ActsAreAttempts, TypeOK, Leased, Leaves, Outcome, Retries, connVars,
         boundVars, pastVars, Uncalled, Goes, Prepares
<1>6. ApprovedIsRecorded'
  BY DEF Inv, Fail, ApprovedIsRecorded, TypeOK, DecidableIsPermitted, WorkersHaveJobs,
         Leased, Leaves, Outcome, Retries, connVars, boundVars, pastVars, Undecidable,
         Permitted, Goes
<1>7. CompletedWasPerformed'
  BY DEF Inv, Fail, CompletedWasPerformed, TypeOK, WorkersHaveJobs, Leased, Leaves,
         Outcome, Retries, connVars, boundVars, pastVars, Goes
<1>8. PolicyIsSet' /\ LinkIsConn'
  BY DEF Inv, Fail, PolicyIsSet, LinkIsConn, TypeOK, Leased, Leaves, Outcome, Retries,
         connVars, Goes
<1> QED
  BY <1>1, <1>2, <1>3, <1>4, <1>5, <1>6, <1>7, <1>8 DEF Inv

\* A worker is killed.
LEMMA CrashKeepsInv ==
  ASSUME Inv, NEW w \in Worker, Crash(w)
  PROVE  Inv'
<1>1. TypeOK'
  <2>1. crashes' \in 0 .. MaxCrashes
    BY Bounds DEF Inv, TypeOK, Crash
  <2>2. /\ at' \in [Worker -> Places] /\ job' \in [Worker -> 0 .. MaxActions]
        /\ held' \in [Worker -> 0 .. MaxConns]
    BY LeavesFacts DEF Inv, Crash
  <2>3. target' \in [Worker -> 0 .. MaxConns]
    BY Bounds DEF Inv, TypeOK, Crash
  <2> QED
    BY <2>1, <2>2, <2>3 DEF Inv, TypeOK, Crash, connVars, rowVars, pastVars
<1>2. DecidableIsPermitted'
  BY DEF Inv, Crash, DecidableIsPermitted, Permitted, TypeOK, WorkersHaveJobs, Leaves,
         connVars, rowVars, pastVars, Undecidable, Goes
<1>3. WorkersHaveJobs'
  BY DEF Inv, Crash, WorkersHaveJobs, TypeOK, ApprovedIsRecorded, Leaves, connVars,
         rowVars, pastVars, Goes
<1>4. AttemptsAreAccounted'
  BY DEF Inv, Crash, AttemptsAreAccounted, Leaves, connVars, rowVars, pastVars, Goes
<1>5. ActsAreAttempts'
  <2>1. \A v \in Worker \ {w} : at'[v] = at[v] /\ job'[v] = job[v]
    BY LeavesFacts DEF Inv, Crash
  <2>2. at'[w] = "gone"
    BY LeavesFacts DEF Inv, Crash
  <2>3. \A a \in Action : Uncalled(a)' \subseteq Uncalled(a)
    BY <2>1, <2>2 DEF Uncalled, Prepares
  <2> QED
    BY <2>3, ActsKept DEF Crash, rowVars, pastVars
<1>6. ApprovedIsRecorded'
  BY DEF Inv, Crash, ApprovedIsRecorded, TypeOK, DecidableIsPermitted, WorkersHaveJobs,
         Leaves, connVars, rowVars, pastVars, Goes
<1>7. CompletedWasPerformed'
  BY DEF Inv, Crash, CompletedWasPerformed, Leaves, connVars, rowVars, pastVars, Goes
<1>8. PolicyIsSet' /\ LinkIsConn'
  BY DEF Inv, Crash, PolicyIsSet, LinkIsConn, Leaves, connVars, rowVars, Goes
<1> QED
  BY <1>1, <1>2, <1>3, <1>4, <1>5, <1>6, <1>7, <1>8 DEF Inv

\* A killed worker comes back.
LEMMA RestartKeepsInv ==
  ASSUME Inv, NEW w \in Worker, Restart(w)
  PROVE  Inv'
<1>1. TypeOK'
  BY IntegrationAssumption DEF Inv, Restart, TypeOK, WorkersHaveJobs, Goes, connVars,
         rowVars, boundVars, pastVars, Statuses, Risks, Writes, Places
<1>2. DecidableIsPermitted'
  BY DEF Inv, Restart, DecidableIsPermitted, Permitted, TypeOK, WorkersHaveJobs, Goes,
         connVars, rowVars, boundVars, pastVars, Undecidable
<1>3. WorkersHaveJobs'
  BY DEF Inv, Restart, WorkersHaveJobs, TypeOK, ApprovedIsRecorded, Goes, connVars,
         rowVars, boundVars, pastVars
<1>4. AttemptsAreAccounted'
  BY DEF Inv, Restart, AttemptsAreAccounted, Goes, connVars, rowVars, boundVars,
         pastVars
<1>5. ActsAreAttempts'
  BY DEF Inv, Restart, ActsAreAttempts, Goes, connVars, rowVars, boundVars, pastVars,
         Uncalled, Prepares
<1>6. ApprovedIsRecorded'
  BY DEF Inv, Restart, ApprovedIsRecorded, TypeOK, DecidableIsPermitted, WorkersHaveJobs,
         Goes, connVars, rowVars, boundVars, pastVars
<1>7. CompletedWasPerformed'
  BY DEF Inv, Restart, CompletedWasPerformed, Goes, connVars, rowVars, boundVars,
         pastVars
<1>8. PolicyIsSet' /\ LinkIsConn'
  BY DEF Inv, Restart, PolicyIsSet, LinkIsConn, Goes, connVars, rowVars
<1> QED
  BY <1>1, <1>2, <1>3, <1>4, <1>5, <1>6, <1>7, <1>8 DEF Inv

\* A lease runs out.
LEMMA LapseKeepsInv ==
  ASSUME Inv, NEW a \in Action, Lapse(a)
  PROVE  Inv'
<1>1. TypeOK'
  <2>1. overruns' \in 0 .. MaxOverruns
    BY Bounds DEF Inv, TypeOK, Lapse
  <2>2. overdue' \in [Action -> BOOLEAN]
    BY DEF Inv, TypeOK, Lapse
  <2> QED
    BY <2>1, <2>2 DEF Inv, TypeOK, Lapse, connVars, workerVars, pastVars
<1>2. DecidableIsPermitted'
  BY DEF Inv, Lapse, DecidableIsPermitted, Permitted, TypeOK, WorkersHaveJobs, connVars,
         workerVars, pastVars, Undecidable
<1>3. WorkersHaveJobs'
  BY DEF Inv, Lapse, WorkersHaveJobs, TypeOK, ApprovedIsRecorded, connVars, workerVars,
         pastVars
<1>4. AttemptsAreAccounted'
  BY DEF Inv, Lapse, AttemptsAreAccounted, connVars, workerVars, pastVars
<1>5. ActsAreAttempts'
  BY DEF Inv, Lapse, ActsAreAttempts, connVars, workerVars, pastVars, Uncalled
<1>6. ApprovedIsRecorded'
  BY DEF Inv, Lapse, ApprovedIsRecorded, TypeOK, DecidableIsPermitted, WorkersHaveJobs,
         connVars, workerVars, pastVars
<1>7. CompletedWasPerformed'
  BY DEF Inv, Lapse, CompletedWasPerformed, connVars, workerVars, pastVars
<1>8. PolicyIsSet' /\ LinkIsConn'
  BY DEF Inv, Lapse, PolicyIsSet, LinkIsConn, connVars, workerVars
<1> QED
  BY <1>1, <1>2, <1>3, <1>4, <1>5, <1>6, <1>7, <1>8 DEF Inv

-----------------------------------------------------------------------------
(* The theorems *)

\* An account without a connection and a log without rows satisfy Inv.
LEMMA InitInv == Init => Inv
<1> SUFFICES ASSUME Init PROVE Inv
  OBVIOUS
<1>1. TypeOK
  BY Bounds DEF Init, TypeOK, Zero, Statuses, Risks, Writes, Places
<1>2. PolicyIsSet /\ LinkIsConn
  BY DEF Init, PolicyIsSet, LinkIsConn
<1>3. DecidableIsPermitted
  BY DEF Init, DecidableIsPermitted, Undecidable, Quiet
<1>4. WorkersHaveJobs
  BY DEF Init, WorkersHaveJobs
<1>5. AttemptsAreAccounted /\ ApprovedIsRecorded /\ CompletedWasPerformed
  BY DEF Init, AttemptsAreAccounted, ApprovedIsRecorded, CompletedWasPerformed, Zero
<1>6. ActsAreAttempts
  <2>1. \A a \in Action : Uncalled(a) = {}
    BY DEF Init, Uncalled, Prepares
  <2> QED
    BY <2>1, FS_EmptySet DEF Init, ActsAreAttempts, Zero
<1> QED
  BY <1>1, <1>2, <1>3, <1>4, <1>5, <1>6 DEF Inv

\* Every step of Next preserves Inv.
LEMMA NextKeepsInv ==
  ASSUME Inv, [Next]_vars
  PROVE  Inv'
<1>1. CASE UNCHANGED vars
  <2>1. \A a \in Action : Uncalled(a)' = Uncalled(a)
    BY <1>1 DEF vars, workerVars, Uncalled
  <2> QED
    BY <1>1, <2>1 DEF vars, connVars, rowVars, workerVars, boundVars, pastVars, Inv,
           TypeOK, PolicyIsSet, LinkIsConn, DecidableIsPermitted, Permitted,
           WorkersHaveJobs, AttemptsAreAccounted, ActsAreAttempts, ApprovedIsRecorded,
           CompletedWasPerformed
<1>2. CASE Account
  BY <1>2, ConfigureKeepsInv, DisconnectKeepsInv, ReadForStoreKeepsInv,
     StoreCredentialKeepsInv, ReadForRequestKeepsInv, RequestKeepsInv,
     ReadForDecisionKeepsInv, DecideKeepsInv
     DEF Account
<1>3. ASSUME NEW w \in Worker, RunOnce(w) \/ Crash(w) \/ Restart(w)
      PROVE  Inv'
  BY <1>3, ClaimKeepsInv, LookUpKeepsInv, LoadKeepsInv, RefreshKeepsInv,
     ReadForRefreshKeepsInv, StoreRefreshedKeepsInv, CallKeepsInv, CompleteKeepsInv,
     FailKeepsInv, CrashKeepsInv, RestartKeepsInv
     DEF RunOnce
<1>4. ASSUME NEW a \in Action, Lapse(a)
      PROVE  Inv'
  BY <1>4, LapseKeepsInv
<1> QED
  BY <1>1, <1>2, <1>3, <1>4 DEF Next

\* Inv holds in every reachable state, for any number of clients, workers,
\* actions, connections, crashes and lapsed leases (store.py:1485-1640,
\* integration_worker.py:19-43).
THEOREM InvHolds == Spec => []Inv
<1>1. Init => Inv
  BY InitInv
<1>2. Inv /\ [Next]_vars => Inv'
  BY NextKeepsInv
<1> QED
  BY <1>1, <1>2, PTL DEF Spec

\* Nothing reaches the provider but a write whose policy let it be asked for
\* and that somebody approved (store.py:1525, store.py:1584).
THEOREM OnlyApprovedWritesReachTheProvider == Spec => []WritesAreApproved
<1>1. Inv => WritesAreApproved
  <2> SUFFICES ASSUME Inv, NEW a \in Action, acts[a] > 0
               PROVE  Permitted(a) /\ approvals[a] > 0
    BY DEF WritesAreApproved, Permitted
  <2>1. Cardinality(Uncalled(a)) \in Nat /\ acts[a] + Cardinality(Uncalled(a)) <= attempts[a]
    BY UncalledFacts DEF Inv, ActsAreAttempts
  <2>2. attempts[a] > 0
    BY <2>1 DEF Inv, TypeOK
  <2> QED
    BY <2>2 DEF Inv, ApprovedIsRecorded, DecidableIsPermitted
<1> QED
  BY <1>1, InvHolds, PTL

\* Each performance of an action is paid for by an approval or by a lease that
\* ran out (store.py:1599, store.py:1624).
THEOREM EffectsAreAlwaysAccounted == Spec => []EffectsAreAccounted
<1>1. Inv => EffectsAreAccounted
  <2> SUFFICES ASSUME Inv, NEW a \in Action
               PROVE  acts[a] <= approvals[a] + recovered[a]
    BY DEF EffectsAreAccounted
  <2>1. Cardinality(Uncalled(a)) \in Nat /\ acts[a] + Cardinality(Uncalled(a)) <= attempts[a]
    BY UncalledFacts DEF Inv, ActsAreAttempts
  <2>2. attempts[a] <= approvals[a] + recovered[a]
    BY DEF Inv, TypeOK, AttemptsAreAccounted
  <2> QED
    BY <2>1, <2>2 DEF Inv, TypeOK
<1> QED
  BY <1>1, InvHolds, PTL

\* A completed action was performed, also when its worker had lost the lease
\* (store.py:1613).
THEOREM CompletedActionsWerePerformed == Spec => []CompletedWasPerformed
<1>1. Inv => CompletedWasPerformed
  BY DEF Inv
<1> QED
  BY <1>1, InvHolds, PTL

-----------------------------------------------------------------------------
(* Removed connections *)

\* The inductive invariant of the uses of removed connections.
Counted == ConnsAreCounted /\ RevokedUsesWereInFlight

\* The calls under way are finitely many.
LEMMA UnderFacts ==
  ASSUME NEW c \in Conn
  PROVE  /\ IsFiniteSet(Under(c)) /\ Cardinality(Under(c)) \in Nat
         /\ IsFiniteSet(Under(c)') /\ Cardinality(Under(c)') \in Nat
<1>1. Under(c) \subseteq Worker /\ Under(c)' \subseteq Worker
  BY DEF Under
<1>2. IsFiniteSet(Worker)
  BY IntegrationAssumption
<1> QED
  BY <1>1, <1>2, FS_Subset, FS_CardinalityType

\* A call that has looked up its connection has an action that names it.
LEMMA UnderHasAction ==
  ASSUME Inv, NEW w \in Worker, at[w] \in Prepares
  PROVE  job[w] \in Action /\ link[job[w]] \in Conn
<1>1. job[w] \in Action /\ status[job[w]] # "absent"
  BY JobFacts DEF Inv, WorkersHaveJobs, Prepares, Undecidable
<1> QED
  BY <1>1 DEF Inv, LinkIsConn

\* No call comes under way on a connection that has been removed.
LEMMA CountedStays ==
  ASSUME Inv, Counted, revoked' = revoked, inFlight' = inFlight, conn' = conn, made' = made,
         \A a \in Action : link'[a] = link[a] \/ link'[a] <= made,
         \A k \in Client : client'[k] = client[k] \/ client'[k].op \notin {"request", "store"}
                             \/ client'[k].conn <= made,
         \A w \in Worker : at'[w] \in Prepares =>
           \/ link'[job'[w]] = conn
           \/ at[w] \in Prepares /\ link'[job'[w]] = link[job[w]]
  PROVE  Counted'
<1>1. ConnsAreCounted'
  BY DEF Counted, ConnsAreCounted
<1>2. ASSUME NEW c \in Conn, c # conn, c <= made
      PROVE  revoked[c] + Cardinality(Under(c)') <= inFlight[c]
  <2>1. Under(c)' \subseteq Under(c)
    BY <1>2 DEF Under
  <2>2. Cardinality(Under(c)') <= Cardinality(Under(c))
    BY <2>1, UnderFacts, FS_Subset
  <2>3. revoked[c] + Cardinality(Under(c)) <= inFlight[c]
    BY <1>2 DEF Counted, RevokedUsesWereInFlight
  <2> QED
    BY <2>2, <2>3, UnderFacts DEF Inv, TypeOK
<1>3. RevokedUsesWereInFlight'
  BY <1>2 DEF RevokedUsesWereInFlight
<1> QED
  BY <1>1, <1>3 DEF Counted

\* A new connection is none of those that were removed.
LEMMA ConfigureCounts ==
  ASSUME Inv, Counted, NEW p \in Policies, Configure(p)
  PROVE  Counted'
<1>1. \A c \in Conn : Under(c)' = Under(c)
  BY DEF Configure, Under, rowVars, workerVars
<1>2. UNCHANGED <<link, client, revoked, inFlight>>
  BY DEF Configure, rowVars, pastVars
<1>3. \/ conn' = conn /\ made' = made
      \/ conn = 0 /\ conn' = made + 1 /\ made' = made + 1
  BY DEF Configure
<1>4. conn \in Nat /\ made \in Nat /\ link \in [Action -> Nat]
  BY Bounds DEF Inv, TypeOK
<1>5. ConnsAreCounted'
  <2>1. \A k \in Client : client[k].op \in {"request", "store"} => client[k].conn \in Nat
    BY ClientFacts DEF Inv, Conn
  <2> QED
    BY <1>2, <1>3, <1>4, <2>1 DEF Counted, ConnsAreCounted, Conn
<1>6. RevokedUsesWereInFlight'
  BY <1>1, <1>2, <1>3, <1>4 DEF Counted, RevokedUsesWereInFlight, Conn
<1> QED
  BY <1>5, <1>6 DEF Counted

\* The calls under way are counted when a connection is removed.
LEMMA DisconnectCounts ==
  ASSUME Inv, Counted, Disconnect
  PROVE  Counted'
<1>1. \A c \in Conn : Under(c)' = Under(c)
  BY DEF Disconnect, Under, rowVars, workerVars
<1>2. UNCHANGED <<made, link, client, revoked>> /\ conn' = 0
  BY DEF Disconnect, rowVars
<1>3. conn \in Conn /\ inFlight' = [inFlight EXCEPT ![conn] = Cardinality(Under(conn))]
  BY Bounds DEF Disconnect, Inv, TypeOK, Conn
<1>4. made \in Nat
  BY Bounds DEF Inv, TypeOK
<1>5. ConnsAreCounted'
  BY <1>2, <1>4 DEF Counted, ConnsAreCounted, Conn
<1>6. ASSUME NEW c \in Conn, c <= made
      PROVE  revoked[c] + Cardinality(Under(c)) <= inFlight'[c]
  <2>1. CASE c = conn
    BY <1>3, <2>1, UnderFacts DEF Counted, ConnsAreCounted, Inv, TypeOK
  <2>2. CASE c # conn
    BY <1>3, <1>6, <2>2 DEF Counted, RevokedUsesWereInFlight, Inv, TypeOK
  <2> QED
    BY <2>1, <2>2
<1>7. RevokedUsesWereInFlight'
  BY <1>1, <1>2, <1>6 DEF RevokedUsesWereInFlight
<1> QED
  BY <1>5, <1>7 DEF Counted

\* A call that uses a removed connection is no longer under way.
LEMMA CallCounts ==
  ASSUME Inv, Counted, NEW w \in Worker, NEW p \in Places, NEW performed \in BOOLEAN,
         Call(w, p, performed)
  PROVE  Counted'
<1>1. /\ at[w] = "ready" /\ job' = job /\ Goes(w, p) /\ p \notin Prepares
      /\ UNCHANGED <<conn, made, link, client, inFlight>>
  BY DEF Call, connVars, rowVars, Prepares
<1>2. at[w] \in Prepares
  BY <1>1 DEF Prepares
<1>3. job[w] \in Action /\ link[job[w]] \in Conn
  BY <1>2, UnderHasAction
<1> PICK d \in Conn : d = link[job[w]]
  BY <1>3
<1>4. d <= made /\ w \in Under(d)
  BY <1>2, <1>3 DEF Under, Counted, ConnsAreCounted
<1>5. revoked' = revoked \/ (revoked' = [revoked EXCEPT ![d] = @ + 1] /\ d # conn)
  BY DEF Call
<1>6. \A j \in Worker : at'[j] = IF j = w THEN p ELSE at[j]
  BY <1>1 DEF Goes, Inv, TypeOK
<1>7. Under(d)' = Under(d) \ {w} /\ \A c \in Conn \ {d} : Under(c)' = Under(c)
  BY <1>1, <1>6 DEF Under
<1>8. Cardinality(Under(d)') = Cardinality(Under(d)) - 1
  <2>1. IsFiniteSet(Under(d))
    BY UnderFacts
  <2>2. Cardinality(Under(d) \ {w}) = Cardinality(Under(d)) - 1
    BY <1>4, <2>1, FS_RemoveElement
  <2> QED
    BY <1>7, <2>2
<1>9. /\ revoked \in [Conn -> Nat] /\ inFlight \in [Conn -> Nat]
      /\ made \in Nat /\ Conn \subseteq Nat
  <2>1. made \in Nat /\ Conn \subseteq Nat
    BY Bounds DEF Inv, TypeOK, Conn
  <2> QED
    BY <2>1 DEF Inv, TypeOK
<1>10. ConnsAreCounted'
  <2>1. \A c \in Conn : c = conn \/ c > made => c # d \/ revoked' = revoked
    BY <1>4, <1>5, <1>9
  <2>2. \A c \in Conn : c = conn \/ c > made => revoked'[c] = 0
    BY <1>5, <1>9, <2>1 DEF Counted, ConnsAreCounted
  <2> QED
    BY <1>1, <2>2 DEF Counted, ConnsAreCounted
<1>11. ASSUME NEW c \in Conn, c # conn, c <= made
       PROVE  revoked'[c] + Cardinality(Under(c)') <= inFlight[c]
  <2>1. revoked[c] + Cardinality(Under(c)) <= inFlight[c]
    BY <1>11 DEF Counted, RevokedUsesWereInFlight
  <2>2. CASE c = d
    <3>1. revoked'[c] <= revoked[c] + 1 /\ revoked'[c] \in Nat
      BY <1>5, <1>9
    <3>2. Cardinality(Under(c)') = Cardinality(Under(c)) - 1
      BY <1>8, <2>2
    <3>3. Cardinality(Under(c)) \in Nat
      BY UnderFacts
    <3>4. revoked[c] \in Nat /\ inFlight[c] \in Nat
      BY <1>9
    <3>5. \A r, s, n, f, u \in Nat :
            s <= r + 1 /\ r + n <= f /\ u = n - 1 => s + u <= f
      OBVIOUS
    <3>6. Cardinality(Under(c)') \in Nat
      BY UnderFacts
    <3> QED
      BY <2>1, <3>1, <3>2, <3>3, <3>4, <3>5, <3>6
  <2>3. CASE c # d
    BY <1>5, <1>7, <1>9, <2>1, <2>3
  <2> QED
    BY <2>2, <2>3
<1>12. RevokedUsesWereInFlight'
  BY <1>1, <1>11 DEF RevokedUsesWereInFlight
<1> QED
  BY <1>10, <1>12 DEF Counted

\* The account's other requests name the connection of the moment.
LEMMA ClientCounts ==
  ASSUME Inv, Counted, NEW k \in Client,
         \/ ReadForStore(k) \/ StoreCredential(k)
         \/ \E r \in Risks : ReadForRequest(k, r)
         \/ \E a \in Action : Request(k, a)
         \/ \E a \in Action, v \in {"approved", "denied"} : ReadForDecision(k, a, v)
         \/ Decide(k)
  PROVE  Counted'
<1> USE DEF connVars, rowVars, workerVars, pastVars
<1>1. client \in [Client -> Writes] /\ link \in [Action -> 0 .. MaxConns]
      /\ \A w \in Worker : at[w] \in Prepares => job[w] \in Action
  BY UnderHasAction DEF Inv, TypeOK
<1>2. ASSUME NEW v, Reads(k, v), v.op \notin {"request", "store"} \/ v.conn = conn PROVE Counted'
  <2>1. conn <= made
    BY DEF Counted, ConnsAreCounted
  <2>2. \A j \in Client : client'[j] = client[j] \/ client'[j] = v
    BY <1>1, <1>2 DEF Reads
  <2> QED
    BY <1>2, <2>1, <2>2, CountedStays DEF Reads
<1>3. CASE ReadForStore(k)
  BY <1>2, <1>3 DEF ReadForStore
<1>4. ASSUME NEW r \in Risks, ReadForRequest(k, r) PROVE Counted'
  BY <1>2, <1>4 DEF ReadForRequest
<1>5. ASSUME NEW a \in Action, NEW v \in {"approved", "denied"}, ReadForDecision(k, a, v)
      PROVE  Counted'
  BY <1>2, <1>5 DEF ReadForDecision
<1>6. CASE StoreCredential(k) \/ Decide(k)
  <2>1. \A j \in Client : client'[j] = client[j] \/ client'[j].op = "none"
    BY <1>1, <1>6 DEF StoreCredential, Decide, Quiet
  <2>2. UNCHANGED <<revoked, inFlight, conn, made, link, at, job>>
    BY <1>6 DEF StoreCredential, Decide
  <2> QED
    BY <2>1, <2>2, CountedStays
<1>7. ASSUME NEW a \in Action, Request(k, a) PROVE Counted'
  <2>1. \A j \in Client : client'[j] = client[j] \/ client'[j].op = "none"
    BY <1>1, <1>7 DEF Request, Quiet
  <2>2. /\ UNCHANGED <<revoked, inFlight, conn, made, at, job>>
        /\ link' = [link EXCEPT ![a] = client[k].conn]
        /\ client[k].conn <= made /\ status[a] = "absent"
    BY <1>7 DEF Request, Counted, ConnsAreCounted
  <2>3. \A w \in Worker : at[w] \in Prepares => job[w] # a
    BY <2>2 DEF Inv, WorkersHaveJobs, Undecidable, Prepares
  <2> QED
    BY <1>1, <2>1, <2>2, <2>3, CountedStays
<1> QED
  BY <1>3, <1>4, <1>5, <1>6, <1>7

\* A worker comes under way only on the connection it finds.
LEMMA WorkerCounts ==
  ASSUME Inv, Counted, NEW w \in Worker, RunOnce(w) \/ Crash(w) \/ Restart(w)
  PROVE  Counted'
<1> USE DEF connVars, rowVars, pastVars, Prepares
<1>1. at \in [Worker -> Places] /\ job \in [Worker -> 0 .. MaxActions]
  BY DEF Inv, TypeOK
<1>2. CASE Claim(w)
  BY <1>1, <1>2, CountedStays DEF Claim, Goes
<1>3. CASE LookUp(w)
  BY <1>1, <1>3, CountedStays DEF LookUp, Goes
<1>4. CASE Load(w)
  BY <1>1, <1>4, CountedStays DEF Load, Goes
<1>5. ASSUME NEW p \in Places, Refresh(w, p) PROVE Counted'
  BY <1>1, <1>5, CountedStays DEF Refresh, Goes
<1>6. CASE ReadForRefresh(w)
  BY <1>1, <1>6, CountedStays DEF ReadForRefresh, Goes
<1>7. CASE StoreRefreshed(w)
  BY <1>1, <1>7, CountedStays DEF StoreRefreshed, Goes
<1>8. CASE Complete(w)
  BY <1>1, <1>8, CountedStays DEF Complete, Leaves, Goes
<1>9. CASE Fail(w)
  BY <1>1, <1>9, CountedStays DEF Fail, Leaves, Goes
<1>10. CASE Crash(w) \/ Restart(w)
  BY <1>1, <1>10, CountedStays DEF Crash, Restart, Leaves, Goes
<1> QED
  BY <1>2, <1>3, <1>4, <1>5, <1>6, <1>7, <1>8, <1>9, <1>10, CallCounts DEF RunOnce

\* Every step of Next keeps the count.
LEMMA NextCounts ==
  ASSUME Inv, Counted, [Next]_vars
  PROVE  Counted'
<1> USE DEF connVars, rowVars, workerVars, pastVars
<1>1. CASE UNCHANGED vars
  BY <1>1, CountedStays DEF vars
<1>2. CASE Account
  BY <1>2, ConfigureCounts, DisconnectCounts, ClientCounts DEF Account
<1>3. ASSUME NEW w \in Worker, RunOnce(w) \/ Crash(w) \/ Restart(w) PROVE Counted'
  BY <1>3, WorkerCounts
<1>4. ASSUME NEW a \in Action, Lapse(a) PROVE Counted'
  BY <1>4, CountedStays DEF Lapse
<1> QED
  BY <1>1, <1>2, <1>3, <1>4 DEF Next

\* Disconnecting an account revokes it for every call but those that had looked the
\* connection up before (store.py:1516), each of which uses it once.
THEOREM RevokedConnectionsEnd == Spec => []RevokedUsesWereInFlight
<1>1. Init => Counted
  BY Bounds DEF Init, Counted, ConnsAreCounted, RevokedUsesWereInFlight, Conn, Quiet, Zero
<1>2. Inv /\ Counted /\ [Next]_vars => Counted'
  BY NextCounts
<1>3. Counted => RevokedUsesWereInFlight
  BY DEF Counted
<1> QED
  BY <1>1, <1>2, <1>3, InvHolds, PTL DEF Spec

-----------------------------------------------------------------------------
(* What became of an action *)

\* What OnlyDecisionsReopen says of one action and one step.
Settled(a) == status[a] \in {"blocked", "draft", "completed", "failed", "denied"}
Decided(a) ==
  \E k \in Client : /\ client[k].op = "decide" /\ client[k].action = a
                    /\ client[k].verdict = status'[a]
                    /\ status[a] \notin {"blocked", "draft"}

\* Claims take what is queued, reports what is running, decisions what was up for one.
LEMMA NextSettles ==
  ASSUME Inv, [Next]_vars
  PROVE  \A a \in Action : Settled(a) => status'[a] = status[a] \/ Decided(a)
<1> USE DEF rowVars
<1>1. CASE UNCHANGED status
  BY <1>1
<1>2. ASSUME NEW k \in Client, Decide(k)
      PROVE  \A a \in Action : Settled(a) => status'[a] = status[a] \/ Decided(a)
  <2>1. /\ client[k].op = "decide" /\ client[k].action \in Action
        /\ status[client[k].action] \notin {"blocked", "draft"}
    BY <1>2, ClientFacts DEF Decide, Inv, DecidableIsPermitted, Undecidable
  <2>2. status' = [status EXCEPT ![client[k].action] = client[k].verdict]
    BY <1>2 DEF Decide
  <2> QED
    BY <2>1, <2>2 DEF Decided, Inv, TypeOK
<1>3. ASSUME NEW k \in Client, NEW b \in Action, Request(k, b)
      PROVE  \A a \in Action : Settled(a) => status'[a] = status[a] \/ Decided(a)
  BY <1>3 DEF Request, Settled, Inv, TypeOK
<1>4. CASE Account
  BY <1>1, <1>2, <1>3, <1>4 DEF Account, Configure, Disconnect, ReadForStore, StoreCredential,
         ReadForRequest, ReadForDecision, Reads
<1>5. ASSUME NEW w \in Worker, Claim(w)
      PROVE  \A a \in Action : Settled(a) => status'[a] = status[a] \/ Decided(a)
  BY <1>5 DEF Claim, Queued, Lapsed, Settled
<1>6. ASSUME NEW w \in Worker, Complete(w) \/ Fail(w)
      PROVE  \A a \in Action : Settled(a) => status'[a] = status[a] \/ Decided(a)
  BY <1>6 DEF Complete, Fail, Leased, Outcome, Settled, Inv, TypeOK
<1>7. ASSUME NEW w \in Worker, RunOnce(w) \/ Crash(w) \/ Restart(w)
      PROVE  \A a \in Action : Settled(a) => status'[a] = status[a] \/ Decided(a)
  BY <1>1, <1>5, <1>6, <1>7 DEF RunOnce, LookUp, Load, Refresh, ReadForRefresh, StoreRefreshed,
         Call, Crash, Restart
<1>8. ASSUME NEW b \in Action, Lapse(b)
      PROVE  \A a \in Action : Settled(a) => status'[a] = status[a] \/ Decided(a)
  BY <1>1, <1>8 DEF Lapse
<1> QED
  BY <1>1, <1>4, <1>7, <1>8 DEF Next, vars

\* OnlyDecisionsReopen: no claim, recovery or report changes what became of an action
\* (claim, complete and fail test the row they write); decide_integration_action alone
\* may, since it names the row only (store.py:1584).
THEOREM OutcomesStandUntilDecided == Spec => OnlyDecisionsReopen
<1>1. ASSUME Inv, [Next]_vars
      PROVE  \A a \in Action :
               status[a] \in {"blocked", "draft", "completed", "failed", "denied"} =>
                 \/ status'[a] = status[a]
                 \/ \E k \in Client : /\ client[k].op = "decide" /\ client[k].action = a
                                     /\ client[k].verdict = status'[a]
                                     /\ status[a] \notin {"blocked", "draft"}
  BY <1>1, NextSettles DEF Settled, Decided
<1> QED
  BY <1>1, InvHolds, PTL DEF Spec, OnlyDecisionsReopen
=============================================================================
