-------------------------- MODULE IntegrationActions --------------------------
(***************************************************************************)
(* The approved calls of one account to one external provider: the         *)
(* connection, its credential and the action log of                        *)
(* src/src/smara/store.py (PostgreSQL in every deployment), and the        *)
(* processes of integration_worker.py that perform the actions.            *)
(*                                                                         *)
(* Providers and accounts share no row, so one is modelled.  An action is  *)
(* one database transaction or one call to the provider.  A method that    *)
(* reads before it writes is two actions: READ COMMITTED lets other        *)
(* transactions in between; complete and fail, whose two statements follow *)
(* each other at once, are one.  All workers carry the same worker id.     *)
(***************************************************************************)
EXTENDS Integers, FiniteSets

CONSTANTS
  Client,        \* requests of the API that may be under way at once
  Worker,        \* integration_worker processes; the container restarts them
  Policies,      \* policies that a connection may be given
  MaxActions,    \* bound: rows of the action log
  MaxConns,      \* bound: connections made
  MaxAttempts,   \* integration_action_log.max_attempts
  MaxCrashes,    \* bound: workers killed
  MaxOverruns    \* bound: leases that run out under a live worker

Action == 1 .. MaxActions  \* numbered as inserted, the order of created_at
Conn   == 1 .. MaxConns    \* numbered as made; 0 is no connection
Risks  == {"read", "external"}

ASSUME IntegrationAssumption ==
  /\ Policies \subseteq {"blocked", "observe", "draft", "assisted", "trusted"}
  /\ IsFiniteSet(Worker)
  /\ {MaxActions, MaxConns, MaxAttempts, MaxCrashes, MaxOverruns} \subseteq Nat

VARIABLES
  conn, made,  \* the connection of the account, and how many there have been
  policy,      \* integration_connections.policy
  secret,      \* integration_credentials: whose grant is stored for it
  status,      \* integration_action_log.status, "absent" before the request
  risk, link,  \* its risk and its connection
  overdue,     \* its lease has run out
  attempts,
  client,      \* what a request of the API read before it writes
  at, job,     \* where a worker is, and its action
  held,        \* the grant it holds in memory
  target,      \* the connection it will store a refreshed grant for
  crashes, overruns,
  asked,       \* history: the policy the action was requested under
  approvals,   \* history: approvals recorded for the action
  recovered,   \* history: times it was queued again after its lease
  acts,        \* history: times the provider performed it
  inFlight,    \* history: calls under way when a connection was removed
  revoked      \* history: calls that used a removed connection

rowVars    == <<status, risk, link, overdue, attempts>>
connVars   == <<conn, made, policy>>
workerVars == <<at, job, held, target>>
boundVars  == <<crashes, overruns>>
pastVars   == <<asked, approvals, recovered, acts, inFlight, revoked>>
vars == <<connVars, secret, rowVars, client, workerVars, boundVars, pastVars>>

Statuses == {"absent", "blocked", "draft", "awaiting_approval", "approved",
             "denied", "running", "completed", "failed"}
\* From the claim to the call: the connection, its secret, the refresh.
Prepares == {"looked", "loaded", "refreshed", "storing", "ready"}
Places   == Prepares \cup {"idle", "claimed", "ok", "error", "transient", "gone"}

Quiet == [op |-> "none"]
Writes ==
  {Quiet} \cup [op : {"request"}, conn : Conn, policy : Policies, risk : Risks]
          \cup [op : {"decide"}, action : Action, verdict : {"approved", "denied"}]
          \cup [op : {"store"}, conn : Conn]

TypeOK ==
  /\ conn \in 0 .. MaxConns /\ made \in 0 .. MaxConns
  /\ policy \in Policies \cup {"none"} /\ secret \in [Conn -> 0 .. MaxConns]
  /\ status \in [Action -> Statuses] /\ risk \in [Action -> Risks]
  /\ link \in [Action -> 0 .. MaxConns] /\ overdue \in [Action -> BOOLEAN]
  /\ attempts \in [Action -> Nat]
  /\ client \in [Client -> Writes]
  /\ at \in [Worker -> Places] /\ job \in [Worker -> 0 .. MaxActions]
  /\ held \in [Worker -> 0 .. MaxConns] /\ target \in [Worker -> 0 .. MaxConns]
  /\ crashes \in 0 .. MaxCrashes /\ overruns \in 0 .. MaxOverruns
  /\ asked \in [Action -> Policies \cup {"none"}] /\ approvals \in [Action -> Nat]
  /\ recovered \in [Action -> Nat] /\ acts \in [Action -> Nat]
  /\ inFlight \in [Conn -> Nat] /\ revoked \in [Conn -> Nat]

Zero == [a \in Action |-> 0]

Init ==
  /\ conn = 0 /\ made = 0 /\ policy = "none" /\ secret = [c \in Conn |-> 0]
  /\ status = [a \in Action |-> "absent"] /\ risk = [a \in Action |-> "read"]
  /\ link = Zero /\ overdue = [a \in Action |-> FALSE] /\ attempts = Zero
  /\ client = [k \in Client |-> Quiet]
  /\ at = [w \in Worker |-> "idle"] /\ job = [w \in Worker |-> 0]
  /\ held = [w \in Worker |-> 0] /\ target = [w \in Worker |-> 0]
  /\ crashes = 0 /\ overruns = 0
  /\ asked = [a \in Action |-> "none"] /\ approvals = Zero
  /\ recovered = Zero /\ acts = Zero
  /\ inFlight = [c \in Conn |-> 0] /\ revoked = [c \in Conn |-> 0]

\* Calls that have looked up connection c and not yet made their request.
Under(c) == {w \in Worker : at[w] \in Prepares /\ link[job[w]] = c}

-----------------------------------------------------------------------------
(* The account's requests *)

\* PUT /v1/integrations/{provider}: a second one keeps the connection.
Configure(p) ==
  /\ \/ conn # 0 /\ UNCHANGED <<conn, made>>
     \/ conn = 0 /\ made < MaxConns /\ conn' = made + 1 /\ made' = made + 1
  /\ policy' = p
  /\ UNCHANGED <<secret, rowVars, client, workerVars, boundVars, pastVars>>

\* The connection and its credential are deleted together.
Disconnect ==
  /\ conn # 0 /\ conn' = 0 /\ policy' = "none"
  /\ secret' = [secret EXCEPT ![conn] = 0]
  /\ inFlight' = [inFlight EXCEPT ![conn] = Cardinality(Under(conn))]
  /\ UNCHANGED <<made, rowVars, client, workerVars, boundVars,
                 asked, approvals, recovered, acts, revoked>>

\* The first half of a method: what it reads (v).
Reads(k, v) ==
  /\ client[k] = Quiet /\ client' = [client EXCEPT ![k] = v]
  /\ UNCHANGED <<connVars, secret, rowVars, workerVars, boundVars, pastVars>>

ReadForStore(k) == conn # 0 /\ Reads(k, [op |-> "store", conn |-> conn])

\* store_integration_credential writes for the connection it read.
StoreCredential(k) ==
  /\ client[k].op = "store" /\ client' = [client EXCEPT ![k] = Quiet]
  /\ secret' = [secret EXCEPT ![client[k].conn] = client[k].conn]
  /\ UNCHANGED <<connVars, rowVars, workerVars, boundVars, pastVars>>

\* Mutant: a policy that only observes is forgotten.
FirstStatusTrusting(p, r) == IF r = "external" THEN "awaiting_approval" ELSE "draft"

\* What the policy and the registry's risk make of a request.
FirstStatus(p, r) ==
  CASE p = "blocked" \/ (p = "observe" /\ r = "external") -> "blocked"
    [] p # "blocked" /\ r = "read" -> "draft"
    [] p = "draft" /\ r = "external" -> "draft"
    [] OTHER -> "awaiting_approval"

ReadForRequest(k, r) ==
  /\ conn # 0 /\ \E a \in Action : status[a] = "absent"
  /\ Reads(k, [op |-> "request", conn |-> conn, policy |-> policy, risk |-> r])

\* The row is inserted once per idempotency key: an action is a key.
Request(k, a) ==
  /\ client[k].op = "request" /\ client' = [client EXCEPT ![k] = Quiet]
  /\ status[a] = "absent" /\ \A b \in Action : b < a => status[b] # "absent"
  /\ status' = [status EXCEPT ![a] = FirstStatus(client[k].policy, client[k].risk)]
  /\ risk' = [risk EXCEPT ![a] = client[k].risk]
  /\ link' = [link EXCEPT ![a] = client[k].conn]
  /\ asked' = [asked EXCEPT ![a] = client[k].policy]
  /\ UNCHANGED <<connVars, secret, overdue, attempts, workerVars, boundVars,
                 approvals, recovered, acts, inFlight, revoked>>

ReadForDecision(k, a, v) ==
  /\ status[a] = "awaiting_approval"
  /\ Reads(k, [op |-> "decide", action |-> a, verdict |-> v])

\* The update names the row only, whatever became of it since the read.
Decide(k) ==
  /\ client[k].op = "decide" /\ client' = [client EXCEPT ![k] = Quiet]
  /\ LET a == client[k].action IN
       /\ status' = [status EXCEPT ![a] = client[k].verdict]
       /\ approvals' = [approvals EXCEPT ![a] =
                          IF client[k].verdict = "approved" THEN @ + 1 ELSE @]
  /\ UNCHANGED <<connVars, secret, risk, link, overdue, attempts, workerVars, boundVars,
                 asked, recovered, acts, inFlight, revoked>>

-----------------------------------------------------------------------------
(* A worker: run_once *)

Goes(w, p) == at' = [at EXCEPT ![w] = p]

\* run_once returns, or its process ends: its locals are gone.
Leaves(w, p) ==
  /\ Goes(w, p)
  /\ job' = [job EXCEPT ![w] = 0] /\ held' = [held EXCEPT ![w] = 0]

\* Mutant: an action whose worker is gone stays its own.
LapsedNever == {}

\* Running actions that a claim queues again.
Lapsed == {a \in Action : status[a] = "running" /\ overdue[a]}
Queued == {a \in Action : status[a] = "approved"} \cup Lapsed

\* claim_integration_action: leases that ran out are queued again, whatever the
\* action does, and the oldest queued action is leased.
Claim(w) ==
  /\ at[w] = "idle"
  /\ \E a \in Queued :
       /\ \A b \in Queued : a <= b
       /\ status' = [b \in Action |-> IF b = a THEN "running"
                                      ELSE IF b \in Lapsed THEN "approved" ELSE status[b]]
       /\ attempts' = [attempts EXCEPT ![a] = @ + 1]
       /\ job' = [job EXCEPT ![w] = a]
  /\ overdue' = [b \in Action |-> FALSE]
  /\ recovered' = [b \in Action |-> IF b \in Lapsed THEN recovered[b] + 1 ELSE recovered[b]]
  /\ Goes(w, "claimed")
  /\ UNCHANGED <<connVars, secret, risk, link, client, held, target, boundVars,
                 asked, approvals, acts, inFlight, revoked>>

\* Mutant: the connection of the action is not read.
LookUpNothing(w) ==
  /\ at[w] = "claimed" /\ Goes(w, "looked")
  /\ UNCHANGED <<connVars, secret, rowVars, client, job, held, target, boundVars, pastVars>>

\* integration_by_id.
LookUp(w) ==
  /\ at[w] = "claimed"
  /\ Goes(w, IF conn = link[job[w]] THEN "looked" ELSE "error")
  /\ UNCHANGED <<connVars, secret, rowVars, client, job, held, target, boundVars, pastVars>>

\* encrypted_integration_credential.
Load(w) ==
  /\ at[w] = "looked"
  /\ LET s == secret[link[job[w]]] IN
       IF s = 0 THEN Goes(w, "error") /\ UNCHANGED held
       ELSE Goes(w, "loaded") /\ held' = [held EXCEPT ![w] = s]
  /\ UNCHANGED <<connVars, secret, rowVars, client, job, target, boundVars, pastVars>>

\* A token that is still good is used; one that is not is refreshed first.
Refresh(w, p) ==
  /\ at[w] = "loaded" /\ p \in {"ready", "refreshed", "error", "transient"} /\ Goes(w, p)
  /\ UNCHANGED <<connVars, secret, rowVars, client, job, held, target, boundVars, pastVars>>

\* store_integration_credential looks for the connection the provider has now...
ReadForRefresh(w) ==
  /\ at[w] = "refreshed"
  /\ IF conn = 0 THEN Goes(w, "error") /\ UNCHANGED target
     ELSE Goes(w, "storing") /\ target' = [target EXCEPT ![w] = conn]
  /\ UNCHANGED <<connVars, secret, rowVars, client, job, held, boundVars, pastVars>>

\* ...and stores the refreshed grant for it.
StoreRefreshed(w) ==
  /\ at[w] = "storing" /\ Goes(w, "ready")
  /\ secret' = [secret EXCEPT ![target[w]] = held[w]]
  /\ target' = [target EXCEPT ![w] = 0]
  /\ UNCHANGED <<connVars, rowVars, client, job, held, boundVars, pastVars>>

\* The call to the provider: accepted, refused, or lost with its answer.
Call(w, p, performed) ==
  /\ at[w] = "ready" /\ p \in {"ok", "error", "transient"} /\ Goes(w, p)
  /\ held' = [held EXCEPT ![w] = 0]
  /\ p = "ok" => performed
  /\ IF performed
     THEN LET c == link[job[w]] IN
            /\ acts' = [acts EXCEPT ![job[w]] = @ + 1]
            /\ revoked' = IF c = conn THEN revoked ELSE [revoked EXCEPT ![c] = @ + 1]
     ELSE UNCHANGED <<acts, revoked>>
  /\ UNCHANGED <<connVars, secret, rowVars, client, job, target, boundVars,
                 asked, approvals, recovered, inFlight>>

\* The worker's row while it is leased to the id that all workers share.
Leased(w) == status[job[w]] = "running"

Outcome(w, s) ==
  /\ status' = [status EXCEPT ![job[w]] = s]
  /\ overdue' = [overdue EXCEPT ![job[w]] = FALSE]

\* complete_integration_action; a lost lease is an error of the call.
Complete(w) ==
  /\ at[w] = "ok"
  /\ IF Leased(w) THEN Leaves(w, "idle") /\ Outcome(w, "completed")
                  ELSE Goes(w, "error") /\ UNCHANGED <<job, held, status, overdue>>
  /\ UNCHANGED <<connVars, secret, risk, link, attempts, client, target, boundVars, pastVars>>

\* Mutant: every call that failed in transit is tried again.
RetriesAny(w) == at[w] = "transient" /\ attempts[job[w]] < MaxAttempts

\* A call that failed in transit is tried again only if it reads.
Retries(w) ==
  at[w] = "transient" /\ risk[job[w]] = "read" /\ attempts[job[w]] < MaxAttempts

\* Mutant: the failure is recorded with complete_integration_action and no text.
FailAsResult(w) ==
  /\ at[w] \in {"error", "transient"}
  /\ IF Leased(w) THEN Leaves(w, "idle") /\ Outcome(w, "completed")
                  ELSE Leaves(w, "gone") /\ UNCHANGED <<status, overdue>>
  /\ UNCHANGED <<connVars, secret, risk, link, attempts, client, target, boundVars, pastVars>>

\* fail_integration_action; with a lost lease its KeyError ends the process.
Fail(w) ==
  /\ at[w] \in {"error", "transient"}
  /\ IF Leased(w)
     THEN Leaves(w, "idle") /\ Outcome(w, IF Retries(w) THEN "approved" ELSE "failed")
     ELSE Leaves(w, "gone") /\ UNCHANGED <<status, overdue>>
  /\ UNCHANGED <<connVars, secret, risk, link, attempts, client, target, boundVars, pastVars>>

-----------------------------------------------------------------------------
(* Processes and time *)

Crash(w) ==
  /\ at[w] # "gone" /\ Leaves(w, "gone") /\ target' = [target EXCEPT ![w] = 0]
  /\ crashes < MaxCrashes /\ crashes' = crashes + 1
  /\ UNCHANGED <<connVars, secret, rowVars, client, overruns, pastVars>>

\* restart: unless-stopped.
Restart(w) ==
  /\ at[w] = "gone" /\ Goes(w, "idle")
  /\ UNCHANGED <<connVars, secret, rowVars, client, job, held, target, boundVars, pastVars>>

Working(a) == \E w \in Worker : job[w] = a

\* 60 s pass; the timeouts of the refresh and of the call, 20 s each, make that
\* an exception while a worker is at it.
Lapse(a) ==
  /\ status[a] = "running" /\ ~overdue[a]
  /\ overdue' = [overdue EXCEPT ![a] = TRUE]
  /\ IF Working(a) THEN overruns < MaxOverruns /\ overruns' = overruns + 1
                   ELSE UNCHANGED overruns
  /\ UNCHANGED <<connVars, secret, status, risk, link, attempts, client, workerVars,
                 crashes, pastVars>>

-----------------------------------------------------------------------------

RunOnce(w) ==
  \/ Claim(w) \/ LookUp(w) \/ Load(w)
  \/ \E p \in Places : Refresh(w, p)
  \/ ReadForRefresh(w) \/ StoreRefreshed(w)
  \/ \E p \in Places, performed \in BOOLEAN : Call(w, p, performed)
  \/ Complete(w) \/ Fail(w)

Account ==
  \/ \E p \in Policies : Configure(p)
  \/ Disconnect
  \/ \E k \in Client :
       \/ ReadForStore(k) \/ StoreCredential(k)
       \/ \E r \in Risks : ReadForRequest(k, r)
       \/ \E a \in Action : Request(k, a)
       \/ \E a \in Action, v \in {"approved", "denied"} : ReadForDecision(k, a, v)
       \/ Decide(k)

Next ==
  \/ Account
  \/ \E w \in Worker : RunOnce(w) \/ Crash(w) \/ Restart(w)
  \/ \E a \in Action : Lapse(a)

Spec == Init /\ [][Next]_vars

\* Workers loop and are restarted; the lease of an action nobody works on runs
\* out.  No request of the account has to come.
FairSpec ==
  /\ Spec
  /\ \A w \in Worker : WF_vars(RunOnce(w)) /\ WF_vars(Restart(w))
  /\ \A a \in Action : WF_vars(~Working(a) /\ Lapse(a))

-----------------------------------------------------------------------------
(* Properties *)

\* store.py:1525 request_integration_action ("The registry, not the caller,
\* classifies..."): what reaches the provider is a write that the policy at its
\* request let be asked for and that somebody approved, whatever decisions
\* raced with it and however the policy changed since.
WritesAreApproved ==
  \A a \in Action : acts[a] > 0 =>
    /\ risk[a] = "external" /\ asked[a] \notin {"blocked", "observe", "draft"}
    /\ approvals[a] > 0

\* store.py:1624: no retry repeats a write.  Each performance is paid for by an
\* approval or by a lease that ran out.
EffectsAreAccounted ==
  \A a \in Action : acts[a] <= approvals[a] + recovered[a]

\* A completed action was performed, also when the worker that reports it has
\* lost its lease to another with the same id.
CompletedWasPerformed ==
  \A a \in Action : status[a] = "completed" => acts[a] > 0

\* What became of an action stands against late workers, lapsed leases and their
\* recovery; only a decision that was read before another one overwrites it.
OnlyDecisionsReopen ==
  [][\A a \in Action :
       status[a] \in {"blocked", "draft", "completed", "failed", "denied"} =>
         \/ status'[a] = status[a]
         \/ \E k \in Client : /\ client[k].op = "decide" /\ client[k].action = a
                             /\ client[k].verdict = status'[a]
                             /\ status[a] \notin {"blocked", "draft"}]_vars

\* The parts of the inductive invariant that the three properties above rest on.
Undecidable == {"absent", "blocked", "draft"}
Permitted(a) == risk[a] = "external" /\ asked[a] \notin {"blocked", "observe", "draft"}

\* A connection has a policy, and a row that was inserted has a connection.
PolicyIsSet == conn # 0 => policy \in Policies
LinkIsConn == \A a \in Action : status[a] # "absent" => link[a] \in Conn

\* What was ever up for a decision, or is being decided, may be asked for.
DecidableIsPermitted ==
  /\ \A a \in Action : status[a] \notin Undecidable => Permitted(a)
  /\ \A k \in Client : client[k].op = "decide" => status[client[k].action] \notin Undecidable

WorkersHaveJobs ==
  \A w \in Worker :
    /\ at[w] \in {"idle", "gone"} <=> job[w] = 0
    /\ at[w] = "storing" => target[w] # 0
    /\ at[w] = "ok" => acts[job[w]] > 0
    /\ job[w] # 0 => status[job[w]] \notin Undecidable

\* An attempt is an approval or a lapsed lease that has been used up...
AttemptsAreAccounted ==
  \A a \in Action :
    attempts[a] + (IF status[a] = "approved" THEN 1 ELSE 0) <= approvals[a] + recovered[a]

\* ...and each performance an attempt, whose worker has then made its call.
Uncalled(a) == {w \in Worker : job[w] = a /\ at[w] \in Prepares \cup {"claimed"}}
ActsAreAttempts == \A a \in Action : acts[a] + Cardinality(Uncalled(a)) <= attempts[a]

ApprovedIsRecorded ==
  \A a \in Action :
    /\ status[a] \in {"approved", "running"} => approvals[a] > 0
    /\ attempts[a] > 0 => approvals[a] > 0 /\ status[a] \notin Undecidable

Inv ==
  /\ TypeOK
  /\ PolicyIsSet
  /\ LinkIsConn
  /\ DecidableIsPermitted
  /\ WorkersHaveJobs
  /\ AttemptsAreAccounted
  /\ ActsAreAttempts
  /\ ApprovedIsRecorded
  /\ CompletedWasPerformed

\* store.py:1516 disconnect_integration: only calls that were under way when a
\* connection was removed can still use it, each once.
RevokedUsesWereInFlight ==
  \A c \in Conn : c # conn /\ c <= made =>
    revoked[c] + Cardinality(Under(c)) <= inFlight[c]

\* What it rests on: connections are numbered as they are made, and no call counts
\* as a use of a removed connection before the removal.
ConnsAreCounted ==
  /\ conn <= made
  /\ \A a \in Action : link[a] <= made
  /\ \A k \in Client : client[k].op \in {"request", "store"} => client[k].conn <= made
  /\ \A c \in Conn : c = conn \/ c > made => revoked[c] = 0

\* An approved action is not forgotten: it ends, whatever its worker meets.
ApprovedEnds ==
  \A a \in Action :
    status[a] = "approved" ~> status[a] \in {"completed", "failed", "denied"}
=============================================================================
