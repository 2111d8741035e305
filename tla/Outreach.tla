------------------------------- MODULE Outreach -------------------------------
(***************************************************************************)
(* Reviewed e-mail of the desktop (native_outreach.py): drafts, their      *)
(* editing, the one dispatch of each, its reconciliation with Gmail's Sent *)
(* folder, and the Gmail connection it uses (native_mail_oauth.py).        *)
(* Several processes work on one SQLite file: the window, the command line *)
(* and the agent's draft tool.  A draft stands for its project and its     *)
(* recipient, which the unique index of the table identifies it by.        *)
(***************************************************************************)
EXTENDS Integers, FiniteSets, Sequences

CONSTANTS
  None,
  Draft,        \* the rows there can be: one for each project and recipient
  Revision,     \* contents, told apart by their content_hash
  Sender,       \* Gmail accounts
  Proc,         \* processes that send or reconcile
  Settings,     \* saved outreach settings: [enabled, client, cohort, limit]
  MaxLimit,     \* the largest daily_limit among them
  MaxGrants     \* bound on started connections

ASSUME BoundsAreNaturals == MaxLimit \in Nat /\ MaxGrants \in Nat
ASSUME SettingsAreValid ==
  \A o \in Settings : o.enabled \in BOOLEAN /\ o.limit \in 0..MaxLimit /\ o.cohort \subseteq Draft
ASSUME DraftsAreFinite == IsFiniteSet(Draft)
ASSUME NoneIsNone == None \notin Sender \cup Revision \cup Int

Grant  == 1..MaxGrants
States == {"none", "draft", "sending", "unknown", "accepted", "failed", "sent_verified", "suppressed"}
Ages   == {"never", "fresh", "stale", "old"}
Points == {"idle", "checked", "reserved", "ready", "answered", "looking", "asking", "found"}
Health == [state : {"none", "connecting", "connected", "failed", "disconnected"}, gen : 0..MaxGrants]

VARIABLES
  state, content, account,   \* the row: state, content_hash and sender_hash
  age,          \* attempted: "stale" after 120 s, "old" after 24 hours
  settings,     \* native-settings.json
  vault,        \* the stored credential: the connection it came from, or None
  health,       \* native-mail-connection.json; generation 0 belongs to no helper
  grants,       \* connections started so far
  helper,       \* the connection helpers
  clientOf, accountOf,       \* what a helper's authorization is for
  pc, at, seen, cred, cap, answer,   \* a process: its row, the content it read, the
                                     \* credential, the daily limit, Gmail's answer
  mail,         \* what was posted to Gmail for a row
  transit, delivered,        \* a post that Gmail has not handled yet; one it has sent
  stray,        \* a refresh has stored a credential that was no longer the stored one
  revoked       \* the connections started before the last disconnection

rowVars   == <<state, content, account, age>>
oauthVars == <<vault, health, grants, helper, clientOf, accountOf, stray, revoked>>
procVars  == <<pc, at, seen, cred, cap, answer>>
mailVars  == <<mail, transit, delivered>>
vars == <<rowVars, settings, oauthVars, procVars, mailVars>>

Init ==
  /\ state = [d \in Draft |-> "none"]
  /\ content = [d \in Draft |-> None]
  /\ account = [d \in Draft |-> None]
  /\ age = [d \in Draft |-> "never"]
  /\ settings \in Settings
  /\ vault = None
  /\ health = [state |-> "none", gen |-> 0]
  /\ grants = 0
  /\ helper = [g \in Grant |-> "none"]
  /\ clientOf = [g \in Grant |-> None]
  /\ accountOf = [g \in Grant |-> None]
  /\ pc = [p \in Proc |-> "idle"]
  /\ at = [p \in Proc |-> None]
  /\ seen = [p \in Proc |-> None]
  /\ cred = [p \in Proc |-> None]
  /\ cap = [p \in Proc |-> 0]
  /\ answer = [p \in Proc |-> "unknown"]
  /\ mail = [d \in Draft |-> <<>>]
  /\ transit = [d \in Draft |-> FALSE]
  /\ delivered = [d \in Draft |-> FALSE]
  /\ stray = FALSE
  /\ revoked = 0

-----------------------------------------------------------------------------
(* The draft store.  Every operation opens it, and opening it turns a      *)
(* dispatch of more than two minutes ago into an unknown one.              *)

Interrupted(d) == state[d] = "sending" /\ age[d] \in {"stale", "old"}
Swept == [d \in Draft |-> IF Interrupted(d) THEN "unknown" ELSE state[d]]

List == /\ state' = Swept
        /\ UNCHANGED <<content, account, age, settings, oauthVars, procVars, mailVars>>

\* create: a recipient the project has a row for gets no second one.
Create(d, r) ==
  /\ settings.enabled
  /\ state[d] = "none"
  /\ state' = [Swept EXCEPT ![d] = "draft"]
  /\ content' = [content EXCEPT ![d] = r]
  /\ UNCHANGED <<account, age, settings, oauthVars, procVars, mailVars>>

\* edit: the UPDATE repeats the condition of the read before it.
Edit(d, r) ==
  /\ state[d] = "draft"
  /\ state' = Swept
  /\ content' = [content EXCEPT ![d] = r]
  /\ UNCHANGED <<account, age, settings, oauthVars, procVars, mailVars>>

\* Mutant: only a dispatch under way is kept from being suppressed.
SuppressibleUnknown(d) == Swept[d] \notin {"none", "sending"}

Suppressible(d) == Swept[d] \notin {"none", "sending", "unknown"}

Suppress(d) ==
  /\ Suppressible(d)
  /\ state' = [Swept EXCEPT ![d] = "suppressed"]
  /\ UNCHANGED <<content, account, age, settings, oauthVars, procVars, mailVars>>

\* attempted grows older.
Pass(d) ==
  /\ age[d] \in {"fresh", "stale"}
  /\ age' = [age EXCEPT ![d] = IF age[d] = "fresh" THEN "stale" ELSE "old"]
  /\ UNCHANGED <<state, content, account, settings, oauthVars, procVars, mailVars>>

-----------------------------------------------------------------------------
(* send.  The user's review (content r) is compared with the row, and the  *)
(* settings and the account are read, before the transaction.              *)

Leave(p) == /\ pc' = [pc EXCEPT ![p] = "idle"]
            /\ at' = [at EXCEPT ![p] = None]
            /\ seen' = [seen EXCEPT ![p] = None]
            /\ cred' = [cred EXCEPT ![p] = None]
            /\ cap' = [cap EXCEPT ![p] = 0]
            /\ answer' = [answer EXCEPT ![p] = "unknown"]

Check(p, d, r) ==
  /\ pc[p] = "idle"
  /\ state[d] # "none" /\ content[d] = r
  /\ settings.enabled /\ d \in settings.cohort
  /\ vault # None
  /\ state' = Swept
  /\ pc' = [pc EXCEPT ![p] = "checked"]
  /\ at' = [at EXCEPT ![p] = d]
  /\ seen' = [seen EXCEPT ![p] = r]
  /\ cred' = [cred EXCEPT ![p] = vault]
  /\ cap' = [cap EXCEPT ![p] = settings.limit]
  /\ UNCHANGED <<content, account, age, settings, oauthVars, answer, mailVars>>

\* Mutant: only dispatches Gmail has accepted count.
AttemptsAccepted(s) == {d \in Draft : /\ account[d] = s /\ age[d] \in {"fresh", "stale"}
                                     /\ state[d] \in {"accepted", "sent_verified"}}

\* What the account has attempted within a day.
Attempts(s) == {d \in Draft : account[d] = s /\ age[d] \in {"fresh", "stale"}}

\* Mutant: the UPDATE does not name the reviewed content.
AllowedUnreviewed(p) ==
  /\ Cardinality(Attempts(accountOf[cred[p]])) < cap[p]
  /\ state[at[p]] = "draft"

Allowed(p) ==
  /\ Cardinality(Attempts(accountOf[cred[p]])) < cap[p]
  /\ state[at[p]] = "draft" /\ content[at[p]] = seen[p]

\* The transaction that makes the attempt this process's own.
Reserve(p) ==
  /\ pc[p] = "checked" /\ Allowed(p)
  /\ state' = [state EXCEPT ![at[p]] = "sending"]
  /\ age' = [age EXCEPT ![at[p]] = "fresh"]
  /\ account' = [account EXCEPT ![at[p]] = accountOf[cred[p]]]
  /\ pc' = [pc EXCEPT ![p] = "reserved"]
  /\ UNCHANGED <<content, settings, oauthVars, at, seen, cred, cap, answer, mailVars>>

Refused(p) ==
  /\ pc[p] = "checked" /\ ~Allowed(p)
  /\ Leave(p)
  /\ UNCHANGED <<rowVars, settings, oauthVars, mailVars>>

\* access_token: the token still serves, or a refreshed credential is stored over
\* whatever the vault holds by now, or the refresh fails.
NextPoint(p) == IF pc[p] = "reserved" THEN "ready" ELSE "asking"

TokenServes(p) ==
  /\ pc[p] \in {"reserved", "looking"}
  /\ pc' = [pc EXCEPT ![p] = NextPoint(p)]
  /\ UNCHANGED <<rowVars, settings, oauthVars, at, seen, cred, cap, answer, mailVars>>

Refresh(p) ==
  /\ pc[p] \in {"reserved", "looking"}
  /\ vault' = cred[p]
  /\ stray' = (stray \/ vault # cred[p])
  /\ pc' = [pc EXCEPT ![p] = NextPoint(p)]
  /\ UNCHANGED <<rowVars, settings, health, grants, helper, clientOf, accountOf, revoked,
                 at, seen, cred, cap, answer, mailVars>>

RefreshFails(p) ==
  /\ \/ /\ pc[p] = "reserved"
        /\ pc' = [pc EXCEPT ![p] = "answered"]
        /\ answer' = [answer EXCEPT ![p] = "unknown"]
        /\ UNCHANGED <<at, seen, cred, cap>>
     \/ pc[p] = "looking" /\ Leave(p)
  /\ UNCHANGED <<rowVars, settings, oauthVars, mailVars>>

\* Mutant: a transport failure is taken for a rejection.
AnswersHasty(sent, late) == {"failed"} \cup (IF sent THEN {"accepted"} ELSE {})

\* The post to Gmail.  An answer that does not arrive, a 5xx or an unreadable one
\* is "unknown", whether the message was sent, will be, or was lost.
Answers(sent, late) == {"unknown"} \cup (IF sent THEN {"accepted"} ELSE {})
                                   \cup (IF sent \/ late THEN {} ELSE {"failed"})

Post(p) ==
  LET d == at[p] IN
  /\ pc[p] = "ready"
  /\ mail' = [mail EXCEPT ![d] = Append(@, [text |-> seen[p], from |-> accountOf[cred[p]]])]
  /\ \E sent, late \in BOOLEAN :
       /\ ~(sent /\ late)
       /\ delivered' = [delivered EXCEPT ![d] = @ \/ sent]
       /\ transit' = [transit EXCEPT ![d] = @ \/ late]
       /\ \E a \in Answers(sent, late) : answer' = [answer EXCEPT ![p] = a]
  /\ pc' = [pc EXCEPT ![p] = "answered"]
  /\ UNCHANGED <<rowVars, settings, oauthVars, at, seen, cred, cap>>

\* A post that has left reaches Gmail after its client has given up.
Arrive(d) ==
  /\ transit[d]
  /\ transit' = [transit EXCEPT ![d] = FALSE]
  /\ delivered' = [delivered EXCEPT ![d] = TRUE]
  /\ UNCHANGED <<rowVars, settings, oauthVars, procVars, mail>>

\* The outcome is recorded only while the row still says "sending".
Recorded(p) == IF state[at[p]] = "sending" THEN answer[p] ELSE state[at[p]]

Settle(p) ==
  /\ pc[p] = "answered"
  /\ state' = [state EXCEPT ![at[p]] = Recorded(p)]
  /\ Leave(p)
  /\ UNCHANGED <<content, account, age, settings, oauthVars, mailVars>>

Die(p) ==
  /\ pc[p] # "idle"
  /\ Leave(p)
  /\ UNCHANGED <<rowVars, settings, oauthVars, mailVars>>

-----------------------------------------------------------------------------
(* reconcile: a dispatch is proved by its own message in the Sent folder   *)
(* of the account that made it, and by nothing else.                       *)

Dispatched == {"unknown", "accepted", "sent_verified"}

Reconcile(p, d) ==
  /\ pc[p] = "idle"
  /\ vault # None
  /\ Swept[d] \in Dispatched /\ account[d] = accountOf[vault]
  /\ state' = Swept
  /\ pc' = [pc EXCEPT ![p] = "looking"]
  /\ at' = [at EXCEPT ![p] = d]
  /\ cred' = [cred EXCEPT ![p] = vault]
  /\ UNCHANGED <<content, account, age, settings, oauthVars, seen, cap, answer, mailVars>>

\* The search may miss a message that is there.
LookUp(p) ==
  /\ pc[p] = "asking"
  /\ \/ Leave(p)
     \/ /\ delivered[at[p]]
        /\ pc' = [pc EXCEPT ![p] = "found"]
        /\ UNCHANGED <<at, seen, cred, cap, answer>>
  /\ UNCHANGED <<rowVars, settings, oauthVars, mailVars>>

Verified(p) == IF state[at[p]] \in Dispatched THEN "sent_verified" ELSE state[at[p]]

Verify(p) ==
  /\ pc[p] = "found"
  /\ state' = [state EXCEPT ![at[p]] = Verified(p)]
  /\ Leave(p)
  /\ UNCHANGED <<content, account, age, settings, oauthVars, mailVars>>

-----------------------------------------------------------------------------
(* Settings and the Gmail connection.                                      *)

\* save_outreach: another client id drops the stored credential.
Save(o) ==
  /\ settings' = o
  /\ vault' = IF o.client = settings.client THEN vault ELSE None
  /\ UNCHANGED <<rowVars, health, grants, helper, clientOf, accountOf, stray, revoked, procVars, mailVars>>

Disconnect ==
  /\ state' = Swept
  /\ vault' = None
  /\ health' = [state |-> "disconnected", gen |-> 0]
  /\ revoked' = grants
  /\ UNCHANGED <<content, account, age, settings, grants, helper, clientOf, accountOf, stray,
                 procVars, mailVars>>

\* start: a connection that has waited for 200 s is replaced by a new one.
Connect ==
  /\ grants < MaxGrants
  /\ grants' = grants + 1
  /\ state' = Swept
  /\ \/ /\ health' = [state |-> "connecting", gen |-> grants + 1]
        /\ helper' = [helper EXCEPT ![grants + 1] = "started"]
     \/ /\ health' = [state |-> "failed", gen |-> 0]     \* no helper process
        /\ UNCHANGED helper
  /\ UNCHANGED <<content, account, age, settings, vault, clientOf, accountOf, stray, revoked,
                 procVars, mailVars>>

\* A helper that fails says so only while the connection is still its own.
GiveUp(g) ==
  /\ helper' = [helper EXCEPT ![g] = "over"]
  /\ health' = IF health.gen = g THEN [state |-> "failed", gen |-> g] ELSE health

Authorize(g) ==
  /\ helper[g] = "started"
  /\ clientOf' = [clientOf EXCEPT ![g] = settings.client]
  /\ IF health.gen = g
     THEN helper' = [helper EXCEPT ![g] = "consent"] /\ UNCHANGED health
     ELSE GiveUp(g)
  /\ UNCHANGED <<rowVars, settings, vault, grants, accountOf, stray, revoked, procVars, mailVars>>

Consent(g, s) ==
  /\ helper[g] = "consent"
  /\ helper' = [helper EXCEPT ![g] = "granted"]
  /\ accountOf' = [accountOf EXCEPT ![g] = s]
  /\ UNCHANGED <<rowVars, settings, vault, health, grants, clientOf, stray, revoked, procVars, mailVars>>

Deny(g) ==
  /\ helper[g] \in {"consent", "granted"}
  /\ GiveUp(g)
  /\ UNCHANGED <<rowVars, settings, vault, grants, clientOf, accountOf, stray, revoked, procVars, mailVars>>

\* Mutant: the generation is not compared.
IsCurrentClient(g) == clientOf[g] = settings.client

IsCurrent(g) == clientOf[g] = settings.client /\ health.gen = g

\* Under the management lock the grant is stored, or found to be out of date.
Store(g) ==
  /\ helper[g] = "granted"
  /\ IF IsCurrent(g)
     THEN /\ vault' = g
          /\ health' = [state |-> "connected", gen |-> g]
          /\ helper' = [helper EXCEPT ![g] = "over"]
     ELSE GiveUp(g) /\ UNCHANGED vault
  /\ UNCHANGED <<rowVars, settings, grants, clientOf, accountOf, stray, revoked, procVars, mailVars>>

-----------------------------------------------------------------------------
Sending(p) == \/ \E d \in Draft, r \in Revision : Check(p, d, r)
              \/ Reserve(p) \/ Refused(p)
              \/ TokenServes(p) \/ Refresh(p) \/ RefreshFails(p)
              \/ Post(p) \/ Settle(p) \/ Die(p)
              \/ \E d \in Draft : Reconcile(p, d)
              \/ LookUp(p) \/ Verify(p)

Drafting(d) == \/ \E r \in Revision : Create(d, r) \/ Edit(d, r)
               \/ Suppress(d) \/ Pass(d) \/ Arrive(d)

Connecting == \/ \E o \in Settings : Save(o)
              \/ Disconnect \/ Connect
              \/ \E g \in Grant : \/ Authorize(g) \/ Deny(g) \/ Store(g)
                                  \/ \E s \in Sender : Consent(g, s)

Next == \/ \E p \in Proc : Sending(p)
        \/ \E d \in Draft : Drafting(d)
        \/ List \/ Connecting

Spec == Init /\ [][Next]_vars

-----------------------------------------------------------------------------
(* Properties.                                                             *)

TypeOK ==
  /\ state \in [Draft -> States] /\ age \in [Draft -> Ages]
  /\ content \in [Draft -> Revision \cup {None}]
  /\ account \in [Draft -> Sender \cup {None}]
  /\ settings \in Settings
  /\ grants \in 0..MaxGrants /\ revoked \in 0..MaxGrants
  /\ vault \in Grant \cup {None} /\ health \in Health
  /\ helper \in [Grant -> {"none", "started", "consent", "granted", "over"}]
  /\ accountOf \in [Grant -> Sender \cup {None}]
  /\ pc \in [Proc -> Points]
  /\ at \in [Proc -> Draft \cup {None}] /\ seen \in [Proc -> Revision \cup {None}]
  /\ cred \in [Proc -> Grant \cup {None}] /\ cap \in [Proc -> 0..MaxLimit]
  /\ answer \in [Proc -> {"unknown", "accepted", "failed"}]
  /\ mail \in [Draft -> Seq([text : Revision, from : Sender])]
  /\ transit \in [Draft -> BOOLEAN] /\ delivered \in [Draft -> BOOLEAN]
  /\ stray \in BOOLEAN

\* A process between its reservation and the record of its outcome.
Owns(p, d)    == at[p] = d /\ pc[p] \in {"reserved", "ready", "answered"}
MayPost(p, d) == at[p] = d /\ pc[p] \in {"reserved", "ready"}

\* What is posted for a row is what was reviewed: once, with the content the row
\* keeps from then on, from the account the row records - although the read, the
\* reservation, the token and the post are separate steps, and edits, other sends
\* of the same draft and changes of the account fall between them.
PostedOnceAsReviewed ==
  \A d \in Draft : mail[d] \in {<<>>, <<[text |-> content[d], from |-> account[d]]>>}

\* The verdict shown for a dispatch is true: "accepted" and "sent_verified" only for
\* a message Gmail has sent, "failed" only for one that it has not and never will,
\* even when the row became "unknown" under a sender that was still at work.
VerdictsAreTrue ==
  \A d \in Draft :
    /\ state[d] \in {"accepted", "sent_verified"} => delivered[d]
    /\ state[d] = "failed" => /\ ~delivered[d] /\ ~transit[d]
                             /\ \A p \in Proc : ~MayPost(p, d)

\* "Do not contact" is the last word: once a row is suppressed nothing more is posted
\* for it, and nothing posted earlier is still on its way.
SuppressedIsSilent ==
  \A d \in Draft : state[d] = "suppressed" =>
    ~transit[d] /\ \A p \in Proc : ~MayPost(p, d)

\* No account attempts more in a day than the approved daily limit, however many
\* processes send at once, whatever their outcome and whatever is suppressed later.
WithinADay(s) == {d \in Draft : account[d] = s /\ age[d] \in {"fresh", "stale"}}
DailyCap == \A s \in Sender : Cardinality(WithinADay(s)) <= MaxLimit

\* A stored authorization belongs to the selected OAuth client and was started after
\* the last disconnection: a helper that was overtaken stores nothing.  The exception
\* is access_token, which may put back a credential that was removed or replaced.
ConnectionIsCurrent ==
  ~stray /\ vault # None =>
    clientOf[vault] = settings.client /\ vault > revoked

\* A proved dispatch is never taken back by the late answer of its own sender.
VerifiedStays ==
  [][\A d \in Draft : state[d] = "sent_verified" => state'[d] \in {"sent_verified", "suppressed"}]_vars

\* The inductive invariant.
Unsent == \A d \in Draft : state[d] \in {"none", "draft"} =>
            /\ mail[d] = <<>> /\ age[d] = "never" /\ account[d] = None
            /\ ~transit[d] /\ ~delivered[d]
            /\ \A p \in Proc : ~Owns(p, d)
Unborn == \A d \in Draft : state[d] # "none" => content[d] \in Revision
Single == \A d \in Draft : \A p, q \in Proc : Owns(p, d) /\ Owns(q, d) => p = q
Owned  == \A p \in Proc : pc[p] \in {"reserved", "ready", "answered"} =>
            /\ at[p] \in Draft /\ seen[p] = content[at[p]]
            /\ account[at[p]] = accountOf[cred[p]]
Before == \A p \in Proc : pc[p] \in {"reserved", "ready"} =>
            /\ state[at[p]] \in {"sending", "unknown"} /\ mail[at[p]] = <<>>
            /\ ~transit[at[p]] /\ ~delivered[at[p]]
Told   == \A p \in Proc : pc[p] = "answered" =>
            /\ answer[p] = "accepted" => delivered[at[p]]
            /\ answer[p] = "failed" => ~delivered[at[p]] /\ ~transit[at[p]]
Found  == \A p \in Proc : pc[p] = "found" => delivered[at[p]]
Once   == \A d \in Draft : delivered[d] => ~transit[d]
Busy   == \A p \in Proc :
            /\ pc[p] # "idle" => /\ at[p] \in Draft /\ cred[p] \in Grant
                                /\ accountOf[cred[p]] \in Sender /\ helper[cred[p]] = "over"
            /\ pc[p] = "checked" => seen[p] \in Revision /\ state[at[p]] # "none"
Granted == /\ vault # None => (accountOf[vault] \in Sender /\ helper[vault] = "over")
           /\ revoked <= grants /\ health.gen <= grants
           /\ health.gen # 0 => health.gen > revoked
           /\ \A g \in Grant : /\ helper[g] = "granted" => accountOf[g] \in Sender
                               /\ g > grants => helper[g] = "none"

Inv == /\ TypeOK /\ PostedOnceAsReviewed /\ VerdictsAreTrue /\ SuppressedIsSilent
       /\ DailyCap /\ ConnectionIsCurrent
       /\ Unsent /\ Unborn /\ Single /\ Owned /\ Before /\ Told /\ Found /\ Once /\ Busy /\ Granted

-----------------------------------------------------------------------------
(* The table of drafts is a write-ahead journal of the posts to Gmail.  A  *)
(* post acts when Gmail gets it, at once or late; one that is lost never   *)
(* does.                                                                   *)

EntryOf(d) == IF state[d] \in {"none", "draft"} THEN "new"
              ELSE IF state[d] \in {"sending", "unknown"} THEN "intended"
              ELSE IF state[d] \in {"accepted", "sent_verified"} THEN "done"
              ELSE IF state[d] = "suppressed" /\ delivered[d] THEN "done" ELSE "void"

ActedOf(d) == IF delivered[d] \/ transit[d] THEN Len(mail[d]) ELSE 0

\* Gmail gets what was posted, and nothing else.
Posted == \A d \in Draft : delivered[d] \/ transit[d] => mail[d] # <<>>

Posts == INSTANCE JournaledEffects
           WITH Item <- Draft,
                entry <- [d \in Draft |-> EntryOf(d)],
                acted <- [d \in Draft |-> ActedOf(d)]

\* Nothing reaches Gmail before the row says so, and nothing twice.  The verdict shown
\* for a dispatch is true and final: "accepted" and "sent_verified" only for a message
\* Gmail has got, "failed" only for one that it has not and never will, even when the
\* row became "unknown" under a sender that was still at work; and what is suppressed
\* changes no more.
PostsAreJournaled == Posts!Spec
=============================================================================
