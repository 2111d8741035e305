----------------------------- MODULE MCTaskStore -----------------------------
(***************************************************************************)
(* Small instances of TaskStore.  A cfg picks one of the task shapes below *)
(* by assigning the constants of TaskStore to definitions of this module.  *)
(***************************************************************************)
EXTENDS TaskStore, TLC

CONSTANTS t1, a, b, w1, w2, e1, e2

OneTask == {t1}

\* One default task: a single hosted step (store._insert_task).
SingleStep     == {a}
SingleTaskOf   == a :> t1
SingleOrdinal  == a :> 1
SingleDeps     == a :> {}
SingleHosted   == a :> "hosted"
SingleNoCap    == a :> "none"
SingleLimit    == a :> 2

\* Two steps of one task.
PairStep       == {a, b}
PairTaskOf     == a :> t1 @@ b :> t1
PairOrdinal    == a :> 1 @@ b :> 2
PairParallel   == a :> {} @@ b :> {}
PairChain      == a :> {} @@ b :> {a}
PairSandbox    == a :> "hosted" @@ b :> "sandbox"
PairDesktop    == a :> "desktop" @@ b :> "desktop"
PairNoCap      == a :> "none" @@ b :> "none"
PairReadWrite  == a :> "local_file_read" @@ b :> "local_file_write"
PairWrites     == a :> "local_file_write" @@ b :> "local_file_write"
PairLimit      == a :> 2 @@ b :> 2
PairReadTwice  == a :> 2 @@ b :> 1

OneAccount  == (t1 :> "acct") @@ (e1 :> "acct") @@ (e2 :> "acct")
ReadWriteDevices == e1 :> {"local_file_read", "local_file_write"}
                 @@ e2 :> {"local_file_read", "local_file_write"}
NoDevices == [e \in {} |-> {}]
SwapDevices == Permutations({e1, e2})
Ask       == {"ask"}
AnyPolicy == {"ask", "safe", "local"}
\* What a task with nothing but file writes tells apart: "safe" never covers one.
AskOrLocal == {"ask", "local"}
\* The calls that open, close and reopen a task of local work.
Reopening == {"approve", "cancel", "retry_gated"}
=============================================================================
