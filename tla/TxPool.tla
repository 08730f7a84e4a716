--------------------------------- MODULE TxPool ---------------------------------
(***************************************************************************)
(* The handlers of one project opened up into their statements: the pool   *)
(* of SQLite connections, the transactions that storage.rs opens with a    *)
(* raw BEGIN and closes in finish_transaction, the write lock of WAL mode  *)
(* with its busy timeout, the permit that bounds revision diffs and the    *)
(* blocking task that takes it over.  A request may be cancelled at every  *)
(* await: its future is dropped, and what it held goes back as it was.     *)
(* The process may crash and start again on the committed database.        *)
(* Revisions are numbered, and a page remembers numbers instead of ids.    *)
(* The pool, the locks of SQLite and the cancellation of a handler belong  *)
(* to sqlx, SQLite and hyper; they are modelled from how src/ uses them.   *)
(***************************************************************************)
EXTENDS Naturals

CONSTANTS
    Conn,   \* connections of the pool (SqlitePoolOptions::max_connections)
    Req,    \* requests that may be under way at once
    MaxRev, \* revisions are numbered up to this bound of the model
    NoConn, \* a request that holds no connection
    Free    \* nobody holds the diff permit

ASSUME PoolAssumption == MaxRev \in Nat \ {0} /\ NoConn \notin Conn /\ Free \notin Req

VARIABLES
    committed, \* the committed database
    conn,      \* conn[c]: the transaction open on connection c and what it sees
    req,       \* req[q]: how far request q has come
    slot,      \* who holds the diff permit: a request, its blocking task, or Free
    tasks,     \* requests whose blocking diff runs, the requests that are gone included
    acked      \* the newest revisions that a save and a publish answered with

vars == <<committed, conn, req, slot, tasks, acked>>

Rev == 0..MaxRev

\* The newest revision row, and the two pointers of the project.
Data == [inserted: Rev, current: Rev, served: Rev]

ConnState == [tx: {"none", "read", "write"}, data: Data]

Op == {"save", "publish", "fetch", "diff"}

\* "select" and "stamp" are the two autocommit statements of a subscription.
Pc == {"idle", "permit", "pool", "begin", "first", "second", "finish", "compute",
       "select", "stamp"}

ReqState == [op: Op, pc: Pc, conn: Conn \cup {NoConn}, want: Data,
             seen: Data, again: Data, ok: BOOLEAN]

PoolTypeOK ==
    /\ committed \in Data
    /\ conn \in [Conn -> ConnState]
    /\ req \in [Req -> ReqState]
    /\ slot \in Req \cup {Free}
    /\ tasks \subseteq Req
    /\ acked \in [save: Rev, publish: Rev]

First == [inserted |-> 1, current |-> 1, served |-> 1]

Done == [op |-> "save", pc |-> "idle", conn |-> NoConn, want |-> First,
         seen |-> First, again |-> First, ok |-> FALSE]

Fresh == [tx |-> "none", data |-> First]

Idle(c) == \A q \in Req : req[q].conn # c

WriteLocked == \E c \in Conn : conn[c].tx = "write"

\* What a statement sends on connection c sees: the open transaction, if there is one.
VisibleOn(c) == IF conn[c].tx = "none" THEN committed ELSE conn[c].data

Goto(q, pc) == req' = [req EXCEPT ![q].pc = pc]

\* The request is answered with an error, or not at all: whatever connection
\* it had goes back to the pool with the transaction that is open on it.
Dropped(q) == [req EXCEPT ![q] = Done]

\* (A mistake: the permit goes with the request and not with its blocking task.)
SlotWithRequest(q) == IF slot = q THEN Free ELSE slot

\* The permit a request held is free again, unless its blocking task has it.
SlotAfter(q) == IF slot = q /\ q \notin tasks THEN Free ELSE slot

---------------------------------------------------------------------------------
(* Mistakes a change to the handlers could make.  No behaviour of Spec uses   *)
(* them: each replaces the definition it is a variant of, to see that the     *)
(* properties notice.                                                         *)

\* A diff reads without a transaction.
BeginWritesOnly(q) ==
    LET c == req[q].conn IN
    /\ req[q].pc = "begin"
    /\ conn[c].tx = "none"
    /\ req[q].op # "diff" => ~WriteLocked
    /\ conn' = IF req[q].op = "diff"
                 THEN conn ELSE [conn EXCEPT ![c] = [tx |-> "write", data |-> committed]]
    /\ Goto(q, "first")
    /\ UNCHANGED <<committed, slot, tasks, acked>>

\* No busy timeout.
BeginFailsInsideOnly(q) ==
    /\ req[q].pc = "begin"
    /\ conn[req[q].conn].tx # "none"
    /\ req' = Dropped(q)
    /\ slot' = SlotAfter(q)
    /\ UNCHANGED <<committed, conn, tasks, acked>>

\* The answer is sent and the connection released without COMMIT.
AnswerWithoutCommit(q) ==
    LET c == req[q].conn IN
    /\ req[q].pc = "finish" /\ req[q].ok
    /\ conn' = [conn EXCEPT ![c] = Fresh]
    /\ req' = Dropped(q)
    /\ acked' = IF req[q].op = "save"
                  THEN [acked EXCEPT !.save = conn[c].data.current] ELSE acked
    /\ slot' = SlotAfter(q)
    /\ UNCHANGED <<committed, tasks>>

\* A failed handler commits what it had written.
CommitAnyway(q) ==
    LET c == req[q].conn IN
    /\ req[q].pc = "finish" /\ ~req[q].ok
    /\ committed' = IF conn[c].tx = "write" THEN conn[c].data ELSE committed
    /\ conn' = [conn EXCEPT ![c] = Fresh]
    /\ req' = Dropped(q)
    /\ slot' = SlotAfter(q)
    /\ UNCHANGED <<tasks, acked>>

---------------------------------------------------------------------------------
Init ==
    /\ committed = First
    /\ conn = [c \in Conn |-> Fresh]
    /\ req = [q \in Req |-> Done]
    /\ slot = Free
    /\ tasks = {}
    /\ acked = [save |-> 1, publish |-> 1]

\* The page of the request knows the pointers as they are committed now.
Arrive(q, op) ==
    /\ req[q].pc = "idle"
    /\ req' = [req EXCEPT ![q] = [Done EXCEPT
         !.op = op,
         !.want = IF op \in {"save", "publish"} THEN committed ELSE First,
         !.pc = CASE op = "diff" -> "permit" [] op = "fetch" -> "select" [] OTHER -> "pool"]]
    /\ UNCHANGED <<committed, conn, slot, tasks, acked>>

TakePermit(q) ==
    /\ req[q].pc = "permit" /\ slot = Free
    /\ slot' = q
    /\ Goto(q, "pool")
    /\ UNCHANGED <<committed, conn, tasks, acked>>

\* pool.acquire(); it gives up when no connection comes free in time.
Acquire(q) ==
    /\ req[q].pc = "pool"
    /\ \/ \E c \in Conn :
            /\ Idle(c)
            /\ req' = [req EXCEPT ![q].conn = c, ![q].pc = "begin"]
            /\ UNCHANGED slot
       \/ /\ \A c \in Conn : ~Idle(c)
          /\ req' = Dropped(q)
          /\ slot' = SlotAfter(q)
    /\ UNCHANGED <<committed, conn, tasks, acked>>

\* begin_immediate and begin_deferred.
Begin(q) ==
    LET c == req[q].conn
        kind == IF req[q].op = "diff" THEN "read" ELSE "write"
    IN
    /\ req[q].pc = "begin"
    /\ conn[c].tx = "none"
    /\ kind = "write" => ~WriteLocked
    /\ conn' = [conn EXCEPT ![c] = [tx |-> kind, data |-> committed]]
    /\ Goto(q, "first")
    /\ UNCHANGED <<committed, slot, tasks, acked>>

\* BEGIN inside an open transaction is an error, and so is a write lock that
\* does not come free within busy_timeout.
BeginFails(q) ==
    LET c == req[q].conn IN
    /\ req[q].pc = "begin"
    /\ conn[c].tx # "none" \/ (req[q].op # "diff" /\ WriteLocked)
    /\ req' = Dropped(q)
    /\ slot' = SlotAfter(q)
    /\ UNCHANGED <<committed, conn, tasks, acked>>

\* save_revision_inner: the check and the INSERT of the revision ...
SaveInsert(q) ==
    LET c == req[q].conn
        d == conn[c].data
    IN
    /\ req[q].pc = "first" /\ req[q].op = "save"
    /\ IF d.current = req[q].want.current
         THEN /\ d.inserted < MaxRev
              /\ conn' = [conn EXCEPT ![c].data.inserted = @ + 1]
              /\ Goto(q, "second")
         ELSE /\ Goto(q, "finish")     \* revision.conflict
              /\ UNCHANGED conn
    /\ UNCHANGED <<committed, slot, tasks, acked>>

\* ... and the UPDATE that makes it current.
SaveAdvance(q) ==
    LET c == req[q].conn IN
    /\ req[q].pc = "second" /\ req[q].op = "save"
    /\ conn' = [conn EXCEPT ![c].data.current = conn[c].data.inserted]
    /\ req' = [req EXCEPT ![q].pc = "finish", ![q].ok = TRUE]
    /\ UNCHANGED <<committed, slot, tasks, acked>>

PublishUpdate(q) ==
    LET c == req[q].conn
        d == conn[c].data
    IN
    /\ req[q].pc = "first" /\ req[q].op = "publish"
    /\ IF /\ d.current = req[q].want.current
          /\ d.current # d.served => d.served = req[q].want.served
         THEN /\ conn' = [conn EXCEPT ![c].data.served = d.current]
              /\ req' = [req EXCEPT ![q].pc = "finish", ![q].ok = TRUE]
         ELSE /\ Goto(q, "finish")
              /\ UNCHANGED conn
    /\ UNCHANGED <<committed, slot, tasks, acked>>

\* A deferred transaction takes its snapshot with its first SELECT ...
DiffFirst(q) ==
    LET c == req[q].conn IN
    /\ req[q].pc = "first" /\ req[q].op = "diff"
    /\ conn' = [conn EXCEPT ![c].data = committed]
    /\ req' = [req EXCEPT ![q].pc = "second", ![q].seen = committed]
    /\ UNCHANGED <<committed, slot, tasks, acked>>

\* ... and its later ones see the same.
DiffSecond(q) ==
    /\ req[q].pc = "second" /\ req[q].op = "diff"
    /\ req' = [req EXCEPT ![q].pc = "finish", ![q].again = VisibleOn(req[q].conn), ![q].ok = TRUE]
    /\ UNCHANGED <<committed, conn, slot, tasks, acked>>

\* A statement of the body fails: the handler goes on to ROLLBACK.
StatementFails(q) ==
    /\ req[q].pc \in {"first", "second"}
    /\ Goto(q, "finish")
    /\ UNCHANGED <<committed, conn, slot, tasks, acked>>

\* finish_transaction with Ok: COMMIT.  A diff goes on without the connection.
Commit(q) ==
    LET c == req[q].conn IN
    /\ req[q].pc = "finish" /\ req[q].ok
    /\ committed' = IF conn[c].tx = "write" THEN conn[c].data ELSE committed
    /\ conn' = [conn EXCEPT ![c] = Fresh]
    /\ IF req[q].op = "diff"
         THEN /\ req' = [req EXCEPT ![q].pc = "compute", ![q].conn = NoConn]
              /\ tasks' = tasks \cup {q}
              /\ UNCHANGED acked
         ELSE /\ req' = Dropped(q)
              /\ acked' = IF req[q].op = "save"
                            THEN [acked EXCEPT !.save = conn[c].data.current]
                            ELSE [acked EXCEPT !.publish = conn[c].data.served]
              /\ UNCHANGED tasks
    /\ UNCHANGED slot

\* finish_transaction with Err: ROLLBACK.
Rollback(q) ==
    LET c == req[q].conn IN
    /\ req[q].pc = "finish" /\ ~req[q].ok
    /\ conn' = [conn EXCEPT ![c] = Fresh]
    /\ req' = Dropped(q)
    /\ slot' = SlotAfter(q)
    /\ UNCHANGED <<committed, tasks, acked>>

\* The blocking task ends, its request waiting for it or not, and drops the permit.
TaskEnds(q) ==
    /\ q \in tasks
    /\ tasks' = tasks \ {q}
    /\ slot' = IF slot = q THEN Free ELSE slot
    /\ req' = IF req[q].pc = "compute" THEN Dropped(q) ELSE req
    /\ UNCHANGED <<committed, conn, acked>>

\* The SELECT of subscription_at, on whichever connection the pool hands out.
FetchSelect(q) ==
    /\ req[q].pc = "select"
    /\ \/ \E c \in Conn :
            /\ Idle(c)
            /\ req' = [req EXCEPT ![q].pc = "stamp", ![q].seen = VisibleOn(c)]
       \/ /\ \A c \in Conn : ~Idle(c)
          /\ req' = Dropped(q)
    /\ UNCHANGED <<committed, conn, slot, tasks, acked>>

\* The UPDATE of last_used_at: it needs the write lock for itself, runs inside
\* a write transaction it finds open, and turns a read transaction it finds
\* open into a writing one, or fails.
FetchStamp(q) ==
    /\ req[q].pc = "stamp"
    /\ \/ \E c \in Conn :
            /\ Idle(c)
            /\ \/ conn[c].tx = "none" /\ ~WriteLocked /\ UNCHANGED conn
               \/ conn[c].tx = "write" /\ UNCHANGED conn
               \/ /\ conn[c].tx = "read" /\ ~WriteLocked /\ conn[c].data = committed
                  /\ conn' = [conn EXCEPT ![c].tx = "write"]
       \/ WriteLocked /\ UNCHANGED conn
       \/ (\A c \in Conn : Idle(c) => conn[c].tx = "read") /\ UNCHANGED conn
    /\ req' = Dropped(q)
    /\ UNCHANGED <<committed, slot, tasks, acked>>

\* The client goes away: hyper drops the future of the handler at its await.
Cancel(q) ==
    /\ req[q].pc # "idle"
    /\ req' = Dropped(q)
    /\ slot' = SlotAfter(q)
    /\ UNCHANGED <<committed, conn, tasks, acked>>

\* sqlx closes connections that idled or lived too long; SQLite rolls back.
Recycle(c) ==
    /\ Idle(c) /\ conn[c].tx # "none"
    /\ conn' = [conn EXCEPT ![c] = Fresh]
    /\ UNCHANGED <<committed, req, slot, tasks, acked>>

\* The process stops and starts again on the committed database.
Crash ==
    /\ conn' = [c \in Conn |-> Fresh]
    /\ req' = [q \in Req |-> Done]
    /\ slot' = Free
    /\ tasks' = {}
    /\ UNCHANGED <<committed, acked>>

Step(q) ==
    \/ Acquire(q) \/ Begin(q) \/ BeginFails(q)
    \/ SaveInsert(q) \/ SaveAdvance(q) \/ PublishUpdate(q)
    \/ DiffFirst(q) \/ DiffSecond(q) \/ StatementFails(q)
    \/ Commit(q) \/ Rollback(q)
    \/ FetchSelect(q) \/ FetchStamp(q)

Next ==
    \/ \E q \in Req, op \in Op : Arrive(q, op)
    \/ \E q \in Req : TakePermit(q)
    \/ \E q \in Req : Step(q)
    \/ \E q \in Req : TaskEnds(q)
    \/ \E q \in Req : Cancel(q)
    \/ \E c \in Conn : Recycle(c)
    \/ Crash

\* The runtime polls every handler and every blocking task, and the permits of
\* a tokio semaphore are handed out in the order they were asked for.
Fairness ==
    /\ \A q \in Req : WF_vars(Step(q)) /\ WF_vars(TaskEnds(q)) /\ SF_vars(TakePermit(q))

Spec == Init /\ [][Next]_vars /\ Fairness

---------------------------------------------------------------------------------
(* The committed database never shows half a handler: no revision without    *)
(* the pointer that makes it current, no served version beyond the draft.    *)
(* Holds through failed statements, cancelled requests, abandoned            *)
(* transactions and crashes between any two statements.                      *)
AllOrNothing ==
    committed.inserted = committed.current /\ committed.served <= committed.current

(* A Save or Publish that was answered with success is never lost again, not *)
(* even by a crash right after the answer or by a connection whose           *)
(* transaction was abandoned: neither ever runs in a transaction of another. *)
(* Autocommit writes do, and may be lost; they are no requests here.         *)
AnswersAreDurable ==
    acked.save <= committed.current /\ acked.publish <= committed.served

(* What a diff compares comes from one committed state, whatever is saved or *)
(* published between its reads.                                              *)
SnapshotReads ==
    \A q \in Req : req[q].op = "diff" /\ req[q].pc \in {"finish", "compute"} /\ req[q].ok
                   => req[q].again = req[q].seen

(* At most one diff is computed at a time, also when requests are cancelled  *)
(* while their blocking task runs (MAX_CONCURRENT_DIFFS).                    *)
OneDiffAtATime == \A q, r \in tasks : q = r

(* Every request comes to an end, whatever transactions others abandoned.    *)
EveryRequestEnds == \A q \in Req : req[q].pc # "idle" ~> req[q].pc = "idle"

(* ADR-005: a stable URL returns the old served bytes until Publish          *)
(* succeeds; what a subscriber gets was committed.                           *)
StableUrlServesCommitted ==
    \A q \in Req : req[q].op = "fetch" /\ req[q].pc = "stamp"
                   => req[q].seen.served <= committed.served
=================================================================================
