-------------------------------- MODULE PublicUrl --------------------------------
(***************************************************************************)
(* The public address of the instance (routes/settings.rs, state.rs,       *)
(* routes/tokens.rs): one row of SQLite and a copy of it in memory behind  *)
(* a tokio RwLock.  A settings update holds the write guard over its       *)
(* UPDATE and the assignment of the copy; the creation of a stable URL     *)
(* holds a read guard from reading the copy until its row is stored.       *)
(* Either request may be cancelled while it awaits SQLite: its guard is    *)
(* free at once, while an UPDATE that was already sent to the connection's *)
(* thread of sqlx runs on and lands later, or fails.  The one serving      *)
(* process may restart.                                                    *)
(***************************************************************************)
EXTENDS Sequences

CONSTANTS
    Url,      \* normalized public addresses
    Req,      \* requests that may be under way at once
    Fallback  \* CONFDOCK_PUBLIC_URL at the first start

ASSUME UrlAssumption == Fallback \in Url

VARIABLES
    stored,    \* instance_settings.public_url
    memory,    \* AppState.public_url
    req,       \* req[q]: how far request q has come, and the address it carries
    queue,     \* requests that wait for a guard: tokio serves them in this order
    left,      \* a transaction that a dropped request of another handler left open
               \* on a connection of the pool (TxPool): "none", "read" or "write"
    abandoned  \* the last UPDATE was of a request that is gone and never assigns
               \* the copy, or joined a transaction that was left open

vars == <<stored, memory, req, queue, left, abandoned>>

Pc == {"idle",
       "update", "guarded", "stored",  \* waits for the write guard, holds it, has stored
       "late",                         \* is gone and has no guard; its UPDATE runs on
       "link", "reading", "created"}   \* waits for the read guard, holds it, has a row

UrlTypeOK ==
    /\ stored \in Url
    /\ memory \in Url
    /\ req \in [Req -> [pc: Pc, url: Url]]
    /\ queue \in Seq(Req)
    /\ left \in {"none", "read", "write"}
    /\ abandoned \in BOOLEAN

Writing(q) == req[q].pc \in {"guarded", "stored"}

Reading(q) == req[q].pc \in {"reading", "created"}

Done == [pc |-> "idle", url |-> Fallback]

End(q) == req' = [req EXCEPT ![q] = Done]

IsNext(q) == queue # <<>> /\ Head(queue) = q

---------------------------------------------------------------------------------
(* Mistakes a change to the handlers could make, to see that the properties  *)
(* notice.                                                                   *)

\* The update waits for other updates only.
TakeWriteGuardIgnoringReaders(q) ==
    /\ req[q].pc = "update" /\ IsNext(q)
    /\ \A r \in Req : ~Writing(r)
    /\ req' = [req EXCEPT ![q].pc = "guarded"]
    /\ queue' = Tail(queue)
    /\ UNCHANGED <<stored, memory, left, abandoned>>

\* The start trusts the configuration for the copy.
RestartFromConfig(u) ==
    /\ memory' = u
    /\ req' = [q \in Req |-> Done]
    /\ queue' = <<>>
    /\ left' = "none"
    /\ abandoned' = FALSE
    /\ UNCHANGED stored

\* The future of the update is dropped unnoticed by the waiting requests.
WaitersKept(q) == queue

---------------------------------------------------------------------------------
\* A dropped waiter leaves the queue of the lock.
Without(q) == SelectSeq(queue, LAMBDA r : r # q)

\* Dropping the future of an update between its UPDATE and the assignment.
AbandonedAfter(q) == abandoned \/ req[q].pc = "stored"

Init ==
    /\ stored = Fallback
    /\ memory = Fallback
    /\ req = [q \in Req |-> Done]
    /\ queue = <<>>
    /\ left = "none"
    /\ abandoned = FALSE

\* An update arrives with an address that normalize_public_url accepted.
BeginUpdate(q, u) ==
    /\ req[q].pc = "idle"
    /\ req' = [req EXCEPT ![q] = [pc |-> "update", url |-> u]]
    /\ queue' = Append(queue, q)
    /\ UNCHANGED <<stored, memory, left, abandoned>>

TakeWriteGuard(q) ==
    /\ req[q].pc = "update" /\ IsNext(q)
    /\ \A r \in Req : ~Writing(r) /\ ~Reading(r)
    /\ req' = [req EXCEPT ![q].pc = "guarded"]
    /\ queue' = Tail(queue)
    /\ UNCHANGED <<stored, memory, left, abandoned>>

\* The UPDATE of update_public_url, a transaction by itself, for which the write lock
\* must be free.
StoreUrl(q) ==
    /\ req[q].pc = "guarded"
    /\ left # "write"
    /\ stored' = req[q].url
    /\ req' = [req EXCEPT ![q].pc = "stored"]
    /\ abandoned' = FALSE
    /\ UNCHANGED <<memory, queue, left>>

\* The pool hands out the connection with the transaction that was left open: the
\* UPDATE succeeds in it, and never becomes durable.
StoreJoins(q) ==
    /\ req[q].pc = "guarded"
    /\ left # "none"
    /\ left' = "write"
    /\ req' = [req EXCEPT ![q].pc = "stored"]
    /\ abandoned' = TRUE
    /\ UNCHANGED <<stored, memory, queue>>

\* SQLite is busy: the ? of the handler drops the guard.
StoreFails(q) ==
    /\ req[q].pc = "guarded"
    /\ End(q)
    /\ UNCHANGED <<stored, memory, queue, left, abandoned>>

\* *current = public_url, and the answer.
AssignCopy(q) ==
    /\ req[q].pc = "stored"
    /\ memory' = req[q].url
    /\ End(q)
    /\ UNCHANGED <<stored, queue, left, abandoned>>

BeginLink(q) ==
    /\ req[q].pc = "idle"
    /\ req' = [req EXCEPT ![q].pc = "link"]
    /\ queue' = Append(queue, q)
    /\ UNCHANGED <<stored, memory, left, abandoned>>

TakeReadGuard(q) ==
    /\ req[q].pc = "link" /\ IsNext(q)
    /\ \A r \in Req : ~Writing(r)
    /\ req' = [req EXCEPT ![q] = [pc |-> "reading", url |-> memory]]
    /\ queue' = Tail(queue)
    /\ UNCHANGED <<stored, memory, left, abandoned>>

\* create_token commits: the row and the URL of the answer are decided.
CreateLink(q) ==
    /\ req[q].pc = "reading"
    /\ req' = [req EXCEPT ![q].pc = "created"]
    /\ UNCHANGED <<stored, memory, queue, left, abandoned>>

AnswerLink(q) ==
    /\ req[q].pc \in {"reading", "created"}   \* an error, or the link
    /\ End(q)
    /\ UNCHANGED <<stored, memory, queue, left, abandoned>>

\* The client goes away, and the guard of the handler with it.  An update that has
\* its connection has sent its UPDATE.
Cancel(q) ==
    /\ req[q].pc \notin {"idle", "late"}
    /\ abandoned' = AbandonedAfter(q)
    /\ queue' = Without(q)
    /\ \/ End(q)
       \/ req[q].pc = "guarded" /\ req' = [req EXCEPT ![q].pc = "late"]
    /\ UNCHANGED <<stored, memory, left>>

\* The UPDATE of a request that is gone lands, whoever holds the guard by now ...
LateStore(q) ==
    /\ req[q].pc = "late"
    /\ left # "write"
    /\ stored' = req[q].url
    /\ abandoned' = TRUE
    /\ End(q)
    /\ UNCHANGED <<memory, queue, left>>

\* ... or fails, or joins a transaction as well.
LateFails(q) ==
    /\ req[q].pc = "late"
    /\ left' \in {left, IF left = "none" THEN "none" ELSE "write"}
    /\ End(q)
    /\ UNCHANGED <<stored, memory, queue, abandoned>>

\* A handler that writes, or compares revisions, is dropped inside its transaction
\* (Cancel of TxPool) ...
LeaveOpen(tx) ==
    /\ left = "none"
    /\ left' = tx
    /\ UNCHANGED <<stored, memory, req, queue, abandoned>>

\* ... and sqlx closes that connection (Recycle of TxPool).
Recycle ==
    /\ left # "none"
    /\ left' = "none"
    /\ UNCHANGED <<stored, memory, req, queue, abandoned>>

\* ensure_public_url: the configured address u counts only while there is no row.
Restart(u) ==
    /\ memory' = stored
    /\ req' = [q \in Req |-> Done]
    /\ queue' = <<>>
    /\ left' = "none"
    /\ abandoned' = FALSE
    /\ UNCHANGED stored

UpdateStep(q) ==
    \/ TakeWriteGuard(q) \/ StoreUrl(q) \/ StoreJoins(q) \/ StoreFails(q) \/ AssignCopy(q)
    \/ LateStore(q) \/ LateFails(q)

LinkStep(q) == TakeReadGuard(q) \/ CreateLink(q) \/ AnswerLink(q)

Next ==
    \/ \E q \in Req, u \in Url : BeginUpdate(q, u)
    \/ \E q \in Req : BeginLink(q)
    \/ \E q \in Req : UpdateStep(q)
    \/ \E q \in Req : LinkStep(q)
    \/ \E q \in Req : Cancel(q)
    \/ \E tx \in {"read", "write"} : LeaveOpen(tx)
    \/ Recycle
    \/ \E u \in Url : Restart(u)

\* The runtime polls every handler, and SQLite answers every UPDATE or gives up
\* after busy_timeout.
Fairness == \A q \in Req : WF_vars(UpdateStep(q)) /\ WF_vars(LinkStep(q))

Spec == Init /\ [][Next]_vars /\ Fairness

---------------------------------------------------------------------------------
(* settings.rs: while no update is between its UPDATE and its assignment, what *)
(* service-info answers is what SQLite holds.                                  *)
InSync == (\A q \in Req : ~Writing(q)) => memory = stored

(* The same with the one exception the code has: the last UPDATE was of a      *)
(* request that was cancelled, or joined a transaction that one left open, and *)
(* neither another UPDATE nor a start has come since.  Nothing else takes the  *)
(* two apart: no crossing of updates and links, no failure, no other           *)
(* cancellation.                                                               *)
InSyncUnlessAbandoned ==
    memory # stored => abandoned \/ \E q \in Req : req[q].pc = "stored"

(* The address in the URL of a new link is that of service-info from the       *)
(* moment it is read until the row is stored and the link answered, and that   *)
(* of SQLite with the same exception: an update waits for the link, and a link *)
(* for the update, but the UPDATE of a request that is gone waits for nobody.  *)
LinkUsesCurrentUrl ==
    \A q \in Req : Reading(q) => req[q].url = memory /\ (~abandoned => memory = stored)

(* Nobody waits for a guard for ever, whoever was cancelled while holding it,  *)
(* and an UPDATE that was left running ends.                                   *)
EveryRequestEnds == \A q \in Req : req[q].pc # "idle" ~> req[q].pc = "idle"
=================================================================================
