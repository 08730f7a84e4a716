------------------------------- MODULE TxPool_proofs -------------------------------
(***************************************************************************)
(* Theorems about TxPool for every pool, every set of requests and every   *)
(* number of revisions.  That COMMIT never stores half a handler depends   *)
(* on whose transaction it commits: the induction says of every request    *)
(* what the connection it holds contains, that no other request holds it,  *)
(* that one connection at most writes, and who has the diff permit.        *)
(***************************************************************************)
EXTENDS TxPool, TLAPS

Holds(q) == req[q].pc \in {"begin", "first", "second", "finish"}

InTx(q) == req[q].pc \in {"first", "second", "finish"}

Writes(q) == InTx(q) /\ req[q].op # "diff"

\* What may be committed over the committed database.
Sound(d) ==
    /\ d.inserted = d.current /\ d.served <= d.current
    /\ committed.current <= d.current /\ committed.served <= d.served

\* What holds of a request and of the connection it holds.
ReqFine(q) ==
    LET m == req[q]
        d == conn[m.conn].data
    IN
    /\ Holds(q) <=> m.conn # NoConn
    /\ InTx(q) => conn[m.conn].tx = (IF m.op = "diff" THEN "read" ELSE "write")
    /\ m.ok => m.pc \in {"finish", "compute"}
    \* A handler that writes starts from what is committed.
    /\ Writes(q) /\ m.pc = "first" => d = committed
    /\ Writes(q) /\ m.pc = "second" =>
         m.op = "save" /\ d = [committed EXCEPT !.inserted = committed.inserted + 1]
    /\ Writes(q) /\ m.pc = "finish" /\ m.ok => Sound(d)
    \* A diff reads one snapshot.
    /\ m.op = "diff" /\ m.pc = "second" => d = m.seen
    /\ m.op = "diff" /\ m.pc \in {"finish", "compute"} /\ m.ok => m.again = m.seen
    \* A diff has the permit until its task has taken it over.
    /\ m.op = "diff" /\ (m.pc = "pool" \/ Holds(q)) => slot = q /\ q \notin tasks
    /\ m.pc = "compute" => m.op = "diff" /\ q \in tasks

ConnsOwned ==
    \A q, r \in Req : req[q].conn # NoConn /\ req[q].conn = req[r].conn => q = r

OneWriter ==
    \A c, d \in Conn : conn[c].tx = "write" /\ conn[d].tx = "write" => c = d

TasksHavePermit == \A q \in tasks : slot = q

Core ==
    /\ ConnsOwned
    /\ OneWriter
    /\ TasksHavePermit
    /\ \A q \in Req : ReqFine(q)
    /\ AllOrNothing
    /\ AnswersAreDurable

IInv == PoolTypeOK /\ Core

-----------------------------------------------------------------------------------
LEMMA Starts ==
  /\ First \in Data /\ Fresh \in ConnState /\ Done \in ReqState
  /\ Fresh.tx = "none" /\ Done.pc = "idle" /\ Done.conn = NoConn /\ Done.ok = FALSE
  BY PoolAssumption
     DEF First, Data, Rev, Fresh, ConnState, Done, ReqState, Op, Pc

LEMMA InitIInv == Init => IInv
<1> SUFFICES ASSUME Init
             PROVE  IInv
  OBVIOUS
<1>1. PoolTypeOK
  BY Starts, PoolAssumption DEF Init, PoolTypeOK, Rev
<1>2. \A q \in Req : req[q] = Done
  BY DEF Init
<1>3. \A c \in Conn : conn[c].tx = "none"
  BY Starts DEF Init
<1>4. ConnsOwned /\ OneWriter
  BY <1>2, <1>3, Starts DEF ConnsOwned, OneWriter
<1>5. TasksHavePermit
  BY DEF Init, TasksHavePermit
<1>6. ASSUME NEW q \in Req
      PROVE  ReqFine(q)
  BY <1>2, Starts DEF ReqFine, Holds, InTx, Writes
<1>7. AllOrNothing /\ AnswersAreDurable
  BY DEF Init, AllOrNothing, AnswersAreDurable, First
<1>8. QED
  BY <1>1, <1>4, <1>5, <1>6, <1>7 DEF IInv, Core

-----------------------------------------------------------------------------------
LEMMA GotoTyped ==
  ASSUME PoolTypeOK, NEW q \in Req, NEW pc \in Pc, Goto(q, pc)
  PROVE  req' \in [Req -> ReqState]
  BY DEF PoolTypeOK, Goto, ReqState

LEMMA EndTyped ==
  ASSUME PoolTypeOK, NEW q \in Req
  PROVE  Dropped(q) \in [Req -> ReqState] /\ SlotAfter(q) \in Req \cup {Free}
  BY Starts DEF PoolTypeOK, Dropped, SlotAfter

LEMMA RowTyped ==
  ASSUME PoolTypeOK, NEW q \in Req, NEW row \in ReqState, req' = [req EXCEPT ![q] = row]
  PROVE  req' \in [Req -> ReqState]
  BY DEF PoolTypeOK

(* PoolTypeOK is preserved.                                                   *)
LEMMA NextPoolTypeOK ==
  ASSUME PoolTypeOK, \A q \in Req : ReqFine(q), [Next]_vars
  PROVE  PoolTypeOK'
<1> USE PoolAssumption, Starts DEF PoolTypeOK
<1>0. ASSUME NEW q \in Req, InTx(q)
      PROVE  req[q].conn \in Conn
  BY <1>0 DEF ReqState, ReqFine, Holds, InTx
<1>1. ASSUME NEW q \in Req, NEW op \in Op, Arrive(q, op)
      PROVE  PoolTypeOK'
  BY <1>1 DEF Arrive, ReqState, Op, Pc
<1>2. ASSUME NEW q \in Req, TakePermit(q)
      PROVE  PoolTypeOK'
  BY <1>2, GotoTyped DEF TakePermit, Pc
<1>3. ASSUME NEW q \in Req, Acquire(q)
      PROVE  PoolTypeOK'
  <2>1. ASSUME NEW c \in Conn, req' = [req EXCEPT ![q].conn = c, ![q].pc = "begin"]
        PROVE  req' \in [Req -> ReqState]
    <3> DEFINE row == [[req[q] EXCEPT !.conn = c] EXCEPT !.pc = "begin"]
    <3>1. row \in ReqState
      BY DEF ReqState, Pc
    <3>2. req' = [req EXCEPT ![q] = row]
      BY <2>1
    <3> HIDE DEF row
    <3>3. QED
      BY <3>1, <3>2
  <2>2. \/ slot' = slot /\ \E c \in Conn : req' = [req EXCEPT ![q].conn = c, ![q].pc = "begin"]
        \/ req' = Dropped(q) /\ slot' = SlotAfter(q)
    BY <1>3, Zenon DEF Acquire
  <2>3. req' \in [Req -> ReqState] /\ slot' \in Req \cup {Free}
    BY <2>1, <2>2, EndTyped
  <2>4. QED
    BY <1>3, <2>3 DEF Acquire
<1>4. ASSUME NEW q \in Req, Begin(q)
      PROVE  PoolTypeOK'
  BY <1>4, GotoTyped DEF Begin, Pc, ConnState
<1>5. ASSUME NEW q \in Req, BeginFails(q)
      PROVE  PoolTypeOK'
  BY <1>5, EndTyped DEF BeginFails
<1>6. ASSUME NEW q \in Req, SaveInsert(q)
      PROVE  PoolTypeOK'
  <2> DEFINE c == req[q].conn
  <2>1. c \in Conn /\ conn[c] \in ConnState
    BY <1>0, <1>6 DEF SaveInsert, InTx
  <2>2. conn[c].data.inserted < MaxRev =>
          [conn[c] EXCEPT !.data = [conn[c].data EXCEPT !.inserted = conn[c].data.inserted + 1]]
            \in ConnState
    BY <2>1 DEF ConnState, Data, Rev
  <2>3. conn' \in [Conn -> ConnState]
    BY <1>6, <2>1, <2>2 DEF SaveInsert
  <2>4. req' \in [Req -> ReqState]
    <3>1. Goto(q, "second") \/ Goto(q, "finish")
      BY <1>6, Zenon DEF SaveInsert
    <3>2. QED
      BY <3>1, GotoTyped DEF Pc
  <2>5. QED
    BY <1>6, <2>3, <2>4 DEF SaveInsert
<1>7. ASSUME NEW q \in Req, SaveAdvance(q)
      PROVE  PoolTypeOK'
  <2> DEFINE c == req[q].conn
  <2>1. c \in Conn /\ conn[c] \in ConnState
    BY <1>0, <1>7 DEF SaveAdvance, InTx
  <2>2. [conn[c] EXCEPT !.data = [conn[c].data EXCEPT !.current = conn[c].data.inserted]]
            \in ConnState
    BY <2>1 DEF ConnState, Data
  <2>3. conn' \in [Conn -> ConnState]
    BY <1>7, <2>1, <2>2 DEF SaveAdvance
  <2> DEFINE row == [[req[q] EXCEPT !.pc = "finish"] EXCEPT !.ok = TRUE]
  <2>4. req' = [req EXCEPT ![q] = row] /\ row \in ReqState
    BY <1>7 DEF SaveAdvance, ReqState, Pc
  <2> HIDE DEF row
  <2>5. req' \in [Req -> ReqState]
    BY <2>4, RowTyped
  <2>6. QED
    BY <1>7, <2>3, <2>5 DEF SaveAdvance
<1>8. ASSUME NEW q \in Req, PublishUpdate(q)
      PROVE  PoolTypeOK'
  <2> DEFINE c == req[q].conn
  <2>1. c \in Conn /\ conn[c] \in ConnState
    BY <1>0, <1>8 DEF PublishUpdate, InTx
  <2>2. [conn[c] EXCEPT !.data = [conn[c].data EXCEPT !.served = conn[c].data.current]]
            \in ConnState
    BY <2>1 DEF ConnState, Data
  <2>3. conn' \in [Conn -> ConnState]
    BY <1>8, <2>1, <2>2 DEF PublishUpdate
  <2> DEFINE row == [[req[q] EXCEPT !.pc = "finish"] EXCEPT !.ok = TRUE]
  <2>4. row \in ReqState /\ (req' = [req EXCEPT ![q] = row] \/ Goto(q, "finish"))
    BY <1>8 DEF PublishUpdate, ReqState, Pc
  <2> HIDE DEF row
  <2>5. req' \in [Req -> ReqState]
    BY <2>4, RowTyped, GotoTyped DEF Pc
  <2>6. QED
    BY <1>8, <2>3, <2>5 DEF PublishUpdate
<1>9. ASSUME NEW q \in Req, DiffFirst(q)
      PROVE  PoolTypeOK'
  <2>1. [[req[q] EXCEPT !.pc = "second"] EXCEPT !.seen = committed] \in ReqState
    BY DEF ReqState, Pc
  <2>2. req' = [req EXCEPT ![q] = [[req[q] EXCEPT !.pc = "second"] EXCEPT !.seen = committed]]
    BY <1>9 DEF DiffFirst
  <2>3. conn' \in [Conn -> ConnState]
    BY <1>9 DEF DiffFirst, ConnState
  <2>4. QED
    BY <1>9, <2>1, <2>2, <2>3 DEF DiffFirst
<1>10. ASSUME NEW q \in Req, DiffSecond(q)
      PROVE  PoolTypeOK'
  <2>1. VisibleOn(req[q].conn) \in Data
    BY <1>0, <1>10 DEF DiffSecond, InTx, VisibleOn, ConnState
  <2> DEFINE row == [[[req[q] EXCEPT !.pc = "finish"]
                                EXCEPT !.again = VisibleOn(req[q].conn)] EXCEPT !.ok = TRUE]
  <2>2. row \in ReqState
    BY <2>1 DEF ReqState, Pc
  <2>3. req' = [req EXCEPT ![q] = row]
    BY <1>10 DEF DiffSecond
  <2>4. QED
    BY <1>10, <2>2, <2>3 DEF DiffSecond
<1>11. ASSUME NEW q \in Req, StatementFails(q)
      PROVE  PoolTypeOK'
  BY <1>11, GotoTyped DEF StatementFails, Pc
<1>12. ASSUME NEW q \in Req, Commit(q)
      PROVE  PoolTypeOK'
  <2>1. req[q].conn \in Conn /\ conn[req[q].conn].data \in Data
    BY <1>0, <1>12 DEF Commit, InTx, ConnState
  <2>2. ASSUME req' = [req EXCEPT ![q].pc = "compute", ![q].conn = NoConn]
        PROVE  req' \in [Req -> ReqState]
    <3> DEFINE row == [[req[q] EXCEPT !.pc = "compute"] EXCEPT !.conn = NoConn]
    <3>1. row \in ReqState
      BY DEF ReqState, Pc
    <3>2. req' = [req EXCEPT ![q] = row]
      BY <2>2
    <3> HIDE DEF row
    <3>3. QED
      BY <3>1, <3>2
  <2>3. acked' \in [save: Rev, publish: Rev]
    BY <1>12, <2>1 DEF Commit, Data
  <2>4. req' \in [Req -> ReqState] /\ tasks' \subseteq Req
    <3>1. \/ req' = Dropped(q) /\ tasks' = tasks
          \/ /\ req' = [req EXCEPT ![q].pc = "compute", ![q].conn = NoConn]
             /\ tasks' = tasks \cup {q}
      BY <1>12, Zenon DEF Commit
    <3>2. QED
      BY <2>2, <3>1, EndTyped
  <2>5. committed' \in Data
    BY <1>12, <2>1 DEF Commit
  <2>6. conn' \in [Conn -> ConnState] /\ slot' = slot
    BY <1>12 DEF Commit
  <2>7. QED
    BY <2>3, <2>4, <2>5, <2>6
<1>13. ASSUME NEW q \in Req, Rollback(q)
      PROVE  PoolTypeOK'
  BY <1>13, EndTyped DEF Rollback
<1>14. ASSUME NEW q \in Req, TaskEnds(q)
      PROVE  PoolTypeOK'
  BY <1>14, EndTyped DEF TaskEnds
<1>15. ASSUME NEW q \in Req, FetchSelect(q)
      PROVE  PoolTypeOK'
  <2>1. ASSUME NEW c \in Conn, req' = [req EXCEPT ![q].pc = "stamp", ![q].seen = VisibleOn(c)]
        PROVE  req' \in [Req -> ReqState]
    <3> DEFINE row == [[req[q] EXCEPT !.pc = "stamp"] EXCEPT !.seen = VisibleOn(c)]
    <3>1. row \in ReqState
      BY DEF ReqState, Pc, VisibleOn, ConnState
    <3>2. req' = [req EXCEPT ![q] = row]
      BY <2>1
    <3> HIDE DEF row
    <3>3. QED
      BY <3>1, <3>2
  <2>2. \/ req' = Dropped(q)
        \/ \E c \in Conn : req' = [req EXCEPT ![q].pc = "stamp", ![q].seen = VisibleOn(c)]
    BY <1>15, Zenon DEF FetchSelect
  <2>3. req' \in [Req -> ReqState]
    BY <2>1, <2>2, EndTyped
  <2>4. QED
    BY <1>15, <2>3 DEF FetchSelect
<1>16. ASSUME NEW q \in Req, FetchStamp(q)
      PROVE  PoolTypeOK'
  <2>1. ASSUME NEW c \in Conn
        PROVE  [conn EXCEPT ![c].tx = "write"] \in [Conn -> ConnState]
    BY DEF ConnState
  <2>2. conn' \in [Conn -> ConnState]
    BY <1>16, <2>1, Zenon DEF FetchStamp
  <2>3. QED
    BY <1>16, <2>2, EndTyped DEF FetchStamp
<1>17. ASSUME NEW q \in Req, Cancel(q)
      PROVE  PoolTypeOK'
  BY <1>17, EndTyped DEF Cancel
<1>18. ASSUME NEW c \in Conn, Recycle(c)
      PROVE  PoolTypeOK'
  BY <1>18 DEF Recycle
<1>19. CASE Crash
  BY <1>19 DEF Crash
<1>20. CASE UNCHANGED vars
  BY <1>20 DEF vars
<1>21. QED
  BY <1>1, <1>2, <1>3, <1>4, <1>5, <1>6, <1>7, <1>8, <1>9, <1>10, <1>11, <1>12, <1>13, <1>14,
     <1>15, <1>16, <1>17, <1>18, <1>19, <1>20 DEF Next, Step

-----------------------------------------------------------------------------------
(* What a step of one request leaves of the others: they keep their rows,     *)
(* their connections and their permit, and nobody commits beside a writer.    *)
LEMMA OthersFine ==
  ASSUME IInv, NEW q,
         \A r \in Req \ {q} : req'[r] = req[r],
         \A r \in Req \ {q} : Holds(r) => conn'[req[r].conn] = conn[req[r].conn],
         \A r \in Req \ {q} : (slot = r => slot' = r) /\ (r \in tasks' <=> r \in tasks),
         committed' = committed \/ \A r \in Req \ {q} : ~Writes(r)
  PROVE  \A r \in Req \ {q} : ReqFine(r)'
<1> SUFFICES ASSUME NEW r \in Req \ {q}
             PROVE  ReqFine(r)'
  OBVIOUS
<1>1. ReqFine(r) /\ req'[r] = req[r] /\ (Holds(r) => conn'[req[r].conn] = conn[req[r].conn])
  BY DEF IInv, Core
<1>2. /\ Holds(r)' <=> Holds(r)
      /\ InTx(r)' <=> InTx(r)
      /\ Writes(r)' <=> Writes(r)
      /\ InTx(r) => Holds(r)
  BY <1>1 DEF Holds, InTx, Writes
<1>3. Writes(r) => committed' = committed
  OBVIOUS
<1>4. QED
  BY <1>1, <1>2, <1>3 DEF ReqFine, Sound, Writes, InTx, Holds

(* Requests that hold connections hold different ones.                        *)
LEMMA HeldApart ==
  ASSUME IInv, NEW q \in Req, NEW r \in Req \ {q}, Holds(r)
  PROVE  /\ req[r].conn \in Conn
         /\ req[r].conn # req[q].conn
         /\ ~Idle(req[r].conn)
  BY DEF IInv, Core, PoolTypeOK, ReqState, ReqFine, ConnsOwned, Idle

(* Nobody else writes while a handler is in its writing transaction.          *)
LEMMA WriterAlone ==
  ASSUME IInv, NEW q \in Req, Writes(q), NEW r \in Req \ {q}
  PROVE  ~Writes(r)
<1>1. SUFFICES ASSUME Writes(r) PROVE FALSE
  OBVIOUS
<1>2. Holds(q) /\ Holds(r) /\ InTx(q) /\ InTx(r)
  BY <1>1 DEF Writes, InTx, Holds
<1>3. req[q].conn \in Conn /\ req[r].conn \in Conn /\ req[r].conn # req[q].conn
  BY <1>2, HeldApart
<1>4. conn[req[q].conn].tx = "write" /\ conn[req[r].conn].tx = "write"
  BY <1>1, <1>2 DEF IInv, Core, ReqFine, Writes
<1>5. QED
  BY <1>3, <1>4 DEF IInv, Core, OneWriter

(* A request ends, with an error or unanswered: its permit is free unless its *)
(* task has it, and the connection it held is as it was or rolled back.       *)
LEMMA EndFine ==
  ASSUME IInv, NEW q \in Req, req' = Dropped(q), slot' = SlotAfter(q),
         UNCHANGED <<committed, tasks, acked>>,
         \/ conn' = conn
         \/ InTx(q) /\ conn' = [conn EXCEPT ![req[q].conn] = Fresh]
  PROVE  Core'
<1> USE DEF IInv, Core
<1>1. req'[q] = Done /\ \A r \in Req \ {q} : req'[r] = req[r]
  BY DEF Dropped, PoolTypeOK
<1>2. ASSUME NEW c \in Conn
      PROVE  conn'[c] = conn[c] \/ conn'[c].tx = "none"
  BY Starts DEF PoolTypeOK
<1>3. ConnsOwned' /\ OneWriter'
  BY <1>1, <1>2, Starts DEF ConnsOwned, OneWriter
<1>4. TasksHavePermit'
  BY DEF TasksHavePermit, SlotAfter
<1>5. \A r \in Req \ {q} : ReqFine(r)'
  <2>1. \A r \in Req \ {q} : Holds(r) => conn'[req[r].conn] = conn[req[r].conn]
    BY HeldApart DEF PoolTypeOK
  <2>2. \A r \in Req \ {q} : slot = r => slot' = r
    BY DEF SlotAfter
  <2>3. QED
    BY <1>1, <2>1, <2>2, OthersFine
<1>6. ReqFine(q)'
  BY <1>1, Starts DEF ReqFine, Holds, InTx, Writes
<1>7. AllOrNothing' /\ AnswersAreDurable'
  BY DEF AllOrNothing, AnswersAreDurable
<1>8. QED
  BY <1>3, <1>4, <1>5, <1>6, <1>7
-----------------------------------------------------------------------------------
(* A step of request q that ends nobody: the other requests are as they were, *)
(* and so are the pointers and the permit unless the step says so.            *)
LEMMA StepFine ==
  ASSUME IInv, NEW q \in Req, req[q].pc # "idle",
         \A r \in Req \ {q} : req'[r] = req[r],
         \A c \in Conn : c # req[q].conn => conn'[c] = conn[c],
         req'[q].conn = req[q].conn,
         conn'[req[q].conn].tx = conn[req[q].conn].tx,
         ReqFine(q)',
         UNCHANGED <<committed, slot, tasks, acked>>
  PROVE  Core'
<1> USE DEF IInv, Core
<1>1. \A c \in Conn : conn'[c].tx = conn[c].tx
  OBVIOUS
<1>2. ConnsOwned' /\ OneWriter' /\ TasksHavePermit' /\ AllOrNothing' /\ AnswersAreDurable'
  BY <1>1 DEF ConnsOwned, OneWriter, TasksHavePermit, AllOrNothing, AnswersAreDurable
<1>3. \A r \in Req \ {q} : Holds(r) => conn'[req[r].conn] = conn[req[r].conn]
  BY HeldApart
<1>4. \A r \in Req \ {q} : ReqFine(r)'
  BY <1>3, OthersFine
<1>5. QED
  BY <1>2, <1>4

LEMMA NextCoreArrival ==
  ASSUME IInv, NEW q \in Req,
         \/ \E op \in Op : Arrive(q, op)
         \/ TakePermit(q)
  PROVE  Core'
<1> USE PoolAssumption, Starts DEF IInv, Core, PoolTypeOK
<1>1. ASSUME NEW op \in Op, Arrive(q, op)
      PROVE  Core'
  <2>1. /\ req'[q].conn = NoConn /\ req'[q].ok = FALSE
        /\ req'[q].pc \in {"permit", "select", "pool"}
        /\ req'[q].pc = "pool" => req'[q].op # "diff"
        /\ \A r \in Req \ {q} : req'[r] = req[r]
    BY <1>1 DEF Arrive, Done, Op
  <2>2. ReqFine(q)'
    BY <2>1 DEF ReqFine, Holds, InTx, Writes
  <2>3. \A r \in Req \ {q} : ReqFine(r)'
    BY <1>1, <2>1, OthersFine DEF Arrive
  <2>4. ConnsOwned'
    BY <2>1 DEF ConnsOwned
  <2>5. OneWriter' /\ TasksHavePermit' /\ AllOrNothing' /\ AnswersAreDurable'
    BY <1>1 DEF Arrive, OneWriter, TasksHavePermit, AllOrNothing, AnswersAreDurable
  <2>6. QED
    BY <2>2, <2>3, <2>4, <2>5
<1>2. CASE TakePermit(q)
  <2>1. /\ req'[q] = [req[q] EXCEPT !.pc = "pool"] /\ req[q].pc = "permit"
        /\ slot = Free /\ slot' = q /\ UNCHANGED <<committed, conn, tasks, acked>>
        /\ \A r \in Req \ {q} : req'[r] = req[r]
    BY <1>2 DEF TakePermit, Goto
  <2>2. tasks = {}
    BY <2>1 DEF TasksHavePermit
  <2>3. ReqFine(q)'
    <3>1. /\ req[q] \in ReqState /\ req[q].conn = NoConn /\ req[q].ok = FALSE
      BY <2>1 DEF ReqFine, Holds, ReqState
    <3>2. req'[q].conn = NoConn /\ req'[q].ok = FALSE /\ req'[q].pc = "pool"
      BY <2>1, <3>1 DEF ReqState
    <3>3. QED
      BY <2>1, <2>2, <3>2 DEF ReqFine, Holds, InTx, Writes
  <2>4. \A r \in Req \ {q} : ReqFine(r)'
    BY <2>1, OthersFine
  <2>5. ConnsOwned'
    <3>1. req'[q].conn = req[q].conn
      BY <2>1 DEF ReqState
    <3>2. \A r \in Req : req'[r].conn = req[r].conn
      BY <2>1, <3>1
    <3> HIDE DEF Core, PoolTypeOK
    <3>3. QED
      BY <3>2 DEF Core, ConnsOwned
  <2>6. OneWriter' /\ TasksHavePermit' /\ AllOrNothing' /\ AnswersAreDurable'
    BY <2>1, <2>2 DEF OneWriter, TasksHavePermit, AllOrNothing, AnswersAreDurable
  <2>7. QED
    BY <2>3, <2>4, <2>5, <2>6
<1>3. QED
  BY <1>1, <1>2

LEMMA NextCoreBegin ==
  ASSUME IInv, NEW q \in Req, Acquire(q) \/ Begin(q)
  PROVE  Core'
<1> USE PoolAssumption, Starts DEF IInv, Core, PoolTypeOK
<1>1. ASSUME NEW c \in Conn, Idle(c), req[q].pc = "pool",
             req' = [req EXCEPT ![q].conn = c, ![q].pc = "begin"],
             UNCHANGED <<committed, conn, slot, tasks, acked>>
      PROVE  Core'
  <2>1. /\ req'[q].conn = c /\ req'[q].pc = "begin" /\ req'[q].ok = FALSE
        /\ req'[q].op = req[q].op
        /\ \A r \in Req \ {q} : req'[r] = req[r]
    BY <1>1 DEF ReqState, ReqFine
  <2>2. ReqFine(q)'
    BY <1>1, <2>1 DEF ReqFine, Holds, InTx, Writes
  <2>3. \A r \in Req \ {q} : ReqFine(r)'
    BY <1>1, <2>1, OthersFine
  <2>4. ConnsOwned'
    BY <1>1, <2>1 DEF ConnsOwned, Idle
  <2>5. OneWriter' /\ TasksHavePermit' /\ AllOrNothing' /\ AnswersAreDurable'
    BY <1>1 DEF OneWriter, TasksHavePermit, AllOrNothing, AnswersAreDurable
  <2>6. QED
    BY <2>2, <2>3, <2>4, <2>5
<1>2. CASE Acquire(q)
  <2>1. CASE \E c \in Conn : /\ Idle(c)
                             /\ req' = [req EXCEPT ![q].conn = c, ![q].pc = "begin"]
                             /\ UNCHANGED slot
    BY <1>1, <1>2, <2>1, Zenon DEF Acquire
  <2>2. CASE req' = Dropped(q) /\ slot' = SlotAfter(q)
    BY <1>2, <2>2, EndFine DEF Acquire
  <2>3. QED
    BY <1>2, <2>1, <2>2, Zenon DEF Acquire
<1>3. CASE Begin(q)
  <2> DEFINE c == req[q].conn
             kind == IF req[q].op = "diff" THEN "read" ELSE "write"
  <2>1. /\ req[q] \in ReqState /\ req[q].pc = "begin" /\ c \in Conn /\ req[q].ok = FALSE
        /\ conn'[c].tx = kind /\ conn'[c].data = committed
        /\ \A d \in Conn \ {c} : conn'[d] = conn[d]
        /\ kind = "write" => ~WriteLocked
        /\ req'[q] = [req[q] EXCEPT !.pc = "first"]
        /\ \A r \in Req \ {q} : req'[r] = req[r]
        /\ UNCHANGED <<committed, slot, tasks, acked>>
    BY <1>3 DEF Begin, Goto, ReqFine, Holds, ReqState
  <2>2. /\ req'[q].pc = "first" /\ req'[q].op = req[q].op /\ req'[q].conn = c
        /\ req'[q].ok = FALSE
    BY <2>1 DEF ReqState
  <2>3. ReqFine(q)'
    BY <2>1, <2>2 DEF ReqFine, Holds, InTx, Writes
  <2>4. \A r \in Req \ {q} : ReqFine(r)'
    <3>1. \A r \in Req \ {q} : Holds(r) => conn'[req[r].conn] = conn[req[r].conn]
      BY <2>1, HeldApart
    <3>2. QED
      BY <2>1, <3>1, OthersFine
  <2>5. ConnsOwned'
    <3>1. \A r \in Req : req'[r].conn = req[r].conn
      BY <2>1, <2>2
    <3> HIDE DEF Core, PoolTypeOK
    <3>2. QED
      BY <3>1 DEF Core, ConnsOwned
  <2>6. OneWriter'
    BY <2>1 DEF OneWriter, WriteLocked
  <2>7. TasksHavePermit' /\ AllOrNothing' /\ AnswersAreDurable'
    BY <2>1 DEF TasksHavePermit, AllOrNothing, AnswersAreDurable
  <2>8. QED
    BY <2>3, <2>4, <2>5, <2>6, <2>7
<1>4. QED
  BY <1>2, <1>3
(* The statements of the three handlers.                                      *)
LEMMA NextCoreSave ==
  ASSUME IInv, PoolTypeOK', NEW q \in Req, SaveInsert(q) \/ SaveAdvance(q)
  PROVE  Core'
<1> USE PoolAssumption DEF IInv, Core, PoolTypeOK
<1> DEFINE c == req[q].conn
           d == conn[c].data
<1>0. /\ req[q].pc \in {"first", "second"} /\ req[q].op = "save" /\ Writes(q)
      /\ req[q] \in ReqState /\ c \in Conn /\ conn[c] \in ConnState /\ req[q].ok = FALSE
      /\ conn[c].tx = "write" /\ UNCHANGED <<committed, slot, tasks, acked>>
  BY DEF SaveInsert, SaveAdvance, ReqFine, Writes, Holds, InTx, ReqState
<1>1. CASE SaveInsert(q) /\ d.current # req[q].want.current
  <2>1. conn' = conn /\ req'[q] = [req[q] EXCEPT !.pc = "finish"]
        /\ \A r \in Req \ {q} : req'[r] = req[r]
    BY <1>1 DEF SaveInsert, Goto
  <2>2. req'[q].pc = "finish" /\ req'[q].conn = c /\ req'[q].ok = FALSE /\ req'[q].op = "save"
    BY <1>0, <2>1 DEF ReqState
  <2>3. ReqFine(q)'
    BY <1>0, <2>1, <2>2 DEF ReqFine, Holds, InTx, Writes
  <2>4. QED
    BY <1>0, <2>1, <2>2, <2>3, StepFine
<1>2. CASE SaveInsert(q) /\ d.current = req[q].want.current
  <2>1. /\ req[q].pc = "first" /\ conn' = [conn EXCEPT ![c].data.inserted = @ + 1]
        /\ req'[q] = [req[q] EXCEPT !.pc = "second"]
        /\ \A r \in Req \ {q} : req'[r] = req[r]
    BY <1>2 DEF SaveInsert, Goto
  <2>2. req'[q].pc = "second" /\ req'[q].conn = c /\ req'[q].ok = FALSE /\ req'[q].op = "save"
    BY <1>0, <2>1 DEF ReqState
  <2>3. /\ conn'[c].tx = "write" /\ conn'[c].data = [d EXCEPT !.inserted = d.inserted + 1]
        /\ \A e \in Conn : e # c => conn'[e] = conn[e]
    BY <1>0, <2>1 DEF ConnState, Data
  <2>4. d = committed
    BY <1>0, <2>1 DEF ReqFine
  <2>5. ReqFine(q)'
    BY <1>0, <2>2, <2>3, <2>4 DEF ReqFine, Holds, InTx, Writes
  <2>6. QED
    BY <1>0, <2>1, <2>2, <2>3, <2>5, StepFine
<1>3. CASE SaveAdvance(q)
  <2>1. /\ req[q].pc = "second" /\ conn' = [conn EXCEPT ![c].data.current = d.inserted]
        /\ req'[q] = [[req[q] EXCEPT !.pc = "finish"] EXCEPT !.ok = TRUE]
        /\ \A r \in Req \ {q} : req'[r] = req[r]
    BY <1>3 DEF SaveAdvance
  <2>2. req'[q].pc = "finish" /\ req'[q].conn = c /\ req'[q].ok = TRUE /\ req'[q].op = "save"
    BY <1>0, <2>1 DEF ReqState
  <2>3. /\ conn'[c].tx = "write" /\ conn'[c].data = [d EXCEPT !.current = d.inserted]
        /\ \A e \in Conn : e # c => conn'[e] = conn[e]
    BY <1>0, <2>1 DEF ConnState, Data
  <2>4. d = [committed EXCEPT !.inserted = committed.inserted + 1]
    BY <1>0, <2>1 DEF ReqFine
  <2>5. Sound(conn[c].data)'
    <3>1. committed \in Data /\ committed.inserted = committed.current
          /\ committed.served <= committed.current
      BY DEF AllOrNothing
    <3>2. /\ d.inserted = committed.inserted + 1 /\ d.served = committed.served
          /\ d.current = committed.current /\ d \in Data
      BY <1>0, <2>4, <3>1 DEF Data, ConnState
    <3>3. /\ conn'[c].data.inserted = d.inserted /\ conn'[c].data.current = d.inserted
          /\ conn'[c].data.served = d.served
      BY <2>3, <3>2 DEF Data
    <3>4. committed'.current = committed.current /\ committed'.served = committed.served
      BY <1>0
    <3>5. QED
      BY <2>2, <3>1, <3>2, <3>3, <3>4 DEF Sound, Data, Rev
  <2>6. ReqFine(q)'
    BY <1>0, <2>2, <2>3, <2>5 DEF ReqFine, Holds, InTx, Writes
  <2>7. QED
    BY <1>0, <2>1, <2>2, <2>3, <2>6, StepFine
<1>4. QED
  BY <1>1, <1>2, <1>3
LEMMA NextCorePublish ==
  ASSUME IInv, PoolTypeOK', NEW q \in Req, PublishUpdate(q)
  PROVE  Core'
<1> USE PoolAssumption DEF IInv, Core, PoolTypeOK
<1> DEFINE c == req[q].conn
           d == conn[c].data
<1>0. /\ req[q].pc = "first" /\ req[q].op = "publish" /\ Writes(q)
      /\ req[q] \in ReqState /\ c \in Conn /\ conn[c] \in ConnState /\ req[q].ok = FALSE
      /\ conn[c].tx = "write" /\ UNCHANGED <<committed, slot, tasks, acked>>
  BY DEF PublishUpdate, ReqFine, Writes, Holds, InTx, ReqState
<1>1. CASE conn' = conn /\ Goto(q, "finish")
  <2>1. req'[q] = [req[q] EXCEPT !.pc = "finish"] /\ \A r \in Req \ {q} : req'[r] = req[r]
    BY <1>1 DEF Goto
  <2>2. req'[q].pc = "finish" /\ req'[q].conn = c /\ req'[q].ok = FALSE /\ req'[q].op = "publish"
    BY <1>0, <2>1 DEF ReqState
  <2>3. ReqFine(q)'
    BY <1>0, <1>1, <2>2 DEF ReqFine, Holds, InTx, Writes
  <2>4. QED
    BY <1>0, <1>1, <2>1, <2>2, <2>3, StepFine
<1>2. CASE /\ conn' = [conn EXCEPT ![c].data.served = d.current]
           /\ req' = [req EXCEPT ![q].pc = "finish", ![q].ok = TRUE]
  <2>1. /\ req'[q] = [[req[q] EXCEPT !.pc = "finish"] EXCEPT !.ok = TRUE]
        /\ \A r \in Req \ {q} : req'[r] = req[r]
    BY <1>2
  <2>2. req'[q].pc = "finish" /\ req'[q].conn = c /\ req'[q].ok = TRUE /\ req'[q].op = "publish"
    BY <1>0, <2>1 DEF ReqState
  <2>3. /\ conn'[c].tx = "write" /\ conn'[c].data = [d EXCEPT !.served = d.current]
        /\ \A e \in Conn : e # c => conn'[e] = conn[e]
    BY <1>0, <1>2 DEF ConnState, Data
  <2>4. d = committed
    BY <1>0 DEF ReqFine
  <2>5. Sound(conn[c].data)'
    <3>1. committed \in Data /\ committed.inserted = committed.current
          /\ committed.served <= committed.current
      BY DEF AllOrNothing
    <3>2. /\ conn'[c].data.inserted = committed.current
          /\ conn'[c].data.current = committed.current
          /\ conn'[c].data.served = committed.current
      BY <2>3, <2>4, <3>1 DEF Data
    <3>3. QED
      BY <1>0, <2>2, <3>1, <3>2 DEF Sound, Data, Rev
  <2>6. ReqFine(q)'
    BY <1>0, <2>2, <2>3, <2>5 DEF ReqFine, Holds, InTx, Writes
  <2>7. QED
    BY <1>0, <2>1, <2>2, <2>3, <2>6, StepFine
<1>3. QED
  BY <1>1, <1>2, Zenon DEF PublishUpdate

LEMMA NextCoreDiff ==
  ASSUME IInv, PoolTypeOK', NEW q \in Req, DiffFirst(q) \/ DiffSecond(q)
  PROVE  Core'
<1> USE PoolAssumption DEF IInv, Core, PoolTypeOK
<1> DEFINE c == req[q].conn
<1>0. /\ req[q].pc \in {"first", "second"} /\ req[q].op = "diff" /\ InTx(q) /\ Holds(q)
      /\ req[q] \in ReqState /\ c \in Conn /\ conn[c] \in ConnState /\ req[q].ok = FALSE
      /\ conn[c].tx = "read" /\ UNCHANGED <<committed, slot, tasks, acked>>
      /\ slot = q /\ q \notin tasks
  BY DEF DiffFirst, DiffSecond, ReqFine, Holds, InTx, ReqState
<1>1. CASE DiffFirst(q)
  <2>1. /\ conn' = [conn EXCEPT ![c].data = committed]
        /\ req'[q] = [[req[q] EXCEPT !.pc = "second"] EXCEPT !.seen = committed]
        /\ \A r \in Req \ {q} : req'[r] = req[r]
    BY <1>1 DEF DiffFirst
  <2>2. /\ req'[q].pc = "second" /\ req'[q].conn = c /\ req'[q].ok = FALSE
        /\ req'[q].op = "diff" /\ req'[q].seen = committed
    BY <1>0, <2>1 DEF ReqState
  <2>3. /\ conn'[c].tx = "read" /\ conn'[c].data = committed
        /\ \A e \in Conn : e # c => conn'[e] = conn[e]
    BY <1>0, <2>1 DEF ConnState
  <2>4. ReqFine(q)'
    BY <1>0, <2>2, <2>3 DEF ReqFine, Holds, InTx, Writes
  <2>5. QED
    BY <1>0, <2>1, <2>2, <2>3, <2>4, StepFine
<1>2. CASE DiffSecond(q)
  <2> DEFINE seen == VisibleOn(c)
  <2>1. /\ conn' = conn
        /\ req'[q] = [[[req[q] EXCEPT !.pc = "finish"] EXCEPT !.again = seen] EXCEPT !.ok = TRUE]
        /\ \A r \in Req \ {q} : req'[r] = req[r]
    BY <1>2 DEF DiffSecond
  <2>2. /\ req'[q].pc = "finish" /\ req'[q].conn = c /\ req'[q].ok = TRUE
        /\ req'[q].op = "diff" /\ req'[q].again = seen /\ req'[q].seen = req[q].seen
    BY <1>0, <2>1 DEF ReqState
  <2>3. seen = req[q].seen
    BY <1>0, <1>2 DEF VisibleOn, ReqFine, DiffSecond
  <2>4. ReqFine(q)'
    BY <1>0, <2>1, <2>2, <2>3 DEF ReqFine, Holds, InTx, Writes
  <2>5. QED
    BY <1>0, <2>1, <2>2, <2>4, StepFine
<1>3. QED
  BY <1>1, <1>2

LEMMA NextCoreFailure ==
  ASSUME IInv, PoolTypeOK', NEW q \in Req, StatementFails(q)
  PROVE  Core'
<1> USE PoolAssumption DEF IInv, Core, PoolTypeOK
<1>1. /\ req[q] \in ReqState /\ req[q].pc \in {"first", "second"} /\ req[q].ok = FALSE
      /\ req'[q] = [req[q] EXCEPT !.pc = "finish"]
      /\ \A r \in Req \ {q} : req'[r] = req[r]
      /\ UNCHANGED <<committed, conn, slot, tasks, acked>>
  BY DEF StatementFails, Goto, ReqFine, ReqState
<1>2. /\ req'[q].pc = "finish" /\ req'[q].conn = req[q].conn /\ req'[q].ok = FALSE
      /\ req'[q].op = req[q].op
  BY <1>1 DEF ReqState
<1>3. ReqFine(q)'
  BY <1>1, <1>2 DEF ReqFine, Holds, InTx, Writes
<1>4. QED
  BY <1>1, <1>2, <1>3, StepFine

(* COMMIT: what a writer commits is sound, and nobody else writes meanwhile;  *)
(* the transaction of a diff leaves the database as it is.                    *)
LEMMA NextCoreCommit ==
  ASSUME IInv, PoolTypeOK', NEW q \in Req, Commit(q)
  PROVE  Core'
<1> USE PoolAssumption, Starts DEF IInv, Core, PoolTypeOK
<1> DEFINE c == req[q].conn
           d == conn[c].data
<1>0. /\ req[q].pc = "finish" /\ req[q].ok = TRUE /\ InTx(q) /\ Holds(q)
      /\ req[q] \in ReqState /\ c \in Conn /\ conn[c] \in ConnState
      /\ conn[c].tx = IF req[q].op = "diff" THEN "read" ELSE "write"
      /\ conn' = [conn EXCEPT ![c] = Fresh] /\ slot' = slot
  BY DEF Commit, ReqFine, Holds, InTx, ReqState
<1>1. OneWriter'
  BY <1>0 DEF OneWriter
<1>2. \A r \in Req \ {q} : Holds(r) => conn'[req[r].conn] = conn[req[r].conn]
  BY <1>0, HeldApart
<1>3. CASE req[q].op = "diff"
  <2>1. /\ committed' = committed /\ acked' = acked /\ tasks' = tasks \cup {q}
        /\ req'[q] = [[req[q] EXCEPT !.pc = "compute"] EXCEPT !.conn = NoConn]
        /\ \A r \in Req \ {q} : req'[r] = req[r]
    BY <1>0, <1>3 DEF Commit
  <2>2. /\ req'[q].pc = "compute" /\ req'[q].conn = NoConn /\ req'[q].ok = TRUE
        /\ req'[q].op = "diff" /\ req'[q].again = req[q].again /\ req'[q].seen = req[q].seen
    BY <1>0, <1>3, <2>1 DEF ReqState
  <2>3. slot = q /\ req[q].again = req[q].seen
    BY <1>0, <1>3 DEF ReqFine
  <2>4. ReqFine(q)'
    BY <2>1, <2>2, <2>3 DEF ReqFine, Holds, InTx, Writes
  <2>5. \A r \in Req \ {q} : ReqFine(r)'
    BY <1>0, <1>2, <2>1, OthersFine
  <2>6. ConnsOwned' /\ TasksHavePermit' /\ AllOrNothing' /\ AnswersAreDurable'
    <3>1. ConnsOwned'
      <4>1. req'[q].conn = NoConn /\ \A r \in Req \ {q} : req'[r].conn = req[r].conn
        BY <2>1, <2>2
      <4> HIDE DEF Core, PoolTypeOK
      <4>2. QED
        BY <4>1 DEF Core, ConnsOwned
    <3>2. TasksHavePermit'
      BY <1>0, <2>1, <2>3 DEF TasksHavePermit
    <3>3. AllOrNothing' /\ AnswersAreDurable'
      BY <2>1 DEF AllOrNothing, AnswersAreDurable
    <3>4. QED
      BY <3>1, <3>2, <3>3
  <2>7. QED
    BY <1>1, <2>4, <2>5, <2>6
<1>4. CASE req[q].op # "diff"
  <2>1. /\ committed' = d /\ tasks' = tasks /\ req' = Dropped(q)
        /\ acked' = IF req[q].op = "save"
                      THEN [acked EXCEPT !.save = d.current]
                      ELSE [acked EXCEPT !.publish = d.served]
    BY <1>0, <1>4 DEF Commit
  <2>2. req'[q] = Done /\ \A r \in Req \ {q} : req'[r] = req[r]
    BY <2>1 DEF Dropped
  <2>3. Writes(q) /\ Sound(d)
    BY <1>0, <1>4 DEF Writes, ReqFine
  <2>4. ReqFine(q)'
    BY <2>2 DEF ReqFine, Holds, InTx, Writes
  <2>5. \A r \in Req \ {q} : ReqFine(r)'
    <3>1. \A r \in Req \ {q} : ~Writes(r)
      BY <2>3, WriterAlone
    <3>2. QED
      BY <1>0, <1>2, <2>1, <2>2, <3>1, OthersFine
  <2>6. ConnsOwned' /\ TasksHavePermit' /\ AllOrNothing'
    <3>1. ConnsOwned'
      BY <2>2 DEF ConnsOwned
    <3>2. TasksHavePermit'
      BY <1>0, <2>1 DEF TasksHavePermit
    <3>3. AllOrNothing'
      BY <2>1, <2>3 DEF AllOrNothing, Sound
    <3>4. QED
      BY <3>1, <3>2, <3>3
  <2>7. AnswersAreDurable'
    <3>1. /\ d \in Data /\ committed \in Data /\ acked.save \in Rev /\ acked.publish \in Rev
          /\ acked.save <= committed.current /\ acked.publish <= committed.served
      BY <1>0 DEF ConnState, AnswersAreDurable
    <3>2. acked'.save \in {acked.save, d.current} /\ acked'.publish \in {acked.publish, d.served}
      BY <2>1
    <3>3. committed'.current = d.current /\ committed'.served = d.served
      BY <2>1
    <3>4. QED
      BY <2>3, <3>1, <3>2, <3>3 DEF AnswersAreDurable, Sound, Data, Rev
  <2>8. QED
    BY <1>1, <2>4, <2>5, <2>6, <2>7
<1>5. QED
  BY <1>3, <1>4
LEMMA NextCoreTask ==
  ASSUME IInv, PoolTypeOK', NEW q \in Req, TaskEnds(q)
  PROVE  Core'
<1> USE PoolAssumption, Starts DEF IInv, Core, PoolTypeOK
<1>0. /\ q \in tasks /\ slot = q /\ tasks' = {} /\ slot' = Free
      /\ UNCHANGED <<committed, conn, acked>>
  BY DEF TaskEnds, TasksHavePermit
<1>1. /\ req'[q] = Done \/ (req[q].pc # "compute" /\ req'[q] = req[q])
      /\ \A r \in Req \ {q} : req'[r] = req[r] /\ r \notin tasks
  BY <1>0 DEF TaskEnds, Dropped, TasksHavePermit
<1>2. ReqFine(q)'
  <2>1. CASE req'[q] = Done
    BY <2>1 DEF ReqFine, Holds, InTx, Writes
  <2>2. CASE req[q].pc # "compute" /\ req'[q] = req[q]
    BY <1>0, <2>2 DEF ReqFine, Holds, InTx, Writes, Sound
  <2>3. QED
    BY <1>1, <2>1, <2>2
<1>3. \A r \in Req \ {q} : ReqFine(r)'
  BY <1>0, <1>1, OthersFine
<1>4. ConnsOwned'
  BY <1>1 DEF ConnsOwned
<1>5. OneWriter' /\ TasksHavePermit' /\ AllOrNothing' /\ AnswersAreDurable'
  BY <1>0 DEF OneWriter, TasksHavePermit, AllOrNothing, AnswersAreDurable
<1>6. QED
  BY <1>2, <1>3, <1>4, <1>5

(* A subscription borrows an idle connection for each of its statements; the  *)
(* transaction its stamp may turn into a writing one belongs to nobody.       *)
LEMMA NextCoreFetch ==
  ASSUME IInv, PoolTypeOK', NEW q \in Req, FetchSelect(q) \/ FetchStamp(q)
  PROVE  Core'
<1> USE PoolAssumption, Starts DEF IInv, Core, PoolTypeOK
<1>1. ASSUME NEW c \in Conn, req[q].pc = "select",
             req' = [req EXCEPT ![q].pc = "stamp", ![q].seen = VisibleOn(c)],
             UNCHANGED <<committed, conn, slot, tasks, acked>>
      PROVE  Core'
  <2>1. /\ req[q] \in ReqState /\ req[q].conn = NoConn /\ req[q].ok = FALSE
        /\ req'[q] = [[req[q] EXCEPT !.pc = "stamp"] EXCEPT !.seen = VisibleOn(c)]
        /\ \A r \in Req \ {q} : req'[r] = req[r]
    BY <1>1 DEF ReqFine, Holds, ReqState
  <2>2. req'[q].pc = "stamp" /\ req'[q].conn = NoConn /\ req'[q].ok = FALSE
    BY <2>1 DEF ReqState
  <2>3. ReqFine(q)'
    BY <2>2 DEF ReqFine, Holds, InTx, Writes
  <2>4. QED
    BY <1>1, <2>1, <2>2, <2>3, StepFine
<1>2. CASE FetchSelect(q)
  <2>1. CASE req' = Dropped(q)
    <3>1. req'[q] = Done /\ \A r \in Req \ {q} : req'[r] = req[r]
      BY <2>1 DEF Dropped
    <3>2. UNCHANGED <<committed, conn, slot, tasks, acked>>
      BY <1>2 DEF FetchSelect
    <3>3. ReqFine(q)'
      BY <3>1 DEF ReqFine, Holds, InTx, Writes
    <3>4. \A r \in Req \ {q} : ReqFine(r)'
      BY <3>1, <3>2, OthersFine
    <3>5. ConnsOwned'
      BY <3>1 DEF ConnsOwned
    <3>6. OneWriter' /\ TasksHavePermit' /\ AllOrNothing' /\ AnswersAreDurable'
      BY <3>2 DEF OneWriter, TasksHavePermit, AllOrNothing, AnswersAreDurable
    <3>7. QED
      BY <3>3, <3>4, <3>5, <3>6
  <2>2. CASE \E c \in Conn : req' = [req EXCEPT ![q].pc = "stamp", ![q].seen = VisibleOn(c)]
    BY <1>1, <1>2, <2>2, Zenon DEF FetchSelect
  <2>3. QED
    BY <1>2, <2>1, <2>2, Zenon DEF FetchSelect
<1>3. CASE FetchStamp(q)
  <2>1. /\ req' = Dropped(q) /\ UNCHANGED <<committed, slot, tasks, acked>>
        /\ \/ conn' = conn
           \/ \E c \in Conn : /\ Idle(c) /\ ~WriteLocked
                              /\ conn' = [conn EXCEPT ![c].tx = "write"]
    BY <1>3, Zenon DEF FetchStamp
  <2>2. req'[q] = Done /\ \A r \in Req \ {q} : req'[r] = req[r]
    BY <2>1 DEF Dropped
  <2>3. ReqFine(q)'
    BY <2>2 DEF ReqFine, Holds, InTx, Writes
  <2>4. \A r \in Req \ {q} : ReqFine(r)'
    <3>1. \A c \in Conn : ~Idle(c) => conn'[c] = conn[c]
      BY <2>1
    <3>2. \A r \in Req \ {q} : Holds(r) => conn'[req[r].conn] = conn[req[r].conn]
      BY <3>1, HeldApart
    <3>3. QED
      BY <2>1, <2>2, <3>2, OthersFine
  <2>5. ConnsOwned'
    BY <2>2 DEF ConnsOwned
  <2>6. OneWriter'
    BY <2>1 DEF OneWriter, WriteLocked, ConnState
  <2>7. TasksHavePermit' /\ AllOrNothing' /\ AnswersAreDurable'
    BY <2>1 DEF TasksHavePermit, AllOrNothing, AnswersAreDurable
  <2>8. QED
    BY <2>3, <2>4, <2>5, <2>6, <2>7
<1>4. QED
  BY <1>2, <1>3

LEMMA NextCoreReset ==
  ASSUME IInv, PoolTypeOK',
         \/ \E c \in Conn : Recycle(c)
         \/ Crash
         \/ UNCHANGED vars
  PROVE  Core'
<1> USE PoolAssumption, Starts DEF IInv, Core, PoolTypeOK
<1>1. ASSUME NEW c \in Conn, Recycle(c)
      PROVE  Core'
  <2>1. /\ conn' = [conn EXCEPT ![c] = Fresh] /\ Idle(c)
        /\ UNCHANGED <<committed, req, slot, tasks, acked>>
    BY <1>1 DEF Recycle
  <2>2. ASSUME NEW r \in Req
        PROVE  ReqFine(r)'
    <3>1. Holds(r) => conn'[req[r].conn] = conn[req[r].conn]
      BY <2>1 DEF Idle, ReqFine, ReqState
    <3>2. InTx(r) => Holds(r)
      BY DEF InTx, Holds
    <3>3. ReqFine(r)
      OBVIOUS
    <3>4. QED
      BY <2>1, <3>1, <3>2, <3>3 DEF ReqFine, Holds, InTx, Writes, Sound
  <2>3. OneWriter'
    BY <2>1 DEF OneWriter
  <2>4. ConnsOwned' /\ TasksHavePermit' /\ AllOrNothing' /\ AnswersAreDurable'
    BY <2>1 DEF ConnsOwned, TasksHavePermit, AllOrNothing, AnswersAreDurable
  <2>5. QED
    BY <2>2, <2>3, <2>4
<1>2. CASE Crash
  <2>1. /\ \A q \in Req : req'[q] = Done
        /\ \A c \in Conn : conn'[c] = Fresh
        /\ tasks' = {} /\ UNCHANGED <<committed, acked>>
    BY <1>2 DEF Crash
  <2>2. ASSUME NEW r \in Req
        PROVE  ReqFine(r)'
    BY <2>1 DEF ReqFine, Holds, InTx, Writes
  <2>3. ConnsOwned' /\ OneWriter'
    BY <2>1 DEF ConnsOwned, OneWriter
  <2>4. TasksHavePermit' /\ AllOrNothing' /\ AnswersAreDurable'
    BY <2>1 DEF TasksHavePermit, AllOrNothing, AnswersAreDurable
  <2>5. QED
    BY <2>2, <2>3, <2>4
<1>3. CASE UNCHANGED vars
  <2>1. \A r \in Req : ReqFine(r)'
    BY <1>3 DEF vars, ReqFine, Holds, InTx, Writes, Sound
  <2>2. QED
    BY <1>3, <2>1 DEF vars, ConnsOwned, OneWriter, TasksHavePermit, AllOrNothing, AnswersAreDurable
<1>4. QED
  BY <1>1, <1>2, <1>3

-----------------------------------------------------------------------------------
LEMMA Inductive == IInv /\ [Next]_vars => IInv'
<1> SUFFICES ASSUME IInv, [Next]_vars
             PROVE  IInv'
  OBVIOUS
<1>0. PoolTypeOK'
  BY NextPoolTypeOK DEF IInv, Core
<1>1. ASSUME NEW q \in Req, Rollback(q) \/ BeginFails(q) \/ Cancel(q)
      PROVE  Core'
  <2>1. Rollback(q) => InTx(q)
    BY DEF Rollback, InTx
  <2>2. QED
    BY <1>1, <2>1, EndFine DEF Rollback, BeginFails, Cancel
<1>2. ASSUME NEW q \in Req, Step(q)
      PROVE  Core'
  BY <1>0, <1>1, <1>2, NextCoreBegin, NextCoreSave, NextCorePublish, NextCoreDiff,
     NextCoreFailure, NextCoreCommit, NextCoreFetch DEF Step
<1>3. Core'
  BY <1>0, <1>1, <1>2, NextCoreArrival, NextCoreTask, NextCoreReset DEF Next
<1>4. QED
  BY <1>0, <1>3 DEF IInv

LEMMA Invariance == Spec => []IInv
  BY InitIInv, Inductive, PTL DEF Spec

(* However requests are cancelled, statements fail or the process crashes, no *)
(* commit stores one part of a handler without the other.                     *)
THEOREM AlwaysAllOrNothing == Spec => []AllOrNothing
<1>1. IInv => AllOrNothing
  BY DEF IInv, Core
<1>2. QED
  BY Invariance, <1>1, PTL

(* The revision that a Save or a Publish was answered with is committed, and  *)
(* stays so.  Both run in a transaction of their own or not at all: BEGIN     *)
(* fails inside one that a dropped request left open.  Nothing is said of     *)
(* autocommit writes, which join such a transaction and may be lost.          *)
THEOREM AnswersAlwaysDurable == Spec => []AnswersAreDurable
<1>1. IInv => AnswersAreDurable
  BY DEF IInv, Core
<1>2. QED
  BY Invariance, <1>1, PTL

(* A diff compares two revisions of one committed state.                      *)
THEOREM DiffsAlwaysReadOneSnapshot == Spec => []SnapshotReads
<1>1. IInv => SnapshotReads
  BY DEF IInv, Core, ReqFine, SnapshotReads
<1>2. QED
  BY Invariance, <1>1, PTL

(* The permit bounds the diffs that are computed, not the requests for them:  *)
(* there is one at a time, also when requests are cancelled under way.        *)
THEOREM AlwaysOneDiffAtATime == Spec => []OneDiffAtATime
<1>1. IInv => OneDiffAtATime
  BY DEF IInv, Core, TasksHavePermit, OneDiffAtATime
<1>2. QED
  BY Invariance, <1>1, PTL
===================================================================================
