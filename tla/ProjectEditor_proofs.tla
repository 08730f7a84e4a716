---------------------------- MODULE ProjectEditor_proofs ----------------------------
(***************************************************************************)
(* Theorems about ProjectEditor for every set of projects, sources and     *)
(* calls and every number of revisions.  An answer of the service is about *)
(* some moment of the past: the invariant says how it relates to what the  *)
(* service has now, to the page, and to the answers that are still to be   *)
(* delivered.                                                              *)
(***************************************************************************)
EXTENDS ProjectEditor, TLAPS

History == UNION {[1..n -> Bytes] : n \in Rev}

Row == [name: Name, revs: History, served: Rev]

\* What `a` shows was so at some moment: unless its project is deleted, the
\* service has the revision it shows, and is as far or further.
Past(a) ==
    Exists(a.id) =>
      /\ a.current \in 1..Len(db[a.id].revs)
      /\ a.source = db[a.id].revs[a.current]
      /\ a.served <= db[a.id].served

\* The page shows the past of the route whose effect ran last.
PageIsPast ==
    /\ project # None =>
         /\ project.id = mounted
         /\ Past(project)
         /\ working \in Bytes
    /\ \A p \in ProjectId : db[p].served <= Len(db[p].revs)

\* What the service reads of the message m, and the answer it gave.
Sensible(m) ==
    /\ m \in CallState
    /\ m.kind # "none" => m.id \in ProjectId
    /\ m.kind = "rename" => m.name \in Name
    /\ m.kind \in Gated => m.sent \in Bytes
    /\ m.state = "sent" => m.answer = None
    /\ m.answer # None => m.answer.id = m.id /\ Past(m.answer)

\* A publish sends the bytes of the revision it expects to be the last one.
PublishNamesItsBytes(m) ==
    m.kind = "publish" /\ Exists(m.id) =>
      /\ m.expected[1] \in 1..Len(db[m.id].revs)
      /\ m.sent = db[m.id].revs[m.expected[1]]

\* A call of this generation is of the route whose effect ran last.  A load is
\* awaited by an empty page, every other call by one that is not, and a save or
\* publish by the gate, while the pointers of the page stay as they were sent.
Awaited(c, m) ==
    m.fresh =>
      /\ m.kind # "none" /\ m.id = mounted
      /\ m.kind = "load" <=> project = None
      /\ m.kind \in Gated =>
           /\ gate = c
           /\ m.expected = <<project.current, project.served>>
           /\ m.answer # None => /\ m.answer.current >= project.current
                                 /\ m.answer.served >= project.served

OneLoad ==
    \A c, d \in Call :
      call[c].fresh /\ call[d].fresh /\ call[c].kind = "load" /\ call[d].kind = "load" => c = d

CallFine(c, m) == Sensible(m) /\ PublishNamesItsBytes(m) /\ Awaited(c, m)

IInv ==
    /\ EditorTypeOK
    /\ PageIsPast
    /\ OneLoad
    /\ \A c \in Call : CallFine(c, call[c])

-------------------------------------------------------------------------------------
(* Histories are sequences of at most MaxRev sources.                         *)
LEMMA HistoryShape ==
  /\ <<>> \in History
  /\ \A h \in History : h \in Seq(Bytes) /\ Len(h) \in Rev
  /\ \A b \in Bytes : <<b>> \in History
  /\ \A h \in History, b \in Bytes :
       Len(h) < MaxRev =>
         /\ Append(h, b) \in History
         /\ Len(Append(h, b)) = Len(h) + 1
         /\ Append(h, b)[Len(h) + 1] = b
         /\ \A k \in 1..Len(h) : Append(h, b)[k] = h[k]
<1> USE EditorAssumption DEF Rev
<1>1. \A n \in Rev : \A h \in [1..n -> Bytes] : h \in Seq(Bytes) /\ Len(h) = n
  OBVIOUS
<1>2. \A h \in History : h \in Seq(Bytes) /\ Len(h) \in Rev
  BY <1>1 DEF History
<1>3. \A n \in Rev, h \in Seq(Bytes) : Len(h) = n => h \in History
  BY DEF History
<1>4. \A h \in Seq(Bytes) : Len(h) \in Rev => h \in History
  BY <1>3
<1>5. <<>> \in History /\ \A b \in Bytes : <<b>> \in History
  <2>1. <<>> \in Seq(Bytes) /\ Len(<<>>) = 0
    OBVIOUS
  <2>2. \A b \in Bytes : <<b>> \in Seq(Bytes) /\ Len(<<b>>) = 1
    OBVIOUS
  <2>3. 0 \in Rev /\ 1 \in Rev
    OBVIOUS
  <2>4. QED
    BY <1>4, <2>1, <2>2, <2>3
<1>6. ASSUME NEW h \in History, NEW b \in Bytes, Len(h) < MaxRev
      PROVE  /\ Append(h, b) \in History
             /\ Len(Append(h, b)) = Len(h) + 1
             /\ Append(h, b)[Len(h) + 1] = b
             /\ \A k \in 1..Len(h) : Append(h, b)[k] = h[k]
  <2>1. /\ Append(h, b) \in Seq(Bytes) /\ Len(Append(h, b)) = Len(h) + 1
        /\ Append(h, b)[Len(h) + 1] = b
        /\ \A k \in 1..Len(h) : Append(h, b)[k] = h[k]
    BY <1>2, <1>6
  <2>2. Len(h) + 1 \in Rev
    BY <1>2, <1>6
  <2>3. QED
    <3> HIDE DEF Rev
    <3>1. QED
      BY <1>4, <2>1, <2>2
<1>7. QED
  BY <1>2, <1>5, <1>6

LEMMA RowShape ==
  ASSUME NEW d \in Row
  PROVE  /\ d.revs \in Seq(Bytes) /\ Len(d.revs) \in Nat /\ Len(d.revs) \in Rev
         /\ d.revs \in History /\ d.served \in Rev /\ d.served \in Nat /\ d.name \in Name
         /\ d.revs # <<>> <=> Len(d.revs) # 0
<1>1. d.revs \in History /\ d.served \in Rev /\ d.name \in Name
  BY DEF Row
<1>2. d.revs \in Seq(Bytes) /\ Len(d.revs) \in Rev
  BY <1>1, HistoryShape
<1>3. d.revs # <<>> <=> Len(d.revs) # 0
  BY <1>2
<1>4. QED
  BY <1>1, <1>2, <1>3, EditorAssumption DEF Rev

LEMMA RowsTyped ==
  EditorTypeOK => db \in [ProjectId -> Row] /\ \A p \in ProjectId : db[p] \in Row
  BY DEF EditorTypeOK, Row, History

(* What the service's steps do to its projects: a history grows or ends, and  *)
(* the served revision never goes back before the end.                        *)
Grows ==
    \A p \in ProjectId :
      Exists(p)' =>
        /\ Exists(p)
        /\ Len(db[p].revs) <= Len(db'[p].revs)
        /\ db[p].served <= db'[p].served
        /\ \A k \in 1..Len(db[p].revs) : db'[p].revs[k] = db[p].revs[k]

LEMMA PastKept ==
  ASSUME EditorTypeOK, db' \in [ProjectId -> Row], Grows, NEW a \in Shown, Past(a)
  PROVE  Past(a)'
<1>1. a.id \in ProjectId /\ a.served \in Nat /\ a.current \in Nat
  BY EditorAssumption DEF Shown, Rev
<1>2. SUFFICES ASSUME Exists(a.id)'
               PROVE  /\ a.current \in 1..Len(db'[a.id].revs)
                      /\ a.source = db'[a.id].revs[a.current]
                      /\ a.served <= db'[a.id].served
  BY DEF Past
<1>3. db[a.id] \in Row /\ db'[a.id] \in Row
  BY <1>1, RowsTyped
<1>4. /\ Len(db[a.id].revs) \in Nat /\ Len(db'[a.id].revs) \in Nat
      /\ db[a.id].served \in Nat /\ db'[a.id].served \in Nat
  BY <1>3, RowShape
<1>5. /\ Exists(a.id) /\ Len(db[a.id].revs) <= Len(db'[a.id].revs)
      /\ db[a.id].served <= db'[a.id].served
      /\ \A k \in 1..Len(db[a.id].revs) : db'[a.id].revs[k] = db[a.id].revs[k]
  BY <1>1, <1>2 DEF Grows
<1>6. /\ a.current \in 1..Len(db[a.id].revs)
      /\ a.source = db[a.id].revs[a.current]
      /\ a.served <= db[a.id].served
  BY <1>5 DEF Past
<1>7. QED
  BY <1>1, <1>4, <1>5, <1>6
-------------------------------------------------------------------------------------
(* The messages that are sent.                                                *)
LEMMA UnusedTyped ==
  /\ Unused \in CallState
  /\ Unused.kind = "none" /\ ~Unused.fresh /\ Unused.answer = None /\ Unused.state = "sent"
  BY EditorAssumption DEF Unused, CallState, Rev

LoadOf(p) == [Unused EXCEPT !.kind = "load", !.id = p, !.fresh = TRUE]

RemoveOf(p) == [Unused EXCEPT !.kind = "remove", !.id = p, !.fresh = TRUE]

RenameOf(p, n) == [Unused EXCEPT !.kind = "rename", !.id = p, !.fresh = TRUE, !.name = n]

LEMMA SentSensible ==
  ASSUME NEW p \in ProjectId
  PROVE  /\ Sensible(LoadOf(p)) /\ LoadOf(p).kind = "load" /\ LoadOf(p).id = p /\ LoadOf(p).fresh
         /\ Sensible(RemoveOf(p)) /\ RemoveOf(p).kind = "remove" /\ RemoveOf(p).id = p
         /\ \A n \in Name :
              /\ Sensible(RenameOf(p, n)) /\ RenameOf(p, n).kind = "rename"
              /\ RenameOf(p, n).id = p
<1>1. Sensible(LoadOf(p)) /\ LoadOf(p).kind = "load" /\ LoadOf(p).id = p /\ LoadOf(p).fresh
  BY UnusedTyped DEF LoadOf, Sensible, CallState, Kind, Gated
<1>2. Sensible(RemoveOf(p)) /\ RemoveOf(p).kind = "remove" /\ RemoveOf(p).id = p
  BY UnusedTyped DEF RemoveOf, Sensible, CallState, Kind, Gated
<1>3. ASSUME NEW n \in Name
      PROVE  /\ Sensible(RenameOf(p, n)) /\ RenameOf(p, n).kind = "rename"
             /\ RenameOf(p, n).id = p
  BY UnusedTyped DEF RenameOf, Sensible, CallState, Kind, Gated
<1>4. QED
  BY <1>1, <1>2, <1>3

(* A call that the page forgets is otherwise what it was.                     *)
LEMMA ForgottenTyped ==
  ASSUME NEW m \in CallState
  PROVE  LET o == [m EXCEPT !.fresh = FALSE] IN
         /\ o \in CallState /\ ~o.fresh
         /\ o.kind = m.kind /\ o.id = m.id /\ o.expected = m.expected /\ o.sent = m.sent
         /\ o.name = m.name /\ o.state = m.state /\ o.answer = m.answer
  BY DEF CallState

LEMMA RequestTyped ==
  ASSUME EditorTypeOK, project # None, NEW kind \in Gated
  PROVE  /\ Request(kind) \in CallState
         /\ Request(kind).kind = kind /\ Request(kind).id = project.id
         /\ Request(kind).sent = working /\ Request(kind).fresh
         /\ Request(kind).expected = <<project.current, project.served>>
         /\ Request(kind).state = "sent" /\ Request(kind).answer = None
<1>1. project \in Shown /\ working \in Bytes \cup {Empty} /\ kind \in Kind
  BY DEF EditorTypeOK, Gated, Kind
<1>2. QED
  BY <1>1 DEF Shown, Request, Unused, CallState, Kind, Rev

(* What the service makes of a message that it does not refuse: a row, whose  *)
(* history is at least as long, and an answer that is so.                     *)
LEMMA AppliedShape ==
  ASSUME EditorTypeOK, PageIsPast, NEW m, Sensible(m), m.kind # "none", ~Refused(m),
         Len(Applied(m).revs) <= MaxRev
  PROVE  /\ Applied(m) \in Row
         /\ Applied(m).served <= Len(Applied(m).revs)
         /\ Applied(m).revs # <<>> =>
              /\ Len(db[m.id].revs) <= Len(Applied(m).revs)
              /\ db[m.id].served <= Applied(m).served
              /\ \A k \in 1..Len(db[m.id].revs) : Applied(m).revs[k] = db[m.id].revs[k]
         /\ m.kind # "remove" => Applied(m).revs # <<>>
         /\ m.kind = "publish" => Applied(m).revs = db[m.id].revs
<1> DEFINE d == db[m.id]
           n == Len(d.revs)
<1>1. m.id \in ProjectId
  BY DEF Sensible
<1>2. d \in Row /\ d.served <= n
  BY <1>1, RowsTyped DEF PageIsPast
<1>3. /\ d.revs \in History /\ n \in Nat /\ n \in Rev
      /\ d.served \in Rev /\ d.served \in Nat /\ d.name \in Name
  BY <1>2, RowShape
<1>4. d.revs # <<>>
  BY DEF Refused, Exists
<1> HIDE DEF d
<1>6. CASE m.kind = "save" /\ m.expected[1] = n /\ d.revs[n] # m.sent
  <2>1. Applied(m) = [d EXCEPT !.revs = Append(d.revs, m.sent)]
    BY <1>6 DEF Applied, d
  <2>2. Applied(m).revs = Append(d.revs, m.sent) /\ Applied(m).served = d.served
    BY <1>2, <2>1 DEF Row
  <2>3. m.sent \in Bytes
    BY <1>6 DEF Sensible, Gated
  <2>4. n < MaxRev
    <3>1. d.revs \in Seq(Bytes)
      BY <1>3, HistoryShape
    <3>2. Len(Append(d.revs, m.sent)) = n + 1
      BY <2>3, <3>1
    <3>3. QED
      BY <1>3, <2>2, <3>2, EditorAssumption
  <2>5. /\ Append(d.revs, m.sent) \in History
        /\ Len(Append(d.revs, m.sent)) = n + 1
        /\ \A k \in 1..n : Append(d.revs, m.sent)[k] = d.revs[k]
    BY <1>3, <2>3, <2>4, HistoryShape
  <2>6. Applied(m) \in Row
    BY <1>2, <2>1, <2>5 DEF Row
  <2>7. Append(d.revs, m.sent) # <<>>
    BY <1>3, <2>3, HistoryShape
  <2>8. n <= n + 1 /\ d.served <= n + 1
    BY <1>2, <1>3
  <2>9. Applied(m).served <= Len(Applied(m).revs) /\ n <= Len(Applied(m).revs)
    BY <2>2, <2>5, <2>8
  <2>10. d.served <= Applied(m).served /\ \A k \in 1..n : Applied(m).revs[k] = d.revs[k]
    BY <1>3, <2>2, <2>5
  <2>11. db[m.id] = d
    BY DEF d
  <2>12. QED
    BY <1>6, <2>2, <2>6, <2>7, <2>9, <2>10, <2>11
<1>7. CASE m.kind = "publish" /\ m.expected[1] = n /\ (d.served # n => d.served = m.expected[2])
  <2>1. Applied(m) = [d EXCEPT !.served = n]
    BY <1>7 DEF Applied, d
  <2>2. Applied(m) \in Row /\ Applied(m).revs = d.revs /\ Applied(m).served = n
    BY <1>2, <1>3, <2>1 DEF Row
  <2>3. QED
    BY <1>2, <1>3, <1>4, <1>7, <2>2 DEF d
<1>8. CASE m.kind = "rename"
  <2>1. Applied(m) = [d EXCEPT !.name = m.name] /\ m.name \in Name
    BY <1>8 DEF Applied, d, Sensible
  <2>2. Applied(m) \in Row /\ Applied(m).revs = d.revs /\ Applied(m).served = d.served
    BY <1>2, <2>1 DEF Row
  <2>3. QED
    BY <1>2, <1>3, <1>4, <1>8, <2>2 DEF d
<1>9. CASE m.kind = "remove"
  <2>1. Applied(m) = [d EXCEPT !.revs = <<>>, !.served = 0]
    BY <1>9 DEF Applied, d
  <2>2. Applied(m) \in Row /\ Applied(m).revs = <<>> /\ Applied(m).served = 0
    <3>1. <<>> \in History /\ 0 \in Rev
      BY HistoryShape, EditorAssumption DEF Rev
    <3>2. QED
      BY <1>2, <2>1, <3>1 DEF Row
  <2>3. Len(<<>>) = 0
    OBVIOUS
  <2>4. QED
    BY <1>9, <2>2, <2>3
<1>10. CASE /\ m.kind \notin {"rename", "remove"}
            /\ ~(m.kind = "save" /\ m.expected[1] = n /\ d.revs[n] # m.sent)
            /\ ~(m.kind = "publish" /\ m.expected[1] = n /\ (d.served # n => d.served = m.expected[2]))
  <2>1. Applied(m) = d
    BY <1>10 DEF Applied, d
  <2>2. QED
    BY <1>2, <1>3, <1>4, <1>10, <2>1 DEF d
<1>11. QED
  BY <1>6, <1>7, <1>8, <1>9, <1>10

(* A step that writes the row d of the project p, if any.                     *)
Whole == \A p \in ProjectId : db[p].served <= Len(db[p].revs)

LEMMA RowWritten ==
  ASSUME EditorTypeOK, PageIsPast, NEW p \in ProjectId, NEW d \in Row,
         db' = [db EXCEPT ![p] = d],
         d.served <= Len(d.revs),
         d.revs # <<>> =>
           /\ Exists(p)
           /\ Len(db[p].revs) <= Len(d.revs)
           /\ db[p].served <= d.served
           /\ \A k \in 1..Len(db[p].revs) : d.revs[k] = db[p].revs[k]
  PROVE  db' \in [ProjectId -> Row] /\ Whole' /\ Grows
<1>1. db \in [ProjectId -> Row] /\ \A q \in ProjectId : db[q] \in Row
  BY RowsTyped
<1>2. \A q \in ProjectId : Len(db[q].revs) \in Nat /\ db[q].served \in Nat
  BY <1>1, RowShape
<1>3. db' \in [ProjectId -> Row] /\ db'[p] = d /\ \A q \in ProjectId \ {p} : db'[q] = db[q]
  BY <1>1
<1>4. Whole'
  BY <1>3 DEF PageIsPast, Whole
<1>5. ASSUME NEW q \in ProjectId, Exists(q)'
      PROVE  /\ Exists(q)
             /\ Len(db[q].revs) <= Len(db'[q].revs)
             /\ db[q].served <= db'[q].served
             /\ \A k \in 1..Len(db[q].revs) : db'[q].revs[k] = db[q].revs[k]
  <2>1. CASE q = p
    BY <1>3, <1>5, <2>1 DEF Exists
  <2>2. CASE q # p
    <3>1. db'[q] = db[q]
      BY <1>3, <2>2
    <3>2. QED
      BY <1>2, <1>5, <3>1 DEF Exists
  <2>3. QED
    BY <2>1, <2>2
<1>6. QED
  BY <1>3, <1>4, <1>5 DEF Grows

LEMMA ServiceStep ==
  ASSUME IInv, [Next]_vars
  PROVE  db' \in [ProjectId -> Row] /\ Whole' /\ Grows
<1>1. /\ EditorTypeOK /\ PageIsPast
      /\ db \in [ProjectId -> Row] /\ \A q \in ProjectId : db[q] \in Row
      /\ \A q \in ProjectId : db[q].served <= Len(db[q].revs)
  BY RowsTyped DEF IInv, PageIsPast
<1>2. CASE db' = db
  <2>1. \A q \in ProjectId : Len(db[q].revs) \in Nat /\ db[q].served \in Nat
    BY <1>1, RowShape
  <2>2. QED
    BY <1>1, <1>2, <2>1 DEF Whole, Grows, Exists
<1>3. ASSUME NEW c \in Call, Serve(c), db' # db
      PROVE  db' \in [ProjectId -> Row] /\ Whole' /\ Grows
  <2> DEFINE m == call[c]
  <2>1. /\ m.kind # "none" /\ ~Refused(m) /\ Len(Applied(m).revs) <= MaxRev
        /\ db' = [db EXCEPT ![m.id] = Applied(m)]
    BY <1>3 DEF Serve, Free
  <2>2. Sensible(m)
    BY DEF IInv, CallFine
  <2>3. m.id \in ProjectId /\ Exists(m.id)
    BY <2>1, <2>2 DEF Sensible, Refused
  <2> HIDE DEF m
  <2>4. QED
    BY <1>1, <2>1, <2>2, <2>3, AppliedShape, RowWritten
<1>4. ASSUME NEW p \in ProjectId, Elsewhere(p)
      PROVE  db' \in [ProjectId -> Row] /\ Whole' /\ Grows
  <2> DEFINE d == db[p]
  <2>1. /\ d \in Row /\ d.revs \in History /\ Len(d.revs) \in Nat /\ Len(d.revs) \in Rev
        /\ d.served \in Rev /\ d.served \in Nat /\ d.name \in Name
        /\ d.served <= Len(d.revs) /\ d.revs # <<>>
    BY <1>1, <1>4, RowShape DEF Elsewhere, Exists
  <2>2. ASSUME NEW b \in Bytes, Len(d.revs) < MaxRev, db' = [db EXCEPT ![p].revs = Append(@, b)]
        PROVE  db' \in [ProjectId -> Row] /\ Whole' /\ Grows
    <3> DEFINE e == [d EXCEPT !.revs = Append(d.revs, b)]
    <3>1. /\ Append(d.revs, b) \in History
          /\ Len(Append(d.revs, b)) = Len(d.revs) + 1
          /\ \A k \in 1..Len(d.revs) : Append(d.revs, b)[k] = d.revs[k]
      BY <2>1, <2>2, HistoryShape
    <3>2. e \in Row /\ e.revs = Append(d.revs, b) /\ e.served = d.served
      BY <2>1, <3>1 DEF Row
    <3>3. db' = [db EXCEPT ![p] = e]
      BY <1>1, <2>2
    <3>4. e.served <= Len(e.revs) /\ Len(d.revs) <= Len(e.revs) /\ d.served <= e.served
      BY <2>1, <3>1, <3>2
    <3>5. \A k \in 1..Len(d.revs) : e.revs[k] = d.revs[k]
      BY <3>1, <3>2
    <3>6. Exists(p) /\ d = db[p]
      BY <2>1 DEF Exists
    <3> HIDE DEF e, d
    <3>7. QED
      BY <1>1, <3>2, <3>3, <3>4, <3>5, <3>6, RowWritten
  <2>3. ASSUME db' = [db EXCEPT ![p].served = Len(db[p].revs)]
        PROVE  db' \in [ProjectId -> Row] /\ Whole' /\ Grows
    <3> DEFINE e == [d EXCEPT !.served = Len(d.revs)]
    <3>1. e \in Row /\ e.revs = d.revs /\ e.served = Len(d.revs)
      BY <2>1 DEF Row
    <3>2. db' = [db EXCEPT ![p] = e]
      BY <1>1, <2>3
    <3>3. e.served <= Len(e.revs) /\ Len(d.revs) <= Len(e.revs) /\ d.served <= e.served
      BY <2>1, <3>1
    <3>4. Exists(p) /\ d = db[p]
      BY <2>1 DEF Exists
    <3> HIDE DEF e, d
    <3>5. QED
      BY <1>1, <3>1, <3>2, <3>3, <3>4, RowWritten
  <2>4. ASSUME NEW n \in Name, db' = [db EXCEPT ![p].name = n]
        PROVE  db' \in [ProjectId -> Row] /\ Whole' /\ Grows
    <3> DEFINE e == [d EXCEPT !.name = n]
    <3>1. e \in Row /\ e.revs = d.revs /\ e.served = d.served
      BY <2>1 DEF Row
    <3>2. db' = [db EXCEPT ![p] = e]
      BY <1>1, <2>4
    <3>3. e.served <= Len(e.revs) /\ Len(d.revs) <= Len(e.revs) /\ d.served <= e.served
      BY <2>1, <3>1
    <3>4. Exists(p) /\ d = db[p]
      BY <2>1 DEF Exists
    <3> HIDE DEF e, d
    <3>5. QED
      BY <1>1, <3>1, <3>2, <3>3, <3>4, RowWritten
  <2>5. ASSUME db' = [db EXCEPT ![p].revs = <<>>, ![p].served = 0]
        PROVE  db' \in [ProjectId -> Row] /\ Whole' /\ Grows
    <3> DEFINE e == [[d EXCEPT !.revs = <<>>] EXCEPT !.served = 0]
    <3>1. <<>> \in History /\ 0 \in Rev /\ Len(<<>>) = 0
      BY HistoryShape, EditorAssumption DEF Rev
    <3>2. e \in Row /\ e.revs = <<>> /\ e.served = 0
      BY <2>1, <3>1 DEF Row
    <3>3. db' = [db EXCEPT ![p] = e]
      BY <1>1, <2>5
    <3>4. e.served <= Len(e.revs)
      BY <3>1, <3>2
    <3> HIDE DEF e, d
    <3>5. QED
      BY <1>1, <3>2, <3>3, <3>4, RowWritten
  <2>6. QED
    BY <1>4, <2>2, <2>3, <2>4, <2>5 DEF Elsewhere
<1>5. QED
  BY <1>2, <1>3, <1>4
     DEF Next, Render, Effect, Edit, Begin, Rename, Remove, Fail, Deliver, DeliverLoad,
         DeliverWrite, DeliverRename, DeliverRemove, vars

-------------------------------------------------------------------------------------
(* The invariant in three parts, of the service, of the page and of the       *)
(* calls; the first one is ServiceStep.                                       *)
PageFine ==
    /\ id \in ProjectId
    /\ mounted \in ProjectId \cup {None}
    /\ project \in Shown \cup {None}
    /\ working \in Bytes \cup {Empty}
    /\ status \in {"loading", "missing", "error", "ready"}
    /\ busy \subseteq Gated
    /\ gate \in Call \cup {None}
    /\ status = "ready" <=> project # None
    /\ project # None => project.id = mounted /\ Past(project) /\ working \in Bytes

CallsFine ==
    /\ call \in [Call -> CallState]
    /\ OneLoad
    /\ \A c \in Call : CallFine(c, call[c])

LEMMA Parts ==
  /\ IInv => PageFine /\ CallsFine /\ EditorTypeOK
  /\ db' \in [ProjectId -> Row] /\ Whole' /\ PageFine' /\ CallsFine' => IInv'
<1>1. IInv => PageFine /\ CallsFine /\ EditorTypeOK
  BY DEF IInv, PageFine, CallsFine, EditorTypeOK, PageIsPast
<1>2. ASSUME db' \in [ProjectId -> Row], Whole', PageFine', CallsFine'
      PROVE  IInv'
  <2>1. EditorTypeOK'
    BY <1>2 DEF EditorTypeOK, Row, History, PageFine, CallsFine
  <2>2. PageIsPast'
    BY <1>2 DEF PageIsPast, PageFine, Whole
  <2>3. QED
    BY <1>2, <2>1, <2>2 DEF IInv, CallsFine
<1>3. QED
  BY <1>1, <1>2

LEMMA Step ==
  ASSUME IInv, [Next]_vars, PageFine', CallsFine'
  PROVE  IInv'
  BY ServiceStep, Parts

LEMMA PageKept ==
  ASSUME IInv, [Next]_vars, UNCHANGED page
  PROVE  PageFine'
<1>1. PageFine
  BY Parts
<1>2. ASSUME project # None
      PROVE  Past(project)'
  <2>1. PICK a \in Shown : a = project
    BY <1>1, <1>2 DEF PageFine
  <2>2. Past(a)'
    BY <1>1, <1>2, <2>1, PastKept, ServiceStep, Parts DEF PageFine
  <2>3. project' = a
    BY <2>1 DEF page
  <2>4. QED
    BY <2>2, <2>3 DEF Past, Exists
<1>3. QED
  BY <1>1, <1>2 DEF PageFine, page

(* Messages stay what they were while the service goes on.                    *)
LEMMA MessageKept ==
  ASSUME IInv, [Next]_vars, NEW m, Sensible(m), PublishNamesItsBytes(m)
  PROVE  Sensible(m)' /\ PublishNamesItsBytes(m)'
<1>1. EditorTypeOK /\ db' \in [ProjectId -> Row] /\ Grows
  BY Parts, ServiceStep
<1>2. ASSUME m.answer # None
      PROVE  Past(m.answer)'
  <2>1. m.answer \in Shown /\ Past(m.answer)
    BY <1>2 DEF Sensible, CallState
  <2>2. QED
    BY <1>1, <2>1, PastKept
<1>3. Sensible(m)'
  BY <1>2 DEF Sensible
<1>4. ASSUME m.kind = "publish", Exists(m.id)'
      PROVE  /\ m.expected[1] \in 1..Len(db'[m.id].revs)
             /\ m.sent = db'[m.id].revs[m.expected[1]]
  <2>1. m.id \in ProjectId
    BY <1>4 DEF Sensible
  <2>2. db[m.id] \in Row /\ db'[m.id] \in Row
    BY <1>1, <2>1, RowsTyped
  <2>3. Len(db[m.id].revs) \in Nat /\ Len(db'[m.id].revs) \in Nat
    BY <2>2, RowShape
  <2>4. /\ Exists(m.id) /\ Len(db[m.id].revs) <= Len(db'[m.id].revs)
        /\ \A k \in 1..Len(db[m.id].revs) : db'[m.id].revs[k] = db[m.id].revs[k]
    BY <1>1, <1>4, <2>1 DEF Grows
  <2>5. m.expected[1] \in 1..Len(db[m.id].revs) /\ m.sent = db[m.id].revs[m.expected[1]]
    BY <1>4, <2>4 DEF PublishNamesItsBytes
  <2>6. m.expected[1] \in 1..Len(db'[m.id].revs)
    BY <2>3, <2>4, <2>5
  <2>7. db'[m.id].revs[m.expected[1]] = db[m.id].revs[m.expected[1]]
    BY <2>4, <2>5
  <2>8. QED
    BY <2>5, <2>6, <2>7
<1>5. QED
  BY <1>3, <1>4 DEF PublishNamesItsBytes

(* A step that replaces the message of one call, if any.                      *)
LEMMA OneCall ==
  ASSUME IInv, [Next]_vars, NEW c \in Call, NEW m, Send(c, m),
         Sensible(m), PublishNamesItsBytes(m),
         \A d \in Call : Awaited(d, call[d])',
         m.fresh /\ m.kind = "load" => call[c].fresh /\ call[c].kind = "load"
  PROVE  CallsFine'
<1>1. CallsFine
  BY Parts
<1>2. m \in CallState
  BY DEF Sensible
<1>3. /\ call' \in [Call -> CallState] /\ call'[c] = m
      /\ \A d \in Call \ {c} : call'[d] = call[d]
  BY <1>1, <1>2 DEF CallsFine, Send
<1>4. OneLoad'
  BY <1>1, <1>3 DEF CallsFine, OneLoad
<1>5. ASSUME NEW d \in Call
      PROVE  CallFine(d, call[d])'
  <2>1. PICK n : n = call'[d]
    OBVIOUS
  <2>2. Sensible(n) /\ PublishNamesItsBytes(n)
    BY <1>1, <1>3, <2>1 DEF CallsFine, CallFine
  <2>3. Sensible(n)' /\ PublishNamesItsBytes(n)'
    BY <2>2, MessageKept
  <2>4. Awaited(d, call[d])'
    OBVIOUS
  <2>5. QED
    BY <2>1, <2>3, <2>4 DEF CallFine, Sensible, PublishNamesItsBytes
<1>6. QED
  BY <1>3, <1>4, <1>5 DEF CallsFine

LEMMA CallsKept ==
  ASSUME IInv, [Next]_vars, call' = call, UNCHANGED <<mounted, project, gate>>
  PROVE  CallsFine'
<1>1. CallsFine
  BY Parts
<1>2. ASSUME NEW d \in Call
      PROVE  CallFine(d, call[d])'
  <2>1. PICK n : n = call[d]
    OBVIOUS
  <2>2. CallFine(d, n) /\ call'[d] = n
    BY <1>1, <2>1 DEF CallsFine
  <2>3. Sensible(n)' /\ PublishNamesItsBytes(n)'
    BY <2>2, MessageKept DEF CallFine
  <2>4. Awaited(d, n)'
    BY <2>2 DEF CallFine, Awaited
  <2>5. QED
    BY <2>2, <2>3, <2>4 DEF CallFine, Sensible, PublishNamesItsBytes, Awaited
<1>3. QED
  BY <1>1, <1>2 DEF CallsFine, OneLoad

-------------------------------------------------------------------------------------
(* Render, Edit and the steps of other pages touch no call.                   *)
LEMMA RenderStep ==
  ASSUME IInv, NEW p \in ProjectId, Render(p)
  PROVE  IInv'
<1>1. [Next]_vars
  BY DEF Next
<1>2. PageFine
  BY Parts
<1>3. PageFine'
  BY <1>2 DEF Render, PageFine, Past, Exists
<1>4. CallsFine'
  BY <1>1, CallsKept DEF Render
<1>5. QED
  BY <1>1, <1>3, <1>4, Step

LEMMA EditStep ==
  ASSUME IInv, NEW b \in Bytes, Edit(b)
  PROVE  IInv'
<1>1. [Next]_vars
  BY DEF Next
<1>2. PageFine
  BY Parts
<1>3. PageFine'
  BY <1>2 DEF Edit, PageFine, Past, Exists
<1>4. CallsFine'
  BY <1>1, CallsKept DEF Edit
<1>5. QED
  BY <1>1, <1>3, <1>4, Step

LEMMA ElsewhereStep ==
  ASSUME IInv, NEW p \in ProjectId, Elsewhere(p)
  PROVE  IInv'
<1>1. [Next]_vars
  BY DEF Next
<1>2. UNCHANGED <<page, call>>
  BY DEF Elsewhere
<1>3. QED
  BY <1>1, <1>2, PageKept, CallsKept, Step DEF page

(* The effect of a route empties the page; the calls of the route before it   *)
(* are no longer awaited, and its load is the only one that is.               *)
LEMMA EffectStep ==
  ASSUME IInv, NEW c \in Call, Effect(c)
  PROVE  IInv'
<1> DEFINE m == LoadOf(id)
           old(d) == [call[d] EXCEPT !.fresh = FALSE]
<1>1. [Next]_vars
  BY DEF Next
<1>2. PageFine /\ CallsFine /\ EditorTypeOK
  BY Parts
<1>3. PageFine'
  BY <1>2 DEF Effect, PageFine
<1>4. m \in CallState /\ m.kind = "load" /\ m.id = id /\ m.fresh /\ Sensible(m)
  BY <1>2, SentSensible DEF PageFine, Sensible
<1>5. \A d \in Call : old(d) \in CallState /\ ~old(d).fresh
  BY <1>2, ForgottenTyped DEF CallsFine
<1>6. /\ call' \in [Call -> CallState] /\ call'[c] = m
      /\ \A d \in Call \ {c} : call'[d] = old(d)
  <2>1. call' = [[d \in Call |-> old(d)] EXCEPT ![c] = m]
    BY DEF Effect, LoadOf
  <2> HIDE DEF m, old
  <2>2. QED
    BY <1>4, <1>5, <2>1
<1>7. mounted' = id /\ project' = None
  BY DEF Effect
<1>8. OneLoad'
  <2>1. \A d \in Call : call'[d].fresh => d = c
    BY <1>5, <1>6
  <2>2. QED
    BY <2>1 DEF OneLoad
<1>9. ASSUME NEW d \in Call \ {c}
      PROVE  CallFine(d, call[d])'
  <2>1. Sensible(call[d]) /\ PublishNamesItsBytes(call[d]) /\ call[d] \in CallState
    BY <1>2 DEF CallsFine, CallFine
  <2>2. Sensible(old(d)) /\ PublishNamesItsBytes(old(d))
    BY <2>1, ForgottenTyped DEF Sensible, PublishNamesItsBytes
  <2>3. PICK n : n = old(d)
    OBVIOUS
  <2>4. Sensible(n)' /\ PublishNamesItsBytes(n)' /\ ~n.fresh
    BY <1>1, <1>5, <2>2, <2>3, MessageKept
  <2>5. call'[d] = n
    BY <1>6, <2>3
  <2>6. QED
    BY <2>4, <2>5 DEF CallFine, Sensible, PublishNamesItsBytes, Awaited
<1>10. CallFine(c, call[c])'
  <2>1. PICK n : n = m
    OBVIOUS
  <2>2. Sensible(n) /\ PublishNamesItsBytes(n) /\ n.kind = "load" /\ n.fresh /\ n.id = id
    BY <1>4, <2>1 DEF PublishNamesItsBytes
  <2>3. Sensible(n)' /\ PublishNamesItsBytes(n)' /\ call'[c] = n
    BY <1>1, <1>6, <2>1, <2>2, MessageKept
  <2>4. Awaited(c, call[c])'
    BY <1>7, <2>2, <2>3 DEF Awaited, Gated
  <2>5. QED
    BY <2>3, <2>4 DEF CallFine, Sensible, PublishNamesItsBytes
<1>11. CallsFine'
  BY <1>6, <1>8, <1>9, <1>10 DEF CallsFine
<1>12. QED
  BY <1>1, <1>3, <1>11, Step

(* Save and Publish are begun by a page that is not empty; the gate admits    *)
(* one, and no load is awaited.                                               *)
LEMMA BeginStep ==
  ASSUME IInv, NEW c \in Call, NEW kind \in Gated, Begin(c, kind)
  PROVE  IInv'
<1> DEFINE m == Request(kind)
<1>1. [Next]_vars
  BY DEF Next
<1>2. PageFine /\ CallsFine /\ EditorTypeOK
  BY Parts
<1>3. project # None /\ project \in Shown /\ project.id \in ProjectId /\ working \in Bytes
  BY <1>2 DEF Begin, PageFine, Shown
<1>4. PageFine'
  BY <1>2 DEF Begin, PageFine, Past, Exists
<1>5. /\ m \in CallState /\ m.kind = kind /\ m.id = project.id /\ m.sent = working /\ m.fresh
      /\ m.expected = <<project.current, project.served>>
      /\ m.state = "sent" /\ m.answer = None
  BY <1>2, <1>3, RequestTyped
<1> HIDE DEF m
<1>6. Sensible(m)
  BY <1>3, <1>5 DEF Sensible, Gated
<1>7. PublishNamesItsBytes(m)
  <2>1. m.kind = "publish" => working = project.source
    BY <1>3, <1>5 DEF Begin, MayPublish, Dirty
  <2>2. Past(project)
    BY <1>2, <1>3 DEF PageFine
  <2>3. QED
    BY <1>5, <2>1, <2>2 DEF PublishNamesItsBytes, Past
<1>8. Send(c, m) /\ call'[c] = m /\ \A d \in Call \ {c} : call'[d] = call[d]
  BY <1>2 DEF Begin, Send, CallsFine, m
<1>9. ASSUME NEW d \in Call
      PROVE  Awaited(d, call[d])'
  <2>1. CASE d = c
    <3>1. gate' = c /\ mounted' = mounted /\ project' = project
      BY DEF Begin
    <3>2. project.id = mounted
      BY <1>2, <1>3 DEF PageFine
    <3>3. QED
      BY <1>3, <1>5, <1>8, <2>1, <3>1, <3>2 DEF Awaited, Gated
  <2>2. CASE d # c
    <3>1. Awaited(d, call[d])
      BY <1>2 DEF CallsFine, CallFine
    <3>2. gate # d
      BY EditorAssumption DEF Begin
    <3>3. QED
      BY <1>8, <2>2, <3>1, <3>2 DEF Awaited, Begin
  <2>3. QED
    BY <2>1, <2>2
<1>10. m.kind # "load"
  BY <1>5 DEF Gated
<1>11. CallsFine'
  BY <1>1, <1>6, <1>7, <1>8, <1>9, <1>10, OneCall
<1>12. QED
  BY <1>1, <1>4, <1>11, Step

(* Calls that the gate does not know.                                         *)
LEMMA UngatedStep ==
  ASSUME IInv, [Next]_vars, NEW c \in Call, NEW m, Send(c, m), UNCHANGED page,
         Sensible(m), m.kind \notin Gated \cup {"load"},
         m.fresh => m.kind # "none" /\ m.id = mounted /\ project # None
  PROVE  IInv'
<1>1. PageFine /\ CallsFine
  BY Parts
<1>2. PublishNamesItsBytes(m)
  BY DEF PublishNamesItsBytes, Gated
<1>3. call'[c] = m /\ \A d \in Call \ {c} : call'[d] = call[d]
  BY <1>1 DEF Send, CallsFine
<1>4. ASSUME NEW d \in Call
      PROVE  Awaited(d, call[d])'
  <2>1. CASE d = c
    BY <1>3, <2>1 DEF Awaited, page
  <2>2. CASE d # c
    BY <1>1, <1>3, <2>2 DEF Awaited, CallsFine, CallFine, page
  <2>3. QED
    BY <2>1, <2>2
<1>5. CallsFine'
  BY <1>2, <1>4, OneCall
<1>6. QED
  BY <1>5, PageKept, Step

LEMMA RenameStep ==
  ASSUME IInv, NEW c \in Call, NEW n \in Name, Rename(c, n)
  PROVE  IInv'
<1>1. [Next]_vars
  BY DEF Next
<1>2. project # None /\ project.id \in ProjectId /\ project.id = mounted
  BY Parts DEF PageFine, Rename, Shown
<1>3. Send(c, RenameOf(project.id, n)) /\ UNCHANGED page
  BY DEF Rename, RenameOf
<1>4. QED
  BY <1>1, <1>2, <1>3, SentSensible, UngatedStep DEF Gated

LEMMA RemoveStep ==
  ASSUME IInv, NEW c \in Call, Remove(c)
  PROVE  IInv'
<1>1. [Next]_vars
  BY DEF Next
<1>2. project # None /\ project.id \in ProjectId /\ project.id = mounted
  BY Parts DEF PageFine, Remove, Shown
<1>3. Send(c, RemoveOf(project.id)) /\ UNCHANGED page
  BY DEF Remove, RemoveOf
<1>4. QED
  BY <1>1, <1>2, <1>3, SentSensible, UngatedStep DEF Gated

LEMMA DeliverRemoveStep ==
  ASSUME IInv, NEW c \in Call, DeliverRemove(c)
  PROVE  IInv'
<1>1. [Next]_vars
  BY DEF Next, Deliver
<1>2. Send(c, Unused) /\ UNCHANGED page
  BY DEF DeliverRemove
<1>3. Sensible(Unused)
  BY UnusedTyped DEF Sensible, Gated
<1>4. QED
  BY <1>1, <1>2, <1>3, UnusedTyped, UngatedStep DEF Gated

-------------------------------------------------------------------------------------
LEMMA AnsweredTyped ==
  ASSUME NEW m \in CallState, NEW a \in Shown \cup {None}
  PROVE  LET n == [m EXCEPT !.state = "answered", !.answer = a] IN
         /\ n \in CallState /\ n.state = "answered" /\ n.answer = a
         /\ n.kind = m.kind /\ n.id = m.id /\ n.expected = m.expected /\ n.sent = m.sent
         /\ n.name = m.name /\ n.fresh = m.fresh
  BY DEF CallState

(* A row answers with a project that the page can show.                       *)
LEMMA AnswerTyped ==
  ASSUME NEW p \in ProjectId, NEW d \in Row, d.revs # <<>>
  PROVE  /\ Answer(p, d) \in Shown /\ Answer(p, d).id = p
         /\ Answer(p, d).current = Len(d.revs) /\ Answer(p, d).served = d.served
         /\ Answer(p, d).source = d.revs[Len(d.revs)] /\ Len(d.revs) \in 1..Len(d.revs)
<1>1. /\ d.revs \in Seq(Bytes) /\ Len(d.revs) \in Nat /\ Len(d.revs) \in Rev
      /\ d.served \in Rev /\ d.name \in Name /\ Len(d.revs) # 0
  BY RowShape
<1>2. Len(d.revs) \in 1..Len(d.revs) /\ d.revs[Len(d.revs)] \in Bytes
  BY <1>1
<1>3. QED
  BY <1>1, <1>2 DEF Answer, Shown

LEMMA FailStep ==
  ASSUME IInv, NEW c \in Call, Fail(c)
  PROVE  IInv'
<1> DEFINE m == call[c]
           n == [m EXCEPT !.state = "answered", !.answer = None]
<1>1. [Next]_vars
  BY DEF Next
<1>2. CallsFine /\ m \in CallState /\ CallFine(c, m)
  BY Parts DEF CallsFine
<1>3. /\ n \in CallState /\ n.state = "answered" /\ n.answer = None
      /\ n.kind = m.kind /\ n.id = m.id /\ n.expected = m.expected /\ n.sent = m.sent
      /\ n.name = m.name /\ n.fresh = m.fresh
  BY <1>2, AnsweredTyped
<1>4. Send(c, n) /\ UNCHANGED page
  BY DEF Fail
<1> HIDE DEF m, n
<1>5. Sensible(n) /\ PublishNamesItsBytes(n)
  BY <1>2, <1>3 DEF CallFine, Sensible, PublishNamesItsBytes
<1>6. call'[c] = n /\ \A d \in Call \ {c} : call'[d] = call[d]
  BY <1>2, <1>4 DEF Send, CallsFine
<1>7. ASSUME NEW d \in Call
      PROVE  Awaited(d, call[d])'
  <2>1. CASE d = c
    BY <1>2, <1>3, <1>4, <1>6, <2>1 DEF CallFine, Awaited, page
  <2>2. CASE d # c
    BY <1>2, <1>4, <1>6, <2>2 DEF CallsFine, CallFine, Awaited, page
  <2>3. QED
    BY <2>1, <2>2
<1>8. n.fresh /\ n.kind = "load" => call[c].fresh /\ call[c].kind = "load"
  BY <1>3 DEF m
<1>9. CallsFine'
  BY <1>1, <1>4, <1>5, <1>7, <1>8, OneCall
<1>10. QED
  BY <1>1, <1>4, <1>9, PageKept, Step

(* The service answers with what is so now: the page that awaits the answer   *)
(* shows the past.                                                            *)
LEMMA ServeStep ==
  ASSUME IInv, NEW c \in Call, Serve(c)
  PROVE  IInv'
<1> DEFINE m == call[c]
           a == IF Refused(m) \/ m.kind = "remove" THEN None ELSE Answer(m.id, Applied(m))
           n == [m EXCEPT !.state = "answered", !.answer = a]
           new == db'[m.id]
<1>1. [Next]_vars
  BY DEF Next
<1>2. PageFine /\ CallsFine /\ EditorTypeOK /\ m \in CallState /\ CallFine(c, m) /\ PageIsPast
  BY Parts DEF CallsFine, IInv
<1>3. m.kind # "none" /\ m.state = "sent" /\ m.answer = None /\ m.id \in ProjectId /\ Sensible(m)
  BY <1>2 DEF Serve, Free, CallFine, Sensible
<1>4. UNCHANGED page
  BY DEF Serve
<1>5. ASSUME ~Refused(m)
      PROVE  /\ Applied(m) \in Row /\ new = Applied(m)
             /\ m.kind # "remove" =>
                  /\ new.revs # <<>>
                  /\ Len(db[m.id].revs) <= Len(new.revs)
                  /\ db[m.id].served <= new.served
  <2>1. Len(Applied(m).revs) <= MaxRev /\ db' = [db EXCEPT ![m.id] = Applied(m)]
    BY <1>5 DEF Serve
  <2>2. new = Applied(m)
    BY <1>2, <1>3, <2>1 DEF EditorTypeOK
  <2> HIDE DEF m, new
  <2>3. QED
    BY <1>2, <1>3, <1>5, <2>1, <2>2, AppliedShape
<1>6. ASSUME a # None
      PROVE  /\ a \in Shown /\ a.id = m.id /\ ~Refused(m) /\ m.kind # "remove"
             /\ a.current = Len(new.revs) /\ a.served = new.served
             /\ a.source = new.revs[Len(new.revs)] /\ Len(new.revs) \in 1..Len(new.revs)
             /\ new \in Row
  BY <1>3, <1>5, <1>6, AnswerTyped
<1>7. a \in Shown \cup {None}
  BY <1>6
<1>8. call' = [call EXCEPT ![c] = n]
  <2>1. CASE Refused(m)
    <3>1. n = [m EXCEPT !.state = "answered"]
      BY <1>2, <1>3, <2>1 DEF CallState
    <3>2. QED
      BY <2>1, <3>1 DEF Serve, Send
  <2>2. CASE ~Refused(m)
    BY <2>2 DEF Serve, Send
  <2>3. QED
    BY <2>1, <2>2
<1>9. /\ n \in CallState /\ n.state = "answered" /\ n.answer = a
      /\ n.kind = m.kind /\ n.id = m.id /\ n.expected = m.expected /\ n.sent = m.sent
      /\ n.name = m.name /\ n.fresh = m.fresh
  <2> HIDE DEF m, a
  <2>1. QED
    BY <1>2, <1>7, AnsweredTyped
<1> HIDE DEF m, a, n
<1>10. /\ call' \in [Call -> CallState] /\ call'[c] = n
       /\ \A d \in Call \ {c} : call'[d] = call[d]
  BY <1>2, <1>8, <1>9 DEF CallsFine
<1>11. PICK o, b, k : o = m /\ b = a /\ k = n
  OBVIOUS
<1>12. Sensible(o)' /\ PublishNamesItsBytes(o)'
  BY <1>1, <1>2, <1>11, MessageKept DEF CallFine
<1>13. b # None => b.id = o.id /\ Past(b)'
  <2>1. CASE b # None
    <3>1. new.served \in Nat
      BY <1>6, <1>11, <2>1, RowShape
    <3>2. new = db'[o.id] /\ b.id = o.id
      BY <1>6, <1>11, <2>1
    <3>3. QED
      BY <1>6, <1>11, <2>1, <3>1, <3>2 DEF Past
  <2>2. QED
    BY <2>1
<1>14. Sensible(k)' /\ PublishNamesItsBytes(k)'
  BY <1>9, <1>11, <1>12, <1>13 DEF Sensible, PublishNamesItsBytes
<1>15. Awaited(c, k)'
  <2>1. ASSUME o.fresh, o.kind \in Gated
        PROVE  /\ gate = c /\ project # None
               /\ o.expected = <<project.current, project.served>>
               /\ project \in Shown /\ project.id = o.id /\ Past(project)
    BY <1>2, <1>11, <2>1 DEF CallFine, Awaited, PageFine, Gated
  <2>2. ASSUME o.fresh, o.kind \in Gated, b # None
        PROVE  b.current >= project.current /\ b.served >= project.served
    <3>1. o.kind # "remove" /\ Exists(o.id)
      BY <1>6, <1>11, <2>2 DEF Refused
    <3>2. project.current \in 1..Len(db[o.id].revs) /\ project.served <= db[o.id].served
      BY <2>1, <2>2, <3>1 DEF Past
    <3>3. /\ Len(db[o.id].revs) <= Len(new.revs) /\ db[o.id].served <= new.served
          /\ b.current = Len(new.revs) /\ b.served = new.served /\ new \in Row
      BY <1>5, <1>6, <1>11, <2>2
    <3>4. db[o.id] \in Row /\ o.id \in ProjectId
      BY <1>2, <1>3, <1>11, RowsTyped
    <3>5. /\ Len(db[o.id].revs) \in Nat /\ Len(new.revs) \in Nat
          /\ db[o.id].served \in Nat /\ new.served \in Nat
      BY <3>3, <3>4, RowShape
    <3>6. project.served \in Nat
      BY <2>1, <2>2, EditorAssumption DEF Shown, Rev
    <3>7. QED
      BY <3>2, <3>3, <3>5, <3>6
  <2>3. /\ k.fresh = o.fresh /\ k.kind = o.kind /\ k.id = o.id /\ k.expected = o.expected
        /\ k.answer = b
    BY <1>9, <1>11
  <2>4. o.fresh => o.kind # "none" /\ o.id = mounted /\ (o.kind = "load" <=> project = None)
    BY <1>2, <1>11 DEF CallFine, Awaited
  <2>5. mounted' = mounted /\ project' = project /\ gate' = gate
    BY <1>4 DEF page
  <2>6. QED
    BY <2>1, <2>2, <2>3, <2>4, <2>5 DEF Awaited
<1>16. ASSUME NEW d \in Call
       PROVE  CallFine(d, call[d])'
  <2>1. CASE d = c
    BY <1>10, <1>11, <1>14, <1>15, <2>1 DEF CallFine, Sensible, PublishNamesItsBytes, Awaited
  <2>2. CASE d # c
    <3>1. PICK e : e = call[d]
      OBVIOUS
    <3>2. CallFine(d, e) /\ call'[d] = e
      BY <1>2, <1>10, <2>2, <3>1 DEF CallsFine
    <3>3. Sensible(e)' /\ PublishNamesItsBytes(e)'
      BY <1>1, <3>2, MessageKept DEF CallFine
    <3>4. Awaited(d, e)'
      BY <1>4, <3>2 DEF CallFine, Awaited, page
    <3>5. QED
      BY <3>2, <3>3, <3>4 DEF CallFine, Sensible, PublishNamesItsBytes, Awaited
  <2>3. QED
    BY <2>1, <2>2
<1>17. OneLoad'
  BY <1>2, <1>9, <1>10 DEF CallsFine, OneLoad, m
<1>18. CallsFine'
  BY <1>10, <1>16, <1>17 DEF CallsFine
<1>19. QED
  BY <1>1, <1>4, <1>18, PageKept, Step

-------------------------------------------------------------------------------------
(* The answer is delivered, and the call is over.                             *)
LEMMA OverStep ==
  ASSUME IInv, [Next]_vars, NEW c \in Call, Send(c, Unused), PageFine',
         \A d \in Call \ {c} : Awaited(d, call[d])'
  PROVE  IInv'
<1>1. CallsFine
  BY Parts
<1>2. call'[c] = Unused
  BY <1>1, UnusedTyped DEF Send, CallsFine
<1>3. Awaited(c, call[c])'
  BY <1>2, UnusedTyped DEF Awaited
<1>4. Sensible(Unused) /\ PublishNamesItsBytes(Unused)
  BY UnusedTyped DEF Sensible, Gated, PublishNamesItsBytes
<1>5. CallsFine'
  BY <1>3, <1>4, UnusedTyped, OneCall
<1>6. QED
  BY <1>5, Step

LEMMA DeliverLoadStep ==
  ASSUME IInv, NEW c \in Call, DeliverLoad(c)
  PROVE  IInv'
<1> DEFINE m == call[c]
<1>1. [Next]_vars
  BY DEF Next, Deliver
<1>2. PageFine /\ CallsFine /\ m \in CallState /\ CallFine(c, m)
  BY Parts DEF CallsFine
<1>3. /\ Send(c, Unused) /\ m.kind = "load"
      /\ UNCHANGED <<db, id, mounted, busy, gate>>
  BY DEF DeliverLoad
<1>4. \A d \in Call \ {c} : call'[d] = call[d]
  BY <1>2, <1>3 DEF Send, CallsFine
<1>5. CASE ~m.fresh
  <2>1. UNCHANGED <<project, working, status>>
    BY <1>5 DEF DeliverLoad, AdoptLoad
  <2>2. \A d \in Call \ {c} : Awaited(d, call[d])'
    BY <1>2, <1>3, <1>4, <2>1 DEF CallsFine, CallFine, Awaited
  <2>3. PageFine'
    BY <1>2, <1>3, <2>1 DEF PageFine, Past, Exists
  <2>4. QED
    BY <1>1, <1>3, <2>2, <2>3, OverStep
<1>6. CASE m.fresh
  <2>1. project = None /\ m.id = mounted
    BY <1>2, <1>3, <1>6 DEF CallFine, Awaited
  <2>2. \A d \in Call \ {c} : ~call[d].fresh
    BY <1>2, <1>3, <1>6, <2>1 DEF CallsFine, CallFine, Awaited, OneLoad
  <2>3. \A d \in Call \ {c} : Awaited(d, call[d])'
    BY <1>4, <2>2 DEF Awaited
  <2>4. PageFine'
    <3>1. CASE m.answer = None
      <4>1. status' \in {"missing", "error"} /\ project' = None /\ working' = working
        BY <1>3, <1>6, <2>1, <3>1 DEF DeliverLoad, AdoptLoad
      <4>2. QED
        BY <1>2, <1>3, <4>1 DEF PageFine
    <3>2. CASE m.answer # None
      <4>1. status' = "ready" /\ project' = m.answer /\ working' = m.answer.source
        BY <1>3, <1>6, <3>2 DEF DeliverLoad, AdoptLoad
      <4>2. m.answer \in Shown /\ m.answer.id = mounted /\ Past(m.answer)
        BY <1>2, <2>1, <3>2 DEF CallFine, Sensible, CallState
      <4>3. m.answer.source \in Bytes
        BY <4>2 DEF Shown
      <4>4. QED
        BY <1>2, <1>3, <3>2, <4>1, <4>2, <4>3 DEF PageFine, Past, Exists
    <3>3. QED
      BY <3>1, <3>2
  <2>5. QED
    BY <1>1, <1>3, <2>3, <2>4, OverStep
<1>7. QED
  BY <1>5, <1>6

LEMMA DeliverRenameStep ==
  ASSUME IInv, NEW c \in Call, DeliverRename(c)
  PROVE  IInv'
<1> DEFINE m == call[c]
<1>1. [Next]_vars
  BY DEF Next, Deliver
<1>2. PageFine /\ CallsFine /\ m \in CallState /\ CallFine(c, m)
  BY Parts DEF CallsFine
<1>3. /\ Send(c, Unused) /\ m.kind = "rename"
      /\ UNCHANGED <<db, id, mounted, working, status, busy, gate>>
  BY DEF DeliverRename
<1>4. \A d \in Call \ {c} : call'[d] = call[d]
  BY <1>2, <1>3 DEF Send, CallsFine
<1>5. CASE project' = project
  <2>1. \A d \in Call \ {c} : Awaited(d, call[d])'
    BY <1>2, <1>3, <1>4, <1>5 DEF CallsFine, CallFine, Awaited
  <2>2. PageFine'
    BY <1>2, <1>3, <1>5 DEF PageFine, Past, Exists
  <2>3. QED
    BY <1>1, <1>3, <2>1, <2>2, OverStep
<1>6. CASE project' # project
  <2>1. m.answer # None /\ m.fresh /\ project' = [project EXCEPT !.name = m.answer.name]
    BY <1>6 DEF DeliverRename, Renamed
  <2>2. project # None /\ project \in Shown
    BY <1>2, <1>3, <2>1 DEF CallFine, Awaited, PageFine
  <2>3. m.answer.name \in Name
    BY <1>2, <2>1 DEF CallState, Shown
  <2>4. /\ project' \in Shown /\ project'.id = project.id /\ project'.current = project.current
        /\ project'.served = project.served /\ project'.source = project.source
    BY <2>1, <2>2, <2>3 DEF Shown
  <2>5. project' # None
    BY <2>4, EditorAssumption
  <2>6. PageFine'
    BY <1>2, <1>3, <2>2, <2>4, <2>5 DEF PageFine, Past, Exists
  <2>7. \A d \in Call \ {c} : Awaited(d, call[d])'
    BY <1>2, <1>3, <1>4, <2>2, <2>4, <2>5 DEF CallsFine, CallFine, Awaited
  <2>8. QED
    BY <1>1, <1>3, <2>6, <2>7, OverStep
<1>7. QED
  BY <1>5, <1>6

(* Only the call that holds the gate moves the pointers of the page, so no    *)
(* other save or publish awaits an answer to those it was sent with.          *)
LEMMA DeliverWriteStep ==
  ASSUME IInv, NEW c \in Call, DeliverWrite(c)
  PROVE  IInv'
<1> DEFINE m == call[c]
<1>1. [Next]_vars
  BY DEF Next, Deliver
<1>2. PageFine /\ CallsFine /\ m \in CallState /\ CallFine(c, m)
  BY Parts DEF CallsFine
<1>3. Send(c, Unused) /\ m.kind \in Gated /\ UNCHANGED <<db, id, mounted, status>> /\ Finish(c)
  BY DEF DeliverWrite
<1>4. \A d \in Call \ {c} : call'[d] = call[d]
  BY <1>2, <1>3 DEF Send, CallsFine
<1>5. \/ gate = c /\ m.fresh /\ gate' = None /\ busy' = busy \ {m.kind}
      \/ ~(gate = c /\ m.fresh) /\ gate' = gate /\ busy' = busy
  BY <1>3 DEF Finish
<1>6. gate' \in Call \cup {None} /\ busy' \subseteq Gated
  BY <1>2, <1>5 DEF PageFine
<1>7. CASE ~(m.answer # None /\ Accepted(c))
  <2>1. UNCHANGED <<project, working>>
    BY <1>7 DEF DeliverWrite
  <2>2. PageFine'
    BY <1>2, <1>3, <1>6, <2>1 DEF PageFine, Past, Exists
  <2>3. \A d \in Call \ {c} : Awaited(d, call[d])'
    BY <1>2, <1>3, <1>4, <1>5, <2>1 DEF CallsFine, CallFine, Awaited
  <2>4. QED
    BY <1>1, <1>3, <2>2, <2>3, OverStep
<1>8. CASE m.answer # None /\ Accepted(c)
  <2>1. /\ project' = [m.answer EXCEPT !.name = project.name]
        /\ working' = WorkingAfter(c)
    BY <1>8 DEF DeliverWrite
  <2>2. gate = c /\ m.fresh /\ m.id = mounted /\ project # None /\ project \in Shown
    BY <1>2, <1>3, <1>8 DEF Accepted, CallFine, Awaited, PageFine, Gated
  <2>3. m.answer \in Shown /\ m.answer.id = mounted /\ Past(m.answer)
    BY <1>2, <1>8, <2>2 DEF CallFine, Sensible, CallState
  <2>4. project.name \in Name
    BY <2>2 DEF Shown
  <2>5. /\ project' \in Shown /\ project'.id = m.answer.id /\ project'.current = m.answer.current
        /\ project'.served = m.answer.served /\ project'.source = m.answer.source
    BY <2>1, <2>3, <2>4 DEF Shown
  <2>6. project' # None
    BY <2>5, EditorAssumption
  <2>7. working' \in Bytes
    BY <1>2, <2>1, <2>2, <2>3 DEF WorkingAfter, PageFine, Shown
  <2>8. PageFine'
    BY <1>2, <1>3, <1>6, <2>2, <2>3, <2>5, <2>6, <2>7 DEF PageFine, Past, Exists
  <2>9. \A d \in Call \ {c} : Awaited(d, call[d])'
    BY <1>2, <1>3, <1>4, <2>2, <2>6 DEF CallsFine, CallFine, Awaited
  <2>10. QED
    BY <1>1, <1>3, <2>8, <2>9, OverStep
<1>9. QED
  BY <1>7, <1>8

-------------------------------------------------------------------------------------
LEMMA InitIInv == Init => IInv
<1> SUFFICES ASSUME Init
             PROVE  IInv
  OBVIOUS
<1>1. ASSUME NEW p \in ProjectId
      PROVE  db[p] \in Row /\ db[p].served <= Len(db[p].revs)
  <2>1. PICK n \in Name, b \in Bytes : db[p] = [name |-> n, revs |-> <<b>>, served |-> 1]
    BY DEF Init
  <2>2. <<b>> \in History /\ Len(<<b>>) = 1 /\ 1 \in Rev
    BY HistoryShape, EditorAssumption DEF Rev
  <2>3. QED
    BY <2>1, <2>2 DEF Row
<1>2. db \in [ProjectId -> Row]
  BY <1>1 DEF Init
<1>3. \A c \in Call : call[c] = Unused
  BY DEF Init
<1>4. call \in [Call -> CallState]
  BY UnusedTyped DEF Init
<1>5. EditorTypeOK
  BY <1>2, <1>4 DEF Init, EditorTypeOK, Row, History
<1>6. PageIsPast
  BY <1>1 DEF Init, PageIsPast
<1>7. OneLoad /\ \A c \in Call : CallFine(c, call[c])
  BY <1>3, UnusedTyped DEF OneLoad, CallFine, Sensible, PublishNamesItsBytes, Awaited, Gated
<1>8. QED
  BY <1>5, <1>6, <1>7 DEF IInv

LEMMA Inductive == IInv /\ [Next]_vars => IInv'
<1> SUFFICES ASSUME IInv, [Next]_vars
             PROVE  IInv'
  OBVIOUS
<1>1. CASE UNCHANGED vars
  BY <1>1, PageKept, CallsKept, Step DEF vars, page
<1>2. CASE Next
  <2>1. ASSUME NEW c \in Call, Deliver(c)
        PROVE  IInv'
    BY <2>1, DeliverLoadStep, DeliverWriteStep, DeliverRenameStep, DeliverRemoveStep DEF Deliver
  <2>2. QED
    BY <1>2, <2>1, RenderStep, EffectStep, EditStep, BeginStep, RenameStep, RemoveStep,
       ServeStep, FailStep, ElsewhereStep
       DEF Next
<1>3. QED
  BY <1>1, <1>2

LEMMA Invariance == Spec => []IInv
  BY InitIInv, Inductive, PTL DEF Spec

(* Once the effect of a route has run, the page shows that project or none:   *)
(* no answer to a call of the route before it is applied (useProject.ts).     *)
THEOREM PageAlwaysShowsItsRoute == Spec => []PageShowsItsRoute
<1>1. IInv => PageShowsItsRoute
  BY Parts DEF PageFine, PageShowsItsRoute
<1>2. QED
  BY <1>1, Invariance, PTL

(* What the page shows of a project never goes back, in whatever order the    *)
(* answers to its calls come (save, publish and rename of useProject.ts).     *)
THEOREM PointersAlwaysNeverGoBack == Spec => PointersNeverGoBack
<1> DEFINE Forward ==
      project # None /\ project' # None /\ project'.id = project.id
        => project'.current >= project.current /\ project'.served >= project.served
<1>1. ASSUME IInv, [Next]_vars
      PROVE  Forward
  <2> SUFFICES ASSUME project # None, project' # None, project'.id = project.id
               PROVE  project'.current >= project.current /\ project'.served >= project.served
    OBVIOUS
  <2>1. PageFine /\ CallsFine
    BY <1>1, Parts
  <2>2. project \in Shown /\ project.current \in Nat /\ project.served \in Nat
    BY <2>1, EditorAssumption DEF PageFine, Shown, Rev
  <2>3. CASE project' = project
    BY <2>2, <2>3
  <2>4. ASSUME NEW c \in Call, DeliverWrite(c), project' # project
        PROVE  project'.current >= project.current /\ project'.served >= project.served
    <3>1. /\ call[c].answer # None /\ call[c].fresh /\ call[c].kind \in Gated
          /\ project' = [call[c].answer EXCEPT !.name = project.name]
      BY <2>4 DEF DeliverWrite, Accepted
    <3>2. call[c].answer.current >= project.current /\ call[c].answer.served >= project.served
      BY <2>1, <3>1 DEF CallsFine, CallFine, Awaited
    <3>3. call[c].answer \in Shown
      BY <2>1, <3>1 DEF CallsFine, CallState
    <3>4. project'.current = call[c].answer.current /\ project'.served = call[c].answer.served
      BY <3>1, <3>3 DEF Shown
    <3>5. QED
      BY <3>2, <3>4
  <2>5. ASSUME NEW c \in Call, DeliverRename(c), project' # project
        PROVE  project'.current >= project.current /\ project'.served >= project.served
    <3>1. project' = [project EXCEPT !.name = call[c].answer.name]
      BY <2>5 DEF DeliverRename, Renamed
    <3>2. project'.current = project.current /\ project'.served = project.served
      BY <2>2, <3>1 DEF Shown
    <3>3. QED
      BY <2>2, <3>2
  <2>6. ASSUME NEW c \in Call, DeliverLoad(c)
        PROVE  project' = project
    BY <2>1, <2>6 DEF DeliverLoad, AdoptLoad, CallsFine, CallFine, Awaited
  <2>7. \A c \in Call : ~Effect(c)
    BY DEF Effect
  <2>8. QED
    BY <1>1, <2>3, <2>4, <2>5, <2>6, <2>7
       DEF Next, Render, Edit, Begin, Rename, Remove, Serve, Fail, Elsewhere, Deliver,
           DeliverRemove, page, vars
<1>2. IInv /\ [Next]_vars => [Forward]_vars
  BY <1>1
<1>3. QED
  BY <1>2, Invariance, PTL DEF Spec, PointersNeverGoBack

(* A Publish serves the bytes the page showed when it was asked for, whatever *)
(* was saved elsewhere since (ADR-005; publish of useProject.ts).             *)
THEOREM AlwaysPublishesWhatWasShown == Spec => PublishesWhatWasShown
<1> DEFINE Honest(c) ==
      call[c].kind = "publish" /\ call[c].state = "sent" /\ call'[c].answer # None
        => call'[c].answer.source = call[c].sent
<1>1. ASSUME IInv, [Next]_vars, NEW c \in Call
      PROVE  Honest(c)
  <2> SUFFICES ASSUME call[c].kind = "publish", call[c].state = "sent", call'[c].answer # None
               PROVE  call'[c].answer.source = call[c].sent
    OBVIOUS
  <2>1. PageFine /\ CallsFine /\ EditorTypeOK /\ PageIsPast
    BY <1>1, Parts DEF IInv
  <2>2. call[c] \in CallState /\ CallFine(c, call[c]) /\ call[c].answer = None
    BY <2>1 DEF CallsFine, CallFine, Sensible
  <2>3. Serve(c)
    <3>1. ASSUME NEW d \in Call, NEW m, m.answer = None, Send(d, m)
          PROVE  call'[c].answer = None
      BY <2>1, <2>2, <3>1 DEF Send, CallsFine
    <3>2. ASSUME NEW d \in Call, d # c, Serve(d)
          PROVE  call'[c].answer = None
      BY <2>1, <2>2, <3>2 DEF Serve, Send, CallsFine
    <3>3. ASSUME NEW d \in Call, Effect(d)
          PROVE  call'[c].answer = None
      <4> DEFINE old(e) == [call[e] EXCEPT !.fresh = FALSE]
      <4>1. old(c).answer = None /\ LoadOf(id).answer = None
        BY <2>2, UnusedTyped DEF CallState, LoadOf
      <4>2. call' = [[e \in Call |-> old(e)] EXCEPT ![d] = LoadOf(id)]
        BY <3>3 DEF Effect, LoadOf
      <4> HIDE DEF old
      <4>3. QED
        BY <4>1, <4>2
    <3>4. ASSUME NEW d \in Call, NEW kind \in Gated, Begin(d, kind)
          PROVE  call'[c].answer = None
      <4>1. Request(kind).answer = None /\ Send(d, Request(kind))
        BY <2>1, <3>4, RequestTyped DEF Begin
      <4>2. QED
        BY <3>1, <4>1
    <3>5. ASSUME NEW d \in Call, Remove(d) \/ \E n \in Name : Rename(d, n)
          PROVE  call'[c].answer = None
      <4>1. RemoveOf(project.id).answer = None /\ \A n \in Name : RenameOf(project.id, n).answer = None
        BY UnusedTyped DEF RemoveOf, RenameOf, CallState
      <4>2. \/ Send(d, RemoveOf(project.id))
            \/ \E n \in Name : Send(d, RenameOf(project.id, n))
        BY <3>5 DEF Remove, Rename, RemoveOf, RenameOf
      <4>3. QED
        BY <3>1, <4>1, <4>2
    <3>6. ASSUME NEW d \in Call, Fail(d)
          PROVE  call'[c].answer = None
      <4>1. call[d] \in CallState
        BY <2>1 DEF CallsFine
      <4>2. [call[d] EXCEPT !.state = "answered", !.answer = None].answer = None
        BY <4>1, AnsweredTyped
      <4>3. QED
        BY <3>1, <3>6, <4>2 DEF Fail
    <3>7. ASSUME NEW d \in Call, Deliver(d)
          PROVE  call'[c].answer = None
      BY <3>1, <3>7, UnusedTyped
         DEF Deliver, DeliverLoad, DeliverWrite, DeliverRename, DeliverRemove
    <3>8. QED
      BY <1>1, <2>2, <3>2, <3>3, <3>4, <3>5, <3>6, <3>7
         DEF Next, Render, Edit, Elsewhere, vars
  <2>4. ~Refused(call[c]) /\ Len(Applied(call[c]).revs) <= MaxRev
    BY <2>1, <2>2, <2>3 DEF Serve, Send, CallsFine, CallState
  <2>5. call'[c].answer = Answer(call[c].id, Applied(call[c]))
    <3>1. call' = [call EXCEPT ![c] = [call[c] EXCEPT !.state = "answered",
                                          !.answer = Answer(call[c].id, Applied(call[c]))]]
      BY <2>3, <2>4 DEF Serve, Send
    <3>2. QED
      BY <2>1, <2>2, <3>1 DEF CallsFine, CallState
  <2>6. Applied(call[c]).revs = db[call[c].id].revs
    BY <2>1, <2>2, <2>4, AppliedShape DEF CallFine
  <2>7. /\ call[c].expected[1] = Len(db[call[c].id].revs)
        /\ call[c].sent = db[call[c].id].revs[call[c].expected[1]]
    BY <2>2, <2>4 DEF Refused, CallFine, PublishNamesItsBytes, Gated
  <2>8. QED
    BY <2>5, <2>6, <2>7 DEF Answer
<1>2. IInv /\ [Next]_vars => [\A c \in Call : Honest(c)]_vars
  BY <1>1
<1>3. QED
  BY <1>2, Invariance, PTL DEF Spec, PublishesWhatWasShown

(* An edit made while a call is under way survives every answer but that of   *)
(* the Save that the gate admitted (DeliverWrite, setText).                   *)
THEOREM EditsAlwaysOutliveAnswers == Spec => EditsOutliveAnswers
<1> DEFINE Outlives(c) ==
      call[c].kind \notin {"none", "load"} /\ call'[c].kind = "none" /\ working' # working
        => call[c].kind = "save" /\ call[c].answer # None /\ Accepted(c)
<1>1. ASSUME IInv, [Next]_vars, NEW c \in Call
      PROVE  Outlives(c)
  <2> SUFFICES ASSUME call[c].kind \notin {"none", "load"}, call'[c].kind = "none",
                      working' # working
               PROVE  call[c].kind = "save" /\ call[c].answer # None /\ Accepted(c)
    OBVIOUS
  <2>1. CallsFine /\ call[c] \in CallState
    BY <1>1, Parts DEF CallsFine
  <2>2. \A d \in Call : ~Effect(d)
    <3> SUFFICES ASSUME NEW d \in Call, Effect(d)
                 PROVE  FALSE
      OBVIOUS
    <3> DEFINE old(e) == [call[e] EXCEPT !.fresh = FALSE]
    <3>1. old(c).kind = call[c].kind
      BY <2>1, ForgottenTyped
    <3>2. call' = [[e \in Call |-> old(e)] EXCEPT ![d] = LoadOf(id)] /\ c # d
      BY DEF Effect, LoadOf, Free
    <3> HIDE DEF old
    <3>3. QED
      BY <3>1, <3>2
  <2>3. \A b \in Bytes : ~Edit(b)
    BY DEF Edit
  <2>4. \A d \in Call : ~DeliverLoad(d)
    BY <2>1 DEF DeliverLoad, Send, CallsFine
  <2>5. ASSUME NEW d \in Call, DeliverWrite(d)
        PROVE  d = c /\ call[c].kind = "save" /\ call[c].answer # None /\ Accepted(c)
    <3>1. d = c
      BY <2>1, <2>5 DEF DeliverWrite, Send, CallsFine
    <3>2. QED
      BY <2>5, <3>1 DEF DeliverWrite, WorkingAfter
  <2>6. QED
    BY <1>1, <2>2, <2>3, <2>4, <2>5
       DEF Next, Render, Begin, Rename, Remove, Serve, Fail, Elsewhere, Deliver,
           DeliverRename, DeliverRemove, page, vars
<1>2. IInv /\ [Next]_vars => [\A c \in Call : Outlives(c)]_vars
  BY <1>1
<1>3. QED
  BY <1>2, Invariance, PTL DEF Spec, EditsOutliveAnswers
=====================================================================================
