---------------------------- MODULE RevisionHistory_proofs ----------------------------
(***************************************************************************)
(* Theorems about RevisionHistory for every number of revisions and calls  *)
(* and every size of a page.  A page that was answered is a stretch of the *)
(* history as it was; what makes it fit the list it is put behind is what  *)
(* the panel has reserved for it, and that the served revision never goes  *)
(* back between two pages.                                                 *)
(***************************************************************************)
EXTENDS RevisionHistory, FiniteSetTheorems, TLAPS

LastNo(items) == items[Len(items)].no

\* One stretch of the history, newest first.
Descends(items) == \A i \in DOMAIN items : items[i].no = items[1].no + 1 - i

OneServed(items) == \A i, j \in DOMAIN items : items[i].isServed /\ items[j].isServed => i = j

\* The service, with so many revisions and this one served, still has all of these,
\* and has served none before the one that was served then.
Known(newest, servedNo, items) ==
    newest > 0 => \A i \in DOMAIN items :
                    /\ items[i].no <= newest
                    /\ items[i].isServed => items[i].no <= servedNo

\* An answered page: a stretch from the newest revision, or from the one before the
\* cursor, and where to go on.
PageFine(newest, servedNo, m) ==
    m.kind \in {"first", "more"} /\ m.state = "answered" =>
      /\ m.items # <<>>
      /\ Descends(m.items) /\ OneServed(m.items) /\ Known(newest, servedNo, m.items)
      /\ \A i \in DOMAIN m.items : m.items[i].isCurrent => m.kind = "first" /\ i = 1
      /\ m.kind = "more" => m.items[1].no = m.at - 1
      /\ m.next = IF LastNo(m.items) = 1 THEN None ELSE LastNo(m.items)

CallFine(newest, servedNo, m) ==
    /\ m \in CallState
    /\ m.state # "undecodable"
    /\ m.kind = "first" => m.at = None
    /\ m.kind = "more" => m.at \in Rev \ {1} /\ (newest > 0 => m.at <= newest)
    /\ m.kind \in {"detail", "diff"} => m.at \in Rev
    /\ PageFine(newest, servedNo, m)

ListFine ==
    LET items == pagination.items
        next == pagination.next
    IN
    /\ Descends(items) /\ OneServed(items) /\ Known(revs, served, items)
    /\ \A i \in DOMAIN items : items[i].isCurrent => i = 1
    /\ list = "ready" => items # <<>>
    /\ list # "ready" => pagination = EmptyPagination
    /\ next # None => items # <<>> /\ next = LastNo(items) /\ next # 1
    /\ list = "ready" /\ moreError # "pagination" /\ next = None => LastNo(items) = 1
    /\ \A x \in pagination.seen \cup pagination.requested : items # <<>> /\ x >= LastNo(items)
    /\ ~more => next \notin pagination.requested

\* No two revisions of these bear the badge of the served one.
NotBothServed(items, others) ==
    \A i \in DOMAIN items, j \in DOMAIN others : ~(items[i].isServed /\ others[j].isServed)

\* What the panel has reserved for the call that owns its list.
OwnerFine(m) ==
    \/ m.kind = "first" /\ list = "loading" /\ ~more
    \/ /\ m.kind = "more" /\ list = "ready" /\ more
       /\ pagination.next = m.at /\ moreError # "pagination"
       /\ m.state = "answered" => NotBothServed(pagination.items, m.items)

OwnersFine ==
    /\ active.list # None => OwnerFine(call[active.list])
    /\ active.detail # None =>
         call[active.detail].kind = "detail" /\ call[active.detail].at = view.selected
    /\ active.diff # None =>
         /\ call[active.diff].kind = "diff"
         /\ view.key = <<ParentOf(call[active.diff].at), call[active.diff].at>>

IInv ==
    /\ HistoryTypeOK
    /\ \A c \in Call : CallFine(revs, served, call[c])
    /\ ListFine
    /\ OwnersFine
    /\ DetailsOfSelection
    /\ SpinnersHaveCalls

---------------------------------------------------------------------------------
(* Lists of revisions.                                                       *)

\* A list of items is a sequence, no longer than the history may be.
LEMMA ItemListIsSequence ==
    ASSUME NEW items \in ItemList
    PROVE  /\ items \in Seq(Item)
           /\ Len(items) \in 0..MaxRev
           /\ items \in [1..Len(items) -> Item]
<1>1. PICK n \in 0..MaxRev : items \in [1..n -> Item]
    BY DEF ItemList
<1>2. n \in Nat
    BY <1>1, HistoryAssumption
<1>3. items \in Seq(Item) /\ Len(items) = n
    BY <1>1, <1>2
<1> QED BY <1>1, <1>3

LEMMA ItemFields ==
    ASSUME NEW items \in ItemList, NEW i \in DOMAIN items
    PROVE  /\ i \in Nat /\ 1 <= i /\ i <= Len(items)
           /\ items[i].no \in Nat /\ 1 <= items[i].no /\ items[i].no <= MaxRev
           /\ items[i].isCurrent \in BOOLEAN /\ items[i].isServed \in BOOLEAN
<1>1. items \in [1..Len(items) -> Item] /\ Len(items) \in Nat
    BY ItemListIsSequence, HistoryAssumption
<1>2. items[i] \in Item /\ i \in 1..Len(items)
    BY <1>1
<1> QED BY <1>1, <1>2, HistoryAssumption DEF Item, Rev

LEMMA SequenceIsItemList ==
    ASSUME NEW n \in 0..MaxRev, NEW items \in [1..n -> Item]
    PROVE  items \in ItemList /\ Len(items) = n
<1>1. n \in Nat
    BY HistoryAssumption
<1> QED BY <1>1 DEF ItemList

LEMMA EmptyItemList == <<>> \in ItemList /\ Len(<<>>) = 0 /\ DOMAIN <<>> = {}
<1>1. <<>> \in [1..0 -> Item] /\ 0 \in 0..MaxRev
    BY HistoryAssumption
<1>2. <<>> \in ItemList
    BY <1>1, SequenceIsItemList
<1> QED BY <1>2

\* The first and the last item of a list that is not empty.
LEMMA Ends ==
    ASSUME NEW items \in ItemList, items # <<>>
    PROVE  /\ 1 \in DOMAIN items /\ Len(items) \in DOMAIN items
           /\ Len(items) \in Nat /\ 1 <= Len(items) /\ Len(items) <= MaxRev
           /\ LastNo(items) \in Nat /\ 1 <= LastNo(items) /\ LastNo(items) <= MaxRev
           /\ items[1].no \in Nat /\ 1 <= items[1].no /\ items[1].no <= MaxRev
<1>1. items \in Seq(Item) /\ Len(items) \in Nat /\ DOMAIN items = 1..Len(items) /\ Len(items) <= MaxRev
    BY ItemListIsSequence, HistoryAssumption
<1>2. Len(items) # 0
    BY <1>1
<1>3. 1 \in DOMAIN items /\ Len(items) \in DOMAIN items
    BY <1>1, <1>2
<1> QED BY <1>1, <1>2, <1>3, ItemFields DEF LastNo

\* In a stretch no revision comes twice, and none is older than the last.
LEMMA StretchBounds ==
    ASSUME NEW items \in ItemList, Descends(items), items # <<>>, NEW i \in DOMAIN items
    PROVE  /\ LastNo(items) <= items[i].no /\ items[i].no <= items[1].no
           /\ items[1].no = LastNo(items) + Len(items) - 1
           /\ items[i].no = items[1].no + 1 - i
<1>1. items[i].no = items[1].no + 1 - i /\ LastNo(items) = items[1].no + 1 - Len(items)
    BY Ends DEF Descends, LastNo
<1> QED BY <1>1, Ends, ItemFields

---------------------------------------------------------------------------------
(* The service.                                                              *)

\* The cursors of which a page may be asked for.
GoodCursor(cursor) == cursor = None \/ (cursor \in Rev \ {1} /\ cursor <= revs)

LEMMA Types ==
    ASSUME HistoryTypeOK
    PROVE  /\ revs \in Nat /\ revs <= MaxRev /\ served \in Nat /\ MaxRev \in Nat
           /\ Limit \in Nat /\ Limit >= 1 /\ None \notin Nat
BY HistoryAssumption DEF HistoryTypeOK

LEMMA TopRange ==
    ASSUME HistoryTypeOK, revs # 0, NEW cursor, GoodCursor(cursor)
    PROVE  /\ TopOf(cursor) \in Nat /\ 1 <= TopOf(cursor) /\ TopOf(cursor) <= revs
           /\ cursor # None => cursor \in Nat /\ TopOf(cursor) = cursor - 1
BY Types DEF GoodCursor, TopOf, Rev

\* A page is a stretch of the history from the newest revision, or from the one
\* before the cursor, on.
LEMMA PageItemsRow ==
    ASSUME HistoryTypeOK, revs # 0, NEW cursor, GoodCursor(cursor)
    PROVE  LET items == PageItems(cursor)
               top == TopOf(cursor)
               size == IF top < Limit THEN top ELSE Limit
           IN  /\ size \in Nat /\ 1 <= size /\ size <= top
               /\ items \in ItemList /\ Len(items) = size /\ DOMAIN items = 1..size
               /\ \A i \in 1..size : items[i] = ItemNow(top + 1 - i)
<1> DEFINE top == TopOf(cursor)
           size == IF top < Limit THEN top ELSE Limit
<1>1. top \in Nat /\ 1 <= top /\ top <= revs /\ size \in Nat /\ 1 <= size /\ size <= top
    BY TopRange, Types
<1>2. ASSUME NEW i \in 1..size PROVE ItemNow(top + 1 - i) \in Item
    BY <1>1, <1>2, Types DEF ItemNow, Item, Rev
<1>3. PageItems(cursor) = [i \in 1..size |-> ItemNow(top + 1 - i)]
    BY DEF PageItems
<1>4. PageItems(cursor) \in [1..size -> Item] /\ size \in 0..MaxRev
    BY <1>1, <1>2, <1>3, Types
<1>5. PageItems(cursor) \in ItemList /\ Len(PageItems(cursor)) = size
    BY <1>4, SequenceIsItemList
<1> QED BY <1>1, <1>3, <1>4, <1>5

LEMMA PageOfHistory ==
    ASSUME HistoryTypeOK, revs # 0, NEW cursor, GoodCursor(cursor)
    PROVE  LET items == PageItems(cursor) IN
           /\ items \in ItemList /\ items # <<>>
           /\ Descends(items) /\ OneServed(items) /\ Known(revs, served, items)
           /\ \A i \in DOMAIN items : items[i].isCurrent => cursor = None /\ i = 1
           /\ items[1].no = TopOf(cursor)
           /\ NextCursor(cursor) = IF LastNo(items) = 1 THEN None ELSE LastNo(items)
<1> DEFINE top == TopOf(cursor)
           size == IF top < Limit THEN top ELSE Limit
           items == PageItems(cursor)
<1>1. /\ size \in Nat /\ 1 <= size /\ size <= top
      /\ items \in ItemList /\ Len(items) = size /\ DOMAIN items = 1..size
      /\ \A i \in 1..size : items[i] = ItemNow(top + 1 - i)
    BY PageItemsRow
<1>2. top \in Nat /\ top <= revs
    BY TopRange
<1>3. ASSUME NEW i \in 1..size
      PROVE  /\ items[i].no = top + 1 - i
             /\ items[i].isServed <=> top + 1 - i = served
             /\ items[i].isCurrent <=> top + 1 - i = revs
  <2>1. items[i] = ItemNow(top + 1 - i)
    BY <1>1, <1>3
  <2>2. /\ items[i].no = top + 1 - i
        /\ items[i].isServed = (top + 1 - i = served)
        /\ items[i].isCurrent = (top + 1 - i = revs)
    BY <2>1 DEF ItemNow
  <2> HIDE DEF items, top
  <2> QED BY <2>2
<1> HIDE DEF items
<1>4. items # <<>>
    BY <1>1, EmptyItemList
<1>5. items[1].no = top
    BY <1>1, <1>2, <1>3
<1>6. Descends(items)
    BY <1>1, <1>3, <1>5 DEF Descends
<1>7. OneServed(items)
    BY <1>1, <1>2, <1>3, Types DEF OneServed
<1>8. Known(revs, served, items)
    BY <1>1, <1>2, <1>3, Types DEF Known
<1>9. ASSUME NEW i \in 1..size, items[i].isCurrent PROVE cursor = None /\ i = 1
  <2>1. top + 1 - i = revs
    BY <1>3, <1>9
  <2>2. top = revs /\ i = 1
    BY <2>1, <1>2, Types
  <2> QED BY <2>2, TopRange, Types DEF GoodCursor
<1>10. NextCursor(cursor) = IF LastNo(items) = 1 THEN None ELSE LastNo(items)
  <2>1. LastNo(items) = top + 1 - size
    BY <1>1, <1>3 DEF LastNo
  <2>2. NextCursor(cursor) = IF top > Limit THEN top + 1 - Limit ELSE None
    BY DEF NextCursor
  <2> HIDE DEF top
  <2> QED BY <2>1, <2>2, <1>2, Types
<1> QED BY <1>1, <1>4, <1>5, <1>6, <1>7, <1>8, <1>9, <1>10 DEF items

\* No two of which the badge is the same: at most one.
LEMMA AtMostOne ==
    ASSUME NEW S, \A i, j \in S : i = j
    PROVE  Cardinality(S) <= 1
<1>1. CASE S = {}
    BY <1>1, FS_EmptySet
<1>2. CASE S # {}
  <2>1. PICK x : S = {x}
    BY <1>2
  <2> QED BY <2>1, FS_Singleton
<1> QED BY <1>1, <1>2

\* What the decoder insists on, the service keeps to.
LEMMA PageDecodes ==
    ASSUME HistoryTypeOK, revs # 0, NEW cursor, GoodCursor(cursor)
    PROVE  Decodes(PageItems(cursor), NextCursor(cursor), cursor)
<1> DEFINE items == PageItems(cursor)
           next == NextCursor(cursor)
<1>1. /\ items \in ItemList /\ items # <<>>
      /\ Descends(items) /\ OneServed(items)
      /\ \A i \in DOMAIN items : items[i].isCurrent => cursor = None /\ i = 1
      /\ items[1].no = TopOf(cursor)
      /\ next = IF LastNo(items) = 1 THEN None ELSE LastNo(items)
    BY PageOfHistory
<1>2. cursor # None => cursor \in Nat /\ items[1].no = cursor - 1
    BY <1>1, TopRange
<1> HIDE DEF items, next
<1>3. ASSUME NEW i \in DOMAIN items, NEW j \in DOMAIN items, items[i].no = items[j].no PROVE i = j
  <2>1. items[i].no = items[1].no + 1 - i /\ items[j].no = items[1].no + 1 - j
    BY <1>1, <1>3 DEF Descends
  <2>2. i \in Nat /\ j \in Nat /\ items[1].no \in Nat
    BY <1>1, <1>3, ItemFields, Ends
  <2>3. items[1].no + 1 - i = items[1].no + 1 - j
    BY <1>3, <2>1
  <2> QED BY <2>2, <2>3
<1>4. next # None => items # <<>> /\ next = items[Len(items)].no
    BY <1>1 DEF LastNo
<1>5. next # None => next # cursor
  <2>1. LastNo(items) <= items[1].no /\ LastNo(items) \in Nat /\ items[1].no \in Nat
    BY <1>1, StretchBounds, Ends
  <2> QED BY <1>1, <1>2, <2>1, Types
<1>6. Cardinality({i \in DOMAIN items : items[i].isCurrent}) <= 1
    BY <1>1, AtMostOne
<1>7. Cardinality({i \in DOMAIN items : items[i].isServed}) <= 1
    BY <1>1, AtMostOne DEF OneServed
<1>8. Decodes(items, next, cursor)
    BY <1>3, <1>4, <1>5, <1>6, <1>7 DEF Decodes
<1> QED BY <1>8 DEF items, next

---------------------------------------------------------------------------------
(* Putting a page behind the list.                                           *)

\* The n-th of 1..m is n.
LEMMA UpToOfInterval ==
    ASSUME NEW m \in Nat, NEW i \in 1..m
    PROVE  Cardinality({k \in 1..m : k <= i}) = i
<1>1. {k \in 1..m : k <= i} = 1..i
    OBVIOUS
<1>2. Cardinality(1..i) = i
    BY FS_Interval
<1> QED BY <1>1, <1>2

\* A page of which the list has nothing is appended whole.
LEMMA MergeBehind ==
    ASSUME NEW current \in ItemList, NEW incoming \in ItemList,
           \A i \in DOMAIN incoming, j \in DOMAIN current : current[j].no # incoming[i].no
    PROVE  Merge(current, incoming) = current \o incoming
<1> DEFINE m == Len(incoming)
           lacks == {i \in DOMAIN incoming : \A j \in DOMAIN current : current[j].no # incoming[i].no}
           UpTo(i) == Cardinality({k \in lacks : k <= i})
           Nth(n) == incoming[CHOOSE i \in lacks : UpTo(i) = n]
<1>1. m \in Nat /\ DOMAIN incoming = 1..m /\ incoming \in Seq(Item) /\ incoming \in [1..m -> Item]
    BY ItemListIsSequence, HistoryAssumption
<1>2. lacks = 1..m
    BY <1>1
<1>3. Cardinality(lacks) = m
  <2>1. Cardinality(1..m) = m
    BY <1>1, FS_Interval
  <2> QED BY <1>2, <2>1
<1>4. ASSUME NEW i \in 1..m PROVE UpTo(i) = i
    BY <1>1, <1>2, <1>4, UpToOfInterval
<1>5. Merge(current, incoming) = current \o [n \in 1..Cardinality(lacks) |-> Nth(n)]
    BY DEF Merge
<1>6. ASSUME NEW n \in 1..m PROVE Nth(n) = incoming[n]
  <2> HIDE DEF UpTo, lacks
  <2>1. (CHOOSE i \in lacks : UpTo(i) = n) = n
    BY <1>2, <1>4, <1>6
  <2> QED BY <2>1
<1> HIDE DEF Nth, lacks
<1>7. [n \in 1..Cardinality(lacks) |-> Nth(n)] = [n \in 1..m |-> incoming[n]]
    BY <1>3, <1>6
<1>8. [n \in 1..m |-> incoming[n]] = incoming
    BY <1>1
<1> QED BY <1>5, <1>7, <1>8

\* A stretch behind a stretch is one.
LEMMA StretchBehind ==
    ASSUME NEW current \in ItemList, NEW incoming \in ItemList,
           current # <<>>, incoming # <<>>, Descends(current), Descends(incoming),
           incoming[1].no = LastNo(current) - 1
    PROVE  LET items == current \o incoming IN
           /\ items = Merge(current, incoming)
           /\ items \in ItemList /\ items # <<>>
           /\ DOMAIN items = 1..(Len(current) + Len(incoming))
           /\ \A i \in 1..Len(current) : items[i] = current[i]
           /\ \A i \in 1..Len(incoming) : items[Len(current) + i] = incoming[i]
           /\ Descends(items)
           /\ LastNo(items) = LastNo(incoming)
<1> DEFINE items == current \o incoming
           m == Len(current)
           n == Len(incoming)
<1>1. /\ current \in Seq(Item) /\ incoming \in Seq(Item)
      /\ m \in Nat /\ n \in Nat /\ m >= 1 /\ n >= 1
      /\ DOMAIN current = 1..m /\ DOMAIN incoming = 1..n
    BY ItemListIsSequence, Ends
<1>2. ASSUME NEW i \in DOMAIN incoming, NEW j \in DOMAIN current PROVE current[j].no # incoming[i].no
  <2>1. incoming[i].no <= LastNo(current) - 1 /\ current[j].no >= LastNo(current)
    BY StretchBounds
  <2> QED BY <2>1, Ends, ItemFields
<1>3. Merge(current, incoming) = items
    BY <1>2, MergeBehind
<1>4. /\ items \in Seq(Item) /\ Len(items) = m + n /\ DOMAIN items = 1..(m + n)
      /\ \A i \in 1..m : items[i] = current[i]
      /\ \A i \in 1..n : items[m + i] = incoming[i]
    BY <1>1
<1> HIDE DEF items
<1>5. m + n <= MaxRev
  <2>1. current[1].no = LastNo(current) + m - 1 /\ incoming[1].no = LastNo(incoming) + n - 1
    BY StretchBounds, Ends
  <2> QED BY <2>1, <1>1, Ends, HistoryAssumption
<1>6. items \in ItemList
  <2>1. items \in [1..(m + n) -> Item] /\ m + n \in 0..MaxRev
    BY <1>1, <1>4, <1>5, HistoryAssumption
  <2> QED BY <2>1, SequenceIsItemList
<1>7. items # <<>>
    BY <1>1, <1>4, EmptyItemList
<1>8. ASSUME NEW i \in DOMAIN items PROVE items[i].no = items[1].no + 1 - i
  <2>1. items[1].no = LastNo(current) + m - 1 /\ LastNo(current) \in Nat
    BY <1>1, <1>4, StretchBounds, Ends
  <2>2. CASE i \in 1..m
    <3>1. current[i].no = current[1].no + 1 - i
      BY <2>2, <1>1, StretchBounds
    <3> QED BY <3>1, <2>2, <1>1, <1>4
  <2>3. CASE i \notin 1..m
    <3>1. PICK k \in 1..n : i = m + k
      <4>1. i - m \in 1..n /\ i = m + (i - m)
        BY <2>3, <1>1, <1>4
      <4> QED BY <4>1
    <3>2. incoming[k].no = incoming[1].no + 1 - k
      BY <1>1, StretchBounds
    <3>3. items[i].no = LastNo(current) - 1 + 1 - k
      BY <3>1, <3>2, <1>4
    <3> QED BY <3>1, <3>3, <2>1, <1>1
  <2> QED BY <2>2, <2>3
<1>9. LastNo(items) = LastNo(incoming)
    BY <1>1, <1>4 DEF LastNo
<1> QED BY <1>3, <1>4, <1>6, <1>7, <1>8, <1>9 DEF items, Descends

---------------------------------------------------------------------------------
(* Calls.                                                                    *)

\* One call changes, into one that is as it should be.
LEMMA OneCallChanges ==
    ASSUME HistoryTypeOK, \A d \in Call : CallFine(revs, served, call[d]),
           NEW c \in Call, NEW m, CallFine(revs, served, m),
           call' = [call EXCEPT ![c] = m], UNCHANGED <<revs, served>>
    PROVE  /\ call' \in [Call -> CallState]
           /\ \A d \in Call : CallFine(revs', served', call'[d])
           /\ call'[c] = m
           /\ \A d \in Call : d # c => call'[d] = call[d]
<1>1. call \in [Call -> CallState] /\ m \in CallState
    BY DEF HistoryTypeOK, CallFine
<1>2. call' \in [Call -> CallState] /\ call'[c] = m
    BY <1>1
<1>3. ASSUME NEW d \in Call, d # c PROVE call'[d] = call[d]
    BY <1>1, <1>3
<1>4. ASSUME NEW d \in Call PROVE CallFine(revs, served, call'[d])
    BY <1>2, <1>3
<1> QED BY <1>2, <1>3, <1>4

LEMMA UnusedFine == ASSUME HistoryTypeOK PROVE CallFine(revs, served, Unused)
<1>1. Unused \in CallState
    BY EmptyItemList DEF Unused, CallState
<1> QED BY <1>1 DEF CallFine, PageFine, Unused

\* A call that was answered, lost or dropped is none any more.
LEMMA CallGoes ==
    ASSUME HistoryTypeOK, \A d \in Call : CallFine(revs, served, call[d]),
           NEW c \in Call, call' = Gone(c), UNCHANGED <<revs, served>>
    PROVE  /\ call' \in [Call -> CallState]
           /\ \A d \in Call : CallFine(revs', served', call'[d])
           /\ \A d \in Call : d # c => call'[d] = call[d]
<1>1. call' = [call EXCEPT ![c] = Unused]
    BY DEF Gone
<1> QED BY <1>1, UnusedFine, OneCallChanges

\* A call is sent.
LEMMA CallSent ==
    ASSUME HistoryTypeOK, \A d \in Call : CallFine(revs, served, call[d]),
           NEW c \in Call, NEW kind \in {"first", "more", "detail", "diff"}, NEW at \in Rev \cup {None},
           call' = Sent(c, kind, at), UNCHANGED <<revs, served>>,
           kind = "first" => at = None,
           kind = "more" => at \in Rev \ {1} /\ (revs > 0 => at <= revs),
           kind \in {"detail", "diff"} => at \in Rev
    PROVE  /\ call' \in [Call -> CallState]
           /\ \A d \in Call : CallFine(revs', served', call'[d])
           /\ call'[c].kind = kind /\ call'[c].at = at /\ call'[c].state = "sent"
           /\ \A d \in Call : d # c => call'[d] = call[d]
<1> DEFINE m == [[Unused EXCEPT !.kind = kind] EXCEPT !.at = at]
<1>1. m = [kind |-> kind, at |-> at, state |-> "sent", items |-> <<>>, next |-> None]
  <2>1. [Unused EXCEPT !.kind = kind]
          = [kind |-> kind, at |-> None, state |-> "sent", items |-> <<>>, next |-> None]
    BY DEF Unused
  <2>2. [[kind |-> kind, at |-> None, state |-> "sent", items |-> <<>>, next |-> None] EXCEPT !.at = at]
          = [kind |-> kind, at |-> at, state |-> "sent", items |-> <<>>, next |-> None]
    OBVIOUS
  <2> QED BY <2>1, <2>2, Zenon
<1>2. m \in CallState
    BY <1>1, EmptyItemList DEF CallState
<1>3. m.kind = kind /\ m.at = at /\ m.state = "sent"
    BY <1>1
<1>4. call' = [call EXCEPT ![c] = m]
    BY DEF Sent
<1> HIDE DEF m
<1>5. CallFine(revs, served, m)
    BY <1>2, <1>3 DEF CallFine, PageFine
<1> QED BY <1>3, <1>4, <1>5, OneCallChanges

---------------------------------------------------------------------------------
(* Initially, and when the panel starts over.                                *)

LEMMA EmptyPaginationFine ==
    /\ EmptyPagination \in PaginationState
    /\ EmptyPagination.items = <<>> /\ EmptyPagination.next = None
    /\ EmptyPagination.seen = {} /\ EmptyPagination.requested = {}
    /\ DOMAIN EmptyPagination.items = {}
BY EmptyItemList DEF EmptyPagination, PaginationState

LEMMA NothingSelectedFine == NothingSelected \in ViewState
BY DEF NothingSelected, ViewState, Key

\* A list that was not loaded is as it should be.
LEMMA EmptyListFine ==
    ASSUME pagination = EmptyPagination, list # "ready"
    PROVE  ListFine
BY EmptyPaginationFine DEF ListFine, Descends, OneServed, Known

LEMMA NothingSelectedIsFine ==
    ASSUME view = NothingSelected PROVE DetailsOfSelection
BY DEF DetailsOfSelection, NothingSelected

LEMMA InitEstablishes == Init => IInv
<1> SUFFICES ASSUME Init PROVE IInv
    OBVIOUS
<1> USE DEF Init
<1>1. PICK c \in Call :
        /\ call = [[d \in Call |-> Unused] EXCEPT ![c] = [Unused EXCEPT !.kind = "first"]]
        /\ active = [list |-> c, detail |-> None, diff |-> None]
    OBVIOUS
<1> DEFINE m == [Unused EXCEPT !.kind = "first"]
<1>2. m = [kind |-> "first", at |-> None, state |-> "sent", items |-> <<>>, next |-> None]
    BY DEF Unused
<1>3. m \in CallState /\ Unused \in CallState
    BY <1>2, EmptyItemList DEF CallState, Unused
<1>4. m.kind = "first" /\ m.at = None /\ m.state = "sent"
    BY <1>2
<1> HIDE DEF m
<1>5. CallFine(revs, served, m) /\ CallFine(revs, served, Unused)
    BY <1>3, <1>4 DEF CallFine, PageFine, Unused
<1>6. /\ call[c] = m /\ \A d \in Call : d # c => call[d] = Unused
      /\ call \in [Call -> CallState]
    BY <1>1, <1>3 DEF m
<1>7. revs \in 0..MaxRev /\ served \in 0..MaxRev
    BY HistoryAssumption DEF Rev
<1>8. active \in [list: Call \cup {None}, detail: Call \cup {None}, diff: Call \cup {None}]
      /\ active.list = c /\ active.detail = None /\ active.diff = None
    BY <1>1
<1>9. HistoryTypeOK
    BY <1>6, <1>7, <1>8, EmptyPaginationFine, NothingSelectedFine DEF HistoryTypeOK
<1>10. \A d \in Call : CallFine(revs, served, call[d])
    BY <1>5, <1>6
<1>11. ListFine
    BY EmptyListFine
<1>12. OwnersFine
    BY <1>4, <1>6, <1>8 DEF OwnersFine, OwnerFine
<1>13. DetailsOfSelection
    BY NothingSelectedIsFine
<1>14. SpinnersHaveCalls
  <2>1. "detail" \notin view.loading /\ "diff" \notin view.loading
    BY DEF NothingSelected
  <2>2. active.list # None
    BY <1>8, HistoryAssumption
  <2> QED BY <1>4, <1>6, <1>8, <2>1, <2>2 DEF SpinnersHaveCalls
<1> QED BY <1>9, <1>10, <1>11, <1>12, <1>13, <1>14 DEF IInv

LEMMA RefreshKeeps == ASSUME IInv, NEW c \in Call, Refresh(c) PROVE IInv'
<1> USE DEF IInv
<1>1. /\ Free(c) /\ list' = "loading" /\ pagination' = EmptyPagination /\ ~more'
      /\ moreError' = "none" /\ view' = NothingSelected
      /\ active' = [list |-> c, detail |-> None, diff |-> None]
      /\ call' = Sent(c, "first", None) /\ more' \in BOOLEAN
      /\ UNCHANGED <<revs, served>>
    BY DEF Refresh
<1>2. /\ call' \in [Call -> CallState]
      /\ \A d \in Call : CallFine(revs', served', call'[d])
      /\ call'[c].kind = "first"
    BY <1>1, CallSent
<1>3. active' \in [list: Call \cup {None}, detail: Call \cup {None}, diff: Call \cup {None}]
      /\ active'.list = c /\ active'.detail = None /\ active'.diff = None
    BY <1>1
<1>4. HistoryTypeOK'
    BY <1>1, <1>2, <1>3, EmptyPaginationFine, NothingSelectedFine DEF HistoryTypeOK
<1>5. ListFine'
    BY <1>1, EmptyPaginationFine DEF ListFine, Descends, OneServed, Known
<1>6. OwnersFine'
    BY <1>1, <1>2, <1>3 DEF OwnersFine, OwnerFine
<1>7. DetailsOfSelection'
    BY <1>1 DEF DetailsOfSelection, NothingSelected
<1>8. SpinnersHaveCalls'
  <2>1. "detail" \notin view'.loading /\ "diff" \notin view'.loading
    BY <1>1 DEF NothingSelected
  <2>2. active'.list # None
    BY <1>3, HistoryAssumption
  <2> QED BY <1>1, <1>2, <1>3, <2>1, <2>2 DEF SpinnersHaveCalls
<1> QED BY <1>2, <1>4, <1>5, <1>6, <1>7, <1>8

---------------------------------------------------------------------------------
(* The right half of the panel.                                              *)

\* The left half of the panel and the call that owns it are left alone.
LEMMA LeftHalfKept ==
    ASSUME IInv, UNCHANGED <<revs, served, list, pagination, more, moreError>>,
           active'.list = active.list,
           active.list # None => call'[active.list] = call[active.list]
    PROVE  /\ ListFine'
           /\ active'.list # None => OwnerFine(call[active.list])'
           /\ list' = "loading" => active'.list # None /\ call'[active'.list].kind = "first"
           /\ more' => active'.list # None /\ call'[active'.list].kind = "more"
<1>1. ListFine'
    BY DEF IInv, ListFine
<1>2. active'.list # None => OwnerFine(call[active.list])'
    BY DEF IInv, OwnersFine, OwnerFine
<1>3. /\ list' = "loading" => active'.list # None /\ call'[active'.list].kind = "first"
      /\ more' => active'.list # None /\ call'[active'.list].kind = "more"
    BY DEF IInv, SpinnersHaveCalls
<1> QED BY <1>1, <1>2, <1>3

\* A free call owns nothing, nor does one of another kind.
LEMMA OwnersHaveTheirKind ==
    ASSUME IInv, NEW c \in Call
    PROVE  /\ active.list = c => call[c].kind \in {"first", "more"}
           /\ active.detail = c => call[c].kind = "detail"
           /\ active.diff = c => call[c].kind = "diff"
           /\ c # None
<1>1. c # None
    BY HistoryAssumption
<1> QED BY <1>1 DEF IInv, OwnersFine, OwnerFine

LEMMA ActiveFields ==
    ASSUME IInv
    PROVE  /\ active.list \in Call \cup {None} /\ active.detail \in Call \cup {None}
           /\ active.diff \in Call \cup {None}
           /\ active = [list |-> active.list, detail |-> active.detail, diff |-> active.diff]
BY DEF IInv, HistoryTypeOK

LEMMA ViewFields ==
    ASSUME IInv
    PROVE  /\ view.selected \in Rev \cup {None} /\ view.detail \in Rev \cup {None}
           /\ view.diff \in Key /\ view.key \in Key
           /\ view.loading \in SUBSET {"detail", "diff"} /\ view.visible \in BOOLEAN
BY DEF IInv, HistoryTypeOK, ViewState

LEMMA SelectKeeps == ASSUME IInv, NEW c \in Call, NEW no \in Rev, Select(c, no) PROVE IInv'
<1>1. /\ Free(c) /\ view' = Inspecting(no)
      /\ active' = [[active EXCEPT !.detail = c] EXCEPT !.diff = None]
      /\ call' = Sent(c, "detail", no)
      /\ UNCHANGED <<revs, served, list, pagination, more, moreError>>
    BY DEF Select
<1>2. /\ call' \in [Call -> CallState]
      /\ \A d \in Call : CallFine(revs', served', call'[d])
      /\ call'[c].kind = "detail" /\ call'[c].at = no
      /\ \A d \in Call : d # c => call'[d] = call[d]
    BY <1>1, CallSent DEF IInv
<1>3. /\ active' \in [list: Call \cup {None}, detail: Call \cup {None}, diff: Call \cup {None}]
      /\ active'.list = active.list /\ active'.detail = c /\ active'.diff = None
    BY <1>1, ActiveFields
<1>4. active.list # c
    BY <1>1, OwnersHaveTheirKind DEF Free
<1>5. view' = [selected |-> no, detail |-> None, diff |-> None, key |-> None,
               loading |-> {"detail"}, visible |-> FALSE]
    BY <1>1 DEF Inspecting, NothingSelected
<1>6. /\ ListFine'
      /\ active'.list # None => OwnerFine(call[active.list])'
      /\ list' = "loading" => active'.list # None /\ call'[active'.list].kind = "first"
      /\ more' => active'.list # None /\ call'[active'.list].kind = "more"
    BY <1>1, <1>2, <1>3, <1>4, LeftHalfKept, ActiveFields
<1>7. view' \in ViewState
    BY <1>5 DEF ViewState, Key
<1>8. HistoryTypeOK'
    BY <1>1, <1>2, <1>3, <1>7 DEF IInv, HistoryTypeOK
<1>9. OwnersFine'
    BY <1>2, <1>3, <1>5, <1>6 DEF OwnersFine
<1>10. DetailsOfSelection'
    BY <1>5 DEF DetailsOfSelection
<1>11. SpinnersHaveCalls'
    BY <1>2, <1>3, <1>5, <1>6, OwnersHaveTheirKind DEF SpinnersHaveCalls
<1> QED BY <1>2, <1>6, <1>8, <1>9, <1>10, <1>11 DEF IInv

\* Only whether the difference is shown changes.
LEMMA ShowingKeeps ==
    ASSUME IInv, NEW shown \in BOOLEAN, view' = [view EXCEPT !.visible = shown],
           UNCHANGED <<revs, served, list, pagination, more, moreError, active, call>>
    PROVE  IInv'
<1>1. /\ view' \in ViewState
      /\ view'.selected = view.selected /\ view'.detail = view.detail /\ view'.diff = view.diff
      /\ view'.key = view.key /\ view'.loading = view.loading
    BY DEF IInv, HistoryTypeOK, ViewState
<1>2. /\ ListFine'
      /\ active'.list # None => OwnerFine(call[active.list])'
    BY LeftHalfKept
<1>3. HistoryTypeOK'
    BY <1>1 DEF IInv, HistoryTypeOK
<1>4. \A d \in Call : CallFine(revs', served', call'[d])
    BY DEF IInv
<1>5. OwnersFine'
    BY <1>1, <1>2 DEF IInv, OwnersFine
<1>6. DetailsOfSelection'
    BY <1>1 DEF IInv, DetailsOfSelection
<1>7. SpinnersHaveCalls'
    BY <1>1 DEF IInv, SpinnersHaveCalls
<1> QED BY <1>2, <1>3, <1>4, <1>5, <1>6, <1>7 DEF IInv

LEMMA CompareKeeps == ASSUME IInv, NEW c \in Call, Compare(c) PROVE IInv'
<1> DEFINE key == <<ParentOf(view.selected), view.selected>>
<1>1. /\ Free(c) /\ view.detail # None /\ view.selected # 1
      /\ view' = [[[[view EXCEPT !.key = key] EXCEPT !.visible = TRUE] EXCEPT !.diff = None]
                    EXCEPT !.loading = view.loading \cup {"diff"}]
      /\ active' = [active EXCEPT !.diff = c]
      /\ call' = Sent(c, "diff", view.selected)
      /\ UNCHANGED <<revs, served, list, pagination, more, moreError>>
    BY DEF Compare
<1>2. view.selected \in Rev /\ view.selected # None
    BY <1>1, ViewFields DEF IInv, DetailsOfSelection
<1>3. key \in Key
    BY <1>1, <1>2, HistoryAssumption DEF Key, ParentOf, Rev
<1> HIDE DEF key
<1>4. /\ call' \in [Call -> CallState]
      /\ \A d \in Call : CallFine(revs', served', call'[d])
      /\ call'[c].kind = "diff" /\ call'[c].at = view.selected
      /\ \A d \in Call : d # c => call'[d] = call[d]
    BY <1>1, <1>2, CallSent DEF IInv
<1>5. /\ active' \in [list: Call \cup {None}, detail: Call \cup {None}, diff: Call \cup {None}]
      /\ active'.list = active.list /\ active'.detail = active.detail /\ active'.diff = c
    BY <1>1, ActiveFields
<1>6. active.list # c /\ active.detail # c /\ c # None
    BY <1>1, OwnersHaveTheirKind DEF Free
<1>7. /\ view' \in ViewState
      /\ view'.selected = view.selected /\ view'.detail = view.detail
      /\ view'.diff = None /\ view'.key = key /\ view'.loading = view.loading \cup {"diff"}
    BY <1>1, <1>3 DEF IInv, HistoryTypeOK, ViewState, Key
<1>8. /\ ListFine'
      /\ active'.list # None => OwnerFine(call[active.list])'
      /\ list' = "loading" => active'.list # None /\ call'[active'.list].kind = "first"
      /\ more' => active'.list # None /\ call'[active'.list].kind = "more"
    BY <1>1, <1>4, <1>5, <1>6, LeftHalfKept, ActiveFields
<1>9. HistoryTypeOK'
    BY <1>1, <1>4, <1>5, <1>7 DEF IInv, HistoryTypeOK
<1>10. OwnersFine'
  <2>1. active'.detail # None =>
          call'[active'.detail].kind = "detail" /\ call'[active'.detail].at = view'.selected
    BY <1>4, <1>5, <1>6, <1>7, ActiveFields DEF IInv, OwnersFine
  <2>2. view'.key = <<ParentOf(call'[active'.diff].at), call'[active'.diff].at>>
    BY <1>4, <1>5, <1>7 DEF key
  <2> QED BY <1>4, <1>5, <1>8, <2>1, <2>2 DEF OwnersFine
<1>11. DetailsOfSelection'
    BY <1>2, <1>7 DEF IInv, DetailsOfSelection, key
<1>12. SpinnersHaveCalls'
  <2>1. "detail" \in view'.loading => active'.detail # None /\ call'[active'.detail].kind = "detail"
    BY <1>4, <1>5, <1>6, <1>7, ActiveFields DEF IInv, SpinnersHaveCalls
  <2> QED BY <1>4, <1>5, <1>6, <1>8, <2>1 DEF SpinnersHaveCalls
<1> QED BY <1>4, <1>8, <1>9, <1>10, <1>11, <1>12 DEF IInv

LEMMA DeliverDetailKeeps == ASSUME IInv, NEW c \in Call, DeliverDetail(c) PROVE IInv'
<1> DEFINE detail == IF call[c].state = "answered" THEN call[c].at ELSE None
           shown == [[view EXCEPT !.loading = view.loading \ {"detail"}] EXCEPT !.detail = detail]
<1>1. /\ call[c].kind = "detail"
      /\ view' = IF active.detail # c THEN view ELSE shown
      /\ active' = [active EXCEPT !.detail = NotOwner(active.detail, c)]
      /\ call' = Gone(c)
      /\ UNCHANGED <<revs, served, list, pagination, more, moreError>>
    BY DEF DeliverDetail
<1>2. /\ call' \in [Call -> CallState]
      /\ \A d \in Call : CallFine(revs', served', call'[d])
      /\ \A d \in Call : d # c => call'[d] = call[d]
    BY <1>1, CallGoes DEF IInv
<1>3. c # None /\ active.list # c /\ active.diff # c
    BY <1>1, OwnersHaveTheirKind
<1>4. /\ active' \in [list: Call \cup {None}, detail: Call \cup {None}, diff: Call \cup {None}]
      /\ active'.list = active.list /\ active'.diff = active.diff
      /\ active'.detail = IF active.detail = c THEN None ELSE active.detail
    BY <1>1, ActiveFields DEF NotOwner
<1>5. call[c].at \in Rev
    BY <1>1 DEF IInv, CallFine
<1>6. /\ shown \in ViewState
      /\ shown.selected = view.selected /\ shown.diff = view.diff /\ shown.key = view.key
      /\ shown.detail = detail /\ shown.loading = view.loading \ {"detail"}
    BY <1>5 DEF IInv, HistoryTypeOK, ViewState
<1>7. active.detail = c => detail \in {None, view.selected}
    BY <1>3 DEF IInv, OwnersFine
<1> HIDE DEF detail, shown
<1>8. /\ view' \in ViewState
      /\ view'.selected = view.selected /\ view'.diff = view.diff /\ view'.key = view.key
      /\ view'.detail \in {None, view.selected}
      /\ view'.loading = IF active.detail = c THEN view.loading \ {"detail"} ELSE view.loading
    BY <1>1, <1>6, <1>7 DEF IInv, HistoryTypeOK, DetailsOfSelection
<1>9. /\ ListFine'
      /\ active'.list # None => OwnerFine(call[active.list])'
      /\ list' = "loading" => active'.list # None /\ call'[active'.list].kind = "first"
      /\ more' => active'.list # None /\ call'[active'.list].kind = "more"
    BY <1>1, <1>2, <1>3, <1>4, LeftHalfKept, ActiveFields
<1>10. HistoryTypeOK'
    BY <1>1, <1>2, <1>4, <1>8 DEF IInv, HistoryTypeOK
<1>11. OwnersFine'
    BY <1>2, <1>3, <1>4, <1>8, <1>9, ActiveFields DEF IInv, OwnersFine
<1>12. DetailsOfSelection'
    BY <1>8 DEF IInv, DetailsOfSelection
<1>13. SpinnersHaveCalls'
    BY <1>2, <1>3, <1>4, <1>8, <1>9, ActiveFields DEF IInv, SpinnersHaveCalls
<1> QED BY <1>2, <1>9, <1>10, <1>11, <1>12, <1>13 DEF IInv

LEMMA DeliverDiffKeeps == ASSUME IInv, NEW c \in Call, DeliverDiff(c) PROVE IInv'
<1> DEFINE key == <<ParentOf(call[c].at), call[c].at>>
           diff == IF call[c].state = "answered" THEN key ELSE None
           shown == [[[view EXCEPT !.loading = view.loading \ {"diff"}] EXCEPT !.key = None]
                      EXCEPT !.diff = diff]
<1>1. /\ call[c].kind = "diff"
      /\ view' = IF active.diff # c \/ view.key # key THEN view ELSE shown
      /\ active' = [active EXCEPT !.diff = NotOwner(active.diff, c)]
      /\ call' = Gone(c)
      /\ UNCHANGED <<revs, served, list, pagination, more, moreError>>
    BY DEF DeliverDiff
<1>2. /\ call' \in [Call -> CallState]
      /\ \A d \in Call : CallFine(revs', served', call'[d])
      /\ \A d \in Call : d # c => call'[d] = call[d]
    BY <1>1, CallGoes DEF IInv
<1>3. c # None /\ active.list # c /\ active.detail # c
    BY <1>1, OwnersHaveTheirKind
<1>4. /\ active' \in [list: Call \cup {None}, detail: Call \cup {None}, diff: Call \cup {None}]
      /\ active'.list = active.list /\ active'.detail = active.detail
      /\ active'.diff = IF active.diff = c THEN None ELSE active.diff
    BY <1>1, ActiveFields DEF NotOwner
<1>5. active.diff = c => view.key = key
    BY <1>3 DEF IInv, OwnersFine
<1> HIDE DEF key
<1>6. active.diff = c => diff \in Key /\ diff \in {None, view.key}
    BY <1>5, ViewFields DEF Key
<1> HIDE DEF diff
<1>7. active.diff = c =>
      /\ shown \in ViewState
      /\ shown.selected = view.selected /\ shown.detail = view.detail
      /\ shown.diff = diff /\ shown.key = None /\ shown.loading = view.loading \ {"diff"}
    BY <1>6 DEF IInv, HistoryTypeOK, ViewState, Key
<1> HIDE DEF shown
<1>8. /\ view' \in ViewState
      /\ view'.selected = view.selected /\ view'.detail = view.detail
      /\ active.diff # c => view'.diff = view.diff /\ view'.key = view.key
      /\ {view'.diff, view'.key} \subseteq {view.diff, view.key, None}
      /\ view'.loading = IF active.diff = c THEN view.loading \ {"diff"} ELSE view.loading
    BY <1>1, <1>5, <1>6, <1>7 DEF IInv, HistoryTypeOK
<1>9. /\ ListFine'
      /\ active'.list # None => OwnerFine(call[active.list])'
      /\ list' = "loading" => active'.list # None /\ call'[active'.list].kind = "first"
      /\ more' => active'.list # None /\ call'[active'.list].kind = "more"
    BY <1>1, <1>2, <1>3, <1>4, LeftHalfKept, ActiveFields
<1>10. HistoryTypeOK'
    BY <1>1, <1>2, <1>4, <1>8 DEF IInv, HistoryTypeOK
<1>11. OwnersFine'
    BY <1>2, <1>3, <1>4, <1>8, <1>9, ActiveFields DEF IInv, OwnersFine
<1>12. DetailsOfSelection'
    BY <1>8 DEF IInv, DetailsOfSelection
<1>13. SpinnersHaveCalls'
    BY <1>2, <1>3, <1>4, <1>8, <1>9, ActiveFields DEF IInv, SpinnersHaveCalls
<1> QED BY <1>2, <1>9, <1>10, <1>11, <1>12, <1>13 DEF IInv

---------------------------------------------------------------------------------
(* The service and the network.                                              *)

\* The panel is left alone, and an owner stays a call of its kind and cursor.
LEMMA PanelKept ==
    ASSUME IInv, UNCHANGED <<list, pagination, more, moreError, view, active>>, HistoryTypeOK',
           \A d \in Call : CallFine(revs', served', call'[d]),
           \A d \in Call : call'[d].kind = call[d].kind /\ call'[d].at = call[d].at,
           Known(revs', served', pagination.items),
           active.list # None /\ call'[active.list].kind = "more"
             /\ call'[active.list].state = "answered" =>
               NotBothServed(pagination.items, call'[active.list].items)
    PROVE  IInv'
<1>1. ListFine'
    BY DEF IInv, ListFine
<1>2. active.list # None => OwnerFine(call[active.list])'
    BY ActiveFields DEF IInv, OwnersFine, OwnerFine
<1>3. OwnersFine'
    BY <1>2, ActiveFields DEF IInv, OwnersFine
<1>4. DetailsOfSelection'
    BY DEF IInv, DetailsOfSelection
<1>5. SpinnersHaveCalls'
    BY ActiveFields DEF IInv, SpinnersHaveCalls
<1> QED BY <1>1, <1>3, <1>4, <1>5 DEF IInv

\* A call is answered or fails; the answer of the owner goes with the list.
LEMMA AnswerKeeps ==
    ASSUME IInv, NEW c \in Call, NEW m, CallFine(revs, served, m),
           m.kind = call[c].kind, m.at = call[c].at,
           active.list = c /\ m.kind = "more" /\ m.state = "answered" =>
             NotBothServed(pagination.items, m.items),
           call' = [call EXCEPT ![c] = m],
           UNCHANGED <<revs, served, list, pagination, more, moreError, view, active>>
    PROVE  IInv'
<1>1. /\ call' \in [Call -> CallState]
      /\ \A d \in Call : CallFine(revs', served', call'[d])
      /\ call'[c] = m
      /\ \A d \in Call : d # c => call'[d] = call[d]
    BY OneCallChanges DEF IInv
<1>2. HistoryTypeOK'
    BY <1>1 DEF IInv, HistoryTypeOK
<1>3. \A d \in Call : call'[d].kind = call[d].kind /\ call'[d].at = call[d].at
    BY <1>1
<1>4. Known(revs', served', pagination.items)
    BY DEF IInv, ListFine
<1>5. active.list # None /\ call'[active.list].kind = "more"
        /\ call'[active.list].state = "answered" =>
          NotBothServed(pagination.items, call'[active.list].items)
    BY <1>1, ActiveFields DEF IInv, OwnersFine, OwnerFine
<1> QED BY <1>1, <1>2, <1>3, <1>4, <1>5, PanelKept

LEMMA FailKeeps == ASSUME IInv, NEW c \in Call, Fail(c) PROVE IInv'
<1>1. PICK s \in {"failed", "garbled"} : call' = [call EXCEPT ![c].state = s]
    BY DEF Fail
<1> DEFINE m == [call[c] EXCEPT !.state = s]
<1>2. call' = [call EXCEPT ![c] = m]
    BY <1>1
<1>3. call[c] \in CallState /\ CallFine(revs, served, call[c])
    BY DEF IInv, CallFine
<1>4. m \in CallState /\ m.kind = call[c].kind /\ m.at = call[c].at /\ m.state = s
    BY <1>3 DEF CallState
<1> HIDE DEF m
<1>5. CallFine(revs, served, m)
    BY <1>3, <1>4 DEF CallFine, PageFine
<1>6. UNCHANGED <<revs, served, list, pagination, more, moreError, view, active>>
    BY DEF Fail
<1> QED BY <1>2, <1>4, <1>5, <1>6, AnswerKeeps

\* The service serves nothing that is older than what it served when the list was
\* filled: the page behind the list does not bear its badge again.
LEMMA BadgeOnce ==
    ASSUME IInv, revs # 0, NEW c \in Call, active.list = c, call[c].kind = "more",
           NEW items, items = PageItems(call[c].at)
    PROVE  NotBothServed(pagination.items, items)
<1> DEFINE at == call[c].at
<1>1. /\ list = "ready" /\ pagination.next = at /\ at \in Rev \ {1} /\ at <= revs
      /\ HistoryTypeOK
    BY OwnersHaveTheirKind, Types DEF IInv, OwnersFine, OwnerFine, CallFine
<1>2. GoodCursor(at)
    BY <1>1 DEF GoodCursor
<1>3. /\ TopOf(at) = at - 1 /\ at \in Nat
    BY <1>1, <1>2, TopRange, HistoryAssumption DEF Rev
<1>4. /\ pagination.items \in ItemList /\ Descends(pagination.items) /\ pagination.items # <<>>
      /\ LastNo(pagination.items) = at /\ Known(revs, served, pagination.items)
    BY <1>1, <1>3, Types DEF IInv, HistoryTypeOK, PaginationState, ListFine
<1>5. /\ items \in ItemList /\ items # <<>> /\ Descends(items)
      /\ Known(revs, served, items) /\ items[1].no = TopOf(at)
    BY <1>1, <1>2, PageOfHistory
<1>6. SUFFICES ASSUME NEW i \in DOMAIN pagination.items, NEW j \in DOMAIN items,
                      pagination.items[i].isServed, items[j].isServed
               PROVE  FALSE
    BY DEF NotBothServed
<1>7. pagination.items[i].no >= at /\ pagination.items[i].no <= served
    BY <1>1, <1>4, <1>6, StretchBounds, Types DEF Known
<1>8. items[j].no = served
  <2> DEFINE size == IF TopOf(at) < Limit THEN TopOf(at) ELSE Limit
  <2>1. j \in 1..size /\ items[j] = ItemNow(TopOf(at) + 1 - j)
    BY <1>1, <1>2, <1>6, PageItemsRow
  <2>2. items[j].no = TopOf(at) + 1 - j /\ items[j].isServed = (TopOf(at) + 1 - j = served)
    BY <2>1 DEF ItemNow
  <2> QED BY <2>2, <1>6
<1>9. items[j].no <= at - 1
    BY <1>3, <1>5, <1>6, StretchBounds
<1>10. pagination.items[i].no \in Nat /\ served \in Nat
    BY <1>1, <1>4, <1>6, ItemFields, Types
<1> HIDE DEF at
<1> QED BY <1>3, <1>7, <1>8, <1>9, <1>10

LEMMA ServeKeeps == ASSUME IInv, NEW c \in Call, Serve(c) PROVE IInv'
<1> DEFINE m == call[c]
           items == PageItems(m.at)
           next == NextCursor(m.at)
<1>1. /\ ~Free(c) /\ m.state = "sent"
      /\ UNCHANGED <<revs, served, list, pagination, more, moreError, view, active>>
      /\ call' = [call EXCEPT ![c] =
           IF revs = 0 THEN [m EXCEPT !.state = "failed"]
           ELSE IF m.kind \in {"detail", "diff"} THEN [m EXCEPT !.state = "answered"]
           ELSE IF Decodes(items, next, m.at)
                  THEN [m EXCEPT !.state = "answered", !.items = items, !.next = next]
                  ELSE [m EXCEPT !.state = "undecodable"]]
    BY DEF Serve
<1>2. m \in CallState /\ CallFine(revs, served, m) /\ HistoryTypeOK
    BY DEF IInv, CallFine
<1>3. m.kind \in {"first", "more", "detail", "diff"}
    BY <1>1, <1>2 DEF CallState, Free
<1>4. CASE revs = 0
  <2> DEFINE n == [m EXCEPT !.state = "failed"]
  <2>1. call' = [call EXCEPT ![c] = n]
    BY <1>1, <1>4
  <2>2. n \in CallState /\ n.kind = m.kind /\ n.at = m.at /\ n.state = "failed"
    BY <1>2 DEF CallState
  <2> HIDE DEF n
  <2>3. CallFine(revs, served, n)
    BY <1>2, <2>2 DEF CallFine, PageFine
  <2> QED BY <1>1, <2>1, <2>2, <2>3, AnswerKeeps
<1>5. CASE revs # 0 /\ m.kind \in {"detail", "diff"}
  <2> DEFINE n == [m EXCEPT !.state = "answered"]
  <2>1. call' = [call EXCEPT ![c] = n]
    BY <1>1, <1>5
  <2>2. n \in CallState /\ n.kind = m.kind /\ n.at = m.at /\ n.state = "answered"
    BY <1>2 DEF CallState
  <2> HIDE DEF n
  <2>3. CallFine(revs, served, n)
    BY <1>2, <1>5, <2>2 DEF CallFine, PageFine
  <2> QED BY <1>1, <1>5, <2>1, <2>2, <2>3, AnswerKeeps
<1>6. CASE revs # 0 /\ m.kind \in {"first", "more"}
  <2> DEFINE n == [[[m EXCEPT !.state = "answered"] EXCEPT !.items = items] EXCEPT !.next = next]
  <2>1. GoodCursor(m.at)
    BY <1>2, <1>6, Types DEF CallFine, GoodCursor
  <2>2. /\ items \in ItemList /\ items # <<>>
        /\ Descends(items) /\ OneServed(items) /\ Known(revs, served, items)
        /\ \A i \in DOMAIN items : items[i].isCurrent => m.at = None /\ i = 1
        /\ items[1].no = TopOf(m.at)
        /\ next = IF LastNo(items) = 1 THEN None ELSE LastNo(items)
    BY <1>2, <1>6, <2>1, PageOfHistory
  <2>3. Decodes(items, next, m.at)
    BY <1>2, <1>6, <2>1, PageDecodes
  <2>4. next \in Rev \cup {None}
    BY <2>2, Ends DEF Rev
  <2>5. m.kind = "more" => m.at # None /\ items[1].no = m.at - 1
    BY <1>2, <1>6, <2>1, <2>2, TopRange, Types DEF CallFine, Rev
  <2>6. active.list = c /\ m.kind = "more" => NotBothServed(pagination.items, items)
    BY <1>6, BadgeOnce
  <2> HIDE DEF items, next
  <2>7. call' = [call EXCEPT ![c] = n]
    BY <1>1, <1>6, <2>3
  <2>8. /\ n \in CallState /\ n.kind = m.kind /\ n.at = m.at /\ n.state = "answered"
        /\ n.items = items /\ n.next = next
    BY <1>2, <2>2, <2>4 DEF CallState
  <2> HIDE DEF n
  <2>9. PageFine(revs, served, n)
    BY <1>6, <2>2, <2>5, <2>8 DEF PageFine
  <2>10. CallFine(revs, served, n)
    BY <1>2, <2>8, <2>9 DEF CallFine
  <2> QED BY <1>1, <2>6, <2>7, <2>8, <2>10, AnswerKeeps
<1> QED BY <1>3, <1>4, <1>5, <1>6

LEMMA ElsewhereKeeps == ASSUME IInv, Elsewhere PROVE IInv'
<1>0. HistoryTypeOK
    BY DEF IInv
<1>1. /\ UNCHANGED <<list, pagination, more, moreError, view, active, call>>
      /\ revs > 0
      /\ revs' \in 0..MaxRev /\ served' \in 0..MaxRev
      /\ revs' = 0 \/ served' = revs \/ served' = served
      /\ revs' = 0 \/ revs' >= revs
  <2>1. CASE revs < MaxRev /\ revs' = revs + 1 /\ UNCHANGED served
    BY <1>0, <2>1, Types DEF Elsewhere, HistoryTypeOK
  <2>2. CASE served' = revs /\ UNCHANGED revs
    BY <1>0, <2>2, Types DEF Elsewhere, HistoryTypeOK
  <2>3. CASE revs' = 0 /\ served' = 0
    BY <1>0, <2>3, Types DEF Elsewhere, HistoryTypeOK
  <2> QED BY <2>1, <2>2, <2>3 DEF Elsewhere
<1>2. ASSUME NEW items \in ItemList, Known(revs, served, items)
      PROVE  Known(revs', served', items)
    BY <1>1, <1>2, ItemFields, Types DEF IInv, Known
<1>3. ASSUME NEW d \in Call PROVE CallFine(revs', served', call'[d])
  <2>1. call[d] \in CallState /\ CallFine(revs, served, call[d]) /\ call[d].items \in ItemList
    BY DEF IInv, CallFine, CallState
  <2>2. PageFine(revs', served', call[d])
    BY <1>1, <1>2, <2>1 DEF CallFine, PageFine
  <2>3. call[d].kind = "more" => call[d].at \in Nat /\ (revs' > 0 => call[d].at <= revs')
    BY <1>1, <2>1, Types DEF IInv, CallFine, Rev
  <2> QED BY <1>1, <2>1, <2>2, <2>3 DEF CallFine
<1>4. HistoryTypeOK'
    BY <1>1 DEF IInv, HistoryTypeOK
<1>5. Known(revs', served', pagination.items)
    BY <1>2 DEF IInv, HistoryTypeOK, PaginationState, ListFine
<1>6. active.list # None /\ call'[active.list].kind = "more"
        /\ call'[active.list].state = "answered" =>
          NotBothServed(pagination.items, call'[active.list].items)
    BY <1>1, ActiveFields DEF IInv, OwnersFine, OwnerFine
<1> QED BY <1>1, <1>3, <1>4, <1>5, <1>6, PanelKept

---------------------------------------------------------------------------------
(* The left half of the panel.                                               *)

LEMMA PaginationFields ==
    ASSUME IInv
    PROVE  /\ pagination.items \in ItemList /\ pagination.next \in Rev \cup {None}
           /\ pagination.seen \in SUBSET Rev /\ pagination.requested \in SUBSET Rev
BY DEF IInv, HistoryTypeOK, PaginationState

\* The right half of the panel and the calls that own it are left alone, for a call
\* that they are not.
LEMMA RightHalfKept ==
    ASSUME IInv, NEW c \in Call, call[c].kind \notin {"detail", "diff"}, UNCHANGED view,
           active'.detail = active.detail, active'.diff = active.diff,
           \A d \in Call : d # c => call'[d] = call[d]
    PROVE  /\ active'.detail # None =>
                call'[active'.detail].kind = "detail" /\ call'[active'.detail].at = view'.selected
           /\ active'.diff # None =>
                /\ call'[active'.diff].kind = "diff"
                /\ view'.key = <<ParentOf(call'[active'.diff].at), call'[active'.diff].at>>
           /\ DetailsOfSelection'
           /\ "detail" \in view'.loading => active'.detail # None
           /\ "diff" \in view'.loading => active'.diff # None
<1>1. active.detail # c /\ active.diff # c
    BY OwnersHaveTheirKind
<1>2. DetailsOfSelection'
    BY DEF IInv, DetailsOfSelection
<1>3. active'.detail # None =>
         call'[active'.detail].kind = "detail" /\ call'[active'.detail].at = view'.selected
    BY <1>1, ActiveFields DEF IInv, OwnersFine
<1>4. active'.diff # None =>
         /\ call'[active'.diff].kind = "diff"
         /\ view'.key = <<ParentOf(call'[active'.diff].at), call'[active'.diff].at>>
    BY <1>1, ActiveFields DEF IInv, OwnersFine
<1>5. /\ "detail" \in view'.loading => active'.detail # None
      /\ "diff" \in view'.loading => active'.diff # None
    BY DEF IInv, SpinnersHaveCalls
<1> QED BY <1>2, <1>3, <1>4, <1>5

\* The cursor of a list that may go on was never asked for by this list.
LEMMA LoadMoreAsks ==
    ASSUME IInv, NEW c \in Call, LoadMore(c)
    PROVE  /\ Free(c) /\ list = "ready" /\ pagination.next # None /\ ~more
           /\ pagination' = [pagination EXCEPT !.requested = pagination.requested \cup {pagination.next}]
           /\ more' = TRUE /\ moreError' = "none"
           /\ active' = [active EXCEPT !.list = c]
           /\ call' = Sent(c, "more", pagination.next)
           /\ UNCHANGED <<revs, served, list, view>>
<1>1. ~more /\ pagination.next \notin pagination.requested
    BY DEF IInv, ListFine, LoadMore
<1> QED BY <1>1 DEF LoadMore

LEMMA LoadMoreKeeps == ASSUME IInv, NEW c \in Call, LoadMore(c) PROVE IInv'
<1> DEFINE cursor == pagination.next
           asked == [pagination EXCEPT !.requested = pagination.requested \cup {cursor}]
<1>1. /\ Free(c) /\ list = "ready" /\ cursor # None /\ ~more
      /\ pagination' = asked
      /\ more' = TRUE /\ moreError' = "none"
      /\ active' = [active EXCEPT !.list = c]
      /\ call' = Sent(c, "more", cursor)
      /\ UNCHANGED <<revs, served, list, view>>
    BY LoadMoreAsks
<1>2. /\ cursor \in Rev \ {1} /\ cursor = LastNo(pagination.items) /\ pagination.items # <<>>
    BY <1>1, PaginationFields DEF IInv, ListFine
<1>3. revs > 0 => cursor <= revs
    BY <1>2, PaginationFields, Ends DEF IInv, ListFine, Known, LastNo
<1>4. /\ call' \in [Call -> CallState]
      /\ \A d \in Call : CallFine(revs', served', call'[d])
      /\ call'[c].kind = "more" /\ call'[c].at = cursor /\ call'[c].state = "sent"
      /\ \A d \in Call : d # c => call'[d] = call[d]
    BY <1>1, <1>2, <1>3, CallSent DEF IInv
<1>5. /\ active' \in [list: Call \cup {None}, detail: Call \cup {None}, diff: Call \cup {None}]
      /\ active'.list = c /\ active'.detail = active.detail /\ active'.diff = active.diff
    BY <1>1, ActiveFields
<1>6. /\ asked \in PaginationState
      /\ asked.items = pagination.items /\ asked.next = cursor /\ asked.seen = pagination.seen
      /\ asked.requested = pagination.requested \cup {cursor}
    BY <1>2 DEF IInv, HistoryTypeOK, PaginationState
<1> HIDE DEF asked
<1>7. HistoryTypeOK'
    BY <1>1, <1>4, <1>5, <1>6 DEF IInv, HistoryTypeOK
<1>8. ListFine'
  <2>1. \A x \in asked.seen \cup asked.requested : asked.items # <<>> /\ x >= LastNo(asked.items)
    BY <1>2, <1>6, PaginationFields, Ends DEF IInv, ListFine
  <2> QED BY <1>1, <1>2, <1>6, <2>1 DEF IInv, ListFine
<1>9. c # None /\ call[c].kind \notin {"detail", "diff"}
    BY <1>1, OwnersHaveTheirKind DEF Free
<1>10. /\ active'.detail # None =>
            call'[active'.detail].kind = "detail" /\ call'[active'.detail].at = view'.selected
       /\ active'.diff # None =>
            /\ call'[active'.diff].kind = "diff"
            /\ view'.key = <<ParentOf(call'[active'.diff].at), call'[active'.diff].at>>
       /\ DetailsOfSelection'
       /\ "detail" \in view'.loading => active'.detail # None
       /\ "diff" \in view'.loading => active'.diff # None
    BY <1>1, <1>4, <1>5, <1>9, RightHalfKept
<1>11. OwnerFine(call[active.list])'
    BY <1>1, <1>4, <1>5, <1>6 DEF OwnerFine
<1>12. OwnersFine'
    BY <1>10, <1>11 DEF OwnersFine
<1>13. SpinnersHaveCalls'
    BY <1>1, <1>4, <1>5, <1>9, <1>10 DEF SpinnersHaveCalls
<1> QED BY <1>4, <1>7, <1>8, <1>10, <1>12, <1>13 DEF IInv

\* The answer to a page request of a panel that has moved on changes nothing.
LEMMA LateAnswerKeeps ==
    ASSUME IInv, NEW c \in Call, call[c].kind \in {"first", "more"}, ~OwnsList(c),
           active' = [active EXCEPT !.list = NotOwner(active.list, c)], call' = Gone(c),
           UNCHANGED <<revs, served, list, pagination, more, moreError, view>>
    PROVE  IInv'
<1>1. /\ call' \in [Call -> CallState]
      /\ \A d \in Call : CallFine(revs', served', call'[d])
      /\ \A d \in Call : d # c => call'[d] = call[d]
    BY CallGoes DEF IInv
<1>2. active.list # c /\ active' = active
    BY ActiveFields DEF OwnsList, NotOwner
<1>3. /\ ListFine'
      /\ active'.list # None => OwnerFine(call[active.list])'
      /\ list' = "loading" => active'.list # None /\ call'[active'.list].kind = "first"
      /\ more' => active'.list # None /\ call'[active'.list].kind = "more"
    BY <1>1, <1>2, LeftHalfKept, ActiveFields
<1>4. /\ active'.detail # None =>
           call'[active'.detail].kind = "detail" /\ call'[active'.detail].at = view'.selected
      /\ active'.diff # None =>
           /\ call'[active'.diff].kind = "diff"
           /\ view'.key = <<ParentOf(call'[active'.diff].at), call'[active'.diff].at>>
      /\ DetailsOfSelection'
      /\ "detail" \in view'.loading => active'.detail # None
      /\ "diff" \in view'.loading => active'.diff # None
    BY <1>1, <1>2, RightHalfKept
<1>5. HistoryTypeOK'
    BY <1>1, <1>2 DEF IInv, HistoryTypeOK
<1>6. OwnersFine'
    BY <1>3, <1>4 DEF OwnersFine
<1>7. SpinnersHaveCalls'
    BY <1>3, <1>4 DEF SpinnersHaveCalls
<1> QED BY <1>1, <1>3, <1>4, <1>5, <1>6, <1>7 DEF IInv

\* The call that owned the list is over, and neither spinner of the list is left.
LEMMA OwnerDone ==
    ASSUME IInv, NEW c \in Call, call[c].kind \in {"first", "more"}, OwnsList(c),
           active' = [active EXCEPT !.list = NotOwner(active.list, c)], call' = Gone(c),
           UNCHANGED <<revs, served, view>>,
           list' \in {"error", "ready"}, more' = FALSE, pagination' \in PaginationState,
           moreError' \in {"none", "failed", "pagination"}, ListFine'
    PROVE  IInv'
<1>1. /\ call' \in [Call -> CallState]
      /\ \A d \in Call : CallFine(revs', served', call'[d])
      /\ \A d \in Call : d # c => call'[d] = call[d]
    BY CallGoes DEF IInv
<1>2. /\ active' \in [list: Call \cup {None}, detail: Call \cup {None}, diff: Call \cup {None}]
      /\ active'.list = None /\ active'.detail = active.detail /\ active'.diff = active.diff
    BY ActiveFields DEF OwnsList, NotOwner
<1>3. /\ active'.detail # None =>
           call'[active'.detail].kind = "detail" /\ call'[active'.detail].at = view'.selected
      /\ active'.diff # None =>
           /\ call'[active'.diff].kind = "diff"
           /\ view'.key = <<ParentOf(call'[active'.diff].at), call'[active'.diff].at>>
      /\ DetailsOfSelection'
      /\ "detail" \in view'.loading => active'.detail # None
      /\ "diff" \in view'.loading => active'.diff # None
    BY <1>1, <1>2, RightHalfKept
<1>4. HistoryTypeOK'
    BY <1>1, <1>2 DEF IInv, HistoryTypeOK
<1>5. OwnersFine'
    BY <1>2, <1>3 DEF OwnersFine
<1>6. SpinnersHaveCalls'
    BY <1>3 DEF SpinnersHaveCalls
<1> QED BY <1>1, <1>3, <1>4, <1>5, <1>6 DEF IInv

\* What the first page makes of an empty list.
LEMMA AfterFirstPage ==
    ASSUME NEW page \in CallState, page.items # <<>>, Descends(page.items),
           page.next = IF LastNo(page.items) = 1 THEN None ELSE LastNo(page.items)
    PROVE  LET after == AfterPage(EmptyPagination, None, page) IN
           /\ ~Repeats(EmptyPagination, None, page)
           /\ after \in PaginationState
           /\ after.items = page.items /\ after.next = page.next
           /\ after.seen = {page.next} \ {None} /\ after.requested = {}
<1> DEFINE after == AfterPage(EmptyPagination, None, page)
<1>1. ~Repeats(EmptyPagination, None, page)
    BY EmptyPaginationFine DEF Repeats
<1>2. page.items \in ItemList /\ page.next \in Rev \cup {None}
    BY DEF CallState
<1>3. Merge(<<>>, page.items) = <<>> \o page.items
    BY <1>2, EmptyItemList, MergeBehind
<1>4. Merge(<<>>, page.items) = page.items
    BY <1>2, <1>3, ItemListIsSequence
<1>5. after = [items |-> page.items, next |-> page.next,
               seen |-> {page.next} \ {None}, requested |-> {}]
  <2>1. after = [items |-> Merge(<<>>, page.items), next |-> page.next,
                 seen |-> {} \cup ({page.next} \ {None}), requested |-> {} \cup ({None} \ {None})]
    BY <1>1, EmptyPaginationFine DEF AfterPage
  <2> QED BY <2>1, <1>4
<1>6. after \in PaginationState
    BY <1>2, <1>5 DEF PaginationState
<1> QED BY <1>1, <1>5, <1>6

LEMMA DeliverFirstKeeps == ASSUME IInv, NEW c \in Call, DeliverFirst(c) PROVE IInv'
<1> DEFINE page == call[c]
           after == AfterPage(EmptyPagination, None, page)
<1>1. /\ page.kind = "first" /\ page.state # "sent"
      /\ active' = [active EXCEPT !.list = NotOwner(active.list, c)]
      /\ call' = Gone(c)
      /\ UNCHANGED <<revs, served, more, moreError, view>>
    BY DEF DeliverFirst, Came
<1>2. CASE ~OwnsList(c)
  <2>1. UNCHANGED <<list, pagination>>
    BY <1>2 DEF DeliverFirst
  <2> QED BY <1>1, <1>2, <2>1, LateAnswerKeeps
<1>3. CASE OwnsList(c)
  <2>1. list = "loading" /\ more = FALSE /\ pagination = EmptyPagination
    BY <1>1, <1>3, OwnersHaveTheirKind DEF IInv, HistoryTypeOK, OwnersFine, OwnerFine, OwnsList, ListFine
  <2>2. moreError' \in {"none", "failed", "pagination"} /\ more' = FALSE
    BY <1>1, <2>1 DEF IInv, HistoryTypeOK
  <2>3. CASE page.state = "answered"
    <3>1. /\ page \in CallState /\ page.items # <<>> /\ page.items \in ItemList
          /\ Descends(page.items) /\ OneServed(page.items) /\ Known(revs, served, page.items)
          /\ \A i \in DOMAIN page.items : page.items[i].isCurrent => i = 1
          /\ page.next = IF LastNo(page.items) = 1 THEN None ELSE LastNo(page.items)
      BY <1>1, <2>3 DEF IInv, CallFine, PageFine, CallState
    <3>2. /\ ~Repeats(EmptyPagination, None, page)
          /\ after \in PaginationState
          /\ after.items = page.items /\ after.next = page.next
          /\ after.seen = {page.next} \ {None} /\ after.requested = {}
      BY <3>1, AfterFirstPage
    <3> HIDE DEF after
    <3>3. list' = "ready" /\ pagination' = after
      BY <1>3, <2>3, <3>2 DEF DeliverFirst, after
    <3>4. LastNo(page.items) \in Nat
      BY <3>1, Ends
    <3>5. ListFine'
      <4>1. \A x \in after.seen \cup after.requested : x = LastNo(page.items)
        BY <3>1, <3>2
      <4>2. after.next # None => after.next = LastNo(page.items) /\ after.next # 1
        BY <3>1, <3>2
      <4>3. after.next = None => LastNo(page.items) = 1
        BY <3>1, <3>2, <3>4, HistoryAssumption
      <4> HIDE DEF page
      <4> QED BY <1>1, <3>1, <3>2, <3>3, <3>4, <4>1, <4>2, <4>3 DEF ListFine
    <3> QED BY <1>1, <1>3, <2>2, <3>2, <3>3, <3>5, OwnerDone
  <2>4. CASE page.state # "answered"
    <3>1. list' = "error" /\ pagination' = EmptyPagination
      BY <1>3, <2>1, <2>4 DEF DeliverFirst
    <3>2. ListFine'
      BY <3>1, EmptyPaginationFine DEF ListFine, Descends, OneServed, Known
    <3> QED BY <1>1, <1>3, <2>2, <3>1, <3>2, EmptyPaginationFine, OwnerDone
  <2> QED BY <2>3, <2>4
<1> QED BY <1>2, <1>3

\* What a further page makes of the list it was asked for by.
LEMMA AfterFurtherPage ==
    ASSUME IInv, NEW c \in Call, OwnsList(c), call[c].kind = "more", call[c].state = "answered"
    PROVE  LET page == call[c]
               after == AfterPage(pagination, page.at, page)
           IN  /\ ~Repeats(pagination, page.at, page)
               /\ after \in PaginationState
               /\ after.items = pagination.items \o page.items /\ after.next = page.next
               /\ after.seen = pagination.seen \cup ({page.next} \ {None})
               /\ after.requested = pagination.requested \cup {page.at}
<1> DEFINE page == call[c]
           after == AfterPage(pagination, page.at, page)
           items == pagination.items
<1>1. /\ pagination.next = page.at /\ page \in CallState /\ page.at \in Rev \ {1}
      /\ page.items # <<>> /\ Descends(page.items) /\ page.items[1].no = page.at - 1
      /\ page.next = IF LastNo(page.items) = 1 THEN None ELSE LastNo(page.items)
    BY OwnersHaveTheirKind DEF IInv, OwnersFine, OwnerFine, OwnsList, CallFine, PageFine
<1>2. page.items \in ItemList /\ page.next \in Rev \cup {None} /\ page.at \in Nat /\ page.at # None
    BY <1>1, HistoryAssumption DEF CallState, Rev
<1>3. items # <<>> /\ LastNo(items) = page.at /\ Descends(items) /\ items \in ItemList
    BY <1>1, <1>2, PaginationFields DEF IInv, ListFine
<1>4. LastNo(page.items) \in Nat /\ LastNo(page.items) < page.at
  <2>1. LastNo(page.items) \in Nat /\ page.items[1].no \in Nat /\ LastNo(page.items) <= page.items[1].no
    BY <1>1, <1>2, StretchBounds, Ends
  <2> QED BY <1>1, <1>2, <2>1
<1>5. \A x \in pagination.seen : x >= page.at
    BY <1>3 DEF IInv, ListFine
<1>6. ~Repeats(pagination, page.at, page)
  <2>1. page.next # None => page.next = LastNo(page.items)
    BY <1>1
  <2>2. page.next # None => page.next # page.at /\ page.next \notin pagination.seen
    BY <2>1, <1>2, <1>4, <1>5
  <2> QED BY <2>2 DEF Repeats
<1>7. Merge(items, page.items) = items \o page.items /\ items \o page.items \in ItemList
    BY <1>1, <1>2, <1>3, StretchBehind
<1>8. after = [items |-> items \o page.items, next |-> page.next,
               seen |-> pagination.seen \cup ({page.next} \ {None}),
               requested |-> pagination.requested \cup {page.at}]
  <2>1. {page.at} \ {None} = {page.at}
    BY <1>2
  <2>2. after = [items |-> Merge(items, page.items), next |-> page.next,
                 seen |-> pagination.seen \cup ({page.next} \ {None}),
                 requested |-> pagination.requested \cup ({page.at} \ {None})]
    BY <1>6 DEF AfterPage
  <2> QED BY <2>1, <2>2, <1>7
<1>9. after \in PaginationState
    BY <1>1, <1>2, <1>7, <1>8, PaginationFields DEF PaginationState
<1>10. /\ after.items = items \o page.items /\ after.next = page.next
       /\ after.seen = pagination.seen \cup ({page.next} \ {None})
       /\ after.requested = pagination.requested \cup {page.at}
  <2> HIDE DEF after
  <2> QED BY <1>8
<1> QED BY <1>6, <1>9, <1>10, Zenon

\* A page behind the list bears no badge that the list bears.
LEMMA BadgesBehind ==
    ASSUME NEW current \in ItemList, NEW incoming \in ItemList,
           current # <<>>, incoming # <<>>, Descends(current), Descends(incoming),
           incoming[1].no = LastNo(current) - 1,
           OneServed(current), OneServed(incoming), NotBothServed(current, incoming),
           \A i \in DOMAIN current : current[i].isCurrent => i = 1,
           \A i \in DOMAIN incoming : ~incoming[i].isCurrent,
           NEW newest, NEW servedNo,
           Known(newest, servedNo, current), Known(newest, servedNo, incoming)
    PROVE  LET items == current \o incoming IN
           /\ OneServed(items) /\ Known(newest, servedNo, items)
           /\ \A i \in DOMAIN items : items[i].isCurrent => i = 1
<1> DEFINE items == current \o incoming
           m == Len(current)
           n == Len(incoming)
<1>1. /\ DOMAIN items = 1..(m + n)
      /\ \A i \in 1..m : items[i] = current[i]
      /\ \A i \in 1..n : items[m + i] = incoming[i]
    BY StretchBehind
<1>2. m \in Nat /\ n \in Nat /\ DOMAIN current = 1..m /\ DOMAIN incoming = 1..n
    BY ItemListIsSequence, Ends
<1> HIDE DEF items
<1>3. ASSUME NEW i \in DOMAIN items, i \notin 1..m
      PROVE  \E k \in 1..n : i = m + k /\ items[i] = incoming[k]
  <2>1. i - m \in 1..n /\ i = m + (i - m)
    BY <1>1, <1>2, <1>3
  <2> QED BY <2>1, <1>1
<1>4. ASSUME NEW i \in DOMAIN items
      PROVE  \/ i \in DOMAIN current /\ items[i] = current[i]
             \/ \E k \in DOMAIN incoming : i = m + k /\ items[i] = incoming[k]
    BY <1>1, <1>2, <1>3
<1>5. OneServed(items)
  <2> SUFFICES ASSUME NEW i \in DOMAIN items, NEW j \in DOMAIN items,
                      items[i].isServed, items[j].isServed
               PROVE  i = j
    BY DEF OneServed
  <2>1. CASE i \in DOMAIN current /\ items[i] = current[i]
    <3>1. j \in DOMAIN current /\ items[j] = current[j]
      BY <1>4, <2>1 DEF NotBothServed
    <3> QED BY <2>1, <3>1 DEF OneServed
  <2>2. CASE \E k \in DOMAIN incoming : i = m + k /\ items[i] = incoming[k]
    <3>1. PICK k \in DOMAIN incoming : i = m + k /\ items[i] = incoming[k]
      BY <2>2
    <3>2. \E l \in DOMAIN incoming : j = m + l /\ items[j] = incoming[l]
      BY <1>4, <3>1 DEF NotBothServed
    <3>3. PICK l \in DOMAIN incoming : j = m + l /\ items[j] = incoming[l]
      BY <3>2
    <3>4. k = l
      BY <3>1, <3>3 DEF OneServed
    <3> QED BY <3>1, <3>3, <3>4
  <2> QED BY <1>4, <2>1, <2>2
<1>6. Known(newest, servedNo, items)
    BY <1>4 DEF Known
<1>7. \A i \in DOMAIN items : items[i].isCurrent => i = 1
    BY <1>4
<1> QED BY <1>5, <1>6, <1>7 DEF items

LEMMA DeliverMoreKeeps == ASSUME IInv, NEW c \in Call, DeliverMore(c) PROVE IInv'
<1> DEFINE page == call[c]
           after == AfterPage(pagination, page.at, page)
           items == pagination.items
<1>1. /\ page.kind = "more" /\ page.state # "sent"
      /\ active' = [active EXCEPT !.list = NotOwner(active.list, c)]
      /\ call' = Gone(c)
      /\ UNCHANGED <<revs, served, list, view>>
    BY DEF DeliverMore, Came
<1>2. CASE ~OwnsList(c)
  <2>1. UNCHANGED <<pagination, more, moreError>>
    BY <1>2 DEF DeliverMore
  <2> QED BY <1>1, <1>2, <2>1, LateAnswerKeeps
<1>3. CASE OwnsList(c)
  <2>1. /\ list = "ready" /\ pagination.next = page.at /\ moreError # "pagination"
        /\ page.state = "answered" => NotBothServed(items, page.items)
    BY <1>1, <1>3, OwnersHaveTheirKind DEF IInv, OwnersFine, OwnerFine, OwnsList
  <2>2. /\ page \in CallState /\ page.items \in ItemList /\ page.at \in Rev \ {1}
        /\ page.at \in Nat /\ page.at # None /\ page.state # "undecodable"
    BY <1>1, HistoryAssumption DEF IInv, CallFine, CallState, Rev
  <2>3. /\ items # <<>> /\ LastNo(items) = page.at /\ Descends(items) /\ items \in ItemList
        /\ OneServed(items) /\ Known(revs, served, items)
        /\ \A i \in DOMAIN items : items[i].isCurrent => i = 1
        /\ \A x \in pagination.seen \cup pagination.requested : x >= page.at
    BY <2>1, <2>2, PaginationFields DEF IInv, ListFine
  <2>4. more' = FALSE
    BY <1>3 DEF DeliverMore
  <2>5. CASE page.state = "answered"
    <3>1. /\ page.items # <<>> /\ page.items \in ItemList
          /\ Descends(page.items) /\ OneServed(page.items) /\ Known(revs, served, page.items)
          /\ \A i \in DOMAIN page.items : ~page.items[i].isCurrent
          /\ page.items[1].no = page.at - 1
          /\ page.next = IF LastNo(page.items) = 1 THEN None ELSE LastNo(page.items)
      BY <1>1, <2>2, <2>5 DEF IInv, CallFine, PageFine
    <3>2. /\ ~Repeats(pagination, page.at, page)
          /\ after \in PaginationState
          /\ after.items = items \o page.items /\ after.next = page.next
          /\ after.seen = pagination.seen \cup ({page.next} \ {None})
          /\ after.requested = pagination.requested \cup {page.at}
      BY <1>1, <1>3, <2>5, AfterFurtherPage
    <3>3. pagination' = after /\ moreError' = "none"
      BY <1>3, <2>5, <3>2 DEF DeliverMore
    <3> HIDE DEF after
    <3>4. /\ after.items # <<>> /\ Descends(after.items) /\ LastNo(after.items) = LastNo(page.items)
      BY <2>3, <3>1, <3>2, StretchBehind
    <3>5. /\ OneServed(after.items) /\ Known(revs, served, after.items)
          /\ \A i \in DOMAIN after.items : after.items[i].isCurrent => i = 1
      <4>1. NotBothServed(items, page.items)
        BY <2>1, <2>5
      <4> HIDE DEF items, page
      <4>2. /\ OneServed(items \o page.items) /\ Known(revs, served, items \o page.items)
            /\ \A i \in DOMAIN (items \o page.items) : (items \o page.items)[i].isCurrent => i = 1
        BY <2>3, <3>1, <4>1, BadgesBehind
      <4> QED BY <3>2, <4>2
    <3>6. LastNo(page.items) \in Nat /\ LastNo(page.items) < page.at
      <4>1. /\ LastNo(page.items) \in Nat /\ page.items[1].no \in Nat
            /\ LastNo(page.items) <= page.items[1].no
        BY <3>1, StretchBounds, Ends
      <4> QED BY <2>2, <3>1, <4>1
    <3>7. \A x \in after.seen \cup after.requested : x >= LastNo(after.items)
      <4>1. \A x \in after.seen \cup after.requested :
              x = LastNo(page.items) \/ x = page.at \/ x \in pagination.seen \cup pagination.requested
        BY <3>1, <3>2
      <4>2. \A x \in pagination.seen \cup pagination.requested : x \in Nat /\ x >= page.at
        BY <2>3, PaginationFields DEF Rev
      <4> QED BY <2>2, <3>4, <3>6, <4>1, <4>2
    <3>8. after.next # None => after.next = LastNo(after.items) /\ after.next # 1
      BY <3>1, <3>2, <3>4
    <3>9. after.next = None => LastNo(after.items) = 1
      BY <3>1, <3>2, <3>4, <3>6, HistoryAssumption
    <3>10. after.next \notin after.requested
      <4>1. after.next # None => after.next < page.at /\ after.next \in Nat
        BY <3>4, <3>6, <3>8
      <4>2. \A x \in pagination.requested : x \in Nat /\ x >= page.at
        BY <2>3, PaginationFields DEF Rev
      <4>3. None \notin after.requested
        BY <2>2, <3>2, <4>2, HistoryAssumption
      <4> QED BY <2>2, <3>2, <4>1, <4>2, <4>3
    <3> HIDE DEF page
    <3>11. ListFine'
      BY <1>1, <2>1, <3>3, <3>4, <3>5, <3>7, <3>8, <3>9, <3>10 DEF ListFine
    <3> QED BY <1>1, <1>3, <2>1, <2>4, <3>2, <3>3, <3>11, OwnerDone DEF page
  <2>6. CASE page.state = "failed"
    <3> DEFINE released == [pagination EXCEPT !.requested = pagination.requested \ {page.at}]
    <3>1. pagination' = released /\ moreError' = "failed"
      BY <1>3, <2>6 DEF DeliverMore, Release
    <3>2. /\ released \in PaginationState
          /\ released.items = items /\ released.next = page.at /\ released.seen = pagination.seen
          /\ released.requested = pagination.requested \ {page.at}
      BY <2>1 DEF IInv, HistoryTypeOK, PaginationState
    <3> HIDE DEF released
    <3>3. ListFine'
      BY <1>1, <2>1, <2>2, <2>3, <2>4, <3>1, <3>2 DEF ListFine
    <3> QED BY <1>1, <1>3, <2>1, <2>4, <3>1, <3>2, <3>3, OwnerDone
  <2>7. CASE page.state \notin {"answered", "failed"}
    <3> DEFINE given == [pagination EXCEPT !.next = None]
    <3>1. pagination' = given /\ moreError' = "pagination"
      BY <1>3, <2>7 DEF DeliverMore
    <3>2. /\ given \in PaginationState
          /\ given.items = items /\ given.next = None /\ given.seen = pagination.seen
          /\ given.requested = pagination.requested
      BY DEF IInv, HistoryTypeOK, PaginationState
    <3>3. None \notin pagination.requested
      BY PaginationFields, HistoryAssumption DEF Rev
    <3> HIDE DEF given
    <3>4. ListFine'
      BY <1>1, <2>1, <2>2, <2>3, <3>1, <3>2, <3>3 DEF ListFine
    <3> QED BY <1>1, <1>3, <2>1, <2>4, <3>1, <3>2, <3>4, OwnerDone
  <2> QED BY <2>5, <2>6, <2>7
<1> QED BY <1>2, <1>3

---------------------------------------------------------------------------------
(* Theorems.                                                                 *)

LEMMA StutterKeeps == ASSUME IInv, UNCHANGED vars PROVE IInv'
<1>1. HistoryTypeOK'
    BY DEF IInv, HistoryTypeOK, vars
<1>2. \A d \in Call : CallFine(revs', served', call'[d])
    BY DEF IInv, vars
<1>3. Known(revs', served', pagination.items)
    BY DEF IInv, ListFine, vars
<1>4. active.list # None /\ call'[active.list].kind = "more"
        /\ call'[active.list].state = "answered" =>
          NotBothServed(pagination.items, call'[active.list].items)
    BY DEF IInv, OwnersFine, OwnerFine, vars
<1> QED BY <1>1, <1>2, <1>3, <1>4, PanelKept DEF vars

LEMMA StepKeeps == IInv /\ [Next]_vars => IInv'
<1> SUFFICES ASSUME IInv, [Next]_vars PROVE IInv'
    OBVIOUS
<1>1. ASSUME NEW c \in Call, Refresh(c) PROVE IInv'
    BY <1>1, RefreshKeeps
<1>2. ASSUME NEW c \in Call, NEW no \in Rev, Select(c, no) PROVE IInv'
    BY <1>2, SelectKeeps
<1>3. ASSUME NEW c \in Call, Compare(c) PROVE IInv'
    BY <1>3, CompareKeeps
<1>4. CASE CompareAgain
    BY <1>4, ShowingKeeps DEF CompareAgain
<1>5. CASE ShowSource
    BY <1>5, ShowingKeeps DEF ShowSource
<1>6. ASSUME NEW c \in Call, LoadMore(c) PROVE IInv'
    BY <1>6, LoadMoreKeeps
<1>7. ASSUME NEW c \in Call, Serve(c) PROVE IInv'
    BY <1>7, ServeKeeps
<1>8. ASSUME NEW c \in Call, Fail(c) PROVE IInv'
    BY <1>8, FailKeeps
<1>9. CASE Elsewhere
    BY <1>9, ElsewhereKeeps
<1>10. ASSUME NEW c \in Call, DeliverFirst(c) PROVE IInv'
    BY <1>10, DeliverFirstKeeps
<1>11. ASSUME NEW c \in Call, DeliverMore(c) PROVE IInv'
    BY <1>11, DeliverMoreKeeps
<1>12. ASSUME NEW c \in Call, DeliverDetail(c) PROVE IInv'
    BY <1>12, DeliverDetailKeeps
<1>13. ASSUME NEW c \in Call, DeliverDiff(c) PROVE IInv'
    BY <1>13, DeliverDiffKeeps
<1>14. CASE UNCHANGED vars
    BY <1>14, StutterKeeps
<1> QED BY <1>1, <1>2, <1>3, <1>4, <1>5, <1>6, <1>7, <1>8, <1>9, <1>10, <1>11, <1>12, <1>13, <1>14
        DEF Next

\* The inductive invariant says of the list what the property says.
LEMMA ListFineIsOneStretch == IInv => ListIsOneStretch
<1> SUFFICES ASSUME IInv PROVE ListIsOneStretch
    OBVIOUS
<1> DEFINE items == pagination.items
<1>1. items \in ItemList /\ Descends(items) /\ OneServed(items)
    BY PaginationFields DEF IInv, ListFine
<1>2. ASSUME NEW i \in DOMAIN items \ {1} PROVE items[i].no + 1 = items[i - 1].no
  <2>1. DOMAIN items = 1..Len(items) /\ Len(items) \in Nat
    BY <1>1, ItemListIsSequence
  <2>2. i \in Nat /\ i - 1 \in DOMAIN items /\ 1 \in DOMAIN items
    BY <1>2, <2>1
  <2>3. items[i].no = items[1].no + 1 - i /\ items[i - 1].no = items[1].no + 1 - (i - 1)
    BY <1>1, <1>2, <2>2 DEF Descends
  <2>4. items[1].no \in Nat
    BY <1>1, <2>2, ItemFields
  <2> QED BY <2>2, <2>3, <2>4
<1>3. \A i \in DOMAIN items : items[i].isCurrent => i = 1
    BY DEF IInv, ListFine
<1>4. list = "ready" => items # <<>>
    BY DEF IInv, ListFine
<1>5. list = "ready" /\ moreError # "pagination" =>
         items[Len(items)].no = IF pagination.next = None THEN 1 ELSE pagination.next
    BY DEF IInv, ListFine, LastNo
<1> QED BY <1>1, <1>2, <1>3, <1>4, <1>5 DEF ListIsOneStretch, OneServed

\* Whatever is saved, published and deleted between the pages (applyRevisionPage,
\* mergeRevisionItems), the list is one stretch of the history with one badge of a kind.
THEOREM ListAlwaysOneStretch == Spec => []ListIsOneStretch
<1>1. Init => IInv
    BY InitEstablishes
<1>2. IInv /\ [Next]_vars => IInv'
    BY StepKeeps
<1>3. IInv => ListIsOneStretch
    BY ListFineIsOneStretch
<1> QED BY <1>1, <1>2, <1>3, PTL DEF Spec

\* However late the answers to earlier selections come (detailSerial, diffSerial and
\* diffRequestKey), what is shown is of the selected revision.
THEOREM DetailsAlwaysOfSelection == Spec => []DetailsOfSelection
<1>1. Init => IInv
    BY InitEstablishes
<1>2. IInv /\ [Next]_vars => IInv'
    BY StepKeeps
<1>3. IInv => DetailsOfSelection
    BY DEF IInv
<1> QED BY <1>1, <1>2, <1>3, PTL DEF Spec

\* No refresh, selection or comparison leaves a loading flag without the call that
\* clears it, the latch of loadMore included.
THEOREM SpinnersAlwaysHaveCalls == Spec => []SpinnersHaveCalls
<1>1. Init => IInv
    BY InitEstablishes
<1>2. IInv /\ [Next]_vars => IInv'
    BY StepKeeps
<1>3. IInv => SpinnersHaveCalls
    BY DEF IInv
<1> QED BY <1>1, <1>2, <1>3, PTL DEF Spec

\* An answered page never looks like a cursor that repeats itself, nor does a request
\* that failed before: only an owned answer that is not the service's ends the list.
LEMMA GivingUpIsGarbled ==
    ASSUME IInv, [Next]_vars, moreError' = "pagination", moreError # "pagination"
    PROVE  active.list # None /\ call[active.list].state = "garbled"
<1>1. ASSUME NEW c \in Call, DeliverMore(c) PROVE active.list = c /\ call[c].state = "garbled"
  <2> DEFINE page == call[c]
  <2>1. OwnsList(c) /\ page.kind = "more" /\ page.state # "sent"
    BY <1>1 DEF DeliverMore, Came
  <2>2. page.state # "failed"
    BY <1>1, <2>1 DEF DeliverMore
  <2>3. page.state # "answered"
    <3>1. SUFFICES ASSUME page.state = "answered" PROVE FALSE
      OBVIOUS
    <3>2. ~Repeats(pagination, page.at, page)
      BY <2>1, <3>1, AfterFurtherPage
    <3>3. moreError' = IF Repeats(pagination, page.at, page) THEN "pagination" ELSE "none"
      BY <1>1, <2>1, <3>1 DEF DeliverMore
    <3> QED BY <3>2, <3>3
  <2>4. page.state \in {"sent", "answered", "failed", "undecodable", "garbled"}
        /\ page.state # "undecodable"
    BY DEF IInv, CallFine, CallState
  <2> QED BY <2>1, <2>2, <2>3, <2>4 DEF OwnsList
<1>2. ASSUME NEW c \in Call, LoadMore(c) PROVE FALSE
    BY <1>2, LoadMoreAsks
<1>3. ASSUME NEW c \in Call, Refresh(c) PROVE FALSE
    BY <1>3 DEF Refresh
<1>4. \E c \in Call : DeliverMore(c)
    BY <1>2, <1>3 DEF Next, vars, Select, Compare, CompareAgain, ShowSource, Serve, Fail, Elsewhere,
       DeliverFirst, DeliverDetail, DeliverDiff
<1> QED BY <1>1, <1>4, HistoryAssumption

\* The panel ends a list early (loadMoreError of the pagination) only for an answer that
\* was not the service's.
THEOREM AlwaysGivesUpOnlyWhenGarbled == Spec => GivesUpOnlyWhenGarbled
<1>1. Init => IInv
    BY InitEstablishes
<1>2. IInv /\ [Next]_vars => IInv'
    BY StepKeeps
<1>3. IInv /\ [Next]_vars =>
        [moreError' = "pagination" /\ moreError # "pagination"
           => active.list # None /\ call[active.list].state = "garbled"]_vars
    BY GivingUpIsGarbled
<1> QED BY <1>1, <1>2, <1>3, PTL DEF Spec, GivesUpOnlyWhenGarbled
=======================================================================================
