----------------------------- MODULE RevisionHistory -----------------------------
(***************************************************************************)
(* The history panel of the editor (web/src/components/RevisionHistory     *)
(* .tsx) and the listing it pages through (list_revisions_connection):     *)
(* pages of revisions, newest first, whose cursor is the last revision of  *)
(* the page before; the details of a selected revision; its difference     *)
(* from its parent.  Other pages save, publish and delete meanwhile, so    *)
(* the pages of one list come from different moments, and the network      *)
(* delivers answers in any order, loses them or garbles them.              *)
(* Revisions of the project are numbered without gaps, the parent of a     *)
(* revision being the one before (LinearHistory of RevisionStore); a       *)
(* number stands for the id of its revision.                               *)
(***************************************************************************)
EXTENDS Naturals, Sequences, FiniteSets

CONSTANTS
    Call,   \* calls that may be under way at once (a bound of the model)
    Limit,  \* REVISION_PAGE_SIZE
    MaxRev, \* revisions of the project, up to this bound of the model
    None    \* null

ASSUME HistoryAssumption ==
    /\ Limit \in Nat \ {0}
    /\ MaxRev \in Nat \ {0}
    /\ None \notin Nat \cup Call

VARIABLES
    revs,       \* the service: how many revisions there are; 0 when deleted
    served,     \* the number of the served revision
    list,       \* "loading", "error" (listError is set) or "ready" (revisions is)
    pagination, \* paginationRef
    more,       \* loadingMore
    moreError,  \* loadMoreError: none, of a failed call, or of the pagination
    view,       \* the right half: what is selected, its details, its difference
    active,     \* the calls that own the three serials; None after a mere increment
    call        \* call[c]: what was sent, and what came back

vars == <<revs, served, list, pagination, more, moreError, view, active, call>>

Rev == 1..MaxRev

Item == [no: Rev, isCurrent: BOOLEAN, isServed: BOOLEAN]

ItemList == UNION {[1..n -> Item] : n \in 0..MaxRev}

PaginationState == [items: ItemList, next: Rev \cup {None}, seen: SUBSET Rev, requested: SUBSET Rev]

\* `key` is diffRequestKey; a key and a difference are pairs of numbers.
Key == {<<n, n + 1>> : n \in 1..MaxRev - 1} \cup {None}

ViewState == [selected: Rev \cup {None}, detail: Rev \cup {None}, diff: Key, key: Key,
              loading: SUBSET {"detail", "diff"}, visible: BOOLEAN]

\* `at` is the cursor of a page, the revision of a detail or of a difference.
CallState == [kind: {"none", "first", "more", "detail", "diff"}, at: Rev \cup {None},
              state: {"sent", "answered", "failed", "undecodable", "garbled"},
              items: ItemList, next: Rev \cup {None}]

HistoryTypeOK ==
    /\ revs \in 0..MaxRev /\ served \in 0..MaxRev
    /\ list \in {"loading", "error", "ready"}
    /\ pagination \in PaginationState
    /\ more \in BOOLEAN
    /\ moreError \in {"none", "failed", "pagination"}
    /\ view \in ViewState
    /\ active \in [list: Call \cup {None}, detail: Call \cup {None}, diff: Call \cup {None}]
    /\ call \in [Call -> CallState]

Unused == [kind |-> "none", at |-> None, state |-> "sent", items |-> <<>>, next |-> None]

Free(c) == call[c].kind = "none"

Sent(c, kind, at) == [call EXCEPT ![c] = [Unused EXCEPT !.kind = kind, !.at = at]]

Came(c) == ~Free(c) /\ call[c].state # "sent"

EmptyPagination == [items |-> <<>>, next |-> None, seen |-> {}, requested |-> {}]

NothingSelected == [selected |-> None, detail |-> None, diff |-> None, key |-> None,
                    loading |-> {}, visible |-> FALSE]

\* The part of `loading` that a new selection starts with.
Inspecting(no) == [NothingSelected EXCEPT !.selected = no, !.loading = {"detail"}]

ParentOf(no) == IF no = 1 THEN None ELSE no - 1

---------------------------------------------------------------------------------
\* The service: is_current and is_served of a row, as the pointers are now.
ItemNow(no) == [no |-> no, isCurrent |-> no = revs, isServed |-> no = served]

\* The first revision a page may hold: the newest, or the one before the cursor.
TopOf(cursor) == IF cursor = None THEN revs ELSE cursor - 1

PageItems(cursor) ==
    LET top == TopOf(cursor)
        size == IF top < Limit THEN top ELSE Limit
    IN  [i \in 1..size |-> ItemNow(top + 1 - i)]

\* One row more than the page holds was asked for, to know whether to go on.
NextCursor(cursor) ==
    IF TopOf(cursor) > Limit THEN TopOf(cursor) + 1 - Limit ELSE None

\* What decodeRevisionPage insists on before the panel sees a page.
Decodes(items, next, cursor) ==
    /\ \A i, j \in DOMAIN items : items[i].no = items[j].no => i = j
    /\ next # None => /\ items # <<>> /\ next = items[Len(items)].no
                      /\ next # cursor
    /\ Cardinality({i \in DOMAIN items : items[i].isCurrent}) <= 1
    /\ Cardinality({i \in DOMAIN items : items[i].isServed}) <= 1

---------------------------------------------------------------------------------
(* Mistakes a change to the code could make, to see that the properties      *)
(* notice.                                                                   *)

\* Whoever answers to a page request is believed.
OwnsListAlways(c) == TRUE

\* A refresh forgets the request for more that was under way.
RefreshWhileLoading(c) ==
    /\ Free(c)
    /\ list' = "loading"
    /\ pagination' = EmptyPagination
    /\ moreError' = "none"
    /\ view' = NothingSelected
    /\ active' = [list |-> c, detail |-> None, diff |-> None]
    /\ call' = Sent(c, "first", None)
    /\ UNCHANGED <<revs, served, more>>

\* A selection leaves the difference that is under way its owner.
SelectOverDiff(c, no) ==
    /\ list = "ready" /\ Free(c)
    /\ \E i \in DOMAIN pagination.items : pagination.items[i].no = no
    /\ view' = [view EXCEPT !.selected = no, !.detail = None, !.loading = @ \cup {"detail"}]
    /\ active' = [active EXCEPT !.detail = c]
    /\ call' = Sent(c, "detail", no)
    /\ UNCHANGED <<revs, served, list, pagination, more, moreError>>

\* The cursor of a failed request stays reserved.
KeepCursor(s, cursor) == s

---------------------------------------------------------------------------------
\* mergeRevisionItems: the revisions that the list lacks, in the order of the page.
\* The n-th of them is the one that n of them do not come after.
Merge(current, incoming) ==
    LET lacks == {i \in DOMAIN incoming : \A j \in DOMAIN current : current[j].no # incoming[i].no}
        UpTo(i) == Cardinality({k \in lacks : k <= i})
    IN  current \o [n \in 1..Cardinality(lacks) |-> incoming[CHOOSE i \in lacks : UpTo(i) = n]]

\* applyRevisionPage: a cursor that was seen before ends the list.
Repeats(s, cursor, page) ==
    page.next # None /\ (page.next = cursor \/ page.next \in s.seen)

AfterPage(s, cursor, page) ==
    [items     |-> IF Repeats(s, cursor, page) THEN s.items ELSE Merge(s.items, page.items),
     next      |-> IF Repeats(s, cursor, page) THEN None ELSE page.next,
     seen      |-> s.seen \cup ({page.next} \ {None}),
     requested |-> s.requested \cup ({cursor} \ {None})]

\* releaseRevisionPageRequest
Release(s, cursor) == [s EXCEPT !.requested = @ \ {cursor}]

\* The panel is mounted and its effect has run, for a project that exists.
Init ==
    /\ revs \in Rev /\ served \in 1..revs
    /\ list = "loading"
    /\ pagination = EmptyPagination
    /\ more = FALSE
    /\ moreError = "none"
    /\ view = NothingSelected
    /\ \E c \in Call :
         /\ call = [[d \in Call |-> Unused] EXCEPT ![c] = [Unused EXCEPT !.kind = "first"]]
         /\ active = [list |-> c, detail |-> None, diff |-> None]

\* The effect runs again: after a Save or Publish of this page (refreshKey), or
\* to try again.  It increments all three serials.
Refresh(c) ==
    /\ Free(c)
    /\ list' = "loading"
    /\ pagination' = EmptyPagination
    /\ more' = FALSE
    /\ moreError' = "none"
    /\ view' = NothingSelected
    /\ active' = [list |-> c, detail |-> None, diff |-> None]
    /\ call' = Sent(c, "first", None)
    /\ UNCHANGED <<revs, served>>

Select(c, no) ==
    /\ list = "ready" /\ Free(c)
    /\ \E i \in DOMAIN pagination.items : pagination.items[i].no = no
    /\ view' = Inspecting(no)
    /\ active' = [active EXCEPT !.detail = c, !.diff = None]
    /\ call' = Sent(c, "detail", no)
    /\ UNCHANGED <<revs, served, list, pagination, more, moreError>>

\* The difference is under way, or here already: show it.
CompareAgain ==
    LET key == <<ParentOf(view.selected), view.selected>> IN
    /\ list = "ready" /\ view.detail # None /\ view.selected # 1
    /\ key \in {view.key, view.diff}
    /\ view' = [view EXCEPT !.visible = TRUE]
    /\ UNCHANGED <<revs, served, list, pagination, more, moreError, active, call>>

\* RevisionDetail, with its button, is there once the details are.
Compare(c) ==
    LET key == <<ParentOf(view.selected), view.selected>> IN
    /\ list = "ready" /\ view.detail # None /\ view.selected # 1
    /\ Free(c)
    /\ key \notin {view.key, view.diff}
    /\ view' = [view EXCEPT !.key = key, !.visible = TRUE, !.diff = None,
                            !.loading = @ \cup {"diff"}]
    /\ active' = [active EXCEPT !.diff = c]
    /\ call' = Sent(c, "diff", view.selected)
    /\ UNCHANGED <<revs, served, list, pagination, more, moreError>>

ShowSource ==
    /\ list = "ready" /\ view.detail # None /\ view.visible
    /\ view' = [view EXCEPT !.visible = FALSE]
    /\ UNCHANGED <<revs, served, list, pagination, more, moreError, active, call>>

\* loadMore: a cursor that is requested already ends the list instead.
LoadMore(c) ==
    LET cursor == pagination.next IN
    /\ list = "ready" /\ cursor # None /\ ~more
    /\ IF cursor \in pagination.requested
         THEN /\ pagination' = [pagination EXCEPT !.next = None]
              /\ moreError' = "pagination"
              /\ UNCHANGED <<more, active, call>>
         ELSE /\ Free(c)
              /\ pagination' = [pagination EXCEPT !.requested = @ \cup {cursor}]
              /\ more' = TRUE
              /\ moreError' = "none"
              /\ active' = [active EXCEPT !.list = c]
              /\ call' = Sent(c, "more", cursor)
    /\ UNCHANGED <<revs, served, list, view>>

---------------------------------------------------------------------------------
\* list_revisions, get_revision and get_revision_diff, each in one snapshot, and
\* the decoder of the page.
Serve(c) ==
    LET m == call[c]
        items == PageItems(m.at)
        next == NextCursor(m.at)
    IN
    /\ ~Free(c) /\ m.state = "sent"
    /\ call' = [call EXCEPT ![c] =
         IF revs = 0 THEN [m EXCEPT !.state = "failed"]
         ELSE IF m.kind \in {"detail", "diff"} THEN [m EXCEPT !.state = "answered"]
         ELSE IF Decodes(items, next, m.at)
                THEN [m EXCEPT !.state = "answered", !.items = items, !.next = next]
                ELSE [m EXCEPT !.state = "undecodable"]]
    /\ UNCHANGED <<revs, served, list, pagination, more, moreError, view, active>>

\* No answer, an error of the service, or an answer that is not the service's.
Fail(c) ==
    /\ ~Free(c) /\ call[c].state = "sent"
    /\ \E s \in {"failed", "garbled"} :
         /\ s = "garbled" => call[c].kind = "more"   \* a failure like others elsewhere
         /\ call' = [call EXCEPT ![c].state = s]
    /\ UNCHANGED <<revs, served, list, pagination, more, moreError, view, active>>

\* Saves, publishes and the deletion of the project, by whatever page.
Elsewhere ==
    /\ revs > 0
    /\ \/ revs < MaxRev /\ revs' = revs + 1 /\ UNCHANGED served
       \/ served' = revs /\ UNCHANGED revs
       \/ revs' = 0 /\ served' = 0
    /\ UNCHANGED <<list, pagination, more, moreError, view, active, call>>

---------------------------------------------------------------------------------
\* isRevisionRequestCurrent(listSerial.current, serial)
OwnsList(c) == active.list = c

Gone(c) == [call EXCEPT ![c] = Unused]

NotOwner(a, c) == IF a = c THEN None ELSE a

DeliverFirst(c) ==
    LET page == call[c] IN
    /\ page.kind = "first" /\ Came(c)
    /\ IF ~OwnsList(c) THEN UNCHANGED <<list, pagination>>
       ELSE IF page.state = "answered" /\ ~Repeats(EmptyPagination, None, page)
         THEN /\ list' = "ready"
              /\ pagination' = AfterPage(EmptyPagination, None, page)
         ELSE /\ list' = "error"
              /\ UNCHANGED pagination
    /\ active' = [active EXCEPT !.list = NotOwner(@, c)]
    /\ call' = Gone(c)
    /\ UNCHANGED <<revs, served, more, moreError, view>>

DeliverMore(c) ==
    LET page == call[c] IN
    /\ page.kind = "more" /\ Came(c)
    /\ IF ~OwnsList(c) THEN UNCHANGED <<pagination, more, moreError>>
       ELSE
         /\ more' = FALSE
         /\ CASE page.state = "failed" ->
                   /\ pagination' = Release(pagination, page.at)
                   /\ moreError' = "failed"
              [] page.state = "answered" ->
                   /\ pagination' = AfterPage(pagination, page.at, page)
                   /\ moreError' = IF Repeats(pagination, page.at, page) THEN "pagination" ELSE "none"
              [] OTHER ->
                   /\ pagination' = [pagination EXCEPT !.next = None]
                   /\ moreError' = "pagination"
    /\ active' = [active EXCEPT !.list = NotOwner(@, c)]
    /\ call' = Gone(c)
    /\ UNCHANGED <<revs, served, list, view>>

DeliverDetail(c) ==
    /\ call[c].kind = "detail" /\ Came(c)
    /\ view' = IF active.detail # c THEN view
               ELSE [view EXCEPT !.loading = @ \ {"detail"},
                                 !.detail = IF call[c].state = "answered" THEN call[c].at ELSE None]
    /\ active' = [active EXCEPT !.detail = NotOwner(@, c)]
    /\ call' = Gone(c)
    /\ UNCHANGED <<revs, served, list, pagination, more, moreError>>

DeliverDiff(c) ==
    LET key == <<ParentOf(call[c].at), call[c].at>> IN
    /\ call[c].kind = "diff" /\ Came(c)
    /\ view' = IF active.diff # c \/ view.key # key THEN view
               ELSE [view EXCEPT !.loading = @ \ {"diff"}, !.key = None,
                                 !.diff = IF call[c].state = "answered" THEN key ELSE None]
    /\ active' = [active EXCEPT !.diff = NotOwner(@, c)]
    /\ call' = Gone(c)
    /\ UNCHANGED <<revs, served, list, pagination, more, moreError>>

Next ==
    \/ \E c \in Call : Refresh(c)
    \/ \E c \in Call, no \in Rev : Select(c, no)
    \/ \E c \in Call : Compare(c)
    \/ CompareAgain
    \/ ShowSource
    \/ \E c \in Call : LoadMore(c)
    \/ \E c \in Call : Serve(c)
    \/ \E c \in Call : Fail(c)
    \/ Elsewhere
    \/ \E c \in Call : DeliverFirst(c) \/ DeliverMore(c) \/ DeliverDetail(c) \/ DeliverDiff(c)

Spec == Init /\ [][Next]_vars

---------------------------------------------------------------------------------
(* The list is one stretch of the history, whatever was saved or published   *)
(* between the pages it was put together from: newest first, no revision     *)
(* skipped or repeated, down to the first one when there is no more to load; *)
(* and no two revisions bear the badge of the served or of the current one.  *)
ListIsOneStretch ==
    LET items == pagination.items IN
    /\ \A i \in DOMAIN items \ {1} : items[i].no + 1 = items[i - 1].no
    /\ \A i, j \in DOMAIN items : items[i].isServed /\ items[j].isServed => i = j
    /\ \A i \in DOMAIN items : items[i].isCurrent => i = 1
    /\ list = "ready" => items # <<>>
    /\ list = "ready" /\ moreError # "pagination" =>
         items[Len(items)].no = IF pagination.next = None THEN 1 ELSE pagination.next

(* What is shown on the right is of the revision that is selected on the     *)
(* left, and a difference is the one from its parent, however many answers   *)
(* to earlier selections are still to come.                                  *)
DetailsOfSelection ==
    /\ view.detail \in {None, view.selected}
    /\ \A d \in {view.diff, view.key} \ {None} :
         view.selected # None /\ d = <<ParentOf(view.selected), view.selected>>

(* Nothing is shown as loading unless a call is under way that will end it:  *)
(* no refresh, selection or comparison leaves a spinner, or the latch of     *)
(* loadMore, behind.                                                         *)
SpinnersHaveCalls ==
    /\ list = "loading" => active.list # None /\ call[active.list].kind = "first"
    /\ more => active.list # None /\ call[active.list].kind = "more"
    /\ "detail" \in view.loading => active.detail # None /\ call[active.detail].kind = "detail"
    /\ "diff" \in view.loading => active.diff # None /\ call[active.diff].kind = "diff"

(* The panel gives up on a list only for an answer that was not the          *)
(* service's: nothing the service answers, and no failed, repeated or        *)
(* refreshed request, ever looks like a cursor that repeats itself.          *)
GivesUpOnlyWhenGarbled ==
    [][moreError' = "pagination" /\ moreError # "pagination"
         => active.list # None /\ call[active.list].state = "garbled"]_vars
=================================================================================
