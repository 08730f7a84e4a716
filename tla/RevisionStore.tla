------------------------------ MODULE RevisionStore ------------------------------
(***************************************************************************)
(* The project and revision tables of the ConfDock service and the         *)
(* handlers that change them: create, save, publish, rename and delete     *)
(* (storage.rs, routes/projects.rs).  Each handler is one SQLite           *)
(* transaction and is one action here; TxPool opens the transaction up.    *)
(* The clients are pages that remember the pair of revision pointers they  *)
(* last received and send it with every request, however stale it is by    *)
(* then; an answer may be lost, and the page then keeps what it knew.      *)
(* A request that the code refuses changes neither the tables nor what the *)
(* page knows, so a refusal is a stuttering step here.                     *)
(***************************************************************************)
EXTENDS Naturals, FiniteSets, Sequences

CONSTANTS
    ProjectId,  \* UUIDs that projects may be given
    RevisionId, \* UUIDs that revisions may be given
    Name,       \* project names
    Bytes,      \* sources
    Page,       \* editor pages
    NoRow,      \* no such row
    NoRev,      \* a NULL revision id
    NoView      \* a page that has loaded nothing

ProjectRow == [name: Name, current: RevisionId, served: RevisionId]

RevisionRow ==
    [project: ProjectId, parent: RevisionId \cup {NoRev}, no: Nat \ {0}, bytes: Bytes]

Snapshot == [project: ProjectId, current: RevisionId, served: RevisionId]

\* NULL and the absence of a row are told apart from every row and every id.
ASSUME SentinelAssumption ==
    /\ NoRow \notin ProjectRow
    /\ NoRow \notin RevisionRow
    /\ NoView \notin Snapshot \cup [project: ProjectId, length: Nat, served: Nat]
    /\ NoRev \notin RevisionId

\* A UUID is drawn once: the ones that name projects never name revisions.
ASSUME IdAssumption == ProjectId \cap RevisionId = {}

VARIABLES
    project,  \* the projects table: project[p] is a ProjectRow or NoRow
    revision, \* the config_revisions table: revision[r] is a RevisionRow or NoRow
    minted,   \* the UUIDs drawn so far: Uuid::new_v4 never returns one again
    view      \* view[pg]: the pointers page pg last received, or NoView

vars == <<project, revision, minted, view>>

Live == {p \in ProjectId : project[p] # NoRow}

RevisionsOf(p) == {r \in RevisionId : revision[r] # NoRow /\ revision[r].project = p}

TypeOK ==
    /\ project \in [ProjectId -> ProjectRow \cup {NoRow}]
    /\ revision \in [RevisionId -> RevisionRow \cup {NoRow}]
    /\ minted \subseteq ProjectId \cup RevisionId
    /\ view \in [Page -> Snapshot \cup {NoView}]

-----------------------------------------------------------------------------------
(* Mistakes a change to the handlers could make.  No behaviour of Spec uses   *)
(* them: each replaces the definition it is a variant of, to see that the     *)
(* properties notice.                                                         *)

\* Numbers start at zero.
InsertRevisionFromZero(r, p, parent, n, b) ==
    [revision EXCEPT ![r] = [project |-> p, parent |-> parent, no |-> n - 1, bytes |-> b]]

\* The new revision is not made current.
KeepCurrent(p, r) == project

\* A save publishes as well, as it did before ADR-005.
MoveBothPointers(p, r) == [project EXCEPT ![p].current = r, ![p].served = r]

\* The current pointer of the request is not looked at.
CurrentUnchecked(p, expected) == TRUE

\* A publish serves what the page believes to be current, unchecked.
PublishBelieved(pg) ==
    LET p == view[pg].project IN
    /\ view[pg] # NoView /\ p \in Live
    /\ project[p].current # project[p].served => project[p].served = view[pg].served
    /\ project' = [project EXCEPT ![p].served = view[pg].current]
    /\ UNCHANGED <<revision, minted, view>>

\* A delete without the cascade.
DeleteProjectRow(p) ==
    /\ p \in Live
    /\ project' = [project EXCEPT ![p] = NoRow]
    /\ UNCHANGED <<revision, minted, view>>

-----------------------------------------------------------------------------------
(* The row changes of the handlers. *)

\* config_revisions.insert: the content of a row is never updated afterwards.
InsertRevision(r, p, parent, n, b) ==
    [revision EXCEPT ![r] = [project |-> p, parent |-> parent, no |-> n, bytes |-> b]]

\* A save moves the current pointer and no other.
MoveCurrent(p, r) == [project EXCEPT ![p].current = r]

\* A publish serves the current revision.
ServeCurrent(p) == [project EXCEPT ![p].served = project[p].current]

\* What the optimistic checks of save and publish compare.
CurrentMatches(p, expected) == project[p].current = expected

ServedMatches(p, expected) ==
    project[p].current # project[p].served => project[p].served = expected

\* ProjectDto of the answer, when it reaches the page.
Dto(p) == [project |-> p, current |-> project'[p].current, served |-> project'[p].served]

Answer(pg, p) == view' \in {view, [view EXCEPT ![pg] = Dto(p)]}

-----------------------------------------------------------------------------------
Init ==
    /\ project = [p \in ProjectId |-> NoRow]
    /\ revision = [r \in RevisionId |-> NoRow]
    /\ minted = {}
    /\ view = [pg \in Page |-> NoView]

\* The first revision, its own root, is both current and served.
CreateProject(pg, p, r, n, b) ==
    /\ p \notin minted /\ r \notin minted
    /\ minted' = minted \cup {p, r}
    /\ revision' = InsertRevision(r, p, NoRev, 1, b)
    /\ project' = [project EXCEPT ![p] = [name |-> n, current |-> r, served |-> r]]
    /\ Answer(pg, p)

GetProject(pg, p) ==
    /\ p \in Live
    /\ UNCHANGED <<project, revision, minted>>
    /\ Answer(pg, p)

\* The bytes of the current revision again: no revision is made.
SaveUnchanged(pg, b) ==
    LET p == view[pg].project IN
    /\ view[pg] # NoView /\ p \in Live
    /\ CurrentMatches(p, view[pg].current)
    /\ revision[project[p].current].bytes = b
    /\ UNCHANGED <<project, revision, minted>>
    /\ Answer(pg, p)

SaveRevision(pg, b, r) ==
    LET p == view[pg].project
        cur == project[p].current
    IN
    /\ view[pg] # NoView /\ p \in Live
    /\ CurrentMatches(p, view[pg].current)
    /\ revision[cur].bytes # b
    /\ r \notin minted
    /\ minted' = minted \cup {r}
    /\ revision' = InsertRevision(r, p, cur, revision[cur].no + 1, b)
    /\ project' = MoveCurrent(p, r)
    /\ Answer(pg, p)

\* Covers the answer "unchanged" too: with current = served no row changes.
PublishProject(pg) ==
    LET p == view[pg].project IN
    /\ view[pg] # NoView /\ p \in Live
    /\ CurrentMatches(p, view[pg].current)
    /\ ServedMatches(p, view[pg].served)
    /\ project' = ServeCurrent(p)
    /\ UNCHANGED <<revision, minted>>
    /\ Answer(pg, p)

RenameProject(p, n) ==
    /\ p \in Live
    /\ project' = [project EXCEPT ![p].name = n]
    /\ UNCHANGED <<revision, minted, view>>

\* ON DELETE CASCADE takes the revisions of the project with it.
DeleteProject(p) ==
    /\ p \in Live
    /\ project' = [project EXCEPT ![p] = NoRow]
    /\ revision' = [r \in RevisionId |->
                      IF r \in RevisionsOf(p) THEN NoRow ELSE revision[r]]
    /\ UNCHANGED <<minted, view>>

Next ==
    \/ \E pg \in Page, p \in ProjectId, r \in RevisionId, n \in Name, b \in Bytes :
         CreateProject(pg, p, r, n, b)
    \/ \E pg \in Page, p \in ProjectId : GetProject(pg, p)
    \/ \E pg \in Page, b \in Bytes : SaveUnchanged(pg, b)
    \/ \E pg \in Page, b \in Bytes, r \in RevisionId : SaveRevision(pg, b, r)
    \/ \E pg \in Page : PublishProject(pg)
    \/ \E p \in ProjectId, n \in Name : RenameProject(p, n)
    \/ \E p \in ProjectId : DeleteProject(p)

Spec == Init /\ [][Next]_vars

-----------------------------------------------------------------------------------
(* Both pointers of a project lead to stored revisions of that same project  *)
(* and no stored revision has lost its project.  The foreign keys of the     *)
(* schema only ask for some stored revision; that it is one of the project's *)
(* own is up to the handlers.                                                *)
PointersOwned ==
    /\ \A p \in Live : {project[p].current, project[p].served} \subseteq RevisionsOf(p)
    /\ \A r \in RevisionId : revision[r] # NoRow => revision[r].project \in Live

(* The history of a project is one line: numbers tell its revisions apart,   *)
(* the current revision has the highest, and each revision but the first has *)
(* as parent the revision numbered one less, whose bytes differ from its     *)
(* own.  A stale save that slipped through would fork the line.              *)
LinearHistory ==
    \A p \in Live : \A r \in RevisionsOf(p) :
        /\ revision[r].no <= revision[project[p].current].no
        /\ \A s \in RevisionsOf(p) : revision[r].no = revision[s].no => r = s
        /\ IF revision[r].no = 1
             THEN revision[r].parent = NoRev
             ELSE /\ revision[r].parent \in RevisionsOf(p)
                  /\ revision[revision[r].parent].no = revision[r].no - 1
                  /\ revision[revision[r].parent].bytes # revision[r].bytes

(* A publish that passes the check of the current pointer always passes the  *)
(* check of the served pointer too: the served pointer cannot move without   *)
(* arriving at the current one, so a page that is stale about what is served *)
(* is stale about the draft as well, or has nothing left to publish.         *)
ServedCheckImplied ==
    \A pg \in Page :
        view[pg] # NoView /\ view[pg].project \in Live
        /\ CurrentMatches(view[pg].project, view[pg].current)
        => ServedMatches(view[pg].project, view[pg].served)

\* The served pointer stays, or is moved to the draft that was current before
\* and after the step, further on in the history.
ServedMovesForward(p) ==
    project[p] # NoRow /\ project'[p] # NoRow /\ project'[p].served # project[p].served
    => /\ project'[p].served = project[p].current
       /\ project'[p].current = project[p].current
       /\ revision[project'[p].served].no > revision[project[p].served].no

(* What subscribers get only ever moves forward in the history, to the       *)
(* revision that is current, and never in the same step as a save.           *)
ServedAdvances == [][\A p \in ProjectId : ServedMovesForward(p)]_vars

-----------------------------------------------------------------------------------
(* The abstract specification: the number of a revision is its position in   *)
(* the log of its project.                                                   *)
RevisionAt(p, n) == CHOOSE r \in RevisionsOf(p) : revision[r].no = n

LogOf(p) ==
    IF p \in Live
      THEN [n \in 1..revision[project[p].current].no |-> revision[RevisionAt(p, n)].bytes]
      ELSE <<>>

ServedAtOf(p) == IF p \in Live THEN revision[project[p].served].no ELSE 0

ReaderOf(pg) ==
    IF view[pg] # NoView /\ view[pg].project \in Live
      THEN [project |-> view[pg].project,
            length  |-> revision[view[pg].current].no,
            served  |-> revision[view[pg].served].no]
      ELSE NoView

Log == INSTANCE PublishedLog WITH
    log      <- [p \in ProjectId |-> LogOf(p)],
    servedAt <- [p \in ProjectId |-> ServedAtOf(p)],
    ended    <- (minted \cap ProjectId) \ Live,
    reader   <- [pg \in Page |-> ReaderOf(pg)]

(* Whatever pages do with stale pointers and lost answers, a project behaves *)
(* like an append-only log with one served position: no save overwrites a    *)
(* draft its page had not seen, and no publish replaces a served version or  *)
(* exposes a draft its page had not seen (ADR-001, ADR-005).                 *)
ImplementsPublishedLog == Log!Spec
===================================================================================
