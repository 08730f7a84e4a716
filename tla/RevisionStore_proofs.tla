--------------------------- MODULE RevisionStore_proofs ---------------------------
(***************************************************************************)
(* Theorems about RevisionStore for every set of projects, revisions,      *)
(* pages, names and sources.  LinearHistory and PointersOwned are not      *)
(* inductive by themselves: a new row must not overwrite a stored one,     *)
(* which holds because every stored id was minted and a minted id is never *)
(* drawn again.                                                            *)
(***************************************************************************)
EXTENDS RevisionStore, TLAPS

\* Every row bears an id that was drawn.
RowsMinted ==
    /\ \A p \in ProjectId : project[p] # NoRow => p \in minted
    /\ \A r \in RevisionId : revision[r] # NoRow => r \in minted

IInv == TypeOK /\ RowsMinted /\ PointersOwned /\ LinearHistory

-----------------------------------------------------------------------------------
LEMMA InitIInv == Init => IInv
  BY SentinelAssumption
     DEF Init, IInv, TypeOK, RowsMinted, PointersOwned, LinearHistory, Live, RevisionsOf

(* The rows of a live project: its own and those of its two pointers. *)
LEMMA PointedRows ==
  ASSUME TypeOK, PointersOwned, NEW p \in Live
  PROVE  /\ p \in ProjectId
         /\ project[p] \in ProjectRow
         /\ project[p].current \in RevisionsOf(p)
         /\ project[p].served \in RevisionsOf(p)
  BY SentinelAssumption DEF TypeOK, PointersOwned, Live, RevisionsOf, ProjectRow

LEMMA StoredRows ==
  ASSUME TypeOK, NEW p, NEW r \in RevisionsOf(p)
  PROVE  /\ r \in RevisionId
         /\ revision[r] \in RevisionRow
         /\ revision[r].project = p
         /\ revision[r].no \in Nat \ {0}
  BY SentinelAssumption DEF TypeOK, RevisionsOf, RevisionRow

-----------------------------------------------------------------------------------
(* TypeOK is preserved: a save numbers its revision from the row of the current *)
(* one, which PointersOwned guarantees to exist.                                *)
LEMMA NextTypeOK ==
  ASSUME IInv, [Next]_vars
  PROVE  TypeOK'
<1> USE SentinelAssumption DEF IInv
<1>1. ASSUME NEW pg \in Page, NEW p \in ProjectId, NEW r \in RevisionId,
             NEW n \in Name, NEW b \in Bytes, CreateProject(pg, p, r, n, b)
      PROVE  TypeOK'
  BY <1>1 DEF CreateProject, InsertRevision, TypeOK, ProjectRow, RevisionRow, Snapshot, Answer, Dto
<1>2. ASSUME NEW pg \in Page, NEW p \in ProjectId, GetProject(pg, p)
      PROVE  TypeOK'
  BY <1>2, PointedRows DEF GetProject, TypeOK, ProjectRow, Snapshot, Answer, Dto
<1>3. ASSUME NEW pg \in Page, NEW b \in Bytes, SaveUnchanged(pg, b)
      PROVE  TypeOK'
  BY <1>3, PointedRows DEF SaveUnchanged, TypeOK, ProjectRow, Snapshot, Answer, Dto
<1>4. ASSUME NEW pg \in Page, NEW b \in Bytes, NEW r \in RevisionId, SaveRevision(pg, b, r)
      PROVE  TypeOK'
  <2> DEFINE p == view[pg].project
             cur == project[p].current
  <2>1. p \in ProjectId /\ project[p] \in ProjectRow /\ cur \in RevisionId
        /\ revision[cur] \in RevisionRow
    BY <1>4, PointedRows, StoredRows DEF SaveRevision
  <2>2. /\ revision' = [revision EXCEPT ![r] = [project |-> p, parent |-> cur,
                                               no |-> revision[cur].no + 1, bytes |-> b]]
        /\ project' = [project EXCEPT ![p].current = r]
        /\ minted' = minted \cup {r}
        /\ Answer(pg, p)
    BY <1>4 DEF SaveRevision, InsertRevision, MoveCurrent
  <2>3. [project |-> p, parent |-> cur, no |-> revision[cur].no + 1, bytes |-> b] \in RevisionRow
    BY <2>1 DEF RevisionRow
  <2>4. [project[p] EXCEPT !.current = r] \in ProjectRow
    BY <2>1 DEF ProjectRow
  <2> HIDE DEF p, cur
  <2>5. /\ project' \in [ProjectId -> ProjectRow \cup {NoRow}]
        /\ revision' \in [RevisionId -> RevisionRow \cup {NoRow}]
        /\ minted' \subseteq ProjectId \cup RevisionId
    BY <2>1, <2>2, <2>3, <2>4 DEF TypeOK
  <2>6. Dto(p) \in Snapshot
    BY <2>1, <2>2, <2>4 DEF Dto, Snapshot, ProjectRow, TypeOK
  <2>7. QED
    BY <2>2, <2>5, <2>6 DEF TypeOK, Answer
<1>5. ASSUME NEW pg \in Page, PublishProject(pg)
      PROVE  TypeOK'
  <2> DEFINE p == view[pg].project
  <2>1. p \in ProjectId /\ project[p] \in ProjectRow
    BY <1>5, PointedRows DEF PublishProject
  <2>2. [project[p] EXCEPT !.served = project[p].current] \in ProjectRow
    BY <2>1 DEF ProjectRow
  <2>3. QED
    BY <1>5, <2>1, <2>2 DEF PublishProject, ServeCurrent, TypeOK, ProjectRow, Snapshot, Answer, Dto
<1>6. ASSUME NEW p \in ProjectId, NEW n \in Name, RenameProject(p, n)
      PROVE  TypeOK'
  <2>1. project[p] \in ProjectRow
    BY <1>6, PointedRows DEF RenameProject
  <2>2. [project[p] EXCEPT !.name = n] \in ProjectRow
    BY <2>1 DEF ProjectRow
  <2>3. QED
    BY <1>6, <2>2 DEF RenameProject, TypeOK
<1>7. ASSUME NEW p \in ProjectId, DeleteProject(p)
      PROVE  TypeOK'
  BY <1>7 DEF DeleteProject, TypeOK
<1>8. CASE UNCHANGED vars
  BY <1>8 DEF vars, TypeOK
<1>9. QED
  BY <1>1, <1>2, <1>3, <1>4, <1>5, <1>6, <1>7, <1>8 DEF Next

-----------------------------------------------------------------------------------
(* A minted id stays minted, and rows appear only under a newly minted one.   *)
LEMMA NextRowsMinted ==
  ASSUME IInv, [Next]_vars
  PROVE  RowsMinted'
<1> USE DEF IInv, TypeOK, RowsMinted, Live
<1>1. ASSUME NEW pg \in Page, NEW p \in ProjectId, NEW r \in RevisionId,
             NEW n \in Name, NEW b \in Bytes, CreateProject(pg, p, r, n, b)
      PROVE  RowsMinted'
  BY <1>1 DEF CreateProject, InsertRevision
<1>2. ASSUME NEW pg \in Page, NEW p \in ProjectId, GetProject(pg, p)
      PROVE  RowsMinted'
  BY <1>2 DEF GetProject
<1>3. ASSUME NEW pg \in Page, NEW b \in Bytes, SaveUnchanged(pg, b)
      PROVE  RowsMinted'
  BY <1>3 DEF SaveUnchanged
<1>4. ASSUME NEW pg \in Page, NEW b \in Bytes, NEW r \in RevisionId, SaveRevision(pg, b, r)
      PROVE  RowsMinted'
  BY <1>4 DEF SaveRevision, InsertRevision, MoveCurrent
<1>5. ASSUME NEW pg \in Page, PublishProject(pg)
      PROVE  RowsMinted'
  BY <1>5 DEF PublishProject, ServeCurrent
<1>6. ASSUME NEW p \in ProjectId, NEW n \in Name, RenameProject(p, n)
      PROVE  RowsMinted'
  BY <1>6 DEF RenameProject
<1>7. ASSUME NEW p \in ProjectId, DeleteProject(p)
      PROVE  RowsMinted'
  BY <1>7 DEF DeleteProject
<1>8. CASE UNCHANGED vars
  BY <1>8 DEF vars
<1>9. QED
  BY <1>1, <1>2, <1>3, <1>4, <1>5, <1>6, <1>7, <1>8 DEF Next

-----------------------------------------------------------------------------------
(* The shape of the three steps that change rows, with the facts the next two *)
(* lemmas need of them.                                                       *)
LEMMA CreateShape ==
  ASSUME IInv, NEW pg \in Page, NEW p \in ProjectId, NEW r \in RevisionId,
         NEW n \in Name, NEW b \in Bytes, CreateProject(pg, p, r, n, b)
  PROVE  /\ p \notin Live /\ Live' = Live \cup {p}
         /\ revision[r] = NoRow
         /\ RevisionsOf(p)' = {r}
         /\ project'[p].current = r /\ project'[p].served = r
         /\ revision'[r] \in RevisionRow
         /\ revision'[r].no = 1 /\ revision'[r].parent = NoRev /\ revision'[r].project = p
         /\ \A q \in Live : RevisionsOf(q)' = RevisionsOf(q) /\ project'[q] = project[q]
         /\ \A s \in RevisionId \ {r} : revision'[s] = revision[s]
<1> USE SentinelAssumption DEF IInv, TypeOK
<1>1. p \notin Live /\ revision[r] = NoRow
  BY DEF CreateProject, RowsMinted, Live
<1>2. /\ revision' = [revision EXCEPT ![r] =
                        [project |-> p, parent |-> NoRev, no |-> 1, bytes |-> b]]
      /\ project' = [project EXCEPT ![p] = [name |-> n, current |-> r, served |-> r]]
  BY DEF CreateProject, InsertRevision
<1>3. [project |-> p, parent |-> NoRev, no |-> 1, bytes |-> b] \in RevisionRow
  BY DEF RevisionRow
<1>4. [name |-> n, current |-> r, served |-> r] \in ProjectRow
  BY DEF ProjectRow
<1>5. /\ revision'[r] \in RevisionRow /\ revision'[r] # NoRow
      /\ revision'[r].no = 1 /\ revision'[r].parent = NoRev /\ revision'[r].project = p
      /\ \A s \in RevisionId \ {r} : revision'[s] = revision[s]
  BY <1>2, <1>3
<1>6. /\ project'[p].current = r /\ project'[p].served = r /\ project'[p] # NoRow
      /\ \A q \in ProjectId \ {p} : project'[q] = project[q]
  BY <1>2, <1>4
<1>7. \A s \in RevisionId : revision[s] # NoRow => revision[s].project \in Live
  BY DEF PointersOwned
<1>8. Live' = Live \cup {p}
  BY <1>6 DEF Live
<1>9. RevisionsOf(p)' = {r}
  BY <1>1, <1>5, <1>7 DEF RevisionsOf
<1>10. \A q \in Live : RevisionsOf(q)' = RevisionsOf(q) /\ project'[q] = project[q]
  BY <1>1, <1>5, <1>6 DEF RevisionsOf, Live
<1>11. QED
  BY <1>1, <1>5, <1>6, <1>8, <1>9, <1>10

LEMMA SaveShape ==
  ASSUME IInv, NEW pg \in Page, NEW b \in Bytes, NEW r \in RevisionId,
         NEW p, NEW cur, p = view[pg].project, cur = project[p].current,
         SaveRevision(pg, b, r)
  PROVE  /\ p \in Live /\ Live' = Live
         /\ revision[r] = NoRow
         /\ cur \in RevisionsOf(p) /\ r # cur
         /\ RevisionsOf(p)' = RevisionsOf(p) \cup {r}
         /\ project'[p].current = r /\ project'[p].served = project[p].served
         /\ revision'[r].no = revision[cur].no + 1
         /\ revision'[r].parent = cur
         /\ revision'[r].project = p
         /\ revision'[r].bytes # revision[cur].bytes
         /\ \A q \in Live \ {p} : RevisionsOf(q)' = RevisionsOf(q) /\ project'[q] = project[q]
         /\ \A s \in RevisionId \ {r} : revision'[s] = revision[s]
<1> USE SentinelAssumption DEF IInv
<1>1. /\ p \in Live /\ p \in ProjectId /\ project[p] \in ProjectRow
      /\ cur \in RevisionsOf(p) /\ cur \in RevisionId
      /\ revision[cur] \in RevisionRow /\ revision[cur].project = p
  BY PointedRows, StoredRows DEF SaveRevision
<1>2. revision[r] = NoRow /\ r # cur
  BY <1>1 DEF SaveRevision, RowsMinted, RevisionsOf
<1>3. /\ revision' = [revision EXCEPT ![r] =
              [project |-> p, parent |-> cur, no |-> revision[cur].no + 1, bytes |-> b]]
      /\ project' = [project EXCEPT ![p].current = r]
      /\ revision[cur].bytes # b
  BY DEF SaveRevision, InsertRevision, MoveCurrent
<1>4. [project |-> p, parent |-> cur, no |-> revision[cur].no + 1, bytes |-> b] \in RevisionRow
  BY <1>1 DEF RevisionRow
<1>5. [project[p] EXCEPT !.current = r] \in ProjectRow
  BY <1>1 DEF ProjectRow
<1>6. /\ revision'[r] # NoRow
      /\ revision'[r].no = revision[cur].no + 1 /\ revision'[r].parent = cur
      /\ revision'[r].project = p /\ revision'[r].bytes # revision[cur].bytes
      /\ \A s \in RevisionId \ {r} : revision'[s] = revision[s]
  BY <1>3, <1>4 DEF TypeOK
<1>7. /\ project'[p] # NoRow
      /\ project'[p].current = r /\ project'[p].served = project[p].served
      /\ \A q \in ProjectId \ {p} : project'[q] = project[q]
  BY <1>1, <1>3, <1>5 DEF TypeOK, ProjectRow
<1>8. Live' = Live
  BY <1>1, <1>7 DEF Live
<1>9. RevisionsOf(p)' = RevisionsOf(p) \cup {r}
  BY <1>2, <1>6 DEF RevisionsOf
<1>10. \A q \in Live \ {p} : RevisionsOf(q)' = RevisionsOf(q) /\ project'[q] = project[q]
  BY <1>2, <1>6, <1>7 DEF RevisionsOf, Live
<1>11. QED
  BY <1>1, <1>2, <1>6, <1>7, <1>8, <1>9, <1>10

LEMMA DeleteShape ==
  ASSUME IInv, NEW p \in ProjectId, DeleteProject(p)
  PROVE  /\ Live' = Live \ {p}
         /\ \A q \in Live' : /\ RevisionsOf(q)' = RevisionsOf(q) /\ project'[q] = project[q]
                             /\ \A s \in RevisionsOf(q) : revision'[s] = revision[s]
         /\ \A s \in RevisionId : revision'[s] # NoRow
                => revision'[s] = revision[s] /\ revision[s].project # p
<1> USE SentinelAssumption DEF IInv, TypeOK
<1>1. /\ \A s \in RevisionId :
            revision'[s] = IF s \in RevisionsOf(p) THEN NoRow ELSE revision[s]
      /\ project'[p] = NoRow
      /\ \A q \in ProjectId \ {p} : project'[q] = project[q]
  BY DEF DeleteProject
<1>2. Live' = Live \ {p}
  BY <1>1 DEF Live
<1>3. \A q \in Live' : /\ RevisionsOf(q)' = RevisionsOf(q) /\ project'[q] = project[q]
                       /\ \A s \in RevisionsOf(q) : revision'[s] = revision[s]
  BY <1>1, <1>2 DEF RevisionsOf, Live
<1>4. \A s \in RevisionId : revision'[s] # NoRow
                => revision'[s] = revision[s] /\ revision[s].project # p
  BY <1>1 DEF RevisionsOf
<1>5. QED
  BY <1>2, <1>3, <1>4

(* The steps that leave the revision rows and the current pointers alone.     *)
Quiet ==
    /\ revision' = revision
    /\ Live' = Live
    /\ \A q \in Live : /\ project'[q].current = project[q].current
                       /\ project'[q].served \in {project[q].served, project[q].current}

LEMMA QuietShape ==
  ASSUME IInv,
         \/ \E pg \in Page, p \in ProjectId : GetProject(pg, p)
         \/ \E pg \in Page, b \in Bytes : SaveUnchanged(pg, b)
         \/ \E pg \in Page : PublishProject(pg)
         \/ \E p \in ProjectId, n \in Name : RenameProject(p, n)
         \/ UNCHANGED vars
  PROVE  Quiet
<1> USE SentinelAssumption DEF IInv
<1>1. ASSUME UNCHANGED <<project, revision>>
      PROVE  Quiet
  BY <1>1 DEF Quiet, Live
<1>2. ASSUME NEW pg \in Page, PublishProject(pg)
      PROVE  Quiet
  <2> DEFINE p == view[pg].project
             row == [project[p] EXCEPT !.served = project[p].current]
  <2>1. p \in Live /\ p \in ProjectId /\ project[p] \in ProjectRow
    BY <1>2, PointedRows DEF PublishProject
  <2>2. row \in ProjectRow /\ row.current = project[p].current /\ row.served = project[p].current
    BY <2>1 DEF ProjectRow
  <2>3. project' = [project EXCEPT ![p] = row] /\ revision' = revision
    BY <1>2 DEF PublishProject, ServeCurrent
  <2> HIDE DEF p, row
  <2>4. /\ project'[p] = row /\ row # NoRow
        /\ \A q \in ProjectId \ {p} : project'[q] = project[q]
    BY <2>1, <2>2, <2>3 DEF TypeOK
  <2>5. QED
    BY <2>1, <2>2, <2>3, <2>4 DEF Quiet, Live
<1>3. ASSUME NEW p \in ProjectId, NEW n \in Name, RenameProject(p, n)
      PROVE  Quiet
  <2> DEFINE row == [project[p] EXCEPT !.name = n]
  <2>1. p \in Live /\ project[p] \in ProjectRow
    BY <1>3, PointedRows DEF RenameProject
  <2>2. row \in ProjectRow /\ row.current = project[p].current /\ row.served = project[p].served
    BY <2>1 DEF ProjectRow
  <2>3. project' = [project EXCEPT ![p] = row] /\ revision' = revision
    BY <1>3 DEF RenameProject
  <2> HIDE DEF row
  <2>4. /\ project'[p] = row /\ row # NoRow
        /\ \A q \in ProjectId \ {p} : project'[q] = project[q]
    BY <2>1, <2>2, <2>3 DEF TypeOK
  <2>5. QED
    BY <2>1, <2>2, <2>3, <2>4 DEF Quiet, Live
<1>4. QED
  BY <1>1, <1>2, <1>3 DEF GetProject, SaveUnchanged, vars

\* Next, sorted by the shape of its steps.
LEMMA StepShapes ==
  ASSUME IInv, [Next]_vars
  PROVE  \/ \E pg \in Page, p \in ProjectId, r \in RevisionId, n \in Name, b \in Bytes :
               CreateProject(pg, p, r, n, b)
         \/ \E pg \in Page, b \in Bytes, r \in RevisionId : SaveRevision(pg, b, r)
         \/ \E p \in ProjectId : DeleteProject(p)
         \/ Quiet
  BY QuietShape DEF Next

-----------------------------------------------------------------------------------
LEMMA NextPointersOwned ==
  ASSUME IInv, [Next]_vars
  PROVE  PointersOwned'
<1> USE DEF IInv
<1>1. ASSUME NEW pg \in Page, NEW p \in ProjectId, NEW r \in RevisionId,
             NEW n \in Name, NEW b \in Bytes, CreateProject(pg, p, r, n, b)
      PROVE  PointersOwned'
  BY <1>1, CreateShape DEF PointersOwned
<1>2. ASSUME NEW pg \in Page, NEW b \in Bytes, NEW r \in RevisionId, SaveRevision(pg, b, r)
      PROVE  PointersOwned'
  <2>0. PICK p \in Live, cur \in RevisionId :
             p = view[pg].project /\ cur = project[p].current
    BY <1>2, PointedRows, StoredRows DEF SaveRevision
  <2>1. QED
    BY <1>2, <2>0, SaveShape DEF PointersOwned
<1>3. ASSUME NEW p \in ProjectId, DeleteProject(p)
      PROVE  PointersOwned'
  BY <1>3, DeleteShape DEF PointersOwned
<1>4. ASSUME Quiet
      PROVE  PointersOwned'
  BY <1>4 DEF PointersOwned, Quiet, RevisionsOf
<1>5. QED
  BY <1>1, <1>2, <1>3, <1>4, StepShapes

\* What LinearHistory says of one revision of one project.
InLine(p, r) ==
    /\ revision[r].no <= revision[project[p].current].no
    /\ \A s \in RevisionsOf(p) : revision[r].no = revision[s].no => r = s
    /\ IF revision[r].no = 1
         THEN revision[r].parent = NoRev
         ELSE /\ revision[r].parent \in RevisionsOf(p)
              /\ revision[revision[r].parent].no = revision[r].no - 1
              /\ revision[revision[r].parent].bytes # revision[r].bytes

LEMMA NextLinearHistory ==
  ASSUME IInv, [Next]_vars
  PROVE  LinearHistory'
<1> USE DEF IInv
<1>0. /\ LinearHistory <=> \A p \in Live : \A r \in RevisionsOf(p) : InLine(p, r)
      /\ LinearHistory' <=> \A p \in Live' : \A r \in RevisionsOf(p)' : InLine(p, r)'
  BY DEF LinearHistory, InLine
<1>1. ASSUME NEW pg \in Page, NEW p \in ProjectId, NEW r \in RevisionId,
             NEW n \in Name, NEW b \in Bytes, CreateProject(pg, p, r, n, b)
      PROVE  LinearHistory'
  <2>1. InLine(p, r)'
    BY <1>1, CreateShape DEF InLine
  <2>2. ASSUME NEW q \in Live, NEW s \in RevisionsOf(q)
        PROVE  InLine(q, s)'
    <3>1. InLine(q, s)
      BY <1>0
    <3>2. \A t \in RevisionsOf(q) : t \in RevisionId /\ t # r /\ revision'[t] = revision[t]
      BY <1>1, CreateShape DEF RevisionsOf
    <3>3. QED
      BY <1>1, <3>1, <3>2, CreateShape, PointedRows DEF InLine
  <2>3. QED
    BY <1>0, <1>1, <2>1, <2>2, CreateShape
<1>2. ASSUME NEW pg \in Page, NEW b \in Bytes, NEW r \in RevisionId, SaveRevision(pg, b, r)
      PROVE  LinearHistory'
  <2>0. PICK p \in Live, cur \in RevisionId :
             p = view[pg].project /\ cur = project[p].current
    BY <1>2, PointedRows, StoredRows DEF SaveRevision
  <2>1. /\ p \in Live /\ Live' = Live
        /\ cur \in RevisionsOf(p) /\ r # cur
        /\ RevisionsOf(p)' = RevisionsOf(p) \cup {r}
        /\ project'[p].current = r
        /\ revision'[r].no = revision[cur].no + 1
        /\ revision'[r].parent = cur
        /\ revision'[r].bytes # revision[cur].bytes
        /\ \A q \in Live \ {p} : RevisionsOf(q)' = RevisionsOf(q) /\ project'[q] = project[q]
        /\ \A s \in RevisionId \ {r} : revision'[s] = revision[s]
        /\ revision[r] = NoRow
    BY <1>2, <2>0, SaveShape
  <2>2. \A q \in Live : \A s \in RevisionsOf(q) :
          /\ s \in RevisionId /\ s # r /\ revision'[s] = revision[s]
          /\ revision[s].no \in Nat \ {0}
          /\ InLine(q, s)
    BY <1>0, <2>1, StoredRows DEF RevisionsOf
  <2>3. \A s \in RevisionsOf(p) : revision[s].no <= revision[cur].no
    BY <2>0, <2>2 DEF InLine
  <2>4. InLine(p, r)'
    <3>1. revision'[r].no # 1 /\ revision'[r].no - 1 = revision[cur].no
      BY <2>1, <2>2
    <3>2. revision'[cur] = revision[cur]
      BY <2>1, <2>2
    <3>3. \A s \in RevisionsOf(p) : revision'[s].no # revision'[r].no
      BY <2>1, <2>2, <2>3
    <3>4. QED
      BY <2>1, <2>2, <3>1, <3>2, <3>3 DEF InLine
  <2>5. ASSUME NEW s \in RevisionsOf(p)
        PROVE  InLine(p, s)'
    <3>1. revision'[s].no <= revision'[r].no /\ revision'[s].no # revision'[r].no
      BY <2>1, <2>2, <2>3
    <3>2. \A t \in RevisionsOf(p)' : revision'[s].no = revision'[t].no => s = t
      BY <2>1, <2>2, <3>1 DEF InLine
    <3>3. QED
      BY <2>1, <2>2, <3>1, <3>2 DEF InLine
  <2>6. ASSUME NEW q \in Live \ {p}, NEW s \in RevisionsOf(q)
        PROVE  InLine(q, s)'
    <3>1. project[q].current \in RevisionsOf(q)
      BY PointedRows
    <3>2. QED
      BY <2>1, <2>2, <3>1 DEF InLine
  <2>7. QED
    BY <1>0, <2>1, <2>4, <2>5, <2>6
<1>3. ASSUME NEW p \in ProjectId, DeleteProject(p)
      PROVE  LinearHistory'
  <2>1. ASSUME NEW q \in Live', NEW s \in RevisionsOf(q)'
        PROVE  InLine(q, s)'
    <3>1. /\ q \in Live /\ s \in RevisionsOf(q) /\ project'[q] = project[q]
          /\ RevisionsOf(q)' = RevisionsOf(q)
          /\ \A t \in RevisionsOf(q) : revision'[t] = revision[t]
          /\ project[q].current \in RevisionsOf(q)
      BY <1>3, DeleteShape, PointedRows
    <3>2. InLine(q, s)
      BY <1>0, <3>1
    <3>3. QED
      BY <3>1, <3>2 DEF InLine
  <2>2. QED
    BY <1>0, <2>1
<1>4. ASSUME Quiet
      PROVE  LinearHistory'
  BY <1>4, <1>0 DEF InLine, Quiet, RevisionsOf
<1>5. QED
  BY <1>1, <1>2, <1>3, <1>4, StepShapes

-----------------------------------------------------------------------------------
LEMMA Inductive == IInv /\ [Next]_vars => IInv'
  BY NextTypeOK, NextRowsMinted, NextPointersOwned, NextLinearHistory DEF IInv

LEMMA Invariance == Spec => []IInv
  BY InitIInv, Inductive, PTL DEF Spec

(* The tables keep their types: every number, pointer and parent is one the  *)
(* schema allows, for every set of projects, revisions and pages.            *)
THEOREM TypeCorrect == Spec => []TypeOK
<1>1. IInv => TypeOK
  BY DEF IInv
<1>2. QED
  BY Invariance, <1>1, PTL

(* A project's pointers always lead to stored revisions of its own, and a    *)
(* deleted project leaves no revision behind.                                *)
THEOREM PointersAlwaysOwned == Spec => []PointersOwned
<1>1. IInv => PointersOwned
  BY DEF IInv
<1>2. QED
  BY Invariance, <1>1, PTL

(* However stale the pages are that save, the history of a project never     *)
(* forks, skips a number or repeats its bytes.                               *)
THEOREM HistoryAlwaysLinear == Spec => []LinearHistory
<1>1. IInv => LinearHistory
  BY DEF IInv
<1>2. QED
  BY Invariance, <1>1, PTL

(* What subscribers are served moves only by a publish, only forward, and    *)
(* only to the draft that was current.                                       *)
THEOREM ServedAlwaysAdvances == Spec => ServedAdvances
<1>1. ASSUME IInv, [Next]_vars, NEW p \in ProjectId
      PROVE  ServedMovesForward(p)
  <2> USE <1>1 DEF IInv
  <2>1. ASSUME NEW pg \in Page, NEW q \in ProjectId, NEW r \in RevisionId,
               NEW n \in Name, NEW b \in Bytes, CreateProject(pg, q, r, n, b)
        PROVE  ServedMovesForward(p)
    BY <2>1, CreateShape DEF Live, ServedMovesForward
  <2>2. ASSUME NEW pg \in Page, NEW b \in Bytes, NEW r \in RevisionId, SaveRevision(pg, b, r)
        PROVE  ServedMovesForward(p)
    BY <2>2, SaveShape DEF Live, ServedMovesForward
  <2>3. ASSUME NEW q \in ProjectId, DeleteProject(q)
        PROVE  ServedMovesForward(p)
    BY <2>3, DeleteShape DEF Live, ServedMovesForward
  <2>4. ASSUME Quiet, p \in Live, project'[p].served # project[p].served
        PROVE  ServedMovesForward(p)
    <3>1. project'[p].served = project[p].current /\ project'[p].current = project[p].current
      BY <2>4 DEF Quiet
    <3>2. /\ project[p].current \in RevisionsOf(p) /\ project[p].served \in RevisionsOf(p)
          /\ revision[project[p].current].no \in Nat /\ revision[project[p].served].no \in Nat
      BY <2>4, PointedRows, StoredRows
    <3>3. /\ revision[project[p].served].no <= revision[project[p].current].no
          /\ revision[project[p].served].no # revision[project[p].current].no
      BY <2>4, <3>1, <3>2 DEF LinearHistory
    <3>4. QED
      BY <3>1, <3>2, <3>3 DEF ServedMovesForward
  <2>5. QED
    BY <2>1, <2>2, <2>3, <2>4, StepShapes DEF Live, ServedMovesForward
<1>2. IInv /\ [Next]_vars => [\A p \in ProjectId : ServedMovesForward(p)]_vars
  BY <1>1
<1>3. QED
  BY Invariance, <1>2, PTL DEF Spec, ServedAdvances

-----------------------------------------------------------------------------------
(* That the served pointer needs no check of its own rests on what pages can  *)
(* know: only ids that were drawn, so never that of a revision yet to come.   *)
ViewsMinted ==
    \A pg \in Page : view[pg] # NoView => {view[pg].project, view[pg].current} \subseteq minted

Fits(v) ==
    v # NoView /\ v.project \in Live /\ CurrentMatches(v.project, v.current)
    => ServedMatches(v.project, v.served)

LEMMA Answered ==
  ASSUME TypeOK, NEW pg \in Page, NEW p, Answer(pg, p), NEW qg \in Page
  PROVE  view'[qg] \in {view[qg], Dto(p)}
  BY DEF Answer, TypeOK

LEMMA AnswerFits ==
  ASSUME NEW p, NEW qg \in Page, view'[qg] = Dto(p)
  PROVE  Fits(view[qg])'
  BY DEF Fits, Dto, CurrentMatches, ServedMatches

LEMMA NextViewsMinted ==
  ASSUME IInv, ViewsMinted, [Next]_vars
  PROVE  ViewsMinted'
<1> USE DEF IInv, ViewsMinted
<1>1. ASSUME NEW pg \in Page, NEW p \in ProjectId, NEW r \in RevisionId,
             NEW n \in Name, NEW b \in Bytes, CreateProject(pg, p, r, n, b)
      PROVE  ViewsMinted'
  <2>1. project'[p].current = r
    BY <1>1, CreateShape
  <2>2. QED
    BY <1>1, <2>1, Answered DEF CreateProject, Dto
<1>2. ASSUME NEW pg \in Page, NEW p \in ProjectId, GetProject(pg, p)
      PROVE  ViewsMinted'
  <2>1. project[p].current \in RevisionsOf(p)
    BY <1>2, PointedRows DEF GetProject
  <2>2. p \in minted /\ project[p].current \in minted
    BY <1>2, <2>1 DEF GetProject, RowsMinted, RevisionsOf, Live
  <2>3. QED
    BY <1>2, <2>2, Answered DEF GetProject, Dto
<1>3. ASSUME NEW pg \in Page, NEW b \in Bytes, SaveUnchanged(pg, b)
      PROVE  ViewsMinted'
  BY <1>3, Answered DEF SaveUnchanged, Dto, CurrentMatches
<1>4. ASSUME NEW pg \in Page, NEW b \in Bytes, NEW r \in RevisionId, SaveRevision(pg, b, r)
      PROVE  ViewsMinted'
  <2>0. PICK p, cur : p = view[pg].project /\ cur = project[p].current
    OBVIOUS
  <2>1. project'[view[pg].project].current = r
    BY <1>4, <2>0, SaveShape
  <2>2. QED
    BY <1>4, <2>1, Answered DEF SaveRevision, Dto
<1>5. ASSUME NEW pg \in Page, PublishProject(pg)
      PROVE  ViewsMinted'
  <2>1. project'[view[pg].project].current = project[view[pg].project].current
    BY <1>5, QuietShape DEF Quiet, PublishProject
  <2>2. QED
    BY <1>5, <2>1, Answered DEF PublishProject, Dto, CurrentMatches
<1>6. CASE \/ \E p \in ProjectId, n \in Name : RenameProject(p, n)
           \/ \E p \in ProjectId : DeleteProject(p)
           \/ UNCHANGED vars
  BY <1>6 DEF RenameProject, DeleteProject, vars
<1>7. QED
  BY <1>1, <1>2, <1>3, <1>4, <1>5, <1>6 DEF Next

LEMMA NextServedCheckImplied ==
  ASSUME IInv, ViewsMinted, ServedCheckImplied, [Next]_vars
  PROVE  ServedCheckImplied'
<1> USE DEF IInv
<1>0. /\ \A pg \in Page : Fits(view[pg])
      /\ (\A pg \in Page : Fits(view[pg])') => ServedCheckImplied'
  BY DEF ServedCheckImplied, Fits
<1>1. ASSUME NEW pg \in Page, NEW p \in ProjectId, NEW r \in RevisionId,
             NEW n \in Name, NEW b \in Bytes, CreateProject(pg, p, r, n, b)
      PROVE  ServedCheckImplied'
  <2>1. ASSUME NEW qg \in Page, view'[qg] = view[qg]
        PROVE  Fits(view[qg])'
    <3>1. view[qg] # NoView => view[qg].project # p
      BY <1>1 DEF ViewsMinted, CreateProject
    <3>2. QED
      BY <1>0, <1>1, <2>1, <3>1, CreateShape DEF Fits, CurrentMatches, ServedMatches
  <2>2. QED
    BY <1>0, <1>1, <2>1, Answered, AnswerFits DEF CreateProject
<1>2. ASSUME NEW pg \in Page, NEW p, Answer(pg, p), UNCHANGED project
      PROVE  ServedCheckImplied'
  <2>1. ASSUME NEW qg \in Page, view'[qg] = view[qg]
        PROVE  Fits(view[qg])'
    BY <1>0, <1>2, <2>1 DEF Fits, Live, CurrentMatches, ServedMatches
  <2>2. QED
    BY <1>0, <1>2, <2>1, Answered, AnswerFits
<1>3. ASSUME NEW pg \in Page, NEW b \in Bytes, NEW r \in RevisionId, SaveRevision(pg, b, r)
      PROVE  ServedCheckImplied'
  <2>1. ASSUME NEW qg \in Page, view'[qg] = view[qg]
        PROVE  Fits(view[qg])'
    <3>1. view[qg] # NoView => view[qg].current # r
      BY <1>3 DEF ViewsMinted, SaveRevision
    <3>2. QED
      BY <1>0, <1>3, <2>1, <3>1, SaveShape DEF Fits, CurrentMatches, ServedMatches
  <2>2. QED
    BY <1>0, <1>3, <2>1, Answered, AnswerFits DEF SaveRevision
<1>4. ASSUME NEW pg \in Page, PublishProject(pg)
      PROVE  ServedCheckImplied'
  <2> DEFINE p == view[pg].project
  <2>1. /\ p \in Live /\ project'[p].served = project[p].current
        /\ project'[p].current = project[p].current
        /\ \A q \in ProjectId \ {p} : project'[q] = project[q]
    <3>1. p \in Live /\ p \in ProjectId /\ project[p] \in ProjectRow
      BY <1>4, PointedRows DEF PublishProject
    <3>2. QED
      BY <1>4, <3>1 DEF PublishProject, ServeCurrent, TypeOK, ProjectRow
  <2>2. Live' = Live
    BY <1>4, QuietShape DEF Quiet
  <2>3. ASSUME NEW qg \in Page, view'[qg] = view[qg]
        PROVE  Fits(view[qg])'
    BY <1>0, <2>1, <2>2, <2>3 DEF Fits, Live, CurrentMatches, ServedMatches
  <2>4. QED
    BY <1>0, <1>4, <2>3, Answered, AnswerFits DEF PublishProject
<1>5. ASSUME NEW p \in ProjectId, NEW n \in Name, RenameProject(p, n)
      PROVE  ServedCheckImplied'
  <2>1. /\ Live' = Live
        /\ \A q \in Live : /\ project'[q].current = project[q].current
                           /\ project'[q].served = project[q].served
    <3>1. p \in Live /\ project[p] \in ProjectRow
      BY <1>5, PointedRows DEF RenameProject
    <3>2. QED
      BY <1>5, <3>1, QuietShape DEF RenameProject, Quiet, TypeOK, ProjectRow, Live
  <2>2. QED
    BY <1>0, <1>5, <2>1 DEF RenameProject, Fits, CurrentMatches, ServedMatches
<1>6. ASSUME NEW p \in ProjectId, DeleteProject(p)
      PROVE  ServedCheckImplied'
  <2>1. \A q \in Live' : q \in Live /\ project'[q] = project[q]
    BY <1>6, DeleteShape
  <2>2. view' = view
    BY <1>6 DEF DeleteProject
  <2>3. \A qg \in Page : Fits(view[qg])'
    BY <1>0, <2>1, <2>2 DEF Fits, CurrentMatches, ServedMatches
  <2>4. QED
    BY <1>0, <2>3
<1>7. CASE UNCHANGED vars
  BY <1>0, <1>7 DEF vars, Fits, Live, CurrentMatches, ServedMatches
<1>8. QED
  BY <1>1, <1>2, <1>3, <1>4, <1>5, <1>6, <1>7 DEF Next, GetProject, SaveUnchanged

(* A page never meets publish_conflict: whoever passes the check of the       *)
(* current pointer passes the check of the served pointer as well.            *)
THEOREM ServedCheckAlwaysImplied == Spec => []ServedCheckImplied
<1>1. Init => IInv /\ ViewsMinted /\ ServedCheckImplied
  BY InitIInv DEF Init, ViewsMinted, ServedCheckImplied
<1>2. IInv /\ ViewsMinted /\ ServedCheckImplied /\ [Next]_vars
        => (IInv /\ ViewsMinted /\ ServedCheckImplied)'
  BY Inductive, NextViewsMinted, NextServedCheckImplied
<1>3. QED
  BY <1>1, <1>2, PTL DEF Spec

-----------------------------------------------------------------------------------
(* The refinement of PublishedLog.  The number of a revision is a position in  *)
(* the log only if no number is missing, and a page can only believe what a    *)
(* log once was if its pointers lead to revisions of the project it shows.     *)

\* Every number up to that of the current revision is borne by a revision.
NumbersDense ==
    \A p \in Live : \A n \in 1..revision[project[p].current].no :
        \E r \in RevisionsOf(p) : revision[r].no = n

\* The pointers a page knows of a project that is still there lead to revisions of it.
ViewsOwned ==
    \A pg \in Page :
        view[pg] # NoView /\ view[pg].project \in Live
          => {view[pg].current, view[pg].served} \subseteq RevisionsOf(view[pg].project)

RInv == IInv /\ ViewsMinted /\ NumbersDense /\ ViewsOwned

LEMMA NextNumbersDense ==
  ASSUME IInv, NumbersDense, [Next]_vars
  PROVE  NumbersDense'
<1>1. ASSUME NEW pg \in Page, NEW p \in ProjectId, NEW r \in RevisionId,
             NEW n \in Name, NEW b \in Bytes, CreateProject(pg, p, r, n, b)
      PROVE  NumbersDense'
  <2>1. ASSUME NEW q \in Live', NEW k \in 1..revision'[project'[q].current].no
        PROVE  \E s \in RevisionsOf(q)' : revision'[s].no = k
    <3>1. CASE q = p
      BY <1>1, <2>1, <3>1, CreateShape
    <3>2. CASE q # p
      <4>1. /\ q \in Live /\ RevisionsOf(q)' = RevisionsOf(q)
            /\ project'[q].current = project[q].current
            /\ \A s \in RevisionsOf(q) : revision'[s] = revision[s]
        BY <1>1, <2>1, <3>2, CreateShape DEF RevisionsOf
      <4>2. project[q].current \in RevisionsOf(q)
        BY <4>1, PointedRows DEF IInv
      <4> QED BY <2>1, <4>1, <4>2 DEF NumbersDense
    <3> QED BY <3>1, <3>2
  <2> QED BY <2>1 DEF NumbersDense
<1>2. ASSUME NEW pg \in Page, NEW b \in Bytes, NEW r \in RevisionId, SaveRevision(pg, b, r)
      PROVE  NumbersDense'
  <2>0. PICK p, cur : p = view[pg].project /\ cur = project[p].current
    OBVIOUS
  <2>1. ASSUME NEW q \in Live', NEW k \in 1..revision'[project'[q].current].no
        PROVE  \E s \in RevisionsOf(q)' : revision'[s].no = k
    <3>1. CASE q = p
      <4>1. /\ p \in Live /\ cur \in RevisionsOf(p) /\ cur = project[p].current
            /\ RevisionsOf(p)' = RevisionsOf(p) \cup {r} /\ project'[p].current = r
            /\ revision'[r].no = revision[cur].no + 1
            /\ \A s \in RevisionsOf(p) : revision'[s] = revision[s]
        BY <1>2, <2>0, SaveShape DEF RevisionsOf, NumbersDense
      <4>2. revision[cur].no \in Nat
        BY <4>1, StoredRows DEF IInv
      <4>3. CASE k = revision[cur].no + 1
        BY <3>1, <4>1, <4>3
      <4>4. CASE k # revision[cur].no + 1
        <5>1. k \in 1..revision[cur].no
          BY <2>1, <3>1, <4>1, <4>2, <4>4
        <5>2. PICK s \in RevisionsOf(p) : revision[s].no = k
          BY <4>1, <5>1 DEF NumbersDense
        <5> QED BY <3>1, <4>1, <5>2
      <4> QED BY <4>3, <4>4
    <3>2. CASE q # p
      <4>1. /\ q \in Live /\ RevisionsOf(q)' = RevisionsOf(q)
            /\ project'[q].current = project[q].current
            /\ \A s \in RevisionsOf(q) : revision'[s] = revision[s]
        BY <1>2, <2>0, <2>1, <3>2, SaveShape DEF RevisionsOf
      <4>2. project[q].current \in RevisionsOf(q)
        BY <4>1, PointedRows DEF IInv
      <4> QED BY <2>1, <4>1, <4>2 DEF NumbersDense
    <3> QED BY <3>1, <3>2
  <2> QED BY <2>1 DEF NumbersDense
<1>3. ASSUME NEW p \in ProjectId, DeleteProject(p)
      PROVE  NumbersDense'
  <2>1. ASSUME NEW q \in Live', NEW k \in 1..revision'[project'[q].current].no
        PROVE  \E s \in RevisionsOf(q)' : revision'[s].no = k
    <3>1. /\ q \in Live /\ RevisionsOf(q)' = RevisionsOf(q)
          /\ project'[q].current = project[q].current
          /\ \A s \in RevisionsOf(q) : revision'[s] = revision[s]
      BY <1>3, <2>1, DeleteShape
    <3>2. project[q].current \in RevisionsOf(q)
      BY <3>1, PointedRows DEF IInv
    <3> QED BY <2>1, <3>1, <3>2 DEF NumbersDense
  <2> QED BY <2>1 DEF NumbersDense
<1>4. CASE Quiet
  BY <1>4 DEF Quiet, NumbersDense, RevisionsOf
<1>5. QED
  BY <1>1, <1>2, <1>3, <1>4, StepShapes

\* Both alternatives of an answer leave a page with pointers of the project it shows.
LEMMA NextViewsOwned ==
  ASSUME IInv, ViewsMinted, ViewsOwned, [Next]_vars
  PROVE  ViewsOwned'
<1> DEFINE Owned(v) == v # NoView /\ v.project \in Live
                         => {v.current, v.served} \subseteq RevisionsOf(v.project)
<1> USE DEF IInv
<1>0. /\ \A pg \in Page : Owned(view[pg])
      /\ (\A pg \in Page : Owned(view[pg])') => ViewsOwned'
      /\ PointersOwned'
  BY NextPointersOwned DEF ViewsOwned
<1>1. ASSUME NEW p, NEW qg \in Page, view'[qg] = Dto(p)
      PROVE  Owned(view[qg])'
  BY <1>0, <1>1 DEF Dto, PointersOwned
<1>2. ASSUME NEW pg \in Page, NEW p \in ProjectId, NEW r \in RevisionId,
             NEW n \in Name, NEW b \in Bytes, CreateProject(pg, p, r, n, b)
      PROVE  ViewsOwned'
  <2>1. ASSUME NEW qg \in Page, view'[qg] = view[qg]
        PROVE  Owned(view[qg])'
    <3>1. view[qg] # NoView => view[qg].project # p
      BY <1>2 DEF ViewsMinted, CreateProject
    <3>2. QED
      BY <1>0, <1>2, <2>1, <3>1, CreateShape
  <2>2. \A qg \in Page : view'[qg] \in {view[qg], Dto(p)}
    BY <1>2, Answered DEF CreateProject
  <2>3. QED
    BY <1>0, <1>1, <2>1, <2>2
<1>3. ASSUME NEW pg \in Page, NEW b \in Bytes, NEW r \in RevisionId, SaveRevision(pg, b, r)
      PROVE  ViewsOwned'
  <2>0. PICK p, cur : p = view[pg].project /\ cur = project[p].current
    OBVIOUS
  <2>1. ASSUME NEW qg \in Page, view'[qg] = view[qg]
        PROVE  Owned(view[qg])'
    <3>1. /\ Live' = Live /\ RevisionsOf(p)' = RevisionsOf(p) \cup {r}
          /\ \A q \in Live \ {p} : RevisionsOf(q)' = RevisionsOf(q)
      BY <1>3, <2>0, SaveShape
    <3>2. \A q \in Live : RevisionsOf(q) \subseteq RevisionsOf(q)'
      BY <3>1
    <3>3. QED
      BY <1>0, <2>1, <3>1, <3>2
  <2>2. \A qg \in Page : view'[qg] \in {view[qg], Dto(p)}
    BY <1>3, <2>0, Answered DEF SaveRevision
  <2>3. QED
    BY <1>0, <1>1, <2>1, <2>2
<1>4. ASSUME NEW p \in ProjectId, DeleteProject(p)
      PROVE  ViewsOwned'
  <2>1. /\ view' = view
        /\ \A q \in Live' : q \in Live /\ RevisionsOf(q)' = RevisionsOf(q)
    BY <1>4, DeleteShape DEF DeleteProject
  <2>2. QED
    BY <1>0, <2>1
<1>5. ASSUME NEW pg \in Page, NEW p, Answer(pg, p), Quiet
      PROVE  ViewsOwned'
  <2>1. ASSUME NEW qg \in Page, view'[qg] = view[qg]
        PROVE  Owned(view[qg])'
    BY <1>0, <1>5, <2>1 DEF Quiet, RevisionsOf
  <2>2. \A qg \in Page : view'[qg] \in {view[qg], Dto(p)}
    BY <1>5, Answered
  <2>3. QED
    BY <1>0, <1>1, <2>1, <2>2
<1>6. CASE Quiet /\ view' = view
  BY <1>0, <1>6 DEF Quiet, RevisionsOf
<1>7. ASSUME NEW pg \in Page, NEW p \in ProjectId, GetProject(pg, p)
      PROVE  ViewsOwned'
  BY <1>5, <1>7, QuietShape DEF GetProject
<1>8. ASSUME NEW pg \in Page, NEW b \in Bytes, SaveUnchanged(pg, b)
      PROVE  ViewsOwned'
  BY <1>5, <1>8, QuietShape DEF SaveUnchanged
<1>9. ASSUME NEW pg \in Page, PublishProject(pg)
      PROVE  ViewsOwned'
  BY <1>5, <1>9, QuietShape DEF PublishProject
<1>10. CASE (\E p \in ProjectId, n \in Name : RenameProject(p, n)) \/ UNCHANGED vars
  BY <1>6, <1>10, QuietShape DEF RenameProject, vars
<1>11. QED
  BY <1>2, <1>3, <1>4, <1>7, <1>8, <1>9, <1>10 DEF Next

LEMMA RefinementInvariant == Spec => []RInv
<1>1. Init => RInv
  BY InitIInv DEF Init, RInv, ViewsMinted, NumbersDense, ViewsOwned, Live
<1>2. RInv /\ [Next]_vars => RInv'
  BY Inductive, NextViewsMinted, NextNumbersDense, NextViewsOwned DEF RInv
<1>3. QED
  BY <1>1, <1>2, PTL DEF Spec

-----------------------------------------------------------------------------------
(* The log of a project.                                                       *)

\* The drafts of these rows in the order of their numbers, up to the row at the top.
Drafts(rows, table, top) ==
    [n \in 1..table[top].no |-> table[CHOOSE r \in rows : table[r].no = n].bytes]

\* When numbers tell the rows apart, the draft at the number of a row is that row's.
LEMMA DraftsAt ==
  ASSUME NEW rows, NEW table, NEW top \in rows,
         \A r \in rows : table[r].no \in Nat \ {0} /\ table[r].no <= table[top].no,
         \A r, s \in rows : table[r].no = table[s].no => r = s
  PROVE  /\ DOMAIN Drafts(rows, table, top) = 1..table[top].no
         /\ \A r \in rows : Drafts(rows, table, top)[table[r].no] = table[r].bytes
<1>1. ASSUME NEW r \in rows
      PROVE  (CHOOSE s \in rows : table[s].no = table[r].no) = r
  BY <1>1
<1>2. ASSUME NEW r \in rows
      PROVE  Drafts(rows, table, top)[table[r].no] = table[r].bytes
  <2>1. table[r].no \in 1..table[top].no
    BY <1>2
  <2>2. Drafts(rows, table, top)[table[r].no]
          = table[CHOOSE s \in rows : table[s].no = table[r].no].bytes
    BY <2>1 DEF Drafts
  <2>3. QED
    BY <1>1, <2>2
<1>3. QED
  BY <1>2 DEF Drafts

\* What the log of a project is, once no number is missing and each is borne once.
LogFine(p) ==
    LET top == revision[project[p].current].no IN
    /\ top \in Nat \ {0}
    /\ LogOf(p) \in Seq(Bytes) /\ Len(LogOf(p)) = top /\ DOMAIN LogOf(p) = 1..top
    /\ \A r \in RevisionsOf(p) : /\ revision[r].no \in 1..top
                                 /\ LogOf(p)[revision[r].no] = revision[r].bytes
    /\ \A n \in 1..top : \E r \in RevisionsOf(p) : revision[r].no = n

LEMMA LogShape ==
  ASSUME RInv, NEW p \in Live
  PROVE  LogFine(p)
<1> DEFINE cur == project[p].current
           top == revision[cur].no
<1>1. cur \in RevisionsOf(p)
  BY PointedRows DEF RInv, IInv
<1>2. \A r \in RevisionsOf(p) : /\ revision[r].no \in Nat \ {0} /\ revision[r].no <= top
                                /\ revision[r].bytes \in Bytes
  BY StoredRows DEF RInv, IInv, LinearHistory, RevisionRow
<1>3. \A r, s \in RevisionsOf(p) : revision[r].no = revision[s].no => r = s
  BY DEF RInv, IInv, LinearHistory
<1>4. LogOf(p) = Drafts(RevisionsOf(p), revision, cur)
  BY DEF LogOf, Drafts, RevisionAt
<1>5. /\ DOMAIN LogOf(p) = 1..top
      /\ \A r \in RevisionsOf(p) : LogOf(p)[revision[r].no] = revision[r].bytes
  BY <1>1, <1>2, <1>3, <1>4, DraftsAt
<1>6. \A n \in 1..top : \E r \in RevisionsOf(p) : revision[r].no = n
  BY DEF RInv, NumbersDense
<1>7. LogOf(p) \in [1..top -> Bytes]
  <2>1. LogOf(p) = [n \in 1..top |-> LogOf(p)[n]]
    BY <1>4, <1>5 DEF Drafts
  <2>2. \A n \in 1..top : LogOf(p)[n] \in Bytes
    BY <1>2, <1>5, <1>6
  <2>3. QED
    BY <2>1, <2>2
<1>8. QED
  BY <1>1, <1>2, <1>5, <1>6, <1>7 DEF LogFine

LEMMA LogsFine == RInv => \A p \in Live : LogFine(p)
  BY LogShape

LEMMA NextLogsFine == RInv' => (\A p \in Live : LogFine(p))'
  BY LogsFine, PTL

\* The same rows under the same pointer are the same log.
LEMMA SameLog ==
  ASSUME NEW p, p \in Live, p \in Live', LogFine(p), LogFine(p)',
         project[p].current \in RevisionsOf(p), project'[p].current = project[p].current,
         RevisionsOf(p)' = RevisionsOf(p),
         \A r \in RevisionsOf(p) : revision'[r] = revision[r]
  PROVE  LogOf(p)' = LogOf(p)
<1>1. PICK top : top = revision[project[p].current].no
  OBVIOUS
<1>2. revision'[project'[p].current].no = top
  BY <1>1
<1>3. /\ LogOf(p) \in Seq(Bytes) /\ Len(LogOf(p)) = top /\ DOMAIN LogOf(p) = 1..top
      /\ LogOf(p)' \in Seq(Bytes) /\ Len(LogOf(p)') = top /\ DOMAIN LogOf(p)' = 1..top
  BY <1>1, <1>2 DEF LogFine
<1>4. ASSUME NEW n \in 1..top
      PROVE  LogOf(p)'[n] = LogOf(p)[n]
  <2>1. PICK r \in RevisionsOf(p) : revision[r].no = n
    BY <1>1, <1>4 DEF LogFine
  <2>2. LogOf(p)[revision[r].no] = revision[r].bytes
    BY <2>1 DEF LogFine
  <2>3. LogOf(p)'[revision'[r].no] = revision'[r].bytes
    BY <2>1 DEF LogFine
  <2>4. QED
    BY <2>1, <2>2, <2>3
<1>5. QED
  BY <1>3, <1>4

-----------------------------------------------------------------------------------
(* What the pages believe.                                                     *)

\* Who gets no answer believes what it believed, if the rows it knows are still there.
LEMMA ReaderKept ==
  ASSUME RInv, NEW pg \in Page, view'[pg] = view[pg],
         view[pg] # NoView => (view[pg].project \in Live' <=> view[pg].project \in Live),
         \A p \in Live : p \in Live' => \A r \in RevisionsOf(p) : revision'[r] = revision[r]
  PROVE  ReaderOf(pg)' = ReaderOf(pg)
<1>1. CASE view[pg] # NoView /\ view[pg].project \in Live
  <2>1. /\ view[pg].current \in RevisionsOf(view[pg].project)
        /\ view[pg].served \in RevisionsOf(view[pg].project)
    BY <1>1 DEF RInv, ViewsOwned
  <2>2. /\ revision'[view[pg].current] = revision[view[pg].current]
        /\ revision'[view[pg].served] = revision[view[pg].served]
    BY <1>1, <2>1
  <2>3. QED
    BY <1>1, <2>2 DEF ReaderOf
<1>2. CASE ~(view[pg] # NoView /\ view[pg].project \in Live)
  BY <1>2 DEF ReaderOf
<1>3. QED
  BY <1>1, <1>2

\* Who gets an answer believes what is true after the step.
LEMMA ReaderAnswered ==
  ASSUME NEW pg \in Page, NEW p, p \in Live', LogFine(p)', TypeOK', PointersOwned', view'[pg] = Dto(p)
  PROVE  ReaderOf(pg)' = [project |-> p, length |-> Len(LogOf(p)'), served |-> ServedAtOf(p)']
<1>1. Dto(p) \in Snapshot
  BY SentinelAssumption DEF TypeOK, Live, Dto, Snapshot, ProjectRow
<1>2. Dto(p) # NoView
  BY <1>1, SentinelAssumption
<1>3. Len(LogOf(p)') = revision'[project'[p].current].no
  BY DEF LogFine
<1>4. ServedAtOf(p)' = revision'[project'[p].served].no
  BY DEF ServedAtOf
<1>5. ReaderOf(pg)' = [project |-> p, length |-> revision'[project'[p].current].no,
                       served |-> revision'[project'[p].served].no]
  BY <1>2 DEF ReaderOf, Dto
<1>6. QED
  BY <1>3, <1>4, <1>5

\* An answer, or its loss, is one of the log.
LEMMA AnswerMaps ==
  ASSUME RInv, RInv', NEW pg \in Page, NEW p \in ProjectId, p \in Live', Answer(pg, p),
         \A qg \in Page : view'[qg] = view[qg] => ReaderOf(qg)' = ReaderOf(qg)
  PROVE  Log!Answer(pg, p)
<1> DEFINE reader == [qg \in Page |-> ReaderOf(qg)]
           seen == [project |-> p, length |-> Len(LogOf(p)'), served |-> ServedAtOf(p)']
<1>1. TypeOK /\ TypeOK' /\ PointersOwned' /\ LogFine(p)'
  BY NextLogsFine DEF RInv, IInv
<1>2. seen = Log!Seen(p)
  BY DEF Log!Seen
<1>3. reader' = [qg \in Page |-> ReaderOf(qg)']
  OBVIOUS
<1>4. CASE view' = view
  <2>1. reader' = reader
    BY <1>4, <1>3
  <2>2. QED
    BY <2>1 DEF Log!Answer
<1>5. CASE view' = [view EXCEPT ![pg] = Dto(p)]
  <2>1. view'[pg] = Dto(p) /\ \A qg \in Page \ {pg} : view'[qg] = view[qg]
    BY <1>1, <1>5 DEF TypeOK
  <2>2. ReaderOf(pg)' = seen
    BY <1>1, <2>1, ReaderAnswered
  <2>3. \A qg \in Page \ {pg} : ReaderOf(qg)' = ReaderOf(qg)
    BY <2>1
  <2> HIDE DEF seen
  <2>4. reader' = [reader EXCEPT ![pg] = seen]
    BY <1>3, <2>2, <2>3
  <2>5. QED
    BY <1>2, <2>4 DEF Log!Answer
<1>6. QED
  BY <1>4, <1>5 DEF Answer

-----------------------------------------------------------------------------------
(* Every step of the tables is a step of the log, or leaves it as it is.       *)

\* The log, the served position and the ended projects of the refinement mapping.
logNow == [p \in ProjectId |-> LogOf(p)]
servedNow == [p \in ProjectId |-> ServedAtOf(p)]
endedNow == (minted \cap ProjectId) \ Live
readerNow == [pg \in Page |-> ReaderOf(pg)]

LEMMA ExistsMaps ==
  ASSUME RInv, NEW p \in Live
  PROVE  p \in ProjectId /\ Log!Exists(p)
<1>1. LogFine(p) /\ p \in ProjectId
  BY LogShape DEF Live
<1>2. LogOf(p) # <<>>
  BY <1>1 DEF LogFine
<1>3. QED
  BY <1>1, <1>2 DEF Log!Exists

\* A step that leaves rows and current pointers alone leaves logs and readers alone.
LEMMA QuietMaps ==
  ASSUME RInv, RInv', Quiet, UNCHANGED minted
  PROVE  /\ logNow' = logNow /\ endedNow' = endedNow
         /\ \A pg \in Page : view'[pg] = view[pg] => ReaderOf(pg)' = ReaderOf(pg)
<1>1. \A p \in Live : RevisionsOf(p)' = RevisionsOf(p) /\ revision' = revision /\ Live' = Live
  BY DEF Quiet, RevisionsOf
<1>2. ASSUME NEW p \in ProjectId
      PROVE  LogOf(p)' = LogOf(p)
  <2>1. CASE p \in Live
    <3>1. LogFine(p) /\ LogFine(p)' /\ p \in Live'
      BY <2>1, LogShape, NextLogsFine DEF Quiet
    <3>2. project[p].current \in RevisionsOf(p) /\ project'[p].current = project[p].current
      BY <2>1, PointedRows DEF RInv, IInv, Quiet
    <3>3. QED
      BY <2>1, <3>1, <3>2, <1>1, SameLog
  <2>2. CASE p \notin Live
    BY <2>2 DEF LogOf, Quiet
  <2>3. QED
    BY <2>1, <2>2
<1>3. logNow' = logNow
  BY <1>2 DEF logNow
<1>4. endedNow' = endedNow
  BY DEF endedNow, Quiet
<1>5. ASSUME NEW pg \in Page, view'[pg] = view[pg]
      PROVE  ReaderOf(pg)' = ReaderOf(pg)
  BY <1>5, ReaderKept DEF Quiet
<1>6. QED
  BY <1>3, <1>4, <1>5

\* An answer about a project of which nothing changes is a read.
LEMMA ReadMaps ==
  ASSUME RInv, RInv', NEW pg \in Page, NEW p \in Live, Answer(pg, p),
         UNCHANGED <<project, revision, minted>>
  PROVE  Log!Read(pg, p)
<1>1. Quiet
  BY DEF Quiet, Live
<1>2. logNow' = logNow /\ endedNow' = endedNow
  BY <1>1, QuietMaps
<1>3. servedNow' = servedNow
  BY DEF servedNow, ServedAtOf, Live
<1>4. p \in ProjectId /\ Log!Exists(p)
  BY ExistsMaps
<1>5. Log!Answer(pg, p)
  BY <1>1, <1>4, QuietMaps, AnswerMaps DEF Quiet
<1>6. QED
  BY <1>2, <1>3, <1>4, <1>5 DEF Log!Read, logNow, servedNow, endedNow

LEMMA CreateMaps ==
  ASSUME RInv, RInv', NEW pg \in Page, NEW p \in ProjectId, NEW r \in RevisionId,
         NEW n \in Name, NEW b \in Bytes, CreateProject(pg, p, r, n, b)
  PROVE  Log!Create(pg, p, b)
<1>1. /\ p \notin Live /\ Live' = Live \cup {p} /\ p \in Live'
      /\ RevisionsOf(p)' = {r} /\ project'[p].current = r /\ project'[p].served = r
      /\ revision'[r].no = 1
      /\ \A q \in Live : RevisionsOf(q)' = RevisionsOf(q) /\ project'[q] = project[q]
      /\ \A s \in RevisionId \ {r} : revision'[s] = revision[s]
      /\ revision[r] = NoRow
  BY CreateShape DEF RInv
<1>2. revision'[r].bytes = b /\ p \notin minted /\ minted' = minted \cup {p, r} /\ Answer(pg, p)
  BY DEF CreateProject, InsertRevision, RInv, IInv, TypeOK
<1>3. LogOf(p)' = <<b>>
  <2>1. LogFine(p)'
    BY <1>1, NextLogsFine
  <2>2. LogOf(p)' \in Seq(Bytes) /\ Len(LogOf(p)') = 1 /\ LogOf(p)'[1] = b
    BY <2>1, <1>1, <1>2 DEF LogFine
  <2>3. QED
    BY <2>2
<1>4. \A q \in Live : \A s \in RevisionsOf(q) : revision'[s] = revision[s]
  BY <1>1 DEF RevisionsOf
<1>5. ASSUME NEW q \in ProjectId \ {p}
      PROVE  LogOf(q)' = LogOf(q) /\ ServedAtOf(q)' = ServedAtOf(q)
  <2>1. CASE q \in Live
    <3>1. LogFine(q) /\ LogFine(q)' /\ q \in Live'
      BY <2>1, <1>1, LogShape, NextLogsFine
    <3>2. project[q].current \in RevisionsOf(q) /\ project[q].served \in RevisionsOf(q)
      BY <2>1, PointedRows DEF RInv, IInv
    <3>3. project'[q] = project[q] /\ RevisionsOf(q)' = RevisionsOf(q)
      BY <2>1, <1>1
    <3>4. LogOf(q)' = LogOf(q)
      BY <2>1, <3>1, <3>2, <3>3, <1>4, SameLog
    <3>5. ServedAtOf(q)' = ServedAtOf(q)
      BY <2>1, <3>1, <3>2, <3>3, <1>4 DEF ServedAtOf
    <3>6. QED
      BY <3>4, <3>5
  <2>2. CASE q \notin Live
    BY <2>2, <1>1, <1>5 DEF LogOf, ServedAtOf
  <2>3. QED
    BY <2>1, <2>2
<1>6. LogOf(p) = <<>> /\ ServedAtOf(p)' = 1
  BY <1>1 DEF LogOf, ServedAtOf
<1>7. logNow' = [logNow EXCEPT ![p] = <<b>>]
  BY <1>3, <1>5 DEF logNow
<1>8. servedNow' = [servedNow EXCEPT ![p] = 1]
  BY <1>5, <1>6 DEF servedNow
<1>9. endedNow' = endedNow
  <2>1. r \notin ProjectId
    BY IdAssumption
  <2>2. QED
    BY <1>1, <1>2, <2>1 DEF endedNow
<1>10. \A qg \in Page : view'[qg] = view[qg] => ReaderOf(qg)' = ReaderOf(qg)
  BY <1>1, <1>2, <1>4, ReaderKept DEF RInv, ViewsMinted
<1>11. Log!Answer(pg, p)
  BY <1>1, <1>2, <1>10, AnswerMaps
<1>12. logNow[p] = <<>> /\ p \notin endedNow
  BY <1>2, <1>6 DEF logNow, endedNow
<1>13. QED
  BY <1>7, <1>8, <1>9, <1>11, <1>12
     DEF Log!Create, Log!Exists, logNow, servedNow, endedNow

\* What a page whose pointer passes the check believes of the log.
LEMMA BelievesCurrent ==
  ASSUME RInv, NEW pg \in Page, NEW p, p = view[pg].project, view[pg] # NoView, p \in Live,
         CurrentMatches(p, view[pg].current)
  PROVE  /\ p \in ProjectId
         /\ ReaderOf(pg) = [project |-> p, length |-> Len(LogOf(p)),
                            served |-> revision[view[pg].served].no]
         /\ ReaderOf(pg) # NoView
         /\ readerNow[pg] = ReaderOf(pg) /\ logNow[p] = LogOf(p)
         /\ Log!UpToDate(pg)
         /\ view[pg].served \in RevisionsOf(p)
<1>1. p \in ProjectId /\ LogFine(p) /\ view[pg].served \in RevisionsOf(p)
  BY LogShape DEF Live, RInv, ViewsOwned
<1>2. Len(LogOf(p)) = revision[view[pg].current].no
  BY <1>1 DEF LogFine, CurrentMatches
<1>3. ReaderOf(pg) = [project |-> p, length |-> Len(LogOf(p)),
                      served |-> revision[view[pg].served].no]
  BY <1>2 DEF ReaderOf
<1>4. Len(LogOf(p)) \in Nat /\ revision[view[pg].served].no \in Nat
  BY <1>1 DEF LogFine
<1>5. ReaderOf(pg) # NoView
  BY <1>1, <1>3, <1>4, SentinelAssumption
<1>6. readerNow[pg] = ReaderOf(pg) /\ logNow[p] = LogOf(p)
  BY <1>1 DEF readerNow, logNow
<1>7. readerNow[pg].project = p /\ readerNow[pg].length = Len(logNow[p])
  BY <1>3, <1>6
<1>8. Log!UpToDate(pg)
  BY <1>5, <1>6, <1>7 DEF Log!UpToDate, readerNow, logNow
<1>9. QED
  BY <1>1, <1>3, <1>5, <1>6, <1>8

\* A save that makes a revision appends to the log its page saw.
LEMMA SaveMaps ==
  ASSUME RInv, RInv', NEW pg \in Page, NEW b \in Bytes, NEW r \in RevisionId,
         SaveRevision(pg, b, r)
  PROVE  Log!Save(pg, b)
<1>0. PICK p, cur : p = view[pg].project /\ cur = project[p].current
  OBVIOUS
<1>1. /\ p \in Live /\ Live' = Live /\ cur \in RevisionsOf(p) /\ r # cur /\ revision[r] = NoRow
      /\ RevisionsOf(p)' = RevisionsOf(p) \cup {r}
      /\ project'[p].current = r /\ project'[p].served = project[p].served
      /\ revision'[r].no = revision[cur].no + 1
      /\ \A q \in Live \ {p} : RevisionsOf(q)' = RevisionsOf(q) /\ project'[q] = project[q]
      /\ \A s \in RevisionId \ {r} : revision'[s] = revision[s]
  BY <1>0, SaveShape DEF RInv
<1>2. /\ revision'[r].bytes = b /\ revision[cur].bytes # b /\ minted' = minted \cup {r}
      /\ Answer(pg, p) /\ view[pg] # NoView /\ CurrentMatches(p, view[pg].current)
  BY <1>0 DEF SaveRevision, InsertRevision, RInv, IInv, TypeOK
<1>3. \A q \in Live : \A s \in RevisionsOf(q) : revision'[s] = revision[s]
  BY <1>1 DEF RevisionsOf
<1>4. /\ p \in ProjectId /\ LogFine(p) /\ LogFine(p)'
  BY <1>1, LogShape, NextLogsFine DEF Live
<1>5. PICK top : top = revision[cur].no
  OBVIOUS
<1>6. /\ top \in Nat \ {0} /\ LogOf(p) \in Seq(Bytes) /\ Len(LogOf(p)) = top
      /\ LogOf(p)' \in Seq(Bytes) /\ Len(LogOf(p)') = top + 1
      /\ LogOf(p)'[top + 1] = b /\ LogOf(p)[top] = revision[cur].bytes
  <2>1. /\ top \in Nat \ {0} /\ LogOf(p) \in Seq(Bytes) /\ Len(LogOf(p)) = top
        /\ LogOf(p)[top] = revision[cur].bytes
    BY <1>0, <1>1, <1>4, <1>5 DEF LogFine
  <2>2. revision'[project'[p].current].no = top + 1 /\ r \in RevisionsOf(p)'
    BY <1>1, <1>5
  <2>3. LogOf(p)' \in Seq(Bytes) /\ Len(LogOf(p)') = top + 1
    BY <1>4, <2>2 DEF LogFine
  <2>4. LogOf(p)'[revision'[r].no] = revision'[r].bytes
    BY <1>4, <2>2 DEF LogFine
  <2>5. LogOf(p)'[top + 1] = b
    BY <1>1, <1>2, <1>5, <2>4
  <2>6. QED
    BY <2>1, <2>3, <2>5
<1>7. ASSUME NEW n \in 1..top
      PROVE  LogOf(p)'[n] = LogOf(p)[n]
  <2>1. PICK s \in RevisionsOf(p) : revision[s].no = n
    BY <1>0, <1>4, <1>5, <1>7 DEF LogFine
  <2>2. LogOf(p)[revision[s].no] = revision[s].bytes
    BY <1>4, <2>1 DEF LogFine
  <2>3. LogOf(p)'[revision'[s].no] = revision'[s].bytes
    BY <1>1, <1>4, <2>1 DEF LogFine
  <2>4. QED
    BY <1>1, <1>3, <2>1, <2>2, <2>3
<1>8. LogOf(p)' = Append(LogOf(p), b)
  BY <1>6, <1>7
<1>9. ServedAtOf(p)' = ServedAtOf(p)
  <2>1. project[p].served \in RevisionsOf(p)
    BY <1>1, PointedRows DEF RInv, IInv
  <2>2. QED
    BY <1>1, <1>3, <2>1 DEF ServedAtOf
<1>10. ASSUME NEW q \in ProjectId \ {p}
       PROVE  LogOf(q)' = LogOf(q) /\ ServedAtOf(q)' = ServedAtOf(q)
  <2>1. CASE q \in Live
    <3>1. LogFine(q) /\ LogFine(q)' /\ q \in Live'
      BY <2>1, <1>1, LogShape, NextLogsFine
    <3>2. project[q].current \in RevisionsOf(q) /\ project[q].served \in RevisionsOf(q)
      BY <2>1, PointedRows DEF RInv, IInv
    <3>3. project'[q] = project[q] /\ RevisionsOf(q)' = RevisionsOf(q)
      BY <2>1, <1>1, <1>10
    <3>4. LogOf(q)' = LogOf(q)
      BY <2>1, <3>1, <3>2, <3>3, <1>3, SameLog
    <3>5. ServedAtOf(q)' = ServedAtOf(q)
      BY <2>1, <3>1, <3>2, <3>3, <1>3 DEF ServedAtOf
    <3>6. QED
      BY <3>4, <3>5
  <2>2. CASE q \notin Live
    BY <2>2, <1>1 DEF LogOf, ServedAtOf
  <2>3. QED
    BY <2>1, <2>2
<1>11. logNow' = [logNow EXCEPT ![p] = Append(logNow[p], b)]
  BY <1>4, <1>8, <1>10 DEF logNow
<1>12. servedNow' = servedNow
  BY <1>9, <1>10 DEF servedNow
<1>13. endedNow' = endedNow
  BY <1>1, <1>2, IdAssumption DEF endedNow
<1>14. Log!Answer(pg, p)
  <2>1. \A qg \in Page : view'[qg] = view[qg] => ReaderOf(qg)' = ReaderOf(qg)
    BY <1>1, <1>3, ReaderKept
  <2>2. QED
    BY <1>1, <1>2, <1>4, <2>1, AnswerMaps
<1>15. /\ Log!UpToDate(pg) /\ readerNow[pg].project = p
       /\ logNow[p] = LogOf(p)
  BY <1>0, <1>1, <1>2, BelievesCurrent
<1>16. b # logNow[p][Len(logNow[p])]
  BY <1>2, <1>6, <1>15
<1>17. QED
  BY <1>11, <1>12, <1>13, <1>14, <1>15, <1>16
     DEF Log!Save, logNow, servedNow, endedNow, readerNow

\* A publish that moves the served pointer moves it from where its page believed it
\* to the end of the log its page saw; one that finds nothing to move is a read.
LEMMA PublishMaps ==
  ASSUME RInv, RInv', NEW pg \in Page, PublishProject(pg)
  PROVE  \E p \in ProjectId : Log!Publish(pg) \/ Log!Read(pg, p)
<1>0. PICK p : p = view[pg].project
  OBVIOUS
<1>1. /\ view[pg] # NoView /\ p \in Live /\ p \in ProjectId
      /\ CurrentMatches(p, view[pg].current) /\ ServedMatches(p, view[pg].served)
      /\ project' = ServeCurrent(p) /\ UNCHANGED <<revision, minted>> /\ Answer(pg, p)
  BY <1>0 DEF PublishProject, Live
<1>2. /\ project[p] \in ProjectRow
      /\ project[p].current \in RevisionsOf(p) /\ project[p].served \in RevisionsOf(p)
      /\ TypeOK
  BY <1>1, PointedRows DEF RInv, IInv
<1>3. /\ project'[p].served = project[p].current
      /\ \A q \in ProjectId \ {p} : project'[q] = project[q]
      /\ project'[p] = [project[p] EXCEPT !.served = project[p].current]
  BY <1>1, <1>2 DEF ServeCurrent, TypeOK, ProjectRow
<1>4. Quiet
  BY QuietShape DEF RInv
<1>5. logNow' = logNow /\ endedNow' = endedNow
      /\ \A qg \in Page : view'[qg] = view[qg] => ReaderOf(qg)' = ReaderOf(qg)
  BY <1>1, <1>4, QuietMaps
<1>6. Log!Answer(pg, p)
  BY <1>1, <1>4, <1>5, AnswerMaps DEF Quiet
<1>7. LogFine(p) /\ revision[project[p].current].no = Len(LogOf(p))
  BY <1>1, LogShape DEF LogFine
<1>8. \A q \in ProjectId \ {p} : ServedAtOf(q)' = ServedAtOf(q)
  BY <1>1, <1>3, <1>4 DEF ServedAtOf, Quiet
<1>9. ServedAtOf(p)' = Len(LogOf(p)) /\ ServedAtOf(p) = revision[project[p].served].no
  BY <1>1, <1>3, <1>4, <1>7 DEF ServedAtOf, Quiet
<1>10. CASE project[p].current = project[p].served
  <2>1. servedNow' = servedNow
    BY <1>7, <1>8, <1>9, <1>10 DEF servedNow
  <2>2. Log!Exists(p)
    BY <1>1, ExistsMaps
  <2>3. QED
    BY <1>1, <1>5, <1>6, <2>1, <2>2 DEF Log!Read, logNow, servedNow, endedNow
<1>11. CASE project[p].current # project[p].served
  <2>1. view[pg].served = project[p].served
    BY <1>1, <1>11 DEF ServedMatches
  <2>2. /\ ReaderOf(pg) = [project |-> p, length |-> Len(LogOf(p)),
                           served |-> revision[view[pg].served].no]
        /\ readerNow[pg] = ReaderOf(pg) /\ logNow[p] = LogOf(p) /\ Log!UpToDate(pg)
    BY <1>0, <1>1, BelievesCurrent
  <2>3. readerNow[pg].project = p /\ readerNow[pg].served = servedNow[p]
    BY <1>1, <1>9, <2>1, <2>2 DEF servedNow
  <2>4. servedNow' = [servedNow EXCEPT ![p] = Len(logNow[p])]
    BY <1>1, <1>8, <1>9, <2>2 DEF servedNow
  <2>5. Log!Publish(pg)
    BY <1>5, <1>6, <2>2, <2>3, <2>4 DEF Log!Publish, logNow, servedNow, endedNow, readerNow
  <2>6. QED
    BY <1>1, <2>5
<1>12. QED
  BY <1>10, <1>11

\* A rename is nothing that a log has.
LEMMA RenameMaps ==
  ASSUME RInv, RInv', NEW p \in ProjectId, NEW n \in Name, RenameProject(p, n)
  PROVE  UNCHANGED Log!vars
<1>1. Quiet /\ UNCHANGED <<minted, view>>
  BY QuietShape DEF RInv, RenameProject
<1>2. /\ logNow' = logNow /\ endedNow' = endedNow
      /\ \A pg \in Page : ReaderOf(pg)' = ReaderOf(pg)
  BY <1>1, QuietMaps
<1>3. readerNow' = readerNow
  BY <1>2 DEF readerNow
<1>4. \A q \in Live : project'[q].served = project[q].served
  <2>1. /\ project[p] \in ProjectRow /\ TypeOK
        /\ project' = [project EXCEPT ![p].name = n]
    BY PointedRows DEF RInv, IInv, RenameProject
  <2>2. QED
    BY <2>1 DEF TypeOK, ProjectRow, Live
<1>5. servedNow' = servedNow
  BY <1>1, <1>4 DEF servedNow, ServedAtOf, Quiet
<1>6. QED
  BY <1>2, <1>3, <1>5 DEF Log!vars, logNow, servedNow, endedNow, readerNow

LEMMA DeleteMaps ==
  ASSUME RInv, RInv', NEW p \in ProjectId, DeleteProject(p)
  PROVE  Log!Delete(p)
<1>1. /\ p \in Live /\ Live' = Live \ {p} /\ UNCHANGED <<minted, view>>
      /\ \A q \in Live' : /\ RevisionsOf(q)' = RevisionsOf(q) /\ project'[q] = project[q]
                          /\ \A s \in RevisionsOf(q) : revision'[s] = revision[s]
  BY DeleteShape DEF RInv, DeleteProject
<1>2. ASSUME NEW q \in ProjectId \ {p}
      PROVE  LogOf(q)' = LogOf(q) /\ ServedAtOf(q)' = ServedAtOf(q)
  <2>1. CASE q \in Live
    <3>1. LogFine(q) /\ LogFine(q)' /\ q \in Live'
      BY <2>1, <1>1, <1>2, LogShape, NextLogsFine
    <3>2. project[q].current \in RevisionsOf(q) /\ project[q].served \in RevisionsOf(q)
      BY <2>1, PointedRows DEF RInv, IInv
    <3>3. /\ project'[q] = project[q] /\ RevisionsOf(q)' = RevisionsOf(q)
          /\ \A s \in RevisionsOf(q) : revision'[s] = revision[s]
      BY <3>1, <1>1
    <3>4. LogOf(q)' = LogOf(q)
      BY <2>1, <3>1, <3>2, <3>3, SameLog
    <3>5. ServedAtOf(q)' = ServedAtOf(q)
      BY <2>1, <3>1, <3>2, <3>3 DEF ServedAtOf
    <3>6. QED
      BY <3>4, <3>5
  <2>2. CASE q \notin Live
    BY <2>2, <1>1 DEF LogOf, ServedAtOf
  <2>3. QED
    BY <2>1, <2>2
<1>3. LogOf(p)' = <<>> /\ ServedAtOf(p)' = 0
  BY <1>1 DEF LogOf, ServedAtOf
<1>4. logNow' = [logNow EXCEPT ![p] = <<>>]
  BY <1>2, <1>3 DEF logNow
<1>5. servedNow' = [servedNow EXCEPT ![p] = 0]
  BY <1>2, <1>3 DEF servedNow
<1>6. endedNow' = endedNow \cup {p}
  BY <1>1 DEF endedNow, RInv, IInv, RowsMinted, Live
<1>7. ASSUME NEW pg \in Page
      PROVE  ReaderOf(pg)' = IF ReaderOf(pg) # NoView /\ ReaderOf(pg).project = p
                               THEN NoView ELSE ReaderOf(pg)
  <2>1. CASE view[pg] # NoView /\ view[pg].project = p
    <3>1. ReaderOf(pg)' = NoView
      BY <2>1, <1>1 DEF ReaderOf
    <3>2. ReaderOf(pg).project = p
      BY <2>1, <1>1 DEF ReaderOf
    <3>3. QED
      BY <3>1, <3>2
  <2>2. CASE ~(view[pg] # NoView /\ view[pg].project = p)
    <3>1. ReaderOf(pg)' = ReaderOf(pg)
      BY <2>2, <1>1, ReaderKept
    <3>2. ReaderOf(pg) # NoView => ReaderOf(pg).project # p
      BY <2>2 DEF ReaderOf
    <3>3. QED
      BY <3>1, <3>2
  <2>3. QED
    BY <2>1, <2>2
<1>8. readerNow' = [pg \in Page |-> IF readerNow[pg] # NoView /\ readerNow[pg].project = p
                                      THEN NoView ELSE readerNow[pg]]
  BY <1>7 DEF readerNow
<1>9. Log!Exists(p)
  BY <1>1, ExistsMaps
<1>10. QED
  BY <1>4, <1>5, <1>6, <1>8, <1>9 DEF Log!Delete, logNow, servedNow, endedNow, readerNow

\* Initially there is no project, so no log.
LEMMA InitMaps == Init => Log!Init
<1> SUFFICES ASSUME Init
             PROVE  Log!Init
  OBVIOUS
<1>1. \A p \in ProjectId : LogOf(p) = <<>> /\ ServedAtOf(p) = 0
  BY DEF Init, LogOf, ServedAtOf, Live
<1>2. \A pg \in Page : ReaderOf(pg) = NoView
  BY DEF Init, ReaderOf
<1>3. endedNow = {}
  BY DEF Init, endedNow
<1>4. QED
  BY <1>1, <1>2, <1>3 DEF Log!Init, endedNow

LEMMA StepMaps == RInv /\ RInv' /\ [Next]_vars => [Log!Next]_Log!vars
<1> SUFFICES ASSUME RInv, RInv', [Next]_vars
             PROVE  Log!Next \/ UNCHANGED Log!vars
  OBVIOUS
<1>1. ASSUME NEW pg \in Page, NEW p \in ProjectId, NEW r \in RevisionId,
             NEW n \in Name, NEW b \in Bytes, CreateProject(pg, p, r, n, b)
      PROVE  Log!Next
  BY <1>1, CreateMaps DEF Log!Next
<1>2. ASSUME NEW pg \in Page, NEW p \in ProjectId, GetProject(pg, p)
      PROVE  Log!Next
  BY <1>2, ReadMaps DEF GetProject, Log!Next
<1>3. ASSUME NEW pg \in Page, NEW b \in Bytes, SaveUnchanged(pg, b)
      PROVE  Log!Next
  <2>1. PICK p : p = view[pg].project
    OBVIOUS
  <2>2. p \in Live /\ p \in ProjectId /\ Answer(pg, p) /\ UNCHANGED <<project, revision, minted>>
    BY <1>3, <2>1 DEF SaveUnchanged, Live
  <2>3. QED
    BY <2>2, ReadMaps DEF Log!Next
<1>4. ASSUME NEW pg \in Page, NEW b \in Bytes, NEW r \in RevisionId, SaveRevision(pg, b, r)
      PROVE  Log!Next
  BY <1>4, SaveMaps DEF Log!Next
<1>5. ASSUME NEW pg \in Page, PublishProject(pg)
      PROVE  Log!Next
  BY <1>5, PublishMaps DEF Log!Next
<1>6. ASSUME NEW p \in ProjectId, NEW n \in Name, RenameProject(p, n)
      PROVE  UNCHANGED Log!vars
  BY <1>6, RenameMaps
<1>7. ASSUME NEW p \in ProjectId, DeleteProject(p)
      PROVE  Log!Next
  BY <1>7, DeleteMaps DEF Log!Next
<1>8. CASE UNCHANGED vars
  BY <1>8 DEF vars, Log!vars, LogOf, ServedAtOf, ReaderOf, Live, RevisionsOf, RevisionAt
<1>9. QED
  BY <1>1, <1>2, <1>3, <1>4, <1>5, <1>6, <1>7, <1>8 DEF Next

(* The tables and their handlers implement the append-only log with one        *)
(* served position: however stale the pointers that pages send and whichever   *)
(* answers are lost, no save overwrites a draft its page had not seen and no   *)
(* publish replaces or exposes a version its page had not seen.                *)
THEOREM StoreImplementsLog == Spec => ImplementsPublishedLog
<1>1. Init => Log!Init
  BY InitMaps
<1>2. RInv /\ RInv' /\ [Next]_vars => [Log!Next]_Log!vars
  BY StepMaps
<1>3. QED
  BY RefinementInvariant, <1>1, <1>2, PTL DEF Spec, Log!Spec, ImplementsPublishedLog
===================================================================================
