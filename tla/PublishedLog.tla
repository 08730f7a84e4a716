------------------------------ MODULE PublishedLog ------------------------------
(***************************************************************************)
(* What ConfDock promises about a project, with no tables, identifiers or  *)
(* revisions rows left in sight (ADR-001, ADR-005).  A project is an       *)
(* append-only log of drafts and a position in it: the subscribers of a    *)
(* stable URL read the draft at that position.  A page remembers the       *)
(* length of the log and the served position it last saw; it may append    *)
(* only to the log it saw, and may serve the end of the log only if both   *)
(* numbers are still true.  RevisionStore implements this module.          *)
(***************************************************************************)
EXTENDS Naturals, Sequences

CONSTANTS ProjectId, Page, Bytes, NoView

VARIABLES
    log,      \* log[p]: the drafts of p, oldest first; <<>> when p does not exist
    servedAt, \* servedAt[p]: the position subscribers read; 0 when p does not exist
    ended,    \* projects that were deleted
    reader    \* reader[pg]: what page pg believes, or NoView

vars == <<log, servedAt, ended, reader>>

Exists(p) == log[p] # <<>>

Seen(p) == [project |-> p, length |-> Len(log'[p]), served |-> servedAt'[p]]

\* The answer to a request may be lost on its way to the page.
Answer(pg, p) == reader' \in {reader, [reader EXCEPT ![pg] = Seen(p)]}

UpToDate(pg) == reader[pg] # NoView /\ reader[pg].length = Len(log[reader[pg].project])

Init ==
    /\ log = [p \in ProjectId |-> <<>>]
    /\ servedAt = [p \in ProjectId |-> 0]
    /\ ended = {}
    /\ reader = [pg \in Page |-> NoView]

Create(pg, p, b) ==
    /\ ~Exists(p) /\ p \notin ended
    /\ log' = [log EXCEPT ![p] = <<b>>]
    /\ servedAt' = [servedAt EXCEPT ![p] = 1]
    /\ UNCHANGED ended
    /\ Answer(pg, p)

Read(pg, p) ==
    /\ Exists(p)
    /\ UNCHANGED <<log, servedAt, ended>>
    /\ Answer(pg, p)

\* A save grows the log by one new draft and leaves the served position alone.
Save(pg, b) ==
    LET p == reader[pg].project IN
    /\ UpToDate(pg)
    /\ b # log[p][Len(log[p])]
    /\ log' = [log EXCEPT ![p] = Append(@, b)]
    /\ UNCHANGED <<servedAt, ended>>
    /\ Answer(pg, p)

\* A publish serves the end of the log, which the page has seen, in place of
\* the position the page believed to be served.
Publish(pg) ==
    LET p == reader[pg].project IN
    /\ UpToDate(pg)
    /\ reader[pg].served = servedAt[p]
    /\ servedAt' = [servedAt EXCEPT ![p] = Len(log[p])]
    /\ UNCHANGED <<log, ended>>
    /\ Answer(pg, p)

\* What a page believed of a deleted project is worth nothing.
Delete(p) ==
    /\ Exists(p)
    /\ log' = [log EXCEPT ![p] = <<>>]
    /\ servedAt' = [servedAt EXCEPT ![p] = 0]
    /\ ended' = ended \cup {p}
    /\ reader' = [pg \in Page |->
                    IF reader[pg] # NoView /\ reader[pg].project = p
                      THEN NoView ELSE reader[pg]]

Next ==
    \/ \E pg \in Page, p \in ProjectId, b \in Bytes : Create(pg, p, b)
    \/ \E pg \in Page, p \in ProjectId : Read(pg, p)
    \/ \E pg \in Page, b \in Bytes : Save(pg, b)
    \/ \E pg \in Page : Publish(pg)
    \/ \E p \in ProjectId : Delete(p)

Spec == Init /\ [][Next]_vars
=================================================================================
