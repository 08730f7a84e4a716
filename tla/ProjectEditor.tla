------------------------------ MODULE ProjectEditor ------------------------------
(***************************************************************************)
(* The editor page (web/src/state/useProject.ts): the project it shows,    *)
(* the bytes being edited, the gate that admits one Save or Publish at a   *)
(* time, and the calls it has sent, which the service answers and the      *)
(* network delivers in any order while the user types, renames and moves   *)
(* to another project.  React renders a new route before it runs the       *)
(* route's effect; answers may arrive in between.                          *)
(* The service is the one of RevisionStore, seen from outside: revisions   *)
(* of a project are numbered, and other pages change it at any time.       *)
(***************************************************************************)
EXTENDS Naturals, Sequences, FiniteSets

CONSTANTS
    ProjectId, \* projects
    Name,      \* project names
    Bytes,     \* sources
    Call,      \* calls that may be under way at once (a bound of the model)
    MaxRev,    \* revisions of a project, up to this bound of the model
    None,      \* no project, no call
    Empty      \* the EMPTY array

Rev == 0..MaxRev

\* A project as the page shows it.
Shown == [id: ProjectId, name: Name, current: Rev, served: Rev, source: Bytes]

ASSUME EditorAssumption ==
    /\ MaxRev \in Nat \ {0}
    /\ None \notin ProjectId \cup Call \cup Shown
    /\ Empty \notin Bytes

VARIABLES
    db,      \* db[p]: the service's project, its revisions in order; <<>> when deleted
    id,      \* the id of the latest render (activeProjectIdRef)
    mounted, \* the id whose effect ran last
    project, \* the project on the page, or None
    working, \* workingBytes
    status,  \* ProjectStatus
    busy,    \* the flags saving and publishing: the kinds that are set
    gate,    \* MutationGate.active: the call whose token it is, or None
    call     \* call[c]: what was sent, and the answer once there is one

vars == <<db, id, mounted, project, working, status, busy, gate, call>>

page == <<id, mounted, project, working, status, busy, gate>>

Kind == {"load", "save", "publish", "rename", "remove"}

Gated == {"save", "publish"}

\* `fresh` is what the generations of the tokens and `live` of a load stand for:
\* no effect ran since the call was sent.
CallState == [kind: Kind \cup {"none"}, id: ProjectId \cup {None}, fresh: BOOLEAN,
              expected: Rev \X Rev, sent: Bytes \cup {Empty}, name: Name \cup {None},
              state: {"sent", "answered"}, answer: Shown \cup {None}]

EditorTypeOK ==
    /\ db \in [ProjectId -> [name: Name, revs: UNION {[1..n -> Bytes] : n \in Rev}, served: Rev]]
    /\ id \in ProjectId
    /\ mounted \in ProjectId \cup {None}
    /\ project \in Shown \cup {None}
    /\ working \in Bytes \cup {Empty}
    /\ status \in {"loading", "missing", "error", "ready"}
    /\ busy \subseteq Gated
    /\ gate \in Call \cup {None}
    /\ call \in [Call -> CallState]
    /\ status = "ready" <=> project # None

Unused == [kind |-> "none", id |-> None, fresh |-> FALSE, expected |-> <<0, 0>>,
           sent |-> Empty, name |-> None, state |-> "sent", answer |-> None]

Exists(p) == db[p].revs # <<>>

\* What the service answers with: its project p, whose row is d.
Answer(p, d) == [id |-> p, name |-> d.name, current |-> Len(d.revs),
                 served |-> d.served, source |-> d.revs[Len(d.revs)]]

Dirty == project # None /\ working # project.source

Free(c) == call[c].kind = "none"

\* The token of c is the one the gate holds, in this generation, for this route.
Accepted(c) == gate = c /\ call[c].fresh /\ id = call[c].id

---------------------------------------------------------------------------------
(* Mistakes a change to the hook could make, to see that the properties      *)
(* notice.                                                                   *)

\* A load is applied whatever happened since.
AdoptAnyLoad(c) == call[c].kind = "load"

\* A rename adopts the project it was answered with.
RenamedWhole(c) == call[c].answer

\* Publish sends the draft whatever the page shows.
MayPublishDirty == TRUE

\* A publish resets the editor to the answered source.
WorkingAfterPublish(c) ==
    IF call[c].kind \in Gated THEN call[c].answer.source ELSE working

---------------------------------------------------------------------------------
Init ==
    /\ db \in [ProjectId -> {[name |-> n, revs |-> <<b>>, served |-> 1] : n \in Name, b \in Bytes}]
    /\ id \in ProjectId
    /\ mounted = None
    /\ project = None
    /\ working = Empty
    /\ status = "loading"
    /\ busy = {}
    /\ gate = None
    /\ call = [c \in Call |-> Unused]

Send(c, m) == call' = [call EXCEPT ![c] = m]

\* The user follows a link: the component renders with another id ...
Render(p) ==
    /\ p # id /\ mounted = id
    /\ id' = p
    /\ UNCHANGED <<db, mounted, project, working, status, busy, gate, call>>

\* ... and the effect of that id runs: the gate is invalidated, and calls under
\* way are no longer fresh.
Effect(c) ==
    /\ mounted # id /\ Free(c)
    /\ mounted' = id
    /\ gate' = None
    /\ busy' = {}
    /\ status' = "loading"
    /\ project' = None
    /\ working' = Empty
    /\ call' = [[d \in Call |-> [call[d] EXCEPT !.fresh = FALSE]]
                  EXCEPT ![c] = [Unused EXCEPT !.kind = "load", !.id = id, !.fresh = TRUE]]
    /\ UNCHANGED <<db, id>>

\* setText and applyEdit.
Edit(b) ==
    /\ project # None
    /\ working' = b
    /\ UNCHANGED <<db, id, mounted, project, status, busy, gate, call>>

\* What save and publish send: the pointers of the page, and the bytes it shows.
Request(kind) ==
    [Unused EXCEPT !.kind = kind, !.id = project.id, !.fresh = TRUE, !.sent = working,
                   !.expected = <<project.current, project.served>>]

MayPublish == ~Dirty

Begin(c, kind) ==
    /\ project # None /\ Free(c)
    /\ kind = "publish" => MayPublish
    /\ gate = None
    /\ gate' = c
    /\ busy' = busy \cup {kind}
    /\ Send(c, Request(kind))
    /\ UNCHANGED <<db, id, mounted, project, working, status>>

Rename(c, n) ==
    /\ project # None /\ Free(c)
    /\ Send(c, [Unused EXCEPT !.kind = "rename", !.id = project.id, !.fresh = TRUE, !.name = n])
    /\ UNCHANGED <<db, page>>

Remove(c) ==
    /\ project # None /\ Free(c)
    /\ Send(c, [Unused EXCEPT !.kind = "remove", !.id = project.id, !.fresh = TRUE])
    /\ UNCHANGED <<db, page>>

---------------------------------------------------------------------------------
\* The service's side of a call (RevisionStore): what the project becomes, or
\* itself when the call is refused.
Applied(m) ==
    LET d == db[m.id]
        n == Len(d.revs)
    IN  CASE m.kind = "save" /\ m.expected[1] = n /\ d.revs[n] # m.sent ->
               [d EXCEPT !.revs = Append(@, m.sent)]
          [] m.kind = "publish" /\ m.expected[1] = n /\ (d.served # n => d.served = m.expected[2]) ->
               [d EXCEPT !.served = n]
          [] m.kind = "rename" -> [d EXCEPT !.name = m.name]
          [] m.kind = "remove" -> [d EXCEPT !.revs = <<>>, !.served = 0]
          [] OTHER -> d

\* revision.conflict, publish.conflict and project.not_found.
Refused(m) ==
    LET d == db[m.id] IN
    \/ ~Exists(m.id)
    \/ m.kind \in Gated /\ m.expected[1] # Len(d.revs)
    \/ m.kind = "publish" /\ d.served # Len(d.revs) /\ d.served # m.expected[2]

Serve(c) ==
    LET m == call[c] IN
    /\ ~Free(c) /\ m.state = "sent"
    /\ IF Refused(m)
         THEN /\ Send(c, [m EXCEPT !.state = "answered"])
              /\ UNCHANGED db
         ELSE /\ Len(Applied(m).revs) <= MaxRev
              /\ db' = [db EXCEPT ![m.id] = Applied(m)]
              /\ Send(c, [m EXCEPT !.state = "answered",
                                   !.answer = IF m.kind = "remove" THEN None
                                                ELSE Answer(m.id, Applied(m))])
    /\ UNCHANGED page

\* The network or the service fails, before the call took effect or after it.
Fail(c) ==
    /\ ~Free(c)
    /\ call[c].state = "sent" \/ call[c].answer # None
    /\ Send(c, [call[c] EXCEPT !.state = "answered", !.answer = None])
    /\ UNCHANGED <<db, page>>

\* Another page or administrator.
Elsewhere(p) ==
    /\ Exists(p)
    /\ \/ \E b \in Bytes : Len(db[p].revs) < MaxRev /\ db' = [db EXCEPT ![p].revs = Append(@, b)]
       \/ db' = [db EXCEPT ![p].served = Len(db[p].revs)]
       \/ \E n \in Name : db' = [db EXCEPT ![p].name = n]
       \/ db' = [db EXCEPT ![p].revs = <<>>, ![p].served = 0]
    /\ UNCHANGED <<page, call>>

---------------------------------------------------------------------------------
\* finish: only the token that holds the gate empties it and clears its flag.
Finish(c) ==
    IF gate = c /\ call[c].fresh
      THEN gate' = None /\ busy' = busy \ {call[c].kind}
      ELSE UNCHANGED <<gate, busy>>

\* The `live` flag of the load's effect.
AdoptLoad(c) == call[c].kind = "load" /\ call[c].fresh

DeliverLoad(c) ==
    /\ call[c].kind = "load" /\ call[c].state = "answered"
    /\ CASE ~AdoptLoad(c) -> UNCHANGED <<project, working, status>>
         [] AdoptLoad(c) /\ call[c].answer = None ->
              /\ status' \in {"missing", "error"}
              /\ UNCHANGED <<project, working>>
         [] OTHER ->
              /\ status' = "ready"
              /\ project' = call[c].answer
              /\ working' = call[c].answer.source
    /\ Send(c, Unused)
    /\ UNCHANGED <<db, id, mounted, busy, gate>>

\* The editor's bytes after a save or a publish was answered.
WorkingAfter(c) == IF call[c].kind = "save" THEN call[c].answer.source ELSE working

\* save and publish after their await: the answered project, under the name the
\* page has by now, then finish.
DeliverWrite(c) ==
    /\ call[c].kind \in Gated /\ call[c].state = "answered"
    /\ IF call[c].answer # None /\ Accepted(c)
         THEN /\ project' = [call[c].answer EXCEPT !.name = project.name]
              /\ working' = WorkingAfter(c)
         ELSE UNCHANGED <<project, working>>
    /\ Finish(c)
    /\ Send(c, Unused)
    /\ UNCHANGED <<db, id, mounted, status>>

\* The page's project after a rename was answered.
Renamed(c) == [project EXCEPT !.name = call[c].answer.name]

DeliverRename(c) ==
    /\ call[c].kind = "rename" /\ call[c].state = "answered"
    /\ project' = IF call[c].answer # None /\ id = call[c].id /\ call[c].fresh
                    THEN Renamed(c) ELSE project
    /\ Send(c, Unused)
    /\ UNCHANGED <<db, id, mounted, working, status, busy, gate>>

DeliverRemove(c) ==
    /\ call[c].kind = "remove" /\ call[c].state = "answered"
    /\ Send(c, Unused)
    /\ UNCHANGED <<db, page>>

Deliver(c) == DeliverLoad(c) \/ DeliverWrite(c) \/ DeliverRename(c) \/ DeliverRemove(c)

Next ==
    \/ \E p \in ProjectId : Render(p)
    \/ \E c \in Call : Effect(c)
    \/ \E b \in Bytes : Edit(b)
    \/ \E c \in Call, kind \in Gated : Begin(c, kind)
    \/ \E c \in Call, n \in Name : Rename(c, n)
    \/ \E c \in Call : Remove(c)
    \/ \E c \in Call : Serve(c)
    \/ \E c \in Call : Fail(c)
    \/ \E p \in ProjectId : Elsewhere(p)
    \/ \E c \in Call : Deliver(c)

Spec == Init /\ [][Next]_vars

---------------------------------------------------------------------------------
(* Once the effect of a route has run, the page shows that project or none:  *)
(* no answer to a call of the route before it is ever applied to it.         *)
PageShowsItsRoute == mounted = id /\ project # None => project.id = id

(* What the page shows of a project never goes back: no late answer replaces *)
(* the pointers of a newer one (rename after save, save after rename).       *)
PointersNeverGoBack ==
    [][project # None /\ project' # None /\ project'.id = project.id
         => project'.current >= project.current /\ project'.served >= project.served]_vars

(* ADR-005: Publish never serves anything but the bytes the page showed when *)
(* it was asked for, whatever was saved elsewhere in between.                *)
PublishesWhatWasShown ==
    [][\A c \in Call :
         call[c].kind = "publish" /\ call[c].state = "sent" /\ call'[c].answer # None
           => call'[c].answer.source = call[c].sent]_vars

(* An edit made while a call is under way survives every answer but one: a   *)
(* Publish, a refused Save, a failure or a Rename leaves the bytes alone.    *)
EditsOutliveAnswers ==
    [][\A c \in Call :
         call[c].kind \notin {"none", "load"} /\ call'[c].kind = "none" /\ working' # working
           => call[c].kind = "save" /\ call[c].answer # None /\ Accepted(c)]_vars

=================================================================================
