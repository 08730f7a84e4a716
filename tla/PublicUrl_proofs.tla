----------------------------- MODULE PublicUrl_proofs -----------------------------
(***************************************************************************)
(* Theorems about PublicUrl for every set of addresses and requests.       *)
(* Neither invariant is inductive: an update may assign the copy what is   *)
(* no longer stored, or under the eyes of a reader, unless the guards      *)
(* exclude it, so the exclusion is part of the induction.  The UPDATE of a *)
(* request that is gone obeys no guard: what it may break is said by the   *)
(* parts of the invariant that hold only while abandoned is FALSE.         *)
(***************************************************************************)
EXTENDS PublicUrl, TLAPS

\* UrlTypeOK without the queue, on whose contents nothing below depends: its
\* order matters for liveness only.
Typed ==
    /\ stored \in Url
    /\ memory \in Url
    /\ req \in [Req -> [pc: Pc, url: Url]]
    /\ left \in {"none", "read", "write"}
    /\ abandoned \in BOOLEAN

\* The RwLock: a writer is alone.
GuardsExclude ==
    \A q, r \in Req : Writing(q) => ~Reading(r) /\ (Writing(r) => q = r)

\* What an update is about to assign is what SQLite holds, unless the UPDATE of a
\* request that is gone has overwritten it, or its own UPDATE is to be rolled back.
StoredByWriter ==
    \A q \in Req : req[q].pc = "stored" /\ ~abandoned => req[q].url = stored

\* A link reads the copy under its guard.
ReadersHaveCopy == \A q \in Req : Reading(q) => req[q].url = memory

IInv ==
    /\ Typed
    /\ GuardsExclude
    /\ StoredByWriter
    /\ ReadersHaveCopy
    /\ InSyncUnlessAbandoned

-----------------------------------------------------------------------------------
LEMMA DoneTyped == Done \in [pc: Pc, url: Url] /\ Done.pc = "idle"
  BY UrlAssumption DEF Done, Pc

LEMMA InitIInv == Init => IInv
<1> SUFFICES ASSUME Init
             PROVE  IInv
  OBVIOUS
<1>1. \A q \in Req : req[q].pc = "idle"
  BY DoneTyped DEF Init
<1>2. Typed
  BY UrlAssumption, DoneTyped DEF Init, Typed
<1>3. stored = memory
  BY DEF Init
<1>4. QED
  BY <1>1, <1>2, <1>3
     DEF IInv, GuardsExclude, StoredByWriter, ReadersHaveCopy, InSyncUnlessAbandoned,
         Writing, Reading

LEMMA NextTyped ==
  ASSUME Typed, [Next]_vars
  PROVE  Typed'
<1> USE UrlAssumption DEF Typed, Pc, Done, End
<1>1. ASSUME NEW q \in Req, NEW u \in Url, BeginUpdate(q, u)
      PROVE  Typed'
  BY <1>1 DEF BeginUpdate
<1>2. ASSUME NEW q \in Req, BeginLink(q)
      PROVE  Typed'
  BY <1>2 DEF BeginLink
<1>3. ASSUME NEW q \in Req, UpdateStep(q)
      PROVE  Typed'
  <2>1. CASE TakeWriteGuard(q)
    BY <2>1 DEF TakeWriteGuard
  <2>2. CASE StoreUrl(q)
    BY <2>2 DEF StoreUrl
  <2>3. CASE StoreJoins(q)
    BY <2>3 DEF StoreJoins
  <2>4. CASE StoreFails(q)
    BY <2>4 DEF StoreFails
  <2>5. CASE AssignCopy(q)
    BY <2>5 DEF AssignCopy
  <2>6. CASE LateStore(q)
    BY <2>6 DEF LateStore
  <2>7. CASE LateFails(q)
    BY <2>7 DEF LateFails
  <2>8. QED
    BY <1>3, <2>1, <2>2, <2>3, <2>4, <2>5, <2>6, <2>7 DEF UpdateStep
<1>4. ASSUME NEW q \in Req, LinkStep(q)
      PROVE  Typed'
  BY <1>4 DEF LinkStep, TakeReadGuard, CreateLink, AnswerLink
<1>5. ASSUME NEW q \in Req, Cancel(q)
      PROVE  Typed'
  BY <1>5 DEF Cancel, AbandonedAfter
<1>6. ASSUME NEW tx \in {"read", "write"}, LeaveOpen(tx)
      PROVE  Typed'
  BY <1>6 DEF LeaveOpen
<1>7. CASE Recycle
  BY <1>7 DEF Recycle
<1>8. ASSUME NEW u \in Url, Restart(u)
      PROVE  Typed'
  BY <1>8 DEF Restart
<1>9. CASE UNCHANGED vars
  BY <1>9 DEF vars
<1>10. QED
  BY <1>1, <1>2, <1>3, <1>4, <1>5, <1>6, <1>7, <1>8, <1>9 DEF Next

(* Every step of a request moves that request alone.                          *)
LEMMA OthersKeep ==
  ASSUME Typed, NEW q \in Req,
         \/ \E u \in Url : BeginUpdate(q, u)
         \/ BeginLink(q) \/ UpdateStep(q) \/ LinkStep(q) \/ Cancel(q)
  PROVE  \A r \in Req \ {q} : req'[r] = req[r]
  BY DEF Typed, BeginUpdate, BeginLink, UpdateStep, TakeWriteGuard, StoreUrl, StoreJoins,
         StoreFails, AssignCopy, LateStore, LateFails, LinkStep, TakeReadGuard, CreateLink,
         AnswerLink, Cancel, End

LEMMA NextIInv ==
  ASSUME IInv, [Next]_vars
  PROVE  IInv'
<1> USE UrlAssumption
    DEF IInv, GuardsExclude, StoredByWriter, ReadersHaveCopy, InSyncUnlessAbandoned,
        Writing, Reading
<1>0. Typed'
  BY NextTyped
<1>1. ASSUME NEW q \in Req, \/ \E u \in Url : BeginUpdate(q, u)
                            \/ BeginLink(q)
      PROVE  IInv'
  BY <1>0, <1>1, OthersKeep DEF BeginUpdate, BeginLink, Typed
<1>2. ASSUME NEW q \in Req, TakeWriteGuard(q)
      PROVE  IInv'
  BY <1>0, <1>2, OthersKeep DEF UpdateStep, TakeWriteGuard, Typed
<1>3. ASSUME NEW q \in Req, StoreUrl(q)
      PROVE  IInv'
  BY <1>0, <1>3, OthersKeep DEF UpdateStep, StoreUrl, Typed
<1>4. ASSUME NEW q \in Req, StoreJoins(q)
      PROVE  IInv'
  BY <1>0, <1>4, OthersKeep DEF UpdateStep, StoreJoins, Typed
<1>5. ASSUME NEW q \in Req, StoreFails(q)
      PROVE  IInv'
  BY <1>0, <1>5, OthersKeep DEF UpdateStep, StoreFails, Typed, End, Done
<1>6. ASSUME NEW q \in Req, AssignCopy(q)
      PROVE  IInv'
  BY <1>0, <1>6, OthersKeep DEF UpdateStep, AssignCopy, Typed, End, Done
<1>7. ASSUME NEW q \in Req, LateStore(q)
      PROVE  IInv'
  BY <1>0, <1>7, OthersKeep DEF UpdateStep, LateStore, Typed, End, Done
<1>8. ASSUME NEW q \in Req, LateFails(q)
      PROVE  IInv'
  BY <1>0, <1>8, OthersKeep DEF UpdateStep, LateFails, Typed, End, Done
<1>9. ASSUME NEW q \in Req, TakeReadGuard(q)
      PROVE  IInv'
  BY <1>0, <1>9, OthersKeep DEF LinkStep, TakeReadGuard, Typed
<1>10. ASSUME NEW q \in Req, CreateLink(q)
      PROVE  IInv'
  BY <1>0, <1>10, OthersKeep DEF LinkStep, CreateLink, Typed
<1>11. ASSUME NEW q \in Req, AnswerLink(q)
      PROVE  IInv'
  BY <1>0, <1>11, OthersKeep DEF LinkStep, AnswerLink, Typed, End, Done
<1>12. ASSUME NEW q \in Req, Cancel(q)
      PROVE  IInv'
  <2>1. req'[q].pc \in {"idle", "late"} /\ UNCHANGED <<stored, memory>>
    BY <1>12 DEF Cancel, Typed, End, Done
  <2>2. abandoned' = (abandoned \/ req[q].pc = "stored")
    BY <1>12 DEF Cancel, AbandonedAfter
  <2>3. \A r \in Req \ {q} : req'[r] = req[r]
    BY <1>12, OthersKeep
  <2>4. GuardsExclude' /\ ReadersHaveCopy'
    BY <2>1, <2>3
  <2>5. StoredByWriter'
    BY <1>0, <2>1, <2>2, <2>3 DEF Typed
  <2>6. InSyncUnlessAbandoned'
    BY <2>1, <2>2, <2>3
  <2>7. QED
    BY <1>0, <2>4, <2>5, <2>6
<1>13. ASSUME NEW tx \in {"read", "write"}, LeaveOpen(tx)
      PROVE  IInv'
  BY <1>0, <1>13 DEF LeaveOpen
<1>14. CASE Recycle
  BY <1>0, <1>14 DEF Recycle
<1>15. ASSUME NEW u \in Url, Restart(u)
      PROVE  IInv'
  BY <1>0, <1>15 DEF Restart, Typed, Done
<1>16. CASE UNCHANGED vars
  BY <1>0, <1>16 DEF vars
<1>17. QED
  BY <1>1, <1>2, <1>3, <1>4, <1>5, <1>6, <1>7, <1>8,
     <1>9, <1>10, <1>11, <1>12, <1>13, <1>14, <1>15, <1>16
     DEF Next, UpdateStep, LinkStep

LEMMA Invariance == Spec => []IInv
<1>1. IInv /\ [Next]_vars => IInv'
  BY NextIInv
<1>2. QED
  BY InitIInv, <1>1, PTL DEF Spec

-----------------------------------------------------------------------------------
(* The copy in memory differs from SQLite only while an update is between its *)
(* UPDATE and its assignment, or because the last UPDATE was of a request     *)
(* that was cancelled before it assigned, whether the UPDATE had landed by    *)
(* then or landed later, or joined a transaction that was left open.          *)
THEOREM AlwaysInSyncUnlessAbandoned == Spec => []InSyncUnlessAbandoned
<1>1. IInv => InSyncUnlessAbandoned
  BY DEF IInv
<1>2. QED
  BY Invariance, <1>1, PTL

(* From the reading of the copy until the answer of a new link, the address   *)
(* in its URL is the copy; and it is what SQLite holds, unless the last       *)
(* UPDATE was of a request that is gone or joined a transaction left open.    *)
THEOREM LinksAlwaysUseCurrentUrl == Spec => []LinkUsesCurrentUrl
<1>1. IInv => LinkUsesCurrentUrl
  BY DEF IInv, GuardsExclude, ReadersHaveCopy, InSyncUnlessAbandoned, LinkUsesCurrentUrl,
         Writing, Reading
<1>2. QED
  BY Invariance, <1>1, PTL
===================================================================================
