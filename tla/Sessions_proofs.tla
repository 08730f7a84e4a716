------------------------------ MODULE Sessions_proofs ------------------------------
(***************************************************************************)
(* Theorems about Sessions for every set of passwords, sessions and        *)
(* requests and every number of permits.  That nobody is admitted without  *)
(* the password depends on what a request remembers while it waits for a   *)
(* permit and for Argon2: it says when the hash it will compare with was   *)
(* the administrator's.                                                    *)
(***************************************************************************)
EXTENDS Sessions, TLAPS

ReqState ==
    [kind: Kind, pc: Pc, as: SessionId \cup {NoSession},
     password: Password \cup {NoHash}, read: Password \cup {NoHash}, held: BOOLEAN]

\* The hash a request has read was the administrator's at some moment since.
HeldSinceRead ==
    \A q \in Req :
      req[q].pc \in {"slot", "verify"} /\ req[q].password = req[q].read => req[q].held

\* A sign-in has no session; every other request has the one of its cookie.
Routed ==
    \A q \in Req :
      /\ req[q].kind = "signIn" =>
           req[q].pc \in {"wait", "sleep", "read", "slot", "verify", "cleanup", "insert"}
      /\ req[q].kind # "signIn" /\ req[q].pc # "idle" => req[q].as \in SessionId

IInv ==
    /\ SessionTypeOK
    /\ Routed
    /\ HeldSinceRead
    /\ AdmittedByPassword
    /\ ChangeRevokesOthers

-----------------------------------------------------------------------------------
LEMMA DoneTyped ==
  /\ Done \in ReqState
  /\ Done.pc = "idle" /\ Done.kind = "call"
  BY DEF Done, ReqState, Kind, Pc

LEMMA InitIInv == Init => IInv
<1> SUFFICES ASSUME Init
             PROVE  IInv
  OBVIOUS
<1>1. \A q \in Req : req[q] = Done
  BY DEF Init
<1>2. SessionTypeOK
  <2>1. req \in [Req -> ReqState]
    BY DoneTyped DEF Init
  <2>2. orphans \in 0..MaxOrphans
    BY SessionsAssumption DEF Init
  <2>3. QED
    BY <2>1, <2>2 DEF Init, SessionTypeOK, ReqState, Stage
<1>3. Routed /\ HeldSinceRead /\ AdmittedByPassword
  BY <1>1, DoneTyped DEF Routed, HeldSinceRead, AdmittedByPassword
<1>4. ChangeRevokesOthers
  BY DEF Init, ChangeRevokesOthers, Stored
<1>5. QED
  BY <1>2, <1>3, <1>4 DEF IInv

(* What a DELETE leaves of the sessions: rows outside it, and nothing new.    *)
LEMMA WithoutShape ==
  ASSUME SessionTypeOK, NEW S, session' = Without(S)
  PROVE  /\ session' \in [SessionId -> Stage]
         /\ \A s \in SessionId :
               session'[s] = IF Stored(s) /\ s \in S THEN "gone" ELSE session[s]
         /\ \A s \in SessionId : Stored(s)' => Stored(s) /\ s \notin S
  BY DEF SessionTypeOK, Without, Stored, Stage

(* What every step does to the sessions: at most one is made, with a sign-in, *)
(* one expires, or rows are deleted.                                          *)
SessionsDeleted ==
    /\ \A s \in SessionId : session'[s] = session[s] \/ session'[s] = "gone"
    /\ \A s \in SessionId : Stored(s)' => Stored(s) /\ s \in survivors'

LEMMA SessionSteps ==
  ASSUME IInv, [Next]_vars
  PROVE  /\ session' \in [SessionId -> Stage] /\ survivors' \subseteq SessionId
         /\ \/ SessionsDeleted
            \/ \E q \in Req, s \in SessionId : Insert(q, s)
            \/ \E s \in SessionId : Expire(s)
<1> USE DEF IInv, SessionsDeleted
<1>1. ASSUME session' = session, survivors' = survivors
      PROVE  session' \in [SessionId -> Stage] /\ survivors' \subseteq SessionId /\ SessionsDeleted
  BY <1>1 DEF SessionTypeOK, ChangeRevokesOthers, Stored
<1>2. ASSUME NEW S, session' = Without(S), survivors' = survivors
      PROVE  session' \in [SessionId -> Stage] /\ survivors' \subseteq SessionId /\ SessionsDeleted
  BY <1>2, WithoutShape DEF ChangeRevokesOthers, SessionTypeOK
<1>3. ASSUME NEW p \in Password, NEW S \in SUBSET SessionId, SetPassword(p, S)
      PROVE  session' \in [SessionId -> Stage] /\ survivors' \subseteq SessionId /\ SessionsDeleted
  BY <1>3, WithoutShape DEF SetPassword
<1>4. ASSUME NEW q \in Req, NEW p \in Password, Commit(q, p)
      PROVE  session' \in [SessionId -> Stage] /\ survivors' \subseteq SessionId /\ SessionsDeleted
  <2>1. SetPassword(p, {req[q].as}) /\ {req[q].as} \subseteq SessionId
    BY <1>4 DEF Commit, At, Routed
  <2>2. QED
    BY <1>3, <2>1
<1>5. ASSUME NEW q \in Req, NEW s \in SessionId, Insert(q, s)
      PROVE  session' \in [SessionId -> Stage] /\ survivors' \subseteq SessionId
  BY <1>5 DEF Insert, SessionTypeOK, Stage
<1>6. ASSUME NEW s \in SessionId, Expire(s)
      PROVE  session' \in [SessionId -> Stage] /\ survivors' \subseteq SessionId
  BY <1>6 DEF Expire, SessionTypeOK, Stage
<1>7. QED
  BY <1>1, <1>2, <1>3, <1>4, <1>5, <1>6
     DEF Next, Step, SignIn, Arrive, Wait, Select, Touch, Cleanup, Verify, Derive, Delete,
         ReadHash, TakeSlot, Cancel, OrphanEnds, SetByCli, BackoffEnds, Restart, vars
-----------------------------------------------------------------------------------
(* What a step does to the requests: each keeps its row but one, which goes   *)
(* on, begins or ends; a new password is noted in all of them.                *)
LEMMA GotoTyped ==
  ASSUME SessionTypeOK, NEW q \in Req, NEW pc \in Pc, Goto(q, pc)
  PROVE  /\ req' \in [Req -> ReqState]
         /\ \A r \in Req \ {q} : req'[r] = req[r]
         /\ req'[q] = [req[q] EXCEPT !.pc = pc]
         /\ req'[q].pc = pc /\ req'[q].kind = req[q].kind /\ req'[q].as = req[q].as
         /\ req'[q].password = req[q].password /\ req'[q].read = req[q].read
         /\ req'[q].held = req[q].held
  BY DEF SessionTypeOK, Goto, ReqState

LEMMA EndTyped ==
  ASSUME SessionTypeOK, NEW q \in Req, End(q)
  PROVE  /\ req' \in [Req -> ReqState]
         /\ \A r \in Req \ {q} : req'[r] = req[r]
         /\ req'[q].pc = "idle" /\ req'[q].kind = "call"
  BY DoneTyped DEF SessionTypeOK, End, ReqState

LEMMA NotingTyped ==
  ASSUME SessionTypeOK, NEW p \in Password
  PROVE  /\ Noting(p) \in [Req -> ReqState]
         /\ \A r \in Req :
              /\ Noting(p)[r].pc = req[r].pc /\ Noting(p)[r].kind = req[r].kind
              /\ Noting(p)[r].as = req[r].as /\ Noting(p)[r].password = req[r].password
              /\ Noting(p)[r].read = req[r].read
              /\ req[r].held => Noting(p)[r].held
<1> SUFFICES ASSUME NEW r \in Req
             PROVE  LET m == [req[r] EXCEPT !.held = @ \/ (req[r].password = p)] IN
                    /\ m \in ReqState
                    /\ m.pc = req[r].pc /\ m.kind = req[r].kind /\ m.as = req[r].as
                    /\ m.password = req[r].password /\ m.read = req[r].read
                    /\ req[r].held => m.held
  BY DEF Noting
<1>1. req[r] \in ReqState
  BY DEF SessionTypeOK, ReqState
<1>2. QED
  BY <1>1 DEF ReqState

-----------------------------------------------------------------------------------
(* What the invariant says of one request, as a fact about its row.           *)
Fine(row) ==
    /\ row \in ReqState
    /\ row.kind = "signIn" =>
         row.pc \in {"wait", "sleep", "read", "slot", "verify", "cleanup", "insert"}
    /\ row.kind # "signIn" /\ row.pc # "idle" => row.as \in SessionId
    /\ row.pc \in {"slot", "verify"} /\ row.password = row.read => row.held
    /\ \/ row.kind = "signIn" /\ row.pc \in {"cleanup", "insert"}
       \/ row.kind = "change" /\ row.pc \in {"slot2", "derive", "commit"}
       => row.held

RowsFine == req \in [Req -> ReqState] /\ \A q \in Req : Fine(req[q])

LEMMA RowsSuffice ==
  RowsFine <=> req \in [Req -> ReqState] /\ Routed /\ HeldSinceRead /\ AdmittedByPassword
  BY DEF RowsFine, Fine, Routed, HeldSinceRead, AdmittedByPassword

LEMMA DoneFine == Fine(Done)
  BY DEF Fine, Done, ReqState, Kind, Pc

(* A request whose row alone changes, to a row that is fine.                  *)
LEMMA RowsStep ==
  ASSUME RowsFine, NEW q \in Req, NEW row, Fine(row), req' = [req EXCEPT ![q] = row]
  PROVE  RowsFine'
<1>1. row \in ReqState
  BY DEF Fine
<1>2. req' \in [Req -> ReqState]
  BY <1>1 DEF RowsFine
<1>3. ASSUME NEW r \in Req
      PROVE  Fine(req'[r])
  BY DEF RowsFine
<1>4. QED
  BY <1>2, <1>3 DEF RowsFine

LEMMA RowsEnd ==
  ASSUME RowsFine, NEW q \in Req, End(q)
  PROVE  RowsFine'
  BY DoneFine, RowsStep DEF End

LEMMA RowsGoto ==
  ASSUME RowsFine, NEW q \in Req, NEW pc \in Pc, Goto(q, pc), Fine([req[q] EXCEPT !.pc = pc])
  PROVE  RowsFine'
<1>1. req' = [req EXCEPT ![q] = [req[q] EXCEPT !.pc = pc]]
  BY DEF Goto, RowsFine
<1>2. QED
  BY <1>1, RowsStep

LEMMA RowsNoted ==
  ASSUME RowsFine, NEW p \in Password
  PROVE  Noting(p) \in [Req -> ReqState] /\ \A q \in Req : Fine(Noting(p)[q])
<1>1. ASSUME NEW q \in Req
      PROVE  Fine([req[q] EXCEPT !.held = @ \/ (req[q].password = p)])
  <2>1. Fine(req[q]) /\ req[q] \in ReqState
    BY DEF RowsFine
  <2>2. QED
    BY <2>1 DEF Fine, ReqState
<1>2. QED
  BY <1>1 DEF Noting, Fine

(* Every step leaves the requests' rows fine.  What matters is that a request *)
(* which read the hash h notes the password h when it leaves.                 *)
LEMMA RequestSteps ==
  ASSUME RowsFine, hash \in Password, [Next]_vars
  PROVE  RowsFine'
<1> USE DEF At
<1>1. ASSUME req' = req PROVE RowsFine'
  BY <1>1 DEF RowsFine
<1>2. ASSUME NEW q \in Req, SignIn(q) PROVE RowsFine'
  <2>1. Fine([Done EXCEPT !.kind = "signIn", !.pc = "wait"])
    BY DEF Fine, Done, ReqState, Kind, Pc
  <2>2. QED
    BY <1>2, <2>1, RowsStep DEF SignIn
<1>3. ASSUME NEW q \in Req, NEW kind \in Kind \ {"signIn"}, NEW s \in SessionId,
             Arrive(q, kind, s)
      PROVE  RowsFine'
  <2>1. Fine([Done EXCEPT !.kind = kind, !.pc = "auth", !.as = s])
    BY DEF Fine, Done, ReqState, Kind, Pc
  <2>2. QED
    BY <1>3, <2>1, RowsStep DEF Arrive
<1>4. ASSUME NEW q \in Req, Step(q) \/ TakeSlot(q) PROVE RowsFine'
  <2> DEFINE row == req[q]
  <2>0. Fine(row) /\ row \in ReqState
    BY DEF RowsFine
  <2>1. ASSUME NEW pc \in Pc, Goto(q, pc), Fine([row EXCEPT !.pc = pc])
        PROVE  RowsFine'
    BY <2>1, RowsGoto
  <2>2. CASE Wait(q)
    <3>1. ASSUME NEW pc \in {"sleep", "read"}, Goto(q, pc), row.pc \in {"wait", "sleep"}
          PROVE  RowsFine'
      BY <2>0, <2>1, <3>1 DEF Fine, ReqState, Pc
    <3>2. QED
      BY <2>2, <3>1 DEF Wait
  <2>3. CASE Select(q)
    <3>1. ASSUME NEW pc \in {"touch", "purge"}, Goto(q, pc), row.pc = "auth"
          PROVE  RowsFine'
      BY <2>0, <2>1, <3>1 DEF Fine, ReqState, Pc
    <3>2. QED
      BY <2>3, <3>1 DEF Select
  <2>4. CASE Touch(q)
    <3>1. ASSUME NEW pc \in {"read", "delete"}, Goto(q, pc), row.pc = "touch"
          PROVE  RowsFine'
      BY <2>0, <2>1, <3>1 DEF Fine, ReqState, Pc
    <3>2. QED
      BY <2>4, <3>1, RowsEnd DEF Touch
  <2>5. CASE Cleanup(q)
    <3>1. ASSUME Goto(q, "insert"), row.pc = "cleanup"
          PROVE  RowsFine'
      BY <2>0, <2>1, <3>1 DEF Fine, ReqState, Pc
    <3>2. QED
      BY <2>5, <3>1, RowsEnd DEF Cleanup
  <2>6. CASE TakeSlot(q)
    <3>1. ASSUME Goto(q, "verify"), row.pc = "slot"
          PROVE  RowsFine'
      BY <2>0, <2>1, <3>1 DEF Fine, ReqState, Pc
    <3>2. ASSUME Goto(q, "derive"), row.pc = "slot2"
          PROVE  RowsFine'
      BY <2>0, <2>1, <3>2 DEF Fine, ReqState, Pc
    <3>3. QED
      BY <2>6, <3>1, <3>2 DEF TakeSlot
  <2>7. CASE Derive(q)
    <3>1. Goto(q, "commit") /\ row.pc = "derive"
      BY <2>7 DEF Derive
    <3>2. QED
      BY <2>0, <2>1, <3>1 DEF Fine, ReqState, Pc
  <2>8. CASE Verify(q)
    <3>1. CASE row.password = row.read
      <4> DEFINE next == IF row.kind = "signIn" THEN "cleanup" ELSE "slot2"
                 named == [row EXCEPT !.password = NoHash, !.read = NoHash, !.pc = next]
      <4>1. row.pc = "verify" /\ Admit(q)
        BY <2>8, <3>1 DEF Verify
      <4>2. Fine(named)
        BY <2>0, <3>1, <4>1 DEF Fine, ReqState, Pc
      <4>3. req' = [req EXCEPT ![q] = named]
        BY <4>1 DEF Admit, RowsFine, ReqState
      <4>4. QED
        <5> HIDE DEF named
        <5>1. QED
          BY <4>2, <4>3, RowsStep
    <3>2. CASE row.password # row.read
      BY <2>8, <3>2, RowsEnd DEF Verify
    <3>3. QED
      BY <3>1, <3>2
  <2>9. CASE Delete(q) \/ \E s \in SessionId : Insert(q, s)
    BY <2>9, RowsEnd DEF Delete, Insert
  <2>10. ASSUME NEW p \in Password, ReadHash(q, p)
         PROVE  RowsFine'
    <3> DEFINE named == [row EXCEPT !.pc = "slot", !.read = hash, !.password = p,
                                    !.held = (p = hash)]
    <3>1. Fine(named)
      BY <2>0, <2>10 DEF ReadHash, Fine, ReqState, Pc
    <3>2. req' = [req EXCEPT ![q] = named]
      BY <2>10 DEF ReadHash, RowsFine, ReqState
    <3>3. QED
      <4> HIDE DEF named
      <4>1. QED
        BY <3>1, <3>2, RowsStep
  <2>11. ASSUME NEW p \in Password, Commit(q, p)
         PROVE  RowsFine'
    <3>1. req' = [Noting(p) EXCEPT ![q] = Done]
      BY <2>11 DEF Commit
    <3>2. req' \in [Req -> ReqState] /\ \A r \in Req : Fine(req'[r])
      BY <3>1, RowsNoted, DoneFine, DoneTyped
    <3>3. QED
      BY <3>2 DEF RowsFine
  <2>12. QED
    BY <1>4, <2>2, <2>3, <2>4, <2>5, <2>6, <2>7, <2>8, <2>9, <2>10, <2>11 DEF Step
<1>5. ASSUME NEW p \in Password, SetByCli(p) PROVE RowsFine'
  BY <1>5, RowsNoted DEF SetByCli, RowsFine
<1>6. ASSUME Restart PROVE RowsFine'
  BY <1>6, DoneFine, DoneTyped DEF Restart, RowsFine
<1>7. ASSUME NEW q \in Req, Cancel(q) PROVE RowsFine'
  BY <1>7, RowsEnd DEF Cancel
<1>8. QED
  BY <1>1, <1>2, <1>3, <1>4, <1>5, <1>6, <1>7
     DEF Next, OrphanEnds, Expire, BackoffEnds, vars

-----------------------------------------------------------------------------------
LEMMA CountersTyped ==
  ASSUME SessionTypeOK, [Next]_vars
  PROVE  hash' \in Password /\ orphans' \in 0..MaxOrphans /\ blocked' \in BOOLEAN
<1> USE SessionsAssumption DEF SessionTypeOK
<1>1. ASSUME NEW q \in Req, Cancel(q)
      PROVE  orphans' \in 0..MaxOrphans
  BY <1>1 DEF Cancel
<1>2. ASSUME OrphanEnds \/ Restart
      PROVE  orphans' \in 0..MaxOrphans
  BY <1>2 DEF OrphanEnds, Restart
<1>3. orphans' \in 0..MaxOrphans
  BY <1>1, <1>2
     DEF Next, Step, SignIn, Arrive, Wait, Select, Touch, Cleanup, Insert, Verify, Derive,
         Delete, ReadHash, Commit, TakeSlot, SetByCli, Expire, BackoffEnds, vars
<1>4. hash' \in Password
  BY DEF Next, Step, SignIn, Arrive, Wait, Select, Touch, Cleanup, Insert, Verify, Derive,
         Delete, ReadHash, Commit, TakeSlot, Cancel, OrphanEnds, SetByCli, SetPassword,
         Expire, BackoffEnds, Restart, vars
<1>5. ASSUME NEW q \in Req, Verify(q)
      PROVE  blocked' \in BOOLEAN
  BY <1>5 DEF Verify
<1>6. blocked' \in BOOLEAN
  BY <1>5
     DEF Next, Step, SignIn, Arrive, Wait, Select, Touch, Cleanup, Insert, Derive,
         Delete, ReadHash, Commit, TakeSlot, Cancel, OrphanEnds, SetByCli,
         Expire, BackoffEnds, Restart, vars
<1>7. QED
  BY <1>3, <1>4, <1>6

LEMMA RevocationStep ==
  ASSUME IInv, [Next]_vars
  PROVE  ChangeRevokesOthers'
<1>1. CASE SessionsDeleted
  BY <1>1 DEF SessionsDeleted, ChangeRevokesOthers
<1>2. ASSUME NEW q \in Req, NEW s \in SessionId, Insert(q, s)
      PROVE  ChangeRevokesOthers'
  BY <1>2 DEF Insert, IInv, SessionTypeOK, ChangeRevokesOthers, Stored
<1>3. ASSUME NEW s \in SessionId, Expire(s)
      PROVE  ChangeRevokesOthers'
  BY <1>3 DEF Expire, IInv, SessionTypeOK, ChangeRevokesOthers, Stored
<1>4. QED
  BY <1>1, <1>2, <1>3, SessionSteps

LEMMA Inductive == IInv /\ [Next]_vars => IInv'
<1> SUFFICES ASSUME IInv, [Next]_vars
             PROVE  IInv'
  OBVIOUS
<1>1. RowsFine /\ hash \in Password
  BY RowsSuffice DEF IInv, SessionTypeOK, ReqState
<1>2. RowsFine'
  BY <1>1, RequestSteps
<1>3. (Routed /\ HeldSinceRead /\ AdmittedByPassword)' /\ req' \in [Req -> ReqState]
  BY <1>2 DEF RowsFine, Fine, Routed, HeldSinceRead, AdmittedByPassword
<1>4. SessionTypeOK'
  BY <1>3, CountersTyped, SessionSteps DEF IInv, SessionTypeOK, ReqState
<1>5. QED
  BY <1>3, <1>4, RevocationStep DEF IInv

LEMMA Invariance == Spec => []IInv
  BY InitIInv, Inductive, PTL DEF Spec

(* After a password change no session but the one that made it and those      *)
(* signed in since is in the table (change_password, set_password_cli).       *)
THEOREM ChangeAlwaysRevokesOthers == Spec => []ChangeRevokesOthers
<1>1. IInv => ChangeRevokesOthers
  BY DEF IInv
<1>2. QED
  BY <1>1, Invariance, PTL

(* Nobody passes the password check with a password that was not the          *)
(* administrator's while the request ran (verify_password_async after the     *)
(* hash was read and a permit awaited).                                       *)
THEOREM AlwaysAdmittedByPassword == Spec => []AdmittedByPassword
<1>1. IInv => AdmittedByPassword
  BY DEF IInv
<1>2. QED
  BY <1>1, Invariance, PTL

(* No session comes back from its deletion or its expiry (sign_out,           *)
(* change_password, and the UPDATE of last_seen_at in authenticate).          *)
THEOREM SessionsAlwaysOnlyDecline == Spec => SessionsOnlyDecline
<1> DEFINE Declines ==
      \A s \in SessionId :
        /\ session[s] = "gone" => session'[s] = "gone"
        /\ session[s] = "expired" => session'[s] \in {"expired", "gone"}
<1>1. ASSUME IInv, [Next]_vars
      PROVE  Declines
  <2>1. CASE SessionsDeleted
    BY <2>1 DEF SessionsDeleted
  <2>2. ASSUME NEW q \in Req, NEW r \in SessionId, Insert(q, r)
        PROVE  Declines
    BY <1>1, <2>2 DEF Insert, IInv, SessionTypeOK
  <2>3. ASSUME NEW r \in SessionId, Expire(r)
        PROVE  Declines
    BY <1>1, <2>3 DEF Expire, IInv, SessionTypeOK
  <2>4. QED
    BY <1>1, <2>1, <2>2, <2>3, SessionSteps
<1>2. IInv /\ [Next]_vars => [Declines]_vars
  BY <1>1
<1>3. QED
  BY <1>2, Invariance, PTL DEF Spec, SessionsOnlyDecline
===================================================================================
