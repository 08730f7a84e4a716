-------------------------------- MODULE Sessions --------------------------------
(***************************************************************************)
(* The administrator's password and sessions (auth.rs, routes/session.rs,  *)
(* require_session): one password hash in SQLite, one row per session, the *)
(* permits that bound Argon2 and the back-off after a failed sign-in.      *)
(* Every await is a step of its own, so a sign-in that read the hash, or a *)
(* request that passed require_session, may meet a password change before  *)
(* it goes on.  A hash stands for the password it was made of: verifying   *)
(* is comparing.  The clock only lets sessions expire and back-offs end.   *)
(* A statement that fails ends its request as a cancelled one does.        *)
(***************************************************************************)
EXTENDS Naturals, FiniteSets

CONSTANTS
    Password,   \* passwords somebody may send
    SessionId,  \* session UUIDs (a bound of the model: each is minted once)
    Req,        \* requests that may be under way at once
    Slots,      \* PASSWORD_HASH_SLOTS
    MaxOrphans, \* Argon2 tasks without a request, up to this bound of the model
    NoSession,  \* a request without a session
    NoHash      \* no password, no hash

ASSUME SessionsAssumption ==
    /\ Slots \in Nat \ {0}
    /\ MaxOrphans \in Nat
    /\ NoSession \notin SessionId
    /\ NoHash \notin Password

VARIABLES
    hash,     \* admins.password_hash
    session,  \* session[s]: how far the row of session s has come
    req,      \* req[q]: how far request q has come
    orphans,  \* Argon2 tasks that run on after their request was dropped
    blocked,  \* LoginThrottle: blocked_until is in the future
    survivors \* sessions that may be live: the one that made the last change
              \* of the password, and those signed in since

vars == <<hash, session, req, orphans, blocked, survivors>>

Kind == {"signIn", "change", "signOut", "call"}

Pc == {"idle",
       "wait", "sleep",            \* LoginThrottle::wait
       "auth", "touch",            \* authenticate: its SELECT, its UPDATE
       "purge",                    \* cleanup_expired_sessions before a 401
       "read", "slot", "verify",   \* SELECT of the hash, permit, Argon2
       "slot2", "derive",          \* permit and Argon2 for the next password
       "commit",                   \* the transaction of change_password
       "delete",                   \* delete_session
       "cleanup", "insert"}        \* create_session

\* New, in the table, past expires_at but still in the table, deleted.
Stage == {"new", "live", "expired", "gone"}

SessionTypeOK ==
    /\ hash \in Password
    /\ session \in [SessionId -> Stage]
    /\ req \in [Req -> [kind: Kind, pc: Pc, as: SessionId \cup {NoSession},
                        password: Password \cup {NoHash}, read: Password \cup {NoHash},
                        held: BOOLEAN]]
    /\ orphans \in 0..MaxOrphans
    /\ blocked \in BOOLEAN
    /\ survivors \subseteq SessionId

Stored(s) == session[s] \in {"live", "expired"}

Hashing(q) == req[q].pc \in {"verify", "derive"}

\* Requests that hold a permit: exactly while they wait for Argon2.
Holders == {q \in Req : Hashing(q)}

At(q, pc) == req[q].pc = pc

Goto(q, pc) == req' = [req EXCEPT ![q].pc = pc]

Done == [kind |-> "call", pc |-> "idle", as |-> NoSession,
         password |-> NoHash, read |-> NoHash, held |-> FALSE]

End(q) == req' = [req EXCEPT ![q] = Done]

\* The sessions after DELETE FROM sessions of the rows of S.
Without(S) == [s \in SessionId |-> IF Stored(s) /\ s \in S THEN "gone" ELSE session[s]]

\* `held` notes for the properties that the password a request carries has been
\* the administrator's at some moment since the request read the hash.
Noting(p) == [q \in Req |-> [req[q] EXCEPT !.held = @ \/ (req[q].password = p)]]

\* The password is right; neither it nor the hash is used again.
Admit(q) ==
    req' = [req EXCEPT ![q].password = NoHash, ![q].read = NoHash,
                       ![q].pc = IF req[q].kind = "signIn" THEN "cleanup" ELSE "slot2"]

---------------------------------------------------------------------------------
(* Mistakes a change to the handlers could make, to see that the properties  *)
(* notice.                                                                   *)

\* A change takes the session for proof enough.
VerifySignInsOnly(q) ==
    LET valid == req[q].kind = "change" \/ req[q].password = req[q].read IN
    /\ At(q, "verify")
    /\ IF valid THEN Admit(q) ELSE End(q)
    /\ blocked' = IF req[q].kind = "signIn" THEN ~valid ELSE blocked
    /\ UNCHANGED <<hash, session, orphans, survivors>>

\* Every use of a session renews it.
TouchRenewing(q) ==
    /\ At(q, "touch")
    /\ session' = IF Stored(req[q].as) THEN [session EXCEPT ![req[q].as] = "live"] ELSE session
    /\ CASE req[q].kind = "change"  -> Goto(q, "read")
         [] req[q].kind = "signOut" -> Goto(q, "delete")
         [] OTHER                   -> End(q)
    /\ UNCHANGED <<hash, orphans, blocked, survivors>>

\* A change deletes the sessions that are live, and leaves the expired ones.
SetPasswordOverLive(p, S) ==
    /\ hash' = p
    /\ session' = Without({s \in SessionId \ S : session[s] = "live"})
    /\ survivors' = S

\* The delay is read again after the sleep.
WaitAgain(q) ==
    /\ \/ At(q, "wait") /\ Goto(q, IF blocked THEN "sleep" ELSE "read")
       \/ At(q, "sleep") /\ Goto(q, "wait")
    /\ UNCHANGED <<hash, session, orphans, blocked, survivors>>

---------------------------------------------------------------------------------
\* The state after the first start (bootstrap_admin).
Init ==
    /\ hash \in Password
    /\ session = [s \in SessionId |-> "new"]
    /\ req = [q \in Req |-> Done]
    /\ orphans = 0
    /\ blocked = FALSE
    /\ survivors = {}

\* Sign-ins are admitted while there are UUIDs left for them (the bound of SessionId).
SignIn(q) ==
    /\ At(q, "idle")
    /\ Cardinality({r \in Req : req[r].kind = "signIn"}) < Cardinality({s \in SessionId : session[s] = "new"})
    /\ req' = [req EXCEPT ![q] = [Done EXCEPT !.kind = "signIn", !.pc = "wait"]]
    /\ UNCHANGED <<hash, session, orphans, blocked, survivors>>

\* Any other request brings the cookie of a session, deleted or not.
Arrive(q, kind, s) ==
    /\ At(q, "idle")
    /\ session[s] # "new"
    /\ req' = [req EXCEPT ![q] = [Done EXCEPT !.kind = kind, !.pc = "auth", !.as = s]]
    /\ UNCHANGED <<hash, session, orphans, blocked, survivors>>

\* The delay is read once; failures of others while it passes do not extend it.
Wait(q) ==
    /\ \/ At(q, "wait") /\ Goto(q, IF blocked THEN "sleep" ELSE "read")
       \/ At(q, "sleep") /\ Goto(q, "read")
    /\ UNCHANGED <<hash, session, orphans, blocked, survivors>>

\* authenticate: the SELECT ...
Select(q) ==
    /\ At(q, "auth")
    /\ Goto(q, IF session[req[q].as] = "live" THEN "touch" ELSE "purge")
    /\ UNCHANGED <<hash, session, orphans, blocked, survivors>>

\* ... the UPDATE of last_seen_at, which moves no expiry, and on to the handler ...
Touch(q) ==
    /\ At(q, "touch")
    /\ CASE req[q].kind = "change"  -> Goto(q, "read")
         [] req[q].kind = "signOut" -> Goto(q, "delete")
         [] OTHER                   -> End(q)
    /\ UNCHANGED <<hash, session, orphans, blocked, survivors>>

\* ... or cleanup_expired_sessions and a 401; create_session begins with it too.
Cleanup(q) ==
    /\ \/ At(q, "purge") /\ End(q)
       \/ At(q, "cleanup") /\ Goto(q, "insert")
    /\ session' = Without({s \in SessionId : session[s] = "expired"})
    /\ UNCHANGED <<hash, orphans, blocked, survivors>>

Insert(q, s) ==
    /\ At(q, "insert")
    /\ session[s] = "new"
    /\ session' = [session EXCEPT ![s] = "live"]
    /\ survivors' = survivors \cup {s}
    /\ End(q)
    /\ UNCHANGED <<hash, orphans, blocked>>

\* Which password p the request brought along matters from here on.
ReadHash(q, p) ==
    /\ At(q, "read")
    /\ req' = [req EXCEPT ![q].pc = "slot", ![q].read = hash,
                          ![q].password = p, ![q].held = (p = hash)]
    /\ UNCHANGED <<hash, session, orphans, blocked, survivors>>

\* password_hash_slot, and the blocking task starts.
TakeSlot(q) ==
    /\ Cardinality(Holders) < Slots
    /\ \/ At(q, "slot") /\ Goto(q, "verify")
       \/ At(q, "slot2") /\ Goto(q, "derive")
    /\ UNCHANGED <<hash, session, orphans, blocked, survivors>>

\* verify_password_async answers; a sign-in settles the throttle with it.
Verify(q) ==
    LET valid == req[q].password = req[q].read IN
    /\ At(q, "verify")
    /\ IF valid THEN Admit(q) ELSE End(q)
    /\ blocked' = IF req[q].kind = "signIn" THEN ~valid ELSE blocked
    /\ UNCHANGED <<hash, session, orphans, survivors>>

\* hash_password_async answers.
Derive(q) ==
    /\ At(q, "derive")
    /\ Goto(q, "commit")
    /\ UNCHANGED <<hash, session, orphans, blocked, survivors>>

\* The hash becomes p in a transaction that leaves the sessions of S.
SetPassword(p, S) ==
    /\ hash' = p
    /\ session' = Without(SessionId \ S)
    /\ survivors' = S

\* The transaction of change_password, with the next password p; sqlx rolls it
\* back when it is dropped before its COMMIT.
Commit(q, p) ==
    /\ At(q, "commit")
    /\ SetPassword(p, {req[q].as})
    /\ req' = [Noting(p) EXCEPT ![q] = Done]
    /\ UNCHANGED <<orphans, blocked>>

\* sign_out: delete_session.
Delete(q) ==
    /\ At(q, "delete")
    /\ session' = Without({req[q].as})
    /\ End(q)
    /\ UNCHANGED <<hash, orphans, blocked, survivors>>

\* The client goes away, or a statement fails.  The permit is a local of the
\* handler; the blocking task is not and runs on.
Cancel(q) ==
    /\ ~At(q, "idle")
    /\ orphans' = IF Hashing(q) THEN orphans + 1 ELSE orphans
    /\ orphans' <= MaxOrphans
    /\ End(q)
    /\ UNCHANGED <<hash, session, blocked, survivors>>

OrphanEnds ==
    /\ orphans > 0
    /\ orphans' = orphans - 1
    /\ UNCHANGED <<hash, session, req, blocked, survivors>>

\* set_password_cli, from a process of its own.
SetByCli(p) ==
    /\ SetPassword(p, {})
    /\ req' = Noting(p)
    /\ UNCHANGED <<orphans, blocked>>

Expire(s) ==
    /\ session[s] = "live"
    /\ session' = [session EXCEPT ![s] = "expired"]
    /\ UNCHANGED <<hash, req, orphans, blocked, survivors>>

BackoffEnds ==
    /\ blocked
    /\ blocked' = FALSE
    /\ UNCHANGED <<hash, session, req, orphans, survivors>>

\* A start keeps the password and deletes the expired sessions.
Restart ==
    /\ session' = Without({s \in SessionId : session[s] = "expired"})
    /\ req' = [q \in Req |-> Done]
    /\ orphans' = 0
    /\ blocked' = FALSE
    /\ UNCHANGED <<hash, survivors>>

Step(q) ==
    \/ Wait(q) \/ Select(q) \/ Touch(q) \/ Cleanup(q)
    \/ Verify(q) \/ Derive(q) \/ Delete(q)
    \/ \E s \in SessionId : Insert(q, s)
    \/ \E p \in Password : ReadHash(q, p) \/ Commit(q, p)

Next ==
    \/ \E q \in Req : SignIn(q)
    \/ \E q \in Req, kind \in Kind \ {"signIn"}, s \in SessionId : Arrive(q, kind, s)
    \/ \E q \in Req : Step(q)
    \/ \E q \in Req : TakeSlot(q)
    \/ \E q \in Req : Cancel(q)
    \/ OrphanEnds
    \/ \E p \in Password : SetByCli(p)
    \/ \E s \in SessionId : Expire(s)
    \/ BackoffEnds
    \/ Restart

\* The runtime polls every handler; a tokio semaphore hands out its permits in
\* the order they were asked for.
Fairness == \A q \in Req : WF_vars(Step(q)) /\ SF_vars(TakeSlot(q))

Spec == Init /\ [][Next]_vars /\ Fairness

---------------------------------------------------------------------------------
(* After a password change, no session but the one that made it and those    *)
(* signed in since is in the table, whatever sign-ins, sign-outs and other   *)
(* changes were under way (change_password, set_password_cli).               *)
ChangeRevokesOthers == \A s \in SessionId : Stored(s) => s \in survivors

(* Nobody is let past the password check with a password that was not the    *)
(* administrator's while its request ran, although the hash is read before   *)
(* the wait for a permit and compared after it.                              *)
AdmittedByPassword ==
    \A q \in Req :
        \/ req[q].kind = "signIn" /\ req[q].pc \in {"cleanup", "insert"}
        \/ req[q].kind = "change" /\ req[q].pc \in {"slot2", "derive", "commit"}
        => req[q].held

(* A session never comes back: not after sign-out or a change of the         *)
(* password, and not after its expiry by a request that authenticated before *)
(* it and writes last_seen_at after it.                                      *)
SessionsOnlyDecline ==
    [][\A s \in SessionId :
         /\ session[s] = "gone" => session'[s] = "gone"
         /\ session[s] = "expired" => session'[s] \in {"expired", "gone"}]_vars

(* Every request comes to an end: permits come back from requests that fail  *)
(* or are cancelled, and no back-off holds a sign-in for ever.               *)
EveryRequestEnds == \A q \in Req : ~At(q, "idle") ~> At(q, "idle")

(* architecture.md: at most two Argon2 operations run concurrently per       *)
(* service process.                                                          *)
HashWorkBounded == Cardinality(Holders) + orphans <= Slots
=================================================================================
