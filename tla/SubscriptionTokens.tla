---------------------------- MODULE SubscriptionTokens ----------------------------
(***************************************************************************)
(* The stable URLs of a project: the access_tokens table, its handlers and *)
(* the public fetch GET /sub/{token} (storage.rs, routes/tokens.rs,        *)
(* routes/public.rs), composed with RevisionStore.  A fetch is two         *)
(* autocommit statements: it selects the served bytes and then stamps      *)
(* last_used_at, and anything may commit between the two.  Token settings  *)
(* are edited from a form that shows what a page listed earlier.           *)
(***************************************************************************)
EXTENDS RevisionStore

CONSTANTS
    TokenId, \* UUIDs that tokens may be given
    Client,  \* subscribers
    MaxTime, \* the clock stops here: a bound of the model
    NoTime,  \* a NULL timestamp: never expires, not revoked, never used
    NoForm   \* a page with no token form open

Time == 0..MaxTime

TokenRow ==
    [project: ProjectId, name: Name, expires: Time \cup {NoTime},
     revoked: Time \cup {NoTime}, lastUsed: Time \cup {NoTime}]

Form == [token: TokenId, name: Name, expires: Time \cup {NoTime}]

ASSUME TokenAssumption ==
    /\ MaxTime \in Nat
    /\ NoTime \notin Time
    /\ NoRow \notin TokenRow
    /\ NoForm \notin Form

VARIABLES
    token,     \* the access_tokens table
    issued,    \* the token UUIDs drawn so far
    form,      \* form[pg]: the token settings page pg shows, or NoForm
    now,       \* unix_timestamp()
    fetch,     \* fetch[c]: how far the fetch of subscriber c has come
    delivered  \* delivered[c][t]: number of the revision c last received through t

tokenVars == <<token, issued, form, now, fetch, delivered>>

allVars == <<vars, tokenVars>>

ServedNo(p) == revision[project[p].served].no

IsActive(t) == token[t] # NoRow /\ token[t].revoked = NoTime

IsValid(t, at) == IsActive(t) /\ (token[t].expires = NoTime \/ token[t].expires > at)

\* A fetch reads the clock when it begins and compares expiries with that time;
\* `floor`, for the properties only, is what was served by then.
FetchState ==
    [phase: {"idle", "begun", "selected"}, token: TokenId \cup {NoRow},
     at: Time, floor: Nat, no: Nat]

Idle == [phase |-> "idle", token |-> NoRow, at |-> 0, floor |-> 0, no |-> 0]

TokenTypeOK ==
    /\ token \in [TokenId -> TokenRow \cup {NoRow}]
    /\ issued \subseteq TokenId
    /\ form \in [Page -> Form \cup {NoForm}]
    /\ now \in Time
    /\ fetch \in [Client -> FetchState]
    /\ delivered \in [Client -> [TokenId -> Nat]]

-----------------------------------------------------------------------------------
(* Mistakes a change to the handlers could make, as in RevisionStore.          *)

\* The subscription joins the draft instead of the served revision.
SelectedDraftNo(t) == revision[project[token[t].project].current].no

\* The edit of a token compares the settings only.
MayEditRevoked(t, f) ==
    token[t] # NoRow /\ token[t].name = f.name /\ token[t].expires = f.expires

\* A delete whose cascade misses the tokens.
DeleteProjectOnly(p) == DeleteProject(p) /\ UNCHANGED tokenVars

-----------------------------------------------------------------------------------
\* The join of subscription_at: the bytes of the served revision.
SelectedNo(t) == ServedNo(token[t].project)

\* UPDATE access_tokens ... WHERE revoked_at IS NULL AND the settings are as expected.
MayEdit(t, f) ==
    /\ IsActive(t)
    /\ token[t].name = f.name
    /\ token[t].expires = f.expires

TokenInit ==
    /\ Init
    /\ token = [t \in TokenId |-> NoRow]
    /\ issued = {}
    /\ form = [pg \in Page |-> NoForm]
    /\ now = 0
    /\ fetch = [c \in Client |-> Idle]
    /\ delivered = [c \in Client |-> [t \in TokenId |-> 0]]

Tick ==
    /\ now < MaxTime
    /\ now' = now + 1
    /\ UNCHANGED <<vars, token, issued, form, fetch, delivered>>

\* The expiry was compared with the clock before the write lock was awaited,
\* so it may be in the past by the time the row is written.
CreateToken(p, t, n, e) ==
    /\ p \in Live /\ t \notin issued
    /\ issued' = issued \cup {t}
    /\ token' = [token EXCEPT ![t] =
         [project |-> p, name |-> n, expires |-> e, revoked |-> NoTime, lastUsed |-> NoTime]]
    /\ UNCHANGED <<vars, form, now, fetch, delivered>>

\* A page lists the tokens and opens the form of one.
OpenForm(pg, t) ==
    /\ token[t] # NoRow
    /\ form' = [form EXCEPT ![pg] = [token |-> t, name |-> token[t].name, expires |-> token[t].expires]]
    /\ UNCHANGED <<vars, token, issued, now, fetch, delivered>>

UpdateToken(pg, n, e) ==
    LET t == form[pg].token IN
    /\ form[pg] # NoForm
    /\ MayEdit(t, form[pg])
    /\ token' = [token EXCEPT ![t].name = n, ![t].expires = e]
    /\ UNCHANGED <<vars, issued, form, now, fetch, delivered>>

RevokeToken(t) ==
    /\ IsActive(t)
    /\ token' = [token EXCEPT ![t].revoked = now]
    /\ UNCHANGED <<vars, issued, form, now, fetch, delivered>>

DeleteRevokedToken(t) ==
    /\ token[t] # NoRow /\ token[t].revoked # NoTime
    /\ token' = [token EXCEPT ![t] = NoRow]
    /\ UNCHANGED <<vars, issued, form, now, fetch, delivered>>

\* ON DELETE CASCADE reaches the tokens of the project.
DeleteProjectAndTokens(p) ==
    /\ DeleteProject(p)
    /\ token' = [t \in TokenId |->
                   IF token[t] # NoRow /\ token[t].project = p THEN NoRow ELSE token[t]]
    /\ UNCHANGED <<issued, form, now, fetch, delivered>>

FetchBegin(c, t) ==
    /\ fetch[c].phase = "idle"
    /\ t \in issued
    /\ fetch' = [fetch EXCEPT ![c] =
         [Idle EXCEPT !.phase = "begun", !.token = t, !.at = now,
                      !.floor = IF token[t] # NoRow THEN ServedNo(token[t].project) ELSE 0]]
    /\ UNCHANGED <<vars, token, issued, form, now, delivered>>

FetchSelect(c) ==
    LET t == fetch[c].token IN
    /\ fetch[c].phase = "begun"
    /\ IF IsValid(t, fetch[c].at)
         THEN fetch' = [fetch EXCEPT ![c].phase = "selected", ![c].no = SelectedNo(t)]
         ELSE fetch' = [fetch EXCEPT ![c] = Idle]     \* token.not_found
    /\ UNCHANGED <<vars, token, issued, form, now, delivered>>

\* The stamp does not look at revoked_at, and finds no row once the token is gone.
FetchStamp(c) ==
    LET t == fetch[c].token IN
    /\ fetch[c].phase = "selected"
    /\ token' = IF token[t] # NoRow THEN [token EXCEPT ![t].lastUsed = now] ELSE token
    /\ delivered' = [delivered EXCEPT ![c][t] = fetch[c].no]
    /\ fetch' = [fetch EXCEPT ![c] = Idle]
    /\ UNCHANGED <<vars, issued, form, now>>

\* The stamp fails (a writer held the database too long): the fetch is a 500.
FetchFail(c) ==
    /\ fetch[c].phase = "selected"
    /\ fetch' = [fetch EXCEPT ![c] = Idle]
    /\ UNCHANGED <<vars, token, issued, form, now, delivered>>

\* The handlers of RevisionStore that touch no token.
StoreStep ==
    /\ \/ \E pg \in Page, p \in ProjectId, r \in RevisionId, n \in Name, b \in Bytes :
            CreateProject(pg, p, r, n, b)
       \/ \E pg \in Page, p \in ProjectId : GetProject(pg, p)
       \/ \E pg \in Page, b \in Bytes : SaveUnchanged(pg, b)
       \/ \E pg \in Page, b \in Bytes, r \in RevisionId : SaveRevision(pg, b, r)
       \/ \E pg \in Page : PublishProject(pg)
       \/ \E p \in ProjectId, n \in Name : RenameProject(p, n)
    /\ UNCHANGED tokenVars

Expiries == (Time \ {0}) \cup {NoTime}

TokenNext ==
    \/ StoreStep
    \/ Tick
    \/ \E p \in ProjectId : DeleteProjectAndTokens(p)
    \/ \E p \in ProjectId, t \in TokenId, n \in Name, e \in Expiries : CreateToken(p, t, n, e)
    \/ \E pg \in Page, t \in TokenId : OpenForm(pg, t)
    \/ \E pg \in Page, n \in Name, e \in Expiries : UpdateToken(pg, n, e)
    \/ \E t \in TokenId : RevokeToken(t) \/ DeleteRevokedToken(t)
    \/ \E c \in Client, t \in TokenId : FetchBegin(c, t)
    \/ \E c \in Client : FetchSelect(c) \/ FetchStamp(c) \/ FetchFail(c)

TokenSpec == TokenInit /\ [][TokenNext]_allVars

-----------------------------------------------------------------------------------
(* Every token leads to a live project, also while its project is being      *)
(* deleted by somebody else: no stable URL outlives its project.             *)
TokensOwned == \A t \in TokenId : token[t] # NoRow => token[t].project \in Live

(* A fetch answers with a revision that was served at some moment between    *)
(* its beginning and its end, whatever was saved, published, edited or       *)
(* revoked meanwhile: never an unpublished draft, never an older version.    *)
FetchLinearizable ==
    \A c \in Client :
      LET t == fetch[c].token IN
      fetch[c].phase = "selected" /\ token[t] # NoRow
      => fetch[c].floor <= fetch[c].no /\ fetch[c].no <= ServedNo(token[t].project)

(* A subscriber that polls one stable URL never sees the configuration go    *)
(* back to an earlier revision.                                              *)
MonotoneFetches ==
    [][\A c \in Client, t \in TokenId : delivered'[c][t] >= delivered[c][t]]_allVars

(* A revoked token is final: a form opened before the revocation, a second   *)
(* revocation or a late stamp changes none of its settings nor the time of   *)
(* its revocation, and it leaves only by a purge.                            *)
RevocationFinal ==
    [][\A t \in TokenId :
         token[t] # NoRow /\ token[t].revoked # NoTime /\ token'[t] # NoRow
         => [token'[t] EXCEPT !.lastUsed = NoTime] = [token[t] EXCEPT !.lastUsed = NoTime]]_allVars
===================================================================================
