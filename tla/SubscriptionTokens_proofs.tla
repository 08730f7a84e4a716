------------------------- MODULE SubscriptionTokens_proofs -------------------------
(***************************************************************************)
(* Theorems about SubscriptionTokens for every set of projects, tokens and *)
(* subscribers and every bound of the clock.  They stand on the invariant  *)
(* IInv of RevisionStore, which every step of TokenNext preserves because  *)
(* what it does to the tables of RevisionStore is a step of Next.          *)
(***************************************************************************)
EXTENDS SubscriptionTokens, RevisionStore_proofs

\* A stored token was issued, and nothing was delivered through one that was not.
TokensIssued ==
    \A t \in TokenId :
      /\ token[t] # NoRow => t \in issued
      /\ t \notin issued => \A c \in Client : delivered[c][t] = 0

\* What subscriber c has under way, and what it received.  The number a fetch
\* began with lies between what was delivered before and what is served; so does
\* the number it selected; and nothing newer than the served revision was ever
\* delivered.
FetchFine(c) ==
    LET f == fetch[c]
        t == fetch[c].token
    IN
    /\ f.phase # "idle" => t \in issued
    /\ f.phase = "begun" /\ token[t] # NoRow
         => delivered[c][t] <= f.floor /\ f.floor <= ServedNo(token[t].project)
    /\ f.phase = "selected" => delivered[c][t] <= f.no
    /\ f.phase = "selected" /\ token[t] # NoRow
         => f.floor <= f.no /\ f.no <= ServedNo(token[t].project)
    /\ \A u \in TokenId : token[u] # NoRow => delivered[c][u] <= ServedNo(token[u].project)

TokenIInv ==
    /\ IInv
    /\ TokenTypeOK
    /\ TokensIssued
    /\ TokensOwned
    /\ \A c \in Client : FetchFine(c)

-----------------------------------------------------------------------------------
LEMMA StepIsStoreStep == [TokenNext]_allVars => [Next]_vars
  BY DEF TokenNext, Next, allVars, StoreStep, Tick, DeleteProjectAndTokens, CreateToken, OpenForm,
         UpdateToken, RevokeToken, DeleteRevokedToken, FetchBegin, FetchSelect, FetchStamp,
         FetchFail

LEMMA ServedNoTyped ==
  ASSUME IInv, NEW p \in Live
  PROVE  ServedNo(p) \in Nat
  BY PointedRows, StoredRows DEF IInv, ServedNo

(* While a project lives, the number of its served revision never decreases.  *)
LEMMA ServedNoGrows ==
  ASSUME IInv, [Next]_vars, NEW p \in Live, p \in Live'
  PROVE  /\ ServedNo(p) \in Nat /\ ServedNo(p)' \in Nat
         /\ ServedNo(p) <= ServedNo(p)'
<1> USE DEF IInv
<1>0. IInv'
  BY Inductive
<1>1. ServedNo(p) \in Nat
  BY ServedNoTyped
<1>2. ServedNo(p)' \in Nat
  BY <1>0, PointersOwned', TypeOK', SentinelAssumption
     DEF PointersOwned, TypeOK, RevisionsOf, RevisionRow, Live, ServedNo
<1>3. /\ project[p].current \in RevisionsOf(p) /\ project[p].served \in RevisionsOf(p)
      /\ \A s \in RevisionsOf(p) : s \in RevisionId /\ revision[s] # NoRow
  BY PointedRows DEF RevisionsOf
<1>4. ASSUME NEW pg \in Page, NEW q \in ProjectId, NEW r \in RevisionId,
             NEW n \in Name, NEW b \in Bytes, CreateProject(pg, q, r, n, b)
      PROVE  ServedNo(p)' = ServedNo(p)
  BY <1>3, <1>4, CreateShape DEF ServedNo
<1>5. ASSUME NEW pg \in Page, NEW b \in Bytes, NEW r \in RevisionId, SaveRevision(pg, b, r)
      PROVE  ServedNo(p)' = ServedNo(p)
  <2>0. PICK q, cur : q = view[pg].project /\ cur = project[q].current
    OBVIOUS
  <2>1. QED
    BY <1>3, <1>5, <2>0, SaveShape DEF ServedNo
<1>6. ASSUME NEW q \in ProjectId, DeleteProject(q)
      PROVE  ServedNo(p)' = ServedNo(p)
  BY <1>3, <1>6, DeleteShape DEF ServedNo
<1>7. ASSUME Quiet
      PROVE  ServedNo(p) <= ServedNo(p)'
  <2>1. revision[project[p].served].no <= revision[project[p].current].no
    BY <1>3 DEF LinearHistory
  <2>2. QED
    BY <1>1, <1>7, <2>1 DEF Quiet, ServedNo
<1>8. QED
  BY <1>1, <1>2, <1>4, <1>5, <1>6, <1>7, StepShapes

-----------------------------------------------------------------------------------
LEMMA InitTokenIInv == TokenInit => TokenIInv
<1> SUFFICES ASSUME TokenInit
             PROVE  TokenIInv
  OBVIOUS
<1>1. IInv
  BY InitIInv DEF TokenInit
<1>2. Idle \in FetchState /\ Idle.phase = "idle" /\ 0 \in Time
  BY TokenAssumption DEF Idle, FetchState, Time
<1>3. TokenTypeOK
  BY <1>2 DEF TokenInit, TokenTypeOK
<1>4. QED
  BY <1>1, <1>2, <1>3
     DEF TokenInit, TokenIInv, TokensIssued, TokensOwned, FetchFine

LEMMA NextTokenTypeOK ==
  ASSUME TokenIInv, [TokenNext]_allVars
  PROVE  TokenTypeOK'
<1> USE TokenAssumption DEF TokenIInv, TokenTypeOK
<1>1. CASE StoreStep
  BY <1>1 DEF StoreStep, tokenVars
<1>2. CASE Tick
  BY <1>2 DEF Tick, Time
<1>3. ASSUME NEW p \in ProjectId, DeleteProjectAndTokens(p)
      PROVE  TokenTypeOK'
  BY <1>3 DEF DeleteProjectAndTokens
<1>4. ASSUME NEW p \in ProjectId, NEW t \in TokenId, NEW n \in Name, NEW e \in Expiries,
             CreateToken(p, t, n, e)
      PROVE  TokenTypeOK'
  BY <1>4 DEF CreateToken, TokenRow, Expiries
<1>5. ASSUME NEW pg \in Page, NEW t \in TokenId, OpenForm(pg, t)
      PROVE  TokenTypeOK'
  <2>1. [token |-> t, name |-> token[t].name, expires |-> token[t].expires] \in Form
    BY <1>5 DEF OpenForm, TokenRow, Form
  <2>2. QED
    BY <1>5, <2>1 DEF OpenForm
<1>6. ASSUME NEW pg \in Page, NEW n \in Name, NEW e \in Expiries, UpdateToken(pg, n, e)
      PROVE  TokenTypeOK'
  <2> DEFINE t == form[pg].token
  <2>1. t \in TokenId /\ token[t] \in TokenRow
    BY <1>6 DEF UpdateToken, MayEdit, IsActive, Form
  <2>2. token' = [token EXCEPT ![t] = [[token[t] EXCEPT !.name = n] EXCEPT !.expires = e]]
    BY <1>6, <2>1 DEF UpdateToken
  <2>3. [[token[t] EXCEPT !.name = n] EXCEPT !.expires = e] \in TokenRow
    BY <2>1 DEF TokenRow, Expiries
  <2>4. token' \in [TokenId -> TokenRow \cup {NoRow}]
    BY <2>1, <2>2, <2>3
  <2>5. QED
    BY <1>6, <2>4 DEF UpdateToken
<1>7. ASSUME NEW t \in TokenId, RevokeToken(t)
      PROVE  TokenTypeOK'
  <2>1. token[t] \in TokenRow
    BY <1>7 DEF RevokeToken, IsActive
  <2>2. [token[t] EXCEPT !.revoked = now] \in TokenRow
    BY <2>1 DEF TokenRow
  <2>3. QED
    BY <1>7, <2>2 DEF RevokeToken
<1>8. ASSUME NEW t \in TokenId, DeleteRevokedToken(t)
      PROVE  TokenTypeOK'
  BY <1>8 DEF DeleteRevokedToken
<1>9. ASSUME NEW c \in Client, NEW t \in TokenId, FetchBegin(c, t)
      PROVE  TokenTypeOK'
  <2> DEFINE fl == IF token[t] # NoRow THEN ServedNo(token[t].project) ELSE 0
  <2>1. fl \in Nat
    BY ServedNoTyped DEF TokensOwned
  <2> HIDE DEF fl
  <2>2. [Idle EXCEPT !.phase = "begun", !.token = t, !.at = now, !.floor = fl] \in FetchState
    BY <2>1 DEF Idle, FetchState
  <2>3. fetch' \in [Client -> FetchState]
    BY <1>9, <2>2 DEF FetchBegin, fl
  <2>4. QED
    BY <1>9, <2>3 DEF FetchBegin
<1>10. ASSUME NEW c \in Client, FetchSelect(c)
      PROVE  TokenTypeOK'
  <2> DEFINE t == fetch[c].token
  <2>1. t \in TokenId
    BY <1>10 DEF FetchSelect, FetchFine
  <2>2. IsValid(t, fetch[c].at) => SelectedNo(t) \in Nat
    BY <2>1, ServedNoTyped DEF TokensOwned, SelectedNo, IsValid, IsActive
  <2>3. Idle \in FetchState
    BY DEF Idle, FetchState, Time
  <2>4. IsValid(t, fetch[c].at) =>
          [fetch[c] EXCEPT !.phase = "selected", !.no = SelectedNo(t)] \in FetchState
    BY <2>2 DEF FetchState
  <2>5. fetch' \in [Client -> FetchState]
    BY <1>10, <2>3, <2>4 DEF FetchSelect
  <2>6. QED
    BY <1>10, <2>5 DEF FetchSelect
<1>11. ASSUME NEW c \in Client, FetchStamp(c)
      PROVE  TokenTypeOK'
  <2> DEFINE t == fetch[c].token
  <2>1. t \in TokenId /\ fetch[c].no \in Nat
    BY <1>11 DEF FetchStamp, FetchFine, FetchState
  <2>2. token[t] # NoRow => [token[t] EXCEPT !.lastUsed = now] \in TokenRow
    BY <2>1 DEF TokenRow
  <2>3. token' \in [TokenId -> TokenRow \cup {NoRow}]
    BY <1>11, <2>2 DEF FetchStamp
  <2>4. Idle \in FetchState
    BY DEF Idle, FetchState, Time
  <2>5. QED
    BY <1>11, <2>1, <2>3, <2>4 DEF FetchStamp
<1>12. ASSUME NEW c \in Client, FetchFail(c)
      PROVE  TokenTypeOK'
  <2>1. Idle \in FetchState
    BY DEF Idle, FetchState, Time
  <2>2. QED
    BY <1>12, <2>1 DEF FetchFail
<1>13. CASE UNCHANGED allVars
  BY <1>13 DEF allVars, tokenVars
<1>14. QED
  BY <1>1, <1>2, <1>3, <1>4, <1>5, <1>6, <1>7, <1>8, <1>9, <1>10, <1>11, <1>12, <1>13
     DEF TokenNext

-----------------------------------------------------------------------------------
(* What a step may do to the tokens and to the projects they lead to: a token *)
(* keeps its project and is not made again once issued, and a project leaves  *)
(* with its tokens.                                                           *)
LEMMA TokensKept ==
  ASSUME TokenIInv, [TokenNext]_allVars
  PROVE  /\ issued \subseteq issued'
         /\ \A t \in issued : token'[t] # NoRow =>
               token[t] # NoRow /\ token'[t].project = token[t].project
         /\ \A t \in TokenId : token'[t] # NoRow => token'[t].project \in Live'
         /\ \A t \in TokenId : token'[t] # NoRow => t \in issued'
<1> USE TokenAssumption DEF TokenIInv, TokenTypeOK, TokensIssued, TokensOwned
<1>1. CASE StoreStep
  <2>1. Live \subseteq Live'
    <3>1. \/ \E pg \in Page, p \in ProjectId, r \in RevisionId, n \in Name, b \in Bytes :
                CreateProject(pg, p, r, n, b)
          \/ \E pg \in Page, b \in Bytes, r \in RevisionId : SaveRevision(pg, b, r)
          \/ Quiet
      BY <1>1, QuietShape DEF StoreStep
    <3>2. \A pg \in Page, b \in Bytes, r \in RevisionId : SaveRevision(pg, b, r) => Live' = Live
      BY SaveShape
    <3>3. QED
      BY <3>1, <3>2, CreateShape DEF Quiet
  <2>2. QED
    BY <1>1, <2>1 DEF StoreStep, tokenVars
<1>2. ASSUME NEW p \in ProjectId, DeleteProjectAndTokens(p)
      PROVE  /\ issued' = issued
             /\ \A t \in TokenId : token'[t] # NoRow => token'[t] = token[t]
             /\ \A t \in TokenId : token'[t] # NoRow => token'[t].project \in Live'
  BY <1>2, DeleteShape DEF DeleteProjectAndTokens
<1>3. ASSUME UNCHANGED vars
      PROVE  Live' = Live
  BY <1>3 DEF vars, Live
<1>4. ASSUME NEW p \in ProjectId, NEW t \in TokenId, NEW n \in Name, NEW e \in Expiries,
             CreateToken(p, t, n, e)
      PROVE  /\ Live' = Live /\ issued' = issued \cup {t} /\ t \notin issued
             /\ token'[t] # NoRow => token'[t].project = p /\ p \in Live
             /\ \A s \in TokenId \ {t} : token'[s] = token[s]
  BY <1>3, <1>4 DEF CreateToken
<1>5. ASSUME NEW pg \in Page, NEW n \in Name, NEW e \in Expiries, UpdateToken(pg, n, e)
      PROVE  /\ Live' = Live /\ issued' = issued
             /\ \A s \in TokenId : token'[s] # NoRow =>
                   token[s] # NoRow /\ token'[s].project = token[s].project
  <2> DEFINE t == form[pg].token
  <2>1. t \in TokenId /\ token[t] \in TokenRow
    BY <1>5 DEF UpdateToken, MayEdit, IsActive, Form
  <2>2. token' = [token EXCEPT ![t] = [[token[t] EXCEPT !.name = n] EXCEPT !.expires = e]]
    BY <1>5, <2>1 DEF UpdateToken
  <2>3. [[token[t] EXCEPT !.name = n] EXCEPT !.expires = e].project = token[t].project
    BY <2>1 DEF TokenRow
  <2>4. QED
    BY <1>3, <1>5, <2>1, <2>2, <2>3 DEF UpdateToken
<1>6. ASSUME NEW t \in TokenId, RevokeToken(t) \/ DeleteRevokedToken(t)
      PROVE  /\ Live' = Live /\ issued' = issued
             /\ \A s \in TokenId : token'[s] # NoRow =>
                   token[s] # NoRow /\ token'[s].project = token[s].project
  BY <1>3, <1>6 DEF RevokeToken, DeleteRevokedToken, IsActive, TokenRow
<1>7. ASSUME NEW c \in Client, FetchStamp(c)
      PROVE  /\ Live' = Live /\ issued' = issued
             /\ \A s \in TokenId : token'[s] # NoRow =>
                   token[s] # NoRow /\ token'[s].project = token[s].project
  BY <1>3, <1>7 DEF FetchStamp, TokenRow
<1>8. CASE \/ Tick
           \/ \E pg \in Page, t \in TokenId : OpenForm(pg, t)
           \/ \E c \in Client, t \in TokenId : FetchBegin(c, t)
           \/ \E c \in Client : FetchSelect(c) \/ FetchFail(c)
           \/ UNCHANGED allVars
  <2>1. UNCHANGED <<vars, token, issued>>
    BY <1>8 DEF Tick, OpenForm, FetchBegin, FetchSelect, FetchFail, allVars, tokenVars
  <2>2. QED
    BY <1>3, <2>1
<1>9. QED
  BY <1>1, <1>2, <1>4, <1>5, <1>6, <1>7, <1>8 DEF TokenNext

-----------------------------------------------------------------------------------
LEMMA NextTokensIssued ==
  ASSUME TokenIInv, [TokenNext]_allVars
  PROVE  TokensIssued'
<1> USE DEF TokenIInv, TokenTypeOK, TokensIssued
<1>1. \A t \in TokenId : token'[t] # NoRow => t \in issued'
  BY TokensKept
<1>2. ASSUME NEW c \in Client, FetchStamp(c), NEW d \in Client, NEW t \in TokenId, t \notin issued
      PROVE  delivered'[d][t] = 0
  <2>1. fetch[c].token \in issued
    BY <1>2 DEF FetchStamp, FetchFine
  <2>2. QED
    BY <1>2, <2>1 DEF FetchStamp
<1>3. CASE ~\E c \in Client : FetchStamp(c)
  <2>1. delivered' = delivered
    BY <1>3 DEF TokenNext, StoreStep, Tick, DeleteProjectAndTokens, CreateToken, OpenForm, UpdateToken,
                RevokeToken, DeleteRevokedToken, FetchBegin, FetchSelect, FetchFail,
                allVars, tokenVars
  <2>2. QED
    BY <1>1, <2>1, TokensKept
<1>4. QED
  BY <1>1, <1>2, <1>3, TokensKept

(* A subscriber's state outlives the steps of everybody else.                 *)
LEMMA FetchKept ==
  ASSUME TokenIInv, [TokenNext]_allVars, NEW c \in Client,
         fetch'[c] = fetch[c], delivered'[c] = delivered[c]
  PROVE  FetchFine(c)'
<1> USE TokenAssumption DEF TokenIInv, TokenTypeOK
<1>1. ASSUME NEW t \in issued, token'[t] # NoRow
      PROVE  /\ token[t] # NoRow /\ t \in TokenId
             /\ ServedNo(token[t].project) \in Nat
             /\ ServedNo(token[t].project)' \in Nat
             /\ ServedNo(token[t].project) <= ServedNo(token[t].project)'
  <2>1. /\ token[t] # NoRow /\ t \in TokenId /\ token'[t].project = token[t].project
        /\ token[t].project \in Live /\ token[t].project \in Live'
    BY <1>1, TokensKept DEF TokensOwned
  <2>2. PICK p \in Live : p = token[t].project
    BY <2>1
  <2>3. ServedNo(p) \in Nat /\ ServedNo(p)' \in Nat /\ ServedNo(p) <= ServedNo(p)'
    BY <2>1, <2>2, ServedNoGrows, StepIsStoreStep
  <2>4. ServedNo(token[t].project) = ServedNo(p) /\ ServedNo(token[t].project)' = ServedNo(p)'
    BY <2>1, <2>2 DEF ServedNo
  <2>5. QED
    BY <2>1, <2>3, <2>4
<1>2. ASSUME NEW t \in TokenId, token'[t] # NoRow
      PROVE  delivered[c][t] <= ServedNo(token[t].project)'
  <2>1. CASE t \in issued
    BY <1>1, <1>2, <2>1 DEF FetchFine
  <2>2. CASE t \notin issued
    <3>1. delivered[c][t] = 0
      BY <2>2 DEF TokensIssued
    <3>2. token'[t].project \in Live'
      BY <1>2, TokensKept
    <3>3. PICK p \in Live' : p = token'[t].project
      BY <3>2
    <3>4. ServedNo(token[t].project)' \in Nat
      <4>1. IInv'
        BY Inductive, StepIsStoreStep
      <4>2. ServedNo(p)' \in Nat
        BY <3>3, <4>1, SentinelAssumption
           DEF IInv, PointersOwned, TypeOK, RevisionsOf, RevisionRow, Live, ServedNo
      <4>3. QED
        BY <3>3, <4>2 DEF ServedNo
    <3>5. QED
      BY <3>1, <3>4
  <2>3. QED
    BY <2>1, <2>2
<1>3. issued \subseteq issued'
  BY TokensKept
<1>4. fetch[c] \in FetchState /\ fetch[c].floor \in Nat /\ fetch[c].no \in Nat
  BY DEF FetchState
<1>5. \A t \in TokenId : delivered[c][t] \in Nat
  OBVIOUS
<1>6. QED
  BY <1>1, <1>2, <1>3, <1>4, <1>5 DEF FetchFine

LEMMA NextFetchFine ==
  ASSUME TokenIInv, [TokenNext]_allVars, NEW c \in Client
  PROVE  FetchFine(c)'
<1> USE TokenAssumption DEF TokenIInv, TokenTypeOK
<1>0. Idle.phase = "idle"
  BY DEF Idle
<1>1. ASSUME NEW t \in TokenId, FetchBegin(c, t)
      PROVE  FetchFine(c)'
  <2>1. /\ t \in issued /\ issued' = issued /\ token' = token /\ delivered' = delivered
        /\ \A p : ServedNo(p)' = ServedNo(p)
    BY <1>1 DEF FetchBegin, vars, ServedNo
  <2>2. /\ fetch'[c].phase = "begun" /\ fetch'[c].token = t
        /\ token[t] # NoRow => fetch'[c].floor = ServedNo(token[t].project)
    BY <1>1 DEF FetchBegin, Idle
  <2>3. token[t] # NoRow => ServedNo(token[t].project) \in Nat
    BY ServedNoTyped DEF TokensOwned
  <2>4. QED
    BY <2>1, <2>2, <2>3 DEF FetchFine
<1>2. CASE FetchSelect(c)
  <2> DEFINE t == fetch[c].token
  <2>1. /\ t \in issued /\ issued' = issued /\ token' = token /\ delivered' = delivered
        /\ \A p : ServedNo(p)' = ServedNo(p)
    BY <1>2 DEF FetchSelect, vars, ServedNo, FetchFine
  <2>2. CASE IsValid(t, fetch[c].at)
    <3>1. /\ fetch'[c].phase = "selected" /\ fetch'[c].token = t
          /\ fetch'[c].floor = fetch[c].floor
          /\ fetch'[c].no = ServedNo(token[t].project)
          /\ token[t] # NoRow /\ fetch[c].phase = "begun"
      BY <1>2, <2>2 DEF FetchSelect, FetchState, SelectedNo, IsValid, IsActive
    <3>2. ServedNo(token[t].project) \in Nat /\ delivered[c][t] \in Nat /\ fetch[c].floor \in Nat
      BY <2>1, <3>1, ServedNoTyped DEF TokensOwned, FetchState
    <3>3. QED
      BY <2>1, <3>1, <3>2 DEF FetchFine
  <2>3. CASE ~IsValid(t, fetch[c].at)
    <3>1. fetch'[c].phase = "idle"
      BY <1>0, <1>2, <2>3 DEF FetchSelect
    <3>2. QED
      BY <2>1, <3>1 DEF FetchFine
  <2>4. QED
    BY <2>2, <2>3
<1>3. CASE FetchStamp(c)
  <2> DEFINE t == fetch[c].token
  <2>1. /\ t \in issued /\ t \in TokenId /\ issued' = issued
        /\ \A p : ServedNo(p)' = ServedNo(p)
        /\ fetch'[c].phase = "idle"
    BY <1>0, <1>3 DEF FetchStamp, vars, ServedNo, FetchFine
  <2>2. \A u \in TokenId : delivered'[c][u] = IF u = t THEN fetch[c].no ELSE delivered[c][u]
    BY <1>3, <2>1 DEF FetchStamp
  <2>3. \A u \in TokenId : token'[u] # NoRow =>
            token[u] # NoRow /\ token'[u].project = token[u].project
    BY <1>3 DEF FetchStamp, TokenRow
  <2>4. fetch[c].phase = "selected"
    BY <1>3 DEF FetchStamp
  <2>5. QED
    BY <2>1, <2>2, <2>3, <2>4 DEF FetchFine
<1>4. CASE FetchFail(c)
  <2>1. /\ issued' = issued /\ token' = token /\ delivered' = delivered
        /\ \A p : ServedNo(p)' = ServedNo(p)
        /\ fetch'[c].phase = "idle"
    BY <1>0, <1>4 DEF FetchFail, vars, ServedNo
  <2>2. QED
    BY <2>1 DEF FetchFine
<1>5. ASSUME ~(\E t \in TokenId : FetchBegin(c, t)), ~FetchSelect(c), ~FetchStamp(c), ~FetchFail(c)
      PROVE  fetch'[c] = fetch[c] /\ delivered'[c] = delivered[c]
  <2>1. ASSUME NEW d \in Client \ {c}, NEW t \in TokenId, FetchBegin(d, t)
        PROVE  fetch'[c] = fetch[c] /\ delivered'[c] = delivered[c]
    BY <2>1 DEF FetchBegin
  <2>2. ASSUME NEW d \in Client \ {c}, FetchSelect(d) \/ FetchStamp(d) \/ FetchFail(d)
        PROVE  fetch'[c] = fetch[c] /\ delivered'[c] = delivered[c]
    BY <2>2 DEF FetchSelect, FetchStamp, FetchFail
  <2>3. CASE ~\E d \in Client : \/ \E t \in TokenId : FetchBegin(d, t)
                                \/ FetchSelect(d) \/ FetchStamp(d) \/ FetchFail(d)
    BY <2>3 DEF TokenNext, StoreStep, Tick, DeleteProjectAndTokens, CreateToken, OpenForm,
                UpdateToken, RevokeToken, DeleteRevokedToken, allVars, tokenVars
  <2>4. QED
    BY <1>5, <2>1, <2>2, <2>3
<1>6. QED
  BY <1>1, <1>2, <1>3, <1>4, <1>5, FetchKept

LEMMA TokenInductive == TokenIInv /\ [TokenNext]_allVars => TokenIInv'
<1> SUFFICES ASSUME TokenIInv, [TokenNext]_allVars
             PROVE  TokenIInv'
  OBVIOUS
<1>1. IInv'
  BY Inductive, StepIsStoreStep DEF TokenIInv
<1>2. TokensOwned'
  BY TokensKept DEF TokensOwned
<1>3. QED
  BY <1>1, <1>2, NextTokenTypeOK, NextTokensIssued, NextFetchFine DEF TokenIInv

LEMMA TokenInvariance == TokenSpec => []TokenIInv
  BY InitTokenIInv, TokenInductive, PTL DEF TokenSpec

-----------------------------------------------------------------------------------
(* No stable URL outlives its project, whoever deletes it and whenever.       *)
THEOREM TokensAlwaysOwned == TokenSpec => []TokensOwned
<1>1. TokenIInv => TokensOwned
  BY DEF TokenIInv
<1>2. QED
  BY TokenInvariance, <1>1, PTL

(* A subscriber receives a revision that was served while its request was     *)
(* under way, whatever was saved, published, edited or revoked meanwhile.     *)
THEOREM FetchesAlwaysLinearizable == TokenSpec => []FetchLinearizable
<1>1. TokenIInv => FetchLinearizable
  BY DEF TokenIInv, FetchFine, FetchLinearizable
<1>2. QED
  BY TokenInvariance, <1>1, PTL

(* A subscriber that polls one stable URL never sees an older revision after  *)
(* a newer one.                                                               *)
THEOREM FetchesAlwaysMonotone == TokenSpec => MonotoneFetches
<1>1. ASSUME TokenIInv, [TokenNext]_allVars, NEW c \in Client, NEW t \in TokenId
      PROVE  delivered'[c][t] >= delivered[c][t]
  <2> USE <1>1 DEF TokenIInv, TokenTypeOK
  <2>1. ASSUME NEW d \in Client, FetchStamp(d)
        PROVE  delivered'[c][t] >= delivered[c][t]
    <3>1. /\ fetch[d].token \in issued /\ fetch[d].no \in Nat
          /\ delivered[d][fetch[d].token] <= fetch[d].no
      BY <2>1 DEF FetchStamp, FetchFine, FetchState
    <3>2. delivered' = [delivered EXCEPT ![d][fetch[d].token] = fetch[d].no]
      BY <2>1 DEF FetchStamp
    <3>3. delivered[c][t] \in Nat
      OBVIOUS
    <3>4. QED
      BY <3>1, <3>2, <3>3
  <2>2. CASE ~\E d \in Client : FetchStamp(d)
    <3>1. delivered' = delivered
      BY <2>2 DEF TokenNext, StoreStep, Tick, DeleteProjectAndTokens, CreateToken, OpenForm,
                  UpdateToken, RevokeToken, DeleteRevokedToken, FetchBegin, FetchSelect,
                  FetchFail, allVars, tokenVars
    <3>2. QED
      BY <3>1
  <2>3. QED
    BY <2>1, <2>2
<1>2. TokenIInv /\ [TokenNext]_allVars
        => [\A c \in Client, t \in TokenId : delivered'[c][t] >= delivered[c][t]]_allVars
  BY <1>1
<1>3. QED
  BY TokenInvariance, <1>2, PTL DEF TokenSpec, MonotoneFetches

(* A revocation is final: no edit from an old form, second revocation or late *)
(* stamp changes a revoked token.                                             *)
THEOREM RevocationsAlwaysFinal == TokenSpec => RevocationFinal
<1> DEFINE Settings(row) == [row EXCEPT !.lastUsed = NoTime]
           Final(t) == token[t] # NoRow /\ token[t].revoked # NoTime /\ token'[t] # NoRow
                         => Settings(token'[t]) = Settings(token[t])
<1>1. ASSUME TokenIInv, [TokenNext]_allVars, NEW t \in TokenId
      PROVE  Final(t)
  <2> USE <1>1 DEF TokenIInv, TokenTypeOK
  <2>1. ASSUME NEW p \in ProjectId, DeleteProjectAndTokens(p)
        PROVE  Final(t)
    BY <2>1 DEF DeleteProjectAndTokens
  <2>2. ASSUME NEW p \in ProjectId, NEW s \in TokenId, NEW n \in Name, NEW e \in Expiries,
               CreateToken(p, s, n, e)
        PROVE  Final(t)
    BY <2>2 DEF CreateToken, TokensIssued
  <2>3. ASSUME NEW pg \in Page, NEW n \in Name, NEW e \in Expiries, UpdateToken(pg, n, e)
        PROVE  Final(t)
    BY <2>3 DEF UpdateToken, MayEdit, IsActive
  <2>4. ASSUME NEW s \in TokenId, RevokeToken(s) \/ DeleteRevokedToken(s)
        PROVE  Final(t)
    BY <2>4 DEF RevokeToken, DeleteRevokedToken, IsActive
  <2>5. ASSUME NEW c \in Client, FetchStamp(c)
        PROVE  Final(t)
    <3>1. token'[t] \in {token[t], [token[t] EXCEPT !.lastUsed = now]}
      BY <2>5 DEF FetchStamp
    <3>2. token[t] \in TokenRow => Settings([token[t] EXCEPT !.lastUsed = now]) = Settings(token[t])
      BY DEF TokenRow
    <3>3. QED
      BY <3>1, <3>2
  <2>6. CASE UNCHANGED token
    BY <2>6
  <2>7. QED
    BY <2>1, <2>2, <2>3, <2>4, <2>5, <2>6
       DEF TokenNext, StoreStep, Tick, OpenForm, FetchBegin, FetchSelect, FetchFail,
           allVars, tokenVars
<1>2. TokenIInv /\ [TokenNext]_allVars => [\A t \in TokenId : Final(t)]_allVars
  BY <1>1
<1>3. QED
  BY TokenInvariance, <1>2, PTL DEF TokenSpec, RevocationFinal
===================================================================================
