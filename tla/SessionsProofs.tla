---------------------------- MODULE SessionsProofs ----------------------------
(***************************************************************************)
(* Rotation of refresh tokens for any number of sessions, devices and      *)
(* concurrent requests, whichever statements fail.                         *)
(***************************************************************************)
EXTENDS Sessions, TLAPS

LEMMA SessionTypeInit == Init => SessionTypeOK
  BY DEF Init, SessionTypeOK, States, Stages, NoRequest

LEMMA NoRequestType ==
    NoRequest \in [at : Stages, tok : Nat, row : SessionIds \cup {NoSession}]
  BY DEF NoRequest, Stages

LEMMA RotatedType ==
    ASSUME SessionTypeOK, NEW s \in SessionIds, NEW t \in Nat, Rotated(s, t)
    PROVE  /\ state' \in [SessionIds -> States]
           /\ cur' \in [SessionIds -> Nat]
           /\ prev' \in [SessionIds -> Nat]
           /\ expired' \in SUBSET SessionIds
           /\ issued' \in Nat
           /\ exchanges' \in SUBSET (Nat \X Nat \X SessionIds)
  BY DEF SessionTypeOK, Rotated

(***************************************************************************)
(* The inductive invariant.  Tokens are numbered in the order they are     *)
(* issued; a token is current in at most one session, and an exchanged     *)
(* token is current in none.  That is what makes a token unexchanged at    *)
(* the moment the compare-and-swap accepts it.                             *)
(***************************************************************************)
RequestsHaveRows ==
    \A q \in Requests : req[q].at \in {"rotating", "revoking"} => req[q].row \in SessionIds

CurrentTokens ==
    /\ \A s \in SessionIds : /\ cur[s] <= issued
                             /\ state[s] # "unused" => cur[s] >= 1
                             /\ state[s] = "unused" => cur[s] = 0
    /\ \A r, s \in SessionIds : cur[r] = cur[s] /\ cur[r] # 0 => r = s

ExchangedTokens ==
    \A x \in exchanges : /\ 1 <= x[1] /\ x[1] <= issued
                         /\ \A s \in SessionIds : cur[s] # x[1]

SessionInv == SessionTypeOK /\ RequestsHaveRows /\ CurrentTokens /\ ExchangedTokens
              /\ ExchangedOnce

LEMMA SessionInvInit == Init => SessionInv
  BY SessionTypeInit
  DEF Init, SessionInv, RequestsHaveRows, CurrentTokens, ExchangedTokens, ExchangedOnce,
      NoRequest

\* Steps that touch neither the tokens nor the history keep the token facts.
LEMMA TokensKept ==
    ASSUME SessionInv, SessionTypeOK', UNCHANGED <<cur, issued, exchanges>>,
           \A s \in SessionIds : state'[s] = "unused" <=> state[s] = "unused"
    PROVE  CurrentTokens' /\ ExchangedTokens' /\ ExchangedOnce'
  BY DEF SessionInv, CurrentTokens, ExchangedTokens, ExchangedOnce

LEMMA RowsRevoked ==
    ASSUME SessionTypeOK, NEW S, RevokeRows(S)
    PROVE  /\ state' \in [SessionIds -> States]
           /\ \A s \in SessionIds : state'[s] = "unused" <=> state[s] = "unused"
  BY DEF SessionTypeOK, RevokeRows, States

LEMMA SessionInvStep == SessionInv /\ [Next]_vars => SessionInv'
<1> SUFFICES ASSUME SessionInv, [Next]_vars PROVE SessionInv'
  OBVIOUS
<1>0. SessionTypeOK /\ RequestsHaveRows /\ CurrentTokens /\ ExchangedTokens /\ ExchangedOnce
  BY DEF SessionInv
<1> DEFINE ReqType == [at : Stages, tok : Nat, row : SessionIds \cup {NoSession}]
<1>1. ASSUME NEW s \in SessionIds, IssueSession(s) PROVE SessionInv'
  <2>1. SessionTypeOK'
    BY <1>0, <1>1 DEF IssueSession, SessionTypeOK, States
  <2>2. RequestsHaveRows'
    BY <1>0, <1>1 DEF IssueSession, RequestsHaveRows
  <2>3. CurrentTokens'
    BY <1>0, <1>1 DEF IssueSession, SessionTypeOK, CurrentTokens
  <2>4. ExchangedTokens'
    BY <1>0, <1>1 DEF IssueSession, SessionTypeOK, CurrentTokens, ExchangedTokens
  <2>5. ExchangedOnce'
    BY <1>0, <1>1 DEF IssueSession, ExchangedOnce
  <2> QED
    BY <2>1, <2>2, <2>3, <2>4, <2>5 DEF SessionInv
<1>2. ASSUME NEW s \in SessionIds, Logout(s) \/ RevokeDevice(DeviceOf[s])
      PROVE  SessionInv'
  <2>1. \E S : RevokeRows(S)
    BY <1>2 DEF Logout, RevokeDevice
  <2>2. /\ state' \in [SessionIds -> States]
        /\ \A r \in SessionIds : state'[r] = "unused" <=> state[r] = "unused"
    BY <1>0, <2>1, RowsRevoked
  <2>3. UNCHANGED <<cur, prev, expired, issued, req, exchanges>>
    BY <1>2 DEF Logout, RevokeDevice
  <2>4. SessionTypeOK' /\ RequestsHaveRows'
    BY <1>0, <2>2, <2>3 DEF SessionTypeOK, RequestsHaveRows
  <2> QED
    BY <2>2, <2>3, <2>4, TokensKept DEF SessionInv
<1>3. ASSUME NEW s \in SessionIds, Expire(s) \/ DeleteExpired(s) PROVE SessionInv'
  <2>1. SessionTypeOK' /\ RequestsHaveRows'
    BY <1>0, <1>3 DEF Expire, DeleteExpired, SessionTypeOK, States, RequestsHaveRows
  <2>2. \A r \in SessionIds : state'[r] = "unused" <=> state[r] = "unused"
    BY <1>0, <1>3 DEF Expire, DeleteExpired, SessionTypeOK
  <2>3. UNCHANGED <<cur, issued, exchanges>>
    BY <1>3 DEF Expire, DeleteExpired
  <2> QED
    BY <2>1, <2>2, <2>3, TokensKept DEF SessionInv
<1>4. ASSUME NEW q \in Requests, NEW r \in ReqType,
             r.at \in {"rotating", "revoking"} => r.row \in SessionIds,
             req' = [req EXCEPT ![q] = r], UNCHANGED <<rows, issued, exchanges>>
      PROVE  SessionInv'
  <2>1. UNCHANGED <<state, cur, prev, expired, issued, exchanges>>
    BY <1>4 DEF rows
  <2>2. SessionTypeOK' /\ RequestsHaveRows'
    BY <1>0, <1>4, <2>1 DEF SessionTypeOK, RequestsHaveRows
  <2> QED
    BY <2>1, <2>2, TokensKept DEF SessionInv
<1>5. ASSUME NEW q \in Requests, NEW t \in 1..issued, RefreshLookup(q, t)
      PROVE  SessionInv'
  <2>0. t \in Nat
    BY <1>0 DEF SessionTypeOK
  <2>1. CASE \E s \in FindCurrent(t) :
               req' = [req EXCEPT ![q] = [at |-> "rotating", tok |-> t, row |-> s]]
    <3>1. PICK s \in FindCurrent(t) :
               req' = [req EXCEPT ![q] = [at |-> "rotating", tok |-> t, row |-> s]]
      BY <2>1
    <3>2. s \in SessionIds
      BY <3>1 DEF FindCurrent
    <3>3. [at |-> "rotating", tok |-> t, row |-> s] \in ReqType
      BY <2>0, <3>2 DEF Stages
    <3> QED
      BY <1>4, <1>5, <3>1, <3>2, <3>3 DEF RefreshLookup
  <2>2. CASE req' = [req EXCEPT ![q] = [at |-> "missed", tok |-> t, row |-> NoSession]]
    <3>1. [at |-> "missed", tok |-> t, row |-> NoSession] \in ReqType
      BY <2>0 DEF Stages
    <3> QED
      BY <1>4, <1>5, <2>2, <3>1 DEF RefreshLookup
  <2> QED
    BY <1>5, <2>1, <2>2 DEF RefreshLookup
<1>6. ASSUME NEW q \in Requests, RefreshMissed(q) PROVE SessionInv'
  <2> DEFINE t == req[q].tok
  <2>0. t \in Nat
    BY <1>0 DEF SessionTypeOK
  <2>1. CASE \E s \in FindPrevious(t) :
               req' = [req EXCEPT ![q] = [at |-> "revoking", tok |-> t, row |-> s]]
    <3>1. PICK s \in FindPrevious(t) :
               req' = [req EXCEPT ![q] = [at |-> "revoking", tok |-> t, row |-> s]]
      BY <2>1
    <3>2. s \in SessionIds
      BY <3>1 DEF FindPrevious
    <3>3. [at |-> "revoking", tok |-> t, row |-> s] \in ReqType
      BY <2>0, <3>2 DEF Stages
    <3> QED
      BY <1>4, <1>6, <3>1, <3>2, <3>3 DEF RefreshMissed
  <2>2. CASE req' = [req EXCEPT ![q] = NoRequest]
    BY <1>4, <1>6, <2>2, NoRequestType DEF RefreshMissed, NoRequest
  <2> QED
    BY <1>6, <2>1, <2>2 DEF RefreshMissed
<1>7. ASSUME NEW q \in Requests, RefreshRotate(q) PROVE SessionInv'
  <2> DEFINE s == req[q].row
             t == req[q].tok
  <2>0. s \in SessionIds /\ t \in Nat
    BY <1>0, <1>7 DEF RefreshRotate, RequestsHaveRows, SessionTypeOK
  <2>1. CASE /\ state[s] = "live" /\ cur[s] = t
             /\ Rotated(s, t)
             /\ req' = [req EXCEPT ![q] = NoRequest]
    <3>0. t >= 1 /\ t <= issued
      BY <1>0, <2>0, <2>1 DEF CurrentTokens
    <3> HIDE DEF s, t
    <3>1. SessionTypeOK'
      BY <1>0, <2>0, <2>1, RotatedType, NoRequestType DEF SessionTypeOK
    <3>2. RequestsHaveRows'
      BY <1>0, <2>1 DEF RequestsHaveRows, SessionTypeOK, NoRequest
    <3>3. CurrentTokens'
      BY <1>0, <2>0, <2>1 DEF Rotated, SessionTypeOK, CurrentTokens
    <3>4. ExchangedTokens'
      <4> SUFFICES ASSUME NEW x \in exchanges'
                   PROVE  /\ 1 <= x[1] /\ x[1] <= issued'
                          /\ \A r \in SessionIds : cur'[r] # x[1]
        BY DEF ExchangedTokens
      <4>1. issued' = issued + 1 /\ issued \in Nat
            /\ \A r \in SessionIds : cur'[r] = IF r = s THEN issued + 1 ELSE cur[r]
        BY <1>0, <2>1 DEF Rotated, SessionTypeOK
      <4>2. CASE x \in exchanges
        <5>1. x[1] \in Nat /\ 1 <= x[1] /\ x[1] <= issued
              /\ \A r \in SessionIds : cur[r] # x[1]
          BY <1>0, <4>2 DEF ExchangedTokens, SessionTypeOK
        <5> QED
          BY <4>1, <5>1
      <4>3. CASE x[1] = t
        <5>1. \A r \in SessionIds : r # s => cur[r] # t
          BY <1>0, <2>0, <2>1, <3>0 DEF CurrentTokens
        <5> QED
          BY <2>0, <3>0, <4>1, <4>3, <5>1
      <4> QED
        BY <2>1, <4>2, <4>3 DEF Rotated
    <3>5. ExchangedOnce'
      <4>1. exchanges' = exchanges \cup {<<t, issued + 1, s>>}
        BY <2>1 DEF Rotated
      <4>2. \A x \in exchanges : x[1] # t
        BY <1>0, <2>0, <2>1 DEF ExchangedTokens
      <4> QED
        BY <1>0, <4>1, <4>2 DEF ExchangedOnce
    <3> QED
      BY <3>1, <3>2, <3>3, <3>4, <3>5 DEF SessionInv
  <2>2. CASE /\ req' = [req EXCEPT ![q].at = "revoking"]
             /\ UNCHANGED <<rows, issued, exchanges>>
    <3> DEFINE r == [req[q] EXCEPT !.at = "revoking"]
    <3>1. r \in ReqType /\ r.row \in SessionIds
      BY <1>0, <2>0 DEF SessionTypeOK, Stages
    <3>2. req' = [req EXCEPT ![q] = r]
      BY <1>0, <2>2 DEF SessionTypeOK
    <3> HIDE DEF r
    <3> QED
      BY <1>4, <2>2, <3>1, <3>2
  <2> QED
    BY <1>7, <2>1, <2>2 DEF RefreshRotate
<1>8. ASSUME NEW q \in Requests, RefreshRevoke(q) PROVE SessionInv'
  <2>1. /\ state' \in [SessionIds -> States]
        /\ \A r \in SessionIds : state'[r] = "unused" <=> state[r] = "unused"
    BY <1>0, <1>8, RowsRevoked DEF RefreshRevoke
  <2>2. UNCHANGED <<cur, prev, expired, issued, exchanges>>
        /\ req' = [req EXCEPT ![q] = NoRequest]
    BY <1>8 DEF RefreshRevoke
  <2>3. SessionTypeOK'
    BY <1>0, <2>1, <2>2, NoRequestType DEF SessionTypeOK
  <2>4. RequestsHaveRows'
    BY <1>0, <2>2 DEF SessionTypeOK, RequestsHaveRows, NoRequest
  <2> QED
    BY <2>1, <2>2, <2>3, <2>4, TokensKept DEF SessionInv
<1>9. ASSUME NEW q \in Requests, RefreshFails(q) PROVE SessionInv'
  BY <1>4, <1>9, NoRequestType DEF RefreshFails, NoRequest
<1>10. CASE UNCHANGED vars
  <2>1. SessionTypeOK' /\ RequestsHaveRows'
    BY <1>0, <1>10 DEF vars, SessionTypeOK, RequestsHaveRows
  <2> QED
    BY <1>10, <2>1, TokensKept DEF SessionInv, vars
<1> QED
  BY <1>1, <1>2, <1>3, <1>5, <1>6, <1>7, <1>8, <1>9, <1>10 DEF Next

LEMMA SessionInvariant == Spec => []SessionInv
  BY SessionInvInit, SessionInvStep, PTL DEF Spec

\* The variables of the session model keep their types.
THEOREM SessionTypeCorrect == Spec => []SessionTypeOK
<1>1. SessionInv => SessionTypeOK
  BY DEF SessionInv
<1> QED
  BY <1>1, SessionInvariant, PTL

\* No interleaving of refresh requests exchanges one token twice.
THEOREM NoDoubleSpend == Spec => []ExchangedOnce
<1>1. SessionInv => ExchangedOnce
  BY DEF SessionInv
<1> QED
  BY <1>1, SessionInvariant, PTL

-----------------------------------------------------------------------------
\* Logout, device revocation, reuse detection and clean-up are final: no refresh
\* that is under way gives a revoked or deleted session a new token.
THEOREM RevocationIsFinal == Spec => RevokedIsFinal
<1> DEFINE A == \A s \in SessionIds :
                  state[s] \in {"revoked", "deleted"} =>
                      /\ state'[s] \in {"revoked", "deleted"}
                      /\ cur'[s] = cur[s]
<1>1. SessionInv /\ [Next]_vars => [A]_vars
  <2> SUFFICES ASSUME SessionInv, Next, NEW s \in SessionIds,
                      state[s] \in {"revoked", "deleted"}
               PROVE  state'[s] \in {"revoked", "deleted"} /\ cur'[s] = cur[s]
    BY DEF vars
  <2>0. SessionTypeOK /\ RequestsHaveRows
    BY DEF SessionInv
  <2>1. ASSUME NEW r \in SessionIds, \/ IssueSession(r) \/ Logout(r)
                                     \/ Expire(r) \/ DeleteExpired(r)
                                     \/ RevokeDevice(DeviceOf[r])
        PROVE  state'[s] \in {"revoked", "deleted"} /\ cur'[s] = cur[s]
    BY <2>0, <2>1 DEF SessionTypeOK, IssueSession, Logout, Expire, DeleteExpired,
       RevokeDevice, RevokeRows
  <2>2. ASSUME NEW q \in Requests, \/ \E t \in 1..issued : RefreshLookup(q, t)
                                   \/ RefreshMissed(q) \/ RefreshFails(q)
        PROVE  state'[s] \in {"revoked", "deleted"} /\ cur'[s] = cur[s]
    BY <2>2 DEF RefreshLookup, RefreshMissed, RefreshFails, rows
  <2>3. ASSUME NEW q \in Requests, RefreshRotate(q)
        PROVE  state'[s] \in {"revoked", "deleted"} /\ cur'[s] = cur[s]
    BY <2>0, <2>3 DEF RefreshRotate, Rotated, RequestsHaveRows, SessionTypeOK, rows
  <2>4. ASSUME NEW q \in Requests, RefreshRevoke(q)
        PROVE  state'[s] \in {"revoked", "deleted"} /\ cur'[s] = cur[s]
    BY <2>0, <2>4 DEF RefreshRevoke, RevokeRows, SessionTypeOK
  <2> QED
    BY <2>1, <2>2, <2>3, <2>4 DEF Next
<1> HIDE DEF A
<1>2. Spec => [][A]_vars
  BY <1>1, SessionInvariant, PTL DEF Spec
<1> QED
  BY <1>2 DEF A, RevokedIsFinal

-----------------------------------------------------------------------------
(***************************************************************************)
(* Refinement.  Looking a token up, missing it and failing are stutters of *)
(* the chain; the compare-and-swap is the exchange, and ExchangedTokens    *)
(* says that what it accepts has never been exchanged.                     *)
(***************************************************************************)
LEMMA FirstsOfUnion ==
    ASSUME NEW S, NEW e
    PROVE  {x[1] : x \in S \cup {e}} = {x[1] : x \in S} \cup {e[1]}
  OBVIOUS

LEMMA ChainInit == Init => Chain!Init
  BY DEF Init, Chain!Init

LEMMA ChainStep == SessionInv /\ [Next]_vars => [Chain!Next]_(Chain!vars)
<1> SUFFICES ASSUME SessionInv, [Next]_vars PROVE [Chain!Next]_(Chain!vars)
  OBVIOUS
<1>0. SessionTypeOK /\ RequestsHaveRows /\ ExchangedTokens
  BY DEF SessionInv
<1>1. ASSUME NEW s \in SessionIds, IssueSession(s) PROVE Chain!Next
  <2>1. Chain!Open(s)
    BY <1>1 DEF IssueSession, Chain!Open
  <2> QED
    BY <2>1 DEF Chain!Next
<1>2. ASSUME NEW S \in SUBSET SessionIds, RevokeRows(S), UNCHANGED <<cur, issued, exchanges>>
      PROVE  Chain!Next
  <2> DEFINE T == {s \in S : state[s] = "live"}
  <2>1. T \in SUBSET SessionIds /\ \A s \in T : state[s] = "live"
    OBVIOUS
  <2>2. state' = [s \in SessionIds |-> IF s \in T THEN "revoked" ELSE state[s]]
    BY <1>2 DEF RevokeRows
  <2> HIDE DEF T
  <2>3. Chain!Revoke(T)
    BY <1>2, <2>1, <2>2 DEF Chain!Revoke
  <2> QED
    BY <2>1, <2>3 DEF Chain!Next
<1>3. ASSUME NEW s \in SessionIds, Logout(s) \/ RevokeDevice(DeviceOf[s])
      PROVE  Chain!Next
  <2>1. {s} \in SUBSET SessionIds
        /\ {r \in SessionIds : DeviceOf[r] = DeviceOf[s]} \in SUBSET SessionIds
    OBVIOUS
  <2> QED
    BY <1>2, <1>3, <2>1 DEF Logout, RevokeDevice
<1>4. ASSUME NEW s \in SessionIds, DeleteExpired(s) PROVE Chain!Next
  <2>1. Chain!Forget(s)
    BY <1>4 DEF DeleteExpired, Chain!Forget
  <2> QED
    BY <2>1 DEF Chain!Next
<1>5. ASSUME UNCHANGED <<state, cur, issued, exchanges>> PROVE UNCHANGED Chain!vars
  BY <1>5 DEF Chain!vars
<1>6. ASSUME NEW q \in Requests, RefreshRotate(q)
      PROVE  [Chain!Next]_(Chain!vars)
  <2>0. PICK s \in SessionIds, t \in Nat : s = req[q].row /\ t = req[q].tok
    BY <1>0, <1>6 DEF RefreshRotate, RequestsHaveRows, SessionTypeOK
  <2>1. CASE state[s] = "live" /\ cur[s] = t /\ Rotated(s, t)
    <3>1. t \notin {x[1] : x \in exchanges}
      BY <1>0, <2>0, <2>1 DEF ExchangedTokens
    <3>2. exchanges' = exchanges \cup {<<t, issued + 1, s>>}
      BY <2>1 DEF Rotated
    <3>3. {x[1] : x \in exchanges'} = {x[1] : x \in exchanges} \cup {t}
      BY <3>2, FirstsOfUnion
    <3>4. Chain!Exchange(s)
      BY <2>1, <3>1, <3>3 DEF Rotated, Chain!Exchange
    <3> QED
      BY <3>4 DEF Chain!Next
  <2>2. CASE UNCHANGED <<rows, issued, exchanges>>
    BY <1>5, <2>2 DEF rows
  <2> QED
    BY <1>6, <2>0, <2>1, <2>2 DEF RefreshRotate
<1>7. ASSUME NEW q \in Requests, RefreshRevoke(q) PROVE Chain!Next
  <2>1. {req[q].row} \in SUBSET SessionIds
    BY <1>0, <1>7 DEF RefreshRevoke, RequestsHaveRows
  <2> QED
    BY <1>2, <1>7, <2>1 DEF RefreshRevoke
<1>8. ASSUME NEW q \in Requests, \/ \E t \in 1..issued : RefreshLookup(q, t)
                                 \/ RefreshMissed(q) \/ RefreshFails(q)
      PROVE  UNCHANGED Chain!vars
  BY <1>5, <1>8 DEF RefreshLookup, RefreshMissed, RefreshFails, rows
<1>9. ASSUME NEW s \in SessionIds, Expire(s) PROVE UNCHANGED Chain!vars
  BY <1>5, <1>9 DEF Expire
<1>10. CASE UNCHANGED vars
  BY <1>5, <1>10 DEF vars
<1> QED
  BY <1>1, <1>3, <1>4, <1>6, <1>7, <1>8, <1>9, <1>10 DEF Next

\* Concurrent refreshes of any number of clients behave as atomic exchanges of
\* the chain specification.
THEOREM RefreshRefinesChain == Spec => RefreshIsAtomic
  BY ChainInit, ChainStep, SessionInvariant, PTL DEF Spec, RefreshIsAtomic, Chain!Spec
=============================================================================
