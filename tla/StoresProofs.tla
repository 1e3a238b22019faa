---------------------------- MODULE StoresProofs ----------------------------
(***************************************************************************)
(* Proofs about parts of the server whose requests overlap in the store,   *)
(* for any number of users, devices, tabs, requests and editors: the links *)
(* of a live share, sign-in, mutes and places.                             *)
(***************************************************************************)
EXTENDS ShareLink, SignIn, Mutes, Places, WellFoundedInduction, TLAPS

-----------------------------------------------------------------------------
(***************************************************************************)
(* Live-share links.                                                       *)
(***************************************************************************)

(* What a fetch holds at each stage.  A token that was minted is either    *)
(* waiting to be bound, and then it is not the bound one, or it is bound.  *)
FetchInv(t) ==
    /\ fresh[t] # 0 => stage[t] \in {"bind", "read", "ok"}
    /\ stage[t] = "bind" => fresh[t] # bound
    /\ stage[t] \in {"read", "ok"} /\ fresh[t] # 0 => fresh[t] = bound
    /\ stage[t] \in {"read", "ok"} /\ fresh[t] = 0 => sent[t] = bound /\ bound # 0
    /\ sent[t] # 0 => sent[t] = bound /\ cookie[DeviceOf[t]] = bound

(* Tokens are minted once: no two fetches hold the same, none holds one    *)
(* that is still to come.                                                  *)
TokenInv ==
    /\ bound <= minted
    /\ \A t \in Tabs : fresh[t] <= minted
    /\ \A t, u \in Tabs : fresh[t] = fresh[u] /\ fresh[t] # 0 => t = u

(* The devices with a claim to the link: those a position was read for,    *)
(* those with its cookie, and those about to get it.  There is one at most.*)
Claims(d) ==
    \/ d \in served
    \/ bound # 0 /\ cookie[d] = bound
    \/ bound # 0 /\ \E t \in Tabs : DeviceOf[t] = d /\ fresh[t] = bound

ClaimInv ==
    /\ \A d \in Devices : cookie[d] \in {0, bound}
    /\ \A d \in Devices : Claims(d) => bound # 0
    /\ \A d, e \in Devices : Claims(d) /\ Claims(e) => d = e

Inv ==
    /\ ShareTypeOK
    /\ \A t \in Tabs : FetchInv(t)
    /\ TokenInv
    /\ ClaimInv
    /\ ViewerKeepsCookie

-----------------------------------------------------------------------------

(* The bounds leave room for none.                                         *)
LEMMA Zero == 0 \in 0..MaxFixes /\ 0 \in 0..MaxTokens /\ 0 \in 0..MaxLosses
  BY ShareConstants

(* A link that was just created satisfies the invariant.                   *)
LEMMA InitInv == Init => Inv
<1> SUFFICES ASSUME Init PROVE Inv
  OBVIOUS
<1> USE ShareConstants DEF Init
<1>1. ShareTypeOK
  BY Zero DEF ShareTypeOK, Stages, Stops
<1>2. \A t \in Tabs : FetchInv(t)
  BY DEF FetchInv
<1>3. TokenInv /\ ClaimInv /\ ViewerKeepsCookie
  BY DEF TokenInv, ClaimInv, Claims, ViewerKeepsCookie
<1> QED
  BY <1>1, <1>2, <1>3 DEF Inv

(* The sharer, the clock and the retention job touch no token and no fetch.*)
LEMMA SharerStep ==
    ASSUME Inv,
           \/ handleRevokeShare \/ Expire \/ PruneShareSessions
           \/ \E p \in Posts : BeginPost(p) \/ StorePost(p)
           \/ \E t \in Tabs : Countdown(t)
           \/ UNCHANGED vars
    PROVE  Inv'
<1> USE ShareConstants
<1>1. UNCHANGED <<bound, minted, cookie, stage, sent, fresh, told, losses, served>>
  BY DEF handleRevokeShare, Expire, PruneShareSessions, BeginPost, StorePost, Countdown,
         session, phone, fetch, page, vars
<1>2. ShareTypeOK'
  <2>1. /\ kept' \in BOOLEAN /\ revoked' \in BOOLEAN /\ expired' \in BOOLEAN
        /\ position' \in 0..MaxFixes
        /\ captured' \in 0..MaxFixes
        /\ post' \in [Posts -> 0..MaxFixes]
        /\ stop' \in [Tabs -> Stops]
    <3> USE DEF Inv, ShareTypeOK
    <3>1. CASE handleRevokeShare
      BY <3>1 DEF handleRevokeShare, phone, page
    <3>2. CASE Expire
      BY <3>2 DEF Expire, phone, page
    <3>3. CASE PruneShareSessions
      BY <3>3, Zero DEF PruneShareSessions, phone, page
    <3>4. ASSUME NEW p \in Posts, BeginPost(p) PROVE <2>1
      BY <3>4 DEF BeginPost, session, page
    <3>5. ASSUME NEW p \in Posts, StorePost(p) PROVE <2>1
      BY <3>5 DEF StorePost, page
    <3>6. ASSUME NEW t \in Tabs, Countdown(t) PROVE <2>1
      BY <3>6 DEF Countdown, session, phone, Stops
    <3>7. CASE UNCHANGED vars
      BY <3>7 DEF vars, session, phone, page
    <3> QED
      BY <3>1, <3>2, <3>3, <3>4, <3>5, <3>6, <3>7
  <2> QED
    BY <1>1, <2>1 DEF Inv, ShareTypeOK
<1> QED
  BY <1>1, <1>2 DEF Inv, FetchInv, TokenInv, ClaimInv, Claims, ViewerKeepsCookie

(* The parts of the state no fetch touches.                                *)
Rest == <<kept, revoked, expired, position, captured, post>>

(* A fetch begins, with the cookie of its device.                          *)
LEMMA PollStep ==
    ASSUME Inv, NEW t \in Tabs, Poll(t)
    PROVE  Inv'
<1> USE ShareConstants
<1>1. /\ UNCHANGED <<Rest, bound, minted, cookie, fresh, stop, told, losses, served>>
      /\ stage' = [stage EXCEPT ![t] = "sent"]
      /\ sent' = [sent EXCEPT ![t] = cookie[DeviceOf[t]]]
      /\ stage[t] = "idle"
  BY DEF Poll, GoTo, Rest, session, phone, page
<1>2. ShareTypeOK
  BY DEF Inv
<1>3. cookie[DeviceOf[t]] \in 0..MaxTokens /\ DeviceOf[t] \in Devices
  BY <1>2 DEF ShareTypeOK
<1>4. /\ stage' \in [Tabs -> Stages]
      /\ sent' \in [Tabs -> 0..MaxTokens]
      /\ \A u \in Tabs : stage'[u] = IF u = t THEN "sent" ELSE stage[u]
      /\ \A u \in Tabs : sent'[u] = IF u = t THEN cookie[DeviceOf[t]] ELSE sent[u]
  BY <1>1, <1>2, <1>3 DEF ShareTypeOK, Stages
<1>5. ShareTypeOK'
  BY <1>1, <1>2, <1>4 DEF ShareTypeOK, Rest
<1>6. ASSUME NEW u \in Tabs PROVE FetchInv(u)'
  BY <1>1, <1>3, <1>4 DEF Inv, FetchInv, ClaimInv
<1> QED
  BY <1>1, <1>5, <1>6 DEF Inv, TokenInv, ClaimInv, Claims, ViewerKeepsCookie

(* A fetch reads the session: it mints a token, or is answered or served.  *)
LEMMA LoadStep ==
    ASSUME Inv, NEW t \in Tabs, Load(t) \/ Reload(t)
    PROVE  Inv'
<1> USE ShareConstants
<1>0. ShareTypeOK /\ FetchInv(t) /\ TokenInv
  BY DEF Inv
<1>1. /\ UNCHANGED <<Rest, bound, cookie, sent, stop, told, losses, served>>
      /\ stage[t] \in {"sent", "reload"}
  BY DEF Load, Reload, Rest, session, phone, page
<1>2. fresh[t] = 0
  BY <1>0, <1>1 DEF FetchInv
<1>3. CASE Load(t) /\ kept /\ shareLive /\ bound = 0
  <2>1. /\ bound = 0
        /\ minted < MaxTokens
        /\ minted' = minted + 1
        /\ fresh' = [fresh EXCEPT ![t] = minted + 1]
        /\ stage' = [stage EXCEPT ![t] = "bind"]
    BY <1>3 DEF Load, GoTo
  <2>2. minted + 1 \in 0..MaxTokens /\ minted + 1 # 0 /\ minted \in Nat
    BY <1>0, <2>1 DEF ShareTypeOK
  <2>3. /\ fresh' \in [Tabs -> 0..MaxTokens]
        /\ stage' \in [Tabs -> Stages]
        /\ \A u \in Tabs : fresh'[u] = IF u = t THEN minted + 1 ELSE fresh[u]
        /\ \A u \in Tabs : stage'[u] = IF u = t THEN "bind" ELSE stage[u]
        /\ \A u \in Tabs : fresh[u] \in 0..MaxTokens
    BY <1>0, <2>1, <2>2 DEF ShareTypeOK, Stages
  <2>4. ShareTypeOK'
    BY <1>0, <1>1, <2>1, <2>2, <2>3 DEF ShareTypeOK, Rest
  <2>5. ASSUME NEW u \in Tabs PROVE FetchInv(u)'
    BY <1>1, <2>1, <2>2, <2>3 DEF Inv, FetchInv
  <2>6. TokenInv'
    BY <1>0, <1>1, <2>1, <2>2, <2>3 DEF TokenInv
  <2>7. ClaimInv' /\ ViewerKeepsCookie'
    BY <1>1, <2>1 DEF Inv, ClaimInv, Claims, ViewerKeepsCookie
  <2> QED
    BY <2>4, <2>5, <2>6, <2>7 DEF Inv
<1>4. CASE ~(Load(t) /\ kept /\ shareLive /\ bound = 0)
  <2>1. UNCHANGED <<minted, fresh>>
    BY <1>4 DEF Load, Reload
  <2>2. PICK s \in {"missing", "gone", "read", "forbidden"} :
           /\ stage' = [stage EXCEPT ![t] = s]
           /\ s = "read" => sent[t] # 0 /\ sent[t] = bound
    BY <1>4 DEF Load, Reload, GoTo, CookieCheck
  <2>3. /\ stage' \in [Tabs -> Stages]
        /\ \A u \in Tabs : stage'[u] = IF u = t THEN s ELSE stage[u]
    BY <1>0, <2>2 DEF ShareTypeOK, Stages
  <2>4. ShareTypeOK'
    BY <1>0, <1>1, <2>1, <2>2, <2>3 DEF ShareTypeOK, Rest
  <2>5. ASSUME NEW u \in Tabs PROVE FetchInv(u)'
    BY <1>1, <1>2, <2>1, <2>2, <2>3 DEF Inv, FetchInv
  <2> QED
    BY <1>1, <2>1, <2>4, <2>5 DEF Inv, TokenInv, ClaimInv, Claims, ViewerKeepsCookie
<1> QED
  BY <1>3, <1>4

(* The compare-and-swap: the first claim to a link nobody has a claim to.  *)
LEMMA BindStep ==
    ASSUME Inv, NEW t \in Tabs, Bind(t)
    PROVE  Inv'
<1> USE ShareConstants
<1>0. ShareTypeOK /\ FetchInv(t) /\ TokenInv /\ ClaimInv /\ ViewerKeepsCookie
  BY DEF Inv
<1>1. /\ UNCHANGED <<Rest, minted, cookie, sent, stop, told, losses, served>>
      /\ stage[t] = "bind"
  BY DEF Bind, Rest, phone, page
<1>2. fresh[t] # 0 /\ fresh[t] \in 0..MaxTokens
  BY <1>0, <1>1 DEF ShareTypeOK
<1>3. CASE kept /\ bound = 0
  <2>1. bound' = fresh[t] /\ stage' = [stage EXCEPT ![t] = "read"] /\ UNCHANGED fresh
    BY <1>3 DEF Bind, GoTo
  <2>2. /\ stage' \in [Tabs -> Stages]
        /\ \A u \in Tabs : stage'[u] = IF u = t THEN "read" ELSE stage[u]
    BY <1>0, <2>1 DEF ShareTypeOK, Stages
  <2>3. ShareTypeOK'
    BY <1>0, <1>1, <1>2, <2>1, <2>2 DEF ShareTypeOK, Rest
  <2>4. \A d \in Devices : cookie[d] = 0 /\ ~Claims(d)
    BY <1>0, <1>3 DEF ClaimInv
  <2>5. \A u \in Tabs : u # t => fresh[u] # fresh[t]
    BY <1>0, <1>2 DEF TokenInv
  <2>6. ASSUME NEW u \in Tabs PROVE FetchInv(u)'
    <3>1. FetchInv(u) /\ DeviceOf[u] \in Devices
      BY DEF Inv
    <3>2. sent[u] = 0
      BY <1>3, <3>1 DEF FetchInv
    <3>3. CASE u = t
      BY <1>1, <1>2, <2>1, <2>2, <3>2, <3>3 DEF FetchInv
    <3>4. CASE u # t
      BY <1>1, <1>2, <1>3, <2>1, <2>2, <2>5, <3>1, <3>2, <3>4 DEF FetchInv
    <3> QED
      BY <3>3, <3>4
  <2>7. TokenInv'
    BY <1>0, <1>1, <2>1 DEF TokenInv
  <2>8. ASSUME NEW d \in Devices, Claims(d)' PROVE d = DeviceOf[t]
    BY <1>1, <1>2, <2>1, <2>4, <2>5, <2>8 DEF Claims
  <2>9. ClaimInv'
    BY <1>1, <1>2, <2>1, <2>4, <2>8 DEF ClaimInv
  <2>10. told = {}
    BY <1>0, <1>3 DEF ViewerKeepsCookie
  <2> QED
    BY <1>1, <2>3, <2>6, <2>7, <2>9, <2>10 DEF Inv, ViewerKeepsCookie
<1>4. CASE ~(kept /\ bound = 0)
  <2>1. /\ UNCHANGED bound
        /\ stage' = [stage EXCEPT ![t] = "reload"]
        /\ fresh' = [fresh EXCEPT ![t] = 0]
    BY <1>4 DEF Bind, GoTo
  <2>2. /\ stage' \in [Tabs -> Stages]
        /\ fresh' \in [Tabs -> 0..MaxTokens]
        /\ \A u \in Tabs : stage'[u] = IF u = t THEN "reload" ELSE stage[u]
        /\ \A u \in Tabs : fresh'[u] = IF u = t THEN 0 ELSE fresh[u]
    BY <1>0, <2>1, Zero DEF ShareTypeOK, Stages
  <2>3. ShareTypeOK'
    BY <1>0, <1>1, <2>1, <2>2 DEF ShareTypeOK, Rest
  <2>4. ASSUME NEW u \in Tabs PROVE FetchInv(u)'
    BY <1>1, <2>1, <2>2 DEF Inv, FetchInv
  <2>5. TokenInv'
    BY <1>0, <1>1, <2>1, <2>2 DEF TokenInv, ShareTypeOK
  <2>6. ASSUME NEW d \in Devices, Claims(d)' PROVE Claims(d)
    BY <1>1, <2>1, <2>2, <2>6 DEF Claims
  <2>7. ClaimInv'
    BY <1>0, <1>1, <2>1, <2>6 DEF ClaimInv
  <2> QED
    BY <1>0, <1>1, <2>1, <2>3, <2>4, <2>5, <2>7 DEF Inv, ViewerKeepsCookie
<1> QED
  BY <1>3, <1>4

(* Reading the position adds no claim: the device had one already.         *)
LEMMA ReadStep ==
    ASSUME Inv, NEW t \in Tabs, Read(t)
    PROVE  Inv'
<1> USE ShareConstants
<1>0. ShareTypeOK /\ FetchInv(t) /\ ClaimInv
  BY DEF Inv
<1>1. /\ UNCHANGED <<Rest, bound, minted, cookie, sent, fresh, stop, told, losses>>
      /\ stage[t] = "read"
      /\ stage' = [stage EXCEPT ![t] = "ok"]
      /\ served' = served \union {DeviceOf[t]}
  BY DEF Read, GoTo, Rest, session, phone, page
<1>2. /\ stage' \in [Tabs -> Stages]
      /\ \A u \in Tabs : stage'[u] = IF u = t THEN "ok" ELSE stage[u]
      /\ DeviceOf[t] \in Devices
  BY <1>0, <1>1 DEF ShareTypeOK, Stages
<1>3. ShareTypeOK'
  BY <1>0, <1>1, <1>2 DEF ShareTypeOK, Rest
<1>4. ASSUME NEW u \in Tabs PROVE FetchInv(u)'
  BY <1>1, <1>2 DEF Inv, FetchInv
<1>5. Claims(DeviceOf[t])
  <2>1. CASE fresh[t] = 0
    BY <1>0, <1>1, <2>1 DEF FetchInv, Claims
  <2>2. CASE fresh[t] # 0
    BY <1>0, <1>1, <2>2 DEF FetchInv, Claims
  <2> QED
    BY <2>1, <2>2
<1>6. ASSUME NEW d \in Devices, Claims(d)' PROVE Claims(d)
  BY <1>1, <1>5, <1>6 DEF Claims
<1>7. ClaimInv'
  BY <1>0, <1>1, <1>6 DEF ClaimInv
<1> QED
  BY <1>1, <1>3, <1>4, <1>7 DEF Inv, TokenInv, ViewerKeepsCookie

(* A fetch that ends, whether or not its answer is received.               *)
LEMMA OverStep ==
    ASSUME Inv, NEW t \in Tabs, Over(t), UNCHANGED <<Rest, bound, minted, served>>,
           stop' \in [Tabs -> Stops], losses' \in 0..MaxLosses,
           \/ UNCHANGED <<cookie, told>>
           \/ /\ stage[t] = "ok"
              /\ told' = told \union {t}
              /\ cookie' = [cookie EXCEPT ![DeviceOf[t]] = IF fresh[t] # 0 THEN fresh[t] ELSE @]
    PROVE  Inv'
<1> USE ShareConstants
<1>0. ShareTypeOK /\ FetchInv(t) /\ TokenInv /\ ClaimInv /\ ViewerKeepsCookie
  BY DEF Inv
<1>1. /\ stage' \in [Tabs -> Stages]
      /\ sent' \in [Tabs -> 0..MaxTokens]
      /\ fresh' \in [Tabs -> 0..MaxTokens]
      /\ \A u \in Tabs : stage'[u] = IF u = t THEN "idle" ELSE stage[u]
      /\ \A u \in Tabs : sent'[u] = IF u = t THEN 0 ELSE sent[u]
      /\ \A u \in Tabs : fresh'[u] = IF u = t THEN 0 ELSE fresh[u]
  BY <1>0, Zero DEF Over, GoTo, ShareTypeOK, Stages
<1>2. /\ cookie' \in [Devices -> 0..MaxTokens]
      /\ told' \subseteq Tabs
      /\ \A d \in Devices :
            \/ cookie'[d] = cookie[d]
            \/ d = DeviceOf[t] /\ cookie'[d] = bound /\ fresh[t] = bound /\ bound # 0
      /\ \A u \in told' : u \in told \/ (u = t /\ bound # 0 /\ cookie'[DeviceOf[t]] = bound)
  <2>1. CASE UNCHANGED <<cookie, told>>
    BY <1>0, <2>1 DEF ShareTypeOK
  <2>2. CASE /\ stage[t] = "ok"
             /\ told' = told \union {t}
             /\ cookie' = [cookie EXCEPT ![DeviceOf[t]] =
                              IF fresh[t] # 0 THEN fresh[t] ELSE @]
    <3>1. DeviceOf[t] \in Devices /\ cookie \in [Devices -> 0..MaxTokens]
             /\ fresh[t] \in 0..MaxTokens
      BY <1>0 DEF ShareTypeOK
    <3>2. CASE fresh[t] # 0
      <4>1. fresh[t] = bound
        BY <1>0, <2>2, <3>2 DEF FetchInv
      <4>2. cookie' = [cookie EXCEPT ![DeviceOf[t]] = fresh[t]]
        BY <2>2, <3>2
      <4> QED
        BY <1>0, <2>2, <3>1, <3>2, <4>1, <4>2 DEF ShareTypeOK
    <3>3. CASE fresh[t] = 0
      <4>1. sent[t] = bound /\ bound # 0 /\ cookie[DeviceOf[t]] = bound
        BY <1>0, <2>2, <3>3 DEF FetchInv
      <4>2. cookie' = cookie
        BY <2>2, <3>1, <3>3
      <4> QED
        BY <1>0, <2>2, <3>1, <4>1, <4>2 DEF ShareTypeOK
    <3> QED
      BY <3>2, <3>3
  <2> QED
    BY <2>1, <2>2
<1>3. ShareTypeOK'
  BY <1>0, <1>1, <1>2 DEF ShareTypeOK, Rest
<1>4. ASSUME NEW u \in Tabs PROVE FetchInv(u)'
  <2>1. FetchInv(u) /\ DeviceOf[u] \in Devices
    BY DEF Inv
  <2> QED
    BY <1>1, <1>2, <2>1 DEF FetchInv
<1>5. TokenInv'
  BY <1>0, <1>1 DEF TokenInv, ShareTypeOK
<1>6. ASSUME NEW d \in Devices, Claims(d)' PROVE Claims(d)
  BY <1>1, <1>2, <1>6 DEF Claims
<1>7. ClaimInv'
  BY <1>0, <1>2, <1>6 DEF ClaimInv
<1>8. ViewerKeepsCookie'
  <2> SUFFICES ASSUME NEW u \in told'
               PROVE  cookie'[DeviceOf[u]] = bound' /\ bound' # 0
    BY DEF ViewerKeepsCookie
  <2>1. u \in Tabs /\ DeviceOf[u] \in Devices
    BY <1>2
  <2>2. CASE u \in told
    BY <1>0, <1>2, <2>1, <2>2 DEF ViewerKeepsCookie
  <2>3. CASE u \notin told
    BY <1>2, <2>3
  <2> QED
    BY <2>2, <2>3
<1> QED
  BY <1>3, <1>4, <1>5, <1>7, <1>8 DEF Inv

(* An answer is received, or a fetch is lost.                              *)
LEMMA EndLinkStep ==
    ASSUME Inv, NEW t \in Tabs, Receive(t) \/ Lose(t)
    PROVE  Inv'
<1>0. ShareTypeOK
  BY DEF Inv
<1>1. CASE Receive(t)
  <2>1. Over(t) /\ UNCHANGED <<Rest, bound, minted, losses, served>>
    BY <1>1 DEF Receive, Rest, session, phone
  <2>2. stop' \in [Tabs -> Stops]
    <3>1. CASE stage[t] = "ok"
      BY <1>0, <1>1, <3>1 DEF Receive, ShareTypeOK
    <3>2. CASE stage[t] # "ok"
      <4>1. PICK s \in Stops : stop' = [stop EXCEPT ![t] = s]
        BY <1>1, <3>2 DEF Receive, Stops
      <4> QED
        BY <1>0, <4>1 DEF ShareTypeOK
    <3> QED
      BY <3>1, <3>2
  <2>3. losses' \in 0..MaxLosses
    BY <1>0, <2>1 DEF ShareTypeOK
  <2>4. \/ UNCHANGED <<cookie, told>>
        \/ /\ stage[t] = "ok"
           /\ told' = told \union {t}
           /\ cookie' = [cookie EXCEPT ![DeviceOf[t]] = IF fresh[t] # 0 THEN fresh[t] ELSE @]
    BY <1>1 DEF Receive
  <2> QED
    BY <2>1, <2>2, <2>3, <2>4, OverStep
<1>2. CASE Lose(t)
  <2>1. /\ Over(t) /\ UNCHANGED <<Rest, bound, minted, served, cookie, told, stop>>
        /\ losses < MaxLosses /\ losses' = losses + 1
    BY <1>2 DEF Lose, Rest, session, phone, page
  <2>2. stop' \in [Tabs -> Stops] /\ losses' \in 0..MaxLosses
    BY <1>0, <2>1, ShareConstants DEF ShareTypeOK
  <2> QED
    BY <2>1, <2>2, OverStep
<1> QED
  BY <1>1, <1>2

(* The invariant holds throughout.                                         *)
LEMMA Invariance == Spec => []Inv
<1>1. Inv /\ [Next]_vars => Inv'
  <2> SUFFICES ASSUME Inv, [Next]_vars PROVE Inv'
    OBVIOUS
  <2>1. ASSUME NEW t \in Tabs, Fetch(t) \/ Lose(t) PROVE Inv'
    BY <2>1, PollStep, LoadStep, BindStep, ReadStep, EndLinkStep DEF Fetch
  <2>2. CASE \/ handleRevokeShare \/ Expire \/ PruneShareSessions
             \/ \E p \in Posts : BeginPost(p) \/ StorePost(p)
             \/ \E t \in Tabs : Countdown(t)
             \/ UNCHANGED vars
    BY <2>2, SharerStep
  <2> QED
    BY <2>1, <2>2 DEF Next
<1> QED
  BY <1>1, InitInv, PTL DEF Spec

(* Sessions, fetches and pages keep their types (handleGetShare).          *)
THEOREM ShareTypeCorrect == Spec => []ShareTypeOK
<1>1. Inv => ShareTypeOK
  BY DEF Inv
<1> QED
  BY <1>1, Invariance, PTL

(* A link shows the position to one device at most, for any number of      *)
(* devices, tabs and racing or lost fetches (bindShareViewer).             *)
THEOREM OneDeviceOnly == Spec => []OneDevice
<1>1. Inv => OneDevice
  <2> SUFFICES ASSUME Inv, NEW d \in served, NEW e \in served PROVE d = e
    BY DEF OneDevice
  <2>1. d \in Devices /\ e \in Devices
    BY DEF Inv, ShareTypeOK
  <2> QED
    BY <2>1 DEF Inv, ClaimInv, Claims
<1> QED
  BY <1>1, Invariance, PTL

(* Whoever got one answer holds the bound token from then on               *)
(* (setShareCookie).                                                       *)
THEOREM ViewersKeepCookie == Spec => []ViewerKeepsCookie
<1>1. Inv => ViewerKeepsCookie
  BY DEF Inv
<1> QED
  BY <1>1, Invariance, PTL

(* A link is bound once (BindShareViewer).                                 *)
THEOREM BindingIsFinal == Spec => BoundForGood
<1>1. Next => (bound # 0 => bound' = bound)
  BY DEF Next, handleRevokeShare, Expire, PruneShareSessions, BeginPost, StorePost, Fetch,
         Poll, Load, Bind, Reload, Read, Receive, Lose, Countdown, session
<1>2. [Next]_vars => [bound # 0 => bound' = bound]_vars
  BY <1>1
<1> QED
  BY <1>2, PTL DEF Spec, BoundForGood

(* A pruned session leaves no position behind (handleSharePing,            *)
(* PruneShareSessions).                                                    *)
THEOREM PositionsGoToo == Spec => []NoPositionLeft
<1>1. Init => NoPositionLeft
  BY DEF Init, NoPositionLeft
<1>2. NoPositionLeft /\ [Next]_vars => NoPositionLeft'
  BY DEF NoPositionLeft, Next, vars, handleRevokeShare, Expire, PruneShareSessions,
         BeginPost, StorePost, Fetch, Poll, Load, Bind, Reload, Read, Receive, Lose,
         Countdown, session
<1> QED
  BY <1>1, <1>2, PTL DEF Spec

-----------------------------------------------------------------------------
(***************************************************************************)
(* Sign-in: registration is whole, a session is of its account's device,   *)
(* and a device keeps its identity, on both stores.                        *)
(***************************************************************************)

Owns(e, d) == d \in 1..Len(devices) /\ devices[d].owner = e

\* A sign-in past its password check is of an account, and the device it has
\* found is that account's.
RequestsAreOwners ==
    \A r \in Requests :
        /\ req[r].pc \in {"verified", "resolved"} => req[r].email \in users
        /\ req[r].pc = "resolved" /\ req[r].device # NoDevice => Owns(req[r].email, req[r].device)

SessionsHaveDevices == \A i \in 1..Len(sessions) : sessions[i].device \in 1..Len(devices)

\* On SQLite, what a sign-in has read about keys is still so unless its
\* snapshot is old: a key to be adopted is for a device without one, and a
\* device to be created for a key is the first with that key.
ReadIsCurrent(x) ==
    IsSQLite /\ x.pc = "resolved" /\ ~x.stale /\ x.key # NoKey =>
        /\ x.device = NoDevice =>
              \A d \in 1..Len(devices) : devices[d] # [owner |-> x.email, key |-> x.key]
        /\ x.device # NoDevice => devices[x.device].key = NoKey

SignInInv ==
    /\ SignInTypeOK
    /\ RequestsAreOwners
    /\ SessionsHaveDevices
    /\ SessionsOfOwnDevices
    /\ AccountsAreWhole
    /\ \A r \in Requests : ReadIsCurrent(req[r])

\* One element of a sequence is replaced.
LEMMA SeqReplaced ==
    ASSUME NEW S, NEW q \in Seq(S), NEW i \in 1..Len(q), NEW x \in S
    PROVE  /\ [q EXCEPT ![i] = x] \in Seq(S)
           /\ Len([q EXCEPT ![i] = x]) = Len(q)
           /\ \A j \in 1..Len(q) : [q EXCEPT ![i] = x][j] = IF j = i THEN x ELSE q[j]
  OBVIOUS

\* A set of numbers that is not empty has a least one.
LEMMA LeastExists ==
    ASSUME NEW S, S # {}, S \subseteq Nat
    PROVE  (CHOOSE d \in S : \A c \in S : d <= c) \in S
<1> DEFINE Less(a, b) == a < b
<1>1. IsWellFoundedOn(OpToRel(Less, Nat), Nat)
  BY NatLessThanWellFounded DEF Less
<1>2. PICK d \in S : \A c \in S : ~(<<c, d>> \in OpToRel(Less, Nat))
  BY <1>1, WFMin
<1>3. \A c \in S : ~(c < d)
  BY <1>2 DEF OpToRel
<1>4. \A c \in S : d <= c
  BY <1>3
<1> QED
  BY <1>4

LEMMA SignInInitInv == SignInInit => SignInInv
<1> SUFFICES ASSUME SignInInit PROVE SignInInv
  OBVIOUS
<1>1. SignInTypeOK
  BY SignInAssumption DEF SignInInit, BackendInit, SignInTypeOK, Request, Idle
<1>2. \A r \in Requests : req[r].pc = "idle"
  BY DEF SignInInit, Idle
<1>3. Len(devices) = 0 /\ Len(sessions) = 0 /\ users = {}
  BY DEF SignInInit
<1> QED
  BY <1>1, <1>2, <1>3 DEF SignInInv, RequestsAreOwners, SessionsHaveDevices,
     SessionsOfOwnDevices, AccountsAreWhole, ReadIsCurrent

ResolvedType == [pc : {"resolved"}, email : Emails, device : 0..MaxDevices,
                 key : PubKeys \cup {NoKey}, stale : BOOLEAN]

\* The fields a request has at each place.
LEMMA RequestFields ==
    ASSUME NEW x \in Request
    PROVE  /\ x.pc \in {"idle", "hashing", "verified", "resolved"}
           /\ x.pc \in {"hashing", "verified", "resolved"} => x.email \in Emails
           /\ x.pc = "resolved" => x \in ResolvedType
           /\ x = Idle <=> x.pc = "idle"
  BY DEF Request, Idle, ResolvedType

\* A commit leaves the requests where they are, with old snapshots on SQLite.
LEMMA CommittedFields ==
    ASSUME NEW q \in [Requests -> Request]
    PROVE  /\ Committed(q) \in [Requests -> Request]
           /\ \A r \in Requests :
                /\ Committed(q)[r].pc = q[r].pc
                /\ q[r].pc # "idle" => Committed(q)[r].email = q[r].email
                /\ q[r].pc = "resolved" =>
                      /\ Committed(q)[r].device = q[r].device
                      /\ Committed(q)[r].key = q[r].key
                      /\ IsSQLite => Committed(q)[r].stale
<1>1. ASSUME NEW r \in Requests
      PROVE  /\ Committed(q)[r] \in Request
             /\ Committed(q)[r].pc = q[r].pc
             /\ q[r].pc # "idle" => Committed(q)[r].email = q[r].email
             /\ q[r].pc = "resolved" =>
                   /\ Committed(q)[r].device = q[r].device
                   /\ Committed(q)[r].key = q[r].key
                   /\ IsSQLite => Committed(q)[r].stale
  <2>1. CASE IsSQLite /\ q[r].pc = "resolved"
    <3>1. q[r] \in ResolvedType
      BY <2>1, RequestFields
    <3>2. Committed(q)[r] = [q[r] EXCEPT !.stale = TRUE]
      BY <2>1 DEF Committed
    <3>3. Committed(q)[r] \in ResolvedType
      BY <3>1, <3>2 DEF ResolvedType
    <3> QED
      BY <3>1, <3>2, <3>3 DEF ResolvedType, Request
  <2>2. CASE ~(IsSQLite /\ q[r].pc = "resolved")
    <3>1. Committed(q)[r] = q[r]
      BY <2>2 DEF Committed
    <3> QED
      BY <2>2, <3>1
  <2> QED
    BY <2>1, <2>2
<1>2. Committed(q) = [r \in Requests |-> Committed(q)[r]]
  BY DEF Committed
<1>3. Committed(q) \in [Requests -> Request]
  BY <1>1, <1>2
<1> QED
  BY <1>1, <1>3

\* A request is replaced by x and nothing is committed.
LEMMA RequestStep ==
    ASSUME SignInInv, NEW r \in Requests, NEW x \in Request, req' = Goto(r, x),
           x.pc \in {"verified", "resolved"} => x.email \in users,
           x.pc = "resolved" /\ x.device # NoDevice => Owns(x.email, x.device),
           ReadIsCurrent(x),
           UNCHANGED <<backend, tables>>
    PROVE  SignInInv'
<1>1. req' \in [Requests -> Request] /\ \A q \in Requests : req'[q] = IF q = r THEN x ELSE req[q]
  BY DEF Goto, SignInInv, SignInTypeOK
<1>2. UNCHANGED <<backend, users, devices, sessions>>
  BY DEF tables
<1>3. SignInTypeOK'
  BY <1>1, <1>2 DEF SignInInv, SignInTypeOK
<1>4. RequestsAreOwners'
  BY <1>1, <1>2 DEF SignInInv, RequestsAreOwners, Owns
<1>5. \A q \in Requests : ReadIsCurrent(req[q])'
  BY <1>1, <1>2 DEF SignInInv, ReadIsCurrent, IsSQLite
<1> QED
  BY <1>2, <1>3, <1>4, <1>5 DEF SignInInv, SessionsHaveDevices, SessionsOfOwnDevices, AccountsAreWhole

LEMMA ToIdleStep ==
    ASSUME SignInInv, NEW r \in Requests, req' = Goto(r, Idle), UNCHANGED <<backend, tables>>
    PROVE  SignInInv'
<1>1. Idle \in Request /\ Idle.pc = "idle"
  BY DEF Idle, Request
<1> QED
  BY <1>1, RequestStep DEF ReadIsCurrent

\* After a commit nothing that was read on SQLite counts as current, and on
\* both backends the devices found before are still their owners'.
LEMMA CommitKeepsRequests ==
    ASSUME SignInInv, NEW q \in [Requests -> Request],
           \A r \in Requests : q[r] = req[r] \/ q[r] = Idle,
           req' = Committed(q), backend' = backend, users \subseteq users',
           \A d \in 1..Len(devices) : d \in 1..Len(devices') /\ devices'[d].owner = devices[d].owner
    PROVE  /\ req' \in [Requests -> Request]
           /\ RequestsAreOwners'
           /\ \A r \in Requests : ReadIsCurrent(req[r])'
<1>1. ASSUME NEW r \in Requests
      PROVE  /\ req'[r] \in Request
             /\ req'[r].pc # "idle" => req[r].pc = req'[r].pc /\ req'[r].email = req[r].email
             /\ req'[r].pc = "resolved" =>
                   req'[r].device = req[r].device /\ (IsSQLite => req'[r].stale)
  BY CommittedFields DEF Idle
<1>2. RequestsAreOwners'
  BY <1>1 DEF SignInInv, RequestsAreOwners, Owns
<1>3. \A r \in Requests : ReadIsCurrent(req[r])'
  BY <1>1 DEF ReadIsCurrent, IsSQLite
<1>4. req' \in [Requests -> Request]
  BY CommittedFields
<1> QED
  BY <1>2, <1>3, <1>4

\* A session is appended, and with it perhaps the device it is for.
LEMMA SessionAdded ==
    ASSUME SignInInv, NEW e \in Emails, NEW d \in 1..Len(devices'),
           SignInTypeOK', RequestsAreOwners', \A r \in Requests : ReadIsCurrent(req[r])',
           CreateSession(e, d), devices'[d].owner = e,
           \A c \in 1..Len(devices) : c \in 1..Len(devices') /\ devices'[c].owner = devices[c].owner,
           \A c \in 1..Len(devices') : c \in 1..Len(devices) \/ c = d,
           users' = users \cup {e}
    PROVE  SignInInv'
<1>1. /\ sessions \in Seq(Session) /\ devices \in Seq(Device) /\ devices' \in Seq(Device)
      /\ Len(sessions) \in Nat /\ Len(devices) \in Nat /\ Len(devices') \in Nat
  BY DEF SignInInv, SignInTypeOK
<1>2. /\ Len(sessions') = Len(sessions) + 1
      /\ \A i \in 1..Len(sessions) : sessions'[i] = sessions[i]
      /\ sessions'[Len(sessions) + 1].user = e
      /\ sessions'[Len(sessions) + 1].device = d
  <2> DEFINE s == [user |-> e, device |-> d, live |-> TRUE]
  <2>1. sessions' = Append(sessions, s)
    BY DEF CreateSession
  <2>2. s.user = e /\ s.device = d
    OBVIOUS
  <2> HIDE DEF s
  <2> QED
    BY <1>1, <2>1, <2>2
<1>3. SessionsHaveDevices'
  <2> SUFFICES ASSUME NEW i \in 1..Len(sessions') PROVE sessions'[i].device \in 1..Len(devices')
    BY DEF SessionsHaveDevices
  <2>1. CASE i = Len(sessions) + 1
    BY <1>2, <2>1
  <2>2. CASE i \in 1..Len(sessions)
    BY <1>2, <2>2 DEF SignInInv, SessionsHaveDevices
  <2> QED
    BY <1>1, <1>2, <2>1, <2>2
<1>4. SessionsOfOwnDevices'
  BY <1>1, <1>2 DEF SignInInv, SessionsHaveDevices, SessionsOfOwnDevices
<1>5. \A c \in 1..Len(devices') : \E i \in 1..Len(sessions') : sessions'[i].device = c
  <2> SUFFICES ASSUME NEW c \in 1..Len(devices')
               PROVE  \E i \in 1..Len(sessions') : sessions'[i].device = c
    OBVIOUS
  <2>1. CASE c = d
    BY <1>1, <1>2, <2>1
  <2>2. CASE c \in 1..Len(devices)
    <3>1. PICK i \in 1..Len(sessions) : sessions[i].device = c
      BY <2>2 DEF SignInInv, AccountsAreWhole
    <3> QED
      BY <1>1, <1>2, <3>1
  <2> QED
    BY <2>1, <2>2
<1>6. users' = {devices'[c].owner : c \in 1..Len(devices')}
  <2>1. users = {devices[c].owner : c \in 1..Len(devices)}
    BY DEF SignInInv, AccountsAreWhole
  <2> QED
    BY <2>1
<1> QED
  BY <1>3, <1>4, <1>5, <1>6 DEF SignInInv, AccountsAreWhole

\* The devices after CreateDevice.
LEMMA DeviceAdded ==
    ASSUME SignInTypeOK, NEW e \in Emails, NEW k \in PubKeys \cup {NoKey}, CreateDevice(e, k)
    PROVE  /\ devices' \in Seq(Device) /\ Len(devices') <= MaxDevices
           /\ Len(devices) + 1 = Len(devices') /\ Len(devices') \in 1..MaxDevices
           /\ devices'[Len(devices')] = [owner |-> e, key |-> k]
           /\ \A d \in 1..Len(devices) : d \in 1..Len(devices') /\ devices'[d] = devices[d]
<1> DEFINE x == [owner |-> e, key |-> k]
<1>1. devices' = Append(devices, x) /\ Len(devices) < MaxDevices
  BY DEF CreateDevice
<1>2. x \in Device
  BY DEF Device
<1> HIDE DEF x
<1>3. devices \in Seq(Device) /\ Len(devices) \in Nat
  BY DEF SignInTypeOK
<1>4. devices' \in Seq(Device) /\ Len(devices') = Len(devices) + 1 /\ devices'[Len(devices')] = x
      /\ \A d \in 1..Len(devices) : devices'[d] = devices[d]
  BY <1>1, <1>2, <1>3
<1> QED
  BY <1>1, <1>3, <1>4, SignInAssumption DEF x

LEMMA SessionTyped ==
    ASSUME SignInTypeOK, NEW e \in Emails, NEW d \in 1..MaxDevices, CreateSession(e, d)
    PROVE  sessions' \in Seq(Session) /\ Len(sessions') <= MaxSessions
<1>1. [user |-> e, device |-> d, live |-> TRUE] \in Session
  BY DEF Session
<1> QED
  BY <1>1, SignInAssumption DEF CreateSession, SignInTypeOK

LEMMA RegisterStep ==
    ASSUME SignInInv, NEW r \in Requests, NEW k \in PubKeys \cup {NoKey}, RegisterCommit(r, k)
    PROVE  SignInInv'
<1> DEFINE e == req[r].email
           n == Len(devices) + 1
<1>1. SignInTypeOK /\ req[r] \in Request /\ req[r].pc = "hashing"
  BY DEF RegisterCommit, SignInInv, SignInTypeOK
<1>2. e \in Emails
  BY <1>1, RequestFields
<1> HIDE DEF e
<1>3. /\ CreateDevice(e, k) /\ CreateSession(e, n) /\ users' = users \cup {e} /\ backend' = backend
      /\ req' = Committed(Goto(r, Idle))
  BY DEF RegisterCommit, e
<1>4. /\ devices' \in Seq(Device) /\ Len(devices') <= MaxDevices
      /\ n = Len(devices') /\ n \in 1..MaxDevices
      /\ devices'[n] = [owner |-> e, key |-> k]
      /\ \A d \in 1..Len(devices) : d \in 1..Len(devices') /\ devices'[d] = devices[d]
  BY <1>1, <1>2, <1>3, DeviceAdded
<1>5. Goto(r, Idle) \in [Requests -> Request]
      /\ \A q \in Requests : Goto(r, Idle)[q] = req[q] \/ Goto(r, Idle)[q] = Idle
  BY <1>1 DEF Goto, SignInTypeOK, Request
<1>6. /\ req' \in [Requests -> Request] /\ RequestsAreOwners'
      /\ \A q \in Requests : ReadIsCurrent(req[q])'
  BY <1>3, <1>4, <1>5, CommitKeepsRequests
<1>7. sessions' \in Seq(Session) /\ Len(sessions') <= MaxSessions
  BY <1>1, <1>2, <1>3, <1>4, SessionTyped
<1>8. SignInTypeOK'
  BY <1>1, <1>2, <1>3, <1>4, <1>6, <1>7 DEF SignInTypeOK
<1>9. n \in 1..Len(devices') /\ devices'[n].owner = e /\ Len(devices) \in Nat
      /\ \A c \in 1..Len(devices') : c \in 1..Len(devices) \/ c = n
  BY <1>1, <1>4 DEF SignInTypeOK
<1> HIDE DEF n
<1> QED
  BY <1>2, <1>3, <1>4, <1>6, <1>8, <1>9, SessionAdded

LEMMA LoginStep ==
    ASSUME SignInInv, NEW r \in Requests, LoginCommit(r)
    PROVE  SignInInv'
<1> DEFINE e == req[r].email
           d == req[r].device
           k == req[r].key
           n == IF d = NoDevice THEN Len(devices) + 1 ELSE d
<1>1. SignInTypeOK /\ req[r] \in Request /\ req[r].pc = "resolved" /\ Len(devices) \in Nat
  BY DEF LoginCommit, SignInInv, SignInTypeOK
<1>2. e \in Emails /\ e \in users /\ d \in 0..MaxDevices /\ k \in PubKeys \cup {NoKey}
      /\ (d # NoDevice => Owns(e, d))
  BY <1>1, RequestFields DEF ResolvedType, SignInInv, RequestsAreOwners
<1>3. /\ CreateSession(e, n) /\ users' = users \cup {e} /\ backend' = backend
      /\ req' = Committed(Goto(r, Idle))
  BY <1>2 DEF LoginCommit
<1>4. /\ devices' \in Seq(Device) /\ Len(devices') <= MaxDevices
      /\ n \in 1..MaxDevices /\ n \in 1..Len(devices')
      /\ devices'[n].owner = e
      /\ \A c \in 1..Len(devices) : c \in 1..Len(devices') /\ devices'[c].owner = devices[c].owner
      /\ \A c \in 1..Len(devices') : c \in 1..Len(devices) \/ c = n
  <2>1. CASE d = NoDevice
    <3>1. CreateDevice(e, k) /\ n = Len(devices) + 1
      BY <2>1 DEF LoginCommit
    <3>2. /\ devices' \in Seq(Device) /\ Len(devices') <= MaxDevices
          /\ n = Len(devices') /\ Len(devices') \in 1..MaxDevices
          /\ devices'[n] = [owner |-> e, key |-> k]
          /\ \A c \in 1..Len(devices) : c \in 1..Len(devices') /\ devices'[c] = devices[c]
      BY <1>1, <1>2, <3>1, DeviceAdded
    <3> HIDE DEF n, e, d, k
    <3> QED
      BY <1>1, <3>1, <3>2
  <2>2. CASE d # NoDevice
    <3>1. n = d /\ d \in 1..Len(devices) /\ devices[d].owner = e
      BY <1>2, <2>2 DEF Owns
    <3>2. devices' = devices \/ devices' = [devices EXCEPT ![d].key = k]
      BY <2>2 DEF LoginCommit, SetDevicePubkey
    <3>3. devices \in Seq(Device) /\ devices[d] \in Device /\ Len(devices) <= MaxDevices
      BY <1>1, <3>1 DEF SignInTypeOK
    <3>4. [devices[d] EXCEPT !.key = k] \in Device
          /\ [devices[d] EXCEPT !.key = k].owner = devices[d].owner
      BY <1>2, <3>3 DEF Device
    <3> DEFINE x == [devices[d] EXCEPT !.key = k]
    <3>6. devices' = devices \/ devices' = [devices EXCEPT ![d] = x]
      BY <3>1, <3>2, <3>3
    <3>7. x \in Device /\ x.owner = devices[d].owner
      BY <3>4
    <3> HIDE DEF n, e, d, k, x
    <3>5. /\ devices' \in Seq(Device) /\ Len(devices') = Len(devices)
          /\ \A c \in 1..Len(devices) : devices'[c].owner = devices[c].owner
      BY <3>1, <3>3, <3>6, <3>7, SeqReplaced
    <3> QED
      BY <1>1, <3>1, <3>3, <3>5, SignInAssumption
  <2> QED
    BY <2>1, <2>2
<1>5. Goto(r, Idle) \in [Requests -> Request]
      /\ \A q \in Requests : Goto(r, Idle)[q] = req[q] \/ Goto(r, Idle)[q] = Idle
  BY <1>1 DEF Goto, SignInTypeOK, Request
<1> HIDE DEF e, d, k, n
<1>6. /\ req' \in [Requests -> Request] /\ RequestsAreOwners'
      /\ \A q \in Requests : ReadIsCurrent(req[q])'
  BY <1>3, <1>4, <1>5, CommitKeepsRequests
<1>7. sessions' \in Seq(Session) /\ Len(sessions') <= MaxSessions
  BY <1>1, <1>2, <1>3, <1>4, SessionTyped
<1>8. SignInTypeOK'
  BY <1>1, <1>2, <1>3, <1>4, <1>6, <1>7 DEF SignInTypeOK
<1> QED
  BY <1>2, <1>3, <1>4, <1>6, <1>8, SessionAdded

\* A session may end; its user and its device stay.
LEMMA SessionsEnd ==
    ASSUME SignInInv, req' = Committed(req), UNCHANGED <<backend, users, devices>>,
           sessions' \in Seq(Session), Len(sessions') = Len(sessions),
           \A i \in 1..Len(sessions) : sessions'[i].user = sessions[i].user
                                       /\ sessions'[i].device = sessions[i].device
    PROVE  SignInInv'
<1>1. req \in [Requests -> Request] /\ \A r \in Requests : req[r] = req[r]
  BY DEF SignInInv, SignInTypeOK
<1>2. /\ req' \in [Requests -> Request] /\ RequestsAreOwners'
      /\ \A r \in Requests : ReadIsCurrent(req[r])'
  BY <1>1, CommitKeepsRequests
<1>3. SignInTypeOK'
  BY <1>2 DEF SignInInv, SignInTypeOK
<1> QED
  BY <1>2, <1>3 DEF SignInInv, SessionsHaveDevices, SessionsOfOwnDevices, AccountsAreWhole

LEMMA EndStep ==
    ASSUME SignInInv,
           \/ \E s \in 1..MaxSessions : Logout(s) \/ \E d \in 1..MaxDevices : RevokeDevice(s, d)
           \/ OtherWrite
    PROVE  SignInInv'
<1>1. sessions \in Seq(Session) /\ Len(sessions) \in Nat
      /\ \A i \in 1..Len(sessions) :
            /\ sessions[i] \in Session
            /\ [sessions[i] EXCEPT !.live = FALSE] \in Session
            /\ [sessions[i] EXCEPT !.live = FALSE].user = sessions[i].user
            /\ [sessions[i] EXCEPT !.live = FALSE].device = sessions[i].device
  <2>1. sessions \in Seq(Session)
    BY DEF SignInInv, SignInTypeOK
  <2>2. \A x \in Session : /\ [x EXCEPT !.live = FALSE] \in Session
                           /\ [x EXCEPT !.live = FALSE].user = x.user
                           /\ [x EXCEPT !.live = FALSE].device = x.device
    BY DEF Session
  <2> QED
    BY <2>1, <2>2
<1>2. ASSUME NEW s \in 1..MaxSessions, Logout(s) PROVE SignInInv'
  <2>1. s \in 1..Len(sessions) /\ sessions' = [sessions EXCEPT ![s] = [sessions[s] EXCEPT !.live = FALSE]]
    BY <1>2 DEF Logout, RequireAuth, Resolve
  <2> QED
    BY <1>1, <1>2, <2>1, SessionsEnd DEF Logout
<1>3. ASSUME NEW s \in 1..MaxSessions, NEW d \in 1..MaxDevices, RevokeDevice(s, d)
      PROVE  SignInInv'
  <2>1. sessions' = [i \in 1..Len(sessions) |->
                       IF sessions[i].device = d
                       THEN [sessions[i] EXCEPT !.live = FALSE] ELSE sessions[i]]
    BY <1>3 DEF RevokeDevice
  <2>2. \A i \in 1..Len(sessions) : /\ sessions'[i] \in Session
                                    /\ sessions'[i].user = sessions[i].user
                                    /\ sessions'[i].device = sessions[i].device
    BY <1>1, <2>1
  <2>3. sessions' \in Seq(Session) /\ Len(sessions') = Len(sessions)
    BY <1>1, <2>1, <2>2
  <2> QED
    BY <1>3, <2>2, <2>3, SessionsEnd DEF RevokeDevice
<1>4. CASE OtherWrite
  BY <1>1, <1>4, SessionsEnd DEF OtherWrite, tables
<1> QED
  BY <1>2, <1>3, <1>4

\* A request that starts, or passes a check, holds what the tables hold.
LEMMA RequestSteps ==
    ASSUME SignInInv, NEW r \in Requests,
           \/ \E e \in Emails : RegisterStart(r, e) \/ LoginVerified(r, e)
           \/ \E k \in PubKeys \cup {NoKey} :
                 ResolveByKey(r, k) \/ \E d \in 1..MaxDevices : ResolveById(r, d, k)
    PROVE  SignInInv'
<1>1. ASSUME NEW e \in Emails, RegisterStart(r, e) PROVE SignInInv'
  <2>1. [pc |-> "hashing", email |-> e] \in Request
    BY DEF Request
  <2> QED
    BY <1>1, <2>1, RequestStep DEF RegisterStart, ReadIsCurrent
<1>2. ASSUME NEW e \in Emails, LoginVerified(r, e) PROVE SignInInv'
  <2>1. [pc |-> "verified", email |-> e] \in Request
    BY DEF Request
  <2> QED
    BY <1>2, <2>1, RequestStep DEF LoginVerified, ReadIsCurrent, EmailExists
<1> DEFINE a == req[r].email
<1>3. ASSUME req[r].pc = "verified" PROVE a \in Emails /\ a \in users
  <2>1. req[r] \in Request
    BY DEF SignInInv, SignInTypeOK
  <2> QED
    BY <1>3, <2>1, RequestFields DEF SignInInv, RequestsAreOwners
<1>4. ASSUME req[r].pc = "verified", NEW d \in 0..MaxDevices, NEW j \in PubKeys \cup {NoKey},
             req' = Goto(r, Resolved(r, d, j)), UNCHANGED <<backend, tables>>,
             d # NoDevice => Owns(a, d),
             d # NoDevice /\ j # NoKey => devices[d].key = NoKey,
             d = NoDevice /\ j # NoKey =>
                \A c \in 1..Len(devices) : devices[c] # [owner |-> a, key |-> j]
      PROVE  SignInInv'
  <2> DEFINE x == Resolved(r, d, j)
  <2>1. /\ x.pc = "resolved" /\ x.email = a /\ x.device = d /\ x.key = j /\ x.stale = FALSE
        /\ x \in Request
    BY <1>3, <1>4 DEF Resolved, Request
  <2> HIDE DEF x, a
  <2>2. ReadIsCurrent(x)
    BY <1>4, <2>1 DEF ReadIsCurrent
  <2>3. req' = Goto(r, x)
    BY <1>4 DEF x
  <2> QED
    BY <1>3, <1>4, <2>1, <2>2, <2>3, RequestStep
<1>5. ASSUME NEW k \in PubKeys \cup {NoKey}, NEW d \in 1..MaxDevices, ResolveById(r, d, k)
      PROVE  SignInInv'
  <2>1. d \in 0..MaxDevices /\ d # NoDevice
    BY SignInAssumption DEF NoDevice
  <2>2. CASE GetDeviceForUser(d, a)
    <3> DEFINE j == IF devices[d].key = NoKey THEN k ELSE NoKey
    <3>1. req[r].pc = "verified" /\ req' = Goto(r, Resolved(r, d, j)) /\ UNCHANGED <<backend, tables>>
      BY <1>5, <2>2 DEF ResolveById
    <3>2. j \in PubKeys \cup {NoKey} /\ (j # NoKey => devices[d].key = NoKey)
      OBVIOUS
    <3>3. Owns(a, d)
      BY <2>2 DEF GetDeviceForUser, Owns
    <3> HIDE DEF j, a
    <3> QED
      BY <1>4, <2>1, <3>1, <3>2, <3>3
  <2>3. CASE ~GetDeviceForUser(d, a)
    BY <1>5, <2>3, ToIdleStep DEF ResolveById
  <2> QED
    BY <2>2, <2>3
<1>6. ASSUME NEW k \in PubKeys \cup {NoKey}, ResolveByKey(r, k) PROVE SignInInv'
  <2> DEFINE same == {d \in ListDevicesForUser(a) : k # NoKey /\ devices[d].key = k}
             first == CHOOSE d \in same : \A c \in same : d <= c
  <2>1. CASE same = {}
    <3>1. k # NoKey => \A c \in 1..Len(devices) : devices[c] # [owner |-> a, key |-> k]
      BY <2>1 DEF ListDevicesForUser
    <3>2. /\ req' = Goto(r, Resolved(r, NoDevice, k)) /\ req[r].pc = "verified"
          /\ UNCHANGED <<backend, tables>>
      BY <1>6, <2>1 DEF ResolveByKey
    <3>3. NoDevice \in 0..MaxDevices
      BY SignInAssumption DEF NoDevice
    <3> HIDE DEF a, same, first
    <3> QED
      BY <1>4, <3>1, <3>2, <3>3
  <2>2. CASE same # {}
    <3>1. same \subseteq 1..Len(devices) /\ \A d \in same : Owns(a, d)
      BY DEF ListDevicesForUser, Owns
    <3>2. Len(devices) \in Nat /\ Len(devices) <= MaxDevices
      BY DEF SignInInv, SignInTypeOK
    <3> HIDE DEF same
    <3>3. first \in same
      <4>1. same \subseteq Nat
        BY <3>1, <3>2
      <4> QED
        BY <2>2, <4>1, LeastExists
    <3> HIDE DEF first
    <3>4. first \in 0..MaxDevices /\ first # NoDevice
      BY <3>1, <3>2, <3>3, SignInAssumption DEF NoDevice
    <3>5. /\ req' = Goto(r, Resolved(r, first, NoKey)) /\ req[r].pc = "verified"
          /\ UNCHANGED <<backend, tables>>
      BY <1>6, <2>2 DEF ResolveByKey, first, same
    <3> HIDE DEF a
    <3> QED
      BY <1>4, <3>1, <3>3, <3>4, <3>5
  <2> QED
    BY <2>1, <2>2
<1> HIDE DEF a
<1>7. CASE \E e \in Emails : RegisterStart(r, e) \/ LoginVerified(r, e)
  BY <1>1, <1>2, <1>7
<1>8. CASE \E k \in PubKeys \cup {NoKey} :
             ResolveByKey(r, k) \/ \E d \in 1..MaxDevices : ResolveById(r, d, k)
  BY <1>5, <1>6, <1>8
<1> QED
  BY <1>7, <1>8

LEMMA SignInStep == SignInInv /\ [SignInNext]_svars => SignInInv'
<1> SUFFICES ASSUME SignInInv, [SignInNext]_svars PROVE SignInInv'
  OBVIOUS
<1>1. ASSUME NEW r \in Requests, RegisterFails(r) \/ LoginFails(r) PROVE SignInInv'
  BY <1>1, ToIdleStep DEF RegisterFails, LoginFails
<1>2. CASE UNCHANGED svars
  <2>1. UNCHANGED <<backend, users, devices, sessions, req>>
    BY <1>2 DEF svars, tables
  <2>2. SignInTypeOK'
    BY <2>1 DEF SignInInv, SignInTypeOK
  <2>3. RequestsAreOwners' /\ SessionsHaveDevices'
    BY <2>1 DEF SignInInv, RequestsAreOwners, Owns, SessionsHaveDevices
  <2>4. SessionsOfOwnDevices' /\ AccountsAreWhole'
    BY <2>1 DEF SignInInv, SessionsOfOwnDevices, AccountsAreWhole
  <2>5. \A r \in Requests : ReadIsCurrent(req[r])'
    BY <2>1 DEF SignInInv, ReadIsCurrent, IsSQLite
  <2> QED
    BY <2>2, <2>3, <2>4, <2>5 DEF SignInInv
<1> QED
  BY <1>1, <1>2, RequestSteps, RegisterStep, LoginStep, EndStep DEF SignInNext

\* What a step may do to the devices when the store is SQLite.
IdentityStep ==
    IsSQLite =>
        /\ \A d \in 1..Len(devices) :
              devices[d].key # NoKey => devices'[d].key = devices[d].key
        /\ \A d \in 1..Len(devices') :
              d > Len(devices) /\ devices'[d].key # NoKey =>
                \A c \in 1..Len(devices) : devices[c] # devices'[d]

LEMMA UnchangedIdentity ==
    ASSUME SignInTypeOK, devices' = devices
    PROVE  IdentityStep
<1>1. Len(devices) \in Nat
  BY DEF SignInTypeOK
<1> QED
  BY <1>1 DEF IdentityStep

\* A device created for somebody who has none with that key.
LEMMA AddedIdentity ==
    ASSUME SignInTypeOK, NEW e \in Emails, NEW k \in PubKeys \cup {NoKey}, CreateDevice(e, k),
           IsSQLite /\ k # NoKey => \A c \in 1..Len(devices) : devices[c] # [owner |-> e, key |-> k]
    PROVE  IdentityStep
<1>1. /\ Len(devices) + 1 = Len(devices') /\ Len(devices) \in Nat
      /\ devices'[Len(devices')] = [owner |-> e, key |-> k]
      /\ \A d \in 1..Len(devices) : devices'[d] = devices[d]
  BY DeviceAdded DEF SignInTypeOK
<1>2. ASSUME IsSQLite, NEW d \in 1..Len(devices'), d > Len(devices), devices'[d].key # NoKey,
             NEW c \in 1..Len(devices)
      PROVE  devices[c] # devices'[d]
  <2>1. d = Len(devices')
    BY <1>1, <1>2
  <2> QED
    BY <1>1, <1>2, <2>1
<1> QED
  BY <1>1, <1>2 DEF IdentityStep

LEMMA LoginIdentity ==
    ASSUME SignInInv, NEW r \in Requests, LoginCommit(r)
    PROVE  IdentityStep
<1> DEFINE e == req[r].email
           d == req[r].device
           k == req[r].key
<1>1. SignInTypeOK /\ req[r] \in Request /\ req[r].pc = "resolved" /\ ReadIsCurrent(req[r])
  BY DEF LoginCommit, SignInInv, SignInTypeOK
<1>2. e \in Emails /\ k \in PubKeys \cup {NoKey} /\ req[r].stale \in BOOLEAN
      /\ (d # NoDevice => Owns(e, d))
  BY <1>1, RequestFields DEF ResolvedType, SignInInv, RequestsAreOwners
<1>3. k # NoKey => ~req[r].stale
  BY <1>2 DEF LoginCommit, ReadNothing
<1>4. CASE d = NoDevice
  <2>1. CreateDevice(e, k)
    BY <1>4 DEF LoginCommit
  <2>2. IsSQLite /\ k # NoKey => \A c \in 1..Len(devices) : devices[c] # [owner |-> e, key |-> k]
    BY <1>1, <1>3, <1>4 DEF ReadIsCurrent
  <2> HIDE DEF e, d, k
  <2> QED
    BY <1>1, <1>2, <2>1, <2>2, AddedIdentity
<1>5. CASE d # NoDevice /\ k # NoKey
  <2>1. devices' = [devices EXCEPT ![d] = [devices[d] EXCEPT !.key = k]]
        /\ d \in 1..Len(devices)
    BY <1>2, <1>5 DEF LoginCommit, SetDevicePubkey, Owns
  <2>2. IsSQLite => devices[d].key = NoKey
    BY <1>1, <1>3, <1>5 DEF ReadIsCurrent
  <2>3. devices \in Seq(Device) /\ Len(devices) \in Nat /\ devices[d] \in Device
    BY <1>1, <2>1 DEF SignInTypeOK
  <2>4. [devices[d] EXCEPT !.key = k] \in Device
    BY <1>2, <2>3 DEF Device
  <2> HIDE DEF e, d, k
  <2>5. Len(devices') = Len(devices) /\ \A c \in 1..Len(devices) : c # d => devices'[c] = devices[c]
    BY <2>1, <2>3, <2>4, SeqReplaced
  <2> QED
    BY <2>2, <2>3, <2>5 DEF IdentityStep
<1>6. CASE d # NoDevice /\ k = NoKey
  BY <1>1, <1>6, UnchangedIdentity DEF LoginCommit
<1> QED
  BY <1>4, <1>5, <1>6

LEMMA IdentityKept == SignInInv /\ [SignInNext]_svars => IdentityStep
<1> SUFFICES ASSUME SignInInv, [SignInNext]_svars PROVE IdentityStep
  OBVIOUS
<1>1. SignInTypeOK
  BY DEF SignInInv
<1>2. ASSUME NEW r \in Requests, NEW k \in PubKeys \cup {NoKey}, RegisterCommit(r, k)
      PROVE  IdentityStep
  <2> DEFINE e == req[r].email
  <2>1. e \in Emails
    BY <1>1, <1>2, RequestFields DEF RegisterCommit, SignInTypeOK
  <2>2. e \notin users /\ CreateDevice(e, k)
    BY <1>2 DEF RegisterCommit, EmailExists
  <2>3. \A c \in 1..Len(devices) : devices[c] # [owner |-> e, key |-> k]
    BY <2>2 DEF SignInInv, AccountsAreWhole
  <2> HIDE DEF e
  <2> QED
    BY <1>1, <2>1, <2>2, <2>3, AddedIdentity
<1>3. CASE UNCHANGED svars
  BY <1>1, <1>3, UnchangedIdentity DEF svars, tables
<1>4. ASSUME NEW r \in Requests,
             \/ \E e \in Emails : RegisterStart(r, e) \/ LoginVerified(r, e)
             \/ \E k \in PubKeys \cup {NoKey} :
                   ResolveByKey(r, k) \/ \E d \in 1..MaxDevices : ResolveById(r, d, k)
             \/ RegisterFails(r) \/ LoginFails(r)
      PROVE  IdentityStep
  <2>1. devices' = devices
    BY <1>4 DEF RegisterStart, LoginVerified, ResolveByKey, ResolveById, RegisterFails, LoginFails, tables
  <2> QED
    BY <1>1, <2>1, UnchangedIdentity
<1>5. ASSUME \/ \E s \in 1..MaxSessions : Logout(s) \/ \E d \in 1..MaxDevices : RevokeDevice(s, d)
             \/ OtherWrite
      PROVE  IdentityStep
  <2>1. devices' = devices
    BY <1>5 DEF Logout, RevokeDevice, OtherWrite, tables
  <2> QED
    BY <1>1, <2>1, UnchangedIdentity
<1> QED
  BY <1>2, <1>3, <1>4, <1>5, LoginIdentity DEF SignInNext

LEMMA SignInInvHolds == SignInSpec => []SignInInv
  BY SignInInitInv, SignInStep, PTL DEF SignInSpec

\* Accounts, devices, sessions and requests keep their types.
THEOREM SignInTypeCorrect == SignInSpec => []SignInTypeOK
<1>1. SignInInv => SignInTypeOK
  BY DEF SignInInv
<1> QED
  BY <1>1, SignInInvHolds, PTL

\* A session joins a user to a device of his own, for any number of requests
\* that overlap on either backend (resolveOrCreateDevice, issueSession).
THEOREM SessionsJoinOwnDevices == SignInSpec => []SessionsOfOwnDevices
<1>1. SignInInv => SessionsOfOwnDevices
  BY DEF SignInInv
<1> QED
  BY <1>1, SignInInvHolds, PTL

\* Registration is all or nothing, whatever it overlaps with (Register).
THEOREM RegistrationIsWhole == SignInSpec => []AccountsAreWhole
<1>1. SignInInv => AccountsAreWhole
  BY DEF SignInInv
<1> QED
  BY <1>1, SignInInvHolds, PTL

\* On SQLite overlapping sign-ins neither replace the key of a device nor
\* create a second device for a key (resolveOrCreateDevice).
THEOREM IdentityIsStable == SignInSpec => DeviceIdentityIsStable
<1>1. SignInInv /\ [SignInNext]_svars => [IdentityStep]_svars
  BY IdentityKept
<1> QED
  BY <1>1, SignInInvHolds, PTL DEF SignInSpec, DeviceIdentityIsStable, IdentityStep

-----------------------------------------------------------------------------
(***************************************************************************)
(* Mutes: what was last put is in force.                                   *)
(***************************************************************************)

\* PUT x with an open transaction has added or still to insert what it asks for, and
\* a row of its own DELETE is never in the way of its INSERT.
InOpen(x) == x.pc \in {"deleting", "inserting"}
PutInv(x) ==
    InOpen(x) =>
        /\ x.added \cup x.todo \subseteq x.set
        /\ (x.set \ x.todo) \cap x.victims \subseteq x.added

\* A transaction that overlaps no other one of its user deletes all that is
\* committed, so that its INSERTs meet nothing.
AloneReplacesAll ==
    \A p \in Puts :
        Open(p) /\ (IsSQLite \/ p \notin overlapped) =>
            /\ \A q \in Puts : Open(q) /\ put[q].user = put[p].user => q = p
            /\ put[p].victims = mutes[put[p].user]
            /\ put[p].added = put[p].set \ put[p].todo

MutesInv ==
    /\ MutesTypeOK
    /\ \A p \in Puts : PutInv(put[p])
    /\ AloneReplacesAll
    /\ MutesInForce

LEMMA MutesInitInv == MutesInit => MutesInv
<1> SUFFICES ASSUME MutesInit PROVE MutesInv
  OBVIOUS
<1>1. MutesTypeOK
  BY DEF MutesInit, MutesTypeOK, BackendInit, Put, NoPut
<1>2. \A p \in Puts : put[p].pc = "idle"
  BY DEF MutesInit, NoPut
<1> QED
  BY <1>1, <1>2 DEF MutesInit, MutesInv, PutInv, InOpen, AloneReplacesAll, Open, MutesInForce

\* A PUT under way.
OpenPuts == [pc : {"deleting", "inserting"}, user : Muters, set : SUBSET Targets,
             victims : SUBSET Targets, todo : SUBSET Targets, added : SUBSET Targets]

LEMMA PutFields ==
    ASSUME MutesTypeOK, NEW p \in Puts
    PROVE  /\ put[p].pc = "checked" => put[p].user \in Muters /\ put[p].set \in SUBSET Targets
           /\ Open(p) => put[p] \in OpenPuts
<1>1. put[p] \in Put
  BY DEF MutesTypeOK
<1> QED
  BY <1>1 DEF Put, NoPut, Open, OpenPuts

\* PUT p becomes x, and nothing is committed.
LEMMA PutStep ==
    ASSUME MutesInv, NEW p \in Puts, NEW x \in Put,
           put' = [put EXCEPT ![p] = x], UNCHANGED <<backend, members, mutes, last, mixed>>,
           overlapped' \subseteq Puts, overlapped \ {p} \subseteq overlapped',
           PutInv(x),
           InOpen(x) =>
             \A q \in Puts \ {p} : Open(q) /\ put[q].user = x.user =>
                 ~IsSQLite /\ p \in overlapped' /\ q \in overlapped',
           InOpen(x) /\ (IsSQLite \/ p \notin overlapped') =>
               x.victims = mutes[x.user] /\ x.added = x.set \ x.todo
    PROVE  MutesInv'
<1>1. put' \in [Puts -> Put] /\ \A q \in Puts : put'[q] = IF q = p THEN x ELSE put[q]
  BY DEF MutesInv, MutesTypeOK
<1>2. MutesTypeOK' /\ MutesInForce'
  BY <1>1 DEF MutesInv, MutesTypeOK, MutesInForce, IsSQLite
<1>3. \A q \in Puts : PutInv(put'[q])
  BY <1>1 DEF MutesInv
<1>4. AloneReplacesAll'
  <2> SUFFICES ASSUME NEW q \in Puts, InOpen(put'[q]), IsSQLite \/ q \notin overlapped'
               PROVE  /\ \A o \in Puts : InOpen(put'[o]) /\ put'[o].user = put'[q].user => o = q
                      /\ put'[q].victims = mutes[put'[q].user]
                      /\ put'[q].added = put'[q].set \ put'[q].todo
    BY DEF AloneReplacesAll, Open, InOpen, IsSQLite
  <2>1. CASE q = p
    <3>1. \A o \in Puts : InOpen(put'[o]) /\ put'[o].user = put'[q].user => o = q
      BY <1>1, <2>1 DEF Open, InOpen
    <3> QED
      BY <1>1, <2>1, <3>1
  <2>2. CASE q # p
    <3>1. put'[q] = put[q] /\ Open(q) /\ (IsSQLite \/ q \notin overlapped)
      BY <1>1, <2>2 DEF Open, InOpen
    <3>2. /\ \A o \in Puts : Open(o) /\ put[o].user = put[q].user => o = q
          /\ put[q].victims = mutes[put[q].user]
          /\ put[q].added = put[q].set \ put[q].todo
      BY <3>1 DEF MutesInv, AloneReplacesAll
    <3>3. ~(InOpen(x) /\ x.user = put[q].user)
      BY <2>2, <3>1
    <3> QED
      BY <1>1, <3>1, <3>2, <3>3 DEF Open, InOpen
  <2> QED
    BY <2>1, <2>2
<1> QED
  BY <1>2, <1>3, <1>4 DEF MutesInv

LEMMA DeleteStep ==
    ASSUME MutesInv, NEW p \in Puts, DeleteMutes(p)
    PROVE  MutesInv'
<1> DEFINE u == put[p].user
           x == [pc |-> "deleting", user |-> u, set |-> put[p].set,
                 victims |-> mutes[u], todo |-> put[p].set, added |-> {}]
<1>1. u \in Muters /\ put[p].set \in SUBSET Targets /\ mutes[u] \in SUBSET Targets
  BY PutFields DEF DeleteMutes, MutesInv, MutesTypeOK
<1>2. x \in Put
  BY <1>1 DEF Put
<1>3. PutInv(x)
  BY DEF PutInv
<1>4. put' = [put EXCEPT ![p] = x] /\ UNCHANGED <<backend, members, mutes, last, mixed>>
  BY DEF DeleteMutes, BeginDelete
<1>5. overlapped' \subseteq Puts /\ overlapped \subseteq overlapped'
  BY DEF DeleteMutes, BeginDelete, Others, MutesInv, MutesTypeOK
<1>6. \A q \in Puts \ {p} : Open(q) /\ put[q].user = u =>
          ~IsSQLite /\ p \in overlapped' /\ q \in overlapped'
  BY DEF DeleteMutes, BeginDelete, Others
<1>7. x.victims = mutes[u] /\ x.added = x.set \ x.todo /\ x.user = u
  OBVIOUS
<1> HIDE DEF x, u
<1> QED
  BY <1>2, <1>3, <1>4, <1>5, <1>6, <1>7, PutStep

\* An open transaction goes on: whoever is open beside it, overlaps it.
LEMMA OpenStep ==
    ASSUME MutesInv, NEW p \in Puts, Open(p), NEW x \in OpenPuts,
           put' = [put EXCEPT ![p] = x],
           UNCHANGED <<backend, members, mutes, last, overlapped, mixed>>,
           x.user = put[p].user, x.victims = put[p].victims,
           PutInv(x),
           put[p].added = put[p].set \ put[p].todo /\ put[p].victims = mutes[put[p].user]
               => x.added = x.set \ x.todo
    PROVE  MutesInv'
<1>1. x \in Put
  BY DEF Put, OpenPuts
<1>2. \A q \in Puts \ {p} : Open(q) /\ put[q].user = x.user =>
          ~IsSQLite /\ p \in overlapped /\ q \in overlapped
  BY DEF MutesInv, AloneReplacesAll
<1>3. IsSQLite \/ p \notin overlapped => x.victims = mutes[x.user] /\ x.added = x.set \ x.todo
  BY DEF MutesInv, AloneReplacesAll
<1>4. overlapped \subseteq Puts
  BY DEF MutesInv, MutesTypeOK
<1> QED
  BY <1>1, <1>2, <1>3, <1>4, PutStep

LEMMA DeleteDoneStep ==
    ASSUME MutesInv, NEW p \in Puts, DeleteMutesDone(p)
    PROVE  MutesInv'
<1> DEFINE x == [put[p] EXCEPT !.pc = "inserting"]
<1>1. Open(p) /\ put[p] \in OpenPuts /\ put \in [Puts -> Put]
  BY PutFields DEF DeleteMutesDone, Open, MutesInv, MutesTypeOK
<1>2. /\ x \in OpenPuts /\ x.user = put[p].user /\ x.victims = put[p].victims /\ x.set = put[p].set
      /\ x.todo = put[p].todo /\ x.added = put[p].added
  BY <1>1 DEF OpenPuts
<1>3. put' = [put EXCEPT ![p] = x]
  BY <1>1 DEF DeleteMutesDone, OpenPuts
<1> HIDE DEF x
<1>4. PutInv(put[p])
  BY DEF MutesInv
<1>5. PutInv(x)
  BY <1>1, <1>2, <1>4 DEF PutInv, InOpen, Open
<1> QED
  BY <1>1, <1>2, <1>3, <1>5, OpenStep DEF DeleteMutesDone

LEMMA InsertStep ==
    ASSUME MutesInv, NEW p \in Puts, NEW t \in Targets, InsertMute(p, t)
    PROVE  MutesInv'
<1> DEFINE rows == IF t \in mutes[put[p].user] \ put[p].victims
                   THEN put[p].added ELSE put[p].added \cup {t}
           x == [put[p] EXCEPT !.todo = @ \ {t}, !.added = rows]
<1>1. Open(p) /\ put[p] \in OpenPuts /\ put \in [Puts -> Put] /\ t \in put[p].todo
  BY PutFields DEF InsertMute, NextMute, Open, MutesInv, MutesTypeOK
<1>2. put[p].added \in SUBSET Targets /\ rows \in SUBSET Targets
  BY <1>1 DEF OpenPuts
<1>3. put' = [put EXCEPT ![p] = x]
  BY <1>1 DEF InsertMute, OpenPuts
<1>4. rows \subseteq put[p].added \cup {t} /\ (t \in put[p].victims => t \in rows)
      /\ put[p].added \subseteq rows /\ (put[p].victims = mutes[put[p].user] => t \in rows)
  OBVIOUS
<1> HIDE DEF rows
<1>5. /\ x \in OpenPuts /\ x.user = put[p].user /\ x.victims = put[p].victims /\ x.set = put[p].set
      /\ x.todo = put[p].todo \ {t} /\ x.added = rows
  BY <1>1, <1>2 DEF OpenPuts
<1> HIDE DEF x
<1>6. PutInv(put[p])
  BY DEF MutesInv
<1>7. PutInv(x)
  BY <1>1, <1>4, <1>5, <1>6 DEF PutInv, InOpen, Open
<1>8. put[p].added = put[p].set \ put[p].todo /\ put[p].victims = mutes[put[p].user]
        => x.added = x.set \ x.todo
  BY <1>1, <1>4, <1>5, <1>6 DEF PutInv, InOpen, Open
<1> QED
  BY <1>1, <1>3, <1>5, <1>7, <1>8, OpenStep DEF InsertMute

LEMMA CommitStep ==
    ASSUME MutesInv, NEW p \in Puts, SetMutesCommit(p)
    PROVE  MutesInv'
<1> DEFINE u == put[p].user
<1>1. /\ put[p].pc = "inserting" /\ Open(p) /\ put[p] \in OpenPuts /\ put[p].todo = {}
      /\ UNCHANGED <<backend, members>>
  BY PutFields DEF SetMutesCommit, Open, MutesInv
<1>2. /\ u \in Muters /\ put[p].set \in SUBSET Targets
      /\ put[p].added \in SUBSET Targets /\ put[p].victims \in SUBSET Targets
  BY <1>1 DEF OpenPuts
<1>3. /\ mutes' \in [Muters -> SUBSET Targets] /\ last' \in [Muters -> SUBSET Targets]
      /\ mutes'[u] = (mutes[u] \ put[p].victims) \cup put[p].added /\ last'[u] = put[p].set
      /\ \A v \in Muters : v # u => mutes'[v] = mutes[v] /\ last'[v] = last[v]
  BY <1>2 DEF SetMutesCommit, MutesInv, MutesTypeOK
<1>4. /\ overlapped' = overlapped \ {p}
      /\ mixed' = IF p \in overlapped THEN mixed \cup {u} ELSE mixed \ {u}
  BY DEF SetMutesCommit
<1>5. ASSUME NEW q \in Puts
      PROVE  /\ put'[q] \in Put
             /\ PutInv(put'[q])
             /\ InOpen(put'[q]) => /\ q # p /\ Open(q) /\ put'[q].user = put[q].user
                                   /\ put[q].user # u => put'[q] = put[q]
  <2>0. PutInv(put[q]) /\ put[q] \in Put
    BY DEF MutesInv, MutesTypeOK
  <2>1. CASE q = p
    BY <2>1 DEF SetMutesCommit, Put, NoPut, PutInv, InOpen
  <2>2. CASE q # p /\ Open(q) /\ put[q].user = u
    <3>1. put'[q] = [put[q] EXCEPT !.victims = @ \ put[p].victims]
      BY <2>2 DEF SetMutesCommit, Others
    <3>2. put[q] \in OpenPuts
      BY <2>2, PutFields DEF MutesInv
    <3>3. /\ put'[q] \in OpenPuts /\ put'[q].user = put[q].user /\ put'[q].set = put[q].set
          /\ put'[q].todo = put[q].todo /\ put'[q].added = put[q].added
          /\ put'[q].victims \subseteq put[q].victims
      BY <3>1, <3>2 DEF OpenPuts
    <3>4. put'[q] \in Put
      BY <3>3 DEF Put, OpenPuts
    <3>5. PutInv(put'[q])
      BY <2>0, <2>2, <3>3 DEF PutInv, InOpen, Open
    <3> QED
      BY <2>2, <3>3, <3>4, <3>5
  <2>3. CASE q # p /\ ~(Open(q) /\ put[q].user = u)
    <3>1. put'[q] = put[q]
      BY <2>3 DEF SetMutesCommit, Others
    <3> QED
      BY <2>0, <2>3, <3>1 DEF Open, InOpen
  <2> QED
    BY <2>1, <2>2, <2>3
<1>6. put' \in [Puts -> Put]
  BY <1>5 DEF SetMutesCommit
<1>7. MutesTypeOK'
  BY <1>1, <1>2, <1>3, <1>4, <1>6 DEF MutesInv, MutesTypeOK
<1>8. AloneReplacesAll'
  <2> SUFFICES ASSUME NEW q \in Puts, InOpen(put'[q]), IsSQLite \/ q \notin overlapped'
               PROVE  /\ \A o \in Puts : InOpen(put'[o]) /\ put'[o].user = put'[q].user => o = q
                      /\ put'[q].victims = mutes'[put'[q].user]
                      /\ put'[q].added = put'[q].set \ put'[q].todo
    BY <1>1 DEF AloneReplacesAll, Open, InOpen, IsSQLite
  <2>1. q # p /\ Open(q) /\ put'[q].user = put[q].user /\ (IsSQLite \/ q \notin overlapped)
    BY <1>4, <1>5
  <2>2. /\ \A o \in Puts : Open(o) /\ put[o].user = put[q].user => o = q
        /\ put[q].victims = mutes[put[q].user]
        /\ put[q].added = put[q].set \ put[q].todo
    BY <2>1 DEF MutesInv, AloneReplacesAll
  <2>3. put[q].user # u
    BY <1>1, <2>1, <2>2
  <2>4. put[q].user \in Muters
    BY <2>1, PutFields DEF MutesInv, OpenPuts
  <2>5. put'[q] = put[q] /\ mutes'[put[q].user] = mutes[put[q].user]
    BY <1>3, <1>5, <2>3, <2>4
  <2> QED
    BY <1>5, <2>2, <2>5
<1>9. MutesInForce'
  <2>1. IsSQLite \/ p \notin overlapped => mutes'[u] = put[p].set
    BY <1>1, <1>3 DEF MutesInv, AloneReplacesAll
  <2> QED
    BY <1>1, <1>2, <1>3, <1>4, <2>1 DEF MutesInv, MutesInForce, IsSQLite
<1> QED
  BY <1>5, <1>7, <1>8, <1>9 DEF MutesInv

LEMMA MutesStep == MutesInv /\ [MutesNext]_mvars => MutesInv'
<1> SUFFICES ASSUME MutesInv, [MutesNext]_mvars PROVE MutesInv'
  OBVIOUS
<1>0. overlapped \subseteq Puts
  BY DEF MutesInv, MutesTypeOK
<1>1. ASSUME NEW p \in Puts, NEW u \in Callers, NEW set \in SUBSET Targets, SetMutesStart(p, u, set)
      PROVE  MutesInv'
  <2> DEFINE x == [pc |-> "checked", user |-> u, set |-> set]
  <2>1. x \in Put /\ ~InOpen(x)
    BY MutesAssumption DEF Put, InOpen
  <2>2. put' = [put EXCEPT ![p] = x] /\ UNCHANGED <<backend, members, mutes, last, overlapped, mixed>>
    BY <1>1 DEF SetMutesStart
  <2> HIDE DEF x
  <2> QED
    BY <1>0, <2>1, <2>2, PutStep DEF PutInv
<1>2. ASSUME NEW p \in Puts, SetMutesFails(p) PROVE MutesInv'
  <2>1. NoPut \in Put /\ ~InOpen(NoPut)
    BY DEF Put, NoPut, InOpen
  <2>2. /\ put' = [put EXCEPT ![p] = NoPut] /\ overlapped' = overlapped \ {p}
        /\ UNCHANGED <<backend, members, mutes, last, mixed>>
    BY <1>2 DEF SetMutesFails
  <2> QED
    BY <1>0, <2>1, <2>2, PutStep DEF PutInv
<1>3. ASSUME NEW u \in Muters, MemberLeaves(u) PROVE MutesInv'
  BY <1>3 DEF MemberLeaves, MutesInv, MutesTypeOK, AloneReplacesAll, Open, MutesInForce, IsSQLite
<1>4. CASE UNCHANGED mvars
  BY <1>4 DEF mvars, MutesInv, MutesTypeOK, AloneReplacesAll, Open, MutesInForce, IsSQLite
<1> QED
  BY <1>1, <1>2, <1>3, <1>4, DeleteStep, DeleteDoneStep, InsertStep, CommitStep DEF MutesNext

LEMMA MutesInvHolds == MutesSpec => []MutesInv
  BY MutesInitInv, MutesStep, PTL DEF MutesSpec

\* The mutes and the PUTs under way keep their types.
THEOREM MutesTypeCorrect == MutesSpec => []MutesTypeOK
<1>1. MutesInv => MutesTypeOK
  BY DEF MutesInv
<1> QED
  BY <1>1, MutesInvHolds, PTL

\* What is muted is what the last PUT asked for, with any number of PUTs under way:
\* on SQLite always, and on Postgres unless the last PUT's transaction overlapped
\* another one of the same user (handleSetMutes).
THEOREM MutesStayInForce == MutesSpec => []MutesInForce
<1>1. MutesInv => MutesInForce
  BY DEF MutesInv
<1> QED
  BY <1>1, MutesInvHolds, PTL

\* What a step does to the mutes of every user.
MutesChange ==
    \A u \in Muters : mutes'[u] # mutes[u] =>
         \E p \in Puts : /\ put[p] # NoPut /\ put'[p] = NoPut
                         /\ put[p].user = u
                         /\ (mutes[u] \ mutes'[u]) \cap put[p].set = {}
                         /\ mutes'[u] \ mutes[u] \subseteq put[p].set

LEMMA MutesChangeStep == MutesInv /\ [MutesNext]_mvars => [MutesChange]_mvars
<1> SUFFICES ASSUME MutesInv, MutesNext, NEW u \in Muters, mutes'[u] # mutes[u]
             PROVE  \E p \in Puts : /\ put[p] # NoPut /\ put'[p] = NoPut
                                    /\ put[p].user = u
                                    /\ (mutes[u] \ mutes'[u]) \cap put[p].set = {}
                                    /\ mutes'[u] \ mutes[u] \subseteq put[p].set
  BY DEF MutesChange, mvars
<1>1. PICK p \in Puts : SetMutesCommit(p)
  BY DEF MutesNext, SetMutesStart, DeleteMutes, BeginDelete, DeleteMutesDone, InsertMute,
         SetMutesFails, MemberLeaves
<1>2. put[p] \in OpenPuts /\ Open(p) /\ put[p].todo = {} /\ put[p] # NoPut /\ put'[p] = NoPut
  BY <1>1, PutFields DEF SetMutesCommit, Open, MutesInv, NoPut
<1>3. PutInv(put[p])
  BY DEF MutesInv
<1>4. put[p].added \subseteq put[p].set /\ put[p].set \cap put[p].victims \subseteq put[p].added
  BY <1>2, <1>3 DEF PutInv, InOpen, Open
<1>5. put[p].user = u /\ mutes'[u] = (mutes[u] \ put[p].victims) \cup put[p].added
  BY <1>1, <1>2 DEF SetMutesCommit, MutesInv, MutesTypeOK, OpenPuts
<1> QED
  BY <1>2, <1>4, <1>5

\* Whatever PUTs overlap, on either backend, what others see as muted changes by a
\* commit alone, which lifts no mute that its PUT asks for and adds no other.
THEOREM MutesHaveNoEmptyMiddle == MutesSpec => NoEmptyMiddle
<1>1. MutesSpec => [][MutesChange]_mvars
  BY MutesChangeStep, MutesInvHolds, PTL DEF MutesSpec
<1> QED
  BY <1>1 DEF NoEmptyMiddle, MutesChange

-----------------------------------------------------------------------------
(***************************************************************************)
(* Places: an edit made in the app replaces what its user saw.             *)
(***************************************************************************)

\* What an edit of the app carries from StartEdit to the server: the version
\* that is sent is the one its user saw.
AppDraftsAreBased ==
    \A c \in AppEditors : draft[c].at # "closed" => draft[c].version = draft[c].based

PlacesInv == PlacesTypeOK /\ AppDraftsAreBased /\ AppEditsAreNotLost

\* An open or a sent draft.
LEMMA DraftFields ==
    ASSUME PlacesTypeOK, NEW c \in Editors, draft[c].at # "closed"
    PROVE  /\ draft[c] \in [at : {"open", "sent"}, id : PlaceIds, based : 1..MaxVersion,
                            version : 1..MaxVersion]
           /\ \A s \in {"open", "sent"} : [draft[c] EXCEPT !.at = s] \in Draft
           /\ NoDraft \in Draft
<1>1. draft[c] \in Draft
  BY DEF PlacesTypeOK
<1>2. draft[c] \in [at : {"open", "sent"}, id : PlaceIds, based : 1..MaxVersion,
                    version : 1..MaxVersion]
  BY <1>1 DEF Draft, NoDraft
<1> QED
  BY <1>2 DEF Draft

LEMMA PlacesInitInv == PlacesInit => PlacesInv
  BY PlacesAssumption DEF PlacesInit, PlacesInv, PlacesTypeOK, AppDraftsAreBased,
     AppEditsAreNotLost, States, NoDraft, Draft, Editors

\* The steps of the server keep the invariant.
LEMMA PlacesServerStep ==
    ASSUME PlacesInv, NEW p \in PlaceIds,
           CreatePlace(p) \/ SoftDeletePlace(p) \/ PrunePlaceTombstones
    PROVE  PlacesInv'
<1>1. place' \in [PlaceIds -> [state : States, version : 0..MaxVersion]]
  <2>1. CASE CreatePlace(p)
    BY <2>1, PlacesAssumption DEF CreatePlace, PlacesInv, PlacesTypeOK, States
  <2>2. CASE SoftDeletePlace(p)
    <3>1. place[p] \in [state : States, version : 0..MaxVersion]
      BY DEF PlacesInv, PlacesTypeOK
    <3>2. [state |-> "deleted", version |-> place[p].version + 1]
             \in [state : States, version : 0..MaxVersion]
      BY <2>2, <3>1, PlacesAssumption DEF SoftDeletePlace, States
    <3> QED
      BY <2>2, <3>2 DEF SoftDeletePlace, PlacesInv, PlacesTypeOK
  <2>3. CASE PrunePlaceTombstones
    BY <2>3, PlacesAssumption DEF PrunePlaceTombstones, PlacesInv, PlacesTypeOK, States
  <2> QED
    BY <2>1, <2>2, <2>3
<1>2. UNCHANGED <<list, fetching, draft, replaced>>
  BY DEF CreatePlace, SoftDeletePlace, PrunePlaceTombstones
<1> QED
  BY <1>1, <1>2 DEF PlacesInv, PlacesTypeOK, AppDraftsAreBased, AppEditsAreNotLost

\* A draft is replaced by x; the rest of what the editor keeps stays.
LEMMA DraftStep ==
    ASSUME PlacesInv, NEW c \in Editors, NEW x \in Draft,
           draft' = [draft EXCEPT ![c] = x],
           c \in AppEditors /\ x.at # "closed" => x.version = x.based,
           UNCHANGED <<place, list, fetching, replaced>>
    PROVE  PlacesInv'
<1>1. PlacesTypeOK'
  BY DEF PlacesInv, PlacesTypeOK
<1>2. \A e \in Editors : draft'[e] = IF e = c THEN x ELSE draft[e]
  BY DEF PlacesInv, PlacesTypeOK
<1>3. AppDraftsAreBased'
  BY <1>2 DEF PlacesInv, AppDraftsAreBased, Editors
<1> QED
  BY <1>1, <1>3 DEF PlacesInv, AppEditsAreNotLost

\* The update replaces the version that was sent.
LEMMA UpdatePlaceStep ==
    ASSUME PlacesInv, NEW c \in Editors, UpdatePlace(c)
    PROVE  PlacesInv'
<1> DEFINE p == draft[c].id
<1>1. draft[c].at # "closed"
  BY DEF UpdatePlace
<1>2. /\ draft[c] \in [at : {"open", "sent"}, id : PlaceIds, based : 1..MaxVersion,
                       version : 1..MaxVersion]
      /\ [draft[c] EXCEPT !.at = "open"] \in Draft /\ NoDraft \in Draft
  BY <1>1, DraftFields DEF PlacesInv
<1>3. place' \in [PlaceIds -> [state : States, version : 0..MaxVersion]]
  <2>1. place[p] \in [state : States, version : 0..MaxVersion]
    BY <1>2 DEF PlacesInv, PlacesTypeOK
  <2>2. [place[p] EXCEPT !.version = @ + 1] \in [state : States, version : 0..MaxVersion]
    BY <2>1, PlacesAssumption DEF UpdatePlace
  <2>3. place' = [place EXCEPT ![p] = [place[p] EXCEPT !.version = @ + 1]]
    BY DEF UpdatePlace
  <2> QED
    BY <2>2, <2>3 DEF PlacesInv, PlacesTypeOK
<1>4. PICK x \in {NoDraft, [draft[c] EXCEPT !.at = "open"]} : draft' = [draft EXCEPT ![c] = x]
  BY DEF UpdatePlace
<1>5. draft' \in [Editors -> Draft] /\ \A e \in Editors : draft'[e] = IF e = c THEN x ELSE draft[e]
  BY <1>2, <1>4 DEF PlacesInv, PlacesTypeOK
<1>6. c \in AppEditors /\ x.at # "closed" => x.version = x.based
  BY <1>1, <1>2 DEF NoDraft, PlacesInv, AppDraftsAreBased
<1>7. AppDraftsAreBased'
  BY <1>5, <1>6 DEF PlacesInv, AppDraftsAreBased, Editors
<1>8. replaced' = <<c, draft[c].version, draft[c].based>>
  BY DEF UpdatePlace, Matches
<1>9. AppEditsAreNotLost'
  BY <1>1, <1>8 DEF AppEditsAreNotLost, PlacesInv, AppDraftsAreBased
<1> QED
  BY <1>3, <1>5, <1>7, <1>9 DEF PlacesInv, PlacesTypeOK, UpdatePlace

\* The steps of an editor keep the invariant.
LEMMA EditorStep ==
    ASSUME PlacesInv, NEW c \in Editors,
           \/ UpdateConflict(c) \/ Save(c) \/ Cancel(c) \/ ListPlaces(c) \/ ListArrives(c)
           \/ \E p \in PlaceIds : StartEdit(c, p)
    PROVE  PlacesInv'
<1>0. NoDraft \in Draft /\ PlacesTypeOK
  BY DEF Draft, PlacesInv
<1>1. CASE UpdateConflict(c)
  <2>1. [draft[c] EXCEPT !.at = "open"] \in Draft /\ draft[c].at # "closed"
        /\ [draft[c] EXCEPT !.at = "open"].version = draft[c].version
        /\ [draft[c] EXCEPT !.at = "open"].based = draft[c].based
    BY <1>1, <1>0, DraftFields DEF UpdateConflict
  <2> QED
    BY <1>1, <2>1, DraftStep DEF UpdateConflict, PlacesInv, AppDraftsAreBased
<1>2. CASE Save(c)
  <2> DEFINE v == SentVersion(c)
             x == [draft[c] EXCEPT !.at = "sent", !.version = v]
  <2>1. /\ draft[c] \in [at : {"open", "sent"}, id : PlaceIds, based : 1..MaxVersion,
                         version : 1..MaxVersion]
        /\ draft[c].at # "closed"
    BY <1>2, <1>0, DraftFields DEF Save
  <2>2. v \in 1..MaxVersion
    BY <1>0, <2>1, PlacesAssumption DEF SentVersion, PlacesTypeOK
  <2>3. c \in AppEditors => v = draft[c].based
    BY <2>1 DEF SentVersion, PlacesInv, AppDraftsAreBased
  <2> HIDE DEF v
  <2>4. x \in Draft /\ x.version = v /\ x.based = draft[c].based
    BY <2>1, <2>2 DEF Draft
  <2>5. draft' = [draft EXCEPT ![c] = x]
    BY <1>0, <1>2 DEF Save, PlacesTypeOK, v
  <2> QED
    BY <1>2, <2>3, <2>4, <2>5, DraftStep DEF Save
<1>3. CASE Cancel(c)
  BY <1>0, <1>3, DraftStep DEF Cancel, NoDraft
<1>4. ASSUME NEW p \in PlaceIds, StartEdit(c, p) PROVE PlacesInv'
  <2> DEFINE x == [at |-> "open", id |-> p, based |-> list[c][p], version |-> list[c][p]]
  <2>1. list[c][p] \in 1..MaxVersion
    BY <1>0, <1>4, PlacesAssumption DEF StartEdit, PlacesTypeOK
  <2>2. x \in Draft
    BY <2>1 DEF Draft
  <2> QED
    BY <1>4, <2>2, DraftStep DEF StartEdit
<1>5. CASE ListPlaces(c)
  <2>1. [q \in PlaceIds |-> IF place[q].state = "live" THEN place[q].version ELSE 0]
          \in [PlaceIds -> 0..MaxVersion]
    BY <1>0, PlacesAssumption DEF PlacesTypeOK
  <2> QED
    BY <1>5, <2>1 DEF ListPlaces, PlacesInv, PlacesTypeOK, AppDraftsAreBased, AppEditsAreNotLost
<1>6. CASE ListArrives(c)
  <2>1. fetching[c] \in [PlaceIds -> 0..MaxVersion]
    BY <1>0, <1>6 DEF ListArrives, PlacesTypeOK
  <2> QED
    BY <1>6, <2>1 DEF ListArrives, PlacesInv, PlacesTypeOK, AppDraftsAreBased, AppEditsAreNotLost
<1> QED
  BY <1>1, <1>2, <1>3, <1>4, <1>5, <1>6

LEMMA PlacesStep == PlacesInv /\ [PlacesNext]_pvars => PlacesInv'
<1> SUFFICES ASSUME PlacesInv, [PlacesNext]_pvars PROVE PlacesInv'
  OBVIOUS
<1>1. CASE UNCHANGED pvars
  BY <1>1 DEF pvars, PlacesInv, PlacesTypeOK, AppDraftsAreBased, AppEditsAreNotLost
<1>2. ASSUME PrunePlaceTombstones PROVE PlacesInv'
  <2>1. PICK p \in PlaceIds : place[p].state = "deleted"
    BY <1>2 DEF PrunePlaceTombstones
  <2> QED
    BY <1>2, <2>1, PlacesServerStep
<1> QED
  BY <1>1, <1>2, PlacesServerStep, EditorStep, UpdatePlaceStep DEF PlacesNext

\* Places, lists and drafts keep their types.
THEOREM PlacesTypeCorrect == PlacesSpec => []PlacesTypeOK
<1>1. PlacesInv => PlacesTypeOK
  BY DEF PlacesInv
<1> QED
  BY <1>1, PlacesInitInv, PlacesStep, PTL DEF PlacesSpec

\* An edit of the app replaces what its user saw when he opened it and nothing
\* else (UpdatePlace, _editVersion).
THEOREM AppEditsReplaceWhatWasSeen == PlacesSpec => []AppEditsAreNotLost
<1>1. PlacesInv => AppEditsAreNotLost
  BY DEF PlacesInv
<1> QED
  BY <1>1, PlacesInitInv, PlacesStep, PTL DEF PlacesSpec
=============================================================================
