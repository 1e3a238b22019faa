------------------------------ MODULE ShareLink ------------------------------
(***************************************************************************)
(* A live-share link: the server's session (server/internal/httpapi/       *)
(* share.go, store/share.sql.go), the phone that posts positions to it and *)
(* the pages on which somebody without an account opens it                 *)
(* (web/src/features/ShareView.tsx).                                       *)
(*                                                                         *)
(* The first device that fetches a live link is bound to it: the server    *)
(* mints a token, stores its hash by a compare-and-swap and sends the      *)
(* token as a cookie with the answer.  Every query is a step of its own,   *)
(* so the link may be revoked, expire or be pruned between any two, and    *)
(* fetches of several devices, and of several tabs of one device, overlap. *)
(* Requests and answers may be lost.                                       *)
(*                                                                         *)
(* Positions are numbered in the order in which they were captured and     *)
(* tokens in the order in which they were minted; 0 stands for none.       *)
(* Sealing is left out: whoever is served a position can open it.          *)
(***************************************************************************)
EXTENDS Integers

CONSTANTS
    Tabs,        \* pages on which the link is open
    Devices,     \* devices these pages run on
    DeviceOf,    \* the device of each page; its tabs share one cookie jar
    Posts,       \* slots for the phone's posts being served
    MaxFixes,    \* bound: positions captured
    MaxTokens,   \* bound: tokens minted
    MaxLosses    \* bound: fetches that are lost on the way

ASSUME ShareConstants ==
    /\ DeviceOf \in [Tabs -> Devices]
    /\ MaxFixes \in Nat
    /\ MaxTokens \in Nat
    /\ MaxLosses \in Nat

VARIABLES
    kept,      \* whether the row of share_sessions is still there
    revoked,   \* revoked_at is set
    expired,   \* expires_at has passed
    bound,     \* the token whose hash is in viewer_token_hash
    position,  \* the row of share_positions
    minted,    \* tokens minted so far
    captured,  \* positions captured so far
    post,      \* the position a post is about to store
    cookie,    \* the link's cookie in each device's jar
    stage,     \* how far a page's fetch has come
    sent,      \* the cookie that fetch carries
    fresh,     \* the token that fetch minted
    stop,      \* the page's terminal state
    told,      \* pages that have had an answer with a position and a deadline
    losses,    \* fetches lost so far
    served     \* history: devices a position was read for

session == <<kept, revoked, expired, bound, position>>
phone == <<captured, post>>
fetch == <<stage, sent, fresh>>
page == <<stop, told>>
vars == <<session, minted, phone, cookie, fetch, page, losses, served>>

Stages == {"idle", "sent", "bind", "reload", "read",
           "ok", "forbidden", "gone", "missing"}
Stops == {"none", "forbidden", "expired", "notFound"}

\* The link as handleCreateShare leaves it, and pages that open it.
Init ==
    /\ kept = TRUE
    /\ revoked = FALSE
    /\ expired = FALSE
    /\ bound = 0
    /\ position = 0
    /\ minted = 0
    /\ captured = 0
    /\ post = [p \in Posts |-> 0]
    /\ cookie = [d \in Devices |-> 0]
    /\ stage = [t \in Tabs |-> "idle"]
    /\ sent = [t \in Tabs |-> 0]
    /\ fresh = [t \in Tabs |-> 0]
    /\ stop = [t \in Tabs |-> "none"]
    /\ told = {}
    /\ losses = 0
    /\ served = {}

shareLive == ~revoked /\ ~expired

-----------------------------------------------------------------------------
(* The sharer's side.                                                      *)

\* RevokeShareSession keeps the first revoked_at.
handleRevokeShare ==
    /\ kept
    /\ ~revoked
    /\ revoked' = TRUE
    /\ UNCHANGED <<kept, expired, bound, position, minted, phone, cookie, fetch, page,
                   losses, served>>

Expire ==
    /\ ~expired
    /\ expired' = TRUE
    /\ UNCHANGED <<kept, revoked, bound, position, minted, phone, cookie, fetch, page,
                   losses, served>>

\* The retention job drops a dead session, and with it the position, a day later.
PruneShareSessions ==
    /\ kept
    /\ ~shareLive
    /\ kept' = FALSE
    /\ position' = 0
    /\ UNCHANGED <<revoked, expired, bound, minted, phone, cookie, fetch, page,
                   losses, served>>

\* handleSharePing as far as loadOwnedShare.
BeginPost(p) ==
    /\ post[p] = 0
    /\ captured < MaxFixes
    /\ kept
    /\ shareLive
    /\ captured' = captured + 1
    /\ post' = [post EXCEPT ![p] = captured + 1]
    /\ UNCHANGED <<session, minted, cookie, fetch, page, losses, served>>

\* UpsertSharePosition: whatever arrives last stays; the foreign key refuses a
\* position of a session that was pruned.
StorePost(p) ==
    /\ post[p] # 0
    /\ position' = IF kept THEN post[p] ELSE position
    /\ post' = [post EXCEPT ![p] = 0]
    /\ UNCHANGED <<kept, revoked, expired, bound, captured, minted, cookie, fetch, page,
                   losses, served>>

-----------------------------------------------------------------------------
(* A page's fetch: handleGetShare.                                         *)

GoTo(t, s) == stage' = [stage EXCEPT ![t] = s]

\* The fetch is over and its variables are gone.
Over(t) ==
    /\ GoTo(t, "idle")
    /\ sent' = [sent EXCEPT ![t] = 0]
    /\ fresh' = [fresh EXCEPT ![t] = 0]

\* The page polls as long as no terminal answer stopped it.
Poll(t) ==
    /\ stage[t] = "idle"
    /\ stop[t] = "none"
    /\ GoTo(t, "sent")
    /\ sent' = [sent EXCEPT ![t] = cookie[DeviceOf[t]]]
    /\ UNCHANGED <<session, minted, phone, cookie, fresh, page, losses, served>>

\* The end of bindShareViewer: the cookie against the hash that was read.
CookieCheck(t) == IF sent[t] # 0 /\ sent[t] = bound THEN "read" ELSE "forbidden"

\* Mutant: without the check of liveness.
LoadDead(t) ==
    /\ stage[t] = "sent"
    /\ IF kept /\ bound = 0
       THEN /\ minted < MaxTokens
            /\ minted' = minted + 1
            /\ fresh' = [fresh EXCEPT ![t] = minted + 1]
            /\ GoTo(t, "bind")
       ELSE /\ GoTo(t, IF ~kept THEN "missing" ELSE CookieCheck(t))
            /\ UNCHANGED <<minted, fresh>>
    /\ UNCHANGED <<session, phone, cookie, sent, page, losses, served>>

\* GetShareSession and the check of liveness on what it returned.
Load(t) ==
    /\ stage[t] = "sent"
    /\ IF kept /\ shareLive /\ bound = 0
       THEN /\ minted < MaxTokens
            /\ minted' = minted + 1
            /\ fresh' = [fresh EXCEPT ![t] = minted + 1]
            /\ GoTo(t, "bind")
       ELSE /\ GoTo(t, IF ~kept THEN "missing"
                       ELSE IF ~shareLive THEN "gone"
                       ELSE CookieCheck(t))
            /\ UNCHANGED <<minted, fresh>>
    /\ UNCHANGED <<session, phone, cookie, sent, page, losses, served>>

\* Mutant: the UPDATE does not ask that the hash be NULL.
BindAnyway(t) ==
    /\ stage[t] = "bind"
    /\ IF kept
       THEN bound' = fresh[t] /\ GoTo(t, "read") /\ UNCHANGED fresh
       ELSE GoTo(t, "reload") /\ fresh' = [fresh EXCEPT ![t] = 0] /\ UNCHANGED bound
    /\ UNCHANGED <<kept, revoked, expired, position, minted, phone, cookie, sent,
                   page, losses, served>>

\* Mutant: the cookie of a lost race is sent all the same, with an answer that
\* skips the check.
BindAndServe(t) ==
    /\ stage[t] = "bind"
    /\ bound' = IF kept /\ bound = 0 THEN fresh[t] ELSE bound
    /\ GoTo(t, "read")
    /\ UNCHANGED <<kept, revoked, expired, position, minted, phone, cookie, sent, fresh,
                   page, losses, served>>

\* The compare-and-swap of BindShareViewer.
Bind(t) ==
    /\ stage[t] = "bind"
    /\ IF kept /\ bound = 0
       THEN bound' = fresh[t] /\ GoTo(t, "read") /\ UNCHANGED fresh
       ELSE GoTo(t, "reload") /\ fresh' = [fresh EXCEPT ![t] = 0] /\ UNCHANGED bound
    /\ UNCHANGED <<kept, revoked, expired, position, minted, phone, cookie, sent,
                   page, losses, served>>

\* The race was lost: read the session again.
Reload(t) ==
    /\ stage[t] = "reload"
    /\ GoTo(t, IF kept THEN CookieCheck(t) ELSE "gone")
    /\ UNCHANGED <<session, minted, phone, cookie, sent, fresh, page, losses, served>>

\* GetSharePosition: the latest position, or none yet, goes into the answer.
Read(t) ==
    /\ stage[t] = "read"
    /\ GoTo(t, "ok")
    /\ served' = served \union {DeviceOf[t]}
    /\ UNCHANGED <<session, minted, phone, cookie, sent, fresh, page, losses>>

\* The answer arrives: the browser stores the cookie, the page its state.
Receive(t) ==
    /\ stage[t] \in {"ok", "forbidden", "gone", "missing"}
    /\ Over(t)
    /\ IF stage[t] = "ok"
       THEN /\ told' = told \union {t}
            /\ cookie' = [cookie EXCEPT ![DeviceOf[t]] = IF fresh[t] # 0 THEN fresh[t] ELSE @]
            /\ UNCHANGED stop
       ELSE /\ stop' = [stop EXCEPT ![t] = CASE stage[t] = "forbidden" -> "forbidden"
                                             [] stage[t] = "gone"      -> "expired"
                                             [] stage[t] = "missing"   -> "notFound"]
            /\ UNCHANGED <<told, cookie>>
    /\ UNCHANGED <<session, minted, phone, losses, served>>

\* The request, or its answer, is lost or cancelled; the page polls again.
Lose(t) ==
    /\ stage[t] # "idle"
    /\ losses < MaxLosses
    /\ losses' = losses + 1
    /\ Over(t)
    /\ UNCHANGED <<session, minted, phone, cookie, page, served>>

\* The page counts down to the expires_at it was told and goes dark by itself.
Countdown(t) ==
    /\ expired
    /\ stop[t] = "none"
    /\ t \in told
    /\ stop' = [stop EXCEPT ![t] = "expired"]
    /\ UNCHANGED <<session, minted, phone, cookie, fetch, told, losses, served>>

Fetch(t) == Poll(t) \/ Load(t) \/ Bind(t) \/ Reload(t) \/ Read(t) \/ Receive(t)

Next ==
    \/ handleRevokeShare
    \/ Expire
    \/ PruneShareSessions
    \/ \E p \in Posts : BeginPost(p) \/ StorePost(p)
    \/ \E t \in Tabs : Fetch(t) \/ Lose(t) \/ Countdown(t)

Spec == Init /\ [][Next]_vars

\* A page polls on a timer and handlers finish; the deadline comes.
FairSpec ==
    /\ Spec
    /\ WF_vars(Expire)
    /\ \A t \in Tabs : WF_vars(Fetch(t))

-----------------------------------------------------------------------------
(* Properties.                                                             *)

\* The session, the fetches and the pages have their types, and a fetch that is
\* about to bind the link has a token to bind it to.
ShareTypeOK ==
    /\ kept \in BOOLEAN /\ revoked \in BOOLEAN /\ expired \in BOOLEAN
    /\ bound \in 0..MaxTokens
    /\ minted \in 0..MaxTokens
    /\ position \in 0..MaxFixes
    /\ captured \in 0..MaxFixes
    /\ post \in [Posts -> 0..MaxFixes]
    /\ cookie \in [Devices -> 0..MaxTokens]
    /\ stage \in [Tabs -> Stages]
    /\ sent \in [Tabs -> 0..MaxTokens]
    /\ fresh \in [Tabs -> 0..MaxTokens]
    /\ stop \in [Tabs -> Stops]
    /\ told \subseteq Tabs
    /\ losses \in 0..MaxLosses
    /\ served \subseteq Devices
    /\ \A t \in Tabs : stage[t] = "bind" => fresh[t] # 0

\* The one-device rule: the position is never read for two devices, whatever
\* fetches race for a link that is not bound yet and whatever is lost on the
\* way (bindShareViewer).
OneDevice == \A d, e \in served : d = e

\* Who has been answered once holds the cookie the link is bound to, so every
\* later fetch passes while the link lives: neither the loser of a race, in
\* another tab of the same device, nor a late answer takes it away
\* (bindShareViewer, setShareCookie).
ViewerKeepsCookie == \A t \in told : cookie[DeviceOf[t]] = bound /\ bound # 0

\* Once bound, a link stays bound to the same token until the end.
BoundForGood == [][bound # 0 => bound' = bound]_vars

\* No position outlives its session: one that was accepted while the link was
\* live and stored after the session was pruned leaves nothing behind
\* (handleSharePing, PruneShareSessions).
NoPositionLeft == ~kept => position = 0

\* A share is time-boxed: without any act of the sharer every open page ends in
\* a terminal state and stays there, also one whose answers were lost and one
\* that was still being served when the link died (handleGetShare, ShareView).
EveryPageEnds == <>[](\A t \in Tabs : stop[t] # "none")

=============================================================================
