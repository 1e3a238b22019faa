----------------------------- MODULE CircleFeed -----------------------------
(***************************************************************************)
(* The hub together with the membership table: who may still see a circle's *)
(* live feed after leaving it, being removed, or the circle's deletion.    *)
(*                                                                         *)
(* The REST handlers of server/internal/httpapi/circles.go change          *)
(* circle_members first and call the hub afterwards, from request          *)
(* goroutines that interleave with the hub, with the socket handlers and   *)
(* with each other.  A socket handler reads the membership once, when it   *)
(* opens (ws.go), and is told of later changes only by an eviction.        *)
(***************************************************************************)
EXTENDS RealtimeHub

CONSTANT Owner   \* the owner of each circle, who can neither leave nor be removed

ASSUME OwnerAssumption == Owner \in [Circles -> Users]

VARIABLES
    members,     \* circle_members: pairs <<circle, user>>
    deleted,     \* circles that have been deleted, never to be joined again
    removals,    \* removal requests that changed the table and have yet to
                 \* call the hub: EvictUser or EvictCircle, then Publish
    missed       \* history: pairs <<connection, circle>> an eviction of that
                 \* circle was meant for and did not reach

feedVars == <<vars, members, deleted, removals, missed>>
tables   == <<members, deleted, removals, missed>>

Removals == [circle : Circles, user : Users \cup {AllUsers},
             stage : {"evict", "publish"}]

FeedTypeOK ==
    /\ TypeOK
    /\ members \in SUBSET (Circles \X Users)
    /\ deleted \in SUBSET Circles
    /\ removals \in SUBSET Removals
    /\ missed \in SUBSET (Conns \X Circles)

FeedInit ==
    /\ Init
    /\ members = {<<k, Owner[k]>> : k \in Circles}
    /\ deleted = {}
    /\ removals = {}
    /\ missed = {}

CirclesOf(u) == {k \in Circles : <<k, u>> \in members}

\* Whether a request to evict user u (or AllUsers) concerns connection c.
Concerns(u, c) == u = AllUsers \/ u = UserOf[c]

-----------------------------------------------------------------------------
\* handleAcceptInvite, its transaction: the caller becomes a member.  The
\* member_changed event it publishes is one of the events of FeedPublish.
Join(k, u) ==
    /\ k \notin deleted
    /\ members' = members \cup {<<k, u>>}
    /\ UNCHANGED <<vars, deleted, removals, missed>>

\* Faulty variant: the request deletes the row and only publishes.
RemoveMemberQuietly(k, u) ==
    /\ u # Owner[k]
    /\ members' = members \ {<<k, u>>}
    /\ removals' = removals \cup {[circle |-> k, user |-> u, stage |-> "publish"]}
    /\ UNCHANGED <<vars, deleted, missed>>

\* handleRemoveMember and handleLeaveCircle up to the deletion of the row.  The
\* row need not be there: the DELETE is unconditional and the request goes on.
RemoveMember(k, u) ==
    /\ u # Owner[k]
    /\ members' = members \ {<<k, u>>}
    /\ removals' = removals \cup {[circle |-> k, user |-> u, stage |-> "evict"]}
    /\ UNCHANGED <<vars, deleted, missed>>

\* Faulty variant: the circle is deleted and nobody is evicted.
DeleteCircleQuietly(k) ==
    /\ k \notin deleted
    /\ deleted' = deleted \cup {k}
    /\ members' = members \ ({k} \X Users)
    /\ UNCHANGED <<vars, removals, missed>>

\* handleDeleteCircle up to the deletion, which cascades to the members.
DeleteCircle(k) ==
    /\ k \notin deleted
    /\ deleted' = deleted \cup {k}
    /\ members' = members \ ({k} \X Users)
    /\ removals' = removals \cup
                     {[circle |-> k, user |-> AllUsers, stage |-> "evict"]}
    /\ UNCHANGED <<vars, missed>>

\* The request's call of EvictUser or EvictCircle, which may find the channel
\* full.  A deletion ends there, a removal goes on to publish.
CallEvict(r) ==
    /\ r \in removals
    /\ r.stage = "evict"
    /\ Evict(r.circle, r.user)
    /\ removals' = (removals \ {r}) \cup
                     (IF r.user = AllUsers THEN {}
                      ELSE {[r EXCEPT !.stage = "publish"]})
    /\ missed' = IF Len(evict) < EvictCap THEN missed
                 ELSE missed \cup {x \in Conns \X Circles :
                                     /\ x[2] = r.circle
                                     /\ x[2] \in circles[x[1]]
                                     /\ Concerns(r.user, x[1])}
    /\ UNCHANGED <<members, deleted>>

\* The request's publication of member_changed.
CallPublish(r) ==
    /\ r \in removals
    /\ r.stage = "publish"
    /\ Publish(r.circle)
    /\ removals' = removals \ {r}
    /\ UNCHANGED <<members, deleted, missed>>

\* Any other event.  Handlers check membership well before they publish, so an
\* event of a circle may arrive whatever became of the circle or the sender.
FeedPublish(k) == Publish(k) /\ UNCHANGED tables

\* The hub serves an eviction; a handler that has read its circles and is not
\* registered yet is no client of the hub, and keeps the circle.
FeedEvict ==
    /\ HubEvict
    /\ LET req == Head(evict) IN
         missed' = missed \cup {x \in Conns \X Circles :
                                  /\ x[2] = req.circle
                                  /\ x[2] \in circles[x[1]]
                                  /\ x[1] \notin clients
                                  /\ Concerns(req.user, x[1])}
    /\ UNCHANGED <<members, deleted, removals>>

\* A connection reads its circles from the membership table, once.
FeedListCircles(c) == ListCircles(c, CirclesOf(UserOf[c])) /\ UNCHANGED tables

FeedRelease(c) ==
    /\ Release(c)
    /\ missed' = missed \ ({c} \X Circles)
    /\ UNCHANGED <<members, deleted, removals>>

\* The steps of the hub and the handlers that the tables play no part in.
Unaffected ==
    /\ \/ \E c \in Conns :
             \/ Admit(c) \/ Accept(c) \/ OpenFails(c)
             \/ WriteFrame(c) \/ SeeClosed(c) \/ Disconnect(c)
             \/ HubRegister(c) \/ HubUnregister(c)
       \/ HubDispatch
       \/ HubStop
    /\ UNCHANGED tables

FeedNext ==
    \/ \E k \in Circles, u \in Users : Join(k, u) \/ RemoveMember(k, u)
    \/ \E k \in Circles : DeleteCircle(k) \/ FeedPublish(k)
    \/ \E r \in removals : CallEvict(r) \/ CallPublish(r)
    \/ \E c \in Conns : FeedListCircles(c) \/ FeedRelease(c)
    \/ FeedEvict
    \/ Unaffected

FeedSpec == FeedInit /\ [][FeedNext]_feedVars

\* Requests run to their end and the hub serves a waiting eviction.
FeedFairSpec ==
    /\ FeedSpec
    /\ \A r \in Removals : WF_feedVars(CallEvict(r))
    /\ WF_feedVars(FeedEvict)

-----------------------------------------------------------------------------
\* An eviction of u from k that has been decided and has not reached the hub.
EvictionPending(k, u) ==
    \/ \E r \in removals : /\ r.circle = k
                           /\ r.stage = "evict"
                           /\ r.user \in {u, AllUsers}
    \/ \E i \in 1..Len(evict) : /\ evict[i].circle = k
                                /\ evict[i].user \in {u, AllUsers}

\* doEvict's comment says that "a removed member's live socket must stop seeing
\* the family"; this is what the code guarantees of it.  A subscription, or the intent to subscribe of
\* a handler that has read its circles, outlives the membership only while an
\* eviction is on its way, or if the eviction was dropped on a full channel, or
\* was served before the socket had registered: no other interleaving of
\* joining, leaving, deleting and connecting leaves a stranger on the feed.
FeedExplained ==
    \A c \in Conns : \A k \in circles[c] :
        \/ <<k, UserOf[c]>> \in members
        \/ EvictionPending(k, UserOf[c])
        \/ <<c, k>> \in missed

\* A member who leaves stops being subscribed on every socket the eviction does
\* reach, no matter how many events and evictions compete for the hub and how
\* often sockets come and go (circles.go, "Instant leave"; hub.go, Run).
LeaverIsUnsubscribed ==
    \A c \in Conns, k \in Circles :
        (c \in index[k] /\ <<k, UserOf[c]>> \notin members)
            ~> \/ c \notin index[k]
               \/ <<k, UserOf[c]>> \in members
               \/ <<c, k>> \in missed
               \/ ~hubUp
=============================================================================
