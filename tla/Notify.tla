------------------------------- MODULE Notify -------------------------------
(***************************************************************************)
(* Push notifications of one circle.  POST /notify reads the               *)
(* subscriptions of the members who did not mute the sender and hands them *)
(* to a pool of workers under a deadline; members subscribe, unsubscribe   *)
(* and mute meanwhile.  The push services (Web Push and FCM) are external: *)
(* they accept a message, refuse it, or say that the address is dead,      *)
(* which it then is for good.                                              *)
(***************************************************************************)
EXTENDS Naturals, FiniteSets

CONSTANTS Users, Workers,          \* the members of the circle; the pool
          WebEndpoints, FcmEndpoints,   \* push URLs and registration tokens
          Circle,                       \* muted_user_id NULL: the whole circle
          MaxRows                       \* bound: rows of push_subscriptions ever

Endpoints == WebEndpoints \cup FcmEndpoints

ASSUME NotifyAssumption ==
    /\ Circle \notin Users
    /\ WebEndpoints \cap FcmEndpoints = {}
    /\ MaxRows \in Nat
    /\ IsFiniteSet(Workers)

VARIABLES
    channels,   \* the channels this deployment runs
    subs,       \* endpoint -> its row
    rows,       \* ids of push_subscriptions given out
    dead,       \* endpoints that the push service has retired
    mutes,      \* user -> what the user has muted
    job,        \* the notification under way
    pushed      \* endpoint -> messages of this notification its service took

store == <<channels, subs, rows, dead, mutes>>
nvars == <<store, job, pushed>>

-----------------------------------------------------------------------------
NoRow == [id |-> 0]
Row == [id : 1..MaxRows, owner : Users]
NoSend == [at |-> "idle"]
Send == {NoSend} \cup [at : {"sending", "gone"}, endpoint : Endpoints, id : 1..MaxRows]

NotifyTypeOK ==
    /\ channels \subseteq {"webpush", "fcm"}
    /\ subs \in [Endpoints -> Row \cup {NoRow}]
    /\ rows \in 0..MaxRows
    /\ dead \subseteq Endpoints
    /\ mutes \in [Users -> SUBSET (Users \cup {Circle})]
    /\ job.pc \in {"idle", "feeding", "closed"}
    /\ job.hands \in [Workers -> Send]
    /\ pushed \in [Endpoints -> Nat]

NoJob == [pc |-> "idle", todo |-> {}, all |-> {}, sent |-> 0, late |-> FALSE,
          hands |-> [w \in Workers |-> NoSend]]

NotifyInit ==
    /\ channels \in SUBSET {"webpush", "fcm"}
    /\ subs = [e \in Endpoints |-> NoRow] /\ rows = 0 /\ dead = {}
    /\ mutes = [u \in Users |-> {}]
    /\ job = NoJob /\ pushed = [e \in Endpoints |-> 0]

-----------------------------------------------------------------------------
(* Subscriptions *)

Kind(e) == IF e \in FcmEndpoints THEN "fcm" ELSE "webpush"

\* Upsert: an endpoint that is known moves to the caller and keeps its id.
Subscribe(u, e) ==
    /\ \/ subs[e] # NoRow /\ subs' = [subs EXCEPT ![e].owner = u] /\ rows' = rows
       \/ /\ subs[e] = NoRow /\ rows < MaxRows
          /\ rows' = rows + 1
          /\ subs' = [subs EXCEPT ![e] = [id |-> rows', owner |-> u]]
    /\ UNCHANGED <<channels, dead, mutes, job, pushed>>

Unsubscribe(u, e) ==
    /\ subs[e] # NoRow /\ subs[e].owner = u
    /\ subs' = [subs EXCEPT ![e] = NoRow]
    /\ UNCHANGED <<channels, rows, dead, mutes, job, pushed>>

\* The app is removed or the browser renews its subscription.
Retire(e) ==
    /\ dead' = dead \cup {e}
    /\ UNCHANGED <<channels, subs, rows, mutes, job, pushed>>

\* PUT /mutes as its commit; Mutes has the statements of the transaction.
SetMutes(u, set) ==
    /\ mutes' = [mutes EXCEPT ![u] = set]
    /\ UNCHANGED <<channels, subs, rows, dead, job, pushed>>

-----------------------------------------------------------------------------
(* POST /notify *)

\* ListCirclePushSubscriptions: members other than the sender who muted
\* neither the circle nor the sender.
Recipients(u) ==
    {e \in Endpoints :
        /\ subs[e] # NoRow
        /\ subs[e].owner # u
        /\ mutes[subs[e].owner] \cap {Circle, u} = {}}

\* deliverable: the channel of the row is one that is configured.
Deliverable(S) == {e \in S : Kind(e) \in channels}

\* With nobody to notify the answer is 0 and 0.
NotifyStart(u) ==
    /\ job.pc = "idle"
    /\ channels # {}
    /\ LET all == {[endpoint |-> e, id |-> subs[e].id] : e \in Deliverable(Recipients(u))}
       IN  /\ all # {}
           /\ job' = [NoJob EXCEPT !.pc = "feeding", !.todo = all, !.all = all]
    /\ UNCHANGED <<store, pushed>>

Hand(w) == job.hands[w]
Idle(w) == Hand(w) = NoSend

\* The row stays in the feed after a worker took it.
FeedTwice(w) ==
    /\ job.pc = "feeding" /\ Idle(w)
    /\ \E sub \in job.todo :
          /\ \A other \in job.todo : sub.id <= other.id
          /\ \E left \in {job.todo, job.todo \ {sub}} :
                job' = [job EXCEPT !.todo = left,
                                   !.hands[w] = [at |-> "sending", endpoint |-> sub.endpoint,
                                                 id |-> sub.id]]
    /\ UNCHANGED <<store, pushed>>

\* The feed offers the oldest row on an unbuffered channel.
Feed(w) ==
    /\ job.pc = "feeding" /\ Idle(w)
    /\ \E sub \in job.todo :
          /\ \A other \in job.todo : sub.id <= other.id
          /\ job' = [job EXCEPT !.todo = @ \ {sub},
                                !.hands[w] = [at |-> "sending", endpoint |-> sub.endpoint,
                                              id |-> sub.id]]
    /\ UNCHANGED <<store, pushed>>

\* Twenty seconds are over, or the caller went away.
Deadline ==
    /\ job.pc # "idle" /\ ~job.late
    /\ job' = [job EXCEPT !.late = TRUE]
    /\ UNCHANGED <<store, pushed>>

\* Leaving the loop at the deadline skips close(work): the workers wait for more.
FeedEndsOpen ==
    /\ job.pc = "feeding"
    /\ job.todo = {} \/ job.late
    /\ job' = [job EXCEPT !.pc = IF job.todo = {} THEN "closed" ELSE "open"]
    /\ UNCHANGED <<store, pushed>>

\* Everything is handed out, or select chose ctx.Done; then close(work).
FeedEnds ==
    /\ job.pc = "feeding"
    /\ job.todo = {} \/ job.late
    /\ job' = [job EXCEPT !.pc = "closed"]
    /\ UNCHANGED <<store, pushed>>

\* What the push services answer for an endpoint; "lost" is a time-out, an
\* error of the transport, or a panic of the sending code.
Answers(e) ==
    {"invalid_argument", "unavailable", "lost"} \cup
    (IF e \in dead THEN {"not_found", "unregistered"} ELSE {"accepted"})

\* isUnregistered with INVALID_ARGUMENT, as the comment there warns.
MeansDeadOrInvalid(a) == a \in {"not_found", "unregistered", "invalid_argument"}

\* 404 and 410 of Web Push, NOT_FOUND and UNREGISTERED of FCM.
MeansDead(a) == a \in {"not_found", "unregistered"}

\* The service may have taken a message whose answer was lost.
Taken(e, a) == IF a = "accepted" THEN {1}
               ELSE IF a = "lost" /\ e \notin dead THEN {0, 1} ELSE {0}

SendPush(w) ==
    /\ Hand(w).at = "sending"
    /\ \E a \in Answers(Hand(w).endpoint) :
          /\ \E n \in Taken(Hand(w).endpoint, a) :
                pushed' = [pushed EXCEPT ![Hand(w).endpoint] = @ + n]
          /\ job' = [job EXCEPT !.sent = IF a = "accepted" THEN @ + 1 ELSE @,
                                !.hands[w] = IF MeansDead(a)
                                             THEN [@ EXCEPT !.at = "gone"] ELSE NoSend]
    /\ UNCHANGED store

\* prunePushSubscription by row id, on a context the deadline does not reach.
Prune(w) ==
    /\ Hand(w).at = "gone"
    /\ subs' = [e \in Endpoints |-> IF subs[e].id = Hand(w).id THEN NoRow ELSE subs[e]]
    /\ job' = [job EXCEPT !.hands[w] = NoSend]
    /\ UNCHANGED <<channels, rows, dead, mutes, pushed>>

\* The DELETE fails: the row stays for the next notification.
PruneFails(w) ==
    /\ Hand(w).at = "gone"
    /\ job' = [job EXCEPT !.hands[w] = NoSend]
    /\ UNCHANGED <<store, pushed>>

\* wg.Wait returns and the counts are answered.
NotifyAnswer ==
    /\ job.pc = "closed" /\ \A w \in Workers : Idle(w)
    /\ job' = NoJob
    /\ pushed' = [e \in Endpoints |-> 0]
    /\ UNCHANGED store

-----------------------------------------------------------------------------
NotifyNext ==
    \/ \E u \in Users : NotifyStart(u)
    \/ \E u \in Users, e \in Endpoints : Subscribe(u, e) \/ Unsubscribe(u, e)
    \/ \E e \in Endpoints : Retire(e)
    \/ \E u \in Users, set \in SUBSET (Users \cup {Circle}) : u \notin set /\ SetMutes(u, set)
    \/ \E w \in Workers : Feed(w) \/ SendPush(w) \/ Prune(w) \/ PruneFails(w)
    \/ Deadline \/ FeedEnds \/ NotifyAnswer

\* Workers run on: a send ends within its own time-out, so does a prune.
NotifyFairness ==
    /\ WF_nvars(FeedEnds) /\ WF_nvars(NotifyAnswer)
    /\ \A w \in Workers : WF_nvars(Feed(w)) /\ WF_nvars(SendPush(w))
                          /\ WF_nvars(Prune(w) \/ PruneFails(w))

NotifySpec == NotifyInit /\ [][NotifyNext]_nvars /\ NotifyFairness

-----------------------------------------------------------------------------
\* However the workers interleave, a notification reaches an endpoint at most
\* once, reaches only endpoints that were chosen, and counts as sent no more
\* than the services took; sent is never more than there were.
SentIsDelivered ==
    /\ \A e \in Endpoints : pushed[e] <= 1
    /\ {e \in Endpoints : pushed[e] > 0} \subseteq {sub.endpoint : sub \in job.all}
    /\ job.sent <= Cardinality({e \in Endpoints : pushed[e] > 0})

\* A subscription disappears only when its owner removes it or its endpoint is
\* dead: the prune, which works from rows read some time ago, never takes one
\* that still delivers.
LiveSubscriptionsStay ==
    [][\A e \in Endpoints :
          subs[e] # NoRow /\ subs'[e] = NoRow =>
              e \in dead \/ Unsubscribe(subs[e].owner, e)]_nvars

\* Every notification is answered, also one whose deadline passes while rows
\* are unsent or while a worker is sending or pruning.
NotifyIsAnswered == job.pc # "idle" ~> job.pc = "idle"
=============================================================================
