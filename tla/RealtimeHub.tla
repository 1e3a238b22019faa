----------------------------- MODULE RealtimeHub -----------------------------
(***************************************************************************)
(* The in-process WebSocket hub (server/internal/realtime/hub.go) and the  *)
(* socket handlers that use it (server/internal/httpapi/ws.go).            *)
(*                                                                         *)
(* One goroutine, Hub.Run, owns the subscription state and serves one      *)
(* request per iteration of its select.  Every WebSocket connection is a   *)
(* handler goroutine: it reserves a slot, reads the user's circles,        *)
(* upgrades, hands its client to the hub and then writes to the socket     *)
(* whatever the hub puts in the client's bounded send channel.  REST       *)
(* handlers reach the hub through Publish and the two Evict calls, whose   *)
(* channels are bounded too and drop what does not fit.                    *)
(*                                                                         *)
(* This module leaves its environment free: any event may be published,    *)
(* any eviction requested, and a connection may read any set of circles.   *)
(* CircleFeed ties those inputs to the membership table.                   *)
(***************************************************************************)
EXTENDS Integers, Sequences, FiniteSets

CONSTANTS
    Users,         \* accounts
    Circles,       \* circle ids
    Conns,         \* connection handlers; one serves connections in turn
    UserOf,        \* the account that authenticated each connection
    MaxPerUser,    \* Hub.maxPerUser
    MaxTotal,      \* Hub.maxTotal
    SendBuffer,    \* capacity of Client.send (wsSendBuffer)
    BroadcastCap,  \* capacity of Hub.broadcast
    EvictCap,      \* capacity of Hub.evict
    AllUsers       \* evictReq.allUsers: a value that is no user

ASSUME HubConstants ==
    /\ UserOf \in [Conns -> Users]
    /\ MaxPerUser \in Nat
    /\ MaxTotal \in Nat
    /\ SendBuffer \in Nat
    /\ BroadcastCap \in Nat
    /\ EvictCap \in Nat
    /\ AllUsers \notin Users

VARIABLES
    pc,          \* where each connection handler is
    circles,     \* the handler's circleIDs, then its Client.circles
    send,        \* Client.send: frames waiting for the transport writer
    closed,      \* connections whose Client.send has been closed
    clients,     \* Hub.clients
    index,       \* Hub.circles: the subscribers of each circle
    broadcast,   \* Hub.broadcast: the circles of queued events, in order
    evict,       \* Hub.evict: queued eviction requests, in order
    totalConns,  \* Hub.totalConns
    perUser,     \* Hub.perUser; a missing key is 0
    hubUp        \* FALSE once Run has returned

connVars == <<pc, circles>>
hubVars  == <<send, closed, clients, index>>
slotVars == <<totalConns, perUser>>
vars == <<pc, circles, send, closed, clients, index, broadcast, evict,
          totalConns, perUser, hubUp>>

PCs == {"idle", "admitted", "listed", "registering", "streaming",
        "unregistering", "releasing"}

\* A frame carries an event of a circle or the "unsubscribed" control message.
Frames    == {"event", "unsubscribed"} \X Circles
EvictReqs == [circle : Circles, user : Users \cup {AllUsers}]

TypeOK ==
    /\ pc \in [Conns -> PCs]
    /\ circles \in [Conns -> SUBSET Circles]
    /\ send \in [Conns -> Seq(Frames)]
    /\ closed \in SUBSET Conns
    /\ clients \in SUBSET Conns
    /\ index \in [Circles -> SUBSET Conns]
    /\ broadcast \in Seq(Circles)
    /\ evict \in Seq(EvictReqs)
    /\ totalConns \in Nat
    /\ perUser \in [Users -> Nat]
    /\ hubUp \in BOOLEAN

Init ==
    /\ pc = [c \in Conns |-> "idle"]
    /\ circles = [c \in Conns |-> {}]
    /\ send = [c \in Conns |-> <<>>]
    /\ closed = {}
    /\ clients = {}
    /\ index = [k \in Circles |-> {}]
    /\ broadcast = <<>>
    /\ evict = <<>>
    /\ totalConns = 0
    /\ perUser = [u \in Users |-> 0]
    /\ hubUp = TRUE

Goto(c, label) == pc' = [pc EXCEPT ![c] = label]

-----------------------------------------------------------------------------
(***************************************************************************)
(* The connection handler, handleRealtime.                                 *)
(***************************************************************************)

\* Admit: reserve a slot below both ceilings, before the upgrade.
Admit(c) ==
    /\ pc[c] = "idle"
    /\ totalConns < MaxTotal
    /\ perUser[UserOf[c]] < MaxPerUser
    /\ totalConns' = totalConns + 1
    /\ perUser' = [perUser EXCEPT ![UserOf[c]] = @ + 1]
    /\ Goto(c, "admitted")
    /\ UNCHANGED <<circles, hubVars, broadcast, evict, hubUp>>

\* ListCirclesForUser returned the set S of circle ids.
ListCircles(c, S) ==
    /\ pc[c] = "admitted"
    /\ circles' = [circles EXCEPT ![c] = S]
    /\ Goto(c, "listed")
    /\ UNCHANGED <<hubVars, broadcast, evict, slotVars, hubUp>>

\* websocket.Accept succeeded; NewClient makes an open, empty send channel.
Accept(c) ==
    /\ pc[c] = "listed"
    /\ send' = [send EXCEPT ![c] = <<>>]
    /\ Goto(c, "registering")
    /\ UNCHANGED <<circles, closed, clients, index, broadcast, evict,
                   slotVars, hubUp>>

\* Faulty variant: the error path returns before the slot is given back.
OpenFailsKeepsSlot(c) ==
    /\ pc[c] \in {"admitted", "listed"}
    /\ Goto(c, "idle")
    /\ UNCHANGED <<circles, hubVars, broadcast, evict, slotVars, hubUp>>

\* The circle query or the upgrade failed: only the deferred Release is left.
OpenFails(c) ==
    /\ pc[c] \in {"admitted", "listed"}
    /\ Goto(c, "releasing")
    /\ UNCHANGED <<circles, hubVars, broadcast, evict, slotVars, hubUp>>

\* The writer takes the next frame; the write succeeds or fails.
WriteFrame(c) ==
    /\ pc[c] = "streaming"
    /\ send[c] # <<>>
    /\ send' = [send EXCEPT ![c] = Tail(@)]
    /\ \/ UNCHANGED pc
       \/ Goto(c, "unregistering")
    /\ UNCHANGED <<circles, closed, clients, index, broadcast, evict,
                   slotVars, hubUp>>

\* A closed channel yields its buffered frames first, then ends the stream.
SeeClosed(c) ==
    /\ pc[c] = "streaming"
    /\ send[c] = <<>>
    /\ c \in closed
    /\ Goto(c, "unregistering")
    /\ UNCHANGED <<circles, hubVars, broadcast, evict, slotVars, hubUp>>

\* The peer closed, the request context ended, or the welcome or ping failed.
Disconnect(c) ==
    /\ pc[c] = "streaming"
    /\ Goto(c, "unregistering")
    /\ UNCHANGED <<circles, hubVars, broadcast, evict, slotVars, hubUp>>

\* The deferred Release; the client is garbage, the handler may serve again.
Release(c) ==
    /\ pc[c] = "releasing"
    /\ totalConns' = IF totalConns > 0 THEN totalConns - 1 ELSE totalConns
    /\ perUser' = [perUser EXCEPT ![UserOf[c]] = IF @ > 0 THEN @ - 1 ELSE @]
    /\ Goto(c, "idle")
    /\ circles' = [circles EXCEPT ![c] = {}]
    /\ send' = [send EXCEPT ![c] = <<>>]
    /\ closed' = closed \ {c}
    /\ UNCHANGED <<clients, index, broadcast, evict, hubUp>>

-----------------------------------------------------------------------------
(***************************************************************************)
(* The hub's own goroutine: one action per case of the select in Run.      *)
(* Register and Unregister rendezvous with it on unbuffered channels, so   *)
(* the handler waiting there moves in the same step.                       *)
(***************************************************************************)

\* case c := <-h.register: addClient.
HubRegister(c) ==
    /\ hubUp
    /\ pc[c] = "registering"
    /\ clients' = clients \cup {c}
    /\ index' = [k \in Circles |-> IF k \in circles[c] THEN index[k] \cup {c}
                                                       ELSE index[k]]
    /\ Goto(c, "streaming")
    /\ UNCHANGED <<circles, send, closed, broadcast, evict, slotVars, hubUp>>

\* removeClient for every member of S: forget it and close its channel.
RemoveClients(S) ==
    LET gone == S \cap clients IN
    /\ clients' = clients \ gone
    /\ index' = [k \in Circles |-> index[k] \ {c \in gone : k \in circles[c]}]
    /\ closed' = closed \cup gone

\* Faulty variant: the hub ignores a client it has already dropped.
HubUnregisterKnownOnly(c) ==
    /\ hubUp
    /\ pc[c] = "unregistering"
    /\ c \in clients
    /\ RemoveClients({c})
    /\ Goto(c, "releasing")
    /\ UNCHANGED <<circles, send, broadcast, evict, slotVars, hubUp>>

\* case c := <-h.unregister.
HubUnregister(c) ==
    /\ hubUp
    /\ pc[c] = "unregistering"
    /\ RemoveClients({c})
    /\ Goto(c, "releasing")
    /\ UNCHANGED <<circles, send, broadcast, evict, slotVars, hubUp>>

\* The subscribers of k whose send channel is full.
Slow(k) == {c \in index[k] : Len(send[c]) >= SendBuffer}

\* case ev := <-h.broadcast: dispatch; a slow client is removed, not waited for.
HubDispatch ==
    /\ hubUp
    /\ broadcast # <<>>
    /\ LET k == Head(broadcast) IN
         /\ send' = [c \in Conns |->
                       IF c \in index[k] \ Slow(k)
                       THEN Append(send[c], <<"event", k>>) ELSE send[c]]
         /\ RemoveClients(Slow(k))
    /\ broadcast' = Tail(broadcast)
    /\ UNCHANGED <<connVars, evict, slotVars, hubUp>>

\* Faulty variant: only the request about all users matches.
EvictedOnlyWhenAll(req) ==
    {c \in index[req.circle] : req.user = AllUsers}

\* The clients an eviction request is about.
Evicted(req) ==
    {c \in index[req.circle] : req.user = AllUsers \/ req.user = UserOf[c]}

\* Faulty variants: the client keeps the circle in its own set; the control
\* frame goes to every subscriber of the circle.
HubEvictKeepsCircle ==
    /\ hubUp
    /\ evict # <<>>
    /\ LET req == Head(evict) IN
         index' = [index EXCEPT ![req.circle] = @ \ Evicted(req)]
    /\ evict' = Tail(evict)
    /\ UNCHANGED <<connVars, send, closed, clients, broadcast, slotVars, hubUp>>

HubEvictTellsAll ==
    /\ hubUp
    /\ evict # <<>>
    /\ LET req == Head(evict)
           out == Evicted(req) IN
         /\ circles' = [c \in Conns |-> IF c \in out
                                        THEN circles[c] \ {req.circle}
                                        ELSE circles[c]]
         /\ index' = [index EXCEPT ![req.circle] = @ \ out]
         /\ send' = [c \in Conns |->
                       IF c \in index[req.circle] /\ Len(send[c]) < SendBuffer
                       THEN Append(send[c], <<"unsubscribed", req.circle>>)
                       ELSE send[c]]
    /\ evict' = Tail(evict)
    /\ UNCHANGED <<pc, closed, clients, broadcast, slotVars, hubUp>>

\* case req := <-h.evict: doEvict; the control frame is dropped when it does
\* not fit, the subscription is cut all the same.
HubEvict ==
    /\ hubUp
    /\ evict # <<>>
    /\ LET req == Head(evict)
           out == Evicted(req) IN
         /\ circles' = [c \in Conns |-> IF c \in out
                                        THEN circles[c] \ {req.circle}
                                        ELSE circles[c]]
         /\ index' = [index EXCEPT ![req.circle] = @ \ out]
         /\ send' = [c \in Conns |->
                       IF c \in out /\ Len(send[c]) < SendBuffer
                       THEN Append(send[c], <<"unsubscribed", req.circle>>)
                       ELSE send[c]]
    /\ evict' = Tail(evict)
    /\ UNCHANGED <<pc, closed, clients, broadcast, slotVars, hubUp>>

\* case <-ctx.Done(): close every channel, forget everyone, return.
HubStop ==
    /\ hubUp
    /\ hubUp' = FALSE
    /\ closed' = closed \cup clients
    /\ clients' = {}
    /\ index' = [k \in Circles |-> {}]
    /\ UNCHANGED <<connVars, send, broadcast, evict, slotVars>>

-----------------------------------------------------------------------------
(***************************************************************************)
(* Calls from REST handlers.  Both enqueue without blocking and drop the   *)
(* request when the channel is full.                                       *)
(***************************************************************************)

Publish(k) ==
    /\ broadcast' = IF Len(broadcast) < BroadcastCap
                    THEN Append(broadcast, k) ELSE broadcast
    /\ UNCHANGED <<connVars, hubVars, evict, slotVars, hubUp>>

\* EvictUser(k, u), and EvictCircle(k) when u is AllUsers.
Evict(k, u) ==
    /\ evict' = IF Len(evict) < EvictCap
                THEN Append(evict, [circle |-> k, user |-> u]) ELSE evict
    /\ UNCHANGED <<connVars, hubVars, broadcast, slotVars, hubUp>>

-----------------------------------------------------------------------------
\* Everything a connection handler does by itself.
HandlerStep(c) ==
    \/ Admit(c)
    \/ \E S \in SUBSET Circles : ListCircles(c, S)
    \/ Accept(c)
    \/ OpenFails(c)
    \/ WriteFrame(c)
    \/ SeeClosed(c)
    \/ Disconnect(c)
    \/ Release(c)

HubStep ==
    \/ \E c \in Conns : HubRegister(c) \/ HubUnregister(c)
    \/ HubDispatch
    \/ HubEvict
    \/ HubStop

Next ==
    \/ \E c \in Conns : HandlerStep(c)
    \/ HubStep
    \/ \E k \in Circles : Publish(k)
    \/ \E k \in Circles, u \in Users \cup {AllUsers} : Evict(k, u)

Spec == Init /\ [][Next]_vars

(***************************************************************************)
(* Fairness.  Go's select picks uniformly among the ready cases, so a case *)
(* that stays ready is served; a goroutine that can run is scheduled; a    *)
(* frame write ends, well or badly, within wsWriteWait.  Nothing obliges a *)
(* peer to connect, to disconnect, or the process to stop.                 *)
(***************************************************************************)
Fairness ==
    /\ \A c \in Conns : /\ WF_vars(HubRegister(c))
                        /\ WF_vars(HubUnregister(c))
                        /\ WF_vars(WriteFrame(c))
                        /\ WF_vars(SeeClosed(c))
                        /\ WF_vars(Release(c))
    /\ WF_vars(HubDispatch)
    /\ WF_vars(HubEvict)

FairSpec == Spec /\ Fairness
-----------------------------------------------------------------------------
(***************************************************************************)
(* Properties.                                                             *)
(***************************************************************************)

\* Handlers that hold a slot: past Admit and not yet through Release.
Active      == {c \in Conns : pc[c] # "idle"}
ActiveOf(u) == {c \in Active : UserOf[c] = u}

\* The two indexes of the hub agree, and neither holds a client whose send
\* channel is closed.  The hub sends only to members of index and closes only
\* members of clients, so this is what keeps its goroutine from panicking with
\* "send on closed channel" or "close of closed channel" (hub.go, dispatch,
\* doEvict, removeClient and the shutdown branch of Run).
HubConsistent ==
    /\ \A k \in Circles, c \in Conns :
          c \in index[k] <=> c \in clients /\ k \in circles[c]
    /\ clients \cap closed = {}

\* Every Admit is paired with exactly one Release, whatever path a handler
\* leaves by: the counters of the hub are the numbers of handlers holding a
\* slot, and neither ceiling is exceeded (hub.go, Admit and Release).
SlotsAccounted ==
    /\ totalConns = Cardinality(Active)
    /\ \A u \in Users : perUser[u] = Cardinality(ActiveOf(u))
    /\ totalConns <= MaxTotal
    /\ \A u \in Users : perUser[u] <= MaxPerUser

\* Once a client has been told that it is unsubscribed from a circle, no event
\* of that circle follows on its socket: the control frame is the last word
\* about the circle in the send channel, and the hub will add no more to it
\* (hub.go, doEvict: it "stops receiving that circle's events immediately").
UnsubscribedIsFinal ==
    \A c \in Conns : \A i \in 1..Len(send[c]) :
        send[c][i][1] = "unsubscribed" =>
            /\ send[c][i][2] \notin circles[c]
            /\ \A j \in i+1..Len(send[c]) : send[c][j][2] # send[c][i][2]

\* A handler that is done with its socket gives its slot back, however busy the
\* hub is, as long as the hub goroutine runs (ws.go, the deferred Unregister
\* and Release).
SlotFreed ==
    \A c \in Conns :
        (pc[c] \in {"unregistering", "releasing"}) ~> (pc[c] = "idle" \/ ~hubUp)

\* An eviction that was queued takes effect on the sockets it is about even
\* while events keep coming: select does not starve it (hub.go, Run).
EvictionTakesEffect ==
    \A c \in Conns, k \in Circles :
        (/\ c \in index[k]
         /\ \E i \in 1..Len(evict) : evict[i] = [circle |-> k, user |-> UserOf[c]])
            ~> (c \notin index[k] \/ ~hubUp)
=============================================================================
