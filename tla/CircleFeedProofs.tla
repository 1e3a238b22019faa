-------------------------- MODULE CircleFeedProofs --------------------------
(***************************************************************************)
(* Proofs about the hub and the feed on it, for any users, circles,        *)
(* sockets and channel capacities.                                         *)
(***************************************************************************)
EXTENDS CircleFeed, FiniteSetTheorems, TLAPS

-----------------------------------------------------------------------------
(***************************************************************************)
(* The hub by itself.                                                      *)
(***************************************************************************)

\* What removing a set of clients does, for the two actions that do it.
LEMMA RemoveClientsFacts ==
    ASSUME TypeOK, NEW S \in SUBSET Conns, RemoveClients(S)
    PROVE  /\ clients' = clients \ S
           /\ closed' = closed \cup (S \cap clients)
           /\ index' \in [Circles -> SUBSET Conns]
           /\ \A k \in Circles, c \in Conns :
                c \in index'[k] <=>
                  c \in index[k] /\ ~(c \in S /\ c \in clients /\ k \in circles[c])
  BY DEF RemoveClients, TypeOK

LEMMA SlowType == ASSUME TypeOK, NEW k \in Circles
                  PROVE  Slow(k) \in SUBSET Conns
  BY DEF Slow, TypeOK

LEMMA HeadTail ==
    ASSUME NEW S, NEW q \in Seq(S), q # <<>>
    PROVE  Head(q) \in S /\ Tail(q) \in Seq(S)
  OBVIOUS

LEMMA AppendType ==
    ASSUME NEW S, NEW q \in Seq(S), NEW e \in S
    PROVE  Append(q, e) \in Seq(S)
  OBVIOUS

LEMMA TypeInit == Init => TypeOK
  BY DEF Init, TypeOK, PCs

LEMMA TypeStep == TypeOK /\ [Next]_vars => TypeOK'
<1> SUFFICES ASSUME TypeOK, [Next]_vars PROVE TypeOK'
  OBVIOUS
<1> USE HubConstants
<1>1. ASSUME NEW c \in Conns, Admit(c) PROVE TypeOK'
  BY <1>1 DEF Admit, Goto, TypeOK, PCs, hubVars
<1>2. ASSUME NEW c \in Conns, NEW S \in SUBSET Circles, ListCircles(c, S)
      PROVE TypeOK'
  BY <1>2 DEF ListCircles, Goto, TypeOK, PCs, hubVars, slotVars
<1>3. ASSUME NEW c \in Conns, Accept(c) PROVE TypeOK'
  BY <1>3 DEF Accept, Goto, TypeOK, PCs, slotVars
<1>4. ASSUME NEW c \in Conns, OpenFails(c) PROVE TypeOK'
  BY <1>4 DEF OpenFails, Goto, TypeOK, PCs, hubVars, slotVars
<1>5. ASSUME NEW c \in Conns, WriteFrame(c) PROVE TypeOK'
  <2>1. Tail(send[c]) \in Seq(Frames)
    BY <1>5, HeadTail DEF WriteFrame, TypeOK
  <2>2. send' \in [Conns -> Seq(Frames)]
    BY <1>5, <2>1 DEF WriteFrame, TypeOK
  <2> QED
    BY <1>5, <2>2 DEF WriteFrame, Goto, TypeOK, PCs, slotVars
<1>6. ASSUME NEW c \in Conns, SeeClosed(c) PROVE TypeOK'
  BY <1>6 DEF SeeClosed, Goto, TypeOK, PCs, hubVars, slotVars
<1>7. ASSUME NEW c \in Conns, Disconnect(c) PROVE TypeOK'
  BY <1>7 DEF Disconnect, Goto, TypeOK, PCs, hubVars, slotVars
<1>8. ASSUME NEW c \in Conns, Release(c) PROVE TypeOK'
  BY <1>8 DEF Release, Goto, TypeOK, PCs
<1>9. ASSUME NEW c \in Conns, HubRegister(c) PROVE TypeOK'
  BY <1>9 DEF HubRegister, Goto, TypeOK, PCs, slotVars
<1>10. ASSUME NEW c \in Conns, HubUnregister(c) PROVE TypeOK'
  <2>1. RemoveClients({c})
    BY <1>10 DEF HubUnregister
  <2> QED
    BY <1>10, <2>1, RemoveClientsFacts DEF HubUnregister, Goto, TypeOK, PCs, slotVars
<1>11. ASSUME HubDispatch PROVE TypeOK'
  <2> DEFINE k == Head(broadcast)
  <2>1. k \in Circles /\ Tail(broadcast) \in Seq(Circles)
    BY <1>11, HeadTail DEF HubDispatch, TypeOK
  <2>2. RemoveClients(Slow(k)) /\ Slow(k) \in SUBSET Conns
    BY <1>11, <2>1, SlowType DEF HubDispatch
  <2>3. <<"event", k>> \in Frames
    BY <2>1 DEF Frames
  <2>4. \A c \in Conns : Append(send[c], <<"event", k>>) \in Seq(Frames)
    BY <2>3, AppendType DEF TypeOK
  <2>5. send' \in [Conns -> Seq(Frames)]
    BY <1>11, <2>4 DEF HubDispatch, TypeOK
  <2> HIDE DEF k
  <2> QED
    BY <1>11, <2>1, <2>2, <2>5, RemoveClientsFacts
    DEF HubDispatch, k, TypeOK, connVars, slotVars
<1>12. ASSUME HubEvict PROVE TypeOK'
  <2> DEFINE req == Head(evict)
             out == Evicted(req)
  <2>1. req \in EvictReqs /\ Tail(evict) \in Seq(EvictReqs)
    BY <1>12, HeadTail DEF HubEvict, TypeOK
  <2>2. req.circle \in Circles
    BY <2>1 DEF EvictReqs
  <2>3. <<"unsubscribed", req.circle>> \in Frames
    BY <2>2 DEF Frames
  <2>4. \A c \in Conns : Append(send[c], <<"unsubscribed", req.circle>>) \in Seq(Frames)
    BY <2>3, AppendType DEF TypeOK
  <2>5. send' \in [Conns -> Seq(Frames)]
    BY <1>12, <2>4 DEF HubEvict, TypeOK
  <2>6. circles' \in [Conns -> SUBSET Circles]
    BY <1>12 DEF HubEvict, TypeOK
  <2>7. index' \in [Circles -> SUBSET Conns]
    BY <1>12 DEF HubEvict, TypeOK
  <2> QED
    BY <1>12, <2>1, <2>5, <2>6, <2>7 DEF HubEvict, TypeOK, slotVars
<1>13. ASSUME HubStop PROVE TypeOK'
  BY <1>13 DEF HubStop, TypeOK, connVars, slotVars
<1>14. ASSUME NEW k \in Circles, Publish(k) PROVE TypeOK'
  <2>1. broadcast' \in Seq(Circles)
    BY <1>14, AppendType DEF Publish, TypeOK
  <2> QED
    BY <1>14, <2>1 DEF Publish, TypeOK, connVars, hubVars, slotVars
<1>15. ASSUME NEW k \in Circles, NEW u \in Users \cup {AllUsers}, Evict(k, u)
       PROVE TypeOK'
  <2>1. [circle |-> k, user |-> u] \in EvictReqs
    BY DEF EvictReqs
  <2>2. evict' \in Seq(EvictReqs)
    BY <1>15, <2>1, AppendType DEF Evict, TypeOK
  <2> QED
    BY <1>15, <2>2 DEF Evict, TypeOK, connVars, hubVars, slotVars
<1>16. CASE UNCHANGED vars
  BY <1>16 DEF vars, TypeOK
<1> QED
  BY <1>1, <1>2, <1>3, <1>4, <1>5, <1>6, <1>7, <1>8, <1>9, <1>10, <1>11, <1>12,
     <1>13, <1>14, <1>15, <1>16 DEF Next, HandlerStep, HubStep

\* Every variable of the hub keeps its type.
THEOREM TypeCorrect == Spec => []TypeOK
  BY TypeInit, TypeStep, PTL DEF Spec

-----------------------------------------------------------------------------
(***************************************************************************)
(* HubConsistent is not inductive: registering a client twice, or changing *)
(* the circles of a registered one, would break it.  The program counters  *)
(* exclude both: only a handler in its stream or waiting to unregister is  *)
(* a client, and a channel is closed only between registration and the     *)
(* handler's end.                                                          *)
(***************************************************************************)
ClientsAtPc ==
    /\ \A c \in clients : pc[c] \in {"streaming", "unregistering"}
    /\ \A c \in closed : pc[c] \in {"streaming", "unregistering", "releasing"}

HubInv == TypeOK /\ HubConsistent /\ ClientsAtPc

LEMMA HubInvInit == Init => HubInv
  BY TypeInit DEF Init, HubInv, HubConsistent, ClientsAtPc

LEMMA HubInvStep == HubInv /\ [Next]_vars => HubInv'
<1> SUFFICES ASSUME HubInv, [Next]_vars PROVE HubConsistent' /\ ClientsAtPc'
  BY TypeStep DEF HubInv
<1> USE HubConstants
<1>0. TypeOK /\ TypeOK' /\ HubConsistent /\ ClientsAtPc
  BY TypeStep DEF HubInv
<1>1. ASSUME NEW c \in Conns, \/ Admit(c) \/ Accept(c) \/ OpenFails(c)
                              \/ WriteFrame(c) \/ SeeClosed(c) \/ Disconnect(c)
      PROVE  HubConsistent' /\ ClientsAtPc'
  <2>1. UNCHANGED <<clients, closed, index, circles>>
    BY <1>1 DEF Admit, Accept, OpenFails, WriteFrame, SeeClosed, Disconnect, hubVars
  <2>2. ClientsAtPc'
    BY <1>0, <1>1, <2>1 DEF Admit, Accept, OpenFails, WriteFrame, SeeClosed,
       Disconnect, Goto, TypeOK, PCs, ClientsAtPc
  <2> QED
    BY <1>0, <2>1, <2>2 DEF HubConsistent
<1>2. ASSUME NEW c \in Conns, NEW S \in SUBSET Circles, ListCircles(c, S)
      PROVE  HubConsistent' /\ ClientsAtPc'
  BY <1>0, <1>2 DEF ListCircles, Goto, TypeOK, PCs, hubVars, HubConsistent, ClientsAtPc
<1>3. ASSUME NEW c \in Conns, Release(c)
      PROVE  HubConsistent' /\ ClientsAtPc'
  BY <1>0, <1>3 DEF Release, Goto, TypeOK, PCs, HubConsistent, ClientsAtPc
<1>4. ASSUME NEW c \in Conns, HubRegister(c)
      PROVE  HubConsistent' /\ ClientsAtPc'
  <2>1. c \notin clients /\ c \notin closed
    BY <1>0, <1>4 DEF HubRegister, ClientsAtPc
  <2> QED
    BY <1>0, <1>4, <2>1 DEF HubRegister, Goto, TypeOK, PCs, HubConsistent, ClientsAtPc
<1>5. ASSUME NEW c \in Conns, HubUnregister(c)
      PROVE  HubConsistent' /\ ClientsAtPc'
  <2>1. RemoveClients({c})
    BY <1>5 DEF HubUnregister
  <2>2. /\ clients' = clients \ {c}
        /\ closed' = closed \cup ({c} \cap clients)
        /\ \A k \in Circles, d \in Conns :
             d \in index'[k] <=>
               d \in index[k] /\ ~(d \in {c} /\ d \in clients /\ k \in circles[d])
    BY <1>0, <2>1, RemoveClientsFacts
  <2>3. HubConsistent'
    BY <1>0, <1>5, <2>2 DEF HubUnregister, HubConsistent
  <2>4. ClientsAtPc'
    BY <1>0, <1>5, <2>2 DEF HubUnregister, Goto, TypeOK, ClientsAtPc
  <2> QED
    BY <2>3, <2>4
<1>6. ASSUME HubDispatch
      PROVE  HubConsistent' /\ ClientsAtPc'
  <2> DEFINE S == Slow(Head(broadcast))
  <2>1. Head(broadcast) \in Circles
    BY <1>0, <1>6, HeadTail DEF HubDispatch, TypeOK
  <2>2. RemoveClients(S) /\ S \in SUBSET Conns
    BY <1>0, <1>6, <2>1, SlowType DEF HubDispatch
  <2> HIDE DEF S
  <2>3. UNCHANGED <<pc, circles>>
    BY <1>6 DEF HubDispatch, connVars
  <2>4. /\ clients' = clients \ S
        /\ closed' = closed \cup (S \cap clients)
        /\ \A k \in Circles, d \in Conns :
             d \in index'[k] <=>
               d \in index[k] /\ ~(d \in S /\ d \in clients /\ k \in circles[d])
    BY <1>0, <2>2, RemoveClientsFacts
  <2>5. HubConsistent'
    BY <1>0, <2>3, <2>4 DEF HubConsistent
  <2>6. ClientsAtPc'
    BY <1>0, <2>3, <2>4 DEF ClientsAtPc
  <2> QED
    BY <2>5, <2>6
<1>7. ASSUME HubEvict
      PROVE  HubConsistent' /\ ClientsAtPc'
  <2> DEFINE k == Head(evict).circle
             out == Evicted(Head(evict))
  <2>1. Head(evict) \in EvictReqs
    BY <1>0, <1>7, HeadTail DEF HubEvict, TypeOK
  <2>2. k \in Circles /\ out \subseteq index[k]
    BY <2>1 DEF EvictReqs, Evicted
  <2>3. /\ circles' = [c \in Conns |-> IF c \in out THEN circles[c] \ {k}
                                                    ELSE circles[c]]
        /\ index' = [index EXCEPT ![k] = @ \ out]
        /\ UNCHANGED <<pc, clients, closed>>
    BY <1>7 DEF HubEvict
  <2> HIDE DEF k, out
  <2> QED
    BY <1>0, <2>2, <2>3 DEF TypeOK, HubConsistent, ClientsAtPc
<1>8. ASSUME HubStop
      PROVE  HubConsistent' /\ ClientsAtPc'
  BY <1>0, <1>8 DEF HubStop, connVars, TypeOK, HubConsistent, ClientsAtPc
<1>9. ASSUME \/ \E k \in Circles : Publish(k)
             \/ \E k \in Circles, u \in Users \cup {AllUsers} : Evict(k, u)
             \/ UNCHANGED vars
      PROVE  HubConsistent' /\ ClientsAtPc'
  <2>1. UNCHANGED <<pc, circles, closed, clients, index>>
    BY <1>9 DEF Publish, Evict, connVars, hubVars, vars
  <2> QED
    BY <1>0, <2>1 DEF HubConsistent, ClientsAtPc
<1> QED
  BY <1>1, <1>2, <1>3, <1>4, <1>5, <1>6, <1>7, <1>8, <1>9
  DEF Next, HandlerStep, HubStep

\* The hub never sends on, nor closes, a closed channel: its client set and its
\* per-circle index agree and hold only clients whose channel is open, for any
\* number of connections, circles and users and any buffer sizes.
THEOREM HubIsConsistent == Spec => []HubConsistent
<1>1. Spec => []HubInv
  BY HubInvInit, HubInvStep, PTL DEF Spec
<1>2. HubInv => HubConsistent
  BY DEF HubInv
<1> QED
  BY <1>1, <1>2, PTL

-----------------------------------------------------------------------------
(***************************************************************************)
(* The slot counters.  Counting is only meaningful on finite sets, so the  *)
(* invariant is strengthened with the finiteness of Active: it starts      *)
(* empty and grows by one handler at a time, whatever Conns is.            *)
(***************************************************************************)
SlotInv == TypeOK /\ IsFiniteSet(Active) /\ SlotsAccounted

LEMMA SlotInvInit == Init => SlotInv
<1> SUFFICES ASSUME Init PROVE SlotInv
  OBVIOUS
<1>1. Active = {} /\ \A u \in Users : ActiveOf(u) = {}
  BY DEF Init, Active, ActiveOf
<1>2. IsFiniteSet({}) /\ Cardinality({}) = 0
  BY FS_EmptySet
<1>3. totalConns = 0 /\ \A u \in Users : perUser[u] = 0
  BY DEF Init
<1>4. 0 <= MaxTotal /\ 0 <= MaxPerUser
  BY HubConstants
<1>5. SlotsAccounted
  BY <1>1, <1>2, <1>3, <1>4, Zenon DEF SlotsAccounted
<1> QED
  BY <1>1, <1>2, <1>5, TypeInit DEF SlotInv

\* Active and the sets ActiveOf depend on the program counters alone.
LEMMA ActiveUnchanged ==
    ASSUME TypeOK, TypeOK', NEW c \in Conns, NEW l \in PCs \ {"idle"},
           pc[c] # "idle", Goto(c, l)
    PROVE  Active' = Active /\ \A u \in Users : ActiveOf(u)' = ActiveOf(u)
<1>1. Active' = Active
  BY DEF TypeOK, Goto, Active, PCs
<1> QED
  BY <1>1 DEF ActiveOf

LEMMA SlotInvStep == SlotInv /\ [Next]_vars => SlotInv'
<1> SUFFICES ASSUME SlotInv, [Next]_vars PROVE SlotInv'
  OBVIOUS
<1> USE HubConstants
<1>0. TypeOK /\ TypeOK' /\ IsFiniteSet(Active) /\ SlotsAccounted
  BY TypeStep DEF SlotInv
<1>a. \A u \in Users : IsFiniteSet(ActiveOf(u))
  BY <1>0, FS_Subset DEF ActiveOf
<1>b. ASSUME Active' = Active, \A u \in Users : ActiveOf(u)' = ActiveOf(u),
             UNCHANGED slotVars
      PROVE  SlotInv'
  BY <1>0, <1>b DEF SlotInv, SlotsAccounted, slotVars
<1>1. ASSUME NEW c \in Conns, Admit(c) PROVE SlotInv'
  <2> DEFINE w == UserOf[c]
  <2>1. w \in Users /\ c \notin Active /\ c \notin ActiveOf(w)
    BY <1>1 DEF Admit, Active, ActiveOf
  <2>2. Active' = Active \cup {c}
    BY <1>0, <1>1 DEF Admit, Goto, Active, TypeOK
  <2>3. ActiveOf(w)' = ActiveOf(w) \cup {c}
    BY <2>2 DEF ActiveOf
  <2>4. \A u \in Users \ {w} : ActiveOf(u)' = ActiveOf(u)
    BY <2>2 DEF ActiveOf
  <2>5. IsFiniteSet(Active') /\ Cardinality(Active') = Cardinality(Active) + 1
    BY <1>0, <2>1, <2>2, FS_AddElement
  <2>6. Cardinality(ActiveOf(w)') = Cardinality(ActiveOf(w)) + 1
    BY <1>a, <2>1, <2>3, FS_AddElement
  <2>7. /\ totalConns < MaxTotal /\ totalConns' = totalConns + 1
        /\ perUser[w] < MaxPerUser
        /\ perUser' = [perUser EXCEPT ![w] = @ + 1]
    BY <1>1 DEF Admit
  <2>8. totalConns' = Cardinality(Active') /\ totalConns' <= MaxTotal
    BY <1>0, <2>5, <2>7 DEF SlotsAccounted, TypeOK
  <2> HIDE DEF w
  <2>9. ASSUME NEW u \in Users
        PROVE  perUser'[u] = Cardinality(ActiveOf(u)') /\ perUser'[u] <= MaxPerUser
    BY <1>0, <2>1, <2>4, <2>6, <2>7 DEF SlotsAccounted, TypeOK
  <2> QED
    BY <1>0, <2>5, <2>8, <2>9 DEF SlotInv, SlotsAccounted
<1>2. ASSUME NEW c \in Conns, Release(c) PROVE SlotInv'
  <2> DEFINE w == UserOf[c]
  <2>1. w \in Users /\ c \in Active /\ c \in ActiveOf(w)
    BY <1>2 DEF Release, Active, ActiveOf
  <2>2. Active' = Active \ {c}
    BY <1>0, <1>2 DEF Release, Goto, Active, TypeOK
  <2>3. ActiveOf(w)' = ActiveOf(w) \ {c}
    BY <2>2 DEF ActiveOf
  <2>4. \A u \in Users \ {w} : ActiveOf(u)' = ActiveOf(u)
    BY <2>2 DEF ActiveOf
  <2>5. IsFiniteSet(Active') /\ Cardinality(Active') = Cardinality(Active) - 1
    BY <1>0, <2>1, <2>2, FS_RemoveElement
  <2>6. Cardinality(ActiveOf(w)') = Cardinality(ActiveOf(w)) - 1
    BY <1>a, <2>1, <2>3, FS_RemoveElement
  <2>6a. Cardinality(Active') \in Nat /\ Cardinality(ActiveOf(w)') \in Nat
    BY <1>a, <2>1, <2>3, <2>5, FS_CardinalityType, FS_RemoveElement
  <2>7. /\ totalConns' = IF totalConns > 0 THEN totalConns - 1 ELSE totalConns
        /\ perUser' = [perUser EXCEPT ![w] = IF @ > 0 THEN @ - 1 ELSE @]
    BY <1>2 DEF Release
  <2>8. totalConns' = Cardinality(Active') /\ totalConns' <= MaxTotal
    BY <1>0, <2>5, <2>6a, <2>7 DEF SlotsAccounted, TypeOK
  <2> HIDE DEF w
  <2>9. ASSUME NEW u \in Users
        PROVE  perUser'[u] = Cardinality(ActiveOf(u)') /\ perUser'[u] <= MaxPerUser
    <3>1. CASE u = w
      BY <1>0, <2>1, <2>6, <2>6a, <2>7, <3>1 DEF SlotsAccounted, TypeOK
    <3>2. CASE u # w
      BY <1>0, <2>1, <2>4, <2>7, <3>2 DEF SlotsAccounted, TypeOK
    <3> QED
      BY <3>1, <3>2
  <2> QED
    BY <1>0, <2>5, <2>8, <2>9 DEF SlotInv, SlotsAccounted
<1>3. ASSUME NEW c \in Conns, NEW S \in SUBSET Circles, ListCircles(c, S)
      PROVE  SlotInv'
  BY <1>0, <1>3, <1>b, ActiveUnchanged DEF ListCircles, PCs
<1>4. ASSUME NEW c \in Conns, \/ Accept(c) \/ OpenFails(c) \/ SeeClosed(c)
                              \/ Disconnect(c) \/ HubRegister(c) \/ HubUnregister(c)
      PROVE  SlotInv'
  <2>1. /\ pc[c] # "idle"
        /\ UNCHANGED slotVars
        /\ \E l \in PCs \ {"idle"} : Goto(c, l)
    BY <1>4 DEF Accept, OpenFails, SeeClosed, Disconnect, HubRegister,
       HubUnregister, PCs
  <2> QED
    BY <1>0, <1>b, <2>1, ActiveUnchanged
<1>5. ASSUME NEW c \in Conns, WriteFrame(c) PROVE SlotInv'
  <2>1. CASE UNCHANGED pc
    BY <1>0, <1>5, <1>b, <2>1 DEF WriteFrame, Active, ActiveOf
  <2>2. CASE Goto(c, "unregistering")
    BY <1>0, <1>5, <1>b, <2>2, ActiveUnchanged DEF WriteFrame, PCs
  <2> QED
    BY <1>5, <2>1, <2>2 DEF WriteFrame
<1>6. ASSUME \/ HubDispatch \/ HubEvict \/ HubStop
             \/ \E k \in Circles : Publish(k)
             \/ \E k \in Circles, u \in Users \cup {AllUsers} : Evict(k, u)
             \/ UNCHANGED vars
      PROVE  SlotInv'
  <2>1. UNCHANGED <<pc, slotVars>>
    BY <1>6 DEF HubDispatch, HubEvict, HubStop, Publish, Evict, connVars, vars, slotVars
  <2> QED
    BY <1>b, <2>1 DEF Active, ActiveOf
<1> QED
  BY <1>1, <1>2, <1>3, <1>4, <1>5, <1>6 DEF Next, HandlerStep, HubStep

\* No slot leaks and none is given back twice: for any number of handlers the
\* counters equal the handlers that hold a slot and stay within the ceilings.
THEOREM SlotsAreAccounted == Spec => []SlotsAccounted
<1>1. Spec => []SlotInv
  BY SlotInvInit, SlotInvStep, PTL DEF Spec
<1>2. SlotInv => SlotsAccounted
  BY DEF SlotInv
<1> QED
  BY <1>1, <1>2, PTL

-----------------------------------------------------------------------------
(***************************************************************************)
(* The order of the frames in a send channel.  An unsubscribed frame stays *)
(* final because the hub appends only frames of circles the client still   *)
(* has, which the index records (HubInv), and because circles is filled    *)
(* only before the channel holds anything.                                 *)
(***************************************************************************)

\* The part of UnsubscribedIsFinal about one channel q and one circle set C.
Final(q, C) ==
    \A i \in 1..Len(q) :
        q[i][1] = "unsubscribed" =>
            q[i][2] \notin C /\ \A j \in i+1..Len(q) : q[j][2] # q[i][2]

LEMMA FinalTail ==
    ASSUME NEW q \in Seq(Frames), q # <<>>, NEW C, Final(q, C)
    PROVE  Final(Tail(q), C)
<1>1. Len(Tail(q)) = Len(q) - 1 /\ \A i \in 1..Len(q)-1 : Tail(q)[i] = q[i+1]
  OBVIOUS
<1>2. Len(q) \in Nat
  OBVIOUS
<1> QED
  BY <1>1, <1>2 DEF Final

LEMMA FinalAppend ==
    ASSUME NEW q \in Seq(Frames), NEW C, NEW D \in SUBSET C, Final(q, C),
           NEW t, NEW k \in C, t = "unsubscribed" => k \notin D
    PROVE  Final(Append(q, <<t, k>>), D)
<1> DEFINE r == Append(q, <<t, k>>)
<1>1. /\ Len(q) \in Nat /\ Len(r) = Len(q) + 1
      /\ \A i \in 1..Len(q) : r[i] = q[i]
      /\ r[Len(q)+1] = <<t, k>>
  OBVIOUS
<1> HIDE DEF r
<1>2. SUFFICES ASSUME NEW i \in 1..Len(r), r[i][1] = "unsubscribed"
               PROVE  r[i][2] \notin D /\ \A j \in i+1..Len(r) : r[j][2] # r[i][2]
  BY DEF Final, r
<1>3. CASE i \in 1..Len(q)
  <2>1. r[i] = q[i] /\ q[i][2] \notin C /\ \A j \in i+1..Len(q) : q[j][2] # q[i][2]
    BY <1>1, <1>2, <1>3 DEF Final
  <2>2. ASSUME NEW j \in i+1..Len(r) PROVE r[j][2] # r[i][2]
    <3>1. CASE j \in i+1..Len(q)
      BY <1>1, <2>1, <3>1
    <3>2. CASE j = Len(q) + 1
      BY <1>1, <2>1, <3>2
    <3> QED
      BY <1>1, <1>3, <2>2, <3>1, <3>2
  <2> QED
    BY <2>1, <2>2
<1>4. CASE i = Len(q) + 1
  BY <1>1, <1>2, <1>4
<1> QED
  BY <1>1, <1>3, <1>4

\* Before registration nothing is in the send channel.
EmptyBefore ==
    \A c \in Conns :
        pc[c] \in {"idle", "admitted", "listed", "registering"} => send[c] = <<>>

OrderInv == HubInv /\ EmptyBefore /\ \A c \in Conns : Final(send[c], circles[c])

LEMMA OrderInvInit == Init => OrderInv
<1> SUFFICES ASSUME Init PROVE OrderInv
  OBVIOUS
<1>1. \A c \in Conns : send[c] = <<>>
  BY DEF Init
<1>2. \A C : Final(<<>>, C)
  BY DEF Final
<1> QED
  BY <1>1, <1>2, HubInvInit DEF OrderInv, EmptyBefore

LEMMA OrderInvStep == OrderInv /\ [Next]_vars => OrderInv'
<1> SUFFICES ASSUME OrderInv, [Next]_vars
             PROVE  EmptyBefore' /\ \A c \in Conns : Final(send'[c], circles'[c])
  BY HubInvStep DEF OrderInv, Final
<1>0. /\ TypeOK /\ TypeOK' /\ HubConsistent /\ ClientsAtPc
      /\ EmptyBefore /\ \A c \in Conns : Final(send[c], circles[c])
  BY TypeStep DEF OrderInv, HubInv
<1>a. \A C : Final(<<>>, C)
  BY DEF Final
<1> DEFINE Goal == EmptyBefore' /\ \A c \in Conns : Final(send'[c], circles'[c])
<1>1. ASSUME NEW c \in Conns, NEW S \in SUBSET Circles, ListCircles(c, S)
      PROVE  Goal
  <2>1. send[c] = <<>> /\ send' = send
    BY <1>0, <1>1 DEF ListCircles, EmptyBefore, hubVars
  <2>2. EmptyBefore'
    BY <1>0, <1>1, <2>1 DEF ListCircles, EmptyBefore, Goto, TypeOK
  <2>3. \A d \in Conns : d # c => circles'[d] = circles[d]
    BY <1>0, <1>1 DEF ListCircles, TypeOK
  <2>4. ASSUME NEW d \in Conns PROVE Final(send'[d], circles'[d])
    BY <1>0, <1>a, <2>1, <2>3
  <2> QED
    BY <2>2, <2>4
<1>2. ASSUME NEW c \in Conns, \/ Admit(c) \/ OpenFails(c) \/ SeeClosed(c)
                              \/ Disconnect(c) \/ HubRegister(c) \/ HubUnregister(c)
      PROVE  Goal
  <2>1. UNCHANGED <<send, circles>>
    BY <1>2 DEF Admit, OpenFails, SeeClosed, Disconnect, HubRegister, HubUnregister, hubVars
  <2>2. EmptyBefore'
    BY <1>0, <1>2, <2>1 DEF Admit, OpenFails, SeeClosed, Disconnect, HubRegister,
       HubUnregister, EmptyBefore, Goto, TypeOK
  <2> QED
    BY <1>0, <2>1, <2>2
<1>3. ASSUME NEW c \in Conns, Accept(c) \/ Release(c) PROVE Goal
  <2>1. send' = [send EXCEPT ![c] = <<>>]
    BY <1>3 DEF Accept, Release
  <2>2. \A d \in Conns : d # c => circles'[d] = circles[d]
    BY <1>0, <1>3 DEF Accept, Release, TypeOK
  <2>3. EmptyBefore'
    BY <1>0, <1>3, <2>1 DEF Accept, Release, EmptyBefore, Goto, TypeOK
  <2>4. ASSUME NEW d \in Conns PROVE Final(send'[d], circles'[d])
    <3>1. send'[d] = IF d = c THEN <<>> ELSE send[d]
      BY <1>0, <2>1 DEF TypeOK
    <3> QED
      BY <1>0, <1>a, <2>2, <3>1
  <2> QED
    BY <2>3, <2>4
<1>4. ASSUME NEW c \in Conns, WriteFrame(c) PROVE Goal
  <2>1. /\ send[c] \in Seq(Frames) /\ send[c] # <<>>
        /\ send' = [send EXCEPT ![c] = Tail(send[c])] /\ circles' = circles
    BY <1>0, <1>4 DEF WriteFrame, TypeOK
  <2>2. Final(Tail(send[c]), circles[c])
    BY <1>0, <2>1, FinalTail
  <2>3. ASSUME NEW d \in Conns PROVE Final(send'[d], circles'[d])
    <3>1. send'[d] = IF d = c THEN Tail(send[c]) ELSE send[d]
      BY <1>0, <2>1 DEF TypeOK
    <3> QED
      BY <1>0, <2>1, <2>2, <3>1
  <2>4. EmptyBefore'
    BY <1>0, <1>4, <2>1 DEF WriteFrame, EmptyBefore, Goto, TypeOK
  <2> QED
    BY <2>3, <2>4
<1>5. ASSUME HubDispatch PROVE Goal
  <2> DEFINE k == Head(broadcast)
             D == index[k] \ Slow(k)
             f == <<"event", k>>
  <2>1. /\ k \in Circles /\ D \subseteq clients
        /\ \A c \in D : k \in circles[c]
        /\ D \subseteq Conns
    <3>1. k \in Circles
      BY <1>0, <1>5, HeadTail DEF HubDispatch, TypeOK
    <3>2. D \subseteq index[k] /\ index[k] \subseteq Conns
      BY <1>0, <3>1 DEF TypeOK
    <3> HIDE DEF k, D
    <3> QED
      BY <1>0, <3>1, <3>2 DEF HubConsistent
  <2>2. /\ send' = [c \in Conns |-> IF c \in D THEN Append(send[c], f) ELSE send[c]]
        /\ pc' = pc /\ circles' = circles
    BY <1>5 DEF HubDispatch, connVars
  <2> HIDE DEF k, D
  <2>3. ASSUME NEW c \in Conns PROVE Final(send'[c], circles'[c])
    <3>1. CASE c \in D
      <4>1. send[c] \in Seq(Frames) /\ k \in circles[c] /\ Final(send[c], circles[c])
        BY <1>0, <2>1, <3>1 DEF TypeOK
      <4>2. Final(Append(send[c], <<"event", k>>), circles[c])
        BY <4>1, FinalAppend
      <4> QED
        BY <2>2, <3>1, <4>2
    <3>2. CASE c \notin D
      BY <1>0, <2>2, <3>2
    <3> QED
      BY <3>1, <3>2
  <2>4. EmptyBefore'
    BY <1>0, <2>1, <2>2 DEF EmptyBefore, ClientsAtPc
  <2> QED
    BY <2>3, <2>4
<1>6. ASSUME HubEvict PROVE Goal
  <2> DEFINE k == Head(evict).circle
             out == Evicted(Head(evict))
  <2>1. /\ k \in Circles /\ out \subseteq clients
        /\ \A c \in out : k \in circles[c]
    <3>1. k \in Circles
      BY <1>0, <1>6, HeadTail DEF HubEvict, TypeOK, EvictReqs
    <3>2. out \subseteq index[k] /\ index[k] \subseteq Conns
      BY <1>0, <3>1 DEF TypeOK, Evicted
    <3> HIDE DEF k, out
    <3> QED
      BY <1>0, <3>1, <3>2 DEF HubConsistent
  <2>2. /\ circles' = [c \in Conns |-> IF c \in out THEN circles[c] \ {k}
                                                    ELSE circles[c]]
        /\ send' = [c \in Conns |->
                      IF c \in out /\ Len(send[c]) < SendBuffer
                      THEN Append(send[c], <<"unsubscribed", k>>) ELSE send[c]]
        /\ pc' = pc
    BY <1>6 DEF HubEvict
  <2> HIDE DEF k, out
  <2>3. ASSUME NEW c \in Conns PROVE Final(send'[c], circles'[c])
    <3>0. send[c] \in Seq(Frames) /\ Final(send[c], circles[c])
      BY <1>0 DEF TypeOK
    <3>1. CASE c \in out /\ Len(send[c]) < SendBuffer
      <4>1. Final(Append(send[c], <<"unsubscribed", k>>), circles[c] \ {k})
        BY <2>1, <3>0, <3>1, FinalAppend
      <4> QED
        BY <2>2, <3>1, <4>1
    <3>2. CASE c \in out /\ ~(Len(send[c]) < SendBuffer)
      BY <2>2, <3>0, <3>2 DEF Final
    <3>3. CASE c \notin out
      BY <2>2, <3>0, <3>3
    <3> QED
      BY <3>1, <3>2, <3>3
  <2>4. EmptyBefore'
    BY <1>0, <2>1, <2>2 DEF EmptyBefore, ClientsAtPc
  <2> QED
    BY <2>3, <2>4
<1>7. ASSUME \/ HubStop
             \/ \E k \in Circles : Publish(k)
             \/ \E k \in Circles, u \in Users \cup {AllUsers} : Evict(k, u)
             \/ UNCHANGED vars
      PROVE  Goal
  <2>1. UNCHANGED <<pc, send, circles>>
    BY <1>7 DEF HubStop, Publish, Evict, connVars, hubVars, vars
  <2> QED
    BY <1>0, <2>1 DEF EmptyBefore
<1> HIDE DEF Goal
<1>8. Goal
  BY <1>1, <1>2, <1>3, <1>4, <1>5, <1>6, <1>7 DEF Next, HandlerStep, HubStep
<1> QED
  BY <1>8 DEF Goal

\* A client that reads "unsubscribed" for a circle reads no later event of it,
\* whatever the hub's queues held, for any sizes of the buffers.
THEOREM UnsubscribedStaysFinal == Spec => []UnsubscribedIsFinal
<1>1. Spec => []OrderInv
  BY OrderInvInit, OrderInvStep, PTL DEF Spec
<1>2. OrderInv => UnsubscribedIsFinal
  BY DEF OrderInv, Final, UnsubscribedIsFinal
<1> QED
  BY <1>1, <1>2, PTL

-----------------------------------------------------------------------------
(***************************************************************************)
(* The feed implements the hub, and a subscription never outlives the      *)
(* membership without an explanation.                                      *)
(***************************************************************************)

LEMMA FeedInitIsInit == FeedInit => Init
  BY DEF FeedInit

LEMMA FeedStepIsStep == FeedTypeOK /\ [FeedNext]_feedVars => [Next]_vars
<1> SUFFICES ASSUME FeedTypeOK, [FeedNext]_feedVars PROVE [Next]_vars
  OBVIOUS
<1>1. ASSUME NEW k \in Circles, NEW u \in Users, Join(k, u) \/ RemoveMember(k, u)
      PROVE  UNCHANGED vars
  BY <1>1 DEF Join, RemoveMember
<1>2. ASSUME NEW k \in Circles, DeleteCircle(k) PROVE UNCHANGED vars
  BY <1>2 DEF DeleteCircle
<1>3. ASSUME NEW k \in Circles, FeedPublish(k) PROVE Next
  BY <1>3 DEF FeedPublish, Next
<1>4. ASSUME NEW r \in removals, CallEvict(r) \/ CallPublish(r) PROVE Next
  <2>1. r.circle \in Circles /\ r.user \in Users \cup {AllUsers}
    BY DEF FeedTypeOK, Removals
  <2> QED
    BY <1>4, <2>1 DEF CallEvict, CallPublish, Next
<1>5. ASSUME NEW c \in Conns, FeedListCircles(c) PROVE Next
  <2>1. CirclesOf(UserOf[c]) \in SUBSET Circles
    BY DEF CirclesOf
  <2> QED
    BY <1>5, <2>1 DEF FeedListCircles, Next, HandlerStep
<1>6. ASSUME NEW c \in Conns, FeedRelease(c) PROVE Next
  BY <1>6 DEF FeedRelease, Next, HandlerStep
<1>7. ASSUME FeedEvict PROVE Next
  BY <1>7 DEF FeedEvict, Next, HubStep
<1>8. ASSUME Unaffected PROVE Next
  BY <1>8 DEF Unaffected, Next, HandlerStep, HubStep
<1>9. CASE UNCHANGED feedVars
  BY <1>9 DEF feedVars
<1> QED
  BY <1>1, <1>2, <1>3, <1>4, <1>5, <1>6, <1>7, <1>8, <1>9 DEF FeedNext

LEMMA FeedTypeInit == FeedInit => FeedTypeOK
  BY TypeInit, OwnerAssumption DEF FeedInit, FeedTypeOK

LEMMA FeedTypeStep == FeedTypeOK /\ [FeedNext]_feedVars => FeedTypeOK'
<1> SUFFICES ASSUME FeedTypeOK, [FeedNext]_feedVars PROVE FeedTypeOK'
  OBVIOUS
<1>0. TypeOK'
  BY FeedStepIsStep, TypeStep DEF FeedTypeOK
<1>1. ASSUME NEW k \in Circles, NEW u \in Users, Join(k, u) \/ RemoveMember(k, u)
      PROVE  FeedTypeOK'
  BY <1>0, <1>1 DEF Join, RemoveMember, FeedTypeOK, Removals
<1>2. ASSUME NEW k \in Circles, DeleteCircle(k) PROVE FeedTypeOK'
  BY <1>0, <1>2 DEF DeleteCircle, FeedTypeOK, Removals
<1>3. ASSUME NEW r \in removals, CallEvict(r) PROVE FeedTypeOK'
  BY <1>0, <1>3 DEF CallEvict, FeedTypeOK, Removals
<1>4. ASSUME NEW r \in removals, CallPublish(r) PROVE FeedTypeOK'
  BY <1>0, <1>4 DEF CallPublish, FeedTypeOK
<1>5. ASSUME NEW c \in Conns, FeedRelease(c) PROVE FeedTypeOK'
  BY <1>0, <1>5 DEF FeedRelease, FeedTypeOK
<1>6. ASSUME FeedEvict PROVE FeedTypeOK'
  BY <1>0, <1>6 DEF FeedEvict, FeedTypeOK
<1>7. ASSUME UNCHANGED tables PROVE FeedTypeOK'
  BY <1>0, <1>7 DEF tables, FeedTypeOK
<1> QED
  BY <1>1, <1>2, <1>3, <1>4, <1>5, <1>6, <1>7
  DEF FeedNext, FeedPublish, FeedListCircles, Unaffected, feedVars, tables

\* The feed's variables keep their types.
THEOREM FeedTypeCorrect == FeedSpec => []FeedTypeOK
  BY FeedTypeInit, FeedTypeStep, PTL DEF FeedSpec

-----------------------------------------------------------------------------
(***************************************************************************)
(* FeedExplained needs the hub's consistency: an eviction takes the circle *)
(* from the sockets in index, and HubConsistent makes those all registered *)
(* sockets that have the circle.                                           *)
(***************************************************************************)
FeedInv == FeedTypeOK /\ HubInv /\ FeedExplained

LEMMA FeedInvInit == FeedInit => FeedInv
  BY FeedTypeInit, FeedInitIsInit, HubInvInit
  DEF FeedInv, FeedExplained, FeedInit, Init

\* A pending eviction stays pending while removals and evict only grow.
LEMMA PendingKept ==
    ASSUME FeedTypeOK, evict' = evict,
           \A r \in removals : r.stage = "evict" => r \in removals',
           NEW k, NEW u, EvictionPending(k, u)
    PROVE  EvictionPending(k, u)'
  BY DEF EvictionPending

LEMMA FeedInvStep == FeedInv /\ [FeedNext]_feedVars => FeedInv'
<1> SUFFICES ASSUME FeedInv, [FeedNext]_feedVars PROVE FeedExplained'
  BY FeedTypeStep, FeedStepIsStep, HubInvStep DEF FeedInv
<1>0. /\ FeedTypeOK /\ FeedTypeOK' /\ TypeOK /\ TypeOK'
      /\ HubConsistent /\ FeedExplained
  BY FeedTypeStep DEF FeedInv, HubInv, FeedTypeOK
<1> USE HubConstants
<1>1. ASSUME NEW k \in Circles, NEW u \in Users, Join(k, u) PROVE FeedExplained'
  <2>1. UNCHANGED <<circles, evict, removals, missed>> /\ members \subseteq members'
    BY <1>1 DEF Join, vars
  <2> QED
    BY <1>0, <2>1, PendingKept DEF FeedExplained
<1>2. ASSUME NEW k \in Circles, NEW u \in Users, RemoveMember(k, u)
      PROVE  FeedExplained'
  <2>1. /\ UNCHANGED <<circles, evict, missed>>
        /\ members' = members \ {<<k, u>>}
        /\ removals \subseteq removals'
        /\ [circle |-> k, user |-> u, stage |-> "evict"] \in removals'
    BY <1>2 DEF RemoveMember, vars
  <2>2. EvictionPending(k, u)'
    BY <2>1 DEF EvictionPending
  <2> QED
    BY <1>0, <2>1, <2>2, PendingKept DEF FeedExplained
<1>3. ASSUME NEW k \in Circles, DeleteCircle(k) PROVE FeedExplained'
  <2>1. /\ UNCHANGED <<circles, evict, missed>>
        /\ members' = members \ ({k} \X Users)
        /\ removals \subseteq removals'
        /\ [circle |-> k, user |-> AllUsers, stage |-> "evict"] \in removals'
    BY <1>3 DEF DeleteCircle, vars
  <2>2. \A u \in Users : EvictionPending(k, u)'
    BY <2>1 DEF EvictionPending
  <2>3. ASSUME NEW c \in Conns, NEW j \in circles'[c]
        PROVE  \/ <<j, UserOf[c]>> \in members'
               \/ EvictionPending(j, UserOf[c])'
               \/ <<c, j>> \in missed'
    <3>1. CASE j = k
      BY <2>2, <3>1
    <3>2. CASE j # k
      BY <1>0, <2>1, <2>3, <3>2, PendingKept DEF FeedExplained
    <3> QED
      BY <3>1, <3>2
  <2> QED
    BY <2>3 DEF FeedExplained
<1>4. ASSUME NEW r \in removals, CallEvict(r) PROVE FeedExplained'
  <2> DEFINE req == [circle |-> r.circle, user |-> r.user]
  <2>0. /\ UNCHANGED <<circles, members>> /\ missed \subseteq missed'
        /\ \A s \in removals : s # r => s \in removals'
        /\ r.circle \in Circles /\ r.user \in Users \cup {AllUsers}
        /\ evict \in Seq(EvictReqs) /\ req \in EvictReqs
        /\ missed \in SUBSET (Conns \X Circles)
    BY <1>0, <1>4 DEF CallEvict, Evict, connVars, FeedTypeOK, TypeOK, Removals, EvictReqs
  <2>1. CASE Len(evict) < EvictCap
    <3>1. evict' = Append(evict, req)
      BY <1>4, <2>1 DEF CallEvict, Evict
    <3>2. /\ Len(evict') = Len(evict) + 1 /\ Len(evict) \in Nat
          /\ \A i \in 1..Len(evict) : evict'[i] = evict[i]
          /\ evict'[Len(evict) + 1] = req
      BY <2>0, <3>1
    <3>3. ASSUME NEW k, NEW u, EvictionPending(k, u) PROVE EvictionPending(k, u)'
      <4>1. ASSUME NEW i \in 1..Len(evict), evict[i].circle = k,
                   evict[i].user \in {u, AllUsers}
            PROVE  EvictionPending(k, u)'
        BY <3>2, <4>1 DEF EvictionPending
      <4>2. ASSUME NEW s \in removals, s.circle = k, s.stage = "evict",
                   s.user \in {u, AllUsers}
            PROVE  EvictionPending(k, u)'
        <5>1. CASE s = r
          <6>1. Len(evict) + 1 \in 1..Len(evict')
            BY <3>2
          <6>2. evict'[Len(evict) + 1].circle = k
                /\ evict'[Len(evict) + 1].user \in {u, AllUsers}
            BY <3>2, <4>2, <5>1
          <6> QED
            BY <6>1, <6>2 DEF EvictionPending
        <5>2. CASE s # r
          BY <2>0, <4>2, <5>2 DEF EvictionPending
        <5> QED
          BY <5>1, <5>2
      <4> QED
        BY <3>3, <4>1, <4>2 DEF EvictionPending
    <3> QED
      BY <1>0, <2>0, <3>3 DEF FeedExplained
  <2>2. CASE ~(Len(evict) < EvictCap)
    <3>1. /\ evict' = evict
          /\ missed' = missed \cup {x \in Conns \X Circles :
                                      /\ x[2] = r.circle
                                      /\ x[2] \in circles[x[1]]
                                      /\ Concerns(r.user, x[1])}
      BY <1>4, <2>2 DEF CallEvict, Evict
    <3>2. ASSUME NEW c \in Conns, NEW k \in circles[c], EvictionPending(k, UserOf[c])
          PROVE  EvictionPending(k, UserOf[c])' \/ <<c, k>> \in missed'
      <4>0. k \in Circles
        BY <1>0 DEF TypeOK
      <4>1. CASE \E i \in 1..Len(evict) : /\ evict[i].circle = k
                                          /\ evict[i].user \in {UserOf[c], AllUsers}
        BY <3>1, <4>1 DEF EvictionPending
      <4>2. ASSUME NEW s \in removals, s.circle = k, s.stage = "evict",
                   s.user \in {UserOf[c], AllUsers}
            PROVE  EvictionPending(k, UserOf[c])' \/ <<c, k>> \in missed'
        <5>1. CASE s = r
          BY <3>1, <4>0, <4>2, <5>1 DEF Concerns
        <5>2. CASE s # r
          BY <2>0, <4>2, <5>2 DEF EvictionPending
        <5> QED
          BY <5>1, <5>2
      <4> QED
        BY <3>2, <4>1, <4>2 DEF EvictionPending
    <3> QED
      BY <1>0, <2>0, <3>2 DEF FeedExplained
  <2> QED
    BY <2>1, <2>2
<1>5. ASSUME NEW r \in removals, CallPublish(r) PROVE FeedExplained'
  <2>1. /\ UNCHANGED <<circles, members, evict, missed>>
        /\ r.stage = "publish" /\ removals' = removals \ {r}
    BY <1>5 DEF CallPublish, Publish, connVars
  <2>2. \A s \in removals : s.stage = "evict" => s \in removals'
    BY <2>1
  <2> QED
    BY <1>0, <2>1, <2>2, PendingKept DEF FeedExplained
<1>6. ASSUME NEW c \in Conns, FeedListCircles(c) PROVE FeedExplained'
  <2>1. /\ circles' = [circles EXCEPT ![c] = CirclesOf(UserOf[c])]
        /\ UNCHANGED <<members, removals, evict, missed>>
    BY <1>6 DEF FeedListCircles, ListCircles, tables
  <2>2. \A k \in CirclesOf(UserOf[c]) : <<k, UserOf[c]>> \in members
    BY DEF CirclesOf
  <2>3. \A d \in Conns : d # c => circles'[d] = circles[d]
    BY <1>0, <2>1 DEF TypeOK
  <2>4. circles'[c] = CirclesOf(UserOf[c])
    BY <1>0, <2>1 DEF TypeOK
  <2> QED
    BY <1>0, <2>1, <2>2, <2>3, <2>4, PendingKept DEF FeedExplained
<1>7. ASSUME NEW c \in Conns, FeedRelease(c) PROVE FeedExplained'
  <2>1. /\ circles' = [circles EXCEPT ![c] = {}]
        /\ UNCHANGED <<members, removals, evict>>
        /\ missed' = missed \ ({c} \X Circles)
    BY <1>7 DEF FeedRelease, Release
  <2>2. /\ circles'[c] = {}
        /\ \A d \in Conns : d # c => circles'[d] = circles[d]
    BY <1>0, <2>1 DEF TypeOK
  <2> QED
    BY <1>0, <2>1, <2>2, PendingKept DEF FeedExplained
<1>8. ASSUME FeedEvict PROVE FeedExplained'
  <2> DEFINE req == Head(evict)
             out == Evicted(req)
  <2>1. /\ evict \in Seq(EvictReqs) /\ evict # <<>> /\ evict' = Tail(evict)
        /\ req \in EvictReqs
        /\ UNCHANGED <<members, removals, clients>>
        /\ circles' = [c \in Conns |-> IF c \in out THEN circles[c] \ {req.circle}
                                                    ELSE circles[c]]
        /\ missed' = missed \cup {x \in Conns \X Circles :
                                    /\ x[2] = req.circle
                                    /\ x[2] \in circles[x[1]]
                                    /\ x[1] \notin clients
                                    /\ Concerns(req.user, x[1])}
    BY <1>0, <1>8, HeadTail DEF FeedEvict, HubEvict, TypeOK
  <2>2. /\ req = evict[1] /\ Len(evict) \in Nat /\ Len(Tail(evict)) = Len(evict) - 1
        /\ \A i \in 1..Len(evict)-1 : Tail(evict)[i] = evict[i+1]
    BY <2>1
  <2>3. ASSUME NEW k, NEW u, EvictionPending(k, u)
        PROVE  \/ EvictionPending(k, u)'
               \/ req.circle = k /\ req.user \in {u, AllUsers}
    <3>1. CASE \E s \in removals : /\ s.circle = k
                                   /\ s.stage = "evict"
                                   /\ s.user \in {u, AllUsers}
      BY <2>1, <3>1 DEF EvictionPending
    <3>2. ASSUME NEW i \in 1..Len(evict), evict[i].circle = k,
                 evict[i].user \in {u, AllUsers}
          PROVE  \/ EvictionPending(k, u)'
                 \/ req.circle = k /\ req.user \in {u, AllUsers}
      <4>1. CASE i = 1
        BY <2>2, <3>2, <4>1
      <4>2. CASE i # 1
        <5>1. i - 1 \in 1..Len(evict') /\ evict'[i-1] = evict[i]
          BY <2>1, <2>2, <4>2
        <5> QED
          BY <3>2, <5>1 DEF EvictionPending
      <4> QED
        BY <4>1, <4>2
    <3> QED
      BY <2>3, <3>1, <3>2 DEF EvictionPending
  <2>4. ASSUME NEW c \in Conns, NEW k \in circles[c],
               req.circle = k, req.user \in {UserOf[c], AllUsers}
        PROVE  k \notin circles'[c] \/ <<c, k>> \in missed'
    <3>0. k \in Circles
      BY <1>0 DEF TypeOK
    <3>1. CASE c \in clients
      <4>1. c \in index[k]
        BY <1>0, <3>0, <3>1 DEF HubConsistent
      <4>2. c \in out
        BY <2>4, <4>1 DEF Evicted
      <4> HIDE DEF out, req
      <4> QED
        BY <2>1, <2>4, <4>2
    <3>2. CASE c \notin clients
      <4> HIDE DEF out, req
      <4> QED
        BY <2>1, <2>4, <3>0, <3>2 DEF Concerns
    <3> QED
      BY <3>1, <3>2
  <2>5. \A c \in Conns : circles'[c] \subseteq circles[c]
    BY <2>1
  <2> HIDE DEF out, req
  <2> QED
    BY <1>0, <2>1, <2>3, <2>4, <2>5 DEF FeedExplained
<1>9. ASSUME \/ Unaffected
             \/ \E k \in Circles : FeedPublish(k)
             \/ UNCHANGED feedVars
      PROVE  FeedExplained'
  <2>1. UNCHANGED <<circles, evict, members, removals, missed>>
    BY <1>9 DEF Unaffected, FeedPublish, Publish, feedVars, vars, tables, Admit, Accept,
       OpenFails, WriteFrame, SeeClosed, Disconnect, HubRegister, HubUnregister,
       HubDispatch, HubStop, connVars
  <2> QED
    BY <1>0, <2>1, PendingKept DEF FeedExplained
<1> QED
  BY <1>1, <1>2, <1>3, <1>4, <1>5, <1>6, <1>7, <1>8, <1>9 DEF FeedNext

\* No interleaving of joining, leaving, removing, deleting, connecting and
\* publishing leaves a socket with a circle its user is no member of, except
\* the three the code has: an eviction on its way, dropped, or served before
\* the socket registered.
THEOREM FeedIsExplained == FeedSpec => []FeedExplained
<1>1. FeedSpec => []FeedInv
  BY FeedInvInit, FeedInvStep, PTL DEF FeedSpec
<1>2. FeedInv => FeedExplained
  BY DEF FeedInv
<1> QED
  BY <1>1, <1>2, PTL
=============================================================================
