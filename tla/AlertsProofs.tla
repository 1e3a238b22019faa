---- MODULE AlertsProofs ----
EXTENDS Notify, SosAlerts, FiniteSetTheorems, TLAPS
-----------------------------------------------------------------------------
(* Push notifications                                                        *)

Sub == [endpoint : Endpoints, id : 1..MaxRows]
Job == [pc : {"idle", "feeding", "closed"}, todo : SUBSET Sub, all : SUBSET Sub,
        sent : Nat, late : BOOLEAN, hands : [Workers -> Send]]

Busy(w) == Hand(w) # NoSend
Held(w) == [endpoint |-> Hand(w).endpoint, id |-> Hand(w).id]
Reached == {e \in Endpoints : pushed[e] > 0}

\* Every row is in the feed, in one worker's hand, or done with.
RowsAreHandedOutOnce ==
    /\ job.todo \subseteq job.all
    /\ \A s, t \in job.all : s.endpoint = t.endpoint => s = t
    /\ \A w \in Workers : Busy(w) => Held(w) \in job.all /\ Held(w) \notin job.todo
    /\ \A w, v \in Workers : w # v /\ Busy(w) /\ Busy(v) => Held(w) # Held(v)

\* An endpoint that is still to be sent to has not been reached.
ReachedOnce ==
    /\ \A s \in job.todo : pushed[s.endpoint] = 0
    /\ \A w \in Workers : Hand(w).at = "sending" => pushed[Hand(w).endpoint] = 0
    /\ \A e \in Endpoints : pushed[e] <= 1
    /\ \A e \in Reached : \E s \in job.all : s.endpoint = e
    /\ IsFiniteSet(Reached) /\ job.sent <= Cardinality(Reached)
    /\ job.pc = "idle" => job = NoJob /\ \A e \in Endpoints : pushed[e] = 0

\* An id belongs to one endpoint for good, also in the rows read earlier.
IdsAreStable ==
    /\ \A e \in Endpoints : subs[e] # NoRow => subs[e].id <= rows
    /\ \A e, f \in Endpoints : subs[e] # NoRow /\ subs[e].id = subs[f].id => e = f
    /\ \A s \in job.all : s.id <= rows
    /\ \A s \in job.all, e \in Endpoints : subs[e].id = s.id => e = s.endpoint
    /\ \A w \in Workers : Hand(w).at = "gone" => Hand(w).endpoint \in dead

NotifyInv == NotifyTypeOK /\ job \in Job /\ RowsAreHandedOutOnce /\ ReachedOnce /\ IdsAreStable

LEMMA NotifyInitInv == NotifyInit => NotifyInv
<1> SUFFICES ASSUME NotifyInit PROVE NotifyInv
  OBVIOUS
<1>1. /\ job = NoJob /\ job.hands = [w \in Workers |-> NoSend] /\ job.all = {} /\ job.todo = {}
      /\ job.sent = 0 /\ job.pc = "idle"
  BY DEF NotifyInit, NoJob
<1>2. \A w \in Workers : Hand(w) = NoSend /\ Hand(w).at = "idle"
  BY <1>1 DEF Hand, NoSend
<1>3. job \in Job
  BY <1>1 DEF Job, NoJob, Send
<1>4. NotifyTypeOK
  BY <1>1, NotifyAssumption DEF NotifyInit, NotifyTypeOK, Send
<1>5. RowsAreHandedOutOnce
  BY <1>1, <1>2 DEF RowsAreHandedOutOnce, Busy
<1>6. ReachedOnce
  <2>1. \A e \in Endpoints : pushed[e] = 0
    BY DEF NotifyInit
  <2>2. Reached = {}
    BY <2>1 DEF Reached
  <2>3. IsFiniteSet(Reached) /\ Cardinality(Reached) = 0
    BY <2>2, FS_EmptySet
  <2> QED
    BY <1>1, <1>2, <2>1, <2>2, <2>3 DEF ReachedOnce
<1>7. IdsAreStable
  BY <1>1, <1>2 DEF IdsAreStable, NotifyInit, NoRow
<1> QED
  BY <1>3, <1>4, <1>5, <1>6, <1>7 DEF NotifyInv

\* The cases of a row and of a hand.
LEMMA RowCases ==
    ASSUME NotifyTypeOK, NEW e \in Endpoints
    PROVE  /\ subs[e] = NoRow => subs[e].id = 0
           /\ subs[e] # NoRow => subs[e] \in Row /\ subs[e].id \in 1..MaxRows
           /\ subs[e].id \in 0..MaxRows
           /\ subs[e] = NoRow <=> subs[e].id = 0
<1>1. subs[e] \in Row \/ subs[e] = NoRow
  BY DEF NotifyTypeOK
<1>2. CASE subs[e] = NoRow
  BY <1>2, NotifyAssumption DEF NoRow
<1>3. CASE subs[e] \in Row
  BY <1>3, NotifyAssumption DEF NoRow, Row
<1> QED
  BY <1>1, <1>2, <1>3

LEMMA HandCases ==
    ASSUME job \in Job, NEW w \in Workers
    PROVE  /\ Busy(w) <=> Hand(w).at \in {"sending", "gone"}
           /\ Busy(w) => Hand(w) \in [at : {"sending", "gone"}, endpoint : Endpoints, id : 1..MaxRows]
           /\ Busy(w) => Held(w) \in Sub
           /\ ~Busy(w) => Hand(w).at = "idle"
<1>1. Hand(w) \in Send
  BY DEF Job, Hand
<1>2. CASE Hand(w) = NoSend
  BY <1>2 DEF Busy, NoSend
<1>3. CASE Hand(w) \in [at : {"sending", "gone"}, endpoint : Endpoints, id : 1..MaxRows]
  BY <1>3 DEF Busy, NoSend, Held, Sub
<1> QED
  BY <1>1, <1>2, <1>3 DEF Send

LEMMA SameJob ==
    ASSUME NotifyInv, UNCHANGED <<job, pushed>>
    PROVE  job' \in Job /\ RowsAreHandedOutOnce' /\ ReachedOnce'
  BY DEF NotifyInv, RowsAreHandedOutOnce, ReachedOnce, Busy, Held, Hand, Reached

LEMMA SubscribeStep ==
    ASSUME NotifyInv, NEW u \in Users, NEW e \in Endpoints, Subscribe(u, e)
    PROVE  NotifyInv' /\ \A f \in Endpoints : subs[f] # NoRow => subs'[f] # NoRow
<1>1. NotifyTypeOK /\ job \in Job /\ IdsAreStable
  BY DEF NotifyInv
<1>2. job' \in Job /\ RowsAreHandedOutOnce' /\ ReachedOnce'
  BY SameJob DEF Subscribe
<1>3. CASE subs[e] # NoRow /\ subs' = [subs EXCEPT ![e].owner = u] /\ rows' = rows
  <2>1. subs[e] \in Row
    BY <1>1, <1>3, RowCases
  <2>2. [subs[e] EXCEPT !.owner = u] \in Row /\ [subs[e] EXCEPT !.owner = u].id = subs[e].id
    BY <2>1 DEF Row
  <2>3. subs' = [subs EXCEPT ![e] = [subs[e] EXCEPT !.owner = u]]
    BY <1>3
  <2>4. NotifyTypeOK'
    BY <1>1, <1>3, <2>2, <2>3 DEF NotifyTypeOK, Subscribe
  <2>5. \A f \in Endpoints : subs'[f].id = subs[f].id
    BY <1>1, <2>2, <2>3 DEF NotifyTypeOK
  <2>6. \A f \in Endpoints : /\ subs[f] = NoRow <=> subs[f].id = 0
                             /\ subs'[f] = NoRow => subs'[f].id = 0
    BY <1>1, RowCases DEF NoRow
  <2>7. \A f \in Endpoints : subs[f] # NoRow => subs'[f] # NoRow
    BY <2>5, <2>6
  <2>8. IdsAreStable'
    <3>1. \A f \in Endpoints : subs'[f] # NoRow => subs[f] # NoRow
      BY <1>1, <1>3, <2>3 DEF NotifyTypeOK
    <3> QED
      BY <1>1, <1>3, <2>5, <3>1 DEF IdsAreStable, Subscribe, Hand
  <2> QED
    BY <1>2, <2>4, <2>7, <2>8 DEF NotifyInv
<1>4. CASE /\ subs[e] = NoRow /\ rows < MaxRows /\ rows' = rows + 1
           /\ subs' = [subs EXCEPT ![e] = [id |-> rows', owner |-> u]]
  <2> DEFINE new == [id |-> rows + 1, owner |-> u]
  <2>1. rows \in 0..MaxRows /\ rows + 1 \in 1..MaxRows
    BY <1>1, <1>4, NotifyAssumption DEF NotifyTypeOK
  <2>2. new \in Row /\ new.id = rows + 1 /\ new # NoRow
    BY <2>1 DEF Row, NoRow
  <2>3. subs' = [subs EXCEPT ![e] = new]
    BY <1>4
  <2> HIDE DEF new
  <2>4. \A f \in Endpoints : subs'[f] = IF f = e THEN new ELSE subs[f]
    BY <1>1, <2>3 DEF NotifyTypeOK
  <2>5. NotifyTypeOK'
    BY <1>1, <1>4, <2>1, <2>2, <2>3 DEF NotifyTypeOK, Subscribe
  <2>6. \A f \in Endpoints : subs[f].id <= rows /\ subs[f].id \in Nat
    <3> TAKE f \in Endpoints
    <3> QED
      BY <1>1, <2>1, RowCases DEF IdsAreStable
  <2>7. \A s \in job.all : s.id <= rows /\ s.id \in 1..MaxRows
    BY <1>1 DEF IdsAreStable, Job, Sub
  <2>8. IdsAreStable'
    <3>1. \A f \in Endpoints : subs'[f] # NoRow => subs'[f].id <= rows'
      BY <1>1, <1>4, <2>1, <2>2, <2>4, <2>6
    <3>2. \A f, g \in Endpoints : subs'[f] # NoRow /\ subs'[f].id = subs'[g].id => f = g
      BY <1>1, <2>1, <2>2, <2>4, <2>6 DEF IdsAreStable
    <3>3. \A s \in job'.all : s.id <= rows'
      BY <1>4, <2>1, <2>7 DEF Subscribe
    <3>4. \A s \in job'.all, f \in Endpoints : subs'[f].id = s.id => f = s.endpoint
      BY <1>1, <2>1, <2>2, <2>4, <2>7 DEF IdsAreStable, Subscribe
    <3> QED
      BY <1>1, <3>1, <3>2, <3>3, <3>4 DEF IdsAreStable, Subscribe, Hand
  <2> QED
    BY <1>2, <2>2, <2>4, <2>5, <2>8 DEF NotifyInv
<1> QED
  BY <1>3, <1>4 DEF Subscribe

\* Removing rows, whatever else, keeps the ids stable.
LEMMA FewerRows ==
    ASSUME NotifyInv, UNCHANGED <<channels, rows, dead, mutes>>, job'.all = job.all,
           subs' \in [Endpoints -> Row \cup {NoRow}],
           \A e \in Endpoints : subs'[e] = subs[e] \/ subs'[e] = NoRow,
           \A w \in Workers : Hand(w)' = Hand(w) \/ Hand(w)' = NoSend
    PROVE  IdsAreStable'
<1>1. NotifyTypeOK /\ job \in Job /\ IdsAreStable
  BY DEF NotifyInv
<1>2. \A s \in job.all : s.id # 0
  BY <1>1 DEF Job, Sub
<1>3. NoRow.id = 0 /\ NoSend.at # "gone"
  BY DEF NoRow, NoSend
<1>4. \A e \in Endpoints : subs[e].id = 0 <=> subs[e] = NoRow
  BY <1>1, RowCases
<1>5. \A e, f \in Endpoints : subs'[e] # NoRow /\ subs'[e].id = subs'[f].id => e = f
  BY <1>1, <1>3, <1>4 DEF IdsAreStable
<1> QED
  BY <1>1, <1>2, <1>3, <1>5 DEF IdsAreStable

LEMMA UnsubscribeStep ==
    ASSUME NotifyInv, NEW u \in Users, NEW e \in Endpoints, Unsubscribe(u, e)
    PROVE  NotifyInv'
<1>1. NotifyTypeOK
  BY DEF NotifyInv
<1>2. job' \in Job /\ RowsAreHandedOutOnce' /\ ReachedOnce'
  BY SameJob DEF Unsubscribe
<1>3. NotifyTypeOK'
  BY <1>1 DEF NotifyTypeOK, Unsubscribe
<1>4. IdsAreStable'
  BY <1>1, <1>3, FewerRows DEF Unsubscribe, NotifyTypeOK, Hand
<1> QED
  BY <1>2, <1>3, <1>4 DEF NotifyInv

LEMMA RetireAndMuteStep ==
    ASSUME NotifyInv,
           \/ \E e \in Endpoints : Retire(e)
           \/ \E u \in Users, set \in SUBSET (Users \cup {Circle}) : SetMutes(u, set)
           \/ UNCHANGED nvars
    PROVE  NotifyInv' /\ UNCHANGED subs
<1>1. UNCHANGED <<subs, rows, job, pushed>> /\ dead \subseteq dead'
  BY DEF Retire, SetMutes, nvars, store
<1>2. job' \in Job /\ RowsAreHandedOutOnce' /\ ReachedOnce'
  BY <1>1, SameJob
<1>3. NotifyTypeOK'
  BY DEF NotifyInv, NotifyTypeOK, Retire, SetMutes, nvars, store
<1>4. IdsAreStable'
  BY <1>1 DEF NotifyInv, IdsAreStable, Hand
<1> QED
  BY <1>1, <1>2, <1>3, <1>4 DEF NotifyInv

\* The store is left alone and no row is chosen anew.
LEMMA SameRows ==
    ASSUME NotifyInv, UNCHANGED store, job'.all = job.all,
           \A w \in Workers : Hand(w)'.at = "gone" => Hand(w)'.endpoint \in dead
    PROVE  IdsAreStable'
  BY DEF NotifyInv, IdsAreStable, store

LEMMA StartStep ==
    ASSUME NotifyInv, NEW u \in Users, NotifyStart(u)
    PROVE  NotifyInv'
<1> DEFINE all == {[endpoint |-> e, id |-> subs[e].id] : e \in Deliverable(Recipients(u))}
<1>1. NotifyTypeOK /\ job \in Job /\ IdsAreStable /\ ReachedOnce
  BY DEF NotifyInv
<1>2. /\ job' = [NoJob EXCEPT !.pc = "feeding", !.todo = all, !.all = all]
      /\ job.pc = "idle" /\ UNCHANGED store /\ UNCHANGED pushed
  BY DEF NotifyStart
<1>3. all \subseteq Sub /\ \A s \in all : s.endpoint \in Endpoints /\ s.id = subs[s.endpoint].id /\ subs[s.endpoint] # NoRow
  <2>1. \A e \in Deliverable(Recipients(u)) : e \in Endpoints /\ subs[e] # NoRow /\ subs[e].id \in 1..MaxRows
    BY <1>1, RowCases DEF Deliverable, Recipients
  <2> QED
    BY <2>1 DEF Sub
<1>4. \A s, t \in all : s.endpoint = t.endpoint => s = t
  OBVIOUS
<1> HIDE DEF all
<1>5. /\ job'.pc = "feeding" /\ job'.todo = all /\ job'.all = all /\ job'.sent = 0
      /\ job'.hands = [w \in Workers |-> NoSend]
  BY <1>2 DEF NoJob
<1>6. job' \in Job
  BY <1>2, <1>3 DEF NoJob, Job, Send
<1>7. \A w \in Workers : Hand(w)' = NoSend /\ Hand(w)'.at = "idle"
  BY <1>5 DEF Hand, NoSend
<1>8. \A e \in Endpoints : pushed[e] = 0
  BY <1>1, <1>2 DEF ReachedOnce
<1>9. NotifyTypeOK'
  BY <1>1, <1>2, <1>6 DEF NotifyTypeOK, Job, store
<1>10. RowsAreHandedOutOnce'
  BY <1>4, <1>5, <1>7 DEF RowsAreHandedOutOnce, Busy
<1>11. ReachedOnce'
  <2>1. Reached' = {}
    BY <1>2, <1>8 DEF Reached
  <2>2. IsFiniteSet({}) /\ Cardinality({}) = 0
    BY FS_EmptySet
  <2> QED
    BY <1>2, <1>3, <1>5, <1>7, <1>8, <2>1, <2>2 DEF ReachedOnce
<1>12. IdsAreStable'
  BY <1>1, <1>2, <1>3, <1>5, <1>7 DEF IdsAreStable, store
<1> QED
  BY <1>6, <1>9, <1>10, <1>11, <1>12 DEF NotifyInv

LEMMA FeedStep ==
    ASSUME NotifyInv, NEW w \in Workers, Feed(w)
    PROVE  NotifyInv'
<1>1. NotifyTypeOK /\ job \in Job /\ RowsAreHandedOutOnce /\ ReachedOnce
  BY DEF NotifyInv
<1>2. PICK sub \in job.todo :
         job' = [job EXCEPT !.todo = @ \ {sub},
                            !.hands[w] = [at |-> "sending", endpoint |-> sub.endpoint, id |-> sub.id]]
  BY DEF Feed
<1>3. job.pc = "feeding" /\ UNCHANGED store /\ UNCHANGED pushed
  BY DEF Feed
<1> DEFINE h == [at |-> "sending", endpoint |-> sub.endpoint, id |-> sub.id]
<1>4. sub \in Sub /\ h \in Send /\ h # NoSend /\ h.at = "sending" /\ h.endpoint = sub.endpoint
      /\ sub = [endpoint |-> h.endpoint, id |-> h.id]
  BY <1>1, <1>2 DEF Job, Sub, Send, NoSend
<1>5. /\ job'.pc = "feeding" /\ job'.todo = job.todo \ {sub} /\ job'.all = job.all
      /\ job'.sent = job.sent /\ job'.hands = [job.hands EXCEPT ![w] = h]
  BY <1>1, <1>2, <1>3 DEF Job
<1>6. job' \in Job
  BY <1>1, <1>2, <1>4 DEF Job
<1> HIDE DEF h
<1>7. \A v \in Workers : Hand(v)' = IF v = w THEN h ELSE Hand(v)
  BY <1>1, <1>5 DEF Hand, Job
<1>8. Held(w)' = sub
  BY <1>4, <1>7 DEF Held
<1>9. \A v \in Workers : v # w => Held(v)' = Held(v) /\ Busy(v)' = Busy(v)
  BY <1>7 DEF Held, Busy
<1>10. NotifyTypeOK'
  BY <1>1, <1>3, <1>6 DEF NotifyTypeOK, Job, store
<1>11. RowsAreHandedOutOnce'
  BY <1>1, <1>2, <1>5, <1>8, <1>9 DEF RowsAreHandedOutOnce
<1>12. ReachedOnce'
  <2>1. Reached' = Reached
    BY <1>3 DEF Reached
  <2> QED
    BY <1>1, <1>2, <1>3, <1>4, <1>5, <1>7, <2>1 DEF ReachedOnce
<1>13. IdsAreStable'
  BY <1>3, <1>4, <1>5, <1>7, SameRows DEF NotifyInv, IdsAreStable
<1> QED
  BY <1>6, <1>10, <1>11, <1>12, <1>13 DEF NotifyInv

\* The deadline and the end of the feed.
LEMMA FeedEndsStep ==
    ASSUME NotifyInv, Deadline \/ FeedEnds
    PROVE  NotifyInv'
<1>1. NotifyTypeOK /\ job \in Job /\ RowsAreHandedOutOnce /\ ReachedOnce
  BY DEF NotifyInv
<1>2. UNCHANGED store /\ UNCHANGED pushed
  BY DEF Deadline, FeedEnds
<1>3. /\ job' \in Job /\ job'.pc # "idle" /\ job'.todo = job.todo /\ job'.all = job.all
      /\ job'.sent = job.sent /\ job'.hands = job.hands
  <2>1. CASE Deadline
    BY <1>1, <2>1 DEF Deadline, Job
  <2>2. CASE FeedEnds
    BY <1>1, <2>2 DEF FeedEnds, Job
  <2> QED
    BY <2>1, <2>2
<1>4. \A w \in Workers : Hand(w)' = Hand(w) /\ Busy(w)' = Busy(w) /\ Held(w)' = Held(w)
  BY <1>3 DEF Hand, Busy, Held
<1>5. NotifyTypeOK'
  BY <1>1, <1>2, <1>3 DEF NotifyTypeOK, Job, store
<1>6. RowsAreHandedOutOnce'
  BY <1>1, <1>3, <1>4 DEF RowsAreHandedOutOnce
<1>7. ReachedOnce'
  <2>1. Reached' = Reached
    BY <1>2 DEF Reached
  <2> QED
    BY <1>1, <1>2, <1>3, <1>4, <2>1 DEF ReachedOnce
<1>8. IdsAreStable'
  BY <1>2, <1>3, <1>4, SameRows DEF NotifyInv, IdsAreStable
<1> QED
  BY <1>3, <1>5, <1>6, <1>7, <1>8 DEF NotifyInv

\* A worker lets go of its row.
LEMMA Released ==
    ASSUME NotifyInv, NEW w \in Workers, job' = [job EXCEPT !.hands[w] = NoSend],
           Busy(w), UNCHANGED pushed
    PROVE  /\ job' \in Job /\ RowsAreHandedOutOnce' /\ ReachedOnce' /\ job'.all = job.all
           /\ \A v \in Workers : Hand(v)' = IF v = w THEN NoSend ELSE Hand(v)
<1>1. NotifyTypeOK /\ job \in Job /\ RowsAreHandedOutOnce /\ ReachedOnce
  BY DEF NotifyInv
<1>2. /\ job' \in Job /\ job'.pc = job.pc /\ job'.todo = job.todo /\ job'.all = job.all
      /\ job'.sent = job.sent /\ job'.hands = [job.hands EXCEPT ![w] = NoSend]
  BY <1>1 DEF Job, Send
<1>3. \A v \in Workers : Hand(v)' = IF v = w THEN NoSend ELSE Hand(v)
  BY <1>1, <1>2 DEF Hand, Job
<1>4. \A v \in Workers : Busy(v)' => v # w /\ Busy(v) /\ Held(v)' = Held(v) /\ Hand(v)' = Hand(v)
  BY <1>3 DEF Busy, Held
<1>5. RowsAreHandedOutOnce'
  BY <1>1, <1>2, <1>4 DEF RowsAreHandedOutOnce
<1>6. job.pc # "idle"
  BY <1>1 DEF ReachedOnce, NoJob, Busy, Hand
<1>7. ReachedOnce'
  <2>1. Reached' = Reached /\ NoSend.at # "sending"
    BY DEF Reached, NoSend
  <2> QED
    BY <1>1, <1>2, <1>3, <1>6, <2>1 DEF ReachedOnce
<1> QED
  BY <1>2, <1>3, <1>5, <1>7

LEMMA PruneStep ==
    ASSUME NotifyInv, NEW w \in Workers, Prune(w) \/ PruneFails(w)
    PROVE  /\ NotifyInv'
           /\ \A e \in Endpoints : subs[e] # NoRow /\ subs'[e] = NoRow => e \in dead
<1>1. NotifyTypeOK /\ job \in Job /\ RowsAreHandedOutOnce /\ ReachedOnce /\ IdsAreStable
  BY DEF NotifyInv
<1>2. /\ Hand(w).at = "gone" /\ job' = [job EXCEPT !.hands[w] = NoSend]
      /\ UNCHANGED <<channels, rows, dead, mutes>> /\ UNCHANGED pushed
  BY DEF Prune, PruneFails, store
<1>3. Busy(w)
  BY <1>1, <1>2, HandCases
<1>4. /\ job' \in Job /\ RowsAreHandedOutOnce' /\ ReachedOnce' /\ job'.all = job.all
      /\ \A v \in Workers : Hand(v)' = IF v = w THEN NoSend ELSE Hand(v)
  BY <1>2, <1>3, Released
<1>5. /\ subs' \in [Endpoints -> Row \cup {NoRow}]
      /\ \A e \in Endpoints : subs'[e] = subs[e] \/ (subs[e].id = Hand(w).id /\ subs'[e] = NoRow)
  BY <1>1 DEF Prune, PruneFails, store, NotifyTypeOK
<1>6. NotifyTypeOK'
  BY <1>1, <1>2, <1>4, <1>5 DEF NotifyTypeOK, Job
<1>7. IdsAreStable'
  BY <1>2, <1>4, <1>5, FewerRows
<1>8. \A e \in Endpoints : subs[e].id = Hand(w).id => e \in dead
  <2>1. Held(w) \in job.all /\ Held(w).id = Hand(w).id /\ Held(w).endpoint = Hand(w).endpoint
    BY <1>1, <1>3 DEF RowsAreHandedOutOnce, Held
  <2> QED
    BY <1>1, <1>2, <2>1 DEF IdsAreStable
<1> QED
  BY <1>4, <1>5, <1>6, <1>7, <1>8 DEF NotifyInv

LEMMA AnswerStep ==
    ASSUME NotifyInv, NotifyAnswer
    PROVE  NotifyInv'
<1>1. NotifyTypeOK /\ IdsAreStable
  BY DEF NotifyInv
<1>2. job' = NoJob /\ pushed' = [e \in Endpoints |-> 0] /\ UNCHANGED store
  BY DEF NotifyAnswer
<1>3. /\ job' \in Job /\ job'.pc = "idle" /\ job'.todo = {} /\ job'.all = {} /\ job'.sent = 0
      /\ job'.hands = [w \in Workers |-> NoSend]
  BY <1>2 DEF NoJob, Job, Send
<1>4. \A w \in Workers : Hand(w)' = NoSend /\ Hand(w)'.at = "idle"
  BY <1>3 DEF Hand, NoSend
<1>5. NotifyTypeOK'
  BY <1>1, <1>2, <1>3 DEF NotifyTypeOK, Job, store
<1>6. RowsAreHandedOutOnce'
  BY <1>3, <1>4 DEF RowsAreHandedOutOnce, Busy
<1>7. ReachedOnce'
  <2>1. Reached' = {} /\ \A e \in Endpoints : pushed'[e] = 0
    BY <1>2 DEF Reached
  <2>2. IsFiniteSet({}) /\ Cardinality({}) = 0
    BY FS_EmptySet
  <2> QED
    BY <1>2, <1>3, <1>4, <2>1, <2>2 DEF ReachedOnce
<1>8. IdsAreStable'
  BY <1>1, <1>2, <1>3, <1>4 DEF IdsAreStable, store
<1> QED
  BY <1>3, <1>5, <1>6, <1>7, <1>8 DEF NotifyInv

\* A send to an endpoint that was not reached yet.
LEMMA SendStep ==
    ASSUME NotifyInv, NEW w \in Workers, SendPush(w)
    PROVE  NotifyInv'
<1>1. NotifyTypeOK /\ job \in Job /\ RowsAreHandedOutOnce /\ ReachedOnce
  BY DEF NotifyInv
<1> DEFINE d == Hand(w).endpoint
<1>2. PICK a \in Answers(d) :
        /\ \E n \in Taken(d, a) : pushed' = [pushed EXCEPT ![d] = @ + n]
        /\ job' = [job EXCEPT !.sent = IF a = "accepted" THEN @ + 1 ELSE @,
                              !.hands[w] = IF MeansDead(a) THEN [@ EXCEPT !.at = "gone"] ELSE NoSend]
  BY DEF SendPush
<1>2a. PICK n \in Taken(d, a) : pushed' = [pushed EXCEPT ![d] = @ + n]
  BY <1>2
<1>3. Hand(w).at = "sending" /\ UNCHANGED store
  BY DEF SendPush
<1>4. /\ Busy(w) /\ Held(w) \in Sub /\ d \in Endpoints
      /\ Hand(w) \in [at : {"sending", "gone"}, endpoint : Endpoints, id : 1..MaxRows]
  BY <1>1, <1>3, HandCases
<1>5. /\ n \in {0, 1} /\ (a = "accepted" => n = 1)
      /\ MeansDead(a) => d \in dead
  BY DEF Taken, Answers, MeansDead
<1> DEFINE h == IF MeansDead(a) THEN [Hand(w) EXCEPT !.at = "gone"] ELSE NoSend
           sent == IF a = "accepted" THEN job.sent + 1 ELSE job.sent
<1>6. /\ h \in Send /\ h.at # "sending"
      /\ h # NoSend => h.at = "gone" /\ h.endpoint = d /\ h.id = Hand(w).id /\ d \in dead
      /\ h.at = "gone" => h # NoSend
  BY <1>4, <1>5 DEF Send, NoSend
<1>7. job' = [job EXCEPT !.sent = sent, !.hands[w] = h]
  BY <1>2 DEF Hand
<1> HIDE DEF h, d
<1>7a. sent \in Nat
  BY <1>1 DEF Job
<1> HIDE DEF sent
<1>8. /\ job' \in Job /\ job'.pc = job.pc /\ job'.todo = job.todo /\ job'.all = job.all
      /\ job'.sent = sent /\ job'.hands = [job.hands EXCEPT ![w] = h]
  BY <1>1, <1>6, <1>7, <1>7a DEF Job
<1>9. \A v \in Workers : Hand(v)' = IF v = w THEN h ELSE Hand(v)
  BY <1>1, <1>8 DEF Hand, Job
<1>10. \A v \in Workers : Busy(v)' => Busy(v) /\ Held(v)' = Held(v)
  BY <1>4, <1>6, <1>9 DEF Busy, Held, d
<1>11. RowsAreHandedOutOnce'
  BY <1>1, <1>8, <1>10 DEF RowsAreHandedOutOnce
<1>12. pushed[d] = 0 /\ pushed \in [Endpoints -> Nat] /\ pushed' = [pushed EXCEPT ![d] = n]
  <2>1. pushed[d] = 0
    BY <1>1, <1>3 DEF ReachedOnce, d
  <2>2. pushed \in [Endpoints -> Nat]
    BY <1>1 DEF NotifyTypeOK
  <2> QED
    BY <1>2a, <1>4, <1>5, <2>1, <2>2
<1>13. NotifyTypeOK'
  <2>1. pushed' \in [Endpoints -> Nat]
    BY <1>4, <1>5, <1>12
  <2>2. job'.pc \in {"idle", "feeding", "closed"} /\ job'.hands \in [Workers -> Send]
    BY <1>8 DEF Job
  <2> QED
    BY <1>1, <1>3, <2>1, <2>2 DEF NotifyTypeOK, store
<1>14. \A e \in Endpoints : pushed'[e] = IF e = d THEN n ELSE pushed[e]
  BY <1>12
<1>15. Held(w) \in job.all /\ Held(w) \notin job.todo /\ Held(w).endpoint = d
  BY <1>1, <1>4 DEF RowsAreHandedOutOnce, Held, d
<1>16. ReachedOnce'
  <2>1. \A s \in job'.todo : pushed'[s.endpoint] = 0
    <3>1. \A s \in job.todo : s \in job.all /\ s.endpoint \in Endpoints /\ s.endpoint # d
      BY <1>1, <1>15 DEF RowsAreHandedOutOnce, Job, Sub
    <3> QED
      BY <1>1, <1>8, <1>14, <3>1 DEF ReachedOnce
  <2>2. ASSUME NEW v \in Workers, Hand(v)'.at = "sending"
        PROVE  pushed'[Hand(v)'.endpoint] = 0
    <3>1. v # w /\ Hand(v)' = Hand(v)
      BY <1>6, <1>9, <2>2
    <3>2. Busy(v) /\ Hand(v).endpoint \in Endpoints
      BY <1>1, <2>2, <3>1, HandCases
    <3>3. Held(v) \in job.all /\ Held(v) # Held(w) /\ Held(v).endpoint = Hand(v).endpoint
      BY <1>1, <1>4, <3>1, <3>2 DEF RowsAreHandedOutOnce, Held
    <3>4. Hand(v).endpoint # d
      BY <1>1, <1>15, <3>3 DEF RowsAreHandedOutOnce
    <3>5. pushed[Hand(v).endpoint] = 0
      BY <1>1, <2>2, <3>1 DEF ReachedOnce
    <3> QED
      BY <1>14, <3>1, <3>2, <3>4, <3>5
  <2>3. \A e \in Endpoints : pushed'[e] <= 1
    BY <1>1, <1>5, <1>14 DEF ReachedOnce
  <2>4. d \notin Reached /\ Reached' = IF n = 1 THEN Reached \cup {d} ELSE Reached
    BY <1>4, <1>5, <1>12, <1>14 DEF Reached
  <2>5. \A e \in Reached' : \E s \in job'.all : s.endpoint = e
    BY <1>1, <1>8, <1>15, <2>4 DEF ReachedOnce
  <2>6. IsFiniteSet(Reached) /\ job.sent <= Cardinality(Reached) /\ job.sent \in Nat
        /\ Cardinality(Reached) \in Nat
    BY <1>1, FS_CardinalityType DEF ReachedOnce, Job
  <2>7. IsFiniteSet(Reached') /\ Cardinality(Reached') = IF n = 1 THEN Cardinality(Reached) + 1
                                                         ELSE Cardinality(Reached)
    BY <2>4, <2>6, FS_AddElement
  <2>8. job'.sent <= Cardinality(Reached')
    BY <1>5, <1>8, <2>6, <2>7 DEF sent
  <2>9. job'.pc # "idle"
    BY <1>1, <1>3, <1>4, <1>8 DEF ReachedOnce, NoJob, Busy, Hand
  <2> QED
    BY <2>1, <2>2, <2>3, <2>5, <2>7, <2>8, <2>9 DEF ReachedOnce
<1>17. IdsAreStable'
  BY <1>3, <1>6, <1>8, <1>9, SameRows DEF NotifyInv, IdsAreStable
<1> QED
  BY <1>8, <1>11, <1>13, <1>16, <1>17 DEF NotifyInv

RowsGoForAReason ==
    \A e \in Endpoints : subs[e] # NoRow /\ subs'[e] = NoRow =>
                             e \in dead \/ Unsubscribe(subs[e].owner, e)

LEMMA NotifyStep == NotifyInv /\ [NotifyNext]_nvars => NotifyInv' /\ RowsGoForAReason
<1> SUFFICES ASSUME NotifyInv, [NotifyNext]_nvars
             PROVE  NotifyInv' /\ RowsGoForAReason
  OBVIOUS
<1>1. CASE \E u \in Users : NotifyStart(u)
  BY <1>1, StartStep DEF NotifyStart, store, RowsGoForAReason
<1>2. CASE \E u \in Users, e \in Endpoints : Subscribe(u, e)
  BY <1>2, SubscribeStep DEF RowsGoForAReason
<1>3. CASE \E u \in Users, e \in Endpoints : Unsubscribe(u, e)
  <2>1. PICK u \in Users, e \in Endpoints : Unsubscribe(u, e)
    BY <1>3
  <2>2. \A f \in Endpoints : subs[f] # NoRow /\ subs'[f] = NoRow => f = e /\ u = subs[f].owner
    BY <2>1 DEF Unsubscribe, NotifyInv, NotifyTypeOK
  <2> QED
    BY <2>1, <2>2, UnsubscribeStep DEF RowsGoForAReason
<1>4. CASE \/ \E e \in Endpoints : Retire(e)
           \/ \E u \in Users, set \in SUBSET (Users \cup {Circle}) : SetMutes(u, set)
           \/ UNCHANGED nvars
  BY <1>4, RetireAndMuteStep DEF RowsGoForAReason
<1>5. CASE \E w \in Workers : Feed(w)
  BY <1>5, FeedStep DEF Feed, store, RowsGoForAReason
<1>6. CASE \E w \in Workers : SendPush(w)
  BY <1>6, SendStep DEF SendPush, store, RowsGoForAReason
<1>7. CASE \E w \in Workers : Prune(w) \/ PruneFails(w)
  BY <1>7, PruneStep DEF RowsGoForAReason
<1>8. CASE Deadline \/ FeedEnds
  BY <1>8, FeedEndsStep DEF Deadline, FeedEnds, store, RowsGoForAReason
<1>9. CASE NotifyAnswer
  BY <1>9, AnswerStep DEF NotifyAnswer, store, RowsGoForAReason
<1> QED
  BY <1>1, <1>2, <1>3, <1>4, <1>5, <1>6, <1>7, <1>8, <1>9 DEF NotifyNext

\* The subscriptions, the mutes and the notification under way keep their
\* types, whatever members and workers do (push.go).
THEOREM NotifyTypeCorrect == NotifySpec => []NotifyTypeOK
<1>1. NotifyInv => NotifyTypeOK
  BY DEF NotifyInv
<1> QED
  BY <1>1, NotifyInitInv, NotifyStep, PTL DEF NotifySpec

\* For any pool of workers and any set of endpoints, a notification reaches an
\* endpoint at most once and its count of sent messages is honest (handleNotify).
THEOREM NotificationsReachOnce == NotifySpec => []SentIsDelivered
<1>1. NotifyInv => SentIsDelivered
  BY DEF NotifyInv, ReachedOnce, SentIsDelivered, Reached
<1> QED
  BY <1>1, NotifyInitInv, NotifyStep, PTL DEF NotifySpec

\* The prune of a worker, by an id that was read before the notification was
\* sent, removes dead endpoints only (prunePushSubscription).
THEOREM PruneTakesDeadOnly == NotifySpec => LiveSubscriptionsStay
<1>1. NotifyInv /\ [NotifyNext]_nvars =>
        NotifyInv' /\ [\A e \in Endpoints :
                          subs[e] # NoRow /\ subs'[e] = NoRow =>
                              e \in dead \/ Unsubscribe(subs[e].owner, e)]_nvars
  BY NotifyStep DEF RowsGoForAReason
<1> QED
  BY <1>1, NotifyInitInv, PTL DEF NotifySpec, LiveSubscriptionsStay

-----------------------------------------------------------------------------
(* SOS alerts                                                                *)

\* The events that say that an alert is over, wherever they are.
Underway == pending \cup {wire[i] : i \in 1..Len(wire)}

OverEventsAreTrue ==
    \A a \in Alerts : <<"sos_resolved", a>> \in Underway => row[a] \in {"resolved", "pruned"}

\* An active alert that the answer under way or the cached one lacks was
\* created after the server had read the table.
MissingIsYounger ==
    /\ \A a \in Alerts : row[a] = "none" => age[a] = 0
    /\ poll # NoPoll =>
          \A a \in Alerts : row[a] = "active" /\ a \notin poll.set => age[a] <= poll.age
    /\ data # NoData =>
          \A a \in Alerts : row[a] = "active" /\ a \notin data => age[a] <= dataAge

SosInv == SosTypeOK /\ OverEventsAreTrue /\ MissingIsYounger

LEMMA SosInitInv == SosInit => SosInv
<1> SUFFICES ASSUME SosInit PROVE SosInv
  OBVIOUS
<1>1. wire \in Seq(Event) /\ Len(wire) = 0 /\ wire = <<>>
  BY DEF SosInit
<1>2. SosTypeOK
  <2>1. 0 \in 0..Grace /\ 0 <= MaxWire
    BY SosAssumption
  <2>2. row \in [Alerts -> {"none", "active", "resolved", "pruned"}] /\ age \in [Alerts -> 0..Grace]
    BY <2>1 DEF SosInit
  <2>3. /\ pending \subseteq Event /\ online \in BOOLEAN /\ banner \subseteq Alerts
        /\ data \in (SUBSET Alerts) \cup {NoData} /\ asking \subseteq touched /\ touched \subseteq Alerts
        /\ poll = NoPoll /\ dataAge = 0
        /\ keyed \in BOOLEAN /\ loading \in BOOLEAN /\ visible \in BOOLEAN
    BY DEF SosInit
  <2> QED
    BY <1>1, <2>1, <2>2, <2>3 DEF SosTypeOK
<1>3. Underway = {}
  BY <1>1 DEF SosInit, Underway
<1> QED
  BY <1>2, <1>3 DEF SosInv, OverEventsAreTrue, MissingIsYounger, SosInit

LEMMA PollCases ==
    ASSUME SosTypeOK
    PROVE  /\ poll # NoPoll => poll \in [at : {"sent"}, set : SUBSET Alerts, age : 0..Grace]
           /\ \A a \in Alerts : age[a] \in 0..Grace
           /\ dataAge \in 0..Grace
  BY DEF SosTypeOK

\* The events on the wire after one is queued, taken or all are dropped.
LEMMA WireSteps ==
    ASSUME wire \in Seq(Event)
    PROVE  /\ \A ev \in Event : /\ Append(wire, ev) \in Seq(Event)
                                /\ Len(Append(wire, ev)) = Len(wire) + 1
                                /\ \A i \in 1..Len(Append(wire, ev)) :
                                      Append(wire, ev)[i] = ev \/ Append(wire, ev)[i] \in Underway
           /\ wire # <<>> => /\ Head(wire) \in Event /\ Head(wire) \in Underway
                             /\ Tail(wire) \in Seq(Event) /\ Len(Tail(wire)) <= Len(wire)
                             /\ \A i \in 1..Len(Tail(wire)) : Tail(wire)[i] \in Underway
<1>1. ASSUME NEW ev \in Event
      PROVE  /\ Append(wire, ev) \in Seq(Event)
             /\ Len(Append(wire, ev)) = Len(wire) + 1
             /\ \A i \in 1..Len(Append(wire, ev)) :
                   Append(wire, ev)[i] = ev \/ Append(wire, ev)[i] \in Underway
  <2>1. Len(Append(wire, ev)) = Len(wire) + 1 /\ Append(wire, ev) \in Seq(Event) /\ Len(wire) \in Nat
    OBVIOUS
  <2>2. \A i \in 1..(Len(wire) + 1) : \/ i \in 1..Len(wire) /\ Append(wire, ev)[i] = wire[i]
                                      \/ Append(wire, ev)[i] = ev
    OBVIOUS
  <2> QED
    BY <2>1, <2>2 DEF Underway
<1>2. ASSUME wire # <<>>
      PROVE  /\ Head(wire) \in Event /\ Head(wire) \in Underway
             /\ Tail(wire) \in Seq(Event) /\ Len(Tail(wire)) <= Len(wire)
             /\ \A i \in 1..Len(Tail(wire)) : Tail(wire)[i] \in Underway
  <2>1. /\ Len(wire) \in Nat \ {0} /\ Head(wire) = wire[1] /\ Tail(wire) \in Seq(Event)
        /\ Len(Tail(wire)) = Len(wire) - 1
    BY <1>2
  <2>2. \A i \in 1..(Len(wire) - 1) : Tail(wire)[i] = wire[i + 1] /\ i + 1 \in 1..Len(wire)
    BY <1>2, <2>1
  <2>3. 1 \in 1..Len(wire) /\ wire[1] \in Event
    BY <2>1
  <2> QED
    BY <2>1, <2>2, <2>3 DEF Underway
<1> QED
  BY <1>1, <1>2

LEMMA CreateStep ==
    ASSUME SosInv, NEW a \in Alerts, CreateSOS(a)
    PROVE  SosInv'
<1>1. SosTypeOK /\ OverEventsAreTrue /\ MissingIsYounger
  BY DEF SosInv
<1>2. SosTypeOK'
  BY <1>1 DEF CreateSOS, SosTypeOK, client, page, Event
<1>3. \A b \in Alerts : row'[b] = IF b = a THEN "active" ELSE row[b]
  BY <1>1 DEF CreateSOS, SosTypeOK
<1>4. OverEventsAreTrue'
  <2>1. Underway' = Underway \cup {<<"sos", a>>}
    BY DEF CreateSOS, Underway
  <2> QED
    BY <1>1, <1>3, <2>1 DEF OverEventsAreTrue, CreateSOS
<1>5. MissingIsYounger'
  <2>1. age[a] = 0 /\ (poll # NoPoll => poll.age \in Nat) /\ dataAge \in Nat
    BY <1>1, PollCases DEF CreateSOS, MissingIsYounger
  <2> QED
    BY <1>1, <1>3, <2>1 DEF MissingIsYounger, CreateSOS, client
<1> QED
  BY <1>2, <1>4, <1>5 DEF SosInv

\* Resolving an alert, with the poll kept or cancelled.
LEMMA ResolveKeeps ==
    ASSUME SosInv, NEW a \in Alerts, Resolve(a), UNCHANGED <<age, wire, data, dataAge>>,
           poll' = poll \/ poll' = NoPoll
    PROVE  OverEventsAreTrue' /\ MissingIsYounger' /\ pending' \subseteq Event
           /\ row' \in [Alerts -> {"none", "active", "resolved", "pruned"}]
<1>1. SosTypeOK /\ OverEventsAreTrue /\ MissingIsYounger
  BY DEF SosInv
<1>2. \A b \in Alerts : row'[b] = IF b = a THEN "resolved" ELSE row[b]
  BY <1>1 DEF Resolve, SosTypeOK
<1>3. Underway' = Underway \cup {<<"sos_resolved", a>>}
  BY DEF Resolve, Underway
<1>4. OverEventsAreTrue'
  BY <1>1, <1>2, <1>3 DEF OverEventsAreTrue
<1>5. MissingIsYounger'
  BY <1>1, <1>2 DEF MissingIsYounger
<1>6. pending' \subseteq Event /\ row' \in [Alerts -> {"none", "active", "resolved", "pruned"}]
  BY <1>1 DEF Resolve, SosTypeOK, Event
<1> QED
  BY <1>4, <1>5, <1>6

LEMMA ResolveStep ==
    ASSUME SosInv, NEW a \in Alerts, MemberResolves(a) \/ ResolveDone(a)
    PROVE  SosInv' /\ UNCHANGED banner
<1>1. SosTypeOK /\ OverEventsAreTrue /\ MissingIsYounger
  BY DEF SosInv
<1>2. /\ UNCHANGED <<age, online, wire, banner, data, dataAge, touched, keyed, loading, visible>>
      /\ asking' \subseteq asking /\ (poll' = poll \/ poll' = NoPoll)
      /\ Resolve(a) \/ UNCHANGED <<row, pending>>
  BY DEF MemberResolves, ResolveDone, client, page
<1>3. CASE Resolve(a)
  <2>1. OverEventsAreTrue' /\ MissingIsYounger' /\ pending' \subseteq Event
        /\ row' \in [Alerts -> {"none", "active", "resolved", "pruned"}]
    BY <1>2, <1>3, ResolveKeeps
  <2> QED
    BY <1>1, <1>2, <2>1 DEF SosInv, SosTypeOK
<1>4. CASE UNCHANGED <<row, pending>>
  BY <1>1, <1>2, <1>4 DEF SosInv, SosTypeOK, OverEventsAreTrue, MissingIsYounger, Underway
<1> QED
  BY <1>2, <1>3, <1>4

LEMMA ServerStep ==
    ASSUME SosInv, PruneResolvedSOS \/ Connect \/ Disconnect \/ UNCHANGED vars
    PROVE  SosInv' /\ UNCHANGED banner
<1>1. SosTypeOK /\ OverEventsAreTrue /\ MissingIsYounger
  BY DEF SosInv
<1>2. CASE PruneResolvedSOS
  <2>1. \A a \in Alerts : row'[a] = IF row[a] = "resolved" THEN "pruned" ELSE row[a]
    BY <1>2 DEF PruneResolvedSOS
  <2>2. SosTypeOK'
    BY <1>1, <1>2 DEF PruneResolvedSOS, SosTypeOK, client, page
  <2> QED
    BY <1>1, <1>2, <2>1, <2>2 DEF PruneResolvedSOS, SosInv, OverEventsAreTrue, MissingIsYounger,
                                  Underway, client
<1>3. CASE Connect \/ UNCHANGED vars
  BY <1>1, <1>3 DEF Connect, vars, server, client, page, SosInv, SosTypeOK, OverEventsAreTrue,
                    MissingIsYounger, Underway
<1>4. CASE Disconnect
  <2>1. /\ UNCHANGED <<row, age, pending, banner, data, dataAge, poll, asking, touched>>
        /\ UNCHANGED <<keyed, loading, visible>> /\ online' = FALSE /\ wire' = <<>>
    BY <1>4 DEF Disconnect, server, client, page
  <2>2. wire' \in Seq(Event) /\ Len(wire') = 0 /\ 0 <= MaxWire
    BY <2>1, SosAssumption
  <2>3. Underway' \subseteq Underway
    BY <2>1, <2>2 DEF Underway
  <2>4. SosTypeOK'
    BY <1>1, <2>1, <2>2 DEF SosTypeOK
  <2> QED
    BY <1>1, <2>1, <2>3, <2>4 DEF SosInv, OverEventsAreTrue, MissingIsYounger
<1> QED
  BY <1>2, <1>3, <1>4

LEMMA PublishStep ==
    ASSUME SosInv, NEW ev \in Event, Publish(ev)
    PROVE  SosInv' /\ UNCHANGED banner
<1>1. SosTypeOK /\ OverEventsAreTrue /\ MissingIsYounger
  BY DEF SosInv
<1>2. /\ ev \in pending /\ pending' = pending \ {ev} /\ UNCHANGED <<row, age, online, client, page>>
      /\ (Len(wire) < MaxWire /\ wire' = Append(wire, ev)) \/ wire' = wire
  BY DEF Publish
<1>3. wire \in Seq(Event) /\ Len(wire) \in Nat /\ Len(wire) <= MaxWire
  BY <1>1 DEF SosTypeOK
<1>4. /\ wire' \in Seq(Event) /\ Len(wire') <= MaxWire
      /\ \A i \in 1..Len(wire') : wire'[i] \in Underway
  <2>1. CASE wire' = wire
    BY <1>3, <2>1 DEF Underway
  <2>2. CASE Len(wire) < MaxWire /\ wire' = Append(wire, ev)
    <3>1. ev \in Underway
      BY <1>2 DEF Underway
    <3> QED
      BY <1>3, <2>2, <3>1, WireSteps, SosAssumption
  <2> QED
    BY <1>2, <2>1, <2>2
<1>5. Underway' \subseteq Underway
  BY <1>2, <1>4 DEF Underway
<1>6. SosTypeOK'
  BY <1>1, <1>2, <1>4 DEF SosTypeOK, client, page
<1> QED
  BY <1>1, <1>2, <1>5, <1>6 DEF SosInv, OverEventsAreTrue, MissingIsYounger, client

LEMMA OlderType ==
    ASSUME NEW n \in 0..Grace
    PROVE  /\ Older(n) \in 0..Grace /\ n <= Older(n)
           /\ \A m \in 0..Grace : m <= n => Older(m) <= Older(n)
  BY SosAssumption DEF Older

LEMMA SosTickStep ==
    ASSUME SosInv, Tick
    PROVE  SosInv' /\ UNCHANGED banner
<1>1. SosTypeOK /\ OverEventsAreTrue /\ MissingIsYounger
  BY DEF SosInv
<1>2. /\ UNCHANGED <<row, pending, online, wire, banner, data, asking, touched, keyed, loading, visible>>
      /\ \A a \in Alerts : age'[a] = IF row[a] # "none" THEN Older(age[a]) ELSE age[a]
      /\ age' = [a \in Alerts |-> IF row[a] # "none" THEN Older(age[a]) ELSE age[a]]
      /\ poll' = IF poll # NoPoll THEN [poll EXCEPT !.age = Older(poll.age)] ELSE poll
      /\ dataAge' = IF data # NoData THEN Older(dataAge) ELSE dataAge
  BY DEF Tick, page
<1>3. \A a \in Alerts : age[a] \in 0..Grace /\ age'[a] \in 0..Grace
  BY <1>1, <1>2, PollCases, OlderType
<1>4. age' \in [Alerts -> 0..Grace]
  BY <1>2, <1>3
<1>5. dataAge \in 0..Grace /\ dataAge' \in 0..Grace
  BY <1>1, <1>2, PollCases, OlderType
<1>6. poll # NoPoll =>
        /\ poll.age \in 0..Grace
        /\ poll' \in [at : {"sent"}, set : SUBSET Alerts, age : 0..Grace]
        /\ poll'.set = poll.set /\ poll'.age = Older(poll.age)
  <2> SUFFICES ASSUME poll # NoPoll
               PROVE  /\ poll.age \in 0..Grace
                      /\ poll' \in [at : {"sent"}, set : SUBSET Alerts, age : 0..Grace]
                      /\ poll'.set = poll.set /\ poll'.age = Older(poll.age)
    OBVIOUS
  <2>1. poll \in [at : {"sent"}, set : SUBSET Alerts, age : 0..Grace]
    BY <1>1, PollCases
  <2>2. poll.age \in 0..Grace /\ Older(poll.age) \in 0..Grace
    BY <2>1, OlderType
  <2>3. poll' = [poll EXCEPT !.age = Older(poll.age)]
    BY <1>2
  <2> QED
    BY <2>1, <2>2, <2>3
<1>7. poll = NoPoll => poll' = NoPoll
  BY <1>2
<1>8. SosTypeOK'
  BY <1>1, <1>2, <1>4, <1>5, <1>6, <1>7 DEF SosTypeOK
<1>9. MissingIsYounger'
  <2>1. \A a \in Alerts : row'[a] = "none" => age'[a] = 0
    BY <1>1, <1>2 DEF MissingIsYounger
  <2>2. ASSUME poll' # NoPoll, NEW a \in Alerts, row'[a] = "active", a \notin poll'.set
        PROVE  age'[a] <= poll'.age
    <3>1. poll # NoPoll /\ row[a] = "active" /\ a \notin poll.set
      BY <1>2, <1>6, <1>7, <2>2
    <3>2. age[a] <= poll.age /\ age'[a] = Older(age[a])
      BY <1>1, <1>2, <3>1 DEF MissingIsYounger
    <3> QED
      BY <1>3, <1>6, <3>1, <3>2, OlderType
  <2>3. ASSUME data' # NoData, NEW a \in Alerts, row'[a] = "active", a \notin data'
        PROVE  age'[a] <= dataAge'
    <3>1. data # NoData /\ row[a] = "active" /\ a \notin data /\ dataAge' = Older(dataAge)
      BY <1>2, <2>3
    <3>2. age[a] <= dataAge /\ age'[a] = Older(age[a])
      BY <1>1, <1>2, <3>1 DEF MissingIsYounger
    <3> QED
      BY <1>3, <1>5, <3>1, <3>2, OlderType
  <2> QED
    BY <2>1, <2>2, <2>3 DEF MissingIsYounger, NoData, NoPoll
<1> QED
  BY <1>1, <1>2, <1>8, <1>9 DEF SosInv, OverEventsAreTrue, Underway

LEMMA DeliverStep ==
    ASSUME SosInv, Deliver
    PROVE  SosInv' /\ \A a \in banner \ banner' : row[a] # "active"
<1>1. SosTypeOK /\ OverEventsAreTrue /\ MissingIsYounger
  BY DEF SosInv
<1> DEFINE ev == Head(wire)
<1>2. /\ UNCHANGED <<row, age, pending, online, data, dataAge, poll, asking, touched>>
      /\ UNCHANGED <<keyed, loading, visible>>
      /\ wire # <<>> /\ wire' = Tail(wire)
      /\ banner' = IF ev[1] = "sos" THEN banner \cup {ev[2]} ELSE banner \ {ev[2]}
  BY DEF Deliver, server, page
<1>3. wire \in Seq(Event) /\ Len(wire) \in Nat /\ Len(wire) <= MaxWire
  BY <1>1 DEF SosTypeOK
<1>4. /\ ev \in Event /\ ev \in Underway
      /\ wire' \in Seq(Event) /\ Len(wire') <= Len(wire)
      /\ \A i \in 1..Len(wire') : wire'[i] \in Underway
  BY <1>2, <1>3, WireSteps
<1> HIDE DEF ev
<1>5. Underway' \subseteq Underway
  BY <1>2, <1>4 DEF Underway
<1>6. Len(wire') <= MaxWire
  <2>1. Len(wire') \in Nat
    BY <1>4
  <2> QED
    BY <1>3, <1>4, <2>1, SosAssumption
<1>7. PICK kind \in {"sos", "sos_resolved"}, b \in Alerts : ev = <<kind, b>>
  BY <1>4 DEF Event
<1>8. ev[1] = kind /\ ev[2] = b
  BY <1>7
<1>9. banner \subseteq Alerts /\ banner' \subseteq Alerts
  BY <1>1, <1>2, <1>8 DEF SosTypeOK
<1>10. SosTypeOK'
  BY <1>1, <1>2, <1>4, <1>6, <1>9 DEF SosTypeOK
<1>11. ASSUME NEW a \in banner \ banner'
       PROVE  row[a] # "active"
  <2>1. ev = <<"sos_resolved", a>> /\ a \in Alerts
    BY <1>2, <1>7, <1>8, <1>9, <1>11
  <2> QED
    BY <1>1, <1>4, <2>1 DEF OverEventsAreTrue
<1> QED
  BY <1>1, <1>2, <1>5, <1>10, <1>11 DEF SosInv, OverEventsAreTrue, MissingIsYounger

LEMMA PollStep ==
    ASSUME SosInv, PollStart \/ PollApply \/ PollFails
    PROVE  /\ SosInv'
           /\ \A a \in banner \ banner' : row[a] = "active" => PollApply /\ poll.age >= Grace
<1>1. SosTypeOK /\ OverEventsAreTrue /\ MissingIsYounger
  BY DEF SosInv
<1>2. CASE PollStart
  <2>1. /\ UNCHANGED <<row, age, pending, online, wire, banner, data, dataAge, asking, touched>>
        /\ UNCHANGED <<keyed, loading, visible>>
        /\ poll' = [at |-> "sent", set |-> ListActiveSOS, age |-> 0]
    BY <1>2 DEF PollStart, server, page
  <2>2. ListActiveSOS \subseteq Alerts /\ \A a \in Alerts : row[a] = "active" => a \in ListActiveSOS
    BY DEF ListActiveSOS
  <2>3. poll' \in [at : {"sent"}, set : SUBSET Alerts, age : 0..Grace] /\ poll'.set = ListActiveSOS
    BY <2>1, <2>2, SosAssumption
  <2>4. SosTypeOK'
    BY <1>1, <2>1, <2>3 DEF SosTypeOK
  <2>5. MissingIsYounger'
    BY <1>1, <2>1, <2>2, <2>3 DEF MissingIsYounger
  <2> QED
    BY <1>1, <2>1, <2>4, <2>5 DEF SosInv, OverEventsAreTrue, Underway
<1>3. CASE PollApply
  <2>1. /\ UNCHANGED <<row, age, pending, online, wire, asking, touched, keyed, loading, visible>>
        /\ banner' = IF poll.set = data THEN banner ELSE Reconcile(poll.set)
        /\ data' = poll.set /\ dataAge' = poll.age /\ poll # NoPoll /\ poll' = NoPoll
    BY <1>3 DEF PollApply, server, page
  <2>2. poll.set \subseteq Alerts /\ poll.age \in 0..Grace
    BY <1>1, <2>1, PollCases
  <2>3. banner \subseteq Alerts /\ banner' \subseteq Alerts
    BY <1>1, <2>1, <2>2 DEF SosTypeOK, Reconcile
  <2>4. SosTypeOK'
    BY <1>1, <2>1, <2>2, <2>3 DEF SosTypeOK
  <2>5. ASSUME NEW a \in banner \ banner', row[a] = "active"
        PROVE  poll.age >= Grace
    <3>1. a \in Alerts /\ a \notin poll.set /\ ~(age[a] < Grace)
      BY <2>1, <2>3, <2>5 DEF Reconcile
    <3>2. age[a] <= poll.age
      BY <1>1, <2>1, <2>5, <3>1 DEF MissingIsYounger
    <3>3. age[a] \in 0..Grace
      BY <1>1, <3>1, PollCases
    <3> QED
      BY <2>2, <3>1, <3>2, <3>3, SosAssumption
  <2>6. MissingIsYounger'
    BY <1>1, <2>1 DEF MissingIsYounger
  <2> QED
    BY <1>1, <1>3, <2>1, <2>4, <2>5, <2>6 DEF SosInv, OverEventsAreTrue, Underway
<1>4. CASE PollFails
  BY <1>1, <1>4 DEF PollFails, server, page, SosInv, SosTypeOK, OverEventsAreTrue, MissingIsYounger, Underway
<1> QED
  BY <1>2, <1>3, <1>4

LEMMA ResolveStartStep ==
    ASSUME SosInv, NEW a \in Alerts, ResolveStart(a)
    PROVE  SosInv' /\ banner \ banner' \subseteq {a}
<1>1. /\ UNCHANGED <<row, age, pending, online, wire, data, dataAge, poll, keyed, loading, visible>>
      /\ banner' = banner \ {a} /\ asking' = asking \cup {a} /\ touched' = touched \cup {a}
  BY DEF ResolveStart, server, page
<1>2. SosTypeOK'
  BY <1>1 DEF SosInv, SosTypeOK
<1> QED
  BY <1>1, <1>2 DEF SosInv, OverEventsAreTrue, MissingIsYounger, Underway

\* What the connection's end does to the events.
LEMMA WireEmptied ==
    ASSUME SosInv, wire' = <<>>, UNCHANGED <<row, pending>>
    PROVE  /\ wire' \in Seq(Event) /\ Len(wire') <= MaxWire
           /\ OverEventsAreTrue'
<1>1. wire' \in Seq(Event) /\ Len(wire') = 0 /\ 0 <= MaxWire
  BY SosAssumption
<1>2. Underway' \subseteq Underway
  BY <1>1 DEF Underway
<1> QED
  BY <1>1, <1>2 DEF SosInv, OverEventsAreTrue

LEMMA SelectionStep ==
    ASSUME SosInv, SelectionChanges
    PROVE  SosInv' /\ \A a \in banner \ banner' : a \notin Cached'
<1>1. SosTypeOK /\ OverEventsAreTrue /\ MissingIsYounger
  BY DEF SosInv
<1>2. /\ UNCHANGED <<row, age, pending, asking, touched, visible>>
      /\ \/ UNCHANGED <<data, dataAge, poll>>
         \/ data' = NoData /\ dataAge' = 0 /\ poll' = NoPoll
      /\ banner' = Cached' /\ keyed' = FALSE /\ loading' = TRUE /\ online' = FALSE /\ wire' = <<>>
  BY DEF SelectionChanges, server
<1>3. /\ data' \in (SUBSET Alerts) \cup {NoData} /\ dataAge' \in 0..Grace
      /\ poll' \in {NoPoll} \cup [at : {"sent"}, set : SUBSET Alerts, age : 0..Grace]
  BY <1>1, <1>2, SosAssumption DEF SosTypeOK
<1>4. banner' \subseteq Alerts
  BY <1>2, <1>3 DEF Cached
<1>5. wire' \in Seq(Event) /\ Len(wire') <= MaxWire /\ OverEventsAreTrue'
  BY <1>2, WireEmptied
<1>6. SosTypeOK'
  BY <1>1, <1>2, <1>3, <1>4, <1>5 DEF SosTypeOK
<1>7. MissingIsYounger'
  BY <1>1, <1>2 DEF MissingIsYounger, NoData, NoPoll
<1> QED
  BY <1>2, <1>5, <1>6, <1>7 DEF SosInv

LEMMA KeyringStep ==
    ASSUME SosInv, KeyringLoads \/ RotateKey
    PROVE  SosInv' /\ \A a \in banner \ banner' : row[a] = "active" => dataAge >= Grace
<1>1. SosTypeOK /\ OverEventsAreTrue /\ MissingIsYounger
  BY DEF SosInv
<1>2. /\ UNCHANGED <<row, age, pending, data, dataAge, poll, asking, touched, visible>>
      /\ banner' = IF data = NoData THEN banner ELSE Reconcile(data)
      /\ online' = FALSE /\ wire' = <<>>
  BY DEF KeyringLoads, RotateKey, SetKeyring, server
<1>3. keyed' \in BOOLEAN /\ loading' \in BOOLEAN
  BY <1>1 DEF KeyringLoads, RotateKey, SosTypeOK
<1>4. banner \subseteq Alerts /\ banner' \subseteq Alerts
  BY <1>1, <1>2 DEF SosTypeOK, Reconcile
<1>5. wire' \in Seq(Event) /\ Len(wire') <= MaxWire /\ OverEventsAreTrue'
  BY <1>2, WireEmptied
<1>6. SosTypeOK'
  BY <1>1, <1>2, <1>3, <1>4, <1>5 DEF SosTypeOK
<1>7. MissingIsYounger'
  BY <1>1, <1>2 DEF MissingIsYounger, NoData, NoPoll
<1>8. ASSUME NEW a \in banner \ banner', row[a] = "active"
      PROVE  dataAge >= Grace
  <2>1. a \in Alerts /\ data # NoData /\ a \notin data /\ ~(age[a] < Grace)
    BY <1>2, <1>4, <1>8 DEF Reconcile
  <2>2. age[a] <= dataAge
    BY <1>1, <1>8, <2>1 DEF MissingIsYounger
  <2> QED
    BY <1>1, <2>1, <2>2, PollCases, SosAssumption
<1> QED
  BY <1>5, <1>6, <1>7, <1>8 DEF SosInv

LEMMA TabStep ==
    ASSUME SosInv, TabChanges
    PROVE  SosInv' /\ UNCHANGED banner
<1>1. /\ UNCHANGED <<row, age, pending, online, wire, banner, data, dataAge, poll, asking, touched>>
      /\ UNCHANGED <<keyed, loading>> /\ visible' \in BOOLEAN
  BY DEF TabChanges, server, client
<1> QED
  BY <1>1 DEF SosInv, SosTypeOK, OverEventsAreTrue, MissingIsYounger, Underway

HiddenForAReason ==
    \A a \in Alerts :
        a \in banner \ banner' /\ row[a] = "active" =>
            \/ ResolveStart(a)
            \/ PollApply /\ poll.age >= Grace
            \/ (KeyringLoads \/ RotateKey) /\ dataAge >= Grace
            \/ SelectionChanges /\ a \notin Cached'

LEMMA SosStep == SosInv /\ [SosNext]_vars => SosInv' /\ HiddenForAReason
<1> SUFFICES ASSUME SosInv, [SosNext]_vars
             PROVE  SosInv' /\ HiddenForAReason
  OBVIOUS
<1>1. CASE \E a \in Alerts : CreateSOS(a)
  BY <1>1, CreateStep DEF CreateSOS, client, HiddenForAReason
<1>2. CASE \E a \in Alerts : MemberResolves(a) \/ ResolveDone(a)
  BY <1>2, ResolveStep DEF HiddenForAReason
<1>3. CASE \E a \in Alerts : ResolveStart(a)
  BY <1>3, ResolveStartStep DEF HiddenForAReason
<1>4. CASE \E ev \in Event : Publish(ev)
  BY <1>4, PublishStep DEF HiddenForAReason
<1>5. CASE PruneResolvedSOS \/ Connect \/ Disconnect \/ UNCHANGED vars
  BY <1>5, ServerStep DEF HiddenForAReason
<1>6. CASE Tick
  BY <1>6, SosTickStep DEF HiddenForAReason
<1>7. CASE Deliver
  BY <1>7, DeliverStep DEF HiddenForAReason
<1>8. CASE PollStart \/ PollApply \/ PollFails
  BY <1>8, PollStep DEF HiddenForAReason
<1>9. CASE SelectionChanges
  BY <1>9, SelectionStep DEF HiddenForAReason
<1>10. CASE KeyringLoads \/ RotateKey
  BY <1>10, KeyringStep DEF HiddenForAReason
<1>11. CASE TabChanges
  BY <1>11, TabStep DEF HiddenForAReason
<1> QED
  BY <1>1, <1>2, <1>3, <1>4, <1>5, <1>6, <1>7, <1>8, <1>9, <1>10, <1>11 DEF SosNext

\* The table, the events and the client's banner keep their types, whatever
\* is lost, delayed or overtaken (sos.go, sos.ts).
THEOREM SosTypeCorrect == SosSpec => []SosTypeOK
<1>1. SosInv => SosTypeOK
  BY DEF SosInv
<1> QED
  BY <1>1, SosInitInv, SosStep, PTL DEF SosSpec

\* For any grace period and any number of alerts, an active alert leaves the
\* banner only by the user's hand, by an answer older than the grace period,
\* fresh or applied again to another keyring, or with the page's own state
\* when the circle's summary changes and no cached answer has the alert.
THEOREM YoungAnswersHideNothing == SosSpec => HiddenOnlyByOldAnswer
<1>1. SosInv /\ [SosNext]_vars =>
        SosInv' /\ [\A a \in Alerts :
                       a \in banner \ banner' /\ row[a] = "active" =>
                           \/ ResolveStart(a)
                           \/ PollApply /\ poll.age >= Grace
                           \/ (KeyringLoads \/ RotateKey) /\ dataAge >= Grace
                           \/ SelectionChanges /\ a \notin Cached']_vars
  BY SosStep DEF HiddenForAReason
<1> QED
  BY <1>1, SosInitInv, PTL DEF SosSpec, HiddenOnlyByOldAnswer
====
