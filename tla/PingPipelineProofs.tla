-------------------------- MODULE PingPipelineProofs --------------------------
(***************************************************************************)
(* Proofs about PingPipeline, for any number of circles, pings and flushes *)
(* and any batch size, window and retention.                               *)
(***************************************************************************)
EXTENDS PingPipeline, FiniteSetTheorems, WellFoundedInduction, TLAPS

(* A flush that is told its pings are stored holds pings that are: that is *)
(* why it may delete their rows, and what makes NothingLost inductive.     *)
ToldTruth == \A f \in Flushes : stage[f] = "stored" => batch[f] \subseteq stored

Inv == PingTypeOK /\ ToldTruth /\ NothingLost

-----------------------------------------------------------------------------

(* A service that was just started satisfies the invariant.                *)
LEMMA InitInv == Init => Inv
<1> SUFFICES ASSUME Init PROVE Inv
  OBVIOUS
<1>1. PingTypeOK
  BY PipelineConstants, FS_EmptySet DEF Init, PingTypeOK, Stages, Jobs
<1>2. ToldTruth /\ NothingLost
  BY DEF Init, ToldTruth, NothingLost
<1> QED
  BY <1>1, <1>2 DEF Inv

(* Recording numbers a ping that fits the bounds and queues it.            *)
LEMMA RecordInv ==
    ASSUME Inv, NEW c \in Circles, NEW t \in 0..MaxTime, Record(c, t)
    PROVE  Inv'
<1> USE PipelineConstants DEF Inv, Record, upload, bounds
<1> DEFINE p == [id |-> made + 1, circle |-> c, time |-> t]
<1>1. made \in 0..MaxPings /\ made < MaxPings
  BY DEF PingTypeOK
<1>2. made + 1 \in 1..MaxPings /\ made + 1 \in 0..MaxPings
  BY <1>1
<1>3. p \in Ping
  BY <1>2 DEF Ping
<1>4. PingTypeOK'
  BY <1>2, <1>3 DEF PingTypeOK
<1>5. ToldTruth' /\ NothingLost'
  BY DEF ToldTruth, NothingLost
<1> QED
  BY <1>4, <1>5

(* A flush only takes what is queued, no more than a batch holds, and only *)
(* deletes what it was told is stored.                                     *)
LEMMA FlushInv ==
    ASSUME Inv, NEW f \in Flushes, BeginFlush(f) \/ EndFlush(f) \/ GiveUp(f)
    PROVE  Inv'
<1> USE PipelineConstants DEF Inv, upload, bounds
<1>1. CASE BeginFlush(f)
  <2>1. PICK B \in SUBSET queue : nextBatch(B) /\ batch' = [batch EXCEPT ![f] = B]
    BY <1>1 DEF BeginFlush
  <2>2. Cardinality(B) <= MaxBatch /\ B \subseteq Ping
    BY <2>1 DEF nextBatch, PingTypeOK
  <2>3. \A g \in Flushes : batch'[g] = IF g = f THEN B ELSE batch[g]
    BY <2>1 DEF PingTypeOK
  <2>4. PingTypeOK'
    BY <1>1, <2>1, <2>2, <2>3 DEF BeginFlush, PingTypeOK, Stages
  <2>5. ToldTruth' /\ NothingLost'
    BY <1>1, <2>3 DEF BeginFlush, ToldTruth, NothingLost, PingTypeOK
  <2> QED
    BY <2>4, <2>5
<1>2. CASE EndFlush(f)
  <2>1. \A g \in Flushes : batch'[g] = IF g = f THEN {} ELSE batch[g]
    BY <1>2 DEF EndFlush, PingTypeOK
  <2>2. PingTypeOK'
    BY <1>2, <2>1, FS_EmptySet DEF EndFlush, PingTypeOK, Stages
  <2>3. ToldTruth' /\ NothingLost'
    BY <1>2, <2>1 DEF EndFlush, ToldTruth, NothingLost, PingTypeOK
  <2> QED
    BY <2>2, <2>3
<1>3. CASE GiveUp(f)
  <2>1. faults' \in 0..MaxFaults
    BY <1>3 DEF GiveUp, PingTypeOK
  <2>2. PingTypeOK'
    BY <1>3, <2>1 DEF GiveUp, PingTypeOK
  <2>3. ToldTruth' /\ NothingLost'
    BY <1>3 DEF GiveUp, ToldTruth, NothingLost
  <2> QED
    BY <2>2, <2>3
<1> QED
  BY <1>1, <1>2, <1>3

(* The server only says that pings are stored after it inserted them.      *)
LEMMA RequestInv ==
    ASSUME Inv, NEW f \in Flushes, CheckBatch(f) \/ InsertPings(f) \/ RequestFails(f)
    PROVE  Inv'
<1> USE PipelineConstants DEF Inv, upload, bounds
<1>1. PICK s \in {"checked", "refused", "stored"} :
          Settle(f, s) /\ (s = "stored" => stored' = stored \cup batch[f])
  BY DEF CheckBatch, InsertPings, RequestFails
<1>2. /\ UNCHANGED <<now, member, made, queue, waiting, job, moves, recorded>>
      /\ stored \subseteq stored' /\ stored' \subseteq Ping /\ table' \subseteq Ping
      /\ faults' \in 0..MaxFaults
  BY DEF CheckBatch, InsertPings, RequestFails, PingTypeOK
<1>3. /\ batch' \in [Flushes -> SUBSET Ping]
      /\ stage' \in [Flushes -> Stages]
      /\ \A g \in Flushes : batch'[g] \in {batch[g], {}}
      /\ \A g \in Flushes : g # f => batch'[g] = batch[g] /\ stage'[g] = stage[g]
      /\ stage'[f] = "stored" => s = "stored" /\ batch'[f] = batch[f]
  BY <1>1 DEF Settle, PingTypeOK, Stages
<1>4. PingTypeOK'
  <2>1. \A g \in Flushes : Cardinality(batch'[g]) <= MaxBatch
    <3> TAKE g \in Flushes
    <3>1. Cardinality(batch[g]) <= MaxBatch
      BY DEF PingTypeOK
    <3>2. Cardinality({}) <= MaxBatch
      BY FS_EmptySet
    <3> QED
      BY <1>3, <3>1, <3>2
  <2> QED
    BY <1>2, <1>3, <2>1 DEF PingTypeOK
<1>5. ToldTruth'
  BY <1>1, <1>2, <1>3 DEF ToldTruth
<1>6. NothingLost'
  BY <1>2 DEF NothingLost
<1> QED
  BY <1>4, <1>5, <1>6

(* The other steps touch neither the queue nor what the server said.       *)
OtherStep ==
    \/ Tick
    \/ PruneAllPingsBefore \/ PruneStalePings \/ deleteExpiredPings
    \/ \E c \in Circles : LeaveCircle(c) \/ JoinCircle(c)
    \/ UNCHANGED vars

LEMMA OtherInv == ASSUME Inv, OtherStep PROVE Inv'
<1> USE PipelineConstants DEF Inv
<1>1. UNCHANGED <<made, queue, batch, waiting, stage, recorded, stored>>
  BY DEF OtherStep, Tick, PruneAllPingsBefore, PruneStalePings,
         deleteExpiredPings, JobStep, LeaveCircle, JoinCircle, upload, vars
<1>2. /\ now' \in 0..MaxTime /\ moves' \in 0..MaxMoves /\ faults' = faults
      /\ member' \subseteq Circles
      /\ table' \subseteq table /\ job' \in Jobs
  BY DEF OtherStep, Tick, PruneAllPingsBefore, PruneStalePings,
         deleteExpiredPings, JobStep, LeaveCircle, JoinCircle, bounds, vars, PingTypeOK, Jobs
<1>3. PingTypeOK'
  BY <1>1, <1>2 DEF PingTypeOK
<1>4. ToldTruth' /\ NothingLost'
  BY <1>1 DEF ToldTruth, NothingLost
<1> QED
  BY <1>3, <1>4

(* Every step keeps the invariant.                                         *)
LEMMA NextInv == Inv /\ [Next]_vars => Inv'
<1> SUFFICES ASSUME Inv, [Next]_vars PROVE Inv'
  OBVIOUS
<1>1. CASE \E c \in Circles, t \in 0..MaxTime : Record(c, t)
  BY <1>1, RecordInv
<1>2. CASE \E f \in Flushes : BeginFlush(f) \/ EndFlush(f) \/ GiveUp(f)
  BY <1>2, FlushInv
<1>3. CASE \E f \in Flushes : CheckBatch(f) \/ InsertPings(f) \/ RequestFails(f)
  BY <1>3, RequestInv
<1>4. CASE OtherStep
  BY <1>4, OtherInv
<1> QED
  BY <1>1, <1>2, <1>3, <1>4 DEF Next, Phone, Server, OtherStep

(* The invariant holds throughout.                                         *)
LEMMA SpecInv == Spec => []Inv
  BY InitInv, NextInv, PTL DEF Spec

(* The pipeline's state keeps its types, and no batch exceeds the limit of *)
(* the queue's nextBatch and of handlePingBatch.                           *)
THEOREM PipelineTypeCorrect == Spec => []PingTypeOK
  BY SpecInv, PTL DEF Inv

(* No ping that record queued is lost on its way into the table.           *)
THEOREM NoPingIsLost == Spec => []NothingLost
  BY SpecInv, PTL DEF Inv

-----------------------------------------------------------------------------
(* The maps.  Pruning deletes superseded pings only, and the newest ping   *)
(* of a circle, which exists because time is counted in naturals, is not   *)
(* superseded: what stays is at least as new as what goes.                 *)

LEMMA NewestExists ==
    ASSUME table \subseteq Ping, NEW p \in table
    PROVE  \E q \in table : /\ q.circle = p.circle
                            /\ q.time >= p.time
                            /\ ~Superseded(q)
<1> DEFINE Same == {q \in table : q.circle = p.circle}
           Ages == {MaxTime - q.time : q \in Same}
           Less == OpToRel(<, Nat)
<1>1. Ages \subseteq Nat /\ Ages # {}
  BY PipelineConstants DEF Ping
<1>2. PICK a \in Ages : \A b \in Ages : ~(<<b, a>> \in Less)
  <2> HIDE DEF Ages, Less
  <2>1. IsWellFoundedOn(Less, Nat)
    BY NatLessThanWellFounded DEF Less
  <2> QED
    BY <1>1, <2>1, WFMin
<1>3. \A b \in Ages : ~(b < a)
  BY <1>1, <1>2 DEF OpToRel
<1>4. PICK q \in Same : a = MaxTime - q.time
  OBVIOUS
<1>5. ASSUME NEW r \in Same PROVE r.time <= q.time
  <2>1. ~(MaxTime - r.time < MaxTime - q.time)
    BY <1>3, <1>4
  <2>2. r.time \in 0..MaxTime /\ q.time \in 0..MaxTime
    BY DEF Ping
  <2> QED
    BY <2>1, <2>2, PipelineConstants
<1> QED
  BY <1>4, <1>5 DEF Superseded, Ping

(* A retention step that spares pings that are not superseded leaves each  *)
(* circle a ping at least as new as any it had.                            *)
LEMMA SparingKeepsNewest ==
    ASSUME table \subseteq Ping,
           \A q \in table : ~Superseded(q) => q \in table'
    PROVE  \A p \in table : \E q \in table' : q.circle = p.circle /\ q.time >= p.time
  BY NewestExists

(* Neither retries nor late batches nor retention make a circle's newest   *)
(* ping older, but for pings past the horizon.                             *)
THEOREM MapsNeverGoBack == Spec => MapNeverGoesBack
<1>1. ASSUME Inv, [Next]_vars
      PROVE  \A p \in table :
                 \/ PastHorizon(p)
                 \/ \E q \in table' : q.circle = p.circle /\ q.time >= p.time
  <2> USE <1>1
  <2>0. table \subseteq Ping
    BY DEF Inv, PingTypeOK
  <2>1. CASE table \subseteq table'
    BY <2>0, <2>1, PipelineConstants DEF Ping
  <2>2. CASE PruneAllPingsBefore
    BY <2>0, <2>2, PipelineConstants DEF PruneAllPingsBefore, JobStep, Ping
  <2>3. CASE PruneStalePings
    <3>1. \A q \in table : ~Superseded(q) => q \in table'
      BY <2>3 DEF PruneStalePings, JobStep, Stale
    <3> QED
      BY <2>0, <3>1, SparingKeepsNewest
  <2>4. CASE deleteExpiredPings
    <3>1. \A q \in table : ~Superseded(q) => q \in table'
      BY <2>4 DEF deleteExpiredPings, JobStep, ExpiredIn
    <3> QED
      BY <2>0, <3>1, SparingKeepsNewest
  <2>5. \/ table \subseteq table' \/ PruneAllPingsBefore \/ PruneStalePings
        \/ deleteExpiredPings
    BY DEF Next, Phone, Server, Record, BeginFlush, EndFlush, GiveUp,
           CheckBatch, InsertPings, RequestFails, LeaveCircle, JoinCircle, Tick, vars
  <2> QED
    BY <2>1, <2>2, <2>3, <2>4, <2>5
<1> QED
  BY <1>1, SpecInv, PTL DEF Spec, MapNeverGoesBack

=============================================================================
