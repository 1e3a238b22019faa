-------------------------- MODULE KeyRotationProofs --------------------------
(***************************************************************************)
(* A rotation locks former members out, whatever overlaps and whatever     *)
(* fails.  The invariant follows a key from the bump of the epoch to the   *)
(* envelope: whoever is a member has been one since every earlier bump, so *)
(* the recipients listed after the bump, and those stored later still, are *)
(* insiders of the key.  And no key is lost, but for the exceptions that   *)
(* NoKeyLost names: the second invariant says which keys may meet at one   *)
(* epoch, the third what a copy of the ring may lack.                      *)
(***************************************************************************)
EXTENDS KeyRotation, TLAPS

\* What the control state of a task x says about its fields, with g keys
\* generated and the insiders ins.
TaskInv(x, g, ins) ==
    /\ x.at # "idle" => x.dev \in Devices
    /\ x.at \in RotationStages => x.key \in 1..g
    /\ x.at \in JoinStages \cup {"adding", "added"} => x.key \in Keys
    /\ x.at \in {"clamped", "checked", "adding", "added"} => x.epoch \in Epochs
    /\ x.at \in {"listed", "clamped", "checked"} => x.to \subseteq ins[x.key]

TasksInv == \A t \in Tasks : TaskInv(task[t], gen, inside)

MembersAreInside ==
    /\ \A k \in 1..gen : members \subseteq inside[k]
    /\ \A k \in Keys : k > gen => inside[k] = {}

RotationInv ==
    /\ RotationTypeOK
    /\ epoch = gen
    /\ MembersAreInside
    /\ TasksInv
    /\ NewKeyStaysInside

USE RotationConstants DEF Keys, Epochs, NoEnvelope

LEMMA IdleType == Idle \in TaskType
  BY DEF Idle, Busy, TaskType

LEMMA BusyType ==
    ASSUME NEW s \in RotationStages \cup OpenStages \cup JoinStages, NEW d \in Devices,
           NEW k \in 0..MaxKeys, NEW todo \in SUBSET [epoch : Epochs, key : Keys]
    PROVE  Busy(s, d, k, todo) \in TaskType
  BY DEF Busy, TaskType

LEMMA RotationInit == Init => RotationInv
  <1> SUFFICES ASSUME Init PROVE RotationInv
    OBVIOUS
  <1>1. RotationTypeOK
    <2>1. ring \in [Devices -> Seq(Keys)]
      <3>1. <<1>> \in Seq(Keys) /\ <<>> \in Seq(Keys)
        OBVIOUS
      <3> QED BY <3>1 DEF Init
    <2>2. envs \in [Devices -> [Epochs -> 0..MaxKeys]]
      BY DEF Init, NoEnvelope
    <2>3. task \in [Tasks -> TaskType]
      BY IdleType DEF Init
    <2>4. inside \in [Keys -> SUBSET Devices]
      BY DEF Init
    <2>5. sent \in SUBSET (Devices \X Epochs \X Keys) /\ pruned \in SUBSET (Devices \X Keys)
      BY DEF Init
    <2>6. members \in SUBSET Devices /\ epoch \in Epochs /\ gen \in Keys
        /\ crossed \in SUBSET Keys /\ torn \in SUBSET (Devices \X Keys)
        /\ joins \in 0..MaxJoins /\ faults \in 0..MaxFaults
      BY DEF Init
    <2> QED BY <2>1, <2>2, <2>3, <2>4, <2>5, <2>6 DEF RotationTypeOK
  <1>2. TasksInv
    BY DEF Init, TasksInv, TaskInv, Idle, Busy, RotationStages, JoinStages
  <1> QED BY <1>1, <1>2 DEF Init, RotationInv, MembersAreInside, NewKeyStaysInside, NoEnvelope

\* A task is replaced by x, which has the right type and the right facts, while
\* keys and insiders only grow.
LEMMA TaskReplaced ==
    ASSUME RotationInv, NEW t \in Tasks, NEW x \in TaskType,
           task' = [task EXCEPT ![t] = x],
           gen' = gen \/ gen' = gen + 1,
           \A k \in 1..gen : inside[k] \subseteq inside'[k],
           TaskInv(x, gen', inside')
    PROVE  task' \in [Tasks -> TaskType] /\ TasksInv'
  <1>1. task' \in [Tasks -> TaskType]
    BY DEF RotationInv, RotationTypeOK
  <1>2. ASSUME NEW u \in Tasks, u # t PROVE TaskInv(task'[u], gen', inside')
    <2>1. task'[u] = task[u] /\ TaskInv(task[u], gen, inside)
      BY <1>2 DEF RotationInv, RotationTypeOK, TasksInv
    <2>2. gen \in Nat /\ gen' \in Nat
      BY DEF RotationInv, RotationTypeOK
    <2> QED BY <2>1, <2>2 DEF TaskInv, RotationStages
  <1>3. task'[t] = x
    BY DEF RotationInv, RotationTypeOK
  <1> QED BY <1>1, <1>2, <1>3 DEF TasksInv

LEMMA TaskFields ==
    ASSUME RotationInv, NEW t \in Tasks
    PROVE  /\ task[t] \in TaskType
           /\ TaskInv(task[t], gen, inside)
  BY DEF RotationInv, RotationTypeOK, TasksInv

LEMMA CountsKept ==
    ASSUME RotationInv, UNCHANGED counts
    PROVE  joins' = joins /\ faults' \in 0..MaxFaults
  BY DEF RotationInv, RotationTypeOK, counts

\* Steps that change nothing but a task.
LEMMA TaskStep ==
    ASSUME RotationInv, NEW t \in Tasks, NEW x \in TaskType,
           task' = [task EXCEPT ![t] = x],
           TaskInv(x, gen, inside),
           UNCHANGED <<server, ring, gen, joins, history>>, faults' \in 0..MaxFaults
    PROVE  RotationInv'
  <1>1. gen' = gen /\ inside' = inside
    BY DEF history
  <1>2. task' \in [Tasks -> TaskType] /\ TasksInv'
    BY <1>1, TaskReplaced
  <1> QED BY <1>2 DEF RotationInv, RotationTypeOK, MembersAreInside,
             NewKeyStaysInside, server, history

LEMMA ToIdle ==
    ASSUME RotationInv, NEW t \in Tasks, task' = [task EXCEPT ![t] = Idle],
           UNCHANGED <<server, ring, gen, joins, history>>, faults' \in 0..MaxFaults
    PROVE  RotationInv'
  BY TaskStep, IdleType DEF TaskInv, Idle, Busy, RotationStages, JoinStages

LEMMA BumpStep ==
    ASSUME RotationInv, NEW t \in Tasks, NEW d \in Devices, BumpEpoch(t, d)
    PROVE  RotationInv'
  <1> DEFINE x == Busy("bumped", d, gen + 1, {})
  <1>1. gen + 1 \in Keys /\ gen \in Keys /\ members \in SUBSET Devices
    BY DEF RotationInv, RotationTypeOK, BumpEpoch
  <1>2. x \in TaskType
    BY <1>1, BusyType DEF RotationStages
  <1>3. inside' \in [Keys -> SUBSET Devices]
    BY <1>1 DEF BumpEpoch, RotationInv, RotationTypeOK
  <1>4. \A k \in 1..gen : inside'[k] = inside[k]
    BY <1>1 DEF BumpEpoch, RotationInv, RotationTypeOK
  <1>5. inside'[gen + 1] = members
    BY <1>1 DEF BumpEpoch, RotationInv, RotationTypeOK
  <1>6. TaskInv(x, gen', inside')
    BY <1>1 DEF BumpEpoch, TaskInv, Idle, Busy, RotationStages, JoinStages
  <1>7. task' = [task EXCEPT ![t] = x] /\ gen' = gen + 1 /\ epoch' = epoch + 1
        /\ UNCHANGED <<members, envs, ring, joins, faults, sent, pruned, torn>>
        /\ crossed' \subseteq crossed \cup Keys
    BY DEF BumpEpoch, counts
  <1>8. task' \in [Tasks -> TaskType] /\ TasksInv'
    BY <1>2, <1>4, <1>6, <1>7, TaskReplaced
  <1>9. RotationTypeOK'
    BY <1>1, <1>3, <1>7, <1>8 DEF RotationInv, RotationTypeOK
  <1>10. MembersAreInside'
    <2>3. \A k \in Keys : k > gen + 1 => inside'[k] = {}
      <3>1. \A k \in Keys : k > gen + 1 => inside'[k] = inside[k]
        BY <1>1 DEF BumpEpoch, RotationInv, RotationTypeOK
      <3>2. \A k \in Keys : k > gen => inside[k] = {}
        BY DEF RotationInv, MembersAreInside
      <3> QED BY <1>1, <3>1, <3>2
    <2> SUFFICES ASSUME NEW k \in 1..(gen + 1) PROVE members \subseteq inside'[k]
      BY <1>7, <2>3 DEF MembersAreInside
    <2>1. CASE k = gen + 1
      BY <2>1, <1>5
    <2>2. CASE k \in 1..gen
      BY <2>2, <1>4 DEF RotationInv, MembersAreInside
    <2> QED BY <2>1, <2>2, <1>1
  <1>11. NewKeyStaysInside'
    <2> SUFFICES ASSUME NEW c \in Devices, NEW e \in Epochs, envs[c][e] # 0
                 PROVE  c \in inside'[envs[c][e]]
      BY <1>7 DEF NewKeyStaysInside
    <2>1. envs[c][e] \in Keys /\ c \in inside[envs[c][e]]
      BY DEF RotationInv, RotationTypeOK, NewKeyStaysInside
    <2>2. envs[c][e] \in 1..gen
      BY <2>1, <1>1 DEF RotationInv, MembersAreInside
    <2> QED BY <2>1, <2>2, <1>4
  <1> QED BY <1>7, <1>8, <1>9, <1>10, <1>11 DEF RotationInv

LEMMA ListStep ==
    ASSUME RotationInv, NEW t \in Tasks, ListDevices(t)
    PROVE  RotationInv'
  <1> DEFINE x == [task[t] EXCEPT !.at = "listed", !.to = members]
  <1>1. task[t] \in TaskType /\ TaskInv(task[t], gen, inside) /\ task[t].at = "saved"
    BY TaskFields DEF ListDevices
  <1>2. x \in TaskType
    BY <1>1 DEF TaskType, RotationStages, RotationInv, RotationTypeOK
  <1>3. task' = [task EXCEPT ![t] = x]
    BY DEF ListDevices, CircleDevices, RotationInv, RotationTypeOK, TaskType
  <1>4. x.at = "listed" /\ x.to = members /\ x.key = task[t].key /\ x.dev = task[t].dev
    BY <1>1 DEF TaskType
  <1>5. task[t].key \in 1..gen /\ task[t].dev \in Devices
    BY <1>1 DEF TaskInv, RotationStages
  <1>6. TaskInv(x, gen, inside)
    BY <1>4, <1>5 DEF TaskInv, RotationStages, JoinStages, RotationInv, MembersAreInside
  <1> QED BY <1>2, <1>3, <1>6, TaskStep, CountsKept DEF ListDevices

LEMMA ClampStep ==
    ASSUME RotationInv, NEW t \in Tasks, ClampEpoch(t)
    PROVE  RotationInv'
  <1> DEFINE x == [task[t] EXCEPT !.at = "clamped", !.epoch = epoch]
  <1>1. task[t] \in TaskType /\ TaskInv(task[t], gen, inside) /\ task[t].at = "listed" /\ epoch \in Epochs
    BY TaskFields DEF ClampEpoch, RotationInv, RotationTypeOK
  <1>2. x \in TaskType
    <2>1. epoch \in 0..MaxKeys
      BY <1>1
    <2> QED BY <1>1, <2>1 DEF TaskType, RotationStages
  <1>3. task' = [task EXCEPT ![t] = x]
    BY DEF ClampEpoch, RotationInv, RotationTypeOK, TaskType
  <1>4. x.at = "clamped" /\ x.to = task[t].to /\ x.key = task[t].key /\ x.dev = task[t].dev /\ x.epoch = epoch
    BY <1>1 DEF TaskType
  <1>5. TaskInv(x, gen, inside)
    BY <1>1, <1>4 DEF TaskInv, RotationStages, JoinStages
  <1> QED BY <1>2, <1>3, <1>5, TaskStep, CountsKept DEF ClampEpoch

LEMMA CheckStep ==
    ASSUME RotationInv, NEW t \in Tasks, CheckRecipients(t)
    PROVE  RotationInv'
  <1>1. CASE task' = [task EXCEPT ![t] = Idle]
    BY <1>1, ToIdle, CountsKept DEF CheckRecipients
  <1>2. CASE task' = [task EXCEPT ![t].at = "checked"]
    <2> DEFINE x == [task[t] EXCEPT !.at = "checked"]
    <2>1. task[t] \in TaskType /\ TaskInv(task[t], gen, inside) /\ task[t].at = "clamped"
      BY TaskFields DEF CheckRecipients
    <2>2. x \in TaskType
      BY <2>1 DEF TaskType, RotationStages
    <2>3. task' = [task EXCEPT ![t] = x]
      BY <1>2 DEF RotationInv, RotationTypeOK, TaskType
    <2>4. x.at = "checked" /\ x.to = task[t].to /\ x.key = task[t].key /\ x.dev = task[t].dev
          /\ x.epoch = task[t].epoch
      BY <2>1 DEF TaskType
    <2>5. TaskInv(x, gen, inside)
      BY <2>1, <2>4 DEF TaskInv, RotationStages, JoinStages
    <2> QED BY <2>2, <2>3, <2>5, TaskStep, CountsKept DEF CheckRecipients
  <1> QED BY <1>1, <1>2 DEF CheckRecipients

LEMMA StoreStep ==
    ASSUME RotationInv, NEW t \in Tasks, StoreEnvelopes(t)
    PROVE  RotationInv'
  <1> DEFINE to == task[t].to
             e == task[t].epoch
             k == task[t].key
  <1>1. to \subseteq Devices /\ e \in Epochs /\ k \in Keys /\ k \in 1..gen /\ to \subseteq inside[k]
    <2>1. task[t] \in TaskType /\ TaskInv(task[t], gen, inside) /\ task[t].at = "checked"
      BY TaskFields DEF StoreEnvelopes
    <2>2. k \in 1..gen /\ e \in Epochs /\ to \subseteq inside[k]
      BY <2>1 DEF TaskInv, RotationStages
    <2>3. to \subseteq Devices
      BY <2>1 DEF TaskType
    <2> QED BY <2>2, <2>3 DEF RotationInv, RotationTypeOK
  <1>2. task' \in [Tasks -> TaskType] /\ TasksInv'
    <2>1. TaskInv(Idle, gen', inside')
      BY DEF TaskInv, Idle, Busy, RotationStages, JoinStages
    <2> QED BY <2>1, IdleType, TaskReplaced DEF StoreEnvelopes
  <1>3. \A d \in Devices, f \in Epochs :
          envs'[d][f] = IF d \in to /\ f = e THEN k ELSE envs[d][f]
    BY <1>1 DEF StoreEnvelopes, RotationInv, RotationTypeOK
  <1>4. envs' \in [Devices -> [Epochs -> 0..MaxKeys]]
    <2>1. k \in 0..MaxKeys
      BY <1>1
    <2> QED BY <2>1 DEF StoreEnvelopes, RotationInv, RotationTypeOK
  <1>5. sent' \in SUBSET (Devices \X Epochs \X Keys)
    BY <1>1 DEF StoreEnvelopes, RotationInv, RotationTypeOK
  <1>6. UNCHANGED <<members, epoch, ring, gen, joins, faults, inside, pruned, crossed, torn>>
    BY DEF StoreEnvelopes, counts
  <1>7. NewKeyStaysInside'
    BY <1>1, <1>3, <1>6 DEF NewKeyStaysInside, RotationInv
  <1> QED BY <1>2, <1>4, <1>5, <1>6, <1>7 DEF RotationInv, RotationTypeOK, MembersAreInside

LEMMA PendingType ==
    ASSUME RotationInv, NEW d \in Devices
    PROVE  Pending(d) \in SUBSET [epoch : Epochs, key : Keys]
  <1> SUFFICES ASSUME NEW e \in Epochs, envs[d][e] # 0
               PROVE  [epoch |-> e, key |-> envs[d][e]] \in [epoch : Epochs, key : Keys]
    BY DEF Pending
  <1>1. envs[d][e] \in 0..MaxKeys /\ envs[d][e] # 0
    BY DEF RotationInv, RotationTypeOK
  <1> QED BY <1>1

LEMMA FetchStep ==
    ASSUME RotationInv, NEW t \in Tasks, NEW d \in Devices, FetchPending(t, d)
    PROVE  RotationInv'
  <1> DEFINE x == Busy("fetched", d, 0, Pending(d))
  <1>2. x \in TaskType
    BY PendingType, BusyType DEF OpenStages
  <1>3. TaskInv(x, gen, inside)
    BY DEF TaskInv, Busy, RotationStages, JoinStages
  <1> QED BY <1>2, <1>3, TaskStep, CountsKept DEF FetchPending

LEMMA LoadStep ==
    ASSUME RotationInv, NEW t \in Tasks, LoadRing(t)
    PROVE  RotationInv'
  <1>1. /\ task[t] \in TaskType /\ TaskInv(task[t], gen, inside)
        /\ task[t].at \in {"bumped", "joined", "fetched"}
    BY TaskFields DEF LoadRing
  <1>2. task[t].dev \in Devices /\ ring[task[t].dev] \in Seq(Keys)
    BY <1>1 DEF TaskInv, RotationInv, RotationTypeOK
  <1>3. ASSUME NEW s \in {"saving", "keying"},
               task' = [task EXCEPT ![t].at = s, ![t].snap = ring[task[t].dev]],
               s = "saving" => task[t].key \in 1..gen,
               s = "keying" => task[t].key \in Keys
        PROVE  RotationInv'
    <2> DEFINE x == [task[t] EXCEPT !.at = s, !.snap = ring[task[t].dev]]
    <2>1. x \in TaskType
      BY <1>1, <1>2 DEF TaskType, RotationStages, JoinStages
    <2>2. task' = [task EXCEPT ![t] = x]
      BY <1>3 DEF RotationInv, RotationTypeOK, TaskType
    <2>3. x.at = s /\ x.key = task[t].key /\ x.dev = task[t].dev
      BY <1>1 DEF TaskType
    <2>4. TaskInv(x, gen, inside)
      BY <1>2, <1>3, <2>3 DEF TaskInv, RotationStages, JoinStages
    <2> QED BY <2>1, <2>2, <2>4, TaskStep, CountsKept DEF LoadRing
  <1>4. CASE task[t].at = "bumped"
    BY <1>1, <1>3, <1>4 DEF LoadRing, TaskInv, RotationStages
  <1>5. CASE task[t].at = "joined"
    BY <1>1, <1>3, <1>5 DEF LoadRing, TaskInv, JoinStages
  <1>6. CASE task[t].at = "fetched"
    <2> PICK y \in NextToOpen(t) :
               task' = [task EXCEPT ![t].at = "adding", ![t].snap = ring[task[t].dev],
                                    ![t].key = y.key, ![t].epoch = y.epoch]
      BY <1>6 DEF LoadRing
    <2> DEFINE x == [task[t] EXCEPT !.at = "adding", !.snap = ring[task[t].dev],
                                    !.key = y.key, !.epoch = y.epoch]
    <2>1. y.key \in Keys /\ y.epoch \in Epochs
      BY <1>1 DEF NextToOpen, TaskType
    <2>2. x \in TaskType
      <3>1. y.key \in 0..MaxKeys /\ y.epoch \in 0..MaxKeys
        BY <2>1
      <3> QED BY <1>1, <1>2, <3>1 DEF TaskType, OpenStages
    <2>3. task' = [task EXCEPT ![t] = x]
      BY DEF RotationInv, RotationTypeOK, TaskType
    <2>4. x.at = "adding" /\ x.key = y.key /\ x.dev = task[t].dev /\ x.epoch = y.epoch
      BY <1>1 DEF TaskType
    <2>5. TaskInv(x, gen, inside)
      BY <1>2, <2>1, <2>4 DEF TaskInv, RotationStages, JoinStages
    <2> QED BY <2>2, <2>3, <2>5, TaskStep, CountsKept DEF LoadRing
  <1> QED BY <1>1, <1>4, <1>5, <1>6

LEMMA PutStep ==
    ASSUME RotationInv, NEW t \in Tasks, PutRing(t)
    PROVE  RotationInv'
  <1>1. /\ task[t] \in TaskType /\ TaskInv(task[t], gen, inside)
        /\ task[t].at \in {"saving", "keying", "adding"}
    BY TaskFields DEF PutRing
  <1>2. task[t].dev \in Devices /\ task[t].key \in Keys /\ task[t].snap \in Seq(Keys)
    <2>1. gen \in Keys
      BY DEF RotationInv, RotationTypeOK
    <2> QED BY <1>1, <2>1 DEF TaskInv, RotationStages, JoinStages, TaskType
  <1>3. ring' \in [Devices -> Seq(Keys)]
    <2>1. Append(task[t].snap, task[t].key) \in Seq(Keys)
      BY <1>2
    <2> QED BY <1>2, <2>1 DEF PutRing, RotationInv, RotationTypeOK
  <1>4. task' \in [Tasks -> TaskType] /\ TasksInv'
    <2>1. gen' = gen /\ inside' = inside
      BY DEF PutRing, history
    <2>2. CASE task[t].at = "keying"
      <3>1. TaskInv(Idle, gen', inside')
        BY DEF TaskInv, Idle, Busy, RotationStages, JoinStages
      <3> QED BY <2>1, <2>2, <3>1, IdleType, TaskReplaced DEF PutRing
    <2>3. ASSUME NEW s \in {"saved", "added"},
                 task' = [task EXCEPT ![t].at = s, ![t].snap = <<>>],
                 s = "saved" => task[t].at = "saving",
                 s = "added" => task[t].at = "adding"
          PROVE  task' \in [Tasks -> TaskType] /\ TasksInv'
      <3> DEFINE x == [task[t] EXCEPT !.at = s, !.snap = <<>>]
      <3>1. x \in TaskType
        <4>1. <<>> \in Seq(Keys)
          OBVIOUS
        <4> QED BY <1>1, <4>1 DEF TaskType, RotationStages, OpenStages
      <3>2. task' = [task EXCEPT ![t] = x]
        BY <2>3 DEF RotationInv, RotationTypeOK, TaskType
      <3>3. x.at = s /\ x.key = task[t].key /\ x.dev = task[t].dev /\ x.epoch = task[t].epoch
        BY <1>1 DEF TaskType
      <3>4. TaskInv(x, gen', inside')
        BY <1>1, <1>2, <2>1, <2>3, <3>3 DEF TaskInv, RotationStages, JoinStages
      <3> QED BY <2>1, <3>1, <3>2, <3>4, TaskReplaced
    <2> QED BY <1>1, <2>2, <2>3 DEF PutRing
  <1>5. UNCHANGED <<members, epoch, envs, gen, joins, faults, inside, sent, pruned, crossed>>
    BY DEF PutRing, server, counts
  <1>6. torn' \in SUBSET (Devices \X Keys)
    BY <1>2 DEF PutRing, RotationInv, RotationTypeOK
  <1> QED BY <1>3, <1>4, <1>5, <1>6 DEF RotationInv, RotationTypeOK, MembersAreInside,
             NewKeyStaysInside, server, history

LEMMA ConsumeStep ==
    ASSUME RotationInv, NEW t \in Tasks, ConsumeEnvelope(t)
    PROVE  RotationInv'
  <1> DEFINE d == task[t].dev
             f == task[t].epoch
             rest == {x \in task[t].todo : x.epoch # f}
  <1>1. task[t] \in TaskType /\ TaskInv(task[t], gen, inside) /\ task[t].at = "added"
    BY TaskFields DEF ConsumeEnvelope
  <1>2. d \in Devices /\ f \in Epochs /\ rest \in SUBSET [epoch : Epochs, key : Keys]
    BY <1>1 DEF TaskInv, TaskType
  <1>3. task' \in [Tasks -> TaskType] /\ TasksInv'
    <2> DEFINE x == IF rest = {} THEN Idle ELSE Busy("fetched", d, 0, rest)
    <2>1. Busy("fetched", d, 0, rest) \in TaskType
      BY <1>2, BusyType DEF OpenStages
    <2>2. x \in TaskType
      BY <2>1, IdleType
    <2>3. TaskInv(x, gen', inside')
      BY <1>2 DEF TaskInv, Idle, Busy, RotationStages, JoinStages
    <2>4. task' = [task EXCEPT ![t] = x] /\ gen' = gen /\ inside' = inside
      BY DEF ConsumeEnvelope, history
    <2> QED BY <2>2, <2>3, <2>4, TaskReplaced
  <1>4. UNCHANGED <<members, epoch, ring, gen, joins, faults, inside, sent, pruned, crossed, torn>>
    BY DEF ConsumeEnvelope, history, counts
  <1>5. \A c \in Devices, e \in Epochs :
          envs'[c][e] = IF c = d /\ e = f THEN 0 ELSE envs[c][e]
    BY <1>2 DEF ConsumeEnvelope, RotationInv, RotationTypeOK
  <1>6. envs' \in [Devices -> [Epochs -> 0..MaxKeys]]
    BY <1>2 DEF ConsumeEnvelope, RotationInv, RotationTypeOK
  <1>7. NewKeyStaysInside'
    BY <1>4, <1>5 DEF RotationInv, NewKeyStaysInside
  <1> QED BY <1>3, <1>4, <1>6, <1>7 DEF RotationInv, RotationTypeOK, MembersAreInside

LEMMA JoinStep ==
    ASSUME RotationInv, NEW t \in Tasks, NEW d \in Devices, Join(t, d)
    PROVE  RotationInv'
  <1> PICK m \in Devices : \E i \in 1..Len(ring[m]) :
             task' = [task EXCEPT ![t] = Busy("joined", d, ring[m][i], {})]
    BY DEF Join
  <1> PICK i \in 1..Len(ring[m]) : task' = [task EXCEPT ![t] = Busy("joined", d, ring[m][i], {})]
    OBVIOUS
  <1>1. ring[m][i] \in Keys
    <2>1. ring[m] \in Seq(Keys)
      BY DEF RotationInv, RotationTypeOK
    <2> QED BY <2>1
  <1>2. inside' = [k \in Keys |-> IF k <= gen THEN inside[k] \cup {d} ELSE inside[k]]
        /\ members' = members \cup {d} /\ UNCHANGED <<epoch, envs, ring, gen, faults, sent, pruned, crossed, torn>>
        /\ joins' \in 0..MaxJoins
    BY DEF Join, RotationInv, RotationTypeOK
  <1>3. \A k \in Keys : inside[k] \subseteq inside'[k]
    BY <1>2 DEF RotationInv, RotationTypeOK
  <1>4. task' \in [Tasks -> TaskType] /\ TasksInv'
    <2>1. Busy("joined", d, ring[m][i], {}) \in TaskType
      <3>1. ring[m][i] \in 0..MaxKeys
        BY <1>1
      <3> QED BY <3>1, BusyType DEF JoinStages
    <2>2. TaskInv(Busy("joined", d, ring[m][i], {}), gen', inside')
      BY <1>1 DEF TaskInv, Busy, RotationStages, JoinStages
    <2>3. 1..gen \subseteq Keys
      BY DEF RotationInv, RotationTypeOK
    <2> QED BY <1>2, <1>3, <2>1, <2>2, <2>3, TaskReplaced
  <1>5. RotationTypeOK'
    BY <1>2, <1>4 DEF RotationInv, RotationTypeOK
  <1>6. MembersAreInside'
    <2>1. gen \in Keys /\ inside \in [Keys -> SUBSET Devices] /\ MembersAreInside
      BY DEF RotationInv, RotationTypeOK
    <2>2. \A k \in 1..gen : inside'[k] = inside[k] \cup {d}
      BY <1>2, <2>1
    <2>3. \A k \in Keys : k > gen => inside'[k] = inside[k]
      BY <1>2, <2>1
    <2> QED BY <1>2, <2>1, <2>2, <2>3 DEF MembersAreInside
  <1>7. NewKeyStaysInside'
    <2>1. \A c \in Devices, e \in Epochs : envs[c][e] \in 0..MaxKeys
      <3>1. envs \in [Devices -> [Epochs -> 0..MaxKeys]]
        BY DEF RotationInv, RotationTypeOK
      <3> QED BY <3>1
    <2>2. \A c \in Devices, e \in Epochs : envs[c][e] # 0 => envs[c][e] \in Keys
      BY <2>1
    <2> QED BY <1>2, <1>3, <2>2 DEF RotationInv, NewKeyStaysInside
  <1> QED BY <1>2, <1>4, <1>5, <1>6, <1>7 DEF RotationInv

LEMMA RemoveStep ==
    ASSUME RotationInv, NEW d \in Devices, RemoveMember(d) \/ Forget(d)
    PROVE  RotationInv'
  <1>1. CASE RemoveMember(d)
    BY <1>1 DEF RemoveMember, RotationInv, RotationTypeOK, MembersAreInside,
           TasksInv, NewKeyStaysInside, history, counts
  <1>2. CASE Forget(d)
    <2>1. sent' \subseteq sent
      BY <1>2 DEF Forget
    <2>2. <<>> \in Seq(Keys)
      OBVIOUS
    <2>3. ring' \in [Devices -> Seq(Keys)]
      BY <1>2, <2>2 DEF Forget, RotationInv, RotationTypeOK
    <2>4. UNCHANGED <<members, epoch, envs, gen, task, joins, faults, inside, pruned, crossed, torn>>
      BY <1>2 DEF Forget, server, counts
    <2> QED BY <2>1, <2>3, <2>4 DEF RotationInv, RotationTypeOK, MembersAreInside,
               TasksInv, NewKeyStaysInside
  <1> QED BY <1>1, <1>2

LEMMA PruneStep ==
    ASSUME RotationInv, NEW d \in Devices, NEW e \in Epochs, Prune(d, e)
    PROVE  RotationInv'
  <1>1. \A c \in Devices, f \in Epochs :
          envs'[c][f] = IF c = d /\ f = e THEN NoEnvelope ELSE envs[c][f]
    BY DEF Prune, RotationInv, RotationTypeOK
  <1>2. envs' \in [Devices -> [Epochs -> 0..MaxKeys]]
    BY DEF Prune, RotationInv, RotationTypeOK, NoEnvelope
  <1>3. pruned' \in SUBSET (Devices \X Keys)
    <2>1. envs[d][e] \in Keys
      BY DEF Prune, RotationInv, RotationTypeOK
    <2> QED BY <2>1 DEF Prune, RotationInv, RotationTypeOK
  <1>4. UNCHANGED <<members, epoch, ring, gen, task, joins, inside, sent, crossed, torn>>
        /\ faults' \in 0..MaxFaults
    BY DEF Prune, RotationInv, RotationTypeOK
  <1>5. NewKeyStaysInside'
    BY <1>1, <1>4 DEF NewKeyStaysInside, RotationInv, NoEnvelope
  <1> QED BY <1>2, <1>3, <1>4, <1>5 DEF RotationInv, RotationTypeOK, MembersAreInside, TasksInv

LEMMA RotationStep == RotationInv /\ [Next]_vars => RotationInv'
  <1> SUFFICES ASSUME RotationInv, [Next]_vars PROVE RotationInv'
    OBVIOUS
  <1>1. CASE UNCHANGED vars
    BY <1>1 DEF vars, history, counts, RotationInv, RotationTypeOK, MembersAreInside,
           TasksInv, NewKeyStaysInside
  <1>2. ASSUME NEW t \in Tasks, TaskFails(t) PROVE RotationInv'
    <2>1. faults' \in 0..MaxFaults
      BY <1>2 DEF TaskFails, RotationInv, RotationTypeOK
    <2> QED BY <1>2, <2>1, ToIdle DEF TaskFails
  <1> QED BY <1>1, <1>2, BumpStep, ListStep, ClampStep, CheckStep, StoreStep, FetchStep, LoadStep,
             PutStep, ConsumeStep, JoinStep, RemoveStep, PruneStep DEF Next

LEMMA RotationInvHolds == Spec => []RotationInv
  BY RotationInit, RotationStep, PTL DEF Spec

\* The server's rows, the rings and the tasks of the clients keep their types, for
\* any number of devices, keys and overlapping activities.
THEOREM RotationTypeCorrect == Spec => []RotationTypeOK
  <1>1. RotationInv => RotationTypeOK
    BY DEF RotationInv
  <1> QED BY <1>1, RotationInvHolds, PTL

\* No envelope ever holds a key for a device whose user was not a member at any time
\* since the rotation that made the key, for any overlap and any failures.
THEOREM RotationLocksOut == Spec => []NewKeyStaysInside
  <1>1. RotationInv => NewKeyStaysInside
    BY DEF RotationInv
  <1> QED BY <1>1, RotationInvHolds, PTL

-----------------------------------------------------------------------------
(***************************************************************************)
(* No key is lost.  Rotations of different keys store under one epoch only *)
(* if they overlapped; an envelope whose key and epoch differ marks both   *)
(* as crossed.  What a ring loses by a write back from an older copy is    *)
(* torn.                                                                   *)
(***************************************************************************)
RotatingKeys == {task[t].key : t \in {u \in Tasks : Rotating(task[u])}}

\* Envelope of key k at epoch e, with g keys generated, the keys cr crossed and the
\* keys rk of rotations under way: the key's rotation is over.
Stored(k, e, g, cr, rk) ==
    /\ k <= g
    /\ k # e => k \in cr /\ e \in cr
    /\ k \notin rk

\* Task x while it rotates: later keys cross its own.
Behind(x, g, cr) ==
    Rotating(x) =>
      /\ \A j \in Keys : x.key < j /\ j <= g => j \in cr
      /\ x.key < g => x.key \in cr
      /\ x.at \in {"clamped", "checked"} => x.key <= x.epoch /\ x.epoch <= g

\* Envelopes that task x is opening.
Opening(x, g, cr, rk) ==
    /\ \A y \in x.todo : Stored(y.key, y.epoch, g, cr, rk)
    /\ x.at \in {"adding", "added"} => Stored(x.key, x.epoch, g, cr, rk)

KeysApart ==
    \A t, u \in Tasks : t # u /\ Rotating(task[t]) /\ Rotating(task[u]) => task[t].key # task[u].key

RowsStored ==
    \A d \in Devices, e \in Epochs :
        envs[d][e] # 0 => Stored(envs[d][e], e, gen, crossed, RotatingKeys)

EpochInv ==
    /\ KeysApart
    /\ \A t \in Tasks : Behind(task[t], gen, crossed)
    /\ \A t \in Tasks : Opening(task[t], gen, crossed, RotatingKeys)
    /\ RowsStored

\* The copy of the ring r that task x has loaded lacks nothing but what tn says.
CopyOf(x, r, tn) ==
    Loaded(x) => \A k \in Keys : InRing(r, k) => InRing(x.snap, k) \/ <<x.dev, k>> \in tn

CopiesCurrent == \A t \in Tasks : CopyOf(task[t], ring[task[t].dev], torn)

\* Key k of device d with the rings r is there, or one of the exceptions holds.
Safe(d, k, r, pr, cr, tn) ==
    InRing(r[d], k) \/ <<d, k>> \in pr \/ k \in cr \/ <<d, k>> \in tn

\* Task x is past the point where it would append its key.
Appended(x) == x.at = "added" \/ (x.at = "adding" /\ InRing(x.snap, x.key))

AppendedSafe ==
    \A t \in Tasks :
        /\ Appended(task[t])
        /\ <<task[t].dev, task[t].epoch, task[t].key>> \in sent
        => Safe(task[t].dev, task[t].key, ring, pruned, crossed, torn)

RingInv == CopiesCurrent /\ AppendedSafe /\ NoKeyLost

\* Keys and epochs of a state, as integers.
LEMMA Numbers ==
    ASSUME RotationInv
    PROVE  /\ gen \in Nat /\ gen >= 1 /\ gen <= MaxKeys /\ MaxKeys \in Nat /\ epoch = gen
           /\ \A t \in Tasks : /\ task[t].key \in Int /\ task[t].epoch \in Int
                               /\ \A y \in task[t].todo : y.key \in Nat /\ y.epoch \in Nat
           /\ \A t \in Tasks : Rotating(task[t]) => task[t].key \in 1..gen
           /\ \A d \in Devices, e \in Epochs : envs[d][e] \in Nat
  <1>1. \A t \in Tasks : task[t] \in TaskType /\ TaskInv(task[t], gen, inside)
    BY TaskFields
  <1>2. \A t \in Tasks : /\ task[t].key \in Int /\ task[t].epoch \in Int
                         /\ \A y \in task[t].todo : y.key \in Nat /\ y.epoch \in Nat
    BY <1>1 DEF TaskType
  <1>3. \A t \in Tasks : Rotating(task[t]) => task[t].key \in 1..gen
    BY <1>1 DEF TaskInv, Rotating
  <1>4. \A d \in Devices, e \in Epochs : envs[d][e] \in Nat
    BY DEF RotationInv, RotationTypeOK
  <1> QED BY <1>2, <1>3, <1>4 DEF RotationInv, RotationTypeOK

\* Envelopes stay stored, for the only keys that begin to rotate are new ones.
LEMMA StoredStays ==
    ASSUME NEW k \in Int, NEW e \in Int, NEW g \in Int, NEW h \in Int, g <= h,
           NEW cr, NEW ds, cr \subseteq ds, NEW rk, NEW sk,
           \A j \in sk : j \in rk \/ (j \in Int /\ j > g),
           Stored(k, e, g, cr, rk)
    PROVE  Stored(k, e, h, ds, sk)
  BY DEF Stored

\* Task t becomes x, which rotates only if t did, for the same key; no row is new.
LEMMA EpochsKept ==
    ASSUME RotationInv, EpochInv, NEW t \in Tasks, NEW x,
           task' = [task EXCEPT ![t] = x],
           gen' = gen, crossed' = crossed,
           \A d \in Devices, e \in Epochs : envs'[d][e] # 0 => envs'[d][e] = envs[d][e],
           Rotating(x) => Rotating(task[t]) /\ x.key = task[t].key,
           Behind(x, gen, crossed),
           \A y \in x.todo : y \in [epoch : Epochs, key : Keys] /\ Stored(y.key, y.epoch, gen, crossed, RotatingKeys),
           x.at \in {"adding", "added"} =>
             x.key \in Int /\ x.epoch \in Int /\ Stored(x.key, x.epoch, gen, crossed, RotatingKeys)
    PROVE  EpochInv'
  <1>1. \A u \in Tasks : task'[u] = IF u = t THEN x ELSE task[u]
    BY DEF RotationInv, RotationTypeOK
  <1>2. RotatingKeys' \subseteq RotatingKeys
    BY <1>1 DEF RotatingKeys
  <1>3. KeysApart'
    BY <1>1 DEF KeysApart, EpochInv
  <1>4. \A u \in Tasks : Behind(task'[u], gen', crossed')
    BY <1>1 DEF EpochInv
  <1>5. \A k, e \in Int : Stored(k, e, gen, crossed, RotatingKeys)
                            => Stored(k, e, gen', crossed', RotatingKeys')
    BY <1>2 DEF Stored
  <1>6. \A u \in Tasks : Opening(task'[u], gen', crossed', RotatingKeys')
    <2> SUFFICES ASSUME NEW u \in Tasks PROVE Opening(task'[u], gen', crossed', RotatingKeys')
      OBVIOUS
    <2>1. CASE u = t
      <3>1. \A y \in x.todo : y.key \in Int /\ y.epoch \in Int
        OBVIOUS
      <3> QED BY <2>1, <1>1, <1>5, <3>1 DEF Opening
    <2>2. CASE u # t
      <3>1. task'[u] = task[u] /\ Opening(task[u], gen, crossed, RotatingKeys)
        BY <2>2, <1>1 DEF EpochInv
      <3> QED BY <3>1, <1>5, Numbers DEF Opening
    <2> QED BY <2>1, <2>2
  <1>7. RowsStored'
    <2> SUFFICES ASSUME NEW d \in Devices, NEW e \in Epochs, envs'[d][e] # 0
                 PROVE  Stored(envs'[d][e], e, gen', crossed', RotatingKeys')
      BY DEF RowsStored
    <2>1. envs'[d][e] = envs[d][e] /\ Stored(envs[d][e], e, gen, crossed, RotatingKeys)
      BY DEF EpochInv, RowsStored
    <2> QED BY <2>1, <1>5, Numbers
  <1> QED BY <1>3, <1>4, <1>6, <1>7 DEF EpochInv

LEMMA EpochBump ==
    ASSUME RotationInv, EpochInv, NEW t \in Tasks, NEW d \in Devices, BumpEpoch(t, d)
    PROVE  EpochInv'
  <1> DEFINE x == Busy("bumped", d, gen + 1, {})
  <1>1. \A u \in Tasks : task'[u] = IF u = t THEN x ELSE task[u]
    BY DEF BumpEpoch, RotationInv, RotationTypeOK
  <1>2. gen' = gen + 1 /\ envs' = envs /\ gen + 1 \in Keys
    BY Numbers DEF BumpEpoch
  <1>3. \A u \in Tasks : Rotating(task[u]) => gen + 1 \in crossed' /\ task[u].key \in crossed'
    <2>1. \A u \in Tasks : Rotating(task[u]) => task[u].key \in Keys
      BY Numbers
    <2> QED BY <1>2, <2>1 DEF BumpEpoch
  <1>4. crossed \subseteq crossed'
    BY DEF BumpEpoch
  <1>5. x.key = gen + 1 /\ x.at = "bumped" /\ x.todo = {} /\ Rotating(x) /\ ~Rotating(task[t])
    BY DEF Busy, Rotating, RotationStages, BumpEpoch
  <1> HIDE DEF x
  <1>6. \A j \in RotatingKeys' : j \in RotatingKeys \/ (j \in Int /\ j > gen)
    BY <1>1, <1>2, <1>5, Numbers DEF RotatingKeys
  <1>7. KeysApart'
    <2>1. \A u \in Tasks : Rotating(task[u]) => task[u].key # gen + 1
      BY Numbers
    <2> QED BY <1>1, <1>5, <2>1 DEF KeysApart, EpochInv
  <1>8. \A u \in Tasks : Behind(task'[u], gen', crossed')
    <2> SUFFICES ASSUME NEW u \in Tasks PROVE Behind(task'[u], gen', crossed')
      OBVIOUS
    <2>1. CASE u = t
      BY <2>1, <1>1, <1>2, <1>5, Numbers DEF Behind
    <2>2. CASE u # t
      <3>1. task'[u] = task[u] /\ Behind(task[u], gen, crossed)
        BY <2>2, <1>1 DEF EpochInv
      <3> QED BY <3>1, <1>2, <1>3, <1>4, Numbers DEF Behind
    <2> QED BY <2>1, <2>2
  <1>9. \A k, e \in Int : Stored(k, e, gen, crossed, RotatingKeys)
                            => Stored(k, e, gen', crossed', RotatingKeys')
    <2>1. gen \in Int /\ gen' \in Int /\ gen <= gen'
      BY <1>2, Numbers
    <2> QED BY <2>1, <1>4, <1>6, StoredStays
  <1>10. \A u \in Tasks : Opening(task'[u], gen', crossed', RotatingKeys')
    <2> SUFFICES ASSUME NEW u \in Tasks PROVE Opening(task'[u], gen', crossed', RotatingKeys')
      OBVIOUS
    <2>1. CASE u = t
      BY <2>1, <1>1, <1>5 DEF Opening
    <2>2. CASE u # t
      <3>1. task'[u] = task[u] /\ Opening(task[u], gen, crossed, RotatingKeys)
        BY <2>2, <1>1 DEF EpochInv
      <3> QED BY <3>1, <1>9, Numbers DEF Opening
    <2> QED BY <2>1, <2>2
  <1>11. RowsStored'
    BY <1>2, <1>9, Numbers DEF EpochInv, RowsStored
  <1> QED BY <1>7, <1>8, <1>10, <1>11 DEF EpochInv

\* The transaction that stores the envelopes ends the rotation.
LEMMA EpochStore ==
    ASSUME RotationInv, EpochInv, NEW t \in Tasks, StoreEnvelopes(t)
    PROVE  EpochInv'
  <1> DEFINE k == task[t].key
             e == task[t].epoch
  <1>1. \A u \in Tasks : task'[u] = IF u = t THEN Idle ELSE task[u]
    BY DEF StoreEnvelopes, RotationInv, RotationTypeOK
  <1>2. gen' = gen /\ crossed' = crossed /\ task[t].at = "checked" /\ Rotating(task[t])
    BY DEF StoreEnvelopes, Rotating, RotationStages
  <1>3. ~Rotating(Idle) /\ Idle.todo = {} /\ Idle.at = "idle"
    BY DEF Idle, Busy, Rotating, RotationStages
  <1>4. RotatingKeys' \subseteq RotatingKeys /\ k \notin RotatingKeys'
    BY <1>1, <1>2, <1>3 DEF RotatingKeys, EpochInv, KeysApart
  <1>5. KeysApart'
    BY <1>1, <1>3 DEF EpochInv, KeysApart
  <1>6. \A u \in Tasks : Behind(task'[u], gen', crossed')
    BY <1>1, <1>2, <1>3 DEF EpochInv, Behind
  <1>7. \A j, f \in Int : Stored(j, f, gen, crossed, RotatingKeys)
                            => Stored(j, f, gen', crossed', RotatingKeys')
    BY <1>2, <1>4 DEF Stored
  <1>8. \A u \in Tasks : Opening(task'[u], gen', crossed', RotatingKeys')
    <2> SUFFICES ASSUME NEW u \in Tasks PROVE Opening(task'[u], gen', crossed', RotatingKeys')
      OBVIOUS
    <2>1. CASE u = t
      BY <2>1, <1>1, <1>3 DEF Opening
    <2>2. CASE u # t
      <3>1. task'[u] = task[u] /\ Opening(task[u], gen, crossed, RotatingKeys)
        BY <2>2, <1>1 DEF EpochInv
      <3> QED BY <3>1, <1>7, Numbers DEF Opening
    <2> QED BY <2>1, <2>2
  <1>9. e \in Epochs /\ Stored(k, e, gen', crossed', RotatingKeys')
    <2>1. Behind(task[t], gen, crossed) /\ k \in 1..gen
      BY <1>2, Numbers DEF EpochInv
    <2>2. k <= e /\ e <= gen
      BY <1>2, <2>1 DEF Behind
    <2>3. e \in Keys
      BY <2>1, <2>2, Numbers
    <2>4. k # e => k < e /\ k < gen
      BY <2>1, <2>2, <2>3, Numbers
    <2>5. k # e => k \in crossed /\ e \in crossed
      BY <1>2, <2>1, <2>2, <2>3, <2>4 DEF Behind
    <2> QED BY <1>2, <1>4, <2>1, <2>3, <2>5, Numbers DEF Stored
  <1>10. \A d \in Devices, f \in Epochs :
           envs'[d][f] = envs[d][f] \/ (f = e /\ envs'[d][f] = k)
    BY <1>9 DEF StoreEnvelopes, RotationInv, RotationTypeOK
  <1>11. RowsStored'
    <2> SUFFICES ASSUME NEW d \in Devices, NEW f \in Epochs, envs'[d][f] # 0
                 PROVE  Stored(envs'[d][f], f, gen', crossed', RotatingKeys')
      BY DEF RowsStored
    <2>1. CASE envs'[d][f] = envs[d][f]
      BY <2>1, <1>7, Numbers DEF EpochInv, RowsStored
    <2>2. CASE f = e /\ envs'[d][f] = k
      BY <2>2, <1>9
    <2> QED BY <2>1, <2>2, <1>10
  <1> QED BY <1>5, <1>6, <1>8, <1>11 DEF EpochInv

LEMMA EpochInit == Init => EpochInv
  BY DEF Init, EpochInv, KeysApart, RowsStored, Behind, Opening, Idle, Busy, Rotating,
         RotationStages

\* A task that no longer rotates, nor opens anything.
LEMMA EpochEnd ==
    ASSUME RotationInv, EpochInv, NEW t \in Tasks, task' = [task EXCEPT ![t] = Idle],
           UNCHANGED <<gen, crossed, envs>>
    PROVE  EpochInv'
  <1>1. ~Rotating(Idle) /\ Idle.todo = {} /\ Idle.at = "idle"
    BY DEF Idle, Busy, Rotating, RotationStages
  <1>2. Behind(Idle, gen, crossed)
    BY <1>1 DEF Behind
  <1> QED BY <1>1, <1>2, EpochsKept

\* A task that only moves on, with its key, its epoch and its envelopes.
LEMMA EpochMove ==
    ASSUME RotationInv, EpochInv, NEW t \in Tasks, NEW x,
           task' = [task EXCEPT ![t] = x],
           UNCHANGED <<gen, crossed, envs>>,
           x.key = task[t].key, x.todo = task[t].todo,
           Rotating(x) => Rotating(task[t]),
           x.at \in {"clamped", "checked"} => x.epoch = gen \/ (task[t].at = "clamped" /\ x.epoch = task[t].epoch),
           x.at \in {"adding", "added"} => task[t].at = "adding" /\ x.epoch = task[t].epoch
    PROVE  EpochInv'
  <1>1. Behind(task[t], gen, crossed) /\ Opening(task[t], gen, crossed, RotatingKeys)
    BY DEF EpochInv
  <1>2. Behind(x, gen, crossed)
    BY <1>1, Numbers DEF Behind
  <1>3. \A y \in x.todo : y \in [epoch : Epochs, key : Keys] /\ Stored(y.key, y.epoch, gen, crossed, RotatingKeys)
    BY <1>1, TaskFields DEF Opening, TaskType
  <1>4. x.at \in {"adding", "added"} =>
          x.key \in Int /\ x.epoch \in Int /\ Stored(x.key, x.epoch, gen, crossed, RotatingKeys)
    BY <1>1, Numbers DEF Opening
  <1> QED BY <1>2, <1>3, <1>4, EpochsKept

LEMMA EpochFetch ==
    ASSUME RotationInv, EpochInv, NEW t \in Tasks, NEW d \in Devices, FetchPending(t, d)
    PROVE  EpochInv'
  <1> DEFINE x == Busy("fetched", d, 0, Pending(d))
  <1>1. x.todo = Pending(d) /\ x.at = "fetched" /\ ~Rotating(x)
    BY DEF Busy, Rotating, RotationStages
  <1>2. task' = [task EXCEPT ![t] = x] /\ UNCHANGED <<gen, crossed, envs>>
    BY DEF FetchPending, server, history
  <1> HIDE DEF x
  <1>3. \A y \in Pending(d) : Stored(y.key, y.epoch, gen, crossed, RotatingKeys)
    BY DEF Pending, EpochInv, RowsStored
  <1>4. \A y \in Pending(d) : y \in [epoch : Epochs, key : Keys]
    BY PendingType
  <1> QED BY <1>1, <1>2, <1>3, <1>4, EpochsKept DEF Behind

LEMMA EpochLoad ==
    ASSUME RotationInv, EpochInv, NEW t \in Tasks, LoadRing(t)
    PROVE  EpochInv'
  <1>1. task[t] \in TaskType /\ task \in [Tasks -> TaskType] /\ UNCHANGED <<gen, crossed, envs>>
    BY TaskFields DEF LoadRing, server, history, RotationInv, RotationTypeOK
  <1>2. CASE task[t].at \in {"bumped", "joined"}
    <2> PICK s \in {"saving", "keying"} :
               /\ task' = [task EXCEPT ![t].at = s, ![t].snap = ring[task[t].dev]]
               /\ s = "saving" => task[t].at = "bumped"
      BY <1>2 DEF LoadRing
    <2> DEFINE x == [task[t] EXCEPT !.at = s, !.snap = ring[task[t].dev]]
    <2>1. task' = [task EXCEPT ![t] = x]
      BY <1>1 DEF TaskType
    <2>2. x.key = task[t].key /\ x.todo = task[t].todo /\ x.at = s
      BY <1>1 DEF TaskType
    <2>3. Rotating(x) => Rotating(task[t])
      BY <2>2 DEF Rotating, RotationStages
    <2> HIDE DEF x
    <2> QED BY <1>1, <2>1, <2>2, <2>3, EpochMove
  <1>3. CASE task[t].at = "fetched"
    <2> PICK y \in NextToOpen(t) :
               task' = [task EXCEPT ![t].at = "adding", ![t].snap = ring[task[t].dev],
                                    ![t].key = y.key, ![t].epoch = y.epoch]
      BY <1>3 DEF LoadRing
    <2> DEFINE x == [task[t] EXCEPT !.at = "adding", !.snap = ring[task[t].dev],
                                    !.key = y.key, !.epoch = y.epoch]
    <2>1. task' = [task EXCEPT ![t] = x]
      BY <1>1 DEF TaskType
    <2>2. x.key = y.key /\ x.epoch = y.epoch /\ x.todo = task[t].todo /\ x.at = "adding"
      BY <1>1 DEF TaskType
    <2>3. ~Rotating(x)
      BY <2>2 DEF Rotating, RotationStages
    <2> HIDE DEF x
    <2>4. y \in task[t].todo /\ task[t].todo \in SUBSET [epoch : Epochs, key : Keys]
      BY <1>1 DEF NextToOpen, TaskType
    <2>5. Opening(task[t], gen, crossed, RotatingKeys)
      BY DEF EpochInv
    <2>6. \A z \in x.todo : z \in [epoch : Epochs, key : Keys] /\ Stored(z.key, z.epoch, gen, crossed, RotatingKeys)
      BY <2>2, <2>4, <2>5 DEF Opening
    <2>7. x.key \in Int /\ x.epoch \in Int /\ Stored(x.key, x.epoch, gen, crossed, RotatingKeys)
      BY <2>2, <2>4, <2>5, Numbers DEF Opening
    <2>8. Behind(x, gen, crossed)
      BY <2>3 DEF Behind
    <2> QED BY <1>1, <2>1, <2>3, <2>6, <2>7, <2>8, EpochsKept
  <1> QED BY <1>2, <1>3 DEF LoadRing

LEMMA EpochPut ==
    ASSUME RotationInv, EpochInv, NEW t \in Tasks, PutRing(t)
    PROVE  EpochInv'
  <1>1. task[t] \in TaskType /\ task \in [Tasks -> TaskType] /\ UNCHANGED <<gen, crossed, envs>>
    BY TaskFields DEF PutRing, server, history, RotationInv, RotationTypeOK
  <1>2. CASE task' = [task EXCEPT ![t] = Idle]
    BY <1>1, <1>2, EpochEnd
  <1>3. ASSUME NEW s \in {"saved", "added"},
               task' = [task EXCEPT ![t].at = s, ![t].snap = <<>>],
               s = "saved" => task[t].at = "saving", s = "added" => task[t].at = "adding"
        PROVE  EpochInv'
    <2> DEFINE x == [task[t] EXCEPT !.at = s, !.snap = <<>>]
    <2>1. task' = [task EXCEPT ![t] = x]
      BY <1>1, <1>3 DEF TaskType
    <2>2. x.key = task[t].key /\ x.todo = task[t].todo /\ x.at = s /\ x.epoch = task[t].epoch
      BY <1>1 DEF TaskType
    <2>3. Rotating(x) => Rotating(task[t])
      BY <1>3, <2>2 DEF Rotating, RotationStages
    <2> HIDE DEF x
    <2> QED BY <1>1, <1>3, <2>1, <2>2, <2>3, EpochMove
  <1> QED BY <1>2, <1>3 DEF PutRing

LEMMA EpochConsume ==
    ASSUME RotationInv, EpochInv, NEW t \in Tasks, ConsumeEnvelope(t)
    PROVE  EpochInv'
  <1> DEFINE d == task[t].dev
             f == task[t].epoch
             rest == {x \in task[t].todo : x.epoch # f}
             x == IF rest = {} THEN Idle ELSE Busy("fetched", d, 0, rest)
  <1>1. task[t] \in TaskType /\ Opening(task[t], gen, crossed, RotatingKeys)
    BY TaskFields DEF EpochInv
  <1>2. task' = [task EXCEPT ![t] = x] /\ gen' = gen /\ crossed' = crossed
    BY DEF ConsumeEnvelope, history
  <1>3. ~Rotating(x) /\ x.at \in {"idle", "fetched"} /\ x.todo \subseteq task[t].todo
    BY DEF Idle, Busy, Rotating, RotationStages
  <1>4. \A c \in Devices, e \in Epochs : envs'[c][e] # 0 => envs'[c][e] = envs[c][e]
    BY DEF ConsumeEnvelope, RotationInv, RotationTypeOK
  <1> HIDE DEF x
  <1>5. \A y \in x.todo : y \in [epoch : Epochs, key : Keys] /\ Stored(y.key, y.epoch, gen, crossed, RotatingKeys)
    BY <1>1, <1>3 DEF Opening, TaskType
  <1>6. Behind(x, gen, crossed)
    BY <1>3 DEF Behind
  <1> QED BY <1>2, <1>3, <1>4, <1>5, <1>6, EpochsKept

LEMMA EpochJoin ==
    ASSUME RotationInv, EpochInv, NEW t \in Tasks, NEW d \in Devices, Join(t, d)
    PROVE  EpochInv'
  <1> PICK m \in Devices : \E i \in 1..Len(ring[m]) :
             task' = [task EXCEPT ![t] = Busy("joined", d, ring[m][i], {})]
    BY DEF Join
  <1> PICK i \in 1..Len(ring[m]) : task' = [task EXCEPT ![t] = Busy("joined", d, ring[m][i], {})]
    OBVIOUS
  <1> DEFINE x == Busy("joined", d, ring[m][i], {})
  <1>1. x.todo = {} /\ x.at = "joined" /\ ~Rotating(x)
    BY DEF Busy, Rotating, RotationStages
  <1>2. task' = [task EXCEPT ![t] = x] /\ UNCHANGED <<gen, crossed, envs>>
    BY DEF Join
  <1> HIDE DEF x
  <1> QED BY <1>1, <1>2, EpochsKept DEF Behind

LEMMA EpochStep == RotationInv /\ EpochInv /\ [Next]_vars => EpochInv'
  <1> SUFFICES ASSUME RotationInv, EpochInv, [Next]_vars PROVE EpochInv'
    OBVIOUS
  <1>1. CASE UNCHANGED vars
    BY <1>1 DEF vars, history, EpochInv, KeysApart, RowsStored, RotatingKeys
  <1>2. ASSUME NEW t \in Tasks, TaskFails(t) PROVE EpochInv'
    BY <1>2, EpochEnd DEF TaskFails, server, history
  <1>3. ASSUME NEW t \in Tasks, ListDevices(t) PROVE EpochInv'
    <2> DEFINE x == [task[t] EXCEPT !.at = "listed", !.to = CircleDevices]
    <2>1. task[t] \in TaskType /\ task[t].at = "saved" /\ UNCHANGED <<gen, crossed, envs>>
      BY <1>3, TaskFields DEF ListDevices, server, history
    <2>2. task' = [task EXCEPT ![t] = x]
      BY <1>3 DEF ListDevices, RotationInv, RotationTypeOK, TaskType
    <2>3. x.key = task[t].key /\ x.todo = task[t].todo /\ x.at = "listed"
      BY <2>1 DEF TaskType
    <2>4. Rotating(task[t])
      BY <2>1 DEF Rotating, RotationStages
    <2> HIDE DEF x
    <2> QED BY <2>1, <2>2, <2>3, <2>4, EpochMove
  <1>4. ASSUME NEW t \in Tasks, ClampEpoch(t) PROVE EpochInv'
    <2> DEFINE x == [task[t] EXCEPT !.at = "clamped", !.epoch = epoch]
    <2>1. task[t] \in TaskType /\ task[t].at = "listed" /\ UNCHANGED <<gen, crossed, envs>>
      BY <1>4, TaskFields DEF ClampEpoch, server, history
    <2>2. task' = [task EXCEPT ![t] = x]
      BY <1>4 DEF ClampEpoch, RotationInv, RotationTypeOK, TaskType
    <2>3. x.key = task[t].key /\ x.todo = task[t].todo /\ x.at = "clamped" /\ x.epoch = gen
      BY <2>1, Numbers DEF TaskType
    <2>4. Rotating(task[t])
      BY <2>1 DEF Rotating, RotationStages
    <2> HIDE DEF x
    <2> QED BY <2>1, <2>2, <2>3, <2>4, EpochMove
  <1>5. ASSUME NEW t \in Tasks, CheckRecipients(t) PROVE EpochInv'
    <2>1. task[t] \in TaskType /\ task[t].at = "clamped" /\ UNCHANGED <<gen, crossed, envs>>
      BY <1>5, TaskFields DEF CheckRecipients, server, history
    <2>2. CASE task' = [task EXCEPT ![t] = Idle]
      BY <2>1, <2>2, EpochEnd
    <2>3. CASE task' = [task EXCEPT ![t].at = "checked"]
      <3> DEFINE x == [task[t] EXCEPT !.at = "checked"]
      <3>1. task' = [task EXCEPT ![t] = x]
        BY <2>3 DEF RotationInv, RotationTypeOK, TaskType
      <3>2. x.key = task[t].key /\ x.todo = task[t].todo /\ x.at = "checked" /\ x.epoch = task[t].epoch
        BY <2>1 DEF TaskType
      <3>3. Rotating(task[t])
        BY <2>1 DEF Rotating, RotationStages
      <3> HIDE DEF x
      <3> QED BY <2>1, <3>1, <3>2, <3>3, EpochMove
    <2> QED BY <1>5, <2>2, <2>3 DEF CheckRecipients
  <1>6. ASSUME NEW d \in Devices, RemoveMember(d) \/ Forget(d) \/ \E e \in Epochs : Prune(d, e)
        PROVE EpochInv'
    <2>1. task' = task /\ gen' = gen /\ crossed' = crossed
      BY <1>6 DEF RemoveMember, Forget, Prune, history
    <2>2. \A c \in Devices, e \in Epochs : envs'[c][e] # 0 => envs'[c][e] = envs[c][e]
      <3>1. CASE RemoveMember(d) \/ Forget(d)
        BY <3>1 DEF RemoveMember, Forget, server
      <3>2. CASE \E e \in Epochs : Prune(d, e)
        BY <3>2 DEF Prune, RotationInv, RotationTypeOK
      <3> QED BY <1>6, <3>1, <3>2
    <2>3. RotatingKeys' = RotatingKeys
      BY <2>1 DEF RotatingKeys
    <2>4. RowsStored'
      BY <2>1, <2>2, <2>3 DEF EpochInv, RowsStored
    <2>5. KeysApart'
      BY <2>1 DEF EpochInv, KeysApart
    <2> QED BY <2>1, <2>3, <2>4, <2>5 DEF EpochInv
  <1> QED BY <1>1, <1>2, <1>3, <1>4, <1>5, <1>6, EpochBump, EpochStore, EpochFetch, EpochLoad,
             EpochPut, EpochConsume, EpochJoin DEF Next

\* The rings, the envelopes and what was sent stay; task t becomes x.
LEMMA RingsKept ==
    ASSUME RotationInv, RingInv, NEW t \in Tasks, NEW x,
           task' = [task EXCEPT ![t] = x],
           UNCHANGED <<ring, envs, sent, pruned, torn>>, crossed \subseteq crossed',
           CopyOf(x, ring[x.dev], torn),
           Appended(x) => \/ /\ Appended(task[t]) /\ x.dev = task[t].dev
                             /\ x.epoch = task[t].epoch /\ x.key = task[t].key
                          \/ Holds(x.dev, x.key)
    PROVE  RingInv'
  <1>1. \A u \in Tasks : task'[u] = IF u = t THEN x ELSE task[u]
    BY DEF RotationInv, RotationTypeOK
  <1>2. CopiesCurrent'
    BY <1>1 DEF RingInv, CopiesCurrent
  <1>3. AppendedSafe'
    <2> SUFFICES ASSUME NEW u \in Tasks, Appended(task'[u]),
                        <<task'[u].dev, task'[u].epoch, task'[u].key>> \in sent
                 PROVE  Safe(task'[u].dev, task'[u].key, ring', pruned', crossed', torn')
      BY DEF AppendedSafe
    <2>1. CASE u # t
      BY <2>1, <1>1 DEF RingInv, AppendedSafe, Safe
    <2>2. CASE u = t
      BY <2>2, <1>1 DEF RingInv, AppendedSafe, Safe, Holds
    <2> QED BY <2>1, <2>2
  <1>4. NoKeyLost'
    BY DEF RingInv, NoKeyLost, Holds
  <1> QED BY <1>2, <1>3, <1>4 DEF RingInv

LEMMA RingInit == Init => RingInv
  <1> SUFFICES ASSUME Init PROVE RingInv
    OBVIOUS
  <1>1. \A t \in Tasks : task[t].at = "idle"
    BY DEF Init, Idle, Busy
  <1>2. sent = {}
    BY DEF Init
  <1> QED BY <1>1, <1>2 DEF RingInv, CopiesCurrent, CopyOf, AppendedSafe, Appended, NoKeyLost, Loaded

\* Task t becomes one that holds no copy of a ring and has nothing appended.
LEMMA RingsIdle ==
    ASSUME RotationInv, RingInv, NEW t \in Tasks, NEW x,
           task' = [task EXCEPT ![t] = x],
           UNCHANGED <<ring, envs, sent, pruned, torn>>, crossed \subseteq crossed',
           x.at \notin {"saving", "keying", "adding", "added"}
    PROVE  RingInv'
  BY RingsKept DEF CopyOf, Loaded, Appended

LEMMA RingLoad ==
    ASSUME RotationInv, RingInv, NEW t \in Tasks, LoadRing(t)
    PROVE  RingInv'
  <1>1. task[t] \in TaskType /\ task \in [Tasks -> TaskType]
        /\ UNCHANGED <<ring, envs, sent, pruned, torn>> /\ crossed' = crossed
    BY TaskFields DEF LoadRing, server, history, RotationInv, RotationTypeOK
  <1>2. PICK x : /\ task' = [task EXCEPT ![t] = x]
                 /\ x.dev = task[t].dev /\ x.snap = ring[task[t].dev] /\ x.at # "added"
    <2>1. CASE \E s \in {"saving", "keying"} :
                  task' = [task EXCEPT ![t].at = s, ![t].snap = ring[task[t].dev]]
      <3> PICK s \in {"saving", "keying"} :
                 task' = [task EXCEPT ![t].at = s, ![t].snap = ring[task[t].dev]]
        BY <2>1
      <3> DEFINE x == [task[t] EXCEPT !.at = s, !.snap = ring[task[t].dev]]
      <3>1. task' = [task EXCEPT ![t] = x]
        BY <1>1 DEF TaskType
      <3>2. x.dev = task[t].dev /\ x.snap = ring[task[t].dev] /\ x.at # "added"
        BY <1>1 DEF TaskType
      <3> QED BY <3>1, <3>2
    <2>2. CASE \E y \in NextToOpen(t) :
                  task' = [task EXCEPT ![t].at = "adding", ![t].snap = ring[task[t].dev],
                                       ![t].key = y.key, ![t].epoch = y.epoch]
      <3> PICK y \in NextToOpen(t) :
                 task' = [task EXCEPT ![t].at = "adding", ![t].snap = ring[task[t].dev],
                                      ![t].key = y.key, ![t].epoch = y.epoch]
        BY <2>2
      <3> DEFINE x == [task[t] EXCEPT !.at = "adding", !.snap = ring[task[t].dev],
                                      !.key = y.key, !.epoch = y.epoch]
      <3>1. task' = [task EXCEPT ![t] = x]
        BY <1>1 DEF TaskType
      <3>2. x.dev = task[t].dev /\ x.snap = ring[task[t].dev] /\ x.at # "added"
        BY <1>1 DEF TaskType
      <3> QED BY <3>1, <3>2
    <2> QED BY <2>1, <2>2 DEF LoadRing
  <1>3. CopyOf(x, ring[x.dev], torn)
    BY <1>2 DEF CopyOf
  <1>4. Appended(x) => Holds(x.dev, x.key)
    BY <1>2 DEF Appended, Holds
  <1> QED BY <1>1, <1>2, <1>3, <1>4, RingsKept

\* What a task appends is in the ring afterwards; what the ring loses is torn.
LEMMA RingPut ==
    ASSUME RotationInv, RingInv, NEW t \in Tasks, PutRing(t)
    PROVE  RingInv'
  <1> DEFINE d == task[t].dev
             k == task[t].key
             snap == task[t].snap
  <1>1. /\ task[t] \in TaskType /\ task \in [Tasks -> TaskType] /\ Loaded(task[t])
        /\ ring \in [Devices -> Seq(Keys)] /\ TaskInv(task[t], gen, inside)
        /\ UNCHANGED <<envs, sent, pruned, crossed>>
    BY TaskFields DEF PutRing, server, history, RotationInv, RotationTypeOK, Loaded
  <1>2. d \in Devices /\ snap \in Seq(Keys) /\ k \in Keys
    <2>1. d \in Devices
      BY <1>1 DEF TaskInv, Loaded
    <2>2. k \in Keys
      <3>1. 1..gen \subseteq Keys
        BY Numbers
      <3> QED BY <1>1, <3>1 DEF TaskInv, Loaded, RotationStages, JoinStages
    <2> QED BY <1>1, <2>1, <2>2 DEF TaskType
  <1>3. PICK x : /\ task' = [task EXCEPT ![t] = x]
                 /\ ~Loaded(x)
                 /\ x.at = "added" => x.dev = d /\ x.key = k /\ x.epoch = task[t].epoch /\ task[t].at = "adding"
    <2>1. CASE task' = [task EXCEPT ![t] = Idle]
      <3>1. ~Loaded(Idle) /\ Idle.at # "added"
        BY DEF Idle, Busy, Loaded
      <3> QED BY <2>1, <3>1
    <2>2. ASSUME NEW s \in {"saved", "added"}, task' = [task EXCEPT ![t].at = s, ![t].snap = <<>>],
                 s = "added" => task[t].at = "adding"
          PROVE  \E x : /\ task' = [task EXCEPT ![t] = x]
                        /\ ~Loaded(x)
                        /\ x.at = "added" => x.dev = d /\ x.key = k /\ x.epoch = task[t].epoch /\ task[t].at = "adding"
      <3> DEFINE x == [task[t] EXCEPT !.at = s, !.snap = <<>>]
      <3>1. task' = [task EXCEPT ![t] = x]
        BY <1>1, <2>2 DEF TaskType
      <3>2. x.dev = d /\ x.key = k /\ x.epoch = task[t].epoch /\ x.at = s
        BY <1>1 DEF TaskType
      <3> HIDE DEF x
      <3> QED BY <2>2, <3>1, <3>2 DEF Loaded
    <2> QED BY <2>1, <2>2 DEF PutRing
  <1>4. \A u \in Tasks : task'[u] = IF u = t THEN x ELSE task[u]
    BY <1>1, <1>3
  <1>5. CASE InRing(snap, k) /\ UNCHANGED <<ring, torn>>
    <2>1. CopyOf(x, ring[x.dev], torn)
      BY <1>3 DEF CopyOf
    <2>2. Appended(x) => Appended(task[t]) /\ x.dev = task[t].dev
                           /\ x.epoch = task[t].epoch /\ x.key = task[t].key
      BY <1>3, <1>5 DEF Appended, Loaded
    <2> QED BY <1>1, <1>3, <1>5, <2>1, <2>2, RingsKept
  <1>6. CASE /\ ring' = [ring EXCEPT ![d] = Append(snap, k)]
             /\ torn' = torn \cup {<<d, l>> : l \in {j \in Keys :
                          /\ InRing(Append(snap, k), j)
                          /\ \E u \in Tasks \ {t} : /\ Loaded(task[u]) /\ task[u].dev = d
                                                   /\ ~InRing(task[u].snap, j)}}
    <2>1. \A j : InRing(Append(snap, k), j) <=> InRing(snap, j) \/ j = k
      BY <1>2 DEF InRing
    <2>2. torn \subseteq torn' /\ ring'[d] = Append(snap, k) /\ \A c \in Devices : c # d => ring'[c] = ring[c]
      BY <1>1, <1>2, <1>6
    <2>3. \A c \in Devices, j \in Keys : InRing(ring[c], j) => InRing(ring'[c], j) \/ <<c, j>> \in torn
      <3> SUFFICES ASSUME NEW c \in Devices, NEW j \in Keys, InRing(ring[c], j)
                   PROVE  InRing(ring'[c], j) \/ <<c, j>> \in torn
        OBVIOUS
      <3>1. CASE c # d
        BY <3>1, <2>2
      <3>2. CASE c = d
        <4>1. CopyOf(task[t], ring[d], torn)
          BY DEF RingInv, CopiesCurrent
        <4> QED BY <3>2, <4>1, <1>1, <2>1, <2>2 DEF CopyOf
      <3> QED BY <3>1, <3>2
    <2>4. CopiesCurrent'
      <3> SUFFICES ASSUME NEW u \in Tasks PROVE CopyOf(task'[u], ring'[task'[u].dev], torn')
        BY DEF CopiesCurrent
      <3>1. CASE u = t
        BY <3>1, <1>3, <1>4 DEF CopyOf
      <3>2. CASE u # t /\ task[u].dev # d
        <4>1. CopyOf(task[u], ring[task[u].dev], torn)
          BY DEF RingInv, CopiesCurrent
        <4>2. Loaded(task[u]) => task[u].dev \in Devices
          BY TaskFields DEF TaskInv, Loaded
        <4> QED BY <3>2, <4>1, <4>2, <1>4, <2>2 DEF CopyOf
      <3>3. CASE u # t /\ task[u].dev = d
        <4> SUFFICES ASSUME Loaded(task[u]), NEW j \in Keys, InRing(Append(snap, k), j),
                            ~InRing(task[u].snap, j)
                     PROVE  <<d, j>> \in torn'
          BY <3>3, <1>4, <2>2 DEF CopyOf
        <4> QED BY <3>3, <1>6
      <3> QED BY <3>1, <3>2, <3>3
    <2>5. \A c \in Devices, j \in Keys : Safe(c, j, ring, pruned, crossed, torn) => Safe(c, j, ring', pruned', crossed', torn')
      BY <1>1, <2>2, <2>3 DEF Safe
    <2>6. AppendedSafe'
      <3> SUFFICES ASSUME NEW u \in Tasks, Appended(task'[u]),
                          <<task'[u].dev, task'[u].epoch, task'[u].key>> \in sent
                   PROVE  Safe(task'[u].dev, task'[u].key, ring', pruned', crossed', torn')
        BY <1>1 DEF AppendedSafe
      <3>1. CASE u = t
        <4>1. task'[u].dev = d /\ task'[u].key = k
          BY <3>1, <1>3, <1>4 DEF Appended, Loaded
        <4>2. InRing(ring'[d], k)
          BY <2>1, <2>2
        <4> QED BY <4>1, <4>2 DEF Safe
      <3>2. CASE u # t
        <4>1. task'[u] = task[u] /\ Safe(task[u].dev, task[u].key, ring, pruned, crossed, torn)
          BY <3>2, <1>4 DEF RingInv, AppendedSafe
        <4>2. task[u].dev \in Devices /\ task[u].key \in Keys
          BY <3>2, <4>1, TaskFields DEF TaskInv, Appended
        <4> QED BY <4>1, <4>2, <2>5
      <3> QED BY <3>1, <3>2
    <2>7. NoKeyLost'
      <3> SUFFICES ASSUME NEW y \in sent
                   PROVE  Safe(y[1], y[3], ring', pruned', crossed', torn') \/ envs[y[1]][y[2]] = y[3]
        BY <1>1 DEF NoKeyLost, Safe, Holds
      <3>1. y[1] \in Devices /\ y[3] \in Keys
        BY DEF RotationInv, RotationTypeOK
      <3>2. Safe(y[1], y[3], ring, pruned, crossed, torn) \/ envs[y[1]][y[2]] = y[3]
        BY DEF RingInv, NoKeyLost, Safe, Holds
      <3> QED BY <3>1, <3>2, <2>5
    <2> QED BY <2>4, <2>6, <2>7 DEF RingInv
  <1> QED BY <1>5, <1>6 DEF PutRing

LEMMA RingStore ==
    ASSUME RotationInv, EpochInv, RingInv, NEW t \in Tasks, StoreEnvelopes(t)
    PROVE  RingInv'
  <1> DEFINE to == task[t].to
             e == task[t].epoch
             k == task[t].key
  <1>1. /\ task[t] \in TaskType /\ task[t].at = "checked" /\ Rotating(task[t])
        /\ UNCHANGED <<ring, pruned, torn, crossed, gen>> /\ task' = [task EXCEPT ![t] = Idle]
        /\ sent' = sent \cup {<<d, e, k>> : d \in to}
    BY TaskFields DEF StoreEnvelopes, Rotating, RotationStages
  <1>2. \A u \in Tasks : task'[u] = IF u = t THEN Idle ELSE task[u]
    BY <1>1 DEF RotationInv, RotationTypeOK
  <1>3. ~Loaded(Idle) /\ ~Appended(Idle)
    BY DEF Idle, Busy, Loaded, Appended
  <1>4. e \in Epochs /\ to \subseteq Devices
    BY <1>1, TaskFields DEF TaskInv, TaskType
  <1>5. \A d \in Devices, f \in Epochs :
          envs'[d][f] = IF d \in to /\ f = e THEN k ELSE envs[d][f]
    BY <1>4 DEF StoreEnvelopes, RotationInv, RotationTypeOK
  <1>6. CopiesCurrent'
    BY <1>1, <1>2, <1>3 DEF RingInv, CopiesCurrent, CopyOf
  <1>7. AppendedSafe'
    <2> SUFFICES ASSUME NEW u \in Tasks, Appended(task'[u]),
                        <<task'[u].dev, task'[u].epoch, task'[u].key>> \in sent'
                 PROVE  Safe(task'[u].dev, task'[u].key, ring', pruned', crossed', torn')
      BY DEF AppendedSafe
    <2>1. u # t /\ task'[u] = task[u]
      BY <1>2, <1>3
    <2>2. task[u].key # k
      <3>1. k \in RotatingKeys
        BY <1>1 DEF RotatingKeys
      <3>2. Stored(task[u].key, task[u].epoch, gen, crossed, RotatingKeys)
        BY <2>1 DEF EpochInv, Opening, Appended
      <3> QED BY <3>1, <3>2 DEF Stored
    <2>3. <<task[u].dev, task[u].epoch, task[u].key>> \in sent
      BY <1>1, <2>1, <2>2
    <2> QED BY <1>1, <2>1, <2>3 DEF RingInv, AppendedSafe
  <1>8. NoKeyLost'
    <2> SUFFICES ASSUME NEW y \in sent'
                 PROVE  Safe(y[1], y[3], ring, pruned, crossed, torn) \/ envs'[y[1]][y[2]] = y[3]
      BY <1>1 DEF NoKeyLost, Safe, Holds
    <2>1. CASE y \in {<<d, e, k>> : d \in to}
      BY <2>1, <1>4, <1>5
    <2>2. CASE y \in sent
      <3>1. y[1] \in Devices /\ y[2] \in Epochs /\ y[3] \in Keys
        BY <2>2 DEF RotationInv, RotationTypeOK
      <3>2. Safe(y[1], y[3], ring, pruned, crossed, torn) \/ envs[y[1]][y[2]] = y[3]
        BY <2>2 DEF RingInv, NoKeyLost, Safe, Holds
      <3>3. CASE envs[y[1]][y[2]] = y[3] /\ y[2] = e /\ y[3] # k
        <4>1. Stored(y[3], e, gen, crossed, RotatingKeys)
          BY <3>1, <3>3 DEF EpochInv, RowsStored
        <4>2. CASE y[3] # e
          BY <4>1, <4>2 DEF Stored, Safe
        <4>3. CASE y[3] = e
          <5>1. Behind(task[t], gen, crossed) /\ k \in 1..gen
            BY <1>1, Numbers DEF EpochInv
          <5>2. k <= e /\ e <= gen
            BY <1>1, <5>1 DEF Behind
          <5>3. k < e
            BY <3>3, <4>3, <5>1, <5>2, <1>4
          <5>4. e \in crossed
            BY <1>1, <1>4, <5>1, <5>2, <5>3 DEF Behind
          <5> QED BY <4>3, <5>4 DEF Safe
        <4> QED BY <4>2, <4>3
      <3> QED BY <3>1, <3>2, <3>3, <1>5
    <2> QED BY <2>1, <2>2, <1>1
  <1> QED BY <1>6, <1>7, <1>8 DEF RingInv

\* What is marked consumed was appended, or its rotation was crossed.
LEMMA RingConsume ==
    ASSUME RotationInv, EpochInv, RingInv, NEW t \in Tasks, ConsumeEnvelope(t)
    PROVE  RingInv'
  <1> DEFINE d == task[t].dev
             e == task[t].epoch
             k == task[t].key
             rest == {x \in task[t].todo : x.epoch # e}
             x == IF rest = {} THEN Idle ELSE Busy("fetched", d, 0, rest)
  <1>1. /\ task[t].at = "added" /\ d \in Devices /\ e \in Epochs
        /\ UNCHANGED <<ring, sent, pruned, torn, crossed>> /\ task' = [task EXCEPT ![t] = x]
    BY TaskFields DEF ConsumeEnvelope, history, TaskInv
  <1>2. ~Loaded(x) /\ ~Appended(x)
    BY DEF Idle, Busy, Loaded, Appended
  <1> HIDE DEF x
  <1>3. \A u \in Tasks : task'[u] = IF u = t THEN x ELSE task[u]
    BY <1>1 DEF RotationInv, RotationTypeOK
  <1>4. \A c \in Devices, f \in Epochs :
          envs'[c][f] = IF c = d /\ f = e THEN 0 ELSE envs[c][f]
    BY <1>1 DEF ConsumeEnvelope, RotationInv, RotationTypeOK
  <1>5. CopiesCurrent'
    BY <1>1, <1>2, <1>3 DEF RingInv, CopiesCurrent, CopyOf
  <1>6. AppendedSafe'
    BY <1>1, <1>2, <1>3 DEF RingInv, AppendedSafe
  <1>7. NoKeyLost'
    <2> SUFFICES ASSUME NEW y \in sent
                 PROVE  Safe(y[1], y[3], ring, pruned, crossed, torn) \/ envs'[y[1]][y[2]] = y[3]
      BY <1>1 DEF NoKeyLost, Safe, Holds
    <2>1. y[1] \in Devices /\ y[2] \in Epochs /\ y[3] \in Keys /\ y = <<y[1], y[2], y[3]>>
      BY DEF RotationInv, RotationTypeOK
    <2>2. Safe(y[1], y[3], ring, pruned, crossed, torn) \/ envs[y[1]][y[2]] = y[3]
      BY DEF RingInv, NoKeyLost, Safe, Holds
    <2>3. CASE envs[y[1]][y[2]] = y[3] /\ y[1] = d /\ y[2] = e
      <3>1. CASE y[3] = k
        <4>1. Appended(task[t])
          BY <1>1 DEF Appended
        <4>2. <<d, e, k>> \in sent
          BY <2>1, <2>3, <3>1
        <4> QED BY <2>3, <3>1, <4>1, <4>2 DEF RingInv, AppendedSafe
      <3>2. CASE y[3] # k
        <4>1. Stored(y[3], e, gen, crossed, RotatingKeys)
          BY <2>1, <2>3 DEF EpochInv, RowsStored
        <4>2. Stored(k, e, gen, crossed, RotatingKeys)
          BY <1>1 DEF EpochInv, Opening
        <4> QED BY <3>2, <4>1, <4>2 DEF Stored, Safe
      <3> QED BY <3>1, <3>2
    <2> QED BY <2>1, <2>2, <2>3, <1>4
  <1> QED BY <1>5, <1>6, <1>7 DEF RingInv

LEMMA RingForget ==
    ASSUME RotationInv, RingInv, NEW d \in Devices, Forget(d)
    PROVE  RingInv'
  <1>1. /\ UNCHANGED <<envs, task, pruned, torn, crossed>>
        /\ sent' = {x \in sent : x[1] # d}
        /\ \A c \in Devices : ring'[c] = IF c = d THEN <<>> ELSE ring[c]
    BY DEF Forget, server, RotationInv, RotationTypeOK
  <1>2. \A k : ~InRing(<<>>, k)
    BY DEF InRing
  <1>3. CopiesCurrent'
    <2> SUFFICES ASSUME NEW t \in Tasks, Loaded(task[t])
                 PROVE  CopyOf(task[t], ring'[task[t].dev], torn)
      BY <1>1 DEF CopiesCurrent, CopyOf
    <2>1. task[t].dev \in Devices
      BY TaskFields DEF TaskInv, Loaded
    <2>2. CopyOf(task[t], ring[task[t].dev], torn)
      BY DEF RingInv, CopiesCurrent
    <2> QED BY <1>1, <1>2, <2>1, <2>2 DEF CopyOf
  <1>4. AppendedSafe'
    <2> SUFFICES ASSUME NEW t \in Tasks, Appended(task[t]),
                        <<task[t].dev, task[t].epoch, task[t].key>> \in sent'
                 PROVE  Safe(task[t].dev, task[t].key, ring', pruned, crossed, torn)
      BY <1>1 DEF AppendedSafe
    <2>1. task[t].dev \in Devices /\ task[t].dev # d /\ <<task[t].dev, task[t].epoch, task[t].key>> \in sent
      BY <1>1, TaskFields DEF TaskInv, Appended
    <2> QED BY <1>1, <2>1 DEF RingInv, AppendedSafe, Safe
  <1>5. NoKeyLost'
    <2> SUFFICES ASSUME NEW y \in sent, y[1] # d
                 PROVE  Safe(y[1], y[3], ring', pruned, crossed, torn) \/ envs[y[1]][y[2]] = y[3]
      BY <1>1 DEF NoKeyLost, Safe, Holds
    <2>1. y[1] \in Devices
      BY DEF RotationInv, RotationTypeOK
    <2> QED BY <1>1, <2>1 DEF RingInv, NoKeyLost, Safe, Holds
  <1> QED BY <1>3, <1>4, <1>5 DEF RingInv

LEMMA RingPrune ==
    ASSUME RotationInv, RingInv, NEW d \in Devices, NEW e \in Epochs, Prune(d, e)
    PROVE  RingInv'
  <1>1. /\ UNCHANGED <<ring, task, sent, torn, crossed>>
        /\ pruned' = pruned \cup {<<d, envs[d][e]>>}
        /\ \A c \in Devices, f \in Epochs : envs'[c][f] = IF c = d /\ f = e THEN 0 ELSE envs[c][f]
    BY DEF Prune, RotationInv, RotationTypeOK
  <1>2. CopiesCurrent'
    BY <1>1 DEF RingInv, CopiesCurrent
  <1>3. AppendedSafe'
    BY <1>1 DEF RingInv, AppendedSafe, Safe
  <1>4. NoKeyLost'
    <2> SUFFICES ASSUME NEW y \in sent
                 PROVE  Safe(y[1], y[3], ring, pruned', crossed, torn) \/ envs'[y[1]][y[2]] = y[3]
      BY <1>1 DEF NoKeyLost, Safe, Holds
    <2>1. y[1] \in Devices /\ y[2] \in Epochs
      BY DEF RotationInv, RotationTypeOK
    <2> QED BY <1>1, <2>1 DEF RingInv, NoKeyLost, Safe, Holds
  <1> QED BY <1>2, <1>3, <1>4 DEF RingInv

LEMMA RingStep == RotationInv /\ EpochInv /\ RingInv /\ [Next]_vars => RingInv'
  <1> SUFFICES ASSUME RotationInv, EpochInv, RingInv, [Next]_vars PROVE RingInv'
    OBVIOUS
  <1>1. CASE UNCHANGED vars
    BY <1>1 DEF vars, history, RingInv, CopiesCurrent, AppendedSafe, NoKeyLost, Holds
  <1>2. ASSUME NEW t \in Tasks, TaskFails(t) PROVE RingInv'
    <2>1. Idle.at = "idle"
      BY DEF Idle, Busy
    <2> QED BY <1>2, <2>1, RingsIdle DEF TaskFails, server, history
  <1>3. ASSUME NEW t \in Tasks, NEW d \in Devices, BumpEpoch(t, d) PROVE RingInv'
    <2>1. Busy("bumped", d, gen + 1, {}).at = "bumped"
      BY DEF Busy
    <2> QED BY <1>3, <2>1, RingsIdle DEF BumpEpoch
  <1>4. ASSUME NEW t \in Tasks, NEW d \in Devices, FetchPending(t, d) PROVE RingInv'
    <2>1. Busy("fetched", d, 0, Pending(d)).at = "fetched"
      BY DEF Busy
    <2> QED BY <1>4, <2>1, RingsIdle DEF FetchPending, server, history
  <1>5. ASSUME NEW t \in Tasks, NEW d \in Devices, Join(t, d) PROVE RingInv'
    <2> PICK m \in Devices : \E i \in 1..Len(ring[m]) :
               task' = [task EXCEPT ![t] = Busy("joined", d, ring[m][i], {})]
      BY <1>5 DEF Join
    <2> PICK i \in 1..Len(ring[m]) : task' = [task EXCEPT ![t] = Busy("joined", d, ring[m][i], {})]
      OBVIOUS
    <2>1. Busy("joined", d, ring[m][i], {}).at = "joined"
      BY DEF Busy
    <2> QED BY <1>5, <2>1, RingsIdle DEF Join
  <1>6. ASSUME NEW t \in Tasks, ListDevices(t) PROVE RingInv'
    <2> DEFINE x == [task[t] EXCEPT !.at = "listed", !.to = CircleDevices]
    <2>1. task' = [task EXCEPT ![t] = x] /\ x.at = "listed"
      BY <1>6, TaskFields DEF ListDevices, RotationInv, RotationTypeOK, TaskType
    <2> HIDE DEF x
    <2> QED BY <1>6, <2>1, RingsIdle DEF ListDevices, server, history
  <1>7. ASSUME NEW t \in Tasks, ClampEpoch(t) PROVE RingInv'
    <2> DEFINE x == [task[t] EXCEPT !.at = "clamped", !.epoch = epoch]
    <2>1. task' = [task EXCEPT ![t] = x] /\ x.at = "clamped"
      BY <1>7, TaskFields DEF ClampEpoch, RotationInv, RotationTypeOK, TaskType
    <2> HIDE DEF x
    <2> QED BY <1>7, <2>1, RingsIdle DEF ClampEpoch, server, history
  <1>8. ASSUME NEW t \in Tasks, CheckRecipients(t) PROVE RingInv'
    <2>1. CASE task' = [task EXCEPT ![t] = Idle]
      <3>1. Idle.at = "idle"
        BY DEF Idle, Busy
      <3> QED BY <1>8, <2>1, <3>1, RingsIdle DEF CheckRecipients, server, history
    <2>2. CASE task' = [task EXCEPT ![t].at = "checked"]
      <3> DEFINE x == [task[t] EXCEPT !.at = "checked"]
      <3>1. task' = [task EXCEPT ![t] = x] /\ x.at = "checked"
        BY <2>2, TaskFields DEF RotationInv, RotationTypeOK, TaskType
      <3> HIDE DEF x
      <3> QED BY <1>8, <3>1, RingsIdle DEF CheckRecipients, server, history
    <2> QED BY <1>8, <2>1, <2>2 DEF CheckRecipients
  <1>9. ASSUME NEW d \in Devices, RemoveMember(d) PROVE RingInv'
    BY <1>9 DEF RemoveMember, history, RingInv, CopiesCurrent, AppendedSafe, NoKeyLost, Holds
  <1> QED BY <1>1, <1>2, <1>3, <1>4, <1>5, <1>6, <1>7, <1>8, <1>9, RingLoad, RingPut, RingStore,
             RingConsume, RingForget, RingPrune DEF Next

\* Every key sealed to a member's device is in its ring, or its envelope is still
\* pending, unless it was given up after 30 days, its rotation overlapped another
\* one, or two activities of the device wrote the ring at once: for any number of
\* devices, of owners' devices that rotate, of overlapping activities and failures.
THEOREM SealedKeysArrive == Spec => []NoKeyLost
  <1>1. Init => EpochInv /\ RingInv
    BY EpochInit, RingInit
  <1>2. RotationInv /\ EpochInv /\ RingInv /\ [Next]_vars => (EpochInv /\ RingInv)'
    BY EpochStep, RingStep
  <1>3. RingInv => NoKeyLost
    BY DEF RingInv
  <1> QED BY <1>1, <1>2, <1>3, RotationInvHolds, PTL DEF Spec
=============================================================================
