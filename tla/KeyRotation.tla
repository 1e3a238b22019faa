----------------------------- MODULE KeyRotation -----------------------------
(***************************************************************************)
(* Distribution and rotation of a circle's key: the clients' KeyManager    *)
(* and key ring (app/lib/src/data/key_manager.dart, key_vault.dart) against *)
(* the server's key envelopes (server/internal/httpapi/keyenvelopes.go).   *)
(*                                                                         *)
(* A device of the owner rotates the key by a sequence of awaited calls:   *)
(* bump the epoch on the server, append the fresh key to its own ring,     *)
(* list the devices of the members, and post one sealed envelope for each. *)
(* The server in turn reads the epoch, reads the devices and only then     *)
(* stores the envelopes, in one transaction.  A device fetches its pending *)
(* envelopes and, for each, appends the key to its ring and reports the    *)
(* envelope as consumed.  Appending is a read of the stored ring followed  *)
(* by a write.  Everything interleaves: nothing keeps two rotations, or two *)
(* activities of one device, apart (syncKeys runs at the start, after a    *)
(* join and on every event of the socket, without waiting).  Members leave *)
(* and join meanwhile, and any call may fail.                              *)
(*                                                                         *)
(* Keys are numbered in the order in which they are generated; 0 is none.  *)
(* Sealing is left out: an envelope is readable by its recipient only.     *)
(***************************************************************************)
EXTENDS Integers, Sequences

CONSTANTS
    Devices,       \* devices with an identity key
    OwnerDevices,  \* those of the circle's owner, who never leaves
    FirstMembers,  \* those that hold the circle's first key, by its creation or a link
    Tasks,         \* slots for activities of the clients
    NoDevice,      \* a value that is no device
    MaxKeys,       \* bound: keys generated
    MaxJoins,      \* bound: invites accepted
    MaxFaults      \* bound: activities that fail and envelopes given up

ASSUME RotationConstants ==
    /\ OwnerDevices \subseteq FirstMembers
    /\ FirstMembers \subseteq Devices
    /\ NoDevice \notin Devices
    /\ MaxKeys \in Nat \ {0}
    /\ MaxJoins \in Nat
    /\ MaxFaults \in Nat

VARIABLES
    members,  \* devices of the circle's members (devices JOIN circle_members)
    epoch,    \* circles.key_epoch
    envs,     \* key_envelopes: per device and epoch, the key that is pending, or 0:
              \* no row, or a consumed one, which nothing ever reads
    ring,     \* the circle's key ring in each device's vault, newest last
    gen,      \* keys generated so far
    task,     \* client activities in progress
    joins,    \* invites accepted so far
    faults,   \* activities that failed and envelopes given up so far
    inside,   \* history: devices of members at some time since a key's rotation
    sent,     \* history: triples <<device, epoch, key>> of envelopes stored
    pruned,   \* history: pairs <<device, key>> given up after 30 days
    crossed,  \* history: keys whose rotation overlapped another one
    torn      \* history: pairs <<device, key>>: the key was in the ring while another
              \* activity of the device held an older copy of the ring to write back

server == <<members, epoch, envs>>
history == <<inside, sent, pruned, crossed, torn>>
counts == <<joins, faults>>
vars == <<members, epoch, envs, ring, gen, task, counts, history>>

Keys == 1..MaxKeys
Epochs == 1..MaxKeys      \* the epoch is bumped once for every key after the first
NoEnvelope == 0

RotationStages == {"bumped", "saving", "saved", "listed", "clamped", "checked"}
OpenStages == {"fetched", "adding", "added"}
JoinStages == {"joined", "keying"}

TaskType ==
    [at : {"idle"} \cup RotationStages \cup OpenStages \cup JoinStages,
     dev : Devices \cup {NoDevice},
     key : 0..MaxKeys,                            \* the key at hand
     snap : Seq(Keys),                            \* the ring as it was loaded
     to : SUBSET Devices,                         \* recipients
     epoch : 0..MaxKeys,                          \* epoch of the envelopes
     todo : SUBSET [epoch : Epochs, key : Keys]]  \* envelopes still to open

\* A task of device d at stage s, with key k or envelopes todo at hand.
Busy(s, d, k, todo) ==
    [at |-> s, dev |-> d, key |-> k, snap |-> <<>>, to |-> {}, epoch |-> 0, todo |-> todo]

Idle == Busy("idle", NoDevice, 0, {})

RotationTypeOK ==
    /\ members \in SUBSET Devices
    /\ epoch \in Epochs
    /\ envs \in [Devices -> [Epochs -> 0..MaxKeys]]
    /\ ring \in [Devices -> Seq(Keys)]
    /\ gen \in Keys
    /\ task \in [Tasks -> TaskType]
    /\ joins \in 0..MaxJoins
    /\ faults \in 0..MaxFaults
    /\ inside \in [Keys -> SUBSET Devices]
    /\ sent \in SUBSET (Devices \X Epochs \X Keys)
    /\ pruned \in SUBSET (Devices \X Keys)
    /\ crossed \in SUBSET Keys
    /\ torn \in SUBSET (Devices \X Keys)

Init ==
    /\ members = FirstMembers
    /\ epoch = 1
    /\ envs = [d \in Devices |-> [e \in Epochs |-> NoEnvelope]]
    /\ ring = [d \in Devices |-> IF d \in FirstMembers THEN <<1>> ELSE <<>>]
    /\ gen = 1
    /\ task = [t \in Tasks |-> Idle]
    /\ joins = 0 /\ faults = 0
    /\ inside = [k \in Keys |-> IF k = 1 THEN FirstMembers ELSE {}]
    /\ sent = {}
    /\ pruned = {}
    /\ crossed = {}
    /\ torn = {}

InRing(r, k) == \E i \in 1..Len(r) : r[i] = k
Holds(d, k) == InRing(ring[d], k)

Rotating(x) == x.at \in RotationStages
Loaded(x) == x.at \in {"saving", "keying", "adding"}

-----------------------------------------------------------------------------
(***************************************************************************)
(* Rotation.                                                               *)
(***************************************************************************)

\* KeyManager.rotateKey on a device that holds a key: a fresh key, and the epoch
\* bumped on the server.
BumpEpoch(t, d) ==
    /\ task[t].at = "idle"
    /\ d \in OwnerDevices
    /\ ring[d] # <<>>
    /\ gen < MaxKeys
    /\ gen' = gen + 1
    /\ epoch' = epoch + 1
    /\ inside' = [inside EXCEPT ![gen + 1] = members]
    /\ crossed' = crossed \cup {k \in Keys :
                     \E u \in Tasks : Rotating(task[u]) /\ k \in {gen + 1, task[u].key}}
    /\ task' = [task EXCEPT ![t] = Busy("bumped", d, gen + 1, {})]
    /\ UNCHANGED <<members, envs, ring, counts, sent, pruned, torn>>

\* Faulty variant: the query does not join circle_members.
CircleDevicesUnjoined == Devices

\* ListCircleDevices.
CircleDevices == members

\* KeyManager.distributeKey: list the devices and post an envelope for each.
ListDevices(t) ==
    /\ task[t].at = "saved"
    /\ task' = [task EXCEPT ![t].at = "listed", ![t].to = CircleDevices]
    /\ UNCHANGED <<server, ring, gen, counts, history>>

\* handlePostKeyEnvelopes: key_epoch 0 becomes the circle's current epoch.
ClampEpoch(t) ==
    /\ task[t].at = "listed"
    /\ task' = [task EXCEPT ![t].at = "clamped", ![t].epoch = epoch]
    /\ UNCHANGED <<server, ring, gen, counts, history>>

\* handlePostKeyEnvelopes: validDevices.  One unknown recipient rejects them all.
CheckRecipients(t) ==
    /\ task[t].at = "clamped"
    /\ \/ /\ task[t].to \subseteq CircleDevices
          /\ task' = [task EXCEPT ![t].at = "checked"]
       \/ /\ ~(task[t].to \subseteq CircleDevices)
          /\ task' = [task EXCEPT ![t] = Idle]
    /\ UNCHANGED <<server, ring, gen, counts, history>>

\* Faulty variant: every envelope is stored under epoch 1.
StoreEnvelopesAtOne(t) ==
    LET to == task[t].to
        k == task[t].key IN
    /\ task[t].at = "checked"
    /\ envs' = [d \in Devices |->
                  IF d \in to THEN [envs[d] EXCEPT ![1] = k]
                              ELSE envs[d]]
    /\ sent' = sent \cup {<<d, 1, k>> : d \in to}
    /\ task' = [task EXCEPT ![t] = Idle]
    /\ UNCHANGED <<members, epoch, ring, gen, counts, inside, pruned, crossed, torn>>

\* handlePostKeyEnvelopes, the transaction: CreateKeyEnvelope inserts or replaces
\* the row of each recipient and epoch, and makes it pending again.
StoreEnvelopes(t) ==
    LET to == task[t].to
        e == task[t].epoch
        k == task[t].key IN
    /\ task[t].at = "checked"
    /\ envs' = [d \in Devices |->
                  IF d \in to THEN [envs[d] EXCEPT ![e] = k]
                              ELSE envs[d]]
    /\ sent' = sent \cup {<<d, e, k>> : d \in to}
    /\ task' = [task EXCEPT ![t] = Idle]
    /\ UNCHANGED <<members, epoch, ring, gen, counts, inside, pruned, crossed, torn>>

-----------------------------------------------------------------------------
(***************************************************************************)
(* Opening envelopes, and appending to the ring.                           *)
(***************************************************************************)

\* PendingEnvelopesForDevice, whatever the membership of the device.
Pending(d) == {[epoch |-> e, key |-> envs[d][e]] : e \in {f \in Epochs : envs[d][f] # NoEnvelope}}

\* KeyManager.openPendingEnvelopes: fetch and open.
FetchPending(t, d) ==
    /\ task[t].at = "idle"
    /\ Pending(d) # {}
    /\ task' = [task EXCEPT ![t] = Busy("fetched", d, 0, Pending(d))]
    /\ UNCHANGED <<server, ring, gen, counts, history>>

\* The envelope of the lowest epoch among those still to open.
NextToOpen(t) == {x \in task[t].todo : \A y \in task[t].todo : x.epoch <= y.epoch}

\* KeyVault.addCircleKey, first half: the stored ring is loaded.
LoadRing(t) ==
    LET loaded(stage) == [task EXCEPT ![t].at = stage, ![t].snap = ring[task[t].dev]] IN
    /\ \/ task[t].at = "bumped" /\ task' = loaded("saving")
       \/ task[t].at = "joined" /\ task' = loaded("keying")
       \/ /\ task[t].at = "fetched"
          /\ \E x \in NextToOpen(t) :
               task' = [task EXCEPT ![t].at = "adding", ![t].snap = ring[task[t].dev],
                                    ![t].key = x.key, ![t].epoch = x.epoch]
    /\ UNCHANGED <<server, ring, gen, counts, history>>

\* KeyVault.addCircleKey, second half: the key is appended to what was loaded and
\* the whole ring is written, unless the key was in it.
PutRing(t) ==
    LET d == task[t].dev
        snap == task[t].snap
        put(stage) == [task EXCEPT ![t].at = stage, ![t].snap = <<>>] IN
    /\ \/ task[t].at = "saving" /\ task' = put("saved")
       \/ task[t].at = "keying" /\ task' = [task EXCEPT ![t] = Idle]
       \/ task[t].at = "adding" /\ task' = put("added")
    /\ \/ /\ ~InRing(snap, task[t].key)
          /\ ring' = [ring EXCEPT ![d] = Append(snap, task[t].key)]
          /\ torn' = torn \cup {<<d, k>> : k \in {j \in Keys :
                       /\ InRing(Append(snap, task[t].key), j)
                       /\ \E u \in Tasks \ {t} : /\ Loaded(task[u]) /\ task[u].dev = d
                                                /\ ~InRing(task[u].snap, j)}}
       \/ /\ InRing(snap, task[t].key)
          /\ UNCHANGED <<ring, torn>>
    /\ UNCHANGED <<server, gen, counts, inside, sent, pruned, crossed>>

\* MarkEnvelopeConsumed, by id: an envelope that was replaced meanwhile has kept
\* its id and is marked as well.
ConsumeEnvelope(t) ==
    LET d == task[t].dev
        rest == {x \in task[t].todo : x.epoch # task[t].epoch} IN
    /\ task[t].at = "added"
    /\ envs' = [envs EXCEPT ![d][task[t].epoch] = NoEnvelope]
    /\ task' = [task EXCEPT ![t] = IF rest = {} THEN Idle ELSE Busy("fetched", d, 0, rest)]
    /\ UNCHANGED <<members, epoch, ring, gen, counts, history>>

\* A call of the task fails, or its app is killed: the rest of it is not done.
TaskFails(t) ==
    /\ faults < MaxFaults
    /\ task[t].at # "idle"
    /\ task' = [task EXCEPT ![t] = Idle]
    /\ faults' = faults + 1
    /\ UNCHANGED <<server, ring, gen, joins, history>>

-----------------------------------------------------------------------------
(***************************************************************************)
(* Members come and go.                                                    *)
(***************************************************************************)

\* joinByLink: the invite is accepted, by a member as well, and the link's fragment,
\* a key that was the newest on some device when the link was made, goes into the
\* ring.  The syncKeys at its end is FetchPending.
Join(t, d) ==
    /\ task[t].at = "idle"
    /\ joins < MaxJoins
    /\ joins' = joins + 1
    /\ members' = members \cup {d}
    /\ inside' = [k \in Keys |-> IF k <= gen THEN inside[k] \cup {d} ELSE inside[k]]
    /\ \E m \in Devices : \E i \in 1..Len(ring[m]) :
         task' = [task EXCEPT ![t] = Busy("joined", d, ring[m][i], {})]
    /\ UNCHANGED <<epoch, envs, ring, gen, faults, sent, pruned, crossed, torn>>

\* handleRemoveMember, handleLeaveCircle: the envelopes stay.
RemoveMember(d) ==
    /\ d \in members \ OwnerDevices
    /\ members' = members \ {d}
    /\ UNCHANGED <<epoch, envs, ring, gen, task, counts, history>>

\* A device that has left drops the circle's ring (KeyVault.removeCircleKey); what
\* it was sent for its former membership is no longer owed to it.
Forget(d) ==
    /\ d \notin members
    /\ ring[d] # <<>>
    /\ ring' = [ring EXCEPT ![d] = <<>>]
    /\ sent' = {x \in sent : x[1] # d}
    /\ UNCHANGED <<server, gen, task, counts, inside, pruned, crossed, torn>>

\* PruneKeyEnvelopes deletes rows consumed 7 days ago, which shows nowhere, and
\* unconsumed ones after 30 days.  No client is still busy with a row as old as that.
Prune(d, e) ==
    /\ faults < MaxFaults
    /\ envs[d][e] # NoEnvelope
    /\ \A t \in Tasks : task[t].dev = d => \A x \in task[t].todo : x.epoch # e
    /\ envs' = [envs EXCEPT ![d][e] = NoEnvelope]
    /\ pruned' = pruned \cup {<<d, envs[d][e]>>}
    /\ faults' = faults + 1
    /\ UNCHANGED <<members, epoch, ring, gen, task, joins, inside, sent, crossed, torn>>

-----------------------------------------------------------------------------
Next ==
    \/ \E t \in Tasks :
         \/ \E d \in Devices : BumpEpoch(t, d) \/ FetchPending(t, d) \/ Join(t, d)
         \/ ListDevices(t) \/ ClampEpoch(t) \/ CheckRecipients(t) \/ StoreEnvelopes(t)
         \/ LoadRing(t) \/ PutRing(t) \/ ConsumeEnvelope(t) \/ TaskFails(t)
    \/ \E d \in Devices : \/ RemoveMember(d) \/ Forget(d)
                          \/ \E e \in Epochs : Prune(d, e)

Spec == Init /\ [][Next]_vars

-----------------------------------------------------------------------------
\* A rotation locks former members out: the server never holds an envelope with a
\* key for a device whose user has not been a member at any time since the
\* epoch was bumped for that key (rotateKey lists the devices after the bump, and
\* handlePostKeyEnvelopes checks them again).
NewKeyStaysInside ==
    \A d \in Devices, e \in Epochs :
        envs[d][e] # NoEnvelope => d \in inside[envs[d][e]]

\* Every key ever sealed to a member's device is in its ring or still to be
\* fetched, through any number of rotations while it was away and any failures
\* (key_manager.dart, rotateKey: "a device offline across several rotations catches
\* up on every intermediate key"), with three exceptions: the 30 days have passed;
\* the key's rotation overlapped another one, so that both may be stored under one
\* epoch (keyenvelopes.go:142) and one envelope replaces, or is consumed for, the
\* other; or two activities of the device wrote the ring at once, each back from
\* its own copy (addCircleKey has no lock), and the key was the other one's.
NoKeyLost ==
    \A x \in sent :
        \/ Holds(x[1], x[3])
        \/ envs[x[1]][x[2]] = x[3]
        \/ <<x[1], x[3]>> \in pruned
        \/ x[3] \in crossed
        \/ <<x[1], x[3]>> \in torn

SentTo(d) == {x[3] : x \in {y \in sent : y[1] = d}}
Settled(d) == /\ Pending(d) = {}
              /\ \A t \in Tasks : task[t].dev # d
              /\ \A k \in SentTo(d) : <<d, k>> \notin pruned
SealingKey(d) == ring[d][Len(ring[d])]

\* A device that has opened everything sealed to it seals with a key no older than
\* any of those (key_manager.dart, openPendingEnvelopes: "so the highest-epoch key
\* ends up newest (the sealing key) even if the server returns envelopes out of
\* order").  The sort orders the envelopes of one fetch; a key that was in the ring
\* already, by a rotation of this device or a second join, stays where it is.
CatchesUpInOrder ==
    \A d \in Devices :
        Settled(d) => \A k \in SentTo(d) : Len(ring[d]) > 0 /\ SealingKey(d) >= k
=============================================================================
