----------------------------- MODULE PingPipeline -----------------------------
(***************************************************************************)
(* A phone's positions on their way to the circles' maps: the offline      *)
(* queue (app/lib/src/tracking/reporter.dart, data/db/queue_db.dart), the  *)
(* batch upload (server/internal/httpapi/pings.go) and the retention job   *)
(* (server/internal/retention/retention.go) over the table of pings.       *)
(*                                                                         *)
(* Every accepted fix ends in a flushAll, and the calls overlap: several   *)
(* flushes read the queue, post and delete at once.  A flush gives up when *)
(* its request or the answer is lost, when it times out or when the        *)
(* service is killed; the server may be at work on the request all the     *)
(* same.  The queue survives, and the next flush takes the oldest pings    *)
(* again, so every ping is sent at least once.                             *)
(*                                                                         *)
(* A ping is one sealed fix for one circle.  Its id stands for the client  *)
(* id, its time for captured_at; phone and server read the same clock.     *)
(***************************************************************************)
EXTENDS Integers, FiniteSets

CONSTANTS
    Circles,    \* circles of the user
    Flushes,    \* slots for flushes under way
    MaxBatch,   \* pings in a batch
    MaxDelay,   \* bound: time from a fix to its place in the queue
    Window,     \* MaxRetentionDays
    Keep,       \* PingRetentionHours
    Retention,  \* retention_days of each circle
    MaxTime,    \* bound: the clock
    MaxPings,   \* bound: pings recorded
    MaxFaults,  \* bound: flushes given up and requests failed
    MaxMoves    \* bound: memberships lost and regained

ASSUME PipelineConstants ==
    /\ MaxBatch \in Nat \ {0}
    /\ MaxDelay \in Nat
    /\ Window \in Nat
    /\ Keep \in Nat
    /\ Retention \in [Circles -> Nat]
    /\ MaxTime \in Nat
    /\ MaxPings \in Nat
    /\ MaxFaults \in Nat
    /\ MaxMoves \in Nat

VARIABLES
    now,      \* the clock
    member,   \* circles the user is a member of
    made,     \* pings recorded so far
    queue,    \* the rows of queued_pings
    batch,    \* the pings a flush took
    waiting,  \* flushes that wait for their answer
    stage,    \* how far the server has come with a flush's request
    table,    \* the rows of pings
    job,      \* the next step of the retention job
    faults,   \* faults so far
    moves,    \* membership changes so far
    recorded, \* history: every ping recorded
    stored    \* history: every ping ever inserted

upload == <<batch, waiting, stage>>
bounds == <<faults, moves>>
vars == <<now, member, made, queue, upload, table, job, bounds,
          recorded, stored>>

Ping == [id : 1..MaxPings, circle : Circles, time : 0..MaxTime]
Stages == {"none", "sent", "checked", "stored", "refused"}
Jobs == {"horizon", "stale", "circles"}

\* A service that was just started, with nothing to send.
Init ==
    /\ now = 0
    /\ member = Circles
    /\ made = 0
    /\ queue = {}
    /\ batch = [f \in Flushes |-> {}]
    /\ waiting = {}
    /\ stage = [f \in Flushes |-> "none"]
    /\ table = {}
    /\ job = "horizon"
    /\ faults = 0
    /\ moves = 0
    /\ recorded = {}
    /\ stored = {}

-----------------------------------------------------------------------------
(* The phone.                                                              *)

\* record: one target's sealed blob of a fix enters the queue.  The enqueues of
\* overlapping calls mix, so an older fix may come after a newer one.  The targets
\* are the circles the app knew of when it last saved them, less the paused ones:
\* any of the circles, whether the user is still a member or not.
Record(c, t) ==
    /\ made < MaxPings
    /\ t \in 0..now
    /\ now - t <= MaxDelay
    /\ LET p == [id |-> made + 1, circle |-> c, time |-> t]
       IN  /\ queue' = queue \cup {p}
           /\ recorded' = recorded \cup {p}
    /\ made' = made + 1
    /\ UNCHANGED <<now, member, upload, table, job, bounds, stored>>

\* nextBatch: the oldest pings, as many as a batch may hold.
nextBatch(B) ==
    /\ B # {}
    /\ B \subseteq queue
    /\ Cardinality(B) <= MaxBatch
    /\ B # queue => Cardinality(B) = MaxBatch
    /\ \A p \in B : \A q \in queue \ B : p.time <= q.time

\* flush as far as the request; the slot of a flush that gave up is free again
\* when the server is done with it.
BeginFlush(f) ==
    /\ f \notin waiting
    /\ stage[f] = "none"
    /\ \E B \in SUBSET queue :
           /\ nextBatch(B)
           /\ batch' = [batch EXCEPT ![f] = B]
    /\ waiting' = waiting \cup {f}
    /\ stage' = [stage EXCEPT ![f] = "sent"]
    /\ UNCHANGED <<now, member, made, queue, table, job, bounds, recorded, stored>>

\* The answer arrives: flush deletes the rows it sent, or counts an attempt,
\* which nothing reads.
EndFlush(f) ==
    /\ f \in waiting
    /\ stage[f] \in {"stored", "refused"}
    /\ queue' = IF stage[f] = "stored" THEN queue \ batch[f] ELSE queue
    /\ batch' = [batch EXCEPT ![f] = {}]
    /\ waiting' = waiting \ {f}
    /\ stage' = [stage EXCEPT ![f] = "none"]
    /\ UNCHANGED <<now, member, made, table, job, bounds, recorded, stored>>

\* Mutant: the rows are deleted before the answer is known.
GiveUpClean(f) ==
    /\ f \in waiting
    /\ faults < MaxFaults
    /\ faults' = faults + 1
    /\ waiting' = waiting \ {f}
    /\ queue' = queue \ batch[f]
    /\ UNCHANGED <<now, member, made, batch, stage, table, job, moves, recorded,
                   stored>>

\* No answer: the flush fails or its service is killed; the server goes on.
GiveUp(f) ==
    /\ f \in waiting
    /\ faults < MaxFaults
    /\ faults' = faults + 1
    /\ waiting' = waiting \ {f}
    /\ UNCHANGED <<now, member, made, queue, batch, stage, table, job, moves,
                   recorded, stored>>

-----------------------------------------------------------------------------
(* The server: handlePingBatch.                                            *)

\* The slot of a request that nobody waits for any more is free once it is over.
Settle(f, s) ==
    IF s \in {"stored", "refused"} /\ f \notin waiting
    THEN /\ stage' = [stage EXCEPT ![f] = "none"]
         /\ batch' = [batch EXCEPT ![f] = {}]
    ELSE /\ stage' = [stage EXCEPT ![f] = s]
         /\ batch' = batch

Acceptable(p) == p.circle \in member /\ p.time >= now - Window

\* One ping of a circle that is not the user's, or one that is too old, and the
\* whole batch is refused.
CheckBatch(f) ==
    /\ stage[f] = "sent"
    /\ Settle(f, IF \A p \in batch[f] : Acceptable(p) THEN "checked" ELSE "refused")
    /\ UNCHANGED <<now, member, made, queue, waiting, table, job, bounds, recorded,
                   stored>>

\* Mutant: a duplicate aborts the transaction instead of being skipped.
InsertPingsStrictly(f) ==
    /\ stage[f] = "checked"
    /\ Settle(f, IF batch[f] \cap table = {} THEN "stored" ELSE "refused")
    /\ table' = IF batch[f] \cap table = {} THEN table \cup batch[f] ELSE table
    /\ stored' = stored \cup table'
    /\ UNCHANGED <<now, member, made, queue, waiting, job, bounds, recorded>>

\* The transaction: InsertPing skips the pings that are in the table.
InsertPings(f) ==
    /\ stage[f] = "checked"
    /\ Settle(f, "stored")
    /\ table' = table \cup batch[f]
    /\ stored' = stored \cup batch[f]
    /\ UNCHANGED <<now, member, made, queue, waiting, job, bounds, recorded>>

\* A query or the transaction fails, or the request never arrives.
RequestFails(f) ==
    /\ stage[f] \in {"sent", "checked"}
    /\ faults < MaxFaults
    /\ faults' = faults + 1
    /\ Settle(f, "refused")
    /\ UNCHANGED <<now, member, made, queue, waiting, table, job, moves, recorded,
                   stored>>

-----------------------------------------------------------------------------
(* Membership, the retention job and the clock.                            *)

LeaveCircle(c) ==
    /\ c \in member
    /\ moves < MaxMoves
    /\ moves' = moves + 1
    /\ member' = member \ {c}
    /\ UNCHANGED <<now, made, queue, upload, table, job, faults, recorded, stored>>

JoinCircle(c) ==
    /\ c \notin member
    /\ moves < MaxMoves
    /\ moves' = moves + 1
    /\ member' = member \cup {c}
    /\ UNCHANGED <<now, made, queue, upload, table, job, faults, recorded, stored>>

\* Mutant: the pruning queries without their EXISTS.
SupersededAnyway(p) == TRUE

\* "a newer ping exists for the same circle and device"
Superseded(p) == \E q \in table : q.circle = p.circle /\ q.time > p.time

\* A step of RunOnce deletes its rows, or fails and is logged; the next follows.
JobStep(from, to, expired) ==
    /\ job = from
    /\ job' = to
    /\ table' \in {table \ expired, table}
    /\ UNCHANGED <<now, member, made, queue, upload, bounds, recorded, stored>>

PastHorizon(p) == p.time < now - Window
PruneAllPingsBefore == JobStep("horizon", "stale", {p \in table : PastHorizon(p)})

Stale(p) == p.time < now - Keep /\ Superseded(p)
PruneStalePings == JobStep("stale", "circles", {p \in table : Stale(p)})

\* The loop over the circles; the delete of any of them may fail.
ExpiredIn(C, p) ==
    p.circle \in C /\ p.time < now - Retention[p.circle] /\ Superseded(p)
deleteExpiredPings ==
    \E C \in SUBSET Circles :
        JobStep("circles", "horizon", {p \in table : ExpiredIn(C, p)})

Tick ==
    /\ now < MaxTime
    /\ now' = now + 1
    /\ UNCHANGED <<member, made, queue, upload, table, job, bounds, recorded, stored>>

Phone ==
    \/ \E c \in Circles, t \in 0..MaxTime : Record(c, t)
    \/ \E f \in Flushes : BeginFlush(f) \/ EndFlush(f) \/ GiveUp(f)

Server ==
    \/ \E f \in Flushes : CheckBatch(f) \/ InsertPings(f) \/ RequestFails(f)
    \/ PruneAllPingsBefore \/ PruneStalePings \/ deleteExpiredPings
    \/ \E c \in Circles : LeaveCircle(c) \/ JoinCircle(c)

Next == Phone \/ Server \/ Tick

Spec == Init /\ [][Next]_vars

\* Fixes keep coming, so a flush is begun again and again; requests are served
\* and answers reach the flush that waits for them.
FairSpec ==
    /\ Spec
    /\ \A f \in Flushes : /\ WF_vars(BeginFlush(f))
                          /\ WF_vars(EndFlush(f))
                          /\ WF_vars(CheckBatch(f) \/ InsertPings(f))

-----------------------------------------------------------------------------

\* Types; a batch is never larger than the server takes (maxBatch, maxBatchPings).
PingTypeOK ==
    /\ now \in 0..MaxTime
    /\ member \subseteq Circles
    /\ made \in 0..MaxPings
    /\ queue \subseteq Ping
    /\ batch \in [Flushes -> SUBSET Ping]
    /\ \A f \in Flushes : Cardinality(batch[f]) <= MaxBatch
    /\ waiting \subseteq Flushes
    /\ stage \in [Flushes -> Stages]
    /\ table \subseteq Ping
    /\ job \in Jobs
    /\ faults \in 0..MaxFaults
    /\ moves \in 0..MaxMoves
    /\ recorded \subseteq Ping
    /\ stored \subseteq Ping

\* No ping is lost between the phone and the server: each one that was recorded is
\* in the queue or has been inserted, whatever overlaps, fails or is cut off (flush
\* deletes its rows only after an answer that says they are stored).
NothingLost == recorded \subseteq queue \cup stored

\* A map never goes back in time: no retry, late batch or pruning query makes the
\* newest ping of a circle older, except for pings past the horizon (the EXISTS of
\* PruneStalePings and DeleteExpiredPingsForCircle).
MapNeverGoesBack ==
    [][\A p \in table :
           \/ PastHorizon(p)
           \/ \E q \in table' : q.circle = p.circle /\ q.time >= p.time]_vars

\* A queue that only holds pings the server would take is emptied in the end: a
\* retry of pings that were stored already succeeds (ON CONFLICT DO NOTHING).
DrainsUnlessRefused ==
    <>[](\A p \in queue : Acceptable(p)) => []<>(queue = {})

\* Pings past the retention window leave the queue ("so a long-offline device never
\* floods the server with stale, already-expired pings", queue_db.dart).
StalePingsGo ==
    (\E p \in queue : PastHorizon(p)) ~> (\A p \in queue : ~PastHorizon(p))

=============================================================================
