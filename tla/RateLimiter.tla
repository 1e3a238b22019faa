---------------------------- MODULE RateLimiter ----------------------------
(***************************************************************************)
(* ratelimit.KeyedLimiter: a token bucket per key (an IP, a user or a      *)
(* device), created when the key is first seen and dropped by the janitor  *)
(* once the key has been silent for longer than the idle time.  Time is a  *)
(* number of ticks; a bucket carries its tokens and the ticks since its    *)
(* last event instead of a time stamp, so that time need not be bounded.   *)
(***************************************************************************)
EXTENDS Naturals

CONSTANTS Keys,     \* what requests are counted by
          Burst,    \* size of a bucket
          Rate,     \* tokens a tick adds
          Ttl       \* ticks of silence after which a bucket is dropped

(***************************************************************************)
(* A bucket is only dropped once it would be full again.  The limiters of  *)
(* cmd/aul/main.go fill up in one minute and are dropped after ten, or     *)
(* fill up in one hour and are dropped after two.                          *)
(***************************************************************************)
ASSUME LimiterAssumption ==
    /\ Burst \in Nat \ {0}
    /\ Rate \in Nat \ {0}
    /\ Ttl \in Nat
    /\ (Ttl + 1) * Rate >= Burst

VARIABLE buckets

NoBucket == [tokens |-> Burst, idle |-> Ttl + 2]     \* not in the map

Bucket == [tokens : 0..Burst, idle : 0..(Ttl + 1)]

LimiterTypeOK == buckets \in [Keys -> Bucket \cup {NoBucket}]

LimiterInit == buckets = [k \in Keys |-> NoBucket]

\* New, NewPerMinute, NewPerHour: a bucket starts full.
Level(k) == buckets[k].tokens

\* An Allow that sets lastSeen only when it creates the bucket.
AllowUnseen(k) ==
    /\ Level(k) >= 1
    /\ buckets' = [buckets EXCEPT ![k] =
          [tokens |-> Level(k) - 1,
           idle |-> IF buckets[k] = NoBucket THEN 0 ELSE buckets[k].idle]]

\* Allow: the event is noted whether or not there is a token for it.
Allow(k) ==
    /\ Level(k) >= 1
    /\ buckets' = [buckets EXCEPT ![k] = [tokens |-> Level(k) - 1, idle |-> 0]]

Refuse(k) ==
    /\ Level(k) = 0
    /\ buckets' = [buckets EXCEPT ![k] = [tokens |-> 0, idle |-> 0]]

\* The passing of time, as rate.Limiter sees it when it is next asked.
Refilled(b) ==
    IF b = NoBucket THEN b
    ELSE [tokens |-> IF b.tokens + Rate <= Burst THEN b.tokens + Rate ELSE Burst,
          idle   |-> IF b.idle <= Ttl THEN b.idle + 1 ELSE b.idle]

LimiterTick == buckets' = [k \in Keys |-> Refilled(buckets[k])]

\* cleanup, run by the janitor of StartJanitor: lastSeen before now - ttl.
Cleanup ==
    /\ \E k \in Keys : buckets[k].idle = Ttl + 1
    /\ buckets' = [k \in Keys |-> IF buckets[k].idle = Ttl + 1
                                  THEN NoBucket ELSE buckets[k]]

LimiterNext == \/ \E k \in Keys : Allow(k) \/ Refuse(k)
               \/ LimiterTick
               \/ Cleanup

LimiterSpec == LimiterInit /\ [][LimiterNext]_buckets

-----------------------------------------------------------------------------
Ideal == INSTANCE TokenBucket
           WITH level <- [k \in Keys |-> buckets[k].tokens]

\* Nobody gains from being forgotten: with the janitor dropping idle buckets
\* the limiter still admits exactly what buckets that are never dropped would.
EvictionIsInvisible == Ideal!Spec
=============================================================================
