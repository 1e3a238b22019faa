---------------------------- MODULE TokenBucket ----------------------------
(***************************************************************************)
(* What a rate limiter promises: every key owns one bucket for ever.  An   *)
(* event takes a token, an empty bucket admits nothing, and every unit of  *)
(* time adds Rate tokens up to Burst.  RateLimiter implements it while it  *)
(* forgets the buckets of idle keys.                                       *)
(***************************************************************************)
EXTENDS Naturals

CONSTANTS Keys, Burst, Rate

VARIABLE level      \* key -> tokens left

Init == level = [k \in Keys |-> Burst]

Take(k) ==
    /\ level[k] >= 1
    /\ level' = [level EXCEPT ![k] = @ - 1]

Refill ==
    level' = [k \in Keys |-> IF level[k] + Rate <= Burst
                             THEN level[k] + Rate ELSE Burst]

Next == (\E k \in Keys : Take(k)) \/ Refill

Spec == Init /\ [][Next]_level
=============================================================================
