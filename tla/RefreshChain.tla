----------------------------- MODULE RefreshChain -----------------------------
(***************************************************************************)
(* What refresh-token rotation promises, with every operation atomic.  A   *)
(* session has one current refresh token; exchanging it yields a new one,  *)
(* at most once in the life of the token; a revoked session stays revoked  *)
(* and exchanges nothing.                                                  *)
(***************************************************************************)
EXTENDS Naturals

CONSTANT Sessions

VARIABLES
    state,   \* "unused", "live", "revoked" or "deleted", for each session
    cur,     \* the current refresh token of each session
    issued,  \* the number of refresh tokens issued so far; they are 1..issued
    spent    \* tokens that have been exchanged for a new one

vars == <<state, cur, issued, spent>>

Init ==
    /\ state = [s \in Sessions |-> "unused"]
    /\ cur = [s \in Sessions |-> 0]
    /\ issued = 0
    /\ spent = {}

\* A new session with a fresh token.
Open(s) ==
    /\ state[s] = "unused"
    /\ state' = [state EXCEPT ![s] = "live"]
    /\ cur' = [cur EXCEPT ![s] = issued + 1]
    /\ issued' = issued + 1
    /\ UNCHANGED spent

\* The current token of a live session is exchanged for a fresh one.
Exchange(s) ==
    /\ state[s] = "live"
    /\ cur[s] \notin spent
    /\ spent' = spent \cup {cur[s]}
    /\ cur' = [cur EXCEPT ![s] = issued + 1]
    /\ issued' = issued + 1
    /\ UNCHANGED state

\* Any set of live sessions is revoked at once.
Revoke(S) ==
    /\ \A s \in S : state[s] = "live"
    /\ state' = [s \in Sessions |-> IF s \in S THEN "revoked" ELSE state[s]]
    /\ UNCHANGED <<cur, issued, spent>>

\* Expired and revoked sessions are forgotten.
Forget(s) ==
    /\ state[s] \in {"live", "revoked"}
    /\ state' = [state EXCEPT ![s] = "deleted"]
    /\ UNCHANGED <<cur, issued, spent>>

Next ==
    \/ \E s \in Sessions : Open(s) \/ Exchange(s) \/ Forget(s)
    \/ \E S \in SUBSET Sessions : Revoke(S)

Spec == Init /\ [][Next]_vars
=============================================================================
