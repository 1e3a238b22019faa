------------------------------ MODULE MCServer -------------------------------
(***************************************************************************)
(* What the server process keeps in memory or counts per request: the hub  *)
(* of its sockets and the gate in front of its sign-ins.  Of three sockets *)
(* two belong to one account and the third to another, so that the         *)
(* ceilings and evictions of one user among several all matter.  The gate  *)
(* has two accounts, two addresses and two requests at once, a bucket of   *)
(* two and a window of two ticks.  The two share no state, so a behaviour  *)
(* is of one of them.                                                      *)
(***************************************************************************)
EXTENDS RealtimeHub, Lockout

VARIABLE part

CONSTANTS alice, bob, home, s1, s2, s3

MCUsers    == {alice, bob}
MCCircles  == {home}
MCConns3   == {s1, s2, s3}
MCUserOf3  == [c \in MCConns3 |-> IF c = s3 THEN bob ELSE alice]

ServerInit == Init /\ LockoutInit /\ part \in {"hub", "lockout"}

ServerNext ==
    \/ part = "hub" /\ Next /\ UNCHANGED <<part, lvars>>
    \/ part = "lockout" /\ LockoutNext /\ UNCHANGED <<part, vars>>

\* All other fair actions are disabled in the initial states.
TickOfLockout == part = "lockout" /\ LockoutTick

ServerSpec ==
    /\ ServerInit /\ [][ServerNext]_<<part, vars, lvars>>
    /\ Fairness
    /\ WF_lvars(TickOfLockout) /\ \A r \in Requests : WF_lvars(Proceed(r))
=============================================================================
