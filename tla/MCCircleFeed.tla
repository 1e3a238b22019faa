---------------------------- MODULE MCCircleFeed ----------------------------
(***************************************************************************)
(* Instances of CircleFeed: alice owns the circle, bob joins and leaves it *)
(* with up to two sockets of his own.                                      *)
(***************************************************************************)
EXTENDS CircleFeed

CONSTANTS alice, bob, home, s1, s2

MCUsers   == {alice, bob}
MCCircles == {home}
MCConns   == {s1, s2}
MCUserOf  == [c \in MCConns |-> bob]
MCOwner   == [k \in MCCircles |-> alice]
=============================================================================
