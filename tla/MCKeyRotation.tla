---------------------------- MODULE MCKeyRotation ----------------------------
(* The owner and a member who comes and goes; two activities of the clients *)
(* at once, on one device or on two.                                        *)
EXTENDS KeyRotation, TLC

CONSTANTS phone, guest, t1, t2

MCDevices2 == {phone, guest}
MCOwner1 == {phone}
MCTasks == {t1, t2}
MCSymmetry == Permutations(MCTasks)

\* Bound: a behaviour has a join, or a failure, or an envelope that is given up.
MCOneUpset == joins + faults <= 1
=============================================================================
