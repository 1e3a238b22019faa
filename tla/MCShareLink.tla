----------------------------- MODULE MCShareLink -----------------------------
(* A link opened on two devices, on one of them in two tabs.               *)
EXTENDS ShareLink

CONSTANTS d1, d2, t1, t2, t3, p1

MCTabs == {t1, t2, t3}
MCDevices == {d1, d2}
MCDeviceOf == [t \in MCTabs |-> IF t = t3 THEN d2 ELSE d1]
MCPosts == {p1}

=============================================================================
