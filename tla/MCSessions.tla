----------------------------- MODULE MCSessions -----------------------------
(***************************************************************************)
(* An instance of Sessions: two sessions on one device and three requests  *)
(* that may all present the same token, one of which may fail midway.      *)
(***************************************************************************)
EXTENDS Sessions

CONSTANTS phone, r1, r2, q1, q2, q3

MCSessions2 == {r1, r2}
MCDeviceOf2 == [s \in MCSessions2 |-> phone]
MCRequests3 == {q1, q2, q3}
MCFallible == {q3}
=============================================================================
