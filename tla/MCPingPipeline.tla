--------------------------- MODULE MCPingPipeline ---------------------------
(* One phone, two circles of which one has a retention of its own.         *)
EXTENDS PingPipeline

CONSTANTS c1, c2, f1, f2

MCCircles == {c1, c2}
MCFlushes == {f1, f2}
MCRetention == [c \in MCCircles |-> IF c = c1 THEN 0 ELSE 2]

=============================================================================
