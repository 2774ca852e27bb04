------------------------------ MODULE MCTwoBuf ------------------------------
(* Two slots of two bytes; an empty, a normal and an oversized message.    *)
EXTENDS TwoBuf

CONSTANTS empty, log, huge
MCSizeOf == [m \in Messages |-> IF m = empty THEN 0 ELSE IF m = log THEN 1 ELSE 3]

=============================================================================
