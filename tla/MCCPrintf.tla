----------------------------- MODULE MCCPrintf ------------------------------
(* A line that fits and one that is longer than a slot.                    *)
EXTENDS CPrintfClass

CONSTANTS line, long
MCSizeOf == [m \in Messages |-> IF m = line THEN 1 ELSE 3]

=============================================================================
