---------------------------- MODULE MCTimedWork ----------------------------
(* Two callers, delays of one or two ticks, an "hour" of three. *)
EXTENDS TimedWork

CONSTANTS first, second, third, c1, c2

MCCommands == {first, second, third}
MCCallers == {c1, c2}
MCDelays == {1, 2}
SummerTime == {0, -1}       \* the local clock can be set back by one tick
=============================================================================
