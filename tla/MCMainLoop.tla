----------------------------- MODULE MCMainLoop -----------------------------
(* The shutdown broadcast and two commands, for two objects. *)
EXTENDS MainLoop, TLC

CONSTANTS first, second, inverter, filter

MCCommands == {Shutdown, first, second}
MCTargets == {inverter, filter}
MCCode == (Shutdown :> 0) @@ (first :> 2) @@ (second :> 1000)
MCTrgt == (Shutdown :> NULL) @@ (first :> inverter) @@ (second :> filter)
MCWorkers == {Timer, Connection, Terminator}
=============================================================================
