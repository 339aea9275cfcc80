--------------------------- MODULE MCWorkScheduler ---------------------------
(* A small instance: one command of each kind, at the boundary codes. *)
EXTENDS WorkScheduler, TLC

CONSTANTS w1, shutdown, unaddressed, first, second, inverter, filter

MCCommands == {shutdown, unaddressed, first, second}
MCTargets == {inverter, filter}
MCWorkers == {w1}

(* CMD_BRC_SHUTDOWN = 0, CMD_BROADCAST_MAX = 1 with no target, CMD_INVALID  *)
(* = 2 and a user command.                                                  *)
MCCode == (shutdown :> 0) @@ (unaddressed :> 1) @@ (first :> 2)
          @@ (second :> 1000)
MCTrgt == (shutdown :> NULL) @@ (unaddressed :> NULL) @@ (first :> inverter)
          @@ (second :> filter)
=============================================================================
