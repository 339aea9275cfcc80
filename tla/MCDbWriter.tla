----------------------------- MODULE MCDbWriter -----------------------------
(* A value that changes and one of the inverter's constructor, which the   *)
(* last job wants in vain; every mode, with and without a table to create. *)
EXTENDS DbWriter

CONSTANTS power, energy, name

Job(mode, createmode, columns, changedonly, sparse, special) ==
    [mode |-> mode, create |-> createmode, columns |-> columns, logchangedonly |-> changedonly,
     allow_sparse |-> sparse, token |-> special, selector |-> TRUE]

AllJobs ==
    { Job("continuous", "wipe", <<power, energy>>, TRUE, FALSE, FALSE),
      Job("continuous", "no", <<power>>, FALSE, FALSE, FALSE),
      Job("continuous", "print", <<power, energy>>, TRUE, TRUE, FALSE),
      Job("single", "yes", <<power, energy>>, TRUE, TRUE, FALSE),
      Job("cumulative", "yes", <<power>>, TRUE, FALSE, TRUE),
      Job("continuous", "no", <<power, name>>, TRUE, FALSE, FALSE) }
=============================================================================
