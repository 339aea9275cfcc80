--------------------------- MODULE MCDataFilters ---------------------------
(* Two filters in the stacks that behave differently: a page made from a   *)
(* CSV file, a CSV file behind a dump, and both on the same inverter.      *)
EXTENDS DataFilters

CONSTANTS inverter, f1, f2, null

Order == <<"AC grid voltage", Filename, Logged, RemoveAll, Updated, "DC Power", DataState>>

Filter(k, b, all, rotate, compact) ==
    [kind |-> k, base |-> b, all |-> all, rotate |-> rotate, compact |-> compact]
Plain(k, b) == Filter(k, b, FALSE, FALSE, FALSE)

Stacks ==
    { f1 :> Filter("csv", inverter, TRUE, TRUE, FALSE) @@ f2 :> Plain("html", f1),
      f1 :> Filter("csv", inverter, FALSE, TRUE, TRUE) @@ f2 :> Plain("dump", f1),
      f1 :> Plain("dump", inverter) @@ f2 :> Filter("csv", f1, TRUE, TRUE, TRUE),
      f1 :> Plain("html", inverter) @@ f2 :> Filter("csv", f1, TRUE, FALSE, FALSE) }

FilterOrder == <<f1, f2>>
Array == <<"DC Power">>
=============================================================================
