---------------------------- MODULE MCSimulator ----------------------------
(* A token that is known and one that is not; two clients, one after the   *)
(* other; with a control server and without.                               *)
EXTENDS Simulator

CONSTANTS PAC, XYZ

Asked == {{PAC, XYZ}}
=============================================================================
