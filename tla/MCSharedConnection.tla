------------------------- MODULE MCSharedConnection -------------------------
(* Two inverters; Send stands for all operations that go to the line, the  *)
(* owner's Disconnect is one too, the other's is a Noop.                    *)
EXTENDS SharedConnection

CONSTANTS s1, s2
=============================================================================
