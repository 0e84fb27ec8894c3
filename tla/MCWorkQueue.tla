---------------------------- MODULE MCWorkQueue ----------------------------
(* Five operations: one chains into two others, two come from elsewhere.   *)
EXTENDS WorkQueue

CONSTANTS a, b, c, d, e

MCChained == [o \in Ops |-> IF o = a THEN {b, c} ELSE {}]
=============================================================================
