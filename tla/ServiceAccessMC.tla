---------------------------- MODULE ServiceAccessMC ----------------------------
(***************************************************************************)
(* Constants for TLC: two clients send one body and the third another.     *)
(***************************************************************************)
EXTENDS ServiceAccess

BodyMC == [c \in Clients |-> IF c = "c3" THEN "b" ELSE "a"]
===============================================================================
