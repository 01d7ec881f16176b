---------------------------- MODULE MCExtNatPmp -----------------------------
(* ExtNatPmp with two clients, whose ports are each other's mirror image,  *)
(* so that a port whose bytes are swapped once too often is the other's.   *)
EXTENDS ExtNatPmp

(* 300 and 11265 have the bytes 1, 44 and 44, 1.                           *)
TwoAskers == {[addr |-> "c1", port |-> 300], [addr |-> "c2", port |-> 11265]}
OneAsker  == {[addr |-> "c1", port |-> 300]}

(* The request of NAT-PMP for a mapping, and one too long for the shim.    *)
QueryLength == [i \in Ids |-> IF i = "map" THEN 12 ELSE 128]
=============================================================================
