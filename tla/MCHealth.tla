------------------------------ MODULE MCHealth ------------------------------
(* Instances of Health for TLC. *)
EXTENDS Health

CONSTANTS a1, a2, k1, k2

MCOneAddress == <<a1>>
MCTwoAddresses == <<a1, a2>>
MCTwoSlots == {k1, k2}
MCReliable == {a1}
=============================================================================
