----------------------------- MODULE MCUDPProxy -----------------------------
(* The instance of UDPProxy for TLC. *)
EXTENDS UDPProxy

CONSTANTS c1, s1, s2

MCOneClient == {c1}
MCTwoSessions == {s1, s2}
=============================================================================
