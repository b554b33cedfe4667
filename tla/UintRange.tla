----------------------------- MODULE UintRange ------------------------------
(***************************************************************************)
(* The interval parameters of AmneziaWG, "a" or "a-b" (awg_config.go).  A  *)
(* configuration value is the sequence of its parts between the dashes: a  *)
(* part is a natural number, Blank (nothing there) or Junk (not a number). *)
(***************************************************************************)
EXTENDS Integers, Sequences

CONSTANT MaxUint32   \* 2^32 - 1, or a smaller bound that keeps a model small

ASSUME UintRangeAssumption == MaxUint32 \in Nat

Blank == -1
Junk == -2

uintRange == {r \in [min : 0 .. MaxUint32, max : 0 .. MaxUint32] : r.min <= r.max}

(* strconv.ParseUint(part, 10, 32) succeeds. *)
IsUint32(part) == part \in 0 .. MaxUint32

(* Mutant: the ends are taken in any order. *)
IsUintRangeUnordered(parts) ==
    Len(parts) \in {1, 2} /\ IsUint32(parts[1]) /\ IsUint32(parts[Len(parts)])

(* parseUintRange succeeds: one or two numbers, in order. *)
IsUintRange(parts) ==
    /\ Len(parts) \in {1, 2}
    /\ IsUint32(parts[1]) /\ IsUint32(parts[Len(parts)])
    /\ parts[1] <= parts[Len(parts)]

(* and this is the range it returns. *)
ParseUintRange(parts) == [min |-> parts[1], max |-> parts[Len(parts)]]

(* Mutant: a range is written as its lower end. *)
FormatRangeMin(r) == <<r.min>>

(* uintRange.String *)
FormatRange(r) == IF r.min = r.max THEN <<r.min>> ELSE <<r.min, r.max>>
=============================================================================
