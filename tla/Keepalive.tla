----------------------------- MODULE Keepalive ------------------------------
(***************************************************************************)
(* PersistentKeepalive from the [Peer] section to the device (config.go,   *)
(* wireguard.go).  A PeerConfig keeps the bounds twice: as int fields that *)
(* a program using the package may change, and as the exact parsed range,  *)
(* since an int of a 32-bit build cannot hold every uint32.  The request   *)
(* to the device is built from one or the other.                           *)
(***************************************************************************)
EXTENDS UintRange

CONSTANTS
    IntMax,     \* the largest int of the build
    Text,       \* the values PersistentKeepalive may be given
    NoText,     \* the key is absent
    OffText,    \* the value "off"
    NoRange,    \* a nil keepAliveRange, and no request
    Assigned    \* the ints a program may assign to the exported fields

(* An int is as wide as a uint32, or wider. *)
ASSUME KeepaliveAssumption ==
    /\ IntMax \in Nat
    /\ IntMax >= MaxUint32 \/ MaxUint32 = 2 * IntMax + 1
    /\ NoRange \notin uintRange
    /\ Assigned \subseteq (-IntMax - 1) .. IntMax
    /\ Text \subseteq Seq(Int) /\ OffText \notin Text /\ NoText \notin Text

Modulus == MaxUint32 + 1

(* Mutant: every uint32 is taken to fit into an int. *)
ToIntUnwrapped(u) == u

(* The conversions int(u) of a uint32 and uint32(i) of an int. *)
ToInt(u) == IF u <= IntMax THEN u ELSE u - Modulus
ToUint32(i) == i % Modulus

VARIABLES
    text,            \* the value of the key
    stage,           \* "loaded", "parsed", "refused", "done" or "failed"
    KeepAlive,       \* the fields of the PeerConfig
    KeepAliveMax,
    keepAliveRange,
    request,         \* the range written to the device
    assigned         \* history: a program has assigned to the fields

vars == <<text, stage, KeepAlive, KeepAliveMax, keepAliveRange, request, assigned>>

TypeOK ==
    /\ text \in Text \cup {OffText, NoText}
    /\ stage \in {"loaded", "parsed", "refused", "done", "failed"}
    /\ KeepAlive \in (-IntMax - 1) .. IntMax
    /\ KeepAliveMax \in (-IntMax - 1) .. IntMax
    /\ keepAliveRange \in uintRange \cup {NoRange}
    /\ request \in uintRange \cup {NoRange}
    /\ assigned \in BOOLEAN

Init ==
    /\ text \in Text \cup {OffText, NoText}
    /\ stage = "loaded"
    /\ KeepAlive = 0 /\ KeepAliveMax = 0
    /\ keepAliveRange = NoRange
    /\ request = NoRange
    /\ assigned = FALSE

(* What parseUintRange is given: "off" counts as "0". *)
Raw == IF text = OffText THEN <<0>> ELSE text

ParsePeer ==
    /\ stage = "loaded" /\ text # NoText /\ IsUintRange(Raw)
    /\ stage' = "parsed"
    /\ keepAliveRange' = ParseUintRange(Raw)
    /\ KeepAlive' = ToInt(ParseUintRange(Raw).min)
    /\ KeepAliveMax' = ToInt(ParseUintRange(Raw).max)
    /\ UNCHANGED <<text, request, assigned>>

ParsePeerFails ==
    /\ stage = "loaded" /\ text # NoText /\ ~ IsUintRange(Raw)
    /\ stage' = "refused"
    /\ UNCHANGED <<text, KeepAlive, KeepAliveMax, keepAliveRange, request, assigned>>

ParsePeerWithout ==
    /\ stage = "loaded" /\ text = NoText
    /\ stage' = "parsed"
    /\ UNCHANGED <<text, KeepAlive, KeepAliveMax, keepAliveRange, request, assigned>>

(* A program that uses the package assigns to the exported fields. *)
Assign(min, max) ==
    /\ stage = "parsed"
    /\ KeepAlive' = min /\ KeepAliveMax' = max
    /\ assigned' = TRUE
    /\ UNCHANGED <<text, stage, keepAliveRange, request>>

(* Mutants: the fields are not compared; the parsed range is not kept. *)
RangeIsPresent == keepAliveRange # NoRange
RangeIsIgnored == FALSE

(* persistentKeepaliveRange: the parsed range stands for the fields, *)
RangeIsCurrent ==
    /\ keepAliveRange # NoRange
    /\ ToInt(keepAliveRange.min) = KeepAlive
    /\ ToInt(keepAliveRange.max) = KeepAliveMax

(* or the fields can be written, *)
FieldsFit == KeepAlive \in 0 .. MaxUint32 /\ KeepAliveMax \in 0 .. MaxUint32

FieldsRange ==
    [min |-> ToUint32(KeepAlive),
     max |-> ToUint32(IF KeepAliveMax > KeepAlive THEN KeepAliveMax ELSE KeepAlive)]

(* and CreateIPCRequest writes what that function returns. *)
CreateIPCRequest ==
    /\ stage = "parsed" /\ (RangeIsCurrent \/ FieldsFit)
    /\ request' = IF RangeIsCurrent THEN keepAliveRange ELSE FieldsRange
    /\ stage' = "done"
    /\ UNCHANGED <<text, KeepAlive, KeepAliveMax, keepAliveRange, assigned>>

CreateIPCRequestFails ==
    /\ stage = "parsed" /\ ~ RangeIsCurrent /\ ~ FieldsFit
    /\ stage' = "failed"
    /\ UNCHANGED <<text, KeepAlive, KeepAliveMax, keepAliveRange, request, assigned>>

Next ==
    \/ ParsePeer \/ ParsePeerFails \/ ParsePeerWithout
    \/ \E min \in Assigned, max \in Assigned : Assign(min, max)
    \/ CreateIPCRequest \/ CreateIPCRequestFails

Spec == Init /\ [][Next]_vars
-----------------------------------------------------------------------------
(* The device is told what the fields say at that moment: the parsed range *)
(* is not used once a program has changed them (wireguard.go:26-30), and   *)
(* no int is cut to fit.  A maximum below the minimum is ignored.          *)
RequestIsCurrent ==
    stage = "done" =>
        /\ ToInt(request.min) = KeepAlive
        /\ \/ ToInt(request.max) = KeepAliveMax
           \/ KeepAliveMax < KeepAlive /\ request.max = request.min

(* On every build a range in the file reaches the device exactly, although *)
(* its bounds may be negative as ints; it is never refused on the way.     *)
FileRangeIsExact ==
    ~ assigned /\ text # NoText =>
        /\ stage = "done" => request = ParseUintRange(Raw)
        /\ stage # "failed"
=============================================================================
