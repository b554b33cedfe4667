----------------------------- MODULE AWGConfig ------------------------------
(***************************************************************************)
(* The AmneziaWG parameters of the [Interface] section (awg_config.go) and *)
(* the lines they become in the request to the device (wireguard.go).  A   *)
(* section is a function from the keys it has to their texts; a text is a  *)
(* sequence of parts, see UintRange.  A parsed configuration is a function *)
(* from the same keys to values; the empty one is Go's nil pointer.        *)
(***************************************************************************)
EXTENDS UintRange

CONSTANTS
    MaxInt,     \* the largest int
    Section     \* the [Interface] sections, each a function on some keys

ASSUME AWGConfigAssumption == MaxInt \in Nat

IntKey == {"Jc", "Jmin", "Jmax", "S1", "S2", "S3", "S4"}
HeaderKey == {"H1", "H2", "H3", "H4"}
TextKey == {"I1", "I2", "I3", "I4", "I5"}
RangeKey == {"ContentPaddingAddition", "RekeyAfterTime", "RekeyTimeout",
             "RejectAfterTime", "KeepaliveTimeout", "MaxHandshakeAttempts"}
BoolKey == {"RandomTrailers", "DisableCookies"}
ProtectionKey == "HeaderProtectionKey"
PaddingKey == {"S1", "S2", "S3", "S4"}
ASecKey == IntKey \cup HeaderKey \cup TextKey \cup RangeKey \cup BoolKey \cup {ProtectionKey}

(* Parts that are no number: a truth value, and a key of 32 bytes as the   *)
(* file and as the device write it.                                        *)
Yes == -3
No == -4
Base64Key == -5
HexKey == -6

Defined(conf, k) == k \in DOMAIN conf
-----------------------------------------------------------------------------
(* ParseASecConfig: each key that is present has to parse. *)

(* sectionKey.Int: a number, perhaps with a minus sign. *)
IsInt(parts) ==
    \/ Len(parts) = 1 /\ parts[1] \in 0 .. MaxInt
    \/ Len(parts) = 2 /\ parts[1] = Blank /\ parts[2] \in 0 .. MaxInt + 1

ParseInt(parts) == IF Len(parts) = 1 THEN parts[1] ELSE -parts[2]

(* sectionKey.Bool *)
IsBool(parts) == Len(parts) = 1 /\ parts[1] \in {Yes, No}
ParseBool(parts) == parts[1] = Yes

(* encodeBase64ToHex *)
IsKey(parts) == Len(parts) = 1 /\ parts[1] = Base64Key
ToHex(parts) == <<HexKey>>

KeyParses(k, parts) ==
    /\ k \in IntKey => IsInt(parts)
    /\ k \in HeaderKey \cup RangeKey => IsUintRange(parts)
    /\ k \in BoolKey => IsBool(parts)
    /\ k = ProtectionKey => IsKey(parts)

ParseKey(k, parts) ==
    CASE k \in IntKey -> ParseInt(parts)
      [] k \in HeaderKey \cup RangeKey -> ParseUintRange(parts)
      [] k \in BoolKey -> ParseBool(parts)
      [] k = ProtectionKey -> ToHex(parts)
      [] k \in TextKey -> parts

Present(sec) == DOMAIN sec \cap ASecKey
SectionParses(sec) == \A k \in Present(sec) : KeyParses(k, sec[k])
ParseASecConfig(sec) == [k \in Present(sec) |-> ParseKey(k, sec[k])]
-----------------------------------------------------------------------------
(* ValidateASecConfig *)

JunkIsValid(conf) ==
    /\ Defined(conf, "Jc") => conf["Jc"] \in 1 .. 128
    /\ Defined(conf, "Jmin") /\ Defined(conf, "Jmax") => conf["Jmin"] <= conf["Jmax"]
    /\ Defined(conf, "Jmax") => conf["Jmax"] <= 1280

MessageSize ==
    [k \in PaddingKey |->
        CASE k = "S1" -> 148 [] k = "S2" -> 92 [] k = "S3" -> 64 [] k = "S4" -> 32]

(* Two sizes are the same int. *)
SameInt(a, b) == (a - b) % (2 * (MaxInt + 1)) = 0

(* Mutant: every size is compared with the first one. *)
SizesDifferFromFirst(conf) ==
    \A j \in (PaddingKey \ {"S1"}) \cap DOMAIN conf :
        Defined(conf, "S1") => ~ SameInt(MessageSize["S1"] + conf["S1"], MessageSize[j] + conf[j])

(* Only the paddings that are set are compared. *)
SizesAreValid(conf) ==
    \A i, j \in PaddingKey \cap DOMAIN conf :
        i # j => ~ SameInt(MessageSize[i] + conf[i], MessageSize[j] + conf[j])

DefaultHeader ==
    [k \in HeaderKey |->
        CASE k = "H1" -> 1 [] k = "H2" -> 2 [] k = "H3" -> 3 [] k = "H4" -> 4]

(* collectEffectiveHeaderIntervals *)
EffectiveHeader(conf, k) ==
    IF Defined(conf, k) THEN conf[k] ELSE [min |-> DefaultHeader[k], max |-> DefaultHeader[k]]

(* Mutant: only an interval inside the other is an overlap. *)
OverlapOneSided(left, right) == left.min <= right.min /\ right.max <= left.max

(* hasOverlappingHeaderIntervals, of a pair *)
Overlap(left, right) == left.min <= right.max /\ right.min <= left.max

HeadersAreValid(conf) ==
    /\ \A k \in HeaderKey : EffectiveHeader(conf, k).min <= EffectiveHeader(conf, k).max
    /\ \A i, j \in HeaderKey :
          i # j => ~ Overlap(EffectiveHeader(conf, i), EffectiveHeader(conf, j))

headerCipherNonceSize == 12

(* Mutant: a padding that is not set is passed over. *)
ProtectionIfSet(conf) ==
    Defined(conf, ProtectionKey) =>
        \A k \in PaddingKey : Defined(conf, k) => conf[k] >= headerCipherNonceSize

ProtectionIsValid(conf) ==
    Defined(conf, ProtectionKey) =>
        \A k \in PaddingKey : Defined(conf, k) /\ conf[k] >= headerCipherNonceSize

ValidateASecConfig(conf) ==
    DOMAIN conf # {} =>
        JunkIsValid(conf) /\ SizesAreValid(conf) /\ HeadersAreValid(conf) /\ ProtectionIsValid(conf)
-----------------------------------------------------------------------------
(* CreateIPCRequest: a line for each parameter that is set. *)

FormatBool(b) == IF b THEN <<Yes>> ELSE <<No>>
FormatInt(n) == IF n < 0 THEN <<Blank, -n>> ELSE <<n>>

FormatKey(k, value) ==
    CASE k \in IntKey -> FormatInt(value)
      [] k \in HeaderKey \cup RangeKey -> FormatRange(value)
      [] k \in BoolKey -> FormatBool(value)
      [] k \in TextKey \cup {ProtectionKey} -> value

ASecLines(conf) == [k \in DOMAIN conf |-> FormatKey(k, conf[k])]
-----------------------------------------------------------------------------
VARIABLES
    section,   \* the [Interface] section
    stage,     \* "loaded", "refused", "parsed", "sent"
    conf,      \* the ASecConfig
    lines      \* the AmneziaWG lines of the request

vars == <<section, stage, conf, lines>>

TypeOK ==
    /\ section \in Section
    /\ stage \in {"loaded", "refused", "parsed", "sent"}
    /\ DOMAIN conf \subseteq ASecKey
    /\ \A k \in DOMAIN conf :
          /\ k \in IntKey => conf[k] \in (-MaxInt - 1) .. MaxInt
          /\ k \in HeaderKey \cup RangeKey => conf[k] \in uintRange
    /\ DOMAIN lines \subseteq ASecKey

NoKeys == [k \in {} |-> <<>>]

Init ==
    /\ section \in Section
    /\ stage = "loaded" /\ conf = NoKeys /\ lines = NoKeys

Accepted(sec) == SectionParses(sec) /\ ValidateASecConfig(ParseASecConfig(sec))

Parse ==
    /\ stage = "loaded" /\ Accepted(section)
    /\ stage' = "parsed" /\ conf' = ParseASecConfig(section)
    /\ UNCHANGED <<section, lines>>

Refuse ==
    /\ stage = "loaded" /\ ~ Accepted(section)
    /\ stage' = "refused"
    /\ UNCHANGED <<section, conf, lines>>

Send ==
    /\ stage = "parsed"
    /\ stage' = "sent" /\ lines' = ASecLines(conf)
    /\ UNCHANGED <<section, conf>>

Next == Parse \/ Refuse \/ Send

Spec == Init /\ [][Next]_vars
-----------------------------------------------------------------------------
(* What the device makes of the lines: a parameter without a line has the  *)
(* value it has in plain WireGuard.                                        *)
DeviceHeader(k) ==
    IF k \in DOMAIN lines THEN ParseUintRange(lines[k])
                          ELSE [min |-> DefaultHeader[k], max |-> DefaultHeader[k]]
DevicePadding(k) == IF k \in DOMAIN lines THEN ParseInt(lines[k]) ELSE 0

(* Every number stands for at most one message type at the device, whether *)
(* its header is set in the file or left at the default: the interval test *)
(* of hasOverlappingHeaderIntervals, and what the lines say after parsing  *)
(* and formatting, keep the four types apart.                              *)
HeadersUnambiguous ==
    stage = "sent" =>
        \A n \in 0 .. MaxUint32 : \A i, j \in HeaderKey :
            /\ n \in DeviceHeader(i).min .. DeviceHeader(i).max
            /\ n \in DeviceHeader(j).min .. DeviceHeader(j).max
            => i = j

(* A device that is told to protect headers has a nonce's worth of padding *)
(* in each of the four message types, none of them left at its default.    *)
ProtectionHasNonce ==
    stage = "sent" /\ ProtectionKey \in DOMAIN lines =>
        \A k \in PaddingKey : DevicePadding(k) >= headerCipherNonceSize

(* The request says what the section says: it has a line for every key of  *)
(* the section and for no other (so a section without any configures plain *)
(* WireGuard), and every line means what the text in the section means.    *)
RequestSaysTheSection ==
    stage = "sent" =>
        /\ DOMAIN lines = Present(section)
        /\ \A k \in Present(section) :
              IF k = ProtectionKey THEN lines[k] = ToHex(section[k])
                                   ELSE /\ KeyParses(k, lines[k])
                                        /\ ParseKey(k, lines[k]) = ParseKey(k, section[k])

(* What the device sends as a message of the type is this long. *)
DeviceSize(k) == MessageSize[k] + DevicePadding(k)

(* Two message types are equally long at the device only where one of the  *)
(* paddings is left at its default, and never with protected headers: the  *)
(* comparison of all pairs that are set, the demand that protection sets   *)
(* all four, and the lines as the device reads them back.                  *)
EqualSizesAreDefaults ==
    stage = "sent" =>
        \A i, j \in PaddingKey :
            i # j /\ DeviceSize(i) = DeviceSize(j) =>
                ProtectionKey \notin DOMAIN lines /\ ~ ({i, j} \subseteq DOMAIN lines)

(* "S1 + 148 must differ from S2 + 92" (README.md), of the device.  False:  *)
(* ValidateASecConfig skips a padding that is not set.                     *)
HandshakeSizesDiffer ==
    stage = "sent" => 148 + DevicePadding("S1") # 92 + DevicePadding("S2")
=============================================================================
