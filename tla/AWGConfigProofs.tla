-------------------------- MODULE AWGConfigProofs ---------------------------
(* The properties of AWGConfig, for every set of sections and every width. *)
EXTENDS AWGConfig, TLAPS

(* Lemma: parseUintRange returns a range, and reads back what              *)
(* uintRange.String writes.                                                *)
LEMMA RangeRoundTrip ==
    ASSUME NEW parts, IsUintRange(parts)
    PROVE  /\ ParseUintRange(parts) \in uintRange
           /\ IsUintRange(FormatRange(ParseUintRange(parts)))
           /\ ParseUintRange(FormatRange(ParseUintRange(parts))) = ParseUintRange(parts)
<1> DEFINE a == parts[1]
           b == parts[Len(parts)]
           r == [min |-> a, max |-> b]
<1>1. a \in 0 .. MaxUint32 /\ b \in 0 .. MaxUint32 /\ a <= b
    BY DEF IsUintRange, IsUint32
<1>2. ParseUintRange(parts) = r
    BY DEF ParseUintRange
<1> HIDE DEF a, b
<1>3. r \in uintRange
    BY <1>1 DEF uintRange
<1>4. CASE a = b
    <2>1. FormatRange(r) = <<a>>
        BY <1>4 DEF FormatRange
    <2> QED
        BY <1>1, <1>2, <1>3, <1>4, <2>1 DEF IsUintRange, IsUint32, ParseUintRange
<1>5. CASE a # b
    <2>1. FormatRange(r) = <<a, b>>
        BY <1>5 DEF FormatRange
    <2> QED
        BY <1>1, <1>2, <1>3, <2>1 DEF IsUintRange, IsUint32, ParseUintRange
<1> QED
    BY <1>4, <1>5

(* Lemma: sectionKey.Int returns an int, and reads back what %d writes. *)
LEMMA IntRoundTrip ==
    ASSUME NEW parts, IsInt(parts)
    PROVE  /\ ParseInt(parts) \in (-MaxInt - 1) .. MaxInt
           /\ IsInt(FormatInt(ParseInt(parts)))
           /\ ParseInt(FormatInt(ParseInt(parts))) = ParseInt(parts)
<1> DEFINE n == ParseInt(parts)
<1>1. n \in (-MaxInt - 1) .. MaxInt
    BY AWGConfigAssumption DEF IsInt, ParseInt
<1> HIDE DEF n
<1>2. CASE n < 0
    <2>1. FormatInt(n) = <<Blank, -n>>
        BY <1>2 DEF FormatInt
    <2> QED
        BY <1>1, <1>2, <2>1, AWGConfigAssumption DEF IsInt, ParseInt, n
<1>3. CASE ~ n < 0
    <2>1. FormatInt(n) = <<n>>
        BY <1>3 DEF FormatInt
    <2> QED
        BY <1>1, <1>3, <2>1, AWGConfigAssumption DEF IsInt, ParseInt, n
<1> QED
    BY <1>2, <1>3
-----------------------------------------------------------------------------
(* The lines of a section that was accepted. *)
LinesOf(sec) == ASecLines(ParseASecConfig(sec))

(* The inductive invariant: what was parsed and sent comes from the        *)
(* section, and the section passed every check.                            *)
Inv ==
    /\ section \in Section
    /\ stage \in {"loaded", "refused", "parsed", "sent"}
    /\ IF stage \in {"parsed", "sent"}
       THEN Accepted(section) /\ conf = ParseASecConfig(section)
       ELSE conf = NoKeys
    /\ lines = IF stage = "sent" THEN LinesOf(section) ELSE NoKeys

(* The inductive invariant holds throughout parsing and serialising. *)
LEMMA Invariance == Spec => []Inv
<1>1. Init => Inv
    BY DEF Init, Inv
<1>2. Inv /\ [Next]_vars => Inv'
    <2> SUFFICES ASSUME Inv, [Next]_vars PROVE Inv'
        OBVIOUS
    <2>1. CASE Parse
        BY <2>1 DEF Inv, Parse
    <2>2. CASE Refuse
        BY <2>2 DEF Inv, Refuse
    <2>3. CASE Send
        BY <2>3 DEF Inv, Send, LinesOf
    <2>4. CASE UNCHANGED vars
        BY <2>4 DEF Inv, vars
    <2> QED
        BY <2>1, <2>2, <2>3, <2>4 DEF Next
<1> QED
    BY <1>1, <1>2, PTL DEF Spec

(* Lemma: the kinds of keys are disjoint, so CASE picks the one arm. *)
LEMMA KeyKinds ==
    /\ \A k \in IntKey : k \notin HeaderKey \cup RangeKey \cup BoolKey \cup TextKey /\ k # ProtectionKey
    /\ \A k \in HeaderKey \cup RangeKey : k \notin BoolKey \cup TextKey /\ k # ProtectionKey
    /\ \A k \in BoolKey : k \notin TextKey /\ k # ProtectionKey
    /\ ProtectionKey \notin TextKey
    BY DEF IntKey, HeaderKey, RangeKey, BoolKey, TextKey, ProtectionKey

(* Lemma: what an int key and a range key become. *)
LEMMA ParsedKey ==
    ASSUME NEW sec, SectionParses(sec), NEW k \in Present(sec)
    PROVE  /\ k \in IntKey => /\ ParseASecConfig(sec)[k] = ParseInt(sec[k])
                              /\ LinesOf(sec)[k] = FormatInt(ParseInt(sec[k]))
                              /\ IsInt(sec[k])
           /\ k \in HeaderKey \cup RangeKey =>
                              /\ ParseASecConfig(sec)[k] = ParseUintRange(sec[k])
                              /\ LinesOf(sec)[k] = FormatRange(ParseUintRange(sec[k]))
                              /\ IsUintRange(sec[k])
<1>1. KeyParses(k, sec[k])
    BY DEF SectionParses
<1>2. ParseASecConfig(sec)[k] = ParseKey(k, sec[k])
    BY DEF ParseASecConfig
<1>3. LinesOf(sec)[k] = FormatKey(k, ParseKey(k, sec[k]))
    BY DEF LinesOf, ASecLines, ParseASecConfig
<1>4. k \in IntKey => ParseKey(k, sec[k]) = ParseInt(sec[k])
                   /\ FormatKey(k, ParseInt(sec[k])) = FormatInt(ParseInt(sec[k]))
    BY KeyKinds DEF ParseKey, FormatKey
<1>5. k \in HeaderKey \cup RangeKey =>
                      ParseKey(k, sec[k]) = ParseUintRange(sec[k])
                   /\ FormatKey(k, ParseUintRange(sec[k])) = FormatRange(ParseUintRange(sec[k]))
    BY KeyKinds DEF ParseKey, FormatKey
<1> QED
    BY <1>1, <1>2, <1>3, <1>4, <1>5 DEF KeyParses

(* The types of the parser's and the serialiser's state. *)
THEOREM TypeCorrect == Spec => []TypeOK
<1>1. Inv => TypeOK
    <2> SUFFICES ASSUME Inv PROVE TypeOK
        OBVIOUS
    <2>1. CASE stage \in {"parsed", "sent"}
        <3>1. SectionParses(section) /\ conf = ParseASecConfig(section)
            BY <2>1 DEF Inv, Accepted
        <3>2. DOMAIN conf = Present(section)
            BY <3>1 DEF ParseASecConfig
        <3>3. DOMAIN lines \subseteq ASecKey
            BY <3>1, <3>2 DEF Inv, LinesOf, ASecLines, Present, NoKeys
        <3>4. ASSUME NEW k \in DOMAIN conf
              PROVE  /\ k \in IntKey => conf[k] \in (-MaxInt - 1) .. MaxInt
                     /\ k \in HeaderKey \cup RangeKey => conf[k] \in uintRange
            BY <3>1, <3>2, ParsedKey, IntRoundTrip, RangeRoundTrip
        <3> QED
            BY <3>2, <3>3, <3>4 DEF TypeOK, Inv, Present
    <2>2. CASE stage \notin {"parsed", "sent"}
        BY <2>2 DEF Inv, TypeOK, NoKeys
    <2> QED
        BY <2>1, <2>2
<1> QED
    BY <1>1, Invariance, PTL

(* No number stands for two message types at the device: the validation    *)
(* of the intervals carries through formatting, for all sections and all   *)
(* ranges up to MaxUint32.                                                 *)
THEOREM HeadersAreUnambiguous == Spec => []HeadersUnambiguous
<1>1. Inv => HeadersUnambiguous
    <2> SUFFICES ASSUME Inv, stage = "sent",
                        NEW n \in 0 .. MaxUint32, NEW i \in HeaderKey, NEW j \in HeaderKey,
                        n \in DeviceHeader(i).min .. DeviceHeader(i).max,
                        n \in DeviceHeader(j).min .. DeviceHeader(j).max
                 PROVE  i = j
        BY DEF HeadersUnambiguous
    <2>1. /\ SectionParses(section) /\ ValidateASecConfig(conf)
          /\ conf = ParseASecConfig(section) /\ lines = LinesOf(section)
        BY DEF Inv, Accepted
    <2>2. DOMAIN conf = Present(section) /\ DOMAIN lines = Present(section)
        BY <2>1 DEF LinesOf, ASecLines, ParseASecConfig
    <2>3. ASSUME NEW k \in HeaderKey
          PROVE  /\ DeviceHeader(k) = EffectiveHeader(conf, k)
                 /\ EffectiveHeader(conf, k).min \in Int
                 /\ EffectiveHeader(conf, k).max \in Int
        <3>1. CASE k \in Present(section)
            <4>1. /\ conf[k] = ParseUintRange(section[k])
                  /\ lines[k] = FormatRange(ParseUintRange(section[k]))
                  /\ IsUintRange(section[k])
                BY <2>1, <3>1, ParsedKey
            <4> QED
                BY <2>2, <3>1, <4>1, RangeRoundTrip, UintRangeAssumption
                DEF DeviceHeader, EffectiveHeader, Defined, uintRange
        <3>2. CASE k \notin Present(section)
            BY <2>2, <3>2 DEF DeviceHeader, EffectiveHeader, Defined, DefaultHeader, HeaderKey
        <3> QED
            BY <3>1, <3>2
    <2>4. CASE DOMAIN conf = {}
        BY <2>2, <2>4 DEF DeviceHeader, DefaultHeader, HeaderKey
    <2>5. CASE DOMAIN conf # {}
        <3>1. i # j => ~ Overlap(EffectiveHeader(conf, i), EffectiveHeader(conf, j))
            BY <2>1, <2>5 DEF ValidateASecConfig, HeadersAreValid
        <3> QED
            BY <2>3, <3>1 DEF Overlap
    <2> QED
        BY Zenon, <2>4, <2>5
<1> QED
    BY <1>1, Invariance, PTL

(* Header protection is never switched on without a nonce's worth of       *)
(* padding on each message type.                                           *)
THEOREM ProtectedHeadersHaveNonce == Spec => []ProtectionHasNonce
<1>1. Inv => ProtectionHasNonce
    <2> SUFFICES ASSUME Inv, stage = "sent", ProtectionKey \in DOMAIN lines, NEW k \in PaddingKey
                 PROVE  DevicePadding(k) >= headerCipherNonceSize
        BY DEF ProtectionHasNonce
    <2>1. /\ SectionParses(section) /\ ValidateASecConfig(conf)
          /\ conf = ParseASecConfig(section) /\ lines = LinesOf(section)
        BY DEF Inv, Accepted
    <2>2. DOMAIN conf = Present(section) /\ DOMAIN lines = Present(section)
        BY <2>1 DEF LinesOf, ASecLines, ParseASecConfig
    <2>3. k \in DOMAIN conf /\ conf[k] >= headerCipherNonceSize
        BY <2>1, <2>2 DEF ValidateASecConfig, ProtectionIsValid, Defined
    <2>4. k \in IntKey
        BY DEF PaddingKey, IntKey
    <2>5. DevicePadding(k) = conf[k]
        BY <2>1, <2>2, <2>3, <2>4, ParsedKey, IntRoundTrip DEF DevicePadding
    <2> QED
        BY <2>3, <2>5
<1> QED
    BY <1>1, Invariance, PTL

(* Equally long messages have a padding left at its default, and no         *)
(* protected headers: a wrapped comparison that tells two sizes apart tells *)
(* apart the integers, too.                                                 *)
THEOREM EqualSizesAreUnset == Spec => []EqualSizesAreDefaults
<1>1. Inv => EqualSizesAreDefaults
    <2> SUFFICES ASSUME Inv, stage = "sent", NEW i \in PaddingKey, NEW j \in PaddingKey,
                        i # j, DeviceSize(i) = DeviceSize(j)
                 PROVE  ProtectionKey \notin DOMAIN lines /\ ~ ({i, j} \subseteq DOMAIN lines)
        BY DEF EqualSizesAreDefaults
    <2>1. /\ SectionParses(section) /\ ValidateASecConfig(conf)
          /\ conf = ParseASecConfig(section) /\ lines = LinesOf(section)
        BY DEF Inv, Accepted
    <2>2. DOMAIN conf = Present(section) /\ DOMAIN lines = Present(section)
        BY <2>1 DEF LinesOf, ASecLines, ParseASecConfig
    <2>3. ASSUME NEW k \in PaddingKey, k \in DOMAIN lines
          PROVE  DevicePadding(k) = conf[k] /\ conf[k] \in Int /\ MessageSize[k] \in Int
        <3>1. k \in IntKey /\ MessageSize[k] \in Int
            BY DEF PaddingKey, IntKey, MessageSize
        <3>2. conf[k] \in (-MaxInt - 1) .. MaxInt /\ DevicePadding(k) = conf[k]
            BY <2>1, <2>2, <2>3, <3>1, ParsedKey, IntRoundTrip DEF DevicePadding
        <3> QED
            BY <3>1, <3>2, AWGConfigAssumption
    <2>4. ASSUME {i, j} \subseteq DOMAIN lines PROVE FALSE
        <3>1. ~ SameInt(MessageSize[i] + conf[i], MessageSize[j] + conf[j])
            BY <2>1, <2>2, <2>4 DEF ValidateASecConfig, SizesAreValid
        <3>2. MessageSize[i] + conf[i] = MessageSize[j] + conf[j] /\ MessageSize[i] + conf[i] \in Int
            BY <2>3, <2>4 DEF DeviceSize
        <3> QED
            BY <3>1, <3>2, AWGConfigAssumption DEF SameInt
    <2>5. ASSUME ProtectionKey \in DOMAIN lines PROVE {i, j} \subseteq DOMAIN lines
        BY <2>1, <2>2, <2>5 DEF ValidateASecConfig, ProtectionIsValid, Defined
    <2> QED
        BY <2>4, <2>5
<1> QED
    BY <1>1, Invariance, PTL

(* The request has a line for every parameter of the section and no other, *)
(* and each line, read back, has the value the section gave.               *)
THEOREM RequestIsFaithful == Spec => []RequestSaysTheSection
<1>1. Inv => RequestSaysTheSection
    <2> SUFFICES ASSUME Inv, stage = "sent" PROVE RequestSaysTheSection
        BY DEF RequestSaysTheSection
    <2>1. SectionParses(section) /\ lines = LinesOf(section)
        BY DEF Inv, Accepted
    <2>2. DOMAIN lines = Present(section)
        BY <2>1 DEF LinesOf, ASecLines, ParseASecConfig
    <2>3. ASSUME NEW k \in Present(section)
          PROVE  IF k = ProtectionKey THEN lines[k] = ToHex(section[k])
                 ELSE /\ KeyParses(k, lines[k])
                      /\ ParseKey(k, lines[k]) = ParseKey(k, section[k])
        <3> DEFINE text == section[k]
        <3>1. KeyParses(k, text) /\ lines[k] = FormatKey(k, ParseKey(k, text))
            BY <2>1 DEF SectionParses, LinesOf, ASecLines, ParseASecConfig
        <3>2. CASE k \in IntKey
            BY <2>1, <3>2, ParsedKey, IntRoundTrip, KeyKinds DEF KeyParses, ParseKey
        <3>3. CASE k \in HeaderKey \cup RangeKey
            BY <2>1, <3>3, ParsedKey, RangeRoundTrip, KeyKinds DEF KeyParses, ParseKey
        <3>4. CASE k \in BoolKey
            <4>1. ParseKey(k, text) = ParseBool(text)
                BY <3>4, KeyKinds DEF ParseKey
            <4>2. lines[k] = FormatBool(ParseBool(text))
                BY <3>1, <3>4, <4>1, KeyKinds DEF FormatKey
            <4>3. IsBool(lines[k]) /\ ParseBool(lines[k]) = ParseBool(text)
                BY <4>2 DEF FormatBool, IsBool, ParseBool, Yes, No
            <4>4. KeyParses(k, lines[k])
                BY <3>4, <4>3, KeyKinds DEF KeyParses
            <4>5. ParseKey(k, lines[k]) = ParseBool(lines[k])
                BY <3>4, KeyKinds DEF ParseKey
            <4> QED
                BY <3>4, <4>1, <4>3, <4>4, <4>5, KeyKinds
        <3>5. CASE k = ProtectionKey
            BY <3>1, <3>5, KeyKinds DEF ParseKey, FormatKey
        <3>6. CASE k \in TextKey
            BY <3>1, <3>6, KeyKinds DEF ParseKey, FormatKey, KeyParses
        <3> QED
            BY <3>2, <3>3, <3>4, <3>5, <3>6 DEF Present, ASecKey
    <2> QED
        BY <2>2, <2>3 DEF RequestSaysTheSection
<1> QED
    BY <1>1, Invariance, PTL
=============================================================================
