-------------------------- MODULE KeepaliveProofs ---------------------------
(* The properties of Keepalive, for every width of an int, every text and  *)
(* every assignment to the fields.                                         *)
EXTENDS Keepalive, TLAPS

(* What is known of the parsed range and of the fields at each stage.      *)
RangeInv ==
    /\ stage = "loaded" => keepAliveRange = NoRange /\ ~ assigned
    /\ keepAliveRange # NoRange => keepAliveRange = ParseUintRange(Raw)
    /\ stage \in {"parsed", "done", "failed"} /\ text # NoText => keepAliveRange # NoRange
    /\ keepAliveRange # NoRange /\ ~ assigned => RangeIsCurrent

(* The inductive invariant. *)
Inv == TypeOK /\ RangeInv /\ RequestIsCurrent /\ FileRangeIsExact

(* Lemma: int(u) is an int of the build. *)
LEMMA ToIntFits ==
    ASSUME NEW u \in 0 .. MaxUint32
    PROVE  ToInt(u) \in (-IntMax - 1) .. IntMax
    BY UintRangeAssumption, KeepaliveAssumption DEF ToInt, Modulus

(* Lemma: an int that fits survives uint32(i). *)
LEMMA ToUint32Exact ==
    ASSUME NEW i \in 0 .. MaxUint32, i <= IntMax
    PROVE  ToUint32(i) = i /\ ToInt(i) = i
    BY UintRangeAssumption, KeepaliveAssumption DEF ToUint32, ToInt, Modulus

(* The inductive invariant holds initially. *)
LEMMA InitInv == Init => Inv
<1> SUFFICES ASSUME Init PROVE Inv
    OBVIOUS
<1>1. KeepAlive \in (-IntMax - 1) .. IntMax /\ KeepAliveMax \in (-IntMax - 1) .. IntMax
    BY KeepaliveAssumption DEF Init
<1>2. TypeOK
    BY <1>1 DEF Init, TypeOK
<1>3. RangeInv
    BY DEF Init, RangeInv
<1>4. RequestIsCurrent /\ FileRangeIsExact
    BY DEF Init, RequestIsCurrent, FileRangeIsExact
<1> QED
    BY <1>2, <1>3, <1>4 DEF Inv

(* Each step of parsing, assigning and serialising keeps it. *)
LEMMA NextInv == Inv /\ [Next]_vars => Inv'
<1> SUFFICES ASSUME Inv, [Next]_vars PROVE Inv'
    OBVIOUS
<1> USE UintRangeAssumption, KeepaliveAssumption
<1>1. CASE ParsePeer
    <2> DEFINE r == ParseUintRange(Raw)
    <2>1. r \in uintRange
        <3> DEFINE a == Raw[1]
                   b == Raw[Len(Raw)]
        <3>1. a \in 0 .. MaxUint32 /\ b \in 0 .. MaxUint32 /\ a <= b
            BY <1>1 DEF ParsePeer, IsUintRange, IsUint32
        <3>2. r = [min |-> a, max |-> b]
            BY DEF ParseUintRange
        <3> HIDE DEF a, b, r
        <3> QED
            BY <3>1, <3>2 DEF uintRange
    <2>2. r.min \in 0 .. MaxUint32 /\ r.max \in 0 .. MaxUint32 /\ r # NoRange
        BY <2>1 DEF uintRange
    <2>3. Raw' = Raw
        BY <1>1 DEF ParsePeer, Raw
    <2>4. TypeOK'
        BY <1>1, <2>1, <2>2, ToIntFits DEF ParsePeer, Inv, TypeOK
    <2>5. RangeInv'
        BY <1>1, <2>2, <2>3 DEF ParsePeer, RangeInv, RangeIsCurrent
    <2>6. RequestIsCurrent' /\ FileRangeIsExact'
        BY <1>1 DEF ParsePeer, RequestIsCurrent, FileRangeIsExact
    <2> QED
        BY <2>4, <2>5, <2>6 DEF Inv
<1>2. CASE ParsePeerFails
    BY <1>2 DEF ParsePeerFails, Inv, TypeOK, RangeInv, RequestIsCurrent, FileRangeIsExact, Raw, RangeIsCurrent
<1>3. CASE ParsePeerWithout
    BY <1>3 DEF ParsePeerWithout, Inv, TypeOK, RangeInv, RequestIsCurrent, FileRangeIsExact, Raw, RangeIsCurrent
<1>4. ASSUME NEW min \in Assigned, NEW max \in Assigned, Assign(min, max) PROVE Inv'
    BY <1>4 DEF Assign, Inv, TypeOK, RangeInv, RequestIsCurrent, FileRangeIsExact, Raw
<1>5. CASE CreateIPCRequest
    <2>1. Raw' = Raw
        BY <1>5 DEF CreateIPCRequest, Raw
    <2>2. RangeInv'
        BY <1>5, <2>1 DEF CreateIPCRequest, Inv, RangeInv, RangeIsCurrent
    <2>3. CASE RangeIsCurrent
        BY <1>5, <2>1, <2>2, <2>3
        DEF CreateIPCRequest, Inv, TypeOK, RangeInv, RangeIsCurrent, RequestIsCurrent, FileRangeIsExact
    <2>4. CASE ~ RangeIsCurrent
        <3>1. KeepAlive \in 0 .. MaxUint32 /\ KeepAlive <= IntMax
              /\ KeepAliveMax \in 0 .. MaxUint32 /\ KeepAliveMax <= IntMax
            BY <1>5, <2>4 DEF CreateIPCRequest, FieldsFit, Inv, TypeOK
        <3> DEFINE top == IF KeepAliveMax > KeepAlive THEN KeepAliveMax ELSE KeepAlive
        <3>2. request' = [min |-> KeepAlive, max |-> top]
            BY <1>5, <2>4, <3>1, ToUint32Exact DEF CreateIPCRequest, FieldsRange
        <3>3. request' \in uintRange
            BY <3>1, <3>2 DEF uintRange
        <3>4. TypeOK'
            BY <1>5, <3>3 DEF CreateIPCRequest, Inv, TypeOK
        <3>5. RequestIsCurrent'
            BY <1>5, <3>1, <3>2, ToUint32Exact DEF CreateIPCRequest, RequestIsCurrent, ToInt, Modulus
        <3>6. FileRangeIsExact'
            BY <1>5, <2>4 DEF CreateIPCRequest, Inv, RangeInv, FileRangeIsExact
        <3> QED
            BY <2>2, <3>4, <3>5, <3>6 DEF Inv
    <2> QED
        BY <2>3, <2>4
<1>6. CASE CreateIPCRequestFails
    BY <1>6 DEF CreateIPCRequestFails, Inv, TypeOK, RangeInv, RequestIsCurrent, FileRangeIsExact, Raw, RangeIsCurrent
<1>7. CASE UNCHANGED vars
    BY <1>7 DEF vars, Inv, TypeOK, RangeInv, RequestIsCurrent, FileRangeIsExact, Raw, RangeIsCurrent
<1> QED
    BY <1>1, <1>2, <1>3, <1>4, <1>5, <1>6, <1>7 DEF Next

(* The inductive invariant holds throughout. *)
LEMMA Invariance == Spec => []Inv
    BY InitInv, NextInv, PTL DEF Spec

(* On a build of any width the fields stay ints and the ranges uint32.     *)
THEOREM TypeCorrect == Spec => []TypeOK
<1>1. Inv => TypeOK
    BY DEF Inv
<1> QED
    BY <1>1, Invariance, PTL

(* The request never carries a range the fields no longer agree with.      *)
THEOREM RequestFollowsFields == Spec => []RequestIsCurrent
<1>1. Inv => RequestIsCurrent
    BY DEF Inv
<1> QED
    BY <1>1, Invariance, PTL

(* A range in the file reaches the device exactly, also when an int is no  *)
(* wider than a uint32.                                                    *)
THEOREM FileRangeReachesDevice == Spec => []FileRangeIsExact
<1>1. Inv => FileRangeIsExact
    BY DEF Inv
<1> QED
    BY <1>1, Invariance, PTL
=============================================================================
