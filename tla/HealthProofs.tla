---------------------------- MODULE HealthProofs ----------------------------
(* The safety of the health endpoint, for any addresses, any number of      *)
(* goroutines, any interval and any resolution of the clock.                *)
EXTENDS Health, TLAPS

(* The lock: its holder is the one goroutine that is assigning. *)
WriterInv == \A k \in Slot : ping[k] = "writing" <=> writer = k

(* A goroutine holding a pong knows how old the newest pong can be. *)
PongInv ==
    \A k \in Slot : ping[k] \in {"got", "writing"} =>
        pingWait[k] <= MaxStall /\ pongAge[pingAddr[k]] <= pingWait[k]

(* A fresh record is at most MaxStall younger than a pong. *)
AgeInv == \A a \in Addr : recordAge[a] > Limit \/ pongAge[a] <= recordAge[a] + MaxStall

(* The inductive invariant: NoFalseReady follows from AgeInv, which a       *)
(* record preserves because of PongInv, and a tick because of WriterInv.    *)
Inv == TypeOK /\ WriterInv /\ PongInv /\ AgeInv

(* Lemma: the bounds of the model are numbers in this order. *)
LEMMA Bounds ==
    /\ Limit \in Nat /\ Old \in Nat /\ Never \in Nat /\ Deadline \in Nat /\ MaxStall \in Nat
    /\ Limit + MaxStall < Old /\ Old < Never
    BY HealthAssumption DEF Limit, Old, Never, Deadline

(* Lemma: a tick ages by one at most, and never makes younger. *)
LEMMA OlderStep == ASSUME NEW n \in Nat PROVE Older(n) \in Nat /\ n <= Older(n) /\ Older(n) <= n + 1
    BY Bounds DEF Older

(* Lemma: up to the limit of freshness every tick counts. *)
LEMMA OlderFresh == ASSUME NEW n \in Nat, n <= Limit PROVE Older(n) = n + 1
<1>1. n < Old
    BY Bounds
<1> QED
    BY <1>1 DEF Older

(* Lemma: the entries of CheckAlive are the addresses. *)
LEMMA Addresses ==
    /\ Len(CheckAlive) \in Nat /\ Len(CheckAlive) > 0
    /\ \A i \in 1 .. Len(CheckAlive) : CheckAlive[i] \in Addr
    BY HealthAssumption DEF Addr

(* Lemma: the clock stays within the second. *)
LEMMA PhaseTicks == ASSUME NEW p \in 0 .. TPS - 1 PROVE (p + 1) % TPS \in 0 .. TPS - 1
    BY HealthAssumption

(* The inductive invariant holds initially. *)
LEMMA InitInv == Init => Inv
<1> SUFFICES ASSUME Init PROVE Inv
    OBVIOUS
<1>1. TypeOK
    <2>1. crashed \in BOOLEAN
        BY DEF Init
    <2>2. CheckAlive[1] \in Addr /\ loopIndex \in 1 .. Len(CheckAlive) + 1
        BY Addresses DEF Init
    <2>3. pingWait \in [Slot -> 0 .. Deadline + MaxStall]
        BY HealthAssumption, Bounds DEF Init
    <2> QED
        BY <2>1, <2>2, <2>3, Bounds DEF Init, TypeOK
<1>2. WriterInv /\ PongInv
    BY HealthAssumption DEF Init, WriterInv, PongInv
<1>3. AgeInv
    BY HealthAssumption, Bounds DEF Init, AgeInv
<1> QED
    BY <1>1, <1>2, <1>3 DEF Inv

(* Each step of the ping loop, the goroutines, the handler and the clock    *)
(* keeps it.                                                                *)
LEMMA NextInv == Inv /\ [Next]_vars => Inv'
<1> SUFFICES ASSUME Inv, [Next]_vars PROVE Inv'
    OBVIOUS
<1>0. Alive => crashed' \in BOOLEAN
    BY DEF Alive, Inv, TypeOK
<1>10. 0 \in 0 .. Deadline + MaxStall
    BY HealthAssumption, Bounds
<1>1. ASSUME NEW k \in Slot, StartPing(k) PROVE Inv'
    <2>1. TypeOK'
        <3>1. loopIndex' \in 1 .. Len(CheckAlive) + 1 /\ CheckAlive[loopIndex] \in Addr
            BY <1>1, Addresses DEF StartPing, Inv, TypeOK
        <3>2. /\ ping' \in [Slot -> {"free", "waiting", "got", "writing"}] /\ pingAddr' \in [Slot -> Addr]
              /\ pingWait' \in [Slot -> 0 .. Deadline + MaxStall]
            BY <1>10, <1>1, <3>1 DEF StartPing, Inv, TypeOK
        <3>3. UNCHANGED <<loopPc, loopTimer, writer, recordAge, pongAge, reqPc, reqTodo, reqStatus, phase>>
            BY <1>1 DEF StartPing, recordVars, reqVars
        <3>4. crashed' \in BOOLEAN
            BY Zenon, <1>0, <1>1 DEF StartPing
        <3>5. /\ loopPc' \in {"ping", "sleep"} /\ loopTimer' \in Nat /\ writer' \in Slot \cup {NoSlot}
              /\ phase' \in 0 .. TPS - 1 /\ recordAge' \in [Addr -> Nat] /\ pongAge' \in [Addr -> Nat]
            BY <3>3 DEF Inv, TypeOK
        <3>6. /\ reqPc' \in {"idle", "marshal", "scan", "answer"} /\ reqTodo' \subseteq Addr
              /\ reqStatus' \in {200, 503}
            BY <3>3 DEF Inv, TypeOK
        <3> QED
            BY Zenon, <3>1, <3>2, <3>4, <3>5, <3>6 DEF TypeOK
    <2>2. WriterInv' /\ PongInv' /\ AgeInv'
        BY <1>1, HealthAssumption DEF StartPing, Inv, TypeOK, WriterInv, PongInv, AgeInv, recordVars
    <2> QED
        BY <2>1, <2>2 DEF Inv
<1>2. CASE SkipPing \/ Sleep \/ WakeUp
    <2>1. TypeOK'
        <3>1. loopPc' \in {"ping", "sleep"} /\ loopTimer' \in Nat
            BY <1>2 DEF SkipPing, Sleep, WakeUp, Inv, TypeOK
        <3>2. loopIndex' \in 1 .. Len(CheckAlive) + 1
            BY <1>2, Addresses DEF SkipPing, Sleep, WakeUp, Inv, TypeOK
        <3>3. UNCHANGED <<pingVars, recordVars, reqVars, phase>> /\ Alive
            BY <1>2 DEF SkipPing, Sleep, WakeUp
        <3> QED
            BY <1>0, <3>1, <3>2, <3>3 DEF Inv, TypeOK, recordVars, reqVars, pingVars
    <2>2. WriterInv' /\ PongInv' /\ AgeInv'
        BY <1>2 DEF SkipPing, Sleep, WakeUp, Inv, WriterInv, PongInv, AgeInv, recordVars, pingVars
    <2> QED
        BY <2>1, <2>2 DEF Inv
<1>3. ASSUME NEW k \in Slot, ReadPong(k) PROVE Inv'
    <2>1. TypeOK'
        BY <1>0, <1>10, <1>3 DEF ReadPong, Inv, TypeOK, loopVars, reqVars
    <2>2. WriterInv'
        BY <1>3, HealthAssumption DEF ReadPong, Inv, TypeOK, WriterInv
    <2>3. PongInv'
        BY <1>3, HealthAssumption, Bounds DEF ReadPong, Inv, TypeOK, PongInv
    <2>4. AgeInv'
        <3> SUFFICES ASSUME NEW a \in Addr
                     PROVE  recordAge'[a] > Limit \/ pongAge'[a] <= recordAge'[a] + MaxStall
            BY DEF AgeInv
        <3>1. recordAge'[a] = recordAge[a] /\ (pongAge'[a] = 0 \/ pongAge'[a] = pongAge[a])
            BY <1>3 DEF ReadPong, Inv, TypeOK
        <3>2. recordAge[a] > Limit \/ pongAge[a] <= recordAge[a] + MaxStall
            BY DEF Inv, AgeInv
        <3>3. recordAge[a] \in Nat /\ MaxStall \in Nat
            BY HealthAssumption DEF Inv, TypeOK
        <3> QED
            BY <3>1, <3>2, <3>3
    <2> QED
        BY <2>1, <2>2, <2>3, <2>4 DEF Inv
<1>4. ASSUME NEW k \in Slot, GiveUp(k) PROVE Inv'
    <2>1. TypeOK'
        BY <1>0, <1>10, <1>4 DEF GiveUp, Inv, TypeOK, loopVars, recordVars, reqVars
    <2>2. WriterInv' /\ PongInv' /\ AgeInv'
        BY <1>4, HealthAssumption DEF GiveUp, Inv, TypeOK, WriterInv, PongInv, AgeInv, recordVars
    <2> QED
        BY <2>1, <2>2 DEF Inv
<1>5. ASSUME NEW k \in Slot, RecordBegin(k) PROVE Inv'
    <2>1. TypeOK'
        BY <1>0, <1>5 DEF RecordBegin, Inv, TypeOK, loopVars, reqVars
    <2>2. WriterInv' /\ PongInv' /\ AgeInv'
        BY <1>5, HealthAssumption DEF RecordBegin, Inv, TypeOK, WriterInv, PongInv, AgeInv
    <2> QED
        BY <2>1, <2>2 DEF Inv
<1>6. ASSUME NEW k \in Slot, RecordEnd(k) PROVE Inv'
    <2>1. TypeOK'
        <3>1. phase \in Nat
            BY HealthAssumption DEF Inv, TypeOK
        <3> QED
            BY <1>0, <1>10, <1>6, <3>1 DEF RecordEnd, UnixNow, Inv, TypeOK, loopVars, reqVars
    <2>2. WriterInv' /\ PongInv'
        BY <1>6, HealthAssumption DEF RecordEnd, Inv, TypeOK, WriterInv, PongInv
    <2>3. pongAge[pingAddr[k]] <= MaxStall
        BY <1>6, HealthAssumption, Bounds DEF RecordEnd, Inv, TypeOK, WriterInv, PongInv
    <2>4. AgeInv'
        BY <1>6, <2>3, HealthAssumption, Bounds DEF RecordEnd, UnixNow, Inv, TypeOK, AgeInv
    <2> QED
        BY <2>1, <2>2, <2>4 DEF Inv
<1>7. CASE Readyz
    <2>1. /\ UNCHANGED <<loopVars, pingVars, recordVars, phase>>
          /\ reqPc' \in {"idle", "marshal", "scan", "answer"}
          /\ reqTodo' \subseteq Addr
          /\ reqStatus' \in {200, 503}
        BY <1>7 DEF Readyz, Request, MarshalDone, ScanDone, Answer, MapRace, MarshalOne, ScanOne,
                    Inv, TypeOK, reqVars, Alive
    <2>2. crashed' \in BOOLEAN
        <3>1. crashed' = crashed \/ crashed' = TRUE
            BY <1>7 DEF Readyz, Request, MarshalDone, ScanDone, Answer, MapRace, MarshalOne, ScanOne, Alive
        <3> QED
            BY <3>1 DEF Inv, TypeOK
    <2> QED
        BY <2>1, <2>2 DEF Inv, TypeOK, WriterInv, PongInv, AgeInv, loopVars, pingVars, recordVars
<1>8. CASE Tick
    <2>1. phase' \in 0 .. TPS - 1
        BY <1>8, PhaseTicks DEF Tick, Inv, TypeOK
    <2>2. TypeOK'
        <3>1. pingWait' \in [Slot -> 0 .. Deadline + MaxStall]
            <4>1. ASSUME NEW k \in Slot, ping[k] \in {"waiting", "got"}
                  PROVE  pingWait[k] + 1 \in 0 .. Deadline + MaxStall
                BY <1>8, <4>1, HealthAssumption, Bounds DEF Tick, PingMayWait, Inv, TypeOK
            <4> QED
                BY <1>10, <1>8, <4>1 DEF Tick
        <3>2. recordAge' \in [Addr -> Nat] /\ pongAge' \in [Addr -> Nat] /\ loopTimer' \in Nat
            BY <1>8, Bounds DEF Tick, Older, Inv, TypeOK
        <3> QED
            BY <1>0, <1>8, <2>1, <3>1, <3>2 DEF Tick, Inv, TypeOK, reqVars
    <2>3. WriterInv'
        BY <1>8 DEF Tick, Inv, WriterInv
    <2>4. PongInv'
        <3> SUFFICES ASSUME NEW k \in Slot, ping[k] \in {"got", "writing"}
                     PROVE  pingWait'[k] <= MaxStall /\ pongAge'[pingAddr[k]] <= pingWait'[k]
            BY <1>8 DEF Tick, PongInv
        <3>1. ping[k] = "got" /\ pingWait[k] < MaxStall
            BY <1>8, HealthAssumption DEF Tick, PingMayWait, Inv, WriterInv
        <3>2. pongAge[pingAddr[k]] <= pingWait[k]
            BY DEF Inv, PongInv
        <3>3. pingAddr[k] \in Addr /\ pingWait[k] \in Nat /\ pongAge[pingAddr[k]] \in Nat
            BY HealthAssumption, Bounds DEF Inv, TypeOK
        <3>4. pingWait'[k] = pingWait[k] + 1 /\ pongAge'[pingAddr[k]] = Older(pongAge[pingAddr[k]])
            BY <1>8, <3>1, <3>3 DEF Tick
        <3> QED
            BY <3>1, <3>2, <3>3, <3>4, OlderStep, Bounds
    <2>5. AgeInv'
        <3> SUFFICES ASSUME NEW a \in Addr
                     PROVE  recordAge'[a] > Limit \/ pongAge'[a] <= recordAge'[a] + MaxStall
            BY DEF AgeInv
        <3>1. recordAge'[a] = Older(recordAge[a]) /\ pongAge'[a] = Older(pongAge[a])
            BY <1>8 DEF Tick
        <3>2. recordAge[a] > Limit \/ pongAge[a] <= recordAge[a] + MaxStall
            BY DEF Inv, AgeInv
        <3>3. recordAge[a] \in Nat /\ pongAge[a] \in Nat
            BY DEF Inv, TypeOK
        <3> QED
            <4>1. CASE recordAge[a] > Limit
                BY <3>1, <3>3, <4>1, OlderStep, Bounds
            <4>2. CASE recordAge[a] <= Limit
                <5>1. Older(recordAge[a]) = recordAge[a] + 1
                    BY <3>3, <4>2, OlderFresh
                <5>2. pongAge[a] <= recordAge[a] + MaxStall
                    BY <3>2, <3>3, <4>2, Bounds
                <5> QED
                    BY <3>1, <3>3, <5>1, <5>2, OlderStep, Bounds
            <4> QED
                BY <3>3, <4>1, <4>2, Bounds
    <2> QED
        BY <2>2, <2>3, <2>4, <2>5 DEF Inv
<1>9. CASE UNCHANGED vars
    BY <1>9 DEF vars, loopVars, pingVars, recordVars, reqVars, Inv, TypeOK, WriterInv, PongInv, AgeInv
<1> QED
    BY <1>1, <1>2, <1>3, <1>4, <1>5, <1>6, <1>7, <1>8, <1>9 DEF Next, PingLoop, Pong

(* The inductive invariant holds throughout. *)
LEMMA Invariance == Safety => []Inv
    BY InitInv, NextInv, PTL DEF Safety

(* The types of the health endpoint's state. *)
THEOREM TypeCorrect == Safety => []TypeOK
<1>1. Inv => TypeOK
    BY DEF Inv
<1> QED
    BY <1>1, Invariance, PTL

(* An address /readyz takes for alive has sent a pong within the interval,  *)
(* its leeway and the stall of a goroutine.                                 *)
THEOREM FreshMeansPong == Safety => []NoFalseReady
<1>1. Inv => NoFalseReady
    BY HealthAssumption, Bounds DEF Inv, TypeOK, AgeInv, NoFalseReady, Stale
<1> QED
    BY <1>1, Invariance, PTL
-----------------------------------------------------------------------------
(* The record lags behind the newest pong by the cut to the second at most, *)
(* unless a goroutine has yet to write it or the pong is past all counting. *)
SilenceInv ==
    \A a \in Addr : Recorded(a) => pongAge[a] >= Old \/ recordAge[a] <= pongAge[a] + (TPS - 1)

(* Lemma: a tick keeps the record within its distance of the pong. *)
LEMMA OlderTogether ==
    ASSUME NEW r \in Nat, NEW p \in Nat, p >= Old \/ r <= p + (TPS - 1)
    PROVE  Older(p) >= Old \/ Older(r) <= Older(p) + (TPS - 1)
<1>1. CASE p >= Old
    BY <1>1, Bounds DEF Older
<1>2. CASE p < Old /\ r <= p + (TPS - 1)
    <2>1. Older(p) = p + 1
        BY <1>2 DEF Older
    <2> QED
        BY <1>2, <2>1, OlderStep, HealthAssumption
<1> QED
    BY <1>1, <1>2, Bounds

(* Each step keeps SilenceInv: a pong that is read is held by its goroutine *)
(* until the record has the present second.                                 *)
LEMMA SilenceStep ==
    ASSUME Inv, SilenceInv, [Next]_vars
    PROVE  SilenceInv'
<1> SUFFICES ASSUME NEW a \in Addr, Recorded(a)'
             PROVE  pongAge'[a] >= Old \/ recordAge'[a] <= pongAge'[a] + (TPS - 1)
    BY DEF SilenceInv
<1>0. /\ pongAge \in [Addr -> Nat] /\ recordAge \in [Addr -> Nat] /\ phase \in 0 .. TPS - 1
      /\ ping \in [Slot -> {"free", "waiting", "got", "writing"}] /\ pingAddr \in [Slot -> Addr]
    BY DEF Inv, TypeOK
<1> DEFINE Same == Recorded(a) /\ recordAge'[a] = recordAge[a] /\ pongAge'[a] = pongAge[a]
<1>1. Same => pongAge'[a] >= Old \/ recordAge'[a] <= pongAge'[a] + (TPS - 1)
    BY DEF SilenceInv
<1>2. ASSUME NEW k \in Slot, StartPing(k) PROVE Same
    <2>1. UNCHANGED <<recordAge, pongAge>> /\ ping[k] = "free"
        BY <1>2 DEF StartPing, recordVars
    <2>2. \A j \in Slot : j # k => ping'[j] = ping[j] /\ pingAddr'[j] = pingAddr[j]
        BY <1>0, <1>2 DEF StartPing
    <2> QED
        BY <2>1, <2>2 DEF Recorded
<1>3. ASSUME SkipPing \/ Sleep \/ WakeUp \/ Readyz \/ UNCHANGED vars PROVE Same
    <2>1. UNCHANGED <<pingVars, recordVars>>
        BY <1>3 DEF SkipPing, Sleep, WakeUp, Readyz, Request, MarshalOne, MarshalDone, ScanOne, ScanDone,
                    Answer, MapRace, vars
    <2>2. ping' = ping /\ pingAddr' = pingAddr /\ recordAge' = recordAge /\ pongAge' = pongAge
        BY <2>1 DEF pingVars, recordVars
    <2> QED
        BY <2>2 DEF Recorded
<1>4. ASSUME NEW k \in Slot, ReadPong(k) PROVE Same
    <2>1. ping'[k] = "got" /\ pingAddr'[k] = pingAddr[k]
        BY <1>0, <1>4 DEF ReadPong
    <2>2. pingAddr[k] # a
        BY <2>1 DEF Recorded
    <2> QED
        BY <1>0, <1>4, <2>2 DEF ReadPong, Recorded
<1>5. ASSUME NEW k \in Slot, GiveUp(k) PROVE Same
    BY <1>0, <1>5 DEF GiveUp, recordVars, Recorded
<1>6. ASSUME NEW k \in Slot, RecordBegin(k) PROVE Same
    BY <1>0, <1>6 DEF RecordBegin, Recorded
<1>7. ASSUME NEW k \in Slot, RecordEnd(k)
      PROVE  Same \/ recordAge'[a] <= pongAge'[a] + (TPS - 1)
    <2>1. CASE pingAddr[k] = a
        <3>1. recordAge'[a] = phase /\ pongAge'[a] = pongAge[a]
            BY <1>0, <1>7, <2>1 DEF RecordEnd, UnixNow
        <3> QED
            BY <1>0, <3>1, HealthAssumption
    <2>2. CASE pingAddr[k] # a
        BY <1>0, <1>7, <2>2 DEF RecordEnd, Recorded
    <2> QED
        BY <2>1, <2>2
<1>8. CASE Tick
    <2>1. recordAge'[a] = Older(recordAge[a]) /\ pongAge'[a] = Older(pongAge[a])
        BY <1>8 DEF Tick
    <2>2. Recorded(a)
        BY <1>8 DEF Tick, Recorded
    <2>3. pongAge[a] >= Old \/ recordAge[a] <= pongAge[a] + (TPS - 1)
        BY <2>2 DEF SilenceInv
    <2> QED
        BY <1>0, <2>1, <2>3, OlderTogether
<1> HIDE DEF Same
<1> QED
    BY <1>1, <1>2, <1>3, <1>4, <1>5, <1>6, <1>7, <1>8 DEF Next, PingLoop, Pong

(* An address whose pongs are recorded is taken for dead only when none was *)
(* read within the interval and the leeway, but for the cut to the second.  *)
THEOREM StaleMeansSilence == Safety => []NoFalseAlarm
<1>1. Init => SilenceInv
    BY Bounds DEF Init, SilenceInv
<1>2. Inv /\ SilenceInv => NoFalseAlarm
    <2> SUFFICES ASSUME Inv, SilenceInv, NEW a \in Addr, Stale(a), Recorded(a)
                 PROVE  pongAge[a] + TPS - 1 > Limit
        BY DEF NoFalseAlarm
    <2>1. pongAge[a] \in Nat /\ recordAge[a] \in Nat
        BY DEF Inv, TypeOK
    <2>2. pongAge[a] >= Old \/ recordAge[a] <= pongAge[a] + (TPS - 1)
        BY DEF SilenceInv
    <2> QED
        BY <2>1, <2>2, Bounds, HealthAssumption DEF Stale
<1> QED
    BY <1>1, <1>2, Invariance, SilenceStep, PTL DEF Safety
-----------------------------------------------------------------------------
(* The loop keeps its times, and so do the pongs of reliable addresses. *)
TimeInv ==
    /\ loopTimer <= IF loopPc = "ping" THEN MaxPingTime ELSE Deadline
    /\ \A k \in Slot : ping[k] = "waiting" /\ pingAddr[k] \in Reliable => pingWait[k] <= MaxRTT

(* The longest it takes until an address is pinged again. *)
Ahead(a) == \E i \in loopIndex .. Len(CheckAlive) : CheckAlive[i] = a
NextPing(a) ==
    CASE loopPc = "ping" /\ Ahead(a) -> MaxPingTime - loopTimer
      [] loopPc = "ping" /\ ~ Ahead(a) -> MaxPingTime - loopTimer + Deadline + MaxPingTime
      [] loopPc = "sleep" -> Deadline - loopTimer + MaxPingTime

(* The longest it takes a goroutine to record its pong. *)
NextRecord(k) ==
    CASE ping[k] = "waiting" -> MaxRTT - pingWait[k] + MaxStall
      [] ping[k] = "got" -> MaxStall - pingWait[k]
      [] OTHER -> 0

(* The next record of a reliable address is in time: a goroutine has yet    *)
(* to write it, or a ping is due.                                           *)
Underway(a) == \E k \in Slot : pingAddr[k] = a /\ ping[k] # "free" /\ recordAge[a] + NextRecord(k) <= Limit
Due(a) == recordAge[a] + NextPing(a) + MaxRTT + MaxStall <= Limit
FreshInv == \A a \in Reliable : recordAge[a] = Never \/ Underway(a) \/ Due(a)

(* Lemma: what the leeway is, in ticks. *)
LEMMA Leeway ==
    /\ Limit = Deadline + 2 * TPS /\ Deadline \in Nat /\ Limit \in Nat
    /\ MaxRTT \in Nat /\ MaxPingTime \in Nat /\ MaxStall \in Nat /\ TPS \in Nat \ {0}
    /\ Reliable \subseteq Addr
<1>1. \A m, n \in Nat : (m + 2) * n = m * n + 2 * n /\ m * n \in Nat
    OBVIOUS
<1> QED
    BY <1>1, HealthAssumption DEF Limit, Deadline, Addr

(* Lemma: the loop and the pongs keep their times. *)
LEMMA TimeStep == Inv /\ TimeInv /\ [Next]_vars => TimeInv'
<1> SUFFICES ASSUME Inv, TimeInv, [Next]_vars PROVE TimeInv'
    OBVIOUS
<1> USE Leeway
<1>1. ASSUME NEW k \in Slot, StartPing(k) PROVE TimeInv'
    BY <1>1 DEF StartPing, Inv, TypeOK, TimeInv
<1>2. CASE SkipPing \/ Sleep \/ WakeUp
    BY <1>2 DEF SkipPing, Sleep, WakeUp, TimeInv, pingVars
<1>3. ASSUME NEW k \in Slot, Pong(k) PROVE TimeInv'
    <2>1. /\ UNCHANGED <<loopVars, pingAddr>>
          /\ \A j \in Slot : ping'[j] = "waiting" => ping[j] = "waiting" /\ pingWait'[j] = pingWait[j]
        BY <1>3 DEF Pong, ReadPong, GiveUp, RecordBegin, RecordEnd, Inv, TypeOK
    <2> QED
        BY <2>1 DEF TimeInv, loopVars
<1>4. CASE Readyz
    BY <1>4 DEF Readyz, Request, MarshalDone, ScanDone, Answer, MapRace, MarshalOne, ScanOne,
                TimeInv, loopVars, pingVars
<1>5. CASE Tick
    <2>1. loopTimer' <= IF loopPc' = "ping" THEN MaxPingTime ELSE Deadline
        BY <1>5 DEF Tick, LoopMayWait, Deadline, Inv, TypeOK
    <2>2. ASSUME NEW k \in Slot, ping[k] = "waiting", pingAddr[k] \in Reliable
          PROVE  pingWait'[k] <= MaxRTT
        BY <1>5, <2>2 DEF Tick, PingMayWait, Inv, TypeOK
    <2> QED
        BY <1>5, <2>1, <2>2 DEF Tick, TimeInv
<1>6. CASE UNCHANGED vars
    BY <1>6 DEF vars, loopVars, pingVars, TimeInv
<1> QED
    BY <1>1, <1>2, <1>3, <1>4, <1>5, <1>6 DEF Next, PingLoop

(* Lemma: what is under way stays so when its goroutine, the record and the *)
(* clock are left alone.                                                    *)
LEMMA UnderwayStays ==
    ASSUME NEW a, NEW k \in Slot, pingAddr[k] = a, ping[k] # "free", recordAge[a] + NextRecord(k) <= Limit,
           pingAddr'[k] = pingAddr[k], ping'[k] = ping[k], pingWait'[k] = pingWait[k],
           recordAge'[a] = recordAge[a]
    PROVE  Underway(a)'
<1>1. NextRecord(k)' = NextRecord(k)
    BY DEF NextRecord
<1> QED
    BY <1>1 DEF Underway

(* Lemma: nor is a ping that is due put off while the loop rests. *)
LEMMA DueStays ==
    ASSUME NEW a, Due(a), recordAge'[a] = recordAge[a], UNCHANGED <<loopPc, loopTimer>>, Ahead(a)' <=> Ahead(a)
    PROVE  Due(a)'
<1>1. NextPing(a)' = NextPing(a)
    BY Zenon DEF NextPing
<1> QED
    BY <1>1 DEF Due

(* Lemma: once recorded, a reliable address has its next record in time.    *)
(* The hard case is RecordEnd, where nothing else may be under way and the  *)
(* address may just have been passed by the loop.                           *)
LEMMA FreshStep ==
    ASSUME InTime, Inv, Inv', TimeInv, FreshInv, [Next]_vars
    PROVE  FreshInv'
<1> SUFFICES ASSUME NEW a \in Reliable, recordAge'[a] # Never
             PROVE  Underway(a)' \/ Due(a)'
    BY DEF FreshInv
<1>8. Deadline \in Nat /\ Limit \in Nat /\ MaxRTT \in Nat /\ MaxPingTime \in Nat /\ MaxStall \in Nat
    BY Leeway
<1>0. /\ a \in Addr /\ recordAge[a] \in Nat /\ recordAge'[a] \in Nat
      /\ loopTimer \in Nat /\ loopIndex \in Nat /\ loopPc \in {"ping", "sleep"} /\ Len(CheckAlive) \in Nat
    BY Addresses, Leeway DEF Inv, TypeOK
<1>1. ASSUME NEW k \in Slot, StartPing(k) PROVE Underway(a)' \/ Due(a)'
    <2>1. recordAge'[a] = recordAge[a] /\ loopPc = "ping" /\ UNCHANGED <<loopPc, loopTimer>>
        BY <1>1 DEF StartPing, recordVars
    <2>2. CASE Underway(a)
        <3>1. PICK j \in Slot : pingAddr[j] = a /\ ping[j] # "free" /\ recordAge[a] + NextRecord(j) <= Limit
            BY <2>2 DEF Underway
        <3>2. pingAddr'[j] = pingAddr[j] /\ ping'[j] = ping[j] /\ pingWait'[j] = pingWait[j]
            BY <1>1, <3>1 DEF StartPing, Inv, TypeOK
        <3> QED
            BY <2>1, <3>1, <3>2, UnderwayStays
    <2>3. CASE Due(a) /\ CheckAlive[loopIndex] = a
        <3>1. recordAge[a] + (MaxPingTime - loopTimer) + MaxRTT + MaxStall <= Limit
            <4>1. Ahead(a)
                BY <1>0, <1>1, <2>3 DEF StartPing, Ahead
            <4>2. NextPing(a) = MaxPingTime - loopTimer
                BY <2>1, <4>1 DEF NextPing
            <4> QED
                BY <2>3, <4>2 DEF Due
        <3>2. loopTimer <= MaxPingTime
            BY <2>1 DEF TimeInv
        <3>3. pingAddr'[k] = a /\ ping'[k] = "waiting" /\ pingWait'[k] = 0
            BY <1>1, <2>3 DEF StartPing, Inv, TypeOK
        <3>4. NextRecord(k)' = MaxRTT - 0 + MaxStall
            BY <3>3 DEF NextRecord
        <3>5. recordAge'[a] + NextRecord(k)' <= Limit
            <4>1. recordAge[a] + (MaxRTT - 0 + MaxStall) <= Limit
                BY <1>0, <1>8, <3>1, <3>2
            <4> QED
                BY Zenon, <2>1, <3>4, <4>1
        <3> QED
            BY <3>3, <3>5 DEF Underway
    <2>4. CASE Due(a) /\ CheckAlive[loopIndex] # a
        <3>1. Ahead(a)' <=> Ahead(a)
            BY <1>0, <1>1, <2>4 DEF StartPing, Ahead
        <3> QED
            BY <2>1, <2>4, <3>1, DueStays
    <2> QED
        BY <2>1, <2>2, <2>3, <2>4 DEF FreshInv
<1>2. CASE SkipPing
    <2>1. recordAge'[a] = recordAge[a] /\ UNCHANGED <<loopPc, loopTimer, pingVars>> /\ CheckAlive[loopIndex] # a
        BY <1>2 DEF SkipPing, recordVars
    <2>2. Ahead(a)' <=> Ahead(a)
        BY <1>0, <1>2, <2>1 DEF SkipPing, Ahead
    <2>3. Underway(a) => Underway(a)'
        BY <2>1, UnderwayStays DEF Underway, pingVars
    <2> QED
        BY <2>1, <2>2, <2>3, DueStays DEF FreshInv
<1>3. CASE Sleep \/ WakeUp
    <2>1. recordAge'[a] = recordAge[a] /\ UNCHANGED pingVars
        BY <1>3 DEF Sleep, WakeUp, recordVars
    <2>2. Underway(a) => Underway(a)'
        BY <2>1, UnderwayStays DEF Underway, pingVars
    <2>3. NextPing(a)' <= NextPing(a) /\ NextPing(a) \in Int /\ NextPing(a)' \in Int
        <3>1. CASE Sleep
            <4>1. ~ Ahead(a) /\ loopPc = "ping" /\ loopPc' = "sleep" /\ loopTimer' = 0
                BY <1>0, <3>1 DEF Sleep, Ahead
            <4>2. NextPing(a)' = Deadline - 0 + MaxPingTime
                BY <4>1 DEF NextPing
            <4>3. NextPing(a) = MaxPingTime - loopTimer + Deadline + MaxPingTime /\ loopTimer <= MaxPingTime
                BY <4>1 DEF NextPing, TimeInv
            <4> QED
                BY <1>0, <1>8, <4>2, <4>3
        <3>2. CASE WakeUp
            <4>1. loopPc = "sleep" /\ loopPc' = "ping" /\ loopTimer' = 0 /\ loopIndex' = 1
                BY <3>2 DEF WakeUp
            <4>2. Ahead(a)'
                BY <1>0, <4>1, HealthAssumption DEF Ahead, Addr, Range
            <4>3. NextPing(a)' = MaxPingTime - 0
                BY <4>1, <4>2 DEF NextPing
            <4>4. NextPing(a) = Deadline - loopTimer + MaxPingTime /\ loopTimer <= Deadline
                BY <4>1 DEF NextPing, TimeInv
            <4> QED
                BY <1>0, <1>8, <4>3, <4>4
        <3> QED
            BY <1>3, <3>1, <3>2
    <2>4. Due(a) => Due(a)'
        BY <1>0, <1>8, <2>1, <2>3 DEF Due
    <2> QED
        BY <2>1, <2>2, <2>4 DEF FreshInv
<1>4. ASSUME NEW k \in Slot, RecordEnd(k), pingAddr[k] = a PROVE Due(a)'
    <2>1. recordAge'[a] = phase /\ phase \in Nat /\ phase <= TPS - 1
        BY <1>0, <1>4, Leeway DEF RecordEnd, UnixNow, Inv, TypeOK
    <2>2. /\ loopPc' \in {"ping", "sleep"} /\ loopTimer' \in Nat
          /\ loopTimer' <= IF loopPc' = "ping" THEN MaxPingTime ELSE Deadline
        BY <1>0, <1>4 DEF RecordEnd, loopVars, TimeInv
    <2>3. NextPing(a)' \in Int /\ NextPing(a)' <= Deadline + 2 * MaxPingTime
        <3>1. CASE loopPc' = "ping" /\ Ahead(a)'
            BY <1>8, <2>2, <3>1 DEF NextPing
        <3>2. CASE loopPc' = "ping" /\ ~ Ahead(a)'
            BY <1>8, <2>2, <3>2 DEF NextPing
        <3>3. CASE loopPc' = "sleep"
            BY <1>8, <2>2, <3>3 DEF NextPing
        <3> QED
            BY <2>2, <3>1, <3>2, <3>3
    <2> QED
        BY <1>8, <2>1, <2>3, Leeway DEF Due, InTime
<1>5. ASSUME NEW k \in Slot, Pong(k), ~ (RecordEnd(k) /\ pingAddr[k] = a) PROVE Underway(a)' \/ Due(a)'
    <2>1. UNCHANGED <<loopVars, pingAddr>>
        BY <1>5 DEF Pong, ReadPong, GiveUp, RecordBegin, RecordEnd
    <2>0. recordAge'[a] = recordAge[a]
        <3>1. CASE RecordEnd(k)
            BY <1>0, <1>5, <3>1 DEF RecordEnd, Inv, TypeOK
        <3>2. CASE ReadPong(k) \/ GiveUp(k) \/ RecordBegin(k)
            BY <3>2 DEF ReadPong, GiveUp, RecordBegin, recordVars
        <3> QED
            BY <1>5, <3>1, <3>2 DEF Pong
    <2>2. Due(a) => Due(a)'
        BY <2>0, <2>1, DueStays DEF Ahead, loopVars
    <2>3. ASSUME NEW j \in Slot, pingAddr[j] = a, ping[j] # "free", recordAge[a] + NextRecord(j) <= Limit
          PROVE  Underway(a)' \/ Due(a)'
        <3>1. CASE j # k
            <4>1. pingAddr'[j] = pingAddr[j] /\ ping'[j] = ping[j] /\ pingWait'[j] = pingWait[j]
                <5>1. ping \in [Slot -> {"free", "waiting", "got", "writing"}] /\ pingWait \in [Slot -> 0 .. Deadline + MaxStall]
                    BY ZenonT(40) DEF Inv, TypeOK
                <5>2. CASE ReadPong(k) \/ GiveUp(k)
                    BY <2>1, <3>1, <5>1, <5>2 DEF ReadPong, GiveUp
                <5>3. CASE RecordBegin(k) \/ RecordEnd(k)
                    BY <2>1, <3>1, <5>1, <5>3 DEF RecordBegin, RecordEnd
                <5> QED
                    BY <1>5, <5>2, <5>3 DEF Pong
            <4> QED
                BY Zenon, <2>0, <2>3, <4>1, UnderwayStays
        <3>2. CASE j = k /\ ReadPong(k)
            <4>1. ping[k] = "waiting" /\ ping'[k] = "got" /\ pingWait'[k] = 0 /\ pingWait[k] \in Nat
                BY <3>2 DEF ReadPong, Inv, TypeOK
            <4>2. NextRecord(k) = MaxRTT - pingWait[k] + MaxStall /\ NextRecord(k)' = MaxStall - 0
                BY <4>1 DEF NextRecord
            <4>3. pingWait[k] <= MaxRTT
                <5>1. pingAddr[k] \in Reliable
                    BY Zenon, <2>3, <3>2
                <5> QED
                    BY Zenon, <4>1, <5>1 DEF TimeInv
            <4>4. recordAge'[a] + NextRecord(k)' <= Limit
                <5>1. recordAge[a] + (MaxRTT - pingWait[k] + MaxStall) <= Limit
                    BY Zenon, <2>3, <3>2, <4>2
                <5>2. recordAge[a] + (MaxStall - 0) <= Limit
                    BY SMTT(30), <1>0, <1>8, <4>1, <4>3, <5>1
                <5> QED
                    BY Zenon, <2>0, <4>2, <5>2
            <4> QED
                BY <2>1, <2>3, <3>2, <4>1, <4>4 DEF Underway
        <3>3. CASE j = k /\ GiveUp(k)
            <4>1. pingWait[k] = Deadline /\ pingWait[k] <= MaxRTT
                <5>1. pingAddr[k] \in Reliable
                    BY Zenon, <2>3, <3>3
                <5> QED
                    BY Zenon, <3>3, <5>1 DEF GiveUp, TimeInv
            <4> QED
                BY <1>8, <4>1 DEF InTime
        <3>4. CASE j = k /\ RecordBegin(k)
            <4>1. ping[k] = "got" /\ ping'[k] = "writing" /\ pingWait[k] \in Nat /\ pingWait[k] <= MaxStall
                BY <3>4 DEF RecordBegin, Inv, TypeOK, PongInv
            <4>2. NextRecord(k) = MaxStall - pingWait[k] /\ NextRecord(k)' = 0
                BY <4>1 DEF NextRecord
            <4>3. recordAge'[a] + NextRecord(k)' <= Limit
                <5>1. recordAge[a] + (MaxStall - pingWait[k]) <= Limit
                    BY Zenon, <2>3, <3>4, <4>2
                <5>2. recordAge[a] + 0 <= Limit
                    BY SMTT(30), <1>0, <1>8, <4>1, <5>1
                <5> QED
                    BY Zenon, <2>0, <4>2, <5>2
            <4> QED
                BY <2>1, <2>3, <3>4, <4>1, <4>3 DEF Underway
        <3>5. CASE j = k /\ RecordEnd(k)
            BY <1>5, <2>3, <3>5
        <3> QED
            BY Zenon, <1>5, <3>1, <3>2, <3>3, <3>4, <3>5 DEF Pong
    <2> QED
        BY <2>0, <2>2, <2>3 DEF FreshInv, Underway
<1>6. CASE Readyz \/ UNCHANGED vars
    <2>1. UNCHANGED <<loopVars, pingVars, recordVars>>
        BY <1>6 DEF Readyz, Request, MarshalDone, ScanDone, Answer, MapRace, MarshalOne, ScanOne, vars
    <2>2. recordAge'[a] = recordAge[a]
        BY SMTT(30), <2>1 DEF recordVars
    <2>3. Underway(a) => Underway(a)'
        BY <2>1, <2>2, UnderwayStays DEF Underway, pingVars
    <2>4. Due(a) => Due(a)'
        BY <2>1, <2>2, DueStays DEF Ahead, loopVars
    <2> QED
        BY <2>2, <2>3, <2>4 DEF FreshInv
<1>7. CASE Tick
    <2>1. /\ loopTimer' = loopTimer + 1 /\ UNCHANGED <<loopPc, loopIndex, ping, pingAddr>>
          /\ recordAge'[a] = Older(recordAge[a])
        BY <1>0, <1>7 DEF Tick
    <2>2. ASSUME recordAge[a] = Never PROVE FALSE
        BY <1>0, <2>1, <2>2, Bounds DEF Older
    <2>3. ASSUME NEW j \in Slot, pingAddr[j] = a, ping[j] # "free", recordAge[a] + NextRecord(j) <= Limit
          PROVE  Underway(a)'
        <3>1. pingWait[j] \in Nat /\ ping[j] \in {"waiting", "got"} /\ pingWait'[j] = pingWait[j] + 1
            <4>1. ping[j] # "writing"
                BY <1>7, HealthAssumption DEF Tick, Inv, WriterInv
            <4>2. pingWait[j] \in Nat /\ ping[j] \in {"waiting", "got"}
                BY SMTT(30), <2>3, <4>1 DEF Inv, TypeOK
            <4> QED
                BY Zenon, <1>7, <4>2 DEF Tick
        <3>2. NextRecord(j) \in Int /\ NextRecord(j) >= 0 /\ NextRecord(j)' = NextRecord(j) - 1
            <4>1. CASE ping[j] = "waiting"
                <5>1. pingWait[j] <= MaxRTT
                    BY <2>3, <4>1 DEF TimeInv
                <5> QED
                    BY <1>8, <2>1, <3>1, <4>1, <5>1 DEF NextRecord
            <4>2. CASE ping[j] = "got"
                <5>1. pingWait[j] <= MaxStall
                    BY <4>2 DEF Inv, PongInv
                <5> QED
                    BY <1>8, <2>1, <3>1, <4>2, <5>1 DEF NextRecord
            <4> QED
                BY <3>1, <4>1, <4>2
        <3>3. recordAge'[a] = recordAge[a] + 1
            <4>1. recordAge[a] <= Limit
                BY <1>0, <1>8, <2>3, <3>2
            <4> QED
                BY Zenon, <1>0, <2>1, <4>1, OlderFresh
        <3>4. recordAge'[a] + NextRecord(j)' <= Limit
            BY SMTT(30), <1>0, <1>8, <2>3, <3>2, <3>3
        <3> QED
            BY SMTT(30), <2>1, <2>3, <3>4 DEF Underway
    <2>4. ASSUME Due(a) PROVE Due(a)'
        <3>1. Ahead(a)' <=> Ahead(a)
            BY <2>1 DEF Ahead
        <3>2. NextPing(a) \in Nat /\ NextPing(a)' = NextPing(a) - 1
            <4>1. loopTimer <= IF loopPc = "ping" THEN MaxPingTime ELSE Deadline
                BY DEF TimeInv
            <4>2. CASE loopPc = "ping" /\ Ahead(a)
                <5>1. NextPing(a) = MaxPingTime - loopTimer /\ NextPing(a)' = MaxPingTime - (loopTimer + 1)
                    BY <2>1, <3>1, <4>2 DEF NextPing
                <5> QED
                    BY <1>0, <1>8, <4>1, <4>2, <5>1
            <4>3. CASE loopPc = "ping" /\ ~ Ahead(a)
                <5>1. /\ NextPing(a) = MaxPingTime - loopTimer + Deadline + MaxPingTime
                      /\ NextPing(a)' = MaxPingTime - (loopTimer + 1) + Deadline + MaxPingTime
                    BY <2>1, <3>1, <4>3 DEF NextPing
                <5> QED
                    BY <1>0, <1>8, <4>1, <4>3, <5>1
            <4>4. CASE loopPc = "sleep"
                <5>1. /\ NextPing(a) = Deadline - loopTimer + MaxPingTime
                      /\ NextPing(a)' = Deadline - (loopTimer + 1) + MaxPingTime
                    BY <2>1, <4>4 DEF NextPing
                <5> QED
                    BY <1>0, <1>8, <4>1, <4>4, <5>1
            <4> QED
                BY <1>0, <4>2, <4>3, <4>4
        <3>3. recordAge[a] <= Limit
            BY <1>0, <1>8, <2>4, <3>2 DEF Due
        <3>4. recordAge'[a] = recordAge[a] + 1
            BY <1>0, <2>1, <3>3, OlderFresh
        <3> QED
            <4>1. recordAge[a] + NextPing(a) + MaxRTT + MaxStall <= Limit
                BY <2>4 DEF Due
            <4>2. (recordAge[a] + 1) + (NextPing(a) - 1) + MaxRTT + MaxStall <= Limit
                <5>1. recordAge[a] \in Nat /\ NextPing(a) \in Nat
                    BY <1>0, <3>2
                <5> QED
                    BY <1>8, <4>1, <5>1
            <4>3. recordAge'[a] + NextPing(a)' + MaxRTT + MaxStall <= Limit
                BY <3>2, <3>4, <4>2, Zenon
            <4> QED
                BY <4>3 DEF Due
    <2> QED
        BY <2>2, <2>3, <2>4 DEF FreshInv, Underway
<1> QED
    BY <1>1, <1>2, <1>3, <1>4, <1>5, <1>6, <1>7 DEF Next, PingLoop

(* Lemma: the two further parts of the invariant hold throughout, with a    *)
(* timing that suits the interval.                                          *)
LEMMA InTimeInvariance == ASSUME InTime PROVE Safety => [](Inv /\ TimeInv /\ FreshInv)
<1>1. Init => TimeInv /\ FreshInv
    BY Leeway DEF Init, TimeInv, FreshInv
<1>2. Inv /\ TimeInv /\ FreshInv /\ [Next]_vars => (Inv /\ TimeInv /\ FreshInv)'
    BY NextInv, TimeStep, FreshStep
<1> QED
    BY <1>1, <1>2, InitInv, PTL DEF Safety

(* An address whose pings go out and are answered in time is never found    *)
(* stale by /readyz after its first record: the 2 seconds of routine.go:336 *)
(* are enough for every interval, clock resolution and number of            *)
(* goroutines with that timing.                                             *)
THEOREM ReliableNeverStale == Safety => []ReliableStaysFresh
<1>1. CASE InTime
    <2>1. Inv /\ TimeInv /\ FreshInv => ReliableStaysFresh
        <3> SUFFICES ASSUME Inv, TimeInv, FreshInv, NEW a \in Reliable, recordAge[a] # Never
                     PROVE  recordAge[a] <= Limit
            BY Leeway DEF ReliableStaysFresh, Stale, Inv, TypeOK
        <3>1. recordAge[a] \in Nat /\ loopTimer \in Nat /\ loopPc \in {"ping", "sleep"}
            BY Leeway DEF Inv, TypeOK
        <3>2. CASE Underway(a)
            <4>1. PICK k \in Slot : pingAddr[k] = a /\ recordAge[a] + NextRecord(k) <= Limit
                BY <3>2 DEF Underway
            <4>2. pingWait[k] \in Nat /\ NextRecord(k) \in Int /\ NextRecord(k) >= 0
                <5>1. pingWait[k] \in Nat
                    BY DEF Inv, TypeOK
                <5>2. CASE ping[k] = "waiting"
                    BY <4>1, <5>1, <5>2, Leeway DEF NextRecord, TimeInv
                <5>3. CASE ping[k] = "got"
                    BY <5>1, <5>3, Leeway DEF NextRecord, Inv, PongInv
                <5>4. CASE ping[k] \notin {"waiting", "got"}
                    BY <5>1, <5>4 DEF NextRecord
                <5> QED
                    BY <5>1, <5>2, <5>3, <5>4
            <4> QED
                BY <3>1, <4>1, <4>2, Leeway
        <3>3. CASE Due(a)
            <4>1. NextPing(a) \in Int /\ NextPing(a) >= 0
                BY <3>1, Leeway DEF NextPing, TimeInv
            <4> QED
                BY <3>1, <3>3, <4>1, Leeway DEF Due
        <3> QED
            BY <3>2, <3>3 DEF FreshInv
    <2> QED
        BY <1>1, <2>1, InTimeInvariance, PTL
<1>2. CASE ~ InTime
    <2>1. ReliableStaysFresh
        BY <1>2 DEF ReliableStaysFresh
    <2> QED
        BY <2>1, PTL
<1> QED
    BY <1>1, <1>2
=============================================================================
