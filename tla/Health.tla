------------------------------- MODULE Health -------------------------------
(***************************************************************************)
(* The health endpoint (routine.go): a loop that pings every address of    *)
(* CheckAlive each round, one goroutine per ping that waits for the pong   *)
(* and stores its time in the map PingRecord, and the handler of /readyz,  *)
(* which reads that map, twice and without PingRecordLock, to answer with  *)
(* its contents and a status.                                              *)
(*                                                                         *)
(* Time passes in ticks, TPS of them to a second.  A record is a Unix time *)
(* in whole seconds; the model keeps its age, time.Since(lastPong), so a   *)
(* record written at some phase of a second is born with that age.  The    *)
(* record 0 that StartPingIPs writes is older than any other: Never.       *)
(***************************************************************************)
EXTENDS Integers, Sequences, Functions

CONSTANTS
    CheckAlive,   \* the addresses to ping, a sequence
    Interval,     \* CheckAliveInterval, in seconds
    TPS,          \* ticks per second
    Slot,         \* bound: the ping goroutines that may exist at a time
    NoSlot,       \* nobody
    Reliable,     \* the addresses whose pings all get out and are answered
    MaxRTT,       \* ticks to the pong of such an address
    MaxPingTime,  \* bound: ticks pingIPs takes to go through the addresses
    MaxStall      \* bound: ticks a goroutine with a pong waits to record it

ASSUME HealthAssumption ==
    /\ Interval \in Nat /\ TPS \in Nat \ {0}
    /\ NoSlot \notin Slot
    /\ Reliable \subseteq Range(CheckAlive)
    /\ MaxRTT \in Nat /\ MaxPingTime \in Nat /\ MaxStall \in Nat
    /\ CheckAlive \in Seq(Range(CheckAlive)) /\ CheckAlive # <<>>

Addr == Range(CheckAlive)
Limit == (Interval + 2) * TPS
Old == Limit + MaxStall + 1   \* ages beyond this are not told apart
Never == Old + 1              \* the age of the record 0
Deadline == Interval * TPS

VARIABLES
    loopPc,      \* the ping loop: "ping" or "sleep"
    loopIndex,   \* the next address to ping
    loopTimer,   \* ticks spent in this part of the loop
    ping,        \* per goroutine: "free", "waiting", "got" or "writing"
    pingAddr,    \* the address it has pinged
    pingWait,    \* ticks since its read deadline was set, or its pong read
    writer,      \* who holds PingRecordLock and is assigning to the map
    phase,       \* position of the clock within the second
    recordAge,   \* age of PingRecord[a]
    pongAge,     \* history: ticks since the last pong of a was read
    reqPc,       \* the handler: "idle", "marshal", "scan", "answer"
    reqTodo,     \* the keys its current iteration has still to visit
    reqStatus,   \* the status it answers with
    crashed      \* the runtime has stopped the process

loopVars == <<loopPc, loopIndex, loopTimer>>
pingVars == <<ping, pingAddr, pingWait>>
recordVars == <<writer, recordAge, pongAge>>
reqVars == <<reqPc, reqTodo, reqStatus>>
vars == <<loopVars, pingVars, recordVars, reqVars, phase, crashed>>

TypeOK ==
    /\ loopPc \in {"ping", "sleep"}
    /\ loopIndex \in 1 .. Len(CheckAlive) + 1
    /\ loopTimer \in Nat
    /\ ping \in [Slot -> {"free", "waiting", "got", "writing"}]
    /\ pingAddr \in [Slot -> Addr]
    /\ pingWait \in [Slot -> 0 .. Deadline + MaxStall]
    /\ writer \in Slot \cup {NoSlot}
    /\ phase \in 0 .. TPS - 1
    /\ recordAge \in [Addr -> Nat]
    /\ pongAge \in [Addr -> Nat]
    /\ reqPc \in {"idle", "marshal", "scan", "answer"}
    /\ reqTodo \subseteq Addr
    /\ reqStatus \in {200, 503}
    /\ crashed \in BOOLEAN

Init ==
    /\ loopPc = "ping" /\ loopIndex = 1 /\ loopTimer = 0
    /\ ping = [k \in Slot |-> "free"]
    /\ pingAddr = [k \in Slot |-> CheckAlive[1]]
    /\ pingWait = [k \in Slot |-> 0]
    /\ writer = NoSlot
    /\ phase \in 0 .. TPS - 1
    /\ recordAge = [a \in Addr |-> Never]
    /\ pongAge = [a \in Addr |-> Never]
    /\ reqPc = "idle" /\ reqTodo = {} /\ reqStatus = 200
    /\ crashed = FALSE
-----------------------------------------------------------------------------
(* The process has not been ended, and this step does not end it. *)
Alive == ~ crashed /\ UNCHANGED crashed

(* The ping loop *)

(* Mutant: the record is written when the ping is sent. *)
StartPingRecords(k) ==
    /\ loopPc = "ping" /\ loopIndex <= Len(CheckAlive)
    /\ ping[k] = "free"
    /\ ping' = [ping EXCEPT ![k] = "waiting"]
    /\ pingAddr' = [pingAddr EXCEPT ![k] = CheckAlive[loopIndex]]
    /\ pingWait' = [pingWait EXCEPT ![k] = 0]
    /\ recordAge' = [recordAge EXCEPT ![CheckAlive[loopIndex]] = phase]
    /\ loopIndex' = loopIndex + 1
    /\ UNCHANGED <<loopPc, loopTimer, writer, pongAge, reqVars, phase>> /\ Alive

(* One address: a socket, a deadline, a request and its goroutine, *)
StartPing(k) ==
    /\ loopPc = "ping" /\ loopIndex <= Len(CheckAlive)
    /\ ping[k] = "free"
    /\ ping' = [ping EXCEPT ![k] = "waiting"]
    /\ pingAddr' = [pingAddr EXCEPT ![k] = CheckAlive[loopIndex]]
    /\ pingWait' = [pingWait EXCEPT ![k] = 0]
    /\ loopIndex' = loopIndex + 1
    /\ UNCHANGED <<loopPc, loopTimer, recordVars, reqVars, phase>> /\ Alive

(* Mutant: one address too many. *)
SkipPingOffByOne ==
    /\ loopPc = "ping" /\ loopIndex <= Len(CheckAlive) + 1
    /\ loopIndex' = loopIndex + 1
    /\ UNCHANGED <<loopPc, loopTimer, pingVars, recordVars, reqVars, phase>> /\ Alive

(* or an error on the way there: the address is skipped this round. *)
SkipPing ==
    /\ loopPc = "ping" /\ loopIndex <= Len(CheckAlive)
    /\ CheckAlive[loopIndex] \notin Reliable
    /\ loopIndex' = loopIndex + 1
    /\ UNCHANGED <<loopPc, loopTimer, pingVars, recordVars, reqVars, phase>> /\ Alive

Sleep ==
    /\ loopPc = "ping" /\ loopIndex = Len(CheckAlive) + 1
    /\ loopPc' = "sleep" /\ loopTimer' = 0
    /\ UNCHANGED <<loopIndex, pingVars, recordVars, reqVars, phase>> /\ Alive

(* Mutant: the next round goes on where the last one ended. *)
WakeUpWithoutReset ==
    /\ loopPc = "sleep" /\ loopTimer = Interval * TPS
    /\ loopPc' = "ping" /\ loopTimer' = 0
    /\ UNCHANGED <<loopIndex, pingVars, recordVars, reqVars, phase>> /\ Alive

WakeUp ==
    /\ loopPc = "sleep" /\ loopTimer = Interval * TPS
    /\ loopPc' = "ping" /\ loopIndex' = 1 /\ loopTimer' = 0
    /\ UNCHANGED <<pingVars, recordVars, reqVars, phase>> /\ Alive
-----------------------------------------------------------------------------
(* The goroutine of a ping *)

(* A matching pong is read before the deadline. *)
ReadPong(k) ==
    /\ ping[k] = "waiting" /\ pingWait[k] < Deadline
    /\ ping' = [ping EXCEPT ![k] = "got"]
    /\ pingWait' = [pingWait EXCEPT ![k] = 0]
    /\ pongAge' = [pongAge EXCEPT ![pingAddr[k]] = 0]
    /\ UNCHANGED <<pingAddr, loopVars, writer, recordAge, reqVars, phase>> /\ Alive

(* The deadline, a read error, or a reply that does not match. *)
GiveUp(k) ==
    /\ ping[k] = "waiting"
    /\ pingWait[k] = Deadline \/ pingAddr[k] \notin Reliable
    /\ ping' = [ping EXCEPT ![k] = "free"]
    /\ pingWait' = [pingWait EXCEPT ![k] = 0]
    /\ UNCHANGED <<pingAddr, loopVars, recordVars, reqVars, phase>> /\ Alive

(* The assignment to the map is not one step for a reader without the lock. *)
RecordBegin(k) ==
    /\ ping[k] = "got" /\ writer = NoSlot
    /\ ping' = [ping EXCEPT ![k] = "writing"]
    /\ writer' = k
    /\ UNCHANGED <<pingAddr, pingWait, loopVars, recordAge, pongAge, reqVars, phase>> /\ Alive

(* Mutant: the time of the second before. *)
UnixBefore == phase + TPS

(* uint64(time.Now().Unix()): the age of the present, cut to the second. *)
UnixNow == phase

RecordEnd(k) ==
    /\ writer = k
    /\ recordAge' = [recordAge EXCEPT ![pingAddr[k]] = UnixNow]
    /\ writer' = NoSlot
    /\ ping' = [ping EXCEPT ![k] = "free"]
    /\ pingWait' = [pingWait EXCEPT ![k] = 0]
    /\ UNCHANGED <<pingAddr, pongAge, loopVars, reqVars, phase>> /\ Alive
-----------------------------------------------------------------------------
(* A request for /readyz *)

Request ==
    /\ reqPc = "idle"
    /\ reqPc' = "marshal" /\ reqTodo' = Addr /\ reqStatus' = 200
    /\ UNCHANGED <<loopVars, pingVars, recordVars, phase>> /\ Alive

(* json.Marshal reads one entry of the map for the body. *)
MarshalOne(a) ==
    /\ reqPc = "marshal" /\ a \in reqTodo
    /\ reqTodo' = reqTodo \ {a}
    /\ UNCHANGED <<reqPc, reqStatus, loopVars, pingVars, recordVars, phase>> /\ Alive

MarshalDone ==
    /\ reqPc = "marshal" /\ reqTodo = {}
    /\ reqPc' = "scan" /\ reqTodo' = Addr
    /\ UNCHANGED <<reqStatus, loopVars, pingVars, recordVars, phase>> /\ Alive

(* Mutants: no leeway; only an address that never answered is stale. *)
StaleWithoutLeeway(a) == recordAge[a] > Interval * TPS
StaleIfNever(a) == recordAge[a] = Never

Stale(a) == recordAge[a] > Limit

(* The second loop reads one record, and breaks at a stale one. *)
ScanOne(a) ==
    /\ reqPc = "scan" /\ a \in reqTodo
    /\ IF Stale(a)
          THEN reqStatus' = 503 /\ reqPc' = "answer" /\ reqTodo' = {}
          ELSE reqTodo' = reqTodo \ {a} /\ UNCHANGED <<reqStatus, reqPc>>
    /\ UNCHANGED <<loopVars, pingVars, recordVars, phase>> /\ Alive

ScanDone ==
    /\ reqPc = "scan" /\ reqTodo = {}
    /\ reqPc' = "answer"
    /\ UNCHANGED <<reqTodo, reqStatus, loopVars, pingVars, recordVars, phase>> /\ Alive

Answer ==
    /\ reqPc = "answer"
    /\ reqPc' = "idle" /\ reqStatus' = 200
    /\ UNCHANGED <<reqTodo, loopVars, pingVars, recordVars, phase>> /\ Alive

(* An iteration step that meets an assignment may be caught by the runtime: *)
(* "concurrent map iteration and map write" is fatal.                       *)
MapRace ==
    /\ reqPc \in {"marshal", "scan"} /\ writer # NoSlot
    /\ ~ crashed /\ crashed' = TRUE
    /\ UNCHANGED <<loopVars, pingVars, recordVars, reqVars, phase>>
-----------------------------------------------------------------------------
(* A clock tick.  The loop, the deadlines and the goroutines keep their    *)
(* times; a map assignment is too short for a tick.                        *)
LoopMayWait == loopTimer < (IF loopPc = "ping" THEN MaxPingTime ELSE Interval * TPS)

PingMayWait(k) ==
    /\ ping[k] = "waiting" => pingWait[k] < Deadline /\ (pingAddr[k] \in Reliable => pingWait[k] < MaxRTT)
    /\ ping[k] = "got" => pingWait[k] < MaxStall

Older(age) == IF age < Old THEN age + 1 ELSE age

Tick ==
    /\ LoopMayWait /\ writer = NoSlot /\ \A k \in Slot : PingMayWait(k)
    /\ loopTimer' = loopTimer + 1
    /\ pingWait' = [k \in Slot |-> IF ping[k] \in {"waiting", "got"} THEN pingWait[k] + 1 ELSE 0]
    /\ phase' = (phase + 1) % TPS
    /\ recordAge' = [a \in Addr |-> Older(recordAge[a])]
    /\ pongAge' = [a \in Addr |-> Older(pongAge[a])]
    /\ UNCHANGED <<loopPc, loopIndex, ping, pingAddr, writer, reqVars>> /\ Alive

PingLoop == SkipPing \/ Sleep \/ WakeUp \/ \E k \in Slot : StartPing(k)

Pong(k) == ReadPong(k) \/ GiveUp(k) \/ RecordBegin(k) \/ RecordEnd(k)

Readyz ==
    \/ Request \/ MarshalDone \/ ScanDone \/ Answer \/ MapRace
    \/ \E a \in Addr : MarshalOne(a) \/ ScanOne(a)

Next == PingLoop \/ (\E k \in Slot : Pong(k)) \/ Readyz \/ Tick

Safety == Init /\ [][Next]_vars

(* The goroutines run, the clock advances, and the lock, which is never     *)
(* held for long, is granted.  Requests need not come.                      *)
Fairness ==
    /\ WF_vars(Tick)
    /\ WF_vars(PingLoop)
    /\ \A k \in Slot :
          /\ WF_vars(ReadPong(k) \/ GiveUp(k))
          /\ SF_vars(RecordBegin(k))
          /\ WF_vars(RecordEnd(k))

Spec == Safety /\ Fairness
-----------------------------------------------------------------------------
(* /readyz is not optimistic: an address the handler takes for alive has    *)
(* sent a pong within CheckAliveInterval + 2 seconds, plus what a goroutine *)
(* waits for PingRecordLock between reading the pong and stamping it        *)
(* (routine.go:419-460), whatever pings were lost, late or skipped and in   *)
(* whichever order the goroutines of an address write.                      *)
NoFalseReady == \A a \in Addr : ~ Stale(a) => pongAge[a] <= Limit + MaxStall

(* No goroutine holds a pong of the address that it has yet to record. *)
Recorded(a) == \A k \in Slot : pingAddr[k] = a => ping[k] \in {"free", "waiting"}

(* Nor is it too pessimistic: once the pongs of an address are recorded, it *)
(* is taken for dead only if none was read within CheckAliveInterval + 1    *)
(* seconds, the truncation of the record having cost less than the other    *)
(* second, whichever of its goroutines wrote last (routine.go:336, 459).    *)
NoFalseAlarm ==
    \A a \in Addr : Stale(a) /\ Recorded(a) => pongAge[a] + TPS - 1 > Limit

(* An address that falls silent is reported: its record becomes stale       *)
(* unless it answers again (routine.go:336).                                *)
SilenceIsReported ==
    \A a \in Addr : (pongAge[a] > 0) ~> (pongAge[a] = 0 \/ Stale(a) \/ crashed)

(* No flapping: an address whose pings all go out and are answered soon     *)
(* enough for the leeway of 2 seconds, which the truncation of the records  *)
(* nearly halves, is found alive in the end and stays so, whatever the      *)
(* other addresses do.                                                      *)
StaysReady == \A a \in Reliable : <>[](~ Stale(a) \/ crashed)

(* The timing for which the leeway is enough: a pong comes before its read  *)
(* deadline, and two passes over the addresses, a pong's way and a stall    *)
(* take no more than a second, the other one being lost to truncation.      *)
InTime == MaxRTT < Deadline /\ MaxRTT + 2 * MaxPingTime + MaxStall <= TPS + 1

(* With that timing the record of an address that answers is never stale,   *)
(* from the first one on, although rounds drift, goroutines of one address  *)
(* finish in any order and others hold them up (routine.go:336, 473).       *)
ReliableStaysFresh == InTime => \A a \in Reliable : recordAge[a] = Never \/ ~ Stale(a)

(* README: "If a pong has not been received from one of the addresses       *)
(* within the last CheckAliveInterval seconds (+2 seconds ...), then it     *)
(* would respond with a 503, otherwise a 200."  A pong that has been read   *)
(* but not yet recorded is not held against the handler.                    *)
StaleMeansNoPong ==
    \A a \in Addr : Stale(a) /\ Recorded(a) => pongAge[a] > Limit

(* README: /readyz "responds with a json"; it does not end the process.     *)
ReadyzSurvives == ~ crashed
=============================================================================
