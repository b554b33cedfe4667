------------------------------ MODULE UDPProxy ------------------------------
(***************************************************************************)
(* The UDP proxy tunnel (udp_proxy.go): a main loop that receives the      *)
(* clients' datagrams, a map of sessions guarded by sessionMu, a sweeper   *)
(* that evicts idle sessions, and one handler goroutine per session that   *)
(* relays the replies and owns the session's connection.                   *)
(*                                                                         *)
(* Time.  The code compares instants only by their difference, so the      *)
(* model keeps ages: idle[s] is the present minus s.lastActive, lag is the *)
(* present minus the `now' the sweeper read before it asked for the lock.  *)
(* An age stops counting at AgeCap, beyond which no comparison can tell    *)
(* two values apart.                                                       *)
(*                                                                         *)
(* A Session is an udpSession object; an object nobody refers to any more  *)
(* may stand for a new session, which is how a finite set of them models   *)
(* an unbounded number of sessions.                                        *)
(***************************************************************************)
EXTENDS Integers

CONSTANTS
    Client,             \* the source addresses (keys of the map)
    Session,            \* the udpSession objects
    NoSession,          \* the absence of a session
    InactivityTimeout,  \* in clock ticks; not above 0: sessions never expire
    MaxLag,             \* bound: ticks a sweep may take, its wait for the lock included
    Tear                \* error of a torn read of lastActive: 0 on 64-bit builds

ASSUME UDPProxyAssumption ==
    /\ NoSession \notin Session
    /\ InactivityTimeout \in Int
    /\ MaxLag \in Nat
    /\ Tear \in Nat

VARIABLES
    sessions,    \* [Client -> Session or NoSession], the map
    sessionMu,   \* who holds the mutex across steps: "free", "main", "sweeper"
    mainPc,      \* where the main loop is
    mainSrc,     \* the source of the datagram in the main loop's hands
    mainSession, \* the session pointer the main loop holds
    sweepPc,     \* where the sweeper is: "wait", "lock", "scan"
    sweepTodo,   \* the keys the sweeper's range loop has still to visit
    lag,         \* age of the sweeper's `now'
    remoteConn,  \* "open" or "closed", per session
    closeChan,   \* "open" or "closed", per session
    srcAddr,     \* the client a session's handler answers to
    idle,        \* age of lastActive, per session
    handler,     \* where the session's handler goroutine is
    quiet        \* history: age of the last datagram stamped for the session

mainVars == <<mainPc, mainSrc, mainSession>>
sweepVars == <<sweepPc, sweepTodo, lag>>
sessionVars == <<remoteConn, closeChan, srcAddr, handler>>
ageVars == <<idle, quiet>>
vars == <<sessions, sessionMu, mainVars, sweepVars, sessionVars, ageVars>>

AgeCap == IF InactivityTimeout > 0 THEN InactivityTimeout + MaxLag ELSE 0

TypeOK ==
    /\ sessions \in [Client -> Session \cup {NoSession}]
    /\ sessionMu \in {"free", "main", "sweeper"}
    /\ mainPc \in {"receive", "lookup", "dial", "stamp", "send"}
    /\ mainSrc \in Client
    /\ mainSession \in IF mainPc \in {"stamp", "send"} THEN Session ELSE {NoSession}
    /\ sweepPc \in {"wait", "lock", "scan"}
    /\ sweepTodo \subseteq Client
    /\ lag \in 0 .. MaxLag
    /\ remoteConn \in [Session -> {"open", "closed"}]
    /\ closeChan \in [Session -> {"open", "closed"}]
    /\ srcAddr \in [Session -> Client]
    /\ idle \in [Session -> 0 .. AgeCap]
    /\ handler \in [Session ->
           {"check", "read", "stamp", "reply", "remove", "close", "gone"}]
    /\ quiet \in [Session -> 0 .. AgeCap]

Init ==
    /\ sessions = [c \in Client |-> NoSession]
    /\ sessionMu = "free"
    /\ mainPc = "receive" /\ mainSrc \in Client /\ mainSession = NoSession
    /\ sweepPc = "wait" /\ sweepTodo = {} /\ lag = 0
    /\ remoteConn = [s \in Session |-> "closed"]
    /\ closeChan = [s \in Session |-> "closed"]
    /\ srcAddr = [s \in Session |-> mainSrc]
    /\ idle = [s \in Session |-> 0]
    /\ handler = [s \in Session |-> "gone"]
    /\ quiet = [s \in Session |-> 0]
-----------------------------------------------------------------------------
(* An object no goroutine refers to: its handler has returned and the main *)
(* loop does not hold it (the map never does, see MappedSessionIsLive).    *)
Free(s) == handler[s] = "gone" /\ mainSession # s

(* s.lastActive = time.Now(), and the fact that s carried a datagram. *)
Stamp(s) ==
    /\ idle' = [idle EXCEPT ![s] = 0]
    /\ quiet' = [quiet EXCEPT ![s] = 0]

(* The values the sweeper may read from s.lastActive, as ages.  The read   *)
(* races with the stamps that the main loop and the handler make without   *)
(* the lock.  Sub uses one 64-bit word of the two instants, which a 64-bit *)
(* build reads in one piece; the 32-bit builds read it in two halves, and  *)
(* a read that meets a stamp may be off by the weight of the upper half    *)
(* (about 4.3 s).  Only the extremes of the range matter to Expired.       *)
BeingStamped(s) ==
    \/ mainPc = "stamp" /\ mainSession = s
    \/ handler[s] = "stamp"

LastActiveReads(s) ==
    IF Tear > 0 /\ BeingStamped(s) THEN 0 .. (idle[s] + Tear) ELSE {idle[s]}

(* Mutant: the operands of Sub swapped. *)
ExpiredSwapped(age) == lag - age >= InactivityTimeout

(* now.Sub(sess.lastActive) >= inactivityDur, for a value read. *)
Expired(age) == age - lag >= InactivityTimeout

(* Mutant: the key is deleted but the channel is not closed. *)
EvictUnsignalled(c) ==
    /\ closeChan' = closeChan
    /\ sessions' = [sessions EXCEPT ![c] = NoSession]

(* Both callers of closeSessionChan hold the lock and remove the key too:  *)
(* the session of key c leaves the map with its channel closed.            *)
Evict(c) ==
    /\ closeChan' = [closeChan EXCEPT ![sessions[c]] = "closed"]
    /\ sessions' = [sessions EXCEPT ![c] = NoSession]
-----------------------------------------------------------------------------
(* The main loop *)

Receive(c) ==
    /\ mainPc = "receive"
    /\ mainSrc' = c
    /\ mainPc' = "lookup"
    /\ UNCHANGED <<sessions, sessionMu, mainSession, sweepVars, sessionVars, ageVars>>

(* getOrCreateSession finds a session and stamps it under the lock. *)
FindSession ==
    /\ mainPc = "lookup" /\ sessionMu = "free"
    /\ sessions[mainSrc] # NoSession
    /\ mainSession' = sessions[mainSrc]
    /\ Stamp(sessions[mainSrc])
    /\ mainPc' = "stamp"
    /\ UNCHANGED <<sessions, sessionMu, mainSrc, sweepVars, sessionVars>>

(* getOrCreateSession finds none and dials with the lock held. *)
Dial ==
    /\ mainPc = "lookup" /\ sessionMu = "free"
    /\ sessions[mainSrc] = NoSession
    /\ sessionMu' = "main"
    /\ mainPc' = "dial"
    /\ UNCHANGED <<sessions, mainSrc, mainSession, sweepVars, sessionVars, ageVars>>

(* Mutants: the error path forgets to unlock; the loop does not `continue'. *)
DialFailedLocked ==
    /\ mainPc = "dial"
    /\ mainPc' = "receive"
    /\ UNCHANGED <<sessions, sessionMu, mainSrc, mainSession, sweepVars, sessionVars, ageVars>>

DialFailedGoesOn ==
    /\ mainPc = "dial"
    /\ sessionMu' = "free"
    /\ mainPc' = "stamp"
    /\ UNCHANGED <<sessions, mainSrc, mainSession, sweepVars, sessionVars, ageVars>>

DialFailed ==
    /\ mainPc = "dial"
    /\ sessionMu' = "free"
    /\ mainPc' = "receive"
    /\ UNCHANGED <<sessions, mainSrc, mainSession, sweepVars, sessionVars, ageVars>>

CreateSession(s) ==
    /\ mainPc = "dial"
    /\ Free(s)
    /\ remoteConn' = [remoteConn EXCEPT ![s] = "open"]
    /\ closeChan' = [closeChan EXCEPT ![s] = "open"]
    /\ srcAddr' = [srcAddr EXCEPT ![s] = mainSrc]
    /\ Stamp(s)
    /\ sessions' = [sessions EXCEPT ![mainSrc] = s]
    /\ handler' = [handler EXCEPT ![s] = "check"]
    /\ mainSession' = s
    /\ sessionMu' = "free"
    /\ mainPc' = "stamp"
    /\ UNCHANGED <<mainSrc, sweepVars>>

(* Back in the loop, the session is stamped again, without the lock. *)
StampSent ==
    /\ mainPc = "stamp"
    /\ Stamp(mainSession)
    /\ mainPc' = "send"
    /\ UNCHANGED <<sessions, sessionMu, mainSrc, mainSession, sweepVars, sessionVars>>

(* The write may meet a closed connection: the error is only logged. *)
Send ==
    /\ mainPc = "send"
    /\ mainSession' = NoSession
    /\ mainPc' = "receive"
    /\ UNCHANGED <<sessions, sessionMu, mainSrc, sweepVars, sessionVars, ageVars>>
-----------------------------------------------------------------------------
(* The sweeper *)

(* The ticker fires and `now' is read before the lock is asked for. *)
SweepStart ==
    /\ InactivityTimeout > 0
    /\ sweepPc = "wait"
    /\ lag' = 0
    /\ sweepPc' = "lock"
    /\ UNCHANGED <<sessions, sessionMu, mainVars, sweepTodo, sessionVars, ageVars>>

SweepLock ==
    /\ sweepPc = "lock" /\ sessionMu = "free"
    /\ sessionMu' = "sweeper"
    /\ sweepTodo' = {c \in Client : sessions[c] # NoSession}
    /\ sweepPc' = "scan"
    /\ UNCHANGED <<sessions, mainVars, lag, sessionVars, ageVars>>

(* One round of the range loop, on a key the map iterator picks. *)
SweepOne(c) ==
    /\ sweepPc = "scan" /\ c \in sweepTodo
    /\ sweepTodo' = sweepTodo \ {c}
    /\ \E age \in LastActiveReads(sessions[c]) :
          IF Expired(age) THEN Evict(c) ELSE UNCHANGED <<closeChan, sessions>>
    /\ UNCHANGED <<sessionMu, mainVars, sweepPc, lag, remoteConn, srcAddr, handler, ageVars>>

SweepEnd ==
    /\ sweepPc = "scan" /\ sweepTodo = {}
    /\ sessionMu' = "free"
    /\ sweepPc' = "wait"
    /\ lag' = 0
    /\ UNCHANGED <<sessions, mainVars, sweepTodo, sessionVars, ageVars>>
-----------------------------------------------------------------------------
(* The handler of session s: handleRemoteToLocal *)

HandlerUnchanged == UNCHANGED <<sessions, sessionMu, mainVars, sweepVars>>

HandlerGoes(s, from, to) ==
    /\ handler[s] = from
    /\ handler' = [handler EXCEPT ![s] = to]

(* Mutant: the handler does not look at its channel. *)
UnlessClosedBlind(s, next) == next

(* Where a look at closeChan sends the handler: out, or on to `next'. *)
UnlessClosed(s, next) == IF closeChan[s] = "closed" THEN "remove" ELSE next

CheckClosed(s) ==
    /\ HandlerGoes(s, "check", UnlessClosed(s, "read"))
    /\ UNCHANGED <<remoteConn, closeChan, srcAddr, ageVars>> /\ HandlerUnchanged

(* Mutant: no read deadline is set. *)
ReadForever(s) == FALSE

(* Read meets its five second deadline: look again, then loop. *)
ReadTimeout(s) ==
    /\ HandlerGoes(s, "read", UnlessClosed(s, "check"))
    /\ UNCHANGED <<remoteConn, closeChan, srcAddr, ageVars>> /\ HandlerUnchanged

ReadReply(s) ==
    /\ HandlerGoes(s, "read", "stamp")
    /\ UNCHANGED <<remoteConn, closeChan, srcAddr, ageVars>> /\ HandlerUnchanged

(* Any other read error is final. *)
ReadFails(s) ==
    /\ HandlerGoes(s, "read", "remove")
    /\ UNCHANGED <<remoteConn, closeChan, srcAddr, ageVars>> /\ HandlerUnchanged

StampReply(s) ==
    /\ HandlerGoes(s, "stamp", "reply")
    /\ Stamp(s)
    /\ UNCHANGED <<remoteConn, closeChan, srcAddr>> /\ HandlerUnchanged

(* The reply reaches the client's socket, or the error ends the session. *)
Reply(s) ==
    /\ HandlerGoes(s, "reply", "check")
    /\ UNCHANGED <<remoteConn, closeChan, srcAddr, ageVars>> /\ HandlerUnchanged

ReplyFails(s) ==
    /\ HandlerGoes(s, "reply", "remove")
    /\ UNCHANGED <<remoteConn, closeChan, srcAddr, ageVars>> /\ HandlerUnchanged

(* Mutant: whatever session the client has now is removed. *)
IsAnyCurrent(s) == sessions[srcAddr[s]] # NoSession

(* The deferred function: removeSession first, *)
IsCurrent(s) == sessions[srcAddr[s]] = s

RemoveSession(s) ==
    /\ sessionMu = "free"
    /\ HandlerGoes(s, "remove", "close")
    /\ IF IsCurrent(s) THEN Evict(srcAddr[s]) ELSE UNCHANGED <<closeChan, sessions>>
    /\ UNCHANGED <<sessionMu, mainVars, sweepVars, remoteConn, srcAddr, ageVars>>

(* Mutant: the connection is closed before the session is removed. *)
CloseRemoteFirst(s) ==
    /\ HandlerGoes(s, "remove", "gone")
    /\ remoteConn' = [remoteConn EXCEPT ![s] = "closed"]
    /\ Stamp(s)
    /\ UNCHANGED <<closeChan, srcAddr>> /\ HandlerUnchanged

(* then remoteConn.Close.  The object's ages are dead from here on. *)
CloseRemote(s) ==
    /\ HandlerGoes(s, "close", "gone")
    /\ remoteConn' = [remoteConn EXCEPT ![s] = "closed"]
    /\ Stamp(s)
    /\ UNCHANGED <<closeChan, srcAddr>> /\ HandlerUnchanged
-----------------------------------------------------------------------------
(* A clock tick.  A sweep in progress may see at most MaxLag of them. *)
Older(age) == IF age < AgeCap THEN age + 1 ELSE age

Tick ==
    /\ sweepPc # "wait" => lag < MaxLag
    /\ lag' = IF sweepPc = "wait" THEN lag ELSE lag + 1
    /\ idle' = [s \in Session |-> IF handler[s] = "gone" THEN 0 ELSE Older(idle[s])]
    /\ quiet' = [s \in Session |-> IF handler[s] = "gone" THEN 0 ELSE Older(quiet[s])]
    /\ UNCHANGED <<sessions, sessionMu, mainVars, sweepPc, sweepTodo, sessionVars>>

Main ==
    \/ \E c \in Client : Receive(c)
    \/ FindSession \/ Dial \/ DialFailed
    \/ \E s \in Session : CreateSession(s)
    \/ StampSent \/ Send

Sweeper ==
    \/ SweepStart \/ SweepLock \/ SweepEnd
    \/ \E c \in Client : SweepOne(c)

Handler(s) ==
    \/ CheckClosed(s) \/ ReadTimeout(s) \/ ReadReply(s) \/ ReadFails(s)
    \/ StampReply(s) \/ Reply(s) \/ ReplyFails(s)
    \/ RemoveSession(s) \/ CloseRemote(s)

Next ==
    \/ Main
    \/ Sweeper
    \/ \E s \in Session : Handler(s)
    \/ Tick

Safety == Init /\ [][Next]_vars

(***************************************************************************)
(* Fairness.  A goroutine that can run does run.  Dial returns, with or    *)
(* without a connection; Read returns at the latest at its deadline, while *)
(* replies, failures and the clients' datagrams need never come.  Who      *)
(* waits for sessionMu gets it even if others keep taking it: a sync.Mutex *)
(* hands itself to the first waiter once that has waited for 1 ms.         *)
(***************************************************************************)
MainRuns ==
    /\ SF_vars(FindSession \/ Dial)
    /\ WF_vars(DialFailed \/ \E s \in Session : CreateSession(s))
    /\ WF_vars(StampSent \/ Send)

SweeperRuns ==
    /\ WF_vars(SweepStart \/ SweepEnd \/ \E c \in Client : SweepOne(c))
    /\ SF_vars(SweepLock)

HandlerRuns(s) ==
    /\ WF_vars(CheckClosed(s) \/ StampReply(s) \/ CloseRemote(s))
    /\ WF_vars(ReadTimeout(s))
    /\ WF_vars(Reply(s) \/ ReplyFails(s))
    /\ SF_vars(RemoveSession(s))

Fairness ==
    MainRuns /\ SweeperRuns /\ WF_vars(Tick) /\ \A s \in Session : HandlerRuns(s)

Spec == Safety /\ Fairness
-----------------------------------------------------------------------------
(* A session in the map is usable and will be looked after: its handler    *)
(* runs and has not got past removeSession, its connection and its channel *)
(* are open, and its replies go to the client that is its key.  The loop   *)
(* hands out what the map holds without asking (udp_proxy.go:82).          *)
MappedSessionIsLive ==
    \A c \in Client : sessions[c] # NoSession =>
        LET s == sessions[c] IN
        /\ srcAddr[s] = c
        /\ remoteConn[s] = "open" /\ closeChan[s] = "open"
        /\ handler[s] \notin {"close", "gone"}

(* No connection leaks: a session that is open but no longer in the map    *)
(* has had its channel closed, so its handler will find out and close it.  *)
(* Neither the sweeper nor removeSession closes the connection itself.     *)
OrphanIsSignalled ==
    \A s \in Session : remoteConn[s] = "open" /\ ~ IsCurrent(s) =>
        closeChan[s] = "closed"

(* In this step client c keeps its session, or loses it for a cause. *)
StaysOrHasCause(c) ==
    sessions[c] # NoSession /\ sessions'[c] # sessions[c] =>
        /\ sessions'[c] = NoSession
        /\ \/ handler[sessions[c]] = "remove" /\ handler'[sessions[c]] = "close"
           \/ /\ InactivityTimeout > 0 /\ sweepPc = "scan"
              /\ quiet[sessions[c]] + Tear >= InactivityTimeout + lag

(* A session leaves the map for one of two reasons: its own handler is     *)
(* giving up, or a sweep found that it carried nothing for the whole       *)
(* timeout (less the error of a torn read).  In particular the handler of  *)
(* an evicted session never takes its client's next session away, and      *)
(* with a timeout of 0 only the handler ends a session.                    *)
SessionLeavesForCause ==
    [][\A c \in Client : StaysOrHasCause(c)]_vars

(* A connection whose session left the map is closed in the end: the read  *)
(* deadline bounds the time until the handler looks at its channel.        *)
OrphanIsReleased ==
    \A s \in Session : (remoteConn[s] = "open" /\ ~ IsCurrent(s)) ~> (remoteConn[s] = "closed")

(* "sessions automatically close after inactivity" (udp_proxy.go:22): a    *)
(* session that stays silent leaves the map.                               *)
IdleSessionExpires ==
    \A s \in Session :
        (IsCurrent(s) /\ idle[s] > 0) ~> (~ IsCurrent(s) \/ idle[s] = 0)

(* The main loop always comes back to receive the next datagram, although  *)
(* it dials with the lock held and competes for it with everyone else.     *)
MainLoopReturns == (mainPc # "receive") ~> (mainPc = "receive")

Table == INSTANCE SessionTable WITH table <- sessions, conn <- remoteConn

(* The tunnel keeps what SessionTable promises about sessions.             *)
ImplementsTable == Table!TableSpec
=============================================================================
