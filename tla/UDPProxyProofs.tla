--------------------------- MODULE UDPProxyProofs ---------------------------
(***************************************************************************)
(* Theorems about UDPProxy, for every set of clients and sessions, every   *)
(* timeout, every delay of the sweeper and every build (Tear).             *)
(***************************************************************************)
EXTENDS UDPProxy, TLAPS

(* The lock is held across steps exactly by a dialling main loop and by a  *)
(* scanning sweeper.                                                       *)
LockInv ==
    /\ sessionMu = "main" <=> mainPc = "dial"
    /\ sessionMu = "sweeper" <=> sweepPc = "scan"

(* While the main loop dials nobody adds a session for its client. *)
MainInv == mainPc = "dial" => sessions[mainSrc] = NoSession

(* There is a sweeper only if there is a timeout, and while it scans no    *)
(* key it has still to visit disappears.                                   *)
SweepInv ==
    /\ sweepPc # "wait" => InactivityTimeout > 0
    /\ \A c \in sweepTodo : sweepPc = "scan" /\ sessions[c] # NoSession

(* A connection is open exactly as long as its handler runs. *)
HandlerInv == \A s \in Session : remoteConn[s] = "closed" <=> handler[s] = "gone"

(* Every datagram a session carries stamps it. *)
StampInv == quiet = idle

(* The inductive invariant. *)
Inv ==
    /\ TypeOK
    /\ LockInv /\ MainInv /\ SweepInv /\ HandlerInv /\ StampInv
    /\ MappedSessionIsLive /\ OrphanIsSignalled
-----------------------------------------------------------------------------
(* The saturation point of the ages is a natural number. *)
LEMMA AgeCapIsNat == AgeCap \in Nat
  BY UDPProxyAssumption DEF AgeCap

(* The invariant holds when the tunnel starts. *)
LEMMA InitInv == Init => Inv
  BY AgeCapIsNat, UDPProxyAssumption
  DEF Init, Inv, TypeOK, LockInv, MainInv, SweepInv, HandlerInv, StampInv,
      MappedSessionIsLive, OrphanIsSignalled, IsCurrent

(* Every step of every goroutine preserves it. *)
LEMMA NextInv == Inv /\ [Next]_vars => Inv'
<1> SUFFICES ASSUME Inv, [Next]_vars
             PROVE  Inv'
  OBVIOUS
<1> USE UDPProxyAssumption, AgeCapIsNat
<1> USE DEF Inv, TypeOK, LockInv, MainInv, SweepInv, HandlerInv, StampInv,
            MappedSessionIsLive, OrphanIsSignalled, IsCurrent,
            vars, mainVars, sweepVars, sessionVars, ageVars
<1>1. ASSUME NEW c \in Client, Receive(c) PROVE Inv'
  BY <1>1 DEF Receive
<1>2. CASE FindSession
  BY <1>2 DEF FindSession, Stamp
<1>3. CASE Dial
  BY <1>3 DEF Dial
<1>4. CASE DialFailed
  BY <1>4 DEF DialFailed
<1>5. ASSUME NEW s \in Session, CreateSession(s) PROVE Inv'
  BY <1>5 DEF CreateSession, Stamp, Free
<1>6. CASE StampSent
  BY <1>6 DEF StampSent, Stamp
<1>7. CASE Send
  BY <1>7 DEF Send
<1>8. CASE SweepStart
  BY <1>8 DEF SweepStart
<1>9. CASE SweepLock
  BY <1>9 DEF SweepLock
<1>10. ASSUME NEW c \in Client, SweepOne(c) PROVE Inv'
  BY <1>10 DEF SweepOne, Evict
<1>11. CASE SweepEnd
  BY <1>11 DEF SweepEnd
<1>12. ASSUME NEW s \in Session, CheckClosed(s) PROVE Inv'
  BY <1>12 DEF CheckClosed, HandlerGoes, UnlessClosed, HandlerUnchanged
<1>13. ASSUME NEW s \in Session, ReadTimeout(s) PROVE Inv'
  BY <1>13 DEF ReadTimeout, HandlerGoes, UnlessClosed, HandlerUnchanged
<1>14. ASSUME NEW s \in Session, ReadReply(s) PROVE Inv'
  BY <1>14 DEF ReadReply, HandlerGoes, HandlerUnchanged
<1>15. ASSUME NEW s \in Session, ReadFails(s) PROVE Inv'
  BY <1>15 DEF ReadFails, HandlerGoes, HandlerUnchanged
<1>16. ASSUME NEW s \in Session, StampReply(s) PROVE Inv'
  BY <1>16 DEF StampReply, Stamp, HandlerGoes, HandlerUnchanged
<1>17. ASSUME NEW s \in Session, Reply(s) PROVE Inv'
  BY <1>17 DEF Reply, HandlerGoes, HandlerUnchanged
<1>18. ASSUME NEW s \in Session, ReplyFails(s) PROVE Inv'
  BY <1>18 DEF ReplyFails, HandlerGoes, HandlerUnchanged
<1>19. ASSUME NEW s \in Session, RemoveSession(s) PROVE Inv'
  BY <1>19 DEF RemoveSession, Evict, HandlerGoes
<1>20. ASSUME NEW s \in Session, CloseRemote(s) PROVE Inv'
  BY <1>20 DEF CloseRemote, Stamp, HandlerGoes, HandlerUnchanged
<1>21. CASE Tick
  BY <1>21 DEF Tick, Older
<1>22. CASE UNCHANGED vars
  BY <1>22
<1> QED
  BY Zenon, <1>1, <1>2, <1>3, <1>4, <1>5, <1>6, <1>7, <1>8, <1>9, <1>10, <1>11,
     <1>12, <1>13, <1>14, <1>15, <1>16, <1>17, <1>18, <1>19, <1>20, <1>21, <1>22
  DEF Next, Main, Sweeper, Handler

LEMMA Invariance == Safety => []Inv
  BY InitInv, NextInv, PTL DEF Safety
-----------------------------------------------------------------------------
(* The types of udp_proxy.go's state are kept; in particular the main loop *)
(* never writes through a nil session (its stamp finds an object).         *)
THEOREM TypeCorrect == Safety => []TypeOK
  BY Invariance, PTL DEF Inv

(* The map of udp_proxy.go never holds a session that is being torn down,  *)
(* whatever the interleaving of lookups, sweeps, failures and removals.    *)
THEOREM MapHoldsLiveSessions == Safety => []MappedSessionIsLive
  BY Invariance, PTL DEF Inv

(* No connection is forgotten: outside the map an open one is signalled.   *)
THEOREM NoConnectionForgotten == Safety => []OrphanIsSignalled
  BY Invariance, PTL DEF Inv
-----------------------------------------------------------------------------
(* A session leaves the map only by its own handler or by a justified      *)
(* sweep, for every timeout (0 and below included) and every Tear.         *)
THEOREM LeavesForCause == Safety => SessionLeavesForCause
<1>1. ASSUME Inv, [Next]_vars
      PROVE  [\A c \in Client : StaysOrHasCause(c)]_vars
  <2> SUFFICES ASSUME Next, NEW c \in Client, sessions[c] # NoSession,
                      sessions'[c] # sessions[c]
               PROVE  StaysOrHasCause(c)
    BY <1>1 DEF StaysOrHasCause
  <2> USE <1>1, UDPProxyAssumption, AgeCapIsNat
  <2>1. ASSUME NEW d \in Client, SweepOne(d)
        PROVE  StaysOrHasCause(c)
    BY <2>1 DEF SweepOne, Evict, Expired, LastActiveReads, StaysOrHasCause,
                Inv, TypeOK, SweepInv, StampInv
  <2>2. ASSUME NEW s \in Session, RemoveSession(s)
        PROVE  StaysOrHasCause(c)
    BY <2>2 DEF RemoveSession, HandlerGoes, Evict, IsCurrent, StaysOrHasCause,
                Inv, TypeOK
  <2>3. CASE \E s \in Session : CreateSession(s)
    BY <2>3 DEF CreateSession, Inv, TypeOK, MainInv
  <2>4. QED
    BY <2>1, <2>2, <2>3
    DEF Next, Main, Sweeper, Handler, Receive, FindSession, Dial, DialFailed,
        StampSent, Send, SweepStart, SweepLock, SweepEnd, CheckClosed,
        ReadTimeout, ReadReply, ReadFails, StampReply, Reply, ReplyFails,
        CloseRemote, HandlerUnchanged, Tick
<1> QED
  BY <1>1, Invariance, PTL DEF Safety, SessionLeavesForCause
-----------------------------------------------------------------------------
(* The tunnel implements SessionTable: every step of a goroutine opens,    *)
(* detaches or releases a session as the table allows, or is invisible.    *)
THEOREM TunnelImplementsTable == Safety => Table!TableSafety
<1>1. Init => Table!TableInit
  BY DEF Init, Table!TableInit
<1>2. ASSUME Inv, [Next]_vars
      PROVE  [Table!TableNext]_(Table!tableVars)
  <2> USE <1>2, UDPProxyAssumption DEF Table!tableVars
  <2>1. CASE UNCHANGED vars
    BY <2>1 DEF vars, sessionVars
  <2>2. ASSUME NEW s \in Session, CreateSession(s)
        PROVE  Table!Open(mainSrc, s)
    BY <2>2 DEF CreateSession, Free, Table!Open, Inv, MainInv, HandlerInv, TypeOK
  <2>3. ASSUME NEW c \in Client, SweepOne(c)
        PROVE  Table!Detach(c) \/ UNCHANGED Table!tableVars
    BY <2>3 DEF SweepOne, Evict, Table!Detach, Inv, SweepInv
  <2>4. ASSUME NEW s \in Session, RemoveSession(s)
        PROVE  Table!Detach(srcAddr[s]) \/ UNCHANGED Table!tableVars
    BY <2>4 DEF RemoveSession, Evict, IsCurrent, Table!Detach
  <2>5. ASSUME NEW s \in Session, CloseRemote(s)
        PROVE  Table!Release(s)
    BY <2>5 DEF CloseRemote, HandlerGoes, HandlerUnchanged, Table!Release,
                Table!Current, Inv, TypeOK, MappedSessionIsLive, HandlerInv
  <2>6. srcAddr \in [Session -> Client] /\ mainSrc \in Client
    BY DEF Inv, TypeOK
  <2>7. CASE Next
    BY Zenon, <2>2, <2>3, <2>4, <2>5, <2>6, <2>7
    DEF Next, Main, Sweeper, Handler, Table!TableNext, sessionVars, Receive,
        FindSession, Dial, DialFailed, StampSent, Send, SweepStart, SweepLock,
        SweepEnd, CheckClosed, ReadTimeout, ReadReply, ReadFails, StampReply,
        Reply, ReplyFails, HandlerUnchanged, Tick
  <2> QED
    BY <2>1, <2>7
<1> QED
  BY <1>1, <1>2, Invariance, PTL DEF Safety, Table!TableSafety
=============================================================================
