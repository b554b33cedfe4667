------------------------------ MODULE Proxies -------------------------------
(***************************************************************************)
(* One proxied connection of any of the TCP routines: the goroutine that   *)
(* sets it up (TCPTunnel, HTTPProxy), the two that copy (Relay), the two   *)
(* ends and the garbage collector, interleaved.                            *)
(***************************************************************************)
EXTENDS TCPTunnel, HTTPProxy

CONSTANT NoExchange   \* the exchange of a connection that is not HTTP

vars == <<kind, front, open, relayVars, target, exchange, httpVars, eager>>

TypeOK ==
    /\ RelayTypeOK
    /\ front \in {"accept", "resolve", "openStdout", "dial", "readRequest", "refuse",
                  "answer", "forward", "spawned", "returned"}
    /\ target \in IP \cup {NoIP}
    /\ exchange \in Exchange \cup {NoExchange}
    /\ rd \in Seq(Nat) /\ taken \in Nat /\ passed \in Nat
    /\ answer \in {0, 200, 401, 406, 407, 411}
    /\ eager \in BOOLEAN

Init ==
    /\ RelayInit
    /\ \/ kind = "http" /\ exchange \in Exchange
       \/ kind \in TunnelKind /\ exchange = NoExchange
    /\ front = IF kind = "stdio" THEN "resolve" ELSE "accept"
    /\ open = IF kind = "stdio" THEN {"stdin"} ELSE {}
    /\ target = NoIP
    /\ rd = <<>> /\ taken = 0 /\ passed = 0 /\ answer = 0
    /\ eager = FALSE

(* The client of the HTTP proxy sends more than its request although it    *)
(* has seen no answer.                                                     *)
TooEarly == kind = "http" /\ sent["up"] >= Need /\ answer = 0 /\ got["down"] = <<>>

EndStep(d) ==
    /\ Ends(d)
    /\ eager' = (eager \/ (sent'["up"] # sent["up"] /\ TooEarly))
    /\ UNCHANGED <<target, exchange, httpVars>>

TunnelStep == TunnelFront /\ UNCHANGED <<exchange, httpVars, eager>>
HTTPStep == HTTPFront /\ UNCHANGED <<target, exchange, eager>>
CopyStep(d) == Copy(d) /\ UNCHANGED <<target, exchange, httpVars, eager>>
WriteStep(d) == Write(d) /\ UNCHANGED <<target, exchange, httpVars, eager>>
FinalizeStep == Finalize /\ UNCHANGED <<target, exchange, httpVars, eager>>

Next ==
    \/ \E d \in Dir : EndStep(d) \/ CopyStep(d)
    \/ TunnelStep \/ HTTPStep \/ FinalizeStep

(* Goroutines keep running; a blocked write goes on once the receiver has  *)
(* room; the runtime collects garbage at least every two minutes.          *)
Fairness ==
    /\ WF_vars(front # "accept" /\ TunnelStep)
    /\ SF_vars(front # "accept" /\ HTTPStep)
    /\ \A d \in Dir : WF_vars(CopyStep(d)) /\ SF_vars(WriteStep(d))
    /\ WF_vars(FinalizeStep)

Spec == Init /\ [][Next]_vars /\ Fairness
-----------------------------------------------------------------------------
(* What the receiver of a direction is to read: everything that was sent   *)
(* but for the bytes the HTTP proxy took and did not pass on.              *)
Kept(d) == IF d = "up" THEN taken - passed ELSE 0
ExpectedByte(d, i) == IF d = "up" /\ i > passed THEN i + Kept(d) ELSE i

(* io.Copy in connForward and serve: whatever the reads and writes are cut *)
(* into and whenever the connections are closed, a receiver has been given *)
(* a prefix of what was sent, with no byte lost, repeated or moved, except *)
(* for those the HTTP proxy's buffered reader keeps.                       *)
StreamIntact ==
    \A d \in Dir :
        /\ Len(got[d]) <= sent[d] - Kept(d)
        /\ \A i \in 1 .. Len(got[d]) : got[d][i] = ExpectedByte(d, i)

(* serve hands the bare connection to the copiers although its buffered    *)
(* reader may hold bytes that follow the request: those are lost, but only *)
(* if the client sent them before it had an answer.                        *)
LostOnlyIfEager ==
    kind = "http" /\ front = "spawned" /\ ~ eager =>
        /\ taken <= Need
        /\ request.method # "CONNECT" => passed = Need

(* The deferred calls and the error paths: a front end that gives up       *)
(* leaves no connection to the target behind, and two copiers that have    *)
(* finished leave nothing open at all.                                     *)
NothingForgotten ==
    /\ front = "returned" => "sconn" \notin open
    /\ front = "spawned" /\ copier = [d \in Dir |-> "done"] => open = {}

(* authenticate: the HTTP proxy reaches out to a target only when no       *)
(* credentials are configured or the request carries exactly those.        *)
ServedAsConfigured ==
    kind = "http" /\ "sconn" \in open =>
        \/ config.username = "" /\ config.password = ""
        \/ /\ request.auth = "pair"
           /\ request.username = config.username /\ request.password = config.password

(* When the sender of a direction is done or gone, and the receiver keeps  *)
(* reading, both connections of that direction are closed, even if the     *)
(* other direction is stuck.                                               *)
EndIsPassedOn ==
    \A d \in Dir :
        []<>(~ full[d]) =>
            (front = "spawned" /\ ended[d] # "no" ~> {From(d), To(d)} \cap open = {})

(* A local client that is done, or that was turned away, is let go: the    *)
(* early returns of tcpClientForward and serve leave its connection to the *)
(* garbage collector.                                                      *)
ClientIsLetGo ==
    (\A d \in Dir : []<>(~ full[d])) =>
        (kind \in {"tcpClient", "http"} /\ (ended["up"] # "no" \/ front = "returned")
            ~> "conn" \notin open)

(* The abstract view of a connection: the bytes the front end has read but *)
(* not passed on are still on their way until the copiers start.           *)
HeadRead == kind = "http" /\ taken > 0 /\ passed = 0 /\ request.method # "CONNECT"
PendingUp == (IF HeadRead THEN <<1>> ELSE <<>>) \o rd \o wire["up"]

AbstractPhase(d) ==
    CASE \/ front = "returned"
         \/ front = "spawned" /\ (copier[d] \notin {"read", "write"} \/ To(d) \notin open) -> "over"
      [] front = "spawned" /\ copier[d] \in {"read", "write"} /\ To(d) \in open -> "open"
      [] OTHER -> "opening"

Phase == [d \in Dir |-> AbstractPhase(d)]
Pending == [d \in Dir |-> IF d = "up" /\ front # "spawned" THEN PendingUp ELSE buf[d] \o wire[d]]
HungUp == \E d \in Dir : ended[d] # "no"

T == INSTANCE Tunnel WITH
        phase <- Phase, pending <- Pending, arrived <- got, hungUp <- HungUp, stalled <- full

(* Every routine's connections do what module Tunnel promises. *)
ImplementsTunnel == T!Spec
=============================================================================
