----------------------------- MODULE TCPTunnel ------------------------------
(***************************************************************************)
(* The TCP client, TCP server and STDIO tunnels up to the point where      *)
(* their two copiers run: the accept loops, tcpClientForward,              *)
(* tcpServerForward, STDIOTcpForward and the resolver (routine.go).        *)
(***************************************************************************)
EXTENDS Relay

CONSTANTS
    Answer,   \* what a lookup of the target may return: sets of texts
    IP,       \* the texts that are addresses
    NoIP      \* nothing is resolved yet

ASSUME TunnelAssumption == NoIP \notin IP

VARIABLE target   \* the address the goroutine resolved

TunnelKind == {"tcpClient", "tcpServer", "stdio"}

(* server.Accept; the new goroutine starts to resolve the target. *)
Accept ==
    /\ kind \in {"tcpClient", "tcpServer"} /\ front = "accept"
    /\ open' = open \cup {"conn"}
    /\ front' = "resolve"
    /\ UNCHANGED <<kind, target, relayVars>>

(* ResolveAddrWithContext: the answers are shuffled, and the first one     *)
(* that parses is taken.  A failed lookup is an empty answer.              *)
Resolve ==
    /\ kind \in TunnelKind /\ front = "resolve"
    /\ \E answer \in Answer : \E ip \in answer \cap IP : target' = ip
    /\ front' = IF kind = "stdio" THEN "openStdout" ELSE "dial"
    /\ UNCHANGED <<kind, open, relayVars>>

ResolveFails ==
    /\ kind \in TunnelKind /\ front = "resolve"
    /\ \E answer \in Answer : answer \cap IP = {}
    /\ front' = "returned"
    /\ UNCHANGED <<kind, open, target, relayVars>>

OpenStdout ==
    /\ front = "openStdout"
    /\ \/ open' = open \cup {"stdout"} /\ front' = "dial"
       \/ open' = open /\ front' = "returned"
    /\ UNCHANGED <<kind, target, relayVars>>

Dial ==
    /\ kind \in TunnelKind /\ front = "dial"
    /\ open' = open \cup {"sconn"}
    /\ front' = "spawned"
    /\ SpawnCopiers
    /\ UNCHANGED <<kind, target, sent, wire, buf, got, ended, full>>

DialFails ==
    /\ kind \in TunnelKind /\ front = "dial"
    /\ front' = "returned"
    /\ UNCHANGED <<kind, open, target, relayVars>>

TunnelFront == Accept \/ Resolve \/ ResolveFails \/ OpenStdout \/ Dial \/ DialFails
=============================================================================
