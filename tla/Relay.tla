------------------------------- MODULE Relay --------------------------------
(***************************************************************************)
(* The pair of goroutines that copy between a local connection and a       *)
(* connection to the target: connForward for the TCP and STDIO tunnels     *)
(* (routine.go), two closures for the HTTP proxy (http.go).  Direction     *)
(* "up" is from the local end to the target.  The n-th byte that an end    *)
(* sends is the number n.  The goroutine that sets the pair up is in       *)
(* modules TCPTunnel and HTTPProxy.                                        *)
(***************************************************************************)
EXTENDS Naturals, Sequences

CONSTANT MaxSent   \* how many bytes the sender of each direction has

Dir == {"up", "down"}

ASSUME RelayAssumption == MaxSent \in [Dir -> Nat]

Kind == {"tcpClient", "tcpServer", "stdio", "http"}
Object == {"conn", "sconn", "stdin", "stdout"}

VARIABLES
    kind,     \* the routine the connection belongs to
    front,    \* the goroutine that sets the pair up
    open,     \* the connections and files the process has open
    sent,     \* how many bytes the sender of a direction has sent
    wire,     \* the bytes sent that the process has not read
    buf,      \* the bytes read that the copier has not written
    got,      \* the bytes written, as the receiver will read them
    copier,   \* the copying goroutine of a direction
    ended,    \* the sender of a direction is done ("fin") or gone ("rst")
    full      \* the receiver of a direction takes nothing for now

relayVars == <<sent, wire, buf, got, copier, ended, full>>

Reverse(d) == IF d = "up" THEN "down" ELSE "up"

(* What a copier reads from and writes to. *)
From(d) == IF d = "down" THEN "sconn" ELSE IF kind = "stdio" THEN "stdin" ELSE "conn"
To(d) == IF d = "up" THEN "sconn" ELSE IF kind = "stdio" THEN "stdout" ELSE "conn"

(* The order of the deferred calls: the last one runs first. *)
ClosedFirst(d) == IF kind = "http" THEN "sconn" ELSE To(d)
ClosedLast(d) == IF ClosedFirst(d) = To(d) THEN From(d) ELSE To(d)

RelayTypeOK ==
    /\ kind \in Kind
    /\ open \subseteq Object
    /\ sent \in [Dir -> Nat] /\ \A d \in Dir : sent[d] <= MaxSent[d]
    /\ wire \in [Dir -> Seq(Nat)] /\ buf \in [Dir -> Seq(Nat)] /\ got \in [Dir -> Seq(Nat)]
    /\ copier \in [Dir -> {"none", "read", "write", "closeFirst", "closeLast", "done"}]
    /\ ended \in [Dir -> {"no", "fin", "rst"}]
    /\ full \in [Dir -> BOOLEAN]

RelayInit ==
    /\ sent = [d \in Dir |-> 0]
    /\ wire = [d \in Dir |-> <<>>]
    /\ buf = [d \in Dir |-> <<>>]
    /\ got = [d \in Dir |-> <<>>]
    /\ copier = [d \in Dir |-> "none"]
    /\ ended = [d \in Dir |-> "no"]
    /\ full = [d \in Dir |-> FALSE]
-----------------------------------------------------------------------------
(* The ends of the connections. *)

Send(d) ==
    /\ From(d) \in open /\ ended[d] = "no" /\ sent[d] < MaxSent[d]
    /\ sent' = [sent EXCEPT ![d] = @ + 1]
    /\ wire' = [wire EXCEPT ![d] = Append(@, sent[d] + 1)]
    /\ UNCHANGED <<buf, got, copier, ended, full, kind, front, open>>

(* An end closes its sending half, or is gone altogether. *)
End(d) ==
    /\ From(d) \in open /\ ended[d] # "rst"
    /\ \E how \in {"fin", "rst"} \ {ended[d]} : ended' = [ended EXCEPT ![d] = how]
    /\ UNCHANGED <<sent, wire, buf, got, copier, full, kind, front, open>>

(* The window of a receiver closes or opens again. *)
Flow(d) ==
    /\ To(d) \in open
    /\ full' = [full EXCEPT ![d] = ~ @]
    /\ UNCHANGED <<sent, wire, buf, got, copier, ended, kind, front, open>>
-----------------------------------------------------------------------------
(* io.Copy: a read returns some of what has arrived; the bytes read are    *)
(* written before the next read; the end of the source, or an error of     *)
(* either connection, ends the copy.                                       *)

SpawnCopiers == copier' = [d \in Dir |-> "read"]

Read(d) ==
    /\ copier[d] = "read" /\ From(d) \in open
    /\ \E n \in 1 .. Len(wire[d]) :
          /\ buf' = [buf EXCEPT ![d] = SubSeq(wire[d], 1, n)]
          /\ wire' = [wire EXCEPT ![d] = SubSeq(wire[d], n + 1, Len(wire[d]))]
    /\ copier' = [copier EXCEPT ![d] = "write"]
    /\ UNCHANGED <<sent, got, ended, full, kind, front, open>>

(* Mutant: the copy also ends when there is nothing to read for a while. *)
ReadEndsIdle(d) ==
    /\ copier[d] = "read"
    /\ copier' = [copier EXCEPT ![d] = "closeFirst"]
    /\ UNCHANGED <<sent, wire, buf, got, ended, full, kind, front, open>>

ReadEnds(d) ==
    /\ copier[d] = "read"
    /\ From(d) \notin open \/ ended[d] = "rst" \/ (ended[d] = "fin" /\ wire[d] = <<>>)
    /\ copier' = [copier EXCEPT ![d] = "closeFirst"]
    /\ UNCHANGED <<sent, wire, buf, got, ended, full, kind, front, open>>

Writable(d) == To(d) \in open /\ ended[Reverse(d)] # "rst"

(* Mutant: what a short write leaves over is dropped. *)
WriteShort(d) ==
    /\ copier[d] = "write" /\ Writable(d) /\ ~ full[d]
    /\ got' = [got EXCEPT ![d] = Append(@, Head(buf[d]))]
    /\ buf' = [buf EXCEPT ![d] = <<>>]
    /\ copier' = [copier EXCEPT ![d] = "read"]
    /\ UNCHANGED <<sent, wire, ended, full, kind, front, open>>

(* The receiver takes the next byte of the buffer. *)
Write(d) ==
    /\ copier[d] = "write" /\ Writable(d) /\ ~ full[d]
    /\ got' = [got EXCEPT ![d] = Append(@, Head(buf[d]))]
    /\ buf' = [buf EXCEPT ![d] = Tail(@)]
    /\ copier' = [copier EXCEPT ![d] = IF Len(buf[d]) = 1 THEN "read" ELSE "write"]
    /\ UNCHANGED <<sent, wire, ended, full, kind, front, open>>

WriteFails(d) ==
    /\ copier[d] = "write" /\ ~ Writable(d)
    /\ copier' = [copier EXCEPT ![d] = "closeFirst"]
    /\ UNCHANGED <<sent, wire, buf, got, ended, full, kind, front, open>>

(* The deferred calls. *)
CloseFirst(d) ==
    /\ copier[d] = "closeFirst"
    /\ open' = open \ {ClosedFirst(d)}
    /\ copier' = [copier EXCEPT ![d] = "closeLast"]
    /\ UNCHANGED <<sent, wire, buf, got, ended, full, kind, front>>

(* Mutant: the goroutine closes only one of its connections. *)
CloseLastMissing(d) ==
    /\ copier[d] = "closeLast"
    /\ copier' = [copier EXCEPT ![d] = "done"]
    /\ UNCHANGED <<sent, wire, buf, got, ended, full, kind, front, open>>

CloseLast(d) ==
    /\ copier[d] = "closeLast"
    /\ open' = open \ {ClosedLast(d)}
    /\ copier' = [copier EXCEPT ![d] = "done"]
    /\ UNCHANGED <<sent, wire, buf, got, ended, full, kind, front>>

-----------------------------------------------------------------------------
(* Once the goroutine that was to set the pair up has returned, nothing    *)
(* refers to the local connection.  The runtime closes the descriptors of  *)
(* unreachable connections and files when it collects garbage, but knows   *)
(* nothing of the connections of the user-space network stack.             *)

HasFinalizer == IF kind = "tcpServer" THEN {} ELSE {"conn", "stdout"}

Finalize ==
    /\ front = "returned" /\ open \cap HasFinalizer # {}
    /\ open' = open \ HasFinalizer
    /\ UNCHANGED <<kind, front, relayVars>>

Ends(d) == Send(d) \/ End(d) \/ Flow(d)

Copy(d) ==
    \/ Read(d) \/ ReadEnds(d) \/ Write(d) \/ WriteFails(d)
    \/ CloseFirst(d) \/ CloseLast(d)
=============================================================================
