------------------------------- MODULE Tunnel -------------------------------
(***************************************************************************)
(* What a proxied connection promises, whatever routine it belongs to: in  *)
(* each direction the bytes of the sender reach the receiver in order.     *)
(* Bytes may be withheld only while the connection is being set up, and a  *)
(* direction that is set up comes to its end only after an end has hung    *)
(* up.                                                                     *)
(***************************************************************************)
EXTENDS Naturals, Sequences

Directions == {"up", "down"}

VARIABLES
    phase,     \* of a direction: "opening", "open" or "over"
    sent,      \* how many bytes the sender of a direction has sent
    pending,   \* the bytes on their way
    arrived,   \* the bytes the receiver was given
    hungUp,    \* an end is done or gone
    stalled    \* the receiver of a direction takes nothing for now

vars == <<phase, sent, pending, arrived, hungUp, stalled>>

Init ==
    /\ phase = [d \in Directions |-> "opening"]
    /\ sent = [d \in Directions |-> 0]
    /\ pending = [d \in Directions |-> <<>>]
    /\ arrived = [d \in Directions |-> <<>>]
    /\ hungUp = FALSE
    /\ stalled = [d \in Directions |-> FALSE]

Send(d) ==
    /\ sent' = [sent EXCEPT ![d] = @ + 1]
    /\ pending' = [pending EXCEPT ![d] = Append(@, sent[d] + 1)]
    /\ UNCHANGED <<phase, arrived, hungUp, stalled>>

HangUp ==
    /\ hungUp' = TRUE
    /\ UNCHANGED <<sent, phase, pending, arrived, stalled>>

Stall(d) ==
    /\ stalled' = [stalled EXCEPT ![d] = ~ @]
    /\ UNCHANGED <<sent, phase, pending, arrived, hungUp>>

(* The set-up withholds the first n bytes that are on their way. *)
Withhold(n) ==
    /\ phase["up"] = "opening"
    /\ pending' = [pending EXCEPT !["up"] = SubSeq(@, n + 1, Len(@))]
    /\ UNCHANGED <<sent, phase, arrived, hungUp, stalled>>

Establish(n) ==
    /\ phase = [d \in Directions |-> "opening"]
    /\ phase' = [d \in Directions |-> "open"]
    /\ pending' = [pending EXCEPT !["up"] = SubSeq(@, n + 1, Len(@))]
    /\ UNCHANGED <<sent, arrived, hungUp, stalled>>

Deliver(d) ==
    /\ phase[d] # "over" /\ ~ stalled[d] /\ pending[d] # <<>>
    /\ arrived' = [arrived EXCEPT ![d] = Append(@, Head(pending[d]))]
    /\ pending' = [pending EXCEPT ![d] = Tail(@)]
    /\ UNCHANGED <<sent, phase, hungUp, stalled>>

Over(S) ==
    /\ \A d \in S : phase[d] = "opening" \/ hungUp
    /\ phase' = [d \in Directions |-> IF d \in S THEN "over" ELSE phase[d]]
    /\ UNCHANGED <<sent, pending, arrived, hungUp, stalled>>

Next ==
    \/ HangUp
    \/ \E n \in 0 .. Len(pending["up"]) : Withhold(n) \/ Establish(n)
    \/ \E d \in Directions : Send(d) \/ Stall(d) \/ Deliver(d)
    \/ \E S \in SUBSET Directions : Over(S)

(* A receiver that keeps taking bytes is given all of them until the end. *)
Fairness == \A d \in Directions : SF_vars(phase[d] = "open" /\ Deliver(d))

Spec == Init /\ [][Next]_vars /\ Fairness
=============================================================================
