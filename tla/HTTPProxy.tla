----------------------------- MODULE HTTPProxy ------------------------------
(***************************************************************************)
(* HTTPServer.serve up to the point where its two copiers run (http.go).   *)
(* The client's first byte stands for the head of its request; as many     *)
(* more as request.body says are the body; what follows is data.  The      *)
(* buffered reader may take more from the connection than the request.     *)
(***************************************************************************)
EXTENDS Relay

CONSTANT Exchange   \* the configurations of the proxy and the requests to it

ASSUME ExchangeAssumption ==
    \A e \in Exchange :
        /\ e.request.body \in Nat
        /\ e.request.auth \in {"none", "noBase64", "noColon", "pair"}

VARIABLES
    exchange,   \* the one of this behaviour
    rd,         \* the bytes in the buffered reader
    taken,      \* how many bytes the reader has taken from the connection
    passed,     \* how many bytes of the request the target was given
    answer,     \* the status the proxy itself has answered with, or 0
    eager       \* history: the client went on before it had an answer

httpVars == <<rd, taken, passed, answer>>

config == exchange.config
request == exchange.request

(* A request has to be read to the end of its body. *)
Need == 1 + request.body

(* Mutant: only both of them together switch authentication on. *)
AuthRequiredBoth == config.username # "" /\ config.password # ""

(* HTTPConfig.SpawnRoutine *)
AuthRequired == config.username # "" \/ config.password # ""

(* CredentialValidator.Valid *)
Valid(username, password) == config.username = username /\ config.password = password

(* Mutant: credentials that do not match are answered with Forbidden. *)
AuthenticateForbidden ==
    IF ~ AuthRequired THEN 0 ELSE
    CASE request.auth = "none" -> 407
      [] request.auth = "pair" /\ Valid(request.username, request.password) -> 0
      [] OTHER -> 403

(* authenticate: the status of the refusal, or 0. *)
Authenticate ==
    IF ~ AuthRequired THEN 0 ELSE
    CASE request.auth = "none" -> 407
      [] request.auth = "noBase64" -> 406
      [] request.auth = "noColon" -> 411
      [] request.auth = "pair" /\ ~ Valid(request.username, request.password) -> 401
      [] OTHER -> 0
-----------------------------------------------------------------------------
HTTPAccept ==
    /\ kind = "http" /\ front = "accept"
    /\ open' = open \cup {"conn"}
    /\ front' = "readRequest"
    /\ UNCHANGED <<kind, relayVars, httpVars>>

(* http.ReadRequest takes the head out of what it has read. *)
ReadRequest ==
    /\ front = "readRequest" /\ request.wellFormed
    /\ \E n \in 1 .. Len(wire["up"]) :
          /\ rd' = SubSeq(wire["up"], 2, n)
          /\ wire' = [wire EXCEPT !["up"] = SubSeq(@, n + 1, Len(@))]
          /\ taken' = n
    /\ front' = IF Authenticate = 0 THEN "dial" ELSE "refuse"
    /\ UNCHANGED <<kind, open, sent, buf, got, copier, ended, full, passed, answer>>

(* The client's side gives no more. *)
Exhausted == ended["up"] = "rst" \/ (ended["up"] = "fin" /\ wire["up"] = <<>>)

(* Mutant: a failed read is tried again. *)
ReadRequestFailsRetried ==
    /\ front = "readRequest"
    /\ Exhausted \/ (wire["up"] # <<>> /\ ~ request.wellFormed)
    /\ UNCHANGED <<kind, front, open, relayVars, httpVars>>

ReadRequestFails ==
    /\ front = "readRequest"
    /\ Exhausted \/ (wire["up"] # <<>> /\ ~ request.wellFormed)
    /\ front' = "returned"
    /\ UNCHANGED <<kind, open, relayVars, httpVars>>

(* responseWith and resp.Write, whose error is ignored. *)
Refuse ==
    /\ front = "refuse"
    /\ \/ Writable("down") /\ ~ full["down"] /\ answer' = Authenticate
       \/ ~ Writable("down") /\ answer' = answer
    /\ front' = "returned"
    /\ UNCHANGED <<kind, open, relayVars, rd, taken, passed>>

HTTPDial ==
    /\ kind = "http" /\ front = "dial"
    /\ open' = open \cup {"sconn"}
    /\ front' = IF request.method = "CONNECT" THEN "answer" ELSE "forward"
    /\ UNCHANGED <<kind, relayVars, httpVars>>

HTTPDialFails ==
    /\ kind = "http" /\ front = "dial"
    /\ front' = "returned"
    /\ UNCHANGED <<kind, open, relayVars, httpVars>>

(* handleConn: the answer to CONNECT. *)
AnswerConnect ==
    /\ front = "answer" /\ Writable("down") /\ ~ full["down"]
    /\ answer' = 200
    /\ front' = "spawned"
    /\ SpawnCopiers
    /\ UNCHANGED <<kind, open, sent, wire, buf, got, ended, full, rd, taken, passed>>

(* Mutant: the connection to the target is left open. *)
AnswerConnectFailsOpen ==
    /\ front = "answer" /\ ~ Writable("down")
    /\ front' = "returned"
    /\ UNCHANGED <<kind, open, relayVars, httpVars>>

AnswerConnectFails ==
    /\ front = "answer" /\ ~ Writable("down")
    /\ open' = open \ {"sconn"}
    /\ front' = "returned"
    /\ UNCHANGED <<kind, relayVars, httpVars>>
-----------------------------------------------------------------------------
(* handle: req.Write gives the target the head and then the body, which it *)
(* reads through the buffered reader.                                      *)

Pass(byte) ==
    /\ front = "forward" /\ Writable("up") /\ ~ full["up"]
    /\ got' = [got EXCEPT !["up"] = Append(@, byte)]
    /\ passed' = passed + 1
    /\ UNCHANGED <<kind, front, open, sent, wire, buf, copier, ended, full, taken, answer>>

PassHead == passed = 0 /\ Pass(1) /\ rd' = rd

PassBody == 0 < passed /\ passed < Need /\ rd # <<>> /\ Pass(Head(rd)) /\ rd' = Tail(rd)

FillBody ==
    /\ front = "forward" /\ 0 < passed /\ passed < Need /\ rd = <<>>
    /\ \E n \in 1 .. Len(wire["up"]) :
          /\ rd' = SubSeq(wire["up"], 1, n)
          /\ wire' = [wire EXCEPT !["up"] = SubSeq(@, n + 1, Len(@))]
          /\ taken' = taken + n
    /\ UNCHANGED <<kind, front, open, sent, buf, got, copier, ended, full, passed, answer>>

(* Mutant: the copiers start before the body is through. *)
ForwardedEarly ==
    /\ front = "forward" /\ passed > 0
    /\ front' = "spawned"
    /\ SpawnCopiers
    /\ UNCHANGED <<kind, open, sent, wire, buf, got, ended, full, httpVars>>

(* The two copiers start; what is left in the reader stays there. *)
Forwarded ==
    /\ front = "forward" /\ passed = Need
    /\ front' = "spawned"
    /\ SpawnCopiers
    /\ UNCHANGED <<kind, open, sent, wire, buf, got, ended, full, httpVars>>

ForwardFails ==
    /\ front = "forward"
    /\ \/ passed < Need /\ ~ Writable("up")
       \/ 0 < passed /\ passed < Need /\ rd = <<>> /\ Exhausted
    /\ open' = open \ {"sconn"}
    /\ front' = "returned"
    /\ UNCHANGED <<kind, relayVars, httpVars>>

HTTPFront ==
    \/ HTTPAccept \/ ReadRequest \/ ReadRequestFails \/ Refuse \/ HTTPDial \/ HTTPDialFails
    \/ AnswerConnect \/ AnswerConnectFails
    \/ PassHead \/ PassBody \/ FillBody \/ Forwarded \/ ForwardFails
=============================================================================
