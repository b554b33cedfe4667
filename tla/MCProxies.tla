----------------------------- MODULE MCProxies ------------------------------
(* Proxies with one byte of the target's and up to three of the client's,  *)
(* enough for a request with a body and a byte that follows it.            *)
EXTENDS Proxies

CONSTANTS v4, unparsed

MCMaxSent == [d \in Dir |-> IF d = "up" THEN 3 ELSE 1]
MCAnswer == {{}, {unparsed}, {v4, unparsed}}
MCIP == {v4}

Open == [username |-> "", password |-> ""]
Closed == [username |-> "alice", password |-> "secret"]
PasswordOnly == [username |-> "", password |-> "secret"]

Request(method, body, auth, username, password) ==
    [method |-> method, body |-> body, wellFormed |-> TRUE,
     auth |-> auth, username |-> username, password |-> password]

MCExchange ==
    {[config |-> Open, request |-> Request("CONNECT", 0, "none", "", "")],
     [config |-> Closed, request |-> Request("GET", 0, "pair", "alice", "secret")],
     [config |-> Open, request |-> Request("POST", 1, "none", "", "")],
     [config |-> Open, request |-> [Request("GET", 0, "none", "", "") EXCEPT !.wellFormed = FALSE]],
     [config |-> PasswordOnly, request |-> Request("GET", 0, "none", "", "")],
     [config |-> Closed, request |-> Request("GET", 0, "noBase64", "", "")],
     [config |-> Closed, request |-> Request("GET", 0, "noColon", "", "")],
     [config |-> Closed, request |-> Request("CONNECT", 0, "pair", "alice", "")]}
=============================================================================
