---------------------------- MODULE SessionTable ----------------------------
(***************************************************************************)
(* What the UDP proxy tunnel promises about its sessions, without saying   *)
(* how: a client has at most one current session; a session that is        *)
(* current owns an open tunnel connection; a session that stops being      *)
(* current eventually gives its connection back; and a connection is never *)
(* given back while a client still uses it.  Module UDPProxy implements    *)
(* this specification.                                                     *)
(***************************************************************************)
CONSTANTS Client, Session, NoSession

VARIABLES table,   \* the current session of each client, or NoSession
          conn     \* "open" or "closed": the tunnel connection of a session

tableVars == <<table, conn>>

TableInit ==
    /\ table = [c \in Client |-> NoSession]
    /\ conn = [s \in Session |-> "closed"]

Current(s) == \E c \in Client : table[c] = s

(* A client without a session gets one, on a connection of its own. *)
Open(c, s) ==
    /\ table[c] = NoSession
    /\ conn[s] = "closed"
    /\ table' = [table EXCEPT ![c] = s]
    /\ conn' = [conn EXCEPT ![s] = "open"]

(* A session stops being current; its connection stays open for now. *)
Detach(c) ==
    /\ table[c] # NoSession
    /\ table' = [table EXCEPT ![c] = NoSession]
    /\ conn' = conn

(* The connection of a session that is not current is closed. *)
Release(s) ==
    /\ conn[s] = "open"
    /\ ~ Current(s)
    /\ conn' = [conn EXCEPT ![s] = "closed"]
    /\ table' = table

TableNext ==
    \/ \E c \in Client, s \in Session : Open(c, s)
    \/ \E c \in Client : Detach(c)
    \/ \E s \in Session : Release(s)

TableSafety == TableInit /\ [][TableNext]_tableVars

TableSpec == TableSafety /\ \A s \in Session : WF_tableVars(Release(s))
=============================================================================
