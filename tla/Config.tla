------------------------------- MODULE Config -------------------------------
(***************************************************************************)
(* The configuration file (config.go) and the request that tells the       *)
(* WireGuard device of it (wireguard.go).                                  *)
(*                                                                         *)
(* A parser returns a value or an error: here the set that has the value,  *)
(* or the empty set.  A text is a word with the dollar signs before it, at *)
(* most two of which matter.  What a library makes of a word is a function *)
(* on the words it accepts.  A section is a function from the keys it has, *)
(* in lower case, to their texts, the first one if a key is repeated.      *)
(***************************************************************************)
EXTENDS Integers, Sequences, FiniteSets, Functions

CONSTANTS
    Disk,      \* the files go-ini reads: WGConfig and the sections with their names
    Nil,       \* a nil pointer, and the WGConfig of a file without that key
    Env,       \* the environment, from names to texts
    Items,     \* strings.Split at the commas, and strings.TrimSpace
    IntOf,     \* go-ini's Int
    Atoi,      \* strconv.Atoi
    AddrOf,    \* netip.ParseAddr
    PrefixOf,  \* netip.ParsePrefix
    AddrIn,    \* the address of a prefix
    HexOf,     \* base64 of 32 bytes, in hexadecimal
    HostPort,  \* net.SplitHostPort
    IPOf,      \* net.ResolveIPAddr
    PortOf,    \* net.LookupPort: numbers, and the names of services
    RangeOf,   \* parseUintRange, see Keepalive
    ASecOf,    \* ParseASecConfig, see AWGConfig
    Defaults,  \* the prefixes 0.0.0.0/0 and ::0/0
    MaxPort    \* the largest uint16

(* go-ini and strings.Split give lists. *)
ASSUME ListAssumption ==
    /\ \A path \in DOMAIN Disk : Disk[path].sections \in Seq(Range(Disk[path].sections))
    /\ \A w \in DOMAIN Items : Items[w] \in Seq(Range(Items[w]))
    /\ Defaults \in Seq(Range(Defaults))

(* A number is a port when it fits, and the libraries agree on it.  There  *)
(* is no port in an empty text.                                            *)
ASSUME PortAssumption ==
    /\ MaxPort \in Nat
    /\ "" \notin DOMAIN HostPort
    /\ \A w \in DOMAIN PortOf : PortOf[w] \in 0 .. MaxPort
    /\ \A w \in DOMAIN Atoi :
          /\ Atoi[w] \in Int
          /\ w \in DOMAIN PortOf <=> Atoi[w] \in 0 .. MaxPort
          /\ w \in DOMAIN PortOf => PortOf[w] = Atoi[w]

Lookup(table, text) ==
    IF text.dollars = 0 /\ text.word \in DOMAIN table THEN {table[text.word]} ELSE {}

Plain(word) == [dollars |-> 0, word |-> word]
Empty == Plain("")

(* All of a sequence of results, or an error. *)
Each(results) ==
    IF \E i \in DOMAIN results : results[i] = {} THEN {}
    ELSE {[i \in DOMAIN results |-> CHOOSE value \in results[i] : TRUE]}

(* What appending a list of lists to each other gives. *)
Flatten(lists) ==
    LET upTo[i \in 0 .. Len(lists)] == IF i = 0 THEN <<>> ELSE upTo[i - 1] \o lists[i]
    IN upTo[Len(lists)]

(* The members of a list with these indices, in order. *)
Kept(list, indices) == Flatten([i \in DOMAIN list |-> IF i \in indices THEN <<list[i]>> ELSE <<>>])
-----------------------------------------------------------------------------
(* go-ini: Key makes up an empty key where there is none. *)
Key(section, k) == IF k \in DOMAIN section THEN section[k] ELSE Empty

(* GetKey: a key that may be left out, and is taken without parseString. *)
Optional(table, section, k, default) ==
    IF k \in DOMAIN section THEN Lookup(table, section[k]) ELSE {default}

(* One dollar sign refers to the environment, the first of two is an       *)
(* escape.  What a variable holds is taken as it is.                       *)
ParseString(section, k) ==
    LET value == Key(section, k) IN
    IF value.dollars # 1 THEN {[value EXCEPT !.dollars = IF @ = 2 THEN 1 ELSE 0]}
    ELSE IF value.word \in DOMAIN Env THEN {Env[value.word]} ELSE {}

(* A key whose error is ignored. *)
Ignoring(section, k) ==
    IF ParseString(section, k) = {} THEN Empty ELSE CHOOSE text \in ParseString(section, k) : TRUE

(* Looked up after parseString. *)
ParseWith(table, section, k) == UNION {Lookup(table, text) : text \in ParseString(section, k)}

ParsePort(section, k) == Lookup(IntOf, Key(section, k)) \cap (0 .. MaxPort)

(* A host and a port that net makes an address of. *)
SplitAddr(text) ==
    {[host |-> IPOf[hp[1]], port |-> PortOf[hp[2]]] :
        hp \in {q \in Lookup(HostPort, text) : q[1] \in DOMAIN IPOf /\ q[2] \in DOMAIN PortOf}}

(* net.ResolveTCPAddr and net.ResolveUDPAddr *)
ResolveAddr(text) == IF text = Empty THEN {[host |-> "", port |-> 0]} ELSE SplitAddr(text)

ParseTCPAddr(section, k) == UNION {ResolveAddr(text) : text \in ParseString(section, k)}

(* A list, of which the empty items are skipped. *)
ParseItems(table, section, k) ==
    UNION {Each([i \in DOMAIN words |-> Lookup(table, Plain(words[i]))]) :
              words \in {Kept(items, {i \in DOMAIN items : items[i] # ""}) : items \in ParseWith(Items, section, k)}}

ParseNetIP(section, k) == ParseItems(AddrOf, section, k)
ParseAllowedIPs(section) == ParseItems(PrefixOf, section, "allowedips")

(* An address, or the address of a prefix. *)
ParseCIDRNetIP(section, k) ==
    ParseItems([w \in DOMAIN AddrOf \cup DOMAIN PrefixOf |->
                   IF w \in DOMAIN AddrOf THEN AddrOf[w] ELSE AddrIn[PrefixOf[w]]], section, k)

(* resolveIPPAndPort: the name is looked up once, the port stays a word. *)
ResolveIPAndPort(text) ==
    {<<IPOf[hp[1]], hp[2]>> : hp \in {q \in Lookup(HostPort, text) : q[1] \in DOMAIN IPOf}}
-----------------------------------------------------------------------------
SectionsByName(cfg, name) ==
    LET found == Kept(cfg.sections, {i \in DOMAIN cfg.sections : cfg.sections[i].name = name})
    IN [i \in DOMAIN found |-> found[i].keys]

ParseInterface(cfg) ==
    LET sections == SectionsByName(cfg, "Interface")
        s == sections[1]
    IN IF Len(sections) # 1 THEN {}
       ELSE {[Endpoint |-> address, SecretKey |-> key, DNS |-> dns, MTU |-> mtu, ListenPort |-> port,
              CheckAlive |-> alive, CheckAliveInterval |-> interval, ASecConfig |-> asec] :
                 address \in ParseCIDRNetIP(s, "address"),
                 key \in ParseWith(HexOf, s, "privatekey"),
                 dns \in ParseNetIP(s, "dns"),
                 mtu \in Optional(IntOf, s, "mtu", 1420),
                 port \in Optional(IntOf, s, "listenport", Nil),
                 alive \in ParseNetIP(s, "checkalive"),
                 interval \in IF "checkaliveinterval" \in DOMAIN s /\ ParseNetIP(s, "checkalive") = {<<>>}
                              THEN {} ELSE Optional(IntOf, s, "checkaliveinterval", 5),
                 asec \in Optional(ASecOf, s, "asec", Nil)}

ParsePeer(s) ==
    {[PublicKey |-> key, PreSharedKey |-> psk, Endpoint |-> endpoint, KeepAlive |-> keepalive, AllowedIPs |-> ips] :
        key \in ParseWith(HexOf, s, "publickey"),
        psk \in Optional(HexOf, s, "presharedkey", Nil),
        endpoint \in IF "endpoint" \in DOMAIN s THEN ResolveIPAndPort(s["endpoint"]) ELSE {Nil},
        keepalive \in Optional(RangeOf, s, "persistentkeepalive", 0),
        ips \in ParseAllowedIPs(s)}

ParsePeers(cfg) ==
    LET sections == SectionsByName(cfg, "Peer")
    IN IF sections = <<>> THEN {} ELSE Each([i \in DOMAIN sections |-> ParsePeer(sections[i])])
-----------------------------------------------------------------------------
ParseTCPClientTunnel(s) ==
    {[kind |-> "TCPClientTunnel", BindAddress |-> bind, Target |-> target] :
        bind \in ParseTCPAddr(s, "bindaddress"), target \in ParseString(s, "target")}

ParseSTDIOTunnel(s) == {[kind |-> "STDIOTunnel", Target |-> target] : target \in ParseString(s, "target")}

ParseTCPServerTunnel(s) ==
    {[kind |-> "TCPServerTunnel", ListenPort |-> port, Target |-> target] :
        port \in ParsePort(s, "listenport"), target \in ParseString(s, "target")}

ParseSocks5(s) ==
    {[kind |-> "Socks5", BindAddress |-> bind, Username |-> Ignoring(s, "username"),
      Password |-> Ignoring(s, "password")] : bind \in ParseString(s, "bindaddress")}

ParseHTTP(s) ==
    {[kind |-> "http", BindAddress |-> bind, Username |-> Ignoring(s, "username"),
      Password |-> Ignoring(s, "password"), CertFile |-> Ignoring(s, "certfile"),
      KeyFile |-> Ignoring(s, "keyfile")] : bind \in ParseString(s, "bindaddress")}

ParseUDPProxyTunnel(s) ==
    {[kind |-> "UDPProxyTunnel", BindAddress |-> bind, Target |-> target, InactivityTimeout |-> timeout] :
        bind \in ParseString(s, "bindaddress"), target \in ParseString(s, "target"),
        timeout \in Optional(IntOf, s, "inactivitytimeout", 0)}

RoutineKinds == <<"TCPClientTunnel", "STDIOTunnel", "TCPServerTunnel", "Socks5", "http", "UDPProxyTunnel">>

ParseRoutine(kind, s) ==
    CASE kind = "TCPClientTunnel" -> ParseTCPClientTunnel(s)
      [] kind = "STDIOTunnel" -> ParseSTDIOTunnel(s)
      [] kind = "TCPServerTunnel" -> ParseTCPServerTunnel(s)
      [] kind = "Socks5" -> ParseSocks5(s)
      [] kind = "http" -> ParseHTTP(s)
      [] kind = "UDPProxyTunnel" -> ParseUDPProxyTunnel(s)

(* Mutant: a kind of routine is configured at most once. *)
ParseRoutinesOnce(cfg, kind) ==
    LET sections == SectionsByName(cfg, kind)
    IN Each([i \in DOMAIN sections \cap {1} |-> ParseRoutine(kind, sections[i])])

ParseRoutines(cfg, kind) ==
    LET sections == SectionsByName(cfg, kind)
    IN Each([i \in DOMAIN sections |-> ParseRoutine(kind, sections[i])])
-----------------------------------------------------------------------------
(* The device may be described in a file of its own; the routines, and the *)
(* strategy of [Resolve], always come from the first.                      *)
ParseConfig(path) ==
    LET cfg == Disk[path]
        wgPath == IF cfg.WGConfig = Nil THEN path ELSE cfg.WGConfig
        wgCfg == Disk[wgPath]
        routines == Each([k \in DOMAIN RoutineKinds |-> ParseRoutines(cfg, RoutineKinds[k])])
        resolve == SectionsByName(cfg, "Resolve")
    IN IF path \in DOMAIN Disk /\ wgPath \in DOMAIN Disk
       THEN {[Device |-> iface, Peers |-> peers, Routines |-> Flatten(lists),
              Resolve |-> IF resolve = <<>> THEN Plain("auto") ELSE Ignoring(resolve[1], "resolvestrategy")] :
                iface \in ParseInterface(wgCfg), peers \in ParsePeers(wgCfg), lists \in routines}
       ELSE {}
-----------------------------------------------------------------------------
(* CreateIPCRequest: a line is a pair of a key and a value. *)

OptionalLine(k, value) == IF value = Nil THEN <<>> ELSE <<<<k, value>>>>

(* Mutant: every peer is offered the default routes as well. *)
AllowedLinesAlways(peer) ==
    [i \in 1 .. Len(peer.AllowedIPs \o Defaults) |-> <<"allowed_ip", (peer.AllowedIPs \o Defaults)[i]>>]

(* A peer for which no prefixes are given is given all addresses. *)
AllowedLines(peer) ==
    LET ips == IF peer.AllowedIPs = <<>> THEN Defaults ELSE peer.AllowedIPs
    IN [i \in DOMAIN ips |-> <<"allowed_ip", ips[i]>>]

PeerLines(peer) ==
    <<<<"public_key", peer.PublicKey>>, <<"persistent_keepalive_interval", peer.KeepAlive>>,
      <<"preshared_key", peer.PreSharedKey>>>> \o OptionalLine("endpoint", peer.Endpoint) \o AllowedLines(peer)

CreateIPCRequest(c) ==
    <<<<"private_key", c.Device.SecretKey>>>> \o OptionalLine("listen_port", c.Device.ListenPort)
        \o OptionalLine("asec", c.Device.ASecConfig)
        \o Flatten([i \in DOMAIN c.Peers |-> PeerLines(c.Peers[i])])

(* The device reads line by line: public_key selects or adds a peer, the   *)
(* lines after it are about that peer, and a prefix belongs to the peer    *)
(* that claimed it last.                                                   *)
NoDevice == [key |-> Nil, peer |-> Nil, psk |-> <<>>, route |-> <<>>]

Put(table, k, value) == [x \in DOMAIN table \cup {k} |-> IF x = k THEN value ELSE table[x]]

IpcLine(dev, line) ==
    CASE line[1] = "private_key" -> [dev EXCEPT !.key = line[2]]
      [] line[1] = "public_key" -> [dev EXCEPT !.peer = line[2]]
      [] line[1] = "preshared_key" -> [dev EXCEPT !.psk = Put(@, dev.peer, line[2])]
      [] line[1] = "allowed_ip" -> [dev EXCEPT !.route = Put(@, line[2], dev.peer)]
      [] OTHER -> dev

IpcSet(lines) ==
    LET after[i \in 0 .. Len(lines)] == IF i = 0 THEN NoDevice ELSE IpcLine(after[i - 1], lines[i])
    IN after[Len(lines)]

(* What a configuration says of the device: the last peer to say it counts. *)
Reflects(dev, c) ==
    LET peers == c.Peers
        claims(peer) == IF peer.AllowedIPs = <<>> THEN Range(Defaults) ELSE Range(peer.AllowedIPs)
        last(P(_)) == peers[CHOOSE i \in DOMAIN peers : P(peers[i]) /\ \A j \in i + 1 .. Len(peers) : ~ P(peers[j])]
    IN /\ dev.key = c.Device.SecretKey
       /\ DOMAIN dev.route = UNION {claims(peers[i]) : i \in DOMAIN peers}
       /\ \A prefix \in DOMAIN dev.route : dev.route[prefix] = last(LAMBDA q : prefix \in claims(q)).PublicKey
       /\ \A i \in DOMAIN peers :
             dev.psk[peers[i].PublicKey] = last(LAMBDA q : q.PublicKey = peers[i].PublicKey).PreSharedKey
=============================================================================
