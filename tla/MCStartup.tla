----------------------------- MODULE MCStartup ------------------------------
(***************************************************************************)
(* Configuration files that differ in what main.go and config.go look at:  *)
(* sections of every kind, repeated and missing ones, a file for the       *)
(* device, peers that share keys and prefixes, texts from the environment, *)
(* and ports that are numbers, services, too large or absent.              *)
(***************************************************************************)
EXTENDS Startup, TLC

Is(word) == Plain(word)
Dollar(word) == [dollars |-> 1, word |-> word]
Section(name, keys) == [name |-> name, keys |-> keys]
File(sections) == [WGConfig |-> Nil, sections |-> sections]

MCMaxPort == 3

MCEnv == "KEY" :> Is("k0") @@ "BIND" :> Is("name:2")
MCHexOf == [w \in {"k0", "k1", "k2", "s1", "s2"} |-> <<w>>]
MCIntOf == "1" :> 1 @@ "2" :> 2 @@ "-1" :> -1 @@ "5" :> 5
MCAtoi == MCIntOf @@ "3" :> 3
MCPortOf == "1" :> 1 @@ "2" :> 2 @@ "3" :> 3 @@ "service" :> 2 @@ "" :> 0
MCHostPort ==
    "addr:1" :> <<"addr", "1">> @@ "name:2" :> <<"name", "2">> @@ ":1" :> <<"", "1">> @@ ":3" :> <<"", "3">>
    @@ ":5" :> <<"", "5">> @@ "addr:service" :> <<"addr", "service">> @@ "far:3" :> <<"far", "3">>
    @@ "far:-1" :> <<"far", "-1">>
MCIPOf == "addr" :> "addr" @@ "name" :> "loopback" @@ "" :> ""
MCItems ==
    "" :> <<"">> @@ "a/8" :> <<"a/8">> @@ "a/8,b/8" :> <<"a/8", "b/8">> @@ "b/8,," :> <<"b/8", "", "">>
    @@ "ip" :> <<"ip">>
MCPrefixOf == [w \in {"a/8", "b/8"} |-> <<w>>]
MCAddrOf == "ip" :> "ip"
MCAddrIn == [x \in {<<"a/8">>, <<"b/8">>} |-> "masked"]
MCRangeOf == "2" :> <<2, 2>>
MCASecOf == "on" :> "asec"
MCDefaults == <<<<"0/0">>, <<"::0/0">>>>
MCNames == {"name", "far"}
MCDefaultPaths == <<"missing", "plain">>

Interface == Section("Interface", "privatekey" :> Dollar("KEY") @@ "address" :> Is("a/8"))
Peer(key, keys) == Section("Peer", "publickey" :> Is(key) @@ keys)

(* The two peers claim b/8 both, the third has the key of the first. *)
Peers ==
    <<Peer("k1", "allowedips" :> Is("a/8,b/8") @@ "presharedkey" :> Is("s1") @@ "endpoint" :> Is("addr:1")),
      Peer("k2", "allowedips" :> Is("b/8,,") @@ "persistentkeepalive" :> Is("2")),
      Peer("k1", "presharedkey" :> Is("s2"))>>

Device == <<Interface, Peers[1]>>

HTTP(keys) == Section("http", keys)
Bind(word) == "bindaddress" :> Is(word)
Target(word) == "target" :> Is(word)
Client(bind, target) == Section("TCPClientTunnel", Bind(bind) @@ Target(target))
Server(port, target) == Section("TCPServerTunnel", "listenport" :> Is(port) @@ Target(target))

MCDisk ==
    "plain" :> File(<<Interface>> \o Peers) @@
    "device" :> File(<<Section("Interface", "privatekey" :> Is("k0") @@ "dns" :> Is("ip") @@ "mtu" :> Is("1")
                        @@ "listenport" :> Is("2") @@ "checkalive" :> Is("ip") @@ "checkaliveinterval" :> Is("1")
                        @@ "asec" :> Is("on")),
                      Peers[2], HTTP(Bind("addr:1"))>>) @@
    "tunnels" :> [WGConfig |-> "device",
                  sections |-> <<Server("1", "addr:1"), Client("addr:1", "far:3"), Server("2", ":3"),
                                 Section("Resolve", "resolvestrategy" :> Is("ipv4"))>>] @@
    "proxies" :> File(Device \o <<Section("UDPProxyTunnel", Bind("name:2") @@ Target("far:3")),
                                  Section("Socks5", "bindaddress" :> Dollar("BIND") @@ "username" :> Dollar("NO")),
                                  HTTP(Bind(":1")), HTTP(Bind("addr:1"))>>) @@
    "stdio" :> File(Device \o <<Section("STDIOTunnel", Target("far:3")),
                                Section("UDPProxyTunnel", Bind("addr:service") @@ Target("far:3"))>>) @@
    "wrapped" :> File(Device \o <<HTTP(Bind(":5")), HTTP(Bind(":1"))>>) @@
    "service" :> File(Device \o <<HTTP(Bind("addr:service"))>>) @@
    "unbound" :> File(Device \o <<Section("Socks5", <<>>)>>) @@
    "anywhere" :> File(Device \o <<Client("", "far:3"), Server("2", "name:2")>>) @@
    "nowhere" :> File(Device \o <<Client("addr:1", ""), Section("STDIOTunnel", <<>>)>>) @@
    "negative" :> File(Device \o <<Server("2", "far:-1")>>) @@
    "lost" :> [WGConfig |-> "missing", sections |-> Device] @@
    "keyless" :> File(<<Section("Interface", "privatekey" :> Dollar("NO")), Peers[1]>>) @@
    "twice" :> File(Device \o Device) @@
    "peerless" :> File(<<Interface>>) @@
    "idle" :> File(<<Section("Interface", "privatekey" :> Is("k0") @@ "checkaliveinterval" :> Is("1")), Peers[1]>>) @@
    "farpeer" :> File(<<Interface, Peer("k1", "endpoint" :> Is("far:3"))>>) @@
    "badport" :> File(Device \o <<Server("5", "far:3")>>)

Run(path) == [valid |-> TRUE, version |-> FALSE, config |-> path, daemon |-> FALSE, configtest |-> FALSE, info |-> Empty]

MCInvocations ==
    {[Run(path) EXCEPT !.daemon = d, !.info = i] :
        path \in DOMAIN MCDisk \cup {"missing", ""}, d \in BOOLEAN, i \in {Empty, Is(":3"), Is("name:2")}}
    \cup {[Run("unbound") EXCEPT !.configtest = TRUE], [Run("") EXCEPT !.version = TRUE],
          [Run("") EXCEPT !.valid = FALSE]}
=============================================================================
