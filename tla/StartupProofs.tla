--------------------------- MODULE StartupProofs ----------------------------
(***************************************************************************)
(* What holds of the start of the program for every set of configuration   *)
(* files, every command line and every kernel: the sandbox is closed when  *)
(* the routines serve, it refuses the program only what SandboxFits lists, *)
(* the device is the one the file describes, and every section is served.  *)
(* What ParseConfig and IpcSet compute is in ConfigProofs.                 *)
(***************************************************************************)
EXTENDS Startup, ConfigProofs

Early == {"off", "boot", "args", "parse", "lockNetwork", "detach", "ready"}
Locked == {"detach", "ready", "device", "spawn", "wait"}

(* What the stages of lock leave: main has what its next steps need. *)
FilesInv ==
    /\ \A p \in Proc :
          /\ platform = "plain" => files[p] = Right
          /\ ~ Landlock => {"null", "hosts"} \subseteq files[p]
          /\ pc[p] \in Early => "config" \in files[p]
          /\ pc[p] \in Early /\ (args.daemon \/ platform # "openbsd") => "exec" \in files[p]
          /\ pc[p] \in {"device", "spawn", "wait"} /\ platform # "plain" =>
                files[p] \cap {"config", "exec", "stdout"} = {}
    /\ Landlock /\ pc["first"] # "boot" => "null" \notin files["first"]

(* The child is there only after its parent has returned. *)
ForkInv ==
    /\ pc["daemon"] # "off" => pc["first"] = "returned" /\ args.daemon /\ ~ Landlock
    /\ pc["first"] \in {"ready", "device", "spawn", "wait"} => ~ args.daemon

(* The port rules are those of the configuration. *)
NetInv ==
    \A p \in Proc :
        /\ pc[p] \in Early \ Locked /\ Landlock => net[p] = NetRight
        /\ pc[p] \in Locked => Extractable(p)
        /\ pc[p] \in Locked /\ platform = "landlock4" => net[p] = NetRight \cap AllRules(p)

(* The configuration is that of the file main was given, and the device    *)
(* was told of it.                                                         *)
ConfInv ==
    \A p \in Proc :
        /\ pc[p] \in Configured => \E path \in ConfigPaths : conf[p] \in ParseConfig(path)
        /\ device[p] # Nil =>
              /\ pc[p] \notin Early \cup {"device"} /\ device[p] = IpcSet(CreateIPCRequest(conf[p]))
              /\ \E path : conf[p] \in ParseConfig(path)

(* Nothing is spawned, and nothing was refused, before main serves; a      *)
(* routine that is up has a target; when main waits nothing is left.       *)
RunAt(p) ==
    /\ pc[p] \in Early \cup {"device"} => run[p] = <<>> /\ denied[p] = {}
    /\ pc[p] = "wait" => Len(run[p]) + 1 \notin DOMAIN Work(p)
    /\ \A i \in DOMAIN run[p] :
          /\ i \in DOMAIN Work(p)
          /\ run[p][i] \in {"up", "forwarding"} => TargetOK(Work(p)[i])

RunInv == \A p \in Proc : RunAt(p)

Inv == TypeOK /\ FilesInv /\ ForkInv /\ NetInv /\ ConfInv /\ RunInv /\ SandboxFits
-----------------------------------------------------------------------------
(* A number that fits is not changed by the conversion to uint16. *)
LEMMA Fits ==
    ASSUME NEW m \in Nat, NEW n \in 0 .. m
    PROVE  n % (m + 1) = n
OBVIOUS

(* The entries of a list with one more at the end. *)
LEMMA OneMore ==
    ASSUME NEW S, NEW s \in Seq(S), NEW x \in S
    PROVE  \A i \in DOMAIN Append(s, x) :
               \/ i \in DOMAIN s /\ Append(s, x)[i] = s[i]
               \/ i = Len(s) + 1 /\ Append(s, x)[i] = x
OBVIOUS

(* A port that extractPort and net both find in a text is the same. *)
LEMMA SamePort ==
    ASSUME NEW text, ExtractPort(text) # {}, NEW a \in ResolveAddr(text)
    PROVE  a.port \in ExtractPort(text) \cap (0 .. MaxPort)
<1>1. PICK hp \in Lookup(HostPort, text) : hp[2] \in DOMAIN Atoi
    BY DEF ExtractPort
<1>2. text.word \in DOMAIN HostPort /\ hp = HostPort[text.word] /\ Lookup(HostPort, text) = {hp}
    BY <1>1, Zenon DEF Lookup
<1>3. text # Empty
  <2>1. Empty.word = ""
      BY DEF Empty, Plain
  <2> QED BY Zenon, <1>2, <2>1, PortAssumption
<1>4. a \in SplitAddr(text)
    BY <1>3 DEF ResolveAddr
<1>5. a.port = PortOf[hp[2]] /\ hp[2] \in DOMAIN PortOf
  <2>1. PICK q \in Lookup(HostPort, text) : q[2] \in DOMAIN PortOf /\ a = [host |-> IPOf[q[1]], port |-> PortOf[q[2]]]
      BY <1>4 DEF SplitAddr
  <2> QED BY <1>2, <2>1
<1>6. a.port = Atoi[hp[2]] /\ Atoi[hp[2]] \in 0 .. MaxPort
    BY Zenon, <1>1, <1>5, PortAssumption
<1>7. Atoi[hp[2]] % (MaxPort + 1) = Atoi[hp[2]]
  <2>1. MaxPort \in Nat
      BY Zenon, PortAssumption
  <2> QED BY <1>6, <2>1, Fits
<1>8. Atoi[hp[2]] % (MaxPort + 1) \in ExtractPort(text)
    BY <1>1 DEF ExtractPort
<1> QED BY <1>6, <1>7, <1>8

(* Work, and what is made of it, depends on conf and args only. *)
LEMMA WorkFrame ==
    ASSUME NEW q \in Proc, conf'[q] = conf[q], args' = args
    PROVE  /\ Work(q)' = Work(q) /\ AllRules(q)' = AllRules(q) /\ Extractable(q)' = Extractable(q)
           /\ HasStdio(q)' = HasStdio(q) /\ HasName(q)' = HasName(q)
<1>1. Work(q)' = Work(q)
    BY DEF Work
<1>2. \A w : ResolvesName(q, w)' = ResolvesName(q, w)
    BY DEF ResolvesName, SystemDNS
<1>3. HasName(q)' = HasName(q)
    BY Zenon, <1>1, <1>2 DEF HasName
<1> QED BY <1>1, <1>3 DEF AllRules, Extractable, HasStdio

(* A listener whose port extractPort was asked for may bind it. *)
LEMMA MayListen ==
    ASSUME Inv, NEW p \in Proc, Serving(p), NEW i \in DOMAIN Work(p),
           NEW a \in Addresses(Work(p)[i]), ~ MayBind(p, Work(p)[i], a)
    PROVE  Work(p)[i].kind = "TCPClientTunnel" /\ platform = "landlock4"
<1> DEFINE w == Work(p)[i]
<1>1. platform = "landlock4" /\ Space(w) = "tcp" /\ <<"bind", a.port>> \notin net[p]
    BY DEF MayBind, May
<1>2. SUFFICES ASSUME w.kind # "TCPClientTunnel" PROVE FALSE
    BY <1>1
<1>3. w.kind \in {"info", "http", "Socks5"} /\ a \in ResolveAddr(w.BindAddress)
    BY Zenon, <1>1, <1>2 DEF Addresses, Space
<1>4. Extracted(w) /\ PortText(w) = w.BindAddress
    BY <1>3 DEF Extracted, PortText
<1>5. pc[p] \in Locked
    BY DEF Serving, Locked
<1>6. ExtractPort(w.BindAddress) # {} /\ net[p] = NetRight \cap AllRules(p)
    BY <1>1, <1>4, <1>5 DEF Inv, NetInv, Extractable
<1>7. a.port \in ExtractPort(w.BindAddress) \cap (0 .. MaxPort)
    BY <1>3, <1>6, SamePort
<1>8. <<"bind", a.port>> \in Rules(w)
    BY <1>3, <1>4, <1>7 DEF Rules
<1>9. <<"bind", a.port>> \in AllRules(p) \cap NetRight
    BY <1>7, <1>8 DEF AllRules, NetRight
<1> QED BY <1>1, <1>6, <1>9

(* A target that parseAddressPort accepts may be connected to. *)
LEMMA MayDial ==
    ASSUME Inv, NEW p \in Proc, Serving(p), NEW i \in DOMAIN Work(p), Work(p)[i].kind = "TCPServerTunnel",
           TargetOK(Work(p)[i]), NEW hp \in Lookup(HostPort, Work(p)[i].Target)
    PROVE  May(p, "connect", Atoi[hp[2]])
<1> DEFINE w == Work(p)[i]
           port == Atoi[hp[2]]
<1>1. SUFFICES ASSUME platform = "landlock4" PROVE <<"connect", port>> \in net[p]
    BY DEF May
<1>2. hp[2] \in DOMAIN Atoi /\ port \in 0 .. MaxPort
  <2>1. Lookup(HostPort, w.Target) = {hp}
      BY Zenon DEF Lookup
  <2> QED BY <2>1 DEF TargetOK, Forwards
<1>3. port % (MaxPort + 1) = port
  <2>1. MaxPort \in Nat
      BY Zenon, PortAssumption
  <2> QED BY <1>2, <2>1, Fits
<1>4. port \in ExtractPort(w.Target)
    BY <1>2, <1>3 DEF ExtractPort
<1>5. Extracted(w) /\ PortText(w) = w.Target
    BY DEF Extracted, PortText
<1>6. <<"connect", port>> \in Rules(w)
    BY <1>4, <1>5 DEF Rules
<1>7. <<"connect", port>> \in AllRules(p) \cap NetRight
    BY <1>2, <1>6 DEF AllRules, NetRight
<1>8. pc[p] \in Locked
    BY DEF Serving, Locked
<1> QED BY <1>1, <1>7, <1>8 DEF Inv, NetInv

(* What SandboxFits looks at is left alone. *)
LEMMA FitsFrame ==
    ASSUME SandboxFits, NEW q \in Proc, UNCHANGED inputs,
           conf'[q] = conf[q], run'[q] = run[q], denied'[q] = denied[q]
    PROVE  DenialsFit(q)' /\ RefusalsFit(q)'
<1>1. Work(q)' = Work(q) /\ HasStdio(q)' = HasStdio(q) /\ HasName(q)' = HasName(q)
    BY WorkFrame, Zenon DEF inputs
<1>2. platform' = platform /\ stdout' = stdout /\ args' = args
    BY DEF inputs
<1>3. DenialsFit(q)'
    BY <1>1, <1>2 DEF SandboxFits, DenialsFit, Landlock
<1>4. RefusalsFit(q)'
    BY <1>1, <1>2 DEF SandboxFits, RefusalsFit
<1> QED BY <1>3, <1>4

(* The tables of /etc are refused under Landlock only. *)
LEMMA LookupFits ==
    ASSUME Inv, NEW p \in Proc, NEW i \in DOMAIN run[p], NEW named, Asks(p, Tables(named)),
           named => LooksUp(Work(p)[i]) \/ ResolvesName(p, Work(p)[i]), UNCHANGED inputs, conf'[p] = conf[p]
    PROVE  DenialsFit(p)' /\ denied[p] \subseteq denied'[p]
<1>1. Work(p)' = Work(p) /\ HasStdio(p)' = HasStdio(p) /\ HasName(p)' = HasName(p)
    BY WorkFrame, Zenon DEF inputs
<1>2. platform' = platform /\ stdout' = stdout /\ args' = args
    BY DEF inputs
<1>3. denied'[p] = denied[p] \cup (Tables(named) \ files[p])
    BY Zenon DEF Asks, Inv, TypeOK
<1>4. \A right \in denied'[p] : right \in denied[p] \/ (right = "hosts" /\ Landlock /\ HasName(p))
  <2>1. named => HasName(p)
      BY Zenon DEF Inv, RunInv, RunAt, HasName
  <2>2. "hosts" \notin files[p] => Landlock
      BY DEF Inv, FilesInv
  <2> QED BY <1>3, <2>1, <2>2 DEF Tables
<1>5. DenialsFit(p)'
    BY <1>1, <1>2, <1>4 DEF Inv, SandboxFits, DenialsFit, Landlock
<1> QED BY <1>3, <1>5

(* The sandbox refuses a step only what SandboxFits lists. *)
LEMMA FitsStep ==
    ASSUME Inv, Next
    PROVE  SandboxFits'
<1>0. PICK p \in Proc :
          \/ MainStep(p)
          \/ Signal(p)
          \/ \E i \in DOMAIN run[p] : Start(p, i) \/ AcceptFails(p, i) \/ Serve(p, i)
    BY DEF Next
<1>t. TypeOK /\ SandboxFits
    BY DEF Inv
<1>f. ASSUME UNCHANGED inputs, NEW q \in Proc, conf'[q] = conf[q], run'[q] = run[q], denied'[q] = denied[q]
      PROVE  DenialsFit(q)' /\ RefusalsFit(q)'
    BY <1>t, <1>f, FitsFrame
<1>q. SUFFICES ASSUME UNCHANGED inputs,
                      \A q \in Proc \ {p} : conf'[q] = conf[q] /\ run'[q] = run[q] /\ denied'[q] = denied[q]
               PROVE  DenialsFit(p)' /\ RefusalsFit(p)'
  <2>1. UNCHANGED inputs
    <3>1. MainStep(p) => UNCHANGED inputs
        BY SMTT(30)
           DEF MainStep, Boot, NothingToDo, Args, Parse, ParseFails, LockNetwork, LockNetworkPanics, Stay,
               Detach, DetachFails, Ready, StartWireguardFails, StartWireguard, Spawn, Spawned, Wait
    <3> QED BY <1>0, <3>1 DEF Signal, Start, Listen, ListenRefused, ListenFails, AcceptFails, Serve, ResolveFails,
                              Forward, OpenStdout, DialTarget
  <2>2. \A q \in Proc \ {p} : conf'[q] = conf[q] /\ run'[q] = run[q] /\ denied'[q] = denied[q]
    <3>1. CASE MainStep(p) \/ Signal(p)
        BY SMTT(30), <1>t, <3>1
           DEF TypeOK, MainStep, Boot, NothingToDo, Args, Parse, ParseFails, LockNetwork,
               LockNetworkPanics, Stay, Detach, DetachFails, Ready, StartWireguardFails, StartWireguard, Spawn,
               Spawned, Wait, Signal, Asks
    <3>2. CASE \E i \in DOMAIN run[p] : Start(p, i) \/ AcceptFails(p, i) \/ Serve(p, i)
      <4>1. /\ conf' = conf
            /\ run' = run \/ \E x : run' = [run EXCEPT ![p] = x]
            /\ denied' = denied \/ \E x : denied' = [denied EXCEPT ![p] = x]
          BY Zenon, <3>2 DEF Start, Listen, ListenRefused, ListenFails, AcceptFails, Serve, ResolveFails, Forward,
                             OpenStdout, DialTarget, Become, Asks
      <4>2. DOMAIN run = Proc /\ DOMAIN denied = Proc
          BY Zenon, <1>t DEF TypeOK
      <4> QED BY Zenon, <4>1, <4>2
    <3> QED BY <1>0, <3>1, <3>2
  <2> QED BY SMTT(30), <1>f, <2>1, <2>2 DEF SandboxFits
<1>1. CASE UNCHANGED <<conf, run, denied>>
    BY <1>f, <1>q, <1>1
<1>2. CASE Parse(p)
  <2>1. run'[p] = <<>> /\ denied'[p] = {}
      BY <1>2 DEF Parse, Go, Inv, RunInv, RunAt, Early
  <2> QED BY SMTT(30), <2>1 DEF DenialsFit, RefusalsFit
<1>3. CASE ParseFails(p)
  <2>1. "config" \in files[p]
      BY <1>3 DEF ParseFails, Go, Inv, FilesInv, Early
  <2>2. denied'[p] = denied[p]
      BY <1>3, <1>t, <2>1 DEF ParseFails, Asks, TypeOK
  <2> QED BY <1>3, <1>f, <1>q, <2>2 DEF ParseFails
<1>4. CASE DetachFails(p)
  <2>1. pc[p] = "detach" /\ p = "first" /\ args.daemon /\ UNCHANGED <<conf, run>>
      BY <1>4 DEF DetachFails, Go
  <2>2. "exec" \in files[p] /\ ("null" \notin files[p] => Landlock)
      BY <2>1 DEF Inv, FilesInv, Early
  <2>3. run'[p] = <<>> /\ \A right \in denied'[p] : right = "null" /\ Landlock
      BY <1>4, <1>t, <2>1, <2>2 DEF DetachFails, Asks, TypeOK, Inv, RunInv, RunAt, Early
  <2> QED BY <1>q, <2>1, <2>3 DEF DenialsFit, RefusalsFit, inputs, Landlock
<1>5. CASE Spawn(p)
  <2>1. UNCHANGED <<conf, denied>> /\ run'[p] = Append(run[p], "spawned") /\ Work(p)' = Work(p)
      BY <1>5, <1>q, <1>t, WorkFrame DEF Spawn, TypeOK, inputs
  <2>2. \A i \in DOMAIN run'[p] : run'[p][i] = "refused" => i \in DOMAIN run[p] /\ run'[p][i] = run[p][i]
    <3>1. /\ run[p] \in Seq({"spawned", "up", "forwarding", "refused", "over"})
          /\ "spawned" \in {"spawned", "up", "forwarding", "refused", "over"}
        BY Zenon, <1>t DEF TypeOK
    <3>2. \A i \in DOMAIN run'[p] : \/ i \in DOMAIN run[p] /\ run'[p][i] = run[p][i]
                                    \/ run'[p][i] = "spawned"
      <4>1. \A i \in DOMAIN Append(run[p], "spawned") :
                \/ i \in DOMAIN run[p] /\ Append(run[p], "spawned")[i] = run[p][i]
                \/ i = Len(run[p]) + 1 /\ Append(run[p], "spawned")[i] = "spawned"
          BY <3>1, OneMore
      <4> QED BY Zenon, <2>1, <4>1
    <3> QED BY <3>2
  <2>3. DenialsFit(p)'
    <3>1. HasStdio(p)' = HasStdio(p) /\ HasName(p)' = HasName(p)
        BY <1>q, <2>1, WorkFrame, Zenon DEF inputs
    <3> QED BY <1>t, <1>q, <2>1, <3>1 DEF DenialsFit, SandboxFits, inputs, Landlock
  <2>4. RefusalsFit(p)'
      BY SMTT(30), <1>t, <1>q, <2>1, <2>2 DEF RefusalsFit, SandboxFits, inputs
  <2> QED BY SMTT(30), <2>3, <2>4
<1>6. ASSUME NEW i \in DOMAIN run[p], Start(p, i) \/ Serve(p, i)
      PROVE  DenialsFit(p)' /\ RefusalsFit(p)'
  <2>1. conf' = conf /\ Work(p)' = Work(p) /\ HasStdio(p)' = HasStdio(p) /\ HasName(p)' = HasName(p)
    <3>1. conf' = conf
        BY <1>6 DEF Start, Listen, ListenRefused, ListenFails, Serve, ResolveFails, Forward, OpenStdout, DialTarget
    <3> QED BY <1>q, <3>1, WorkFrame, Zenon DEF inputs
  <2>2. ASSUME NEW state, Become(p, i, state), denied[p] \subseteq denied'[p],
               state = "refused" => \/ Work(p)[i].kind = "TCPClientTunnel" /\ platform = "landlock4"
                                    \/ Work(p)[i].kind = "STDIOTunnel" /\ "stdout" \in denied'[p]
        PROVE  RefusalsFit(p)'
    <3>1. DOMAIN run'[p] = DOMAIN run[p] /\ run'[p][i] = state
        BY <1>6, <1>t, <2>2 DEF Become, TypeOK
    <3>2. \A j \in DOMAIN run[p] \ {i} : run'[p][j] = run[p][j]
        BY <1>6, <1>t, <2>2 DEF Become, TypeOK
    <3>3. RefusalsFit(p) /\ platform' = platform
        BY <1>t, <1>q DEF SandboxFits, inputs
    <3> QED BY <2>1, <2>2, <3>1, <3>2, <3>3 DEF RefusalsFit
  <2>l. ASSUME NEW named, Asks(p, Tables(named)), named => LooksUp(Work(p)[i]) \/ ResolvesName(p, Work(p)[i])
        PROVE  DenialsFit(p)' /\ denied[p] \subseteq denied'[p]
      BY Zenon, <1>6, <1>q, <2>1, <2>l, LookupFits
  <2>3. CASE Listen(p, i)
    <3>1. Asks(p, Tables(LooksUp(Work(p)[i]))) /\ Become(p, i, "up")
        BY <2>3 DEF Listen
    <3> QED BY <2>2, <2>l, <3>1
  <2>4. CASE ListenRefused(p, i)
    <3>1. Asks(p, Tables(LooksUp(Work(p)[i]))) /\ Become(p, i, "refused") /\ Serving(p)
        BY Zenon, <2>4 DEF ListenRefused, At
    <3>2. i \in DOMAIN Work(p)
        BY <1>6 DEF Inv, RunInv, RunAt
    <3>3. \E a \in Addresses(Work(p)[i]) : ~ MayBind(p, Work(p)[i], a)
        BY <2>4 DEF ListenRefused
    <3>4. Work(p)[i].kind = "TCPClientTunnel" /\ platform = "landlock4"
        BY <3>1, <3>2, <3>3, MayListen
    <3> QED BY Zenon, <2>2, <2>l, <3>1, <3>4
  <2>5. ASSUME run' = run, denied[p] \subseteq denied'[p] PROVE RefusalsFit(p)'
      BY <1>t, <1>q, <2>1, <2>5 DEF RefusalsFit, SandboxFits, inputs
  <2>6. CASE ListenFails(p, i)
    <3>1. Asks(p, Tables(LooksUp(Work(p)[i]))) /\ run' = run
        BY <2>6 DEF ListenFails
    <3> QED BY Zenon, <2>5, <2>l, <3>1
  <2>7. CASE ResolveFails(p, i)
    <3>1. Asks(p, Tables(ResolvesName(p, Work(p)[i]))) /\ (run' = run \/ Become(p, i, "over"))
        BY <2>7 DEF ResolveFails, Become
    <3> QED BY <2>2, <2>5, <2>l, <3>1
  <2>8. CASE Forward(p, i)
    <3>1. Become(p, i, "forwarding") /\ (Asks(p, Tables(ResolvesName(p, Work(p)[i]))) \/ denied' = denied)
        BY <2>8 DEF Forward
    <3>2. ASSUME denied' = denied PROVE DenialsFit(p)'
        BY <1>t, <1>q, <2>1, <3>2 DEF DenialsFit, SandboxFits, inputs, Landlock
    <3> QED BY <2>2, <2>l, <3>1, <3>2
  <2>9. CASE OpenStdout(p, i)
    <3> DEFINE open == "stdout" \in files[p] \/ (Landlock /\ stdout = "pipe")
               named == ResolvesName(p, Work(p)[i])
    <3>1. Work(p)[i].kind = "STDIOTunnel" /\ Become(p, i, IF open THEN "forwarding" ELSE "refused")
        BY <2>9 DEF OpenStdout
    <3>2. denied'[p] = denied[p] \cup ((Tables(named) \cup IF open THEN {} ELSE {"stdout"}) \ files[p])
        BY <1>t, <2>9, Zenon DEF OpenStdout, Asks, TypeOK
    <3>3. ~ open => platform = "openbsd" \/ (Landlock /\ stdout = "file")
      <4>1. platform \in Platform /\ stdout \in {"pipe", "file"}
          BY <1>t DEF TypeOK
      <4>2. platform = "plain" => files[p] = Right
          BY SMTT(30) DEF Inv, FilesInv
      <4> QED BY <4>1, <4>2 DEF Platform, Landlock, Right
    <3>4. ~ open => "stdout" \notin files[p]
        OBVIOUS
    <3>5. "hosts" \notin files[p] => Landlock
        BY DEF Inv, FilesInv
    <3>6. HasStdio(p)
        BY SMTT(30), <1>6, <3>1 DEF HasStdio, Inv, RunInv, RunAt
    <3>7. named => HasName(p)
        BY Zenon, <1>6 DEF HasName, Inv, RunInv, RunAt
    <3> HIDE DEF open, named
    <3>8. DenialsFit(p)'
      <4>1. platform' = platform /\ stdout' = stdout /\ args' = args /\ DenialsFit(p)
          BY <1>t, <1>q DEF SandboxFits, inputs
      <4>2. \A right \in denied'[p] : \/ right \in denied[p] \/ (right = "stdout" /\ ~ open)
                                      \/ right = "hosts" /\ named /\ Landlock
          BY <3>2, <3>5 DEF Tables
      <4> QED BY <2>1, <3>3, <3>6, <3>7, <4>1, <4>2 DEF DenialsFit, Landlock
    <3>9. RefusalsFit(p)'
      <4>1. CASE open
          BY <2>2, <3>1, <3>2, <4>1
      <4>2. CASE ~ open
          BY <2>2, <3>1, <3>2, <3>4, <4>2
      <4> QED BY SMTT(30), <4>1, <4>2
    <3> QED BY <3>8, <3>9
  <2>10. CASE DialTarget(p, i)
    <3>1. /\ Serving(p) /\ Work(p)[i].kind = "TCPServerTunnel" /\ run[p][i] = "up"
          /\ Asks(p, Tables(ResolvesName(p, Work(p)[i])))
        BY <2>10 DEF DialTarget, At
    <3>2. i \in DOMAIN Work(p) /\ TargetOK(Work(p)[i])
        BY Zenon, <1>6, <3>1 DEF Inv, RunInv, RunAt
    <3>3. PICK hp \in Lookup(HostPort, Work(p)[i].Target) :
              Become(p, i, IF May(p, "connect", Atoi[hp[2]]) THEN "forwarding" ELSE "refused")
        BY Zenon, <2>10 DEF DialTarget
    <3>4. May(p, "connect", Atoi[hp[2]])
        BY Zenon, <3>1, <3>2, MayDial
    <3> QED BY <2>2, <2>l, <3>1, <3>3, <3>4
  <2> QED BY <1>6, <2>3, <2>4, <2>6, <2>7, <2>8, <2>9, <2>10 DEF Start, Serve
<1>7. CASE MainStep(p) \/ Signal(p)
    BY SMTT(30), <1>7, <1>1, <1>2, <1>3, <1>4, <1>5
       DEF MainStep, Signal, Boot, NothingToDo, Args, LockNetwork, LockNetworkPanics, Stay, Detach, Ready,
           StartWireguardFails, StartWireguard, Spawned, Wait
<1>8. CASE \E i \in DOMAIN run[p] : AcceptFails(p, i)
    BY <1>8, <1>1 DEF AcceptFails
<1> QED BY <1>0, <1>6, <1>7, <1>8 DEF Start
-----------------------------------------------------------------------------
(* The step leaves everything but the routines alone, and at most ends p. *)
Quiet(p) ==
    /\ UNCHANGED <<inputs, conf, files, net, device>>
    /\ \/ pc' = pc
       \/ pc[p] \notin Over \cup {"off", "boot"} /\ \E to \in Over : pc' = [pc EXCEPT ![p] = to]

(* The steps by which main goes on. *)
Onward(p) ==
    \/ Boot(p) \/ Args(p) \/ Parse(p) \/ LockNetwork(p) \/ Stay(p) \/ Detach(p) \/ Ready(p)
    \/ StartWireguard(p) \/ Spawned(p)

(* The steps that change run or denied. *)
Touches(p) ==
    \/ ParseFails(p) \/ DetachFails(p) \/ Spawn(p)
    \/ \E i \in DOMAIN run[p] : Start(p, i) \/ Serve(p, i)

(* Lemma: main goes on, or the step is quiet (main.go). *)
LEMMA Kinds ==
    ASSUME Next
    PROVE  \E p \in Proc : Onward(p) \/ (Quiet(p) /\ (UNCHANGED <<run, denied>> \/ Touches(p)))
<1>0. PICK p \in Proc :
          \/ MainStep(p)
          \/ Signal(p)
          \/ \E i \in DOMAIN run[p] : Start(p, i) \/ AcceptFails(p, i) \/ Serve(p, i)
    BY DEF Next
<1>1. CASE Onward(p)
    BY <1>1
<1>2. CASE ParseFails(p) \/ DetachFails(p) \/ Spawn(p)
  <2>1. Quiet(p)
      BY <1>2 DEF ParseFails, DetachFails, Spawn, Go, Quiet, Over
  <2> QED BY <1>2, <2>1 DEF Touches
<1>3. CASE NothingToDo(p) \/ LockNetworkPanics(p) \/ StartWireguardFails(p) \/ Wait(p) \/ Signal(p)
  <2>1. Quiet(p) /\ UNCHANGED <<run, denied>>
      BY <1>3 DEF NothingToDo, LockNetworkPanics, StartWireguardFails, Wait, Signal, Go, Quiet, Over
  <2> QED BY <2>1
<1>4. ASSUME NEW i \in DOMAIN run[p], Start(p, i) \/ Serve(p, i)
      PROVE  Quiet(p) /\ Touches(p)
  <2>1. Quiet(p)
      BY <1>4 DEF Start, Listen, ListenRefused, ListenFails, Serve, ResolveFails, Forward, OpenStdout, DialTarget,
                  Dies, At, Serving, Quiet, Over
  <2> QED BY SMTT(30), <1>4, <2>1 DEF Touches
<1>5. ASSUME NEW i \in DOMAIN run[p], AcceptFails(p, i)
      PROVE  Quiet(p) /\ UNCHANGED <<run, denied>>
    BY Zenon, <1>5 DEF AcceptFails, Dies, At, Serving, Quiet, Over
<1> QED BY <1>0, <1>1, <1>2, <1>3, <1>4, <1>5 DEF MainStep, Onward
-----------------------------------------------------------------------------
(* The inductive invariant holds when the process is started. *)
LEMMA Initially ==
    Init => Inv
<1> SUFFICES ASSUME Init PROVE Inv
    OBVIOUS
<1>1. TypeOK
    BY DEF Init, TypeOK, Proc, Main, Over, Configured
<1>2. FilesInv /\ ForkInv
    BY DEF Init, FilesInv, ForkInv, Proc, Right
<1>3. NetInv /\ RunInv /\ SandboxFits
    BY SMTT(30) DEF Init, NetInv, RunInv, RunAt, SandboxFits, DenialsFit, RefusalsFit, Proc, Locked, Early
<1>4. ConfInv
    BY DEF Init, ConfInv, Proc, Configured
<1> QED BY <1>1, <1>2, <1>3, <1>4 DEF Inv

(* The sandbox only tightens, and as far as FilesInv says. *)
LEMMA FilesStep ==
    ASSUME Inv, Next
    PROVE  FilesInv'
<1>0. PICK p \in Proc : Onward(p) \/ Quiet(p)
    BY Kinds
<1>t. TypeOK /\ FilesInv /\ ForkInv
    BY DEF Inv
<1>p. platform \in Platform /\ pc \in [Proc -> Main \cup Over] /\ files \in [Proc -> SUBSET Right]
    BY <1>t DEF TypeOK
<1>1. CASE Boot(p)
    BY SMTT(30), <1>1, <1>t, <1>p
       DEF Boot, Go, Only, inputs, FilesInv, ForkInv, Landlock, Proc, Early, Right, Over, Platform
<1>2. CASE Args(p)
    BY SMTT(30), <1>2, <1>t, <1>p
       DEF Args, Go, Only, inputs, FilesInv, ForkInv, Landlock, Proc, Early, Right, Over, Platform
<1>3. CASE Parse(p) \/ LockNetwork(p) \/ Stay(p) \/ StartWireguard(p) \/ Spawned(p)
    BY SMTT(30), <1>3, <1>t
       DEF Parse, LockNetwork, Stay, StartWireguard, Spawned, Go, inputs, TypeOK, FilesInv, Landlock, Proc,
                      Early, Over
<1>4. CASE Detach(p)
    BY <1>4, <1>t DEF Detach, inputs, TypeOK, FilesInv, ForkInv, Landlock, Proc, Early, Right, Over, Platform
<1>5. CASE Ready(p)
    BY SMTT(30), <1>5, <1>t, <1>p
       DEF Ready, Go, Only, inputs, FilesInv, ForkInv, Landlock, Proc, Early, Right, Over, Platform
<1>6. CASE Quiet(p)
    BY ZenonT(40), <1>6, <1>t DEF Quiet, inputs, TypeOK, FilesInv, Landlock, Proc, Early, Over
<1> QED BY <1>0, <1>1, <1>2, <1>3, <1>4, <1>5, <1>6 DEF Onward

(* Only Detach starts the child. *)
LEMMA ForkStep ==
    ASSUME Inv, Next
    PROVE  ForkInv'
<1>0. PICK p \in Proc : Onward(p) \/ Quiet(p)
    BY Kinds
<1>t. TypeOK /\ FilesInv /\ ForkInv
    BY DEF Inv
<1>1. CASE Boot(p) \/ Args(p) \/ Parse(p) \/ LockNetwork(p) \/ Ready(p) \/ StartWireguard(p) \/ Spawned(p)
    BY SMTT(30), <1>1, <1>t
       DEF Boot, Args, Parse, LockNetwork, Ready, StartWireguard, Spawned, Go, inputs, TypeOK, ForkInv,
                      Landlock, Proc
<1>2. CASE Stay(p)
    BY <1>2, <1>t DEF Stay, Go, inputs, TypeOK, ForkInv, Landlock, Proc
<1>3. CASE Detach(p)
    BY Zenon, <1>3, <1>t DEF Detach, inputs, TypeOK, FilesInv, ForkInv, Landlock, Proc
<1>4. CASE Quiet(p)
    BY <1>4, <1>t DEF Quiet, inputs, TypeOK, ForkInv, Landlock, Proc, Over
<1> QED BY <1>0, <1>1, <1>2, <1>3, <1>4 DEF Onward

(* Every step keeps the types; Parse brings the configuration. *)
LEMMA TypeStep ==
    ASSUME Inv, Next
    PROVE  TypeOK'
<1>0. PICK p \in Proc : Onward(p) \/ (Quiet(p) /\ (UNCHANGED <<run, denied>> \/ Touches(p)))
    BY Kinds
<1>t. TypeOK
    BY DEF Inv
<1>1. /\ UNCHANGED inputs
      /\ pc' \in [Proc -> Main \cup Over] /\ files' \in [Proc -> SUBSET Right] /\ net' \in [Proc -> SUBSET NetRight]
      /\ DOMAIN conf' = Proc /\ DOMAIN device' = Proc
  <2>1. CASE Quiet(p)
    <3>1. pc' \in [Proc -> Main \cup Over]
      <4>1. pc \in [Proc -> Main \cup Over]
          BY <1>t DEF TypeOK
      <4> QED BY SMTT(30), <2>1, <4>1 DEF Quiet
    <3> QED BY <1>t, <2>1, <3>1 DEF Quiet, TypeOK
  <2>2. CASE Onward(p)
      BY SMTT(30), <1>t, <2>2
         DEF Onward, Boot, Args, Parse, LockNetwork, Stay, Detach, Ready, StartWireguard, Spawned, Go, Only,
                        TypeOK, Main, Over, Proc
  <2> QED BY Zenon, <1>0, <2>1, <2>2
<1>2. ASSUME NEW q \in Proc, pc'[q] \in Configured PROVE \E file \in Parsed : conf'[q] = file[2]
  <2>1. CASE Quiet(p)
      BY <1>t, <1>2, <2>1 DEF Quiet, TypeOK, Over, Configured
  <2>2. CASE Parse(p)
      BY Zenon, <1>t, <1>2, <2>2 DEF Parse, Go, TypeOK
  <2>3. CASE Onward(p) /\ ~ Parse(p)
      BY <1>t, <1>2, <2>3 DEF Onward, Boot, Args, LockNetwork, Stay, Detach, Ready, StartWireguard, Spawned, Go,
                              TypeOK, Configured, Proc
  <2> QED BY <1>0, <2>1, <2>2, <2>3
<1>3. run' \in [Proc -> Seq({"spawned", "up", "forwarding", "refused", "over"})] /\ denied' \in [Proc -> SUBSET Right]
  <2>1. CASE UNCHANGED <<run, denied>>
      BY <1>t, <2>1 DEF TypeOK
  <2>2. CASE Onward(p)
      BY <2>1, <2>2 DEF Onward, Boot, Args, Parse, LockNetwork, Stay, Detach, Ready, StartWireguard, Spawned
  <2> DEFINE State == {"spawned", "up", "forwarding", "refused", "over"}
  <2>t. run \in [Proc -> Seq(State)] /\ denied \in [Proc -> SUBSET Right]
      BY <1>t DEF TypeOK
  <2>r. ASSUME NEW i \in DOMAIN run[p], NEW state \in State, Become(p, i, state)
        PROVE  run' \in [Proc -> Seq(State)]
    <3>1. [run[p] EXCEPT ![i] = state] \in Seq(State)
      <4>1. run[p] \in Seq(State)
          BY <2>t
      <4> HIDE DEF State
      <4> QED BY <2>r, <4>1
    <3> HIDE DEF State
    <3> QED BY <2>r, <2>t, <3>1 DEF Become
  <2>d. ASSUME NEW more \in SUBSET Right, denied' = [denied EXCEPT ![p] = @ \cup more]
        PROVE  denied' \in [Proc -> SUBSET Right]
      BY <2>d, <2>t
  <2>s. {"config", "exec", "null", "hosts", "stdout"} \subseteq Right
      BY DEF Right
  <2>3. CASE ParseFails(p) \/ DetachFails(p)
    <3>1. run' = run /\ \E more \in SUBSET Right : denied' = [denied EXCEPT ![p] = @ \cup more]
        BY Zenon, <2>3, <2>s DEF ParseFails, DetachFails, Asks
    <3> QED BY <2>d, <2>t, <3>1
  <2>6. CASE Spawn(p)
      BY <2>t, <2>6 DEF Spawn
  <2>4. ASSUME NEW i \in DOMAIN run[p], Start(p, i)
        PROVE  /\ run' \in [Proc -> Seq({"spawned", "up", "forwarding", "refused", "over"})]
               /\ denied' \in [Proc -> SUBSET Right]
    <3>1. run' = run \/ Become(p, i, "up") \/ Become(p, i, "refused")
        BY Zenon, <2>4 DEF Start, Listen, ListenRefused, ListenFails
    <3>2. \E more \in SUBSET Right : denied' = [denied EXCEPT ![p] = @ \cup more]
        BY Zenon, <2>4, <2>s DEF Start, Listen, ListenRefused, ListenFails, Asks, Tables
    <3> QED BY <2>d, <2>r, <2>t, <3>1, <3>2
  <2>5. ASSUME NEW i \in DOMAIN run[p], Serve(p, i)
        PROVE  /\ run' \in [Proc -> Seq({"spawned", "up", "forwarding", "refused", "over"})]
               /\ denied' \in [Proc -> SUBSET Right]
    <3>1. run' = run \/ Become(p, i, "forwarding") \/ Become(p, i, "refused") \/ Become(p, i, "over")
        BY Zenon, <2>5 DEF Serve, ResolveFails, Forward, OpenStdout, DialTarget, Become
    <3>2. denied' = denied \/ \E rights \in SUBSET Right : Asks(p, rights)
        BY Zenon, <2>5, <2>s DEF Serve, ResolveFails, Forward, OpenStdout, DialTarget, Tables
    <3>3. denied' \in [Proc -> SUBSET Right]
        BY <2>d, <2>t, <3>2 DEF Asks
    <3> QED BY <2>r, <2>t, <3>1, <3>3
  <2> QED BY SMTT(30), <1>0, <2>1, <2>2, <2>3, <2>4, <2>5, <2>6 DEF Touches
<1>4. interrupted' \in [Proc -> BOOLEAN]
  <2>1. interrupted' = interrupted \/ \E q \in Proc : interrupted' = [interrupted EXCEPT ![q] = TRUE]
    <3>1. ASSUME NEW q \in Proc, MainStep(q) PROVE interrupted' = interrupted
        BY <3>1 DEF MainStep, Boot, NothingToDo, Args, Parse, ParseFails, LockNetwork, LockNetworkPanics, Stay, Detach,
                    DetachFails, Ready, StartWireguardFails, StartWireguard, Spawn, Spawned, Wait
    <3>2. ASSUME NEW q \in Proc, Signal(q) PROVE interrupted' = [interrupted EXCEPT ![q] = TRUE]
        BY <3>2 DEF Signal
    <3>3. ASSUME NEW q \in Proc, NEW i \in DOMAIN run[q],
                 Start(q, i) \/ AcceptFails(q, i) \/ Serve(q, i)
          PROVE  interrupted' = interrupted
        BY <3>3 DEF Start, Listen, ListenRefused, ListenFails, AcceptFails, Serve, ResolveFails, Forward,
                    OpenStdout, DialTarget
    <3> QED BY Zenon, <3>1, <3>2, <3>3 DEF Next
  <2> QED BY Zenon, <1>t, <2>1 DEF TypeOK
<1> QED BY Zenon, <1>t, <1>1, <1>2, <1>3, <1>4 DEF TypeOK, inputs

(* Only LockNetwork changes the port rules, and only Parse the             *)
(* configuration.                                                          *)
LEMMA NetStep ==
    ASSUME Inv, Next
    PROVE  NetInv'
<1>0. PICK p \in Proc : Onward(p) \/ Quiet(p)
    BY Kinds
<1>t. TypeOK /\ FilesInv /\ ForkInv /\ NetInv
    BY SMTT(30) DEF Inv
<1>f. ASSUME NEW q \in Proc, conf'[q] = conf[q], args' = args
      PROVE  AllRules(q)' = AllRules(q) /\ Extractable(q)' = Extractable(q)
    BY WorkFrame, <1>f
<1>1. CASE Boot(p) \/ Args(p) \/ Stay(p) \/ Ready(p) \/ StartWireguard(p) \/ Spawned(p)
  <2>1. UNCHANGED <<inputs, conf, net>> /\ \A q \in Proc \ {p} : pc'[q] = pc[q]
      BY <1>1, <1>t DEF Boot, Args, Stay, Ready, StartWireguard, Spawned, Go, TypeOK
  <2>2. \/ pc[p] \in Early \ Locked /\ pc'[p] \in Early \ Locked
        \/ pc[p] \in Locked /\ pc'[p] \in Locked
      BY SMTT(30), <1>1, <1>t
         DEF Boot, Args, Stay, Ready, StartWireguard, Spawned, Go, TypeOK, Early, Locked
  <2> QED BY Zenon, <1>t, <1>f, <2>1, <2>2 DEF inputs, NetInv, Landlock
<1>2. CASE Parse(p)
  <2>1. /\ UNCHANGED <<inputs, net>> /\ \A q \in Proc \ {p} : pc'[q] = pc[q] /\ conf'[q] = conf[q]
        /\ pc[p] = "parse" /\ pc'[p] \in {"returned", "lockNetwork"}
      BY Zenon, <1>2, <1>t DEF Parse, Go, TypeOK
  <2>2. pc[p] \in Early \ Locked /\ pc'[p] \notin Locked
      BY <2>1 DEF Early, Locked
  <2> QED BY <1>t, <1>f, <2>1, <2>2 DEF inputs, NetInv, Landlock
<1>3. CASE LockNetwork(p)
    BY Zenon, <1>3, <1>t, <1>f DEF LockNetwork, Go, inputs, TypeOK, NetInv, Landlock, Early, Locked
<1>4. CASE Detach(p)
  <2>1. ~ Landlock /\ platform # "landlock4"
      BY <1>4, <1>t DEF Detach, FilesInv, Landlock, Proc
  <2>2. ~ Landlock' /\ platform' # "landlock4"
      BY SMTT(30), <1>4, <2>1 DEF Detach, inputs, Landlock
  <2>3. ASSUME NEW q \in Proc, pc'[q] \in Locked
        PROVE  Extractable(q)'
      BY <1>4, <1>t, <1>f, <2>3 DEF Detach, inputs, TypeOK, NetInv, Proc, Locked
  <2> QED BY <2>2, <2>3 DEF NetInv
<1>5. CASE Quiet(p)
    BY Zenon, <1>5, <1>t, <1>f DEF Quiet, inputs, TypeOK, NetInv, Landlock, Early, Locked, Over
<1> QED BY <1>0, <1>1, <1>2, <1>3, <1>4, <1>5 DEF Onward

(* Parse takes the configuration from the file of the command line, and    *)
(* StartWireguard tells the device of it.                                  *)
LEMMA ConfStep ==
    ASSUME Inv, Next
    PROVE  ConfInv'
<1>0. PICK p \in Proc : Onward(p) \/ Quiet(p)
    BY Kinds
<1>t. TypeOK /\ ForkInv /\ ConfInv
    BY SMTT(30) DEF Inv
<1>f. ConfigPaths' = ConfigPaths
  <2>1. args' = args
      BY <1>0 DEF Onward, Boot, Args, Parse, LockNetwork, Stay, Detach, Ready, StartWireguard, Spawned, Quiet, inputs
  <2> QED BY <2>1 DEF ConfigPaths
<1>1. CASE Boot(p) \/ Args(p) \/ LockNetwork(p) \/ Stay(p) \/ Ready(p) \/ Spawned(p)
    BY <1>1, <1>t, <1>f DEF Boot, Args, LockNetwork, Stay, Ready, Spawned, Go, TypeOK, ConfInv, Configured, Early
<1>2. CASE Parse(p)
  <2>1. PICK file \in Parsed : file[1] \in ConfigPaths /\ conf' = [conf EXCEPT ![p] = file[2]]
      BY Zenon, <1>2 DEF Parse
  <2>2. file[2] \in ParseConfig(file[1])
      BY <2>1 DEF Parsed
  <2> QED BY Zenon, <1>2, <1>t, <1>f, <2>1, <2>2 DEF Parse, Go, TypeOK, ConfInv, Configured, Early
<1>3. CASE Detach(p)
    BY Zenon, <1>3, <1>t, <1>f DEF Detach, TypeOK, ConfInv, ForkInv, Configured, Early, Proc
<1>4. CASE StartWireguard(p)
    BY Zenon, <1>4, <1>t, <1>f DEF StartWireguard, Go, TypeOK, ConfInv, Configured, Early
<1>5. CASE Quiet(p)
    BY Zenon, <1>5, <1>t, <1>f DEF Quiet, TypeOK, ConfInv, Configured, Early, Over
<1> QED BY <1>0, <1>1, <1>2, <1>3, <1>4, <1>5 DEF Onward

(* What RunAt looks at is left alone, but for main's own place. *)
LEMMA RunFrame ==
    ASSUME NEW q \in Proc, RunAt(q), args' = args, conf'[q] = conf[q], run'[q] = run[q], denied'[q] = denied[q],
           pc'[q] \in Early \cup {"device"} => pc[q] \in Early \cup {"device"},
           pc'[q] = "wait" => pc[q] = "wait" \/ Len(run[q]) + 1 \notin DOMAIN Work(q)
    PROVE  RunAt(q)'
<1>1. Work(q)' = Work(q)
    BY Zenon, WorkFrame
<1> QED BY Zenon, <1>1 DEF RunAt, TargetOK

(* Routines are spawned in the order of Work, and come up when their       *)
(* target is one.                                                          *)
LEMMA RunStep ==
    ASSUME Inv, Next
    PROVE  RunInv'
<1>0. PICK p \in Proc : Onward(p) \/ (Quiet(p) /\ (UNCHANGED <<run, denied>> \/ Touches(p)))
    BY Kinds
<1>t. TypeOK /\ ForkInv /\ \A q \in Proc : RunAt(q)
    BY DEF Inv, RunInv
<1>1. CASE Boot(p) \/ Args(p) \/ LockNetwork(p) \/ Stay(p) \/ Ready(p) \/ StartWireguard(p) \/ Spawned(p)
  <2>1. UNCHANGED <<inputs, conf, run, denied>> /\ \A q \in Proc \ {p} : pc'[q] = pc[q]
      BY <1>1, <1>t DEF Boot, Args, LockNetwork, Stay, Ready, StartWireguard, Spawned, Go, TypeOK
  <2>2. /\ pc'[p] \in Early \cup {"device"} => pc[p] \in Early \cup {"device"}
        /\ pc'[p] = "wait" => Len(run[p]) + 1 \notin DOMAIN Work(p)
      BY <1>1, <1>t DEF Boot, Args, LockNetwork, Stay, Ready, StartWireguard, Spawned, Go, TypeOK, Early
  <2> QED BY Zenon, <1>t, <2>1, <2>2, RunFrame DEF inputs, RunInv
<1>2. CASE Parse(p)
  <2>1. /\ UNCHANGED <<inputs, run, denied>> /\ \A q \in Proc \ {p} : pc'[q] = pc[q] /\ conf'[q] = conf[q]
        /\ pc[p] = "parse" /\ pc'[p] # "wait"
      BY Zenon, <1>2, <1>t DEF Parse, Go, TypeOK
  <2>2. RunAt(p)'
    <3>1. run'[p] = <<>> /\ denied'[p] = {}
        BY Zenon, <1>t, <2>1 DEF RunAt, Early
    <3>2. DOMAIN run'[p] = {}
        BY <3>1
    <3> QED BY Zenon, <2>1, <3>1, <3>2 DEF RunAt
  <2>3. \A q \in Proc \ {p} : RunAt(q)'
      BY <1>t, <2>1, RunFrame DEF inputs
  <2> QED BY <2>2, <2>3 DEF RunInv
<1>3. CASE Detach(p)
  <2>1. /\ UNCHANGED <<inputs, conf, run, denied>> /\ pc["daemon"] = "off" /\ p = "first"
        /\ pc'["first"] = "returned" /\ pc'["daemon"] = "boot"
      BY <1>3, <1>t DEF Detach, TypeOK, ForkInv, Proc
  <2> QED BY SMTT(30), <1>t, <2>1, RunFrame DEF inputs, RunInv, Early, Proc
<1>4. CASE Quiet(p) /\ (UNCHANGED <<run, denied>> \/ Touches(p))
  <2>1. /\ UNCHANGED <<inputs, conf>> /\ \A q \in Proc \ {p} : pc'[q] = pc[q]
        /\ pc'[p] = pc[p] \/ pc'[p] \in Over
      BY <1>4, <1>t DEF Quiet, TypeOK
  <2>2. pc'[p] \in Over => pc'[p] \notin Early \cup {"device", "wait"}
      BY DEF Over, Early
  <2>3. CASE UNCHANGED <<run, denied>>
      BY ZenonT(40), <1>t, <2>1, <2>2, <2>3, RunFrame DEF inputs, RunInv
  <2>4. CASE Touches(p)
    <3>1. Work(p)' = Work(p) /\ \A i : TargetOK(Work(p)[i])' = TargetOK(Work(p)[i])
      <4>1. Work(p)' = Work(p)
          BY <2>1, WorkFrame DEF inputs
      <4> QED BY <4>1 DEF TargetOK
    <3>2. /\ \A q \in Proc \ {p} : run'[q] = run[q] /\ denied'[q] = denied[q]
          /\ RunAt(p)'
      <4>1. CASE ParseFails(p) \/ DetachFails(p)
        <5>1. run' = run /\ pc'[p] \in Over /\ \A q \in Proc \ {p} : denied'[q] = denied[q]
            BY Zenon, <1>t, <4>1 DEF ParseFails, DetachFails, Asks, Go, TypeOK, Over
        <5> QED BY <1>t, <2>2, <3>1, <5>1 DEF RunAt
      <4>2. CASE Spawn(p)
        <5>1. /\ denied' = denied /\ pc' = pc /\ pc[p] = "spawn" /\ Len(run[p]) + 1 \in DOMAIN Work(p)
              /\ \A q \in Proc \ {p} : run'[q] = run[q]
              /\ run'[p] = Append(run[p], "spawned")
          <6>1. run' = [run EXCEPT ![p] = Append(run[p], "spawned")] /\ DOMAIN run = Proc
              BY Zenon, <1>t, <4>2 DEF Spawn, TypeOK
          <6>2. denied' = denied /\ pc' = pc /\ pc[p] = "spawn" /\ Len(run[p]) + 1 \in DOMAIN Work(p)
              BY Zenon, <4>2 DEF Spawn
          <6> QED BY Zenon, <6>1, <6>2
        <5>2. \A i \in DOMAIN run'[p] : \/ i \in DOMAIN run[p] /\ run'[p][i] = run[p][i]
                                        \/ i = Len(run[p]) + 1 /\ run'[p][i] = "spawned"
          <6>1. /\ run[p] \in Seq({"spawned", "up", "forwarding", "refused", "over"})
                /\ "spawned" \in {"spawned", "up", "forwarding", "refused", "over"}
              BY Zenon, <1>t DEF TypeOK
          <6>2. \A i \in DOMAIN Append(run[p], "spawned") :
                    \/ i \in DOMAIN run[p] /\ Append(run[p], "spawned")[i] = run[p][i]
                    \/ i = Len(run[p]) + 1 /\ Append(run[p], "spawned")[i] = "spawned"
              BY <6>1, OneMore
          <6> QED BY Zenon, <5>1, <6>2
        <5>3. "spawn" \notin Early \cup {"device", "wait"} /\ "spawned" \notin {"up", "forwarding"}
            BY DEF Early
        <5> QED BY Zenon, <1>t, <3>1, <5>1, <5>2, <5>3 DEF RunAt
      <4>3. ASSUME NEW i \in DOMAIN run[p], Start(p, i) \/ Serve(p, i)
            PROVE  /\ \A q \in Proc \ {p} : run'[q] = run[q] /\ denied'[q] = denied[q]
                   /\ RunAt(p)'
        <5>1. Serving(p) /\ \A q \in Proc \ {p} : run'[q] = run[q] /\ denied'[q] = denied[q]
            BY Zenon, <1>t, <4>3
               DEF Start, Listen, ListenRefused, ListenFails, Serve, ResolveFails, Forward, OpenStdout, DialTarget,
                   Become, Asks, At, TypeOK
        <5>2. \/ run' = run
              \/ \E state : Become(p, i, state) /\ (state \in {"up", "forwarding"} => TargetOK(Work(p)[i]))
          <6>1. CASE Start(p, i)
              BY Zenon, <6>1 DEF Start, Listen, ListenRefused, ListenFails
          <6>2. CASE Serve(p, i)
            <7>1. TargetOK(Work(p)[i])
                BY <1>t, <6>2 DEF Serve, ResolveFails, Forward, OpenStdout, DialTarget, At, RunAt
            <7> QED BY Zenon, <6>2, <7>1 DEF Serve, ResolveFails, Forward, OpenStdout, DialTarget, Become
          <6> QED BY Zenon, <4>3, <6>1, <6>2
        <5>3. /\ DOMAIN run'[p] = DOMAIN run[p] /\ Len(run'[p]) = Len(run[p])
              /\ \A j \in DOMAIN run[p] : run'[p][j] = run[p][j] \/
                     (j = i /\ (run'[p][j] \in {"up", "forwarding"} => TargetOK(Work(p)[i])))
            BY <1>t, <5>2 DEF Become, TypeOK
        <5>4. pc'[p] \notin Early \cup {"device"} /\ (pc'[p] = "wait" => pc[p] = "wait")
            BY Zenon, <2>1, <2>2, <5>1 DEF Serving, Early
        <5>5. /\ pc[p] = "wait" => Len(run[p]) + 1 \notin DOMAIN Work(p)
              /\ \A j \in DOMAIN run[p] : /\ j \in DOMAIN Work(p)
                                          /\ run[p][j] \in {"up", "forwarding"} => TargetOK(Work(p)[j])
            BY Zenon, <1>t DEF RunAt
        <5>6. \A j \in DOMAIN run'[p] : /\ j \in DOMAIN Work(p)
                                        /\ run'[p][j] \in {"up", "forwarding"} => TargetOK(Work(p)[j])
            BY <5>3, <5>5
        <5>7. pc'[p] = "wait" => Len(run'[p]) + 1 \notin DOMAIN Work(p)
            BY <5>3, <5>4, <5>5
        <5>8. RunAt(p)'
            BY Zenon, <3>1, <5>4, <5>6, <5>7 DEF RunAt
        <5> QED BY Zenon, <5>1, <5>8
      <4> QED BY Zenon, <2>4, <4>1, <4>2, <4>3 DEF Touches
    <3> QED BY ZenonT(40), <1>t, <2>1, <3>2, RunFrame DEF inputs, RunInv
  <2> QED BY SMTT(30), <1>4, <2>3, <2>4
<1> QED BY <1>0, <1>1, <1>2, <1>3, <1>4 DEF Onward
-----------------------------------------------------------------------------
(* The inductive invariant holds in every state. *)
LEMMA Invariance ==
    Spec => []Inv
<1>1. Inv /\ [Next]_vars => Inv'
  <2> SUFFICES ASSUME Inv, [Next]_vars PROVE Inv'
      OBVIOUS
  <2>1. CASE Next
      BY <2>1, TypeStep, FilesStep, ForkStep, NetStep, ConfStep, RunStep, FitsStep DEF Inv
  <2>2. CASE UNCHANGED vars
    <3>1. ASSUME NEW q \in Proc
          PROVE  /\ Work(q)' = Work(q) /\ AllRules(q)' = AllRules(q) /\ Extractable(q)' = Extractable(q)
                 /\ HasStdio(q)' = HasStdio(q) /\ HasName(q)' = HasName(q)
        BY <2>2, WorkFrame DEF vars
    <3>2. TypeOK' /\ FilesInv' /\ ForkInv' /\ ConfInv'
        BY Zenon, <2>2 DEF vars, Inv, TypeOK, FilesInv, ForkInv, ConfInv, ConfigPaths, Landlock
    <3>3. NetInv' /\ RunInv'
        BY Zenon, <2>2, <3>1 DEF vars, Inv, NetInv, RunInv, RunAt, TargetOK, Landlock
    <3>4. SandboxFits'
        BY <2>2, FitsFrame, Zenon DEF vars, inputs, Inv, SandboxFits
    <3> QED BY <3>2, <3>3, <3>4 DEF Inv
  <2> QED BY <2>1, <2>2
<1> QED BY Initially, <1>1, PTL DEF Spec

(* main's variables keep their types on every platform, and past Parse it  *)
(* holds a configuration that ParseConfig has accepted (main.go).          *)
THEOREM TypeCorrect ==
    Spec => []TypeOK
<1>1. Inv => TypeOK
    BY DEF Inv
<1> QED BY Invariance, <1>1, PTL

(* For every configuration and command line, lock and lockNetwork refuse   *)
(* the later steps of the program nothing but what SandboxFits lists; the  *)
(* port that extractPort allows is the one that net takes from the text.   *)
THEOREM SandboxFitsProgram ==
    Spec => []SandboxFits
<1>1. Inv => SandboxFits
    BY SMTT(30) DEF Inv
<1> QED BY Invariance, <1>1, PTL

(* For every configuration and command line, routines are spawned only in  *)
(* a process that is locked down, of which there is one (main.go).         *)
THEOREM LockedDown ==
    Spec => []ServingIsLockedDown
<1>1. Inv => ServingIsLockedDown
  <2> SUFFICES ASSUME Inv, NEW p \in Proc, Serving(p)
               PROVE  /\ platform # "plain" => files[p] \cap {"config", "exec", "stdout"} = {}
                      /\ platform = "landlock4" => net[p] \subseteq AllRules(p)
                      /\ \A q \in Proc : Serving(q) => q = p
                      /\ Landlock => p = "first" /\ ~ args.daemon
      BY DEF ServingIsLockedDown
  <2>1. platform # "plain" => files[p] \cap {"config", "exec", "stdout"} = {}
      BY DEF Inv, FilesInv, Serving
  <2>2. platform = "landlock4" => net[p] \subseteq AllRules(p)
      BY DEF Inv, NetInv, Serving, Locked
  <2>3. \A q \in Proc : Serving(q) => q = p
      BY DEF Inv, ForkInv, Serving, Proc
  <2>4. Landlock => p = "first" /\ ~ args.daemon
      BY DEF Inv, ForkInv, Serving, Proc
  <2> QED BY <2>1, <2>2, <2>3, <2>4
<1> QED BY Invariance, <1>1, PTL

(* Whatever file main was given, the device it has started has the key,    *)
(* the routes and the preshared keys that this file says (wireguard.go).   *)
THEOREM DeviceIsConfigured ==
    Spec => []DeviceFollowsConfig
<1>1. Inv => DeviceFollowsConfig
    BY DeviceOfConfig DEF Inv, ConfInv, DeviceFollowsConfig
<1> QED BY Invariance, <1>1, PTL
-----------------------------------------------------------------------------
INSTANCE FiniteSetTheorems

(* Lemma: how many numbers follow a, up to a + n. *)
LEMMA IntervalSize ==
    ASSUME NEW a \in Nat, NEW n \in Nat
    PROVE  Cardinality(a + 1 .. a + n) = n
<1>1. a + 1 \in Int /\ a + n \in Int
    OBVIOUS
<1>2. Cardinality(a + 1 .. a + n) = IF a + 1 > a + n THEN 0 ELSE (a + n) - (a + 1) + 1
    BY <1>1, FS_Interval
<1> QED BY <1>2

(* Lemma: main looks for one file. *)
LEMMA OnePath ==
    ASSUME NEW p \in ConfigPaths, NEW q \in ConfigPaths
    PROVE  p = q
<1>1. CASE args.config # ""
    BY Zenon, <1>1 DEF ConfigPaths
<1>2. CASE args.config = ""
  <2> DEFINE First(i) == DefaultPaths[i] \in DOMAIN Disk /\ \A j \in 1 .. i - 1 : DefaultPaths[j] \notin DOMAIN Disk
  <2>1. PICK i \in DOMAIN DefaultPaths, j \in DOMAIN DefaultPaths :
            First(i) /\ First(j) /\ p = DefaultPaths[i] /\ q = DefaultPaths[j]
      BY Zenon, <1>2 DEF ConfigPaths
  <2>2. i \in Nat \ {0} /\ j \in Nat \ {0}
      BY PathsAssumption, ListParts
  <2>3. i = j
      BY <2>1, <2>2
  <2> QED BY <2>1, <2>3
<1> QED BY Zenon, <1>1, <1>2

(* Lemma: the routines of the configuration come first in Work; what       *)
(* follows, if anything, is the health endpoint.                           *)
LEMMA WorkParts ==
    ASSUME NEW p \in Proc, conf[p].Routines \in Seq(Range(conf[p].Routines))
    PROVE  /\ Len(conf[p].Routines) \in Nat /\ DOMAIN conf[p].Routines = 1 .. Len(conf[p].Routines)
           /\ DOMAIN Work(p) = 1 .. Len(conf[p].Routines) + (IF args.info = Empty THEN 0 ELSE 1)
           /\ \A i \in 1 .. Len(conf[p].Routines) : Work(p)[i] = conf[p].Routines[i]
           /\ args.info # Empty => Work(p)[Len(conf[p].Routines) + 1].kind = "info"
<1> DEFINE given == conf[p].Routines
           n == Len(given)
           info == [kind |-> "info", BindAddress |-> args.info]
           X == Range(given) \cup {info}
<1>1. n \in Nat /\ DOMAIN given = 1 .. n
    BY ListParts, Zenon
<1>2. CASE args.info = Empty
  <2>1. Work(p) = given \o <<>>
      BY <1>2 DEF Work
  <2>2. Work(p) = given
    <3> HIDE DEF given
    <3> QED BY SMTT(30), <2>1
  <2> QED BY <1>1, <1>2, <2>2
<1>3. CASE args.info # Empty
  <2>1. Work(p) = given \o <<info>>
      BY <1>3 DEF Work
  <2>2. given \in Seq(X) /\ <<info>> \in Seq(X) /\ info.kind = "info"
    <3>1. given \in Seq(Range(given)) /\ Range(given) \subseteq X /\ info \in X
        OBVIOUS
    <3>2. info.kind = "info"
        OBVIOUS
    <3> HIDE DEF given, info, X
    <3> QED BY <3>1, <3>2, ListOver
  <2> HIDE DEF given, info, X
  <2>3. /\ DOMAIN (given \o <<info>>) = 1 .. Len(given) + 1
        /\ \A i \in 1 .. Len(given) : (given \o <<info>>)[i] = given[i]
        /\ (given \o <<info>>)[Len(given) + 1] = info
      BY SMTT(30), <2>2
  <2> QED BY <1>1, <1>3, <2>1, <2>2, <2>3 DEF given
<1> QED BY Zenon, <1>2, <1>3

(* Whatever file main was given, when it waits each of its sections that   *)
(* name a routine, and -i, is served by a goroutine of its own, and there  *)
(* are no others (main.go:252).                                            *)
THEOREM EverySectionServed ==
    Spec => []SectionsServed
<1>1. Inv => SectionsServed
  <2> DEFINE tasks(p, kind) == {i \in DOMAIN run[p] : Work(p)[i].kind = kind}
             given(p) == conf[p].Routines
  <2> SUFFICES ASSUME Inv, NEW p \in Proc, pc[p] = "wait", NEW path \in ConfigPaths
               PROVE  /\ \A k \in DOMAIN RoutineKinds :
                            Cardinality(tasks(p, RoutineKinds[k])) = Len(SectionsByName(Disk[path], RoutineKinds[k]))
                      /\ tasks(p, "info") = {} <=> args.info = Empty
      BY DEF SectionsServed
  <2>1. conf[p] \in ParseConfig(path)
    <3>1. PICK other \in ConfigPaths : conf[p] \in ParseConfig(other)
        BY DEF Inv, ConfInv, Configured
    <3> QED BY Zenon, <3>1, OnePath
  <2>2. /\ given(p) \in Seq(Range(given(p)))
        /\ \A i \in DOMAIN given(p) : given(p)[i].kind \in Range(RoutineKinds)
        /\ \A k \in DOMAIN RoutineKinds :
              \E a \in Nat : {i \in DOMAIN given(p) : given(p)[i].kind = RoutineKinds[k]}
                                 = a + 1 .. a + Len(SectionsByName(Disk[path], RoutineKinds[k]))
      BY Zenon, <2>1, RoutinesOfSections
  <2> DEFINE n == Len(given(p))
             all == n + (IF args.info = Empty THEN 0 ELSE 1)
  <2>3. /\ n \in Nat /\ DOMAIN given(p) = 1 .. n /\ DOMAIN Work(p) = 1 .. all
        /\ \A i \in 1 .. n : Work(p)[i] = given(p)[i]
        /\ args.info # Empty => Work(p)[n + 1].kind = "info"
      BY Zenon, <2>2, WorkParts
  <2>4. all \in Nat /\ (args.info = Empty => all = n) /\ (args.info # Empty => all = n + 1)
    <3>1. n \in Nat
        BY <2>3
    <3> HIDE DEF n
    <3> QED BY <3>1
  <2> HIDE DEF n, all
  <2>5. DOMAIN run[p] = 1 .. all
    <3>1. Len(run[p]) \in Nat /\ DOMAIN run[p] = 1 .. Len(run[p])
      <4>1. run[p] \in Seq({"spawned", "up", "forwarding", "refused", "over"})
          BY DEF Inv, TypeOK
      <4> QED BY <4>1, ListParts
    <3>2. Len(run[p]) + 1 \notin 1 .. all /\ 1 .. Len(run[p]) \subseteq 1 .. all
      <4>1. Len(run[p]) + 1 \notin DOMAIN Work(p) /\ \A i \in DOMAIN run[p] : i \in DOMAIN Work(p)
          BY Zenon DEF Inv, RunInv, RunAt
      <4>2. DOMAIN Work(p) = 1 .. all
          BY <2>3
      <4> QED BY <3>1, <4>1, <4>2, Zenon
    <3>3. Len(run[p]) = all
      <4>1. \A k, m \in Nat : k + 1 \notin 1 .. m /\ 1 .. k \subseteq 1 .. m => k = m
          OBVIOUS
      <4> QED BY Zenon, <2>4, <3>1, <3>2, <4>1
    <3> QED BY <3>1, <3>3
  <2>6. "info" \notin Range(RoutineKinds)
      BY DEF RoutineKinds, Range
  <2>7. ASSUME NEW k \in DOMAIN RoutineKinds
        PROVE  Cardinality(tasks(p, RoutineKinds[k])) = Len(SectionsByName(Disk[path], RoutineKinds[k]))
    <3>1. RoutineKinds[k] # "info"
        BY <2>6 DEF Range
    <3>2. tasks(p, RoutineKinds[k]) = {i \in DOMAIN given(p) : given(p)[i].kind = RoutineKinds[k]}
        BY SMTT(30), <2>3, <2>4, <2>5, <3>1
    <3>3. Len(SectionsByName(Disk[path], RoutineKinds[k])) \in Nat
      <4>1. path \in DOMAIN Disk
          BY Zenon, <2>1, ConfigParts
      <4> QED BY Zenon, <4>1, SectionsAreList
    <3>4. PICK a \in Nat : tasks(p, RoutineKinds[k])
                               = a + 1 .. a + Len(SectionsByName(Disk[path], RoutineKinds[k]))
        BY Zenon, <2>2, <3>2
    <3> HIDE DEF tasks
    <3> QED BY Zenon, <3>3, <3>4, IntervalSize
  <2>8. tasks(p, "info") = {} <=> args.info = Empty
    <3>1. \A i \in 1 .. n : Work(p)[i].kind # "info"
        BY SMTT(30), <2>2, <2>3, <2>6
    <3> QED BY <2>3, <2>4, <2>5, <3>1
  <2> QED BY ZenonT(40), <2>7, <2>8
<1> QED BY Invariance, <1>1, PTL
=============================================================================
