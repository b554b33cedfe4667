------------------------------ MODULE Startup -------------------------------
(***************************************************************************)
(* The program from its start to its end (cmd/wireproxy/main.go, and the   *)
(* SpawnRoutine methods up to their accept loops): the command line, the   *)
(* configuration, the sandbox that is tightened on the way, the detached   *)
(* child of -d, the device and the goroutines that listen.                 *)
(*                                                                         *)
(* Where the kernel has neither pledge nor Landlock ("plain"), lock and    *)
(* lockNetwork change nothing.  Landlock layers are inherited by a child   *)
(* and only ever take rights away; its first version knows files, its      *)
(* fourth TCP ports as well.  What a pledge takes away kills whoever asks. *)
(***************************************************************************)
EXTENDS Config

CONSTANTS
    Invocations,   \* the command lines
    DefaultPaths,  \* default_config_paths
    Names          \* the hosts that are names, not addresses

ASSUME PathsAssumption == DefaultPaths \in Seq(Range(DefaultPaths))

Platform == {"plain", "openbsd", "landlock1", "landlock4"}

(* The files that ParseConfig accepts, with what it makes of them. *)
Parsed == UNION {{<<path, c>> : c \in ParseConfig(path)} : path \in DOMAIN Disk}

VARIABLES
    platform,
    stdout,       \* what the standard output is: "pipe" or "file"
    args,         \* the command line
    pc,           \* where main is, or how the process ended
    conf,         \* the configuration, or Nil
    files,        \* what the sandbox still allows of files and processes
    net,          \* and of TCP ports
    device,       \* what the device was told, or Nil
    run,          \* the goroutines main has spawned
    denied,       \* history: what the sandbox has refused
    interrupted   \* ctx is cancelled

inputs == <<platform, stdout, args>>
vars == <<platform, stdout, args, pc, conf, files, net, device, run, denied, interrupted>>

(* The process that was started, and its child under -d. *)
Proc == {"first", "daemon"}

Landlock == platform \in {"landlock1", "landlock4"}

(* Any file may be read; programs started; /dev/null and /dev/stdout       *)
(* opened for writing; names looked up in the tables /etc/hosts and        *)
(* /etc/services.  Files that the Go libraries have a default for          *)
(* (/proc/sys/net/core/somaxconn) are not among the rights.                *)
Right == {"config", "exec", "null", "stdout", "hosts"}
NetRight == {"bind", "connect"} \X (0 .. MaxPort)

Main == {"off", "boot", "args", "parse", "lockNetwork", "detach", "ready", "device", "spawn", "wait"}
Configured == {"lockNetwork", "detach", "ready", "device", "spawn", "wait"}
Over == {"returned", "fatal", "panic", "killed"}
Serving(p) == pc[p] \in {"spawn", "wait"}

TypeOK ==
    /\ platform \in Platform /\ stdout \in {"pipe", "file"} /\ args \in Invocations
    /\ pc \in [Proc -> Main \cup Over]
    /\ files \in [Proc -> SUBSET Right]
    /\ net \in [Proc -> SUBSET NetRight]
    /\ run \in [Proc -> Seq({"spawned", "up", "forwarding", "refused", "over"})]
    /\ denied \in [Proc -> SUBSET Right]
    /\ interrupted \in [Proc -> BOOLEAN]
    /\ DOMAIN conf = Proc /\ DOMAIN device = Proc
    /\ \A p \in Proc : pc[p] \in Configured => \E file \in Parsed : conf[p] = file[2]

Init ==
    /\ platform \in Platform /\ stdout \in {"pipe", "file"} /\ args \in Invocations
    /\ pc = [p \in Proc |-> IF p = "first" THEN "boot" ELSE "off"]
    /\ conf = [p \in Proc |-> Nil] /\ device = [p \in Proc |-> Nil]
    /\ files = [p \in Proc |-> Right] /\ net = [p \in Proc |-> NetRight]
    /\ run = [p \in Proc |-> <<>>]
    /\ denied = [p \in Proc |-> {}] /\ interrupted = [p \in Proc |-> FALSE]

Go(p, from, to) == pc[p] = from /\ pc' = [pc EXCEPT ![p] = to]
Only(p, rights) == files' = [files EXCEPT ![p] = @ \cap rights]
Asks(p, rights) == denied' = [denied EXCEPT ![p] = @ \cup (rights \ files[p])]
-----------------------------------------------------------------------------
(* lock("boot"): pledge passes /dev/null, Landlock does not. *)
Boot(p) ==
    /\ Go(p, "boot", "args")
    /\ Only(p, CASE platform = "plain" -> Right
                 [] platform = "openbsd" -> Right \ {"stdout"}
                 [] Landlock -> Right \ {"null", "stdout"})
    /\ UNCHANGED <<inputs, conf, net, device, run, denied, interrupted>>

(* configFilePath: the first default path at which there is a file. *)
ConfigPaths ==
    IF args.config # "" THEN {args.config}
    ELSE {DefaultPaths[i] : i \in {i \in DOMAIN DefaultPaths :
              DefaultPaths[i] \in DOMAIN Disk /\ \A j \in 1 .. i - 1 : DefaultPaths[j] \notin DOMAIN Disk}}

(* A usage error, -v or no file: main prints something and returns. *)
NothingToDo(p) ==
    /\ Go(p, "args", "returned")
    /\ ~ args.valid \/ args.version \/ ConfigPaths = {}
    /\ UNCHANGED <<inputs, conf, files, net, device, run, denied, interrupted>>

(* lock("read-config"), unless a child is to be started; the child has -d  *)
(* among its arguments as well.                                            *)
Args(p) ==
    /\ Go(p, "args", "parse")
    /\ args.valid /\ ~ args.version /\ ConfigPaths # {}
    /\ Only(p, IF platform = "openbsd" /\ ~ args.daemon THEN Right \ {"exec"} ELSE Right)
    /\ UNCHANGED <<inputs, conf, net, device, run, denied, interrupted>>

Parse(p) ==
    /\ Go(p, "parse", IF args.configtest THEN "returned" ELSE "lockNetwork")
    /\ "config" \in files[p]
    /\ \E file \in Parsed : file[1] \in ConfigPaths /\ conf' = [conf EXCEPT ![p] = file[2]]
    /\ UNCHANGED <<inputs, files, net, device, run, denied, interrupted>>

(* Mutant: the error is printed, and main goes on. *)
ParseErrorIgnored(p) ==
    /\ Go(p, "parse", "lockNetwork")
    /\ \A file \in Parsed : file[1] \notin ConfigPaths
    /\ UNCHANGED <<inputs, conf, files, net, device, run, denied, interrupted>>

(* log.Fatal: an error of ParseConfig, or a file the sandbox keeps closed. *)
ParseFails(p) ==
    /\ Go(p, "parse", "fatal")
    /\ \/ "config" \notin files[p]
       \/ \A file \in Parsed : file[1] \notin ConfigPaths
    /\ Asks(p, {"config"})
    /\ UNCHANGED <<inputs, conf, files, net, device, run, interrupted>>
-----------------------------------------------------------------------------
(* What main will spawn: the routines and, for -i, the health endpoint. *)
Work(p) ==
    conf[p].Routines \o
        (IF args.info = Empty THEN <<>> ELSE <<[kind |-> "info", BindAddress |-> args.info]>>)

(* strconv.Atoi, cut to a uint16: no error for a number that does not fit. *)
ExtractPort(text) ==
    {Atoi[hp[2]] % (MaxPort + 1) : hp \in {q \in Lookup(HostPort, text) : q[2] \in DOMAIN Atoi}}

(* The text of which extractPort takes the port of a section. *)
PortText(w) == IF w.kind = "TCPServerTunnel" THEN w.Target ELSE w.BindAddress
Extracted(w) == w.kind \in {"info", "TCPServerTunnel", "http", "Socks5"}

(* Mutant: the port of a target may be bound. *)
RulesBindTarget(w) ==
    IF Extracted(w) THEN {"bind"} \X ExtractPort(PortText(w)) ELSE {}

(* A TCPClientTunnel may connect to the port of its own BindAddress. *)
Rules(w) ==
    CASE Extracted(w) ->
            {IF w.kind = "TCPServerTunnel" THEN "connect" ELSE "bind"} \X ExtractPort(PortText(w))
      [] w.kind = "TCPClientTunnel" -> {<<"connect", w.BindAddress.port>>}
      [] OTHER -> {}

AllRules(p) == UNION {Rules(Work(p)[i]) : i \in DOMAIN Work(p)}

(* Every port that extractPort is asked for is a number. *)
Extractable(p) ==
    \A i \in DOMAIN Work(p) : Extracted(Work(p)[i]) => ExtractPort(PortText(Work(p)[i])) # {}

LockNetwork(p) ==
    /\ Go(p, "lockNetwork", "detach")
    /\ Extractable(p)
    /\ net' = [net EXCEPT ![p] = IF platform = "landlock4" THEN @ \cap AllRules(p) ELSE @]
    /\ UNCHANGED <<inputs, conf, files, device, run, denied, interrupted>>

(* extractPort panics. *)
LockNetworkPanics(p) ==
    /\ Go(p, "lockNetwork", "panic")
    /\ ~ Extractable(p)
    /\ UNCHANGED <<inputs, conf, files, net, device, run, denied, interrupted>>
-----------------------------------------------------------------------------
(* Without -d, and in the child, main goes on. *)
Stay(p) ==
    /\ p = "daemon" \/ ~ args.daemon
    /\ Go(p, "detach", "ready")
    /\ UNCHANGED <<inputs, conf, files, net, device, run, denied, interrupted>>

(* exec.Command opens /dev/null for the output of the child, and starts    *)
(* it; main returns.                                                       *)
Detach(p) ==
    /\ p = "first" /\ args.daemon /\ {"exec", "null"} \subseteq files[p]
    /\ pc[p] = "detach"
    /\ pc' = [pc EXCEPT ![p] = "returned", !["daemon"] = "boot"]
    /\ files' = [files EXCEPT !["daemon"] = IF Landlock THEN files[p] ELSE Right]
    /\ net' = [net EXCEPT !["daemon"] = net[p]]
    /\ UNCHANGED <<inputs, conf, device, run, denied, interrupted>>

(* main prints the error and returns. *)
DetachFails(p) ==
    /\ p = "first" /\ args.daemon
    /\ Go(p, "detach", "returned")
    /\ Asks(p, {"exec", "null"})
    /\ UNCHANGED <<inputs, conf, files, net, device, run, interrupted>>

(* Mutant: the child, locked down by whoever started it, skips the stage. *)
ReadyOnce(p) ==
    /\ Go(p, "ready", "device")
    /\ Only(p, CASE platform = "plain" \/ p = "daemon" -> Right
                 [] platform = "openbsd" /\ p # "daemon" -> {"null", "hosts"}
                 [] Landlock /\ p # "daemon" -> {"null"})
    /\ UNCHANGED <<inputs, conf, net, device, run, denied, interrupted>>

(* lock("ready"): the promise dns includes /etc/hosts, the Landlock rules  *)
(* do not.                                                                 *)
Ready(p) ==
    /\ Go(p, "ready", "device")
    /\ Only(p, CASE platform = "plain" -> Right
                 [] platform = "openbsd" -> {"null", "hosts"}
                 [] Landlock -> {"null"})
    /\ UNCHANGED <<inputs, conf, net, device, run, denied, interrupted>>

StartWireguard(p) ==
    /\ Go(p, "device", "spawn")
    /\ device' = [device EXCEPT ![p] = IpcSet(CreateIPCRequest(conf[p]))]
    /\ UNCHANGED <<inputs, conf, files, net, run, denied, interrupted>>

StartWireguardFails(p) ==
    /\ Go(p, "device", "fatal")
    /\ UNCHANGED <<inputs, conf, files, net, device, run, denied, interrupted>>
-----------------------------------------------------------------------------
(* Mutant: a routine is called, not spawned, and does not return. *)
SpawnCalls(p) ==
    /\ pc[p] = "spawn" /\ Len(run[p]) + 1 \in DOMAIN Work(p) /\ run[p] = <<>>
    /\ run' = [run EXCEPT ![p] = Append(@, "spawned")]
    /\ UNCHANGED <<inputs, pc, conf, files, net, device, denied, interrupted>>

Spawn(p) ==
    /\ pc[p] = "spawn" /\ Len(run[p]) + 1 \in DOMAIN Work(p)
    /\ run' = [run EXCEPT ![p] = Append(@, "spawned")]
    /\ UNCHANGED <<inputs, pc, conf, files, net, device, denied, interrupted>>

Spawned(p) ==
    /\ pc[p] = "spawn" /\ Len(run[p]) + 1 \notin DOMAIN Work(p)
    /\ Go(p, "spawn", "wait")
    /\ UNCHANGED <<inputs, conf, files, net, device, run, denied, interrupted>>

(* Mutant: main waits for the routines to return. *)
WaitForRoutines(p) ==
    /\ interrupted[p] /\ \A i \in DOMAIN run[p] : run[p][i] # "up"
    /\ Go(p, "wait", "returned")
    /\ UNCHANGED <<inputs, conf, files, net, device, run, denied, interrupted>>

(* <-ctx.Done(), the only place where main looks at ctx *)
Wait(p) ==
    /\ interrupted[p]
    /\ Go(p, "wait", "returned")
    /\ UNCHANGED <<inputs, conf, files, net, device, run, denied, interrupted>>

(* SIGINT or SIGQUIT, and the goroutine that cancels ctx *)
Signal(p) ==
    /\ pc[p] \notin Over \cup {"off"} /\ ~ interrupted[p]
    /\ interrupted' = [interrupted EXCEPT ![p] = TRUE]
    /\ UNCHANGED <<inputs, pc, conf, files, net, device, run, denied>>
-----------------------------------------------------------------------------
(* parseAddressPort *)
Forwards(w) == w.kind \in {"TCPClientTunnel", "STDIOTunnel", "TCPServerTunnel"}
TargetOK(w) ==
    Forwards(w) =>
        \E hp \in Lookup(HostPort, w.Target) : hp[2] \in DOMAIN Atoi /\ Atoi[hp[2]] \in 0 .. MaxPort

(* The TCP ports of the host, its UDP ports, those of the device. *)
Space(w) == CASE w.kind = "TCPServerTunnel" -> "tunnel" [] w.kind = "UDPProxyTunnel" -> "udp" [] OTHER -> "tcp"

(* What a goroutine listens on, if net finds an address in the text. *)
Addresses(w) ==
    CASE w.kind = "TCPClientTunnel" -> {w.BindAddress}
      [] w.kind = "TCPServerTunnel" -> {[host |-> "", port |-> w.ListenPort]}
      [] w.kind \in {"info", "http", "Socks5", "UDPProxyTunnel"} -> ResolveAddr(w.BindAddress)
      [] OTHER -> {}

(* The goroutine has net look up its host, which is a name, or its port.   *)
LooksUp(w) ==
    /\ w.kind \in {"info", "http", "Socks5", "UDPProxyTunnel"}
    /\ \E hp \in Lookup(HostPort, w.BindAddress) : hp[1] \in Names \/ hp[2] \notin DOMAIN Atoi \cup {""}

(* LookupAddr: a device that has DNS servers asks them through the tunnel, *)
(* any other leaves names to net.DefaultResolver.                          *)
SystemDNS(p) == conf[p].Device.DNS = <<>>
TargetHosts(w) == {hp[1] : hp \in Lookup(HostPort, w.Target)}

(* What a connection leads to is given to LookupAddr, and may be a name:   *)
(* the target of a tunnel, or what a client of the Socks5 proxy asks for.  *)
ResolvesName(p, w) ==
    SystemDNS(p) /\ (w.kind = "Socks5" \/ (Forwards(w) /\ TargetHosts(w) \cap Names # {}))

Tables(named) == IF named THEN {"hosts"} ELSE {}

Overlap(a, b) == a.port = b.port /\ a.port # 0 /\ (a.host = b.host \/ "" \in {a.host, b.host})

(* No goroutine of the process listens there. *)
Free(p, i, a) ==
    \A j \in DOMAIN run[p] \ {i} :
        run[p][j] \in {"up", "forwarding"} /\ Space(Work(p)[j]) = Space(Work(p)[i])
            => \A b \in Addresses(Work(p)[j]) : ~ Overlap(a, b)

(* A kernel without port rules lets everything pass. *)
May(p, action, port) == platform = "landlock4" => <<action, port>> \in net[p]
MayBind(p, w, a) == Space(w) = "tcp" => May(p, "bind", a.port)

Become(p, i, state) == run' = [run EXCEPT ![p][i] = state]

(* Goroutine i of a process that still runs. *)
At(p, i, state) == Serving(p) /\ i \in DOMAIN run[p] /\ run[p][i] = state

(* The goroutine listens; an STDIOTunnel goes straight on. *)
Listen(p, i) ==
    LET w == Work(p)[i] IN
    /\ At(p, i, "spawned") /\ TargetOK(w)
    /\ \/ w.kind = "STDIOTunnel"
       \/ \E a \in Addresses(w) : Free(p, i, a) /\ MayBind(p, w, a)
    /\ Become(p, i, "up") /\ Asks(p, Tables(LooksUp(w)))
    /\ UNCHANGED <<inputs, pc, conf, files, net, device, interrupted>>

(* log.Fatal, or a panic for the health endpoint *)
Dies(p, i) == pc' = [pc EXCEPT ![p] = IF Work(p)[i].kind = "info" THEN "panic" ELSE "fatal"]

(* The sandbox does not let the goroutine bind its port. *)
ListenRefused(p, i) ==
    LET w == Work(p)[i] IN
    /\ At(p, i, "spawned") /\ TargetOK(w)
    /\ \E a \in Addresses(w) : ~ MayBind(p, w, a)
    /\ Become(p, i, "refused") /\ Dies(p, i) /\ Asks(p, Tables(LooksUp(w)))
    /\ UNCHANGED <<inputs, conf, files, net, device, interrupted>>

(* Another listener has the port, a name is not found, the text is none    *)
(* that net takes: one routine that cannot start ends the program.         *)
ListenFails(p, i) ==
    /\ At(p, i, "spawned")
    /\ Work(p)[i].kind = "STDIOTunnel" => ~ TargetOK(Work(p)[i])
    /\ Dies(p, i) /\ Asks(p, Tables(LooksUp(Work(p)[i])))
    /\ UNCHANGED <<inputs, conf, files, net, device, run, interrupted>>

(* Accept fails: any of these loops then ends the program. *)
AcceptFails(p, i) ==
    /\ At(p, i, "up") \/ At(p, i, "forwarding")
    /\ Work(p)[i].kind \in {"info", "TCPClientTunnel", "TCPServerTunnel", "http", "Socks5"}
    /\ Dies(p, i)
    /\ UNCHANGED <<inputs, conf, files, net, device, run, denied, interrupted>>

(* resolveToAddrPort fails, as it may for a name and must for no host: the *)
(* connection is given up, and with it all that an STDIOTunnel does.       *)
ResolveFails(p, i) ==
    LET w == Work(p)[i] IN
    /\ At(p, i, "up") /\ Forwards(w) /\ TargetHosts(w) \subseteq Names \cup {""}
    /\ Asks(p, Tables(ResolvesName(p, w)))
    /\ run' = IF w.kind = "STDIOTunnel" THEN [run EXCEPT ![p][i] = "over"] ELSE run
    /\ UNCHANGED <<inputs, pc, conf, files, net, device, interrupted>>

(* tcpClientForward, and a request to the Socks5 proxy, whose client may   *)
(* give an address: the target is dialled through the tunnel.              *)
Forward(p, i) ==
    LET w == Work(p)[i] IN
    /\ At(p, i, "up") \/ At(p, i, "forwarding")
    /\ w.kind = "Socks5" \/ (w.kind = "TCPClientTunnel" /\ TargetHosts(w) # {""})
    /\ \/ Asks(p, Tables(ResolvesName(p, w)))
       \/ w.kind = "Socks5" /\ UNCHANGED denied
    /\ Become(p, i, "forwarding")
    /\ UNCHANGED <<inputs, pc, conf, files, net, device, interrupted>>

(* STDIOTcpForward resolves the target, then opens /dev/stdout. *)
OpenStdout(p, i) ==
    LET w == Work(p)[i]
        open == "stdout" \in files[p] \/ (Landlock /\ stdout = "pipe")
    IN
    /\ At(p, i, "up") /\ w.kind = "STDIOTunnel" /\ TargetHosts(w) # {""}
    /\ Become(p, i, IF open THEN "forwarding" ELSE "refused")
    /\ Asks(p, Tables(ResolvesName(p, w)) \cup IF open THEN {} ELSE {"stdout"})
    /\ pc' = IF ~ open /\ platform = "openbsd" THEN [pc EXCEPT ![p] = "killed"] ELSE pc
    /\ UNCHANGED <<inputs, conf, files, net, device, interrupted>>

(* tcpServerForward resolves the target, then connects to it. *)
DialTarget(p, i) ==
    LET w == Work(p)[i] IN
    /\ At(p, i, "up") /\ w.kind = "TCPServerTunnel" /\ TargetHosts(w) # {""}
    /\ Asks(p, Tables(ResolvesName(p, w)))
    /\ \E hp \in Lookup(HostPort, w.Target) :
          Become(p, i, IF May(p, "connect", Atoi[hp[2]]) THEN "forwarding" ELSE "refused")
    /\ UNCHANGED <<inputs, pc, conf, files, net, device, interrupted>>
-----------------------------------------------------------------------------
MainStep(p) ==
    \/ Boot(p) \/ NothingToDo(p) \/ Args(p) \/ Parse(p) \/ ParseFails(p)
    \/ LockNetwork(p) \/ LockNetworkPanics(p) \/ Stay(p) \/ Detach(p) \/ DetachFails(p) \/ Ready(p)
    \/ StartWireguardFails(p) \/ StartWireguard(p) \/ Spawn(p) \/ Spawned(p) \/ Wait(p)

Start(p, i) == Listen(p, i) \/ ListenRefused(p, i) \/ ListenFails(p, i)
Serve(p, i) == ResolveFails(p, i) \/ Forward(p, i) \/ OpenStdout(p, i) \/ DialTarget(p, i)

Next ==
    \E p \in Proc :
        \/ MainStep(p)
        \/ Signal(p)
        \/ \E i \in DOMAIN run[p] : Start(p, i) \/ AcceptFails(p, i) \/ Serve(p, i)

Spec == Init /\ [][Next]_vars

(* main and the goroutines it spawns run when they can. *)
Fairness ==
    \A p \in Proc : WF_vars(MainStep(p)) /\ WF_vars(\E i \in DOMAIN run[p] : Start(p, i))

FairSpec == Spec /\ Fairness
-----------------------------------------------------------------------------
HasStdio(p) == \E i \in DOMAIN Work(p) : Work(p)[i].kind = "STDIOTunnel"
HasName(p) == \E i \in DOMAIN Work(p) : LooksUp(Work(p)[i]) \/ ResolvesName(p, Work(p)[i])

(* The reasons for which the sandbox may refuse a file, and a port. *)
DenialsFit(p) ==
    \A right \in denied[p] :
        \/ right = "null" /\ Landlock /\ args.daemon
        \/ right = "stdout" /\ HasStdio(p) /\ (platform = "openbsd" \/ (Landlock /\ stdout = "file"))
        \/ right = "hosts" /\ Landlock /\ HasName(p)

RefusalsFit(p) ==
    \A i \in DOMAIN run[p] : run[p][i] = "refused" =>
        \/ Work(p)[i].kind = "TCPClientTunnel" /\ platform = "landlock4"
        \/ Work(p)[i].kind = "STDIOTunnel" /\ "stdout" \in denied[p]

(* What lock and lockNetwork leave is enough for what the program does     *)
(* later, with these exceptions: -d under Landlock, which needs /dev/null; *)
(* an STDIOTunnel whose output is not a pipe, or on OpenBSD; under         *)
(* Landlock, a name to listen on and, if the device has no DNS servers, a  *)
(* name to connect to, which are not looked up in the tables of /etc; and  *)
(* the port of a TCPClientTunnel.  A listener that takes its port out of a *)
(* text, and a TCPServerTunnel, are never refused theirs.                  *)
SandboxFits == \A p \in Proc : DenialsFit(p) /\ RefusalsFit(p)

(* Once goroutines serve, the sandbox lets the process neither read a file *)
(* nor start a program, on a kernel with port rules it may use only ports  *)
(* that lockNetwork made of its configuration, cut to uint16 as they are,  *)
(* and it is the only one of the two that serves.                          *)
ServingIsLockedDown ==
    \A p \in Proc : Serving(p) =>
        /\ platform # "plain" => files[p] \cap {"config", "exec", "stdout"} = {}
        /\ platform = "landlock4" => net[p] \subseteq AllRules(p)
        /\ \A q \in Proc : Serving(q) => q = p
        /\ Landlock => p = "first" /\ ~ args.daemon

(* When main waits, every section of the configuration file that names a   *)
(* routine, and -i, has its own goroutine; the sections of a file that     *)
(* WGConfig refers to have none.                                           *)
SectionsServed ==
    \A p \in Proc : pc[p] = "wait" =>
        \A path \in ConfigPaths :
            LET tasks(kind) == {i \in DOMAIN run[p] : Work(p)[i].kind = kind}
                sections(kind) == SectionsByName(Disk[path], kind)
            IN /\ \A k \in DOMAIN RoutineKinds :
                     Cardinality(tasks(RoutineKinds[k])) = Len(sections(RoutineKinds[k]))
               /\ tasks("info") = {} <=> args.info = Empty

(* The device has the private key of the file, a prefix leads to the last  *)
(* peer that claims it, where a peer without prefixes claims the defaults, *)
(* and a peer listed twice has the preshared key of its last section.      *)
DeviceFollowsConfig == \A p \in Proc : device[p] # Nil => Reflects(device[p], conf[p])

(* A process that is started ends, or all its goroutines listen. *)
Settles ==
    \A p \in Proc :
        pc[p] = "boot" ~>
            pc[p] \in Over \/ (pc[p] = "wait" /\ \A i \in DOMAIN run[p] : run[p][i] # "spawned")

(* An interrupt ends the process, whatever main was doing when it came. *)
InterruptedEnds == \A p \in Proc : interrupted[p] ~> pc[p] \in Over

(* "TCPClientTunnel is a tunnel listening on your machine" (README.md:201): *)
(* the program does not keep itself from listening there.                   *)
TunnelsListen ==
    \A p \in Proc : \A i \in DOMAIN run[p] :
        Work(p)[i].kind = "TCPClientTunnel" => run[p][i] # "refused"

(* "Make wireproxy run in background" (README.md:58, the option -d): the    *)
(* program does not keep itself from starting the child.                    *)
DaemonStarts == denied["first"] \cap {"exec", "null"} = {}

(* "specifies an address and port (e.g. `localhost:9080`)" (README.md:331), *)
(* "Target = localhost:25545" (README.md:215): the program does not keep    *)
(* itself from looking such names up where they are defined.                *)
NamesAreFound == \A p \in Proc : "hosts" \notin denied[p]
=============================================================================
