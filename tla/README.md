# A TLA+ model of wireproxy-awg

wireproxy-awg connects to a WireGuard (AmneziaWG) peer from user space and
offers tunnels and proxies on top of it. This directory holds TLA+ models of its
parts, model-checking configurations for TLC, and proofs for TLAPS.

## 1. The system

| Part | Code | State | Operations | Talks to |
| --- | --- | --- | --- | --- |
| UDP proxy tunnel | `udp_proxy.go` | session map, mutex, per session: connection, close channel, `lastActive` | receive, look up or dial, stamp, send; sweep; per session: check, read, stamp, reply, remove, close | clients, netstack |
| Health endpoint | `routine.go:321-476` | `PingRecord` and its lock | ping round, pong, record; `/readyz`; `/metrics` | netstack, HTTP clients |
| TCP client / server / STDIO tunnels | `routine.go:191-319` | connection pairs | accept, resolve, dial, copy both ways, close both | clients, netstack, resolver |
| HTTP proxy | `http.go`, `util.go` | connection, buffered reader, peer | read request, authenticate, CONNECT or plain, copy both ways | clients, netstack |
| SOCKS5 proxy | `routine.go:142-164` | in the library | in the library | clients, netstack, resolver |
| Name resolution | `routine.go:67-139` | none | lookup, shuffle, pick | netstack or system DNS |
| AmneziaWG parameters | `awg_config.go` | optional fields | parse, validate, serialise | configuration, device |
| Keepalive | `config.go:363-376`, `wireguard.go:25-45` | fields and parsed range | parse, assign, serialise | configuration, device |
| Other configuration | `config.go` | configuration objects | parse | file, environment |
| Request and device | `wireguard.go:48-218` | none | write the request, start the device | device |
| Start-up | `cmd/wireproxy/main.go` | sandbox stage, daemon | lock stages, parse, daemonise, spawn | everything |

What makes these parts hard to test:

- **UDP proxy.** Three kinds of goroutines share the session map. `lastActive` is
  written without the lock. An evicted session lives on in its handler while its
  client may already have the next one. A dial holds the lock.
- **Health.** The handler reads a map, twice, that pong goroutines write to. Times
  are cut to seconds. Rounds drift because the loop sleeps after the pings.
- **Tunnels and HTTP.** Two copying goroutines close each other's connections;
  error paths leave connections behind; the request reader buffers.
- **Configuration.** Integer widths, interval arithmetic, defaults that take part in
  some checks and not in others, and a request whose lines depend on their order.
- **Start-up.** Permissions are given up step by step, and what is done later has
  to be covered by what is left.

`PROJECT.json` lists the hazards line by line, with the properties that cover them.

## 2. The modules

| Module | Models |
| --- | --- |
| `SessionTable` | what the UDP tunnel promises about sessions (abstract) |
| `UDPProxy` | `udp_proxy.go` |
| `Health` | ping loop, pong goroutines and `/readyz` |
| `UintRange` | `uintRange`, `parseUintRange`, `String` |
| `Keepalive` | PersistentKeepalive from the file to the request |
| `AWGConfig` | AmneziaWG parameters from the file to the request |
| `Tunnel` | what a proxied connection promises (abstract) |
| `Relay` | the pair of copying goroutines, the two ends, the garbage collector |
| `TCPTunnel` | the TCP client, TCP server and STDIO tunnels up to the copiers, and the resolver |
| `HTTPProxy` | `serve` up to the copiers |
| `Proxies` | one connection of any TCP routine: `TCPTunnel` and `HTTPProxy` composed with `Relay` |
| `Config` | the configuration file, and the request to the device |
| `Startup` | `main`, the sandbox, the child of `-d`, the start of every routine; uses `Config` |
| `...Proofs`, `...Lemmas` | theorems |
| `MC...` | constants for TLC |

### UDPProxy

| Model | Code |
| --- | --- |
| `sessions`, `sessionMu` | the map and the mutex (36-37) |
| `remoteConn`, `closeChan`, `idle` | fields of `udpSession`; `idle` is the age of `lastActive` |
| `srcAddr`, `handler` | argument and program counter of `handleRemoteToLocal` |
| `mainPc`, `mainSrc`, `mainSession` | the main loop (107-129) |
| `sweepPc`, `sweepTodo`, `lag` | the sweeper (58-73); `lag` is the age of its `now` |
| `quiet` | history: age of the last datagram stamped for the session |

A step is what happens between two points where another goroutine can interfere:
`FindSession` is one critical section, whereas `Dial` takes the lock and
`CreateSession` or `DialFailed` gives it back, since a dial takes time. `SweepOne`
visits one key, in any order, as Go's map iteration does, and unlocked stamps may
come between two visits.

*Time* is kept as ages, which saturate at `AgeCap`, the largest age `Expired` can
tell apart. So the state space is finite although behaviours are not, and liveness
can be checked. *Session objects* are reused once no goroutine refers to them, as
memory is after garbage collection; `Session` bounds how many are alive at a time,
not how many there are.

*The unlocked read.* The sweeper reads `lastActive` while others may write it. On
64-bit builds the word that `Sub` uses is read in one piece. The release targets
include 32-bit machines, where a read in two halves may be off by the weight of the
upper half: `Tear` is that error, and `LastActiveReads` the values a read can give.

### Health

`StartPing`/`SkipPing` are one turn of the loop in `pingIPs`; `Sleep`/`WakeUp` the
loop of `StartPingIPs`. A ping goroutine is a `Slot`; it reads its pong before the
deadline (`ReadPong`) or returns (`GiveUp`), then takes the lock and assigns
(`RecordBegin`, `RecordEnd`). The assignment is two steps because the handler does
not take the lock. The handler's two passes over the map visit keys in any order
(`MarshalOne`, `ScanOne`). `MapRace` is the runtime's detector of concurrent
iteration and assignment, which ends the process. One request is served at a time:
requests only read the map, so they do not affect each other.

Time has `TPS` ticks to the second; a record is born with the age `phase`, the part
of the second that `Unix()` cuts off. `pongAge` is history: the true age of the last
pong.

### Keepalive, AWGConfig, UintRange

Texts are sequences of parts between dashes; a part is a number, blank or junk. That
is all `parseUintRange` tells apart. `Keepalive` has the exported fields, which a
program using the package may assign to (`Assign`), and the width of an int
(`IntMax`) with its conversions. `AWGConfig` has one parser, one check and one
formatter per kind of key in place of the code's one block per key; a configuration
is a function on the keys that are set, which replaces the `has...` flags and nil
pointers. `DeviceHeader` and `DevicePadding` say how the device reads the lines, with
the defaults of plain WireGuard.

### Relay, TCPTunnel, HTTPProxy, Proxies

A behaviour is one connection, of one of the four kinds. Connections share no state in
the code, so one at a time is enough.

| Model | Code |
| --- | --- |
| `front` | the goroutine that sets the connection up: `tcpClientForward`, `tcpServerForward`, `STDIOTcpForward`, `serve` |
| `copier`, `buf` | the two `connForward` goroutines, or the two closures in `serve`, with the buffer of `io.Copy` |
| `open` | `conn`, `sconn` (in `http.go`: `peer`), `os.Stdin`, `stdout` |
| `rd`, `taken`, `passed` | the `bufio.Reader` of `serve`, what it took, what `req.Write` passed on |
| `sent`, `wire`, `got`, `ended`, `full` | the two ends and what is between them and the process |

The n-th byte an end sends is the number n, so that loss, repetition and reordering
show. A read returns any non-empty prefix of what has arrived; a write hands over byte
by byte and may be stuck while the receiver is `full`. The deferred closes are two steps
in the order Go runs them, which differs between `connForward` and the closures. The
head of an HTTP request is one byte, its body as many as `request.body` says. Headers
are abstracted to what `authenticate` tells apart, credentials to words. An end that is
`rst` neither sends nor takes bytes any more; for an STDIOTunnel that is the program at
the other end of both standard streams.

Early returns leave the local connection open. Go's runtime closes the descriptor of an
unreachable connection when it collects garbage (`Finalize`); connections of the
user-space network stack (`tcpServer`) have no finalizer and stay open.

### Config

A parser returns a set: its value alone, or nothing for an error. A text is a word with
the dollar signs before it, because `parseString` looks at those; what a library makes
of a word (`strconv.Atoi`, `net.SplitHostPort`, `netip.ParsePrefix`...) is a table, a
constant of the module. All of `ParseConfig` is there. `PersistentKeepalive` and the
AmneziaWG keys are single words here, since they have modules of their own, and a key
that is repeated has its first value. A `PreSharedKey` that is left out is `Nil`, for
the key of zeros that the code puts in. `IpcSet` says how the device reads the request,
line by line (external), and `Reflects` what a configuration says of the device.

### Startup

| Model | Code |
| --- | --- |
| `pc` | where `main` is, for the first process and for the child of `-d` |
| `files`, `net` | what `lock` and `lockNetwork` have left |
| `run` | the goroutines `main` has spawned, in the order of `conf.Routines`, then `-i` |
| `denied` | history: what the sandbox has refused |

`platform` is the kernel: without a sandbox, OpenBSD, Landlock for files (ABI 1 to 3),
Landlock for files and TCP ports (ABI 4 and later). How they behave is modelled from
what the code expects of them, and is external: a Landlock layer only takes rights away
and is inherited; a pledge is not inherited across exec, always lets `/dev/null` be
opened, includes `/etc/hosts` with `dns`, and kills who exceeds it. Opening
`/dev/stdout` under Landlock succeeds if it is a pipe, which no path rule can refer to.
The first stage leaves no way to write to a file, and the rules of the last stage
cannot give that back.

Each stage of `lock`, parsing, `lockNetwork`, starting the child, the device and each
`go` statement is a step, and so is each listener's start. `ListenFails` may happen to
any listener, since other programs have ports too, and `AcceptFails` to any that accepts.

What a routine does for a connection is there as far as the sandbox may refuse it
(`Serve`): the lookup of the target, opening `/dev/stdout`, connecting to a local port.
Names are looked up in the tables of `/etc` (the right `hosts`) at two places: `net` does
it for a text to listen on (`LooksUp`), and `LookupAddr` for what a connection leads to,
if the device has no DNS servers of its own (`SystemDNS`, `ResolvesName`). With DNS
servers names are asked through the tunnel, which no sandbox sees. A refused table is no
error for `net`: it goes on without, and asks the DNS servers of `/etc/resolv.conf`, so a
lookup may succeed or fail whether the table was refused or not. Files of which the Go
libraries only take hints, and have defaults for (`/etc/nsswitch.conf`,
`/proc/sys/net/core/somaxconn`), are not among the rights. Nor is the TCP connection that
a resolver makes when an answer does not fit a datagram; under port rules it is refused.

## 3. The runs

| Run | Instance | Shows |
| --- | --- | --- |
| `udp` | 1 client, 2 sessions, timeout 2, lag 1, torn reads | `TypeOK`, `MappedSessionIsLive`, `OrphanIsSignalled`, `SessionLeavesForCause`, `OrphanIsReleased`, `IdleSessionExpires`, `MainLoopReturns`, `ImplementsTable` |
| `health` | an address that answers at once and one that may not, 2 goroutines, 2 ticks a second | `TypeOK`, `NoFalseReady`, `NoFalseAlarm`, `ReliableStaysFresh`, `SilenceIsReported`, `StaysReady` |
| `keepalive` | uint32 and int of 3 bits | `TypeOK`, `RequestIsCurrent`, `FileRangeIsExact` |
| `awg_parameters` | 25 811 sections | `TypeOK`, `HeadersUnambiguous`, `ProtectionHasNonce`, `EqualSizesAreDefaults`, `RequestSaysTheSection` |
| `proxies` | 3 bytes up, 1 down, each tunnel and 8 HTTP exchanges | `TypeOK`, `StreamIntact`, `LostOnlyIfEager`, `NothingForgotten`, `ServedAsConfigured`, `ImplementsTunnel`, `EndIsPassedOn`, `ClientIsLetGo` |
| `startup` | 18 files, 123 command lines, 4 kernels | `TypeOK`, `SandboxFits`, `ServingIsLockedDown`, `SectionsServed`, `DeviceFollowsConfig`, `Settles`, `InterruptedEnds` |

What the last two say of the code:

- Bytes of a proxied connection arrive in order, whatever the reads, writes and closes
  are cut into. Two things are lost, by design of the code: what is under way in one
  direction when the other one ends (both copiers close both connections), and bytes
  that a client of the HTTP proxy sends right behind its request before it has an
  answer (`LostOnlyIfEager`).
- The sandbox leaves enough for the program with four exceptions, which `SandboxFits`
  lists. Three of them go against the repository's README and have a run of their own
  below: `-d` under Landlock (`startup_daemon`), names under Landlock, to listen on and,
  for a device without DNS servers, to connect to (`startup_names`), and the port of a
  TCPClientTunnel (`startup_listen`). The fourth is an STDIOTunnel, which needs a pipe
  for its output under Landlock and does not work on OpenBSD. `SandboxFits` says that
  there is no fifth. `ServingIsLockedDown` is the converse: when routines run, nothing is
  left that is not meant to be.

Six runs expect a violation; each shows a difference between the code and the
repository's README:

| Run | Property | What happens |
| --- | --- | --- |
| `health_truncation` | `StaleMeansNoPong` | a pong younger than the documented limit is answered with a 503, because records are whole seconds |
| `health_map_race` | `ReadyzSurvives` | iteration without the lock meets an assignment, which is fatal in Go |
| `awg_handshake_sizes` | `HandshakeSizesDiffer` | `S2 = 56` without `S1` is accepted, and both handshake messages have 148 bytes |
| `startup_listen` | `TunnelsListen` | `lockNetwork` lets a TCPClientTunnel connect to its own port, not bind it, so the program ends when the tunnel starts |
| `startup_daemon` | `DaemonStarts` | `lock("boot")` leaves nothing to write to, `exec.Command` opens `/dev/null` for the child's output and fails, so `-d` runs nothing in the background |
| `startup_names` | `NamesAreFound` | `lock("ready")` closes `/etc/hosts`, where `localhost` of `-i localhost:9080` and of `Target = localhost:25545` is looked up afterwards |

For the first and the third the passing runs state what does hold. `NoFalseAlarm`: an
address is taken for dead, with no pong of it waiting to be recorded, only if none was
read within the limit less the part of a second that truncation takes.
`EqualSizesAreDefaults`: two message types are equally long only if one of their paddings
is not set, and never with header protection, which demands all four.

`startup_listen` assumes that the kernel checks the listening socket. Landlock has TCP
port rules from ABI 4 on (Linux 6.7). Newer versions of Go listen with multipath TCP
where the kernel has it, and kernels differ in whether the rules apply to such sockets;
where they do not, the tunnel listens after all. In `startup_names` the name may still be
found: `net` then asks the DNS servers, and whether they know `localhost` is up to them.
If they do not, `-i` ends in a panic, and a tunnel gives its connection up.

### Bounds

- With one client and two session objects the client has its next session while the
  handler of the old one is on its way out, and the two compete for the lock with the
  sweeper and the main loop. For any number of clients and sessions the safety properties
  are proved.
- A timeout of 2 ticks and a lag of 1 make a session expire, nearly expire, and be
  stamped while a sweep waits for the lock. A torn read is off by one tick, less than the
  timeout. A timeout of 0 or less, without a sweeper, and exact reads
  (`Tear = 0`) are covered by `LeavesForCause`, which holds for every timeout and error.
- The keepalive run has the case in which an int cannot hold every uint32. Wider ints,
  and what uint32 cuts off them, are covered by `RequestFollowsFields`.
- Two goroutines let two pongs of one address be recorded out of order. Two ticks a
  second are the least that truncation needs; `health_truncation` has three, so that a
  503 comes before the limit and not just at it. `MaxPingTime` bounds a ping round and
  `MaxStall` the wait of a goroutine that has its pong for the lock.
- `StaysReady` and `ReliableStaysFresh` depend on the timing (`InTime`): they hold while
  `MaxRTT + 2 * MaxPingTime + MaxStall <= TPS + 1` (in ticks). Beyond, `StaysReady` fails,
  as TLC shows for `MaxRTT = 1`. In words: of the two seconds of leeway, truncation takes almost
  one. `InTime` is a premise of the theorem, and the run's instance satisfies it, to the tick.
- Sections for `AWGConfig` come in families (headers, junk, paddings with and without
  the protection key, the rest). Within a family every subset of keys is tried with
  values on both sides of each limit. The checks of different families share no key,
  so combinations across families add nothing.
- Three bytes from the client are a request, its body and a byte that follows, the
  least for `rd` to hold a byte too many after a body. One byte from the target is enough
  for the two directions to interfere. The proofs cover streams of any length.
- The files of `startup` have every kind of section, repeated and missing ones, a
  separate `WGConfig`, peers that share keys and prefixes, texts from the environment, and
  ports that are numbers, service names, too large, negative or absent. There are names to
  listen on and targets that are names, addresses or empty, for devices with and without
  DNS servers. Two listeners on
  overlapping addresses are among them. A port has two bits, so that the values that
  `uint16` cuts are small.

`CHECK_DEADLOCK FALSE` is used where the system stops by itself: a parser that is
done, the health model after the runtime has ended the process, a connection that is
closed, a program that has ended.

### Fairness

Goroutines that can run do run (weak fairness), and a `Dial` or a `Read` returns: the
latter has a deadline. Datagrams, replies, failures and requests need not happen.
Taking `sessionMu` or `PingRecordLock` is strongly fair: Go's mutex hands itself to a
waiter that has waited for a millisecond, so a goroutine cannot be passed over for
good. The clock advances.

In `Proxies` a blocked write goes on if the receiver has room again and again (strong
fairness: that is TCP's flow control), and garbage is collected, which Go's runtime
forces every two minutes. The ends need not send, end or read: `EndIsPassedOn` and
`ClientIsLetGo` assume a receiver that is not stuck for good, because the code has no
timeouts. In `Startup` `main` and the goroutines it spawns go on; signals and failures
need not happen.

## 4. The proofs

Each proof module states an inductive invariant `Inv`, proves that `Init` implies it
and that every action preserves it, and derives the properties. The theorems hold for
every value of the constants allowed by the named assumptions (`UDPProxyAssumption`,
`HealthAssumption`, `KeepaliveAssumption`, `UintRangeAssumption`,
`AWGConfigAssumption`, `RelayAssumption`, `TunnelAssumption`, `ExchangeAssumption`,
`PortAssumption`, `ListAssumption`, `PathsAssumption`). The last two say that the tables
of `Config` and the default paths are lists. `TypeCorrect` is proved for each of the six.

- **UDPProxy.** `MappedSessionIsLive` is not inductive: it needs to know who holds the
  mutex where (`LockInv`), that the main loop dials only for a client without a session
  (`MainInv`), that the sweeper's remaining keys are still in the map (`SweepInv`), how
  a handler's position relates to its connection and its channel (`HandlerInv`), and
  that `idle` and `quiet` agree (`StampInv`). From these follow `TypeCorrect`,
  `MapHoldsLiveSessions`, `NoConnectionForgotten`, the action property
  `LeavesForCause`, and `TunnelImplementsTable`: the tunnel refines the safety part of
  `SessionTable`.
- **Health.** `FreshMeansPong`: a fresh record is at most `MaxStall` younger than a
  pong (`AgeInv`); recording keeps that since a goroutine with a pong knows a bound on
  its age (`PongInv`); a tick keeps it since nobody is assigning then (`WriterInv`).
  `StaleMeansSilence`: the record of an address is at most `TPS - 1` ticks older than its
  newest pong, unless a goroutine holds a pong that it has yet to record or the pong is
  past all counting (`SilenceInv`); `RecordEnd` restores that since a record is born with
  the age `phase`, and a tick ages both alike (`OlderTogether`).
  `ReliableNeverStale` is about an address whose pings are answered: its
  record is never stale once there is one. The invariant behind it (`FreshInv`) follows the
  next record on its way, from the loop's sleep over the ping and its pong to the
  assignment, and bounds the age of the present one at each stage by the time that is
  left (`TimeInv` bounds the stages themselves).
- **Keepalive.** `RequestFollowsFields` and `FileRangeReachesDevice`, for every width
  of an int with `IntMax >= MaxUint32` or `MaxUint32 = 2 * IntMax + 1`. The invariant
  adds that the cached range comes from the text and agrees with fields nobody changed.
- **AWGConfig.** `HeadersAreUnambiguous`, `ProtectedHeadersHaveNonce`,
  `EqualSizesAreUnset` and `RequestIsFaithful`, from the round trips of ranges (`RangeRoundTrip`) and ints
  (`IntRoundTrip`), for every set of sections.
- **Proxies.** `StreamsIntact`, `OnlyEagerClientsLose`, `ConnectionsClosed`,
  `OnlyAdmittedServed` and `ConnectionImplementsTunnel`. A receiver's bytes alone are not
  inductive: the invariant says that what was received, what is in the copier's buffer and
  what is on the wire are, in this order, the bytes sent, less those the HTTP proxy's
  reader has kept (`Bytes`); what that reader holds (`Reader`); how far a request has got
  (`Stage`, `Early`, `Admitted`); and what is open where (`Control`). Seven kinds of steps
  move bytes (`DataSteps`); the others leave `Bytes` alone. `ConnectionImplementsTunnel`
  is the safety part of the refinement of `Tunnel`, one lemma per kind of step
  (`EndsSeen`, `CopySeen`, `TunnelSeen`, `RequestSeen`, `ForwardSeen`, `HTTPSeen`). It
  needs one more fact (`Linked`): until an end hangs up, no copier stops and nothing it
  uses is closed, so the end of a direction always has a cause.
- **Config.** `RoutinesOfSections` and `DeviceOfConfig` say what `ParseConfig` and
  `IpcSet` compute, for every file. Both are recursive functions over lists, and the
  proofs are inductions on the length: the library's induction theorems take an operator
  and cannot be used, but a set of numbers that is not empty has a least member
  (`WFMin`), so a set that has 0 and each successor has them all (`UpTo`). That `Flatten`
  and `IpcSet` have values at all is proved in the same way (`Flattening`, `IpcParts`).
  For the device the induction is over the peers (`DeviceTold`): after n of them the tables
  of routes and preshared keys are those of the last peer, among these n, that claims the
  entry (`Follows`), and the lines of one peer are a second induction (`Routed`).
- **Startup.** `SandboxFitsProgram`, `LockedDown`, `DeviceIsConfigured` and
  `EverySectionServed`, for every set of files and command lines. The invariant relates
  the place of `main` to the rights that are left (`FilesInv`), to the port rules
  (`NetInv`), to the child (`ForkInv`), to the configuration and the device (`ConfInv`)
  and to the routines (`RunInv`). The arithmetic is in `SamePort`: the port that
  `extractPort` cuts to a `uint16` is the port that `net` finds in the same text, if it
  finds one. The last two theorems put the invariant and those of `ConfigProofs`
  together; that `main` looks at one file only (`OnePath`) is part of it.

Only model-checked:

- everything about liveness (`OrphanIsReleased`, `IdleSessionExpires`,
  `MainLoopReturns`, the fairness of `SessionTable`, `SilenceIsReported`, `StaysReady`,
  `EndIsPassedOn`, `ClientIsLetGo`, `Settles`, `InterruptedEnds`), because the prover
  does not handle fairness;
- the fairness of `Tunnel`, that is, the promise of delivery in `ImplementsTunnel`.

## 5. What is not modelled

- `/metrics`, which formats what the device reports; log and error texts.
- The SOCKS5 protocol, which is in a library. Its section, listener and port rule are in
  `Config` and `Startup`.
- Payloads of datagrams, the contents of HTTP messages beyond what decides the control
  flow, and the address an HTTP request names.
- The cryptography and the protocol of the device. `StartWireguard` succeeds or fails.
- `ResolveStrategy`, `CertFile` and `KeyFile` are parsed, and in the model too, but
  nothing in the code reads them afterwards, so nothing can be said of them.
- Requests that follow the first one on a connection of the HTTP proxy are data, as they
  are for the code, which copies them to the first request's target.
- A client of the HTTP proxy that waits for an interim answer before it sends its body:
  the proxy reads no answer before it has written the whole request. The model has the
  wait, and `ClientIsLetGo` is about clients that end.
- Go-ini's grammar: files are given as their sections and keys.
