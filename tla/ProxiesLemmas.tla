--------------------------- MODULE ProxiesLemmas ----------------------------
(* The inductive invariant of a proxied connection, what a sequence of      *)
(* bytes keeps when its parts move, and the steps that keep the types and   *)
(* the control state.                                                       *)
EXTENDS Proxies, TLAPS

(* Which routine's goroutine is where, and what is open meanwhile. *)
Fronts ==
    /\ kind = "http" => exchange \in Exchange
    /\ front \in {"readRequest", "refuse", "answer", "forward"} => kind = "http"
    /\ front = "resolve" => kind # "http"
    /\ front = "openStdout" => kind = "stdio"
    /\ open \subseteq IF kind = "stdio" THEN {"stdin", "stdout", "sconn"} ELSE {"conn", "sconn"}
    /\ front \notin {"answer", "forward", "spawned"} => "sconn" \notin open

(* The copiers run once they are spawned, and close what they have to. *)
Copier(d) ==
    /\ front = "spawned" => copier[d] # "none"
    /\ front # "spawned" => copier[d] = "none"
    /\ copier[d] \in {"none", "read"} => buf[d] = <<>>
    /\ copier[d] = "write" => Len(buf[d]) > 0
    /\ copier[d] = "closeLast" => ClosedFirst(d) \notin open
    /\ copier[d] = "done" => From(d) \notin open /\ To(d) \notin open

Control == Fronts /\ \A d \in Dir : Copier(d)

(* The i-th byte for a receiver that misses g bytes after the first p, and  *)
(* a sequence of such bytes that follows the first k of them.               *)
Nth(i, p, g) == IF i <= p THEN i ELSE i + g
Run(s, k, p, g) == \A i \in 1 .. Len(s) : s[i] = Nth(k + i, p, g)

(* What was given, what is in the buffer and what is on the wire are, in    *)
(* this order, the bytes to be read.                                        *)
Flowing(a, b, c, s, p, g) ==
    /\ Len(a) + Len(b) + Len(c) + g = s
    /\ Run(a, 0, p, g) /\ Run(b, Len(a), p, g) /\ Run(c, Len(a) + Len(b), p, g)

(* What the receiver of a direction misses, and after how many bytes. *)
P(d) == IF d = "up" THEN passed ELSE 0
G(d) == IF d = "up" THEN taken - passed ELSE 0

Stream(d) == Flowing(got[d], buf[d], wire[d], sent[d], P(d), G(d))
Bytes == \A d \in Dir : Stream(d)

(* Where the request ends that the reader holds. *)
Consumed == IF passed = 0 THEN 1 ELSE passed

(* What the reader holds. *)
Reader ==
    /\ passed <= taken /\ taken <= sent["up"]
    /\ taken = 0 => rd = <<>>
    /\ taken > 0 => Len(rd) + Consumed = taken
    /\ Run(rd, Consumed, 0, 0)

(* How far the HTTP proxy is with the request. *)
Stage ==
    /\ kind # "http" \/ front \in {"accept", "readRequest"} => taken = 0
    /\ kind = "http" /\ front \in {"dial", "refuse", "answer", "forward"} => taken > 0
    /\ front \notin {"forward", "spawned", "returned"} => passed = 0
    /\ front = "forward" => passed <= Need /\ request.method # "CONNECT"
    /\ front = "answer" => request.method = "CONNECT"
    /\ kind = "http" /\ front = "spawned" /\ request.method # "CONNECT" => passed = Need
    /\ kind = "http" /\ front = "spawned" /\ request.method = "CONNECT" => passed = 0

(* What was written before the copiers run, and what the client sent. *)
Early ==
    /\ front # "spawned" => Len(got["up"]) = passed /\ Len(got["down"]) = 0
    /\ kind = "http" /\ front \notin {"spawned", "returned"} => answer = 0 /\ (eager \/ sent["up"] <= Need)
    /\ kind = "http" /\ front = "spawned" => eager \/ taken <= Need

(* A request that is served has passed authenticate. *)
Admitted == kind = "http" /\ front \in {"dial", "answer", "forward", "spawned"} => Authenticate = 0

Inv == TypeOK /\ Control /\ Bytes /\ Reader /\ Stage /\ Early /\ Admitted
-----------------------------------------------------------------------------
(* The steps that move bytes, and those that do not. *)
data == <<sent, wire, buf, got, rd, taken, passed>>

(* Lemma: only seven kinds of steps move bytes. *)
LEMMA DataSteps ==
    ASSUME [Next]_vars
    PROVE \/ \E d \in Dir : (Send(d) \/ Read(d) \/ Write(d)) /\ UNCHANGED httpVars
          \/ ReadRequest \/ PassHead \/ PassBody \/ FillBody
          \/ UNCHANGED data
<1>1. ASSUME NEW d \in Dir, End(d) \/ Flow(d), UNCHANGED httpVars PROVE UNCHANGED data
    BY <1>1 DEF End, Flow, httpVars, data
<1>2. ASSUME NEW d \in Dir, CopyStep(d) PROVE ((Read(d) \/ Write(d)) /\ UNCHANGED httpVars) \/ UNCHANGED data
    BY <1>2 DEF CopyStep, Copy, ReadEnds, WriteFails, CloseFirst, CloseLast, httpVars, data
<1>3. ASSUME TunnelStep PROVE UNCHANGED data
    BY <1>3 DEF TunnelStep, TunnelFront, Accept, Resolve, ResolveFails, OpenStdout, Dial, DialFails,
                httpVars, relayVars, data
<1>4. ASSUME HTTPStep PROVE ReadRequest \/ PassHead \/ PassBody \/ FillBody \/ UNCHANGED data
    BY <1>4 DEF HTTPStep, HTTPFront, HTTPAccept, ReadRequestFails, Refuse, HTTPDial, HTTPDialFails,
                AnswerConnect, AnswerConnectFails, Forwarded, ForwardFails, httpVars, relayVars, data
<1>5. ASSUME FinalizeStep PROVE UNCHANGED data
    BY <1>5 DEF FinalizeStep, Finalize, httpVars, relayVars, data
<1>6. ASSUME UNCHANGED vars PROVE UNCHANGED data
    BY <1>6 DEF vars, httpVars, relayVars, data
<1> QED
    BY <1>1, <1>2, <1>3, <1>4, <1>5, <1>6 DEF Next, EndStep, Ends

(* Lemma: the first bytes of a sequence. *)
LEMMA Firsts ==
    ASSUME NEW s \in Seq(Nat), NEW n \in 1 .. Len(s)
    PROVE /\ SubSeq(s, 1, n) \in Seq(Nat) /\ Len(SubSeq(s, 1, n)) = n
          /\ \A i \in 1 .. n : SubSeq(s, 1, n)[i] = s[i]
    OBVIOUS

(* Lemma: the bytes after them. *)
LEMMA Lasts ==
    ASSUME NEW s \in Seq(Nat), NEW n \in 1 .. Len(s)
    PROVE /\ SubSeq(s, n + 1, Len(s)) \in Seq(Nat) /\ Len(SubSeq(s, n + 1, Len(s))) = Len(s) - n
          /\ \A i \in 1 .. Len(s) - n : SubSeq(s, n + 1, Len(s))[i] = s[n + i]
    OBVIOUS

(* Lemma: the first bytes but one. *)
LEMMA Middle ==
    ASSUME NEW s \in Seq(Nat), NEW n \in 1 .. Len(s)
    PROVE /\ SubSeq(s, 2, n) \in Seq(Nat) /\ Len(SubSeq(s, 2, n)) = n - 1
          /\ \A i \in 1 .. n - 1 : SubSeq(s, 2, n)[i] = s[1 + i]
    OBVIOUS

(* Lemma: a length is a number, and only the empty sequence has length 0. *)
LEMMA Lengths == ASSUME NEW s \in Seq(Nat) PROVE Len(s) \in Nat /\ (Len(s) = 0 <=> s = <<>>)
    OBVIOUS
(* Lemma: a sequence without its first element. *)
LEMMA Rest ==
    ASSUME NEW s \in Seq(Nat), Len(s) > 0
    PROVE /\ Tail(s) \in Seq(Nat) /\ Len(Tail(s)) = Len(s) - 1 /\ Head(s) = s[1] /\ Head(s) \in Nat
          /\ Len(s) # 1 => Len(Tail(s)) > 0
          /\ Len(s) = 1 => Tail(s) = <<>>
          /\ \A i \in 1 .. Len(s) - 1 : Tail(s)[i] = s[i + 1]
<1>1. ASSUME NEW n \in Nat, n > 0, n # 1 PROVE n - 1 > 0
    BY <1>1
<1>2. Len(s) \in Nat /\ Len(Tail(s)) = Len(s) - 1
    OBVIOUS
<1>3. Len(s) # 1 => Len(Tail(s)) > 0
    BY Zenon, <1>1, <1>2
<1>5. Tail(s) \in Seq(Nat)
    OBVIOUS
<1>6. Len(s) = 1 => Len(Tail(s)) = 0
    BY <1>2
<1>4. Len(s) = 1 => Tail(s) = <<>>
    BY Zenon, <1>5, <1>6, Lengths
<1> QED
    BY <1>2, <1>3, <1>4, <1>5

(* Lemma: a sequence with one more element. *)
LEMMA More ==
    ASSUME NEW s \in Seq(Nat), NEW e \in Nat
    PROVE /\ Append(s, e) \in Seq(Nat) /\ Len(Append(s, e)) = Len(s) + 1
          /\ \A i \in 1 .. Len(s) : Append(s, e)[i] = s[i]
          /\ Append(s, e)[Len(s) + 1] = e
    OBVIOUS

(* Lemma: nothing is a run. *)
LEMMA RunEmpty == ASSUME NEW k, NEW p, NEW g PROVE Run(<<>>, k, p, g)
    BY DEF Run

(* Lemma: the parts of a run. *)
LEMMA RunSplit ==
    ASSUME NEW s \in Seq(Nat), NEW k \in Nat, NEW p \in Nat, NEW g \in Nat, Run(s, k, p, g),
           NEW n \in 1 .. Len(s)
    PROVE /\ Run(SubSeq(s, 1, n), k, p, g)
          /\ Run(SubSeq(s, n + 1, Len(s)), k + n, p, g)
          /\ Run(SubSeq(s, 2, n), k + 1, p, g)
<1>1. Len(s) \in Nat /\ n \in Nat /\ n <= Len(s)
    BY Lengths
<1>6. ASSUME NEW l \in Nat, NEW m \in 1 .. l, NEW j \in 1 .. l - m PROVE m + j \in 1 .. l
    BY <1>6
<1>2. ASSUME NEW i \in 1 .. n PROVE SubSeq(s, 1, n)[i] = Nth(k + i, p, g)
    <2>1. i \in 1 .. Len(s) /\ SubSeq(s, 1, n)[i] = s[i]
        BY <1>1, <1>2, Firsts
    <2> QED
        BY <2>1 DEF Run
<1>3. ASSUME NEW i \in 1 .. Len(s) - n PROVE SubSeq(s, n + 1, Len(s))[i] = Nth((k + n) + i, p, g)
    <2>3. n + i \in 1 .. Len(s)
        BY <1>1, <1>6
    <2>4. SubSeq(s, n + 1, Len(s))[i] = s[n + i]
        BY Zenon, Lasts
    <2>1. n + i \in 1 .. Len(s) /\ SubSeq(s, n + 1, Len(s))[i] = s[n + i]
        BY <2>3, <2>4
    <2>2. (k + n) + i = k + (n + i)
        BY <1>1
    <2> QED
        BY Zenon, <2>1, <2>2 DEF Run
<1>4. ASSUME NEW i \in 1 .. n - 1 PROVE SubSeq(s, 2, n)[i] = Nth((k + 1) + i, p, g)
    <2>1. 1 + i \in 1 .. Len(s) /\ SubSeq(s, 2, n)[i] = s[1 + i]
        BY <1>1, <1>4, Middle
    <2>2. (k + 1) + i = k + (1 + i)
        OBVIOUS
    <2> QED
        BY Zenon, <2>1, <2>2 DEF Run
<1>5. /\ Len(SubSeq(s, 1, n)) = n /\ Len(SubSeq(s, n + 1, Len(s))) = Len(s) - n
      /\ Len(SubSeq(s, 2, n)) = n - 1
    BY Firsts, Lasts, Middle
<1> QED
    BY Zenon, <1>2, <1>3, <1>4, <1>5 DEF Run

(* Lemma: a run without its first byte. *)
LEMMA RunTail ==
    ASSUME NEW s \in Seq(Nat), NEW k \in Nat, NEW p \in Nat, NEW g \in Nat, Run(s, k, p, g), Len(s) > 0
    PROVE Head(s) = Nth(k + 1, p, g) /\ Run(Tail(s), k + 1, p, g)
<1>1. Len(s) \in Nat /\ 1 \in 1 .. Len(s) /\ Head(s) = s[1] /\ Len(Tail(s)) = Len(s) - 1
    BY Lengths, Rest
<1>2. ASSUME NEW i \in 1 .. Len(s) - 1 PROVE Tail(s)[i] = Nth((k + 1) + i, p, g)
    <2>1. i + 1 \in 1 .. Len(s) /\ Tail(s)[i] = s[i + 1]
        BY <1>1, <1>2, Rest
    <2>2. (k + 1) + i = k + (i + 1)
        OBVIOUS
    <2> QED
        BY <2>1, <2>2 DEF Run
<1> QED
    BY <1>1, <1>2 DEF Run

(* Lemma: a run with the byte that follows it. *)
LEMMA RunMore ==
    ASSUME NEW s \in Seq(Nat), NEW k \in Nat, NEW p \in Nat, NEW g \in Nat, Run(s, k, p, g),
           NEW e \in Nat, e = Nth(k + (Len(s) + 1), p, g)
    PROVE Run(Append(s, e), k, p, g)
<1>1. Len(s) \in Nat /\ Len(Append(s, e)) = Len(s) + 1 /\ Append(s, e)[Len(s) + 1] = e
    BY Lengths, More
<1>3. ASSUME NEW l \in Nat, NEW j \in 1 .. l + 1, j # l + 1 PROVE j \in 1 .. l
    BY <1>3
<1>2. ASSUME NEW i \in 1 .. Len(s) + 1 PROVE Append(s, e)[i] = Nth(k + i, p, g)
    <2>1. CASE i = Len(s) + 1
        BY <1>1, <2>1
    <2>2. CASE i # Len(s) + 1
        <3>1. i \in 1 .. Len(s)
            BY <1>1, <1>3, <2>2
        <3> QED
            BY <3>1, More DEF Run
    <2> QED
        BY <2>1, <2>2
<1> QED
    BY <1>1, <1>2 DEF Run

(* Lemma: beyond the gap it does not matter where the gap was. *)
LEMMA RunBeyond ==
    ASSUME NEW s \in Seq(Nat), NEW k \in Nat, NEW p \in Nat, NEW g \in Nat, Run(s, k, p, g),
           NEW l \in Nat, NEW q \in Nat, NEW h \in Nat, p <= k, q <= l, k + g = l + h
    PROVE Run(s, l, q, h)
<1>1. ASSUME NEW i \in 1 .. Len(s) PROVE s[i] = Nth(l + i, q, h)
    <2>1. i \in Nat /\ i > 0 /\ s[i] = Nth(k + i, p, g)
        BY <1>1, Lengths DEF Run
    <2>2. Nth(k + i, p, g) = Nth(l + i, q, h)
        BY <2>1 DEF Nth
    <2> QED
        BY <2>1, <2>2
<1> QED
    BY <1>1 DEF Run

(* Lemma: nor does it before the gap. *)
LEMMA RunBefore ==
    ASSUME NEW s \in Seq(Nat), NEW k \in Nat, NEW p \in Nat, NEW g \in Nat, Run(s, k, p, g),
           NEW q \in Nat, NEW h \in Nat, k + Len(s) <= p, k + Len(s) <= q
    PROVE Run(s, k, q, h)
<1>1. ASSUME NEW i \in 1 .. Len(s) PROVE s[i] = Nth(k + i, q, h)
    <2>1. Len(s) \in Nat /\ i \in Nat /\ i <= Len(s) /\ s[i] = Nth(k + i, p, g)
        BY <1>1, Lengths DEF Run
    <2>2. Nth(k + i, p, g) = Nth(k + i, q, h)
        BY <2>1 DEF Nth
    <2> QED
        BY <2>1, <2>2
<1> QED
    BY <1>1 DEF Run

(* Lemma: the sender sends one more byte. *)
LEMMA FlowSend ==
    ASSUME NEW a \in Seq(Nat), NEW b \in Seq(Nat), NEW c \in Seq(Nat),
           NEW s \in Nat, NEW p \in Nat, NEW g \in Nat, p + g <= s, Flowing(a, b, c, s, p, g)
    PROVE Flowing(a, b, Append(c, s + 1), s + 1, p, g)
<1>1. PICK i \in Nat, j \in Nat, k \in Nat : Len(a) = i /\ Len(b) = j /\ Len(c) = k
    BY Lengths
<1>2. i + j + k + g = s /\ Run(c, i + j, p, g)
    BY <1>1 DEF Flowing
<1>3. s + 1 = Nth((i + j) + (k + 1), p, g) /\ i + j \in Nat /\ s + 1 \in Nat
    BY <1>2 DEF Nth
<1>7. s + 1 = Nth((i + j) + (Len(c) + 1), p, g)
    BY <1>1, <1>3
<1>4. Run(Append(c, s + 1), i + j, p, g)
    BY <1>2, <1>3, <1>7, RunMore
<1>5. Len(Append(c, s + 1)) = k + 1
    BY <1>1, More
<1>6. i + j + (k + 1) + g = s + 1
    BY <1>2
<1> QED
    BY Zenon, <1>1, <1>4, <1>5, <1>6 DEF Flowing

(* Lemma: the copier reads. *)
LEMMA FlowRead ==
    ASSUME NEW a \in Seq(Nat), NEW c \in Seq(Nat),
           NEW s \in Nat, NEW p \in Nat, NEW g \in Nat, Flowing(a, <<>>, c, s, p, g), NEW n \in 1 .. Len(c)
    PROVE Flowing(a, SubSeq(c, 1, n), SubSeq(c, n + 1, Len(c)), s, p, g)
<1>1. PICK i \in Nat, k \in Nat : Len(a) = i /\ Len(c) = k
    BY Lengths
<1>2. i + 0 + k + g = s /\ Run(c, i + 0, p, g) /\ i + 0 = i
    BY <1>1 DEF Flowing
<1>3. Run(SubSeq(c, 1, n), i, p, g) /\ Run(SubSeq(c, n + 1, Len(c)), i + n, p, g)
    BY <1>2, RunSplit
<1>4. Len(SubSeq(c, 1, n)) = n /\ Len(SubSeq(c, n + 1, Len(c))) = k - n
    BY <1>1, Firsts, Lasts
<1>5. n \in Nat /\ i + n + (k - n) + g = s
    BY <1>1, <1>2
<1>6. Run(a, 0, p, g)
    BY DEF Flowing
<1> QED
    BY <1>1, <1>3, <1>4, <1>5, <1>6 DEF Flowing

(* Lemma: the copier writes. *)
LEMMA FlowWrite ==
    ASSUME NEW a \in Seq(Nat), NEW b \in Seq(Nat), NEW c \in Seq(Nat),
           NEW s \in Nat, NEW p \in Nat, NEW g \in Nat, Flowing(a, b, c, s, p, g), Len(b) > 0
    PROVE Flowing(Append(a, Head(b)), Tail(b), c, s, p, g)
<1>1. PICK i \in Nat, j \in Nat, k \in Nat : Len(a) = i /\ Len(b) = j /\ Len(c) = k
    BY Lengths
<1>2. i + j + k + g = s /\ Run(a, 0, p, g) /\ Run(b, i, p, g) /\ Run(c, i + j, p, g)
    BY <1>1 DEF Flowing
<1>3. Head(b) = Nth(i + 1, p, g) /\ Run(Tail(b), i + 1, p, g) /\ Head(b) \in Nat
    BY <1>2, RunTail, Rest
<1>4. 0 + (i + 1) = i + 1 /\ (i + 1) + (j - 1) = i + j /\ (i + 1) + (j - 1) + k + g = s
    BY <1>2
<1>5. Run(Append(a, Head(b)), 0, p, g)
    BY Zenon, <1>1, <1>2, <1>3, <1>4, RunMore
<1>6. Len(Append(a, Head(b))) = i + 1 /\ Len(Tail(b)) = j - 1
    BY <1>1, <1>3, More, Rest
<1> QED
    BY Zenon, <1>1, <1>2, <1>3, <1>4, <1>5, <1>6 DEF Flowing

(* Lemma: the front end reads for itself. *)
LEMMA FlowTake ==
    ASSUME NEW a \in Seq(Nat), NEW c \in Seq(Nat), NEW s \in Nat, NEW p \in Nat,
           Len(a) = p, Flowing(a, <<>>, c, s, p, 0), NEW n \in 1 .. Len(c)
    PROVE Flowing(a, <<>>, SubSeq(c, n + 1, Len(c)), s, p, n)
<1>1. PICK k \in Nat : Len(c) = k
    BY Lengths
<1>2. p + 0 + k + 0 = s /\ Run(a, 0, p, 0) /\ Run(c, p, p, 0)
    BY <1>1 DEF Flowing
<1>8. Run(c, p, p, 0)
    BY <1>2
<1>3. Run(SubSeq(c, n + 1, Len(c)), p + n, p, 0) /\ SubSeq(c, n + 1, Len(c)) \in Seq(Nat)
    BY <1>8, RunSplit, Lasts
<1>4. Len(SubSeq(c, n + 1, Len(c))) = k - n
    BY <1>1, Lasts
<1>5. n \in Nat /\ p + 0 + (k - n) + n = s
    BY <1>1, <1>2
<1>9. p + n \in Nat /\ p <= p + n /\ (p + n) + 0 = p + n
    BY <1>5
<1>6. Run(SubSeq(c, n + 1, Len(c)), p, p, n)
    <2> DEFINE t == SubSeq(c, n + 1, Len(c))
    <2>1. t \in Seq(Nat) /\ Run(t, p + n, p, 0)
        BY <1>3
    <2> HIDE DEF t
    <2>2. Run(t, p, p, n)
        BY <1>5, <1>9, <2>1, RunBeyond
    <2> QED
        BY <2>2 DEF t
<1>7. Run(a, 0, p, n)
    BY <1>2, <1>5, RunBefore
<1> QED
    BY <1>2, <1>4, <1>5, <1>6, <1>7, RunEmpty DEF Flowing

(* Lemma: the front end passes on a byte that it has read. *)
LEMMA FlowPass ==
    ASSUME NEW a \in Seq(Nat), NEW c \in Seq(Nat), NEW s \in Nat, NEW p \in Nat, NEW g \in Nat,
           Len(a) = p, g > 0, Flowing(a, <<>>, c, s, p, g)
    PROVE Flowing(Append(a, p + 1), <<>>, c, s, p + 1, g - 1)
<1>1. PICK k \in Nat : Len(c) = k
    BY Lengths
<1>2. p + 0 + k + g = s /\ Run(a, 0, p, g) /\ Run(c, p, p, g)
    BY <1>1 DEF Flowing
<1>3. g - 1 \in Nat /\ p + g = (p + 1) + (g - 1) /\ (p + 1) + 0 + k + (g - 1) = s /\ (p + 1) + 0 = p + 1
    BY <1>2
<1>4. Run(c, p + 1, p + 1, g - 1)
    BY <1>2, <1>3, RunBeyond
<1>5. Run(a, 0, p + 1, g - 1)
    BY <1>2, <1>3, RunBefore
<1>6. p + 1 = Nth(0 + (p + 1), p + 1, g - 1)
    BY DEF Nth
<1>7. Run(Append(a, p + 1), 0, p + 1, g - 1) /\ Len(Append(a, p + 1)) = p + 1
    BY <1>3, <1>5, <1>6, RunMore, More
<1> QED
    BY Zenon, <1>1, <1>3, <1>4, <1>7, RunEmpty DEF Flowing
-----------------------------------------------------------------------------
(* Lemma: what TypeOK says of one direction. *)
LEMMA DirTypes ==
    ASSUME TypeOK, NEW d \in Dir
    PROVE /\ sent[d] \in Nat /\ MaxSent[d] \in Nat /\ sent[d] <= MaxSent[d]
          /\ wire[d] \in Seq(Nat) /\ buf[d] \in Seq(Nat) /\ got[d] \in Seq(Nat)
    BY RelayAssumption DEF TypeOK, RelayTypeOK

(* Lemma: the tables of the two copiers, one entry for each direction. *)
LEMMA Tables ==
    ASSUME TypeOK
    PROVE /\ copier \in [Dir -> {"none", "read", "write", "closeFirst", "closeLast", "done"}]
          /\ wire \in [Dir -> Seq(Nat)] /\ buf \in [Dir -> Seq(Nat)]
          /\ DOMAIN copier = Dir /\ DOMAIN wire = Dir /\ DOMAIN buf = Dir
    BY DEF TypeOK, RelayTypeOK

(* Lemma: the bytes and their numbers keep their types. *)
LEMMA DataTypes ==
    ASSUME TypeOK, Control, [Next]_vars
    PROVE /\ sent' \in [Dir -> Nat] /\ \A d \in Dir : sent'[d] <= MaxSent[d]
          /\ wire' \in [Dir -> Seq(Nat)] /\ buf' \in [Dir -> Seq(Nat)] /\ got' \in [Dir -> Seq(Nat)]
          /\ rd' \in Seq(Nat) /\ taken' \in Nat /\ passed' \in Nat
<1> DEFINE Goal ==
        /\ sent' \in [Dir -> Nat] /\ \A d \in Dir : sent'[d] <= MaxSent[d]
        /\ wire' \in [Dir -> Seq(Nat)] /\ buf' \in [Dir -> Seq(Nat)] /\ got' \in [Dir -> Seq(Nat)]
        /\ rd' \in Seq(Nat) /\ taken' \in Nat /\ passed' \in Nat
<1>1. ASSUME NEW d \in Dir, Send(d), UNCHANGED httpVars PROVE Goal
    <2>1. Append(wire[d], sent[d] + 1) \in Seq(Nat)
        BY SMTT(30), More, DirTypes
    <2>2. sent[d] + 1 <= MaxSent[d]
        <3>1. sent[d] < MaxSent[d]
            BY <1>1 DEF Send
        <3> QED
            BY <3>1, DirTypes
    <2>3. sent' \in [Dir -> Nat] /\ \A e \in Dir : sent'[e] = IF e = d THEN sent[d] + 1 ELSE sent[e]
        BY <1>1 DEF Send, TypeOK, RelayTypeOK
    <2>5. \A e \in Dir : sent'[e] <= MaxSent[e]
        BY Zenon, <2>2, <2>3, DirTypes
    <2>4. wire' \in [Dir -> Seq(Nat)]
        BY <1>1, <2>1 DEF Send, TypeOK, RelayTypeOK
    <2> QED
        BY SMTT(30), <1>1, <2>3, <2>4, <2>5 DEF Send, TypeOK, RelayTypeOK, httpVars
<1>2. ASSUME NEW d \in Dir, Read(d), UNCHANGED httpVars PROVE Goal
    <2>1. PICK n \in 1 .. Len(wire[d]) :
              /\ buf' = [buf EXCEPT ![d] = SubSeq(wire[d], 1, n)]
              /\ wire' = [wire EXCEPT ![d] = SubSeq(wire[d], n + 1, Len(wire[d]))]
        BY Zenon, <1>2 DEF Read
    <2>2. SubSeq(wire[d], 1, n) \in Seq(Nat) /\ SubSeq(wire[d], n + 1, Len(wire[d])) \in Seq(Nat)
        BY Firsts, Lasts, DirTypes
    <2> QED
        BY <1>2, <2>1, <2>2 DEF Read, TypeOK, RelayTypeOK, httpVars
<1>3. ASSUME NEW d \in Dir, Write(d), UNCHANGED httpVars PROVE Goal
    <2>1. Len(buf[d]) > 0 /\ buf[d] \in Seq(Nat) /\ got[d] \in Seq(Nat)
        BY <1>3 DEF Write, Control, Copier, TypeOK, RelayTypeOK
    <2>2. Tail(buf[d]) \in Seq(Nat) /\ Append(got[d], Head(buf[d])) \in Seq(Nat)
        BY <2>1, Rest, More
    <2> QED
        BY <1>3, <2>2 DEF Write, TypeOK, RelayTypeOK, httpVars
<1>4. ASSUME ReadRequest PROVE Goal
    <2>1. PICK n \in 1 .. Len(wire["up"]) :
              /\ rd' = SubSeq(wire["up"], 2, n)
              /\ wire' = [wire EXCEPT !["up"] = SubSeq(@, n + 1, Len(@))]
              /\ taken' = n
        BY Zenon, <1>4 DEF ReadRequest
    <2>2. wire["up"] \in Seq(Nat)
        BY DEF TypeOK, RelayTypeOK, Dir
    <2>3. rd' \in Seq(Nat) /\ SubSeq(wire["up"], n + 1, Len(wire["up"])) \in Seq(Nat) /\ n \in Nat
        BY <2>1, <2>2, Middle, Lasts
    <2>7. wire \in [Dir -> Seq(Nat)]
        BY DEF TypeOK, RelayTypeOK
    <2>8. wire' = [wire EXCEPT !["up"] = SubSeq(wire["up"], n + 1, Len(wire["up"]))]
        BY <2>1
    <2>4. wire' \in [Dir -> Seq(Nat)]
        BY Zenon, <2>3, <2>7, <2>8
    <2>5. taken' \in Nat
        BY <2>1, <2>3 DEF TypeOK
    <2>6. UNCHANGED <<sent, buf, got, passed>>
        BY <1>4 DEF ReadRequest
    <2>9. /\ sent \in [Dir -> Nat] /\ \A d \in Dir : sent[d] <= MaxSent[d]
          /\ buf \in [Dir -> Seq(Nat)] /\ got \in [Dir -> Seq(Nat)] /\ passed \in Nat
        BY DEF TypeOK, RelayTypeOK
    <2> QED
        BY Zenon, <2>3, <2>4, <2>5, <2>6, <2>9
<1>5. ASSUME NEW e \in Nat, Pass(e), rd' \in Seq(Nat) PROVE Goal
    <2>1. Append(got["up"], e) \in Seq(Nat)
        BY More DEF TypeOK, RelayTypeOK, Dir
    <2> QED
        BY <1>5, <2>1 DEF Pass, TypeOK, RelayTypeOK, Dir
<1>6. ASSUME PassHead PROVE Goal
    BY <1>5, <1>6 DEF PassHead, TypeOK
<1>7. ASSUME PassBody PROVE Goal
    <2>1. Len(rd) > 0 /\ rd \in Seq(Nat)
        BY <1>7, Lengths DEF PassBody, TypeOK
    <2>2. Head(rd) \in Nat /\ rd' \in Seq(Nat)
        BY <1>7, <2>1, Rest DEF PassBody
    <2> QED
        BY <1>5, <1>7, <2>2 DEF PassBody
<1>8. ASSUME FillBody PROVE Goal
    <2>1. PICK n \in 1 .. Len(wire["up"]) :
              /\ rd' = SubSeq(wire["up"], 1, n)
              /\ wire' = [wire EXCEPT !["up"] = SubSeq(@, n + 1, Len(@))]
              /\ taken' = taken + n
        BY Zenon, <1>8 DEF FillBody
    <2>2. wire["up"] \in Seq(Nat)
        BY DEF TypeOK, RelayTypeOK, Dir
    <2>3. rd' \in Seq(Nat) /\ SubSeq(wire["up"], n + 1, Len(wire["up"])) \in Seq(Nat) /\ n \in Nat
        BY <2>1, <2>2, Firsts, Lasts
    <2>7. wire \in [Dir -> Seq(Nat)]
        BY DEF TypeOK, RelayTypeOK
    <2>8. wire' = [wire EXCEPT !["up"] = SubSeq(wire["up"], n + 1, Len(wire["up"]))]
        BY <2>1
    <2>4. wire' \in [Dir -> Seq(Nat)]
        BY Zenon, <2>3, <2>7, <2>8
    <2>5. taken' \in Nat
        BY <2>1, <2>3 DEF TypeOK
    <2>6. UNCHANGED <<sent, buf, got, passed>>
        BY <1>8 DEF FillBody
    <2>9. /\ sent \in [Dir -> Nat] /\ \A d \in Dir : sent[d] <= MaxSent[d]
          /\ buf \in [Dir -> Seq(Nat)] /\ got \in [Dir -> Seq(Nat)] /\ passed \in Nat
        BY DEF TypeOK, RelayTypeOK
    <2> QED
        BY Zenon, <2>3, <2>4, <2>5, <2>6, <2>9
<1>9. ASSUME UNCHANGED data PROVE Goal
    BY <1>9 DEF data, TypeOK, RelayTypeOK
<1> QED
    BY <1>1, <1>2, <1>3, <1>4, <1>6, <1>7, <1>8, <1>9, DataSteps

(* Lemma: so do the state of the goroutines and what is open. *)
LEMMA ControlTypes ==
    ASSUME TypeOK, Control, [Next]_vars
    PROVE /\ kind' \in Kind /\ open' \subseteq Object
          /\ copier' \in [Dir -> {"none", "read", "write", "closeFirst", "closeLast", "done"}]
          /\ front' \in {"accept", "resolve", "openStdout", "dial", "readRequest", "refuse",
                          "answer", "forward", "spawned", "returned"}
          /\ target' \in IP \cup {NoIP} /\ exchange' \in Exchange \cup {NoExchange}
          /\ answer' \in {0, 200, 401, 406, 407, 411}
<1> DEFINE Goal ==
        /\ kind' \in Kind /\ open' \subseteq Object
        /\ copier' \in [Dir -> {"none", "read", "write", "closeFirst", "closeLast", "done"}]
        /\ front' \in {"accept", "resolve", "openStdout", "dial", "readRequest", "refuse",
                        "answer", "forward", "spawned", "returned"}
        /\ target' \in IP \cup {NoIP} /\ exchange' \in Exchange \cup {NoExchange}
        /\ answer' \in {0, 200, 401, 406, 407, 411}
<1>1. ASSUME NEW d \in Dir, EndStep(d) PROVE Goal
    BY <1>1 DEF EndStep, Ends, Send, End, Flow, httpVars, TypeOK, RelayTypeOK
<1>2. ASSUME NEW d \in Dir, CopyStep(d) PROVE Goal
    <2>1. UNCHANGED <<kind, front, target, exchange, answer>> /\ open' \subseteq open
        BY Zenon, <1>2
           DEF CopyStep, Copy, Read, ReadEnds, Write, WriteFails, CloseFirst, CloseLast, httpVars
    <2>2. \E c \in {"read", "write", "closeFirst", "closeLast", "done"} : copier' = [copier EXCEPT ![d] = c]
        BY <1>2 DEF CopyStep, Copy, Read, ReadEnds, Write, WriteFails, CloseFirst, CloseLast
    <2> QED
        BY SMTT(30), <2>1, <2>2 DEF TypeOK, RelayTypeOK
<1>3. ASSUME TunnelStep PROVE Goal
    <2>1. /\ UNCHANGED <<kind, exchange, answer>> /\ open' \subseteq open \cup Object
          /\ front' \in {"resolve", "openStdout", "dial", "spawned", "returned"}
        BY <1>3 DEF TunnelStep, TunnelFront, Accept, Resolve, ResolveFails, OpenStdout, Dial, DialFails,
                    httpVars, Object
    <2>2. copier' = copier \/ SpawnCopiers
        BY <1>3 DEF TunnelStep, TunnelFront, Accept, Resolve, ResolveFails, OpenStdout, Dial, DialFails,
                    relayVars
    <2>3. target' \in IP \/ target' = target
        BY <1>3 DEF TunnelStep, TunnelFront, Accept, Resolve, ResolveFails, OpenStdout, Dial, DialFails
    <2> QED
        BY <2>1, <2>2, <2>3 DEF TypeOK, RelayTypeOK, SpawnCopiers
<1>4. ASSUME HTTPStep PROVE Goal
    <2>1. Authenticate \in {0, 401, 406, 407, 411}
        BY DEF Authenticate
    <2>2. /\ UNCHANGED <<kind, target, exchange>> /\ open' \subseteq open \cup Object
          /\ copier' = copier \/ SpawnCopiers
        BY Zenon, <1>4 DEF HTTPStep, HTTPFront, HTTPAccept, ReadRequest, ReadRequestFails, Refuse,
                HTTPDial, HTTPDialFails, AnswerConnect, AnswerConnectFails, PassHead, PassBody, Pass,
                FillBody, Forwarded, ForwardFails, relayVars, Object
    <2>3. /\ front' \in {front, "readRequest", "dial", "refuse", "answer", "forward", "spawned", "returned"}
          /\ answer' \in {answer, 200, Authenticate}
        BY <1>4 DEF HTTPStep, HTTPFront, HTTPAccept, ReadRequest, ReadRequestFails, Refuse,
                HTTPDial, HTTPDialFails, AnswerConnect, AnswerConnectFails, PassHead, PassBody, Pass,
                FillBody, Forwarded, ForwardFails, httpVars
    <2> QED
        BY <2>1, <2>2, <2>3 DEF TypeOK, RelayTypeOK, SpawnCopiers
<1>5. ASSUME FinalizeStep PROVE Goal
    BY <1>5 DEF FinalizeStep, Finalize, httpVars, relayVars, TypeOK, RelayTypeOK
<1>6. ASSUME UNCHANGED vars PROVE Goal
    BY <1>6 DEF vars, httpVars, relayVars, TypeOK, RelayTypeOK
<1> QED
    BY <1>1, <1>2, <1>3, <1>4, <1>5, <1>6 DEF Next

(* Lemma: and the state of the ends. *)
LEMMA EndTypes ==
    ASSUME TypeOK, [Next]_vars
    PROVE ended' \in [Dir -> {"no", "fin", "rst"}] /\ full' \in [Dir -> BOOLEAN] /\ eager' \in BOOLEAN
<1>1. ASSUME NEW d \in Dir, EndStep(d)
      PROVE ended' \in [Dir -> {"no", "fin", "rst"}] /\ full' \in [Dir -> BOOLEAN] /\ eager' \in BOOLEAN
    <2>1. eager' \in BOOLEAN
        BY <1>1 DEF EndStep, TypeOK
    <2>2. ended' = ended \/ \E how \in {"fin", "rst"} : ended' = [ended EXCEPT ![d] = how]
        BY <1>1 DEF EndStep, Ends, Send, End, Flow
    <2>5. ended \in [Dir -> {"no", "fin", "rst"}] /\ full \in [Dir -> BOOLEAN]
        BY DEF TypeOK, RelayTypeOK
    <2>4. ended' \in [Dir -> {"no", "fin", "rst"}]
        BY <2>2, <2>5
    <2>6. full' = full \/ full' = [full EXCEPT ![d] = ~ full[d]]
        BY <1>1 DEF EndStep, Ends, Send, End, Flow
    <2>3. full' \in [Dir -> BOOLEAN]
        BY Zenon, <2>5, <2>6
    <2> QED
        BY <2>1, <2>3, <2>4
<1>2. ASSUME UNCHANGED <<ended, full, eager>>
      PROVE ended' \in [Dir -> {"no", "fin", "rst"}] /\ full' \in [Dir -> BOOLEAN] /\ eager' \in BOOLEAN
    BY <1>2 DEF TypeOK, RelayTypeOK
<1>3. ASSUME NEW d \in Dir, CopyStep(d) PROVE UNCHANGED <<ended, full, eager>>
    BY Zenon, <1>3 DEF CopyStep, Copy, Read, ReadEnds, Write, WriteFails, CloseFirst, CloseLast
<1>4. ASSUME TunnelStep PROVE UNCHANGED <<ended, full, eager>>
    BY SMTT(30), <1>4
       DEF TunnelStep, TunnelFront, Accept, Resolve, ResolveFails, OpenStdout, Dial, DialFails,
                relayVars
<1>5. ASSUME HTTPStep PROVE UNCHANGED <<ended, full, eager>>
    BY <1>5 DEF HTTPStep, HTTPFront, HTTPAccept, ReadRequest, ReadRequestFails, Refuse,
                HTTPDial, HTTPDialFails, AnswerConnect, AnswerConnectFails,
                PassHead, PassBody, Pass, FillBody, Forwarded, ForwardFails, relayVars
<1>6. ASSUME FinalizeStep \/ UNCHANGED vars PROVE UNCHANGED <<ended, full, eager>>
    BY SMTT(30), <1>6 DEF FinalizeStep, Finalize, relayVars, vars
<1> QED
    BY <1>1, <1>2, <1>3, <1>4, <1>5, <1>6 DEF Next

(* Lemma: a step keeps every type. *)
LEMMA TypeStep == ASSUME TypeOK, Control, [Next]_vars PROVE TypeOK'
<1>1. RelayTypeOK'
    BY DataTypes, ControlTypes, EndTypes DEF RelayTypeOK
<1>2. rd' \in Seq(Nat) /\ taken' \in Nat /\ passed' \in Nat
    BY DataTypes
<1>3. /\ front' \in {"accept", "resolve", "openStdout", "dial", "readRequest", "refuse",
                     "answer", "forward", "spawned", "returned"}
      /\ target' \in IP \cup {NoIP} /\ exchange' \in Exchange \cup {NoExchange}
      /\ answer' \in {0, 200, 401, 406, 407, 411}
    BY ControlTypes
<1>4. eager' \in BOOLEAN
    BY Zenon, EndTypes
<1> QED
    BY <1>1, <1>2, <1>3, <1>4 DEF TypeOK
-----------------------------------------------------------------------------
(* Lemma: a step keeps the front ends and the open connections in order. *)
LEMMA FrontsStep == ASSUME TypeOK, Control, [Next]_vars PROVE Fronts'
<1>0. Fronts
    BY DEF Control
<1>1. ASSUME NEW d \in Dir, EndStep(d) PROVE Fronts'
    BY Zenon, <1>0, <1>1 DEF EndStep, Ends, Send, End, Flow, Fronts
<1>2. ASSUME NEW d \in Dir, CopyStep(d) PROVE Fronts'
    <2>1. UNCHANGED <<kind, front, exchange>> /\ open' \subseteq open
        BY <1>2 DEF CopyStep, Copy, Read, ReadEnds, Write, WriteFails, CloseFirst, CloseLast
    <2> QED
        BY SMTT(30), <1>0, <2>1 DEF Fronts
<1>3. ASSUME TunnelStep PROVE Fronts'
    BY Zenon, <1>0, <1>3
       DEF TunnelStep, TunnelFront, Accept, Resolve, ResolveFails, OpenStdout, Dial, DialFails,
                Fronts, TunnelKind
<1>4. ASSUME HTTPStep PROVE Fronts'
    BY Zenon, <1>0, <1>4 DEF HTTPStep, HTTPFront, HTTPAccept, ReadRequest, ReadRequestFails, Refuse,
                HTTPDial, HTTPDialFails, AnswerConnect, AnswerConnectFails, PassHead, PassBody, Pass,
                FillBody, Forwarded, ForwardFails, Fronts
<1>5. ASSUME FinalizeStep \/ UNCHANGED vars PROVE Fronts'
    BY Zenon, <1>0, <1>5 DEF FinalizeStep, Finalize, vars, Fronts
<1> QED
    BY <1>1, <1>2, <1>3, <1>4, <1>5 DEF Next

(* Lemma: a step keeps both copiers in order. *)
LEMMA CopierStep == ASSUME TypeOK, Control, [Next]_vars, NEW e \in Dir PROVE Copier(e)'
<1>0. Copier(e)
    BY SMTT(30) DEF Control
<1>1. ASSUME NEW d \in Dir, EndStep(d) PROVE Copier(e)'
    BY <1>0, <1>1 DEF EndStep, Ends, Send, End, Flow, Copier, From, To, ClosedFirst
<1>2. ASSUME NEW d \in Dir, CopyStep(d) PROVE Copier(e)'
    <2>1. UNCHANGED <<kind, front>> /\ open' \subseteq open /\ front = "spawned"
        BY <1>2 DEF CopyStep, Copy, Read, ReadEnds, Write, WriteFails, CloseFirst, CloseLast,
                    Control, Copier
    <2>2. CASE d # e
        <3>1. copier'[e] = copier[e] /\ buf'[e] = buf[e]
            <4>1. \/ copier' = copier \/ \E c : copier' = [copier EXCEPT ![d] = c]
                BY Zenon, <1>2 DEF CopyStep, Copy, Read, ReadEnds, Write, WriteFails, CloseFirst, CloseLast
            <4>2. \/ buf' = buf \/ \E b : buf' = [buf EXCEPT ![d] = b]
                BY Zenon, <1>2 DEF CopyStep, Copy, Read, ReadEnds, Write, WriteFails, CloseFirst, CloseLast
            <4> QED
                BY Zenon, <2>2, <4>1, <4>2, Tables
        <3> QED
            BY Zenon, <1>0, <2>1, <3>1 DEF Copier, From, To, ClosedFirst
    <2>3. CASE d = e
        <3>1. copier \in [Dir -> {"none", "read", "write", "closeFirst", "closeLast", "done"}]
            BY DEF TypeOK, RelayTypeOK
        <3>2. CASE Read(e)
            <4>1. PICK n \in 1 .. Len(wire[e]) : buf' = [buf EXCEPT ![e] = SubSeq(wire[e], 1, n)]
                BY Zenon, <3>2 DEF Read
            <4>2. Len(buf'[e]) > 0
                <5>1. buf'[e] = SubSeq(wire[e], 1, n)
                    BY Zenon, <4>1, Tables
                <5>2. wire[e] \in Seq(Nat)
                    BY Zenon, DirTypes
                <5> QED
                    BY <5>1, <5>2, Firsts
            <4> QED
                BY <2>1, <3>1, <3>2, <4>2 DEF Read, Copier
        <3>3. CASE Write(e)
            <4>1. Len(buf[e]) > 0 /\ buf[e] \in Seq(Nat)
                BY <1>0, <3>3, DirTypes DEF Write, Copier
            <4>2. buf'[e] = Tail(buf[e])
                BY <3>3 DEF Write, TypeOK, RelayTypeOK
            <4>3. Len(buf[e]) # 1 => Len(buf'[e]) > 0
                BY <4>1, <4>2, Rest
            <4>4. copier'[e] = IF Len(buf[e]) = 1 THEN "read" ELSE "write"
                BY Zenon, <3>1, <3>3 DEF Write
            <4>5. Len(buf[e]) = 1 => buf'[e] = <<>>
                BY Zenon, <4>1, <4>2, Rest
            <4> QED
                BY Zenon, <2>1, <4>3, <4>4, <4>5 DEF Copier
        <3>4. CASE ReadEnds(e) \/ WriteFails(e)
            BY Zenon, <2>1, <3>1, <3>4 DEF ReadEnds, WriteFails, Copier
        <3>5. CASE CloseFirst(e)
            BY <2>1, <3>1, <3>5 DEF CloseFirst, Copier, ClosedFirst, To
        <3>6. CASE CloseLast(e)
            BY <1>0, <2>1, <3>1, <3>6 DEF CloseLast, Copier, ClosedFirst, ClosedLast, From, To
        <3> QED
            BY <1>2, <2>3, <3>2, <3>3, <3>4, <3>5, <3>6 DEF CopyStep, Copy
    <2> QED
        BY SMTT(30), <2>2, <2>3
<1>3. ASSUME UNCHANGED <<copier, buf>>, front # "spawned", front' # "spawned" PROVE Copier(e)'
    BY <1>0, <1>3 DEF Copier
<1>4. ASSUME SpawnCopiers, front # "spawned", front' = "spawned", UNCHANGED buf PROVE Copier(e)'
    BY <1>0, <1>4 DEF SpawnCopiers, Copier
<1>5. CASE TunnelStep
    BY Zenon, <1>3, <1>4, <1>5
       DEF TunnelStep, TunnelFront, Accept, Resolve, ResolveFails, OpenStdout, Dial,
                DialFails, relayVars
<1>6. CASE HTTPStep
    BY <1>3, <1>4, <1>6 DEF HTTPStep, HTTPFront, HTTPAccept, ReadRequest, ReadRequestFails, Refuse,
                HTTPDial, HTTPDialFails, AnswerConnect, AnswerConnectFails, PassHead, PassBody, Pass,
                FillBody, Forwarded, ForwardFails, relayVars
<1>7. CASE FinalizeStep
    BY <1>3, <1>7 DEF FinalizeStep, Finalize, relayVars
<1>8. CASE UNCHANGED vars
    BY Zenon, <1>0, <1>8 DEF vars, relayVars, Copier, From, To, ClosedFirst
<1> QED
    BY <1>1, <1>2, <1>5, <1>6, <1>7, <1>8 DEF Next
=============================================================================
