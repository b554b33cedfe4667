--------------------------- MODULE ProxiesProofs ----------------------------
(* The safety of a proxied connection, for any number of bytes, any         *)
(* configuration of the HTTP proxy and any request.                         *)
EXTENDS ProxiesLemmas

(* Lemma: what is a sequence of bytes. *)
LEMMA Seqs ==
    ASSUME TypeOK
    PROVE /\ rd \in Seq(Nat) /\ wire["up"] \in Seq(Nat) /\ buf["up"] \in Seq(Nat)
          /\ got["up"] \in Seq(Nat) /\ got["down"] \in Seq(Nat)
    BY DirTypes DEF TypeOK, Dir

(* Lemma: the numbers and lengths that the steps count with. *)
LEMMA Counts ==
    ASSUME TypeOK
    PROVE /\ taken \in Nat /\ passed \in Nat /\ \E n \in Nat : sent["up"] = n
          /\ \E n \in Nat : Len(rd) = n
          /\ \E n \in Nat : Len(wire["up"]) = n
          /\ \E n \in Nat : Len(buf["up"]) = n
          /\ \E n \in Nat : Len(got["up"]) = n
<1>1. sent["up"] \in Nat
    BY DirTypes DEF Dir
<1> QED
    BY <1>1, Seqs, Lengths DEF TypeOK

(* Lemma: a request has a length. *)
LEMMA NeedNat == ASSUME Control, kind = "http" PROVE Need \in Nat /\ Need > 0
    BY ExchangeAssumption DEF Need, request, Control, Fronts

(* Lemma: what the streams count with. *)
LEMMA StreamCounts ==
    ASSUME TypeOK, Reader, NEW d \in Dir
    PROVE /\ P(d) \in Nat /\ G(d) \in Nat
          /\ \E n \in Nat : sent[d] = n
          /\ \E n \in Nat : Len(got[d]) = n
          /\ \E n \in Nat : Len(buf[d]) = n
          /\ \E n \in Nat : Len(wire[d]) = n
<1>1. P(d) \in Nat /\ G(d) \in Nat
    BY DEF P, G, TypeOK, Reader
<1> QED
    BY <1>1, DirTypes, Lengths

(* Lemma: a step keeps the account of what the reader holds. *)
LEMMA ReaderStep == ASSUME TypeOK, Control, Reader, Stage, Early, Bytes, [Next]_vars PROVE Reader'
<1>0. /\ taken \in Nat /\ passed \in Nat /\ \E n \in Nat : sent["up"] = n
      /\ \E n \in Nat : Len(wire["up"]) = n
      /\ \E n \in Nat : Len(rd) = n
    BY Counts
<1>1. ASSUME NEW d \in Dir, Send(d), UNCHANGED httpVars PROVE Reader'
    <2>1. sent'["up"] = sent["up"] \/ sent'["up"] = sent["up"] + 1
        BY <1>0, <1>1 DEF Send, TypeOK, RelayTypeOK, Dir
    <2> QED
        BY <1>0, <1>1, <2>1 DEF httpVars, Reader, Consumed
<1>2. ASSUME NEW d \in Dir, Read(d) \/ Write(d), UNCHANGED httpVars PROVE Reader'
    BY <1>2 DEF Read, Write, httpVars, Reader, Consumed
<1>3. ASSUME ReadRequest PROVE Reader'
    <2>1. PICK n \in 1 .. Len(wire["up"]) : rd' = SubSeq(wire["up"], 2, n) /\ taken' = n
        BY <1>3 DEF ReadRequest
    <2>2. /\ taken = 0 /\ passed = 0 /\ Len(got["up"]) = 0 /\ buf["up"] = <<>>
          /\ UNCHANGED <<passed, sent>>
        BY <1>3 DEF ReadRequest, Stage, Early, Control, Copier, Dir
    <2>3. Len(wire["up"]) = sent["up"] /\ Run(wire["up"], 0, 0, 0)
        <3>1. P("up") = 0 /\ G("up") = 0 /\ Len(got["up"]) + Len(buf["up"]) = 0
            BY <2>2 DEF P, G
        <3>2. Stream("up")
            BY DEF Bytes, Dir
        <3> QED
            BY <1>0, <2>2, <3>1, <3>2 DEF Stream, Flowing
    <2>4. Len(rd') = n - 1 /\ n \in Nat /\ n > 0 /\ n <= sent["up"]
        BY <1>0, <2>1, <2>3, Middle, Seqs
    <2>5. Run(rd', 0 + 1, 0, 0)
        BY <2>1, <2>3, RunSplit, Seqs
    <2> QED
        BY <2>1, <2>2, <2>4, <2>5 DEF Reader, Consumed
<1>4. ASSUME PassHead PROVE Reader'
    <2>1. taken > 0 /\ passed = 0 /\ passed' = 1 /\ UNCHANGED <<taken, sent, rd>>
        BY <1>4, <1>0 DEF PassHead, Pass, Stage, Control, Fronts
    <2> QED
        BY <1>0, <2>1 DEF Reader, Consumed
<1>5. ASSUME PassBody PROVE Reader'
    <2>1. Len(rd) > 0 /\ rd' = Tail(rd) /\ passed > 0 /\ passed' = passed + 1 /\ UNCHANGED <<taken, sent>>
        BY <1>5, Seqs, Lengths DEF PassBody, Pass
    <2>2. Len(rd') = Len(rd) - 1
        BY <2>1, Seqs, Rest
    <2>3. Len(rd) + passed = taken /\ Run(rd, passed, 0, 0)
        BY <1>0, <2>1 DEF Reader, Consumed
    <2>4. Run(rd', passed + 1, 0, 0)
        BY <1>0, <2>1, <2>3, Seqs, RunTail
    <2>5. Consumed' = passed + 1
        BY <1>0, <2>1 DEF Consumed
    <2>8. Len(rd) > 0 /\ Len(rd) + passed = taken
        BY <2>1, <2>3
    <2>6. passed + 1 <= taken /\ Len(rd') + (passed + 1) = taken
        BY <1>0, <2>2, <2>8
    <2>7. taken <= sent["up"] /\ taken # 0
        BY <1>0, <2>6 DEF Reader
    <2> QED
        BY <2>1, <2>4, <2>5, <2>6, <2>7 DEF Reader
<1>6. ASSUME FillBody PROVE Reader'
    <2>1. PICK n \in 1 .. Len(wire["up"]) : rd' = SubSeq(wire["up"], 1, n) /\ taken' = taken + n
        BY <1>6 DEF FillBody
    <2>2. /\ Len(got["up"]) = passed /\ buf["up"] = <<>> /\ passed > 0 /\ Len(rd) = 0
          /\ UNCHANGED <<passed, sent>>
        BY Zenon, <1>6, Seqs, Lengths DEF FillBody, Early, Control, Copier, Dir
    <2>3. passed = taken
        BY <1>0, <2>2 DEF Reader, Consumed
    <2>4. Len(wire["up"]) + taken = sent["up"] /\ Run(wire["up"], passed, passed, 0)
        <3>1. P("up") = passed /\ G("up") = 0 /\ Len(got["up"]) + Len(buf["up"]) = passed
            BY <1>0, <2>2, <2>3 DEF P, G
        <3>2. Stream("up")
            BY DEF Bytes, Dir
        <3>3. Len(wire["up"]) + taken = sent["up"]
            <4>1. Len(got["up"]) + Len(buf["up"]) + Len(wire["up"]) + G("up") = sent["up"]
                BY Zenon, <3>2 DEF Stream, Flowing
            <4>2. /\ taken \in Nat /\ \E k \in Nat : Len(got["up"]) = k
                  /\ \E k \in Nat : Len(buf["up"]) = k
                BY Counts
            <4>3. G("up") = 0 /\ Len(got["up"]) + Len(buf["up"]) = taken
                BY Zenon, <2>3, <3>1
            <4> QED
                BY <1>0, <4>1, <4>2, <4>3
        <3> QED
            BY Zenon, <3>1, <3>2, <3>3 DEF Stream, Flowing
    <2>5. Len(rd') = n /\ n \in Nat /\ n <= Len(wire["up"])
        BY SMTT(30), <1>0, <2>1, Firsts, Seqs
    <2>6. Run(rd', passed, passed, 0) /\ rd' \in Seq(Nat)
        BY Zenon, <1>0, <2>1, <2>4, Seqs, Firsts, RunSplit
    <2>7. Run(rd', passed, 0, 0)
        BY <1>0, <2>6, RunBeyond
    <2> QED
        BY <1>0, <2>1, <2>2, <2>3, <2>4, <2>5, <2>7 DEF Reader, Consumed
<1>7. ASSUME UNCHANGED data PROVE Reader'
    BY <1>7 DEF data, Reader, Consumed
<1> QED
    BY <1>1, <1>2, <1>3, <1>4, <1>5, <1>6, <1>7, DataSteps

(* Lemma: a step keeps the bytes of both directions in order. *)
LEMMA StreamStep ==
    ASSUME TypeOK, Control, Reader, Stage, Early, Bytes, [Next]_vars, NEW e \in Dir
    PROVE Stream(e)'
<1>0. Stream(e) /\ P(e) \in Nat /\ G(e) \in Nat /\ sent[e] \in Nat
    BY StreamCounts, DirTypes DEF Bytes
<1>1. got[e] \in Seq(Nat) /\ buf[e] \in Seq(Nat) /\ wire[e] \in Seq(Nat)
    BY DirTypes
<1>2. ASSUME UNCHANGED httpVars PROVE P(e)' = P(e) /\ G(e)' = G(e)
    BY <1>2 DEF httpVars, P, G
<1>3. ASSUME got'[e] = got[e], buf'[e] = buf[e], wire'[e] = wire[e], sent'[e] = sent[e],
             P(e)' = P(e), G(e)' = G(e)
      PROVE Stream(e)'
    BY <1>0, <1>3 DEF Stream
<1>4. ASSUME NEW d \in Dir, Send(d), UNCHANGED httpVars PROVE Stream(e)'
    <2>1. CASE d = e
        <3>1. wire'[e] = Append(wire[e], sent[e] + 1) /\ sent'[e] = sent[e] + 1 /\ UNCHANGED <<got, buf>>
            BY <1>4, <2>1 DEF Send, TypeOK, RelayTypeOK
        <3>2. P(e) + G(e) <= sent[e]
            <4>1. CASE e = "up"
                <5>1. P(e) + G(e) = taken
                    BY <4>1, Counts DEF P, G
                <5> QED
                    BY <4>1, <5>1 DEF Reader
            <4>2. CASE e # "up"
                <5>1. P(e) = 0 /\ G(e) = 0
                    BY <4>2 DEF P, G
                <5> QED
                    BY <1>0, <5>1
            <4> QED
                BY <4>1, <4>2
        <3>3. Flowing(got[e], buf[e], Append(wire[e], sent[e] + 1), sent[e] + 1, P(e), G(e))
            BY <1>0, <1>1, <3>2, FlowSend DEF Stream
        <3> QED
            BY <1>2, <1>4, <3>1, <3>3 DEF Stream
    <2>2. CASE d # e
        BY <1>2, <1>3, <1>4, <2>2 DEF Send, TypeOK, RelayTypeOK
    <2> QED
        BY <2>1, <2>2
<1>5. ASSUME NEW d \in Dir, Read(d), UNCHANGED httpVars PROVE Stream(e)'
    <2>1. PICK n \in 1 .. Len(wire[d]) :
              /\ buf' = [buf EXCEPT ![d] = SubSeq(wire[d], 1, n)]
              /\ wire' = [wire EXCEPT ![d] = SubSeq(wire[d], n + 1, Len(wire[d]))]
        BY Zenon, <1>5 DEF Read
    <2>2. CASE d = e
        <3>4. DOMAIN buf = Dir /\ DOMAIN wire = Dir /\ UNCHANGED <<got, sent>>
            BY <1>5 DEF Read, TypeOK, RelayTypeOK
        <3>1. /\ buf'[e] = SubSeq(wire[e], 1, n) /\ wire'[e] = SubSeq(wire[e], n + 1, Len(wire[e]))
              /\ UNCHANGED <<got, sent>>
            BY <2>1, <2>2, <3>4
        <3>2. buf[e] = <<>>
            BY <1>5, <2>2 DEF Read, Control, Copier
        <3>3. Flowing(got[e], SubSeq(wire[e], 1, n), SubSeq(wire[e], n + 1, Len(wire[e])), sent[e], P(e), G(e))
            BY ZenonT(40), <1>0, <1>1, <2>2, <3>2, FlowRead DEF Stream
        <3> QED
            BY <1>2, <1>5, <3>1, <3>3 DEF Stream
    <2>3. CASE d # e
        BY <1>2, <1>3, <1>5, <2>1, <2>3 DEF Read, TypeOK, RelayTypeOK
    <2> QED
        BY <2>2, <2>3
<1>6. ASSUME NEW d \in Dir, Write(d), UNCHANGED httpVars PROVE Stream(e)'
    <2>1. CASE d = e
        <3>1. /\ got'[e] = Append(got[e], Head(buf[e])) /\ buf'[e] = Tail(buf[e])
              /\ UNCHANGED <<wire, sent>>
            BY <1>6, <2>1 DEF Write, TypeOK, RelayTypeOK
        <3>2. Len(buf[e]) > 0
            BY ZenonT(40), <1>6, <2>1 DEF Write, Control, Copier
        <3>3. Flowing(Append(got[e], Head(buf[e])), Tail(buf[e]), wire[e], sent[e], P(e), G(e))
            BY ZenonT(40), <1>0, <1>1, <3>2, FlowWrite DEF Stream
        <3> QED
            BY ZenonT(40), <1>2, <1>6, <3>1, <3>3 DEF Stream
    <2>2. CASE d # e
        BY <1>2, <1>3, <1>6, <2>2 DEF Write, TypeOK, RelayTypeOK
    <2> QED
        BY <2>1, <2>2
<1>7. ASSUME ReadRequest \/ PassHead \/ PassBody \/ FillBody, e = "down" PROVE Stream(e)'
    <2>1. P(e)' = P(e) /\ G(e)' = G(e)
        BY <1>7 DEF P, G
    <2>4. \E g : got' = [got EXCEPT !["up"] = g]
        <3>1. got = [got EXCEPT !["up"] = got["up"]]
            BY DEF TypeOK, RelayTypeOK
        <3> QED
            BY <1>7, <3>1 DEF ReadRequest, PassHead, PassBody, Pass, FillBody
    <2>5. \E w : wire' = [wire EXCEPT !["up"] = w]
        <3>1. wire = [wire EXCEPT !["up"] = wire["up"]]
            BY DEF TypeOK, RelayTypeOK
        <3> QED
            BY ZenonT(40), <1>7, <3>1 DEF ReadRequest, PassHead, PassBody, Pass, FillBody
    <2>2. got'[e] = got[e] /\ wire'[e] = wire[e]
        BY <1>7, <2>4, <2>5 DEF TypeOK, RelayTypeOK
    <2>3. UNCHANGED <<buf, sent>>
        BY <1>7 DEF ReadRequest, PassHead, PassBody, Pass, FillBody
    <2> QED
        BY Zenon, <1>3, <2>1, <2>2, <2>3
<1>8. ASSUME ReadRequest \/ FillBody, e = "up" PROVE Stream(e)'
    <2>1. PICK n \in 1 .. Len(wire["up"]) :
              /\ wire' = [wire EXCEPT !["up"] = SubSeq(@, n + 1, Len(@))]
              /\ taken' = taken + n
        <3>1. ReadRequest => taken = 0
            BY DEF ReadRequest, Stage
        <3> QED
            BY <1>8, <3>1 DEF ReadRequest, FillBody
    <2>2. wire'[e] = SubSeq(wire[e], n + 1, Len(wire[e])) /\ UNCHANGED <<got, buf, sent, passed>>
        BY <1>8, <2>1 DEF ReadRequest, FillBody, TypeOK, RelayTypeOK
    <2>3. buf[e] = <<>> /\ Len(got[e]) = passed
        BY Zenon, <1>8 DEF ReadRequest, FillBody, Control, Copier, Early
    <2>4. passed = taken
        <3>1. ReadRequest => taken = 0 /\ passed = 0
            BY DEF ReadRequest, Stage
        <3>2. FillBody => passed > 0 /\ Len(rd) = 0
            BY Seqs, Lengths DEF FillBody
        <3> QED
            BY <1>8, <3>1, <3>2, Counts DEF Reader, Consumed
    <2>5. P(e) = passed /\ G(e) = 0 /\ P(e)' = passed /\ G(e)' = n
        BY <1>8, <2>1, <2>2, <2>4, Counts DEF P, G
    <2>6. Flowing(got[e], <<>>, wire[e], sent[e], passed, 0)
        BY <1>0, <2>3, <2>5 DEF Stream
    <2>7. Flowing(got[e], <<>>, SubSeq(wire[e], n + 1, Len(wire[e])), sent[e], passed, n)
        BY Zenon, <1>0, <1>1, <1>8, <2>3, <2>6, FlowTake, Counts
    <2> QED
        BY ZenonT(40), <2>2, <2>3, <2>5, <2>7 DEF Stream
<1>9. ASSUME PassHead \/ PassBody, e = "up" PROVE Stream(e)'
    <2>1. buf[e] = <<>> /\ Len(got[e]) = passed /\ UNCHANGED <<buf, wire, sent, taken>> /\ passed' = passed + 1
        BY <1>9 DEF PassHead, PassBody, Pass, Control, Copier, Early
    <2>2. passed < taken /\ (PassBody => Head(rd) = passed + 1)
        <3>1. CASE PassHead
            BY <1>9, <3>1, Counts DEF PassHead, PassBody, Pass, Stage, Control, Fronts
        <3>2. CASE PassBody
            <4>1. Len(rd) > 0 /\ passed > 0
                BY <3>2, Seqs, Lengths DEF PassBody
            <4>2. Len(rd) + passed = taken /\ Run(rd, passed, 0, 0)
                BY <4>1, Counts DEF Reader, Consumed
            <4>3. Head(rd) = Nth(passed + 1, 0, 0)
                BY <4>1, <4>2, Seqs, Counts, RunTail
            <4>4. Len(rd) > 0 /\ Len(rd) + passed = taken
                BY <4>1, <4>2
            <4>5. passed < taken
                BY <4>4, Counts
            <4> QED
                BY <4>3, <4>5, Counts DEF Nth
        <3> QED
            BY <1>9, <3>1, <3>2
    <2>3. got'[e] = Append(got[e], passed + 1)
        <3>1. \E byte : byte = passed + 1 /\ got' = [got EXCEPT !["up"] = Append(@, byte)]
            <4>1. CASE PassHead
                <5>1. 1 = passed + 1 /\ got' = [got EXCEPT !["up"] = Append(@, 1)]
                    BY <4>1 DEF PassHead, Pass
                <5> QED
                    BY Zenon, <5>1
            <4>2. CASE PassBody
                BY ZenonT(40), <2>2, <4>2 DEF PassBody, Pass
            <4> QED
                BY <1>9, <4>1, <4>2
        <3> QED
            BY <1>9, <3>1 DEF TypeOK, RelayTypeOK
    <2>4. /\ P(e) = passed /\ G(e) = taken - passed /\ taken - passed \in Nat /\ taken - passed > 0
          /\ P(e)' = passed + 1 /\ G(e)' = (taken - passed) - 1
        BY SMTT(30), <1>9, <2>1, <2>2, Counts DEF P, G
    <2>5. Flowing(got[e], <<>>, wire[e], sent[e], passed, taken - passed)
        BY <1>0, <2>1, <2>4 DEF Stream
    <2>6. Flowing(Append(got[e], passed + 1), <<>>, wire[e], sent[e], passed + 1, (taken - passed) - 1)
        BY Zenon, <1>0, <1>1, <2>1, <2>4, <2>5, FlowPass, Counts
    <2> QED
        BY SMTT(30), <2>1, <2>3, <2>4, <2>6 DEF Stream
<1>10. ASSUME UNCHANGED data PROVE Stream(e)'
    BY <1>3, <1>10 DEF data, P, G
<1> QED
    BY <1>4, <1>5, <1>6, <1>7, <1>8, <1>9, <1>10, DataSteps DEF Dir
-----------------------------------------------------------------------------
(* Lemma: what the ends, the copiers and the collector leave alone. *)
LEMMA Others ==
    ASSUME Control,
           (\E d \in Dir : EndStep(d) \/ CopyStep(d)) \/ TunnelStep \/ FinalizeStep \/ UNCHANGED vars
    PROVE /\ UNCHANGED <<kind, exchange, rd, taken, passed, answer>>
          /\ UNCHANGED front \/ (kind # "http" /\ front' \in {"resolve", "openStdout", "dial", "spawned", "returned"})
<1>1. ASSUME NEW d \in Dir, EndStep(d)
      PROVE UNCHANGED <<kind, exchange, rd, taken, passed, answer>> /\ UNCHANGED front
    BY ZenonT(40), <1>1 DEF EndStep, Ends, Send, End, Flow, httpVars
<1>2. ASSUME NEW d \in Dir, CopyStep(d)
      PROVE UNCHANGED <<kind, exchange, rd, taken, passed, answer>> /\ UNCHANGED front
    BY Zenon, <1>2
       DEF CopyStep, Copy, Read, ReadEnds, Write, WriteFails, CloseFirst, CloseLast, httpVars
<1>3. ASSUME TunnelStep
      PROVE /\ UNCHANGED <<kind, exchange, rd, taken, passed, answer>>
            /\ kind # "http" /\ front' \in {"resolve", "openStdout", "dial", "spawned", "returned"}
    <2>1. UNCHANGED <<kind, exchange, rd, taken, passed, answer>>
        BY <1>3 DEF TunnelStep, TunnelFront, Accept, Resolve, ResolveFails, OpenStdout, Dial, DialFails, httpVars
    <2>2. kind \in {"tcpClient", "tcpServer", "stdio"}
        BY ZenonT(40), <1>3
           DEF TunnelStep, TunnelFront, Accept, Resolve, ResolveFails, OpenStdout, Dial, DialFails,
                    TunnelKind, Control, Fronts
    <2>3. front' \in {"resolve", "openStdout", "dial", "spawned", "returned"}
        BY <1>3 DEF TunnelStep, TunnelFront, Accept, Resolve, ResolveFails, OpenStdout, Dial, DialFails
    <2> QED
        BY <2>1, <2>2, <2>3
<1>4. ASSUME FinalizeStep \/ UNCHANGED vars
      PROVE UNCHANGED <<kind, exchange, rd, taken, passed, answer>> /\ UNCHANGED front
    BY <1>4 DEF FinalizeStep, Finalize, vars, httpVars
<1>5. CASE \E d \in Dir : EndStep(d) \/ CopyStep(d)
    BY <1>1, <1>2, <1>5
<1>6. CASE TunnelStep
    BY <1>3, <1>6
<1>7. CASE FinalizeStep \/ UNCHANGED vars
    BY <1>4, <1>7
<1> QED
    BY <1>5, <1>6, <1>7

(* Lemma: a step keeps the account of how far the request is. *)
LEMMA StageStep == ASSUME TypeOK, Control, Reader, Stage, [Next]_vars PROVE Stage'
<1> USE DEF Need, request
<1>0. taken \in Nat /\ passed \in Nat /\ passed <= taken
    BY Counts DEF Reader
<1>1. ASSUME (\E d \in Dir : EndStep(d) \/ CopyStep(d)) \/ TunnelStep \/ FinalizeStep \/ UNCHANGED vars
      PROVE Stage'
    <2>1. /\ UNCHANGED <<kind, exchange, taken, passed>>
          /\ UNCHANGED front \/ (kind # "http" /\ front' \in {"resolve", "openStdout", "dial", "spawned", "returned"})
        BY <1>1, Others
    <2>2. CASE UNCHANGED front
        BY <2>1, <2>2 DEF Stage
    <2>3. CASE kind # "http" /\ front' \in {"resolve", "openStdout", "dial", "spawned", "returned"}
        BY <1>0, <2>1, <2>3 DEF Stage
    <2> QED
        BY <2>1, <2>2, <2>3
<1>2. ASSUME HTTPStep PROVE Stage'
    <2>1. exchange' = exchange
        BY <1>2 DEF HTTPStep
    <2>2. CASE HTTPAccept \/ ReadRequestFails \/ HTTPDialFails
        BY <2>1, <2>2 DEF HTTPAccept, ReadRequestFails, HTTPDialFails, httpVars, Stage, Control, Fronts
    <2>3. CASE ReadRequest
        <3>1. taken' > 0 /\ passed' = 0
            BY <2>3, Counts DEF ReadRequest, Stage
        <3> QED
            BY ZenonT(40), <2>1, <2>3, <3>1 DEF ReadRequest, Stage, Control, Fronts
    <2>4. CASE Refuse
        BY <2>1, <2>4 DEF Refuse, Stage, Control, Fronts
    <2>5. CASE HTTPDial
        <3>1. Need \in Nat
            BY <2>5, NeedNat DEF HTTPDial
        <3>2. passed = 0 /\ taken > 0 /\ kind = "http"
            BY <2>5 DEF HTTPDial, Stage
        <3> QED
            BY <2>1, <2>5, <3>1, <3>2 DEF HTTPDial, httpVars, Stage
    <2>6. CASE AnswerConnect \/ AnswerConnectFails
        BY ZenonT(40), <1>0, <2>1, <2>6
           DEF AnswerConnect, AnswerConnectFails, httpVars, Stage, Control, Fronts
    <2>7. CASE PassHead \/ PassBody
        <3>1. Need \in Nat /\ Need > 0 /\ kind = "http"
            BY <2>7, NeedNat DEF PassHead, PassBody, Pass, Control, Fronts
        <3>2. passed' = passed + 1 /\ passed < Need /\ UNCHANGED <<kind, front, taken>> /\ front = "forward"
            BY <1>0, <2>7, <3>1 DEF PassHead, PassBody, Pass
        <3>3. passed' <= Need
            BY <1>0, <3>1, <3>2
        <3> QED
            BY ZenonT(40), <2>1, <3>2, <3>3 DEF Stage
    <2>8. CASE FillBody
        <3>1. taken' > 0
            BY <1>0, <2>8, Counts DEF FillBody
        <3> QED
            BY <2>1, <2>8, <3>1 DEF FillBody, Stage, Control, Fronts
    <2>9. CASE Forwarded \/ ForwardFails
        BY <2>1, <2>9 DEF Forwarded, ForwardFails, httpVars, Stage, Control, Fronts
    <2> QED
        BY <1>2, <2>2, <2>3, <2>4, <2>5, <2>6, <2>7, <2>8, <2>9 DEF HTTPStep, HTTPFront
<1> QED
    BY <1>1, <1>2 DEF Next

(* Lemma: a step keeps admitted requests admitted, and admits no other. *)
LEMMA AdmittedStep == ASSUME Control, Admitted, [Next]_vars PROVE Admitted'
<1>0. ASSUME exchange' = exchange PROVE Authenticate' = Authenticate
    BY <1>0 DEF Authenticate, AuthRequired, Valid, config, request
<1>1. ASSUME (\E d \in Dir : EndStep(d) \/ CopyStep(d)) \/ TunnelStep \/ FinalizeStep \/ UNCHANGED vars
      PROVE Admitted'
    <2>1. /\ UNCHANGED <<kind, exchange>>
          /\ UNCHANGED front \/ kind # "http"
        BY <1>1, Others
    <2> QED
        BY <1>0, <2>1 DEF Admitted
<1>2. ASSUME HTTPStep PROVE Admitted'
    <2>1. exchange' = exchange
        BY SMTT(30), <1>2 DEF HTTPStep
    <2>2. /\ kind' = kind
          /\ front' \in {"dial", "answer", "forward", "spawned"} =>
                Authenticate = 0 \/ front \in {"dial", "answer", "forward"}
        BY <1>2 DEF HTTPStep, HTTPFront, HTTPAccept, ReadRequest, ReadRequestFails, Refuse,
                HTTPDial, HTTPDialFails, AnswerConnect, AnswerConnectFails, PassHead, PassBody, Pass,
                FillBody, Forwarded, ForwardFails
    <2> QED
        BY <1>0, <2>1, <2>2 DEF Admitted
<1> QED
    BY <1>1, <1>2 DEF Next

(* Lemma: a step keeps the account of what was sent and written early. *)
LEMMA EarlyStep == ASSUME TypeOK, Control, Reader, Stage, Early, [Next]_vars PROVE Early'
<1> USE DEF Need, request
<1>0. taken \in Nat /\ passed \in Nat /\ taken <= sent["up"] /\ \E n \in Nat : sent["up"] = n
    BY Counts DEF Reader
<1>1. ASSUME NEW d \in Dir, EndStep(d) PROVE Early'
    <2>1. UNCHANGED <<kind, front, exchange, got, taken, passed, answer>>
        BY <1>1 DEF EndStep, Ends, Send, End, Flow, httpVars
    <2>2. eager => eager'
        BY Zenon, <1>1 DEF EndStep
    <2>3. ASSUME kind = "http", front \notin {"spawned", "returned"}, ~ eager PROVE eager' \/ sent'["up"] <= Need
        <3>1. answer = 0 /\ Len(got["down"]) = 0 /\ sent["up"] <= Need
            BY <2>3 DEF Early
        <3>2. got["down"] = <<>>
            BY <3>1, Seqs, Lengths
        <3>3. Need \in Nat
            BY <2>3, NeedNat
        <3>4. CASE sent'["up"] = sent["up"]
            BY <3>1, <3>4
        <3>5. CASE sent'["up"] # sent["up"] /\ sent["up"] >= Need
            BY Zenon, <1>1, <2>3, <3>1, <3>2, <3>5 DEF EndStep, TooEarly
        <3>6. CASE sent'["up"] # sent["up"] /\ ~ (sent["up"] >= Need)
            <4>1. sent'["up"] = sent["up"] + 1
                <5>1. sent' = sent \/ sent' = [sent EXCEPT ![d] = @ + 1]
                    BY Zenon, <1>1 DEF EndStep, Ends, Send, End, Flow
                <5>2. DOMAIN sent = Dir
                    BY DEF TypeOK, RelayTypeOK
                <5> QED
                    BY <3>6, <5>1, <5>2 DEF Dir
            <4> QED
                BY <1>0, <3>3, <3>6, <4>1
        <3> QED
            BY <3>4, <3>5, <3>6
    <2>4. front # "spawned" => Len(got["up"]) = passed /\ Len(got["down"]) = 0
        BY DEF Early
    <2>5. kind = "http" /\ front = "spawned" => eager \/ taken <= Need
        BY DEF Early
    <2>6. kind = "http" /\ front \notin {"spawned", "returned"} => answer = 0
        BY DEF Early
    <2> QED
        BY ZenonT(40), <2>1, <2>2, <2>3, <2>4, <2>5, <2>6 DEF Early
<1>2. ASSUME NEW d \in Dir, CopyStep(d) PROVE Early'
    <2>1. UNCHANGED <<kind, front, exchange, taken, eager>> /\ front = "spawned"
        BY ZenonT(40), <1>2
           DEF CopyStep, Copy, Read, ReadEnds, Write, WriteFails, CloseFirst, CloseLast, httpVars,
                    Control, Copier
    <2> QED
        BY <2>1 DEF Early
<1>3. ASSUME TunnelStep PROVE Early'
    <2>1. kind # "http" /\ kind' = kind /\ passed' = passed
        <3>1. kind \in {"tcpClient", "tcpServer", "stdio"}
            BY <1>3 DEF TunnelStep, TunnelFront, Accept, Resolve, ResolveFails, OpenStdout, Dial, DialFails,
                        TunnelKind, Control, Fronts
        <3> QED
            BY <1>3, <3>1, Others
    <2>2. front # "spawned" /\ UNCHANGED got
        BY <1>3 DEF TunnelStep, TunnelFront, Accept, Resolve, ResolveFails, OpenStdout, Dial, DialFails, relayVars
    <2> QED
        BY <2>1, <2>2 DEF Early
<1>4. ASSUME HTTPStep PROVE Early'
    <2>1. UNCHANGED <<exchange, eager>>
        BY <1>4 DEF HTTPStep
    <2>2. CASE HTTPAccept \/ ReadRequestFails \/ HTTPDial \/ HTTPDialFails
        BY ZenonT(40), <2>1, <2>2
           DEF HTTPAccept, ReadRequestFails, HTTPDial, HTTPDialFails, httpVars, relayVars, Early,
                Control, Fronts
    <2>3. CASE ReadRequest \/ FillBody
        BY ZenonT(40), <2>1, <2>3 DEF ReadRequest, FillBody, Early
    <2>4. CASE Refuse
        BY ZenonT(40), <2>1, <2>4 DEF Refuse, relayVars, Early
    <2>5. CASE AnswerConnect \/ Forwarded
        <3>1. eager \/ sent["up"] <= Need
            BY <2>5 DEF AnswerConnect, Forwarded, Early, Control, Fronts
        <3>2. Need \in Nat
            BY <2>5, NeedNat DEF AnswerConnect, Forwarded, Control, Fronts
        <3>3. eager \/ taken <= Need
            BY <1>0, <3>1, <3>2
        <3> QED
            BY <2>1, <2>5, <3>3 DEF AnswerConnect, Forwarded, httpVars, Early
    <2>6. CASE AnswerConnectFails \/ ForwardFails
        BY <2>1, <2>6 DEF AnswerConnectFails, ForwardFails, httpVars, relayVars, Early
    <2>7. CASE PassHead \/ PassBody
        <3>1. \E byte \in Nat : got' = [got EXCEPT !["up"] = Append(@, byte)]
            <4>1. PassBody => Head(rd) \in Nat
                BY Seqs, Lengths, Rest DEF PassBody
            <4> QED
                BY <2>7, <4>1 DEF PassHead, PassBody, Pass
        <3>2. /\ UNCHANGED <<kind, front, sent, answer>> /\ passed' = passed + 1
              /\ front = "forward" /\ kind = "http"
            BY <2>7 DEF PassHead, PassBody, Pass, Control, Fronts
        <3>3. got'["down"] = got["down"] /\ \E byte \in Nat : got'["up"] = Append(got["up"], byte)
            BY <3>1 DEF TypeOK, RelayTypeOK, Dir
        <3>4. Len(got'["up"]) = Len(got["up"]) + 1
            BY <3>3, Seqs, More
        <3>5. Len(got["up"]) = passed
            BY <3>2 DEF Early
        <3> QED
            BY SMTT(30), <2>1, <3>2, <3>3, <3>4, <3>5 DEF Early
    <2> QED
        BY <1>4, <2>2, <2>3, <2>4, <2>5, <2>6, <2>7 DEF HTTPStep, HTTPFront
<1>5. ASSUME FinalizeStep \/ UNCHANGED vars PROVE Early'
    BY Zenon, <1>5 DEF FinalizeStep, Finalize, vars, relayVars, httpVars, Early
<1> QED
    BY <1>1, <1>2, <1>3, <1>4, <1>5 DEF Next
-----------------------------------------------------------------------------
(* The invariant holds initially. *)
LEMMA InitInv == Init => Inv
<1> SUFFICES ASSUME Init PROVE Inv
    OBVIOUS
<1>1. /\ sent["up"] = 0 /\ \A d \in Dir : sent[d] = 0
      /\ \A d \in Dir : wire[d] = <<>> /\ buf[d] = <<>> /\ got[d] = <<>> /\ copier[d] = "none"
    BY DEF Init, RelayInit, Dir
<1>2. kind \in Kind /\ front \in {"accept", "resolve"} /\ open \subseteq {"stdin"}
    BY DEF Init, Kind, TunnelKind
<1>3. TypeOK
    <2>1. full \in [Dir -> BOOLEAN] /\ eager \in BOOLEAN
        BY Zenon DEF Init, RelayInit
    <2>2. sent \in [Dir -> Nat] /\ \A d \in Dir : sent[d] <= MaxSent[d]
        BY RelayAssumption DEF Init, RelayInit
    <2>3. wire \in [Dir -> Seq(Nat)] /\ buf \in [Dir -> Seq(Nat)] /\ got \in [Dir -> Seq(Nat)] /\ rd \in Seq(Nat)
        BY DEF Init, RelayInit
    <2>4. /\ copier \in [Dir -> {"none", "read", "write", "closeFirst", "closeLast", "done"}]
          /\ ended \in [Dir -> {"no", "fin", "rst"}]
        BY DEF Init, RelayInit
    <2>5. /\ target \in IP \cup {NoIP} /\ exchange \in Exchange \cup {NoExchange}
          /\ taken \in Nat /\ passed \in Nat /\ answer \in {0, 200, 401, 406, 407, 411}
        BY DEF Init
    <2> QED
        BY <1>2, <2>1, <2>2, <2>3, <2>4, <2>5 DEF TypeOK, RelayTypeOK, Object
<1>4. Control
    BY <1>1 DEF Init, TunnelKind, Control, Fronts, Copier
<1>5. Bytes
    <2>1. ASSUME NEW d \in Dir PROVE Stream(d)
        <3>1. P(d) = 0 /\ G(d) = 0
            BY DEF Init, P, G
        <3>2. Flowing(<<>>, <<>>, <<>>, 0, 0, 0)
            BY RunEmpty DEF Flowing
        <3> QED
            BY <1>1, <3>1, <3>2 DEF Stream
    <2> QED
        BY <2>1 DEF Bytes
<1>6. Reader
    <2>1. taken = 0 /\ passed = 0 /\ rd = <<>> /\ sent["up"] = 0
        BY <1>1 DEF Init
    <2> QED
        BY <2>1, RunEmpty DEF Reader
<1>8. Stage /\ Admitted
    <2>1. taken = 0 /\ passed = 0 /\ (kind = "http" => front = "accept")
        BY DEF Init
    <2> QED
        BY <1>2, <2>1 DEF Stage, Admitted
<1>7. Early
    <2>1. kind = "http" => Need \in Nat /\ sent["up"] <= Need
        BY <1>1, <1>4, NeedNat
    <2> QED
        BY <1>1, <1>2, <2>1 DEF Init, Early, Dir
<1> QED
    BY <1>3, <1>4, <1>5, <1>6, <1>7, <1>8 DEF Inv

(* Every step keeps it. *)
LEMMA NextInv == Inv /\ [Next]_vars => Inv'
    BY TypeStep, FrontsStep, CopierStep, StreamStep, ReaderStep, StageStep, EarlyStep, AdmittedStep
    DEF Inv, Control, Bytes

(* The invariant of a proxied connection. *)
THEOREM Invariance == Spec => []Inv
    BY InitInv, NextInv, PTL DEF Spec

(* The state of a connection is well-formed. *)
THEOREM TypeCorrect == Spec => []TypeOK
<1>1. Inv => TypeOK
    BY DEF Inv
<1> QED
    BY <1>1, Invariance, PTL

(* Whatever the sizes of reads and writes and whenever connections close,   *)
(* io.Copy gives each receiver the bytes that were sent, in order.          *)
THEOREM StreamsIntact == Spec => []StreamIntact
<1>1. ASSUME Inv, NEW d \in Dir
      PROVE Len(got[d]) <= sent[d] - Kept(d) /\ \A i \in 1 .. Len(got[d]) : got[d][i] = ExpectedByte(d, i)
    <2>1. P(d) \in Nat /\ G(d) \in Nat /\ G(d) = Kept(d) /\ P(d) = IF d = "up" THEN passed ELSE 0
        BY <1>1, StreamCounts DEF Inv, P, G, Kept
    <2>2. Len(got[d]) + Len(buf[d]) + Len(wire[d]) + G(d) = sent[d] /\ Run(got[d], 0, P(d), G(d))
        BY Zenon, <1>1 DEF Inv, Bytes, Stream, Flowing
    <2>3. /\ \E n \in Nat : sent[d] = n
          /\ \E n \in Nat : Len(got[d]) = n
          /\ \E n \in Nat : Len(buf[d]) = n
          /\ \E n \in Nat : Len(wire[d]) = n
        BY <1>1, StreamCounts DEF Inv
    <2>4. Len(got[d]) + Len(buf[d]) + Len(wire[d]) + G(d) = sent[d]
        BY ZenonT(40), <2>2
    <2>5. Len(got[d]) <= sent[d] - Kept(d)
        BY <2>1, <2>3, <2>4
    <2>6. ASSUME NEW i \in 1 .. Len(got[d]) PROVE got[d][i] = ExpectedByte(d, i)
        <3>3. got[d][i] = Nth(0 + i, P(d), G(d))
            BY Zenon, <2>2 DEF Run
        <3>4. i \in Nat /\ i > 0
            BY <2>3
        <3>1. got[d][i] = Nth(0 + i, P(d), G(d)) /\ i \in Nat /\ i > 0
            BY Zenon, <3>3, <3>4
        <3>2. Nth(0 + i, P(d), G(d)) = ExpectedByte(d, i)
            <4>1. CASE d = "up"
                BY <2>1, <3>1, <4>1 DEF Nth, ExpectedByte
            <4>2. CASE d # "up"
                BY <2>1, <3>1, <4>2 DEF Nth, ExpectedByte, Kept
            <4> QED
                BY <4>1, <4>2
        <3> QED
            BY <3>1, <3>2
    <2> QED
        BY <2>5, <2>6
<1>2. Inv => StreamIntact
    BY <1>1 DEF StreamIntact
<1> QED
    BY <1>2, Invariance, PTL

(* The HTTP proxy loses bytes only of a client that runs ahead of it. *)
THEOREM OnlyEagerClientsLose == Spec => []LostOnlyIfEager
<1>1. Inv => LostOnlyIfEager
    BY DEF Inv, Stage, Early, LostOnlyIfEager
<1> QED
    BY <1>1, Invariance, PTL

(* No error path and no end of the copying leaves a connection behind. *)
THEOREM ConnectionsClosed == Spec => []NothingForgotten
<1>1. ASSUME Inv PROVE NothingForgotten
    <2>1. front = "returned" => "sconn" \notin open
        BY <1>1 DEF Inv, Control, Fronts
    <2>2. ASSUME copier = [d \in Dir |-> "done"] PROVE open = {}
        <3>1. \A d \in Dir : From(d) \notin open /\ To(d) \notin open
            <4>1. \A d \in Dir : copier[d] = "done"
                BY <2>2
            <4>2. \A d \in Dir : Copier(d)
                BY <1>1 DEF Inv, Control
            <4> QED
                BY <4>1, <4>2 DEF Copier
        <3>2. IF kind = "stdio" THEN open \cap {"stdin", "stdout", "sconn"} = {} ELSE open \cap {"conn", "sconn"} = {}
            <4>1. From("up") \notin open /\ To("up") \notin open /\ To("down") \notin open
                BY <3>1 DEF Dir
            <4>2. To("up") = "sconn" /\ From("up") = IF kind = "stdio" THEN "stdin" ELSE "conn"
                BY DEF From, To
            <4>3. kind = "stdio" => To("down") = "stdout"
                BY DEF To
            <4> QED
                BY <4>1, <4>2, <4>3
        <3> QED
            BY <1>1, <3>2 DEF Inv, Control, Fronts
    <2> QED
        BY <2>1, <2>2 DEF NothingForgotten
<1> QED
    BY <1>1, Invariance, PTL

(* The HTTP proxy reaches out for nobody without the credentials. *)
THEOREM OnlyAdmittedServed == Spec => []ServedAsConfigured
<1>1. ASSUME Inv PROVE ServedAsConfigured
    <2>1. ASSUME kind = "http", "sconn" \in open PROVE Authenticate = 0 /\ exchange \in Exchange
        BY <1>1, <2>1 DEF Inv, Control, Fronts, Admitted
    <2>2. ASSUME Authenticate = 0, exchange \in Exchange
          PROVE \/ config.username = "" /\ config.password = ""
                \/ /\ request.auth = "pair"
                   /\ request.username = config.username /\ request.password = config.password
        <3>1. request.auth \in {"none", "noBase64", "noColon", "pair"}
            BY <2>2, ExchangeAssumption DEF request
        <3>2. CASE ~ AuthRequired
            BY <3>2 DEF AuthRequired
        <3>3. CASE AuthRequired
            <4>1. request.auth = "pair"
                BY <2>2, <3>1, <3>3 DEF Authenticate
            <4>2. Valid(request.username, request.password)
                BY <2>2, <3>3, <4>1 DEF Authenticate
            <4> QED
                BY <4>1, <4>2 DEF Valid
        <3> QED
            BY <3>2, <3>3
    <2> QED
        BY <2>1, <2>2 DEF ServedAsConfigured
<1> QED
    BY <1>1, Invariance, PTL
-----------------------------------------------------------------------------
(* Lemma: sequences with the same bytes are the same. *)
LEMMA Same ==
    ASSUME NEW s \in Seq(Nat), NEW t \in Seq(Nat), Len(s) = Len(t), \A i \in 1 .. Len(s) : s[i] = t[i]
    PROVE s = t
    BY SMTT(30)

(* Lemma: one sequence after another. *)
LEMMA Joined ==
    ASSUME NEW s \in Seq(Nat), NEW t \in Seq(Nat)
    PROVE /\ s \o t \in Seq(Nat) /\ Len(s \o t) = Len(s) + Len(t)
          /\ \A i \in 1 .. Len(s) : (s \o t)[i] = s[i]
          /\ \A i \in 1 .. Len(t) : (s \o t)[Len(s) + i] = t[i]
          /\ <<>> \o t = t
    OBVIOUS

(* Lemma: nothing and a sequence. *)
LEMMA JoinedEmpty == ASSUME NEW t \in Seq(Nat) PROVE <<>> \o t = t
    OBVIOUS

(* Lemma: one more byte at the end of the second. *)
LEMMA JoinedMore ==
    ASSUME NEW s \in Seq(Nat), NEW t \in Seq(Nat), NEW e \in Nat
    PROVE s \o Append(t, e) = Append(s \o t, e)
    OBVIOUS

(* Lemma: the first byte of the first. *)
LEMMA JoinedTail ==
    ASSUME NEW s \in Seq(Nat), NEW t \in Seq(Nat), Len(s) > 0
    PROVE Head(s \o t) = Head(s) /\ Tail(s \o t) = Tail(s) \o t /\ s \o t # <<>>
<1>1. PICK m \in Nat, n \in Nat : Len(s) = m /\ Len(t) = n
    BY Lengths
<1>2. s \o t \in Seq(Nat) /\ Len(s \o t) = m + n
    BY Zenon, <1>1, Joined
<1>3. Head(s \o t) = Head(s) /\ s \o t # <<>>
    BY <1>1, <1>2
<1>4. /\ Tail(s) \in Seq(Nat) /\ Len(Tail(s)) = m - 1 /\ m - 1 \in Nat
      /\ \A i \in 1 .. m - 1 : Tail(s)[i] = s[i + 1]
    BY <1>1
<1>5. /\ Tail(s \o t) \in Seq(Nat) /\ Len(Tail(s \o t)) = (m + n) - 1
      /\ \A i \in 1 .. (m + n) - 1 : Tail(s \o t)[i] = (s \o t)[i + 1]
    BY <1>1, <1>2
<1>6. /\ Tail(s) \o t \in Seq(Nat) /\ Len(Tail(s) \o t) = (m - 1) + n
      /\ \A i \in 1 .. m - 1 : (Tail(s) \o t)[i] = Tail(s)[i]
      /\ \A i \in 1 .. n : (Tail(s) \o t)[(m - 1) + i] = t[i]
    <2> DEFINE u == Tail(s)
    <2>1. u \in Seq(Nat) /\ Len(u) = m - 1
        BY <1>4
    <2> HIDE DEF u
    <2>2. /\ u \o t \in Seq(Nat) /\ Len(u \o t) = (m - 1) + n
          /\ \A i \in 1 .. m - 1 : (u \o t)[i] = u[i]
          /\ \A i \in 1 .. n : (u \o t)[(m - 1) + i] = t[i]
        <3>1. /\ u \o t \in Seq(Nat) /\ Len(u \o t) = Len(u) + Len(t)
              /\ \A i \in 1 .. Len(u) : (u \o t)[i] = u[i]
              /\ \A i \in 1 .. Len(t) : (u \o t)[Len(u) + i] = t[i]
            BY Zenon, <2>1, Joined
        <3> QED
            BY Zenon, <1>1, <2>1, <3>1
    <2> QED
        BY Zenon, <2>2 DEF u
<1>7. ASSUME NEW i \in 1 .. (m + n) - 1 PROVE Tail(s \o t)[i] = (Tail(s) \o t)[i]
    <2>1. CASE i \in 1 .. m - 1
        <3>1. i + 1 \in 1 .. m
            BY <2>1
        <3> QED
            BY <1>1, <1>4, <1>5, <1>6, <2>1, <3>1, Joined
    <2>2. CASE i \notin 1 .. m - 1
        <3>1. PICK j \in 1 .. n : i + 1 = m + j /\ i = (m - 1) + j
            <4>1. (i + 1) - m \in 1 .. n
                BY <2>2
            <4> QED
                BY <4>1
        <3>2. (s \o t)[m + j] = t[j]
            BY <1>1, Joined
        <3> QED
            BY Zenon, <1>5, <1>6, <3>1, <3>2
    <2> QED
        BY Zenon, <2>1, <2>2
<1>8. (m - 1) + n = (m + n) - 1
    BY <1>1
<1>9. Tail(s \o t) = Tail(s) \o t
    BY Zenon, <1>5, <1>6, <1>7, <1>8, Same
<1> QED
    BY Zenon, <1>3, <1>9

(* Lemma: the second alone. *)
LEMMA JoinedDrop ==
    ASSUME NEW s \in Seq(Nat), NEW t \in Seq(Nat)
    PROVE SubSeq(s \o t, Len(s) + 1, Len(s \o t)) = t
    OBVIOUS

(* Lemma: a sequence cut in two. *)
LEMMA JoinedParts ==
    ASSUME NEW s \in Seq(Nat), NEW n \in 1 .. Len(s)
    PROVE SubSeq(s, 1, n) \o SubSeq(s, n + 1, Len(s)) = s
    OBVIOUS

(* Lemma: the same without its first byte. *)
LEMMA JoinedRest ==
    ASSUME NEW s \in Seq(Nat), NEW n \in 1 .. Len(s)
    PROVE SubSeq(s, 2, n) \o SubSeq(s, n + 1, Len(s)) = SubSeq(s, 2, Len(s))
<1>1. SubSeq(s, 1, n) \o SubSeq(s, n + 1, Len(s)) = s
    BY JoinedParts
<1>2. /\ SubSeq(s, 1, n) \in Seq(Nat) /\ Len(SubSeq(s, 1, n)) > 0
      /\ Tail(SubSeq(s, 1, n)) = SubSeq(s, 2, n)
    OBVIOUS
<1>3. SubSeq(s, n + 1, Len(s)) \in Seq(Nat)
    OBVIOUS
<1>4. Tail(s) = SubSeq(s, 2, n) \o SubSeq(s, n + 1, Len(s))
    <2> DEFINE u == SubSeq(s, 1, n)
               v == SubSeq(s, n + 1, Len(s))
    <2>1. u \in Seq(Nat) /\ v \in Seq(Nat) /\ Len(u) > 0 /\ u \o v = s /\ Tail(u) = SubSeq(s, 2, n)
        BY <1>1, <1>2, <1>3
    <2> HIDE DEF u, v
    <2>3. Tail(u \o v) = Tail(u) \o v
        BY Zenon, <2>1, JoinedTail
    <2>2. Tail(s) = SubSeq(s, 2, n) \o v
        BY Zenon, <2>1, <2>3
    <2> QED
        BY Zenon, <2>2 DEF v
<1>5. Tail(s) = SubSeq(s, 2, Len(s))
    OBVIOUS
<1> QED
    BY Zenon, <1>4, <1>5

(* Lemma: a byte before two sequences. *)
LEMMA JoinedThree ==
    ASSUME NEW e \in Nat, NEW s \in Seq(Nat), NEW t \in Seq(Nat)
    PROVE /\ Head(<<e>> \o s \o t) = e /\ Tail(<<e>> \o s \o t) = s \o t /\ <<e>> \o s \o t # <<>>
    BY SMTT(30)

(* Lemma: a first byte, some more and the others. *)
LEMMA JoinedHead ==
    ASSUME NEW s \in Seq(Nat), NEW n \in 1 .. Len(s)
    PROVE <<s[1]>> \o SubSeq(s, 2, n) \o SubSeq(s, n + 1, Len(s)) = s
<1>1. <<s[1]>> \o SubSeq(s, 2, n) = SubSeq(s, 1, n)
    OBVIOUS
<1> QED
    BY Zenon, <1>1, JoinedParts
-----------------------------------------------------------------------------
(* While the pair is set up its connections are open, and once it runs,    *)
(* nothing is closed and no copier stops before an end has hung up.        *)
Linked ==
    /\ front \notin {"accept", "spawned", "returned"} => From("up") \in open
    /\ front \in {"dial", "answer", "forward"} => To("down") \in open
    /\ front \in {"answer", "forward"} => "sconn" \in open
    /\ front = "spawned" /\ ~ HungUp =>
          \A d \in Dir : copier[d] \in {"read", "write"} /\ From(d) \in open /\ To(d) \in open

(* Lemma: a step keeps the connections open until an end hangs up. *)
LEMMA LinkedStep == ASSUME TypeOK, Control, Linked, [Next]_vars PROVE Linked'
<1>1. ASSUME NEW d \in Dir, EndStep(d) PROVE Linked'
    <2>1. UNCHANGED <<kind, front, open, copier>>
        BY <1>1 DEF EndStep, Ends, Send, End, Flow
    <2>2. HungUp => HungUp'
        <3>1. ended' = ended \/ \E how \in {"fin", "rst"} : ended' = [ended EXCEPT ![d] = how]
            BY <1>1 DEF EndStep, Ends, Send, End, Flow
        <3> QED
            BY SMTT(30), <3>1 DEF HungUp, TypeOK, RelayTypeOK
    <2> QED
        BY Zenon, <2>1, <2>2 DEF Linked, From, To
<1>2. ASSUME NEW d \in Dir, CopyStep(d) PROVE Linked'
    <2>1. UNCHANGED <<kind, front, ended>> /\ front = "spawned"
        BY Zenon, <1>2 DEF CopyStep, Copy, Read, ReadEnds, Write, WriteFails, CloseFirst, CloseLast,
                    Control, Copier
    <2>2. HungUp' = HungUp
        BY SMTT(30), <2>1 DEF HungUp
    <2>3. ASSUME ~ HungUp
          PROVE \A e \in Dir : copier'[e] \in {"read", "write"} /\ From(e)' \in open' /\ To(e)' \in open'
        <3>1. \A e \in Dir : copier[e] \in {"read", "write"} /\ From(e) \in open /\ To(e) \in open
            BY Zenon, <2>1, <2>3 DEF Linked
        <3>2. \A e \in Dir : ended[e] = "no"
            BY <2>3 DEF HungUp
        <3>3. Reverse(d) \in Dir
            BY DEF Reverse, Dir
        <3>4. Read(d) \/ Write(d)
            BY Zenon, <1>2, <3>1, <3>2, <3>3
               DEF CopyStep, Copy, ReadEnds, WriteFails, Writable, CloseFirst, CloseLast
        <3>5. open' = open /\ \E c \in {"read", "write"} : copier' = [copier EXCEPT ![d] = c]
            BY Zenon, <3>4 DEF Read, Write
        <3> QED
            BY Zenon, <2>1, <3>1, <3>5, Tables DEF From, To
    <2> QED
        BY <2>1, <2>2, <2>3 DEF Linked
<1>3. ASSUME TunnelStep PROVE Linked'
    <2>1. kind # "http" /\ (kind = "stdio" \/ front # "openStdout")
        BY <1>3 DEF TunnelStep, TunnelFront, Accept, Resolve, ResolveFails, OpenStdout, Dial, DialFails,
                    TunnelKind, Control, Fronts
    <2>2. CASE Dial
        BY <2>1, <2>2 DEF Dial, SpawnCopiers, Linked, From, To, Dir
    <2>3. CASE Accept
        BY <2>1, <2>3 DEF Accept, Linked, From, To
    <2>4. CASE Resolve \/ ResolveFails \/ OpenStdout \/ DialFails
        BY <2>1, <2>4 DEF Resolve, ResolveFails, OpenStdout, DialFails, Linked, From, To
    <2> QED
        BY <1>3, <2>2, <2>3, <2>4 DEF TunnelStep, TunnelFront
<1>4. ASSUME HTTPStep PROVE Linked'
    <2>1. kind = "http" /\ kind' = kind
        BY <1>4 DEF HTTPStep, HTTPFront, HTTPAccept, ReadRequest, ReadRequestFails, Refuse,
                HTTPDial, HTTPDialFails, AnswerConnect, AnswerConnectFails, PassHead, PassBody, Pass,
                FillBody, Forwarded, ForwardFails, Control, Fronts
    <2>2. CASE AnswerConnect \/ Forwarded
        BY <2>1, <2>2 DEF AnswerConnect, Forwarded, SpawnCopiers, Linked, From, To, Dir
    <2>3. CASE HTTPAccept \/ ReadRequest \/ HTTPDial
        BY Zenon, <2>1, <2>3 DEF HTTPAccept, ReadRequest, HTTPDial, Linked, From, To
    <2>4. CASE ReadRequestFails \/ Refuse \/ HTTPDialFails \/ AnswerConnectFails \/ ForwardFails
        BY Zenon, <2>4
           DEF ReadRequestFails, Refuse, HTTPDialFails, AnswerConnectFails, ForwardFails, Linked
    <2>5. CASE PassHead \/ PassBody \/ FillBody
        BY <2>1, <2>5 DEF PassHead, PassBody, Pass, FillBody, Linked, From, To
    <2> QED
        BY SMTT(30), <1>4, <2>2, <2>3, <2>4, <2>5 DEF HTTPStep, HTTPFront
<1>5. ASSUME FinalizeStep PROVE Linked'
    BY <1>5 DEF FinalizeStep, Finalize, Linked
<1>6. ASSUME UNCHANGED vars PROVE Linked'
    BY <1>6 DEF vars, relayVars, Linked, From, To, HungUp
<1> QED
    BY <1>1, <1>2, <1>3, <1>4, <1>5, <1>6 DEF Next

(* Lemma: nothing is set up at first. *)
LEMMA LinkedInit == Init => Linked
    BY DEF Init, TunnelKind, Linked, From
-----------------------------------------------------------------------------
(* What the abstract view of a connection is made of. *)
viewed == <<kind, exchange, data, ended, full>>

(* Lemma: in which phase a connection is, before and after a step. *)
LEMMA Phases ==
    /\ front \notin {"spawned", "returned"} => Phase = [d \in Dir |-> "opening"]
    /\ front' \notin {"spawned", "returned"} => Phase' = [d \in Dir |-> "opening"]
    /\ front = "returned" => Phase = [d \in Dir |-> "over"]
    /\ front' = "returned" => Phase' = [d \in Dir |-> "over"]
    /\ front = "spawned" =>
          Phase = [d \in Dir |-> IF copier[d] \in {"read", "write"} /\ To(d) \in open THEN "open" ELSE "over"]
    /\ front' = "spawned" =>
          Phase' = [d \in Dir |-> IF copier'[d] \in {"read", "write"} /\ To(d)' \in open' THEN "open" ELSE "over"]
    BY DEF Phase, AbstractPhase

(* Lemma: which bytes are on their way, before and after a step. *)
LEMMA OnTheWay ==
    /\ front # "spawned" => Pending["up"] = PendingUp
    /\ front' # "spawned" => Pending'["up"] = PendingUp'
    /\ front = "spawned" => Pending["up"] = buf["up"] \o wire["up"]
    /\ front' = "spawned" => Pending'["up"] = buf'["up"] \o wire'["up"]
    /\ Pending["down"] = buf["down"] \o wire["down"]
    /\ Pending'["down"] = buf'["down"] \o wire'["down"]
    /\ Pending = [d \in Dir |-> Pending[d]] /\ Pending' = [d \in Dir |-> Pending'[d]]
    BY Zenon DEF Pending, Dir

(* Lemma: a step that touches none of the bytes leaves them on their way. *)
LEMMA SameBytes ==
    ASSUME UNCHANGED viewed, front = "spawned" <=> front' = "spawned"
    PROVE Pending' = Pending /\ HungUp' = HungUp /\ UNCHANGED <<sent, got, full>>
    BY DEF viewed, data, Pending, PendingUp, HeadRead, request, HungUp

(* Lemma: a step of the set-up that the ends do not see. *)
LEMMA Unseen ==
    ASSUME UNCHANGED viewed, front \notin {"spawned", "returned"}, front' \notin {"spawned", "returned"}
    PROVE UNCHANGED T!vars
<1>1. Phase' = Phase
    BY Phases
<1>2. Pending' = Pending /\ HungUp' = HungUp /\ UNCHANGED <<sent, got, full>>
    BY SameBytes
<1> QED
    BY SMTT(30), <1>1, <1>2 DEF T!vars

(* Lemma: a set-up that fails. *)
LEMMA GivenUp ==
    ASSUME UNCHANGED viewed, front \notin {"spawned", "returned"}, front' = "returned"
    PROVE T!Next
<1>1. Phase = [d \in Dir |-> "opening"] /\ Phase' = [d \in Dir |-> "over"]
    BY Phases
<1>2. Pending' = Pending /\ HungUp' = HungUp /\ UNCHANGED <<sent, got, full>>
    BY SameBytes
<1>3. T!Over(T!Directions)
    BY <1>1, <1>2 DEF T!Over, T!Directions, Dir
<1> QED
    BY <1>3 DEF T!Next

(* Lemma: what the two ends do. *)
LEMMA EndsSeen == ASSUME TypeOK, NEW d \in Dir, EndStep(d) PROVE T!Next
<1>0. UNCHANGED <<kind, front, open, copier, buf, got, exchange, rd, taken, passed>>
    BY DEF EndStep, Ends, Send, End, Flow, httpVars
<1>1. Phase' = Phase
    BY <1>0 DEF Phase, AbstractPhase, To
<1>2. CASE Send(d)
    <2>1. sent' = [sent EXCEPT ![d] = @ + 1] /\ UNCHANGED <<ended, full>>
        BY <1>2 DEF Send
    <2>2. wire'[d] = Append(wire[d], sent[d] + 1) /\ \A e \in Dir : e # d => wire'[e] = wire[e]
        BY Zenon, <1>2, Tables DEF Send
    <2>3. Pending'[d] = Append(Pending[d], sent[d] + 1)
        <3>1. /\ wire[d] \in Seq(Nat) /\ buf[d] \in Seq(Nat) /\ rd \in Seq(Nat) /\ sent[d] + 1 \in Nat
            BY DirTypes, Seqs
        <3>2. CASE d = "down" \/ front = "spawned"
            <4>1. Pending[d] = buf[d] \o wire[d] /\ Pending'[d] = buf[d] \o wire'[d]
                BY Zenon, <1>0, <3>2, OnTheWay DEF Dir
            <4> QED
                BY ZenonT(40), <2>2, <3>1, <4>1, JoinedMore
        <3>3. CASE d = "up" /\ front # "spawned"
            <4> DEFINE held == (IF HeadRead THEN <<1>> ELSE <<>>) \o rd
            <4>1. Pending[d] = held \o wire[d] /\ Pending'[d] = held \o wire'[d]
                BY Zenon, <1>0, <3>3, OnTheWay DEF PendingUp, HeadRead, request
            <4>2. held \in Seq(Nat)
                <5>1. <<1>> \in Seq(Nat) /\ <<>> \in Seq(Nat)
                    OBVIOUS
                <5> QED
                    BY <3>1, <5>1, Joined
            <4> HIDE DEF held
            <4>3. held \o Append(wire[d], sent[d] + 1) = Append(held \o wire[d], sent[d] + 1)
                BY Zenon, <3>1, <4>2, JoinedMore
            <4> QED
                BY Zenon, <2>2, <4>1, <4>3
        <3> QED
            BY <3>2, <3>3 DEF Dir
    <2>4. \A e \in Dir : e # d => Pending'[e] = Pending[e]
        BY <1>0, <2>2 DEF Pending, PendingUp, HeadRead, request, Dir
    <2>5. Pending' = [Pending EXCEPT ![d] = Append(@, sent[d] + 1)]
        BY Zenon, <2>3, <2>4 DEF Pending
    <2>6. T!Send(d)
        BY <1>0, <1>1, <2>1, <2>5 DEF T!Send, HungUp
    <2> QED
        BY <2>6 DEF T!Next, T!Directions, Dir
<1>3. CASE End(d)
    <2>1. UNCHANGED <<sent, wire, full>> /\ \E how \in {"fin", "rst"} : ended' = [ended EXCEPT ![d] = how]
        BY Zenon, <1>3 DEF End
    <2>2. HungUp'
        BY <2>1 DEF HungUp, TypeOK, RelayTypeOK
    <2>3. Pending' = Pending
        BY <1>0, <2>1 DEF Pending, PendingUp, HeadRead, request
    <2>4. T!HangUp
        BY <1>0, <1>1, <2>1, <2>2, <2>3 DEF T!HangUp
    <2> QED
        BY <2>4 DEF T!Next
<1>4. CASE Flow(d)
    <2>1. UNCHANGED <<sent, wire, ended>> /\ full' = [full EXCEPT ![d] = ~ @]
        BY <1>4 DEF Flow
    <2>2. Pending' = Pending /\ HungUp' = HungUp
        BY <1>0, <2>1 DEF Pending, PendingUp, HeadRead, request, HungUp
    <2>3. T!Stall(d)
        BY <1>0, <1>1, <2>1, <2>2 DEF T!Stall
    <2> QED
        BY <2>3 DEF T!Next, T!Directions, Dir
<1> QED
    BY <1>2, <1>3, <1>4 DEF EndStep, Ends

(* Lemma: what the two copiers do. *)
LEMMA CopySeen ==
    ASSUME TypeOK, Control, Linked, NEW d \in Dir, CopyStep(d)
    PROVE T!Next \/ UNCHANGED T!vars
<1>0. /\ UNCHANGED <<kind, front, exchange, rd, taken, passed, sent, ended, full>>
      /\ front = "spawned" /\ HungUp' = HungUp /\ open' \subseteq open
    BY Zenon DEF CopyStep, Copy, Read, ReadEnds, Write, WriteFails, CloseFirst, CloseLast, httpVars,
           Control, Copier, HungUp
<1>1. /\ Phase = [e \in Dir |-> IF copier[e] \in {"read", "write"} /\ To(e) \in open THEN "open" ELSE "over"]
      /\ Phase' = [e \in Dir |-> IF copier'[e] \in {"read", "write"} /\ To(e) \in open' THEN "open" ELSE "over"]
      /\ Pending = [e \in Dir |-> buf[e] \o wire[e]] /\ Pending' = [e \in Dir |-> buf'[e] \o wire'[e]]
    BY <1>0, Phases DEF To, Pending
<1>2. copier \in [Dir -> {"none", "read", "write", "closeFirst", "closeLast", "done"}]
    BY Zenon, Tables
<1>3. /\ wire[d] \in Seq(Nat) /\ buf[d] \in Seq(Nat) /\ got[d] \in Seq(Nat)
      /\ wire \in [Dir -> Seq(Nat)] /\ buf \in [Dir -> Seq(Nat)]
    BY Zenon, DirTypes, Tables
<1>4. CASE Read(d)
    <2>1. PICK n \in 1 .. Len(wire[d]) :
              /\ buf' = [buf EXCEPT ![d] = SubSeq(wire[d], 1, n)]
              /\ wire' = [wire EXCEPT ![d] = SubSeq(wire[d], n + 1, Len(wire[d]))]
        BY Zenon, <1>4 DEF Read
    <2>2. copier[d] = "read" /\ copier' = [copier EXCEPT ![d] = "write"] /\ UNCHANGED <<open, got>>
        BY SMTT(30), <1>4 DEF Read
    <2>3. buf[d] = <<>>
        BY <2>2 DEF Control, Copier
    <2>4. Phase' = Phase
        BY <1>1, <1>2, <2>2
    <2>5. buf'[d] \o wire'[d] = buf[d] \o wire[d]
        <3>1. buf'[d] = SubSeq(wire[d], 1, n) /\ wire'[d] = SubSeq(wire[d], n + 1, Len(wire[d]))
            BY Zenon, <1>3, <2>1
        <3>2. SubSeq(wire[d], 1, n) \o SubSeq(wire[d], n + 1, Len(wire[d])) = wire[d]
            BY Zenon, <1>3, JoinedParts
        <3>3. <<>> \o wire[d] = wire[d]
            BY <1>3, JoinedEmpty
        <3> QED
            BY Zenon, <2>3, <3>1, <3>2, <3>3
    <2>6. \A e \in Dir : e # d => buf'[e] = buf[e] /\ wire'[e] = wire[e]
        BY Zenon, <1>3, <2>1
    <2>7. Pending' = Pending
        BY Zenon, <1>1, <2>5, <2>6
    <2> QED
        BY <1>0, <2>2, <2>4, <2>7 DEF T!vars
<1>5. CASE Write(d)
    <2>1. /\ copier[d] = "write" /\ To(d) \in open /\ ~ full[d] /\ UNCHANGED <<open, wire>>
          /\ got' = [got EXCEPT ![d] = Append(@, Head(buf[d]))]
          /\ buf' = [buf EXCEPT ![d] = Tail(@)]
        BY <1>5 DEF Write, Writable
    <2>2. \E c \in {"read", "write"} : copier' = [copier EXCEPT ![d] = c]
        BY Zenon, <1>5 DEF Write
    <2>3. Len(buf[d]) > 0
        BY <2>1 DEF Control, Copier
    <2>4. Phase' = Phase /\ Phase[d] # "over"
        BY <1>1, <1>2, <2>1, <2>2
    <2>5. /\ Head(buf[d] \o wire[d]) = Head(buf[d]) /\ buf[d] \o wire[d] # <<>>
          /\ Tail(buf[d] \o wire[d]) = Tail(buf[d]) \o wire[d]
        BY <1>3, <2>3, JoinedTail
    <2>6. buf'[d] = Tail(buf[d]) /\ \A e \in Dir : e # d => buf'[e] = buf[e]
        BY Zenon, <1>3, <2>1
    <2>7. Pending[d] = buf[d] \o wire[d] /\ Pending' = [Pending EXCEPT ![d] = Tail(@)]
        <3>5. \A e \in Dir : Pending[e] = buf[e] \o wire[e] /\ Pending'[e] = buf'[e] \o wire[e]
            BY Zenon, <1>1, <2>1
        <3>1. Pending[d] = buf[d] \o wire[d] /\ Pending'[d] = Tail(buf[d]) \o wire[d]
            BY Zenon, <2>6, <3>5
        <3>2. ASSUME NEW e \in Dir, e # d PROVE Pending'[e] = Pending[e]
            <4>1. buf'[e] = buf[e]
                BY <2>6, <3>2
            <4> QED
                BY Zenon, <3>5, <4>1
        <3>3. Pending'[d] = Tail(Pending[d])
            BY Zenon, <2>5, <3>1
        <3>4. Pending = [e \in Dir |-> Pending[e]] /\ Pending' = [e \in Dir |-> Pending'[e]]
            BY OnTheWay
        <3> QED
            BY Zenon, <3>1, <3>2, <3>3, <3>4
    <2>8. T!Deliver(d)
        BY Zenon, <1>0, <2>1, <2>4, <2>5, <2>7 DEF T!Deliver
    <2> QED
        BY <2>8 DEF T!Next, T!Directions, Dir
<1>6. CASE ReadEnds(d) \/ WriteFails(d) \/ CloseFirst(d) \/ CloseLast(d)
    <2>1. UNCHANGED <<wire, buf, got>>
        BY Zenon, <1>6 DEF ReadEnds, WriteFails, CloseFirst, CloseLast
    <2>2. \E c \in {"closeFirst", "closeLast", "done"} : copier' = [copier EXCEPT ![d] = c]
        BY Zenon, <1>6 DEF ReadEnds, WriteFails, CloseFirst, CloseLast
    <2>3. HungUp
        <3>1. SUFFICES ASSUME ~ HungUp PROVE FALSE
            OBVIOUS
        <3>2. copier[d] \in {"read", "write"} /\ From(d) \in open /\ To(d) \in open
            BY Zenon, <1>0, <3>1 DEF Linked
        <3>3. \A e \in Dir : ended[e] = "no"
            BY <3>1 DEF HungUp
        <3>4. Reverse(d) \in Dir
            BY DEF Reverse, Dir
        <3> QED
            BY <1>6, <3>2, <3>3, <3>4 DEF ReadEnds, WriteFails, Writable, CloseFirst, CloseLast
    <2>4. \A e \in Dir : Phase'[e] = Phase[e] \/ Phase'[e] = "over"
        BY Zenon, <1>0, <1>1, <1>2, <2>2
    <2>5. Phase' = [e \in Dir |-> Phase'[e]]
        BY <1>1
    <2> DEFINE S == {e \in Dir : Phase'[e] = "over"}
    <2>6. Phase' = [e \in Dir |-> IF e \in S THEN "over" ELSE Phase[e]]
        BY SMTT(30), <2>4, <2>5
    <2>7. Pending' = Pending
        BY <1>1, <2>1
    <2>8. S \in SUBSET T!Directions /\ T!Directions = Dir
        BY DEF T!Directions, Dir
    <2> HIDE DEF S
    <2>9. T!Over(S)
        BY <1>0, <2>1, <2>3, <2>6, <2>7, <2>8 DEF T!Over
    <2> QED
        BY <2>8, <2>9 DEF T!Next
<1> QED
    BY <1>4, <1>5, <1>6 DEF CopyStep, Copy

(* Lemma: the copiers start on open connections, and what the front end    *)
(* has read but not passed on is withheld.                                 *)
LEMMA Started ==
    ASSUME TypeOK, front \in {"dial", "answer", "forward"}, front' = "spawned", SpawnCopiers,
           To("down") \in open', To("up") \in open', UNCHANGED viewed, buf["up"] = <<>>, ~ HeadRead
    PROVE T!Next
<1>1. UNCHANGED <<kind, sent, wire, buf, got, ended, full>>
    BY SMTT(30) DEF viewed, data
<1>2. Phase = [d \in Dir |-> "opening"] /\ Phase' = [d \in Dir |-> "open"]
    <2>1. \A d \in Dir : copier'[d] = "read" /\ To(d)' \in open'
        BY <1>1 DEF SpawnCopiers, Dir, To
    <2> QED
        BY <2>1, Phases
<1>3. rd \in Seq(Nat) /\ wire["up"] \in Seq(Nat)
    BY Seqs
<1>4. Pending["up"] = rd \o wire["up"] /\ Pending'["up"] = wire["up"] /\ Pending'["down"] = Pending["down"]
    <2>1. <<>> \o rd = rd /\ <<>> \o wire["up"] = wire["up"]
        BY <1>3, JoinedEmpty
    <2>2. Pending["up"] = (<<>> \o rd) \o wire["up"]
        BY Zenon, OnTheWay DEF PendingUp
    <2> QED
        BY Zenon, <1>1, <2>1, <2>2, OnTheWay
<1>5. Pending'["up"] = SubSeq(Pending["up"], Len(rd) + 1, Len(Pending["up"]))
    BY <1>3, <1>4, JoinedDrop
<1>6. Pending' = [Pending EXCEPT !["up"] = SubSeq(@, Len(rd) + 1, Len(@))]
    BY Zenon, <1>4, <1>5 DEF Pending, Dir
<1>7. Len(rd) \in 0 .. Len(Pending["up"])
    BY <1>3, <1>4, Lengths, Joined
<1>8. HungUp' = HungUp
    BY <1>1 DEF HungUp
<1>9. T!Establish(Len(rd))
    BY <1>1, <1>2, <1>6, <1>8 DEF T!Establish, T!Directions, Dir
<1> QED
    BY <1>7, <1>9 DEF T!Next

(* Lemma: what the set-up of a tunnel does. *)
LEMMA TunnelSeen == ASSUME Inv, Linked, TunnelStep PROVE T!Next \/ UNCHANGED T!vars
<1>0. /\ kind # "http" /\ UNCHANGED viewed /\ front \notin {"spawned", "returned"}
    BY DEF TunnelStep, TunnelFront, Accept, Resolve, ResolveFails, OpenStdout, Dial, DialFails,
           TunnelKind, Inv, Control, Fronts, viewed, data, relayVars, httpVars
<1>1. CASE Dial
    <2>1. /\ front = "dial" /\ front' = "spawned" /\ SpawnCopiers /\ open' = open \cup {"sconn"}
        BY <1>1 DEF Dial
    <2>2. To("down") \in open' /\ To("up") \in open'
        BY <2>1 DEF Linked, To
    <2>3. ~ HeadRead /\ TypeOK
        BY <1>0 DEF HeadRead, Inv
    <2>4. buf["up"] = <<>>
        BY <2>1 DEF Inv, Control, Copier, Dir
    <2> QED
        BY <1>0, <2>1, <2>2, <2>3, <2>4, Started
<1>2. CASE front' = "returned"
    BY <1>0, <1>2, GivenUp
<1>3. CASE front' \notin {"spawned", "returned"}
    BY <1>0, <1>3, Unseen
<1>4. Dial \/ front' # "spawned"
    BY DEF TunnelStep, TunnelFront, Accept, Resolve, ResolveFails, OpenStdout, DialFails
<1> QED
    BY SMTT(30), <1>1, <1>2, <1>3, <1>4

(* Lemma: what is held back of a request is the request to CONNECT. *)
LEMMA RequestSeen == ASSUME Inv, HTTPStep, ReadRequest PROVE T!Next \/ UNCHANGED T!vars
<1>1. PICK n \in 1 .. Len(wire["up"]) :
          /\ rd' = SubSeq(wire["up"], 2, n)
          /\ wire' = [wire EXCEPT !["up"] = SubSeq(@, n + 1, Len(@))]
          /\ taken' = n
    BY Zenon DEF ReadRequest
<1>2. /\ front = "readRequest" /\ front' \in {"dial", "refuse"}
      /\ UNCHANGED <<kind, exchange, sent, buf, got, ended, full, passed>>
    BY DEF ReadRequest, HTTPStep
<1>3. kind = "http" /\ taken = 0 /\ passed = 0 /\ rd = <<>>
    BY Zenon, <1>2 DEF Inv, Control, Fronts, Stage, Reader
<1>4. wire["up"] \in Seq(Nat) /\ wire \in [Dir -> Seq(Nat)]
    BY ZenonT(40), Seqs DEF Inv, TypeOK, RelayTypeOK
<1>5. wire'["up"] = SubSeq(wire["up"], n + 1, Len(wire["up"])) /\ wire'["down"] = wire["down"]
    BY Zenon, <1>1, <1>4 DEF Dir
<1>6. Phase' = Phase /\ Phase["up"] = "opening"
    BY <1>2, Phases DEF Dir
<1>7. HungUp' = HungUp
    BY SMTT(30), <1>2 DEF HungUp
<1>8. Pending["up"] = wire["up"] /\ Pending'["down"] = Pending["down"]
    <2>1. ~ HeadRead
        BY <1>3 DEF HeadRead
    <2>2. Pending["up"] = (<<>> \o <<>>) \o wire["up"]
        BY Zenon, <1>2, <1>3, <2>1, OnTheWay DEF PendingUp
    <2>3. <<>> \o <<>> = <<>> /\ <<>> \o wire["up"] = wire["up"]
        BY <1>4, JoinedEmpty
    <2> QED
        BY <1>2, <1>5, <2>2, <2>3, OnTheWay
<1>9. Pending'["up"] = ((IF request.method # "CONNECT" THEN <<1>> ELSE <<>>) \o SubSeq(wire["up"], 2, n))
                          \o SubSeq(wire["up"], n + 1, Len(wire["up"]))
    <2>1. HeadRead' = (request.method # "CONNECT")
        <3>1. taken' > 0 /\ passed' = 0 /\ kind' = "http"
            BY <1>1, <1>2, <1>3
        <3>2. request' = request
            BY Zenon, <1>2 DEF request
        <3> QED
            BY <3>1, <3>2 DEF HeadRead
    <2>2. Pending'["up"] = PendingUp'
        BY <1>2, OnTheWay
    <2> QED
        BY Zenon, <1>1, <1>5, <2>1, <2>2 DEF PendingUp
<1>10. CASE request.method # "CONNECT"
    <2>1. wire["up"][1] = 1
        <3>1. Len(got["up"]) = 0 /\ buf["up"] = <<>> /\ P("up") = 0 /\ G("up") = 0
            BY SMTT(30), <1>2, <1>3 DEF Inv, Early, Control, Copier, Dir, P, G
        <3>4. Stream("up")
            BY DEF Inv, Bytes, Dir
        <3>5. Run(wire["up"], Len(got["up"]) + Len(buf["up"]), P("up"), G("up"))
            BY Zenon, <3>4 DEF Stream, Flowing
        <3>6. Len(got["up"]) + Len(buf["up"]) = 0
            BY <3>1
        <3>2. Run(wire["up"], 0, 0, 0)
            BY Zenon, <3>1, <3>5, <3>6
        <3>3. 1 \in 1 .. Len(wire["up"])
            BY <1>4, Lengths
        <3> QED
            BY SMTT(30), <3>2, <3>3 DEF Run, Nth
    <2>2. Pending'["up"] = wire["up"]
        BY Zenon, <1>4, <1>9, <1>10, <2>1, JoinedHead
    <2>3. Pending' = Pending
        BY Zenon, <1>8, <2>2 DEF Pending, Dir
    <2> QED
        BY <1>2, <1>6, <1>7, <2>3 DEF T!vars
<1>11. CASE request.method = "CONNECT"
    <2>1. Pending'["up"] = SubSeq(wire["up"], 2, Len(wire["up"]))
        <3>1. SubSeq(wire["up"], 2, n) \in Seq(Nat)
            BY <1>4, Middle
        <3>2. <<>> \o SubSeq(wire["up"], 2, n) = SubSeq(wire["up"], 2, n)
            BY <3>1, JoinedEmpty
        <3> QED
            BY Zenon, <1>4, <1>9, <1>11, <3>2, JoinedRest
    <2>2. Pending' = [Pending EXCEPT !["up"] = SubSeq(@, 1 + 1, Len(@))]
        <3>2. 1 + 1 = 2
            OBVIOUS
        <3>1. Pending'["up"] = SubSeq(Pending["up"], 1 + 1, Len(Pending["up"]))
            BY Zenon, <1>8, <2>1, <3>2
        <3> QED
            BY Zenon, <1>8, <3>1 DEF Pending, Dir
    <2>3. T!Withhold(1)
        BY <1>2, <1>6, <1>7, <2>2 DEF T!Withhold
    <2>4. 1 \in 0 .. Len(Pending["up"])
        BY <1>4, <1>8, Lengths
    <2> QED
        BY <2>3, <2>4 DEF T!Next
<1> QED
    BY <1>10, <1>11

(* Lemma: a byte of the request that the front end gives the target. *)
LEMMA PassSeen ==
    ASSUME Inv, NEW e \in Nat, Pass(e), exchange' = exchange, Pending["up"] # <<>>,
           Head(Pending["up"]) = e, PendingUp' = Tail(Pending["up"])
    PROVE T!Next
<1>1. /\ front = "forward" /\ ~ full["up"] /\ got' = [got EXCEPT !["up"] = Append(@, e)]
      /\ UNCHANGED <<kind, front, open, sent, wire, buf, ended, full>>
    BY Zenon DEF Pass
<1>2. Phase' = Phase /\ Phase["up"] # "over"
    BY <1>1, Phases DEF Dir
<1>3. Pending'["up"] = Tail(Pending["up"]) /\ Pending'["down"] = Pending["down"]
    BY <1>1, OnTheWay
<1>4. Pending' = [Pending EXCEPT !["up"] = Tail(@)]
    BY Zenon, <1>3 DEF Pending, Dir
<1>5. HungUp' = HungUp
    BY <1>1 DEF HungUp
<1>6. T!Deliver("up")
    BY Zenon, <1>1, <1>2, <1>4, <1>5 DEF T!Deliver
<1> QED
    BY SMTT(30), <1>6 DEF T!Next, T!Directions

(* Lemma: what the forwarding of a request does. *)
LEMMA ForwardSeen ==
    ASSUME Inv, HTTPStep, PassHead \/ PassBody \/ FillBody
    PROVE T!Next \/ UNCHANGED T!vars
<1>1. front = "forward" /\ UNCHANGED <<kind, front, exchange>>
    BY Zenon DEF HTTPStep, PassHead, PassBody, Pass, FillBody
<1>2. kind = "http" /\ taken > 0 /\ request.method # "CONNECT" /\ request' = request
    BY Zenon, <1>1 DEF Inv, Control, Fronts, Stage, request
<1>3. rd \in Seq(Nat) /\ wire["up"] \in Seq(Nat) /\ wire \in [Dir -> Seq(Nat)] /\ passed \in Nat /\ taken \in Nat
    BY ZenonT(40), Seqs DEF Inv, TypeOK, RelayTypeOK
<1>4. Pending["up"] = PendingUp
    BY <1>1, OnTheWay
<1>5. <<>> \o rd = rd /\ <<>> \o wire["up"] = wire["up"]
    BY <1>3, JoinedEmpty
<1>6. CASE PassHead
    <2>1. passed = 0 /\ passed' = 1 /\ Pass(1) /\ UNCHANGED <<rd, wire>>
        BY SMTT(30), <1>3, <1>6 DEF PassHead, Pass
    <2>2. HeadRead /\ ~ HeadRead'
        BY <1>1, <1>2, <2>1 DEF HeadRead
    <2>3. Pending["up"] = <<1>> \o rd \o wire["up"] /\ PendingUp' = rd \o wire["up"]
        BY Zenon, <1>4, <1>5, <2>1, <2>2 DEF PendingUp
    <2>4. Head(Pending["up"]) = 1 /\ Tail(Pending["up"]) = rd \o wire["up"] /\ Pending["up"] # <<>>
        <3>1. /\ Head(<<1>> \o rd \o wire["up"]) = 1 /\ <<1>> \o rd \o wire["up"] # <<>>
              /\ Tail(<<1>> \o rd \o wire["up"]) = rd \o wire["up"]
            BY ZenonT(40), <1>3, JoinedThree
        <3> QED
            BY Zenon, <2>3, <3>1
    <2> QED
        BY Zenon, <1>1, <2>1, <2>3, <2>4, PassSeen
<1>7. CASE PassBody
    <2>1. /\ 0 < passed /\ passed' = passed + 1 /\ rd # <<>> /\ Pass(Head(rd)) /\ rd' = Tail(rd)
          /\ wire' = wire
        BY <1>7 DEF PassBody, Pass
    <2>2. ~ HeadRead /\ ~ HeadRead'
        BY <1>3, <2>1 DEF HeadRead
    <2>3. Len(rd) > 0
        BY <1>3, <2>1, Lengths
    <2>4. Head(rd) \in Nat /\ Tail(rd) \in Seq(Nat)
        BY <1>3, <2>3, Rest
    <2>5. Pending["up"] = rd \o wire["up"] /\ PendingUp' = Tail(rd) \o wire["up"]
        <3>1. <<>> \o Tail(rd) = Tail(rd)
            BY <2>4, JoinedEmpty
        <3> QED
            BY Zenon, <1>4, <1>5, <2>1, <2>2, <3>1 DEF PendingUp
    <2>6. /\ Head(Pending["up"]) = Head(rd) /\ Pending["up"] # <<>>
          /\ Tail(Pending["up"]) = Tail(rd) \o wire["up"]
        BY ZenonT(40), <1>3, <2>3, <2>5, JoinedTail
    <2> QED
        BY Zenon, <1>1, <2>1, <2>4, <2>5, <2>6, PassSeen
<1>8. CASE FillBody
    <2>1. PICK n \in 1 .. Len(wire["up"]) :
              /\ rd' = SubSeq(wire["up"], 1, n)
              /\ wire' = [wire EXCEPT !["up"] = SubSeq(@, n + 1, Len(@))]
              /\ taken' = taken + n
        BY Zenon, <1>8 DEF FillBody
    <2>2. 0 < passed /\ rd = <<>> /\ UNCHANGED <<sent, buf, got, ended, full, passed>>
        BY <1>8 DEF FillBody
    <2>3. wire'["up"] = SubSeq(wire["up"], n + 1, Len(wire["up"])) /\ wire'["down"] = wire["down"]
        BY Zenon, <1>3, <2>1 DEF Dir
    <2>4. ~ HeadRead /\ ~ HeadRead'
        BY <1>3, <2>2 DEF HeadRead
    <2>5. Pending["up"] = wire["up"]
        <3>1. <<>> \o <<>> = <<>>
            BY <1>5, <2>2
        <3> QED
            BY Zenon, <1>4, <1>5, <2>2, <2>4, <3>1 DEF PendingUp
    <2>6. PendingUp' = wire["up"]
        <3>1. SubSeq(wire["up"], 1, n) \in Seq(Nat)
            BY <1>3, Firsts
        <3>2. <<>> \o SubSeq(wire["up"], 1, n) = SubSeq(wire["up"], 1, n)
            BY <3>1, JoinedEmpty
        <3>3. SubSeq(wire["up"], 1, n) \o SubSeq(wire["up"], n + 1, Len(wire["up"])) = wire["up"]
            BY Zenon, <1>3, JoinedParts
        <3> QED
            BY Zenon, <2>1, <2>3, <2>4, <3>2, <3>3 DEF PendingUp
    <2>7. Pending'["up"] = Pending["up"] /\ Pending'["down"] = Pending["down"]
        BY <1>1, <2>2, <2>3, <2>5, <2>6, OnTheWay
    <2>8. Pending' = Pending
        BY Zenon, <2>7 DEF Pending, Dir
    <2>9. Phase' = Phase /\ HungUp' = HungUp
        BY <1>1, <2>2, Phases DEF HungUp
    <2> QED
        BY <2>2, <2>8, <2>9 DEF T!vars
<1> QED
    BY SMTT(30), <1>6, <1>7, <1>8

(* Lemma: what the HTTP proxy does before its copiers run. *)
LEMMA HTTPSeen == ASSUME Inv, Linked, HTTPStep PROVE T!Next \/ UNCHANGED T!vars
<1>1. CASE HTTPAccept \/ HTTPDial
    <2>1. UNCHANGED viewed /\ front \notin {"spawned", "returned"} /\ front' \notin {"spawned", "returned"}
        BY <1>1 DEF HTTPStep, HTTPAccept, HTTPDial, viewed, data, relayVars, httpVars
    <2> QED
        BY <2>1, Unseen
<1>2. CASE ReadRequestFails \/ Refuse \/ HTTPDialFails \/ AnswerConnectFails \/ ForwardFails
    <2>1. UNCHANGED viewed /\ front \notin {"spawned", "returned"} /\ front' = "returned"
        BY <1>2 DEF HTTPStep, ReadRequestFails, Refuse, HTTPDialFails, AnswerConnectFails, ForwardFails,
                    viewed, data, relayVars, httpVars
    <2> QED
        BY SMTT(30), <2>1, GivenUp
<1>3. CASE AnswerConnect \/ Forwarded
    <2>1. /\ front \in {"answer", "forward"} /\ front' = "spawned" /\ SpawnCopiers /\ open' = open
          /\ UNCHANGED viewed
        BY <1>3 DEF HTTPStep, AnswerConnect, Forwarded, viewed, data, httpVars
    <2>2. To("down") \in open' /\ To("up") \in open'
        BY <2>1 DEF Linked, To
    <2>3. kind = "http" /\ TypeOK
        BY SMTT(30), <2>1 DEF Inv, Control, Fronts
    <2>4. ~ HeadRead
        <3>1. Need > 0 /\ Need \in Nat
            BY SMTT(30), <2>3, NeedNat DEF Inv
        <3> QED
            BY SMTT(30), <1>3, <3>1 DEF AnswerConnect, Forwarded, HeadRead, Inv, Stage
    <2>5. buf["up"] = <<>>
        BY <2>1 DEF Inv, Control, Copier, Dir
    <2> QED
        BY <2>1, <2>2, <2>3, <2>4, <2>5, Started
<1> QED
    BY <1>1, <1>2, <1>3, RequestSeen, ForwardSeen DEF HTTPStep, HTTPFront

(* Every step of a proxied connection, of whichever routine, is one that   *)
(* module Tunnel allows: connForward and serve, the goroutines that set    *)
(* them up, the garbage collector and the ends can do no more.             *)
THEOREM ConnectionImplementsTunnel == Spec => T!Init /\ [][T!Next]_(T!vars)
<1>1. Init => T!Init
    <2>1. ASSUME Init PROVE T!Init
        <3>1. /\ front \notin {"spawned", "returned"} /\ rd = <<>> /\ taken = 0
              /\ sent = [d \in Dir |-> 0] /\ wire = [d \in Dir |-> <<>>] /\ buf = [d \in Dir |-> <<>>]
              /\ got = [d \in Dir |-> <<>>] /\ ended = [d \in Dir |-> "no"]
              /\ full = [d \in Dir |-> FALSE]
            BY <2>1 DEF Init, RelayInit
        <3>2. Phase = [d \in Dir |-> "opening"]
            BY Zenon, <3>1, Phases
        <3>3. ~ HeadRead /\ <<>> \o <<>> = <<>>
            BY <3>1 DEF HeadRead
        <3>4. Pending = [d \in Dir |-> <<>>]
            BY Zenon, <3>1, <3>3 DEF Pending, PendingUp, Dir
        <3>5. HungUp = FALSE
            BY <3>1 DEF HungUp
        <3> QED
            BY <3>1, <3>2, <3>4, <3>5 DEF T!Init, T!Directions, Dir
    <2> QED
        BY <2>1
<1>2. ASSUME Inv, Linked, [Next]_vars PROVE [T!Next]_(T!vars)
    <2>1. CASE FinalizeStep
        <3>1. UNCHANGED viewed /\ front = "returned" /\ front' = "returned"
            BY <2>1 DEF FinalizeStep, Finalize, viewed, data, relayVars, httpVars
        <3>2. Phase' = Phase
            BY <3>1, Phases
        <3>3. Pending' = Pending /\ HungUp' = HungUp /\ UNCHANGED <<sent, got, full>>
            BY <3>1, SameBytes
        <3> QED
            BY <3>2, <3>3 DEF T!vars
    <2>2. CASE UNCHANGED vars
        <3>1. UNCHANGED <<kind, front, open, copier>> /\ UNCHANGED viewed
            BY <2>2 DEF vars, relayVars, httpVars, viewed, data
        <3>2. Phase' = Phase
            BY <3>1 DEF Phase, AbstractPhase, To
        <3>3. Pending' = Pending /\ HungUp' = HungUp /\ UNCHANGED <<sent, got, full>>
            BY <3>1, SameBytes
        <3> QED
            BY <3>2, <3>3 DEF T!vars
    <2>3. CASE \E d \in Dir : EndStep(d) \/ CopyStep(d)
        BY <1>2, <2>3, EndsSeen, CopySeen DEF Inv
    <2> QED
        BY <1>2, <2>1, <2>2, <2>3, TunnelSeen, HTTPSeen DEF Next
<1>3. Inv /\ Linked /\ [Next]_vars => Linked'
    BY LinkedStep DEF Inv
<1> QED
    BY <1>1, <1>2, <1>3, LinkedInit, Invariance, PTL DEF Spec
=============================================================================
