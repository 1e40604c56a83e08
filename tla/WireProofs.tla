----------------------------- MODULE WireProofs -----------------------------
(***************************************************************************)
(* The receive loop of handleConnection keeps its buffer bounded, and what  *)
(* it dispatches is what was sent, whatever the frames, their sizes and the *)
(* pieces recv returns. Liveness of the loop is left to TLC.                *)
(***************************************************************************)
EXTENDS Wire, SequenceTheorems, TLAPS

-----------------------------------------------------------------------------
\* What encodeFrame writes: five header units, then the payload.
LEMMA EncodedUnits ==
  ASSUME NEW f \in Frames
  PROVE  LET u == encodeFrame(f) IN
         /\ u \in Seq(Nat) /\ Len(u) = kHeader + Len(f.payload)
         /\ u[1] = kMagic /\ u[2] = kProtocolVersion /\ u[3] = f.type
         /\ u[4] = Len(f.payload) /\ u[5] = crc32(f.payload)
         /\ \A i \in 1..Len(f.payload) : u[kHeader + i] = f.payload[i]
<1> DEFINE pay == f.payload
           h   == <<kMagic, kProtocolVersion, f.type, Len(pay), crc32(pay)>>
<1>1. f \in [type : FrameTypes, payload : Seq(Nat)] /\ crc32(pay) \in Nat
  BY FrameAssumption
<1>2. pay \in Seq(Nat) /\ f.type \in Nat
  <2>1. f.type \in FrameTypes /\ f.payload \in Seq(Nat)
    BY <1>1
  <2>2. \A t \in FrameTypes : t \in Nat
    BY DEF FrameTypes
  <2> QED BY <2>1, <2>2
<1>3. Len(pay) \in Nat
  BY <1>2, LenProperties
<1>4. h \in Seq(Nat) /\ Len(h) = 5
  BY <1>1, <1>2, <1>3 DEF kMagic, kProtocolVersion
<1>5. /\ h[1] = kMagic /\ h[2] = kProtocolVersion /\ h[3] = f.type
      /\ h[4] = Len(pay) /\ h[5] = crc32(pay)
  OBVIOUS
<1>6. encodeFrame(f) = h \o pay
  BY DEF encodeFrame
<1> HIDE DEF h, pay
<1>7. /\ h \o pay \in Seq(Nat) /\ Len(h \o pay) = 5 + Len(pay)
      /\ \A i \in 1..(5 + Len(pay)) :
           (h \o pay)[i] = IF i <= 5 THEN h[i] ELSE pay[i - 5]
  <2>1. /\ h \o pay \in Seq(Nat) /\ Len(h \o pay) = Len(h) + Len(pay)
        /\ \A i \in 1..(Len(h) + Len(pay)) :
             (h \o pay)[i] = IF i <= Len(h) THEN h[i] ELSE pay[i - Len(h)]
    BY <1>2, <1>4, ConcatProperties
  <2> QED BY <1>4, <2>1
<1>8. \A i \in 1..5 : (h \o pay)[i] = h[i]
  BY <1>3, <1>7
<1>9. \A i \in 1..Len(pay) : (h \o pay)[5 + i] = pay[i]
  BY <1>3, <1>7
<1> DEFINE u == encodeFrame(f)
<1>10. u \in Seq(Nat) /\ Len(u) = kHeader + Len(pay)
  BY <1>6, <1>7 DEF kHeader
<1>11. /\ u[1] = kMagic /\ u[2] = kProtocolVersion /\ u[3] = f.type
       /\ u[4] = Len(pay) /\ u[5] = crc32(pay)
  <2>1. 1 \in 1..5 /\ 2 \in 1..5 /\ 3 \in 1..5 /\ 4 \in 1..5 /\ 5 \in 1..5
    OBVIOUS
  <2>2. \A i \in 1..5 : u[i] = h[i]
    BY <1>6, <1>8
  <2> HIDE DEF u
  <2>3. u[1] = h[1] /\ u[2] = h[2] /\ u[3] = h[3] /\ u[4] = h[4] /\ u[5] = h[5]
    BY <2>1, <2>2
  <2> QED BY <1>5, <2>3
<1>12. \A i \in 1..Len(pay) : u[kHeader + i] = pay[i]
  BY <1>6, <1>9 DEF kHeader
<1> QED BY <1>10, <1>11, <1>12 DEF pay

\* A fault changes one unit of the header.
LEMMA FaultyUnits ==
  ASSUME NEW p \in Packets
  PROVE  /\ p.frame \in Frames /\ Len(p.frame.payload) <= MaxPayload
         /\ MaxPayload \in Nat
         /\ p.fault = "none" => Units(p) = encodeFrame(p.frame)
         /\ p.fault # "none" => \E k \in 1..5, v \in Nat :
              /\ Units(p) = [encodeFrame(p.frame) EXCEPT ![k] = v]
              /\ \/ k = 1 /\ v # kMagic
                 \/ k = 2 /\ v # kProtocolVersion
                 \/ k = 3 /\ v \notin FrameTypes
                 \/ k = 4 /\ v > MaxPayload
                 \/ k = 5 /\ v # crc32(p.frame.payload)
<1> DEFINE f == p.frame
           u == encodeFrame(f)
<1>1. /\ f \in Frames /\ Len(f.payload) <= MaxPayload /\ MaxPayload \in Nat
      /\ p.fault \in {"none", "magic", "version", "type", "size", "checksum"}
  BY WireAssumption DEF Packets
<1>2. /\ u[1] = kMagic /\ u[2] = kProtocolVersion /\ u[5] = crc32(f.payload)
      /\ crc32(f.payload) \in Nat
  BY <1>1, EncodedUnits, FrameAssumption
<1>3. CASE p.fault = "none"
  BY <1>1, <1>3 DEF Units
<1>4. CASE p.fault = "magic"
  <2>1. Units(p) = [u EXCEPT ![1] = kMagic + 1]
    BY <1>2, <1>4 DEF Units
  <2>2. 1 \in 1..5 /\ kMagic + 1 \in Nat /\ kMagic + 1 # kMagic
    BY DEF kMagic
  <2> QED BY <1>1, <1>4, <2>1, <2>2
<1>5. CASE p.fault = "version"
  <2>1. Units(p) = [u EXCEPT ![2] = kProtocolVersion + 1]
    BY <1>2, <1>5 DEF Units
  <2>2. 2 \in 1..5 /\ kProtocolVersion + 1 \in Nat
        /\ kProtocolVersion + 1 # kProtocolVersion
    BY DEF kProtocolVersion
  <2> QED BY <1>1, <1>5, <2>1, <2>2
<1>6. CASE p.fault = "type"
  <2>1. Units(p) = [u EXCEPT ![3] = 25]
    BY <1>6 DEF Units
  <2>2. 3 \in 1..5 /\ 25 \in Nat /\ 25 \notin FrameTypes
    BY DEF FrameTypes
  <2> QED BY <1>1, <1>6, <2>1, <2>2
<1>7. CASE p.fault = "size"
  <2> DEFINE v == 4 * (kHeader + MaxPayload)
  <2>1. Units(p) = [u EXCEPT ![4] = v]
    BY <1>7 DEF Units
  <2>2. 4 \in 1..5 /\ v \in Nat /\ v > MaxPayload
    BY <1>1 DEF kHeader
  <2> HIDE DEF v
  <2> QED BY <1>1, <1>7, <2>1, <2>2
<1>8. CASE p.fault = "checksum"
  <2> DEFINE c == crc32(f.payload)
  <2>1. Units(p) = [u EXCEPT ![5] = c + 1]
    BY <1>2, <1>8 DEF Units
  <2>2. 5 \in 1..5 /\ c + 1 \in Nat /\ c + 1 # c
    BY <1>2
  <2> QED BY <1>1, <1>8, <2>1, <2>2
<1> QED BY <1>1, <1>3, <1>4, <1>5, <1>6, <1>7, <1>8

\* The units of a packet are as many as of its frame, and end with its payload.
LEMMA PacketUnits ==
  ASSUME NEW p \in Packets
  PROVE  /\ Units(p) \in Seq(Nat)
         /\ Len(Units(p)) = kHeader + Len(p.frame.payload)
         /\ \A i \in 1..Len(p.frame.payload) :
              Units(p)[kHeader + i] = p.frame.payload[i]
<1> DEFINE f == p.frame
           u == encodeFrame(f)
<1>1. /\ f \in Frames /\ u \in Seq(Nat) /\ Len(u) = 5 + Len(f.payload)
      /\ \A i \in 1..Len(f.payload) : u[5 + i] = f.payload[i]
  BY FaultyUnits, EncodedUnits DEF kHeader
<1>2. Len(f.payload) \in Nat
  BY <1>1, FrameAssumption, LenProperties
<1>3. CASE p.fault = "none"
  BY <1>1, <1>3, FaultyUnits DEF kHeader
<1>4. CASE p.fault # "none"
  <2>1. PICK k \in 1..5, v \in Nat : Units(p) = [u EXCEPT ![k] = v]
    BY <1>4, FaultyUnits
  <2> HIDE DEF u
  <2>2. k \in 1..Len(u)
    BY <1>1, <1>2
  <2>3. /\ [u EXCEPT ![k] = v] \in Seq(Nat) /\ Len([u EXCEPT ![k] = v]) = Len(u)
        /\ \A j \in 1..Len(u) : [u EXCEPT ![k] = v][j] = IF j = k THEN v ELSE u[j]
    BY <1>1, <2>2, ExceptSeq
  <2>4. \A i \in 1..Len(f.payload) : [u EXCEPT ![k] = v][5 + i] = f.payload[i]
    <3> HIDE DEF f
    <3> TAKE i \in 1..Len(f.payload)
    <3>1. 5 + i \in 1..Len(u) /\ 5 + i # k
      BY ONLY <1>1, <1>2, k \in 1..5, i \in 1..Len(f.payload)
    <3>2. [u EXCEPT ![k] = v][5 + i] = u[5 + i]
      BY <2>3, <3>1, Zenon
    <3> QED BY <1>1, <3>2, Zenon
  <2> QED BY <1>1, <2>1, <2>3, <2>4 DEF kHeader
<1> QED BY <1>3, <1>4

-----------------------------------------------------------------------------
\* What the three results of decodeFrame say about the buffer.
LEMMA Decoded ==
  ASSUME NEW b \in Seq(Nat)
  PROVE  LET d   == decodeFrame(b)
             pay == SubSeq(b, kHeader + 1, kHeader + b[4])
         IN
         /\ d.status = "INCOMPLETE" => Len(b) < kHeader + MaxPayload
         /\ d.status = "ERROR" =>
              /\ Len(b) >= kHeader
              /\ \/ b[1] # kMagic \/ b[2] # kProtocolVersion
                 \/ b[3] \notin FrameTypes \/ b[4] > MaxPayload
                 \/ Len(b) >= kHeader + b[4] /\ crc32(pay) # b[5]
         /\ d.status = "OK" =>
              /\ Len(b) >= kHeader
              /\ b[1] = kMagic /\ b[2] = kProtocolVersion /\ b[3] \in FrameTypes
              /\ ~(b[4] > MaxPayload) /\ Len(b) >= kHeader + b[4]
              /\ crc32(pay) = b[5]
              /\ d.frame = [type |-> b[3], payload |-> pay]
              /\ d.consumed = kHeader + b[4]
<1> DEFINE bad == \/ b[1] # kMagic \/ b[2] # kProtocolVersion
                  \/ b[3] \notin FrameTypes \/ b[4] > MaxPayload
           pay == SubSeq(b, kHeader + 1, kHeader + b[4])
           ok  == [status |-> "OK", frame |-> [type |-> b[3], payload |-> pay],
                   consumed |-> kHeader + b[4]]
<1>1. Len(b) \in Nat /\ MaxPayload \in Nat /\ kHeader = 5
  BY LenProperties, WireAssumption DEF kHeader
<1>2. decodeFrame(b) =
        IF Len(b) < kHeader THEN [status |-> "INCOMPLETE"]
        ELSE IF bad THEN [status |-> "ERROR"]
        ELSE IF Len(b) < kHeader + b[4] THEN [status |-> "INCOMPLETE"]
        ELSE IF crc32(pay) # b[5] THEN [status |-> "ERROR"] ELSE ok
  BY DEF decodeFrame
<1>3. CASE Len(b) < kHeader
  BY <1>1, <1>2, <1>3
<1>4. CASE ~(Len(b) < kHeader)
  <2>1. b[4] \in Nat
    <3>1. 4 \in 1..Len(b)
      BY <1>1, <1>4
    <3> QED BY <3>1, ElementOfSeq
  <2>2. Len(b) >= kHeader
    BY <1>1, <1>4
  <2>3. CASE bad
    <3>1. decodeFrame(b).status = "ERROR"
      BY <1>2, <1>4, <2>3
    <3> QED BY <2>2, <2>3, <3>1
  <2>4. CASE ~bad /\ Len(b) < kHeader + b[4]
    <3>1. decodeFrame(b).status = "INCOMPLETE"
      BY <1>2, <1>4, <2>4
    <3>2. Len(b) < kHeader + MaxPayload
      BY <1>1, <2>1, <2>4
    <3> QED BY <3>1, <3>2
  <2>5. CASE ~bad /\ ~(Len(b) < kHeader + b[4])
    <3>1. Len(b) >= kHeader + b[4]
      BY <1>1, <2>1, <2>5
    <3> HIDE DEF pay
    <3>2. CASE crc32(pay) # b[5]
      <4>1. decodeFrame(b).status = "ERROR"
        BY <1>2, <1>4, <2>5, <3>2
      <4> QED BY <2>2, <3>1, <3>2, <4>1 DEF pay
    <3>3. CASE crc32(pay) = b[5]
      <4>1. decodeFrame(b) = ok
        BY <1>2, <1>4, <2>5, <3>3
      <4> QED BY <2>2, <2>5, <3>1, <3>3, <4>1 DEF pay
    <3> QED BY <3>2, <3>3
  <2> QED BY <2>3, <2>4, <2>5
<1> QED BY <1>3, <1>4

-----------------------------------------------------------------------------
(***************************************************************************)
(* The buffer is bounded. The bound of BufferBounded is not inductive: the  *)
(* loop goes back to recv only with less than one whole frame.              *)
(***************************************************************************)
WireTypes ==
  /\ sent \in Seq(Packets)
  /\ stream \in Seq(Nat)
  /\ buf \in Seq(Nat)
  /\ at \in {"recv", "decode", "refused", "hung up"}

BufferInv ==
  /\ WireTypes
  /\ BufferBounded
  /\ at = "recv" => Len(buf) < kHeader + MaxPayload

\* Concatenation is associative.
LEMMA Regrouped ==
  ASSUME NEW x \in Seq(Nat), NEW y \in Seq(Nat), NEW z \in Seq(Nat)
  PROVE  x \o (y \o z) = (x \o y) \o z
  BY SMTT(30)

\* What recv moves from the stream to the buffer leaves the two together as
\* they were.
LEMMA RecvMoves ==
  ASSUME WireTypes, NEW n \in 1..Len(stream)
  PROVE  LET b == buf \o SubSeq(stream, 1, n)
             r == SubSeq(stream, n + 1, Len(stream))
         IN  /\ b \in Seq(Nat) /\ r \in Seq(Nat)
             /\ Len(b) = Len(buf) + n
             /\ b \o r = buf \o stream
<1> DEFINE c == SubSeq(stream, 1, n)
           r == SubSeq(stream, n + 1, Len(stream))
<1>1. /\ stream \in Seq(Nat) /\ buf \in Seq(Nat)
      /\ Len(stream) \in Nat /\ Len(buf) \in Nat /\ n \in Nat
      /\ \A i \in 1..Len(stream) : stream[i] \in Nat
  <2>1. stream \in Seq(Nat) /\ buf \in Seq(Nat)
    BY DEF WireTypes
  <2>2. Len(stream) \in Nat /\ Len(buf) \in Nat
    BY <2>1, LenProperties
  <2>3. \A i \in 1..Len(stream) : stream[i] \in Nat
    BY <2>1, ElementOfSeq
  <2> QED BY <2>1, <2>2, <2>3
<1>2. /\ c \in Seq(Nat) /\ Len(c) = n
      /\ \A i \in 1..n : c[i] = stream[i]
  <2>1. \A i \in 1..n : stream[i] \in Nat
    BY <1>1
  <2>2. /\ c \in Seq(Nat) /\ Len(c) = IF 1 <= n THEN n - 1 + 1 ELSE 0
        /\ \A i \in 1..(n - 1 + 1) : c[i] = stream[1 + i - 1]
    BY <1>1, <2>1, SubSeqProperties
  <2> HIDE DEF c
  <2> QED BY <1>1, <2>2
<1>3. /\ r \in Seq(Nat) /\ Len(r) = Len(stream) - n
      /\ \A i \in 1..(Len(stream) - n) : r[i] = stream[n + i]
  <2>1. \A i \in (n + 1)..Len(stream) : stream[i] \in Nat
    BY <1>1
  <2>2. /\ r \in Seq(Nat)
        /\ Len(r) = IF n + 1 <= Len(stream) THEN Len(stream) - (n + 1) + 1 ELSE 0
        /\ \A i \in 1..(Len(stream) - (n + 1) + 1) : r[i] = stream[(n + 1) + i - 1]
    BY <1>1, <2>1, SubSeqProperties
  <2> HIDE DEF r
  <2> QED BY <1>1, <2>2
<1> HIDE DEF c, r
<1>4. c \o r = stream
  <2>1. /\ c \o r \in Seq(Nat) /\ Len(c \o r) = Len(c) + Len(r)
        /\ \A i \in 1..(Len(c) + Len(r)) :
             (c \o r)[i] = IF i <= Len(c) THEN c[i] ELSE r[i - Len(c)]
    BY <1>2, <1>3, ConcatProperties
  <2>2. Len(c \o r) = Len(stream)
    BY <1>1, <1>2, <1>3, <2>1
  <2>3. \A i \in 1..Len(c \o r) : (c \o r)[i] = stream[i]
    <3> TAKE i \in 1..Len(c \o r)
    <3>1. CASE i <= n
      BY <3>1, <1>1, <1>2, <1>3, <2>1, <2>2
    <3>2. CASE ~(i <= n)
      <4>1. i - n \in 1..(Len(stream) - n)
        BY <3>2, <1>1, <2>2
      <4>2. r[i - n] = stream[n + (i - n)]
        BY <4>1, <1>3
      <4>3. (c \o r)[i] = r[i - n]
        BY <3>2, <1>1, <1>2, <2>1
      <4>4. n + (i - n) = i
        BY <1>1
      <4> QED BY <4>2, <4>3, <4>4
    <3> QED BY <3>1, <3>2
  <2> QED BY <1>1, <2>1, <2>2, <2>3, SeqEqual
<1>5. (buf \o c) \o r = buf \o stream
  <2>1. buf \in Seq(Nat) /\ c \in Seq(Nat) /\ r \in Seq(Nat)
    BY <1>1, <1>2, <1>3
  <2>2. (buf \o c) \o r = buf \o (c \o r)
    BY <2>1, Regrouped
  <2> QED BY <1>4, <2>2
<1>6. buf \o c \in Seq(Nat) /\ Len(buf \o c) = Len(buf) + n
  BY <1>1, <1>2, ConcatProperties
<1> QED BY <1>3, <1>5, <1>6 DEF c, r

\* What the erase of Dispatch leaves of the buffer.
LEMMA Erased ==
  ASSUME NEW w \in Seq(Nat), NEW c \in 0..Len(w)
  PROVE  LET v == SubSeq(w, c + 1, Len(w)) IN
         /\ v \in Seq(Nat) /\ Len(v) = Len(w) - c
         /\ \A i \in 1..(Len(w) - c) : v[i] = w[c + i]
<1> DEFINE v == SubSeq(w, c + 1, Len(w))
<1>1. Len(w) \in Nat /\ c \in Nat /\ \A i \in 1..Len(w) : w[i] \in Nat
  BY LenProperties, ElementOfSeq
<1>2. \A i \in (c + 1)..Len(w) : w[i] \in Nat
  BY <1>1
<1>3. /\ v \in Seq(Nat)
      /\ Len(v) = IF c + 1 <= Len(w) THEN Len(w) - (c + 1) + 1 ELSE 0
      /\ \A i \in 1..(Len(w) - (c + 1) + 1) : v[i] = w[(c + 1) + i - 1]
  BY <1>1, <1>2, SubSeqProperties
<1> HIDE DEF v
<1>4. /\ v \in Seq(Nat) /\ Len(v) = Len(w) - c
      /\ \A i \in 1..(Len(w) - c) : v[i] = w[c + i]
  BY <1>1, <1>3
<1> QED BY <1>4 DEF v

\* A frame that decodeFrame accepts is no longer than the buffer.
LEMMA ConsumedFits ==
  ASSUME NEW b \in Seq(Nat), decodeFrame(b).status = "OK"
  PROVE  /\ decodeFrame(b).consumed \in 0..Len(b)
         /\ decodeFrame(b).consumed = kHeader + b[4] /\ b[4] \in Nat
<1>1. /\ Len(b) >= kHeader /\ Len(b) >= kHeader + b[4]
      /\ decodeFrame(b).consumed = kHeader + b[4] /\ Len(b) \in Nat
  BY Decoded, LenProperties
<1>2. b[4] \in Nat
  <2>1. 4 \in 1..Len(b)
    BY <1>1 DEF kHeader
  <2> QED BY <2>1, ElementOfSeq
<1> QED BY <1>1, <1>2 DEF kHeader

\* Every step of the peer and of the loop keeps the buffer's invariant.
LEMMA BufferStep == BufferInv /\ [WireNext]_wireVars => BufferInv'
<1> SUFFICES ASSUME BufferInv, [WireNext]_wireVars PROVE BufferInv'
  OBVIOUS
<1>1. /\ WireTypes /\ Len(buf) \in Nat /\ Len(stream) \in Nat
      /\ MaxPayload \in Nat /\ RecvSize \in Nat
      /\ Len(buf) < kHeader + MaxPayload + RecvSize
  BY LenProperties, WireAssumption DEF BufferInv, WireTypes, BufferBounded
<1>2. ASSUME NEW p \in Packets, Send(p) PROVE BufferInv'
  <2>1. Units(p) \in Seq(Nat)
    BY PacketUnits
  <2>2. stream' \in Seq(Nat) /\ sent' \in Seq(Packets)
    BY <1>1, <1>2, <2>1, ConcatProperties, AppendProperties DEF Send, WireTypes
  <2> QED BY <1>2, <2>2 DEF Send, BufferInv, WireTypes, BufferBounded
<1>3. ASSUME Recv PROVE BufferInv'
  <2>1. PICK n \in 1..RecvSize :
          /\ n <= Len(stream)
          /\ buf' = buf \o SubSeq(stream, 1, n)
          /\ stream' = SubSeq(stream, n + 1, Len(stream))
    BY <1>3 DEF Recv
  <2>2. n \in 1..Len(stream) /\ n <= RecvSize
    BY <1>1, <2>1
  <2>3. buf' \in Seq(Nat) /\ stream' \in Seq(Nat) /\ Len(buf') = Len(buf) + n
    BY <1>1, <2>1, <2>2, RecvMoves
  <2>4. Len(buf) < kHeader + MaxPayload
    BY <1>3 DEF Recv, BufferInv
  <2>5. Len(buf') < kHeader + MaxPayload + RecvSize
    BY <1>1, <2>2, <2>3, <2>4 DEF kHeader
  <2> QED BY <1>1, <1>3, <2>3, <2>5 DEF Recv, BufferInv, WireTypes, BufferBounded
<1>4. ASSUME NeedMore PROVE BufferInv'
  <2>1. Len(buf) < kHeader + MaxPayload
    BY <1>1, <1>4, Decoded DEF NeedMore, WireTypes
  <2> QED BY <1>4, <2>1 DEF NeedMore, BufferInv, WireTypes, BufferBounded
<1>5. ASSUME FrameError \/ Hangup PROVE BufferInv'
  BY <1>5 DEF FrameError, Hangup, BufferInv, WireTypes, BufferBounded
<1>6. ASSUME Dispatch PROVE BufferInv'
  <2> DEFINE c == decodeFrame(buf).consumed
  <2>1. /\ decodeFrame(buf).status = "OK" /\ buf' = SubSeq(buf, c + 1, Len(buf))
        /\ at = "decode" /\ UNCHANGED <<sent, stream, at>>
    BY <1>6 DEF Dispatch
  <2>2. c \in 0..Len(buf)
    BY <1>1, <2>1, ConsumedFits DEF WireTypes
  <2> HIDE DEF c
  <2>3. buf' \in Seq(Nat) /\ Len(buf') = Len(buf) - c
    BY <1>1, <2>1, <2>2, Erased DEF WireTypes
  <2>4. Len(buf') < kHeader + MaxPayload + RecvSize
    BY <1>1, <2>2, <2>3 DEF kHeader
  <2> QED BY <1>1, <2>1, <2>3, <2>4 DEF BufferInv, WireTypes, BufferBounded
<1>7. CASE UNCHANGED wireVars
  BY <1>7 DEF wireVars, BufferInv, WireTypes, BufferBounded
<1> QED BY <1>2, <1>3, <1>4, <1>5, <1>6, <1>7 DEF WireNext, Loop

\* The buffer's invariant holds throughout.
LEMMA BufferInductive == WireSpec => []BufferInv
<1>1. WireInit => BufferInv
  BY WireAssumption DEF WireInit, BufferInv, WireTypes, BufferBounded, kHeader
<1> QED BY <1>1, BufferStep, PTL DEF WireSpec

\* BufferBounded of the receive loop in coordinator.cpp: whatever lengths headers
\* claim and however the stream is cut, a connection never buffers more than one
\* frame of the largest payload and one recv.
THEOREM BufferIsBounded == WireSpec => []BufferBounded
<1>1. BufferInv => BufferBounded
  BY DEF BufferInv
<1> QED BY <1>1, BufferInductive, PTL

-----------------------------------------------------------------------------
(***************************************************************************)
(* The loop implements FrameChannel, as far as safety goes. What is in the  *)
(* buffer and under way is, cut at the right places, the packets sent and   *)
(* not yet dispatched: packet k ends at off[k].                             *)
(***************************************************************************)
IsCut(w, s, d, off) ==
  /\ d <= Len(s)
  /\ off[d] = 0 /\ off[Len(s)] = Len(w)
  /\ \A k \in d..Len(s) : off[k] \in Nat
  /\ \A j, k \in d..Len(s) : j <= k => off[j] <= off[k]
  /\ \A k \in d..(Len(s) - 1) :
       /\ off[k + 1] = off[k] + Len(Units(s[k + 1]))
       /\ \A i \in 1..Len(Units(s[k + 1])) : w[off[k] + i] = Units(s[k + 1])[i]

\* An index of a piece that ends within m lies within m, however much follows.
LEMMA IndexWithin ==
  ASSUME NEW a \in Nat, NEW x \in Nat, NEW m \in Nat, NEW y \in Nat,
         NEW i \in 1..x, a + x <= m
  PROVE  a + i \in 1..(m + y) /\ a + i <= m
  OBVIOUS

\* A packet that is sent makes one more piece.
LEMMA CutAppend ==
  ASSUME NEW w \in Seq(Nat), NEW s \in Seq(Packets), NEW d \in Nat,
         NEW off, IsCut(w, s, d, off), NEW p \in Packets
  PROVE  \E o : IsCut(w \o Units(p), Append(s, p), d, o)
<1> DEFINE n == Len(s)
           m == Len(w)
           u == Units(p)
           v == w \o u
           t == Append(s, p)
<1>1. n \in Nat /\ m \in Nat /\ u \in Seq(Nat) /\ Len(u) \in Nat
  BY PacketUnits, LenProperties
<1>2. /\ v \in Seq(Nat) /\ Len(v) = m + Len(u)
      /\ \A i \in 1..(m + Len(u)) : v[i] = IF i <= m THEN w[i] ELSE u[i - m]
  <2> HIDE DEF u
  <2> QED BY <1>1, ConcatProperties
<1>3. Len(t) = n + 1 /\ t[n + 1] = p /\ \A k \in 1..n : t[k] = s[k]
  BY <1>1, AppendProperties
<1>4. /\ d <= n /\ off[d] = 0 /\ off[n] = m
      /\ \A k \in d..n : off[k] \in Nat
      /\ \A j, k \in d..n : j <= k => off[j] <= off[k]
  BY DEF IsCut
<1> HIDE DEF u, v, t, n, m
<1>5. PICK o : o[n + 1] = m + Len(u) /\ \A k \in d..n : o[k] = off[k]
  <2> DEFINE e == [k \in Nat |-> IF k = n + 1 THEN m + Len(u) ELSE off[k]]
  <2>1. n + 1 \in Nat
    BY <1>1
  <2>2. \A k \in d..n : k \in Nat /\ k # n + 1
    BY <1>1
  <2>3. e[n + 1] = m + Len(u) /\ \A k \in d..n : e[k] = off[k]
    BY <2>1, <2>2
  <2> QED BY <2>3
<1>6. d <= Len(t) /\ o[d] = 0 /\ o[Len(t)] = Len(v)
  <2>1. d \in d..n /\ d <= n + 1
    BY <1>1, <1>4
  <2>2. o[d] = off[d]
    BY <1>5, <2>1
  <2> QED BY <1>2, <1>3, <1>4, <1>5, <2>1, <2>2
<1>7. ASSUME NEW j \in d..Len(t), NEW k \in d..Len(t), j <= k
      PROVE  o[j] <= o[k]
  <2>1. \A i \in d..n : o[i] <= m /\ o[i] \in Nat
    <3> TAKE i \in d..n
    <3>1. n \in d..n /\ i <= n /\ i \in Nat
      BY <1>1, <1>4
    <3>2. off[i] <= off[n] /\ o[i] = off[i] /\ off[i] \in Nat
      BY <1>4, <1>5, <3>1
    <3> QED BY <1>4, <3>2
  <2>2. CASE k = n + 1
    <3>1. j = n + 1 \/ j \in d..n
      BY <1>1, <1>3, <1>7
    <3>2. CASE j = n + 1
      BY <1>1, <1>5, <2>2, <3>2
    <3>3. CASE j \in d..n
      <4>1. o[j] <= m /\ o[j] \in Nat /\ o[k] = m + Len(u)
        BY <1>5, <2>1, <2>2, <3>3
      <4> QED BY <1>1, <4>1
    <3> QED BY <3>1, <3>2, <3>3
  <2>3. CASE k # n + 1
    <3>1. j \in d..n /\ k \in d..n
      BY <1>1, <1>3, <1>7, <2>3
    <3> QED BY <1>4, <1>5, <1>7, <3>1
  <2> QED BY <2>2, <2>3
<1>8. \A k \in d..Len(t) : o[k] \in Nat
  <2> TAKE k \in d..Len(t)
  <2>1. k = n + 1 \/ k \in d..n
    BY <1>1, <1>3
  <2>2. m + Len(u) \in Nat
    BY <1>1
  <2> QED BY <1>4, <1>5, <2>1, <2>2
<1>9. ASSUME NEW k \in d..(Len(t) - 1)
      PROVE  /\ o[k + 1] = o[k] + Len(Units(t[k + 1]))
             /\ \A i \in 1..Len(Units(t[k + 1])) : v[o[k] + i] = Units(t[k + 1])[i]
  <2>1. k \in d..n
    BY <1>1, <1>3
  <2>2. CASE k = n
    <3>1. t[k + 1] = p /\ o[k] = m /\ o[k + 1] = m + Len(u)
      BY <1>1, <1>3, <1>4, <1>5, <2>1, <2>2
    <3>2. \A i \in 1..Len(u) : v[m + i] = u[i]
      <4> TAKE i \in 1..Len(u)
      <4>1. m + i \in 1..(m + Len(u)) /\ ~(m + i <= m) /\ (m + i) - m = i
        BY <1>1
      <4> QED BY <1>2, <4>1
    <3> QED BY <3>1, <3>2 DEF u
  <2>3. CASE k # n
    <3>1. k \in d..(n - 1) /\ k + 1 \in d..n /\ k + 1 \in 1..n
      BY <1>1, <2>1, <2>3
    <3>2. t[k + 1] = s[k + 1] /\ o[k] = off[k] /\ o[k + 1] = off[k + 1]
      BY <1>3, <1>5, <2>1, <3>1
    <3> DEFINE x == Units(s[k + 1])
    <3>3. /\ off[k + 1] = off[k] + Len(x)
          /\ \A i \in 1..Len(x) : w[off[k] + i] = x[i]
      BY <3>1 DEF IsCut, n
    <3>4. off[k + 1] <= m /\ off[k] \in Nat
      <4>1. n \in d..n /\ k + 1 <= n /\ k \in Nat
        BY <1>1, <3>1
      <4>2. off[k + 1] <= off[n] /\ off[k] \in Nat
        BY <1>4, <3>1, <4>1
      <4> QED BY <1>4, <4>2
    <3>5. Len(x) \in Nat
      <4>1. s[k + 1] \in Packets
        BY <3>1, ElementOfSeq DEF n
      <4> QED BY <4>1, PacketUnits, LenProperties
    <3> HIDE DEF x
    <3>6. \A i \in 1..Len(x) : v[off[k] + i] = w[off[k] + i]
      <4> TAKE i \in 1..Len(x)
      <4>1. off[k] + Len(x) <= m /\ off[k] \in Nat
        BY <3>3, <3>4
      <4>2. off[k] + i \in 1..(m + Len(u)) /\ off[k] + i <= m
        BY <1>1, <3>5, <4>1, IndexWithin, Zenon
      <4> QED BY <1>2, <4>2
    <3> QED BY <3>2, <3>3, <3>6 DEF x
  <2> QED BY <2>2, <2>3
<1>10. IsCut(v, t, d, o)
  BY <1>6, <1>7, <1>9, <1>8 DEF IsCut
<1> QED BY <1>10 DEF v, t, u

\* The first piece is the first packet not yet dispatched.
LEMMA CutHead ==
  ASSUME NEW w \in Seq(Nat), NEW s \in Seq(Packets), NEW d \in Nat,
         NEW off, IsCut(w, s, d, off), Len(w) # 0
  PROVE  /\ d + 1 \in 1..Len(s) /\ s[d + 1] \in Packets
         /\ Len(Units(s[d + 1])) \in 0..Len(w) /\ off[d + 1] = Len(Units(s[d + 1]))
         /\ \A i \in 1..Len(Units(s[d + 1])) : w[i] = Units(s[d + 1])[i]
<1>1. Len(s) \in Nat /\ Len(w) \in Nat
  BY LenProperties
<1>2. d <= Len(s) /\ off[d] = 0 /\ off[Len(s)] = Len(w)
  BY DEF IsCut
<1>3. d \in d..(Len(s) - 1) /\ d + 1 \in d..Len(s) /\ Len(s) \in d..Len(s)
      /\ d + 1 \in 1..Len(s) /\ d + 1 <= Len(s)
  <2>1. d # Len(s)
    BY <1>2
  <2> QED BY <1>1, <1>2, <2>1
<1>4. s[d + 1] \in Packets
  BY <1>3, ElementOfSeq
<1> DEFINE u == Units(s[d + 1])
<1>5. Len(u) \in Nat
  BY <1>4, PacketUnits, LenProperties
<1>6. /\ off[d + 1] = off[d] + Len(u)
      /\ \A i \in 1..Len(u) : w[off[d] + i] = u[i]
      /\ off[d + 1] <= off[Len(s)]
  BY <1>3 DEF IsCut
<1> HIDE DEF u
<1>7. \A i \in 1..Len(u) : w[i] = u[i]
  <2> TAKE i \in 1..Len(u)
  <2>1. w[off[d] + i] = u[i] /\ off[d] + i = i
    BY <1>2, <1>5, <1>6
  <2> QED BY <2>1
<1>8. off[d + 1] = Len(u) /\ Len(u) \in 0..Len(w)
  BY <1>1, <1>2, <1>5, <1>6
<1> QED BY <1>3, <1>4, <1>7, <1>8 DEF u

\* Where an index of a piece lies once c units before it are gone.
LEMMA ShiftedIndex ==
  ASSUME NEW a \in Nat, NEW c \in Nat, NEW i \in Nat, NEW x \in Nat, NEW l \in Nat,
         a >= c, 1 <= i, i <= x, a + x <= l
  PROVE  (a - c) + i \in 1..(l - c) /\ c + ((a - c) + i) = a + i
  OBVIOUS

\* Taking it out leaves the cut of the others.
LEMMA CutDrop ==
  ASSUME NEW w \in Seq(Nat), NEW s \in Seq(Packets), NEW d \in Nat,
         NEW off, IsCut(w, s, d, off), Len(w) # 0
  PROVE  \E o :
           IsCut(SubSeq(w, Len(Units(s[d + 1])) + 1, Len(w)), s, d + 1, o)
<1> DEFINE n == Len(s)
           c == Len(Units(s[d + 1]))
           v == SubSeq(w, c + 1, Len(w))
<1>1. n \in Nat /\ Len(w) \in Nat
  BY LenProperties
<1>2. d + 1 \in 1..n /\ c \in 0..Len(w) /\ off[d + 1] = c
  BY CutHead
<1> HIDE DEF c
<1>3. v \in Seq(Nat) /\ Len(v) = Len(w) - c
      /\ \A i \in 1..(Len(w) - c) : v[i] = w[c + i]
  BY <1>2, Erased
<1>4. /\ off[n] = Len(w) /\ \A k \in d..n : off[k] \in Nat
      /\ \A j, k \in d..n : j <= k => off[j] <= off[k]
  BY DEF IsCut
<1> HIDE DEF n, v
<1>5. c \in Nat
  BY <1>1, <1>2
<1>6. \A k \in (d + 1)..n : off[k] \in Nat /\ off[k] >= c /\ off[k] <= Len(w)
  <2> TAKE k \in (d + 1)..n
  <2>1. d + 1 \in d..n /\ k \in d..n /\ n \in d..n /\ d + 1 <= k /\ k <= n /\ k \in Nat
    BY <1>1, <1>2
  <2>2. off[d + 1] <= off[k] /\ off[k] <= off[n] /\ off[k] \in Nat
    BY <1>4, <2>1
  <2> QED BY <1>2, <1>4, <1>5, <2>2
<1>7. PICK o : \A k \in (d + 1)..n : o[k] = off[k] - c
  <2> DEFINE e == [k \in (d + 1)..n |-> off[k] - c]
  <2>1. \A k \in (d + 1)..n : e[k] = off[k] - c
    OBVIOUS
  <2> QED BY <2>1
<1>8. d + 1 <= n /\ o[d + 1] = 0 /\ o[n] = Len(v)
  <2>1. d + 1 \in (d + 1)..n /\ n \in (d + 1)..n /\ d + 1 <= n
    BY <1>1, <1>2
  <2>2. o[d + 1] = off[d + 1] - c /\ o[n] = off[n] - c
    BY <1>7, <2>1
  <2> QED BY <1>2, <1>3, <1>4, <1>5, <2>1, <2>2
<1>9. ASSUME NEW j \in (d + 1)..n, NEW k \in (d + 1)..n, j <= k
      PROVE  o[j] <= o[k]
  <2>1. j \in d..n /\ k \in d..n
    BY <1>1
  <2>2. off[j] <= off[k]
    BY <1>4, <1>9, <2>1
  <2>3. o[j] = off[j] - c /\ o[k] = off[k] - c /\ off[j] \in Nat /\ off[k] \in Nat
    BY <1>6, <1>7
  <2> QED BY <1>5, <2>2, <2>3
<1>10. ASSUME NEW k \in (d + 1)..(n - 1)
       PROVE  /\ o[k + 1] = o[k] + Len(Units(s[k + 1]))
              /\ \A i \in 1..Len(Units(s[k + 1])) : v[o[k] + i] = Units(s[k + 1])[i]
  <2> DEFINE x == Units(s[k + 1])
  <2>1. /\ k \in d..(n - 1) /\ k \in (d + 1)..n /\ k + 1 \in (d + 1)..n
        /\ k + 1 \in 1..n
    BY <1>1
  <2>2. /\ off[k + 1] = off[k] + Len(x)
        /\ \A i \in 1..Len(x) : w[off[k] + i] = x[i]
    BY <2>1 DEF IsCut, n
  <2>3. Len(x) \in Nat
    <3>1. s[k + 1] \in Packets
      BY <2>1, ElementOfSeq DEF n
    <3> QED BY <3>1, PacketUnits, LenProperties
  <2> HIDE DEF x
  <2>4. /\ o[k] = off[k] - c /\ o[k + 1] = off[k + 1] - c
        /\ off[k] \in Nat /\ off[k] >= c /\ off[k + 1] <= Len(w)
    BY <1>6, <1>7, <2>1
  <2>5. \A i \in 1..Len(x) : v[o[k] + i] = x[i]
    <3> TAKE i \in 1..Len(x)
    <3>1. o[k] + i \in 1..(Len(w) - c) /\ c + (o[k] + i) = off[k] + i
      <4>1. i \in Nat /\ 1 <= i /\ i <= Len(x) /\ off[k] + Len(x) <= Len(w)
        BY <2>2, <2>3, <2>4
      <4>2. /\ (off[k] - c) + i \in 1..(Len(w) - c)
            /\ c + ((off[k] - c) + i) = off[k] + i
        <5>1. off[k] \in Nat /\ off[k] >= c
          BY <2>4
        <5>2. PICK a \in Nat, y \in Nat, l \in Nat :
                a = off[k] /\ y = Len(x) /\ l = Len(w)
          BY <1>1, <2>3, <5>1
        <5>3. a >= c /\ i <= y /\ a + y <= l /\ i \in Nat /\ 1 <= i
          BY <4>1, <5>1, <5>2
        <5>4. (a - c) + i \in 1..(l - c) /\ c + ((a - c) + i) = a + i
          BY <1>5, <5>3, ShiftedIndex
        <5> QED BY <5>2, <5>4
      <4> QED BY <2>4, <4>2
    <3>2. v[o[k] + i] = w[off[k] + i]
      BY <1>3, <3>1
    <3> QED BY <2>2, <3>2
  <2>6. o[k + 1] = o[k] + Len(x)
    BY <1>5, <2>2, <2>3, <2>4
  <2> QED BY <2>5, <2>6 DEF x
<1>11. \A k \in (d + 1)..n : o[k] \in Nat
  BY <1>5, <1>6, <1>7
<1>12. IsCut(v, s, d + 1, o)
  BY <1>8, <1>9, <1>10, <1>11 DEF IsCut, n
<1> QED BY <1>12 DEF v, c

\* A buffer that holds all of a packet's units holds its payload in its place.
LEMMA PayloadOf ==
  ASSUME NEW b \in Seq(Nat), NEW p \in Packets, Len(b) >= Len(Units(p)),
         \A i \in 1..Len(Units(p)) : b[i] = Units(p)[i]
  PROVE  SubSeq(b, kHeader + 1, kHeader + Len(p.frame.payload)) = p.frame.payload
<1> DEFINE pay == p.frame.payload
           q   == SubSeq(b, 6, 5 + Len(pay))
<1>1. /\ p.frame \in Frames /\ Len(Units(p)) = 5 + Len(pay)
      /\ \A i \in 1..Len(pay) : Units(p)[5 + i] = pay[i]
  BY FaultyUnits, PacketUnits DEF kHeader
<1>2. pay \in Seq(Nat)
  <2>1. p.frame \in [type : FrameTypes, payload : Seq(Nat)]
    BY <1>1, FrameAssumption
  <2> QED BY <2>1
<1>3. Len(pay) \in Nat /\ Len(b) \in Nat
  BY <1>2, LenProperties
<1> HIDE DEF pay
<1>4. \A i \in 1..Len(pay) : b[5 + i] = pay[i]
  <2> TAKE i \in 1..Len(pay)
  <2>1. 5 + i \in 1..(5 + Len(pay))
    BY <1>3
  <2> QED BY <1>1, <2>1
<1>5. \A i \in 6..(5 + Len(pay)) : b[i] \in Nat
  <2> TAKE i \in 6..(5 + Len(pay))
  <2>1. i \in 1..Len(b)
    BY <1>1, <1>3
  <2> QED BY <2>1, ElementOfSeq
<1>6. /\ q \in Seq(Nat)
      /\ Len(q) = IF 6 <= 5 + Len(pay) THEN (5 + Len(pay)) - 6 + 1 ELSE 0
      /\ \A i \in 1..((5 + Len(pay)) - 6 + 1) : q[i] = b[6 + i - 1]
  BY <1>3, <1>5, SubSeqProperties
<1> HIDE DEF q
<1>7. Len(q) = Len(pay)
  BY <1>3, <1>6
<1>8. \A i \in 1..Len(q) : q[i] = pay[i]
  <2> TAKE i \in 1..Len(q)
  <2>1. i \in 1..((5 + Len(pay)) - 6 + 1) /\ i \in 1..Len(pay) /\ 6 + i - 1 = 5 + i
    BY <1>3, <1>7
  <2> QED BY <1>4, <1>6, <2>1
<1>9. q = pay
  BY <1>2, <1>6, <1>7, <1>8, SeqEqual
<1> QED BY <1>9 DEF q, pay, kHeader

\* The units of the header are units of whatever holds a whole header.
LEMMA HeaderIndex ==
  ASSUME NEW n \in Nat, n >= 5
  PROVE  \A k \in 1..5 : k \in 1..n /\ k <= n
  OBVIOUS

\* Setting one unit of a packet leaves the others.
LEMMA UnitSet ==
  ASSUME NEW e \in Seq(Nat), NEW k \in 1..Len(e), NEW v \in Nat,
         NEW x, x = [e EXCEPT ![k] = v]
  PROVE  \A j \in 1..Len(e) : x[j] = IF j = k THEN v ELSE e[j]
  BY ExceptSeq

\* The first packet not yet dispatched decides what decodeFrame says of a buffer
\* that begins with it, or with as much of it as has arrived.
LEMMA HeadDecides ==
  ASSUME NEW b \in Seq(Nat), NEW p \in Packets,
         \A i \in 1..Len(b) : i <= Len(Units(p)) => b[i] = Units(p)[i]
  PROVE  /\ decodeFrame(b).status = "OK" =>
              /\ p.fault = "none" /\ decodeFrame(b).frame = p.frame
              /\ decodeFrame(b).consumed = Len(Units(p))
         /\ decodeFrame(b).status = "ERROR" => p.fault # "none"
<1> DEFINE f == p.frame
           u == Units(p)
           d == decodeFrame(b)
<1>1. /\ f \in Frames /\ f \in [type : FrameTypes, payload : Seq(Nat)]
      /\ Len(f.payload) <= MaxPayload /\ MaxPayload \in Nat /\ Len(b) \in Nat
      /\ u \in Seq(Nat) /\ Len(u) = 5 + Len(f.payload)
  BY FaultyUnits, PacketUnits, FrameAssumption, LenProperties DEF kHeader
<1>2. Len(f.payload) \in Nat
  BY <1>1, LenProperties
<1>3. ASSUME Len(b) >= kHeader
      PROVE  b[1] = u[1] /\ b[2] = u[2] /\ b[3] = u[3] /\ b[4] = u[4] /\ b[5] = u[5]
  <2>1. \A i \in 1..5 : i \in 1..Len(b) /\ i <= Len(u)
    <3>1. Len(b) >= 5 /\ Len(b) \in Nat
      BY <1>1, <1>3 DEF kHeader
    <3>2. Len(u) >= 5 /\ Len(u) \in Nat
      <4> HIDE DEF u, f
      <4> QED BY ONLY <1>1, <1>2
    <3> HIDE DEF u
    <3> QED BY ONLY <3>1, <3>2, HeaderIndex
  <2>2. \A i \in 1..5 : b[i] = u[i]
    BY <2>1
  <2>3. 1 \in 1..5 /\ 2 \in 1..5 /\ 3 \in 1..5 /\ 4 \in 1..5 /\ 5 \in 1..5
    OBVIOUS
  <2> HIDE DEF u
  <2> QED BY <2>2, <2>3
<1>4. ASSUME Len(b) >= kHeader + Len(f.payload)
      PROVE  SubSeq(b, kHeader + 1, kHeader + Len(f.payload)) = f.payload
  <2>1. Len(b) >= Len(u)
    BY <1>1, <1>4 DEF kHeader
  <2>2. \A i \in 1..Len(u) : b[i] = u[i]
    <3> TAKE i \in 1..Len(u)
    <3>1. i \in 1..Len(b) /\ i <= Len(u)
      BY <1>1, <1>2, <2>1
    <3> QED BY <3>1
  <2> QED BY <2>1, <2>2, PayloadOf
<1>5. ASSUME d.status = "OK", p.fault = "none"
      PROVE  d.frame = f /\ d.consumed = Len(u)
  <2>1. u[3] = f.type /\ u[4] = Len(f.payload)
    BY <1>1, <1>5, FaultyUnits, EncodedUnits
  <2>2. /\ Len(b) >= kHeader /\ Len(b) >= kHeader + b[4]
        /\ d.frame = [type |-> b[3], payload |-> SubSeq(b, kHeader + 1, kHeader + b[4])]
        /\ d.consumed = kHeader + b[4]
    BY <1>5, Decoded
  <2>3. b[3] = f.type /\ b[4] = Len(f.payload)
    BY <1>3, <2>1, <2>2
  <2>4. d.frame = [type |-> f.type, payload |-> f.payload]
    BY <1>4, <2>2, <2>3
  <2>5. f = [type |-> f.type, payload |-> f.payload]
    BY <1>1
  <2> QED BY <1>1, <2>2, <2>3, <2>4, <2>5 DEF kHeader
<1>6. ASSUME d.status = "OK", p.fault # "none"
      PROVE  FALSE
  <2>1. /\ Len(b) >= kHeader
        /\ b[1] = kMagic /\ b[2] = kProtocolVersion /\ b[3] \in FrameTypes
        /\ ~(b[4] > MaxPayload) /\ Len(b) >= kHeader + b[4]
        /\ crc32(SubSeq(b, kHeader + 1, kHeader + b[4])) = b[5]
    BY <1>6, Decoded
  <2> DEFINE e == encodeFrame(f)
  <2>2. PICK k \in 1..5, v \in Nat :
          /\ u = [e EXCEPT ![k] = v]
          /\ \/ k = 1 /\ v # kMagic
             \/ k = 2 /\ v # kProtocolVersion
             \/ k = 3 /\ v \notin FrameTypes
             \/ k = 4 /\ v > MaxPayload
             \/ k = 5 /\ v # crc32(f.payload)
    BY <1>6, FaultyUnits
  <2>3. e \in Seq(Nat) /\ Len(e) = 5 + Len(f.payload) /\ e[4] = Len(f.payload)
    BY <1>1, EncodedUnits DEF kHeader
  <2> HIDE DEF e, u
  <2>4. u[k] = v /\ (k # 4 => u[4] = e[4])
    <3>1. k \in 1..Len(e) /\ 4 \in 1..Len(e)
      <4>1. Len(e) >= 5 /\ Len(e) \in Nat
        <5> HIDE DEF f
        <5> QED BY ONLY <1>2, <2>3
      <4>2. k \in 1..5 /\ 4 \in 1..5
        BY ONLY k \in 1..5
      <4> QED BY <4>1, <4>2, HeaderIndex, Zenon
    <3>2. \A j \in 1..Len(e) : u[j] = IF j = k THEN v ELSE e[j]
      <4>1. e \in Seq(Nat) /\ k \in 1..Len(e) /\ u = [e EXCEPT ![k] = v]
        BY <2>2, <2>3, <3>1, Zenon
      <4> QED BY <4>1, UnitSet
    <3> QED BY <3>1, <3>2
  <2>5. b[1] = u[1] /\ b[2] = u[2] /\ b[3] = u[3] /\ b[4] = u[4] /\ b[5] = u[5]
    BY <1>3, <2>1
  <2>6. CASE k = 5 /\ v # crc32(f.payload)
    <3>1. b[4] = Len(f.payload) /\ b[5] = v
      BY <2>3, <2>4, <2>5, <2>6
    <3>2. crc32(f.payload) = b[5]
      BY <1>4, <2>1, <3>1
    <3> QED BY <2>6, <3>1, <3>2
  <2>7. CASE k = 1 /\ v # kMagic
    BY <2>1, <2>4, <2>5, <2>7
  <2>8. CASE k = 2 /\ v # kProtocolVersion
    BY <2>1, <2>4, <2>5, <2>8
  <2>9. CASE k = 3 /\ v \notin FrameTypes
    BY <2>1, <2>4, <2>5, <2>9
  <2>10. CASE k = 4 /\ v > MaxPayload
    BY <2>1, <2>4, <2>5, <2>10
  <2> QED BY <2>2, <2>6, <2>7, <2>8, <2>9, <2>10
<1>7. ASSUME d.status = "ERROR", p.fault = "none"
      PROVE  FALSE
  <2>1. /\ u[1] = kMagic /\ u[2] = kProtocolVersion /\ u[3] = f.type
        /\ u[4] = Len(f.payload) /\ u[5] = crc32(f.payload)
    BY <1>1, <1>7, FaultyUnits, EncodedUnits
  <2>2. f.type \in FrameTypes /\ ~(Len(f.payload) > MaxPayload)
    <3>1. f.type \in FrameTypes
      BY <1>1
    <3> QED BY <1>1, <1>2, <3>1
  <2>3. /\ Len(b) >= kHeader
        /\ \/ b[1] # kMagic \/ b[2] # kProtocolVersion
           \/ b[3] \notin FrameTypes \/ b[4] > MaxPayload
           \/ /\ Len(b) >= kHeader + b[4]
              /\ crc32(SubSeq(b, kHeader + 1, kHeader + b[4])) # b[5]
    BY <1>7, Decoded
  <2>4. b[1] = u[1] /\ b[2] = u[2] /\ b[3] = u[3] /\ b[4] = u[4] /\ b[5] = u[5]
    BY <1>3, <2>3
  <2>5. /\ Len(b) >= kHeader + Len(f.payload)
        /\ crc32(SubSeq(b, kHeader + 1, kHeader + Len(f.payload))) # crc32(f.payload)
    <3> HIDE DEF u
    <3> QED BY <2>1, <2>2, <2>3, <2>4
  <2> QED BY <1>4, <2>5
<1> QED BY <1>5, <1>6, <1>7

-----------------------------------------------------------------------------
\* The queue of the channel: the packets from the d-th on, as its ends see them.
Waiting(s, d) == [k \in 1..(Len(s) - d) |-> Seen(s[d + k])]

\* What the ends of the connection see of a packet.
LEMMA SeenFields ==
  ASSUME NEW p
  PROVE  Seen(p).frame = p.frame /\ (Seen(p).wellFormed <=> p.fault = "none")
  BY DEF Seen

\* It has as many entries as packets remain, in their order.
LEMMA WaitingIs ==
  ASSUME NEW s \in Seq(Packets), NEW d \in Nat, d <= Len(s)
  PROVE  /\ Waiting(s, d) \in Seq(SeenPackets) /\ Len(Waiting(s, d)) = Len(s) - d
         /\ \A k \in 1..(Len(s) - d) : Waiting(s, d)[k] = Seen(s[d + k])
<1> DEFINE n == Len(s)
<1>1. n \in Nat /\ n - d \in Nat
  BY LenProperties
<1>2. \A k \in 1..n : s[k] \in Packets
  BY ElementOfSeq
<1> HIDE DEF n
<1>3. \A k \in 1..(n - d) : Seen(s[d + k]) \in SeenPackets
  <2> TAKE k \in 1..(n - d)
  <2>1. d + k \in 1..n
    BY <1>1
  <2> QED BY <1>2, <2>1 DEF SeenPackets
<1>4. /\ Waiting(s, d) \in [1..(n - d) -> SeenPackets]
      /\ \A k \in 1..(n - d) : Waiting(s, d)[k] = Seen(s[d + k])
  BY <1>3 DEF Waiting, n
<1>5. Waiting(s, d) \in Seq(SeenPackets) /\ Len(Waiting(s, d)) = n - d
  BY <1>1, <1>4, SeqDef, LenProperties
<1> QED BY <1>4, <1>5 DEF n

\* A packet that is sent is the last of the queue.
LEMMA WaitingAppend ==
  ASSUME NEW s \in Seq(Packets), NEW d \in Nat, d <= Len(s), NEW p \in Packets
  PROVE  Waiting(Append(s, p), d) = Append(Waiting(s, d), Seen(p))
<1> DEFINE n == Len(s)
           q == Waiting(s, d)
           t == Append(s, p)
           x == Waiting(t, d)
           y == Append(q, Seen(p))
<1>1. n \in Nat /\ n - d \in Nat /\ (n + 1) - d = (n - d) + 1
  BY LenProperties
<1>2. /\ t \in Seq(Packets) /\ Len(t) = n + 1 /\ t[n + 1] = p
      /\ \A k \in 1..n : t[k] = s[k]
  BY <1>1, AppendProperties
<1>3. /\ q \in Seq(SeenPackets) /\ Len(q) = n - d
      /\ \A k \in 1..(n - d) : q[k] = Seen(s[d + k])
  BY WaitingIs
<1>4. /\ x \in Seq(SeenPackets) /\ Len(x) = (n - d) + 1
      /\ \A k \in 1..((n - d) + 1) : x[k] = Seen(t[d + k])
  <2> HIDE DEF t, n
  <2>1. d <= Len(t)
    BY <1>1, <1>2
  <2>2. /\ x \in Seq(SeenPackets) /\ Len(x) = Len(t) - d
        /\ \A k \in 1..(Len(t) - d) : x[k] = Seen(t[d + k])
    BY <1>2, <2>1, WaitingIs
  <2>3. Len(t) - d = (n - d) + 1
    BY <1>1, <1>2
  <2> QED BY <2>2, <2>3
<1>5. Seen(p) \in SeenPackets
  BY DEF SeenPackets
<1> HIDE DEF n, t, q, x
<1>6. /\ y \in Seq(SeenPackets) /\ Len(y) = (n - d) + 1
      /\ \A k \in 1..(n - d) : y[k] = q[k]
      /\ y[(n - d) + 1] = Seen(p)
  BY <1>3, <1>5, AppendProperties
<1> HIDE DEF y
<1>7. \A k \in 1..Len(x) : x[k] = y[k]
  <2> TAKE k \in 1..Len(x)
  <2>1. k \in 1..((n - d) + 1)
    BY <1>4
  <2>2. CASE k \in 1..(n - d)
    <3>1. d + k \in 1..n
      BY <1>1, <2>2
    <3> QED BY <1>2, <1>3, <1>4, <1>6, <2>1, <2>2, <3>1
  <2>3. CASE k \notin 1..(n - d)
    <3>1. k = (n - d) + 1 /\ d + k = n + 1
      BY <1>1, <2>1, <2>3
    <3>2. x[k] = Seen(t[n + 1]) /\ y[k] = Seen(p)
      BY <1>4, <1>6, <2>1, <3>1
    <3> QED BY <1>2, <3>2
  <2> QED BY <2>2, <2>3
<1>8. x = y
  BY <1>4, <1>6, <1>7, SeqEqual
<1> QED BY <1>8 DEF x, y, q, t

\* The first of the queue is the first packet not yet dispatched, and the others
\* remain.
LEMMA WaitingHead ==
  ASSUME NEW s \in Seq(Packets), NEW d \in Nat, d + 1 <= Len(s)
  PROVE  /\ Waiting(s, d) # <<>>
         /\ Head(Waiting(s, d)) = Seen(s[d + 1])
         /\ Tail(Waiting(s, d)) = Waiting(s, d + 1)
<1> DEFINE n == Len(s)
           q == Waiting(s, d)
           z == Waiting(s, d + 1)
<1>1. n \in Nat /\ n - d \in Nat /\ n - d >= 1 /\ n - (d + 1) = (n - d) - 1
      /\ d <= n /\ d + 1 \in Nat
  BY LenProperties
<1>2. /\ q \in Seq(SeenPackets) /\ Len(q) = n - d
      /\ \A k \in 1..(n - d) : q[k] = Seen(s[d + k])
  BY <1>1, WaitingIs
<1>3. /\ z \in Seq(SeenPackets) /\ Len(z) = n - (d + 1)
      /\ \A k \in 1..(n - (d + 1)) : z[k] = Seen(s[(d + 1) + k])
  BY <1>1, WaitingIs
<1> HIDE DEF n, q, z
<1>4. q # <<>>
  BY <1>1, <1>2
<1>5. Head(q) = Seen(s[d + 1])
  <2>1. 1 \in 1..(n - d)
    BY <1>1
  <2>2. Head(q) = q[1]
    BY <1>2, <1>4
  <2> QED BY <1>2, <2>1, <2>2
<1>6. Tail(q) = z
  <2>1. /\ Tail(q) \in Seq(SeenPackets) /\ Len(Tail(q)) = Len(q) - 1
        /\ \A i \in 1..Len(Tail(q)) : Tail(q)[i] = q[i + 1]
    BY <1>2, <1>4, HeadTailProperties
  <2>2. Len(Tail(q)) = Len(z)
    BY <1>1, <1>2, <1>3, <2>1
  <2>3. \A i \in 1..Len(Tail(q)) : Tail(q)[i] = z[i]
    <3> TAKE i \in 1..Len(Tail(q))
    <3>1. i \in 1..(n - (d + 1)) /\ i + 1 \in 1..(n - d) /\ d + (i + 1) = (d + 1) + i
      BY <1>1, <1>3, <2>2
    <3> QED BY <1>2, <1>3, <2>1, <3>1
  <2> QED BY <1>3, <2>1, <2>2, <2>3, SeqEqual
<1> QED BY <1>4, <1>5, <1>6 DEF q, z

-----------------------------------------------------------------------------
\* What the refinement rests on.
ChannelInv ==
  /\ WireTypes
  /\ dispatched \in Seq(Frames)
  /\ \E off : IsCut(buf \o stream, sent, Len(dispatched), off)

\* Erasing from the buffer is erasing from what is buffered or under way.
LEMMA EraseBoth ==
  ASSUME NEW b \in Seq(Nat), NEW r \in Seq(Nat), NEW c \in 0..Len(b)
  PROVE  SubSeq(b, c + 1, Len(b)) \o r = SubSeq(b \o r, c + 1, Len(b \o r))
<1> DEFINE w == b \o r
           v == SubSeq(b, c + 1, Len(b))
           x == v \o r
           y == SubSeq(w, c + 1, Len(w))
<1>1. Len(b) \in Nat /\ Len(r) \in Nat /\ c \in Nat /\ c <= Len(b)
  BY LenProperties
<1>2. /\ w \in Seq(Nat) /\ Len(w) = Len(b) + Len(r)
      /\ \A i \in 1..(Len(b) + Len(r)) : w[i] = IF i <= Len(b) THEN b[i] ELSE r[i - Len(b)]
  BY ConcatProperties
<1>3. /\ v \in Seq(Nat) /\ Len(v) = Len(b) - c
      /\ \A i \in 1..(Len(b) - c) : v[i] = b[c + i]
  BY Erased
<1> HIDE DEF w, v
<1>4. /\ x \in Seq(Nat) /\ Len(x) = (Len(b) - c) + Len(r)
      /\ \A i \in 1..((Len(b) - c) + Len(r)) :
           x[i] = IF i <= Len(b) - c THEN v[i] ELSE r[i - (Len(b) - c)]
  <2>1. /\ x \in Seq(Nat) /\ Len(x) = Len(v) + Len(r)
        /\ \A i \in 1..(Len(v) + Len(r)) :
             x[i] = IF i <= Len(v) THEN v[i] ELSE r[i - Len(v)]
    BY <1>3, ConcatProperties
  <2> HIDE DEF x
  <2> QED BY <1>3, <2>1
<1>5. /\ y \in Seq(Nat) /\ Len(y) = Len(w) - c
      /\ \A i \in 1..(Len(w) - c) : y[i] = w[c + i]
  <2>1. c \in 0..Len(w)
    BY <1>1, <1>2
  <2> QED BY <1>2, <2>1, Erased
<1> HIDE DEF x, y
<1>6. Len(x) = Len(y)
  BY <1>1, <1>2, <1>4, <1>5
<1>7. \A i \in 1..Len(x) : x[i] = y[i]
  <2> TAKE i \in 1..Len(x)
  <2>1. /\ i \in 1..((Len(b) - c) + Len(r)) /\ i \in 1..(Len(w) - c)
        /\ c + i \in 1..(Len(b) + Len(r))
    BY <1>1, <1>2, <1>4
  <2>2. y[i] = w[c + i]
    BY <1>5, <2>1
  <2>3. CASE i <= Len(b) - c
    <3>1. i \in 1..(Len(b) - c) /\ c + i <= Len(b)
      BY <1>1, <2>1, <2>3
    <3>2. x[i] = b[c + i] /\ w[c + i] = b[c + i]
      BY <1>2, <1>3, <1>4, <2>1, <2>3, <3>1
    <3> QED BY <2>2, <3>2
  <2>4. CASE ~(i <= Len(b) - c)
    <3>1. ~(c + i <= Len(b)) /\ i - (Len(b) - c) = (c + i) - Len(b)
      BY <1>1, <2>1, <2>4
    <3>2. x[i] = r[i - (Len(b) - c)] /\ w[c + i] = r[(c + i) - Len(b)]
      BY <1>2, <1>4, <2>1, <2>4, <3>1
    <3> QED BY <2>2, <3>1, <3>2
  <2> QED BY <2>3, <2>4
<1>8. x = y
  BY <1>4, <1>5, <1>6, <1>7, SeqEqual
<1> QED BY <1>8 DEF x, y, v, w

\* A complete header in the buffer is that of a packet that was sent and is not
\* yet dispatched, and decodeFrame judges it as it was sent.
LEMMA HeadIsNext ==
  ASSUME ChannelInv, NEW off, IsCut(buf \o stream, sent, Len(dispatched), off),
         decodeFrame(buf).status \in {"OK", "ERROR"}
  PROVE  LET d == Len(dispatched)
             p == sent[d + 1]
         IN  /\ d \in Nat /\ d + 1 <= Len(sent) /\ p \in Packets
             /\ buf \o stream \in Seq(Nat) /\ Len(buf \o stream) # 0
             /\ decodeFrame(buf).status = "OK" =>
                  /\ p.fault = "none" /\ decodeFrame(buf).frame = p.frame
                  /\ decodeFrame(buf).consumed = Len(Units(p))
             /\ decodeFrame(buf).status = "ERROR" => p.fault # "none"
<1> DEFINE d == Len(dispatched)
           w == buf \o stream
           p == sent[d + 1]
<1>1. /\ buf \in Seq(Nat) /\ stream \in Seq(Nat) /\ sent \in Seq(Packets)
      /\ dispatched \in Seq(Frames)
  BY DEF ChannelInv, WireTypes
<1>2. d \in Nat /\ Len(buf) \in Nat /\ Len(stream) \in Nat /\ Len(sent) \in Nat
  BY <1>1, LenProperties
<1>3. /\ w \in Seq(Nat) /\ Len(w) = Len(buf) + Len(stream)
      /\ \A i \in 1..(Len(buf) + Len(stream)) :
           w[i] = IF i <= Len(buf) THEN buf[i] ELSE stream[i - Len(buf)]
  BY <1>1, ConcatProperties
<1>4. Len(buf) >= kHeader
  BY <1>1, Decoded
<1> HIDE DEF w
<1>5. Len(w) # 0
  BY <1>2, <1>3, <1>4 DEF kHeader
<1>6. /\ d + 1 \in 1..Len(sent) /\ p \in Packets
      /\ Len(Units(p)) \in 0..Len(w)
      /\ \A i \in 1..Len(Units(p)) : w[i] = Units(p)[i]
  <2>1. IsCut(w, sent, d, off)
    BY DEF w
  <2> HIDE DEF d
  <2> QED BY <1>1, <1>2, <1>3, <1>5, <2>1, CutHead
<1> HIDE DEF p
<1>7. \A i \in 1..Len(buf) : i <= Len(Units(p)) => buf[i] = Units(p)[i]
  <2> SUFFICES ASSUME NEW i \in 1..Len(buf), i <= Len(Units(p))
               PROVE  buf[i] = Units(p)[i]
    OBVIOUS
  <2>1. Len(Units(p)) \in Nat
    BY <1>6, PacketUnits, LenProperties
  <2>2. i \in 1..(Len(buf) + Len(stream)) /\ i \in 1..Len(Units(p)) /\ i <= Len(buf)
    BY <1>2, <2>1
  <2> QED BY <1>3, <1>6, <2>2
<1>8. /\ decodeFrame(buf).status = "OK" =>
           /\ p.fault = "none" /\ decodeFrame(buf).frame = p.frame
           /\ decodeFrame(buf).consumed = Len(Units(p))
      /\ decodeFrame(buf).status = "ERROR" => p.fault # "none"
  BY <1>1, <1>6, <1>7, HeadDecides
<1> QED BY <1>2, <1>3, <1>5, <1>6, <1>8 DEF p, w

\* Every step of the wire is a step of the channel, or none that its ends see.
LEMMA ChannelStep ==
  ChannelInv /\ [WireNext]_wireVars
    => ChannelInv' /\ [Channel!Next]_(Channel!channel)
<1> SUFFICES ASSUME ChannelInv, [WireNext]_wireVars
             PROVE  ChannelInv' /\ [Channel!Next]_(Channel!channel)
  OBVIOUS
<1> DEFINE d == Len(dispatched)
           w == buf \o stream
           c == decodeFrame(buf).consumed
           q == Waiting(sent, d)
           ending == IF at \in {"recv", "decode"} THEN "none" ELSE at
<1>1. /\ buf \in Seq(Nat) /\ stream \in Seq(Nat) /\ sent \in Seq(Packets)
      /\ dispatched \in Seq(Frames)
      /\ at \in {"recv", "decode", "refused", "hung up"}
  BY DEF ChannelInv, WireTypes
<1>2. PICK off : IsCut(w, sent, d, off)
  BY DEF ChannelInv
<1>3. d \in Nat /\ d <= Len(sent) /\ w \in Seq(Nat)
  <2>1. d \in Nat /\ w \in Seq(Nat)
    BY <1>1, LenProperties, ConcatProperties
  <2> QED BY <1>2, <2>1 DEF IsCut
<1>4. ASSUME NEW p \in Packets, Send(p)
      PROVE  ChannelInv' /\ Channel!Send(Seen(p)) /\ Seen(p) \in SeenPackets
  <2>1. /\ sent' = Append(sent, p) /\ stream' = stream \o Units(p)
        /\ UNCHANGED <<buf, dispatched, at>> /\ at \in {"recv", "decode"}
    BY <1>4 DEF Send
  <2>2. Units(p) \in Seq(Nat)
    BY PacketUnits
  <2>3. stream' \in Seq(Nat) /\ sent' \in Seq(Packets)
    BY <1>1, <2>1, <2>2, ConcatProperties, AppendProperties
  <2>4. buf' \o stream' = w \o Units(p)
    <3>1. buf' \o stream' = buf \o (stream \o Units(p))
      BY <2>1
    <3> QED BY <1>1, <2>2, <3>1, Regrouped
  <2>5. \E o : IsCut(w \o Units(p), Append(sent, p), d, o)
    BY <1>1, <1>2, <1>3, CutAppend
  <2>6. \E o : IsCut(buf' \o stream', sent', Len(dispatched'), o)
    BY <2>1, <2>4, <2>5
  <2>7. ChannelInv'
    BY <1>1, <2>1, <2>3, <2>6 DEF ChannelInv, WireTypes
  <2>8. Waiting(sent', d) = Append(q, Seen(p))
    BY <1>1, <1>3, <2>1, WaitingAppend
  <2>9. Channel!Send(Seen(p))
    BY <2>1, <2>8 DEF Channel!Send, Waiting
  <2> QED BY <2>7, <2>9 DEF SeenPackets
<1>5. ASSUME Recv PROVE ChannelInv' /\ UNCHANGED Channel!channel
  <2>1. PICK n \in 1..RecvSize :
          /\ n <= Len(stream)
          /\ buf' = buf \o SubSeq(stream, 1, n)
          /\ stream' = SubSeq(stream, n + 1, Len(stream))
    BY <1>5 DEF Recv
  <2>2. n \in 1..Len(stream)
    <3>1. Len(stream) \in Nat /\ RecvSize \in Nat
      BY <1>1, LenProperties, WireAssumption
    <3> QED BY <2>1, <3>1
  <2>3. buf' \in Seq(Nat) /\ stream' \in Seq(Nat) /\ buf' \o stream' = w
    BY <2>1, <2>2, RecvMoves DEF ChannelInv
  <2>4. UNCHANGED <<sent, dispatched>> /\ at = "recv" /\ at' = "decode"
    BY <1>5 DEF Recv
  <2>5. ChannelInv'
    BY <1>1, <1>2, <2>3, <2>4 DEF ChannelInv, WireTypes
  <2> QED BY <2>4, <2>5 DEF Channel!channel
<1>6. ASSUME NeedMore PROVE ChannelInv' /\ UNCHANGED Channel!channel
  <2>1. UNCHANGED <<sent, stream, buf, dispatched>> /\ at = "decode" /\ at' = "recv"
    BY <1>6 DEF NeedMore
  <2> QED BY <2>1 DEF ChannelInv, WireTypes, Channel!channel
<1>7. ASSUME Hangup PROVE ChannelInv' /\ Channel!Hangup
  <2>1. /\ UNCHANGED <<sent, stream, buf, dispatched>>
        /\ at = "recv" /\ at' = "hung up"
    BY <1>7 DEF Hangup
  <2> QED BY <2>1 DEF ChannelInv, WireTypes, Channel!Hangup
<1>8. ASSUME FrameError PROVE ChannelInv' /\ Channel!Reject
  <2>1. /\ UNCHANGED <<sent, stream, buf, dispatched>>
        /\ at = "decode" /\ at' = "refused" /\ decodeFrame(buf).status = "ERROR"
    BY <1>8 DEF FrameError
  <2>2. ChannelInv'
    BY <2>1 DEF ChannelInv, WireTypes
  <2>3. d + 1 <= Len(sent) /\ sent[d + 1].fault # "none"
    BY <1>2, <2>1, HeadIsNext
  <2>4. q # <<>> /\ Head(q) = Seen(sent[d + 1])
    BY <1>1, <1>3, <2>3, WaitingHead
  <2>5. ~Head(q).wellFormed
    <3> HIDE DEF q
    <3> QED BY <2>3, <2>4, SeenFields
  <2>6. Channel!Reject
    BY <2>1, <2>4, <2>5 DEF Channel!Reject, Waiting
  <2> QED BY <2>2, <2>6
<1>9. ASSUME Dispatch PROVE ChannelInv' /\ Channel!Deliver
  <2>1. /\ at = "decode" /\ UNCHANGED <<sent, stream, at>>
        /\ decodeFrame(buf).status = "OK"
        /\ dispatched' = Append(dispatched, decodeFrame(buf).frame)
        /\ buf' = SubSeq(buf, c + 1, Len(buf))
    BY <1>9 DEF Dispatch
  <2> DEFINE p == sent[d + 1]
  <2>2. /\ d + 1 <= Len(sent) /\ p \in Packets /\ p.fault = "none"
        /\ decodeFrame(buf).frame = p.frame /\ c = Len(Units(p)) /\ Len(w) # 0
    BY <1>2, <2>1, HeadIsNext
  <2>3. c \in 0..Len(buf)
    BY <1>1, <2>1, ConsumedFits
  <2>4. buf' \in Seq(Nat)
    BY <1>1, <2>1, <2>3, Erased
  <2>5. buf' \o stream' = SubSeq(w, c + 1, Len(w))
    BY <1>1, <2>1, <2>3, EraseBoth
  <2>6. p.frame \in Frames
    BY <2>2, FaultyUnits
  <2>7. dispatched' \in Seq(Frames) /\ Len(dispatched') = d + 1
    BY <1>1, <2>1, <2>2, <2>6, AppendProperties
  <2>8. \E o : IsCut(SubSeq(w, Len(Units(p)) + 1, Len(w)), sent, d + 1, o)
    BY <1>1, <1>2, <1>3, <2>2, CutDrop
  <2>9. \E o : IsCut(buf' \o stream', sent', Len(dispatched'), o)
    BY <2>1, <2>2, <2>5, <2>7, <2>8
  <2>10. ChannelInv'
    BY <1>1, <2>1, <2>4, <2>7, <2>9 DEF ChannelInv, WireTypes
  <2>11. q # <<>> /\ Head(q) = Seen(p) /\ Tail(q) = Waiting(sent, d + 1)
    BY <1>1, <1>3, <2>2, WaitingHead
  <2>12. Head(q).wellFormed /\ Head(q).frame = p.frame
    <3> HIDE DEF q
    <3> QED BY <2>2, <2>11, SeenFields
  <2>13. Channel!Deliver
    BY <2>1, <2>2, <2>7, <2>11, <2>12 DEF Channel!Deliver, Waiting
  <2> QED BY <2>10, <2>13
<1>10. CASE UNCHANGED wireVars
  BY <1>10 DEF wireVars, ChannelInv, WireTypes, Channel!channel
<1> QED
  BY <1>4, <1>5, <1>6, <1>7, <1>8, <1>9, <1>10 DEF WireNext, Loop, Channel!Next

\* It holds before anything is sent.
LEMMA ChannelStart == WireInit => ChannelInv /\ Channel!Init
<1> SUFFICES ASSUME WireInit PROVE ChannelInv /\ Channel!Init
  OBVIOUS
<1>1. /\ sent = <<>> /\ stream = <<>> /\ buf = <<>> /\ dispatched = <<>>
      /\ at = "recv"
  BY DEF WireInit
<1>2. buf \o stream = <<>>
  BY <1>1
<1>3. IsCut(<<>>, <<>>, 0, [k \in {0} |-> 0])
  BY DEF IsCut
<1>4. \E off : IsCut(buf \o stream, sent, Len(dispatched), off)
  <2>1. Len(dispatched) = 0
    BY <1>1
  <2> QED BY <1>1, <1>2, <1>3, <2>1
<1>5. ChannelInv
  BY <1>1, <1>4 DEF ChannelInv, WireTypes
<1>6. Channel!Init
  BY <1>1 DEF Channel!Init
<1> QED BY <1>5, <1>6

\* What ImplementsChannel says of safety, of protocol.cpp and handleConnection:
\* frames of any size, cut anywhere by recv, are dispatched whole, once each and
\* in order; the loop refuses a connection only at a malformed frame, and nothing
\* after one is dispatched.
THEOREM WireKeepsOrder ==
  WireSpec => Channel!Init /\ [][Channel!Next]_(Channel!channel)
  BY ChannelStart, ChannelStep, PTL DEF WireSpec

\* The frames dispatched are the first of those sent.
Arrived ==
  /\ Len(dispatched) <= Len(sent)
  /\ \A k \in 1..Len(dispatched) : dispatched[k] = sent[k].frame

LEMMA ArrivedStep == ChannelInv /\ Arrived /\ [WireNext]_wireVars => Arrived'
<1> SUFFICES ASSUME ChannelInv, Arrived, [WireNext]_wireVars PROVE Arrived'
  OBVIOUS
<1> DEFINE d == Len(dispatched)
<1>1. /\ sent \in Seq(Packets) /\ dispatched \in Seq(Frames)
      /\ Len(sent) \in Nat /\ d \in Nat
  BY LenProperties DEF ChannelInv, WireTypes
<1>2. CASE UNCHANGED <<sent, dispatched>>
  BY <1>2 DEF Arrived
<1>3. ASSUME NEW p \in Packets, Send(p) PROVE Arrived'
  <2>1. sent' = Append(sent, p) /\ dispatched' = dispatched
    BY <1>3 DEF Send
  <2>2. Len(sent') = Len(sent) + 1 /\ \A k \in 1..Len(sent) : sent'[k] = sent[k]
    BY <1>1, <2>1, AppendProperties
  <2>3. \A k \in 1..d : k \in 1..Len(sent)
    BY <1>1 DEF Arrived
  <2> QED BY <1>1, <2>1, <2>2, <2>3 DEF Arrived
<1>4. CASE Dispatch
  <2>1. /\ sent' = sent /\ decodeFrame(buf).status = "OK"
        /\ dispatched' = Append(dispatched, decodeFrame(buf).frame)
    BY <1>4 DEF Dispatch
  <2>2. PICK off : IsCut(buf \o stream, sent, d, off)
    BY DEF ChannelInv
  <2>3. /\ d + 1 <= Len(sent) /\ decodeFrame(buf).frame = sent[d + 1].frame
    BY <2>1, <2>2, HeadIsNext
  <2>4. /\ Len(dispatched') = d + 1 /\ dispatched'[d + 1] = sent[d + 1].frame
        /\ \A k \in 1..d : dispatched'[k] = dispatched[k]
    BY <1>1, <2>1, <2>3
  <2>5. \A k \in 1..(d + 1) : k = d + 1 \/ k \in 1..d
    BY <1>1
  <2> QED BY <2>1, <2>3, <2>4, <2>5 DEF Arrived
<1>5. CASE Recv \/ NeedMore \/ FrameError \/ Hangup \/ UNCHANGED wireVars
  <2>1. UNCHANGED <<sent, dispatched>>
    BY <1>5 DEF Recv, NeedMore, FrameError, Hangup, wireVars
  <2> QED BY <1>2, <2>1
<1> QED BY <1>3, <1>4, <1>5 DEF WireNext, Loop

\* Of protocol.cpp and handleConnection: what is dispatched is, frame for frame,
\* what the peer sent first, however the stream was cut.
THEOREM FramesArrive == WireSpec => [](ChannelInv /\ Arrived)
<1>1. WireInit => ChannelInv /\ Arrived
  <2>1. WireInit => Arrived
    BY DEF WireInit, Arrived
  <2> QED BY <2>1, ChannelStart
<1>2. ChannelInv /\ Arrived /\ [WireNext]_wireVars => (ChannelInv /\ Arrived)'
  BY ArrivedStep, ChannelStep
<1> QED BY <1>1, <1>2, PTL DEF WireSpec
=============================================================================
