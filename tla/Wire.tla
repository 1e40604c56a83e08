-------------------------------- MODULE Wire --------------------------------
(***************************************************************************)
(* Framing over a byte stream (src/src/protocol.cpp) and the receive loop   *)
(* of handleConnection (src/src/coordinator.cpp): recv returns any part of  *)
(* what has arrived, so that frames come in pieces and joined together.     *)
(*                                                                          *)
(* The stream is a sequence of units: one for each field of the header, one *)
(* for each byte of the payload.                                            *)
(***************************************************************************)
EXTENDS Integers, Sequences, SequencesExt

CONSTANTS
  Frames,      \* what the peer may send: records with type and payload
  Faults,      \* what may be wrong with a frame on its way
  MaxPayload,  \* kMaxPayload
  RecvSize,    \* the size of the buffer given to recv
  MaxSent      \* bound: how many frames the peer sends

ASSUME WireAssumption ==
  /\ MaxPayload \in Nat /\ RecvSize \in Nat \ {0} /\ MaxSent \in Nat
  /\ \A f \in Frames : Len(f.payload) <= MaxPayload
  /\ Faults \subseteq {"magic", "version", "type", "size", "checksum"}

VARIABLES
  sent,        \* the packets the peer has sent so far
  stream,      \* units under way
  buf,         \* the buffer of handleConnection
  dispatched,  \* the frames it has taken out of buf
  at           \* "recv" or "decode"; "refused" or "hung up" once it has closed

wireVars == <<sent, stream, buf, dispatched, at>>

-----------------------------------------------------------------------------
kMagic  == 7
kProtocolVersion == 1
kHeader == 5

\* The values of FrameType; isKnownFrameType accepts all of them.
FrameTypes == 1..24

\* Stands for the checksum: a function of the payload.
crc32(payload) == FoldLeft(LAMBDA c, x : (31 * c + x + 1) % 1009, 0, payload)

\* encodeFrame. (A payload above MaxPayload is refused: no frame is made.)
encodeFrame(f) ==
  <<kMagic, kProtocolVersion, f.type, Len(f.payload), crc32(f.payload)>> \o f.payload

\* FrameType and the checksum are numbers, and so is every unit of a payload.
ASSUME FrameAssumption ==
  \A f \in Frames : /\ f \in [type : FrameTypes, payload : Seq(Nat)]
                    /\ crc32(f.payload) \in Nat

\* A packet is a frame on its way; with a fault one unit of it is not what
\* encodeFrame wrote, as from a peer of another version or a damaged buffer.
Packets == [frame : Frames, fault : Faults \cup {"none"}]

Units(p) ==
  LET u == encodeFrame(p.frame) IN
  CASE p.fault = "none"     -> u
    [] p.fault = "magic"    -> [u EXCEPT ![1] = @ + 1]
    [] p.fault = "version"  -> [u EXCEPT ![2] = @ + 1]
    [] p.fault = "type"     -> [u EXCEPT ![3] = 25]
    [] p.fault = "size"     -> [u EXCEPT ![4] = 4 * (kHeader + MaxPayload)]
    [] p.fault = "checksum" -> [u EXCEPT ![5] = @ + 1]

\* decodeFrame: the header is judged as soon as it is complete, the checksum
\* once the payload is.
decodeFrame(b) ==
  IF Len(b) < kHeader THEN [status |-> "INCOMPLETE"]
  ELSE IF \/ b[1] # kMagic \/ b[2] # kProtocolVersion
          \/ b[3] \notin FrameTypes \/ b[4] > MaxPayload
  THEN [status |-> "ERROR"]
  ELSE IF Len(b) < kHeader + b[4] THEN [status |-> "INCOMPLETE"]
  ELSE LET payload == SubSeq(b, kHeader + 1, kHeader + b[4]) IN
       IF crc32(payload) # b[5] THEN [status |-> "ERROR"]
       ELSE [status |-> "OK", frame |-> [type |-> b[3], payload |-> payload],
             consumed |-> kHeader + b[4]]

-----------------------------------------------------------------------------
Send(p) ==
  /\ at \in {"recv", "decode"}
  /\ Len(sent) < MaxSent
  /\ sent' = Append(sent, p)
  /\ stream' = stream \o Units(p)
  /\ UNCHANGED <<buf, dispatched, at>>

\* All that has arrived is read before anything is decoded.
Fault_Recv_Drains ==
  /\ at = "recv"
  /\ \E n \in 1..RecvSize :
       /\ n <= Len(stream)
       /\ buf' = buf \o SubSeq(stream, 1, n)
       /\ stream' = SubSeq(stream, n + 1, Len(stream))
  /\ at' = IF stream' = <<>> THEN "decode" ELSE "recv"
  /\ UNCHANGED <<sent, dispatched>>

\* recv returns some of what has arrived.
Recv ==
  /\ at = "recv"
  /\ \E n \in 1..RecvSize :
       /\ n <= Len(stream)
       /\ buf' = buf \o SubSeq(stream, 1, n)
       /\ stream' = SubSeq(stream, n + 1, Len(stream))
  /\ at' = "decode"
  /\ UNCHANGED <<sent, dispatched>>

\* recv returns no more than zero: the end of the stream, or a reset.
Hangup ==
  /\ at = "recv"
  /\ at' = "hung up"
  /\ UNCHANGED <<sent, stream, buf, dispatched>>

NeedMore ==
  /\ at = "decode"
  /\ decodeFrame(buf).status = "INCOMPLETE"
  /\ at' = "recv"
  /\ UNCHANGED <<sent, stream, buf, dispatched>>

\* A frame error ends the loop and closes the socket.
FrameError ==
  /\ at = "decode"
  /\ decodeFrame(buf).status = "ERROR"
  /\ at' = "refused"
  /\ UNCHANGED <<sent, stream, buf, dispatched>>

\* The buffer is emptied with the frame.
Fault_Dispatch_Clears ==
  /\ at = "decode"
  /\ LET d == decodeFrame(buf) IN
     /\ d.status = "OK"
     /\ dispatched' = Append(dispatched, d.frame)
     /\ buf' = <<>>
  /\ UNCHANGED <<sent, stream, at>>

\* What the frame took is erased from the buffer, the frame is dispatched and
\* the loop goes on with the rest.
Dispatch ==
  /\ at = "decode"
  /\ LET d == decodeFrame(buf) IN
     /\ d.status = "OK"
     /\ dispatched' = Append(dispatched, d.frame)
     /\ buf' = SubSeq(buf, d.consumed + 1, Len(buf))
  /\ UNCHANGED <<sent, stream, at>>

WireInit ==
  /\ sent = <<>> /\ stream = <<>> /\ buf = <<>> /\ dispatched = <<>>
  /\ at = "recv"

\* The loop of the connection's thread.
Loop == Recv \/ NeedMore \/ FrameError \/ Dispatch

WireNext == (\E p \in Packets : Send(p)) \/ Loop \/ Hangup

\* The thread is scheduled, and recv returns when something has arrived.
WireSpec == WireInit /\ [][WireNext]_wireVars /\ WF_wireVars(Loop)

-----------------------------------------------------------------------------
\* A packet as the ends of the connection see it.
Seen(p) == [frame |-> p.frame, wellFormed |-> p.fault = "none"]

SeenPackets == {Seen(p) : p \in Packets}

Channel == INSTANCE FrameChannel WITH
  Packets   <- SeenPackets,
  queue     <- [k \in 1..(Len(sent) - Len(dispatched)) |->
                  Seen(sent[Len(dispatched) + k])],
  delivered <- dispatched,
  end       <- IF at \in {"recv", "decode"} THEN "none" ELSE at

\* README: "Partial send/receive and clean EOF are handled", malformed frames
\* "are rejected". However recv cuts the stream, every frame is dispatched once,
\* in order and unchanged, nothing after a malformed one is, and no frame that
\* has arrived is left in the buffer.
ImplementsChannel == Channel!Spec

\* README: "Frames are bounded": the buffer of a connection never holds more than
\* one unfinished frame and one recv, whatever length a header claims.
BufferBounded == Len(buf) < kHeader + MaxPayload + RecvSize
=============================================================================
