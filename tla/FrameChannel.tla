---------------------------- MODULE FrameChannel ----------------------------
(***************************************************************************)
(* What the framing of src/src/protocol.cpp promises to the two ends of a   *)
(* connection: frames arrive whole, once each and in order, up to the first *)
(* malformed one, which closes the connection.                              *)
(***************************************************************************)
EXTENDS Sequences

CONSTANT Packets    \* records with the fields frame and wellFormed

VARIABLES
  queue,        \* the packets sent and not yet taken
  delivered,    \* the frames the receiver has dispatched
  end           \* "none" while the connection stands, or how it ended

channel == <<queue, delivered, end>>

Init == queue = <<>> /\ delivered = <<>> /\ end = "none"

Send(p) ==
  /\ end = "none"
  /\ queue' = Append(queue, p)
  /\ UNCHANGED <<delivered, end>>

Deliver ==
  /\ end = "none" /\ queue # <<>> /\ Head(queue).wellFormed
  /\ delivered' = Append(delivered, Head(queue).frame)
  /\ queue' = Tail(queue)
  /\ UNCHANGED end

Reject ==
  /\ end = "none" /\ queue # <<>> /\ ~Head(queue).wellFormed
  /\ end' = "refused"
  /\ UNCHANGED <<queue, delivered>>

\* The peer closes, or the connection is lost.
Hangup ==
  /\ end = "none"
  /\ end' = "hung up"
  /\ UNCHANGED <<queue, delivered>>

Next == Deliver \/ Reject \/ Hangup \/ (\E p \in Packets : Send(p))

\* What has been sent is taken, as long as the connection stands.
Spec == Init /\ [][Next]_channel /\ WF_channel(Deliver \/ Reject)
=============================================================================
