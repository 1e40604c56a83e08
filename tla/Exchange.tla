------------------------------ MODULE Exchange ------------------------------
(***************************************************************************)
(* Modules Wire and Codec together: what a peer puts into a message is what *)
(* the receiver of the frame gets out of it.                                *)
(***************************************************************************)
EXTENDS Wire, Codec

CONSTANT Messages    \* what the peers say: records with type and body

FrameOf(m) == [type |-> m.type, payload |-> encode(m.type, m.body)]

-----------------------------------------------------------------------------
(***************************************************************************)
(* The structures of types.hpp that are sent: every field is a number, a    *)
(* string or a list of numbers, and a selection has lists of structures.    *)
(***************************************************************************)
HasFields(m, layout) ==
  \A f \in Range(layout) :
    IF f \in Strings \cup Lists THEN m[f] \in Seq(Nat) ELSE m[f] \in Nat

HasOnly(m, fields) == m = [f \in fields |-> m[f]]

IsList(items) == Len(items) \in Nat /\ items = [k \in 1..Len(items) |-> items[k]]

IsRecord(m, layout) == HasFields(m, layout) /\ HasOnly(m, Range(layout))

IsRanked(c) ==
  /\ HasFields(c, RankedFields) /\ HasOnly(c, Range(RankedFields) \cup {"factors"})
  /\ IsList(c.factors)
  /\ \A k \in DOMAIN c.factors : IsRecord(c.factors[k], FactorFields)

IsSelection(m) ==
  /\ HasFields(m, SelectionHead)
  /\ HasOnly(m, Range(SelectionHead) \cup {"ranked", "rejected"})
  /\ IsList(m.ranked) /\ \A k \in DOMAIN m.ranked : IsRanked(m.ranked[k])
  /\ IsList(m.rejected)
  /\ \A k \in DOMAIN m.rejected : IsRecord(m.rejected[k], RejectedFields)

ASSUME MessageTypes ==
  /\ kMaxString \in Nat /\ kMaxCount \in Nat
  /\ \A m \in Messages :
       \/ m.type = PUBLISH_EVIDENCE /\ IsRecord(m.body, RegionEvidenceWritten)
       \/ m.type \in {SELECT, RESERVE} /\ IsRecord(m.body, RequirementsWritten)
       \/ m.type = SELECT_RESP /\ IsSelection(m.body)
       \/ m.type = COMMIT_RESP /\ IsRecord(m.body, ReservationWritten)
  /\ \A f \in Frames : \E m \in Messages : f = FrameOf(m)

-----------------------------------------------------------------------------
\* No string and no list is longer than a reader takes.
ShortFields(m, layout) ==
  \A f \in Range(layout) \cap (Strings \cup Lists) : Len(m[f]) <= Limit(f)

ShortRanked(c) ==
  /\ ShortFields(c, RankedFields) /\ Len(c.factors) <= kMaxCount
  /\ \A k \in DOMAIN c.factors : ShortFields(c.factors[k], FactorFields)

ShortSelection(m) ==
  /\ ShortFields(m, SelectionHead)
  /\ Len(m.ranked) <= kMaxCount /\ \A k \in DOMAIN m.ranked : ShortRanked(m.ranked[k])
  /\ Len(m.rejected) <= kMaxCount
  /\ \A k \in DOMAIN m.rejected : ShortFields(m.rejected[k], RejectedFields)

Readable(m) ==
  CASE m.type = PUBLISH_EVIDENCE     -> ShortFields(m.body, RegionEvidenceWritten)
    [] m.type \in {SELECT, RESERVE} -> ShortFields(m.body, RequirementsWritten)
    [] m.type = SELECT_RESP          -> ShortSelection(m.body)
    [] m.type = COMMIT_RESP          -> ShortFields(m.body, ReservationWritten)

\* What is dispatched decodes to the message that was sent, field by field; it is
\* refused only if a string or list in it is over the reader's limit, which the
\* writer does not know.
RoundTrip ==
  (at = "decode" /\ dispatched # <<>>) =>
    LET f == Last(dispatched) IN
    \A m \in Messages : FrameOf(m) = sent[Len(dispatched)].frame =>
      decode(f.type, f.payload) = IF Readable(m) THEN [ok |-> TRUE, message |-> m.body]
                                  ELSE [ok |-> FALSE, message |-> NoFields]

\* protocol.hpp: the decoder "rejects malformed, truncated" input: neither a part
\* of a payload nor a payload with something after it decodes to a message.
TruncatedRefused ==
  (at = "decode" /\ dispatched # <<>>) =>
    LET f == Last(dispatched) IN
    /\ \A n \in 0..(Len(f.payload) - 1) : ~decode(f.type, SubSeq(f.payload, 1, n)).ok
    /\ \A x \in {0, 1} : ~decode(f.type, Append(f.payload, x)).ok
=============================================================================
