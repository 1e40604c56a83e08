------------------------------- MODULE Codec -------------------------------
(***************************************************************************)
(* The message codecs of src/src/protocol.cpp: class Writer, class Reader   *)
(* and the encode / decode pair of each message. A u8, u64 or f64 is one    *)
(* unit of the payload; a string or a list is its length and its elements.  *)
(* The writer has no limits, the reader refuses long strings and lists.     *)
(*                                                                          *)
(* A layout is the sequence of the fields a function writes or reads. Both   *)
(* of them give a field the same width, so that a unit needs none.          *)
(***************************************************************************)
EXTENDS Integers, Sequences, SequencesExt

CONSTANTS
  kMaxString,     \* the longest string a Reader takes
  kMaxCount       \* the longest list a decoder takes

Strings == {"provenance", "tieBreakRule", "note", "name"}
Lists   == {"allowedKinds", "forbiddenKinds"}

-----------------------------------------------------------------------------
(***************************************************************************)
(* Writer.                                                                  *)
(***************************************************************************)
WriteField(m, f) ==
  IF f \in Strings \cup Lists THEN <<Len(m[f])>> \o m[f] ELSE <<m[f]>>

WriteFields(m, layout) ==
  FlattenSeq([k \in DOMAIN layout |-> WriteField(m, layout[k])])

WriteList(items, WriteItem(_)) ==
  <<Len(items)>> \o FlattenSeq([k \in DOMAIN items |-> WriteItem(items[k])])

-----------------------------------------------------------------------------
(***************************************************************************)
(* Reader: what is left of the payload, whether every read has succeeded,   *)
(* and the fields read so far.                                              *)
(***************************************************************************)
NoFields  == [f \in {} |-> 0]
Reader(b) == [rest |-> b, ok |-> TRUE, out |-> NoFields]
Failed(r) == [r EXCEPT !.ok = FALSE]

\* Field f of a message is set to v.
Put(out, f, v) == [x \in DOMAIN out \cup {f} |-> IF x = f THEN v ELSE out[x]]

\* n units of the payload become field f, in the form v.
Take(r, n, f, v) ==
  [rest |-> SubSeq(r.rest, n + 1, Len(r.rest)), ok |-> TRUE,
   out |-> Put(r.out, f, v)]

Limit(f) == IF f \in Strings THEN kMaxString ELSE kMaxCount

ReadField(r, f) ==
  IF ~r.ok \/ r.rest = <<>> THEN Failed(r)
  ELSE LET n == Head(r.rest) IN
       IF f \notin Strings \cup Lists THEN Take(r, 1, f, n)
       ELSE IF n > Limit(f) \/ n > Len(r.rest) - 1 THEN Failed(r)
       ELSE Take(r, n + 1, f, SubSeq(r.rest, 2, n + 1))

ReadFields(r, layout) == FoldLeft(ReadField, r, layout)

\* A list of items with fields of their own, as field f. Each item is read with no
\* fields yet and is then added to the list.
ItemReader(r) == [r EXCEPT !.out = NoFields]
AddItem(r, item) == [item EXCEPT !.out = Append(r.out, @)]

ReadList(r, f, ReadItem(_, _)) ==
  IF ~r.ok \/ r.rest = <<>> \/ Head(r.rest) > kMaxCount THEN Failed(r)
  ELSE LET start == [rest |-> Tail(r.rest), ok |-> TRUE, out |-> <<>>]
           end   == FoldLeft(ReadItem, start, [k \in 1..Head(r.rest) |-> k])
       IN  [end EXCEPT !.out = Put(r.out, f, @)]

\* A reader that stops where the message ends.
Fault_Finish_Trailing(r) ==
  IF r.ok THEN [ok |-> TRUE, message |-> r.out]
  ELSE [ok |-> FALSE, message |-> NoFields]

\* finish(): nothing may be left.
Finish(r) ==
  IF r.ok /\ r.rest = <<>> THEN [ok |-> TRUE, message |-> r.out]
  ELSE [ok |-> FALSE, message |-> NoFields]

-----------------------------------------------------------------------------
(***************************************************************************)
(* The messages: the fields each encoder writes and those each decoder      *)
(* reads, in the order in which it does so.                                 *)
(***************************************************************************)
RegionEvidenceWritten ==
  <<"id", "generation", "sourceProvider", "sourceProviderGeneration", "region",
    "regionGeneration", "worker", "boot", "epoch", "timestampMs", "sequence",
    "provenance", "confidence", "health", "reachable", "onlineCapacityBytes",
    "latencyNs", "bandwidthBytesPerSec", "locality", "nodeId", "status">>
RegionEvidenceRead ==
  <<"id", "generation", "sourceProvider", "sourceProviderGeneration", "region",
    "regionGeneration", "worker", "boot", "epoch", "timestampMs", "sequence",
    "provenance", "confidence", "health", "reachable", "onlineCapacityBytes",
    "latencyNs", "bandwidthBytesPerSec", "locality", "nodeId", "status">>

RequirementsWritten ==
  <<"consumer", "consumerGeneration", "requiredBytes", "alignmentBytes",
    "cpuAccessible", "acceleratorAccessible", "directAccessRequired",
    "stagingAcceptable", "persistent", "maxLatencyNs", "minBandwidth",
    "localityPreference", "allowedKinds", "forbiddenKinds",
    "failureDomainIsolationRequired", "forbiddenFailureDomain",
    "freshEvidenceRequired", "allowDegraded", "allowLocalFallback",
    "expansionRequired", "allowStaging", "policy", "preferredPool",
    "reserveHeadroomFactor">>

\* The pool is read where the policy was written.
Fault_RequirementsRead_Swapped ==
  <<"consumer", "consumerGeneration", "requiredBytes", "alignmentBytes",
    "cpuAccessible", "acceleratorAccessible", "directAccessRequired",
    "stagingAcceptable", "persistent", "maxLatencyNs", "minBandwidth",
    "localityPreference", "allowedKinds", "forbiddenKinds",
    "failureDomainIsolationRequired", "forbiddenFailureDomain",
    "freshEvidenceRequired", "allowDegraded", "allowLocalFallback",
    "expansionRequired", "allowStaging", "preferredPool", "policy",
    "reserveHeadroomFactor">>

RequirementsRead ==
  <<"consumer", "consumerGeneration", "requiredBytes", "alignmentBytes",
    "cpuAccessible", "acceleratorAccessible", "directAccessRequired",
    "stagingAcceptable", "persistent", "maxLatencyNs", "minBandwidth",
    "localityPreference", "allowedKinds", "forbiddenKinds",
    "failureDomainIsolationRequired", "forbiddenFailureDomain",
    "freshEvidenceRequired", "allowDegraded", "allowLocalFallback",
    "expansionRequired", "allowStaging", "policy", "preferredPool",
    "reserveHeadroomFactor">>

ReservationWritten ==
  <<"id", "generation", "consumer", "consumerGeneration", "provider",
    "providerGeneration", "region", "regionGeneration", "pool",
    "poolGeneration", "policy", "policyGeneration", "selection",
    "selectionGeneration", "evidenceGeneration", "worker", "boot", "epoch",
    "bytes", "state", "createdAtMs", "expiresAtMs", "note">>
ReservationRead ==
  <<"id", "generation", "consumer", "consumerGeneration", "provider",
    "providerGeneration", "region", "regionGeneration", "pool",
    "poolGeneration", "policy", "policyGeneration", "selection",
    "selectionGeneration", "evidenceGeneration", "worker", "boot", "epoch",
    "bytes", "state", "createdAtMs", "expiresAtMs", "note">>

FactorFields   == <<"name", "raw", "normalized", "weight">>
RankedFields   == <<"region", "provider", "pool", "bytes", "score">>
RejectedFields == <<"region", "provider", "pool", "reason", "score">>
SelectionHead  == <<"id", "generation", "outcome", "tieBreakRule">>

WriteFactor(f)   == WriteFields(f, FactorFields)
WriteRanked(c)   == WriteFields(c, RankedFields) \o WriteList(c.factors, WriteFactor)
WriteRejected(c) == WriteFields(c, RejectedFields)

encodeSelection(m) ==
  WriteFields(m, SelectionHead)
    \o WriteList(m.ranked, WriteRanked) \o WriteList(m.rejected, WriteRejected)

\* The k-th turn of a loop of decodeSelection.
ReadFactor(r, k)   == AddItem(r, ReadFields(ItemReader(r), FactorFields))
ReadRanked(r, k)   ==
  AddItem(r, ReadList(ReadFields(ItemReader(r), RankedFields), "factors", ReadFactor))
ReadRejected(r, k) == AddItem(r, ReadFields(ItemReader(r), RejectedFields))

ReadSelection(r) ==
  ReadList(ReadList(ReadFields(r, SelectionHead), "ranked", ReadRanked),
           "rejected", ReadRejected)

decodeSelection(b) == Finish(ReadSelection(Reader(b)))

\* By the type of the frame (the values of enum FrameType), as the two ends of a
\* connection use them.
PUBLISH_EVIDENCE == 5
SELECT           == 7
SELECT_RESP      == 8
RESERVE          == 9
COMMIT_RESP      == 12

encode(type, m) ==
  CASE type = PUBLISH_EVIDENCE     -> WriteFields(m, RegionEvidenceWritten)
    [] type \in {SELECT, RESERVE} -> WriteFields(m, RequirementsWritten)
    [] type = SELECT_RESP          -> encodeSelection(m)
    [] type = COMMIT_RESP          -> WriteFields(m, ReservationWritten)

decode(type, b) ==
  CASE type = PUBLISH_EVIDENCE     -> Finish(ReadFields(Reader(b), RegionEvidenceRead))
    [] type \in {SELECT, RESERVE} -> Finish(ReadFields(Reader(b), RequirementsRead))
    [] type = SELECT_RESP          -> decodeSelection(b)
    [] type = COMMIT_RESP          -> Finish(ReadFields(Reader(b), ReservationRead))
=============================================================================
