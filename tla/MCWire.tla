------------------------------- MODULE MCWire -------------------------------
(***************************************************************************)
(* Messages for module Exchange with strings and lists at a reader's limit  *)
(* and above it.                                                            *)
(***************************************************************************)
EXTENDS Exchange, TLC

\* A message whose strings and lists have length n, and whose field k is k.
Numbered(layout, n) ==
  [f \in Range(layout) |->
     IF f \in Strings \cup Lists THEN [j \in 1..n |-> j]
     ELSE CHOOSE k \in DOMAIN layout : layout[k] = f]

Candidate(n) == Numbered(RankedFields, 1) @@
  ("factors" :> [j \in 1..n |-> Numbered(FactorFields, 1)])

SelectionOf(n) == Numbered(SelectionHead, 1) @@
  ("ranked" :> [j \in 1..kMaxCount |-> Candidate(j)]) @@
  ("rejected" :> [j \in 1..n |-> Numbered(RejectedFields, 1)])

\* A selection in which one factor of one candidate has a long name.
LongName == [SelectionOf(0) EXCEPT !.ranked[2].factors[1].name = <<1, 2>>]

\* A worker's evidence, a client's requirements and the coordinator's answers.
MCMessages ==
  {[type |-> PUBLISH_EVIDENCE, body |-> Numbered(RegionEvidenceWritten, n)] :
     n \in {kMaxString, kMaxString + 1}}
  \cup {[type |-> RESERVE, body |-> Numbered(RequirementsWritten, n)] :
          n \in {kMaxCount, kMaxCount + 1}}
  \cup {[type |-> SELECT_RESP, body |-> b] :
          b \in {SelectionOf(kMaxCount), SelectionOf(kMaxCount + 1), LongName}}
  \cup {[type |-> COMMIT_RESP, body |-> Numbered(ReservationWritten, kMaxString)]}

MCFrames == {FrameOf(m) : m \in MCMessages}
=============================================================================
