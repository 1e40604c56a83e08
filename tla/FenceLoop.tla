----------------------------- MODULE FenceLoop -----------------------------
(***************************************************************************)
(* The fencing loops as the code runs them: one reservation after another,  *)
(* in the order of a hash map, each with its own move in the ledger that    *)
(* may be refused. Module Fabric fences a set at once; this module says     *)
(* that every order of the loop ends in that state. The loop of beginDrain  *)
(* likewise, whose reservations are released.                              *)
(***************************************************************************)
EXTENDS FabricProperties, SequencesExt

\* Where the bytes of reservation v are.
HeldIn(v) == IF v.state = "RESERVED" THEN "reserved" ELSE "committed"

\* The ledgers after the bytes of v are taken out of service, if it has any.
FenceBytes(ledgers, v) ==
  IF v.state \notin Live THEN ledgers
  ELSE [ledgers EXCEPT ![v.region] = Move(@, HeldIn(v), "unavailable", v.bytes)]

\* The ledger takes the move.
FenceMoves(ledgers, v) ==
  v.state \in Live => CanMove(ledgers[v.region], HeldIn(v), "unavailable", v.bytes)

\* Impl::fence on reservation i, in the state st of the loop: a refused move
\* leaves the reservation as it is.
fence(st, i) ==
  LET v == st.reservations[i] IN
  IF ~FenceMoves(st.ledger, v) THEN st
  ELSE [reservations |-> [st.reservations EXCEPT ![i].state = FenceOutcome[@]],
        ledger |-> FenceBytes(st.ledger, v)]

\* The body of setEpoch's own loop: the reservation ends, refused or not.
fenceForEpoch(st, i) ==
  LET v == st.reservations[i] IN
  [reservations |-> [st.reservations EXCEPT ![i].state = EpochOutcome[@]],
   ledger |-> IF FenceMoves(st.ledger, v) THEN FenceBytes(st.ledger, v) ELSE st.ledger]

\* The reservations and ledgers with the reservations in S fenced at once.
FencedAtOnce(S, outcome) ==
  [reservations |-> Moved(S, outcome),
   ledger |-> [r \in Regions |-> FencedLedger(ledger[r], S, r)]]

\* Whatever set a call fences and in whatever order the map yields it, the loop
\* refuses no move and ends with the reservations and ledgers of Fence(S); so does
\* the loop of setEpoch over all of them, which does not look at the refusals.
BulkFenceIsTheLoop ==
  LET start == [reservations |-> reservations, ledger |-> ledger] IN
  \A S \in SUBSET ReservationIds : \A order \in SetToSeqs(S) :
    /\ FoldLeft(fence, start, order) = FencedAtOnce(S, FenceOutcome)
    /\ FoldLeft(fenceForEpoch, start, order) = FencedAtOnce(S, EpochOutcome)

-----------------------------------------------------------------------------
\* The loop gives back committed bytes, as the release of a commitment does.
Fault_releaseForDrain_Completes(st, i) ==
  LET v == st.reservations[i]
      l == st.ledger[v.region]
  IN  IF CanMove(l, "committed", "free", v.bytes)
      THEN [reservations |-> [st.reservations EXCEPT ![i].state = "CANCELLED"],
            ledger |-> [st.ledger EXCEPT ![v.region] = complete(l, v.bytes)]]
      ELSE [st EXCEPT !.reservations[i].state = "FENCED"]

\* The body of beginDrain's loop: the reservation is cancelled with the return of
\* its bytes, and fenced where the ledger refuses them.
releaseForDrain(st, i) ==
  LET v == st.reservations[i]
      l == st.ledger[v.region]
  IN  IF CanMove(l, "reserved", "free", v.bytes)
      THEN [reservations |-> [st.reservations EXCEPT ![i].state = "CANCELLED"],
            ledger |-> [st.ledger EXCEPT ![v.region] = release(l, v.bytes)]]
      ELSE [st EXCEPT !.reservations[i].state = "FENCED"]

\* The reservations and ledgers with S, reserved in region r, released at once.
DrainedAtOnce(r, S) ==
  [reservations |-> Moved(S, [state \in AnyState |-> "CANCELLED"]),
   ledger |-> [ledger EXCEPT ![r] = release(@, Bytes(S))]]

\* Whatever the order, the loop of beginDrain over the reserved ones of a region
\* refuses no release and ends where the one step of beginDrain does: all of them
\* cancelled, none fenced, their bytes free before the free bytes drain.
DrainLoopReleasesAll ==
  LET start == [reservations |-> reservations, ledger |-> ledger] IN
  \A r \in Regions : \A order \in SetToSeqs(Holding(r, {"RESERVED"})) :
    FoldLeft(releaseForDrain, start, order) = DrainedAtOnce(r, Holding(r, {"RESERVED"}))
=============================================================================
