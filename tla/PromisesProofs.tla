--------------------------- MODULE PromisesProofs ---------------------------
(***************************************************************************)
(* What the steps of the fabric may do to what it has promised.             *)
(*                                                                          *)
(* First the refinement: the fabric implements Promises. That the online    *)
(* bytes cover the open promises follows from the closure of the ledgers    *)
(* and the audit; what is left is that every call makes, confirms or ends   *)
(* reservations as Promises allows. Then the action properties, each for    *)
(* one step from a state of the inductive invariants of BindingProofs.      *)
(***************************************************************************)
EXTENDS BindingProofs

-----------------------------------------------------------------------------
\* The refinement mapping, for a map R of reservations and ledgers L.
PromiseOf(R) ==
  [i \in ReservationIds |-> [phase  |-> PhaseOf(R[i].state),
                             region |-> R[i].region,
                             bytes  |-> R[i].bytes]]
OnlineOf(L) == [r \in Regions |-> L[r]["online"]]

\* The open promises on region r, as Promises counts their bytes.
OpenPairs(P, r) ==
  {x \in ReservationIds \X (1..MaxWord) :
     /\ P[x[1]].phase \in {"made", "confirmed"}
     /\ P[x[1]].region = r
     /\ x[2] <= P[x[1]].bytes}

\* The phases that are open are those of the live states.
LEMMA OpenIsLive ==
  ASSUME NEW s
  PROVE  /\ PhaseOf(s) \in {"made", "confirmed"} <=> s \in {"RESERVED"} \cup Promised
         /\ PhaseOf(s) = "none" <=> s = "ABSENT"
  BY DEF PhaseOf, Promised

\* The bytes of the open promises on r are those its reservations hold.
LEMMA OpenBytes ==
  ASSUME NEW R, NEW r
  PROVE  Cardinality(OpenPairs(PromiseOf(R), r))
           = BytesOf(R, HoldingOf(R, r, {"RESERVED"}))
               + BytesOf(R, HoldingOf(R, r, Promised))
<1> DEFINE res == HoldingOf(R, r, {"RESERVED"})
           com == HoldingOf(R, r, Promised)
<1>1. OpenPairs(PromiseOf(R), r) = Pairs(R, res \cup com)
  <2>1. \A i \in ReservationIds :
          (/\ PromiseOf(R)[i].phase \in {"made", "confirmed"}
           /\ PromiseOf(R)[i].region = r) <=> i \in res \cup com
    BY OpenIsLive DEF PromiseOf, HoldingOf
  <2>2. \A i \in ReservationIds : PromiseOf(R)[i].bytes = R[i].bytes
    BY DEF PromiseOf
  <2>3. res \cup com \subseteq ReservationIds
    BY DEF HoldingOf
  <2> HIDE DEF res, com
  <2> QED BY <2>1, <2>2, <2>3 DEF OpenPairs, Pairs
<1>2. /\ res \in SUBSET ReservationIds /\ com \in SUBSET ReservationIds
      /\ res \cap com = {}
  BY DEF HoldingOf, Promised
<1> HIDE DEF res, com
<1>3. BytesOf(R, res \cup com) = BytesOf(R, res) + BytesOf(R, com)
  BY <1>2, BytesAdd
<1> QED BY <1>1, <1>3 DEF BytesOf, res, com

\* A closed ledger that passes the audit covers the open promises.
LEMMA CoveredBy ==
  ASSUME NEW R, NEW l \in Ledgers, invariant(l), NEW r, Audited(R, l, r)
  PROVE  Cardinality(OpenPairs(PromiseOf(R), r)) <= l["online"]
<1>1. \A c \in Counters : l[c] \in Nat
  BY MaxWordAssumption DEF Ledgers, Words
<1>2. l["reserved"] + l["committed"] <= l["online"]
  BY <1>1 DEF invariant, Obligations, Counters, Buckets
<1> QED BY <1>2, OpenBytes DEF Audited

\* Covered, in the words of this module.
LEMMA CoveredIs ==
  /\ Promise!Covered <=> \A r \in Regions :
       Cardinality(OpenPairs(PromiseOf(reservations), r)) <= ledger[r]["online"]
  /\ Promise!Covered' <=> \A r \in Regions :
       Cardinality(OpenPairs(PromiseOf(reservations'), r)) <= ledger'[r]["online"]
<1>1. \A r \in Regions : Promise!Held(r)
         = Cardinality(OpenPairs(PromiseOf(reservations), r))
  BY DEF Promise!Held, Promise!Open, OpenPairs, PromiseOf, Promise!Cardinality,
         Cardinality
<1>2. \A r \in Regions : Promise!Held(r)'
         = Cardinality(OpenPairs(PromiseOf(reservations'), r))
  BY DEF Promise!Held, Promise!Open, OpenPairs, PromiseOf, PhaseOf, Promised,
         Promise!Cardinality, Cardinality
<1> QED BY <1>1, <1>2 DEF Promise!Covered

\* Before and after a step.
LEMMA CoveredHolds ==
  /\ IInv /\ AuditAccounting => Promise!Covered
  /\ IInv' /\ AuditAccounting' => Promise!Covered'
<1>1. ASSUME IInv, AuditAccounting PROVE Promise!Covered
  BY <1>1, CoveredIs, AuditedIs, CoveredBy DEF IInv, TypeOK, LedgerClosed
<1>2. ASSUME IInv', AuditAccounting' PROVE Promise!Covered'
  BY <1>2, CoveredIs, AuditedIs, CoveredBy DEF IInv, TypeOK, LedgerClosed
<1> QED BY <1>1, <1>2

-----------------------------------------------------------------------------
\* Every reservation stays in its phase or ends, and keeps its region and bytes.
OnlyEnds ==
  \A i \in ReservationIds :
    LET v == reservations[i]  w == reservations'[i] IN
    /\ w.region = v.region /\ w.bytes = v.bytes
    /\ \/ PhaseOf(w.state) = PhaseOf(v.state)
       \/ v.state \in {"RESERVED"} \cup Promised /\ PhaseOf(w.state) = "ended"

\* Such a step is a Change.
LEMMA EndsIsChange ==
  ASSUME OnlyEnds, Promise!Covered'
  PROVE  Promise!Change
  BY OpenIsLive DEF OnlyEnds, Promise!Change, Promise!Open

\* A call that leaves the reservations alone.
LEMMA FrameEnds ==
  ASSUME UNCHANGED reservations
  PROVE  OnlyEnds
  BY DEF OnlyEnds

\* The fences end what holds bytes and leave the rest in its phase.
LEMMA OutcomePhases ==
  ASSUME NEW outcome \in {FenceOutcome, EpochOutcome}, NEW s \in AnyState
  PROVE  \/ PhaseOf(outcome[s]) = PhaseOf(s)
         \/ s \in {"RESERVED"} \cup Promised /\ PhaseOf(outcome[s]) = "ended"
<1>1. CASE outcome = FenceOutcome
  BY <1>1 DEF FenceOutcome, AnyState, ReservationStates, Promised, PhaseOf
<1>2. CASE outcome = EpochOutcome
  BY <1>2 DEF EpochOutcome, FenceOutcome, AnyState, ReservationStates, Promised,
              PhaseOf
<1> QED BY <1>1, <1>2

\* Any set may be fenced.
LEMMA MovedEnds ==
  ASSUME TypeOK, NEW S, NEW outcome \in {FenceOutcome, EpochOutcome},
         reservations' = Moved(S, outcome)
  PROVE  OnlyEnds
<1> SUFFICES ASSUME NEW i \in ReservationIds
             PROVE  LET v == reservations[i]  w == reservations'[i] IN
                    /\ w.region = v.region /\ w.bytes = v.bytes
                    /\ \/ PhaseOf(w.state) = PhaseOf(v.state)
                       \/ /\ v.state \in {"RESERVED"} \cup Promised
                          /\ PhaseOf(w.state) = "ended"
  BY DEF OnlyEnds
<1>1. reservations[i] \in Reservations
  BY DEF TypeOK
<1>2. reservations[i].state \in AnyState
  BY <1>1 DEF Reservations, AnyState
<1>3. CASE i \notin S
  BY <1>3 DEF Moved
<1>4. CASE i \in S
  <2>1. reservations'[i] = [reservations[i] EXCEPT !.state = outcome[@]]
    BY <1>4 DEF Moved
  <2>2. /\ reservations'[i].region = reservations[i].region
        /\ reservations'[i].bytes = reservations[i].bytes
        /\ reservations'[i].state = outcome[reservations[i].state]
    BY <1>1, <2>1 DEF Reservations
  <2> QED BY <1>2, <2>2, OutcomePhases
<1> QED BY <1>3, <1>4

\* Fence, whatever set it is given.
LEMMA FenceEnds ==
  ASSUME TypeOK, NEW S, Fence(S)
  PROVE  OnlyEnds
  BY MovedEnds DEF Fence

\* A drain cancels what was reserved.
LEMMA BeginDrainEnds ==
  ASSUME TypeOK, NEW r, NEW a, beginDrain(r, a)
  PROVE  OnlyEnds
<1> SUFFICES ASSUME NEW i \in ReservationIds
             PROVE  LET v == reservations[i]  w == reservations'[i] IN
                    /\ w.region = v.region /\ w.bytes = v.bytes
                    /\ \/ PhaseOf(w.state) = PhaseOf(v.state)
                       \/ /\ v.state \in {"RESERVED"} \cup Promised
                          /\ PhaseOf(w.state) = "ended"
  BY DEF OnlyEnds
<1>1. reservations[i] \in Reservations
  BY DEF TypeOK
<1>2. reservations' = Moved(Holding(r, {"RESERVED"}), [s \in AnyState |-> "CANCELLED"])
  BY DEF beginDrain
<1>3. CASE i \notin Holding(r, {"RESERVED"})
  BY <1>2, <1>3 DEF Moved
<1>4. CASE i \in Holding(r, {"RESERVED"})
  <2>1. reservations[i].state = "RESERVED" /\ "RESERVED" \in AnyState
    BY <1>4 DEF Holding, AnyState, ReservationStates
  <2>2. reservations'[i] = [reservations[i] EXCEPT !.state = "CANCELLED"]
    BY <1>2, <1>4, <2>1 DEF Moved
  <2>3. /\ reservations'[i].region = reservations[i].region
        /\ reservations'[i].bytes = reservations[i].bytes
        /\ reservations'[i].state = "CANCELLED"
    BY <1>1, <2>2 DEF Reservations
  <2>4. PhaseOf("CANCELLED") = "ended"
    BY DEF PhaseOf, Promised
  <2> QED BY <2>1, <2>3, <2>4
<1> QED BY <1>3, <1>4

\* A release ends one reservation.
LEMMA ReleaseEnds ==
  ASSUME TypeOK, NEW i \in ReservationIds, NEW a, releaseReservation(i, a)
  PROVE  OnlyEnds
<1>1. \A j \in ReservationIds : reservations[j] \in Reservations
  BY DEF TypeOK
<1>2. reservations' = [reservations EXCEPT ![i].state = "RELEASED"]
  BY DEF releaseReservation
<1>3. reservations[i].state \in {"RESERVED"} \cup Promised
  BY DEF releaseReservation, Releasable, Promised
<1>4. PhaseOf("RELEASED") = "ended"
  BY DEF PhaseOf, Promised
<1>5. /\ reservations'[i].region = reservations[i].region
      /\ reservations'[i].bytes = reservations[i].bytes
      /\ reservations'[i].state = "RELEASED"
  BY <1>1, <1>2 DEF Reservations, TypeOK
<1>6. \A j \in ReservationIds \ {i} : reservations'[j] = reservations[j]
  BY <1>2 DEF TypeOK
<1> QED BY <1>3, <1>4, <1>5, <1>6 DEF OnlyEnds

-----------------------------------------------------------------------------
\* A commit confirms one promise and leaves the online bytes.
LEMMA CommitConfirms ==
  ASSUME IInv, NEW i \in ReservationIds, NEW a, commitReservation(i, a)
  PROVE  Promise!Confirm(i)
<1>1. /\ reservations \in [ReservationIds -> Reservations]
      /\ ledger \in [Regions -> Ledgers]
  BY DEF IInv, TypeOK
<1>2. /\ reservations' = [reservations EXCEPT ![i].state = "COMMITTED"]
      /\ reservations[i].state = "RESERVED"
      /\ ledger' = [ledger EXCEPT ![reservations[i].region] =
                      commit(@, reservations[i].bytes)]
  BY DEF commitReservation
<1>3. OnlineOf(ledger') = OnlineOf(ledger)
  <2>1. \A l \in Ledgers : \A n : commit(l, n)["online"] = l["online"]
    BY DEF commit, Move, Ledgers, Counters, Buckets
  <2>2. \A r \in Regions : ledger'[r]["online"] = ledger[r]["online"]
    BY <1>1, <1>2, <2>1
  <2> QED BY <2>2 DEF OnlineOf
<1>4. PhaseOf("RESERVED") = "made" /\ PhaseOf("COMMITTED") = "confirmed"
  BY DEF PhaseOf, Promised
<1>5. PromiseOf(reservations')
        = [PromiseOf(reservations) EXCEPT ![i].phase = "confirmed"]
  <2>1. /\ reservations'[i].region = reservations[i].region
        /\ reservations'[i].bytes = reservations[i].bytes
        /\ reservations'[i].state = "COMMITTED"
    BY <1>1, <1>2 DEF Reservations
  <2>2. \A j \in ReservationIds \ {i} : reservations'[j] = reservations[j]
    BY <1>1, <1>2
  <2> QED BY <1>4, <2>1, <2>2 DEF PromiseOf
<1>6. PromiseOf(reservations)[i].phase = "made"
  BY <1>2, <1>4 DEF PromiseOf
<1> QED BY <1>3, <1>5, <1>6 DEF Promise!Confirm, PromiseOf, OnlineOf, PhaseOf, Promised

\* A request makes one promise, of bytes the region has.
LEMMA RequestMakes ==
  ASSUME IInv, NEW q \in Requests, NEW a, requestReservation(q, a), Promise!Covered'
  PROVE  \E i \in ReservationIds : Promise!Make(i)
<1>1. /\ reservations \in [ReservationIds -> Reservations]
      /\ ledger \in [Regions -> Ledgers]
  BY DEF IInv, TypeOK
<1>2. PICK r \in TopRegions(q), i \in ReservationIds :
        /\ NextReservationId(i)
        /\ ledger' = [ledger EXCEPT ![r] = reserve(@, q.requiredBytes)]
        /\ reservations' = [reservations EXCEPT ![i] = NewReservation(q, r, a)]
  BY DEF requestReservation
<1>3. r \in Regions
  BY DEF TopRegions, EligibleRegions, Candidates, KnownRegions
<1>4. q.requiredBytes > 0
  BY DEF requestReservation
<1>5. /\ reservations[i].state = "ABSENT"
      /\ reservations'[i].state = "RESERVED"
      /\ reservations'[i].region = r
      /\ reservations'[i].bytes = q.requiredBytes
      /\ \A j \in ReservationIds \ {i} : reservations'[j] = reservations[j]
  BY <1>1, <1>2 DEF NextReservationId, NewReservation
<1>6. OnlineOf(ledger') = OnlineOf(ledger)
  <2>1. \A l \in Ledgers : \A n : reserve(l, n)["online"] = l["online"]
    BY DEF reserve, Move, Ledgers, Counters, Buckets
  <2>2. \A s \in Regions : ledger'[s]["online"] = ledger[s]["online"]
    BY <1>1, <1>2, <2>1
  <2> QED BY <2>2 DEF OnlineOf
<1>7. PhaseOf("ABSENT") = "none" /\ PhaseOf("RESERVED") = "made"
  BY DEF PhaseOf, Promised
<1>8. Promise!Make(i)
  BY <1>3, <1>4, <1>5, <1>6, <1>7 DEF Promise!Make, OnlineOf
<1> QED BY <1>8

-----------------------------------------------------------------------------
\* Every call is a step of Promises, or none.
LEMMA StepSimulation ==
  ASSUME IInv, AuditAccounting, [Next]_vars
  PROVE  [Promise!Next]_Promise!promises
<1>1. Promise!Covered'
  BY NextIInv, NextAudit, CoveredHolds
<1>2. OnlyEnds => Promise!Next
  BY <1>1, EndsIsChange DEF Promise!Next
<1>3. TypeOK
  BY DEF IInv
<1>4. CASE UNCHANGED vars
  BY <1>2, <1>4, FrameEnds DEF vars
<1>5. CASE \E e \in Epochs : setEpoch(e)
  BY <1>2, <1>3, <1>5, MovedEnds DEF setEpoch
<1>6. ASSUME NEW a \in Authorities, Register(a) PROVE Promise!Next
  <2>1. ASSUME NEW d, registerRegion(d, a) PROVE OnlyEnds
    BY <1>3, <2>1, MovedEnds DEF registerRegion
  <2>2. ASSUME NEW d,
               registerProvider(d, a) \/ registerPool(d, a) \/ registerPolicy(d, a)
        PROVE  OnlyEnds
    BY <1>3, <2>2, FenceEnds DEF registerProvider, registerPool, registerPolicy
  <2>3. ASSUME NEW c, NEW g, registerConsumer(c, g, a) \/ registerDomain(c, g, a)
        PROVE  OnlyEnds
    BY <2>3, FrameEnds DEF registerConsumer, registerDomain
  <2>4. ASSUME NEW p, NEW m, addPoolMember(p, m, a) \/ removePoolMember(p, m, a)
        PROVE  OnlyEnds
    BY <2>4, FrameEnds DEF addPoolMember, removePoolMember
  <2> QED BY <1>2, <1>6, <2>1, <2>2, <2>3, <2>4 DEF Register
<1>7. ASSUME NEW a \in Authorities, Publish(a) PROVE Promise!Next
  BY <1>2, <1>7, FrameEnds
  DEF Publish, publishRegionEvidence, publishRefusedLate, publishAttachment, Record
<1>8. ASSUME NEW a \in Authorities, Transition(a) PROVE Promise!Next
  <2>1. ASSUME NEW r, completeDrain(r, a) \/ cancelDrain(r, a) \/ recoverRegion(r, a)
        PROVE  OnlyEnds
    BY <2>1, FrameEnds DEF completeDrain, cancelDrain, recoverRegion
  <2>2. ASSUME NEW r, markUnavailable(r, a) PROVE OnlyEnds
    BY <1>3, <2>2, MovedEnds DEF markUnavailable
  <2>3. ASSUME NEW r, retireRegion(r, a) \/ retireProvider(r, a) PROVE OnlyEnds
    BY <1>3, <2>3, FenceEnds DEF retireRegion, retireProvider
  <2> QED BY <1>2, <1>3, <1>8, <2>1, <2>2, <2>3, BeginDrainEnds DEF Transition
<1>9. ASSUME NEW a \in Authorities, Work(a) PROVE Promise!Next
  BY <1>2, <1>3, <1>9, FrameEnds, FenceEnds DEF Work, registerWorker, markWorkerDead
<1>10. ASSUME NEW a \in Authorities, Reserve(a) PROVE Promise!Next
  BY <1>1, <1>2, <1>3, <1>10, RequestMakes, CommitConfirms, ReleaseEnds
  DEF Reserve, Promise!Next
<1> QED BY <1>4, <1>5, <1>6, <1>7, <1>8, <1>9, <1>10, <1>2 DEF Next

\* A new fabric has promised nothing.
LEMMA InitSimulation == Init => Promise!Init
<1> SUFFICES ASSUME Init PROVE Promise!Init
  OBVIOUS
<1>1. Promise!Covered
  BY InitIInv, InitAudit, CoveredHolds
<1>2. \A i \in ReservationIds : PhaseOf(reservations[i].state) = "none"
  BY DEF Init, NoReservation, PhaseOf, Promised
<1> QED BY <1>1, <1>2 DEF Promise!Init

\* The fabric implements Promises, whatever the sizes, the messages and the order
\* of calls: no region ever owes more bytes than it has online, every reservation
\* is made once out of bytes nobody else was promised, and none comes back after
\* it has been released, cancelled or fenced.
THEOREM FabricKeepsPromises == Spec => PromisesKept
<1>1. IInv /\ AuditAccounting /\ [Next]_vars => [Promise!Next]_Promise!promises
  BY StepSimulation
<1> QED BY <1>1, InitSimulation, Inductive, AuditHolds, PTL
        DEF Spec, PromisesKept, Promise!Spec

-----------------------------------------------------------------------------
(***************************************************************************)
(* Where bytes are promised, and how they come back.                        *)
(***************************************************************************)
\* Bytes become promised only where they can be used.
THEOREM PromisedInService == Spec => PromisesOnlyInService
<1> DEFINE A == \A i \in ReservationIds :
       (/\ reservations'[i].state \in Live
        /\ reservations'[i].state # reservations[i].state)
       => LET r == reservations'[i].region
              w == reservations'[i].worker IN
          /\ regions[r].lifecycle \in {"ONLINE", "DEGRADED"}
          /\ evidence[r].status = "CURRENT"
          /\ w # Null => workers[w].alive /\ workers[w].boot = reservations'[i].boot
<1>1. ASSUME BoundInv, EvidenceInv, [Next]_vars PROVE A
  <2> SUFFICES ASSUME NEW i \in ReservationIds, reservations'[i].state \in Live,
                      reservations'[i].state # reservations[i].state
               PROVE  LET r == reservations'[i].region
                          w == reservations'[i].worker IN
                      /\ regions[r].lifecycle \in {"ONLINE", "DEGRADED"}
                      /\ evidence[r].status = "CURRENT"
                      /\ w # Null => /\ workers[w].alive
                                     /\ workers[w].boot = reservations'[i].boot
    OBVIOUS
  <2>1. TypeOK /\ LiveReservationCurrent
    BY <1>1 DEF BoundInv, IInv
  <2>2. Committed(i) \/ Made(i)
    BY <1>1, <2>1, NextLives DEF LiveStep, Survives
  <2>3. CASE Made(i)
    BY <2>1, <2>3, MadeType
  <2>4. CASE Committed(i)
    <3>1. /\ RegionCommits(reservations[i]) /\ reservations[i].state \in Live
          /\ reservations'[i].region = reservations[i].region
          /\ reservations'[i].worker = reservations[i].worker
          /\ reservations'[i].boot = reservations[i].boot
          /\ reservations[i].worker # Null =>
               /\ workers[reservations[i].worker].alive
               /\ workers[reservations[i].worker].boot = reservations[i].boot
      BY <2>1, <2>4, CommittedType DEF Live
    <3>2. reservations[i].region \in Regions
      BY <2>1, <3>1, LiveTypes
    <3>3. /\ evidence[reservations[i].region].status = "CURRENT"
          /\ regions[reservations[i].region].lifecycle \notin
               {"DRAINING", "UNAVAILABLE", "REVALIDATION_REQUIRED", "RETIRED"}
      BY <3>1 DEF RegionCommits
    <3>4. /\ regions[reservations[i].region].lifecycle # "DECLARED"
          /\ regions[reservations[i].region].lifecycle \in RegionStates
      BY <1>1, <2>1, <3>2, <3>3
      DEF EvidenceInv, CurrentEvidenceInUse, TypeOK, RegionRecords
    <3> QED BY <3>1, <3>3, <3>4 DEF RegionStates
  <2> QED BY <2>2, <2>3, <2>4
<1>2. BoundInv /\ EvidenceInv /\ [Next]_vars => [A]_vars
  BY <1>1
<1> QED BY <1>2, AlwaysBound, AlwaysEvidence, PTL DEF Spec, PromisesOnlyInService

-----------------------------------------------------------------------------
\* A move that does not take from the unavailable bytes lowers them never.
LEMMA MoveUp ==
  ASSUME NEW l \in Ledgers, NEW from \in Buckets, NEW to \in Buckets, from # to,
         from # "unavailable", NEW n \in Nat
  PROVE  Move(l, from, to, n)["unavailable"] >= l["unavailable"]
<1>1. \A c \in Counters : l[c] \in Nat
  BY MaxWordAssumption DEF Ledgers, Words
<1>2. CASE CanMove(l, from, to, n)
  <2>1. Move(l, from, to, n) = [l EXCEPT ![from] = @ - n, ![to] = @ + n]
    BY <1>2 DEF Move
  <2>2. \/ Move(l, from, to, n)["unavailable"] = l["unavailable"]
        \/ Move(l, from, to, n)["unavailable"] = l["unavailable"] + n
    BY <2>1 DEF Ledgers, Counters, Buckets
  <2> QED BY <1>1, <2>2 DEF Counters, Buckets
<1>3. CASE ~CanMove(l, from, to, n)
  BY <1>1, <1>3 DEF Move, Counters, Buckets
<1> QED BY <1>2, <1>3

\* The result is a ledger again, so that moves can follow one another.
LEMMA MoveUpLedger ==
  ASSUME NEW l \in Ledgers, NEW from \in Buckets, NEW to \in Buckets, from # to,
         from # "unavailable", NEW n \in Nat
  PROVE  /\ Move(l, from, to, n) \in Ledgers
         /\ Move(l, from, to, n)["unavailable"] >= l["unavailable"]
<1>1. Move(l, from, to, n) \in Ledgers
  BY MoveFrame, Zenon
<1> QED BY <1>1, MoveUp, Zenon

\* The buckets the calls move between.
LEMMA MovedBuckets ==
  /\ {"free", "reserved", "committed", "draining", "unavailable"} \subseteq Buckets
  /\ "reserved" # "free" /\ "free" # "draining" /\ "free" # "unavailable"
  /\ "reserved" # "unavailable" /\ "committed" # "unavailable"
  BY DEF Buckets

\* Nor does a fence.
LEMMA FencedUp ==
  ASSUME NEW l \in Ledgers, NEW S \in SUBSET ReservationIds, NEW r
  PROVE  FencedLedger(l, S, r)["unavailable"] >= l["unavailable"]
<1> DEFINE m == Bytes(S \cap Holding(r, {"RESERVED"}))
           n == Bytes(S \cap Holding(r, Promised))
           k == Move(l, "reserved", "unavailable", m)
           j == Move(k, "committed", "unavailable", n)
<1>1. m \in Nat /\ n \in Nat
  BY BytesNat
<1>2. FencedLedger(l, S, r) = j
  BY DEF FencedLedger, fenceReserved, fenceCommitted
<1> HIDE DEF m, n
<1>3. k \in Ledgers /\ k["unavailable"] >= l["unavailable"]
  BY <1>1, MoveUpLedger, MovedBuckets
<1> HIDE DEF k
<1>4. j \in Ledgers /\ j["unavailable"] >= k["unavailable"]
  BY <1>1, <1>3, MoveUpLedger, MovedBuckets
<1>5. l["unavailable"] \in Nat /\ k["unavailable"] \in Nat /\ j["unavailable"] \in Nat
  BY <1>3, <1>4, MaxWordAssumption DEF Ledgers, Words, Counters, Buckets
<1> HIDE DEF j
<1> QED BY <1>2, <1>3, <1>4, <1>5

\* A call that lowers the unavailable bytes of no region.
UnavailableKept ==
  \A r \in Regions : ledger'[r]["unavailable"] >= ledger[r]["unavailable"]

\* Calls on the ledger of one region.
LEMMA OneLedgerUp ==
  ASSUME TypeOK, NEW r, NEW l,
         ledger' = [ledger EXCEPT ![r] = l],
         r \in Regions => l["unavailable"] >= ledger[r]["unavailable"]
  PROVE  UnavailableKept
<1> SUFFICES ASSUME NEW s \in Regions
             PROVE  ledger'[s]["unavailable"] >= ledger[s]["unavailable"]
  BY DEF UnavailableKept
<1>1. ledger[s]["unavailable"] \in Nat
  BY BucketNat DEF Counters, Buckets
<1>2. CASE s = r
  BY <1>2 DEF TypeOK
<1>3. CASE s # r
  <2>1. ledger'[s] = ledger[s]
    BY <1>3 DEF TypeOK
  <2> QED BY <1>1, <2>1
<1> QED BY <1>2, <1>3

\* A step of one move on the ledger of a region.
LEMMA OneMoveUp ==
  ASSUME TypeOK, NEW r, NEW from \in Buckets, NEW to \in Buckets, from # to,
         from # "unavailable", NEW n, r \in Regions => n \in Nat,
         ledger' = [ledger EXCEPT ![r] = Move(@, from, to, n)]
  PROVE  UnavailableKept
<1> DEFINE l == Move(ledger[r], from, to, n)
<1>1. r \in Regions => l["unavailable"] >= ledger[r]["unavailable"]
  BY MoveUp, BucketNat
<1>2. ledger' = [ledger EXCEPT ![r] = l]
  OBVIOUS
<1> HIDE DEF l
<1> QED BY <1>1, <1>2, OneLedgerUp

\* Calls that leave the ledgers, and those that fence.
LEMMA FrameUp ==
  ASSUME TypeOK, UNCHANGED ledger \/ \E S \in SUBSET ReservationIds : Fence(S)
  PROVE  UnavailableKept
<1> SUFFICES ASSUME NEW r \in Regions
             PROVE  ledger'[r]["unavailable"] >= ledger[r]["unavailable"]
  BY DEF UnavailableKept
<1>1. ledger[r] \in Ledgers /\ ledger[r]["unavailable"] \in Nat
  BY BucketNat DEF Counters, Buckets
<1>2. CASE UNCHANGED ledger
  BY <1>1, <1>2
<1>3. CASE \E S \in SUBSET ReservationIds : Fence(S)
  BY <1>1, <1>3, FencedUp DEF Fence
<1> QED BY <1>2, <1>3

\* The calls that lower the unavailable bytes of a region.
Restarted(r) == regions'[r].lifecycle = "DECLARED" /\ evidence'[r].status # "CURRENT"

\* setEpoch fences everything.
LEMMA SetEpochUp ==
  ASSUME TypeOK, NEW e, setEpoch(e)
  PROVE  UnavailableKept
<1> SUFFICES ASSUME NEW r \in Regions
             PROVE  ledger'[r]["unavailable"] >= ledger[r]["unavailable"]
  BY DEF UnavailableKept
<1>1. ledger[r] \in Ledgers
  BY BucketNat
<1> QED BY <1>1, FencedUp DEF setEpoch

\* The publications set the free bytes only.
LEMMA RecordUp ==
  ASSUME TypeOK, NEW e \in Evidences, NEW a, Publishable(e, a), Record(e)
  PROVE  UnavailableKept
<1> DEFINE l == setOnline(ledger[e.region], e.onlineCapacityBytes)
<1>1. /\ e.region \in Regions /\ e.onlineCapacityBytes \in Words
      /\ CanSetOnline(ledger[e.region], e.onlineCapacityBytes)
  BY MessageAssumption DEF Publishable
<1>2. ledger[e.region] \in Ledgers /\ ledger[e.region]["unavailable"] \in Nat
  BY <1>1, BucketNat DEF Counters, Buckets
<1>3. l["unavailable"] = ledger[e.region]["unavailable"]
  BY <1>1, <1>2, SetOnlineClosed DEF Counters, Buckets
<1>4. ledger' = [ledger EXCEPT ![e.region] = l]
  BY DEF Record
<1> HIDE DEF l
<1>5. l["unavailable"] >= ledger[e.region]["unavailable"]
  BY <1>2, <1>3
<1> QED BY <1>4, <1>5, OneLedgerUp

\* beginDrain moves reserved and free bytes.
LEMMA BeginDrainUp ==
  ASSUME TypeOK, NEW r \in Regions, NEW a, beginDrain(r, a)
  PROVE  UnavailableKept
<1> DEFINE m == Bytes(Holding(r, {"RESERVED"}))
           k == Move(ledger[r], "reserved", "free", m)
           l == Move(k, "free", "draining", k["free"])
<1>1. ledger' = [ledger EXCEPT ![r] = l]
  BY DEF beginDrain, release, drain
<1>2. m \in Nat /\ ledger[r] \in Ledgers /\ ledger[r]["unavailable"] \in Nat
  BY BytesNat, BucketNat DEF Holding, Counters, Buckets
<1> HIDE DEF m
<1>3. k \in Ledgers /\ k["unavailable"] >= ledger[r]["unavailable"]
  BY <1>2, MoveUpLedger, MovedBuckets
<1> HIDE DEF k
<1>4. k["free"] \in Nat /\ k["unavailable"] \in Nat
  BY <1>3, MaxWordAssumption DEF Ledgers, Words, Counters, Buckets
<1>5. l \in Ledgers /\ l["unavailable"] >= k["unavailable"]
  BY <1>3, <1>4, MoveUpLedger, MovedBuckets
<1>6. l["unavailable"] \in Nat
  BY <1>5, MaxWordAssumption DEF Ledgers, Words, Counters, Buckets
<1> HIDE DEF l
<1>7. l["unavailable"] >= ledger[r]["unavailable"]
  BY <1>2, <1>3, <1>4, <1>5, <1>6
<1> QED BY <1>1, <1>7, OneLedgerUp

\* markUnavailable withdraws and fences.
LEMMA MarkUnavailableUp ==
  ASSUME TypeOK, NEW r \in Regions, NEW a, markUnavailable(r, a)
  PROVE  UnavailableKept
<1> DEFINE k == Move(ledger[r], "free", "unavailable", ledger[r]["free"])
           l == FencedLedger(k, OnRegion(r), r)
<1>1. ledger' = [ledger EXCEPT ![r] = l]
  BY DEF markUnavailable, withdraw
<1>2. /\ ledger[r] \in Ledgers /\ ledger[r]["unavailable"] \in Nat
      /\ ledger[r]["free"] \in Nat
  BY BucketNat DEF Counters, Buckets
<1>3. k \in Ledgers /\ k["unavailable"] >= ledger[r]["unavailable"]
  BY <1>2, MoveUpLedger, MovedBuckets
<1> HIDE DEF k
<1>4. OnRegion(r) \in SUBSET ReservationIds
  BY DEF OnRegion
<1>5. l \in Ledgers /\ l["unavailable"] >= k["unavailable"]
  BY <1>3, <1>4, FencedLedgerClosed, FencedUp
<1>6. l["unavailable"] \in Nat /\ k["unavailable"] \in Nat
  BY <1>3, <1>5, MaxWordAssumption DEF Ledgers, Words, Counters, Buckets
<1> HIDE DEF l
<1>7. l["unavailable"] >= ledger[r]["unavailable"]
  BY <1>2, <1>3, <1>5, <1>6
<1> QED BY <1>1, <1>7, OneLedgerUp

\* The calls that restart a region.
LEMMA RestartUp ==
  ASSUME TypeOK, NEW a,
         \/ \E d \in RegionDescriptors : registerRegion(d, a)
         \/ \E r \in Regions : recoverRegion(r, a)
  PROVE  \A s \in Regions :
           ledger'[s]["unavailable"] < ledger[s]["unavailable"] => Restarted(s)
<1>0. \A s \in Regions : ledger[s]["unavailable"] \in Nat
  BY BucketNat DEF Counters, Buckets
<1> SUFFICES ASSUME NEW s \in Regions
             PROVE  ledger'[s] = ledger[s] \/ Restarted(s)
  BY <1>0
<1>1. CASE \E d \in RegionDescriptors : registerRegion(d, a)
  <2>1. PICK d \in RegionDescriptors : registerRegion(d, a)
    BY <1>1
  <2>2. CASE s = d.id
    BY <2>1, <2>2 DEF registerRegion, Restarted, NoEvidence, TypeOK
  <2>3. CASE s # d.id
    BY <2>1, <2>3 DEF registerRegion, TypeOK
  <2> QED BY <2>2, <2>3
<1>2. CASE \E r \in Regions : recoverRegion(r, a)
  <2>1. PICK r \in Regions : recoverRegion(r, a)
    BY <1>2
  <2>2. CASE s = r
    <3>1. regions[s] \in RegionRecords /\ evidence[s] \in EvidenceRecords
      BY DEF TypeOK
    <3>2. regions'[s] = [regions[s] EXCEPT !.lifecycle = "DECLARED"]
      BY <2>1, <2>2 DEF recoverRegion, SetLifecycle, TypeOK
    <3>3. evidence'[s] = [evidence[s] EXCEPT !.status = "REVALIDATION_REQUIRED"]
      BY <2>1, <2>2 DEF recoverRegion, TypeOK
    <3> QED BY <3>1, <3>2, <3>3 DEF Restarted, RegionRecords, EvidenceRecords
  <2>3. CASE s # r
    BY <2>1, <2>3 DEF recoverRegion, TypeOK
  <2> QED BY <2>2, <2>3
<1> QED BY <1>1, <1>2

\* The calls on reservations move bytes among reserved, committed and free.
LEMMA ReserveUp ==
  ASSUME TypeOK, NEW a \in Authorities, Reserve(a)
  PROVE  UnavailableKept
<1>1. \A q \in Requests : q.requiredBytes \in Nat
  BY MessageAssumption, MaxWordAssumption DEF Words
<1>2. \A i \in ReservationIds : reservations[i].bytes \in Nat
  BY MaxWordAssumption DEF TypeOK, Reservations, Words
<1>3. ASSUME NEW q \in Requests, requestReservation(q, a) PROVE UnavailableKept
  <2>1. PICK r : ledger' = [ledger EXCEPT ![r] =
                              Move(@, "free", "reserved", q.requiredBytes)]
    BY <1>3 DEF requestReservation, reserve
  <2> QED BY <1>1, <2>1, OneMoveUp DEF Buckets
<1>4. ASSUME NEW i \in ReservationIds, commitReservation(i, a) PROVE UnavailableKept
  BY <1>2, <1>4, OneMoveUp DEF commitReservation, commit, Buckets
<1>5. ASSUME NEW i \in ReservationIds, releaseReservation(i, a) PROVE UnavailableKept
  <2>1. \E from \in {"reserved", "committed"} :
          ledger' = [ledger EXCEPT ![reservations[i].region] =
                       Move(@, from, "free", reservations[i].bytes)]
    BY <1>5 DEF releaseReservation, release, complete
  <2> QED BY <1>2, <2>1, OneMoveUp DEF Buckets
<1> QED BY <1>3, <1>4, <1>5 DEF Reserve

\* Every call keeps the unavailable bytes or restarts the region.
LEMMA NextUp ==
  ASSUME IInv, [Next]_vars
  PROVE  \A r \in Regions :
           ledger'[r]["unavailable"] < ledger[r]["unavailable"] => Restarted(r)
<1> DEFINE Goal == \A r \in Regions :
             ledger'[r]["unavailable"] < ledger[r]["unavailable"] => Restarted(r)
<1>1. TypeOK /\ TypeOK'
  BY NextIInv DEF IInv
<1>2. UnavailableKept => Goal
  <2>1. \A r \in Regions :
          ledger[r]["unavailable"] \in Nat /\ ledger'[r]["unavailable"] \in Nat
    BY <1>1, MaxWordAssumption, SMTT(30) DEF TypeOK, Ledgers, Words, Counters, Buckets
  <2> QED BY <2>1 DEF UnavailableKept
<1>3. \A r \in Regions, c \in Counters : ledger[r][c] \in Nat
  BY <1>1, BucketNat
<1>4. CASE UNCHANGED vars
  BY <1>1, <1>2, <1>4, FrameUp DEF vars
<1>5. CASE \E e \in Epochs : setEpoch(e)
  BY <1>1, <1>2, <1>5, SetEpochUp
<1>6. ASSUME NEW a \in Authorities, Register(a) PROVE Goal
  <2>1. ASSUME NEW c, NEW g, registerConsumer(c, g, a) PROVE UNCHANGED ledger
    BY <2>1 DEF registerConsumer
  <2>2. ASSUME NEW d, NEW g, registerDomain(d, g, a) PROVE UNCHANGED ledger
    BY <2>2 DEF registerDomain
  <2>3. ASSUME NEW p, NEW m, addPoolMember(p, m, a) \/ removePoolMember(p, m, a)
        PROVE  UNCHANGED ledger
    BY <2>3 DEF addPoolMember, removePoolMember
  <2>4. ASSUME NEW d, \/ registerProvider(d, a) \/ registerPool(d, a)
                      \/ registerPolicy(d, a)
        PROVE  \E S \in SUBSET ReservationIds : Fence(S)
    BY <2>4 DEF registerProvider, registerPool, registerPolicy
  <2> QED BY <1>1, <1>2, <1>6, <2>1, <2>2, <2>3, <2>4, FrameUp, RestartUp
          DEF Register
<1>7. ASSUME NEW a \in Authorities, Publish(a) PROVE Goal
  <2>1. ASSUME NEW t, publishAttachment(t, a) PROVE UNCHANGED ledger
    BY <2>1 DEF publishAttachment
  <2>2. ASSUME NEW e \in Evidences,
               publishRegionEvidence(e, a) \/ publishRefusedLate(e, a)
        PROVE  Publishable(e, a) /\ Record(e)
    BY <2>2 DEF publishRegionEvidence, publishRefusedLate
  <2> QED BY <1>1, <1>2, <1>7, <2>1, <2>2, FrameUp, RecordUp DEF Publish
<1>8. ASSUME NEW a \in Authorities, Transition(a) PROVE Goal
  <2>1. ASSUME NEW r \in Regions, completeDrain(r, a) PROVE UnavailableKept
    BY <1>1, <1>3, <2>1, OneMoveUp DEF completeDrain, endDrain, Counters, Buckets
  <2>2. ASSUME NEW r \in Regions, cancelDrain(r, a) PROVE UnavailableKept
    BY <1>1, <1>3, <2>2, OneMoveUp DEF cancelDrain, undrain, Counters, Buckets
  <2>3. ASSUME NEW p, retireProvider(p, a)
        PROVE  \E S \in SUBSET ReservationIds : Fence(S)
    BY <2>3 DEF retireProvider
  <2>4. ASSUME NEW r, retireRegion(r, a)
        PROVE  \E S \in SUBSET ReservationIds : Fence(S)
    BY <2>4 DEF retireRegion, OnRegion
  <2> QED BY <1>1, <1>2, <1>8, <2>1, <2>2, <2>3, <2>4, FrameUp, BeginDrainUp,
             MarkUnavailableUp, RestartUp DEF Transition
<1>9. ASSUME NEW a \in Authorities, Work(a) PROVE Goal
  <2>1. ASSUME NEW w, NEW b, NEW e, registerWorker(w, b, e, a) PROVE UNCHANGED ledger
    BY <2>1 DEF registerWorker
  <2>2. ASSUME NEW w, markWorkerDead(w, a)
        PROVE  \E S \in SUBSET ReservationIds : Fence(S)
    BY <2>2 DEF markWorkerDead
  <2> QED BY <1>1, <1>2, <1>9, <2>1, <2>2, FrameUp DEF Work
<1>10. ASSUME NEW a \in Authorities, Reserve(a) PROVE Goal
  BY <1>1, <1>2, <1>10, ReserveUp
<1> QED BY <1>4, <1>5, <1>6, <1>7, <1>8, <1>9, <1>10 DEF Next

\* Bytes that were fenced, withdrawn or drained away leave the unavailable bucket
\* only with a region that is recovered or registered anew.
THEOREM UnavailableStays == Spec => UnavailableUntilRecovered
<1>1. IInv /\ [Next]_vars =>
        [\A r \in Regions : ledger'[r]["unavailable"] < ledger[r]["unavailable"] =>
           regions'[r].lifecycle = "DECLARED" /\ evidence'[r].status # "CURRENT"]_vars
  BY NextUp DEF Restarted
<1> QED BY <1>1, Inductive, PTL DEF Spec, UnavailableUntilRecovered

-----------------------------------------------------------------------------
(***************************************************************************)
(* The states of a reservation.                                             *)
(***************************************************************************)
\* One step of reservation i is along reservationStateAllowed or creates it.
StateStep(i) ==
  LET from == reservations[i].state  to == reservations'[i].state IN
  from # to => \/ from = "ABSENT" /\ to = "RESERVED"
               \/ from # "ABSENT" /\ reservationStateAllowed(from, to)

\* The fences of the code follow the table.
LEMMA OutcomeAllowed ==
  ASSUME NEW outcome \in {FenceOutcome, EpochOutcome}, NEW s \in AnyState
  PROVE  outcome[s] # s => s # "ABSENT" /\ reservationStateAllowed(s, outcome[s])
<1>1. CASE outcome = FenceOutcome
  BY <1>1 DEF FenceOutcome, AnyState, ReservationStates, Promised,
              reservationStateAllowed, ReservationSuccessors
<1>2. CASE outcome = EpochOutcome
  BY <1>2 DEF EpochOutcome, FenceOutcome, AnyState, ReservationStates, Promised,
              reservationStateAllowed, ReservationSuccessors
<1> QED BY <1>1, <1>2

\* A fence of any set.
LEMMA MovedAllowed ==
  ASSUME TypeOK, NEW S, NEW outcome \in {FenceOutcome, EpochOutcome},
         reservations' = Moved(S, outcome), NEW i \in ReservationIds
  PROVE  StateStep(i)
<1>1. reservations[i] \in Reservations /\ reservations[i].state \in AnyState
  BY DEF TypeOK, Reservations, AnyState
<1>2. CASE i \notin S
  BY <1>2 DEF Moved, StateStep
<1>3. CASE i \in S
  <2>1. reservations'[i] = [reservations[i] EXCEPT !.state = outcome[@]]
    BY <1>3 DEF Moved
  <2>2. reservations'[i].state = outcome[reservations[i].state]
    BY <1>1, <2>1 DEF Reservations
  <2> QED BY <1>1, <2>2, OutcomeAllowed DEF StateStep
<1> QED BY <1>2, <1>3

\* The cancellations of a drain.
LEMMA BeginDrainAllowed ==
  ASSUME TypeOK, NEW r, NEW a, beginDrain(r, a), NEW i \in ReservationIds
  PROVE  StateStep(i)
<1>1. reservations' = Moved(Holding(r, {"RESERVED"}), [s \in AnyState |-> "CANCELLED"])
  BY DEF beginDrain
<1>2. CASE i \notin Holding(r, {"RESERVED"})
  BY <1>1, <1>2 DEF Moved, StateStep
<1>3. CASE i \in Holding(r, {"RESERVED"})
  <2>1. /\ reservations[i] \in Reservations /\ reservations[i].state = "RESERVED"
        /\ "RESERVED" \in AnyState
    BY <1>3 DEF TypeOK, Holding, AnyState, ReservationStates
  <2>2. reservations'[i] = [reservations[i] EXCEPT !.state = "CANCELLED"]
    BY <1>1, <1>3, <2>1 DEF Moved
  <2>3. reservations'[i].state = "CANCELLED"
    BY <2>1, <2>2 DEF Reservations
  <2> QED BY <2>1, <2>3
       DEF StateStep, reservationStateAllowed, ReservationSuccessors
<1> QED BY <1>2, <1>3

\* The calls on reservations.
LEMMA ReserveAllowed ==
  ASSUME TypeOK, NEW a, Reserve(a), NEW i \in ReservationIds
  PROVE  StateStep(i)
<1>1. CASE \E q \in Requests : requestReservation(q, a)
  <2>1. PICK q \in Requests : requestReservation(q, a)
    BY <1>1
  <2>2. PICK r \in TopRegions(q), j \in ReservationIds :
          /\ reservations[j].state = "ABSENT"
          /\ reservations' = [reservations EXCEPT ![j] = NewReservation(q, r, a)]
    BY <2>1 DEF requestReservation, NextReservationId
  <2>3. CASE i = j
    BY <2>2, <2>3 DEF TypeOK, NewReservation, StateStep
  <2>4. CASE i # j
    BY <2>2, <2>4 DEF TypeOK, StateStep
  <2> QED BY <2>3, <2>4
<1>2. ASSUME NEW j \in ReservationIds,
             commitReservation(j, a) \/ releaseReservation(j, a)
      PROVE  StateStep(i)
  <2>1. reservations[j] \in Reservations
    BY DEF TypeOK
  <2>2. CASE i # j
    BY <1>2, <2>2 DEF commitReservation, releaseReservation, TypeOK, StateStep
  <2>3. CASE i = j /\ commitReservation(j, a)
    <3>1. reservations[i].state = "RESERVED" /\ reservations'[i].state = "COMMITTED"
      BY <2>1, <2>3 DEF commitReservation, TypeOK, Reservations
    <3> QED BY <3>1 DEF StateStep, reservationStateAllowed, ReservationSuccessors
  <2>4. CASE i = j /\ releaseReservation(j, a)
    <3>1. /\ reservations[i].state \in {"RESERVED", "COMMITTED", "ACTIVE"}
          /\ reservations'[i].state = "RELEASED"
      BY <2>1, <2>4 DEF releaseReservation, Releasable, TypeOK, Reservations
    <3> QED BY <3>1 DEF StateStep, reservationStateAllowed, ReservationSuccessors
  <2> QED BY <1>2, <2>2, <2>3, <2>4
<1> QED BY <1>1, <1>2 DEF Reserve

-----------------------------------------------------------------------------
\* The effect of a step on the reservations: none, a fence, or one of the calls
\* that are about reservations.
LEMMA NextReservations ==
  ASSUME [Next]_vars
  PROVE  \/ UNCHANGED reservations
         \/ \E S \in SUBSET ReservationIds : Fence(S)
         \/ \E e \in Epochs : setEpoch(e)
         \/ \E a \in Authorities :
              \/ \E d \in RegionDescriptors : registerRegion(d, a)
              \/ \E r \in Regions : markUnavailable(r, a)
              \/ \E r \in Regions : beginDrain(r, a)
              \/ Reserve(a)
<1> DEFINE Fenced == \E S \in SUBSET ReservationIds : Fence(S)
           Called(a) == \/ \E d \in RegionDescriptors : registerRegion(d, a)
                        \/ \E r \in Regions : markUnavailable(r, a)
                        \/ \E r \in Regions : beginDrain(r, a)
                        \/ Reserve(a)
<1>1. UNCHANGED vars => UNCHANGED reservations
  BY DEF vars
<1>2. ASSUME NEW a \in Authorities, Register(a)
      PROVE  UNCHANGED reservations \/ Fenced \/ Called(a)
  <2>1. ASSUME NEW d, \/ registerProvider(d, a) \/ registerPool(d, a)
                      \/ registerPolicy(d, a)
        PROVE  Fenced
    BY <2>1 DEF registerProvider, registerPool, registerPolicy
  <2>2. ASSUME NEW x, NEW y, \/ registerConsumer(x, y, a) \/ registerDomain(x, y, a)
                             \/ addPoolMember(x, y, a) \/ removePoolMember(x, y, a)
        PROVE  UNCHANGED reservations
    BY <2>2 DEF registerConsumer, registerDomain, addPoolMember, removePoolMember
  <2> HIDE DEF Fenced
  <2> QED BY <1>2, <2>1, <2>2 DEF Register
<1>3. ASSUME NEW a \in Authorities, Publish(a) PROVE UNCHANGED reservations
  BY <1>3 DEF Publish, publishRegionEvidence, publishRefusedLate, Record,
              publishAttachment
<1>4. ASSUME NEW a \in Authorities, Transition(a)
      PROVE  UNCHANGED reservations \/ Fenced \/ Called(a)
  <2>1. ASSUME NEW x, retireRegion(x, a) \/ retireProvider(x, a) PROVE Fenced
    BY <2>1 DEF retireRegion, OnRegion, retireProvider
  <2>2. ASSUME NEW r, \/ completeDrain(r, a) \/ cancelDrain(r, a)
                      \/ recoverRegion(r, a)
        PROVE  UNCHANGED reservations
    BY <2>2 DEF completeDrain, cancelDrain, recoverRegion
  <2> HIDE DEF Fenced
  <2> QED BY <1>4, <2>1, <2>2 DEF Transition
<1>5. ASSUME NEW a \in Authorities, Work(a) PROVE UNCHANGED reservations \/ Fenced
  <2>1. ASSUME NEW w, markWorkerDead(w, a) PROVE Fenced
    BY <2>1 DEF markWorkerDead
  <2> HIDE DEF Fenced
  <2> QED BY <1>5, <2>1 DEF Work, registerWorker
<1>6. ASSUME NEW a \in Authorities, Reserve(a) PROVE Called(a)
  BY <1>6
<1> HIDE DEF Fenced, Called
<1>7. \/ UNCHANGED reservations
      \/ Fenced
      \/ \E e \in Epochs : setEpoch(e)
      \/ \E a \in Authorities : Called(a)
  BY <1>1, <1>2, <1>3, <1>4, <1>5, <1>6 DEF Next
<1> QED BY <1>7 DEF Fenced, Called

\* A reservation moves only along reservationStateAllowed: what has ended stays
\* ended, whatever is fenced around it.
THEOREM ReservationsFollowTable == Spec => ReservationTransitionsAllowed
<1> DEFINE A == \A i \in ReservationIds :
       LET from == reservations[i].state  to == reservations'[i].state IN
       from # to => \/ from = "ABSENT" /\ to = "RESERVED"
                    \/ from # "ABSENT" /\ reservationStateAllowed(from, to)
<1>1. ASSUME TypeOK, [Next]_vars PROVE A
  <2> SUFFICES ASSUME NEW i \in ReservationIds PROVE StateStep(i)
    BY DEF StateStep
  <2>1. UNCHANGED reservations => StateStep(i)
    BY DEF StateStep
  <2>2. ASSUME NEW S, Fence(S) PROVE StateStep(i)
    BY <1>1, <2>2, MovedAllowed DEF Fence
  <2>3. ASSUME NEW e, setEpoch(e) PROVE StateStep(i)
    BY <1>1, <2>3, MovedAllowed DEF setEpoch
  <2>4. ASSUME NEW d, NEW a, registerRegion(d, a) PROVE StateStep(i)
    BY <1>1, <2>4, MovedAllowed DEF registerRegion
  <2>5. ASSUME NEW r, NEW a, markUnavailable(r, a) PROVE StateStep(i)
    BY <1>1, <2>5, MovedAllowed DEF markUnavailable
  <2> QED BY <1>1, <2>1, <2>2, <2>3, <2>4, <2>5, NextReservations,
             BeginDrainAllowed, ReserveAllowed
<1>2. TypeOK /\ [Next]_vars => [A]_vars
  BY <1>1
<1> QED BY <1>2, TypeCorrect, PTL DEF Spec, ReservationTransitionsAllowed

-----------------------------------------------------------------------------
(***************************************************************************)
(* Committed bytes.                                                         *)
(***************************************************************************)
\* A fence makes at least the bytes of each COMMITTED reservation it meets
\* unavailable: no move of the ledger is refused, for the audit holds.
LEMMA FencedCounts ==
  ASSUME TypeOK, NEW S \in SUBSET ReservationIds, NEW r, NEW l \in Ledgers,
         invariant(l), Audited(reservations, l, r), NEW i \in S,
         reservations[i].state = "COMMITTED", reservations[i].region = r
  PROVE  FencedLedger(l, S, r)["unavailable"]
           >= l["unavailable"] + reservations[i].bytes
<1> DEFINE res == HoldingOf(reservations, r, {"RESERVED"})
           com == HoldingOf(reservations, r, Promised)
           m == BytesOf(reservations, S \cap res)
           n == BytesOf(reservations, S \cap com)
           k == Move(l, "reserved", "unavailable", m)
           j == Move(k, "committed", "unavailable", n)
<1>1. FencedLedger(l, S, r) = j
  BY AuditedIs DEF FencedLedger, fenceReserved, fenceCommitted
<1>2. res \in SUBSET ReservationIds /\ com \in SUBSET ReservationIds
  BY DEF HoldingOf
<1>3. /\ m \in Nat /\ n \in Nat
      /\ BytesOf(reservations, res \ S) \in Nat
      /\ BytesOf(reservations, com \ S) \in Nat
      /\ l["reserved"] = BytesOf(reservations, res \ S) + m
      /\ l["committed"] = BytesOf(reservations, com \ S) + n
  <2>1. \A H \in SUBSET ReservationIds :
          /\ BytesOf(reservations, H \ S) \in Nat
          /\ BytesOf(reservations, S \cap H) \in Nat
          /\ BytesOf(reservations, H)
               = BytesOf(reservations, H \ S) + BytesOf(reservations, S \cap H)
    BY BytesRest
  <2>2. l["reserved"] = BytesOf(reservations, res) /\ l["committed"] = BytesOf(reservations, com)
    BY DEF Audited
  <2> HIDE DEF res, com
  <2> QED BY <1>2, <2>1, <2>2
<1>4. reservations[i].bytes \in Nat /\ n >= reservations[i].bytes
  <2>1. /\ i \in ReservationIds /\ i \in S \cap com
        /\ S \cap com \in SUBSET ReservationIds
    BY <1>2 DEF HoldingOf, Promised
  <2>2. reservations[i].bytes \in Words /\ reservations[i].bytes \in Nat
    BY <2>1, MaxWordAssumption DEF TypeOK, Reservations, Words
  <2>3. BytesOf(reservations, {i}) = reservations[i].bytes
    BY <2>1, <2>2, BytesSingle
  <2> DEFINE T == S \cap com
  <2>4. {i} \cap T = {i}
    BY <2>1
  <2>5. /\ BytesOf(reservations, T \ {i}) \in Nat
        /\ BytesOf(reservations, T)
             = BytesOf(reservations, T \ {i}) + BytesOf(reservations, {i} \cap T)
    <3>1. T \in SUBSET ReservationIds
      BY <2>1
    <3> HIDE DEF T
    <3> QED BY <3>1, BytesRest
  <2>6. n = BytesOf(reservations, T \ {i}) + reservations[i].bytes
    BY <2>3, <2>4, <2>5
  <2> HIDE DEF n, T
  <2> QED BY <2>2, <2>5, <2>6
<1> HIDE DEF m, n
<1>5. /\ k \in Ledgers /\ invariant(k) /\ k["committed"] = l["committed"]
      /\ k["unavailable"] = l["unavailable"] + m
  <2>1. m <= l["reserved"]
    BY <1>3
  <2>2. k["unavailable"] = l["unavailable"] + m
    BY <1>3, <2>1, MoveExact DEF Buckets
  <2>3. k \in Ledgers /\ invariant(k) /\ k["committed"] = l["committed"]
    BY <1>3, MoveFrame, MoveClosed DEF Counters, Buckets
  <2> QED BY <2>2, <2>3
<1> HIDE DEF k
<1>6. j["unavailable"] = k["unavailable"] + n
  <2>1. n <= k["committed"]
    BY <1>3, <1>5
  <2> QED BY <1>3, <1>5, <2>1, MoveExact DEF Buckets
<1> HIDE DEF j
<1>7. l["unavailable"] \in Nat
  BY MaxWordAssumption DEF Ledgers, Words, Counters, Buckets
<1> QED BY <1>1, <1>3, <1>4, <1>5, <1>6, <1>7

\* The bytes of i stay accounted for: unavailable, or gone with their region.
Accounted(i) ==
  LET v == reservations[i] IN
  \/ regions'[reservations'[i].region].descriptor.generation # v.regionGeneration
  \/ ledger'[v.region]["unavailable"] >= ledger[v.region]["unavailable"] + v.bytes

\* The state of a reservation outside the set that is fenced does not change.
LEMMA MovedOnly ==
  ASSUME NEW S, NEW outcome, reservations' = Moved(S, outcome),
         NEW i \in ReservationIds, reservations'[i].state # reservations[i].state
  PROVE  i \in S
  BY DEF Moved

\* The fencing calls.
LEMMA FenceAccounts ==
  ASSUME IInv, AuditAccounting, LiveReservationCurrent, NEW i \in ReservationIds,
         reservations[i].state = "COMMITTED",
         reservations'[i].state # reservations[i].state,
         \/ \E S \in SUBSET ReservationIds : Fence(S)
         \/ \E e : setEpoch(e)
         \/ \E d \in RegionDescriptors : \E a : registerRegion(d, a)
         \/ \E r \in Regions : \E a : markUnavailable(r, a)
  PROVE  Accounted(i)
<1> DEFINE r == reservations[i].region
<1>1. r \in Regions
  BY LiveTypes DEF IInv, Live, Promised
<1>2. /\ ledger[r] \in Ledgers /\ invariant(ledger[r])
      /\ Audited(reservations, ledger[r], r) /\ TypeOK
  BY <1>1, AuditedIs DEF IInv, TypeOK, LedgerClosed
<1>3. ASSUME NEW S \in SUBSET ReservationIds, NEW outcome,
             reservations' = Moved(S, outcome),
             ledger'[r] = FencedLedger(ledger[r], S, r)
      PROVE  Accounted(i)
  <2>1. i \in S
    BY <1>3, MovedOnly
  <2> QED BY <1>2, <1>3, <2>1, FencedCounts DEF Accounted
<1>4. CASE \E S \in SUBSET ReservationIds : Fence(S)
  BY <1>1, <1>3, <1>4 DEF Fence
<1>5. CASE \E e : setEpoch(e)
  BY <1>1, <1>3, <1>5 DEF setEpoch
<1>6. ASSUME NEW d \in RegionDescriptors, NEW a, registerRegion(d, a)
      PROVE  Accounted(i)
  <2>1. r = d.id
    BY <1>6, MovedOnly DEF registerRegion, OnRegion
  <2>2. d.generation > RegionGeneration(r) /\ d.generation \in Nat
    BY <1>6, <2>1, DescriptorAssumption, IdAssumption DEF registerRegion
  <2>3. reservations[i].regionGeneration = RegionGeneration(r) /\ r \in KnownRegions
    BY DEF LiveReservationCurrent, Live, Promised
  <2>4. RegionGeneration(r) \in Nat
    BY <1>2, <2>3, KnownRegionType
  <2>5. regions'[r].descriptor = d
    BY <1>1, <1>2, <1>6, <2>1 DEF registerRegion, TypeOK
  <2>6. reservations'[i].region = r
    <3>1. reservations[i] \in Reservations
      BY <1>2 DEF TypeOK
    <3>2. reservations' = Moved(OnRegion(d.id), FenceOutcome)
      BY <1>6 DEF registerRegion
    <3>3. \/ reservations'[i] = reservations[i]
          \/ \E o : reservations'[i] = [reservations[i] EXCEPT !.state = o]
      BY <3>2 DEF Moved
    <3> QED BY <3>1, <3>3 DEF Reservations
  <2> QED BY <2>2, <2>3, <2>4, <2>5, <2>6 DEF Accounted
<1>7. ASSUME NEW s \in Regions, NEW a, markUnavailable(s, a) PROVE Accounted(i)
  <2> DEFINE l == ledger[r]
             k == Move(l, "free", "unavailable", l["free"])
  <2>1. reservations' = Moved(OnRegion(s), FenceOutcome)
    BY <1>7 DEF markUnavailable
  <2>2. i \in OnRegion(s) /\ OnRegion(s) \in SUBSET ReservationIds
    BY <2>1, MovedOnly DEF OnRegion
  <2>3. r = s
    BY <2>2 DEF OnRegion
  <2>4. ledger'[r] = FencedLedger(k, OnRegion(s), r)
    BY <1>1, <1>2, <1>7, <2>3 DEF markUnavailable, withdraw, TypeOK
  <2>5. ledger[r]["free"] \in Nat /\ ledger[r]["unavailable"] \in Nat
    BY <1>1, <1>2, BucketNat DEF Counters, Buckets
  <2>6. /\ k \in Ledgers /\ invariant(k)
        /\ k["reserved"] = ledger[r]["reserved"]
        /\ k["committed"] = ledger[r]["committed"]
        /\ k["unavailable"] = ledger[r]["unavailable"] + ledger[r]["free"]
    <3>1. l \in Ledgers /\ invariant(l) /\ l["free"] \in Nat /\ l["free"] <= l["free"]
      BY <1>2, <2>5
    <3> HIDE DEF l
    <3>2. k["unavailable"] = l["unavailable"] + l["free"]
      BY <3>1, MoveExact DEF Buckets
    <3> DEFINE n == l["free"]
    <3>3. /\ k \in Ledgers
          /\ \A c \in Counters \ {"free", "unavailable"} : k[c] = l[c]
      <4>1. n \in Nat /\ k = Move(l, "free", "unavailable", n)
        BY <3>1
      <4>2. "free" \in Buckets /\ "unavailable" \in Buckets
        BY DEF Buckets
      <4>3. /\ Move(l, "free", "unavailable", n) \in Ledgers
            /\ \A c \in Counters \ {"free", "unavailable"} :
                 Move(l, "free", "unavailable", n)[c] = l[c]
        <5> HIDE DEF n, k
        <5> QED BY <3>1, <4>1, <4>2, MoveFrame
      <4> QED BY <4>3
    <3>4. invariant(k)
      BY <3>1, MoveClosed DEF Buckets
    <3> QED BY <3>2, <3>3, <3>4 DEF Counters, Buckets, l
  <2> HIDE DEF k, r
  <2>7. Audited(reservations, k, r)
    BY <1>2, <2>6 DEF Audited
  <2>8. reservations[i].bytes \in Nat
    BY <1>2, MaxWordAssumption DEF TypeOK, Reservations, Words
  <2>9. FencedLedger(k, OnRegion(s), r)["unavailable"]
          >= k["unavailable"] + reservations[i].bytes
    BY <1>2, <2>2, <2>6, <2>7, FencedCounts DEF r
  <2>10. FencedLedger(k, OnRegion(s), r)["unavailable"] \in Nat
    BY <2>2, <2>6, FencedLedgerClosed, MaxWordAssumption
    DEF Ledgers, Words, Counters, Buckets
  <2>11. FencedLedger(k, OnRegion(s), r)["unavailable"]
           >= ledger[r]["unavailable"] + reservations[i].bytes
    BY <2>5, <2>6, <2>8, <2>9, <2>10
  <2> QED BY <2>4, <2>11 DEF Accounted, r
<1> QED BY <1>4, <1>5, <1>6, <1>7

\* What a consumer has been promised ends without a release only by a fence that
\* keeps its bytes from being promised again, or with the region's generation.
THEOREM CommittedIsAccounted == Spec => CommittedBytesAccounted
<1> DEFINE A == \A i \in ReservationIds :
       LET v == reservations[i] IN
       (v.state = "COMMITTED" /\ reservations'[i].state \notin {"COMMITTED", "RELEASED"})
         => \/ RegionGeneration(v.region)' # v.regionGeneration
            \/ ledger'[v.region]["unavailable"]
                 >= ledger[v.region]["unavailable"] + v.bytes
<1>1. ASSUME BoundInv, AuditAccounting, [Next]_vars, NEW i \in ReservationIds,
             reservations[i].state = "COMMITTED",
             reservations'[i].state \notin {"COMMITTED", "RELEASED"}
      PROVE  Accounted(i)
  <2>1. IInv /\ TypeOK /\ LiveReservationCurrent
    BY <1>1 DEF BoundInv, IInv
  <2>2. ~UNCHANGED reservations
    BY <1>1
  <2>3. ASSUME NEW r, NEW a, beginDrain(r, a) PROVE FALSE
    <3>1. i \in Holding(r, {"RESERVED"})
      BY <1>1, <2>3, MovedOnly DEF beginDrain
    <3> QED BY <1>1, <3>1 DEF Holding
  <2>4. ASSUME NEW a \in Authorities, NEW q \in Requests, requestReservation(q, a)
        PROVE  FALSE
    <3>1. PICK r \in TopRegions(q), j \in ReservationIds :
            /\ reservations[j].state = "ABSENT"
            /\ reservations' = [reservations EXCEPT ![j] = NewReservation(q, r, a)]
      BY <2>4 DEF requestReservation, NextReservationId
    <3> QED BY <1>1, <2>1, <3>1 DEF TypeOK
  <2>5. ASSUME NEW a \in Authorities, NEW j \in ReservationIds,
               commitReservation(j, a) \/ releaseReservation(j, a)
        PROVE  FALSE
    <3>1. reservations[i] \in Reservations
      BY <2>1 DEF TypeOK
    <3>2. \E to \in {"COMMITTED", "RELEASED"} :
            reservations' = [reservations EXCEPT ![j].state = to]
      BY <2>5 DEF commitReservation, releaseReservation
    <3>3. reservations'[i].state = reservations[i].state
          \/ reservations'[i].state \in {"COMMITTED", "RELEASED"}
      BY <2>1, <3>1, <3>2 DEF TypeOK, Reservations
    <3> QED BY <1>1, <3>3
  <2>6. ASSUME NEW a \in Authorities, Reserve(a) PROVE FALSE
    BY <2>4, <2>5, <2>6 DEF Reserve
  <2>7. \/ \E S \in SUBSET ReservationIds : Fence(S)
        \/ \E e : setEpoch(e)
        \/ \E d \in RegionDescriptors : \E a : registerRegion(d, a)
        \/ \E r \in Regions : \E a : markUnavailable(r, a)
    BY <1>1, <2>2, <2>3, <2>6, NextReservations
  <2> QED BY <1>1, <2>1, <2>7, FenceAccounts
<1>2. BoundInv /\ AuditAccounting /\ [Next]_vars => [A]_vars
  BY <1>1 DEF Accounted, RegionGeneration
<1> QED BY <1>2, AlwaysBound, AuditHolds, PTL DEF Spec, CommittedBytesAccounted

-----------------------------------------------------------------------------
(***************************************************************************)
(* The lifecycle of a provider.                                             *)
(***************************************************************************)
\* One step of provider p is along providerLifecycleAllowed or replaces it.
ProviderStep(p) ==
  LET from == providers[p].lifecycle  to == providers'[p].lifecycle IN
  (from # to /\ providers'[p].descriptor = providers[p].descriptor)
    => providerLifecycleAllowed(from, to)

\* A call that sets the lifecycle of one provider along the table.
LEMMA ProviderSetAllowed ==
  ASSUME TypeOK, NEW k, NEW to, NEW p \in Providers,
         providers[k].lifecycle # to =>
           providerLifecycleAllowed(providers[k].lifecycle, to),
         providers' = [providers EXCEPT ![k].lifecycle = to]
  PROVE  ProviderStep(p)
<1>1. providers[p] \in ProviderRecords
  BY DEF TypeOK
<1>2. CASE p # k
  <2>1. providers'[p] = providers[p]
    BY <1>2 DEF TypeOK
  <2> QED BY <2>1 DEF ProviderStep
<1>3. CASE p = k
  <2>1. providers'[p] = [providers[p] EXCEPT !.lifecycle = to]
    BY <1>3 DEF TypeOK
  <2>2. providers'[p].lifecycle = to
    BY <1>1, <2>1 DEF ProviderRecords
  <2> QED BY <1>3, <2>2 DEF ProviderStep
<1> QED BY <1>2, <1>3

\* The provider follows a drain.
LEMMA FollowsAllowed ==
  ASSUME TypeOK, NEW r, NEW p \in Providers,
         \/ ProviderFollows(r, "ONLINE", "DRAINING")
         \/ ProviderFollows(r, "DRAINING", "OFFLINE")
  PROVE  ProviderStep(p)
<1> DEFINE k == BackingProvider(r)
<1>1. CASE providers' = providers
  BY <1>1 DEF ProviderStep
<1>2. CASE providers[k].lifecycle = "ONLINE"
           /\ providers' = [providers EXCEPT ![k].lifecycle = "DRAINING"]
  <2>1. providerLifecycleAllowed("ONLINE", "DRAINING")
    BY DEF providerLifecycleAllowed, ProviderSuccessors
  <2> QED BY <1>2, <2>1, ProviderSetAllowed
<1>3. CASE providers[k].lifecycle = "DRAINING"
           /\ providers' = [providers EXCEPT ![k].lifecycle = "OFFLINE"]
  <2>1. providerLifecycleAllowed("DRAINING", "OFFLINE")
    BY DEF providerLifecycleAllowed, ProviderSuccessors
  <2> QED BY <1>3, <2>1, ProviderSetAllowed
<1> QED BY <1>1, <1>2, <1>3 DEF ProviderFollows

\* While a generation of a provider lasts its lifecycle moves along its table,
\* though the drains of several regions and publications about them drive it.
THEOREM ProvidersFollowTable == Spec => ProviderTransitionsAllowed
<1> DEFINE A == \A p \in Providers :
       LET from == providers[p].lifecycle  to == providers'[p].lifecycle IN
       (from # to /\ providers'[p].descriptor = providers[p].descriptor)
         => providerLifecycleAllowed(from, to)
<1>1. ASSUME TypeOK, [Next]_vars, NEW p \in Providers PROVE ProviderStep(p)
  <2>1. UNCHANGED providers => ProviderStep(p)
    BY DEF ProviderStep
  <2>2. ASSUME NEW d \in ProviderDescriptors, NEW a, registerProvider(d, a)
        PROVE  ProviderStep(p)
    <3>1. providers' = [providers EXCEPT ![d.id] =
                          [descriptor |-> d, lifecycle |-> "REGISTERED"]]
      BY <2>2 DEF registerProvider
    <3>2. CASE p = d.id
      <4>1. providers'[p].descriptor = d
        BY <1>1, <3>1, <3>2 DEF TypeOK
      <4>2. /\ d.generation > providers[p].descriptor.generation
            /\ d.generation \in Nat /\ providers[p].descriptor.generation \in Nat
        BY <1>1, <2>2, <3>2, ProviderGenerationType, DescriptorAssumption,
           IdAssumption DEF registerProvider, ProviderGeneration
      <4>3. d # providers[p].descriptor
        BY <4>2
      <4> QED BY <4>1, <4>3 DEF ProviderStep
    <3>3. CASE p # d.id
      <4>1. providers'[p] = providers[p]
        BY <1>1, <3>1, <3>3 DEF TypeOK
      <4> QED BY <4>1 DEF ProviderStep
    <3> QED BY <3>2, <3>3
  <2>3. ASSUME NEW e, NEW a, publishRegionEvidence(e, a) PROVE ProviderStep(p)
    <3>1. CASE UNCHANGED providers
      BY <2>1, <3>1
    <3>2. CASE ~UNCHANGED providers
      <4>1. /\ providerLifecycleAllowed(
                 providers[BackingProvider(e.region)].lifecycle, "ONLINE")
            /\ providers' =
                 [providers EXCEPT ![BackingProvider(e.region)].lifecycle = "ONLINE"]
        BY <2>3, <3>2 DEF publishRegionEvidence
      <4> QED BY <1>1, <4>1, ProviderSetAllowed
    <3> QED BY <3>1, <3>2
  <2>4. ASSUME NEW k, NEW a, retireProvider(k, a) PROVE ProviderStep(p)
    BY <1>1, <2>4, ProviderSetAllowed DEF retireProvider
  <2>5. ASSUME NEW r, NEW a, beginDrain(r, a) \/ completeDrain(r, a)
        PROVE  ProviderStep(p)
    BY <1>1, <2>5, FollowsAllowed DEF beginDrain, completeDrain
  <2>6. CASE UNCHANGED vars
    BY <2>1, <2>6 DEF vars
  <2>7. ASSUME NEW e, setEpoch(e) PROVE ProviderStep(p)
    BY <2>1, <2>7 DEF setEpoch
  <2>8. ASSUME NEW a \in Authorities, Register(a) PROVE ProviderStep(p)
    BY <2>1, <2>2, <2>8
    DEF Register, registerConsumer, registerDomain, registerRegion, registerPool,
        registerPolicy, addPoolMember, removePoolMember
  <2>9. ASSUME NEW a \in Authorities, Publish(a) PROVE ProviderStep(p)
    BY <2>1, <2>3, <2>9 DEF Publish, publishRefusedLate, publishAttachment
  <2>10. ASSUME NEW a \in Authorities, Transition(a) PROVE ProviderStep(p)
    BY <2>1, <2>4, <2>5, <2>10
    DEF Transition, cancelDrain, markUnavailable, recoverRegion, retireRegion
  <2>11. ASSUME NEW a \in Authorities, Work(a) PROVE ProviderStep(p)
    BY <2>1, <2>11 DEF Work, registerWorker, markWorkerDead
  <2>12. ASSUME NEW a \in Authorities, Reserve(a) PROVE ProviderStep(p)
    BY <2>1, <2>12 DEF Reserve, requestReservation, commitReservation,
                       releaseReservation, OnReservation
  <2> QED BY <1>1, <2>6, <2>7, <2>8, <2>9, <2>10, <2>11, <2>12 DEF Next
<1>2. TypeOK /\ [Next]_vars => [A]_vars
  BY <1>1 DEF ProviderStep
<1> QED BY <1>2, TypeCorrect, PTL DEF Spec, ProviderTransitionsAllowed
=============================================================================
