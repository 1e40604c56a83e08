--------------------------- MODULE CapacityLedger ---------------------------
(***************************************************************************)
(* The exact capacity accounting of capacity.hpp. A ledger is the function  *)
(* from the counters of class CapacityLedger to 64-bit words; MaxWord is    *)
(* UINT64_MAX. Every operation but setOnline takes n bytes out of one       *)
(* bucket and puts them into another, and is refused, with the ledger as it *)
(* was, when the source holds less than n or the target would overflow.     *)
(***************************************************************************)
EXTENDS Integers

CONSTANT MaxWord     \* the largest value of a std::uint64_t counter

ASSUME MaxWordAssumption == MaxWord \in Nat \ {0}

Words    == 0..MaxWord
Buckets  == {"free", "reserved", "committed", "draining", "unavailable"}
Counters == Buckets \cup {"total", "online"}
Ledgers  == [Counters -> Words]

\* CapacityLedger(total): nothing is online, every bucket is empty.
NewLedger(total) == [c \in Counters |-> IF c = "total" THEN total ELSE 0]

\* What is promised, draining or withdrawn: all that is not free.
Obligations(l) ==
  l["reserved"] + l["committed"] + l["draining"] + l["unavailable"]

\* invariant(): the overflow-safe sum of the buckets is the online capacity,
\* which is at most the total. Partial sums of naturals grow, so none exceeds
\* MaxWord exactly when the whole sum does not.
invariant(l) ==
  /\ l["free"] + Obligations(l) <= MaxWord
  /\ l["free"] + Obligations(l) = l["online"]
  /\ l["online"] <= l["total"]

\* Obligations are not looked at: free may underflow.
Fault_CanSetOnline_Unchecked(l, bytes) == bytes <= l["total"]

\* setOnline: the free bucket absorbs the change.
CanSetOnline(l, bytes) ==
  /\ bytes <= l["total"]
  /\ Obligations(l) <= MaxWord
  /\ Obligations(l) <= bytes

setOnline(l, bytes) ==
  [l EXCEPT !["online"] = bytes, !["free"] = bytes - Obligations(l)]

-----------------------------------------------------------------------------
\* The two checks every move makes, and its effect.
CanMove(l, from, to, n) == n <= l[from] /\ l[to] <= MaxWord - n

\* A move whose target is credited before the source is debited.
Fault_Move_NoDebit(l, from, to, n) ==
  IF CanMove(l, from, to, n) THEN [l EXCEPT ![to] = @ + n] ELSE l

\* The ledger after the call: moved, or as it was when the call is refused.
Move(l, from, to, n) ==
  IF CanMove(l, from, to, n)
  THEN [l EXCEPT ![from] = @ - n, ![to] = @ + n]
  ELSE l

\* A commitment that ends is taken out of the reserved bytes.
Fault_complete_Reserved(l, n) == Move(l, "reserved", "free", n)

reserve(l, n)         == Move(l, "free", "reserved", n)
commit(l, n)          == Move(l, "reserved", "committed", n)
release(l, n)         == Move(l, "reserved", "free", n)
complete(l, n)        == Move(l, "committed", "free", n)
drain(l, n)           == Move(l, "free", "draining", n)
endDrain(l, n)        == Move(l, "draining", "unavailable", n)
undrain(l, n)         == Move(l, "draining", "free", n)
withdraw(l, n)        == Move(l, "free", "unavailable", n)
restore(l, n)         == Move(l, "unavailable", "free", n)

\* Fencing: promised capacity is withdrawn, the online capacity stays.
fenceReserved(l, n)   == Move(l, "reserved", "unavailable", n)
fenceCommitted(l, n)  == Move(l, "committed", "unavailable", n)
=============================================================================
