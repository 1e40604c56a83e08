------------------------------ MODULE Promises ------------------------------
(***************************************************************************)
(* What the fabric promises to those who reserve memory, without evidence,  *)
(* generations, epochs, drains or ledgers: a promise of some bytes of a     *)
(* region is made once, may be confirmed, and when it has ended it has      *)
(* ended for good. Regions grow and shrink at will, and whatever happens    *)
(* each of them has the bytes of all its open promises.                     *)
(***************************************************************************)
EXTENDS Integers, FiniteSets

CONSTANTS
  Ids, Regions,
  MaxBytes       \* no promise is of more bytes than this

VARIABLES
  promise,       \* id -> its phase, and the region and bytes promised
  capacity       \* region -> the bytes it has

promises == <<promise, capacity>>

Open == {"made", "confirmed"}

\* The bytes of the open promises on region r.
Held(r) ==
  Cardinality({x \in Ids \X (1..MaxBytes) :
                 /\ promise[x[1]].phase \in Open
                 /\ promise[x[1]].region = r
                 /\ x[2] <= promise[x[1]].bytes})

\* Nothing is promised twice.
Covered == \A r \in Regions : Held(r) <= capacity[r]

Init ==
  /\ \A i \in Ids : promise[i].phase = "none"
  /\ Covered

\* A promise is made of bytes nobody else has been promised.
Make(i) ==
  /\ promise[i].phase = "none" /\ promise'[i].phase = "made"
  /\ promise'[i].region \in Regions /\ promise'[i].bytes > 0
  /\ \A j \in Ids \ {i} : promise'[j] = promise[j]
  /\ UNCHANGED capacity
  /\ Covered'

Confirm(i) ==
  /\ promise[i].phase = "made"
  /\ promise' = [promise EXCEPT ![i].phase = "confirmed"]
  /\ UNCHANGED capacity

\* Some open promises, or none, end, and the regions get another capacity.
Change ==
  /\ \A i \in Ids :
       \/ promise'[i] = promise[i]
       \/ /\ promise[i].phase \in Open
          /\ promise'[i] = [promise[i] EXCEPT !.phase = "ended"]
  /\ Covered'

Next == Change \/ (\E i \in Ids : Make(i) \/ Confirm(i))

Spec == Init /\ [][Next]_promises
=============================================================================
