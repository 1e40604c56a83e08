---------------------------- MODULE Persistence ----------------------------
(***************************************************************************)
(* Fabric::save and Fabric::load (src/src/persistence.cpp) around a fabric  *)
(* that crashes and is restarted from its file. The file and its temporary  *)
(* survive a crash; all of the fabric is memory.                            *)
(*                                                                          *)
(* save() holds stateMtx shared from the serialisation to the rename: while *)
(* a save is under way no other call changes the fabric, but another save   *)
(* to the same path may run, and both use the one name path + ".tmp".       *)
(***************************************************************************)
EXTENDS FabricProperties

CONSTANTS
  Savers,       \* the threads that save()
  MaxCount,     \* kMaxCount: the records of a kind load accepts
  Surroundings  \* what save() may meet, see below

ASSUME PersistenceAssumption ==
  /\ MaxCount \in Nat
  /\ Surroundings \subseteq [overlap : BOOLEAN, failure : BOOLEAN, move : BOOLEAN]

\* overlap: two threads may be inside save() at once, because two clients ask for
\* it. failure: the writing of the temporary may fail, because the disk is full.
\* move: a file that another thread has open can be renamed and removed, as by
\* rename(2); MoveFileEx refuses it (no FILE_SHARE_DELETE).

VARIABLES
  around,   \* the surroundings, which stay
  up,       \* the process runs
  file,     \* what is stored under path
  tmp,      \* what is stored under path + ".tmp"
  saver     \* thread -> where it is in atomicWrite, and the name that the file
            \* its stream is open on has now

storage == <<around, up, file, tmp, saver>>
allVars == <<vars, storage>>

-----------------------------------------------------------------------------
(***************************************************************************)
(* What a file holds. Header, lengths and the CRC tell a complete image     *)
(* from any part of one: a proper prefix is refused by load.                *)
(***************************************************************************)
Absent         == [kind |-> "absent"]
Torn           == [kind |-> "torn"]
Complete(i)    == [kind |-> "complete", image |-> i]

\* serializePayload: identities, generations and descriptors. Lifecycles,
\* ledgers, evidence, attachments, reservations and workers are not written.
serializePayload ==
  [epoch     |-> epoch,
   providers |-> [p \in Providers |-> providers[p].descriptor],
   domains   |-> domains,
   regions   |-> [r \in Regions |-> regions[r].descriptor],
   pools     |-> pools,
   policies  |-> policies,
   consumers |-> consumers]

Known(records) == {x \in DOMAIN records : records[x].generation # 0}

\* The limits deserializePayload puts on an image; save() has none of them.
WithinLimits(i) ==
  /\ i.epoch # 0
  /\ \A s \in {Known(i.providers), Known(i.regions), Known(i.pools),
               Known(i.policies), {d \in Domains : i.domains[d] # 0},
               {c \in Consumers : i.consumers[c] # 0}} :
       Cardinality(s) <= MaxCount
  /\ \A p \in Pools : Len(i.pools[p].members) <= MaxCount

Loadable(f) == f.kind = "complete" /\ WithinLimits(f.image)

\* The index of the regions' pools is rebuilt from the members of the pools,
\* whatever generation of the region they name.
RebuiltMemberships(i) ==
  [r \in Regions |->
     {p \in Pools : /\ i.regions[r].generation # 0
                    /\ \E k \in DOMAIN i.pools[p].members :
                         i.pools[p].members[k].region = r}]

\* A fabric that takes up the service its regions were in.
Fault_deserializePayload_Online(i) ==
  /\ providers' = [p \in Providers |->
       IF i.providers[p].generation = 0 THEN NoProvider
       ELSE [descriptor |-> i.providers[p], lifecycle |-> "ONLINE"]]
  /\ regions' = [r \in Regions |->
       IF i.regions[r].generation = 0 THEN NoRegion
       ELSE [descriptor |-> i.regions[r], lifecycle |-> "ONLINE"]]
  /\ ledger' = [r \in Regions |->
       NewLedger(IF i.regions[r].generation = 0 THEN 0
                 ELSE i.regions[r].totalCapacityBytes)]
  /\ evidence' = [r \in Regions |-> NoEvidence]
  /\ poolMemberships' = RebuiltMemberships(i)
  /\ domains' = i.domains /\ pools' = i.pools
  /\ policies' = i.policies /\ consumers' = i.consumers

\* Every provider and region comes back as REVALIDATION_REQUIRED, with an empty
\* ledger and without evidence.
deserializePayload(i) ==
  /\ providers' = [p \in Providers |->
       IF i.providers[p].generation = 0 THEN NoProvider
       ELSE [descriptor |-> i.providers[p], lifecycle |-> "REVALIDATION_REQUIRED"]]
  /\ regions' = [r \in Regions |->
       IF i.regions[r].generation = 0 THEN NoRegion
       ELSE [descriptor |-> i.regions[r], lifecycle |-> "REVALIDATION_REQUIRED"]]
  /\ ledger' = [r \in Regions |->
       NewLedger(IF i.regions[r].generation = 0 THEN 0
                 ELSE i.regions[r].totalCapacityBytes)]
  /\ evidence' = [r \in Regions |-> NoEvidence]
  /\ poolMemberships' = RebuiltMemberships(i)
  /\ domains' = i.domains /\ pools' = i.pools
  /\ policies' = i.policies /\ consumers' = i.consumers

-----------------------------------------------------------------------------
(***************************************************************************)
(* save(): atomicWrite, one step per operation on the file system. A thread *)
(* opens the temporary, writes it, closes it, and renames it; if the write  *)
(* or the rename fails it goes on to remove it, and save returns IO_ERROR.  *)
(* An open that fails is no step.                                           *)
(***************************************************************************)
Idle == [at |-> "idle", on |-> "none"]

Goes(s, place) == saver' = [saver EXCEPT ![s].at = place]

\* save() without the lock.
Fault_Unlocked_Always == TRUE

\* Mutating calls take stateMtx exclusively.
Unlocked == \A s \in Savers : saver[s] = Idle

\* The streams, other than that of s, that are open on the temporary.
OpenOnTmp(s) == {t \in Savers \ {s} : saver[t].on = "tmp"}

\* The temporary is opened and truncated. What another thread was writing is
\* cut: of what it wrote before, nothing is left.
OpenTmp(s) ==
  /\ up /\ saver[s] = Idle
  /\ around.overlap \/ Unlocked
  /\ tmp' = Torn
  /\ saver' = [t \in Savers |->
       IF t = s THEN [at |-> "writing", on |-> "tmp"]
       ELSE IF saver[t] = [at |-> "writing", on |-> "tmp"]
       THEN [at |-> "cut", on |-> "tmp"] ELSE saver[t]]
  /\ UNCHANGED <<vars, around, up, file>>

\* The bytes of the image reach the file the stream of s is open on, whatever
\* its name is by now: all of them for sure, or perhaps not all. (The others
\* write the same bytes to the same places.)
Stores(s, forSure) ==
  LET to(name, content) ==
        (IF saver[s].on = name THEN {Complete(serializePayload)} ELSE {content})
          \cup (IF forSure THEN {} ELSE {content})
  IN  tmp' \in to("tmp", tmp) /\ file' \in to("file", file)

\* write and flush succeed. The file is whole then if nobody has truncated it
\* since s has opened it, and otherwise if all that was written came after.
WriteTmp(s) ==
  /\ saver[s].at \in {"writing", "cut"}
  /\ Stores(s, saver[s].at = "writing")
  /\ Goes(s, "flushed")
  /\ UNCHANGED <<vars, around, up>>

\* The failure of the write is not noticed.
Fault_WriteFails_Unnoticed(s) ==
  /\ around.failure
  /\ saver[s].at \in {"writing", "cut"}
  /\ Stores(s, FALSE)
  /\ Goes(s, "flushed")
  /\ UNCHANGED <<vars, around, up>>

\* write or flush fails, with any part of the image written.
WriteFails(s) ==
  /\ around.failure
  /\ saver[s].at \in {"writing", "cut"}
  /\ Stores(s, FALSE)
  /\ Goes(s, "failed")
  /\ UNCHANGED <<vars, around, up>>

\* The stream is closed: at the end of its block after a write that succeeded,
\* by close after one that failed, which may still write what it has buffered.
CloseTmp(s) ==
  /\ \/ /\ saver[s].at = "flushed"
        /\ saver' = [saver EXCEPT ![s] = [at |-> "written", on |-> "none"]]
        /\ UNCHANGED <<tmp, file>>
     \/ /\ saver[s].at = "failed"
        /\ saver' = [saver EXCEPT ![s] = [at |-> "removing", on |-> "none"]]
        /\ Stores(s, FALSE)
  /\ UNCHANGED <<vars, around, up>>

\* rename and remove, or MoveFileEx and remove, may take the temporary away.
TmpIsFree(s) ==
  tmp # Absent /\ (OpenOnTmp(s) = {} \/ around.move)

\* The threads after s has taken the temporary away and is through: a stream
\* open on it has the file under its new name, and one open on the file that
\* was there before has it under none.
TakenAway(s, newName) ==
  [t \in Savers |->
     IF t = s THEN Idle
     ELSE IF saver[t].on = "tmp" THEN [saver[t] EXCEPT !.on = newName]
     ELSE IF saver[t].on = newName THEN [saver[t] EXCEPT !.on = "none"]
     ELSE saver[t]]

\* The temporary replaces the file.
Rename(s) ==
  /\ saver[s].at = "written"
  /\ TmpIsFree(s)
  /\ file' = tmp
  /\ tmp' = Absent
  /\ saver' = TakenAway(s, "file")
  /\ UNCHANGED <<vars, around, up>>

\* The rename is refused, or fails for a reason of the system's.
RenameFails(s) ==
  /\ saver[s].at = "written"
  /\ Goes(s, "removing")
  /\ UNCHANGED <<vars, around, up, file, tmp>>

\* std::remove(tmp), whose result is not looked at.
RemoveTmp(s) ==
  /\ saver[s].at = "removing"
  /\ \/ /\ TmpIsFree(s)
        /\ tmp' = Absent
        /\ saver' = TakenAway(s, "none")
     \/ /\ saver' = [saver EXCEPT ![s] = Idle]
        /\ UNCHANGED tmp
  /\ UNCHANGED <<vars, around, up, file>>

-----------------------------------------------------------------------------
(***************************************************************************)
(* Crash and restart.                                                       *)
(***************************************************************************)
\* The memory of the process is gone. (epoch keeps the last incarnation's
\* value, for the properties: no step reads it while the process is down.)
Crash ==
  /\ up
  /\ up' = FALSE
  /\ providers' = [p \in Providers |-> NoProvider]
  /\ domains' = [d \in Domains |-> 0]
  /\ regions' = [r \in Regions |-> NoRegion]
  /\ ledger' = [r \in Regions |-> NewLedger(0)]
  /\ evidence' = [r \in Regions |-> NoEvidence]
  /\ attachments' = [r \in Regions |-> <<>>]
  /\ poolMemberships' = [r \in Regions |-> {}]
  /\ pools' = [p \in Pools |-> NoPool]
  /\ policies' = [p \in Policies |-> NoPolicy]
  /\ consumers' = [c \in Consumers |-> 0]
  /\ reservations' = [i \in ReservationIds |-> NoReservation]
  /\ workers' = [w \in Workers |-> NoWorker]
  /\ saver' = [s \in Savers |-> Idle]
  /\ UNCHANGED <<around, epoch, file, tmp>>

\* load: a new fabric at the epoch after the one in the file. A file that is
\* not Loadable stops the start (runCoordinator returns 1).
load ==
  /\ ~up
  /\ Loadable(file)
  /\ file.image.epoch + 1 \in Epochs
  /\ up' = TRUE
  /\ epoch' = file.image.epoch + 1
  /\ deserializePayload(file.image)
  /\ UNCHANGED <<around, attachments, reservations, workers, file, tmp, saver>>

\* Any call on the running fabric.
Serve == up /\ Unlocked /\ Next /\ UNCHANGED storage

PersistentInit ==
  /\ Init
  /\ around \in Surroundings
  /\ up = TRUE
  /\ file = Absent /\ tmp = Absent
  /\ saver = [s \in Savers |-> Idle]

PersistentNext ==
  \/ Serve
  \/ \E s \in Savers : OpenTmp(s) \/ WriteTmp(s) \/ WriteFails(s) \/ CloseTmp(s)
                         \/ Rename(s) \/ RenameFails(s) \/ RemoveTmp(s)
  \/ Crash
  \/ load

PersistentSpec == PersistentInit /\ [][PersistentNext]_allVars

-----------------------------------------------------------------------------
\* Saves do not overlap, or no write fails and a file that is open stays.
Orderly == ~around.overlap \/ (~around.failure /\ ~around.move)

\* README: "written atomically (temp + replace)". Wherever the process stops, the
\* file is absent or a complete image. It is so for saves one at a time, whatever
\* fails, and for overlapping ones where an open file stays and no write fails.
FileNeverTorn == Orderly => file.kind # "torn"

\* What load would take from a file that a save has put in place is one state of
\* the fabric, the one it has at that moment, whichever of the saving threads
\* wrote it: no call slips in between a serialisation and a rename, and no older
\* image comes up again from a temporary that was left behind.
SaveIsSnapshot ==
  [][file' # file => file' \in {Torn, Complete(serializePayload)}]_allVars

\* README: "Fresh evidence and fresh authority are required before eligibility
\* returns": across crashes, a region is in service, or drains, only on evidence
\* received since the last start.
ServesOnlyOnEvidence ==
  \A r \in Regions :
    regions[r].lifecycle \in {"ONLINE", "DEGRADED", "DRAINING"} => evidence[r].has

\* README: "On load the coordinator advances to the next epoch": the coordinator
\* does not run twice under one epoch, so that no authority or evidence of an
\* earlier start passes for one of this start.
EpochNotReused == [][up' /\ ~up => epoch' > epoch]_allVars

\* README: "written atomically (temp + replace)", with nothing said of saves that
\* overlap: the file at the path is absent or a complete image.
SaveIsAtomic == file.kind # "torn"
=============================================================================
