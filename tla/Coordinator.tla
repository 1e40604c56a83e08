---------------------------- MODULE Coordinator ----------------------------
(***************************************************************************)
(* The reference deployment: the coordinator process (src/src/              *)
(* coordinator.cpp) around one Fabric, the worker processes it spawns       *)
(* (src/src/worker.cpp) and the clients that talk to it.                    *)
(*                                                                          *)
(* One thread per connection dispatches frames; one monitor per spawned     *)
(* process waits for its exit. A call on the fabric is one step (stateMtx); *)
(* procMtx covers single accesses to procHandles; sendMtx is held by a      *)
(* thread while it sends, whoever it sends to. What arrives of a byte       *)
(* stream is the subject of module Wire: here a frame arrives or is lost.   *)
(***************************************************************************)
EXTENDS Fabric

CONSTANTS
  Clients,        \* the connections of clients
  ClientRequests, \* client -> the frames it may send
  Handles,        \* values of process handles; the least free one is used
  MaxSpawns,      \* bound: how often CreateProcess succeeds
  MaxEntries,     \* how many entries of a list kMaxPayload has room for
  SeedProvider, SeedRegion   \* what --seed registers

ASSUME CoordinatorAssumption ==
  /\ MaxSpawns \in Nat /\ MaxEntries \in Nat
  /\ Handles \subseteq Nat \ {Null}
  /\ \A c \in Clients : \A q \in ClientRequests[c] : q.type \in
       {"SPAWN_WORKER", "TERMINATE_WORKER", "SELECT", "RESERVE", "COMMIT",
        "RELEASE", "INSPECT", "AUDIT", "SAVE", "UNREADABLE"}

\* The k-th process and its connection have the number k.
Spawns == 1..MaxSpawns
Conns  == Spawns \cup Clients

\* RegionEvidence as runWorker fills it in; it always has generation 1.
WorkerEvidence(w, b, e) ==
  [generation |-> 1, sourceProvider |-> SeedProvider.id,
   sourceProviderGeneration |-> 1, region |-> SeedRegion.id,
   regionGeneration |-> 1, worker |-> w, boot |-> b,
   epoch |-> e, health |-> "HEALTHY", reachable |-> TRUE,
   onlineCapacityBytes |-> SeedRegion.totalCapacityBytes, latencyNs |-> 1,
   bandwidthBytesPerSec |-> 1, locality |-> "LOCAL"]

\* What the processes present to the fabric is among what its callers may.
ASSUME DeploymentAssumption ==
  /\ Spawns \cap Clients = {}
  /\ SeedProvider \in ProviderDescriptors /\ SeedRegion \in RegionDescriptors
  /\ \A w \in Workers, b \in Boots, e \in Epochs :
       /\ WorkerEvidence(w, b, e) \in Evidences
       /\ [epoch |-> e, worker |-> w, boot |-> b] \in Authorities
  /\ \A e \in Epochs : [epoch |-> e, worker |-> Null, boot |-> Null] \in Authorities
  /\ \A c \in Clients : \A q \in ClientRequests[c] :
       /\ q.type = "SPAWN_WORKER" => q.worker \in Workers /\ q.boot \in Boots
       /\ q.type = "TERMINATE_WORKER" => q.worker \in Workers
       /\ q.type = "RESERVE" => q.request \in Requests
       /\ q.type \in {"COMMIT", "RELEASE"} => q.reservation \in ReservationIds

VARIABLES
  proc,         \* spawn -> the process, its handle and its monitor
  procHandles,  \* worker -> handle, or Null
  holdsHandle,  \* worker -> WorkerRecord::holdsHandle
  inbox,        \* connection -> the frames sent and not yet dispatched
  isWorker,     \* connection of a process -> the local of its thread
  thread,       \* connection -> where handleConnection is, and its local
  sendMtx,      \* the connection whose thread holds the mutex, or Null
  waiting       \* client -> the request it waits for, Nothing or Closed

deployment == <<proc, procHandles, holdsHandle, inbox, isWorker, thread,
                sendMtx, waiting>>
systemVars == <<vars, deployment>>

NoProc == [state |-> "none", monitor |-> "none", worker |-> Null,
           boot |-> Null, handle |-> Null, sent |-> FALSE]

Nothing == [type |-> "nothing"]
Closed  == [type |-> "closed"]

\* What the coordinator does it does as an operator of its own epoch.
Operator == [epoch |-> epoch, worker |-> Null, boot |-> Null]

\* A call on the fabric whose error is not looked at.
Attempt(Call) == Call \/ (~ENABLED Call /\ UNCHANGED vars)

OpenHandles == {proc[k].handle : k \in {j \in Spawns :
                  proc[j].state # "none" /\ proc[j].monitor # "closed"}}

-----------------------------------------------------------------------------
(***************************************************************************)
(* The worker process: HELLO, one publication, then it reads until killed.  *)
(***************************************************************************)
\* What process k reports.
EvidenceBy(k) == WorkerEvidence(proc[k].worker, proc[k].boot, epoch)

\* It connects, however long that takes, and sends its two frames. (Killed
\* between the two it has lost the second one, as in Exits.)
WorkerSends(k) ==
  /\ proc[k].state = "running" /\ ~proc[k].sent
  /\ proc' = [proc EXCEPT ![k].sent = TRUE]
  /\ inbox' = [inbox EXCEPT ![k] =
                 <<[type |-> "HELLO"], [type |-> "PUBLISH_EVIDENCE"]>>]
  /\ UNCHANGED <<vars, procHandles, holdsHandle, isWorker, thread, sendMtx,
                 waiting>>

\* Process k is gone. Its connection is reset: of the frames it has sent and
\* nobody has read, a last part is lost.
Exits(k) ==
  /\ proc' = [proc EXCEPT ![k].state = "exited"]
  /\ \E n \in 0..Len(inbox[k]) :
       inbox' = [inbox EXCEPT ![k] = SubSeq(@, 1, n)]

WorkerExits(k) ==
  /\ proc[k].state = "running"
  /\ Exits(k)
  /\ UNCHANGED <<vars, procHandles, holdsHandle, isWorker, thread, sendMtx,
                 waiting>>

-----------------------------------------------------------------------------
(***************************************************************************)
(* workerMonitor: the thread of process k.                                  *)
(***************************************************************************)
\* The exit is noticed and nobody is told.
Fault_MonitorMarks_Silent(k) ==
  /\ proc[k].state = "exited" /\ proc[k].monitor = "waiting"
  /\ proc' = [proc EXCEPT ![k].monitor = "marked"]
  /\ UNCHANGED <<vars, procHandles, holdsHandle, inbox, isWorker, thread, sendMtx,
                 waiting>>

\* WaitForSingleObject returns, and the worker is marked dead by its id.
MonitorMarks(k) ==
  /\ proc[k].state = "exited" /\ proc[k].monitor = "waiting"
  /\ Attempt(markWorkerDead(proc[k].worker, Operator))
  /\ proc' = [proc EXCEPT ![k].monitor = "marked"]
  /\ UNCHANGED <<procHandles, holdsHandle, inbox, isWorker, thread, sendMtx,
                 waiting>>

\* The handle is closed and the table keeps it.
Fault_MonitorCloses_KeepsEntry(k) ==
  /\ proc[k].monitor = "marked"
  /\ proc' = [proc EXCEPT ![k].monitor = "closed"]
  /\ UNCHANGED <<vars, procHandles, holdsHandle, inbox, isWorker, thread,
                 sendMtx, waiting>>

\* Under procMtx: the entry of the worker goes, and the handle is closed.
MonitorCloses(k) ==
  /\ proc[k].monitor = "marked"
  /\ procHandles' = [procHandles EXCEPT ![proc[k].worker] = Null]
  /\ proc' = [proc EXCEPT ![k].monitor = "closed"]
  /\ UNCHANGED <<vars, holdsHandle, inbox, isWorker, thread, sendMtx, waiting>>

-----------------------------------------------------------------------------
(***************************************************************************)
(* handleConnection: the thread of connection c.                            *)
(***************************************************************************)
Reading == [at |-> "recv", arg |-> Null]

At(c, place) == thread[c].at = place

Goes(c, place, arg) ==
  thread' = [thread EXCEPT ![c] = [at |-> place, arg |-> arg]]

\* The thread takes the next frame, of the given type.
Dispatch(c, type) ==
  /\ At(c, "recv")
  /\ inbox[c] # <<>> /\ Head(inbox[c]).type = type
  /\ inbox' = [inbox EXCEPT ![c] = Tail(@)]

\* HELLO: registerWorker decides isWorker; noteWorkerHandle is a second call.
HandleHello(k) ==
  /\ Dispatch(k, "HELLO")
  /\ LET w == proc[k].worker
         b == proc[k].boot IN
     \/ /\ registerWorker(w, b, epoch, Operator)
        /\ isWorker' = [isWorker EXCEPT ![k] = TRUE]
        /\ holdsHandle' = [holdsHandle EXCEPT ![w] = FALSE]
        /\ Goes(k, "noting", Null)
     \/ /\ ~ENABLED registerWorker(w, b, epoch, Operator)
        /\ isWorker' = [isWorker EXCEPT ![k] = FALSE]
        /\ Goes(k, "replying", Null)
        /\ UNCHANGED <<vars, holdsHandle>>
  /\ UNCHANGED <<proc, procHandles, sendMtx, waiting>>

NoteHandle(k) ==
  /\ At(k, "noting")
  /\ holdsHandle' = [holdsHandle EXCEPT ![proc[k].worker] = TRUE]
  /\ Goes(k, "replying", Null)
  /\ UNCHANGED <<vars, proc, procHandles, inbox, isWorker, sendMtx, waiting>>

\* The publication is made as an operator.
Fault_HandlePublish_Operator(k) ==
  /\ Dispatch(k, "PUBLISH_EVIDENCE")
  /\ IF isWorker[k]
     THEN Attempt(\/ publishRegionEvidence(EvidenceBy(k), Operator)
                  \/ publishRefusedLate(EvidenceBy(k), Operator))
     ELSE UNCHANGED vars
  /\ UNCHANGED <<proc, procHandles, holdsHandle, isWorker, thread, sendMtx,
                 waiting>>

\* PUBLISH_EVIDENCE: dropped unless isWorker, and never answered. The call is
\* made under the boot of the connection.
HandlePublish(k) ==
  /\ Dispatch(k, "PUBLISH_EVIDENCE")
  /\ LET a == [epoch |-> epoch, worker |-> proc[k].worker, boot |-> proc[k].boot]
     IN  IF isWorker[k]
         THEN Attempt(\/ publishRegionEvidence(EvidenceBy(k), a)
                      \/ publishRefusedLate(EvidenceBy(k), a))
         ELSE UNCHANGED vars
  /\ UNCHANGED <<proc, procHandles, holdsHandle, isWorker, thread, sendMtx,
                 waiting>>

\* The entries that the reply to request q lists: the candidates of a selection,
\* the records INSPECT shows, the checks of audit(). Other replies have no list.
ReplyEntries(q) ==
  CASE q.type = "SELECT"  -> Cardinality(Candidates(q.request))
    [] q.type = "INSPECT" ->
         Cardinality({i \in ReservationIds : reservations[i].state # "ABSENT"})
           + Cardinality({w \in Workers : workers[w].boot # Null})
           + Cardinality(KnownRegions)
    [] q.type = "AUDIT"   ->
         Cardinality(KnownRegions)
           + Cardinality(UNION {{p} \X DOMAIN pools[p].members : p \in Pools})
    [] OTHER              -> 0

\* sendFrame sends nothing if encodeFrame finds the payload over kMaxPayload.
Fits(q) == ReplyEntries(q) <= MaxEntries

\* The thread goes on to send the reply to q, or back to recv without one.
Answers(c, q) == IF Fits(q) THEN Goes(c, "replying", Null) ELSE UNCHANGED thread

\* A SELECT or RESERVE that decodeRequirements refuses, and a COMMIT, RELEASE,
\* SPAWN_WORKER or TERMINATE_WORKER with too few bytes: dropped, not answered.
HandleUnreadable(c) ==
  /\ Dispatch(c, "UNREADABLE")
  /\ UNCHANGED <<vars, proc, procHandles, holdsHandle, isWorker, thread, sendMtx,
                 waiting>>

\* SELECT is answered if select succeeds, which refuses a request for no bytes.
HandleSelect(c) ==
  /\ Dispatch(c, "SELECT")
  /\ LET q == Head(inbox[c]) IN
     IF q.request.requiredBytes = 0 THEN UNCHANGED thread ELSE Answers(c, q)
  /\ UNCHANGED <<vars, proc, procHandles, holdsHandle, isWorker, sendMtx, waiting>>

\* INSPECT, AUDIT and SAVE: nothing changes in memory.
HandleRead(c) ==
  /\ \E type \in {"INSPECT", "AUDIT", "SAVE"} : Dispatch(c, type)
  /\ Answers(c, Head(inbox[c]))
  /\ UNCHANGED <<vars, proc, procHandles, holdsHandle, isWorker, sendMtx, waiting>>

\* RESERVE and RELEASE, once read, are answered whether they succeed or not.
HandleReserve(c) ==
  /\ Dispatch(c, "RESERVE")
  /\ Attempt(requestReservation(Head(inbox[c]).request, Operator))
  /\ Goes(c, "replying", Null)
  /\ UNCHANGED <<proc, procHandles, holdsHandle, isWorker, sendMtx, waiting>>

HandleRelease(c) ==
  /\ Dispatch(c, "RELEASE")
  /\ Attempt(releaseReservation(Head(inbox[c]).reservation, Operator))
  /\ Goes(c, "replying", Null)
  /\ UNCHANGED <<proc, procHandles, holdsHandle, isWorker, sendMtx, waiting>>

\* COMMIT is answered only if it succeeds.
HandleCommit(c) ==
  /\ Dispatch(c, "COMMIT")
  /\ LET i == Head(inbox[c]).reservation IN
     \/ commitReservation(i, Operator) /\ Goes(c, "replying", Null)
     \/ ~ENABLED commitReservation(i, Operator) /\ UNCHANGED <<vars, thread>>
  /\ UNCHANGED <<proc, procHandles, holdsHandle, isWorker, sendMtx, waiting>>

\* SPAWN_WORKER: CreateProcess. The process runs before its handle is recorded.
HandleSpawn(c) ==
  /\ Dispatch(c, "SPAWN_WORKER")
  /\ \/ \E k \in Spawns, h \in Handles \ OpenHandles :
          /\ proc[k].state = "none"
          /\ \A j \in 1..(k - 1) : proc[j].state # "none"
          /\ \A g \in Handles \ OpenHandles : h <= g
          /\ proc' = [proc EXCEPT ![k] =
               [state |-> "running", monitor |-> "none",
                worker |-> Head(inbox[c]).worker, boot |-> Head(inbox[c]).boot,
                handle |-> h, sent |-> FALSE]]
          /\ Goes(c, "recording", k)
     \/ UNCHANGED proc /\ Goes(c, "replying", Null)
  /\ UNCHANGED <<vars, procHandles, holdsHandle, isWorker, sendMtx, waiting>>

\* Under procMtx the handle is recorded; then the monitor is started.
RecordHandle(c) ==
  /\ At(c, "recording")
  /\ LET k == thread[c].arg IN
     /\ procHandles' = [procHandles EXCEPT ![proc[k].worker] = proc[k].handle]
     /\ proc' = [proc EXCEPT ![k].monitor = "waiting"]
  /\ Goes(c, "replying", Null)
  /\ UNCHANGED <<vars, holdsHandle, inbox, isWorker, sendMtx, waiting>>

\* TERMINATE_WORKER: the handle is looked up under procMtx, and used after it.
HandleTerminate(c) ==
  /\ Dispatch(c, "TERMINATE_WORKER")
  /\ LET h == procHandles[Head(inbox[c]).worker] IN
     IF h = Null THEN Goes(c, "replying", Null) ELSE Goes(c, "terminating", h)
  /\ UNCHANGED <<vars, proc, procHandles, holdsHandle, isWorker, sendMtx, waiting>>

\* TerminateProcess ends the process the handle stands for by now, if any runs.
TerminateProcess(c) ==
  /\ At(c, "terminating")
  /\ LET victims == {k \in Spawns : /\ proc[k].handle = thread[c].arg
                                    /\ proc[k].monitor # "closed"
                                    /\ proc[k].state = "running"} IN
     IF victims = {} THEN UNCHANGED <<proc, inbox>>
     ELSE \E k \in victims : Exits(k)
  /\ Goes(c, "replying", Null)
  /\ UNCHANGED <<vars, procHandles, holdsHandle, isWorker, sendMtx, waiting>>

\* sendFrame under sendMtx: the peer has the reply, or has closed and the error
\* is ignored.
Delivered(c) ==
  /\ sendMtx' = Null
  /\ thread' = [thread EXCEPT ![c] = Reading]
  /\ waiting' = IF c \in Clients /\ waiting[c] # Closed
                THEN [waiting EXCEPT ![c] = Nothing] ELSE waiting
  /\ UNCHANGED <<vars, proc, procHandles, holdsHandle, inbox, isWorker>>

SendReply(c) ==
  /\ At(c, "replying")
  /\ sendMtx = Null
  /\ Delivered(c)

\* The socket is full of what the client has not read: send blocks, and the
\* thread keeps the mutex.
BlockInSend(c) ==
  /\ c \in Clients /\ waiting[c] # Closed
  /\ At(c, "replying")
  /\ sendMtx = Null
  /\ sendMtx' = c
  /\ Goes(c, "blocked", Null)
  /\ UNCHANGED <<vars, proc, procHandles, holdsHandle, inbox, isWorker, waiting>>

\* The error of a send to a client that has closed leaves the mutex locked.
Fault_Unblock_KeepsLock(c) ==
  /\ At(c, "blocked")
  /\ IF waiting[c] = Closed
     THEN /\ thread' = [thread EXCEPT ![c] = Reading]
          /\ UNCHANGED <<vars, proc, procHandles, holdsHandle, inbox, isWorker,
                         sendMtx, waiting>>
     ELSE Delivered(c)

\* The client reads, or has closed: send returns.
Unblock(c) == At(c, "blocked") /\ Delivered(c)

-----------------------------------------------------------------------------
(***************************************************************************)
(* Clients (MefClient in src/tests/proto_client.hpp): one request at a      *)
(* time, and the client reads until the reply comes.                        *)
(***************************************************************************)
ClientSends(c, q) ==
  /\ waiting[c] = Nothing
  /\ waiting' = [waiting EXCEPT ![c] = q]
  /\ inbox' = [inbox EXCEPT ![c] = Append(@, q)]
  /\ UNCHANGED <<vars, proc, procHandles, holdsHandle, isWorker, thread, sendMtx>>

\* A client gives up. (One that closes between two requests is one that makes
\* no more of them.)
ClientCloses(c) ==
  /\ waiting[c] \notin {Nothing, Closed}
  /\ waiting' = [waiting EXCEPT ![c] = Closed]
  /\ UNCHANGED <<vars, proc, procHandles, holdsHandle, inbox, isWorker, thread,
                 sendMtx>>

-----------------------------------------------------------------------------
\* runCoordinator with --seed.
SystemInit ==
  /\ epoch \in Epochs
  /\ providers = [p \in Providers |->
       IF p = SeedProvider.id
       THEN [descriptor |-> SeedProvider, lifecycle |-> "REGISTERED"]
       ELSE NoProvider]
  /\ domains = [d \in Domains |-> 1]
  /\ regions = [r \in Regions |->
       IF r = SeedRegion.id
       THEN [descriptor |-> SeedRegion, lifecycle |-> "DECLARED"] ELSE NoRegion]
  /\ ledger = [r \in Regions |-> NewLedger(
       IF r = SeedRegion.id THEN SeedRegion.totalCapacityBytes ELSE 0)]
  /\ evidence = [r \in Regions |-> NoEvidence]
  /\ attachments = [r \in Regions |-> <<>>]
  /\ poolMemberships = [r \in Regions |-> {}]
  /\ pools = [p \in Pools |-> NoPool]
  /\ policies = [p \in Policies |-> NoPolicy]
  /\ consumers = [c \in Consumers |-> 1]
  /\ reservations = [i \in ReservationIds |-> NoReservation]
  /\ workers = [w \in Workers |-> NoWorker]
  /\ proc = [k \in Spawns |-> NoProc]
  /\ procHandles = [w \in Workers |-> Null]
  /\ holdsHandle = [w \in Workers |-> FALSE]
  /\ inbox = [c \in Conns |-> <<>>]
  /\ isWorker = [k \in Spawns |-> FALSE]
  /\ thread = [c \in Conns |-> Reading]
  /\ sendMtx = Null
  /\ waiting = [c \in Clients |-> Nothing]

\* The steps of the thread of connection c that need no mutex.
Runs(c) ==
  \/ c \in Spawns /\ (HandleHello(c) \/ NoteHandle(c) \/ HandlePublish(c))
  \/ HandleUnreadable(c) \/ HandleSelect(c) \/ HandleRead(c)
  \/ HandleReserve(c) \/ HandleRelease(c) \/ HandleCommit(c)
  \/ HandleSpawn(c) \/ RecordHandle(c)
  \/ HandleTerminate(c) \/ TerminateProcess(c)

Monitors(k) == MonitorMarks(k) \/ MonitorCloses(k)

SystemNext ==
  \/ \E c \in Conns : \/ Runs(c) \/ SendReply(c)
                      \/ BlockInSend(c) \/ Unblock(c)
  \/ \E k \in Spawns : \/ WorkerSends(k) \/ WorkerExits(k)
                       \/ Monitors(k)
  \/ \E c \in Clients : \/ \E q \in ClientRequests[c] : ClientSends(c, q)
                        \/ ClientCloses(c)

SystemSpec == SystemInit /\ [][SystemNext]_systemVars

\* Every thread of the coordinator is scheduled, and gets sendMtx if it is free
\* again and again; a worker that runs sends; a client that waits for a reply
\* reads. Nobody has to make a request, to exit or to close.
Fairness ==
  /\ \A c \in Conns : /\ WF_systemVars(Runs(c))
                      /\ SF_systemVars(SendReply(c) \/ BlockInSend(c))
                      /\ WF_systemVars(Unblock(c))
  /\ \A k \in Spawns : /\ WF_systemVars(Monitors(k))
                       /\ WF_systemVars(WorkerSends(k))

FairSpec == SystemSpec /\ Fairness

-----------------------------------------------------------------------------
\* The table of handles never names a closed handle, which by then may be that
\* of another process: the monitor erases the entry and closes the handle under
\* one lock, and is started only after the entry was made.
TableNamesOpenHandles ==
  \A w \in Workers : procHandles[w] # Null => procHandles[w] \in OpenHandles

\* CURRENT evidence of the boot a worker has now is of a worker not known to be
\* dead, whatever is delivered late: what a client reserves on it has an
\* authority behind it.
CurrentEvidenceHasAuthor ==
  \A r \in Regions :
    LET e == evidence[r].latest IN
    (evidence[r].status = "CURRENT" /\ workers[e.worker].boot = e.boot)
      => workers[e.worker].alive

\* What the code answers at all: not what it cannot read, not a SELECT for no
\* bytes, and a COMMIT only if it has committed.
Answered(q) ==
  /\ q.type \notin {"nothing", "closed", "UNREADABLE", "COMMIT"}
  /\ q.type = "SELECT" => q.request.requiredBytes # 0

\* A client gets the answer it waits for, unless it is too long for a frame,
\* whatever processes die and whoever else is slow to read or waits in vain; and
\* a reply that is on its way is sent, that to a COMMIT included.
RequestAnswered ==
  \A c \in Clients :
    /\ Answered(waiting[c])
         ~> (waiting[c] \in {Nothing, Closed} \/ ~Fits(waiting[c]))
    /\ At(c, "replying") ~> At(c, "recv")

\* The death of the process a worker is registered with, if its monitor has not
\* reported yet, ends the authority of that boot.
DeathDetected ==
  \A k \in Spawns, w \in Workers :
    (/\ proc[k].state = "exited" /\ proc[k].monitor \in {"none", "waiting"}
     /\ proc[k].worker = w /\ workers[w].boot = proc[k].boot)
      ~> ~(workers[w].alive /\ workers[w].boot = proc[k].boot)

-----------------------------------------------------------------------------
(***************************************************************************)
(* Stated by the documentation, and not kept by the code.                   *)
(***************************************************************************)
\* README: the coordinator "owns their process handles, which it uses to prove
\* worker death": a boot loses its authority only after its process has exited.
DeathIsProven ==
  [][\A w \in Workers : (workers[w].alive /\ ~workers'[w].alive) =>
       \E k \in Spawns : /\ proc[k].worker = w /\ proc[k].boot = workers[w].boot
                         /\ proc[k].state = "exited"]_systemVars
=============================================================================
