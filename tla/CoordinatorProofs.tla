-------------------------- MODULE CoordinatorProofs --------------------------
(***************************************************************************)
(* The fabric inside the coordinator process, and its table of handles.     *)
(* Whatever the threads, the monitors, the workers and the clients do, each *)
(* step makes at most one call on the fabric, with arguments the fabric's   *)
(* own proofs are about: so its invariants hold in the deployment.          *)
(***************************************************************************)
EXTENDS Coordinator, BindingProofs

-----------------------------------------------------------------------------
(***************************************************************************)
(* The shape of the deployment.                                             *)
(***************************************************************************)
Procs ==
  [state : {"none", "running", "exited"},
   monitor : {"none", "waiting", "marked", "closed"},
   worker : Workers \cup {Null}, boot : Boots \cup {Null},
   handle : Handles \cup {Null}, sent : BOOLEAN]

Places == {"recv", "noting", "replying", "recording", "terminating", "blocked"}

\* A process that was ever started has a worker's identity.
Named(k) == proc[k].state # "none" /\ proc[k].worker \in Workers /\ proc[k].boot \in Boots

\* What is in the inbox of a connection was sent by the peer it belongs to.
Delivers(c) ==
  /\ inbox[c] \in Seq(IF c \in Spawns
                      THEN {[type |-> "HELLO"], [type |-> "PUBLISH_EVIDENCE"]}
                      ELSE ClientRequests[c])
  /\ (c \in Spawns /\ inbox[c] # <<>>) => Named(c)

\* A thread that is about to record a handle has started the process.
Records(c) ==
  thread[c].at = "recording" => thread[c].arg \in Spawns /\ Named(thread[c].arg)

SystemTypes ==
  /\ proc \in [Spawns -> Procs]
  /\ thread \in [Conns -> [at : Places, arg : Spawns \cup Handles \cup {Null}]]
  /\ procHandles \in [Workers -> Handles \cup {Null}]
  /\ DOMAIN inbox = Conns
  /\ \A k \in Spawns : proc[k].state # "none" => Named(k)
  /\ \A c \in Conns : Delivers(c) /\ Records(c)

\* The entry of a worker is the handle of a process of its own that has not
\* been closed.
Recorded(w) ==
  procHandles[w] # Null =>
    \E k \in Spawns : /\ proc[k].worker = w /\ proc[k].handle = procHandles[w]
                      /\ proc[k].state # "none" /\ proc[k].monitor # "closed"

TableInv == \A w \in Workers : Recorded(w)

-----------------------------------------------------------------------------
\* Tails and prefixes of what was delivered, and the first of it.
LEMMA SeqParts ==
  ASSUME NEW S, NEW s \in Seq(S)
  PROVE  /\ s # <<>> => Head(s) \in S /\ Tail(s) \in Seq(S)
         /\ \A n \in 0..Len(s) : SubSeq(s, 1, n) \in Seq(S)
         /\ \A n \in 0..Len(s) : SubSeq(s, 1, n) # <<>> => s # <<>>
<1>1. \A n \in 0..Len(s) : SubSeq(s, 1, n) \in Seq(S)
  OBVIOUS
<1>2. s # <<>> => Head(s) \in S /\ Tail(s) \in Seq(S)
  OBVIOUS
<1>3. s = <<>> => \A n \in 0..Len(s) : SubSeq(s, 1, n) = <<>>
  OBVIOUS
<1> QED BY <1>1, <1>2, <1>3

\* A frame that a thread dispatches was sent by its peer.
LEMMA Dispatched ==
  ASSUME SystemTypes, NEW c \in Conns, NEW type, Dispatch(c, type)
  PROVE  /\ c \in Spawns => type \in {"HELLO", "PUBLISH_EVIDENCE"} /\ Named(c)
         /\ c \notin Spawns => /\ c \in Clients
                               /\ Head(inbox[c]) \in ClientRequests[c]
         /\ Head(inbox[c]).type = type
<1>1. inbox[c] # <<>> /\ Head(inbox[c]).type = type /\ Delivers(c)
  BY DEF Dispatch, SystemTypes
<1>2. CASE c \in Spawns
  <2>1. Head(inbox[c]) \in {[type |-> "HELLO"], [type |-> "PUBLISH_EVIDENCE"]}
    BY <1>1, <1>2, SeqParts DEF Delivers
  <2> QED BY <1>1, <1>2, <2>1 DEF Delivers
<1>3. CASE c \notin Spawns
  <2>1. inbox[c] \in Seq(ClientRequests[c])
    BY <1>1, <1>3 DEF Delivers
  <2> QED BY <1>1, <1>3, <2>1, SeqParts DEF Conns
<1> QED BY <1>2, <1>3

-----------------------------------------------------------------------------
(***************************************************************************)
(* The calls on the fabric.                                                 *)
(***************************************************************************)
Boot(w, b) == [epoch |-> epoch, worker |-> w, boot |-> b]

Published(w, b) ==
  \/ publishRegionEvidence(WorkerEvidence(w, b, epoch), Boot(w, b))
  \/ publishRefusedLate(WorkerEvidence(w, b, epoch), Boot(w, b))

Called ==
  \/ \E w \in Workers : markWorkerDead(w, Operator)
  \/ \E w \in Workers, b \in Boots : registerWorker(w, b, epoch, Operator)
  \/ \E w \in Workers, b \in Boots : Published(w, b)
  \/ \E q \in Requests : requestReservation(q, Operator)
  \/ \E i \in ReservationIds : commitReservation(i, Operator)
  \/ \E i \in ReservationIds : releaseReservation(i, Operator)

\* They are calls of module Fabric.
LEMMA CalledIsNext ==
  ASSUME TypeOK, Called
  PROVE  Next
<1>1. epoch \in Epochs /\ Operator \in Authorities
  BY DeploymentAssumption DEF TypeOK, Operator
<1>2. ASSUME NEW w \in Workers, NEW b \in Boots
      PROVE  Boot(w, b) \in Authorities /\ WorkerEvidence(w, b, epoch) \in Evidences
  BY <1>1, DeploymentAssumption DEF Boot
<1>3. ASSUME NEW w \in Workers, markWorkerDead(w, Operator) PROVE Next
  BY <1>1, <1>3 DEF Next, Work
<1>4. ASSUME NEW w \in Workers, NEW b \in Boots, registerWorker(w, b, epoch, Operator)
      PROVE  Next
  BY <1>1, <1>4 DEF Next, Work
<1>5. ASSUME NEW w \in Workers, NEW b \in Boots, Published(w, b) PROVE Next
  BY <1>2, <1>5 DEF Next, Publish, Published
<1>6. ASSUME NEW q \in Requests, requestReservation(q, Operator) PROVE Next
  BY <1>1, <1>6 DEF Next, Reserve
<1>7. ASSUME NEW i \in ReservationIds,
             commitReservation(i, Operator) \/ releaseReservation(i, Operator)
      PROVE  Next
  BY <1>1, <1>7 DEF Next, Reserve
<1> QED BY <1>3, <1>4, <1>5, <1>6, <1>7 DEF Called

\* The thread of a connection makes one call at most.
LEMMA RunsCalls ==
  ASSUME SystemTypes, NEW c \in Conns, Runs(c)
  PROVE  Called \/ UNCHANGED vars
<1>1. CASE c \in Spawns /\ HandleHello(c)
  <2>1. Named(c)
    BY <1>1, Dispatched DEF HandleHello
  <2>2. \/ registerWorker(proc[c].worker, proc[c].boot, epoch, Operator)
        \/ UNCHANGED vars
    BY <1>1 DEF HandleHello
  <2> QED BY <2>1, <2>2 DEF Named, Called
<1>2. CASE c \in Spawns /\ HandlePublish(c)
  <2>1. Named(c)
    BY <1>2, Dispatched DEF HandlePublish
  <2>2. Published(proc[c].worker, proc[c].boot) \/ UNCHANGED vars
    BY <1>2 DEF HandlePublish, Attempt, Published, Boot, EvidenceBy
  <2> QED BY <2>1, <2>2 DEF Named, Called
<1>3. CASE HandleReserve(c)
  <2>1. Head(inbox[c]).request \in Requests
    BY <1>3, Dispatched, DeploymentAssumption DEF HandleReserve
  <2>2. requestReservation(Head(inbox[c]).request, Operator) \/ UNCHANGED vars
    BY <1>3 DEF HandleReserve, Attempt
  <2> QED BY <2>1, <2>2 DEF Called
<1>4. CASE HandleRelease(c)
  <2>1. Head(inbox[c]).reservation \in ReservationIds
    BY <1>4, Dispatched, DeploymentAssumption DEF HandleRelease
  <2>2. releaseReservation(Head(inbox[c]).reservation, Operator) \/ UNCHANGED vars
    BY <1>4 DEF HandleRelease, Attempt
  <2> QED BY <2>1, <2>2 DEF Called
<1>5. CASE HandleCommit(c)
  <2>1. Head(inbox[c]).reservation \in ReservationIds
    BY <1>5, Dispatched, DeploymentAssumption DEF HandleCommit
  <2>2. commitReservation(Head(inbox[c]).reservation, Operator) \/ UNCHANGED vars
    BY <1>5 DEF HandleCommit
  <2> QED BY <2>1, <2>2 DEF Called
<1>6. CASE NoteHandle(c) \/ HandleSpawn(c) \/ RecordHandle(c)
           \/ HandleTerminate(c) \/ TerminateProcess(c)
  BY <1>6 DEF NoteHandle, HandleSpawn, RecordHandle, HandleTerminate, TerminateProcess
<1>7. CASE HandleUnreadable(c) \/ HandleSelect(c) \/ HandleRead(c)
  BY <1>7 DEF HandleUnreadable, HandleSelect, HandleRead
<1> QED BY <1>1, <1>2, <1>3, <1>4, <1>5, <1>6, <1>7 DEF Runs

\* So does every step of the deployment.
LEMMA SystemCalls ==
  ASSUME SystemTypes, [SystemNext]_systemVars
  PROVE  Called \/ UNCHANGED vars
<1>1. ASSUME NEW c \in Conns, Runs(c) PROVE Called \/ UNCHANGED vars
  BY <1>1, RunsCalls
<1>2. ASSUME NEW c \in Conns, SendReply(c) \/ BlockInSend(c) \/ Unblock(c)
      PROVE  UNCHANGED vars
  BY <1>2 DEF SendReply, BlockInSend, Unblock, Delivered
<1>3. ASSUME NEW k \in Spawns, WorkerSends(k) \/ WorkerExits(k) \/ MonitorCloses(k)
      PROVE  UNCHANGED vars
  BY <1>3 DEF WorkerSends, WorkerExits, MonitorCloses
<1>4. ASSUME NEW k \in Spawns, MonitorMarks(k) PROVE Called \/ UNCHANGED vars
  <2>1. proc[k].worker \in Workers
    BY <1>4 DEF MonitorMarks, SystemTypes, Named
  <2>2. markWorkerDead(proc[k].worker, Operator) \/ UNCHANGED vars
    BY <1>4 DEF MonitorMarks, Attempt
  <2> QED BY <2>1, <2>2 DEF Called
<1>5. ASSUME NEW c \in Clients, NEW q, ClientSends(c, q) PROVE UNCHANGED vars
  BY <1>5 DEF ClientSends
<1>6. ASSUME NEW c \in Clients, ClientCloses(c) PROVE UNCHANGED vars
  BY <1>6 DEF ClientCloses
<1>7. UNCHANGED systemVars => UNCHANGED vars
  BY DEF systemVars
<1> QED BY <1>1, <1>2, <1>3, <1>4, <1>5, <1>6, <1>7 DEF SystemNext, Monitors

-----------------------------------------------------------------------------
(***************************************************************************)
(* The processes: one that was started keeps its identity and its handle.   *)
(***************************************************************************)
\* How process k may change in a step.
Grows(k) ==
  /\ proc'[k] \in Procs
  /\ proc[k].state # "none" =>
       /\ proc'[k].state # "none" /\ proc'[k].worker = proc[k].worker
       /\ proc'[k].boot = proc[k].boot /\ proc'[k].handle = proc[k].handle
  /\ (proc[k].state = "none" /\ proc'[k].state # "none") =>
       proc'[k].worker \in Workers /\ proc'[k].boot \in Boots
  /\ (proc[k].monitor # "closed" /\ proc'[k].monitor = "closed") =>
       proc[k].state = "none" \/ MonitorCloses(k)

\* All the processes, with the map they are in.
AllGrow == proc' \in [Spawns -> Procs] /\ \A k \in Spawns : Grows(k)

\* Updates of one field that identifies nothing.
LEMMA FieldGrows ==
  ASSUME SystemTypes, NEW k \in Spawns,
         \/ proc' = [proc EXCEPT ![k].sent = TRUE]
         \/ proc[k].state # "none" /\ proc' = [proc EXCEPT ![k].state = "exited"]
         \/ proc' = [proc EXCEPT ![k].monitor = "waiting"]
         \/ proc' = [proc EXCEPT ![k].monitor = "marked"]
         \/ proc' = [proc EXCEPT ![k].monitor = "closed"] /\ MonitorCloses(k)
  PROVE  AllGrow
<1>1. proc \in [Spawns -> Procs] /\ proc[k] \in Procs
  BY DEF SystemTypes
<1>2. \A j \in Spawns : j # k => proc'[j] = proc[j] /\ proc[j] \in Procs
  BY <1>1
<1>3. Grows(k)
  <2>1. CASE proc' = [proc EXCEPT ![k].sent = TRUE]
    <3>1. proc'[k] = [proc[k] EXCEPT !.sent = TRUE]
      BY <1>1, <2>1
    <3> QED BY <1>1, <3>1 DEF Grows, Procs
  <2>2. CASE proc[k].state # "none" /\ proc' = [proc EXCEPT ![k].state = "exited"]
    <3>1. proc'[k] = [proc[k] EXCEPT !.state = "exited"]
      BY <1>1, <2>2
    <3> QED BY <1>1, <2>2, <3>1 DEF Grows, Procs
  <2>3. ASSUME NEW m \in {"waiting", "marked", "closed"},
               m = "closed" => MonitorCloses(k),
               proc' = [proc EXCEPT ![k].monitor = m]
        PROVE  Grows(k)
    <3>1. proc'[k] = [proc[k] EXCEPT !.monitor = m]
      BY <1>1, <2>3
    <3>2. /\ proc'[k] \in Procs /\ proc'[k].monitor = m
          /\ proc'[k].state = proc[k].state /\ proc'[k].worker = proc[k].worker
          /\ proc'[k].boot = proc[k].boot /\ proc'[k].handle = proc[k].handle
      BY <1>1, <3>1 DEF Procs
    <3> QED BY <2>3, <3>2 DEF Grows
  <2> QED BY <2>1, <2>2, <2>3
<1>4. \A j \in Spawns : j # k => Grows(j)
  BY <1>2 DEF Grows
<1>5. proc' \in [Spawns -> Procs]
  <2>1. DOMAIN proc' = Spawns /\ proc' = [j \in DOMAIN proc' |-> proc'[j]]
    BY <1>1
  <2> QED BY <1>2, <1>3, <2>1 DEF Grows
<1> QED BY <1>3, <1>4, <1>5 DEF AllGrow

\* The processes are as they were.
LEMMA SameGrows ==
  ASSUME SystemTypes, proc' = proc
  PROVE  AllGrow
  BY DEF SystemTypes, AllGrow, Grows

\* The thread of a connection.
LEMMA RunsGrow ==
  ASSUME SystemTypes, NEW c \in Conns, Runs(c)
  PROVE  AllGrow
<1>1. CASE HandleSpawn(c)
  <2>1. Head(inbox[c]).worker \in Workers /\ Head(inbox[c]).boot \in Boots
    BY <1>1, Dispatched, DeploymentAssumption DEF HandleSpawn
  <2>2. ASSUME NEW k \in Spawns, NEW h \in Handles, proc[k].state = "none",
               proc' = [proc EXCEPT ![k] =
                 [state |-> "running", monitor |-> "none",
                  worker |-> Head(inbox[c]).worker, boot |-> Head(inbox[c]).boot,
                  handle |-> h, sent |-> FALSE]]
        PROVE  AllGrow
    <3>1. proc \in [Spawns -> Procs]
      BY DEF SystemTypes
    <3> DEFINE new == [state |-> "running", monitor |-> "none",
                       worker |-> Head(inbox[c]).worker,
                       boot |-> Head(inbox[c]).boot,
                       handle |-> h, sent |-> FALSE]
    <3>2. new \in Procs /\ new.worker \in Workers /\ new.boot \in Boots
          /\ new.monitor = "none"
      BY <2>1 DEF Procs
    <3>3. proc' = [proc EXCEPT ![k] = new]
      BY <2>2
    <3> HIDE DEF new
    <3> QED BY <2>2, <3>1, <3>2, <3>3 DEF AllGrow, Grows
  <2> QED BY <1>1, <2>2, SameGrows DEF HandleSpawn
<1>2. CASE RecordHandle(c)
  <2>1. thread[c].arg \in Spawns
    BY <1>2 DEF RecordHandle, At, SystemTypes, Records
  <2> QED BY <1>2, <2>1, FieldGrows DEF RecordHandle
<1>3. CASE TerminateProcess(c)
  <2>1. \/ proc' = proc
        \/ \E k \in Spawns : /\ proc[k].state = "running"
                             /\ proc' = [proc EXCEPT ![k].state = "exited"]
    BY <1>3 DEF TerminateProcess, Exits
  <2> QED BY <2>1, FieldGrows, SameGrows
<1>4. CASE HandleHello(c) \/ NoteHandle(c) \/ HandlePublish(c) \/ HandleReserve(c)
           \/ HandleRelease(c) \/ HandleCommit(c) \/ HandleTerminate(c)
  BY <1>4, SameGrows
  DEF HandleHello, NoteHandle, HandlePublish, HandleReserve, HandleRelease,
      HandleCommit, HandleTerminate
<1>5. CASE HandleUnreadable(c) \/ HandleSelect(c) \/ HandleRead(c)
  BY <1>5, SameGrows DEF HandleUnreadable, HandleSelect, HandleRead
<1> QED BY <1>1, <1>2, <1>3, <1>4, <1>5 DEF Runs

\* Every step.
LEMMA SystemGrows ==
  ASSUME SystemTypes, [SystemNext]_systemVars
  PROVE  AllGrow
<1>1. ASSUME NEW c \in Conns, Runs(c) PROVE AllGrow
  BY <1>1, RunsGrow
<1>2. ASSUME NEW c \in Conns, SendReply(c) \/ BlockInSend(c) \/ Unblock(c)
      PROVE  AllGrow
  BY <1>2, SameGrows DEF SendReply, BlockInSend, Unblock, Delivered
<1>3. ASSUME NEW k \in Spawns, WorkerSends(k) PROVE AllGrow
  BY <1>3, FieldGrows DEF WorkerSends
<1>4. ASSUME NEW k \in Spawns, WorkerExits(k) PROVE AllGrow
  BY <1>4, FieldGrows DEF WorkerExits, Exits
<1>5. ASSUME NEW k \in Spawns, MonitorMarks(k) PROVE AllGrow
  BY <1>5, FieldGrows DEF MonitorMarks
<1>6. ASSUME NEW k \in Spawns, MonitorCloses(k) PROVE AllGrow
  <2>1. proc' = [proc EXCEPT ![k].monitor = "closed"]
    BY <1>6 DEF MonitorCloses
  <2> QED BY <1>6, <2>1, FieldGrows
<1>7. ASSUME NEW c \in Clients, NEW q, ClientSends(c, q) PROVE AllGrow
  BY <1>7, SameGrows DEF ClientSends
<1>8. ASSUME NEW c \in Clients, ClientCloses(c) PROVE AllGrow
  BY <1>8, SameGrows DEF ClientCloses
<1>9. CASE UNCHANGED systemVars
  BY <1>9, SameGrows DEF systemVars, deployment
<1> QED BY <1>1, <1>2, <1>3, <1>4, <1>5, <1>6, <1>7, <1>8, <1>9
     DEF SystemNext, Monitors

\* A process that has an identity keeps it.
LEMMA NamedStays ==
  ASSUME SystemTypes, AllGrow, NEW k \in Spawns
  PROVE  /\ Named(k) => Named(k)'
         /\ proc'[k].state # "none" => Named(k)'
<1>1. Grows(k) /\ (proc[k].state # "none" => Named(k))
  BY DEF AllGrow, SystemTypes
<1> QED BY <1>1 DEF Grows, Named

-----------------------------------------------------------------------------
(***************************************************************************)
(* The inboxes.                                                             *)
(***************************************************************************)
\* How an inbox may change in a step.
Flows(c) ==
  \/ inbox'[c] = inbox[c]
  \/ inbox[c] # <<>> /\ inbox'[c] = Tail(inbox[c])
  \/ \E n \in 0..Len(inbox[c]) : inbox'[c] = SubSeq(inbox[c], 1, n)
  \/ /\ c \in Spawns /\ Named(c)
     /\ inbox'[c] = <<[type |-> "HELLO"], [type |-> "PUBLISH_EVIDENCE"]>>
  \/ /\ c \in Clients
     /\ \E q \in ClientRequests[c] : inbox'[c] = Append(inbox[c], q)

\* All the inboxes.
AllFlow == DOMAIN inbox' = Conns /\ \A c \in Conns : Flows(c)

\* One inbox changes.
LEMMA OneFlows ==
  ASSUME SystemTypes, NEW d \in Conns, NEW v, inbox' = [inbox EXCEPT ![d] = v],
         inbox'[d] = v => Flows(d)
  PROVE  AllFlow
<1>1. DOMAIN inbox' = Conns /\ inbox'[d] = v
  BY DEF SystemTypes
<1>2. \A c \in Conns : c # d => inbox'[c] = inbox[c]
  BY DEF SystemTypes
<1> QED BY <1>1, <1>2 DEF AllFlow, Flows

\* No inbox changes.
LEMMA SameFlows ==
  ASSUME SystemTypes, inbox' = inbox
  PROVE  AllFlow
  BY DEF SystemTypes, AllFlow, Flows

\* A frame is dispatched.
LEMMA DispatchFlows ==
  ASSUME SystemTypes, NEW c \in Conns, NEW type, Dispatch(c, type)
  PROVE  AllFlow
<1>1. inbox[c] # <<>> /\ inbox' = [inbox EXCEPT ![c] = Tail(inbox[c])]
  BY DEF Dispatch
<1> QED BY <1>1, OneFlows DEF Flows

\* A process ends.
LEMMA ExitsFlows ==
  ASSUME SystemTypes, NEW k \in Spawns, Exits(k)
  PROVE  AllFlow
<1>1. PICK n \in 0..Len(inbox[k]) :
        inbox' = [inbox EXCEPT ![k] = SubSeq(inbox[k], 1, n)]
  BY DEF Exits
<1>2. k \in Conns
  BY DEF Conns
<1> QED BY <1>1, <1>2, OneFlows DEF Flows

\* Every step.
LEMMA SystemFlows ==
  ASSUME SystemTypes, [SystemNext]_systemVars
  PROVE  AllFlow
<1>1. ASSUME NEW c \in Conns, Runs(c) PROVE AllFlow
  <2>1. CASE NoteHandle(c) \/ RecordHandle(c)
    BY <2>1, SameFlows DEF NoteHandle, RecordHandle
  <2>2. CASE TerminateProcess(c)
    BY <2>2, SameFlows, ExitsFlows DEF TerminateProcess
  <2>3. ASSUME \E type : Dispatch(c, type) PROVE AllFlow
    BY <2>3, DispatchFlows
  <2>4. CASE HandleHello(c) \/ HandlePublish(c) \/ HandleReserve(c)
             \/ HandleRelease(c) \/ HandleCommit(c) \/ HandleSpawn(c)
             \/ HandleTerminate(c)
    BY <2>3, <2>4
    DEF HandleHello, HandlePublish, HandleReserve, HandleRelease, HandleCommit,
        HandleSpawn, HandleTerminate
  <2>5. CASE HandleUnreadable(c) \/ HandleSelect(c) \/ HandleRead(c)
    BY <2>3, <2>5 DEF HandleUnreadable, HandleSelect, HandleRead
  <2> QED BY <1>1, <2>1, <2>2, <2>4, <2>5 DEF Runs
<1>2. ASSUME NEW c \in Conns, SendReply(c) \/ BlockInSend(c) \/ Unblock(c)
      PROVE  AllFlow
  BY <1>2, SameFlows DEF SendReply, BlockInSend, Unblock, Delivered
<1>3. ASSUME NEW k \in Spawns, WorkerSends(k) PROVE AllFlow
  <2>1. Named(k) /\ k \in Conns
    BY <1>3 DEF WorkerSends, SystemTypes, Conns
  <2>2. inbox' = [inbox EXCEPT ![k] =
                    <<[type |-> "HELLO"], [type |-> "PUBLISH_EVIDENCE"]>>]
    BY <1>3 DEF WorkerSends
  <2> QED BY <2>1, <2>2, OneFlows DEF Flows
<1>4. ASSUME NEW k \in Spawns, WorkerExits(k) PROVE AllFlow
  BY <1>4, ExitsFlows DEF WorkerExits
<1>5. ASSUME NEW k \in Spawns, MonitorMarks(k) \/ MonitorCloses(k) PROVE AllFlow
  BY <1>5, SameFlows DEF MonitorMarks, MonitorCloses
<1>6. ASSUME NEW c \in Clients, NEW q \in ClientRequests[c], ClientSends(c, q)
      PROVE  AllFlow
  <2>1. c \in Conns /\ inbox' = [inbox EXCEPT ![c] = Append(inbox[c], q)]
    BY <1>6 DEF ClientSends, Conns
  <2> QED BY <2>1, OneFlows DEF Flows
<1>7. ASSUME NEW c \in Clients, ClientCloses(c) PROVE AllFlow
  BY <1>7, SameFlows DEF ClientCloses
<1>8. CASE UNCHANGED systemVars
  BY <1>8, SameFlows DEF systemVars, deployment
<1> QED BY <1>1, <1>2, <1>3, <1>4, <1>5, <1>6, <1>7, <1>8 DEF SystemNext, Monitors

\* What is delivered is what the peer has sent.
LEMMA DeliversStill ==
  ASSUME SystemTypes, AllGrow, AllFlow, NEW c \in Conns
  PROVE  Delivers(c)'
<1> DEFINE S == IF c \in Spawns
                THEN {[type |-> "HELLO"], [type |-> "PUBLISH_EVIDENCE"]}
                ELSE ClientRequests[c]
<1>1. Flows(c) /\ inbox[c] \in Seq(S)
  BY DEF AllFlow, SystemTypes, Delivers
<1>2. inbox'[c] \in Seq(S)
  <2>1. CASE c \in Spawns /\ inbox'[c] = <<[type |-> "HELLO"],
                                           [type |-> "PUBLISH_EVIDENCE"]>>
    BY <2>1
  <2>2. CASE c \in Clients /\ \E q \in ClientRequests[c] :
               inbox'[c] = Append(inbox[c], q)
    <3>1. PICK q \in S : inbox'[c] = Append(inbox[c], q)
      BY <2>2, DeploymentAssumption
    <3> HIDE DEF S
    <3> QED BY <1>1, <3>1
  <2> HIDE DEF S
  <2>3. /\ inbox[c] # <<>> => Tail(inbox[c]) \in Seq(S)
        /\ \A n \in 0..Len(inbox[c]) : SubSeq(inbox[c], 1, n) \in Seq(S)
    BY <1>1, SeqParts
  <2>4. CASE inbox'[c] = inbox[c] \/ (inbox[c] # <<>> /\ inbox'[c] = Tail(inbox[c]))
    BY <1>1, <2>3, <2>4
  <2>5. CASE \E n \in 0..Len(inbox[c]) : inbox'[c] = SubSeq(inbox[c], 1, n)
    BY <2>3, <2>5
  <2> QED BY <1>1, <2>1, <2>2, <2>4, <2>5 DEF Flows
<1>3. (c \in Spawns /\ inbox'[c] # <<>>) => Named(c)
  <2> SUFFICES ASSUME c \in Spawns, inbox'[c] # <<>> PROVE Named(c)
    OBVIOUS
  <2>1. inbox[c] # <<>> => Named(c)
    BY DEF SystemTypes, Delivers
  <2>2. c \notin Clients
    BY DeploymentAssumption
  <2> HIDE DEF S
  <2>3. \A n \in 0..Len(inbox[c]) :
          SubSeq(inbox[c], 1, n) # <<>> => inbox[c] # <<>>
    BY <1>1, SeqParts
  <2> QED BY <1>1, <2>1, <2>2, <2>3 DEF Flows
<1>4. (c \in Spawns /\ inbox'[c] # <<>>) => Named(c)'
  BY <1>3, NamedStays
<1> QED BY <1>2, <1>4 DEF Delivers

-----------------------------------------------------------------------------
(***************************************************************************)
(* The threads and the table of handles.                                    *)
(***************************************************************************)
\* Where the thread of a connection may go in a step.
Moves(c) ==
  \/ UNCHANGED thread
  \/ \E at \in Places, arg \in Spawns \cup Handles \cup {Null} :
       /\ thread' = [thread EXCEPT ![c] = [at |-> at, arg |-> arg]]
       /\ at = "recording" => arg \in Spawns /\ proc'[arg].state # "none"

\* Every step moves one thread.
LEMMA SystemMoves ==
  ASSUME SystemTypes, [SystemNext]_systemVars
  PROVE  UNCHANGED thread \/ \E c \in Conns : Moves(c)
<1>1. ASSUME NEW c \in Conns, NEW at \in Places \ {"recording"}, Goes(c, at, Null)
      PROVE  Moves(c)
  BY <1>1 DEF Goes, Moves
<1>2. ASSUME NEW c \in Conns, Runs(c) PROVE Moves(c)
  <2>1. CASE HandleSpawn(c)
    <3>1. CASE Goes(c, "replying", Null)
      BY <1>1, <3>1 DEF Places
    <3>2. ASSUME NEW k \in Spawns, Goes(c, "recording", k), NEW v,
                 v.state = "running", proc' = [proc EXCEPT ![k] = v]
          PROVE  Moves(c)
      <4>1. proc'[k].state # "none"
        BY <3>2 DEF SystemTypes
      <4> QED BY <3>2, <4>1 DEF Goes, Moves, Places
    <3> QED BY <2>1, <3>1, <3>2 DEF HandleSpawn
  <2>2. CASE HandleTerminate(c)
    <3>1. Head(inbox[c]).worker \in Workers
      BY <2>2, Dispatched, DeploymentAssumption DEF HandleTerminate
    <3>2. procHandles[Head(inbox[c]).worker] \in Handles \cup {Null}
      BY <3>1 DEF SystemTypes
    <3> QED BY <2>2, <3>2 DEF HandleTerminate, Goes, Moves, Places
  <2>3. CASE HandleHello(c) \/ NoteHandle(c) \/ HandlePublish(c)
    BY <1>1, <2>3 DEF HandleHello, NoteHandle, HandlePublish, Moves, Places
  <2>4. CASE HandleReserve(c) \/ HandleRelease(c)
    BY <1>1, <2>4 DEF HandleReserve, HandleRelease, Places
  <2>6. CASE HandleUnreadable(c) \/ HandleSelect(c) \/ HandleRead(c)
    <3>1. UNCHANGED thread \/ Goes(c, "replying", Null)
      BY <2>6 DEF HandleUnreadable, HandleSelect, HandleRead, Answers
    <3> QED BY <1>1, <3>1 DEF Moves, Places
  <2>5. CASE HandleCommit(c) \/ RecordHandle(c) \/ TerminateProcess(c)
    BY <1>1, <2>5 DEF HandleCommit, RecordHandle, TerminateProcess, Moves, Places
  <2> QED BY <1>2, <2>1, <2>2, <2>3, <2>4, <2>5, <2>6 DEF Runs
<1>3. ASSUME NEW c \in Conns, SendReply(c) \/ BlockInSend(c) \/ Unblock(c)
      PROVE  Moves(c)
  BY <1>1, <1>3
  DEF SendReply, BlockInSend, Unblock, Delivered, Moves, Places, Reading
<1>4. ASSUME NEW k \in Spawns,
             WorkerSends(k) \/ WorkerExits(k) \/ MonitorMarks(k) \/ MonitorCloses(k)
      PROVE  UNCHANGED thread
  BY <1>4 DEF WorkerSends, WorkerExits, MonitorMarks, MonitorCloses
<1>5. ASSUME NEW c \in Clients, NEW q, ClientSends(c, q) \/ ClientCloses(c)
      PROVE  UNCHANGED thread
  BY <1>5 DEF ClientSends, ClientCloses
<1>6. CASE UNCHANGED systemVars
  BY <1>6 DEF systemVars, deployment
<1> QED BY <1>2, <1>3, <1>4, <1>5, <1>6 DEF SystemNext, Monitors

\* A thread about to record a handle has started its process.
LEMMA ThreadsStay ==
  ASSUME SystemTypes, AllGrow, [SystemNext]_systemVars
  PROVE  /\ thread' \in [Conns -> [at : Places, arg : Spawns \cup Handles \cup {Null}]]
         /\ \A c \in Conns : Records(c)'
<1> DEFINE Args == Spawns \cup Handles \cup {Null}
<1>1. thread \in [Conns -> [at : Places, arg : Args]]
  BY DEF SystemTypes
<1>2. ASSUME NEW c \in Conns, thread'[c] = thread[c] PROVE Records(c)'
  BY <1>2, NamedStays DEF SystemTypes, Records
<1>3. CASE UNCHANGED thread
  BY <1>1, <1>2, <1>3
<1>4. CASE \E d \in Conns, at \in Places, arg \in Args :
             /\ thread' = [thread EXCEPT ![d] = [at |-> at, arg |-> arg]]
             /\ at = "recording" => arg \in Spawns /\ proc'[arg].state # "none"
  <2>1. PICK d \in Conns, at \in Places, arg \in Args :
               /\ thread' = [thread EXCEPT ![d] = [at |-> at, arg |-> arg]]
               /\ at = "recording" => arg \in Spawns /\ proc'[arg].state # "none"
    BY <1>4
  <2>2. thread' \in [Conns -> [at : Places, arg : Args]]
    BY <1>1, <2>1
  <2>3. thread'[d].at = at /\ thread'[d].arg = arg
    BY <1>1, <2>1
  <2>4. Records(d)'
    BY <2>1, <2>3, NamedStays DEF Records
  <2>5. \A c \in Conns : c # d => thread'[c] = thread[c]
    BY <1>1, <2>1
  <2> QED BY <1>2, <2>2, <2>4, <2>5
<1> QED BY <1>3, <1>4, SystemMoves DEF Moves

\* How the table may change in a step.
LEMMA TableSteps ==
  ASSUME SystemTypes, [SystemNext]_systemVars
  PROVE  \/ UNCHANGED procHandles
         \/ \E k \in Spawns :
              /\ MonitorCloses(k)
              /\ procHandles' = [procHandles EXCEPT ![proc[k].worker] = Null]
         \/ \E k \in Spawns :
              /\ Named(k) /\ proc' = [proc EXCEPT ![k].monitor = "waiting"]
              /\ procHandles' = [procHandles EXCEPT ![proc[k].worker] = proc[k].handle]
<1>1. ASSUME NEW c \in Conns, RecordHandle(c)
      PROVE  \E k \in Spawns :
               /\ Named(k) /\ proc' = [proc EXCEPT ![k].monitor = "waiting"]
               /\ procHandles' = [procHandles EXCEPT ![proc[k].worker] = proc[k].handle]
  <2>1. thread[c].arg \in Spawns /\ Named(thread[c].arg)
    BY <1>1 DEF RecordHandle, At, SystemTypes, Records
  <2> QED BY <1>1, <2>1 DEF RecordHandle
<1>2. ASSUME NEW c \in Conns, Runs(c), ~RecordHandle(c) PROVE UNCHANGED procHandles
  BY <1>2 DEF Runs, HandleHello, NoteHandle, HandlePublish, HandleUnreadable,
              HandleSelect, HandleRead, HandleReserve, HandleRelease, HandleCommit, HandleSpawn,
              HandleTerminate, TerminateProcess
<1>3. ASSUME NEW c \in Conns, SendReply(c) \/ BlockInSend(c) \/ Unblock(c)
      PROVE  UNCHANGED procHandles
  BY <1>3 DEF SendReply, BlockInSend, Unblock, Delivered
<1>4. ASSUME NEW k \in Spawns, WorkerSends(k) \/ WorkerExits(k) \/ MonitorMarks(k)
      PROVE  UNCHANGED procHandles
  BY <1>4 DEF WorkerSends, WorkerExits, MonitorMarks
<1>5. ASSUME NEW k \in Spawns, MonitorCloses(k)
      PROVE  procHandles' = [procHandles EXCEPT ![proc[k].worker] = Null]
  BY <1>5 DEF MonitorCloses
<1>6. ASSUME NEW c \in Clients, NEW q, ClientSends(c, q) \/ ClientCloses(c)
      PROVE  UNCHANGED procHandles
  BY <1>6 DEF ClientSends, ClientCloses
<1>7. CASE UNCHANGED systemVars
  BY <1>7 DEF systemVars, deployment
<1> QED BY <1>1, <1>2, <1>3, <1>4, <1>5, <1>6, <1>7 DEF SystemNext, Monitors

\* The table names handles, and the shape of the deployment stays.
LEMMA SystemTypesNext ==
  ASSUME SystemTypes, [SystemNext]_systemVars
  PROVE  SystemTypes'
<1>1. AllGrow /\ AllFlow
  BY SystemGrows, SystemFlows
<1>2. procHandles' \in [Workers -> Handles \cup {Null}]
  <2>1. procHandles \in [Workers -> Handles \cup {Null}]
    BY DEF SystemTypes
  <2>2. \A k \in Spawns : proc[k].handle \in Handles \cup {Null}
    BY DEF SystemTypes, Procs
  <2> QED BY <2>1, <2>2, TableSteps
<1>3. proc' \in [Spawns -> Procs] /\ DOMAIN inbox' = Conns
  BY <1>1 DEF AllGrow, AllFlow
<1>4. \A k \in Spawns : (proc[k].state # "none" => Named(k))'
  BY <1>1, NamedStays
<1>5. /\ thread' \in [Conns -> [at : Places, arg : Spawns \cup Handles \cup {Null}]]
      /\ \A c \in Conns : Records(c)'
  BY <1>1, ThreadsStay
<1>6. \A c \in Conns : Delivers(c)'
  BY <1>1, DeliversStill
<1> QED BY <1>2, <1>3, <1>4, <1>5, <1>6 DEF SystemTypes

\* An entry outlives a step only if its handle does.
LEMMA TableNext ==
  ASSUME SystemTypes, TableInv, [SystemNext]_systemVars
  PROVE  TableInv'
<1> SUFFICES ASSUME NEW w \in Workers, procHandles'[w] # Null
             PROVE  \E k \in Spawns :
                      /\ proc'[k].worker = w /\ proc'[k].handle = procHandles'[w]
                      /\ proc'[k].state # "none" /\ proc'[k].monitor # "closed"
  BY DEF TableInv, Recorded
<1>1. \A k \in Spawns : Grows(k)
  BY SystemGrows DEF AllGrow
<1>2. procHandles \in [Workers -> Handles \cup {Null}] /\ proc \in [Spawns -> Procs]
  BY DEF SystemTypes
<1>3. CASE procHandles'[w] = procHandles[w]
  <2>1. PICK k \in Spawns :
               /\ proc[k].worker = w /\ proc[k].handle = procHandles[w]
               /\ proc[k].state # "none" /\ proc[k].monitor # "closed"
    BY <1>3 DEF TableInv, Recorded
  <2>2. ~MonitorCloses(k)
    BY <1>2, <2>1 DEF MonitorCloses
  <2> QED BY <1>1, <1>3, <2>1, <2>2 DEF Grows
<1>4. CASE procHandles'[w] # procHandles[w]
  <2>1. PICK k \in Spawns :
               /\ Named(k) /\ proc' = [proc EXCEPT ![k].monitor = "waiting"]
               /\ procHandles' = [procHandles EXCEPT ![proc[k].worker] = proc[k].handle]
    BY <1>2, <1>4, TableSteps
  <2>2. proc[k].worker = w /\ procHandles'[w] = proc[k].handle
    BY <1>2, <1>4, <2>1
  <2>3. proc'[k].monitor = "waiting"
    <3>1. proc[k] \in Procs /\ proc'[k] = [proc[k] EXCEPT !.monitor = "waiting"]
      BY <1>2, <2>1
    <3> QED BY <3>1 DEF Procs
  <2> QED BY <1>1, <2>1, <2>2, <2>3 DEF Grows, Named
<1> QED BY <1>3, <1>4

-----------------------------------------------------------------------------
(***************************************************************************)
(* The start, and the theorems.                                             *)
(***************************************************************************)
\* What --seed registers is a fresh fabric.
LEMMA SeedFresh == SystemInit => Fresh
<1> SUFFICES ASSUME SystemInit PROVE Fresh
  OBVIOUS
<1>1. /\ SeedProvider \in ProviderDescriptors /\ SeedProvider.id \in Providers
      /\ SeedRegion \in RegionDescriptors /\ SeedRegion.id \in Regions
      /\ SeedRegion.generation \in Nat \ {0}
      /\ SeedRegion.totalCapacityBytes \in Words
  BY DeploymentAssumption, DescriptorAssumption, IdAssumption
<1>2. providers \in [Providers -> ProviderRecords]
  BY <1>1 DEF SystemInit, ProviderRecords, NoProvider, ProviderStates
<1>3. regions \in [Regions -> RegionRecords]
  BY <1>1 DEF SystemInit, RegionRecords, NoRegion, RegionStates
<1>4. \A r \in Regions :
        /\ ledger[r] = NewLedger(IF r \in KnownRegions
                                 THEN regions[r].descriptor.totalCapacityBytes ELSE 0)
        /\ ledger[r] \in Ledgers
  <2> SUFFICES ASSUME NEW r \in Regions
               PROVE  /\ ledger[r] = NewLedger(
                           IF r \in KnownRegions
                           THEN regions[r].descriptor.totalCapacityBytes ELSE 0)
                      /\ ledger[r] \in Ledgers
    OBVIOUS
  <2> DEFINE n == IF r = SeedRegion.id THEN SeedRegion.totalCapacityBytes ELSE 0
  <2>1. ledger[r] = NewLedger(n)
    BY DEF SystemInit
  <2>2. n \in Words
    BY <1>1, MaxWordAssumption DEF Words
  <2>3. n = IF r \in KnownRegions THEN regions[r].descriptor.totalCapacityBytes ELSE 0
    BY <1>1 DEF SystemInit, KnownRegions, RegionGeneration, NoRegion, NoDescriptor
  <2> HIDE DEF n
  <2> QED BY <2>1, <2>2, <2>3, NewLedgerClosed
<1>5. ledger \in [Regions -> Ledgers]
  <2>1. ledger = [r \in Regions |-> ledger[r]]
    BY DEF SystemInit
  <2> QED BY <1>4, <2>1
<1>6. /\ NoEvidence \in EvidenceRecords /\ NoPool \in PoolRecords
      /\ NoPolicy \in PolicyRecords /\ NoWorker \in WorkerRecords
  BY DEF NoEvidence, NoPool, NoPolicy, NoWorker, EvidenceRecords, PoolRecords,
         PolicyRecords, WorkerRecords
<1>7. NoReservation \in Reservations
  BY MaxWordAssumption DEF NoReservation, Reservations, Words
<1>8. TypeOK
  BY <1>2, <1>3, <1>5, <1>6, <1>7 DEF SystemInit, TypeOK
<1> QED BY <1>4, <1>8 DEF SystemInit, Fresh

\* The shape of the deployment at its start.
LEMMA SystemTypesInit == SystemInit => SystemTypes /\ TableInv
<1> SUFFICES ASSUME SystemInit PROVE SystemTypes /\ TableInv
  OBVIOUS
<1>1. NoProc \in Procs /\ NoProc.state = "none"
  BY DEF NoProc, Procs
<1>2. proc \in [Spawns -> Procs] /\ \A k \in Spawns : proc[k].state = "none"
  BY <1>1 DEF SystemInit
<1>3. /\ thread \in [Conns -> [at : Places, arg : Spawns \cup Handles \cup {Null}]]
      /\ \A c \in Conns : Records(c)
  BY DEF SystemInit, Reading, Places, Records
<1>4. DOMAIN inbox = Conns /\ \A c \in Conns : Delivers(c)
  BY DEF SystemInit, Delivers
<1> QED BY <1>2, <1>3, <1>4 DEF SystemInit, SystemTypes, TableInv, Recorded

\* The inductive invariant of the deployment.
SystemInv == FabricInv /\ SystemTypes /\ TableInv

\* It holds of every behaviour.
LEMMA AlwaysSystem == SystemSpec => []SystemInv
<1>1. SystemInit => SystemInv
  BY SeedFresh, FreshIsSound, SystemTypesInit DEF SystemInv
<1>2. SystemInv /\ [SystemNext]_systemVars => SystemInv'
  <2> SUFFICES ASSUME SystemInv, [SystemNext]_systemVars PROVE SystemInv'
    OBVIOUS
  <2>1. FabricInv /\ TypeOK /\ SystemTypes /\ TableInv
    BY DEF SystemInv, FabricInv, BoundInv, IInv
  <2>2. [Next]_vars
    BY <2>1, SystemCalls, CalledIsNext
  <2> QED BY <2>1, <2>2, NextFabric, SystemTypesNext, TableNext DEF SystemInv
<1> QED BY <1>1, <1>2, PTL DEF SystemSpec

\* The table of handles never names a closed handle, for any number of clients,
\* processes and handle values: the entry of a worker is the handle of a process
\* of its own that no monitor has closed, though a second spawn may overwrite it.
THEOREM TableIsOpen == SystemSpec => []TableNamesOpenHandles
<1>1. SystemInv => TableNamesOpenHandles
  BY DEF SystemInv, TableInv, Recorded, TableNamesOpenHandles, OpenHandles
<1> QED BY <1>1, AlwaysSystem, PTL

\* The fabric's guarantees hold under the coordinator's threads, its monitors
\* and whatever its workers and clients send: no frame leads to a call outside
\* those the fabric's own theorems are about.
THEOREM SoundInDeployment ==
  SystemSpec => [](/\ LedgerClosed /\ AuditAccounting
                   /\ LiveReservationCurrent /\ NoReservationOfDeadBoot
                   /\ CurrentEvidenceIsFresh)
<1>1. SystemInv => /\ LedgerClosed /\ AuditAccounting
                   /\ LiveReservationCurrent /\ NoReservationOfDeadBoot
                   /\ CurrentEvidenceIsFresh
  BY DEF SystemInv, FabricInv, BoundInv, IInv, EvidenceInv
<1> QED BY <1>1, AlwaysSystem, PTL

-----------------------------------------------------------------------------
\* Evidence in the deployment comes from workers.
FromWorkers ==
  \A r \in Regions : evidence[r].status = "CURRENT" =>
    evidence[r].latest.worker \in Workers

\* The authority behind evidence, and that there is one.
AuthorInv == FromWorkers /\ CurrentEvidenceHasAuthor

\* The steps that keep the evidence and kill nobody.
LEMMA AuthorKept ==
  ASSUME AuthorInv, evidence' = evidence,
         \A w \in Workers : \/ workers'[w] = workers[w]
                            \/ workers'[w].alive
  PROVE  AuthorInv'
  BY DEF AuthorInv, FromWorkers, CurrentEvidenceHasAuthor

\* Every call of the coordinator keeps an author behind CURRENT evidence.
LEMMA AuthorNext ==
  ASSUME FabricInv, AuthorInv, Called \/ UNCHANGED vars
  PROVE  AuthorInv'
<1>1. TypeOK /\ EvidenceInv
  BY DEF FabricInv, BoundInv, IInv
<1>2. CASE UNCHANGED vars
  BY <1>2, AuthorKept DEF vars
<1>3. ASSUME NEW w \in Workers, NEW b \in Boots, registerWorker(w, b, epoch, Operator)
      PROVE  AuthorInv'
  BY <1>1, <1>3, AuthorKept DEF registerWorker, TypeOK
<1>4. ASSUME NEW w \in Workers, markWorkerDead(w, Operator) PROVE AuthorInv'
  <2>1. \A r \in Regions : evidence[r] \in EvidenceRecords
    BY <1>1 DEF TypeOK
  <2>2. ASSUME NEW r \in Regions, evidence'[r].status = "CURRENT"
        PROVE  evidence'[r] = evidence[r] /\ r \notin Observed(w)
    BY <1>4, <2>1, <2>2 DEF markWorkerDead, EvidenceRecords
  <2>3. \A v \in Workers : /\ workers'[v].boot = workers[v].boot
                           /\ v # w => workers'[v] = workers[v]
    BY <1>1, <1>4 DEF markWorkerDead, TypeOK, WorkerRecords
  <2>4. \A r \in Regions : evidence[r].status = "CURRENT" =>
          r \in KnownRegions /\ evidence[r].has
    BY <1>1 DEF EvidenceInv, CurrentEvidenceIsFresh, CurrentEvidenceInUse
  <2>5. ASSUME NEW r \in Regions, evidence'[r].status = "CURRENT",
               workers'[evidence'[r].latest.worker].boot = evidence'[r].latest.boot
        PROVE  workers'[evidence'[r].latest.worker].alive
    <3> DEFINE v == evidence[r].latest.worker
    <3>1. evidence'[r] = evidence[r] /\ v \in Workers
      BY <2>2, <2>5 DEF AuthorInv, FromWorkers
    <3>2. workers[v].boot = evidence[r].latest.boot
      BY <2>3, <2>5, <3>1
    <3>3. v # w
      BY <2>2, <2>4, <2>5, <3>1, <3>2 DEF Observed
    <3>4. workers[v].alive
      BY <2>5, <3>1, <3>2 DEF AuthorInv, CurrentEvidenceHasAuthor
    <3> QED BY <2>3, <3>1, <3>3, <3>4
  <2>6. FromWorkers'
    BY <2>2 DEF AuthorInv, FromWorkers
  <2> QED BY <2>5, <2>6 DEF AuthorInv, CurrentEvidenceHasAuthor
<1>5. ASSUME NEW w \in Workers, NEW b \in Boots, Published(w, b) PROVE AuthorInv'
  <2> DEFINE e == WorkerEvidence(w, b, epoch)
  <2>1. /\ authorityAcceptable(Boot(w, b)) /\ workers' = workers
        /\ evidence' = [evidence EXCEPT ![e.region] =
                          [latest |-> e, has |-> TRUE, status |-> "CURRENT"]]
    BY <1>5 DEF Published, publishRegionEvidence, publishRefusedLate, Publishable,
                Record
  <2>2. workers[w].alive /\ w # Null
    BY <2>1, IdAssumption DEF authorityAcceptable, Boot, Null
  <2>3. e.worker = w
    BY DEF WorkerEvidence
  <2> HIDE DEF e
  <2>4. ASSUME NEW r \in Regions
        PROVE  evidence'[r] = evidence[r] \/ evidence'[r].latest = e
    BY <1>1, <2>1 DEF TypeOK
  <2> QED BY <2>1, <2>2, <2>3, <2>4 DEF AuthorInv, FromWorkers,
                                        CurrentEvidenceHasAuthor
<1>6. ASSUME NEW q \in Requests, requestReservation(q, Operator) PROVE AuthorInv'
  BY <1>6, AuthorKept DEF requestReservation
<1>7. ASSUME NEW i \in ReservationIds,
             commitReservation(i, Operator) \/ releaseReservation(i, Operator)
      PROVE  AuthorInv'
  BY <1>7, AuthorKept DEF commitReservation, releaseReservation, OnReservation
<1> QED BY <1>2, <1>3, <1>4, <1>5, <1>6, <1>7 DEF Called

\* In every deployment CURRENT evidence of the boot a worker has now is of a
\* worker not known to be dead: a publication that arrives after the monitor's
\* report is refused, and the report takes back what arrived before it.
THEOREM EvidenceHasAuthor == SystemSpec => []CurrentEvidenceHasAuthor
<1>1. SystemInit => AuthorInv
  BY DEF SystemInit, NoEvidence, AuthorInv, FromWorkers, CurrentEvidenceHasAuthor
<1>2. SystemInv /\ AuthorInv /\ [SystemNext]_systemVars => AuthorInv'
  BY SystemCalls, AuthorNext DEF SystemInv
<1>3. AuthorInv => CurrentEvidenceHasAuthor
  BY DEF AuthorInv
<1> QED BY <1>1, <1>2, <1>3, AlwaysSystem, PTL DEF SystemSpec
=============================================================================
