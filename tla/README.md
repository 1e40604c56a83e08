# TLA+ verification of the Memory Expansion Fabric

The fabric decides which memory-expansion region may promise how many bytes to
whom. It keeps a registry (providers, regions, pools, policies, consumers,
workers), an exact capacity ledger per region, dynamic evidence about each
region, and reservations bound to the generation of everything they rest on.
A coordinator process owns one fabric, spawns workers that publish evidence,
answers clients over a framed protocol and saves the registry to a file. This
directory models the fabric, its file, the processes around it and the
protocol, checks them with TLC, and proves with TLAPS every safety property that
the runs check. Paths below are relative to the repository.

## Inventory

| Part | State it keeps | Operations | What makes it correct |
|---|---|---|---|
| Capacity ledger, `capacity.hpp` | seven 64-bit counters: total, online and the buckets free, reserved, committed, draining, unavailable | `setOnline`, eleven checked moves | the buckets add up to online, online <= total, no counter wraps |
| Lifecycle tables, `fabric.cpp`, `enums.hpp` | none | three predicates | lifecycles move only along the tables |
| Authority, `authority.hpp`, `fabric.cpp` | none of its own | `authorityAcceptableLocked`, first check of every call | old epochs, dead or replaced boots change nothing |
| Registry, `fabric.cpp` | the maps of `Fabric::Impl` | `register*`, `addPoolMember`, `removePoolMember`, `setEpoch` | whatever is replaced fences what depends on it |
| Evidence, `fabric.cpp` | latest evidence, its status, attachments | `publishRegionEvidence`, `publishAttachment` | CURRENT means of this epoch and these generations |
| Region transitions, `fabric.cpp` | lifecycle, ledger | `beginDrain`, `completeDrain`, `cancelDrain`, `markUnavailable`, `recoverRegion`, `retire*` | withdrawn bytes are not promised; settled regions hold nothing reserved |
| Workers, `fabric.cpp` | boot, epoch, alive, holdsHandle | `registerWorker`, `markWorkerDead`, `noteWorkerHandle` | nothing is promised in the name of a dead boot |
| Selection, `selection.cpp` | none, reads all of the above | `select` | deterministic; an eligible region can really serve |
| Reservations, `reservation.cpp` | state, bytes and eight bindings each | request, commit, release | live ones are bound to what is current; a region never owes more than it has |
| Snapshot and audit, `snapshot.cpp` | none, read only | `snapshot`, `audit` | the checks of `audit()` |
| Persistence, `persistence.cpp` | one file and its temporary | `save`, `load` | the file is whole or absent, and of one moment; a restart trusts no old evidence. The first holds for saves that do not overlap, and for others under conditions; see the departures |
| Coordinator, `coordinator.cpp` | connection threads, monitor threads, the handle table, two mutexes | HELLO, PUBLISH_EVIDENCE, SPAWN_WORKER, TERMINATE_WORKER, SELECT, RESERVE, COMMIT, RELEASE, INSPECT, AUDIT, SAVE | a request it can read gets its answer whoever else is slow or gone; every death is noticed and attributed to the right boot |
| Worker process, `worker.cpp` | one connection | connect, HELLO, publish, wait | what it sends and is read late does no harm |
| Protocol, `protocol.cpp` | receive buffer | `encodeFrame`, `decodeFrame`, four codecs | frames are consumed exactly once whatever the chunking; a message is decoded to what was encoded |
| Backends, `backends.cpp` | none | discovery | constant descriptors and the system's memory size |
| CLI, benchmark, examples, CUDA proof | none | | callers only |

How they interact. All fabric state is guarded by one `shared_mutex`; a mutating
call holds it exclusively from its first check to its last assignment, so inside
one process a call is atomic, and the concurrency is the order in which calls of
operators, workers, connection threads and monitors arrive, with arguments that
were true when they were formed and may be stale when they are applied. Every
call presents an authority (epoch, worker, boot). A newer generation of
anything, a new epoch and a worker's death fence reservations: their bytes leave
the reserved or committed bucket for the unavailable one. Selection reads
evidence and ledgers; a reservation then binds the generations it saw, and
commit compares them again. `save` holds the mutex shared, so that saves exclude
calls but not each other. In the coordinator one thread per connection takes
frames out of a byte stream and makes the calls; one monitor per spawned process
waits for its exit and reports the worker dead; `procMtx` guards single accesses
to the handle table, and one `sendMtx` is held by whichever thread sends.

Hard behaviours: long sequences of legal calls over shared counters (fence after
drain after fence); messages of an old epoch, generation or boot that arrive
late; a drain, withdrawal or recovery in the middle of a reservation's life;
several regions driving one provider's lifecycle; loops that move bytes one
reservation at a time in the order of a hash map and ignore refusals; shrinking
online capacity against outstanding obligations; a crash between any two file
operations, and two saves at once; a process that exits before, while or after
its frames are read and its handle is recorded; a client that does not read;
frames cut anywhere. The `hazards` of `PROJECT.json` give the lines.

## Modules

| Module | Models | Correspondence |
|---|---|---|
| `Lifecycle` | the three guard tables | a table is a function from a state to its successors |
| `CapacityLedger` | `capacity.hpp` | a ledger is a function from counter names to `0..MaxWord`; `Move` is what all moves share (source holds n, target does not overflow), `CanMove` its result |
| `FabricState` | `fabric_impl.hpp`, `authority.hpp`, the descriptors of `types.hpp` | one variable per map; `RegionRecord` is split over `regions`, `ledger`, `evidence`, `attachments`, `poolMemberships`; an absent entry has generation (boot) 0 |
| `Selection` | `selection.cpp` | eligibility gates as sequences in the code's order, scores as exact integers over a common denominator, `TopRegions` for `ranked[0]` |
| `Fabric` | `fabric.cpp`, `reservation.cpp` | one action per public call; a call that fails before it writes is no step, `publishRefusedLate` is the one that fails after it has written |
| `Promises` | what the fabric promises, abstractly | a promise of bytes of a region is made, confirmed, ended for good; capacity changes at will but covers what is open |
| `FabricProperties` | the properties of `Fabric` | invariants, action properties, and the refinement mapping to `Promises` |
| `FenceLoop` | `Impl::fence` and its callers' loops, the loops of `setEpoch` and `beginDrain` | the loops literally, folded over every order of every set; checked in the run `accounting` |
| `Persistence` | `persistence.cpp` around `Fabric` | `up`, `file`, `tmp` and where each saving thread is; `save` is one step per operation on the file system: open (which truncates), write and flush, close, rename, remove, each of which may fail; a stream keeps the file it was opened on through renames; `around` is what saves may meet (overlap, failing writes, open files that move); `Crash` loses all memory between any two steps; `load` starts a new fabric |
| `Coordinator` | `coordinator.cpp`, `worker.cpp` around `Fabric` | processes, handles, monitors, per-connection inboxes and threads, `sendMtx`, clients; one action per handler, and one per later step of a handler that gives up a lock in between; a handler that returns without a reply leaves its client waiting |
| `FrameChannel` | what the framing promises, abstractly | whole frames, once each, in order, up to the first malformed one |
| `Wire` | framing and the receive loop | the stream and the buffer are sequences of units; `Recv` takes any part of what has arrived; `Channel` maps it to `FrameChannel` |
| `Codec` | class `Writer`, class `Reader`, the four encode/decode pairs | a layout is the sequence of fields a function writes or reads, taken from each function separately |
| `Exchange` | `Wire` and `Codec` together | a frame carries an encoded message of the structures of `types.hpp`, and what is dispatched is decoded |
| `MCFabric`, `MCPersistence`, `MCCoordinator`, `MCWire` | instances | the descriptors, messages and requests the configurations offer |
| `FabricProofs`, `BindingProofs`, `PromisesProofs`, `PersistenceProofs`, `CoordinatorProofs`, `WireProofs`, `LoopProofs`, `CodecProofs` | proofs | see below |

`Fabric` fences a set of reservations in one expression: `Bytes(S)` counts the
(reservation, byte) pairs of S, so no recursion is needed and the provers can
reason about it. `FenceLoop` says that this equals the loop of the code in every
order, and the same of the releases of `beginDrain`; the run `accounting` checks
it, and `LoopsFenceAtOnce` and `DrainCancelsAtOnce` below prove it.
`setEpoch` has its own outcome table because the code fences in line there and
takes RESERVED to REVALIDATION_REQUIRED where `Impl::fence` says FENCED.

Definitions named `Fault_...` are the mistakes the properties are tried against:
each is a definition of the model changed as a plausible bug would, and no
specification uses one.

Abstractions.

* Names, timestamps, origins, diagnostics, selection ids and policy rules are
  read by no operation and left out. A record's `health`, `reachable`,
  `latencyNs` and `bandwidthBytesPerSec` are copies of the latest evidence.
  Where two different sets of factors have the same exact score, the doubles of
  the code may round either way; `Precedes` allows both orders.
  `reserveHeadroomFactor` is a whole number of percent of either sign; below -100
  the headroom is negative, as in the code. A factor that is no number is left out.
* A file is absent, a complete image or a part of one. The header, the lengths
  and the checksum of `persistence.cpp` are what lets `load` tell them apart;
  the bytes are left out. `load` advances the epoch, `serializePayload` writes
  neither lifecycles nor ledgers, evidence, attachments, reservations, workers.
* In `Coordinator` a frame arrives whole or is lost with its connection: how it
  comes out of the byte stream is the subject of `Wire`. A client is the one of
  `tests/proto_client.hpp`: one request at a time, and it reads until the answer
  comes; it may close. A request the code cannot read (requirements that do not
  decode, too few bytes) is a frame of one type, UNREADABLE, since all are dropped
  alike. The length of a reply is the number of entries it lists, and `MaxEntries`
  is what `kMaxPayload` has room for. A process handle is a number that is free again once
  closed, and the least free one is given out, so that reuse happens.
* In `Wire` a header field and a payload byte are one unit each. `crc32` stands
  for the checksum as a function of the payload; that two payloads differ in it
  is not claimed. A fault changes a unit before the packet is sent, as a peer of
  another version or a damaged buffer would; loss and reordering inside a
  connection are excluded by TCP.

## Runs

| Run | Shows |
|---|---|
| `accounting` | One region, shrinking and growing evidence, two reservations of one or two bytes, every lifecycle call: `TypeOK`, `LedgerClosed`, `AuditAccounting`; unavailable bytes return only with recovery or a new generation (`UnavailableUntilRecovered`); a committed reservation that ends by a fence leaves its bytes unavailable (`CommittedBytesAccounted`); fencing any set of reservations one by one, in any order, ends where the bulk fence ends (`BulkFenceIsTheLoop`); the loop of a drain releases all it meets (`DrainLoopReleasesAll`); the fabric implements `Promises` (`PromisesKept`). |
| `fencing` | Two epochs, two generations of provider and region, messages of all of them at any time: live reservations are bound to the current everything (`LiveReservationCurrent`), CURRENT evidence is fresh (`CurrentEvidenceIsFresh`), reservations move along their table (`ReservationTransitionsAllowed`). |
| `bindings` | The same binding for pools and policies, with membership changes. |
| `workers` | One worker, two boots, two epochs: nothing live belongs to the boot a worker died with (`NoReservationOfDeadBoot`), and bytes are promised only in service, on CURRENT evidence, to a live boot (`PromisesOnlyInService`). |
| `two_regions` | Two regions under one provider with different evidence and attachments, three kinds of request: `SettledHoldsNothing`, `ProviderTransitionsAllowed`, and of the selection `RankingIsDeterministic`, `EligibleServes`. |
| `restart` | Two threads save one path, one at a time or at once, writes fail, open files are renamed, the process stops anywhere and is started again: saves one at a time, and saves at once where nothing fails and an open file stays, never leave a part of an image (`FileNeverTorn`); what a save puts in place, if it is whole, is the state of that moment (`SaveIsSnapshot`); after a restart a region serves only on evidence received since (`ServesOnlyOnEvidence`). |
| `coordinator` | A client that spawns and kills a worker, another that selects, reserves, commits, releases, inspects and sends what cannot be read, under fairness: what the code answers at all is answered, and a reply once begun is sent (`RequestAnswered`); the death of a registered process ends its authority (`DeathDetected`). |
| `respawn` | A worker spawned twice with equal or different boots, in every order of exit, report, recording and late frames: the handle table names open handles only (`TableNamesOpenHandles`), and CURRENT evidence of a worker's boot is of a worker not known to be dead (`CurrentEvidenceHasAuthor`). |
| `framing` | Two frames with messages at and above the reader's limits, damaged or not, cut anywhere: the loop implements `FrameChannel` (`ImplementsChannel`), its buffer is bounded (`BufferBounded`), each payload decodes to what was encoded (`RoundTrip`) and to nothing when cut or extended (`TruncatedRefused`). |
| `v_epoch_reused`, `v_death_misattributed`, `v_save_torn` | Statements of the documentation that the code does not keep; see below. |

Deadlock checking is off throughout because the systems really may stop: a
fabric in which all is retired at its last generation, a coordinator whose file
is refused, clients that have closed, a connection that has ended.

Bounds.

* Fabric. `MaxWord` 3 with regions of 2 bytes: a counter can be empty, partly
  used, full, and a move can fail for either reason. Two reservations are the
  least for which a fence, a drain or a release of one can disturb the other's
  bytes; one is enough where only bindings are at stake, since the actions treat
  reservations independently. Two generations, epochs and boots give an old and a
  new one, and every message of the old one stays available after the new one
  has arrived. The accounting results are also proved without these bounds.
* `restart`. Two savers, interchangeable (symmetry): a third would meet the same
  temporary in the same states. Epochs 1 and 2 allow one restart with the fabric
  serving on both sides of it, and `v_epoch_reused` any number from one file.
  `MaxCount` 1 is met by every map. Reservations, which are not saved, are left to
  the other runs. What saves may meet is chosen once, from `MCSurroundings`:
  everything (overlap, failing writes, renames of open files), which allows every
  behaviour the other choices do; all of it for one save at a time; overlap alone.
  The coordinator is a Windows program, where a file open elsewhere is not renamed;
  the POSIX branch of `atomicWrite` is the other value of `move`.
* `coordinator`, `respawn`. One spawn suffices where the question is whether an
  answer or a report comes at all; two, with two handle values and two boots,
  give a predecessor and a successor of one worker. In the liveness run one
  client asks for processes and one for memory, so that the one can stall the
  other's replies. `MaxEntries` 2 is less than INSPECT may have to list, so that both
  cases of `Fits` occur.
* `framing`. `kMaxString` 1 and `kMaxCount` 2 with strings and lists at the limit
  and one above; `RecvSize` 6 with a header of 5 units, so that a read may end
  in a header, in a payload, or hold the end of one frame and the start of the
  next. Two frames: what a frame leaves in the buffer can only disturb the next.
  The run damages magic, size and checksum; a wrong version or type is refused
  by the same test of the header as a wrong magic.

Fairness. The runs of the fabric and of its file check safety: the fabric only
reacts to calls, and nothing obliges an operator, a worker or a client to call,
or a crashed process to be started. The threads of the coordinator are different.
`Fairness` of `Coordinator` assumes weak fairness of each connection thread's
own steps, of each monitor and of a running worker's two sends, because the
system schedules threads; strong fairness of taking `sendMtx`, because a mutex
that becomes free again and again is got in the end; and weak fairness of a
blocked `send`'s return, because a client that waits for an answer reads or
closes. Requests, exits, slowness and closing are never assumed. Without the last
assumption one client that stops reading keeps `sendMtx` and stalls every other,
which is what the code does. In `Wire` the loop is weakly fair: the thread runs,
and `recv` returns when something has arrived.

Refinements. `Fabric` implements `Promises` with a reservation as a promise that
is open while RESERVED, COMMITTED or ACTIVE, and the online bytes as capacity.
`Wire` implements `FrameChannel`, fairness included: the packets not yet
dispatched are the queue, a frame error is `Reject` and possible for a malformed
frame only, and the end of the stream is `Hangup`.

### Where the code departs from its documentation

Three configurations check one statement each that TLC refutes; the `findings`
of `PROJECT.json` quote the lines.

| Run | What happens |
|---|---|
| `v_epoch_reused` | `load` takes the epoch of the file plus one and writes nothing back: two restarts from one file run under one epoch. |
| `v_death_misattributed` | A monitor reports a death by the worker's id alone: a newer boot that has registered meanwhile is declared dead while its process runs. |
| `v_save_torn` | Two saves share one temporary. One has written and closed it; the other truncates it, fails to write and closes it, and before it removes it the first renames the rest onto the path. No open file is renamed. `load` refuses the file, and the image before it is gone. |

The same reading of the code shows others, without a configuration:

* Under `rename(2)` one save puts in place the temporary that the other has just
  truncated, and a crash leaves it so; no write needs to fail (`persistence.cpp:290`).
* A HELLO that is read after the monitor has reported the exit makes a process that
  is gone an alive worker, for good (`coordinator.cpp:187`, `README.md:267`).
* Commit compares evidence generations, which the publisher chooses, and admits a
  DEGRADED region: after evidence that repeats its generation has degraded or shrunk
  the region, a reservation, also one that does not accept a degraded region, is
  committed (`reservation.cpp:143`, `README.md:153-155`).
* FAILED evidence makes a region REVALIDATION_REQUIRED and its evidence CURRENT
  in one call, which `audit()` reports (`snapshot.cpp:115`); nothing is promised
  from it.
* A publication the lifecycle table refuses has already replaced evidence and
  online capacity (`fabric.cpp:529`, `README.md:103`); `publishRefusedLate`.
* Boots are compared with the last one only: 1, 2, 1 is admitted
  (`fabric.cpp:739-741`). Evidence of an earlier boot of a worker stays CURRENT
  when it dies (`fabric.cpp:765-770`).
* A region registered anew and added again is listed, and counted, twice in its
  pool (`fabric.cpp:433-434`, `README.md:106`), and stays in its pools' member
  lists under the old generation, which `audit()` reports.
* `stagingAcceptable` and `allowStaging` are never read (`selection.cpp:291`,
  `types.hpp:137`).
* `completeDrain` does not look at the committed bytes although its comment says
  they "must have been handled" (`fabric.cpp:615`); `recoverRegion` and
  `cancelDrain` make region transitions `regionLifecycleAllowed` does not admit;
  `setEpoch` leaves attachments of the earlier epoch, which still decide the
  access kind in the ranking.
* After `load` evidence is UNKNOWN where `README.md:173` says it needs
  revalidation; no promise rests on either.
* Requests that are not answered, whose client waits: a refused COMMIT; a SELECT or
  RESERVE whose requirements do not decode (`coordinator.cpp:205`, `:216`); a SELECT
  for 0 bytes (`selection.cpp:308`); a COMMIT, RELEASE, SPAWN_WORKER or
  TERMINATE_WORKER with too few bytes; and whatever has a reply over `kMaxPayload`,
  which `sendFrame` drops (`coordinator.cpp:82`). `Answered` and `Fits` leave them out
  of `RequestAnswered`.
* A `reserveHeadroomFactor` that is not a number makes every score NaN, and the
  order of the candidates that of the hash map (`selection.cpp:246-249`).
* A second spawn of a worker overwrites the first one's handle in the table,
  and the first one's monitor erases the second's. TERMINATE_WORKER uses a
  handle after it has given up the lock under which it was looked up; by then it
  may be that of another process, and `TerminateProcess` allows it. The table of
  `crc32` is filled without a lock, by every thread with the same values.

## Proofs

TLAPS proves the following for every choice of the constants that satisfies the
assumptions of the modules (listed below). Of the 28 properties the passing runs
check, 25 are proved, and the safety part of one more; the other two are liveness.

| Module | Theorem | States |
|---|---|---|
| `FabricProofs` | `TypeCorrect`, `AccountingClosed`, `AuditHolds` | `TypeOK`, `LedgerClosed`, `AuditAccounting` |
| `BindingProofs` | `BindingsHold`, `SettledIsEmpty`, `DeadBootHoldsNothing` | `LiveReservationCurrent`, `SettledHoldsNothing`, `NoReservationOfDeadBoot` |
| | `EvidenceIsFresh`, `EligibleIsServed` | `CurrentEvidenceIsFresh`, `EligibleServes` |
| | `RankingDecides` | `RankingIsDeterministic` |
| | `LoopsFenceAtOnce`, `DrainCancelsAtOnce` | `BulkFenceIsTheLoop`, `DrainLoopReleasesAll` |
| `PromisesProofs` | `FabricKeepsPromises` | `PromisesKept`: the fabric implements `Promises` |
| | `PromisedInService`, `UnavailableStays`, `ReservationsFollowTable`, `CommittedIsAccounted`, `ProvidersFollowTable` | the action properties `PromisesOnlyInService`, `UnavailableUntilRecovered`, `ReservationTransitionsAllowed`, `CommittedBytesAccounted`, `ProviderTransitionsAllowed` |
| `PersistenceProofs` | `SoundAcrossRestarts` | accounting, bindings and freshness under `PersistentSpec`, with crashes and loads |
| | `FileIsWhole`, `SavedIsCurrent`, `ServiceNeedsEvidence` | `FileNeverTorn`, `SaveIsSnapshot`, `ServesOnlyOnEvidence` |
| `CoordinatorProofs` | `SoundInDeployment` | accounting, bindings and freshness under `SystemSpec`, with processes, frames and threads |
| | `TableIsOpen`, `EvidenceHasAuthor` | `TableNamesOpenHandles`, `CurrentEvidenceHasAuthor` |
| `WireProofs` | `BufferIsBounded` | `BufferBounded` |
| | `WireKeepsOrder` | the safety part of `ImplementsChannel`: initial states and steps of `FrameChannel` |
| | `FramesArrive` | the frames dispatched are the first of those sent |
| `LoopProofs` | `ListJudged` | what a counted loop over a payload reads, for lists of every length |
| `CodecProofs` | `DecodeEncode` | each decoder inverts its encoder, or refuses what is over a limit |
| | `ExchangeRoundTrip`, `ExchangeRefusesCuts` | `RoundTrip`, `TruncatedRefused` |

Assumptions, each evaluated by TLC in the runs. `MaxWordAssumption`,
`IdAssumption`, `DescriptorAssumption`, `MessageAssumption`: ids and generations
are positive numbers, descriptors and messages carry fields of their declared
types. `ScoreAssumption`: the map of regions is finite and what is scored has its
declared type. `PersistenceAssumption`. `DeploymentAssumption`: what the processes
and clients of the deployment send is among the messages of the instance.
`WireAssumption`, `FrameAssumption`: frames have a known type, a payload within
`kMaxPayload` and, like the checksum, made of numbers. `MessageTypes`: what peers
send are the structures of `types.hpp`, each field a number, a string or a list,
of any length, and frames carry them encoded. `FileNeverTorn` has a
condition of its own, `Orderly`: saves do not overlap, or no write fails and a rename
does not move a file another thread has open. It is needed: `v_save_torn` is what a
failing write does otherwise. `SaveIsSnapshot` needs none, since it speaks of what
`load` would accept.

The argument, module by module.

* `FabricProofs`. A new ledger is closed, and `setOnline` and every move, accepted
  or refused, keep a ledger a ledger, its total and its closure. `LedgerClosed` is
  not inductive alone: a step adds counters that must be words, uses `Bytes(S)`,
  which must be a number, and looks up descriptors; hence
  `IInv == TypeOK /\ LedgerClosed`, with one lemma per action.
  `AuditAccounting` is inductive relative to `IInv`: bytes of
  disjoint sets add up (`BytesAdd`), so a bucket holds at least the bytes of any
  set of reservations that is fenced from it; closure bounds source and target
  together by the word, so the move cannot be refused (`MoveExact`) and takes out
  exactly what the fenced reservations held (`FencedAudited`). The code ignores the
  result of these moves; this is why it may.
* `BindingProofs`, selection. An induction principle the provers can use, the least
  element of a set of numbers (`LeastNumber`), gives what `Min` and `Max` return and that a
  function on a finite set has a largest value (`LargestValue`). No gate of an
  eligible region is shut (`EligibleInService`); scores are numbers
  (`ScoreNumber`), so a region with the best score and the least id is ranked
  first; equal factors have equal scores, so two such regions are the same.
* `BindingProofs`, bindings. `BoundInv` adds to `IInv` the three statements about what live
  reservations are bound to. They are proved together from one fact about each
  call (`NextLives`): a reservation that is live after a step survived it with
  everything it is bound to, was just made, or was just committed. For evidence
  `CurrentEvidenceIsFresh` is not inductive: it says nothing of the provider that a
  region not yet registered will have, so `EvidenceInv` adds `CurrentEvidenceInUse`,
  that CURRENT evidence is of a registered region that has left DECLARED. `FabricInv` collects
  all of it; `Fresh` describes a fabric in which nothing has been reserved or
  observed, and `FreshIsSound` shows that every such fabric satisfies `FabricInv`,
  whatever is registered in it. The two compositions start from there.
* `BindingProofs`, loops. The state of either loop after the reservations in S, in any
  order, is `FencedAtOnce(S)`: a ledger fenced by S is accounted for by the
  reservations outside S, so it takes the move of the next one (`FencedMore`), and
  the result is the ledger fenced by S and that one (`FenceTurn`). In the loop of
  `beginDrain` two releases that follow each other are one (`ReleaseTwice`), and the
  bucket holds the bytes of all of them. `LoopProofs` turns the one turn into the fold.
* `PromisesProofs`. The open promises on a region have the bytes of its reserved
  and committed buckets (`OpenBytes`), which closure bounds by the online bytes; a
  call only ends reservations, makes one or confirms one (`StepSimulation`). The
  action properties follow call by call from the same invariants.
* `PersistenceProofs`. `PersistentInv` is `FabricInv` and the types of files and
  saving threads; a process that is down has no reservations, evidence or
  threads, and `load` makes a `Fresh` one. Two strengthenings carry the file.
  `TmpIsCurrent`, for `SaveIsSnapshot`: while a thread is past its open, a temporary
  that is whole is the image of the current state, because saving threads share
  `stateMtx` and no call changes the state before they are through, and because the
  first thing a save does is to truncate what an earlier one has left. `SaveInv`, for
  `FileNeverTorn`: under `Orderly` saves that do not overlap stay apart, streams are
  open on the temporary only, and a temporary that is torn has a writer or nobody is
  about to rename it.
* `CoordinatorProofs`. Every step of the deployment leaves the fabric alone or is
  one of its calls with messages of the instance (`SystemCalls`), so `FabricInv`
  carries over. `TableInv` strengthens `TableNamesOpenHandles` by what a recorded
  entry means: it is the handle of a process of that worker which its monitor has
  not closed. `AuthorInv` adds to
  `CurrentEvidenceHasAuthor` that evidence comes from workers (`FromWorkers`), since
  a death withdraws the evidence of the worker's own boot and nothing else.
* `WireProofs`. The bound of `BufferBounded` is not inductive: `BufferInv` adds that
  the loop returns to `recv` with less than one whole frame. For the refinement,
  `IsCut` says that the units buffered and under way, cut at some offsets, are the
  packets sent and not yet dispatched; sending adds a piece (`CutAppend`), `recv`
  moves units without changing the whole (`RecvMoves`), and a dispatch takes exactly
  the first piece (`CutDrop`), because `decodeFrame` judges a buffer that begins
  with a packet as that packet was sent (`HeadDecides`). `Arrived` follows along the
  same steps, from `ChannelInv`.
* `LoopProofs`. `FoldLeft` is a recursive function of sets of indices. That it exists
  and is unique is shown without an induction scheme: the least index at which it
  would fail has a predecessor at which it does not. Hence a fold is the last state of
  a run (`FoldRuns`) and every run along the sequence ends where the fold does
  (`RunIsFold`), which reduces a statement about a loop to one about a single turn.
  For loops over a reader the turn must be `Steady`: a failed reader stays failed,
  and a successful read does the same when more follows. Such a loop reads the
  concatenation of the parts its turns accept (`LoopReads`), and refuses it if one of
  them is refused (`LoopRefuses`). The module has the step as its parameter and is
  instantiated for fields, for the three lists of a selection and for the three loops over reservations.
* `CodecProofs`. A field, a layout and each list are steady readers (`SteadyAt`), and
  what a writer appends is read back whatever follows, or refused if it is over the
  limit; the factors of a candidate are a list in an item of a list, so the argument
  is made twice, inside out. Steadiness also gives `TruncatedRefused`: were a proper
  prefix accepted, the whole payload would be read to the same point and have a rest,
  which `finish` refuses. `FramesArrive` carries both to what a connection dispatches.

Only model-checked.

* Liveness, which needs fairness and `ENABLED`: `RequestAnswered`, `DeathDetected`
  and the part of `ImplementsChannel` that says frames which have arrived are
  taken.

## Not modelled

* Backend discovery (`backends.cpp`): constant descriptors and the operating
  system's memory size, no state and no step; the model takes any descriptor.
* The command line, examples, benchmark and CUDA proof: callers of the fabric.
* The byte layout of the file; the copying of records into snapshots; the text
  of INSPECT and AUDIT replies; `audit()`'s two checks that are departures above.
* HEARTBEAT, BYE and PUBLISH_ATTACHMENT frames, which nobody sends or handles.
* Failures of the machine: `Crash` ends the process, and what has been written and
  renamed stays. `save` does not ask for the bytes to reach the disk before the rename.
* A client's memory of reservation ids across a restart of the coordinator.

## Plan

The order in which the parts were taken: ledger and fabric, selection,
reservations, the abstract specifications, persistence, the deployment, the
protocol; then the proofs in the same order. Every safety property of the passing
runs is proved. What is left is outside this method: liveness stays with TLC, and
the hazards of `PROJECT.json` without a property have a note that says why.
