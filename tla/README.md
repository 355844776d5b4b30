# A verification project for the StorX satellite and storage node

This directory holds TLA+ modules that model parts of the network in this
repository, the TLC configurations that check them on small instances, and
proofs that TLAPS checks for every value of the constants. Paths below are
relative to the repository.

## 1. Inventory

A *satellite* keeps the metadata of objects and pays *storage nodes*, which keep
the erasure-coded pieces. Clients (uplinks) ask the satellite for objects and
signed order limits and exchange pieces with the nodes directly.

| Component | State | Operations | Talks to |
|---|---|---|---|
| Metabase (`satellite/metabase`) | tables `objects`, `segments`, `segment_copies` | begin/commit of objects and segments, deletes, server-side copy and move, segment updates | metainfo endpoint above; piece deletion receives what a delete returns |
| Zombie and expired deletion (`metabase/zombiedeletion`, `metainfo/expireddeletion`) | the cursor of a pass | SELECT a batch, DELETE a batch | the metabase tables, concurrently with clients |
| Segment loop (`metabase/segmentloop`) | joining and running observers, a coalescing timer | `Join`, `Monitor`, `RunOnce`, `iterateSegments` | audit, repair checker, garbage collection, accounting |
| Piece deletion (`metainfo/piecedeletion`) | per node a chain of workers with a queue each | `Delete`, `Enqueue`, workers, `Close` | storage nodes |
| Orders (`storagenode/orders`, `satellite/orders`) | unsent files, archive; rollups by window, write cache | `BeginEnqueue`, `ListUnsentBySatellite`, `SendOrders`, `SettlementWithWindow`, `Archive` | node to satellite |
| Audit and containment (`satellite/audit`) | reverification queue, `contained` flag | audit, reverify, report, sync chore | nodes, reputation, overlay |
| Graceful exit (`satellite/gracefulexit`, `storagenode/gracefulexit`) | transfer queue, progress, pending map; the node's record | the `Process` stream, the worker, the chore | exiting node, metabase |
| Reputation (`satellite/reputation`) | write caches of mutations, a row per node | `ApplyAudit`, `ApplyUpdates`, syncs | database, overlay |
| Garbage collection (`satellite/gc`, `storagenode/retain`, trash) | bloom filters; queue of retain requests; blobs, trash | `Queue`, workers, `retainPieces`, `EmptyTrash`, `RestoreTrash` | segment loop, nodes |
| Repair (`satellite/repair`) | injured segments queue | checker insert, repairer select and delete | metabase, nodes |
| Piece store (`storagenode/piecestore`, `storagenode/pieces`) | blobs, trash, used-space cache, used serials | upload, download, delete, trash, restore | uplinks |
| Everything else | | overlay, accounting, console, payments, certificates, multinode, command line tools | listed in `PROJECT.json` with the reason it is left out |

What is hard in each of them, and what makes it correct:

* **Metabase.** Every operation is a transaction, so the hazards are the ones
  that span transactions: a copy or a move begun long before it is finished, a
  repair that writes what it read minutes ago, a chore that selects rows and
  deletes them later, a transaction that is run again. Copies share pieces, so a
  delete decides whether another object still needs them. Correct when a live
  object is always readable, nothing changes it from outside, one object is
  committed per location, and pieces are deleted only when nobody refers to them.
* **Chores.** They run beside clients and have to collect what is abandoned
  without touching what is live.
* **Segment loop.** Observers join, leave and fail at any time. Each has to get
  exactly one result, and the loop must never stop serving the ones that join.
* **Piece deletion.** A job is pushed to a worker that is just finishing; every
  promise has to be resolved once, at shutdown too.
* **Orders.** Orders appended while a window is being listed, answers lost after
  settlement, two tables charged in two transactions, a cache that is flushed by
  three goroutines.
* **Audit.** A job is leased by the time it was taken at; whoever overruns it shares
  the job with the next one. The mark of a node, its jobs and its reputation are
  written by separate statements, any of which may fail.
* **Graceful exit.** A stream that may break between any two statements, a queue
  that is filled while it is emptied, an outcome written on both sides.
* **Reputation.** Caches of several processes write one row and estimate it in
  between.
* **Garbage collection.** A filter built from an old snapshot meets new uploads, and
  the trash is emptied while it is restored.

`PROJECT.json` lists each hazard at its line with the properties that cover it.

## 2. Plan

Ordered by how much of the system's correctness hangs on a part.

| # | Modules | Models | Abstract specification or composition | Theorems |
|---|---|---|---|---|
| 1 | `Metabase` | the metabase tables, the two deletion chores, a repair's read and write | implements `ObjectStore` | `MetabaseProofs` |
| 2 | `SegmentLoop` | joining, coalescing, the pass, errors, shutdown | | `SegmentLoopProofs` |
| 3 | `PieceDeletion` | calls, combiner, queues, workers, handler, dialer, shutdown | | `PieceDeletionProofs` |
| 4 | `OrderSettlement`, `RollupsWriteCache` | orders on the node with their settlement; the write cache that the settlement charges | the first EXTENDS and drives the second | `OrderSettlementProofs` |
| 5 | `GarbageCollection` | snapshot, filter, retain, uploads in between, trash | | `GarbageCollectionProofs` |
| 6 | `Containment` | audits, the reverification queue with its leases, the marks, the chore | | `ContainmentProofs` |
| 7 | `GracefulExit`, `ExitWorker` | the satellite's endpoint and chore; the node's worker and the stream | the first EXTENDS the second: two programs and the messages between them | `GracefulExitProofs` |
| 8 | `Reputation` | caches, the row, the overlay, the reporter's retries | | `ReputationProofs` |
| 9 | `RepairQueue`, `BlobsUsageCache` | insert buffer and `Select` with its back-off; used space of a node | | planned |

Open in the plan: row 9, and the theorems named at the end of section 7. No module declares a
`RECURSIVE` operator, so all of them can be proved about.

## 3. Modules and the code

Each module's header says how its steps correspond to the code; `PROJECT.json`
names the lines of each definition. In short:

### `Metabase` and `ObjectStore`

One action is one transaction; CockroachDB runs them serializably. A request the
code refuses changes nothing and is not a step.

| State | Code |
|---|---|
| `objects`, `segments`, `copies` | tables `objects`, `segments`, `segment_copies` (`db.go:367-411`, `db.go:525-530`) |
| `begun` | what `BeginCopyObject`/`BeginMoveObject` told a client, which sends it back to finish |
| `repair` | the segments a repair read and will write with a compare-and-swap on `remote_alias_pieces` |
| `zombies`, `expired` | a pass of each chore: what it selected, the last row it selected, after which the next batch begins, and when it started |
| `aborted` | `deletedSegments` of `CommitObject`, which outlives an aborted attempt |
| `deletedPieces` | root pieces handed to `OnDelete`, hence to piece deletion |
| `nextStream`, `now` | `uuid.New` and the clock |

`stream_id` is the key of `objects` in the model, where the code has (location,
version); that the code's key is one is part of `KeysUnique`. A piece list is
a version number: 1 is what was uploaded, 2 what the first repair wrote. The shared
core is `Promotions` / `SegmentsWithout` / `CopiesWithout` / `PiecesToDelete`, the
SQL and Go of a delete that knows about copies (`delete.go:179-495`): every promotion
the `DISTINCT ON` may pick is a branch. `CommitObject`, `DeleteObject...`,
`DeleteBucketBatch`, `FinishCopyObject` use it as the code does; the chores use
plain deletes as the code does.

`ObjectStore` is what a client is promised: a location holds nothing or one object,
put, copy, move and delete change the locations they name and nothing else, and a
repair changes the pieces of shared data wherever it is. `Metabase!Shown` is the
refinement mapping: an object is visible when it is committed and has not expired,
and what a position holds is its root piece with the piece list, read through the
ancestor if it is a copy. The mapping exists only as long as at most one object is
committed at a location, hence only without the race of section 6
(`MoveCopyRace = FALSE`).

### `SegmentLoop`

One step is one case of the `select` of `RunOnce`, or one callback of one observer
(`withObservers`), because an observer may leave or fail between any two. The
unbuffered `join` channel is a call in state `joining`; the channel `done` is the
answer the call waits for, and a second answer is the panic of a send on a closed
channel (`panicked`). `timer` and `timerStarted` are `coalesceTimer` and the flag
beside it. The database, rate limit and `verifyCount` are "the pass fails".

### `PieceDeletion`

A job is named by its call, which has one job per node. `chain[n]` is the chain of
workers of a node linked by `waitFor`; its last element is `workerByID[n]`. A worker
record carries its `LimitedJobs` queue (`queue`, `count`, `done`) and the jobs at hand.
What a mutex makes atomic is one step; dials and requests end at any time with any
outcome. `LimitedHandler`'s semaphore is the number of workers in the handler,
`concurrentRequests` the sum of `Weight` over the calls that hold it.
`sync2.SuccessThreshold` and `semaphore.Weighted` are libraries, modelled by how they
are used.

### `OrderSettlement` and `RollupsWriteCache`

`OrderSettlement` is a node and a satellite with one clock. On the node, `active`
are the orders between `BeginEnqueue` and its commit, `unsent` and `archive` the
files of a window, `sender` the pass of `SendOrders`. On the satellite, `calls` are the
handlers of `SettlementWithWindow`, `rows` and `rowArchive` the two tables that say
what a window was paid. Answers and calls get lost, both programs crash. A handler
that settles a window charges the bucket through `RollupsWriteCache`, where a full map is
handed to a goroutine, and a chore and `CloseAndFlush` flush beside it; `flushing` and
`stopped` are the fields of the cache, `lost` is no state of the program but what a
failed write dropped and logged.

### `Containment`

The queue is the table `reverification_audits` in the order of `inserted_at`, `contained`
the column of `nodes`. An audit that timed out inserts a job and marks the node; the
loop of `ReverifyWorker.process` sets a deadline, takes the job that is due, and hands
it to a slot of its limiter; a worker reverifies, has the verdict counted, removes the
job, looks for another one of the node and takes the mark away, each in a statement
of its own that may fail. Times are ages, which stop at the oldest that matters.
`counted` and `excused` are no state of the program: how often the job of a piece was
counted, and whether it met a fault or a worker past its deadline.

### `GracefulExit` and `ExitWorker`

`ExitWorker` is the node: its blobs, its record of the exit, the worker with its
limiter, and the two directions of the stream (`toNode`, `toSat`). `GracefulExit` is the
satellite: the loop (chore or ranged) that fills the queue, the session of `Process` with
a sender (`SendTransfers`) and a receiver that share the `PendingMap`, the judgement
when nothing is left. A session may end between any two statements, both programs
may crash; messages that were delivered stay with the node when the stream breaks,
and are lost in a crash.

### `GarbageCollection`

A snapshot of the rows is taken while the segment loop runs (it is immutable in the
model: `AS OF SYSTEM TIME` or a range of ids that does not come back), becomes a filter,
is uploaded, packed and sent, possibly again, late or never. On the node a retain request
waits in `queued`, and a worker's walk decides per piece by filter and modification time.
Uploads and repairs keep a piece in limbo from the order limit to the row.
`workplace` is an external library that serializes the jobs of the trash.

### `Reputation`

A call of `ApplyAudit` goes through the cache of one process: it adds its result to the
entry's mutations and waits for a sync or answers with an estimate; the manager's
goroutine writes the mutations to the row and reads it back. `nodes` is the overlay's
row, which each call updates from what it was answered, so an older answer may be
written after a newer one. `exited` is `exit_finished_at` of that row, which may be set
at any time: a call that begins later is refused, and `UpdateReputation` writes nothing. A
call of a repair or a reverification has a time limit (`TimeLimited`) that may end its wait for a
sync; whatever it does with the database after that fails. A reporter without a status of
the node (not in `Informed`) asks the overlay for one first, at each try.

## 4. Assumptions about clients and the database

`Metabase` has four switches. `TRUE` is what the code allows; `FALSE` restricts the
environment, so that the other properties can be studied without the known defect.

| Switch | `TRUE` allows | What fails then |
|---|---|---|
| `CommitRace` | `CommitObject` of an upload that the zombie chore has selected and not yet deleted | `ChoresSpareLiveObjects` |
| `MoveCopyRace` | `FinishCopyObject` to the place the source was moved to in the meantime | `AncestorIsOriginal`, and then `KeysUnique` |
| `TxRetries` | an attempt of `CommitObject` is aborted by the database and run again | `DeletedPiecesUnreferenced`, only with copies |
| `MixedKinds` | a client uploads a position as a remote segment and again as an inline one | `Readable`: `CommitInlineSegment` (`commit.go:447`) leaves `redundancy` and `remote_alias_pieces`, and `Segment.Inline` (`get.go:41`) then answers no |

`CommitObject` has no guard but the code's own: with `CommitRace = FALSE` an upload is still
committed after its zombie deadline, before the chore has come to it or after the chore
skipped it. Clients are only taken not to commit between the SELECT and the DELETE of the
batch that holds the upload.

`GracefulExit` has `Ranged` (`UseRangedLoop`), `Sleepers` (nodes that may fall silent for
longer than `MaxInactiveTimeFrame`) and `Flaky` (reads of a segment may fail). Assumptions
on constants are stated where they are declared. Two carry a proof:

* `SkewAssumption` (`GarbageCollection`): `MaxCommitInterval - Offset <= MaxTimeSkew`. By
  default an upload is committed within 48 hours of its order limit, the node keeps
  what is younger than the filter less 72 hours, and its clock may be a day late.
  A repair ends within `TotalTimeout` (45 minutes) and an exit's transfers are shorter
  than the 48 hours too.
* `AgesAssumption` (`OrderSettlement`): rows are archived (90 days) later than an order
  can be settled (24 hours, a window, and a call that is under way).

## 5. Runs

Run one with `tlc -workers 2 -config <cfg> <module>`. Times are for two workers.

| Run | Config | Instance | Distinct states | Time |
|---|---|---|---|---|
| `copies` | `MetabaseCopies.cfg` | 3 locations in one bucket (symmetric), 4 streams, 1 repair, no clock | 317 271 | 1.5 min |
| `moves` | `MetabaseMoves.cfg` | 2 locations, 3 streams, 3 versions, both kinds, copies, moves, aborted commits | 502 249 | 3 min |
| `collection` | `MetabaseCollection.cfg` | 2 locations, 2 streams, 2 positions, clock to 2, expirations, copies, fair chores | 194 248 | 3 min |
| `loop` | `SegmentLoop.cfg` | 2 calls, passes over up to 1 segment, all failures, fair | 34 480 | 1 min |
| `deletion` | `PieceDeletion.cfg` | 2 calls, 2 nodes, 1 slot, shutdown at any time, fair | 108 279 | 2.5 min |
| `settlement` | `OrderSettlement.cfg` | 2 orders of one window, 3 flushers, 1 fault, fair | 198 194 | 3.5 min |
| `containment` | `Containment.cfg` | 2 pieces, 1 audit, 2 workers, 1 fault | 1 771 488 | 2 min |
| `containment_resolved` | `ContainmentResolved.cfg` | 2 pieces, 1 audit, 1 worker, 1 fault, fair | 41 258 | 1 min |
| `graceful_exit` | `GracefulExit.cfg` | 1 exiting node of 3, 2 segments of 2 pieces, 1 fault, 1 repair | 798 978 | 1 min |
| `graceful_exit_ends` | `GracefulExitEnds.cfg` | the same with a silent node and failing reads, fair | 293 103 | 1.5 min |
| `garbage` | `GarbageCollection.cfg` | an old and a new piece, 2 filters, a late clock | 1 364 320 | 1.5 min |
| `reputation` | `Reputation.cfg` | 2 calls with time limits, one with a status, 2 processes, 1 fault, 1 retry, an exit at any time, fair | 255 503 | 2.5 min |

What they show:

* `copies`. `Readable`, `AncestorIsOriginal`, `EveryObjectDeletable`: through copies of
  copies, overwrites of an ancestor by its own copy, exact and last-committed deletes
  and bucket deletes in batches that split a family, one object of a family always
  owns the pieces and all others point at it. `DeletedPiecesUnreferenced`: what is
  reported for deletion belongs to nobody. `ContentPreserved`: a delete, overwrite or
  move of one object never changes what a download of another one gets.
* `moves`. Versions computed by begin, copy and move never collide and a location has at
  most one committed object (`KeysUnique`); every step is one of the object store
  (`ImplementsObjectStore`), also with commits that the database aborts and runs again.
* `collection`. Both chores make progress against clients that keep uploading
  (`Collected`) and leave no segment without its object (`SegmentsComplete`). They work on
  `objects` and `segments` only: copies expire with their original, and that is what saves
  a live copy from losing its ancestor (`Readable`). The object store is implemented
  through expirations, and commits past the zombie deadline, too; only the commit
  of an upload that is in the chore's batch is left out (section 6).
* `loop`. Each observer gets one answer, nil only after it was called with the start
  and every segment; monitors alone never begin a pass; a call that leaves or
  triggers returns, unless its timer was lost (section 6).
* `deletion`. Each promise is resolved once, at shutdown as well; a job is never left where
  nobody looks; one worker of a node at a time asks for a slot; a call larger than the
  semaphore gets through.
* `settlement`. No order is added to a file that was read for sending
  (`SentFileComplete`); a window is paid once and an accepted one exactly
  (`PaidOnce`); every unit credited is charged to the bucket, waiting in the cache, or
  logged as lost (`Accounted`); `OneFlush`, `ClosedEmpty`; in the end every file is
  archived and every amount written (`EverythingSettled`).
* `containment`, `containment_resolved`. `LeaseHeld`: until its deadline a job has one
  worker and stays queued. `CountedOnce`. `MarkFollowsQueue` and `JobResolved`: a wrong mark does
  not stay and neither does a job.
* `graceful_exit`, `graceful_exit_ends`. A successful exit forgot no piece
  (`NothingForgotten`); until then every piece the satellite expects is on the node or
  at its new holder (`KeptUntilMoved`, `HoldersStore`); both sides agree on the outcome, which
  does not change (`OutcomesAgree`, `OutcomeKept`); the exit ends on both sides (`ExitEnds`),
  except for one that was begun without a row of progress, which only inactivity ends.
* `garbage`. `LivePiecesKept` and `TrashKept`, with the clock of the node as late as
  `SkewAssumption` lets it be.
* `reputation`. `ResultsAccounted`: a result is in the row, in a cache or was dropped by a
  failed write, once each. `DisqualificationTold`: once a call has returned with "disqualified", the
  overlay says so for good, or the node's exit has finished, after which nobody tells it.
  `AuditsSettle`: time limits, retries and lost answers leave no call and no result behind.

Why these bounds are enough for the interesting cases:

* A family of copies needs an original, a copy and a copy of the copy, and an overwrite
  needs one more stream (4 streams, 3 locations). A version is taken away by a move only
  if a pending upload has it, which takes 3 versions. Two ticks put a deadline or an
  expiration before, at and after the clock between the SELECT and the DELETE of a
  chore. `ListLimit` 1 makes each chore need several batches.
* Two observers are enough for one that leaves while another joins or is being called.
* A queue of 2 pieces and jobs of 2 and of 1 fill and overflow it; a request of 1 piece
  splits a list of jobs into batches; a third worker exists when the chain of two is full.
* Two orders of one window with different expirations make one window be settled with
  parts refused; a batch of 1 key makes each amount fill the cache.
* `RetryInterval` 1 with ages up to 2 has a worker in time, one at its deadline and one
  past it beside the next taker; `MaxReverifyCount` 2 has an attempt before the last.
  `MaxRetries` 1 stands for the reporter's 3.
* `MaxFailures` 2 and `MaxSends` 2 have a piece that fails and is tried again, and one that is
  given up; 50 percent of two pieces is a failed exit, of one of two is not.
* Two filters are enough for one that replaces another, queued or being walked; 2 ticks
  make a filter that is newer than an upload whose row is still to come, and let the trash
  expire.

Bounds in the models are marked "bound" where they are declared (`MaxStream`, `MaxVersion`,
`MaxTime`, `MaxPieces`, `MaxSegments`, `MaxWorkers`, `MaxFaults`, `MaxRepairs`, `MaxFilters`,
`Followed`, which says whose verdicts are counted).

`SYMMETRY` is used in runs without liveness only. Deadlock is checked except where the
system really comes to rest: a stopped combiner, a finished exit, a garbage
collection with no filter left, audits that were all answered.

### Fairness

* Chores run in a `sync2.Cycle` for as long as the satellite lives: weak fairness of
  each of their steps, none of clients or the clock.
* Segment loop: callbacks and queries return, timers fire (weak). A Go `select` picks
  one of its ready cases at random and an unbuffered channel serves blocked senders
  in order, so a case that is ready again and again is taken (strong).
* Piece deletion: dials and requests end by their timeouts (weak); both semaphores
  serve waiters in order (strong). Callers need not give up, nobody has to stop.
* Orders: the sender, the handlers and the flushers go on (weak, each its own); the
  chore's and the closing flush that find one under way retry (strong, as both
  poll). Faults are bounded, so from some time on nothing is lost.
* Containment: every step of the loop, the workers and the chore (weak). The retry
  interval is hours and what a worker does is minutes: from some time on nobody
  overruns it (`<>[][~Overrun]_vars`). A job that is due again and again is taken, and a
  node that is asked for ever gives a verdict (strong).
* Graceful exit: every step of both programs (weak), and from some time on no session ends
  by its timeouts while the other side is working (`<>[][~Outrun(n)]_vars`).
* Reputation: a process handles its database requests and its manager goes on, a call
  goes on (weak).

## 6. Divergences

What the code does differently from what a comment, a test or a document says of it, met
while modelling. Each can be seen by the change to a run that is named; none of the 12
runs has that change, so that the rest is checked without it.

| What happens | To see it |
|---|---|
| The zombie chore selects a pending upload; it is committed after its deadline; the chore deletes by location, version and stream id without looking at the status again (`metabase/delete_objects.go:240`). `delete_objects_test.go:448` says "all committed objects should NOT be deleted", and `db.go:227` that the deadline "defines when a pending object can be deleted due to a failed upload". | `CommitRace = TRUE` and the property `ChoresSpareLiveObjects` in `MetabaseCollection.cfg` |
| The source of a copy, itself a copy, is moved to the destination of the copy. `getObjectAtCopySourceAndDestination` takes the one row it gets for the source, with no ancestor (`metabase/copy_object.go:415`): a copy then points at a copy. | `MoveCopyRace = TRUE` with both handshakes: `AncestorIsOriginal` |
| `deletedSegments` is declared outside the function that `WithTx` runs again (`metabase/commit.go:677`): pieces of an aborted attempt are reported for deletion although an object copied in between needs them. | `TxRetries = TRUE` in `MetabaseCopies.cfg`: `DeletedPiecesUnreferenced` |
| A position uploaded again with the other kind keeps the columns of both (`metabase/commit.go:447`). | `MixedKinds = TRUE` in `MetabaseMoves.cfg` with `Readable` |
| The expiration chore deletes a copy and leaves its `segment_copies` row (`metabase/delete_objects.go:198`). Until its ancestor is collected by a later batch, deleting or overwriting that one promotes a copy that is gone and is refused (`delete.go:490`). `docs/blueprints/server-side-copy.md:227` expects "no impact". | `EveryObjectDeletable` in `MetabaseCollection.cfg` |
| The last triggering observer leaves: the timer is stopped, `timerStarted` stays true (`segmentloop/service.go:327`), and a later `Join` waits until the satellite stops. | `JoinReturns` in `SegmentLoop.cfg` |
| A timed-out request marks the node as failed, and the worker sends the jobs pushed meanwhile to it at once (`piecedeletion/dialer.go:120`). | `NoRequestAfterTimeout` in `PieceDeletion.cfg` |
| A worker that overran its lease has its verdict counted beside the next worker's: `ApplyAudit` may end in a cache that has no use for the context. The comment says the downside "should only be duplication of work and monkit stats" (`audit/reverifyworker.go:66-68`). | `JobCountedOnce` in `Containment.cfg` |
| A call that settles a window leaves out the orders that are not valid, for example because they have expired (`satellite/orders/endpoint.go:292`), and still answers ACCEPTED. The comment at `endpoint.go:206` says "Batches are atomic, all orders are settled successfully or they all fail." The node archives what it sent and is never paid for the rest. | `AllOrNothing` in `OrderSettlement.cfg` |
| A handler that credited the node and then fails to charge the bucket answers with an error; the next call finds the window settled and charges nothing (`endpoint.go:388`). | `lost` in `Accounted` |
| The chore fails an exit for inactivity and deletes its queue while a session is under way (`gracefulexit/endpoint.go:199`): the session finds nothing left and finishes the exit with success. | `Sleepers = {e}` in `GracefulExit.cfg`: `NothingForgotten` |
| The ranged observer returns early when no node is exiting, before it resets what it collected (`gracefulexit/observer.go:58`), and writes the status of finished exits again. | `Ranged = TRUE` with `OnlyNewlyExiting` or `OutcomeKept` |
| An audit disqualifies a node between the check of its session (`gracefulexit/endpoint.go:634`) and the record of its success. If the message that the exit is completed is lost, the node connects again, and `handleDisqualifiedNode` (`endpoint.go:644`) finishes the exit a second time, with `exit_success` false: a success that was recorded is taken back. | `MaxFaults = 2` in `GracefulExit.cfg`, and `OutcomeKept` without its exception |
| `retain.Service.Queue` says that it discards a request for a satellite that already has one queued (`storagenode/retain/retain.go:122`); it replaces the queued one. | `Queue` in `GarbageCollection` is what the code does |
| A node may be disqualified in the overlay and not in the database, also without faults and within one process; `satellitedb/reputations.go:449-453` argues that it cannot. An older answer may take back `vetted_at` (`reputation/writecache.go:602-607`). | `DisqualifiedForCause`, `VettedForGood` in `Reputation.cfg` |
| The exit of a node finishes while an audit of it is under way. The audit disqualifies it in the table of reputations, and `UpdateReputation` of the overlay, which asks for `exit_finished_at IS NULL` (`satellitedb/overlaycache.go:713`), writes nothing and reports no error: the two tables disagree for good. `reputation/writecache.go:120-122` makes the caller of `Update` "responsible for updating the records in the overlay to match". | `DisqualificationTold` without `\/ exited` in `Reputation.cfg` |
| A failed sync drops the mutations it was to write (`writecache.go:616`); `Manage` returns on shutdown without a flush; the reporter's retry after a failed write to the overlay counts an outcome twice. The branch of `ApplyUpdates` for an entry that is not populated (`writecache.go:147-157`) cannot be reached. | `lost` in `Reputation` |

## 7. Proofs

`tlapm <module>` checks each module; it needs no options. A theorem holds for every value
of the constants that the named assumptions of its module allow: the bounds are naturals,
sets of positions, nodes, orders, processes and the like are finite where the code counts
or the models sum them, switches are Boolean. Three assumptions say more, and why the code justifies them is said where they
are declared: `AgesAssumption` (a row of rollups outlives the orders and calls that refer to it),
`SkewAssumption` (the intervals of garbage collection leave room for the clock of a
node) and the switches of section 4, which are hypotheses of the theorems that need them.

### `MetabaseProofs`

| Theorem | Says | Under |
|---|---|---|
| `TypeCorrect` | `TypeOK`, and `Fresh`: no table mentions an id that is still to be drawn | |
| `PrimaryKeyCorrect`, `OneCommittedCorrect`, `KeysCorrect` | `KeysUnique` | `~MoveCopyRace` |
| `AncestorsCorrect` | `AncestorIsOriginal` | `~MoveCopyRace`, `~CommitRace` |
| `SegmentsCompleteCorrect` | `SegmentsComplete` | `Orderly` |
| `ReadableCorrect` | `Readable` | `Orderly` |
| `UnreferencedCorrect` | `DeletedPiecesUnreferenced` | `Orderly`, `~TxRetries` |
| `DeletableCorrect` | `EveryObjectDeletable` | `Orderly`, `Expirations = {}` |
| `ContentCorrect` | `ContentPreserved` | `Orderly` |
| `StoreCorrect` | `Spec => ImplementsObjectStore` | `Orderly` |

`Orderly == ~MoveCopyRace /\ ~CommitRace /\ ~MixedKinds`; each switch that is left out
is a divergence of section 6, and the run named there shows that the property fails with it.

* Keys. Every step removes rows, keeps them, or changes one row to a location and version
  nobody holds (`RowsStep`): begin and copy take `max + 1`, a move keeps its version only if it
  is free. With one committed object per location, "the last committed" is all of them
  (`NewestIsAll`), so a commit or a copy deletes every one that is there.
* Ancestors. `AncestorIsOriginal` speaks of live copies and depends on things that are not in
  `segment_copies`. The inductive invariant is `FamilyInv == TypeInv /\ Families /\ Batches`. `Families`:
  a copy and its ancestor are committed and expire together; a copy that is gone
  left its row behind only by expiring; a live copy has its ancestor, which is no copy.
  `Batches`: what a chore selected is still fit to be deleted. This is what `CommitRace` breaks.
* Data. `Readable` for a copy depends on the ancestor's segments, those on which copy was
  promoted, and that on which segments the copies have. `DataInv` adds to `FamilyInv`
  `RowsInv` (a row is inline or has pieces and both never; copies own no pieces; the
  segments of a copy are those of its ancestor position by position; no two roots of
  families share a piece, and no root has one that is still to be drawn) and `LiveInv` (no
  orphaned segment; `segment_count` is right; a family has the same positions; whoever
  leads a family owns its pieces). `Leader` is an object or its ancestor; `LeaderLeft`
  says what it is after a promotion. `UnreferencedCorrect` follows from `RootsApart`: pieces that are
  reported are those of a root that is gone with its whole family.
* `DeletableCorrect` excludes expirations because the expiration chore deletes a copy and
  leaves its row in `segment_copies` (section 6).
* Content and refinement. `ShownIs` and `ContentsAre` say what `ObjectStore` sees of the tables
  as facts of `StoreInv == DataInv /\ OneCommittedPerLocation`. Every step shrinks what is
  visible, puts one object, copies, moves, repairs or stutters (`StoreNext`, a case for each
  action); an upload is new in the sense of `ObjectStore` because pending streams have no
  family and `RootsApart` keeps their pieces out of every other.

### The other modules

| Module | Theorem | Says |
|---|---|---|
| `GarbageCollectionProofs` | `TypeCorrect`, `LivePiecesCorrect`, `TrashCorrect` | `TypeOK`, `LivePiecesKept`, `TrashKept` |
| `OrderSettlementProofs` | `SentFileCorrect`, `PaidOnceCorrect` (with `AcceptedCorrect`), `AccountedCorrect`, `OneFlushCorrect`, `ClosedCorrect` | `SentFileComplete`, `PaidOnce`, `Accounted`, `OneFlush`, `ClosedEmpty` |
| `ReputationProofs` | `TypeCorrect`, `ToldCorrect`, `AccountedCorrect` | `TypeOK`, `DisqualificationTold`, `ResultsAccounted` |
| `SegmentLoopProofs` | `TypeCorrect`, `AnsweredCorrect`, `NilCorrect` | `TypeOK`, `AnsweredOnce`, `NilOnlyAfterFullPass` |
| `PieceDeletionProofs` | `TypeCorrect`, `ResolvedCorrect`, `TurnsCorrect` | `TypeOK`, `JobsResolvedOnce`, `OneHandlerPerNode` |
| `ContainmentProofs` | `TypeCorrect`, `LeaseCorrect`, `CountedCorrect` | `TypeOK`, `LeaseHeld`, `CountedOnce` |
| `GracefulExitProofs` | `TypeCorrect`, `PiecesKept`, `OutcomesAgreed`, `OutcomesKept`, `NothingIsForgotten`, `HoldersKeepStoring` | `TypeOK`, `KeptUntilMoved`, `OutcomesAgree`, `OutcomeKept`, `NothingForgotten`, `HoldersStore` |

* Garbage collection. `Covers` says what a filter holds: every piece of a segment that is in the
  metabase and was created before the filter's time. `Lapsed` says the same of what a walk has
  still to look at. A piece that is uploaded while a filter is on its way is newer than the
  filter by the intervals of `SkewAssumption`. For the trash, `EmptierInv`: what the job saw when
  it chose a file still holds when it deletes the one of that name, as the `Workplace` keeps
  a restore out.
* Sums. `OrderSettlementProofs` and `ReputationProofs` begin with what their accounts rest on: facts about
  `SumFunctionOnSet` of the community module `Functions`, which is defined by recursion over subsets. That the
  recursive function exists and is unique is proved by well-founded induction on strict
  subsets (`SubsetInduction`, `SumExists`, `SumUnique`); from its one equation follow what taking out an
  element does (`SumRemove`), changing one value (`SumUpdate`), and bounds (`SumNat`, `SumZero`, `SumGrows`).
* Orders, the node. `SentFileComplete` is about time: a window that may be sent is one no order
  is added to any more, so the reader needs no lock (`FileInv`).
* Orders, what is paid. `PaidOnce` has two halves. `AcceptedIsPaid` needs `CreditInv`: a call that saw a row,
  or none, has its answer from what was committed. That a window is never overpaid needs `WorthInv`: a
  call counts an order once, so what it settled is the sum of the orders it has seen, which
  is at most what the window's orders are worth; rows and archived rows hold what some call settled.
* Orders, what is charged. `Accounted` is `Balanced` for every key: the credit is `Kept` (written,
  in the cache, lost) and `Uncharged` (owed by calls). Alone it is not inductive. `CacheInv`
  says that only who flushes holds a batch, so that a batch taken replaces none. `ChargeInv` says that a call
  charges no more than it settled, and that an id is free for the next call: each one the node hung up on
  cost a fault, and there is one more id than faults. A charge that the stopped cache refuses goes
  to `lost`, as the error that is logged.
* Orders, the cache. `OneFlush` needs `FlusherInv`, which says which flusher the flag of the cache stands
  for. `ClosedEmpty` needs `CloseInv`: once `CloseAndFlush` flushes, the map is empty, nobody adds to
  it, and nobody else has a batch, though the chore may still be waiting for its turn.
* Reputation. A call begins with a status that is not disqualified (`StatusClear`), so one that was
  answered "disqualified" has a change to tell. The overlay never takes back what it was told, and an exit
  that has finished stays finished (`GoneForGood`): no later step, of a retry or of another process, undoes
  either. `ResultsAccounted` depends on the comparison in the UPDATE of the row, which looks at the
  history and not at a version: what a holder read is an earlier version of the row, in which no
  outcome has more results (`ReadsEarlier`), so equal totals mean the same results (`SameRow`) and the write
  adds the mutations of one process, also when the call it was for no longer waits.
* Segment loop. An observer is in the list from its turn on or is kept by the pass, all of the
  list wait for an answer, and nobody is in it twice.
* Piece deletion. Every job that is not resolved is at exactly one place (a queue, the hands
  of a worker, a request) of one worker that will look at it (`QueuedInv`, `ApartInv`, `HeldInv`); a queue
  is open only below its limit (`LengthInv`); in a chain the workers that are gone come before those
  that had their turn, which come before the rest (`TurnInv`).
* Containment. A lease is younger than the context of its holder, which the worker does not outlive, so
  a job in hand is not due (`HeldNotDue`). `CountedOnce` also needs who is late (`LateInv`), and what a
  worker that removes its job has already reported (`RemovingInv`).
* Graceful exit. Every action has a lemma that says what it does to one node and that it leaves the others
  alone (`...Does`, `But`). On them rest the two ends of a session (`EndsInv`: what the sender and the receiver
  hold between their statements, and that a listed piece is not pending), the session and the stream
  (`SessionInv`), and the counters (`BoundsInv`: what the sender has listed is behind the queue by the piece
  it is sending at most, and a piece at its limit of failures is about to leave the pending map). These
  four are `Basics`. `KeptUntilMoved` needs `LeftInv`: whoever is about to tell the node to delete a piece, the
  messages and the jobs of the node included, does so after the segment was changed, and
  nobody gives a piece back to a node that exits. `OutcomesAgree` needs `OutcomeInv`: what is told, or still in the
  stream, is what was recorded, and a session that goes on after a failure, as it does after an invalid
  answer, cannot succeed any more. Both assume `~Ranged`: the observer of the ranged loop
  keeps the nodes of an earlier cycle when none exits, and then clears a success (hazards).
  `OutcomesKept` adds `FinishedInv`, and also assumes that nothing fails an exit for inactivity (`Sleepers = {}`),
  which the chore does while a session is under way.
  `NothingIsForgotten` adds `ForgottenInv`: every piece the node holds is in the queue, or the loop has still
  to reach its segment, or it was given up; an item leaves the queue, or counts as spent, only when its piece
  is given up, moved or gone; the sender ends on a queue in which all is spent, and the receiver judges only
  after it. To `~Ranged` and `Sleepers = {}` it adds `~Flaky`: after any error of
  `getValidSegment` the sender drops the item, also when only the read failed and the segment is still there.
  `HoldersKeepStoring` needs no hypothesis. It rests on `UploadInv`, about a session that is open: a piece that was sent
  is in one place of stream, jobs, answers and receiver (`Channels`); its target is the one that the pending map,
  or the sender, says (`Targets`); and a success that is answered was uploaded to that target (`Stores`). A
  late success then finds in the segment the node it was asked of, or changes nothing.

Only model-checked, and why:

* Liveness (`Collected`, `CallsReturn`, `CallsSettle`, `AuditsSettle`, `EverythingSettled`, `JobResolved`,
  `MarkFollowsQueue`, `ExitEnds`): the prover has no rule for fairness.

## 8. Not modelled

* Of the metabase: the code used when server-side copy or multiple versions are switched
  off, metadata updates, listing and iteration (read only), `BeginObjectExactVersion`,
  `CommitObjectWithSegments`, part sizes and offsets, encryption, and the node alias
  cache. Transactions are serializable, as in CockroachDB; PostgreSQL's READ COMMITTED
  is not modelled.
  A chore's DELETE of a batch is one step; one that fails halfway leaves what the next pass selects.
* Of the segment loop: the rate limiter, statistics and the arithmetic of
  `verifyCount`, which are reasons for a pass to fail.
* Of piece deletion: the look-up of node addresses, logging and metrics.
* Of orders: how order limits are made and signed, inline and allocated amounts, the
  reading of rollups, file formats and entries that cannot be read.
* Of containment: which segments are audited, the downloads and the correction of
  shares; the reputation is one step there and a module of its own.
* Of graceful exit: uploads that arrive at an exiting node with an order limit made earlier, the
  node selection cache that may be stale, the sizes of batches, a change of the root piece
  id, signatures and hashes beyond valid or not. `Process` refuses a node that is younger than
  `NodeMinAgeInMonths` (`endpoint.go:787-796`); the model's nodes are old enough. A second session
  of a node is refused by `connectionsTracker` (`endpoint.go:61-93`), which is a map of one API
  process: the model has one such process. The chore lists the exiting nodes and fails the
  inactive ones afterwards, one by one (`chore.go:50-99`); in the model both are one step.
* Of garbage collection: packing and sizes of filters, the collector of expired pieces, the space
  cache, and `DeleteToTrash` switched off.
* Of reputation: fractions of the beta distribution (lambda is 1), the history of online scores and
  suspension for being offline, a context that is canceled elsewhere than in the wait for a sync
  (it then counts as a write that failed), the grace period, `DisqualifyNode`, `SuspendNode`, `FlushAll`.
* The repair queue and the usage cache of a node (row 9 of the plan), and the
  components listed in `PROJECT.json` with a reason: reporting, web interfaces, payments,
  generated code, start-up code.
