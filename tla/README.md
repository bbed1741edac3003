# Verification of the matching engine

TLA+ models of the matching engine in this repository, TLC configurations that
check them on small instances, and TLAPS proofs of nearly all safety properties
for every instance. Definitions keep the names of the C++ code where TLA+ allows it;
`PROJECT.json` maps each one to its source lines.

## The system

| Part | Source | Role |
| --- | --- | --- |
| Order book | `src/order_book.cpp` | price levels with FIFO queues, index of active orders, `submit`, `cancel` and read-only views; single-threaded |
| Journal codec | `src/journal.cpp` | bytes of the file header and of frames, CRC |
| Journal storage | `src/journal_storage.cpp` | the append-only file: create, scan, repair, append a batch with one fsync |
| Durable engine | `src/durable_engine.cpp` | journal first, then book; recovery by replay; `Failed` is final |
| Bounded queues | `include/matching/detail/bounded_queue.hpp` | requests to the worker, responses to the gateway |
| In-flight limiter | `src/gateway_types.cpp` | one reservation per request from admission to the drain of its response |
| Gateway | `src/gateway_server.cpp`, `src/connection.hpp` | one thread around `poll`: read, parse, admit, answer, shut down |
| Exchange worker | `src/exchange_server.cpp` | one thread: drain a batch, execute it, publish the responses, fail-stop |
| Wire protocol | `src/wire_protocol.cpp` | frames of clients and server, incremental parser |
| Conversions | `src/gateway_types.cpp` | copies of fields between the wire and the engine |
| Benchmarks, tests | `benchmarks/`, `tests/` | not part of the running system |

A request travels: socket, parser, `admit` (reservation, request queue), worker,
`DurableEngine::execute_batch` (frames, fsync, book), response queue, gateway,
socket. The worker is the only thread that touches the engine and the book.
A failure of the journal stops the whole server.

## Modules

**`OrderBook`** — the book as `submit` and `cancel` change it. `levels`,
`active_orders`, `seen_order_ids` and the two counters are the fields of
`OrderBook::Impl`; `call` holds the locals of a `submit` in progress, so that
the properties also hold between two trades. `Submit`/`Reject` are the checks
and the preview, `MatchStep` one iteration of `match`, `Rest` the tail of
`submit`, `InsertThrows` an allocation failure in `insert_resting_order` with
its handlers, `CancelActive`/`CancelNotFound` the two outcomes of `cancel`. A
failure of `trades.reserve` or of the insertion into `seen_order_ids` leaves the
book as it was and is not a step of its own. `terminated` records a call of
`std::terminate`. `preview_match` is stated in closed form, by counting units of
quantity ahead of each maker, while `match` runs step by step; `PlanIsExact`
compares the two. Words are `0..MaxValue` and wrap as `std::uint64_t` does.

**`PriceTimeBook`** — the promise: a set of orders, a taker that trades with the
best of them. **`OrderBookRefinement`** maps the levels to that set.

**`OrderBookViews`** — the const member functions: `depth`, `best_bid`,
`best_ask`, `find`, `active_order_count`, read from the levels and the index as
the code reads them, and `invariants_hold`, the self-check that `submit` and
`cancel` assert.

**`DurableEngine`** — journal storage and engine together. The file is `header`,
`frames`, `torn` (part of a frame at the end) and `rotten` (frames that no
longer decode); `disk` is what a loss of power cannot take. Every system call
that changes the file is a step, so a crash or failure can fall between any two:
`CreateOpen`, `CreateWriteHeader`, `CreateSync`, `CreateSyncDirectory`;
`Recover`, or `RecoverTorn`, `RepairTruncate`, `RepairSync`; `ExecuteBatch`
(the checks before the first write), `WritePartial`, `WriteFrame`, `Sync`,
`Apply`, `Return`. `CreateFails`, `RecoverFails`, `JournalFails` and
`ApplyThrows` are the error returns and exception handlers. `Crash`, `PowerLoss`
and `Rot` are the environment. The book is deterministic, so its state is the
sequence of commands applied to it. A `submit` that throws from
`insert_resting_order` has used its identifier and executed its trades: in the
phase `midway` the Failed engine's book holds such a part of a command behind
those in `book`, and is the replay of no journal. Commands are not told apart, so
the model lets any of them stop there.

**`JournalCodec`** and **`JournalFile`** — the same file byte by byte, without
the engine. The codec has the header and the frames by field with the format's
sizes and every check of the decoders in its order; a checksum is the tuple of
what it covers. `JournalFile` writes with `write_all` in pieces (`WriteHeader`,
`write_all`), scans one frame per step (`ScanHeader`, `ScanFrame`, `Scanned`) and
repairs (`Ftruncate`, `RepairSync`). `size` may cut the last frame anywhere;
`disk` is the file at the last fsync and `disk.kept` the smallest size since,
below which nothing can be lost. What `DurableEngine` takes as given, that a cut
frame is seen as a torn tail and a damaged one as damage, is checked here.

**`CommandLog`** — the promise of both: a log of commands that grows at its end,
of which a prefix is committed; what is not committed may be lost from the end.
`JournalFile` implements it by complete frames and acknowledged appends,
**`DurableEngineRefinement`** by frames and returned results.

**`Exchange`** — the gateway thread, the worker thread, a third thread in
`request_stop`, and what they share: both queues, the limiter, the eventfd
(`wakeup`), `stop_requested`, `engine_failed`. A step is what one thread does up
to its next access to shared state; `gateway` and `worker` say where each is.
`closed()` and `size()` in `shutdown_complete` are two steps, as are the three
stores of `enter_fail_stop`, the two of `request_stop`, `close` and `notify` at
the end of the worker, and `admit`'s look at `engine_failed` and its push. A
`wait_pop` that finds nothing blocks until `not_empty_notify`, which follows a
push or `close` of the request queue as a step of its own, or a spurious wakeup.
Sockets, clients and the engine's verdict are external choices.

**`GatewayConnections`** — the same two threads, seen from the connections: the
listener's backlog, `accept_connections`, the map from descriptors to
connections, the numbers that lead a completion back to its connection, and
clients that end, break or send what does not parse. The kernel hands out the
lowest free descriptor, so a closed one is soon someone else's. Here the engine
does not fail, the request queue has room and the worker's wait is one step;
`Exchange` has those.

**`WireCodec`** and **`WireConnection`** — the bytes of one connection. A byte is
a pair of a frame's number and an offset in it; a read gives a field only where
the bytes are the field's own. `WireCodec` holds the decoders and encoders with
the protocol's sizes. `WireConnection` runs `feed` one loop iteration at a time
(`process_available`, `feed`, `Fed`) on whatever `receive_from` got, and the
output buffer from `drain_engine_completions` through `queue_response` to partial
sends (`flush_output`). `stream` is what the client sends; `messages`,
`responses`, `queued` and `sent` record what came of it.

**`...Proofs`** and **`OrderBookLemmas`** hold the proofs, see below.
**`MC...`** modules give the symmetry sets and constants of the instances.

Definitions that end in the name of a mistake (`CrossesStrictly`,
`SequenceAfterOverflows`, `notifyNotLast`, ...) are variants of the definition
that follows them with a plausible bug. Replacing the definition by its variant
must violate the property named with it in `PROJECT.json`; they are used by
nothing else.

## Runs

| Run | Instance | Distinct states | Result |
| --- | --- | --- | --- |
| `order_book` | 4 orders, prices 1..2, quantities 1 and 3, words 0..4 | 85,568 | passes |
| `order_book_exhaustion` | 3 orders, words 0..3, first trade id 3 | 151,404 | passes |
| `durable_engine` | 2 commands, 5 sequence numbers, batches of 2, 5 faults, fairness | 262,979 | passes |
| `journal_file` | a submit and a cancel, 2 sequence numbers, batches of 2, cuts after bytes 1, 15, 23, 24, 31 and 48, one damaged field | 177,294 | passes |
| `exchange` | 2 connections with 2 and 1 requests, 2 reservations, queue 2, batch 2, output 1 | 2,829,994 | passes |
| `exchange_live` | 1 connection with 3 requests, 2 reservations, queue 1, pending 1, worker may throw, fairness | 495,312 | passes |
| `gateway_connections` | 4 clients, 3 descriptors, 2 connections and connection numbers, 1 reservation, pending 1, output 1, fairness | 620,244 | passes |
| `wire_connection` | up to 3 requests or a defective frame, input limits 28 and 62, output limit 60, recv of 2, 5 or 40 bytes, send of 15 or 60, fairness | 242,449 | passes |
| `durable_engine_unsynced` | as `durable_engine` | | violated, finding 1 |
| `durable_engine_entry` | `EntryWithFile = FALSE` | | violated, finding 2 |
| `exchange_batch` | queue 1, batch 2 | | violated, finding 3 |
| `exchange_throw` | worker may throw | | violated, finding 4 |

**What they show.** `order_book`: `invariants_hold` is true after every step (no
crossed book, queues in arrival order, exact totals and index), the views show the
orders that are there, the plan made before matching is what matching does,
quantity is conserved, identifiers are never reused, and all of it implements
strict price-time priority. With words of 0..4 a level overflows with two orders
of 3, which is the case `would_overflow` is for. A book that starts at 1 cannot
exhaust its trade ids before its orders, so the exhaustion run starts at the last
trade id, as the tests do; there no corruption check fires and no trade id is
repeated. `durable_engine`: acknowledged commands stay on disk, the journal stays
numbered and recoverable, the book of a healthy engine is a replay of it, a
command applied in part is left to the recovery, callers see a `CommandLog`, and
recovery of an undamaged journal ends with a running engine. Five faults allow a
failure during the recovery from a failure during a repair, and two more; five
sequence numbers end in the middle of a batch of two. `journal_file`: wherever an
undamaged file is cut, the scan returns the complete frames and calls the rest a
torn tail; a damaged field of the header or of a complete frame is always an
error, never a command and never a tail that the repair would drop; and the file
implements `CommandLog`. The decoders look at how much there is only at 16 bytes
(file header), 24 (frame header) and the whole frame (32 or 49 bytes), so the cuts
are on both sides of each. `exchange`: every admitted request is answered once and
in order through disconnects, full buffers, fail-stop and shutdown, the gateway
does not leave before the last answer, no reservation leaks, no wakeup is lost.
Two reservations bind before three requests; in `exchange_live` the queue and the
pending list bind instead, a stop or fail-stop always ends with both threads at
their end, and paused reads resume. `gateway_connections`: what `poll` reported on
a descriptor is applied to the connection that was polled, an answer never reaches
another client that was given the same descriptor, and a connection that is
closing with nothing to send, or broken, is closed although `poll` is asked for
nothing on it. The clients reuse a descriptor while a request of the first is
still retained, queued or answered, and exhaust the two connection numbers. Four
of them are what it takes to see a number used twice: without the test that a
number is left (`gateway_server.cpp:230`) they would get 1, 2, 0 and 1, and the
run finds the fourth receiving an answer of the first. `wire_connection`: requests
parsed and errors reported depend on the bytes received and not on how recv cuts
them, `feed` always returns, its buffer stays below twice its limit (and does
outgrow the limit), and a client reads whole, ordered answers, the k-th to its
k-th request. 28 bytes are the smallest limit `create` accepts, below the 45 of a
submit; 62 leaves a read frame in the buffer that is not yet compacted. Pieces of
2, 5 and 40 bytes end at every byte of the stream from the fourth on, and bring
the end of one frame with the start of the next.

**Deadlock** is checked except where the system may stop: a journal whose header
was cut off is refused by `create` (it exists) and by `recover` (it is too
short), as the tests expect, so the `durable_engine*` runs may end there. For the
book it shows that a `submit` never gets stuck; the tape of trades grows with
every iteration of `match`, so there is no endless one either.

**Fairness.** A call in progress on the engine goes on, and a stopped engine is
restarted with `recover` until it runs. Both threads of the exchange (and of
`GatewayConnections`) are scheduled, `poll` returns once the eventfd is readable,
and a `request_stop` that has begun ends. A `feed` that has begun is not suspended
for ever. Nothing is assumed of clients, of when a stop is requested, or of
faults.

## Findings

1. **Recovery applies what was never synced** (`durable_engine_unsynced`). After
   a crash between a write and its fsync, `recover` replays the frames and
   `open_recovered` does not fsync. `README.md:18-19` says commands are "appended
   and fsynced before" they are applied. What was acknowledged is unaffected.
2. **The directory is synced only by `create`** (`durable_engine_entry`). If
   `create` stops before `sync_directory`, `recover` opens the file all the same;
   on a file system where only fsync of the directory makes the name durable, the
   journal can later vanish with acknowledged commands (`README.md:43-44`).
3. **A batch can be larger than the request queue** (`exchange_batch`). The
   gateway pushes while the worker drains; `batch_size_histogram` has
   `request_queue_capacity + 1` entries and is indexed by the batch's size. What
   the program does after that index is undefined, so the passing runs keep
   `max_durable_batch_size <= request_queue_capacity`.
4. **An exception before execution loses a request** (`exchange_throw`). If
   `batch.reserve` or the drain hook throws, the popped request has no response
   (`gateway_types.hpp:138-139`: "exactly one terminal response").

## Proofs

TLAPS checks the theorems for every value of the constants that satisfies the
component's assumption: any commands, orders, prices, connections, clients,
capacities, limits and faults. The assumptions say what kind of number each
constant is, and in addition:

- `DurableEngine` (`EngineAssumption`): the theorems about durability assume
  `EntryWithFile`; finding 2 is why.
- `OrderBook` (`ConstantsAssumption`): finitely many identifiers, no more than a
  word can count, and prices and quantities that fit a word.
- `JournalFile` (`JournalAssumption`): what a damage of the medium is, one changed
  field. It has no bound on the number of frames, and a write or a loss of power
  may stop after any byte.
- `Exchange` (`ExchangeAssumption`): nothing more. Batches larger than the queue
  (finding 3) are included: the model has no histogram. `OneResponseEach`,
  `StopDrains` and `DeliveredInOrder` assume `~WorkerThrows`; finding 4 is why.

| Module | Theorem | Property |
| --- | --- | --- |
| `OrderBookProofs` | `TypeCorrect` | `TypeOK` |
| | `NoCorruption` | `NeverTerminates` |
| | `PlanExact` | `PlanIsExact` |
| | `TradeIdsInSequence` | `TradeIdsConsecutive` |
| | `Conserved` | `QuantityConserved` |
| | `IdsUsedOnce` | `IdsNeverReused` (an action property) |
| | `SelfCheckHolds` | `InvariantsHold` |
| | `ViewsShowTheBook` | `ViewsExact` |
| | `BookImplementsPriceTime` | `ImplementsPriceTime` (a refinement) |
| `DurableEngineProofs` | `TypeCorrect` | `TypeOK` |
| | `Durability` | `AckedDurable` |
| | `Consecutive` | `SequencesConsecutive` |
| | `BookReplaysJournal` | `BookIsJournal` |
| | `AlwaysRecoverable` | `Recoverable` |
| | `WriterStandsAtEnd` | `WriterAtEnd` |
| | `DiskGrows` | `DiskOnlyGrows` (an action property) |
| | `EngineImplementsLog` | `ImplementsLog` (a refinement) |
| `JournalFileProofs` | `ScanIsExact` | `ScanExact` |
| | `DamageIsRefused` | `DamageRefused` |
| | `FileImplementsCommandLog` | `FileImplementsLog` (a refinement) |
| `ExchangeProofs` | `TypeCorrect` | `TypeOK` |
| | `WorkerNeverTerminates` | `NeverTerminates` |
| | `NoReservationLeaks` | `ReservationsExact` |
| | `WakeupsArrive` | `NoLostWakeup` |
| `ExchangeOrderProofs` | `FailStop` | `FailStopIsFinal` |
| | `AdmittedInOrder` | `AdmissionInOrder` |
| | `OneResponseEach` | `ExactlyOneResponse` |
| | `StopDrains` | `ShutdownDrains` |
| | `DeliveredInOrder` | `DeliveryInOrder` |
| `GatewayConnectionsProofs` | `FreshEvents` | `EventsAreFresh` |
| | `RightClient` | `AnswersReachTheirClient` |

Each of the five components has a theorem `Invariance`, that its inductive
invariant `IInv` holds in every reachable state; the others follow from it. In
every component the properties are not inductive alone. What `IInv` adds, and the
argument:

**Order book** (`OrderBookLemmas`, `OrderBookStepProofs`, `OrderBookProofs`).
`QueueInv`, `NodeInv` and `IndexInv` say that levels and index describe the same
orders. Without them the checks of `match` and `cancel` could fire. `RoomInv`
says that the overflow check of `submit` still holds when the remainder comes to
rest, because matching changes only the other side. `PlanInv` is what makes
`PlanIsExact` inductive: in every iteration a new preview of what is left agrees
with the plan. Quantities are sums over queues, makers and trades; each sum is the
number of units in a set of stacks, and changes by the units that one step adds
or takes (`SizeAdd`, `QueueErase`, `TradedAppend`), so no induction over a queue
is needed. The preview is the number of makers ahead of whom fewer units are
offered than the taker wants (`PreviewAsCount`); a trade that fills the first
maker renames the makers behind it by one bijection (`PlanFilled`), one that does
not is the last (`PlanFirst`, `PlanDone`). The self-check compares the number of
orders with the size of the index through the bijection from nodes to
identifiers. The levels come in the order of the map because the number of levels
before each is a bijection onto `0..n-1` (`Ranks`), from which `depth` and the
quote follow. For price-time priority, the set of orders in the levels
is followed through each change of one level (`RemoveOrders`, `ReduceOrders`,
`AddOrders`); the head of the best level beats every other member (`FirstBeats`).

**Durable engine.** `WriterInv` says where the writer is in the middle of a batch
(the first `done` commands are the last frames, and the sequence numbers suffice),
without which a frame could repeat a number; it also says that a batch being
applied is already on disk, without which returning it would not be durable.
`FileInv` ties the disk to the file: its header implies its name, its frames are a
prefix, and torn bytes, in the file or waiting to come back after a repair, never
follow the last sequence number, without which `Recoverable` fails. `BookInv` ties
the book to the frames at each phase, a command applied in part included. There is
one lemma per group of actions (`CreateInv`, `RecoverInv`, `BatchInv`,
`PowerLossInv`, `FaultInv`), with `StopInv`, `StartInv` and `FailInv` for the
effects they share. The refinement needs one fact more, `LastAnswered`: of the
frames that callers have answers for, one comes last.

**Journal file.** `FileInv` says that the file is a row of frames numbered 1, 2,
3, ... each starting where the one before ends, of which the last may be cut.
`DiskInv` says that file and disk agree up to `disk.kept` and that the disk has no
complete frame beyond it, so that a loss of power takes no acknowledged frame
and brings none back that a repair has dropped. `ScanInv` says that a scan has read
the first `m` frames as they were written; `ScanAtEnd`, `ReadOneMore` and
`DamagedComplete` are its three outcomes at the next frame: the end or a torn
tail, a command, an error. `DamageInv` says that a damaged file is only read.

**Exchange.** `GatewayInv`, `TodoInv` and `WorkerInv` say what each thread holds
where it stands: a request is in exactly one of the two queues, the batch or the
gateway's hand, which makes `ReservationsExact` inductive and the response queue
large enough. `WakeInv` has one clause for each event a thread may sleep on: it is
signalled, or another thread is about to signal it. `OutcomeInv`, and `FailInv` in
`ExchangeOrderProofs`, say that results come before the first failure. `LineInv`
puts everything that a connection sent into one line, admitted, retained or
parsed, and says that an open connection's part of it has no gap. `AnswerInv` says
the same of answers and output. `DoneInv` says that the response queue was closed
and empty when the gateway left and stays so, from which `StopDrains` follows by
`WorkerInv`: the worker closes it with nothing left to do.

**Gateway connections.** `NumberInv` and `MessageInv` say that the number on a
message leads to its client's connection or to none, although descriptors are
reused; numbers are not. `PolledOpen` and `VisitInv` say that what was polled is
still open until it is visited or closed by the visit, for which a connection
accepted in between must not take a polled descriptor: the lowest free descriptor
exists by well-founded induction (`WFMin`).

**Only model-checked.** The properties of `WireConnection`: `ParsesAsWhole` and
`AnswersIntact` are about streams concatenated and cut by the folds of
`SequencesExt`, so that they need an induction over data; `BufferBounded` and
`OutputExact` do not, and are left to TLC all the same. All liveness properties
(`RecoveryCompletes`, `StopCompletes`, `ReadsResume`, `ClosingCloses`,
`FeedReturns`), since fairness and `ENABLED` are beyond the prover. The closed form
of `preview_match` is the model's; that the code's loop computes it is read from
the code.

## Assumptions and what is not modelled

- A loss of power keeps a prefix of what was written after the last fsync, or
  undoes a truncation that was not synced; reordered or zero-filled blocks are not
  modelled, nor the loss of dirty pages by a failed fsync. One process uses the
  journal.
- The medium damages one field of one frame, and the CRC tells such a frame from
  an intact one. Two fields are not covered: the type and the length of a last
  cancel frame, changed together, would make it look like the start of a submit.
- Calls interrupted by `EINTR` are retried within the step. Allocation failures
  are modelled where the code handles them.
- `Exchange` has its connections from the start; `GatewayConnections` accepts
  them, and an error of the listener is its `request_stop`. Both send a response
  as a whole or not at all; `WireConnection` sends bytes. Statistics, and the
  socket calls of `GatewayServer::create`, are left out.
- Order ids, sides, prices and quantities in payloads are copied and left out:
  `to_engine_request`, `summarize_submit_result` and `summarize_cancel_result` are
  nothing else. `decode_client_frame`, `decode_server_frame` and `decode_record`
  (a check for trailing bytes behind a single frame) are used only by tests.
  Benchmarks and tests are not part of the system.

## Plan

Next models: the loop of `preview_match` against its closed form; the composition
of `Exchange` with `DurableEngine` (a response on the wire implies a durable
frame, and what a client may find after the server was restarted), which today
rests on `Exchange` taking from the engine what `DurableEngine` shows: a batch
returns all its results or the engine fails for good.

Next proofs: the parser and the output buffer of `WireConnection`, after its
streams are restated without folds; the composition above, from `DurableEngine`'s
`IInv` and `Exchange`'s.
