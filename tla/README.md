# Logflare's ingest path in TLA+

Logflare takes log events over HTTP, buffers them, and writes them to the
backends a source is routed to. With the *spool* enabled, events are first
written to a local log, uploaded to object storage behind a message queue (SQS
or PubSub), and brought back by a consuming node; from there, and for sources
without a spool, they go through in-memory ETS queues into a Broadway pipeline
per backend, where a Rust NIF, the mapper, turns each event into a row. Three
promises matter:

- an event whose write was answered is never lost on its way into the bucket;
- a spool message is only given up once every event in it has been dealt with,
  and nothing is dealt with twice as far as the bookkeeping is concerned,
  through retries, crashes, scaling, rotation and shutdown;
- an event becomes one well-formed row, whatever it holds, and the mapper's
  shortcuts give what the plain evaluation would.

The first two are a bookkeeping of files, counters, handles and pointers spread
over a dozen processes with no lock and no transaction; the third is a large
interpreter with a cache and several fast paths. They are modelled here step by
step.

All paths below are under `src/lib/logflare/backends/` unless they start
otherwise.

## 1. Inventory

### Consuming side of the spool

| Component | State | Operations | Talks to |
|---|---|---|---|
| `spool/spool_ack.ex` SpoolAck | public ETS table handle -> counter, age, object | `register`, `bump`, `ack`, `nack_pending`, sweep, the acking server's `perform_ack` | called in place by producers, processors, batchers, janitors; casts to its server; server calls the queue and ObjectDeleter |
| `spool/object_deleter.ex` ObjectDeleter | bounded buffer of objects | `enqueue`, `drain` | storage |
| `spool/consumer_pipeline/queue_producer.ex` QueueProducer | demand, current file, prefetch slot, `receiving`, `draining`, poll timer, byte counter | `handle_demand`, `:poll`, `:prefetch_result`, `stop_receiving`, `drained?`, `prepare_for_draining`; unlinked prefetch task | queue, storage, SpoolAck, Broadway, ShutdownDrain |
| `spool/consumer_pipeline.ex` | none of its own | decode segments, dispatch to queues, ack a segment | IngestEventQueue, SpoolAck |
| `spool/queue/*.ex` | none: leases live at the broker | receive, ack, nack, publish | SQS, PubSub |

Hard: an ack may take effect and still report failure; a lease may expire while
the work goes on; the server may restart and lose its table; a producer may die
with a prefetch task in the air; shutdown nacks what the last ack may be taking
at the same moment. Correct when: no message is removed before some delivery of
it is worked to the end; no object goes before that, whatever the settings; a
handle is settled once; the poll loop never stops by accident; a stopped
producer drains; the byte budget holds except for one oversized segment.

### In-memory queues and pipelines

| Component | State | Operations | Talks to |
|---|---|---|---|
| `ingest_event_queue.ex` IngestEventQueue | mapping table queue -> pointer table, generation tables of bodies, recent events | `upsert_tid`, `mark_draining`, `add_to_table`, `pop_pending_pointers`, `pop_pending`, `move`, `requeue_payload`, `drop_pending`, generations | its tables are public: every caller works on them directly |
| `buffer_producer.ex` BufferProducer | its pointer table, demand, in-flight counter | seed from the startup queue, claim, hand to Broadway | IngestEventQueue |
| `dynamic_pipeline.ex` DynamicPipeline | shards, Coordinator's timers | add, remove and replace pipelines | IngestEventQueue, supervisors |
| `ingest_event_queue/generation_janitor.ex`, `queue_janitor.ex` | none | rotate, drop aged generations, prune dead keys, shed runaway queues | IngestEventQueue |
| `adaptor/clickhouse_adaptor/pipeline.ex` | none | look a pointer's body up, insert, ack, retry, drop | IngestEventQueue, SpoolAck, ClickHouse |
| `adaptor/clickhouse_adaptor/circuit_breaker.ex` | open or closed, in ETS | `check`, `trip` | the pipeline |

Hard: one batch is several ETS calls, and the queue or generation it aims at may
go between any two of them; event ids collide; a retry republishes under a new
ref while the Coordinator moves the queue it targets; a pointer may outlive its
body. Correct when: a pointer is in one place; a pointer's body is there unless
its generation has aged out; SpoolAck units are never released twice; no event
leaves without going down one of the ways the code counts as a loss; removing a
pipeline keeps its events.

### Producing side of the spool

| Component | State | Operations | Talks to |
|---|---|---|---|
| `spool/durable_buffer/backends/rotating_wal.ex` RotatingWal | active file, `pending_bytes`, `last_rotation_at`, workers | `open`, `commit`, `handle_message(:flush_tick)`, `close`, `truncate`; rotation, replacement of dead workers, the scan for sealed segments | DurableBuffer's partition calls it; casts to its workers |
| `.../rotating_wal/worker.ex` Worker | mailbox, an inner backend | `handle_cast({:commit_segment, _})`, `stop` | files, Cloud |
| `.../backends/cloud.ex` Cloud | none in `:wal` mode | `commit`: put, publish, both again under a new key after an error | storage, queue |

Hard: workers are unlinked and outlive their owner, so two owners' workers may
hold one segment; a scan dispatches what others still have queued; a worker dies
between put, publish and remove; a rename fails; nothing tells a node's death
from a close. Correct when: answered bytes are on disk until an announced object
holds them; every sealed segment is in somebody's hands; duplicates stay as few
as the failures; all of it is shipped without further traffic.

### The mapper (`src/native/mapper_ex/src/`)

| Component | State | Operations |
|---|---|---|
| compilation: `mapping.rs`, `path.rs`, `lib.rs` | the compiled mapping, a resource shared by calls | `compile_mapping`: fields, paths, path-cache slots, output layout |
| mapping: `mapper.rs`, `query.rs`, `coerce.rs`, `string_filters.rs` | per call: values so far, path cache | `map`: resolve, filter, transform, infer, pick, exclude, elevate, flatten, coerce |
| rows: `clickhouse_rowbinary.rs`, `output.rs`, `derive.rs`, `ndjson.rs` | cursor over the values, growing buffer | a RowBinary row per row type, an NDJSON object; derived severity and duration |

Hard: a cache whose slots are shared by fields, preloaded from the document or
not; a separate evaluation for events with dotted keys; wildcards coerced while
they fan out; three lists (layout, encoder calls, `INSERT` columns in
`src/lib/logflare/backends/adaptor/clickhouse_adaptor/query_templates.ex`) that
must agree by position; integers of every width; text that reads as a number no
float holds. Correct when: a fast path equals what it replaces; a row can be read
back by name; no event costs its row for a reason other than its timestamp, its
envelope or such a float.

### Around them

`src/lib/logflare/shutdown_drain.ex` stops intake, waits for three counts and
nacks what is left. `spool/health.ex` and `spool/memory_monitor.ex` throttle.
The rest of Logflare (context caches fed by the database's write-ahead log,
cluster singletons, rates and metrics, LQL and SQL, endpoints, alerting,
users, billing, web) is listed in `PROJECT.json` with the reason it is not
modelled: it is CRUD, rendering, parsing or statistics, or comes after the
ingest path.

## 2. Modules

| Module | Models | State |
|---|---|---|
| `AtLeastOnce` | what the consuming side promises about a message | abstract |
| `SpoolAck` | a message's life: broker, handle table, ack server, deletes | checked and proved |
| `SpoolAckProofs` | the theorems about `SpoolAck` | all obligations proved |
| `QueueProducer` | the producer from the inside | checked and proved |
| `QueueProducerProofs` | the theorems about `QueueProducer` | all obligations proved |
| `IngestEventQueue` | pointer tables, generations and everyone working on them | checked and proved |
| `IngestEventQueueProofs` | pointers, bodies, events, removal and counter units in `IngestEventQueue` | all obligations proved |
| `RotatingWal` | the spool's write path in `:wal` mode, one partition | checked and proved |
| `RotatingWalProofs` | types and durability in `RotatingWal`, who ships a segment, and how many messages a batch has | all obligations proved |
| `MapperTerm` | BEAM terms and rustler's decodings | used below |
| `MapperCoerce` | scalar coercion, timestamps, transforms, derived columns | proved |
| `MapperCompile` | path parsing, what a configuration compiles to or is rejected for | checked |
| `MapperResolve` | path evaluation with and without cache, JSON operations, flattening, arrays | checked |
| `MapperField` | the pipeline of one field | checked |
| `MapperRow` | layouts, row programs, encoders, buffer, NDJSON, `INSERT` columns | checked |
| `Mapper` | the NIF's calls as a state machine over all of these | checked |
| `MapperProperties` | the promises of the mapper | checked; see section 4 for what is proved |
| `FoldLemmas` | folds of the community modules, for any operator | all obligations proved |
| `MapperCacheProofs` | the path cache of the mapper | all obligations proved |
| `MapperValueProofs` | what the mapper's values are made of: fan-outs, parallel arrays, sound terms | all obligations proved |
| `MapperEncodeProofs` | the theorems about `MapperCoerce`, and that every value kept encodes | all obligations proved |
| `MCSpoolAck`, `MCQueueProducer`, `MCIngestEventQueue`, `MCRotatingWal`, `MCMapperFields`, `MCMapperRow` (over `MCMapper`) | the small instances | |

How they compose. `SpoolAck` abstracts the workers to *items*: units of work
that were bumped for, and are then acked, lost, or bumped for again by whoever
holds one. `QueueProducer` is the first such client, seen from the inside: what
it does to a handle before `register` and what it emits. `IngestEventQueue` is
the second: its `NoOverRelease` says that its processes keep the discipline
`SpoolAck` assumes (bump before publishing, ack a unit once). `ConsumerPipeline`
is the seam: it acks its segment after the dispatch, which is the writer's last
step (`Finish`) in `IngestEventQueue` and an `Ack` in `SpoolAck`. `RotatingWal`
is where a message comes from: its `MessageHasObject` (a published batch is in
the bucket) is what lets `SpoolAck` take a message and its object together. The
mapper is called by the ClickHouse pipeline between the claim and the insert of
`IngestEventQueue` and shares no state with it.

### SpoolAck

A `Message` is a broker entry naming one object; a `Handle` is one delivery of
it; an `Item` is one unit. `rows`, `count` are the ETS table. `ack/2` is two
ETS calls: `Ack` (the `update_counter`) puts the handle in `deciding`,
`PerformAck` is the `:ets.take` that may find the row gone. `casts` is the
server's mailbox. `held` and `lost` are bookkeeping of the model: the code has
no list of who still owes an ack, only the counter, and that the counter equals
`held` plus `lost` is one of the things proved. `nacked` is history. The broker
is external: `QueueAck` either removes the message or not whatever it answers,
`QueueNack` releases the lease only if the handle still has it.

### QueueProducer

One action per callback; a callback's whole chain (`maybe_clear_exhausted`,
`maybe_load_next`, `maybe_start_prefetch`, `emit_from_buffer`) is one action,
`BusyPoll`. Messages are in `polls` and `inbox`; `timer` says whether a poll is
armed. A prefetch task is a process of three steps: receive, download, deliver,
the last of which checks that its parent is still alive (`orphan` if not).
Delays appear only as armed or not. Segments have sizes, and `TakeCount` is
`take_count_within_budget/4`; `Size` adds the sizes of a set of segments up. The
memory flags may change between handlers but not inside one. `fate` follows each
handle; `casualties` is history.

### IngestEventQueue

One `queues_key` of a backend whose pipelines pass ids. A *ref* is a
`make_ref()`: the key of a body in one generation and the identity of a pointer
row. `rows` are the pointer tables, `body` the generations' contents, `status`
the mapping row with the table behind it, `count` SpoolAck's counters. A step is
one ETS call, or several that touch nothing another process sees in between:

- a writer (`add_to_table/3`) picks a queue, reserves its units, and inserts a
  body, then a pointer, per event; `Raises` says when one of these calls meets a
  table that is gone, and `Abort` is the handling of that `ArgumentError`, which
  restarts the whole batch at the startup queue;
- a producer seeds itself from the startup queue and claims with `:ets.take`;
- the pipeline resolves a claim to a body, and acks, drops or retries it;
  `Stage`, `Publish`, `Inspect`, `Reclaim`, `Close` are `requeue_payload/3` with
  its handling of a dangling pointer in the way;
- the Coordinator marks (`Unmap`, `Remap`: a delete and an insert), moves row by
  row (`MoveTake` from the old queue, `MoveClear` and `MovePut` at the new one, as
  `take_and_insert/3` makes three ETS calls) and terminates;
- the janitors rotate, drop a generation, and shed.

Read as atomic: `Start` seeds in one step what `init` claims in several (pointers
that arrive meanwhile are left to `Claim`), and a shed takes its rows at once.
`Terminate` waits for the producer's seeds to be in its table, since the
Supervisor starts a pipeline to the end before it terminates one, and for `claimed`
to be empty, as Broadway drains its batchers before the producer goes. A message
has one outcome, so what looks for the body of a pointer being requeued is the
requeue itself (`LookupMiss`). *Timing* enters in one place: the Coordinator moves
`@finish_removal_delay_ms` after marking, and a generation is dropped
`max_age_ms` after it stopped being current, both far longer than a batch takes.
The disturbance `"stall"` removes that assumption: with it a writer or a
starting producer may be overtaken by either.

### RotatingWal

The owner is the DurableBuffer partition's process, an external library that
calls the backend's callbacks one at a time. `owner` and `stopping` say where it
is, `active` and `pending` are the bytes of the active file and those that
`pending_bytes` counts, `sealed` the segments in the directory. A batch stands
for one unit of `max_batch_bytes`, and a segment is the set of batches in it.
`proc` holds the worker processes by worker index and slot, `pool` the slots of
`state.workers`; a process keeps its slot after its owner has died, and is
reused when it is dead or has nothing left to do, since no message can reach it
then. A worker's stage is the call of `Cloud.commit` it makes next.

An owner callback (`Commit`, `CommitFails`, `FlushTick`, `Open`) is one action.
It meets the workers only through casts and the directory listing: a worker that
dies or removes a file in the middle of it leaves what it would leave just after
it. `close/1` is the exception, because it waits for each worker in turn:
`Close`, then a `StopWorker` each. A mailbox is a bag, which allows orders of
casts that the code never produces. `TakeSegment` is the read and the first put,
since nobody sees the read by itself. A failed put or publish may have taken
effect. Deaths (worker, owner, node), failed calls and closes are bounded
together by `MaxDisturbances`. `left` is history: segments a worker gave up or
could not read or remove, until the next scan.

### Mapper

`Compile` and `RejectConfig` are `compile_mapping`, `StartCall` and `RefuseCall`
the start of `map`. `MapNextField` is one turn of `map_values_into`'s loop:
`values` are `MapScratch.values`, `cache` is `MapScratch.query_cache`, both new
per call. `ReturnMap`, `ReturnNdjson` and `StartRow` are the three outputs;
`WriteCell` is one encoder call of `append_row`, with `cursor` the position of
`RowValues` and `builder` the bytes written and allocated; `FailRow` is the call
that cannot encode its value. `answer` is what the last call returned.

`RaiseInField` is the call that raises. `coerce_float64` parses text with
`s.parse::<f64>()`, which accepts "NaN", "inf" and any literal, one past the largest
float as an infinity. No BEAM float is either: `enif_make_double` makes no term
(`NonValue`) and sets badarg, which is raised when the NIF returns, whatever it
computes until then. The model ends the call at that field. `NonFiniteWords` are such
words, `F64Max` the bound for literals (nothing else about it is assumed than that it
is above every integer of 64 bits). `map_result` has no rescue around the NIF, and
`handle_message` none around `map_result`, so for `IngestEventQueue` it is one more
message that fails.

Compilation is a function of the configuration except for root slots: `slots`
are handed out by iterating a hash map, so `Mappings` has one mapping for every
order. Which of several errors is reported is not told apart. Terms are tagged
tuples; a string is what it parses as (a number, a time, JSON text, a word), a
key is a sequence of name parts so that a dotted key is a longer one, floats are
counted in halves. A cell keeps its encoder, value and LEB128 prefix. The code
that evaluates through the cache threads it from one path to the next, as the
code does by `&mut`.

Nothing of it is a RECURSIVE operator, so that it can be proved about. `Terms` is
the set of the terms events are made of, closed under taking a term apart
(`TermsAssumption`), and a path is a function on it, put together segment by
segment (`Along`); a document is unfolded level by level, `MaxDepth` times.
`IndexAssumption` and `InputsAssumption` say what decoding gives of a configuration
and a body: lists, strings, well-formed defaults. TLC evaluates all of them.

Some of what the model made visible is accepted behaviour and in no property: an
integer beyond 64 bits coerces to the empty string in a string column and to 0
elsewhere; `array_flat_map` drops elements that are neither maps nor nil, so
parallel arrays may differ in length; a `pick` with a repeated output key gives an
empty map; coercing a datetime twice guesses its unit twice. That one text in one
column of floats costs the event its row, where other text is 0.0, is nowhere
documented; the properties name it as the exception it is.

## 3. Runs

| Run | Instance | Shows |
|---|---|---|
| `spool_ack` | 2 deliveries of one message, 1 undecodable message, 3 items; 67,736 states | types; no ack is early; nacked handles are never acked; the table implements `AtLeastOnce` |
| `spool_ack_stale` | `ack_stale` on, 2 items, fair; 181,432 states | a swept and acked message keeps its object; a handle whose work is complete leaves the table |
| `queue_producer` | files of sizes 1,3,1 and 2 against a budget of 2; 2 task slots; raises and kills; 203,488 states | budget, poll loop, no stranded handle, `drained?` means idle, one settlement |
| `queue_producer_live` | the same files, fair, raises but no kills; 21,260 states | loaded files are emitted, handles settled, stopped producers drain |
| `ingest_queue` | 1 event, 2 pipelines, no startup queue, every disturbance; 34,056 states | exclusive pointers, bodies, units, no vanished event |
| `ingest_queue_collide` | 2 batches, 1 id, 1 pipeline, startup queue, retries, stalls, a rotation; 541,431 states | units and events, when pointers collide and dangle |
| `ingest_queue_removal` | startup queue, no stall, no retry; 259,703 states | removing a pipeline keeps its events; nothing is refused |
| `ingest_queue_retried` | violation | finding 1 |
| `rotating_wal` | 2 batches, 2 workers, 2 attempts, every pair of disturbances; 279,794 states | nothing answered is lost; duplicates are at most the disturbances; sealed segments are in somebody's hands; all is shipped |
| `mapper_fields` | small configurations, one per group of operations, against small nested and dotted events; 20,347 states | cache and fast paths change nothing; values encode; arrays align; elevation precedence |
| `mapper_row` | the full log, metric and trace configurations, RowBinary and NDJSON; 9,179 states | a row reads back by column name; only envelope, timestamp or a float no term holds cost a row; both writers agree |
| `mapper_elevate` | violation | finding 2 |

Why these bounds. *SpoolAck*: a race for a handle needs two processes and a
second delivery; three items give a segment, an event bumped by it and a retry
of that event. *QueueProducer*: a segment above the whole budget between two
that fit is the case where the exemption could be misused; two task slots are
one orphan and its successor; two polls are a `cancel_timer` that comes too
late. *IngestEventQueue*: two pipelines are one that leaves and one that stays;
two events with one id are the smallest collision, and one generation after the
first makes every older pointer a possible dangling one. Four insertions
(`MaxRefs`) are two events and a retry of each. `Collisions` is 1 or 2 where the
code has a constant of its own; `QueueLimit` is 1 so that a full queue occurs;
`RunawaySize` is 0 so that shedding can hit a queue of one row. Disturbances are split
over the runs (`Happens`) because their product is too large; every pair that
touches the same rows occurs in one of them. Symmetry is used for items,
deliveries of one message, task slots and pipelines, only in runs whose
properties are safety properties.

*RotatingWal*: `MaxBatchBytes` is 2, so that two batches fill a segment together
or, when the interval elapses between them, make one each: two segments are
what two workers can hold the wrong way round, and one segment in two workers'
hands is a duplicate. Two disturbances are a failure and a failure of what
repairs it (an owner's death and its orphan's, a worker's death in each of two
generations, a failed attempt and its retry); `MaxDisturbances + 1` slots are
enough for a process per owner. Two attempts are one retry.

*Mapper*: the widths are scaled down together (`U64Max` 8191 or 131071, the
others in proportion, each below the next, `decimalScale` with base 2), so that
every value that fits one width and not the next is a small number; the proofs
hold for any. `MinRootReferences` is the code's 8 in `mapper_fields`, where configurations
with eight paths preload their root keys and the others do not, and 1000 in
`mapper_row`, whose full configurations would otherwise have a factorial of slot
orders. `VarBase` 4 gives one- and two-byte length prefixes with short values,
`InitialRowCapacity` 4 or 8 makes the buffer grow. `MaxDepth` 6 is deeper than any
document of the runs, and `Terms` (`MCTerms`) is what those documents are made of.

`CHECK_DEADLOCK FALSE` in the runs of `SpoolAck`, `IngestEventQueue` and
`RotatingWal`: their instance has a last delivery, a last batch or a last
disturbance, after which everything may be at rest. The mapper always has a next
call.

**Fairness.** `SpoolAck!FairSpec`: the process that brought a counter to zero
goes on to its `:ets.take` (it is the next expression of the same function) and
the server handles its mailbox. Nothing is owed by workers, queues, or the
sweep. `QueueProducer!FairSpec`: armed timers fire, mailboxes are emptied, tasks
run to their end, processors ask for more and Broadway acknowledges every
segment it was handed, success or failure (it does for each message of a batch).
That memory pressure ends is not assumed: the properties say "once it stays
away". `RotatingWal!Spec`: the interval timer keeps firing, and every tick finds
the interval elapsed once it has passed since the last rotation; `GenServer.stop`
returns or exits; a supervisor or the next boot opens the partition again; a
worker works through its mailbox. No new batch is assumed to come, and no
process a later scan. `AckedIsShipped` holds under that and excepts exactly what
the code leaves to new traffic: bytes in the active file that `pending_bytes`
does not count, and segments given up. The mapper has no liveness to speak of:
a call is a loop over a list.

### Findings

1. `requeue_payload/3` tries the queue the pointer was claimed from first. If
   its pipeline is being removed and its rows have been moved already, the
   retry lands in a queue about to be destroyed (`ingest_queue_retried`).
   `replace_pipelines/2` says that pending events move "instead of being
   destroyed with its queue". Events of a spool segment come back after the sweep,
   others are gone.
2. `flat_map` with `elevate_keys` flattens in one pass and falls back to the
   three passes of `json` only when a *flattened* key repeats. Two elevated maps
   with the same child key whose values are maps with different keys are merged,
   where `json` keeps the earlier one (`mapper_elevate`). The doc of `flat_map`
   says it accepts the same options as `json`, and that of `json` that the
   earlier configured elevate key wins.

Two observations that no run counts as a violation. After a failed rename
`rotate/1` resets `pending_bytes` with the bytes still in the active file, and a
tail recovered by `open/2` is not counted either: both wait for the next commit,
where the comment in `close/1` accepts this for an unclean kill only. And
`safe_fetch_next/4` reports a nil handle for any raise, also for one in the
download after the receive: that message waits for its visibility timeout, and
`NoHandleStranded` counts it among the casualties.

## 4. Proofs

`SpoolAckProofs` proves, for any finite set of items and any messages and
deliveries:

- `SpoolAckTypeOK`;
- `SpoolAckInductiveInvariant`, from `MsgOfAssumption`, `NoHandleAssumption`,
  `ItemAssumption` and `ConfigAssumption`;
- `SpoolAckNoPrematureAck`, `SpoolAckObjectOutlivesWork`,
  `SpoolAckNackedNeverAcked`: the three safety invariants of the runs;
- `SpoolAckImplementsAtLeastOnce` for `ack_stale` off: every step is a step of
  `AtLeastOnce` or a stutter.

The argument. None of the three is inductive: from the state alone nothing says
that a row at zero has no work left. The invariant `IInv` adds what the code
relies on without saying so:

- `CountIsOutstanding`: the counter of a row is the number of units held and
  lost, so zero means none; it is why a lost unit must *not* be acked;
- `HeldApartFromLost`: a unit is never both held and lost, so it is counted once;
- `StageOrder`: rows exist only for registered handles, items only for loaded
  ones, and a handle that was settled before `register` never gets a row;
- `AckMeansCompleted`: a process that goes on to `perform_ack`, and a cast that
  names an object, stand for a completed delivery; a cast without one comes from
  the sweep with `ack_stale` on. Preserved because work can only be added by a
  holder (`Fork`), and a completed handle has none;
- `NackedStaysOpen`: a nacked handle has no row left, or has lost units that keep
  its counter above zero, so no take can succeed for it after the nack;
- `NoPrematureAck` and `ObjectOutlivesWork` themselves, whose step cases then
  are the acking server's and the deleter's.

Each action is a case; `Bump`, `Ack` and `Lose` change a cardinality and use the
finite-set theorems, the others leave the counters alone. TLC checks the same
invariants and the refinement first.

`RotatingWalProofs` proves, for any number of batches, workers, attempts and
disturbances (`CountAssumption`):

- `RotatingWalInductiveInvariant`;
- `RotatingWalTypeOK` and `RotatingWalAckedNeverLost`.

The argument. `AckedNeverLost` is not inductive: when a worker removes a segment,
nothing in the state alone says that its batches are announced, and when a file
is gone, nothing says that the announced object exists. `IInv` adds

- `StageEarned`, per process: a worker about to publish has its segment in the
  bucket, and one about to remove it has a message out for each of its batches;
- `MessageHasObject`: a published batch is stored, which makes the second half of
  `AckedNeverLost` follow from the first;
- `Processes`: that a process is a well-formed record whose mailbox holds
  segments, which a dispatch, a revival and every worker step preserve.

`KeepsBytes` is the shared lemma: a step that answers only what is in a file,
moves bytes only from file to file, and removes a file only when its batches are
published loses none. Every action is a case that cites it.

It proves further, from the same assumption:

- `RotatingWalSegmentsHeld` and from it `RotatingWalSealedIsHandled`;
- `RotatingWalMessagesBounded` and from it `RotatingWalDuplicatesBounded`.

The argument. `SealedIsHandled` speaks of live workers only, which no step
preserves by itself: a worker dies with a full mailbox, or the owner does while
half of its pool is stopped. `SegmentsHeld` says for each sealed segment that
nobody gave up who answers for it: while the owner is open, a process of the pool
that has it in hand, or a dead one, whose replacement makes the next callback scan
the directory; while it closes, the same among the workers not yet stopped. So
the invariant holds because every callback that meets a dead worker scans.

`DuplicatesBounded` is a count. `AllTokens(b)` are the messages still to come for
a batch: a cast of its segment in a mailbox (mailboxes are bags, so a token has a
number), or a job that has not published; the batch in the active file is one
more, and so is the scan a dead worker or a new owner will bring. `MessagesBounded`
says that messages out and to come are at most one more than the disturbances: a
step moves a token, turns one into a message, or is a disturbance and may add one.
It needs `OneFile`, that a batch is in one file at a time.

`QueueProducerProofs` proves, for any handles, files, sizes, budgets and number of
task slots (`SegmentsAssumption`, `BoundsAssumption`):

- `QueueProducerInductiveInvariant`, `QueueProducerTypeOK`;
- `QueueProducerBudgetRespected`, `QueueProducerPollLoopNeverStops`,
  `QueueProducerNoHandleStranded`, `QueueProducerDrainedMeansIdle`;
- `QueueProducerSettledOnce`, an action property. `Settled` marks a handle that is
  acked or nacked when it was before ("twice"), so a second nack is a step the
  property sees, not a stutter; the proof is that whatever a step settles is where
  only a received handle can be (`PlacesApart`), or is the file with segments left;
- `QueueProducerNeverStalls`: with demand and nothing in flight, a buffered file
  gives at least one segment however large it is.

The argument. `IInv` adds where a received handle may be:

- `PlacesApart`: in one task, one result in the mailbox or the slot, or in the
  loaded file, never in two of them, with what a task knows at each stage;
- `OneUnderWay`: the slot says `:running` exactly while one task of this producer
  or one result in the mailbox is under way, or the producer drains. This is what
  makes `drained?` true only when nothing will come any more: it reads the slot,
  not the task;
- `FileLoaded` and `CounterExact`: the byte counter is the size of the segments
  Broadway has, none of which is emitted again. The budget needs both: a counter
  that is off by one segment would admit one too many.

Bytes are counted as the number of pairs of a segment and a byte of it
(`BytesOf`), so a sum over segments is a cardinality and the finite-set theorems do
the arithmetic.

`IngestEventQueueProofs` proves, for any batches,
ids, pipelines, limits and disturbances (`ConstantsAssumption`), all the safety
properties of the component:

- `IngestEventQueueTypeOK`, from `TInv`: shapes, and the rule that carries the ids,
  `OneRowPerId`; writers, requeues and the move know of a ref what their stage
  says;
- `IngestEventQueueExclusiveRef`, from `Apart`: each ref `Sits` in one place, where
  places include a row a batcher has staged and one a writer has not published.
  A place changes only by an `:ets.take`, a delete of an exact row, or an insert by
  who has it;
- `IngestEventQueuePublishedHasBody`, from `BodyKept`: the body stays not only while
  a row names it but while anybody may still put it in a table. `Apart` says that
  whoever deletes a body has the only pointer to it;
- `IngestEventQueueNoneVanishes`, from `Accounted`: an event is accounted for as soon
  as its writer is past it; and an event whose pointer is being closed as requeued
  is so *by a later ref*. Without the order of refs, two requeues could each count
  on the other's pointer. `NoSeedsLeft` (a table that is gone left no seeds) is why
  `Start` loses none;
- `IngestEventQueueNoneRefused`, assuming a startup queue and no `"stall"`, from
  `NeverRefused`: the generation a writer inserts into is live, and the startup
  queue is mapped, so an abort always has where to start over;
- `IngestEventQueueGracefulRemoval`, assuming a startup queue, no `"stall"` and no
  retries, from `NothingRemoved`: nothing is added to the queue that is moved, and
  every row still in it is on the list of the walk. The hypotheses are those of the
  run `ingest_queue_removal`, and finding 1 is that the last one cannot be dropped;
- `IngestEventQueueNoOverRelease`, from `UnitsKept`: the counter of a handle is at
  least its unfinished segments, its reserved rows and the pending refs of its
  events. Each step pays: one lemma per kind of step says that what goes from the
  counter was in the set that goes down (`PaidOne`, `PaidEach`, `WriterPays`,
  `StagePays`). `Apart` is needed, since a pointer in two places could be paid for
  twice, and `TInv` for the handle of a ref to stay what it was.

`Frame` says for each variable which actions may change it; most steps of these
proofs are a case of it. TLC checks the same strengthenings as invariants on the
instances of the runs.

The first part of `MapperEncodeProofs` proves four facts about the scalar layer, for
all widths, scales and terms (`IntegerBoundsAssumption`, `WidthAssumption`,
`ScaleAssumption`; a term is assumed to have the payload its tag says, `WellFormed`):

- `ScalarEncodesOrRaises`: what `coerce` returns for a column's type is what that
  column's RowBinary encoder accepts, a missing timestamp apart, or it is no term,
  which happens exactly when a float column reads text no finite float holds;
- `CoerceIdempotent`: coercing a coerced value changes nothing, timestamps apart;
- `CoarserTimesTruncate`: a coarser precision drops less than one unit, towards
  the epoch;
- `DerivedColumnsEncode`: with operands their layout coerced, severity fits a byte
  and duration an unsigned integer.

The first two rest on a lemma per type that says which values a coercion can
return (`CoercedInRange`). `MappedValuesAlwaysEncode` below carries the first to whole
fields: after defaults, enum inference, value maps and arrays.

`MapperCacheProofs` proves, for any terms, documents, configurations, slot orders and
bounds (`TermsAssumption`, `IndexAssumption`, `InputsAssumption`):

- `CacheInvariant`;
- `CacheNeverShows`: `CacheTransparent`, every field has the value it would have
  without a path cache.

The argument. `CacheTransparent` compares two values and says nothing of the cache.
What carries it is `Fits`: each filled slot holds what its prefix evaluates to in
the document at hand (in a flat one, what its dotted key holds). A path has slots
only in front of its first wildcard (`CachedPath`), where a prefix has exactly one
value, so whoever fills the slot fills in the same; past a wildcard the evaluation
is the uncached one whatever the cache (`WildcardUncached`). `NestedEvaluation` walks
a path from its last segment to its first: with a fitting cache it gives what
`EvaluateUncached` gives and leaves a fitting cache, also when a slot answers for
several segments or holds nil. The rest of the module carries this through
everything that reads paths (coalesced paths, picks, conditions and infer rules, the
fan-out of arrays), as a relation between two folds that run side by side
(`FoldsRelated` of `FoldLemmas`): `FieldAgrees`. `MappingsAre` shows that what the
compiler makes, whatever the order of the root slots, differs from the plain fields
in slots only, and `PreloadFits` that the preloaded slots hold the root keys' values.

`MapperValueProofs` and `MapperEncodeProofs` prove, from the assumptions named so far:

- `FanOutAgreesWithEvaluation`: `WildcardFastPathAgrees`, an array coerced while its
  wildcard fans out is the array of the general path;
- `ParallelArraysStayAligned`: `ParallelArraysAligned`, the arrays of one nested
  column are as long as the list they fan out from;
- `MappedValuesAlwaysEncode`: `MappedValuesEncode`, every value a call keeps is one
  its column's encoder takes. A number no float holds is never kept: `RaiseInField`
  ends the call, and `RowAlwaysWritten` says when that may happen.

The argument. `CallsProgress` is what a call knows halfway: its mapping is one the
compiler made, and there is one value per field done. With `CacheNeverShows` the
value mapped last is what its field, as compiled and without slots, maps to
(`MappedField`). `FieldIsSettled` says what compiling leaves a field with: an array's
default is a scalar or an empty list, and a field with one path has no options that
refuse a value; this is why defaulting after the fan-out, which the fast path
skips, has nothing to do. `FanOutValue` is the evaluation up to the first wildcard and
from it on as one list, and `CoercedUpTo` counts what a list of elements leaves.

`MappedValuesEncode` is not inductive, since it speaks of one value and a field may
take the output of any earlier one (`EarlierOutput`: from_output always points
backwards). The invariant is `ValuesFit`: every value of the call is *sound* and fits
its field (`ValueFits`). Soundness is what the mapper needs of its own intermediate
values, which are not terms of the event: lists of results, flattened and elevated
maps, strings made of numbers. Without induction over data it is stated as a closed
set: a value is sound if it is in some set of well-formed terms that has the parts of
its members (`Closed`), and containers of sound values are sound since such sets can
be joined (`SoundTogether`). Each stage of the pipeline then leads from sound values to
sound values, in the order of the code: evaluating paths, picking, excluding and
elevating, flattening, stringifying, enum inference and defaults, coercing.

Only model-checked: all liveness (`CompletedRowIsTaken`, the three of
`queue_producer_live`, `AckedIsShipped`: liveness under fairness is outside the
prover's reach); and of `MapperProperties` the type invariant, `FlatKeysAgree`,
`ElevatePrecedence`, `ElevationsAgree`, `RowReadsBack`, `RowAlwaysWritten` and
`NdjsonAgrees`. Induction theorems
that take a predicate as a parameter cannot be
instantiated by the installed provers; where a least or greatest number was needed
(`TakeCount`), it comes from the well-foundedness of the naturals stated over sets,
and inductions are on sets of numbers (`NatInduct`).

## 5. Not modelled, and why

- Data outside the mapper: framing, LQL, SQL, HTTP bodies. Their outcomes appear
  as choices (decodable or not, insert succeeds or fails).
- In the mapper: floats other than multiples of one half and their rounding;
  non-UTF-8 strings, map keys that are no binaries and improper
  lists (event bodies are decoded JSON), the text of errors, the bytes inside a
  cell, and the Elixir builders of configurations.
- In the write path: `truncate/2`; the `:mem` mode, where `Cloud.commit_async`
  answers through task messages; grouping of appends and decoding of the log,
  both of the DurableBuffer library, so a torn entry after a failed write is
  either in the file or not; `fsync: false` and the durability of directory
  entries; a spool with no queue (`queue_ref` nil). Workers of a dead owner that
  have finished stay alive for good in the code; the model reuses their slots.
- I/O calls: a queue or storage call succeeds, fails, raises, or succeeds while
  reporting failure.
- `pop_pending/2` and the non-id-passing adaptors: a popped event is gone from
  the queue whatever happens, so there is no protocol after the pop.
- The recent-events table, telemetry, caches of statistics.
- A leak in the safe direction: seeding may overwrite a pointer whose unit is
  then never acked. It only delays the ack until the sweep, and is why
  `NoOverRelease` is an inequality.

## 6. Plan

Done, in this order: `AtLeastOnce`, `SpoolAck` and its proofs, `QueueProducer`,
`IngestEventQueue`; the mapper and its proofs; `RotatingWal` and its proofs.

Next, most important first:

1. `ShutdownDrain`: its own steps composed with a producer and a queue: three
   counts read one after another, a producer restarted during the drain, the
   deadline that nacks.
2. `BufferProducer`: demand, the in-flight cap, the exit handlers that move what
   is left to the startup queue; with `GenerationJanitor`'s pruning of keys that
   come back to life, and the Coordinator's crash with its timers lost.
3. The `:mem` mode of the write path: completions and `:DOWN` of upload tasks
   against the partition's in-flight credit.
4. BigQuery's retry (delete the body and add the event again) as a variant of
   `Requeue`; `pop_pending` as a variant of `Claim`.
5. `CircuitBreaker`; later the context caches.

Proofs left: the mapper's other invariants. For the other components every safety
property of the runs is a theorem; a composition of `QueueProducer` and `SpoolAck`
would be the next one to state.
