-------------------------- MODULE IngestEventQueue --------------------------
(***************************************************************************)
(* Backends.IngestEventQueue for one queues_key whose pipelines pass ids   *)
(* (ClickHouse): pointer tables, one per pipeline plus a startup queue, in *)
(* front of a generational store of event bodies; with the processes that  *)
(* use it: writers, BufferProducers and their batchers, DynamicPipeline's  *)
(* Coordinator, GenerationJanitor and QueueJanitor.                        *)
(*                                                                         *)
(* Every table is public and every process calls ETS directly, so a step   *)
(* here is one ETS call, or several that touch nothing another process     *)
(* can see in between.  A Ref is a make_ref() of the code: the key of one  *)
(* body in one generation, and the identity of the pointer row naming it.  *)
(*                                                                         *)
(* count is SpoolAck's counter per handle.  The one unit it starts with    *)
(* for each batch is the segment the batch came from, which Broadway acks  *)
(* after the dispatch.                                                     *)
(***************************************************************************)
EXTENDS Integers, Sequences, FiniteSets

CONSTANTS
  Pipeline,     \* pids of BufferProducers; a pid is never reused
  Startup,      \* the startup queue, {_, _, nil}
  HasStartup,   \* whether anything called upsert_tid for it
  Writer,       \* dispatching processes, each with one batch to add
  batchOf,      \* [Writer -> Seq(event)], none empty; no event is in two batches
  idOf,         \* [event -> id]: ids may collide
  handleOf,     \* [Writer -> handle]: spool_handle of the batch's events
  None,         \* no ref, no queue
  QueueLimit,   \* max_queue_size
  RunawaySize,  \* QueueJanitor's max
  SeedLimit,    \* option :max_in_flight of a new producer
  MaxRetries,   \* @max_retries of the pipeline
  Collisions,   \* @requeue_pointer_collision_retries
  Happens,      \* bound: which of Disturbances happen
  MaxGen,       \* bound: generations
  MaxRefs       \* bound: insertions

\* "stall": a writer or a starting producer takes longer over one batch than
\* @finish_removal_delay_ms or max_age_ms.
Disturbances == {"failed insert", "producer crash", "processor crash", "stall",
                 "scale down", "runaway queue"}

Events(w) == {batchOf[w][i] : i \in DOMAIN batchOf[w]}

ASSUME ConstantsAssumption ==
  /\ Startup \notin Pipeline /\ None \notin Pipeline \cup {Startup} \cup 1..MaxRefs
  /\ HasStartup \in BOOLEAN /\ Happens \subseteq Disturbances
  /\ IsFiniteSet(Writer) /\ DOMAIN batchOf = Writer /\ DOMAIN handleOf = Writer
  /\ \A w \in Writer : batchOf[w] \in Seq(Events(w)) /\ batchOf[w] # <<>>
  /\ \A v, w \in Writer : v # w => Events(v) \cap Events(w) = {}
  /\ \A n \in {QueueLimit, RunawaySize, SeedLimit, MaxRetries, Collisions, MaxGen, MaxRefs} : n \in Nat
  /\ MaxGen > 0

VARIABLES
  gens,       \* live generations
  cur,        \* the current one
  body,       \* refs whose row is in the generation store
  meta,       \* Seq of what each ref's pointer says: [event, gen, retries]
  status,     \* [Queue -> Status]: the mapping row and the table behind it
  rows,       \* [Queue -> SUBSET ref]: pointer rows
  writer,     \* [Writer -> progress of add_to_table]
  hand,       \* [Pipeline -> SUBSET ref]: seeds claimed in init and not reinserted
  claimed,    \* [Pipeline -> SUBSET <<ref, queue>>]: pointers popped and not acked
  resolved,   \* claimed refs whose payload a processor holds
  req,        \* [Pipeline -> progress of requeue_payload]
  mover,      \* progress of the Coordinator's move
  count,      \* [handle -> Int]: SpoolAck's counters
  processed,  \* events acked after a successful insert
  lost        \* history: <<event, why>>

vars == <<gens, cur, body, meta, status, rows, writer, hand, claimed, resolved, req, mover,
          count, processed, lost>>

Queue == Pipeline \cup {Startup}

\* "unmapped" is the gap inside mark_draining.
Status == {"absent", "active", "unmapped", "draining", "dead"}

Event == UNION {Events(w) : w \in Writer}
Handle == {handleOf[w] : w \in Writer}
Handles(e) == handleOf[CHOOSE w \in Writer : e \in Events(w)]

EventOf(r) == meta[r].event
HandleOf(r) == Handles(EventOf(r))
SameId(r, S) == {s \in S : idOf[EventOf(s)] = idOf[EventOf(r)]}

\* The table exists.
Alive(q) == status[q] \in {"active", "unmapped", "draining"}
\* get_tid/1 finds it.
Mapped(q) == status[q] \in {"active", "draining"}

Idle == [pc |-> "idle", old |-> None, new |-> None, target |-> None, todo |-> {}, seen |-> None,
         tries |-> 0, why |-> "requeued"]
AtRest == [from |-> None, to |-> None, todo |-> {}, held |-> None, cleared |-> FALSE]

\* A new ref for the event e, in the current generation.
Fresh == Len(meta) + 1
NewRef(e, g, retries) ==
  /\ Len(meta) < MaxRefs
  /\ meta' = Append(meta, [event |-> e, gen |-> g, retries |-> retries])

Bump(h, n) == count' = [count EXCEPT ![h] = @ + n]
AckEach(R) == count' = [h \in Handle |-> count[h] - Cardinality({r \in R : HandleOf(r) = h})]
AckN(h, n) == count' = [count EXCEPT ![h] = @ - n]
Lose(E, why) == lost' = lost \cup (E \X {why})

-----------------------------------------------------------------------------
(* Writers: add_to_table/3 by queues_key, and insert_pointer_batch/3. *)

store == <<gens, cur, body, meta>>
consumers == <<hand, claimed, resolved, req>>

Batch(w) == batchOf[w]
Rest(w) == {Batch(w)[i] : i \in writer[w].next .. Len(Batch(w))}

\* Mutant of Eligible: routes to draining queues as well.
EligibleDraining ==
  {p \in Pipeline : status[p] \in {"active", "draining"} /\ Cardinality(rows[p]) < QueueLimit}

Eligible == {p \in Pipeline : status[p] = "active" /\ Cardinality(rows[p]) < QueueLimit}

\* Mutant of Pick: no startup queue to fall back on.
PickNoStartup(w) ==
  /\ writer[w].pc = "pick"
  /\ \/ /\ \E q \in Eligible : writer' = [writer EXCEPT ![w].pc = "reserve", ![w].target = q]
        /\ UNCHANGED lost
     \/ /\ Eligible = {}
        /\ writer' = [writer EXCEPT ![w].pc = "finish"]
        /\ Lose(Rest(w), "refused")
  /\ UNCHANGED <<store, status, rows, consumers, mover, count, processed>>

\* An active queue that is not full, else the startup queue; with neither the
\* batch is refused, and no caller looks at {:error, :not_initialized}.
Pick(w) ==
  /\ writer[w].pc = "pick"
  /\ LET targets == IF Eligible # {} THEN Eligible ELSE {q \in {Startup} : Mapped(q)} IN
       \/ /\ \E q \in targets : writer' = [writer EXCEPT ![w].pc = "reserve", ![w].target = q]
          /\ UNCHANGED lost
       \/ /\ targets = {}
          /\ writer' = [writer EXCEPT ![w].pc = "finish"]
          /\ Lose(Rest(w), "refused")
  /\ UNCHANGED <<store, status, rows, consumers, mover, count, processed>>

\* The generation is read once, and the whole batch bumped for.
Reserve(w) ==
  /\ writer[w].pc = "reserve"
  /\ writer' = [writer EXCEPT ![w].pc = "body", ![w].gen = cur]
  /\ Bump(handleOf[w], Len(Batch(w)))
  /\ UNCHANGED <<store, status, rows, consumers, mover, processed, lost>>

InsertBody(w) ==
  /\ writer[w].pc = "body"
  /\ writer[w].gen \in gens
  /\ NewRef(Batch(w)[writer[w].next], writer[w].gen, 0)
  /\ body' = body \cup {Fresh}
  /\ writer' = [writer EXCEPT ![w].pc = "pointer", ![w].ref = Fresh]
  /\ UNCHANGED <<gens, cur, status, rows, consumers, mover, count, processed, lost>>

\* On to the next event of the batch, or done.
NextRow(w) ==
  LET next == writer[w].next + 1 IN
  writer' = [writer EXCEPT ![w].next = next, ![w].ref = None,
                           ![w].pc = IF next > Len(Batch(w)) THEN "finish" ELSE "body"]

\* An ETS call on the generation or the queue raises ArgumentError: a body or a
\* pointer to insert, or the body of a rejected pointer to delete.
Raises(w) ==
  LET q == writer[w].target IN
    \/ writer[w].pc = "body" /\ writer[w].gen \notin gens
    \/ /\ writer[w].pc = "pointer"
       /\ ~Alive(q) \/ (writer[w].gen \notin gens /\ SameId(writer[w].ref, rows[q]) # {})

\* Mutant of InsertPointer: insert, not insert_new.
InsertPointerOverwrites(w) ==
  /\ writer[w].pc = "pointer" /\ ~Raises(w)
  /\ LET r == writer[w].ref
         q == writer[w].target
     IN  rows' = [rows EXCEPT ![q] = (@ \ SameId(r, @)) \cup {r}]
  /\ NextRow(w)
  /\ UNCHANGED <<store, status, consumers, mover, count, processed, lost>>

\* insert_new: a pointer with the same event id wins, and this insertion is undone.
InsertPointer(w) ==
  /\ writer[w].pc = "pointer" /\ ~Raises(w)
  /\ LET r == writer[w].ref
         q == writer[w].target
     IN  IF SameId(r, rows[q]) = {}
           THEN /\ rows' = [rows EXCEPT ![q] = @ \cup {r}]
                /\ UNCHANGED <<body, count, lost>>
           ELSE /\ body' = body \ {r}
                /\ AckN(HandleOf(r), 1)
                /\ Lose({EventOf(r)}, "duplicate")
                /\ UNCHANGED rows
  /\ NextRow(w)
  /\ UNCHANGED <<gens, cur, meta, status, consumers, mover, processed>>

\* Mutant of Abort: acks the whole batch, whatever was inserted before.
AbortAcksAll(w) ==
  /\ Raises(w)
  /\ body' = body \ {writer[w].ref}
  /\ AckN(handleOf[w], Len(Batch(w)))
  /\ IF writer[w].target # Startup /\ Mapped(Startup)
       THEN /\ writer' = [writer EXCEPT ![w].pc = "reserve", ![w].target = Startup, ![w].next = 1,
                                        ![w].ref = None]
            /\ UNCHANGED lost
       ELSE /\ writer' = [writer EXCEPT ![w].pc = "finish", ![w].ref = None]
            /\ Lose(Rest(w), "refused")
  /\ UNCHANGED <<gens, cur, meta, status, rows, consumers, mover, processed>>

\* Mutant of Abort: the startup queue gets what comes after the row that failed.
AbortSkipsFailed(w) ==
  /\ Raises(w)
  /\ body' = body \ {writer[w].ref}
  /\ AckN(handleOf[w], Len(Batch(w)) - writer[w].next + 1)
  /\ IF writer[w].target # Startup /\ Mapped(Startup) /\ writer[w].next < Len(Batch(w))
       THEN /\ writer' = [writer EXCEPT ![w].pc = "reserve", ![w].target = Startup, ![w].next = @ + 1,
                                        ![w].ref = None]
            /\ UNCHANGED lost
       ELSE /\ writer' = [writer EXCEPT ![w].pc = "finish", ![w].ref = None]
            /\ Lose(Rest(w), "refused")
  /\ UNCHANGED <<gens, cur, meta, status, rows, consumers, mover, processed>>

\* ArgumentError, the generation or the queue is gone: what was reserved for this
\* row and the rest is acked, and the whole batch starts over at the startup
\* queue, unless that is where it failed.
Abort(w) ==
  /\ Raises(w)
  /\ body' = body \ {writer[w].ref}
  /\ AckN(handleOf[w], Len(Batch(w)) - writer[w].next + 1)
  /\ IF writer[w].target # Startup /\ Mapped(Startup)
       THEN /\ writer' = [writer EXCEPT ![w].pc = "reserve", ![w].target = Startup, ![w].next = 1,
                                        ![w].ref = None]
            /\ UNCHANGED lost
       ELSE /\ writer' = [writer EXCEPT ![w].pc = "finish", ![w].ref = None]
            /\ Lose(Rest(w), "refused")
  /\ UNCHANGED <<gens, cur, meta, status, rows, consumers, mover, processed>>

\* Broadway acks the segment the batch came from.
Finish(w) ==
  /\ writer[w].pc = "finish"
  /\ writer' = [writer EXCEPT ![w].pc = "done"]
  /\ AckN(handleOf[w], 1)
  /\ UNCHANGED <<store, status, rows, consumers, mover, processed, lost>>

WriterStep(w) ==
  Pick(w) \/ Reserve(w) \/ InsertBody(w) \/ InsertPointer(w) \/ Abort(w) \/ Finish(w)

-----------------------------------------------------------------------------
(* BufferProducer: its table, its seeds and its claims. *)

\* init: upsert_tid, then up to SeedLimit pointers claimed from the startup queue.
\* What may come to that queue between the two is left to Claim.
Start(p) ==
  /\ status[p] = "absent"
  /\ status' = [status EXCEPT ![p] = "active"]
  /\ \E S \in SUBSET rows[Startup] :
       /\ Cardinality(S) <= SeedLimit
       /\ hand' = [hand EXCEPT ![p] = S]
       /\ rows' = [rows EXCEPT ![Startup] = @ \ S]
  /\ UNCHANGED <<store, writer, claimed, resolved, req, mover, count, processed, lost>>

\* reinsert_pointer/1 overwrites a row with the same id, whose unit is never acked.
SeedPut(p, r) ==
  /\ r \in hand[p] /\ Alive(p)
  /\ LET same == SameId(r, rows[p]) IN
       /\ rows' = [rows EXCEPT ![p] = (@ \ same) \cup {r}]
       /\ Lose({EventOf(s) : s \in same}, "overwritten")
  /\ hand' = [hand EXCEPT ![p] = @ \ {r}]
  /\ UNCHANGED <<store, status, writer, claimed, resolved, req, mover, count, processed>>

\* Mutant of Claim: a lookup and a later delete in place of the take.
ClaimLooksUp(p, q, r) ==
  /\ Alive(p) /\ hand[p] = {}
  /\ q \in {p, Startup} /\ Mapped(q) /\ r \in rows[q]
  /\ claimed' = [claimed EXCEPT ![p] = @ \cup {<<r, q>>}]
  /\ UNCHANGED <<store, status, rows, writer, hand, resolved, req, mover, count, processed, lost>>

\* One :ets.take of pop_pending_pointers/2, on its own queue or the startup queue.
Claim(p, q, r) ==
  /\ Alive(p) /\ hand[p] = {}
  /\ q \in {p, Startup} /\ Mapped(q) /\ r \in rows[q]
  /\ rows' = [rows EXCEPT ![q] = @ \ {r}]
  /\ claimed' = [claimed EXCEPT ![p] = @ \cup {<<r, q>>}]
  /\ UNCHANGED <<store, status, writer, hand, resolved, req, mover, count, processed, lost>>

\* The producer is killed: its table goes with it, and its seeds.
ProducerDies(p) ==
  /\ "producer crash" \in Happens /\ Alive(p)
  /\ status' = [status EXCEPT ![p] = "dead"]
  /\ rows' = [rows EXCEPT ![p] = {}]
  /\ hand' = [hand EXCEPT ![p] = {}]
  /\ Lose({EventOf(r) : r \in rows[p] \cup hand[p]}, "crash")
  /\ UNCHANGED <<store, writer, claimed, resolved, req, mover, count, processed>>

-----------------------------------------------------------------------------
(* Processors and batchers: handle_message/3 and ack/3 of the pipeline. *)

Take(p, r, q) ==
  /\ claimed' = [claimed EXCEPT ![p] = @ \ {<<r, q>>}]
  /\ resolved' = resolved \ {r}

\* handle_message finds the body and keeps its encoding.
Resolve(p, r, q) ==
  /\ <<r, q>> \in claimed[p] /\ r \in body
  /\ resolved' = resolved \cup {r}
  /\ UNCHANGED <<store, status, rows, writer, hand, claimed, req, mover, count, processed, lost>>

\* The insert succeeded.
AckInserted(p, r, q) ==
  /\ <<r, q>> \in claimed[p] /\ r \in resolved /\ req[p].old # r
  /\ body' = body \ {r}
  /\ Take(p, r, q)
  /\ AckN(HandleOf(r), 1)
  /\ processed' = processed \cup {EventOf(r)}
  /\ UNCHANGED <<gens, cur, meta, status, rows, writer, hand, req, mover, lost>>

\* drop_failed: out of retries, or the circuit breaker is open.
DropFailed(p, r, q) ==
  /\ "failed insert" \in Happens
  /\ <<r, q>> \in claimed[p] /\ req[p].old # r
  /\ body' = body \ {r}
  /\ Take(p, r, q)
  /\ AckN(HandleOf(r), 1)
  /\ Lose({EventOf(r)}, "dropped")
  /\ UNCHANGED <<gens, cur, meta, status, rows, writer, hand, req, mover, processed>>

\* :lookup_miss: the generation went before anyone looked; nothing is acked.
LookupMiss(p, r, q) ==
  /\ <<r, q>> \in claimed[p] /\ r \notin body \cup resolved /\ req[p].old # r
  /\ meta[r].retries < MaxRetries
  /\ Take(p, r, q)
  /\ Lose({EventOf(r)}, "expired")
  /\ UNCHANGED <<store, status, rows, writer, hand, req, mover, count, processed>>

\* The batcher's process is killed with everything it had claimed.
ProcessorsDie(p) ==
  /\ "processor crash" \in Happens /\ claimed[p] # {}
  /\ claimed' = [claimed EXCEPT ![p] = {}]
  /\ resolved' = resolved \ {c[1] : c \in claimed[p]}
  /\ req' = [req EXCEPT ![p] = Idle]
  /\ Lose({EventOf(c[1]) : c \in claimed[p]}, "crash")
  /\ UNCHANGED <<store, status, rows, writer, hand, mover, count, processed>>

-----------------------------------------------------------------------------
(* requeue_payload/3, for one failed pointer at a time. *)

\* Mutant of Requeue: no limit on the retries.
RequeueAlways(p, r, q) ==
  /\ "failed insert" \in Happens /\ req[p].pc = "idle"
  /\ <<r, q>> \in claimed[p] /\ r \in body \cup resolved
  /\ req' = [req EXCEPT ![p] = [Idle EXCEPT !.pc = "stage", !.old = r, !.target = q,
                                            !.todo = {c \in Queue : Mapped(c)} \ {q}]]
  /\ UNCHANGED <<store, status, rows, writer, hand, claimed, resolved, mover, count, processed, lost>>

\* The queue it came from, then the other queues, the startup queue last.
Requeue(p, r, q) ==
  /\ "failed insert" \in Happens /\ req[p].pc = "idle"
  /\ <<r, q>> \in claimed[p] /\ r \in body \cup resolved
  /\ meta[r].retries < MaxRetries
  /\ req' = [req EXCEPT ![p] = [Idle EXCEPT !.pc = "stage", !.old = r, !.target = q,
                                            !.todo = {c \in Queue : Mapped(c)} \ {q}]]
  /\ UNCHANGED <<store, status, rows, writer, hand, claimed, resolved, mover, count, processed, lost>>

\* Mutant of Stage: keeps the gen_event_id of the claimed pointer.
StageSameRef(p) ==
  /\ req[p].pc = "stage"
  /\ meta' = [meta EXCEPT ![req[p].old].retries = @ + 1]
  /\ body' = body \cup {req[p].old}
  /\ Bump(HandleOf(req[p].old), 1)
  /\ req' = [req EXCEPT ![p].pc = "publish", ![p].new = req[p].old, ![p].tries = Collisions]
  /\ UNCHANGED <<gens, cur, status, rows, writer, hand, claimed, resolved, mover, processed, lost>>

\* stage_and_publish_requeued_payload: the payload first, into the generation that
\* is current (asked for once more, if it went between), then the bump.
Stage(p) ==
  /\ req[p].pc = "stage"
  /\ LET old == req[p].old IN
       /\ NewRef(EventOf(old), cur, meta[old].retries + 1)
       /\ body' = body \cup {Fresh}
       /\ Bump(HandleOf(old), 1)
  /\ req' = [req EXCEPT ![p].pc = "publish", ![p].new = Fresh, ![p].tries = Collisions]
  /\ UNCHANGED <<gens, cur, status, rows, writer, hand, claimed, resolved, mover, processed, lost>>

\* The staged row and its unit are taken back.
Unstage(p) ==
  /\ body' = body \ {req[p].new}
  /\ AckN(HandleOf(req[p].new), 1)

\* Mutant of NextCandidate: a queue that is gone counts as published.
NextCandidateIsDone(p) ==
  /\ Unstage(p)
  /\ req' = [req EXCEPT ![p].pc = "close", ![p].new = None]
  /\ UNCHANGED rows

\* The destination is gone: the next one, or none is left.
NextCandidate(p) ==
  /\ Unstage(p)
  /\ LET live == req[p].todo \cap Pipeline
         next == IF live # {} THEN live ELSE req[p].todo
     IN  IF next = {}
           THEN req' = [req EXCEPT ![p].pc = "close", ![p].new = None, ![p].why = "no queue"]
           ELSE \E q \in next :
                  req' = [req EXCEPT ![p].pc = "stage", ![p].new = None, ![p].target = q,
                                     ![p].todo = @ \ {q}]
  /\ UNCHANGED rows

\* A pointer with the same id stays.
GiveUp(p) ==
  /\ Unstage(p)
  /\ req' = [req EXCEPT ![p].pc = "close", ![p].new = None, ![p].why = "duplicate"]
  /\ UNCHANGED rows

\* insert_new_pointer/1
Publish(p) ==
  /\ req[p].pc = "publish"
  /\ LET q == req[p].target IN
       \/ ~Alive(q) /\ NextCandidate(p)
       \/ /\ Alive(q) /\ SameId(req[p].new, rows[q]) = {}
          /\ rows' = [rows EXCEPT ![q] = @ \cup {req[p].new}]
          /\ req' = [req EXCEPT ![p].pc = "close", ![p].new = None]
          /\ UNCHANGED <<body, count>>
       \/ /\ Alive(q) /\ SameId(req[p].new, rows[q]) # {} /\ req[p].tries > 0
          /\ req' = [req EXCEPT ![p].pc = "inspect"]
          /\ UNCHANGED <<body, count, rows>>
       \/ Alive(q) /\ SameId(req[p].new, rows[q]) # {} /\ req[p].tries = 0 /\ GiveUp(p)
  /\ UNCHANGED <<gens, cur, meta, status, writer, hand, claimed, resolved, mover, processed, lost>>

\* remove_dangling_pointer/2: is the payload of the pointer in the way still there?
Inspect(p) ==
  /\ req[p].pc = "inspect"
  /\ LET q == req[p].target
         same == SameId(req[p].new, rows[q])
     IN  \/ ~Alive(q) /\ NextCandidate(p)
         \/ /\ Alive(q) /\ same = {}
            /\ req' = [req EXCEPT ![p].pc = "publish", ![p].tries = @ - 1]
            /\ UNCHANGED <<body, count, rows>>
         \/ Alive(q) /\ same \cap body # {} /\ GiveUp(p)
         \/ /\ Alive(q) /\ same \cap body = {}
            /\ \E s \in same : req' = [req EXCEPT ![p].pc = "reclaim", ![p].seen = s]
            /\ UNCHANGED <<body, count, rows>>
  /\ UNCHANGED <<gens, cur, meta, status, writer, hand, claimed, resolved, mover, processed, lost>>

\* Mutant of Reclaim: acks the dangling pointer whether or not its delete won.
ReclaimAcksAlways(p) ==
  /\ req[p].pc = "reclaim"
  /\ LET q == req[p].target
         s == req[p].seen
     IN  \/ /\ ~Alive(q) /\ NextCandidate(p)
            /\ UNCHANGED lost
         \/ /\ Alive(q)
            /\ req' = [req EXCEPT ![p].pc = "publish", ![p].tries = @ - 1, ![p].seen = None]
            /\ rows' = [rows EXCEPT ![q] = @ \ {s}]
            /\ AckN(HandleOf(s), 1)
            /\ Lose({EventOf(s)} \cap {EventOf(r) : r \in rows[q]}, "expired")
            /\ UNCHANGED body
  /\ UNCHANGED <<gens, cur, meta, status, writer, hand, claimed, resolved, mover, processed>>

\* reclaim_dangling_pointer/3 deletes exactly the row it saw, if it is still there.
Reclaim(p) ==
  /\ req[p].pc = "reclaim"
  /\ LET q == req[p].target
         s == req[p].seen
     IN  \/ /\ ~Alive(q) /\ NextCandidate(p)
            /\ UNCHANGED lost
         \/ /\ Alive(q)
            /\ req' = [req EXCEPT ![p].pc = "publish", ![p].tries = @ - 1, ![p].seen = None]
            /\ IF s \in rows[q]
                 THEN /\ rows' = [rows EXCEPT ![q] = @ \ {s}]
                      /\ AckN(HandleOf(s), 1)
                      /\ Lose({EventOf(s)}, "expired")
                 ELSE UNCHANGED <<rows, count, lost>>
            /\ UNCHANGED body
  /\ UNCHANGED <<gens, cur, meta, status, writer, hand, claimed, resolved, mover, processed>>

\* Whatever came of it, the claimed pointer is done: its row and its unit go.
Close(p) ==
  /\ req[p].pc = "close"
  /\ LET old == req[p].old IN
       /\ body' = body \ {old}
       /\ AckN(HandleOf(old), 1)
       /\ claimed' = [claimed EXCEPT ![p] = {c \in @ : c[1] # old}]
       /\ resolved' = resolved \ {old}
       /\ IF req[p].why = "requeued" THEN UNCHANGED lost ELSE Lose({EventOf(old)}, req[p].why)
  /\ req' = [req EXCEPT ![p] = Idle]
  /\ UNCHANGED <<gens, cur, meta, status, rows, writer, hand, mover, processed>>

RequeueStep(p) == Stage(p) \/ Publish(p) \/ Inspect(p) \/ Reclaim(p) \/ Close(p)

-----------------------------------------------------------------------------
(* DynamicPipeline: taking a pipeline out. *)

others == <<store, writer, consumers, processed>>

\* mark_draining/1 is delete_object, then insert.  A replacement is started before,
\* and with min_pipelines at least one is left when the count goes down.
Unmap(p) ==
  /\ "scale down" \in Happens /\ status[p] = "active"
  /\ \E s \in Pipeline \ {p} : status[s] = "active"
  /\ status' = [status EXCEPT ![p] = "unmapped"]
  /\ UNCHANGED <<others, rows, mover, count, lost>>

Remap(p) ==
  /\ status[p] = "unmapped"
  /\ status' = [status EXCEPT ![p] = "draining"]
  /\ UNCHANGED <<others, rows, mover, count, lost>>

Inserting(w) == writer[w].pc \in {"reserve", "body", "pointer"}

\* finish_remove_pipeline/3 picks a survivor; move/2 then walks the ids that are
\* in the table.  It runs @finish_removal_delay_ms after the mark.
BeginMove(p) ==
  /\ status[p] = "draining" /\ mover = AtRest
  /\ "stall" \notin Happens =>
       hand[p] = {} /\ \A w \in Writer : ~(Inserting(w) /\ writer[w].target = p)
  /\ LET live == {s \in Pipeline \ {p} : Mapped(s)}
         survivors == IF live # {} THEN live ELSE {q \in {Startup} : Mapped(q)}
     IN  IF survivors = {} THEN mover' = [AtRest EXCEPT !.from = p]
         ELSE \E s \in survivors :
                mover' = [AtRest EXCEPT !.from = p, !.to = s, !.todo = {EventOf(r) : r \in rows[p]}]
  /\ UNCHANGED <<others, status, rows, count, lost>>

\* The walk of :ets.foldl comes to a row that was there when it began; it may or
\* may not come to one inserted since.
Visits(e) ==
  /\ mover.to # None /\ mover.held = None
  /\ e \in mover.todo \cup {EventOf(r) : r \in rows[mover.from]}

\* Mutant of MoveTake: copies the row and leaves the original for later.
MoveTakeCopies(e) ==
  /\ Visits(e)
  /\ LET here == {r \in rows[mover.from] : idOf[EventOf(r)] = idOf[e]} IN
       IF here = {} THEN mover' = [mover EXCEPT !.todo = @ \ {e}]
       ELSE \E r \in here : mover' = [mover EXCEPT !.todo = @ \ {e}, !.held = r]
  /\ UNCHANGED <<others, status, rows, count, lost>>

\* :ets.take of the row with that id, which a claim may have won.
MoveTake(e) ==
  /\ Visits(e)
  /\ LET here == {r \in rows[mover.from] : idOf[EventOf(r)] = idOf[e]} IN
       IF here = {}
         THEN /\ mover' = [mover EXCEPT !.todo = @ \ {e}]
              /\ UNCHANGED rows
         ELSE \E r \in here :
                /\ mover' = [mover EXCEPT !.todo = @ \ {e}, !.held = r]
                /\ rows' = [rows EXCEPT ![mover.from] = @ \ {r}]
  /\ UNCHANGED <<others, status, count, lost>>

\* A call on the target table raises: the row goes down with the Coordinator.
CoordinatorDies ==
  /\ Lose({EventOf(mover.held)}, "crash")
  /\ mover' = AtRest
  /\ UNCHANGED <<rows, count>>

\* ack_conflicting_row: a row with the same id is taken out of the target.
MoveClear ==
  /\ mover.held # None /\ ~mover.cleared
  /\ LET same == SameId(mover.held, rows[mover.to]) IN
       IF Alive(mover.to)
         THEN /\ rows' = [rows EXCEPT ![mover.to] = @ \ same]
              /\ AckEach(same)
              /\ Lose({EventOf(r) : r \in same}, "duplicate")
              /\ mover' = [mover EXCEPT !.cleared = TRUE]
         ELSE CoordinatorDies
  /\ UNCHANGED <<others, status>>

\* The insert, which overwrites a row with the same id that came since; its unit
\* is never acked.
MovePut ==
  /\ mover.cleared
  /\ LET same == SameId(mover.held, rows[mover.to]) IN
       IF Alive(mover.to)
         THEN /\ rows' = [rows EXCEPT ![mover.to] = (@ \ same) \cup {mover.held}]
              /\ Lose({EventOf(r) : r \in same}, "overwritten")
              /\ mover' = [mover EXCEPT !.held = None, !.cleared = FALSE]
              /\ UNCHANGED count
         ELSE CoordinatorDies
  /\ UNCHANGED <<others, status>>

\* terminate_child: the Supervisor is through with starting the pipeline, Broadway
\* lets the batchers finish what was claimed, then the producer goes, and its table
\* with it.
Terminate ==
  /\ mover.from # None /\ mover.todo = {} /\ mover.held = None
  /\ hand[mover.from] = {} /\ claimed[mover.from] = {}
  /\ status' = [status EXCEPT ![mover.from] = "dead"]
  /\ rows' = [rows EXCEPT ![mover.from] = {}]
  /\ Lose({EventOf(r) : r \in rows[mover.from]}, "removed")
  /\ mover' = AtRest
  /\ UNCHANGED <<others, count>>

-----------------------------------------------------------------------------
(* The janitors. *)

\* GenerationJanitor: a fresh generation becomes current.
Rotate ==
  /\ cur < MaxGen
  /\ cur' = cur + 1
  /\ gens' = gens \cup {cur'}
  /\ UNCHANGED <<body, meta, status, rows, writer, consumers, mover, count, processed, lost>>

\* drop_generation/2 of one that is old enough, which the current one never is.
DropGeneration(g) ==
  /\ g \in gens \ {cur}
  /\ "stall" \notin Happens => \A w \in Writer : ~(Inserting(w) /\ writer[w].gen = g)
  /\ gens' = gens \ {g}
  /\ body' = {r \in body : meta[r].gen # g}
  /\ UNCHANGED <<cur, meta, status, rows, writer, consumers, mover, count, processed, lost>>

\* QueueJanitor sheds part of a runaway queue: drop_pending/2.
Shed(p) ==
  /\ "runaway queue" \in Happens
  /\ Mapped(p) /\ Cardinality(rows[p]) > RunawaySize
  /\ \E S \in SUBSET rows[p] \ {{}} :
       /\ rows' = [rows EXCEPT ![p] = @ \ S]
       /\ body' = body \ S
       /\ AckEach(S)
       /\ Lose({EventOf(r) : r \in S}, "shed")
  /\ UNCHANGED <<gens, cur, meta, status, writer, consumers, mover, processed>>

-----------------------------------------------------------------------------
Init ==
  /\ gens = {1} /\ cur = 1 /\ body = {} /\ meta = <<>>
  /\ status = [q \in Queue |-> IF q = Startup /\ HasStartup THEN "active" ELSE "absent"]
  /\ rows = [q \in Queue |-> {}]
  /\ writer = [w \in Writer |-> [pc |-> "pick", target |-> None, gen |-> 0, next |-> 1, ref |-> None]]
  /\ hand = [p \in Pipeline |-> {}]
  /\ claimed = [p \in Pipeline |-> {}] /\ resolved = {}
  /\ req = [p \in Pipeline |-> Idle]
  /\ mover = AtRest
  /\ count = [h \in Handle |-> Cardinality({w \in Writer : handleOf[w] = h})]
  /\ processed = {} /\ lost = {}

Refs == 1..Len(meta)

PointerStep(p, r, q) ==
  \/ Claim(p, q, r) \/ Resolve(p, r, q) \/ AckInserted(p, r, q) \/ DropFailed(p, r, q)
  \/ LookupMiss(p, r, q) \/ Requeue(p, r, q)

Next ==
  \/ \E w \in Writer : WriterStep(w)
  \/ \E p \in Pipeline :
       \/ Start(p) \/ ProducerDies(p) \/ ProcessorsDie(p) \/ RequeueStep(p)
       \/ Unmap(p) \/ Remap(p) \/ BeginMove(p) \/ Shed(p)
       \/ \E r \in 1..MaxRefs : SeedPut(p, r) \/ \E q \in Queue : PointerStep(p, r, q)
  \/ \E e \in Event : MoveTake(e)
  \/ MoveClear \/ MovePut \/ Terminate \/ Rotate
  \/ \E g \in 1..MaxGen : DropGeneration(g)

Spec == Init /\ [][Next]_vars

-----------------------------------------------------------------------------
(* Properties. *)

\* Types, and what ETS gives: a table of type set holds one row per event id, and
\* a table that is gone holds none.  Of the code: a pointer's retries never pass
\* @max_retries (maybe_requeue_failed/2).
TypeOK ==
  /\ cur \in gens /\ gens \subseteq 1..MaxGen
  /\ \A r \in Refs : meta[r] \in [event : Event, gen : 1..MaxGen, retries : 0..MaxRetries]
  /\ body \subseteq Refs /\ resolved \subseteq Refs
  /\ status \in [Queue -> Status]
  /\ \A q \in Queue : rows[q] \subseteq Refs /\ (~Alive(q) => rows[q] = {})
  /\ \A q \in Queue : \A r \in rows[q] : SameId(r, rows[q]) = {r}
  /\ count \in [Handle -> Int]

\* Where the pointer of a ref is: in a table, or in the hands of the one process
\* whose :ets.take won it.
Places(r) ==
  {<<"row", q>> : q \in {q \in Queue : r \in rows[q]}}
  \cup {<<"seed", p>> : p \in {p \in Pipeline : r \in hand[p]}}
  \cup {<<"claim", p>> : p \in {p \in Pipeline : \E q \in Queue : <<r, q>> \in claimed[p]}}
  \cup {<<"move", q>> : q \in {q \in Queue : mover.held = r /\ mover.from = q}}

\* A pointer is never in two places: producers seeding themselves, claims of the
\* shared startup queue, the Coordinator's move and the janitor's shedding cannot
\* both process, and ack, one pointer (move/2, fetch_own_first/4).
ExclusiveRef == \A r \in Refs : Cardinality(Places(r)) <= 1

\* A pointer that can be claimed has its event body, unless the generation the
\* body was written to has been dropped (insert_pointer_batch/3, requeue_payload/3:
\* the body goes in first, and only the owner of a ref deletes it).
PublishedHasBody ==
  \A q \in Queue : \A r \in rows[q] : meta[r].gen \in gens => r \in body

Pointers == {r \in Refs : Places(r) # {}} \cup ({req[p].new : p \in Pipeline} \ {None})

\* The units of the handle h somebody still has to ack: unfinished segments, what
\* a writer reserved, pointers in a table or in someone's hands, staged retries.
Unfinished(h) == {w \in Writer : handleOf[w] = h /\ writer[w].pc # "done"}
Unwritten(w) ==
  IF writer[w].pc \in {"body", "pointer"} THEN {w} \X (writer[w].next .. Len(Batch(w))) ELSE {}
Reserved(h) == UNION {Unwritten(w) : w \in {w \in Writer : handleOf[w] = h}}
PointersOf(h) == {r \in Pointers : HandleOf(r) = h}

Owned(h) ==
  Cardinality(Unfinished(h)) + Cardinality(Reserved(h)) + Cardinality(PointersOf(h))

\* A segment's counter is never below the units still to be acked: whatever is
\* retried, moved, deduplicated, shed or lost on the way, no unit is acked twice,
\* so the segment is not acked while one of its events may still be processed.
\* This is the discipline SpoolAck.tla assumes of the code that calls it.
NoOverRelease == \A h \in Handle : count[h] >= Owned(h)

\* Every event of a batch whose segment was acked was inserted into ClickHouse,
\* still has a pointer, or went one of the ways the code counts as a loss: no
\* sequence of retries, moves and collisions makes one vanish.
NoneVanishes ==
  \A w \in Writer : writer[w].pc = "done" =>
    \A i \in DOMAIN Batch(w) :
      LET e == Batch(w)[i] IN
        \/ e \in processed
        \/ \E r \in Pointers : EventOf(r) = e
        \/ \E l \in lost : l[1] = e

\* Removing a pipeline moves its pending events to another queue "instead of being
\* destroyed with its queue" (replace_pipelines/2).
GracefulRemovalKeepsEvents == \A e \in Event : <<e, "removed">> \notin lost

\* There is always a queue to add to: the startup queue is there "before any
\* producer/traffic exists for this queues_key" (clickhouse_adaptor.ex).
NoneRefused == \A e \in Event : <<e, "refused">> \notin lost

=============================================================================
