------------------------ MODULE IngestEventQueueProofs ------------------------
(***************************************************************************)
(* IngestEventQueue: types, where a pointer is, what becomes of its body,  *)
(* its unit and its event, for every number of pipelines, writers, events, *)
(* generations and retries, and every choice of disturbances; and that no  *)
(* unit of a segment's counter is acked twice.                             *)
(***************************************************************************)
EXTENDS IngestEventQueue, FiniteSetTheorems, TLAPS

-----------------------------------------------------------------------------
(* The inductive invariant. *)

MetaInv ==
  /\ meta \in Seq([event : Event, gen : 1..MaxGen, retries : 0..MaxRetries])
  /\ Len(meta) <= MaxRefs
  /\ \A r \in Refs : meta[r].gen <= cur

StoreInv ==
  /\ cur \in 1..MaxGen /\ cur \in gens /\ gens \subseteq 1..cur
  /\ body \subseteq Refs /\ resolved \subseteq Refs

\* The tables and what is in the producers' hands.
TablesInv ==
  /\ status \in [Queue -> Status]
  /\ rows \in [Queue -> SUBSET Refs]
  /\ \A q \in Queue : ~Alive(q) => rows[q] = {}
  /\ hand \in [Pipeline -> SUBSET Refs]
  /\ claimed \in [Pipeline -> SUBSET (Refs \X Queue)]

\* A table of type set holds one row per id.
OneRowPerId ==
  \A q \in Queue : \A r, s \in rows[q] : idOf[EventOf(r)] = idOf[EventOf(s)] => r = s

\* A writer between the insertions of one row's body and of its pointer has the
\* ref of that body, in the generation it read when it reserved.
Insertions ==
  [pc : {"pick", "reserve", "body", "pointer", "finish", "done"}, target : Queue \cup {None},
   gen : 0..MaxGen, next : Nat \ {0}, ref : Refs \cup {None}]

OneWriter(w) ==
  /\ writer[w].pc \in {"pick", "reserve"} => writer[w].next = 1
  /\ writer[w].pc \in {"reserve", "body", "pointer"} => writer[w].target \in Queue
  /\ writer[w].pc \in {"body", "pointer"} => writer[w].next <= Len(Batch(w)) /\ writer[w].gen > 0
  /\ writer[w].pc = "pointer" <=> writer[w].ref # None
  /\ writer[w].pc = "pointer" =>
       /\ EventOf(writer[w].ref) = Batch(w)[writer[w].next]
       /\ meta[writer[w].ref].gen = writer[w].gen

WriterInv == writer \in [Writer -> Insertions] /\ \A w \in Writer : OneWriter(w)

\* A pointer being requeued stays claimed by the batcher that requeues it, and the
\* staged one is for the same event.
Requeues ==
  [pc : {"idle", "stage", "publish", "inspect", "reclaim", "close"},
   old : Refs \cup {None}, new : Refs \cup {None}, target : Queue \cup {None}, todo : SUBSET Queue,
   seen : Refs \cup {None}, tries : Int, why : {"requeued", "no queue", "duplicate"}]

OneRequeue(p) ==
  /\ req[p].pc = "idle" <=> req[p].old = None
  /\ req[p].pc # "idle" =>
       /\ \E q \in Queue : <<req[p].old, q>> \in claimed[p]
       /\ req[p].target \in Queue /\ meta[req[p].old].retries < MaxRetries
  /\ req[p].new # None <=> req[p].pc \in {"publish", "inspect", "reclaim"}
  /\ req[p].new # None => EventOf(req[p].new) = EventOf(req[p].old)
  /\ req[p].pc = "reclaim" => req[p].seen # None

RequeueInv == req \in [Pipeline -> Requeues] /\ \A p \in Pipeline : OneRequeue(p)

Moves ==
  [from : Pipeline \cup {None}, to : Queue \cup {None}, todo : SUBSET Event,
   held : Refs \cup {None}, cleared : BOOLEAN]

MoverInv ==
  /\ mover \in Moves
  /\ mover.to # None => mover.from # None
  /\ mover.held # None => mover.to # None
  /\ mover.cleared => mover.held # None

CountInv == count \in [Handle -> Int]

TInv == MetaInv /\ StoreInv /\ TablesInv /\ CountInv /\ OneRowPerId /\ WriterInv /\ RequeueInv /\ MoverInv

\* The only place where the ref r is known is of the kind k, at a (and b): where
\* Places looks, with the queue it was claimed from, and in the hands of a batcher or
\* of a writer that has not published it yet.
Sits(r, k, a, b) ==
  /\ \A q \in Queue : r \in rows[q] => k = "row" /\ a = q
  /\ \A p \in Pipeline : r \in hand[p] => k = "seed" /\ a = p
  /\ \A p \in Pipeline, q \in Queue : <<r, q>> \in claimed[p] => k = "claim" /\ a = p /\ b = q
  /\ mover.held = r => k = "move"
  /\ \A p \in Pipeline : req[p].new = r => k = "staged" /\ a = p
  /\ \A w \in Writer : writer[w].ref = r => k = "written" /\ a = w

Kinds == {"row", "seed", "claim", "move", "staged", "written"}

Apart == \A r \in Refs : \E k \in Kinds, a \in Queue \cup Writer, b \in Queue : Sits(r, k, a, b)

\* Nobody has claimed r: it is in a table or on its way to one, and nobody has a
\* reason to delete its body.
Loose(r) ==
  \/ \E q \in Queue : r \in rows[q]
  \/ \E p \in Pipeline : r \in hand[p] \/ req[p].new = r
  \/ mover.held = r
  \/ \E w \in Writer : writer[w].ref = r

BodyKept == \A r \in Refs : Loose(r) /\ meta[r].gen \in gens => r \in body

\* Somebody has the pointer of r: Places, and the batcher that staged it.
Placed(r) ==
  \/ \E q \in Queue : r \in rows[q]
  \/ \E p \in Pipeline : r \in hand[p] \/ \E q \in Queue : <<r, q>> \in claimed[p]
  \/ mover.held = r
Pending(r) == Placed(r) \/ \E p \in Pipeline : req[p].new = r

\* A producer that is not there has no seeds in hand, so one that starts drops none.
NoSeedsLeft == \A p \in Pipeline : ~Alive(p) => hand[p] = {}

\* The event of r0 is accounted for without r0 or an earlier ref.
SafeAfter(e, r0) ==
  \/ e \in processed
  \/ \E l \in lost : l[1] = e
  \/ \E r \in Refs : r > r0 /\ EventOf(r) = e /\ Placed(r)

\* An event a writer is through with is accounted for; and one whose pointer was
\* requeued is so by a later ref.
Through(w, n) ==
  /\ writer[w].pc \notin {"pick", "reserve"}
  /\ writer[w].pc \in {"body", "pointer"} => n < writer[w].next

Accounted ==
  /\ \A w \in Writer : \A n \in DOMAIN Batch(w) : Through(w, n) => SafeAfter(Batch(w)[n], 0)
  /\ \A p \in Pipeline :
       /\ req[p].new # None => req[p].new > req[p].old
       /\ req[p].pc = "close" /\ req[p].why = "requeued" => SafeAfter(EventOf(req[p].old), req[p].old)

\* With the startup queue there, and no generation dropped under a writer, only a
\* producer's queue can fail one.
NeverRefused ==
  /\ status[Startup] = "active"
  /\ \A w \in Writer : writer[w].pc \in {"body", "pointer"} => writer[w].gen \in gens
  /\ NoneRefused

\* While the Coordinator moves the rows of a queue nothing is added to it, and what
\* it has not come to yet is on its list.
Draining(q) ==
  /\ status[q] \in {"draining", "dead"} /\ hand[q] = {}
  /\ \A w \in Writer : ~(Inserting(w) /\ writer[w].target = q)
  /\ mover.to # None /\ mover.to # q
  /\ \A r \in rows[q] : EventOf(r) \in mover.todo

NothingRemoved ==
  /\ status[Startup] = "active"
  /\ \A p \in Pipeline : req[p].pc = "idle"
  /\ mover.from # None => Draining(mover.from)
  /\ GracefulRemovalKeepsEvents

-----------------------------------------------------------------------------
(* Types. *)

LEMMA NoneIsNoRef ==
  ASSUME MetaInv
  PROVE  /\ None \notin Refs /\ None \notin Queue /\ Startup \in Queue /\ Pipeline \subseteq Queue
         /\ \A p \in Pipeline : p # None /\ p # Startup
         /\ Refs \subseteq Nat /\ Len(meta) \in Nat
BY ConstantsAssumption DEF MetaInv, Refs, Queue

LEMMA RefFacts ==
  ASSUME MetaInv
  PROVE  \A r \in Refs : /\ EventOf(r) \in Event /\ meta[r].gen \in 1..MaxGen
                         /\ meta[r].retries \in 0..MaxRetries
                         /\ meta[r] \in [event : Event, gen : 1..MaxGen, retries : 0..MaxRetries]
<1> DEFINE T == [event : Event, gen : 1..MaxGen, retries : 0..MaxRetries]
<1>1. meta \in Seq(T)
  BY DEF MetaInv
<1> HIDE DEF T
<1>2. \A r \in Refs : meta[r] \in T
  BY <1>1 DEF Refs
<1> QED
  BY <1>2 DEF T, EventOf

\* A new ref is one past the others, which say what they said.
LEMMA NewRefGrows ==
  ASSUME MetaInv, NEW e \in Event, NEW g \in 1..MaxGen, g <= cur, NEW n \in 0..MaxRetries,
         NewRef(e, g, n)
  PROVE  /\ meta' \in Seq([event : Event, gen : 1..MaxGen, retries : 0..MaxRetries])
         /\ Len(meta') <= MaxRefs
         /\ Refs' = Refs \cup {Fresh} /\ Fresh \notin Refs /\ Fresh \in Nat \ {0} /\ Fresh # None
         /\ \A r \in Refs : meta'[r] = meta[r] /\ r < Fresh
         /\ meta'[Fresh] = [event |-> e, gen |-> g, retries |-> n]
         /\ \A r \in Refs' : meta'[r].gen <= cur
<1> DEFINE T == [event : Event, gen : 1..MaxGen, retries : 0..MaxRetries]
<1> DEFINE new == [event |-> e, gen |-> g, retries |-> n]
<1>1. meta \in Seq(T) /\ new \in T /\ meta' = Append(meta, new) /\ Len(meta) < MaxRefs /\ Len(meta) \in Nat
  BY DEF MetaInv, NewRef
<1>2. MaxRefs \in Nat
  BY ConstantsAssumption
<1> HIDE DEF T, new
<1>3. /\ meta' \in Seq(T) /\ Len(meta') = Len(meta) + 1
      /\ \A r \in 1..Len(meta) : meta'[r] = meta[r]
      /\ meta'[Len(meta) + 1] = new
  BY <1>1
<1>4. /\ Refs' = Refs \cup {Fresh} /\ Fresh \notin Refs /\ Fresh \in Nat \ {0} /\ Fresh # None
      /\ \A r \in Refs : meta'[r] = meta[r] /\ r < Fresh
  BY <1>1, <1>2, <1>3, ConstantsAssumption DEF Refs, Fresh
<1>5. \A r \in Refs' : meta'[r].gen <= cur
  BY <1>3, <1>4 DEF MetaInv, Fresh, new
<1>6. meta'[Fresh] = new /\ meta' \in Seq(T) /\ Len(meta') <= MaxRefs
  BY <1>1, <1>2, <1>3 DEF Fresh
<1> QED
  BY <1>4, <1>5, <1>6 DEF T, new

LEMMA RequeueFacts ==
  ASSUME RequeueInv, NEW p \in Pipeline
  PROVE  /\ req[p] \in Requeues
         /\ req[p].old \in Refs \cup {None} /\ req[p].new \in Refs \cup {None}
         /\ req[p].target \in Queue \cup {None} /\ req[p].todo \subseteq Queue
         /\ req[p].seen \in Refs \cup {None} /\ req[p].tries \in Int
BY DEF RequeueInv, OneRequeue, Requeues

LEMMA WriterFacts ==
  ASSUME WriterInv, NEW w \in Writer
  PROVE  /\ writer[w] \in Insertions
         /\ writer[w].target \in Queue \cup {None} /\ writer[w].gen \in 0..MaxGen
         /\ writer[w].next \in Nat \ {0} /\ writer[w].ref \in Refs \cup {None}
BY DEF WriterInv, OneWriter, Insertions

LEMMA MoverFacts ==
  ASSUME MoverInv
  PROVE  /\ mover.from \in Pipeline \cup {None} /\ mover.to \in Queue \cup {None}
         /\ mover.todo \subseteq Event /\ mover.held \in Refs \cup {None} /\ mover.cleared \in BOOLEAN
BY DEF MoverInv, Moves

-----------------------------------------------------------------------------
(* Which actions write which variables. *)

Writing == \E w \in Writer : WriterStep(w)
Requeueing ==
  \E p \in Pipeline : ProcessorsDie(p) \/ RequeueStep(p) \/ \E q \in Queue : \E r \in 1..MaxRefs : Requeue(p, r, q)
Counting ==
  \/ \E w \in Writer : Reserve(w) \/ InsertPointer(w) \/ Abort(w) \/ Finish(w)
  \/ \E p \in Pipeline, q \in Queue, r \in 1..MaxRefs : AckInserted(p, r, q) \/ DropFailed(p, r, q)
  \/ \E p \in Pipeline : RequeueStep(p) \/ Shed(p)
  \/ MoveClear
Deleting ==
  \/ \E w \in Writer : InsertPointer(w) \/ Abort(w)
  \/ \E p \in Pipeline, q \in Queue, r \in 1..MaxRefs : AckInserted(p, r, q) \/ DropFailed(p, r, q)
  \/ \E p \in Pipeline : RequeueStep(p) \/ Shed(p)
  \/ \E g \in 1..MaxGen : DropGeneration(g)
Moving ==
  \/ \E p \in Pipeline : BeginMove(p)
  \/ \E e \in Event : MoveTake(e)
  \/ MoveClear \/ MovePut \/ Terminate
RowMoving ==
  \/ \E w \in Writer : InsertPointer(w)
  \/ \E p \in Pipeline : Start(p) \/ ProducerDies(p) \/ Publish(p) \/ Reclaim(p) \/ Shed(p)
  \/ \E p \in Pipeline, r \in 1..MaxRefs : SeedPut(p, r) \/ \E q \in Queue : Claim(p, q, r)
  \/ \E e \in Event : MoveTake(e)
  \/ MoveClear \/ MovePut \/ Terminate
Seeding == \E p \in Pipeline : Start(p) \/ ProducerDies(p) \/ \E r \in 1..MaxRefs : SeedPut(p, r)
Claiming ==
  \/ \E p \in Pipeline : ProcessorsDie(p) \/ Close(p)
  \/ \E p \in Pipeline, q \in Queue, r \in 1..MaxRefs :
       Claim(p, q, r) \/ AckInserted(p, r, q) \/ DropFailed(p, r, q) \/ LookupMiss(p, r, q)
Losing ==
  \/ \E w \in Writer : Pick(w) \/ Abort(w) \/ InsertPointer(w)
  \/ \E p \in Pipeline : ProducerDies(p) \/ ProcessorsDie(p) \/ Reclaim(p) \/ Close(p) \/ Shed(p)
  \/ \E p \in Pipeline, r \in 1..MaxRefs :
       SeedPut(p, r) \/ \E q \in Queue : DropFailed(p, r, q) \/ LookupMiss(p, r, q)
  \/ MoveClear \/ MovePut \/ Terminate

Frame ==
  /\ \/ UNCHANGED <<meta, cur, gens>>
     \/ \E w \in Writer : InsertBody(w)
     \/ \E p \in Pipeline : Stage(p)
     \/ Rotate
     \/ \E g \in 1..MaxGen : DropGeneration(g)
  /\ \/ UNCHANGED status
     \/ \E p \in Pipeline : Start(p) \/ ProducerDies(p) \/ Unmap(p) \/ Remap(p)
     \/ Terminate
  /\ UNCHANGED writer \/ Writing
  /\ UNCHANGED req \/ Requeueing
  /\ UNCHANGED mover \/ Moving
  /\ body \subseteq body' \/ Deleting
  /\ body' \subseteq body \/ (\E w \in Writer : InsertBody(w)) \/ (\E p \in Pipeline : Stage(p))
  /\ \/ resolved' \subseteq resolved
     \/ \E p \in Pipeline, q \in Queue, r \in 1..MaxRefs : Resolve(p, r, q)
  /\ UNCHANGED count \/ Counting
  /\ UNCHANGED rows \/ RowMoving
  /\ UNCHANGED hand \/ Seeding
  /\ UNCHANGED claimed \/ Claiming
  /\ UNCHANGED lost \/ Losing
  /\ processed \subseteq processed' /\ lost \subseteq lost'

LEMMA Writers ==
  ASSUME [Next]_vars
  PROVE  Frame
<1>1. ASSUME NEW w \in Writer, Pick(w) PROVE Frame
  BY <1>1 DEF Frame, Lose, Losing, Writing, WriterStep, Pick, store, consumers
<1>2. ASSUME NEW w \in Writer, Reserve(w) PROVE Frame
  BY <1>2 DEF Frame, Lose, Losing, Deleting, Counting, Writing, WriterStep, Reserve, store, consumers
<1>3. ASSUME NEW w \in Writer, InsertBody(w) PROVE Frame
  BY <1>3 DEF Frame, Lose, Losing, Writing, WriterStep, InsertBody, store, consumers
<1>4. ASSUME NEW w \in Writer, InsertPointer(w) PROVE Frame
  BY <1>4 DEF Frame, Lose, Losing, RowMoving, Deleting, Counting, Writing, WriterStep, InsertPointer, store, consumers
<1>5. ASSUME NEW w \in Writer, Abort(w) PROVE Frame
  BY <1>5 DEF Frame, Lose, Losing, Deleting, Counting, Writing, WriterStep, Abort, store, consumers
<1>6. ASSUME NEW w \in Writer, Finish(w) PROVE Frame
  BY <1>6 DEF Frame, Lose, Losing, Deleting, Counting, Writing, WriterStep, Finish, store, consumers
<1>7. ASSUME NEW p \in Pipeline, Start(p) PROVE Frame
  BY <1>7 DEF Frame, Lose, Losing, Seeding, RowMoving, Start, Take, store, consumers, others, vars
<1>8. ASSUME NEW p \in Pipeline, NEW r \in 1..MaxRefs, SeedPut(p, r) PROVE Frame
  BY <1>8 DEF Frame, Lose, Losing, Seeding, RowMoving, SeedPut, Take, store, consumers, others, vars
<1>9. ASSUME NEW p \in Pipeline, NEW q \in Queue, NEW r \in 1..MaxRefs, Claim(p, q, r) PROVE Frame
  BY <1>9 DEF Frame, Lose, Losing, Claiming, RowMoving, Claim, Take, store, consumers, others, vars
<1>10. ASSUME NEW p \in Pipeline, ProducerDies(p) PROVE Frame
  BY <1>10 DEF Frame, Lose, Losing, Seeding, RowMoving, ProducerDies, Take, store, consumers, others, vars
<1>11. ASSUME NEW p \in Pipeline, NEW q \in Queue, NEW r \in 1..MaxRefs, Resolve(p, r, q) PROVE Frame
  BY <1>11 DEF Frame, Lose, Losing, Resolve, Take, store, consumers, others, vars
<1>12. ASSUME NEW p \in Pipeline, NEW q \in Queue, NEW r \in 1..MaxRefs, AckInserted(p, r, q) PROVE Frame
  BY <1>12 DEF Frame, Lose, Losing, Claiming, Deleting, Counting, AckInserted, Take, store, consumers, others, vars
<1>13. ASSUME NEW p \in Pipeline, NEW q \in Queue, NEW r \in 1..MaxRefs, DropFailed(p, r, q) PROVE Frame
  BY <1>13 DEF Frame, Lose, Losing, Claiming, Deleting, Counting, DropFailed, Take, store, consumers, others, vars
<1>14. ASSUME NEW p \in Pipeline, NEW q \in Queue, NEW r \in 1..MaxRefs, LookupMiss(p, r, q) PROVE Frame
  BY <1>14 DEF Frame, Lose, Losing, Claiming, LookupMiss, Take, store, consumers, others, vars
<1>15. ASSUME NEW p \in Pipeline, ProcessorsDie(p) PROVE Frame
  BY <1>15 DEF Frame, Lose, Losing, Claiming, Requeueing, RequeueStep, ProcessorsDie, NextCandidate, GiveUp, Unstage, store
<1>16. ASSUME NEW p \in Pipeline, NEW q \in Queue, NEW r \in 1..MaxRefs, Requeue(p, r, q) PROVE Frame
  BY <1>16 DEF Frame, Lose, Losing, Requeueing, Requeue, store
<1>17. ASSUME NEW p \in Pipeline, Stage(p) PROVE Frame
  BY <1>17 DEF Frame, Lose, Losing, Deleting, Counting, Requeueing, RequeueStep, Stage, NextCandidate, GiveUp, Unstage, store
<1>18. ASSUME NEW p \in Pipeline, Publish(p) PROVE Frame
  BY <1>18 DEF Frame, Lose, Losing, RowMoving, Deleting, Counting, Requeueing, RequeueStep, Publish, NextCandidate, GiveUp, Unstage, store
<1>19. ASSUME NEW p \in Pipeline, Inspect(p) PROVE Frame
  BY <1>19 DEF Frame, Lose, Losing, Deleting, Counting, Requeueing, RequeueStep, Inspect, NextCandidate, GiveUp, Unstage, store
<1>20. ASSUME NEW p \in Pipeline, Reclaim(p) PROVE Frame
  BY <1>20 DEF Frame, Lose, Losing, RowMoving, Deleting, Counting, Requeueing, RequeueStep, Reclaim, NextCandidate, GiveUp, Unstage, store
<1>21. ASSUME NEW p \in Pipeline, Close(p) PROVE Frame
  BY <1>21 DEF Frame, Lose, Losing, Claiming, Deleting, Counting, Requeueing, RequeueStep, Close, NextCandidate, GiveUp, Unstage, store
<1>22. ASSUME NEW p \in Pipeline, Unmap(p) PROVE Frame
  BY <1>22 DEF Frame, Lose, Losing, Unmap, Take, store, consumers, others, vars
<1>23. ASSUME NEW p \in Pipeline, Remap(p) PROVE Frame
  BY <1>23 DEF Frame, Lose, Losing, Remap, Take, store, consumers, others, vars
<1>24. ASSUME NEW p \in Pipeline, BeginMove(p) PROVE Frame
  BY <1>24 DEF Frame, Lose, Losing, Moving, BeginMove, others, store, consumers
<1>25. ASSUME NEW e \in Event, MoveTake(e) PROVE Frame
  BY <1>25 DEF Frame, Lose, Losing, RowMoving, Moving, MoveTake, others, store, consumers
<1>26. ASSUME MoveClear PROVE Frame
  BY <1>26 DEF Frame, Lose, Losing, RowMoving, Deleting, Counting, Moving, MoveClear, CoordinatorDies, others, store, consumers
<1>27. ASSUME MovePut PROVE Frame
  BY <1>27 DEF Frame, Lose, Losing, RowMoving, Moving, CoordinatorDies, MovePut, others, store, consumers
<1>28. ASSUME Terminate PROVE Frame
  BY <1>28 DEF Frame, Lose, Losing, RowMoving, Moving, Terminate, others, store, consumers
<1>29. ASSUME Rotate PROVE Frame
  BY <1>29 DEF Frame, Lose, Losing, Rotate, Take, store, consumers, others, vars
<1>30. ASSUME NEW g \in 1..MaxGen, DropGeneration(g) PROVE Frame
  BY <1>30 DEF Frame, Lose, Losing, Deleting, DropGeneration, Take, store, consumers, others, vars
<1>31. ASSUME NEW p \in Pipeline, Shed(p) PROVE Frame
  BY <1>31 DEF Frame, Lose, Losing, RowMoving, Deleting, Counting, Shed, Take, store, consumers, others, vars
<1>32. ASSUME UNCHANGED vars PROVE Frame
  BY <1>32 DEF Frame, Lose, Losing, vars, Take, store, consumers, others, vars
<1> QED
  BY <1>1, <1>2, <1>3, <1>4, <1>5, <1>6, <1>7, <1>8, <1>9, <1>10, <1>11, <1>12, <1>13, <1>14, <1>15, <1>16, <1>17, <1>18, <1>19, <1>20, <1>21, <1>22, <1>23, <1>24, <1>25, <1>26, <1>27, <1>28, <1>29, <1>30, <1>31, <1>32 DEF Next, WriterStep, RequeueStep, PointerStep

\* The refs there were say what they said.
MetaGrows == Refs \subseteq Refs' /\ \A r \in Refs : meta'[r] = meta[r]

LEMMA InsertBodyRefs ==
  ASSUME TInv, NEW w \in Writer, InsertBody(w)
  PROVE  /\ NewRef(Batch(w)[writer[w].next], writer[w].gen, 0)
         /\ Batch(w)[writer[w].next] \in Event /\ writer[w].next \in 1..Len(Batch(w))
         /\ writer[w].gen \in 1..MaxGen /\ writer[w].gen <= cur
         /\ Refs' = Refs \cup {Fresh} /\ Fresh \notin Refs /\ Fresh # None /\ MetaInv' /\ MetaGrows
         /\ meta'[Fresh] = [event |-> Batch(w)[writer[w].next], gen |-> writer[w].gen, retries |-> 0]
<1>1. MetaInv /\ StoreInv /\ WriterInv
  BY DEF TInv
<1>2. NewRef(Batch(w)[writer[w].next], writer[w].gen, 0) /\ writer[w].pc = "body" /\ writer[w].gen \in gens
      /\ cur' = cur
  BY DEF InsertBody
<1>3. /\ writer[w].next <= Len(Batch(w)) /\ writer[w].next \in Nat \ {0}
      /\ writer[w].gen \in 1..MaxGen /\ writer[w].gen <= cur /\ cur \in 1..MaxGen
  BY <1>1, <1>2, WriterFacts, ConstantsAssumption DEF WriterInv, OneWriter, StoreInv
<1>4. Batch(w) \in Seq(Events(w))
  BY ConstantsAssumption DEF Batch
<1>5. writer[w].next \in 1..Len(Batch(w)) /\ Batch(w)[writer[w].next] \in Event
  <2>1. writer[w].next \in 1..Len(Batch(w))
    BY <1>3, <1>4
  <2>2. Batch(w)[writer[w].next] \in Events(w)
    BY <1>4, <2>1
  <2> QED
    BY <2>1, <2>2 DEF Event
<1>6. 0 \in 0..MaxRetries
  BY ConstantsAssumption
<1>7. /\ meta' \in Seq([event : Event, gen : 1..MaxGen, retries : 0..MaxRetries]) /\ Len(meta') <= MaxRefs
      /\ Refs' = Refs \cup {Fresh} /\ Fresh \notin Refs /\ Fresh # None
      /\ \A r \in Refs : meta'[r] = meta[r]
      /\ meta'[Fresh] = [event |-> Batch(w)[writer[w].next], gen |-> writer[w].gen, retries |-> 0]
      /\ \A r \in Refs' : meta'[r].gen <= cur
  BY <1>1, <1>2, <1>3, <1>5, <1>6, NewRefGrows
<1> QED
  BY <1>2, <1>3, <1>5, <1>7 DEF MetaInv, MetaGrows

LEMMA StageRefs ==
  ASSUME TInv, NEW p \in Pipeline, Stage(p)
  PROVE  /\ NewRef(EventOf(req[p].old), cur, meta[req[p].old].retries + 1)
         /\ req[p].old \in Refs /\ EventOf(req[p].old) \in Event
         /\ Refs' = Refs \cup {Fresh} /\ Fresh \notin Refs /\ Fresh # None /\ MetaInv' /\ MetaGrows
         /\ Fresh > req[p].old
         /\ meta'[Fresh] = [event |-> EventOf(req[p].old), gen |-> cur, retries |-> meta[req[p].old].retries + 1]
<1>1. MetaInv /\ StoreInv /\ RequeueInv
  BY DEF TInv
<1>2. NewRef(EventOf(req[p].old), cur, meta[req[p].old].retries + 1) /\ req[p].pc = "stage" /\ cur' = cur
  BY DEF Stage
<1>3. req[p].old \in Refs /\ meta[req[p].old].retries < MaxRetries /\ cur \in 1..MaxGen /\ cur <= cur
  <2>1. req[p].old \in Refs \cup {None} /\ req[p].old # None
    BY <1>1, <1>2, RequeueFacts DEF RequeueInv, OneRequeue
  <2>2. meta[req[p].old].retries < MaxRetries
    BY <1>1, <1>2 DEF RequeueInv, OneRequeue
  <2>3. cur \in 1..MaxGen /\ cur <= cur
    BY <1>1, ConstantsAssumption DEF StoreInv
  <2> QED
    BY <2>1, <2>2, <2>3
<1>4. EventOf(req[p].old) \in Event /\ meta[req[p].old].retries + 1 \in 0..MaxRetries
  BY <1>1, <1>3, RefFacts, ConstantsAssumption
<1>5. /\ meta' \in Seq([event : Event, gen : 1..MaxGen, retries : 0..MaxRetries]) /\ Len(meta') <= MaxRefs
      /\ Refs' = Refs \cup {Fresh} /\ Fresh \notin Refs /\ Fresh # None
      /\ \A r \in Refs : meta'[r] = meta[r] /\ r < Fresh
      /\ meta'[Fresh] = [event |-> EventOf(req[p].old), gen |-> cur, retries |-> meta[req[p].old].retries + 1]
      /\ \A r \in Refs' : meta'[r].gen <= cur
  BY <1>1, <1>2, <1>3, <1>4, NewRefGrows
<1>6. Fresh > req[p].old
  BY <1>3, <1>5, <1>1 DEF Fresh, Refs, MetaInv
<1> QED
  BY <1>2, <1>3, <1>4, <1>5, <1>6 DEF MetaInv, MetaGrows

LEMMA ResolvedAreRefs ==
  ASSUME TInv, [Next]_vars
  PROVE  resolved' \subseteq Refs
<1>1. ASSUME NEW p \in Pipeline, NEW q \in Queue, NEW r, Resolve(p, r, q) PROVE resolved' \subseteq Refs
  <2>1. claimed[p] \subseteq Refs \X Queue /\ resolved \subseteq Refs
    BY DEF TInv, TablesInv, StoreInv
  <2> QED
    BY <1>1, <2>1 DEF Resolve
<1> QED
  BY <1>1, Writers DEF Frame, TInv, StoreInv

LEMMA StoreStep ==
  ASSUME TInv, [Next]_vars
  PROVE  MetaInv' /\ StoreInv' /\ MetaGrows
<1>1. MetaInv /\ StoreInv
  BY DEF TInv
<1>2. Frame /\ resolved' \subseteq Refs
  BY Writers, ResolvedAreRefs
<1>3. ASSUME NEW w \in Writer, InsertBody(w) PROVE MetaInv' /\ StoreInv' /\ MetaGrows
  <2>1. Refs' = Refs \cup {Fresh} /\ MetaInv' /\ MetaGrows
    BY <1>3, InsertBodyRefs
  <2> QED
    BY <1>1, <1>2, <1>3, <2>1 DEF StoreInv, InsertBody
<1>4. ASSUME NEW p \in Pipeline, Stage(p) PROVE MetaInv' /\ StoreInv' /\ MetaGrows
  <2>1. Refs' = Refs \cup {Fresh} /\ MetaInv' /\ MetaGrows
    BY <1>4, StageRefs
  <2> QED
    BY <1>1, <1>2, <1>4, <2>1 DEF StoreInv, Stage
<1>5. CASE body' \subseteq body /\ UNCHANGED <<meta, cur, gens>>
  BY <1>1, <1>2, <1>5 DEF MetaInv, StoreInv, MetaGrows, Refs
<1>6. CASE Rotate
  <2>1. cur' \in 1..MaxGen /\ cur' \in gens' /\ gens' \subseteq 1..cur' /\ cur <= cur' /\ UNCHANGED <<meta, body>>
    BY <1>1, <1>6, ConstantsAssumption DEF StoreInv, Rotate
  <2>2. \A r \in Refs : meta[r].gen \in Nat /\ cur \in Nat /\ cur' \in Nat
    BY <1>1, <2>1, RefFacts, ConstantsAssumption DEF StoreInv
  <2> QED
    BY <1>1, <1>2, <2>1, <2>2 DEF MetaInv, StoreInv, MetaGrows, Refs
<1>7. ASSUME NEW g \in 1..MaxGen, DropGeneration(g) PROVE MetaInv' /\ StoreInv' /\ MetaGrows
  BY <1>1, <1>2, <1>7 DEF MetaInv, StoreInv, MetaGrows, Refs, DropGeneration
<1>8. body' \subseteq body \/ (\E w \in Writer : InsertBody(w)) \/ (\E p \in Pipeline : Stage(p))
  BY <1>2 DEF Frame
<1> QED
  BY <1>2, <1>3, <1>4, <1>5, <1>6, <1>7, <1>8 DEF Frame

LEMMA TablesStep ==
  ASSUME TInv, [Next]_vars
  PROVE  TablesInv'
<1> DEFINE Goal == /\ status' \in [Queue -> Status] /\ rows' \in [Queue -> SUBSET Refs]
                   /\ \A q \in Queue : ~Alive(q)' => rows'[q] = {}
                   /\ hand' \in [Pipeline -> SUBSET Refs]
                   /\ claimed' \in [Pipeline -> SUBSET (Refs \X Queue)]
<1>a. TablesInv /\ MetaInv /\ Pipeline \subseteq Queue /\ Startup \in Queue
  BY NoneIsNoRef DEF TInv
<1>b. \A w \in Writer : writer[w].pc = "pointer" => writer[w].ref \in Refs /\ writer[w].target \in Queue
  BY WriterFacts DEF TInv, WriterInv, OneWriter
<1>c. \A p \in Pipeline : req[p].pc \in {"publish", "inspect", "reclaim"} =>
        req[p].new \in Refs /\ req[p].target \in Queue
  BY RequeueFacts DEF TInv, RequeueInv, OneRequeue
<1>d. /\ mover.held # None => mover.held \in Refs /\ mover.to \in Queue
      /\ mover.from # None => mover.from \in Pipeline
      /\ mover.cleared => mover.held # None
  BY MoverFacts, NoneIsNoRef DEF TInv, MoverInv
<1>1. ASSUME NEW w \in Writer, Pick(w) PROVE Goal
  BY <1>1, <1>a DEF Goal, TablesInv, Pick, Alive, store, consumers, others, vars
<1>2. ASSUME NEW w \in Writer, Reserve(w) PROVE Goal
  BY <1>2, <1>a DEF Goal, TablesInv, Reserve, Alive, store, consumers, others, vars
<1>3. ASSUME NEW w \in Writer, InsertBody(w) PROVE Goal
  BY <1>3, <1>a DEF Goal, TablesInv, InsertBody, Alive, store, consumers, others, vars
<1>4. ASSUME NEW w \in Writer, InsertPointer(w) PROVE Goal
  BY <1>4, <1>a, <1>b DEF Goal, TablesInv, InsertPointer, Raises, Alive, store, consumers, others, vars
<1>5. ASSUME NEW w \in Writer, Abort(w) PROVE Goal
  BY <1>5, <1>a DEF Goal, TablesInv, Abort, Alive, store, consumers, others, vars
<1>6. ASSUME NEW w \in Writer, Finish(w) PROVE Goal
  BY <1>6, <1>a DEF Goal, TablesInv, Finish, Alive, store, consumers, others, vars
<1>7. ASSUME NEW p \in Pipeline, Start(p) PROVE Goal
  BY <1>7, <1>a DEF Goal, TablesInv, Start, Status, Alive, store, consumers, others, vars
<1>8. ASSUME NEW p \in Pipeline, NEW r \in 1..MaxRefs, SeedPut(p, r) PROVE Goal
  BY <1>8, <1>a DEF Goal, TablesInv, SeedPut, Alive, store, consumers, others, vars
<1>9. ASSUME NEW p \in Pipeline, NEW q \in Queue, NEW r \in 1..MaxRefs, Claim(p, q, r) PROVE Goal
  BY <1>9, <1>a DEF Goal, TablesInv, Claim, Alive, Mapped, store, consumers, others, vars
<1>10. ASSUME NEW p \in Pipeline, ProducerDies(p) PROVE Goal
  BY <1>10, <1>a DEF Goal, TablesInv, ProducerDies, Status, Alive, store, consumers, others, vars
<1>11. ASSUME NEW p \in Pipeline, NEW q \in Queue, NEW r \in 1..MaxRefs, Resolve(p, r, q) PROVE Goal
  BY <1>11, <1>a DEF Goal, TablesInv, Resolve, Alive, store, consumers, others, vars
<1>12. ASSUME NEW p \in Pipeline, NEW q \in Queue, NEW r \in 1..MaxRefs, AckInserted(p, r, q) PROVE Goal
  BY <1>12, <1>a DEF Goal, TablesInv, AckInserted, Take, Alive, store, consumers, others, vars
<1>13. ASSUME NEW p \in Pipeline, NEW q \in Queue, NEW r \in 1..MaxRefs, DropFailed(p, r, q) PROVE Goal
  BY <1>13, <1>a DEF Goal, TablesInv, DropFailed, Take, Alive, store, consumers, others, vars
<1>14. ASSUME NEW p \in Pipeline, NEW q \in Queue, NEW r \in 1..MaxRefs, LookupMiss(p, r, q) PROVE Goal
  BY <1>14, <1>a DEF Goal, TablesInv, LookupMiss, Take, Alive, store, consumers, others, vars
<1>15. ASSUME NEW p \in Pipeline, ProcessorsDie(p) PROVE Goal
  BY <1>15, <1>a DEF Goal, TablesInv, ProcessorsDie, Alive, store, consumers, others, vars
<1>16. ASSUME NEW p \in Pipeline, NEW q \in Queue, NEW r \in 1..MaxRefs, Requeue(p, r, q) PROVE Goal
  BY <1>16, <1>a DEF Goal, TablesInv, Requeue, Alive, store, consumers, others, vars
<1>17. ASSUME NEW p \in Pipeline, Stage(p) PROVE Goal
  BY <1>17, <1>a DEF Goal, TablesInv, Stage, Alive, store, consumers, others, vars
<1>18. ASSUME NEW p \in Pipeline, Publish(p) PROVE Goal
  <2>1. \/ UNCHANGED rows
        \/ /\ Alive(req[p].target) /\ req[p].pc = "publish"
           /\ rows' = [rows EXCEPT ![req[p].target] = @ \cup {req[p].new}]
    BY <1>18 DEF Publish, NextCandidate, GiveUp
  <2>2. UNCHANGED <<status, hand, claimed>>
    BY <1>18 DEF Publish
  <2> QED
    BY <2>1, <2>2, <1>a, <1>c DEF TablesInv, Alive
<1>19. ASSUME NEW p \in Pipeline, Inspect(p) PROVE Goal
  BY <1>19, <1>a, <1>c DEF Goal, TablesInv, Inspect, NextCandidate, GiveUp, Alive, store, consumers, others, vars
<1>20. ASSUME NEW p \in Pipeline, Reclaim(p) PROVE Goal
  <2>1. \/ UNCHANGED rows
        \/ rows' = [rows EXCEPT ![req[p].target] = @ \ {req[p].seen}] /\ Alive(req[p].target)
    BY <1>20 DEF Reclaim, NextCandidate
  <2>2. UNCHANGED <<status, hand, claimed>>
    BY <1>20 DEF Reclaim
  <2> QED
    BY <2>1, <2>2, <1>a, <1>c DEF TablesInv, Alive
<1>21. ASSUME NEW p \in Pipeline, Close(p) PROVE Goal
  BY <1>21, <1>a DEF Goal, TablesInv, Close, Alive, store, consumers, others, vars
<1>22. ASSUME NEW p \in Pipeline, Unmap(p) PROVE Goal
  BY <1>22, <1>a DEF Goal, TablesInv, Unmap, Status, Alive, store, consumers, others, vars
<1>23. ASSUME NEW p \in Pipeline, Remap(p) PROVE Goal
  BY <1>23, <1>a DEF Goal, TablesInv, Remap, Status, Alive, store, consumers, others, vars
<1>24. ASSUME NEW p \in Pipeline, BeginMove(p) PROVE Goal
  BY <1>24, <1>a DEF Goal, TablesInv, BeginMove, Alive, store, consumers, others, vars
<1>25. ASSUME NEW e \in Event, MoveTake(e) PROVE Goal
  <2>1. UNCHANGED rows \/ \E r \in Refs : rows' = [rows EXCEPT ![mover.from] = @ \ {r}]
    <3>1. Visits(e) => mover.from \in Queue
      BY <1>a, <1>d, MoverFacts, NoneIsNoRef DEF Visits, TInv, MoverInv
    <3> QED
      BY <1>25, <1>a, <3>1 DEF MoveTake, TablesInv
  <2>2. UNCHANGED <<status, hand, claimed>>
    BY <1>25 DEF MoveTake, others, consumers
  <2> QED
    BY <2>1, <2>2, <1>a DEF TablesInv, Alive
<1>26. ASSUME MoveClear PROVE Goal
  BY <1>26, <1>a, <1>d DEF Goal, TablesInv, MoveClear, CoordinatorDies, Alive, store, consumers, others, vars
<1>27. ASSUME MovePut PROVE Goal
  BY <1>27, <1>a, <1>d DEF Goal, TablesInv, MovePut, CoordinatorDies, Alive, store, consumers, others, vars
<1>28. ASSUME Terminate PROVE Goal
  BY <1>28, <1>a, <1>d DEF Goal, TablesInv, Terminate, Status, Alive, store, consumers, others, vars
<1>29. ASSUME Rotate PROVE Goal
  BY <1>29, <1>a DEF Goal, TablesInv, Rotate, Alive, store, consumers, others, vars
<1>30. ASSUME NEW g \in 1..MaxGen, DropGeneration(g) PROVE Goal
  BY <1>30, <1>a DEF Goal, TablesInv, DropGeneration, Alive, store, consumers, others, vars
<1>31. ASSUME NEW p \in Pipeline, Shed(p) PROVE Goal
  BY <1>31, <1>a DEF Goal, TablesInv, Shed, Alive, Mapped, store, consumers, others, vars
<1>32. ASSUME UNCHANGED vars PROVE Goal
  BY <1>32, <1>a DEF Goal, TablesInv, vars, Alive, store, consumers, others, vars
<1>e. Goal
  BY <1>1, <1>2, <1>3, <1>4, <1>5, <1>6, <1>7, <1>8, <1>9, <1>10, <1>11, <1>12, <1>13, <1>14, <1>15, <1>16, <1>17, <1>18, <1>19, <1>20, <1>21, <1>22, <1>23, <1>24, <1>25, <1>26, <1>27, <1>28, <1>29, <1>30, <1>31, <1>32 DEF Next, WriterStep, RequeueStep, PointerStep
<1> QED
  BY <1>e, StoreStep DEF TablesInv, MetaGrows

LEMMA RefsFinite ==
  ASSUME MetaInv, NEW S \in SUBSET Refs
  PROVE  IsFiniteSet(S) /\ Cardinality(S) \in Nat
<1>1. IsFiniteSet(Refs)
  BY NoneIsNoRef, FS_Interval DEF Refs
<1> QED
  BY <1>1, FS_Subset, FS_CardinalityType

LEMMA CountStep ==
  ASSUME TInv, [Next]_vars
  PROVE  CountInv'
<1>1. CountInv /\ MetaInv /\ TablesInv /\ WriterInv
  BY DEF TInv
<1>2. \A h : \A n \in Int : AckN(h, n) \/ Bump(h, n) => CountInv'
  <2> SUFFICES ASSUME NEW h, NEW n \in Int, AckN(h, n) \/ Bump(h, n) PROVE count' \in [Handle -> Int]
    BY DEF CountInv
  <2>1. \A x \in Handle : \/ count'[x] = IF x = h THEN count[x] - n ELSE count[x]
                          \/ count'[x] = IF x = h THEN count[x] + n ELSE count[x]
    BY <1>1 DEF CountInv, AckN, Bump
  <2>2. DOMAIN count' = Handle /\ count' = [x \in Handle |-> count'[x]]
    BY <1>1 DEF CountInv, AckN, Bump
  <2>3. \A x \in Handle : count'[x] \in Int
    BY <1>1, <2>1 DEF CountInv
  <2> QED
    BY <2>2, <2>3
<1>3. \A R \in SUBSET Refs : AckEach(R) => CountInv'
  <2> SUFFICES ASSUME NEW R \in SUBSET Refs, AckEach(R) PROVE CountInv'
    OBVIOUS
  <2>1. \A h \in Handle : Cardinality({r \in R : HandleOf(r) = h}) \in Nat
    BY <1>1, RefsFinite
  <2> QED
    BY <1>1, <2>1 DEF CountInv, AckEach
<1>4. \A w \in Writer : Len(Batch(w)) \in Nat /\ writer[w].next \in Nat
  BY <1>1, WriterFacts, ConstantsAssumption DEF Batch
<1>0. UNCHANGED count => CountInv'
  BY <1>1 DEF CountInv
<1>5. ASSUME NEW w \in Writer, Reserve(w) \/ InsertPointer(w) \/ Abort(w) \/ Finish(w) PROVE CountInv'
  <2>1. CASE Reserve(w)
    BY <1>2, <1>4, <2>1 DEF Reserve
  <2>2. CASE InsertPointer(w)
    BY <1>0, <1>2, <2>2 DEF InsertPointer
  <2>3. CASE Abort(w)
    BY <1>2, <1>4, <2>3 DEF Abort
  <2>4. CASE Finish(w)
    BY <1>2, <2>4 DEF Finish
  <2> QED
    BY <1>5, <2>1, <2>2, <2>3, <2>4
<1>6. ASSUME NEW p \in Pipeline, NEW q, NEW r, AckInserted(p, r, q) \/ DropFailed(p, r, q) PROVE CountInv'
  <2>1. AckN(HandleOf(r), 1)
    BY <1>6 DEF AckInserted, DropFailed
  <2> QED
    BY <1>2, <2>1
<1>7. ASSUME NEW p \in Pipeline, RequeueStep(p) \/ Shed(p) PROVE CountInv'
  <2>1. CASE Stage(p)
    BY <1>2, <2>1 DEF Stage
  <2>2. CASE Publish(p)
    <3>1. UNCHANGED count \/ AckN(HandleOf(req[p].new), 1)
      BY <2>2 DEF Publish, NextCandidate, GiveUp, Unstage
    <3> QED
      BY <1>0, <1>2, <3>1
  <2>3. CASE Inspect(p)
    <3>1. UNCHANGED count \/ AckN(HandleOf(req[p].new), 1)
      BY <2>3 DEF Inspect, NextCandidate, GiveUp, Unstage
    <3> QED
      BY <1>0, <1>2, <3>1
  <2>4. CASE Reclaim(p)
    <3>1. UNCHANGED count \/ AckN(HandleOf(req[p].new), 1) \/ AckN(HandleOf(req[p].seen), 1)
      BY <2>4 DEF Reclaim, NextCandidate, GiveUp, Unstage
    <3> QED
      BY <1>0, <1>2, <3>1
  <2>5. CASE Close(p)
    BY <1>2, <2>5 DEF Close
  <2>6. CASE Shed(p)
    <3>1. rows[p] \subseteq Refs
      BY <1>1, NoneIsNoRef DEF TablesInv
    <3> QED
      BY <1>3, <2>6, <3>1 DEF Shed
  <2> QED
    BY <1>7, <2>1, <2>2, <2>3, <2>4, <2>5, <2>6 DEF RequeueStep
<1>8. ASSUME MoveClear PROVE CountInv'
  <2>1. CASE CoordinatorDies
    BY <1>1, <2>1 DEF CoordinatorDies, CountInv
  <2>2. SameId(mover.held, rows[mover.to]) \subseteq Refs
    BY <1>1, <1>8, MoverFacts, NoneIsNoRef DEF MoveClear, SameId, TInv, TablesInv, MoverInv
  <2> QED
    BY <1>3, <1>8, <2>1, <2>2 DEF MoveClear
<1> QED
  BY <1>1, <1>5, <1>6, <1>7, <1>8, Writers DEF Frame, Counting, CountInv

LEMMA SubsetKeepsIds ==
  ASSUME MetaInv, TablesInv, OneRowPerId, MetaGrows, \A q \in Queue : rows'[q] \subseteq rows[q]
  PROVE  OneRowPerId'
BY DEF OneRowPerId, MetaGrows, TablesInv, EventOf

\* A row is added to a table that holds none with its id.
LEMMA AddKeepsIds ==
  ASSUME MetaInv, TablesInv, OneRowPerId, MetaGrows,
         NEW q \in Queue, NEW r \in Refs, NEW S \in SUBSET rows[q], SameId(r, S) = {},
         rows' = [rows EXCEPT ![q] = S \cup {r}]
  PROVE  OneRowPerId'
<1>1. \A s \in S : idOf[EventOf(s)] # idOf[EventOf(r)]
  BY DEF SameId
<1>2. \A s \in Queue : rows'[s] = IF s = q THEN S \cup {r} ELSE rows[s]
  BY DEF TablesInv
<1>3. \A s \in Queue : rows[s] \subseteq Refs
  BY DEF TablesInv
<1>4. \A s \in Refs : EventOf(s)' = EventOf(s)
  BY DEF MetaGrows, EventOf
<1>5. SUFFICES ASSUME NEW s \in Queue, NEW x \in rows'[s], NEW y \in rows'[s],
                      idOf[EventOf(x)'] = idOf[EventOf(y)']
               PROVE  x = y
  BY DEF OneRowPerId
<1>6. x \in Refs /\ y \in Refs /\ idOf[EventOf(x)] = idOf[EventOf(y)]
  BY <1>2, <1>3, <1>4, <1>5
<1> QED
  BY <1>1, <1>2, <1>5, <1>6 DEF OneRowPerId

LEMMA OneRowStep ==
  ASSUME TInv, [Next]_vars
  PROVE  OneRowPerId'
<1>1. MetaInv /\ TablesInv /\ OneRowPerId /\ MetaGrows /\ Pipeline \subseteq Queue /\ Startup \in Queue
  BY StoreStep, NoneIsNoRef DEF TInv
<1>2. \A q \in Queue : rows[q] \subseteq Refs
  BY <1>1 DEF TablesInv
<1>3. CASE UNCHANGED rows
  BY <1>1, <1>3, SubsetKeepsIds
<1>4. ASSUME NEW w \in Writer, InsertPointer(w) PROVE OneRowPerId'
  <2>1. writer[w].ref \in Refs /\ writer[w].target \in Queue
    BY <1>4, WriterFacts DEF TInv, WriterInv, OneWriter, InsertPointer
  <2>2. CASE UNCHANGED rows
    BY <1>3, <2>2
  <2>3. CASE SameId(writer[w].ref, rows[writer[w].target]) = {}
             /\ rows' = [rows EXCEPT ![writer[w].target] = rows[writer[w].target] \cup {writer[w].ref}]
    BY <1>1, <2>1, <2>3, AddKeepsIds
  <2> QED
    BY <1>4, <2>2, <2>3 DEF InsertPointer
<1>5. ASSUME NEW p \in Pipeline, NEW r, SeedPut(p, r) PROVE OneRowPerId'
  <2>1. r \in Refs /\ p \in Queue
    BY <1>1, <1>5 DEF SeedPut, TablesInv
  <2> DEFINE S == rows[p] \ SameId(r, rows[p])
  <2>2. rows' = [rows EXCEPT ![p] = S \cup {r}]
    BY <1>5 DEF SeedPut
  <2>3. SameId(r, S) = {}
    BY DEF SameId
  <2> HIDE DEF S
  <2>4. S \in SUBSET rows[p]
    BY DEF S
  <2> QED
    BY <1>1, <2>1, <2>2, <2>3, <2>4, AddKeepsIds
<1>6. ASSUME NEW p \in Pipeline, Publish(p) PROVE OneRowPerId'
  <2>1. req[p].new \in Refs /\ req[p].target \in Queue
    BY <1>6, RequeueFacts DEF TInv, RequeueInv, OneRequeue, Publish
  <2>2. CASE UNCHANGED rows
    BY <1>3, <2>2
  <2>3. CASE SameId(req[p].new, rows[req[p].target]) = {}
             /\ rows' = [rows EXCEPT ![req[p].target] = rows[req[p].target] \cup {req[p].new}]
    BY <1>1, <2>1, <2>3, AddKeepsIds
  <2> QED
    BY <1>6, <2>2, <2>3 DEF Publish, NextCandidate, GiveUp
<1>7. ASSUME MovePut PROVE OneRowPerId'
  <2>1. mover.held \in Refs /\ mover.to \in Queue
    BY <1>7, MoverFacts DEF TInv, MoverInv, MovePut
  <2>2. CASE UNCHANGED rows
    BY <1>3, <2>2
  <2> DEFINE S == rows[mover.to] \ SameId(mover.held, rows[mover.to])
  <2>3. UNCHANGED rows \/ rows' = [rows EXCEPT ![mover.to] = S \cup {mover.held}]
    BY <1>7 DEF MovePut, CoordinatorDies
  <2>4. SameId(mover.held, S) = {}
    BY DEF SameId
  <2> HIDE DEF S
  <2>5. S \in SUBSET rows[mover.to]
    BY DEF S
  <2> QED
    BY <1>1, <2>1, <2>2, <2>3, <2>4, <2>5, AddKeepsIds
<1>8. ASSUME NEW p \in Pipeline, Start(p) PROVE \A q \in Queue : rows'[q] \subseteq rows[q]
  BY <1>1, <1>8 DEF Start, TablesInv
<1>9. ASSUME NEW p \in Pipeline, ProducerDies(p) \/ Shed(p) PROVE \A q \in Queue : rows'[q] \subseteq rows[q]
  BY <1>1, <1>9 DEF ProducerDies, Shed, TablesInv
<1>10. ASSUME NEW p \in Pipeline, Reclaim(p) PROVE \A q \in Queue : rows'[q] \subseteq rows[q]
  <2>1. UNCHANGED rows \/ rows' = [rows EXCEPT ![req[p].target] = @ \ {req[p].seen}]
    BY <1>10 DEF Reclaim, NextCandidate
  <2> QED
    BY <1>1, <2>1 DEF TablesInv
<1>11. ASSUME NEW p \in Pipeline, NEW q \in Queue, NEW r, Claim(p, q, r) PROVE \A s \in Queue : rows'[s] \subseteq rows[s]
  BY <1>1, <1>11 DEF Claim, TablesInv
<1>12. ASSUME NEW e, MoveTake(e) PROVE \A q \in Queue : rows'[q] \subseteq rows[q]
  <2>1. UNCHANGED rows \/ \E r : rows' = [rows EXCEPT ![mover.from] = @ \ {r}]
    BY <1>12 DEF MoveTake
  <2> QED
    BY <1>1, <2>1 DEF TablesInv
<1>13. ASSUME MoveClear \/ Terminate PROVE \A q \in Queue : rows'[q] \subseteq rows[q]
  BY <1>1, <1>13 DEF MoveClear, CoordinatorDies, Terminate, TablesInv
<1>14. CASE \A q \in Queue : rows'[q] \subseteq rows[q]
  BY <1>1, <1>14, SubsetKeepsIds
<1> QED
  BY <1>3, <1>4, <1>5, <1>6, <1>7, <1>8, <1>9, <1>10, <1>11, <1>12, <1>13, <1>14, Writers DEF Frame, RowMoving

\* What a writer knows stays true as refs are added.
LEMMA WriterKept ==
  ASSUME TInv, MetaGrows, NEW w \in Writer, writer'[w] = writer[w]
  PROVE  writer'[w] \in Insertions' /\ OneWriter(w)'
<1>1. WriterInv
  BY DEF TInv
<1>2. writer[w] \in Insertions /\ writer[w].ref \in Refs \cup {None} /\ OneWriter(w)
  BY <1>1, WriterFacts DEF WriterInv
<1>3. writer'[w] \in Insertions'
  BY <1>2 DEF Insertions, MetaGrows
<1>4. OneWriter(w)'
  BY <1>2 DEF OneWriter, MetaGrows, EventOf, Batch
<1> QED
  BY <1>3, <1>4

LEMMA WriterTurn ==
  ASSUME TInv, MetaGrows, NEW w \in Writer, NEW x \in Insertions', writer' = [writer EXCEPT ![w] = x],
         OneWriter(w)'
  PROVE  WriterInv'
<1>1. writer \in [Writer -> Insertions]
  BY DEF TInv, WriterInv
<1>2. \A v \in Writer : v # w => writer'[v] = writer[v]
  BY <1>1
<1>3. \A v \in Writer : writer'[v] \in Insertions' /\ OneWriter(v)'
  BY <1>1, <1>2, WriterKept
<1> QED
  BY <1>1, <1>3 DEF WriterInv

LEMMA WriterInvStep ==
  ASSUME TInv, [Next]_vars
  PROVE  WriterInv'
<1>1. MetaInv /\ StoreInv /\ WriterInv /\ MetaGrows /\ Pipeline \subseteq Queue /\ Startup \in Queue
  BY StoreStep, NoneIsNoRef DEF TInv
<1>2. CASE UNCHANGED writer
  <2>1. \A w \in Writer : writer'[w] \in Insertions' /\ OneWriter(w)'
    BY <1>1, <1>2, WriterKept
  <2> QED
    BY <1>1, <1>2, <2>1 DEF WriterInv
<1>3. ASSUME NEW w \in Writer, WriterStep(w) PROVE WriterInv'
  <2>1. /\ writer[w] \in Insertions /\ writer[w].next \in Nat \ {0} /\ OneWriter(w)
        /\ writer \in [Writer -> Insertions] /\ writer[w].ref \in Refs \cup {None}
    BY <1>1, WriterFacts DEF WriterInv
  <2>2. Len(Batch(w)) \in Nat \ {0}
    BY ConstantsAssumption DEF Batch
  <2>3. Insertions \subseteq Insertions'
    BY <1>1 DEF MetaGrows, Insertions
  <2> DEFINE Sound(x) == x \in Insertions' /\ writer' = [writer EXCEPT ![w] = x] /\ OneWriter(w)'
  <2>4. \A x : Sound(x) => WriterInv'
    BY <1>1, WriterTurn
  <2>5. ASSUME Pick(w) PROVE WriterInv'
    <3>1. CASE \E q \in Queue : writer' = [writer EXCEPT ![w].pc = "reserve", ![w].target = q]
      <4> PICK q \in Queue : writer' = [writer EXCEPT ![w].pc = "reserve", ![w].target = q]
        BY <3>1
      <4> DEFINE x == [writer[w] EXCEPT !.pc = "reserve", !.target = q]
      <4>1. writer' = [writer EXCEPT ![w] = x] /\ writer'[w] = x
        BY <2>1
      <4>2. x \in Insertions
        BY <1>1, <2>1 DEF Insertions
      <4>3. OneWriter(w)'
        BY <2>1, <2>5, <4>1 DEF OneWriter, Insertions, Pick
      <4> QED
        BY <2>3, <2>4, <4>1, <4>2, <4>3
    <3>2. CASE writer' = [writer EXCEPT ![w].pc = "finish"]
      <4> DEFINE x == [writer[w] EXCEPT !.pc = "finish"]
      <4>1. writer' = [writer EXCEPT ![w] = x] /\ writer'[w] = x
        BY <2>1, <3>2
      <4>2. x \in Insertions
        BY <1>1, <2>1 DEF Insertions
      <4>3. OneWriter(w)'
        BY <2>1, <2>5, <4>1 DEF OneWriter, Insertions, Pick
      <4> QED
        BY <2>3, <2>4, <4>1, <4>2, <4>3
    <3> QED
      BY <1>1, <2>5, <3>1, <3>2 DEF Pick, Eligible
  <2>6. ASSUME Reserve(w) PROVE WriterInv'
    <3> DEFINE x == [writer[w] EXCEPT !.pc = "body", !.gen = cur]
    <3>1. writer' = [writer EXCEPT ![w] = x]
      BY <2>1, <2>6 DEF Reserve
    <3>2. x \in Insertions'
      <4>1. x \in Insertions
        <5>1. cur \in 0..MaxGen
          BY <1>1, ConstantsAssumption DEF StoreInv
        <5> QED
          BY <2>1, <5>1 DEF Insertions
      <4> QED
        BY <2>3, <4>1
    <3>3. writer'[w] = x
      BY <2>1, <3>1
    <3>4. OneWriter(w)'
      BY <1>1, <2>1, <2>2, <2>6, <3>3 DEF Reserve, OneWriter, StoreInv, Insertions
    <3> QED
      BY <2>4, <3>1, <3>2, <3>4
  <2>7. ASSUME InsertBody(w) PROVE WriterInv'
    <3> DEFINE x == [writer[w] EXCEPT !.pc = "pointer", !.ref = Fresh]
    <3>1. writer' = [writer EXCEPT ![w] = x]
      BY <2>1, <2>7 DEF InsertBody
    <3>2. x \in Insertions'
      BY <2>1, <2>3, <2>7, InsertBodyRefs DEF Insertions
    <3>3. writer'[w] = x
      BY <2>1, <3>1
    <3>4. OneWriter(w)'
      <4>1. /\ writer'[w].pc = "pointer" /\ writer'[w].target = writer[w].target
            /\ writer'[w].gen = writer[w].gen /\ writer'[w].next = writer[w].next /\ writer'[w].ref = Fresh
        BY <2>1, <3>3 DEF Insertions
      <4>2. writer[w].target \in Queue /\ writer[w].gen > 0 /\ writer[w].next <= Len(Batch(w))
        BY <2>1, <2>7 DEF InsertBody, OneWriter
      <4>3. /\ Fresh # None
            /\ meta'[Fresh] = [event |-> Batch(w)[writer[w].next], gen |-> writer[w].gen, retries |-> 0]
        BY <2>7, InsertBodyRefs
      <4> QED
        BY <4>1, <4>2, <4>3 DEF OneWriter, EventOf, Batch
    <3> QED
      BY <2>4, <3>1, <3>2, <3>4
  <2>8. ASSUME InsertPointer(w) PROVE WriterInv'
    <3> DEFINE x == [writer[w] EXCEPT !.next = writer[w].next + 1, !.ref = None,
                                  !.pc = IF writer[w].next + 1 > Len(Batch(w)) THEN "finish" ELSE "body"]
    <3>1. writer' = [writer EXCEPT ![w] = x]
      BY <2>1, <2>8 DEF InsertPointer, NextRow
    <3>2. x \in Insertions'
      <4>1. x \in Insertions
        <5>1. writer[w].next + 1 \in Nat \ {0}
          BY <2>1
        <5> QED
          BY <2>1, <5>1 DEF Insertions
      <4> QED
        BY <2>3, <4>1
    <3>3. writer'[w] = x
      BY <2>1, <3>1
    <3>4. OneWriter(w)'
      <4>1. /\ writer'[w].target = writer[w].target /\ writer'[w].gen = writer[w].gen
            /\ writer'[w].next = writer[w].next + 1 /\ writer'[w].ref = None
            /\ writer'[w].pc = IF writer[w].next + 1 > Len(Batch(w)) THEN "finish" ELSE "body"
        BY <2>1, <3>3 DEF Insertions
      <4>2. writer[w].target \in Queue /\ writer[w].gen > 0
        BY <2>1, <2>8 DEF InsertPointer, OneWriter
      <4> QED
        BY <2>1, <2>2, <4>1, <4>2 DEF OneWriter, Batch
    <3> QED
      BY <2>4, <3>1, <3>2, <3>4
  <2>9. ASSUME Abort(w) PROVE WriterInv'
    <3>1. CASE writer' = [writer EXCEPT ![w].pc = "reserve", ![w].target = Startup, ![w].next = 1, ![w].ref = None]
      <4> DEFINE x == [writer[w] EXCEPT !.pc = "reserve", !.target = Startup, !.next = 1, !.ref = None]
      <4>1. writer' = [writer EXCEPT ![w] = x] /\ writer'[w] = x
        BY <2>1, <3>1
      <4>2. x \in Insertions
        <5>1. Startup \in Queue \cup {None} /\ 1 \in Nat \ {0} /\ None \in Refs \cup {None}
          BY <1>1
        <5> QED
          BY <2>1, <5>1 DEF Insertions
      <4>3. OneWriter(w)'
        BY <1>1, <2>1, <4>1 DEF OneWriter, Insertions, Queue
      <4> QED
        BY <2>3, <2>4, <4>1, <4>2, <4>3
    <3>2. CASE writer' = [writer EXCEPT ![w].pc = "finish", ![w].ref = None]
      <4> DEFINE x == [writer[w] EXCEPT !.pc = "finish", !.ref = None]
      <4>1. writer' = [writer EXCEPT ![w] = x] /\ writer'[w] = x
        BY <2>1, <3>2
      <4>2. x \in Insertions
        BY <1>1, <2>1 DEF Insertions
      <4>3. OneWriter(w)'
        BY <2>1, <4>1 DEF OneWriter, Insertions
      <4> QED
        BY <2>3, <2>4, <4>1, <4>2, <4>3
    <3> QED
      BY <2>9, <3>1, <3>2 DEF Abort
  <2>10. ASSUME Finish(w) PROVE WriterInv'
    <3> DEFINE x == [writer[w] EXCEPT !.pc = "done"]
    <3>1. writer' = [writer EXCEPT ![w] = x]
      BY <2>1, <2>10 DEF Finish
    <3>2. x \in Insertions'
      <4>1. x \in Insertions
        BY <2>1, <1>1 DEF Insertions
      <4> QED
        BY <2>3, <4>1
    <3>3. writer'[w] = x
      BY <2>1, <3>1
    <3>4. OneWriter(w)'
      BY <2>1, <2>10, <3>3 DEF Finish, OneWriter, Insertions
    <3> QED
      BY <2>4, <3>1, <3>2, <3>4
  <2> QED
    BY <1>3, <2>5, <2>6, <2>7, <2>8, <2>9, <2>10 DEF WriterStep
<1> QED
  BY <1>2, <1>3, Writers DEF Frame, Writing

LEMMA IdleIsSound ==
  ASSUME MetaInv', NEW p \in Pipeline, req'[p] = Idle
  PROVE  req'[p] \in Requeues' /\ OneRequeue(p)'
BY DEF Idle, Requeues, OneRequeue

\* The pointer a batcher requeues stays claimed until it is through with it.
LEMMA ClaimKept ==
  ASSUME TInv, [Next]_vars, NEW p \in Pipeline, NEW q \in Queue, <<req[p].old, q>> \in claimed[p]
  PROVE  <<req[p].old, q>> \in claimed'[p] \/ req'[p] = Idle
<1>1. claimed \in [Pipeline -> SUBSET (Refs \X Queue)] /\ req \in [Pipeline -> Requeues]
  BY DEF TInv, TablesInv, RequeueInv
<1>2. ASSUME NEW s \in Pipeline, ProcessorsDie(s) \/ Close(s) PROVE <<req[p].old, q>> \in claimed'[p] \/ req'[p] = Idle
  <2>1. claimed'[p] = claimed[p] \/ s = p
    BY <1>1, <1>2 DEF ProcessorsDie, Close
  <2>2. req'[s] = Idle
    BY <1>1, <1>2 DEF ProcessorsDie, Close
  <2> QED
    BY <2>1, <2>2
<1>3. ASSUME NEW s \in Pipeline, NEW x \in Queue, NEW r, Claim(s, x, r)
      PROVE  <<req[p].old, q>> \in claimed'[p]
  BY <1>1, <1>3 DEF Claim
<1>4. ASSUME NEW s \in Pipeline, NEW x \in Queue, NEW r,
             AckInserted(s, r, x) \/ DropFailed(s, r, x) \/ LookupMiss(s, r, x)
      PROVE  <<req[p].old, q>> \in claimed'[p]
  <2>1. claimed' = [claimed EXCEPT ![s] = @ \ {<<r, x>>}] /\ req[s].old # r
    BY <1>4 DEF AckInserted, DropFailed, LookupMiss, Take
  <2> QED
    BY <1>1, <2>1
<1> QED
  BY <1>2, <1>3, <1>4, Writers DEF Frame, Claiming

LEMMA RequeueKept ==
  ASSUME TInv, [Next]_vars, NEW p \in Pipeline, req'[p] = req[p]
  PROVE  req'[p] \in Requeues' /\ OneRequeue(p)'
<1>1. req[p] \in Requeues /\ req[p].old \in Refs \cup {None} /\ req[p].new \in Refs \cup {None} /\ OneRequeue(p)
  BY RequeueFacts DEF TInv, RequeueInv
<1>2. MetaGrows /\ MetaInv'
  BY StoreStep
<1>3. CASE req'[p] = Idle
  BY <1>2, <1>3, IdleIsSound
<1>4. CASE req'[p] # Idle
  <2>1. req'[p] \in Requeues'
    BY <1>1, <1>2 DEF Requeues, MetaGrows
  <2>2. \A q \in Queue : <<req[p].old, q>> \in claimed[p] => <<req[p].old, q>> \in claimed'[p]
    BY <1>4, ClaimKept
  <2>3. req[p].old # None => meta'[req[p].old] = meta[req[p].old]
    BY <1>1, <1>2 DEF MetaGrows
  <2>4. req[p].new # None => meta'[req[p].new] = meta[req[p].new]
    BY <1>1, <1>2 DEF MetaGrows
  <2>5. req[p].new # None => req[p].old # None
    BY <1>1 DEF OneRequeue
  <2> QED
    BY <1>1, <2>1, <2>2, <2>3, <2>4, <2>5 DEF OneRequeue, EventOf
<1> QED
  BY <1>3, <1>4

LEMMA RequeueTurn ==
  ASSUME TInv, [Next]_vars, NEW p \in Pipeline, NEW x \in Requeues', req' = [req EXCEPT ![p] = x],
         OneRequeue(p)'
  PROVE  RequeueInv'
<1>1. req \in [Pipeline -> Requeues]
  BY DEF TInv, RequeueInv
<1>2. \A s \in Pipeline : s # p => req'[s] = req[s]
  BY <1>1
<1>3. \A s \in Pipeline : req'[s] \in Requeues' /\ OneRequeue(s)'
  BY <1>1, <1>2, RequeueKept
<1> QED
  BY <1>1, <1>3 DEF RequeueInv

\* A batcher goes on with the pointer it requeues.
LEMMA RequeueGoesOn ==
  ASSUME TInv, [Next]_vars, UNCHANGED meta, NEW p \in Pipeline, NEW x \in Requeues,
         req' = [req EXCEPT ![p] = x],
         req[p].pc # "idle", x.pc # "idle", x.old = req[p].old, x.target \in Queue,
         x.new # None <=> x.pc \in {"publish", "inspect", "reclaim"},
         x.new # None => x.new = req[p].new,
         x.pc = "reclaim" => x.seen # None
  PROVE  RequeueInv'
<1>1. req \in [Pipeline -> Requeues] /\ OneRequeue(p)
  BY DEF TInv, RequeueInv
<1>2. req'[p] = x /\ x # Idle
  BY <1>1 DEF Idle
<1>3. MetaGrows
  BY StoreStep
<1>4. x \in Requeues'
  BY <1>3 DEF Requeues, MetaGrows
<1>5. \A q \in Queue : <<req[p].old, q>> \in claimed[p] => <<req[p].old, q>> \in claimed'[p]
  BY <1>2, ClaimKept
<1>6. OneRequeue(p)'
  BY <1>1, <1>2, <1>5 DEF OneRequeue, EventOf
<1> QED
  BY <1>4, <1>6, RequeueTurn

LEMMA RequeueInvStep ==
  ASSUME TInv, [Next]_vars
  PROVE  RequeueInv'
<1>1. /\ MetaInv /\ MetaInv' /\ MetaGrows /\ StoreInv /\ Pipeline \subseteq Queue
      /\ req \in [Pipeline -> Requeues] /\ Collisions \in Int /\ None \notin Refs
  BY StoreStep, NoneIsNoRef, ConstantsAssumption DEF TInv, RequeueInv
<1>2. CASE UNCHANGED req
  <2>1. \A p \in Pipeline : req'[p] \in Requeues' /\ OneRequeue(p)'
    BY <1>2, RequeueKept
  <2> QED
    BY <1>1, <1>2, <2>1 DEF RequeueInv
<1>3. ASSUME NEW p \in Pipeline, ProcessorsDie(p) \/ Close(p) PROVE RequeueInv'
  <2>1. req' = [req EXCEPT ![p] = Idle] /\ req'[p] = Idle
    BY <1>1, <1>3 DEF ProcessorsDie, Close
  <2>2. Idle \in Requeues' /\ OneRequeue(p)'
    BY <1>1, <2>1, IdleIsSound
  <2> QED
    BY <2>1, <2>2, RequeueTurn
<1>4. ASSUME NEW p \in Pipeline, NEW q \in Queue, NEW r, Requeue(p, r, q) PROVE RequeueInv'
  <2> DEFINE todo == {c \in Queue : Mapped(c)} \ {q}
  <2> DEFINE x == [Idle EXCEPT !.pc = "stage", !.old = r, !.target = q, !.todo = todo]
  <2>1. req' = [req EXCEPT ![p] = x] /\ req'[p] = x
    BY <1>1, <1>4 DEF Requeue
  <2>2. <<r, q>> \in claimed[p] /\ claimed' = claimed /\ meta' = meta /\ meta[r].retries < MaxRetries
    BY <1>4 DEF Requeue, store
  <2>3. r \in Refs /\ todo \subseteq Queue
    BY <2>2 DEF TInv, TablesInv
  <2> HIDE DEF todo
  <2>4. x \in Requeues'
    <3>1. Idle \in Requeues'
      BY DEF Idle, Requeues
    <3>2. r \in Refs' /\ todo \in SUBSET Queue
      BY <1>1, <2>3 DEF MetaGrows
    <3> QED
      BY <3>1, <3>2 DEF Requeues
  <2>5. OneRequeue(p)'
    BY <1>1, <2>1, <2>2, <2>3 DEF OneRequeue, Idle
  <2> QED
    BY <2>1, <2>4, <2>5, RequeueTurn
<1>5. ASSUME NEW p \in Pipeline, Stage(p) PROVE RequeueInv'
  <2> DEFINE x == [req[p] EXCEPT !.pc = "publish", !.new = Fresh, !.tries = Collisions]
  <2>1. req' = [req EXCEPT ![p] = x] /\ req'[p] = x /\ req[p].pc = "stage" /\ claimed' = claimed
    BY <1>1, <1>5 DEF Stage
  <2>2. /\ Fresh \in Refs' /\ Fresh # None /\ req[p].old \in Refs
        /\ meta'[Fresh].event = EventOf(req[p].old) /\ meta'[req[p].old] = meta[req[p].old]
    <3>1. /\ req[p].old \in Refs /\ Refs' = Refs \cup {Fresh} /\ Fresh # None
          /\ meta'[Fresh] = [event |-> EventOf(req[p].old), gen |-> cur,
                             retries |-> meta[req[p].old].retries + 1]
      BY <1>5, StageRefs
    <3> QED
      BY <1>1, <3>1 DEF MetaGrows
  <2>3. x \in Requeues'
    <3>1. req[p] \in Requeues'
      BY <1>1 DEF Requeues, MetaGrows
    <3> QED
      BY <1>1, <2>2, <3>1 DEF Requeues
  <2>4. OneRequeue(p)
    BY DEF TInv, RequeueInv
  <2>5. /\ x.pc = "publish" /\ x.new = Fresh /\ x.old = req[p].old /\ x.target = req[p].target
    BY <1>1 DEF Requeues
  <2>6. OneRequeue(p)'
    BY <1>1, <2>1, <2>2, <2>4, <2>5 DEF OneRequeue, EventOf
  <2> QED
    BY <2>1, <2>3, <2>6, RequeueTurn
<1>6. ASSUME NEW p \in Pipeline, req[p].pc \in {"publish", "inspect", "reclaim"}, UNCHANGED meta,
             NextCandidate(p) \/ GiveUp(p)
      PROVE  RequeueInv'
  <2>1. CASE \E y \in {"no queue", "duplicate"} :
               req' = [req EXCEPT ![p].pc = "close", ![p].new = None, ![p].why = y]
    <3> PICK y \in {"no queue", "duplicate"} :
               req' = [req EXCEPT ![p].pc = "close", ![p].new = None, ![p].why = y]
      BY <2>1
    <3> DEFINE x == [req[p] EXCEPT !.pc = "close", !.new = None, !.why = y]
    <3>1. req' = [req EXCEPT ![p] = x]
      BY <1>1
    <3>2. x \in Requeues /\ x.pc = "close" /\ x.old = req[p].old /\ x.target = req[p].target /\ x.new = None
      BY <1>1 DEF Requeues
    <3>3. x.target \in Queue
      BY <1>6, <3>2 DEF TInv, RequeueInv, OneRequeue
    <3> HIDE DEF x
    <3> QED
      BY <1>6, <3>1, <3>2, <3>3, RequeueGoesOn
  <2>2. CASE \E q \in req[p].todo : req' = [req EXCEPT ![p].pc = "stage", ![p].new = None, ![p].target = q,
                                                       ![p].todo = @ \ {q}]
    <3> PICK q \in req[p].todo : req' = [req EXCEPT ![p].pc = "stage", ![p].new = None, ![p].target = q,
                                                    ![p].todo = @ \ {q}]
      BY <2>2
    <3> DEFINE x == [req[p] EXCEPT !.pc = "stage", !.new = None, !.target = q, !.todo = @ \ {q}]
    <3>1. req' = [req EXCEPT ![p] = x]
      BY <1>1
    <3>2. q \in Queue /\ req[p].todo \ {q} \subseteq Queue
      BY RequeueFacts DEF TInv
    <3>3. x \in Requeues /\ x.pc = "stage" /\ x.old = req[p].old /\ x.target = q /\ x.new = None
      BY <1>1, <3>2 DEF Requeues
    <3> HIDE DEF x
    <3> QED
      BY <1>6, <3>1, <3>2, <3>3, RequeueGoesOn
  <2> QED
    BY <1>6, <2>1, <2>2 DEF NextCandidate, GiveUp
<1>7. ASSUME NEW p \in Pipeline, Publish(p) PROVE RequeueInv'
  <2>1. req[p].pc = "publish" /\ UNCHANGED meta /\ req[p].target \in Queue
    BY <1>7 DEF Publish, TInv, RequeueInv, OneRequeue
  <2>2. CASE req' = [req EXCEPT ![p].pc = "close", ![p].new = None]
    <3> DEFINE x == [req[p] EXCEPT !.pc = "close", !.new = None]
    <3>1. req' = [req EXCEPT ![p] = x]
      BY <1>1, <2>2
    <3>2. x \in Requeues /\ x.pc = "close" /\ x.old = req[p].old /\ x.target = req[p].target /\ x.new = None
      BY <1>1 DEF Requeues
    <3> HIDE DEF x
    <3> QED
      BY <2>1, <3>1, <3>2, RequeueGoesOn
  <2>3. CASE req' = [req EXCEPT ![p].pc = "inspect"]
    <3> DEFINE x == [req[p] EXCEPT !.pc = "inspect"]
    <3>1. req' = [req EXCEPT ![p] = x]
      BY <1>1, <2>3
    <3>2. /\ x \in Requeues /\ x.pc = "inspect" /\ x.old = req[p].old /\ x.target = req[p].target
          /\ x.new = req[p].new
      BY <1>1 DEF Requeues
    <3>3. x.new # None
      BY <2>1, <3>2 DEF TInv, RequeueInv, OneRequeue
    <3> HIDE DEF x
    <3> QED
      BY <2>1, <3>1, <3>2, <3>3, RequeueGoesOn
  <2> QED
    BY <1>6, <1>7, <2>1, <2>2, <2>3 DEF Publish
<1>8. ASSUME NEW p \in Pipeline, Inspect(p) PROVE RequeueInv'
  <2>1. req[p].pc = "inspect" /\ UNCHANGED meta /\ req[p].target \in Queue /\ req[p].new # None
    BY <1>8 DEF Inspect, TInv, RequeueInv, OneRequeue
  <2>2. CASE req' = [req EXCEPT ![p].pc = "publish", ![p].tries = @ - 1]
    <3> DEFINE x == [req[p] EXCEPT !.pc = "publish", !.tries = @ - 1]
    <3>1. req' = [req EXCEPT ![p] = x]
      BY <1>1, <2>2
    <3>2. req[p].tries - 1 \in Int
      BY RequeueFacts DEF TInv
    <3>3. /\ x \in Requeues /\ x.pc = "publish" /\ x.old = req[p].old /\ x.target = req[p].target
          /\ x.new = req[p].new
      BY <1>1, <3>2 DEF Requeues
    <3> HIDE DEF x
    <3> QED
      BY <2>1, <3>1, <3>3, RequeueGoesOn
  <2>3. CASE \E s \in Refs : req' = [req EXCEPT ![p].pc = "reclaim", ![p].seen = s]
    <3> PICK s \in Refs : req' = [req EXCEPT ![p].pc = "reclaim", ![p].seen = s]
      BY <2>3
    <3> DEFINE x == [req[p] EXCEPT !.pc = "reclaim", !.seen = s]
    <3>1. req' = [req EXCEPT ![p] = x]
      BY <1>1
    <3>2. /\ x \in Requeues /\ x.pc = "reclaim" /\ x.old = req[p].old /\ x.target = req[p].target
          /\ x.new = req[p].new /\ x.seen # None
      BY <1>1 DEF Requeues
    <3> HIDE DEF x
    <3> QED
      BY <2>1, <3>1, <3>2, RequeueGoesOn
  <2>4. SameId(req[p].new, rows[req[p].target]) \subseteq Refs
    BY <2>1 DEF SameId, TInv, TablesInv
  <2> QED
    BY <1>6, <1>8, <2>1, <2>2, <2>3, <2>4 DEF Inspect
<1>9. ASSUME NEW p \in Pipeline, Reclaim(p) PROVE RequeueInv'
  <2>1. req[p].pc = "reclaim" /\ UNCHANGED meta /\ req[p].target \in Queue /\ req[p].new # None
    BY <1>9 DEF Reclaim, TInv, RequeueInv, OneRequeue
  <2>2. CASE req' = [req EXCEPT ![p].pc = "publish", ![p].tries = @ - 1, ![p].seen = None]
    <3> DEFINE x == [req[p] EXCEPT !.pc = "publish", !.tries = @ - 1, !.seen = None]
    <3>1. req' = [req EXCEPT ![p] = x]
      BY <1>1, <2>2
    <3>2. req[p].tries - 1 \in Int
      BY RequeueFacts DEF TInv
    <3>3. /\ x \in Requeues /\ x.pc = "publish" /\ x.old = req[p].old /\ x.target = req[p].target
          /\ x.new = req[p].new
      BY <1>1, <3>2 DEF Requeues
    <3> HIDE DEF x
    <3> QED
      BY <2>1, <3>1, <3>3, RequeueGoesOn
  <2> QED
    BY <1>6, <1>9, <2>1, <2>2 DEF Reclaim
<1> QED
  BY <1>2, <1>3, <1>4, <1>5, <1>7, <1>8, <1>9, Writers DEF Frame, Requeueing, RequeueStep

LEMMA MoverInvStep ==
  ASSUME TInv, [Next]_vars
  PROVE  MoverInv'
<1>1. /\ MetaInv /\ MetaGrows /\ MoverInv /\ Pipeline \subseteq Queue /\ Startup \in Queue
      /\ \A q \in Queue : rows[q] \subseteq Refs
  BY StoreStep, NoneIsNoRef DEF TInv, TablesInv
<1>2. Moves \subseteq Moves'
  BY <1>1 DEF MetaGrows, Moves
<1>3. CASE UNCHANGED mover
  BY <1>1, <1>2, <1>3 DEF MoverInv
<1>4. AtRest \in Moves /\ (mover' = AtRest => MoverInv')
  <2>1. AtRest \in Moves
    BY DEF AtRest, Moves
  <2>2. AtRest.from = None /\ AtRest.to = None /\ AtRest.held = None /\ AtRest.cleared = FALSE
    BY DEF AtRest
  <2> QED
    BY <1>2, <2>1, <2>2 DEF MoverInv
<1>5. ASSUME NEW p \in Pipeline, BeginMove(p) PROVE MoverInv'
  <2> DEFINE todo == {EventOf(r) : r \in rows[p]}
  <2>1. todo \subseteq Event
    BY <1>1, RefFacts
  <2>2. CASE mover' = [AtRest EXCEPT !.from = p]
    <3>1. mover' \in Moves
      BY <1>4, <2>2 DEF Moves
    <3> QED
      BY <1>2, <2>2, <3>1 DEF MoverInv, AtRest
  <2>3. CASE \E s \in Queue : mover' = [AtRest EXCEPT !.from = p, !.to = s, !.todo = todo]
    <3> HIDE DEF todo
    <3> PICK s \in Queue : mover' = [AtRest EXCEPT !.from = p, !.to = s, !.todo = todo]
      BY <2>3
    <3>1. mover' \in Moves
      BY <1>4, <2>1 DEF Moves
    <3>2. mover'.from = p /\ mover'.held = None /\ ~mover'.cleared
      BY DEF AtRest
    <3>3. p # None
      BY <1>1, NoneIsNoRef
    <3> QED
      BY <1>2, <3>1, <3>2, <3>3 DEF MoverInv
  <2> QED
    BY <1>1, <1>5, <2>2, <2>3 DEF BeginMove
<1>6. ASSUME NEW e \in Event, MoveTake(e) PROVE MoverInv'
  <2>1. mover.to # None /\ mover.held = None
    BY <1>6 DEF MoveTake, Visits
  <2>2. mover \in Moves /\ mover.from \in Queue /\ mover.todo \ {e} \subseteq Event
    BY <1>1, <2>1, MoverFacts DEF MoverInv
  <2>3. CASE mover' = [mover EXCEPT !.todo = @ \ {e}]
    BY <1>1, <1>2, <2>2, <2>3 DEF MoverInv, Moves
  <2>4. CASE \E r \in Refs : mover' = [mover EXCEPT !.todo = @ \ {e}, !.held = r]
    <3> PICK r \in Refs : mover' = [mover EXCEPT !.todo = @ \ {e}, !.held = r]
      BY <2>4
    <3>1. mover' \in Moves
      BY <2>2 DEF Moves
    <3>2. /\ mover'.from = mover.from /\ mover'.to = mover.to /\ mover'.cleared = mover.cleared
      BY <2>2 DEF Moves
    <3> QED
      BY <1>1, <1>2, <2>1, <3>1, <3>2 DEF MoverInv
  <2> QED
    BY <1>1, <1>6, <2>2, <2>3, <2>4 DEF MoveTake
<1>7. ASSUME MoveClear PROVE MoverInv'
  <2>1. CASE mover' = [mover EXCEPT !.cleared = TRUE] /\ mover.held # None
    BY <1>1, <1>2, <2>1 DEF MoverInv, Moves
  <2> QED
    BY <1>4, <1>7, <2>1 DEF MoveClear, CoordinatorDies
<1>8. ASSUME MovePut PROVE MoverInv'
  <2>1. CASE mover' = [mover EXCEPT !.held = None, !.cleared = FALSE]
    <3>1. mover' \in Moves
      BY <1>1, <2>1 DEF MoverInv, Moves
    <3>2. mover'.from = mover.from /\ mover'.to = mover.to /\ mover'.held = None /\ mover'.cleared = FALSE
      BY <1>1, <2>1 DEF MoverInv, Moves
    <3> QED
      BY <1>1, <1>2, <3>1, <3>2 DEF MoverInv
  <2> QED
    BY <1>4, <1>8, <2>1 DEF MovePut, CoordinatorDies
<1>9. ASSUME Terminate PROVE MoverInv'
  BY <1>4, <1>9 DEF Terminate
<1> QED
  BY <1>3, <1>5, <1>6, <1>7, <1>8, <1>9, Writers DEF Frame, Moving

LEMMA TypesInit ==
  ASSUME Init
  PROVE  TInv
<1>1. Refs = {} /\ MaxGen \in Nat /\ MaxGen > 0
  BY ConstantsAssumption DEF Init, Refs
<1>2. MetaInv /\ StoreInv
  BY <1>1, ConstantsAssumption DEF Init, MetaInv, StoreInv
<1>3. TablesInv /\ OneRowPerId
  BY <1>1 DEF Init, TablesInv, OneRowPerId, Status, Alive
<1>4. CountInv
  <2>1. \A h \in Handle : Cardinality({w \in Writer : handleOf[w] = h}) \in Nat
    BY ConstantsAssumption, FS_Subset, FS_CardinalityType
  <2> QED
    BY <2>1 DEF Init, CountInv
<1>5. WriterInv
  BY <1>1 DEF Init, WriterInv, Insertions, OneWriter
<1>6. RequeueInv
  BY <1>1 DEF Init, RequeueInv, Requeues, OneRequeue, Idle
<1>7. MoverInv
  BY <1>1 DEF Init, MoverInv, Moves, AtRest
<1> QED
  BY <1>2, <1>3, <1>4, <1>5, <1>6, <1>7 DEF TInv

LEMMA TypesStep ==
  ASSUME TInv, [Next]_vars
  PROVE  TInv'
BY StoreStep, TablesStep, CountStep, OneRowStep, WriterInvStep, RequeueInvStep, MoverInvStep DEF TInv

\* TypeOK, for every value of the constants.
THEOREM IngestEventQueueTypeOK == Spec => []TypeOK
<1>1. Init => TInv
  BY TypesInit
<1>2. TInv /\ [Next]_vars => TInv'
  BY TypesStep
<1>3. TInv => TypeOK
  <2> SUFFICES ASSUME TInv PROVE TypeOK
    OBVIOUS
  <2>1. \A q \in Queue : \A r \in rows[q] : SameId(r, rows[q]) = {r}
    BY DEF TInv, OneRowPerId, SameId
  <2>2. \A r \in Refs : meta[r] \in [event : Event, gen : 1..MaxGen, retries : 0..MaxRetries]
    BY RefFacts DEF TInv
  <2>3. gens \subseteq 1..MaxGen
    BY ConstantsAssumption DEF TInv, StoreInv
  <2> QED
    BY <2>1, <2>2, <2>3 DEF TInv, StoreInv, TablesInv, CountInv, TypeOK
<1> QED
  BY <1>1, <1>2, <1>3, PTL DEF Spec

-----------------------------------------------------------------------------
(* A ref is known in one place. *)

\* A step takes r to no place where it was not.
Stays(r) ==
  /\ \A q \in Queue : r \in rows'[q] => r \in rows[q]
  /\ \A p \in Pipeline : r \in hand'[p] => r \in hand[p]
  /\ \A p \in Pipeline, q \in Queue : <<r, q>> \in claimed'[p] => <<r, q>> \in claimed[p]
  /\ mover'.held = r => mover.held = r
  /\ \A p \in Pipeline : req'[p].new = r => req[p].new = r
  /\ \A w \in Writer : writer'[w].ref = r => writer[w].ref = r

Settled(r) == \E k \in Kinds, a \in Queue \cup Writer, b \in Queue : Sits(r, k, a, b)

\* The ref a batcher staged is still its own, or taken back.
LEMMA StagedDropped ==
  ASSUME TInv, NEW p \in Pipeline, NextCandidate(p) \/ GiveUp(p)
  PROVE  rows' = rows /\ \A s \in Pipeline : req'[s].new = (IF s = p THEN None ELSE req[s].new)
<1>1. req \in [Pipeline -> Requeues] /\ req[p] \in Requeues /\ rows' = rows
  BY RequeueFacts DEF TInv, RequeueInv, NextCandidate, GiveUp
<1>2. CASE \E y : req' = [req EXCEPT ![p].pc = "close", ![p].new = None, ![p].why = y]
  <2> PICK y : req' = [req EXCEPT ![p].pc = "close", ![p].new = None, ![p].why = y]
    BY <1>2
  <2> DEFINE x == [req[p] EXCEPT !.pc = "close", !.new = None, !.why = y]
  <2>1. req' = [req EXCEPT ![p] = x] /\ x.new = None
    BY <1>1 DEF Requeues
  <2> HIDE DEF x
  <2>2. \A s \in Pipeline : req'[s].new = (IF s = p THEN None ELSE req[s].new)
    BY <1>1, <2>1
  <2> QED
    BY <1>1, <2>2
<1>3. CASE \E q : req' = [req EXCEPT ![p].pc = "stage", ![p].new = None, ![p].target = q, ![p].todo = @ \ {q}]
  <2> PICK q : req' = [req EXCEPT ![p].pc = "stage", ![p].new = None, ![p].target = q, ![p].todo = @ \ {q}]
    BY <1>3
  <2> DEFINE x == [req[p] EXCEPT !.pc = "stage", !.new = None, !.target = q, !.todo = @ \ {q}]
  <2>1. req' = [req EXCEPT ![p] = x] /\ x.new = None
    BY <1>1 DEF Requeues
  <2> HIDE DEF x
  <2>2. \A s \in Pipeline : req'[s].new = (IF s = p THEN None ELSE req[s].new)
    BY <1>1, <2>1
  <2> QED
    BY <1>1, <2>2
<1> QED
  BY <1>2, <1>3 DEF NextCandidate, GiveUp

\* r may be put somewhere: nobody claimed it, and if only a writer has it, that
\* writer inserts it.
Lands(r) == Loose(r) /\ (Pending(r) \/ \E w \in Writer : InsertPointer(w) /\ writer[w].ref = r)

LEMMA ApartMoves ==
  ASSUME TInv, Apart, [Next]_vars
  PROVE  \A r \in Refs : Stays(r) \/ (Lands(r) /\ Settled(r)')
<1> DEFINE Goal == \A r \in Refs : Stays(r) \/ (Lands(r) /\ Settled(r)')
<1>a. /\ rows \in [Queue -> SUBSET Refs] /\ hand \in [Pipeline -> SUBSET Refs]
      /\ claimed \in [Pipeline -> SUBSET (Refs \X Queue)] /\ req \in [Pipeline -> Requeues]
      /\ writer \in [Writer -> Insertions] /\ Pipeline \subseteq Queue /\ Startup \in Queue
      /\ mover \in Moves /\ None \notin Refs
  BY NoneIsNoRef DEF TInv, TablesInv, RequeueInv, WriterInv, MoverInv
<1>1. ASSUME NEW w \in Writer, Pick(w) PROVE Goal
  <2>1. \A v \in Writer : writer'[v].ref = writer[v].ref
    <3>1. CASE \E q : writer' = [writer EXCEPT ![w].pc = "reserve", ![w].target = q]
      BY <1>a, <3>1 DEF Insertions
    <3>2. CASE writer' = [writer EXCEPT ![w].pc = "finish"]
      BY <1>a, <3>2 DEF Insertions
    <3> QED
      BY <1>1, <3>1, <3>2 DEF Pick
  <2> QED
    BY <1>1, <2>1 DEF Stays, Pick, consumers
<1>2. ASSUME NEW w \in Writer, Reserve(w) PROVE Goal
  BY <1>2, <1>a DEF Stays, Reserve, store, consumers, others, vars
<1>3. ASSUME NEW w \in Writer, InsertBody(w) PROVE Goal
  <2>1. Fresh \notin Refs
    BY <1>3, InsertBodyRefs
  <2>2. \A v \in Writer : writer'[v].ref = (IF v = w THEN Fresh ELSE writer[v].ref)
    BY <1>3, <1>a DEF InsertBody, Insertions
  <2> QED
    BY <1>3, <1>a, <2>1, <2>2 DEF Stays, InsertBody, consumers
<1>4. ASSUME NEW w \in Writer, InsertPointer(w) PROVE Goal
  <2>1. PICK x \in Refs, q \in Queue : x = writer[w].ref /\ q = writer[w].target
    BY <1>4, WriterFacts DEF TInv, WriterInv, OneWriter, InsertPointer
  <2>2. \A v \in Writer : writer'[v].ref = (IF v = w THEN None ELSE writer[v].ref)
    BY <1>4, <1>a DEF InsertPointer, NextRow, Insertions
  <2>3. UNCHANGED <<hand, claimed, req, mover>> /\ (rows' = rows \/ rows' = [rows EXCEPT ![q] = @ \cup {x}])
    BY <1>4, <2>1 DEF InsertPointer, consumers
  <2>4. \A r \in Refs \ {x} : Stays(r)
    BY <1>a, <2>2, <2>3 DEF Stays
  <2>5. Stays(x) \/ (Lands(x) /\ Settled(x)')
    <3>1. PICK k \in Kinds, a \in Queue \cup Writer, b \in Queue : Sits(x, k, a, b)
      BY DEF Apart
    <3>2. k = "written" /\ a = w
      BY <2>1, <3>1 DEF Sits
    <3>3. CASE rows' = rows
      BY <1>a, <2>1, <2>2, <2>3, <3>3 DEF Stays
    <3>4. CASE rows' = [rows EXCEPT ![q] = @ \cup {x}]
      <4>1. Sits(x, "row", q, q)'
        BY <1>a, <2>1, <2>2, <2>3, <3>1, <3>2, <3>4 DEF Sits
      <4> QED
        BY <1>4, <2>1, <4>1 DEF Lands, Loose, Pending, Placed, Settled, Kinds
    <3> QED
      BY <2>3, <3>3, <3>4
  <2> QED
    BY <2>4, <2>5
<1>5. ASSUME NEW w \in Writer, Abort(w) PROVE Goal
  <2>1. \A v \in Writer : writer'[v].ref = writer[v].ref \/ writer'[v].ref = None
    <3>1. CASE writer' = [writer EXCEPT ![w].pc = "reserve", ![w].target = Startup, ![w].next = 1, ![w].ref = None]
      BY <1>a, <3>1 DEF Insertions
    <3>2. CASE writer' = [writer EXCEPT ![w].pc = "finish", ![w].ref = None]
      BY <1>a, <3>2 DEF Insertions
    <3> QED
      BY <1>5, <3>1, <3>2 DEF Abort
  <2> QED
    BY <1>5, <1>a, <2>1 DEF Stays, Abort, consumers
<1>6. ASSUME NEW w \in Writer, Finish(w) PROVE Goal
  BY <1>6, <1>a DEF Stays, Finish, store, consumers, others, vars
<1>7. ASSUME NEW p \in Pipeline, Start(p) PROVE Goal
  <2>1. PICK S \in SUBSET rows[Startup] : /\ hand' = [hand EXCEPT ![p] = S]
                                        /\ rows' = [rows EXCEPT ![Startup] = @ \ S]
    BY <1>7 DEF Start
  <2>2. UNCHANGED <<claimed, req, mover, writer>>
    BY <1>7 DEF Start
  <2>3. \A r \in Refs \ S : Stays(r)
    BY <1>a, <2>1, <2>2 DEF Stays
  <2>4. ASSUME NEW r \in S PROVE Lands(r) /\ Settled(r)'
    <3>1. r \in Refs /\ r \in rows[Startup]
      BY <1>a
    <3>2. PICK k \in Kinds, a \in Queue \cup Writer, b \in Queue : Sits(r, k, a, b)
      BY <3>1 DEF Apart
    <3>3. k = "row" /\ a = Startup
      BY <1>a, <3>1, <3>2 DEF Sits
    <3>4. Sits(r, "seed", p, Startup)'
      BY <1>a, <2>1, <2>2, <3>2, <3>3 DEF Sits
    <3> QED
      BY <1>a, <3>4 DEF Lands, Loose, Pending, Placed, Settled, Kinds
  <2> QED
    BY <1>a, <2>3, <2>4
<1>8. ASSUME NEW p \in Pipeline, NEW r \in 1..MaxRefs, SeedPut(p, r) PROVE Goal
  <2>1. r \in hand[p] /\ r \in Refs /\ p \in Queue
    BY <1>8, <1>a DEF SeedPut
  <2>2. /\ rows' = [rows EXCEPT ![p] = (@ \ SameId(r, rows[p])) \cup {r}]
        /\ hand' = [hand EXCEPT ![p] = @ \ {r}] /\ UNCHANGED <<claimed, req, mover, writer>>
    BY <1>8 DEF SeedPut
  <2>3. \A s \in Refs \ {r} : Stays(s)
    BY <1>a, <2>1, <2>2 DEF Stays
  <2>4. PICK k \in Kinds, a \in Queue \cup Writer, b \in Queue : Sits(r, k, a, b)
    BY <2>1 DEF Apart
  <2>5. k = "seed" /\ a = p
    BY <2>1, <2>4 DEF Sits
  <2>6. Sits(r, "row", p, p)'
    BY <1>a, <2>1, <2>2, <2>4, <2>5 DEF Sits
  <2> QED
    BY <2>1, <2>3, <2>6 DEF Lands, Loose, Pending, Placed, Settled, Kinds
<1>9. ASSUME NEW p \in Pipeline, NEW q \in Queue, NEW r \in 1..MaxRefs, Claim(p, q, r) PROVE Goal
  <2>1. r \in rows[q] /\ r \in Refs /\ p \in Queue
    BY <1>9, <1>a DEF Claim
  <2>2. /\ rows' = [rows EXCEPT ![q] = @ \ {r}] /\ claimed' = [claimed EXCEPT ![p] = @ \cup {<<r, q>>}]
        /\ UNCHANGED <<hand, req, mover, writer>>
    BY <1>9 DEF Claim
  <2>3. \A s \in Refs \ {r} : Stays(s)
    BY <1>a, <2>1, <2>2 DEF Stays
  <2>4. PICK k \in Kinds, a \in Queue \cup Writer, b \in Queue : Sits(r, k, a, b)
    BY <2>1 DEF Apart
  <2>5. k = "row" /\ a = q
    BY <2>1, <2>4 DEF Sits
  <2>6. Sits(r, "claim", p, q)'
    BY <1>a, <2>1, <2>2, <2>4, <2>5 DEF Sits
  <2> QED
    BY <2>1, <2>3, <2>6 DEF Lands, Loose, Pending, Placed, Settled, Kinds
<1>10. ASSUME NEW p \in Pipeline, ProducerDies(p) PROVE Goal
  BY <1>10, <1>a DEF Stays, ProducerDies, store, consumers, others, vars
<1>11. ASSUME NEW p \in Pipeline, NEW q \in Queue, NEW r \in 1..MaxRefs, Resolve(p, r, q) PROVE Goal
  BY <1>11, <1>a DEF Stays, Resolve, store, consumers, others, vars
<1>12. ASSUME NEW p \in Pipeline, NEW q \in Queue, NEW r \in 1..MaxRefs, AckInserted(p, r, q) PROVE Goal
  BY <1>12, <1>a DEF Stays, AckInserted, Take, store, consumers, others, vars
<1>13. ASSUME NEW p \in Pipeline, NEW q \in Queue, NEW r \in 1..MaxRefs, DropFailed(p, r, q) PROVE Goal
  BY <1>13, <1>a DEF Stays, DropFailed, Take, store, consumers, others, vars
<1>14. ASSUME NEW p \in Pipeline, NEW q \in Queue, NEW r \in 1..MaxRefs, LookupMiss(p, r, q) PROVE Goal
  BY <1>14, <1>a DEF Stays, LookupMiss, Take, store, consumers, others, vars
<1>15. ASSUME NEW p \in Pipeline, ProcessorsDie(p) PROVE Goal
  BY <1>15, <1>a DEF Stays, ProcessorsDie, Idle, store, consumers, others, vars
<1>16. ASSUME NEW p \in Pipeline, NEW q \in Queue, NEW r \in 1..MaxRefs, Requeue(p, r, q) PROVE Goal
  BY <1>16, <1>a DEF Stays, Requeue, Idle, store, consumers, others, vars
<1>17. ASSUME NEW p \in Pipeline, Stage(p) PROVE Goal
  <2>1. Fresh \notin Refs
    BY <1>17, StageRefs
  <2>2. \A s \in Pipeline : req'[s].new = (IF s = p THEN Fresh ELSE req[s].new)
    BY <1>17, <1>a DEF Stage, Requeues
  <2> QED
    BY <1>17, <1>a, <2>1, <2>2 DEF Stays, Stage
<1>18. ASSUME NEW p \in Pipeline, Publish(p) PROVE Goal
  <2>0. PICK x \in Refs, q \in Queue : x = req[p].new /\ q = req[p].target
    BY <1>18, RequeueFacts DEF Publish, TInv, RequeueInv, OneRequeue
  <2>1. UNCHANGED <<hand, claimed, mover, writer>>
    BY <1>18 DEF Publish
  <2>2. CASE NextCandidate(p) \/ GiveUp(p)
    BY <1>a, <2>1, <2>2, StagedDropped DEF Stays
  <2>3. CASE req' = [req EXCEPT ![p].pc = "inspect"] /\ rows' = rows
    <3>1. \A s \in Pipeline : req'[s].new = req[s].new
      BY <1>a, <2>3 DEF Requeues
    <3> QED
      BY <2>1, <2>3, <3>1 DEF Stays
  <2>4. CASE req' = [req EXCEPT ![p].pc = "close", ![p].new = None] /\ rows' = [rows EXCEPT ![q] = @ \cup {x}]
    <3>1. \A s \in Pipeline : req'[s].new = (IF s = p THEN None ELSE req[s].new)
      BY <1>a, <2>4 DEF Requeues
    <3>2. \A r \in Refs \ {x} : Stays(r)
      BY <1>a, <2>1, <2>4, <3>1 DEF Stays
    <3>3. PICK k \in Kinds, a \in Queue \cup Writer, b \in Queue : Sits(x, k, a, b)
      BY DEF Apart
    <3>4. k = "staged" /\ a = p
      BY <2>0, <3>3 DEF Sits
    <3>5. Sits(x, "row", q, q)'
      BY <1>a, <2>1, <2>4, <3>1, <3>3, <3>4 DEF Sits
    <3> QED
      BY <2>0, <3>2, <3>5 DEF Lands, Loose, Pending, Placed, Settled, Kinds
  <2> QED
    BY <1>18, <2>0, <2>2, <2>3, <2>4 DEF Publish
<1>19. ASSUME NEW p \in Pipeline, Inspect(p) PROVE Goal
  <2>1. UNCHANGED <<hand, claimed, mover, writer>>
    BY <1>19 DEF Inspect
  <2>2. CASE NextCandidate(p) \/ GiveUp(p)
    BY <1>a, <2>1, <2>2, StagedDropped DEF Stays
  <2>3. CASE /\ rows' = rows
             /\ \/ req' = [req EXCEPT ![p].pc = "publish", ![p].tries = @ - 1]
                \/ \E s : req' = [req EXCEPT ![p].pc = "reclaim", ![p].seen = s]
    <3>1. \A s \in Pipeline : req'[s].new = req[s].new
      <4>1. CASE req' = [req EXCEPT ![p].pc = "publish", ![p].tries = @ - 1]
        <5> DEFINE x == [req[p] EXCEPT !.pc = "publish", !.tries = @ - 1]
        <5>1. req' = [req EXCEPT ![p] = x] /\ x.new = req[p].new
          BY <1>a, <4>1 DEF Requeues
        <5> HIDE DEF x
        <5> QED
          BY <1>a, <5>1
      <4>2. CASE \E s : req' = [req EXCEPT ![p].pc = "reclaim", ![p].seen = s]
        <5> PICK s : req' = [req EXCEPT ![p].pc = "reclaim", ![p].seen = s]
          BY <4>2
        <5> DEFINE x == [req[p] EXCEPT !.pc = "reclaim", !.seen = s]
        <5>1. req' = [req EXCEPT ![p] = x] /\ x.new = req[p].new
          BY <1>a DEF Requeues
        <5> HIDE DEF x
        <5> QED
          BY <1>a, <5>1
      <4> QED
        BY <2>3, <4>1, <4>2
    <3> QED
      BY <2>1, <2>3, <3>1 DEF Stays
  <2> QED
    BY <1>19, <2>2, <2>3 DEF Inspect
<1>20. ASSUME NEW p \in Pipeline, Reclaim(p) PROVE Goal
  <2>1. UNCHANGED <<hand, claimed, mover, writer>>
    BY <1>20 DEF Reclaim
  <2>2. CASE NextCandidate(p)
    BY <1>a, <2>1, <2>2, StagedDropped DEF Stays
  <2>3. CASE /\ rows' = rows \/ \E q, s : rows' = [rows EXCEPT ![q] = @ \ {s}]
             /\ req' = [req EXCEPT ![p].pc = "publish", ![p].tries = @ - 1, ![p].seen = None]
    <3>1. \A s \in Pipeline : req'[s].new = req[s].new
      <4> DEFINE x == [req[p] EXCEPT !.pc = "publish", !.tries = @ - 1, !.seen = None]
      <4>a. req' = [req EXCEPT ![p].pc = "publish", ![p].tries = @ - 1, ![p].seen = None]
        BY <2>3
      <4>1. req' = [req EXCEPT ![p] = x] /\ x.new = req[p].new
        BY <1>a, <4>a DEF Requeues
      <4> HIDE DEF x
      <4> QED
        BY <1>a, <4>1
    <3>2. \A q \in Queue : rows'[q] \subseteq rows[q]
      BY <1>a, <2>3
    <3> QED
      BY <2>1, <3>1, <3>2 DEF Stays
  <2> QED
    BY <1>20, <2>2, <2>3 DEF Reclaim
<1>21. ASSUME NEW p \in Pipeline, Close(p) PROVE Goal
  BY <1>21, <1>a DEF Stays, Close, Idle, store, consumers, others, vars
<1>22. ASSUME NEW p \in Pipeline, Unmap(p) PROVE Goal
  BY <1>22, <1>a DEF Stays, Unmap, store, consumers, others, vars
<1>23. ASSUME NEW p \in Pipeline, Remap(p) PROVE Goal
  BY <1>23, <1>a DEF Stays, Remap, store, consumers, others, vars
<1>24. ASSUME NEW p \in Pipeline, BeginMove(p) PROVE Goal
  BY <1>24, <1>a DEF Stays, BeginMove, AtRest, store, consumers, others, vars
<1>25. ASSUME NEW e \in Event, MoveTake(e) PROVE Goal
  <2>1. UNCHANGED <<hand, claimed, req, writer>> /\ mover.held = None /\ mover.from \in Queue
    BY <1>25, <1>a, MoverFacts DEF MoveTake, Visits, others, consumers, TInv, MoverInv
  <2>2. CASE mover' = [mover EXCEPT !.todo = @ \ {e}] /\ rows' = rows
    BY <1>a, <2>1, <2>2 DEF Stays, Moves
  <2>3. CASE \E r \in rows[mover.from] : /\ mover' = [mover EXCEPT !.todo = @ \ {e}, !.held = r]
                                        /\ rows' = [rows EXCEPT ![mover.from] = @ \ {r}]
    <3> PICK x \in rows[mover.from] : /\ mover' = [mover EXCEPT !.todo = @ \ {e}, !.held = x]
                                     /\ rows' = [rows EXCEPT ![mover.from] = @ \ {x}]
      BY <2>3
    <3>1. x \in Refs /\ mover'.held = x
      BY <1>a, <2>1 DEF Moves
    <3>2. \A r \in Refs \ {x} : Stays(r)
      BY <1>a, <2>1, <3>1 DEF Stays
    <3>3. PICK k \in Kinds, a \in Queue \cup Writer, b \in Queue : Sits(x, k, a, b)
      BY <3>1 DEF Apart
    <3>4. k = "row" /\ a = mover.from
      BY <2>1, <3>3 DEF Sits
    <3>5. Sits(x, "move", mover.from, mover.from)'
      BY <1>a, <2>1, <3>1, <3>3, <3>4 DEF Sits
    <3> QED
      BY <2>1, <3>1, <3>2, <3>5 DEF Lands, Loose, Pending, Placed, Settled, Kinds
  <2> QED
    BY <1>25, <2>2, <2>3 DEF MoveTake
<1>26. ASSUME MoveClear PROVE Goal
  <2>1. UNCHANGED <<hand, claimed, req, writer>>
    BY <1>26 DEF MoveClear, others, consumers
  <2>2. \A q \in Queue : rows'[q] \subseteq rows[q]
    BY <1>26, <1>a DEF MoveClear, CoordinatorDies
  <2>3. mover'.held \in {mover.held, None}
    BY <1>26, <1>a DEF MoveClear, CoordinatorDies, AtRest, Moves
  <2> QED
    BY <1>a, <2>1, <2>2, <2>3 DEF Stays
<1>27. ASSUME MovePut PROVE Goal
  <2>0. PICK x \in Refs, q \in Queue : x = mover.held /\ q = mover.to
    BY <1>27, <1>a, MoverFacts DEF MovePut, TInv, MoverInv
  <2>1. UNCHANGED <<hand, claimed, req, writer>>
    BY <1>27 DEF MovePut, others, consumers
  <2>2. mover'.held = None
    <3>1. CASE mover' = AtRest
      BY <3>1 DEF AtRest
    <3>2. CASE mover' = [mover EXCEPT !.held = None, !.cleared = FALSE]
      BY <1>a, <3>2 DEF Moves
    <3> QED
      BY <1>27, <3>1, <3>2 DEF MovePut, CoordinatorDies
  <2>3. rows' = rows \/ rows' = [rows EXCEPT ![q] = (@ \ SameId(x, rows[q])) \cup {x}]
    BY <1>27, <2>0 DEF MovePut, CoordinatorDies
  <2>4. CASE rows' = rows
    BY <1>a, <2>1, <2>2, <2>4 DEF Stays
  <2>5. CASE rows' = [rows EXCEPT ![q] = (@ \ SameId(x, rows[q])) \cup {x}]
    <3>1. \A r \in Refs \ {x} : Stays(r)
      BY <1>a, <2>1, <2>2, <2>5 DEF Stays
    <3>2. PICK k \in Kinds, a \in Queue \cup Writer, b \in Queue : Sits(x, k, a, b)
      BY DEF Apart
    <3>3. k = "move"
      BY <2>0, <3>2 DEF Sits
    <3>4. Sits(x, "row", q, q)'
      BY <1>a, <2>1, <2>2, <2>5, <3>2, <3>3 DEF Sits
    <3> QED
      BY <2>0, <3>1, <3>4 DEF Lands, Loose, Pending, Placed, Settled, Kinds
  <2> QED
    BY <2>3, <2>4, <2>5
<1>28. ASSUME Terminate PROVE Goal
  BY <1>28, <1>a DEF Stays, Terminate, AtRest, store, consumers, others, vars
<1>29. ASSUME Rotate PROVE Goal
  BY <1>29, <1>a DEF Stays, Rotate, store, consumers, others, vars
<1>30. ASSUME NEW g \in 1..MaxGen, DropGeneration(g) PROVE Goal
  BY <1>30, <1>a DEF Stays, DropGeneration, store, consumers, others, vars
<1>31. ASSUME NEW p \in Pipeline, Shed(p) PROVE Goal
  BY <1>31, <1>a DEF Stays, Shed, store, consumers, others, vars
<1>32. ASSUME UNCHANGED vars PROVE Goal
  BY <1>32, <1>a DEF Stays, vars, store, consumers, others, vars
<1> QED
  BY <1>1, <1>2, <1>3, <1>4, <1>5, <1>6, <1>7, <1>8, <1>9, <1>10, <1>11, <1>12, <1>13, <1>14, <1>15, <1>16, <1>17, <1>18, <1>19, <1>20, <1>21, <1>22, <1>23, <1>24, <1>25, <1>26, <1>27, <1>28, <1>29, <1>30, <1>31, <1>32 DEF Next, WriterStep, RequeueStep, PointerStep

LEMMA ApartStep ==
  ASSUME TInv, Apart, [Next]_vars
  PROVE  Apart'
<1>1. /\ \A q \in Queue : rows[q] \subseteq Refs
      /\ \A p \in Pipeline : hand[p] \subseteq Refs /\ claimed[p] \subseteq Refs \X Queue
      /\ mover.held \in Refs \cup {None} /\ \A p \in Pipeline : req[p].new \in Refs \cup {None}
      /\ \A w \in Writer : writer[w].ref \in Refs \cup {None}
      /\ Startup \in Queue /\ Pipeline \subseteq Queue
  BY NoneIsNoRef, MoverFacts, RequeueFacts, WriterFacts DEF TInv, TablesInv
<1>2. ASSUME NEW r \in Refs PROVE Settled(r)'
  <2>1. PICK k \in Kinds, a \in Queue \cup Writer, b \in Queue : Sits(r, k, a, b)
    BY DEF Apart
  <2>2. Stays(r) => Sits(r, k, a, b)'
    BY <2>1 DEF Stays, Sits
  <2> QED
    BY <2>2, ApartMoves DEF Settled
<1>3. ASSUME NEW w \in Writer, InsertBody(w)
      PROVE  \E x : Refs' = Refs \cup {x} /\ Settled(x)'
  <2>1. PICK x : x = Fresh
    OBVIOUS
  <2>2. x \notin Refs /\ x # None /\ Refs' = Refs \cup {x}
    BY <1>3, <2>1, InsertBodyRefs
  <2>3. \A v \in Writer : writer'[v].ref = (IF v = w THEN x ELSE writer[v].ref)
    BY <1>3, <2>1 DEF InsertBody, TInv, WriterInv, Insertions
  <2>4. UNCHANGED <<rows, hand, claimed, req, mover>>
    BY <1>3 DEF InsertBody, consumers
  <2>5. Sits(x, "written", w, Startup)'
    BY <1>1, <2>2, <2>3, <2>4 DEF Sits
  <2>6. Settled(x)'
    BY <1>1, <2>5 DEF Settled, Kinds
  <2> QED
    BY <2>2, <2>6
<1>4. ASSUME NEW p \in Pipeline, Stage(p)
      PROVE  \E x : Refs' = Refs \cup {x} /\ Settled(x)'
  <2>1. PICK x : x = Fresh
    OBVIOUS
  <2>2. x \notin Refs /\ x # None /\ Refs' = Refs \cup {x}
    BY <1>4, <2>1, StageRefs
  <2>3. \A s \in Pipeline : req'[s].new = (IF s = p THEN x ELSE req[s].new)
    BY <1>4, <2>1 DEF Stage, TInv, RequeueInv, Requeues
  <2>4. UNCHANGED <<rows, hand, claimed, writer, mover>>
    BY <1>4 DEF Stage
  <2>5. Sits(x, "staged", p, Startup)'
    BY <1>1, <2>2, <2>3, <2>4 DEF Sits
  <2>6. Settled(x)'
    BY <1>1, <2>5 DEF Settled, Kinds
  <2> QED
    BY <2>2, <2>6
<1>5. \/ Refs' = Refs
      \/ \E w \in Writer : InsertBody(w)
      \/ \E p \in Pipeline : Stage(p)
  BY Writers DEF Frame, Refs, Rotate, DropGeneration
<1>6. \A r \in Refs' : Settled(r)'
  BY <1>2, <1>3, <1>4, <1>5
<1> QED
  BY <1>6 DEF Apart, Settled

LEMMA ApartInit ==
  ASSUME Init
  PROVE  Apart
BY DEF Init, Apart, Refs

LEMMA ApartIsExclusive ==
  ASSUME TInv, Apart
  PROVE  ExclusiveRef
<1> SUFFICES ASSUME NEW r \in Refs PROVE Cardinality(Places(r)) <= 1
  BY DEF ExclusiveRef
<1>1. PICK k \in Kinds, a \in Queue \cup Writer, b \in Queue : Sits(r, k, a, b)
  BY DEF Apart
<1>2. \E x : Places(r) \subseteq {x}
  <2>1. CASE mover.held = r
    <3>1. Places(r) \subseteq {<<"move", mover.from>>}
      BY <1>1, <2>1 DEF Places, Sits
    <3> QED
      BY <3>1
  <2>2. CASE mover.held # r
    <3>1. Places(r) \subseteq {<<k, a>>}
      BY <1>1, <2>2 DEF Places, Sits
    <3> QED
      BY <3>1
  <2> QED
    BY <2>1, <2>2
<1>3. PICK x : Places(r) \subseteq {x}
  BY <1>2
<1>4. IsFiniteSet({x}) /\ Cardinality({x}) = 1
  BY FS_Singleton
<1> QED
  BY <1>3, <1>4, FS_Subset, FS_CardinalityType

\* No pointer is ever in two places: two tables, a table and a producer's hands, two
\* claims, a claim and the Coordinator's move; so no two processes ack one pointer.
THEOREM IngestEventQueueExclusiveRef == Spec => []ExclusiveRef
<1>1. Init => TInv /\ Apart
  BY TypesInit, ApartInit
<1>2. TInv /\ Apart /\ [Next]_vars => TInv' /\ Apart'
  BY TypesStep, ApartStep
<1>3. TInv /\ Apart => ExclusiveRef
  BY ApartIsExclusive
<1> QED
  BY <1>1, <1>2, <1>3, PTL DEF Spec

-----------------------------------------------------------------------------
(* A pointer nobody has claimed keeps its body. *)

\* A claimed pointer is put back by nobody.
LEMMA LooseBefore ==
  ASSUME TInv, Apart, [Next]_vars, NEW r \in Refs, Loose(r)'
  PROVE  Loose(r)
<1>1. Stays(r) => Loose(r)
  BY DEF Stays, Loose
<1> QED
  BY <1>1, ApartMoves DEF Lands

\* Only a writer makes a pointer of a ref that was not one.
LEMMA PendingBefore ==
  ASSUME TInv, Apart, [Next]_vars, NEW r \in Refs, Pending(r)'
  PROVE  Pending(r) \/ \E w \in Writer : InsertPointer(w) /\ writer[w].ref = r
<1>1. Stays(r) => Pending(r)
  BY DEF Stays, Pending, Placed
<1> QED
  BY <1>1, ApartMoves DEF Lands

\* What a batcher claimed is in no table.
LEMMA ClaimedIsNotLoose ==
  ASSUME TInv, Apart, NEW p \in Pipeline, NEW q \in Queue, NEW r \in Refs, <<r, q>> \in claimed[p]
  PROVE  ~Loose(r)
<1>1. PICK k \in Kinds, a \in Queue \cup Writer, b \in Queue : Sits(r, k, a, b)
  BY DEF Apart
<1>2. k = "claim"
  BY <1>1 DEF Sits
<1> QED
  BY <1>1, <1>2 DEF Sits, Loose

\* Who deletes a body had its pointer, and does not publish it.
LEMMA Deletes ==
  ASSUME TInv, Apart, [Next]_vars
  PROVE  \A r \in body \ body' : ~Loose(r)' \/ meta[r].gen \notin gens'
<1> DEFINE Goal == \A r \in body \ body' : ~Loose(r)' \/ meta[r].gen \notin gens'
<1>a. /\ rows \in [Queue -> SUBSET Refs] /\ hand \in [Pipeline -> SUBSET Refs]
      /\ claimed \in [Pipeline -> SUBSET (Refs \X Queue)] /\ req \in [Pipeline -> Requeues]
      /\ writer \in [Writer -> Insertions] /\ Pipeline \subseteq Queue /\ Startup \in Queue
      /\ None \notin Refs /\ body \subseteq Refs
  BY NoneIsNoRef DEF TInv, TablesInv, RequeueInv, WriterInv, StoreInv
<1>b. \A r \in body \ body' : Loose(r)' => Loose(r)
  BY <1>a, LooseBefore
<1>c. ASSUME NEW p \in Pipeline, NEW q \in Queue, NEW r \in Refs, <<r, q>> \in claimed[p], body' = body \ {r}
      PROVE  Goal
  BY <1>b, <1>c, ClaimedIsNotLoose
<1>d. ASSUME NEW p \in Pipeline, NextCandidate(p) \/ GiveUp(p), UNCHANGED <<hand, claimed, mover, writer>>
      PROVE  Goal
  <2>1. PICK x : x = req[p].new
    OBVIOUS
  <2>2. body' = body \ {x}
    BY <1>d, <2>1 DEF NextCandidate, GiveUp, Unstage
  <2>3. rows' = rows /\ \A s \in Pipeline : req'[s].new = (IF s = p THEN None ELSE req[s].new)
    BY <1>d, StagedDropped
  <2>4. ASSUME x \in Refs PROVE ~Loose(x)'
    <3>1. PICK k \in Kinds, a \in Queue \cup Writer, b \in Queue : Sits(x, k, a, b)
      BY <2>4 DEF Apart
    <3>2. k = "staged" /\ a = p
      BY <2>1, <3>1 DEF Sits
    <3> QED
      BY <1>a, <1>d, <2>3, <2>4, <3>1, <3>2 DEF Sits, Loose
  <2> QED
    BY <1>a, <2>2, <2>4
<1>1. ASSUME NEW w \in Writer, InsertPointer(w) PROVE Goal
  <2>1. PICK x \in Refs : x = writer[w].ref
    BY <1>1 DEF TInv, WriterInv, OneWriter, Insertions, InsertPointer
  <2>2. \A v \in Writer : writer'[v].ref = (IF v = w THEN None ELSE writer[v].ref)
    BY <1>1, <1>a DEF InsertPointer, NextRow, Insertions
  <2>3. \/ body' = body
        \/ body' = body \ {x} /\ UNCHANGED <<rows, hand, claimed, req, mover>>
    BY <1>1, <2>1 DEF InsertPointer, consumers
  <2>4. CASE body' = body \ {x} /\ UNCHANGED <<rows, hand, claimed, req, mover>>
    <3>1. PICK k \in Kinds, a \in Queue \cup Writer, b \in Queue : Sits(x, k, a, b)
      BY DEF Apart
    <3>2. k = "written" /\ a = w
      BY <2>1, <3>1 DEF Sits
    <3>3. ~Loose(x)'
      BY <1>a, <2>2, <2>4, <3>1, <3>2 DEF Sits, Loose
    <3> QED
      BY <2>4, <3>3
  <2> QED
    BY <2>3, <2>4
<1>2. ASSUME NEW w \in Writer, Abort(w) PROVE Goal
  <2>1. PICK x : x = writer[w].ref
    OBVIOUS
  <2>2. \A v \in Writer : writer'[v].ref = (IF v = w THEN None ELSE writer[v].ref)
    <3>1. CASE writer' = [writer EXCEPT ![w].pc = "reserve", ![w].target = Startup, ![w].next = 1, ![w].ref = None]
      BY <1>a, <3>1 DEF Insertions
    <3>2. CASE writer' = [writer EXCEPT ![w].pc = "finish", ![w].ref = None]
      BY <1>a, <3>2 DEF Insertions
    <3> QED
      BY <1>2, <3>1, <3>2 DEF Abort
  <2>3. body' = body \ {x} /\ UNCHANGED <<rows, hand, claimed, req, mover>>
    BY <1>2, <2>1 DEF Abort, consumers
  <2>4. ASSUME x \in Refs PROVE ~Loose(x)'
    <3>1. PICK k \in Kinds, a \in Queue \cup Writer, b \in Queue : Sits(x, k, a, b)
      BY <2>4 DEF Apart
    <3>2. k = "written" /\ a = w
      BY <2>1, <3>1 DEF Sits
    <3> QED
      BY <1>a, <2>2, <2>3, <2>4, <3>1, <3>2 DEF Sits, Loose
  <2> QED
    BY <1>a, <2>3, <2>4
<1>3. ASSUME NEW p \in Pipeline, NEW q \in Queue, NEW r \in 1..MaxRefs, AckInserted(p, r, q) \/ DropFailed(p, r, q)
      PROVE  Goal
  <2>1. <<r, q>> \in claimed[p] /\ body' = body \ {r}
    BY <1>3 DEF AckInserted, DropFailed
  <2>2. r \in Refs
    BY <1>a, <2>1
  <2> QED
    BY <1>c, <2>1, <2>2
<1>4. ASSUME NEW p \in Pipeline, Stage(p) PROVE Goal
  BY <1>4 DEF Stage
<1>5. ASSUME NEW p \in Pipeline, Publish(p) PROVE Goal
  BY <1>5, <1>d DEF Publish
<1>6. ASSUME NEW p \in Pipeline, Inspect(p) PROVE Goal
  BY <1>6, <1>d DEF Inspect
<1>7. ASSUME NEW p \in Pipeline, Reclaim(p) PROVE Goal
  BY <1>7, <1>d DEF Reclaim
<1>8. ASSUME NEW p \in Pipeline, Close(p) PROVE Goal
  <2>1. PICK q \in Queue : <<req[p].old, q>> \in claimed[p]
    BY <1>8 DEF Close, TInv, RequeueInv, OneRequeue
  <2>2. PICK r \in Refs : r = req[p].old /\ <<r, q>> \in claimed[p]
    BY <1>a, <2>1
  <2>3. body' = body \ {r}
    BY <1>8, <2>2 DEF Close
  <2> QED
    BY <1>c, <2>2, <2>3
<1>9. ASSUME NEW p \in Pipeline, Shed(p) PROVE Goal
  <2>1. PICK S \in SUBSET rows[p] : rows' = [rows EXCEPT ![p] = @ \ S] /\ body' = body \ S
    BY <1>9 DEF Shed
  <2>2. UNCHANGED <<hand, claimed, req, mover, writer>>
    BY <1>9 DEF Shed, consumers
  <2>3. ASSUME NEW x \in S PROVE ~Loose(x)'
    <3>1. x \in Refs /\ x \in rows[p]
      BY <1>a
    <3>2. PICK k \in Kinds, a \in Queue \cup Writer, b \in Queue : Sits(x, k, a, b)
      BY <3>1 DEF Apart
    <3>3. k = "row" /\ a = p
      BY <1>a, <3>1, <3>2 DEF Sits
    <3> QED
      BY <1>a, <2>1, <2>2, <3>1, <3>2, <3>3 DEF Sits, Loose
  <2> QED
    BY <2>1, <2>3
<1>10. ASSUME NEW g \in 1..MaxGen, DropGeneration(g) PROVE Goal
  BY <1>10 DEF DropGeneration
<1>11. body \subseteq body' \/ Deleting
  BY Writers DEF Frame
<1> QED
  BY <1>1, <1>2, <1>3, <1>4, <1>5, <1>6, <1>7, <1>8, <1>9, <1>10, <1>11 DEF Deleting, RequeueStep

LEMMA BodyKeptStep ==
  ASSUME TInv, Apart, BodyKept, [Next]_vars
  PROVE  BodyKept'
<1>1. \A r \in Refs : meta'[r] = meta[r] /\ (Loose(r)' => Loose(r))
  BY StoreStep, LooseBefore DEF MetaGrows
<1>2. \A r \in Refs : meta[r].gen \in gens' => meta[r].gen \in gens
  <2>1. CASE gens' \subseteq gens
    BY <2>1
  <2>2. CASE Rotate
    <3>1. gens' = gens \cup {cur + 1}
      BY <2>2 DEF Rotate
    <3>2. \A r \in Refs : meta[r].gen <= cur /\ meta[r].gen \in 1..MaxGen /\ cur \in 1..MaxGen
      BY RefFacts DEF TInv, MetaInv, StoreInv
    <3>3. MaxGen \in Nat
      BY ConstantsAssumption
    <3> QED
      BY <3>1, <3>2, <3>3
  <2> QED
    BY <2>1, <2>2, Writers DEF Frame, InsertBody, Stage, DropGeneration
<1>3. ASSUME NEW r \in Refs, Loose(r)', meta'[r].gen \in gens' PROVE r \in body'
  <2>1. Loose(r) /\ meta[r].gen \in gens /\ meta[r].gen \in gens'
    BY <1>1, <1>2, <1>3
  <2>2. r \in body
    BY <2>1 DEF BodyKept
  <2> QED
    BY <1>3, <2>1, <2>2, Deletes
<1>4. Refs' \subseteq Refs \cup body'
  BY InsertBodyRefs, StageRefs, Writers DEF Frame, Refs, InsertBody, Stage, Rotate, DropGeneration
<1> QED
  BY <1>3, <1>4 DEF BodyKept

\* A pointer that can be claimed has its body, unless its generation is gone: no
\* order of insertion, undoing, requeueing, moving, shedding and acking deletes the
\* body of a pointer somebody may still claim.
THEOREM IngestEventQueuePublishedHasBody == Spec => []PublishedHasBody
<1>1. Init => TInv /\ Apart /\ BodyKept
  <2>1. Init => BodyKept
    BY DEF Init, BodyKept, Refs
  <2> QED
    BY <2>1, TypesInit, ApartInit
<1>2. TInv /\ Apart /\ BodyKept /\ [Next]_vars => TInv' /\ Apart' /\ BodyKept'
  BY TypesStep, ApartStep, BodyKeptStep
<1>3. TInv /\ BodyKept => PublishedHasBody
  BY DEF TInv, TablesInv, BodyKept, Loose, PublishedHasBody
<1> QED
  BY <1>1, <1>2, <1>3, PTL DEF Spec

-----------------------------------------------------------------------------
(* No event vanishes. *)

LEMMA NoSeedsStep ==
  ASSUME TInv, NoSeedsLeft, [Next]_vars
  PROVE  NoSeedsLeft'
<1>1. /\ status \in [Queue -> Status] /\ hand \in [Pipeline -> SUBSET Refs] /\ Pipeline \subseteq Queue
      /\ mover.from \in Pipeline \cup {None} /\ None \notin Queue
  BY NoneIsNoRef, MoverFacts DEF TInv, TablesInv
<1>2. ASSUME NEW p \in Pipeline, Start(p) PROVE NoSeedsLeft'
  BY <1>1, <1>2 DEF Start, NoSeedsLeft, Alive
<1>3. ASSUME NEW p \in Pipeline, ProducerDies(p) PROVE NoSeedsLeft'
  BY <1>1, <1>3 DEF ProducerDies, NoSeedsLeft, Alive
<1>4. ASSUME NEW p \in Pipeline, NEW r \in 1..MaxRefs, SeedPut(p, r) PROVE NoSeedsLeft'
  BY <1>1, <1>4 DEF SeedPut, NoSeedsLeft, Alive
<1>5. ASSUME NEW p \in Pipeline, Unmap(p) \/ Remap(p) PROVE NoSeedsLeft'
  BY <1>1, <1>5 DEF Unmap, Remap, NoSeedsLeft, Alive, others, consumers
<1>6. ASSUME Terminate PROVE NoSeedsLeft'
  BY <1>1, <1>6 DEF Terminate, NoSeedsLeft, Alive, others, consumers
<1>7. CASE UNCHANGED <<status, hand>>
  BY <1>7 DEF NoSeedsLeft, Alive
<1> QED
  BY <1>2, <1>3, <1>4, <1>5, <1>6, <1>7, Writers DEF Frame, Seeding

LEMMA Loses ==
  ASSUME NEW E, NEW why, Lose(E, why)
  PROVE  \A e \in E : \E l \in lost' : l[1] = e
<1>1. \A e \in E : <<e, why>> \in lost'
  BY DEF Lose
<1>2. \A e \in E : <<e, why>>[1] = e
  OBVIOUS
<1> QED
  BY <1>1, <1>2

\* The event of r was inserted, or went one of the ways the code counts as a loss.
Gone(r) == EventOf(r) \in processed' \/ \E l \in lost' : l[1] = EventOf(r)

\* r was replaced by the pointer it was requeued as.
Replaced(r) == \E p \in Pipeline : Close(p) /\ req[p].old = r /\ req[p].why = "requeued"

LEMMA PlaceKept ==
  ASSUME TInv, NoSeedsLeft, [Next]_vars
  PROVE  \A r \in Refs : Placed(r) => Placed(r)' \/ Gone(r) \/ Replaced(r)
<1> DEFINE Goal == \A r \in Refs : Placed(r) => Placed(r)' \/ Gone(r) \/ Replaced(r)
<1>a. /\ rows \in [Queue -> SUBSET Refs] /\ hand \in [Pipeline -> SUBSET Refs]
      /\ claimed \in [Pipeline -> SUBSET (Refs \X Queue)]
      /\ Pipeline \subseteq Queue /\ Startup \in Queue /\ Startup \notin Pipeline
      /\ mover \in Moves /\ None \notin Refs
  BY NoneIsNoRef DEF TInv, TablesInv, RequeueInv, WriterInv, MoverInv
<1>0. CASE UNCHANGED <<rows, hand, claimed, mover>>
  BY <1>0 DEF Placed
<1>4. ASSUME NEW w \in Writer, InsertPointer(w) PROVE Goal
  BY <1>4, <1>a DEF Placed, InsertPointer, consumers
<1>7. ASSUME NEW p \in Pipeline, Start(p) PROVE Goal
  <2>1. PICK S \in SUBSET rows[Startup] : /\ hand' = [hand EXCEPT ![p] = S]
                                        /\ rows' = [rows EXCEPT ![Startup] = @ \ S]
    BY <1>7 DEF Start
  <2>2. UNCHANGED <<claimed, mover>> /\ hand[p] = {}
    BY <1>7 DEF Start, NoSeedsLeft, Alive
  <2> QED
    BY <1>a, <2>1, <2>2 DEF Placed
<1>8. ASSUME NEW p \in Pipeline, NEW r \in 1..MaxRefs, SeedPut(p, r) PROVE Goal
  <2>1. PICK S : S = SameId(r, rows[p])
    OBVIOUS
  <2>2. rows' = [rows EXCEPT ![p] = (@ \ S) \cup {r}] /\ hand' = [hand EXCEPT ![p] = @ \ {r}]
        /\ UNCHANGED <<claimed, mover>> /\ Lose({EventOf(s) : s \in S}, "overwritten")
    BY <1>8, <2>1 DEF SeedPut
  <2>3. \A x \in S : Gone(x)
    BY <2>2, Loses DEF Gone
  <2> QED
    BY <1>a, <2>2, <2>3 DEF Placed
<1>9. ASSUME NEW p \in Pipeline, NEW q \in Queue, NEW r \in 1..MaxRefs, Claim(p, q, r) PROVE Goal
  BY <1>9, <1>a DEF Placed, Claim
<1>10. ASSUME NEW p \in Pipeline, ProducerDies(p) PROVE Goal
  <2>1. \A x \in rows[p] \cup hand[p] : Gone(x)
    <3>1. Lose({EventOf(x) : x \in rows[p] \cup hand[p]}, "crash")
      BY <1>10 DEF ProducerDies
    <3> QED
      BY <3>1, Loses DEF Gone
  <2> QED
    BY <1>10, <1>a, <2>1 DEF Placed, ProducerDies
<1>12. ASSUME NEW p \in Pipeline, NEW q \in Queue, NEW r \in 1..MaxRefs, AckInserted(p, r, q) PROVE Goal
  <2>1. Gone(r) /\ claimed' = [claimed EXCEPT ![p] = @ \ {<<r, q>>}] /\ UNCHANGED <<rows, hand, mover>>
    BY <1>12 DEF AckInserted, Take, Gone
  <2> QED
    BY <1>a, <2>1 DEF Placed
<1>13. ASSUME NEW p \in Pipeline, NEW q \in Queue, NEW r \in 1..MaxRefs, DropFailed(p, r, q) \/ LookupMiss(p, r, q)
       PROVE  Goal
  <2>1. Lose({EventOf(r)}, "dropped") \/ Lose({EventOf(r)}, "expired")
    BY <1>13 DEF DropFailed, LookupMiss
  <2>2. Gone(r)
    BY <2>1, Loses DEF Gone
  <2>3. claimed' = [claimed EXCEPT ![p] = @ \ {<<r, q>>}] /\ UNCHANGED <<rows, hand, mover>>
    BY <1>13 DEF DropFailed, LookupMiss, Take
  <2> QED
    BY <1>a, <2>2, <2>3 DEF Placed
<1>15. ASSUME NEW p \in Pipeline, ProcessorsDie(p) PROVE Goal
  <2>1. \A c \in claimed[p] : Gone(c[1])
    <3>1. Lose({EventOf(c[1]) : c \in claimed[p]}, "crash")
      BY <1>15 DEF ProcessorsDie
    <3> QED
      BY <3>1, Loses DEF Gone
  <2>2. \A r \in Refs, q \in Queue : <<r, q>> \in claimed[p] => Gone(r)
    BY <2>1
  <2> QED
    BY <1>15, <1>a, <2>2 DEF Placed, ProcessorsDie
<1>18. ASSUME NEW p \in Pipeline, Publish(p) PROVE Goal
  <2>1. rows' = rows \/ \E q : rows' = [rows EXCEPT ![q] = @ \cup {req[p].new}]
    BY <1>18 DEF Publish, NextCandidate, GiveUp
  <2>2. \A q \in Queue : rows[q] \subseteq rows'[q]
    BY <1>a, <2>1
  <2>3. UNCHANGED <<hand, claimed, mover>>
    BY <1>18 DEF Publish
  <2> QED
    BY <2>2, <2>3 DEF Placed
<1>20. ASSUME NEW p \in Pipeline, Reclaim(p) PROVE Goal
  <2>1. PICK q, s : q = req[p].target /\ s = req[p].seen
    OBVIOUS
  <2>2. rows' = rows \/ (rows' = [rows EXCEPT ![q] = @ \ {s}] /\ Lose({EventOf(s)}, "expired"))
    BY <1>20, <2>1 DEF Reclaim, NextCandidate
  <2>3. UNCHANGED <<hand, claimed, mover>>
    BY <1>20 DEF Reclaim
  <2>4. CASE rows' = rows
    BY <2>3, <2>4 DEF Placed
  <2>5. CASE rows' = [rows EXCEPT ![q] = @ \ {s}] /\ Lose({EventOf(s)}, "expired")
    <3>1. Gone(s)
      BY <2>5, Loses DEF Gone
    <3> QED
      BY <1>a, <2>3, <2>5, <3>1 DEF Placed
  <2> QED
    BY <2>2, <2>4, <2>5
<1>21. ASSUME NEW p \in Pipeline, Close(p) PROVE Goal
  <2>1. PICK x : x = req[p].old
    OBVIOUS
  <2>2. claimed' = [claimed EXCEPT ![p] = {c \in @ : c[1] # x}] /\ UNCHANGED <<rows, hand, mover>>
    BY <1>21, <2>1 DEF Close
  <2>3. Gone(x) \/ Replaced(x)
    <3>1. CASE req[p].why = "requeued"
      BY <1>21, <2>1, <3>1 DEF Replaced
    <3>2. CASE req[p].why # "requeued"
      <4>1. Lose({EventOf(x)}, req[p].why)
        BY <1>21, <2>1, <3>2 DEF Close
      <4> QED
        BY <4>1, Loses DEF Gone
    <3> QED
      BY <3>1, <3>2
  <2>4. \A r \in Refs \ {x}, q \in Queue : \A s \in Pipeline : <<r, q>> \in claimed[s] => <<r, q>> \in claimed'[s]
    BY <1>a, <2>2
  <2> QED
    BY <1>a, <2>2, <2>3, <2>4 DEF Placed
<1>24. ASSUME NEW p \in Pipeline, BeginMove(p) PROVE Goal
  <2>1. UNCHANGED <<rows, hand, claimed>> /\ mover.held = None
    BY <1>24 DEF BeginMove, AtRest, others, consumers
  <2> QED
    BY <1>a, <2>1 DEF Placed
<1>25. ASSUME NEW e \in Event, MoveTake(e) PROVE Goal
  <2>1. UNCHANGED <<hand, claimed>> /\ mover.held = None
    BY <1>25 DEF MoveTake, Visits, others, consumers
  <2>2. CASE rows' = rows
    BY <1>a, <2>1, <2>2 DEF Placed
  <2>3. CASE \E x \in rows[mover.from] : /\ mover' = [mover EXCEPT !.todo = @ \ {e}, !.held = x]
                                        /\ rows' = [rows EXCEPT ![mover.from] = @ \ {x}]
    BY <1>a, <2>1, <2>3 DEF Placed, Moves
  <2> QED
    BY <1>25, <2>2, <2>3 DEF MoveTake
<1>26. ASSUME MoveClear \/ MovePut PROVE Goal
  <2>1. UNCHANGED <<hand, claimed>>
    BY <1>26 DEF MoveClear, MovePut, others, consumers
  <2>2. CASE CoordinatorDies
    <3>1. Gone(mover.held) /\ rows' = rows
      BY <2>2, Loses DEF CoordinatorDies, Gone
    <3> QED
      BY <1>a, <2>1, <3>1 DEF Placed
  <2>3. PICK q, S : q = mover.to /\ S = SameId(mover.held, rows[mover.to])
    OBVIOUS
  <2>4. CASE /\ rows' = [rows EXCEPT ![q] = @ \ S] /\ Lose({EventOf(r) : r \in S}, "duplicate")
             /\ mover' = [mover EXCEPT !.cleared = TRUE]
    <3>1. \A x \in S : Gone(x)
      BY <2>4, Loses DEF Gone
    <3>2. mover'.held = mover.held
      BY <1>a, <2>4 DEF Moves
    <3>3. \A r \in Refs, s \in Queue : r \in rows[s] => r \in S \/ r \in rows'[s]
      BY <1>a, <2>4
    <3> QED
      BY <1>a, <2>1, <3>1, <3>2, <3>3 DEF Placed
  <2>5. CASE /\ rows' = [rows EXCEPT ![q] = (@ \ S) \cup {mover.held}]
             /\ Lose({EventOf(r) : r \in S}, "overwritten") /\ q \in Queue
    <3>1. \A x \in S : Gone(x)
      BY <2>5, Loses DEF Gone
    <3>2. mover.held \in rows'[q]
      BY <1>a, <2>5
    <3>3. \A r \in Refs, s \in Queue : r \in rows[s] => r \in S \/ r \in rows'[s]
      BY <1>a, <2>5
    <3> QED
      BY <1>a, <2>1, <2>5, <3>1, <3>2, <3>3 DEF Placed
  <2>6. MovePut => mover.to \in Queue
    BY MoverFacts DEF MovePut, TInv, MoverInv
  <2> QED
    BY <1>26, <2>2, <2>3, <2>4, <2>5, <2>6 DEF MoveClear, MovePut
<1>28. ASSUME Terminate PROVE Goal
  <2>1. \A x \in rows[mover.from] : Gone(x)
    BY <1>28, Loses DEF Terminate, Gone
  <2> QED
    BY <1>28, <1>a, <2>1 DEF Placed, Terminate, others, consumers
<1>31. ASSUME NEW p \in Pipeline, Shed(p) PROVE Goal
  <2>1. PICK S \in SUBSET rows[p] : /\ rows' = [rows EXCEPT ![p] = @ \ S]
                                  /\ Lose({EventOf(r) : r \in S}, "shed")
    BY <1>31 DEF Shed
  <2>2. \A x \in S : Gone(x)
    BY <2>1, Loses DEF Gone
  <2>3. UNCHANGED <<hand, claimed, mover>>
    BY <1>31 DEF Shed, consumers
  <2> QED
    BY <1>a, <2>1, <2>2, <2>3 DEF Placed
<1> QED
  BY <1>0, <1>4, <1>7, <1>8, <1>9, <1>10, <1>12, <1>13, <1>15, <1>18, <1>20, <1>21, <1>24, <1>25, <1>26, <1>28, <1>31,
     Writers DEF Frame, RowMoving, Seeding, Claiming, Moving

\* Pointers are requeued one at a time, and an event accounted for stays so: by a
\* later ref each time.
LEMMA SafeGoesOn ==
  ASSUME TInv, NoSeedsLeft, Accounted, [Next]_vars, NEW e, NEW r0 \in Nat, SafeAfter(e, r0)
  PROVE  SafeAfter(e, r0)'
<1>1. /\ MetaGrows /\ MetaInv' /\ processed \subseteq processed' /\ lost \subseteq lost'
      /\ Refs \subseteq Nat /\ req \in [Pipeline -> Requeues]
  BY StoreStep, Writers, NoneIsNoRef DEF Frame, TInv, RequeueInv
<1>2. CASE e \in processed \/ \E l \in lost : l[1] = e
  BY <1>1, <1>2 DEF SafeAfter
<1>3. ASSUME NEW r \in Refs, r > r0, EventOf(r) = e, Placed(r)' \/ Gone(r) PROVE SafeAfter(e, r0)'
  BY <1>1, <1>3 DEF SafeAfter, Gone, MetaGrows, EventOf
<1>4. ASSUME NEW r \in Refs, r > r0, EventOf(r) = e, Placed(r) PROVE SafeAfter(e, r0)'
  <2>1. CASE Placed(r)' \/ Gone(r)
    BY <1>3, <1>4, <2>1
  <2>2. CASE Replaced(r)
    <3>1. PICK p \in Pipeline : Close(p) /\ req[p].old = r /\ req[p].why = "requeued"
      BY <2>2 DEF Replaced
    <3>2. SafeAfter(e, r)
      BY <1>4, <3>1 DEF Accounted, Close
    <3>3. ASSUME NEW s \in Refs, s > r, EventOf(s) = e, Placed(s) PROVE SafeAfter(e, r0)'
      <4>1. ~Replaced(s)
        <5>1. SUFFICES ASSUME NEW t \in Pipeline, Close(t), req[t].old = s PROVE FALSE
          BY DEF Replaced
        <5>2. t # p
          BY <1>1, <3>1, <3>3, <5>1
        <5>3. req' = [req EXCEPT ![p] = Idle] /\ req' = [req EXCEPT ![t] = Idle] /\ req[t].pc = "close"
          BY <3>1, <5>1 DEF Close
        <5>4. req[t] = Idle
          BY <1>1, <5>2, <5>3
        <5> QED
          BY <5>3, <5>4 DEF Idle
      <4>2. Placed(s)' \/ Gone(s)
        BY <3>3, <4>1, PlaceKept
      <4>3. s > r0
        BY <1>1, <1>4, <3>3
      <4> QED
        BY <1>3, <3>3, <4>2, <4>3
    <3> QED
      BY <1>2, <3>2, <3>3 DEF SafeAfter
  <2> QED
    BY <1>4, <2>1, <2>2, PlaceKept
<1> QED
  BY <1>2, <1>4 DEF SafeAfter

\* What a step makes of the batcher's s requeueing.
RequeueStays(s) == req'[s].new = req[s].new /\ req'[s].old = req[s].old
Outcome(s) ==
  \/ req'[s] = req[s]
  \/ req'[s].pc # "close" /\ (req'[s].new = None \/ RequeueStays(s))
  \/ req'[s].why # "requeued" /\ req'[s].new = None
  \/ Stage(s)
  \/ /\ req'[s].new = None /\ req'[s].old = req[s].old /\ req[s].new \in Refs
     /\ \E q \in Queue : req[s].new \in rows'[q]

LEMMA Outcomes ==
  ASSUME TInv, [Next]_vars
  PROVE  \A s \in Pipeline : Outcome(s)
<1> DEFINE Goal == \A s \in Pipeline : Outcome(s)
<1>a. req \in [Pipeline -> Requeues] /\ rows \in [Queue -> SUBSET Refs]
  BY DEF TInv, RequeueInv, TablesInv
<1>b. ASSUME NEW p \in Pipeline, NEW x, req' = [req EXCEPT ![p] = x], Outcome(p) PROVE Goal
  <2>1. \A s \in Pipeline : s # p => req'[s] = req[s]
    BY <1>a, <1>b
  <2> QED
    BY <1>b, <2>1 DEF Outcome
<1>1. ASSUME NEW p \in Pipeline, ProcessorsDie(p) \/ Close(p) PROVE Goal
  <2>1. req' = [req EXCEPT ![p] = Idle]
    BY <1>1 DEF ProcessorsDie, Close
  <2>2. req'[p] = Idle
    BY <1>a, <2>1
  <2> QED
    BY <1>b, <2>1, <2>2 DEF Outcome, Idle
<1>2. ASSUME NEW p \in Pipeline, NEW q \in Queue, NEW r, Requeue(p, r, q) PROVE Goal
  <2>1. PICK x : /\ x = [Idle EXCEPT !.pc = "stage", !.old = r, !.target = q, !.todo = {c \in Queue : Mapped(c)} \ {q}]
                 /\ req' = [req EXCEPT ![p] = x]
    BY <1>2 DEF Requeue
  <2>2. req'[p] = x /\ x.pc = "stage" /\ x.new = None
    BY <1>a, <2>1 DEF Idle
  <2> QED
    BY <1>b, <2>1, <2>2 DEF Outcome
<1>3. ASSUME NEW p \in Pipeline, Stage(p) PROVE Goal
  <2>1. \A s \in Pipeline : s # p => req'[s] = req[s]
    BY <1>a, <1>3 DEF Stage
  <2> QED
    BY <1>3, <2>1 DEF Outcome
<1>4. ASSUME NEW p \in Pipeline, NextCandidate(p) \/ GiveUp(p) PROVE Goal
  <2>1. CASE \E y \in {"no queue", "duplicate"} :
               req' = [req EXCEPT ![p].pc = "close", ![p].new = None, ![p].why = y]
    <3> PICK y \in {"no queue", "duplicate"} :
               req' = [req EXCEPT ![p].pc = "close", ![p].new = None, ![p].why = y]
      BY <2>1
    <3>1. PICK x : x = [req[p] EXCEPT !.pc = "close", !.new = None, !.why = y]
      OBVIOUS
    <3>2. req' = [req EXCEPT ![p] = x] /\ req'[p] = x
      BY <1>a, <3>1
    <3>3. x.new = None /\ x.why # "requeued"
      BY <1>a, <3>1 DEF Requeues
    <3> QED
      BY <1>b, <3>2, <3>3 DEF Outcome
  <2>2. CASE \E q \in req[p].todo : req' = [req EXCEPT ![p].pc = "stage", ![p].new = None, ![p].target = q,
                                                       ![p].todo = @ \ {q}]
    <3> PICK q \in req[p].todo : req' = [req EXCEPT ![p].pc = "stage", ![p].new = None, ![p].target = q,
                                                    ![p].todo = @ \ {q}]
      BY <2>2
    <3>1. PICK x : x = [req[p] EXCEPT !.pc = "stage", !.new = None, !.target = q, !.todo = @ \ {q}]
      OBVIOUS
    <3>2. req' = [req EXCEPT ![p] = x] /\ req'[p] = x
      BY <1>a, <3>1
    <3>3. x.new = None /\ x.pc = "stage"
      BY <1>a, <3>1 DEF Requeues
    <3> QED
      BY <1>b, <3>2, <3>3 DEF Outcome
  <2> QED
    BY <1>4, <2>1, <2>2 DEF NextCandidate, GiveUp
<1>5. ASSUME NEW p \in Pipeline, Publish(p) PROVE Goal
  <2>1. PICK r \in Refs, q \in Queue : r = req[p].new /\ q = req[p].target
    BY <1>5, RequeueFacts DEF Publish, TInv, RequeueInv, OneRequeue
  <2>2. CASE req' = [req EXCEPT ![p].pc = "close", ![p].new = None] /\ rows' = [rows EXCEPT ![q] = @ \cup {r}]
    <3>1. PICK x : x = [req[p] EXCEPT !.pc = "close", !.new = None]
      OBVIOUS
    <3>2. req' = [req EXCEPT ![p] = x] /\ req'[p] = x /\ r \in rows'[q]
      BY <1>a, <2>2, <3>1
    <3>3. x.new = None /\ x.old = req[p].old
      BY <1>a, <3>1 DEF Requeues
    <3> QED
      BY <1>b, <2>1, <3>2, <3>3 DEF Outcome
  <2>3. CASE req' = [req EXCEPT ![p].pc = "inspect"]
    <3>1. PICK x : x = [req[p] EXCEPT !.pc = "inspect"]
      OBVIOUS
    <3>2. req' = [req EXCEPT ![p] = x] /\ req'[p] = x
      BY <1>a, <2>3, <3>1
    <3>3. x.new = req[p].new /\ x.old = req[p].old /\ x.pc = "inspect"
      BY <1>a, <3>1 DEF Requeues
    <3> QED
      BY <1>b, <3>2, <3>3 DEF Outcome, RequeueStays
  <2> QED
    BY <1>4, <1>5, <2>1, <2>2, <2>3 DEF Publish
<1>6. ASSUME NEW p \in Pipeline, Inspect(p) \/ Reclaim(p) PROVE Goal
  <2>1. ASSUME NEW x, x.new = req[p].new, x.old = req[p].old, x.pc # "close", req' = [req EXCEPT ![p] = x]
        PROVE  Goal
    <3>1. req'[p] = x
      BY <1>a, <2>1
    <3> QED
      BY <1>b, <2>1, <3>1 DEF Outcome, RequeueStays
  <2>2. CASE req' = [req EXCEPT ![p].pc = "publish", ![p].tries = @ - 1]
    <3>1. PICK x : x = [req[p] EXCEPT !.pc = "publish", !.tries = @ - 1]
      OBVIOUS
    <3>2. x.new = req[p].new /\ x.old = req[p].old /\ x.pc # "close" /\ req' = [req EXCEPT ![p] = x]
      BY <1>a, <2>2, <3>1 DEF Requeues
    <3> QED
      BY <2>1, <3>2
  <2>3. CASE \E s : req' = [req EXCEPT ![p].pc = "reclaim", ![p].seen = s]
    <3> PICK s : req' = [req EXCEPT ![p].pc = "reclaim", ![p].seen = s]
      BY <2>3
    <3>1. PICK x : x = [req[p] EXCEPT !.pc = "reclaim", !.seen = s]
      OBVIOUS
    <3>2. x.new = req[p].new /\ x.old = req[p].old /\ x.pc # "close" /\ req' = [req EXCEPT ![p] = x]
      BY <1>a, <3>1 DEF Requeues
    <3> QED
      BY <2>1, <3>2
  <2>4. CASE req' = [req EXCEPT ![p].pc = "publish", ![p].tries = @ - 1, ![p].seen = None]
    <3>1. PICK x : x = [req[p] EXCEPT !.pc = "publish", !.tries = @ - 1, !.seen = None]
      OBVIOUS
    <3>2. x.new = req[p].new /\ x.old = req[p].old /\ x.pc # "close" /\ req' = [req EXCEPT ![p] = x]
      BY <1>a, <2>4, <3>1 DEF Requeues
    <3> QED
      BY <2>1, <3>2
  <2> QED
    BY <1>4, <1>6, <2>2, <2>3, <2>4 DEF Inspect, Reclaim
<1>7. CASE UNCHANGED req
  BY <1>7 DEF Outcome
<1> QED
  BY <1>1, <1>2, <1>3, <1>4, <1>5, <1>6, <1>7, Writers DEF Frame, Requeueing, RequeueStep

\* A writer is through with an event when its pointer is in, or it lost the event.
LEMMA ThroughNext ==
  ASSUME TInv, [Next]_vars, NEW w \in Writer, NEW n \in DOMAIN Batch(w), NEW e, e = Batch(w)[n], Through(w, n)'
  PROVE  Through(w, n) \/ SafeAfter(e, 0)'
<1>a. writer \in [Writer -> Insertions] /\ OneWriter(w) /\ n \in 1..Len(Batch(w)) /\ Len(Batch(w)) \in Nat
  BY ConstantsAssumption DEF TInv, WriterInv, Batch
<1>b. ASSUME Lose(Rest(w), "refused"), n >= writer[w].next PROVE SafeAfter(e, 0)'
  <2>1. e \in Rest(w)
    BY <1>a, <1>b, WriterFacts DEF Rest, TInv
  <2> QED
    BY <1>b, <2>1, Loses DEF SafeAfter
<1>1. CASE writer'[w] = writer[w]
  BY <1>1 DEF Through
<1>2. ASSUME NEW v \in Writer, WriterStep(v), v # w PROVE writer'[w] = writer[w]
  BY <1>a, <1>2 DEF WriterStep, Pick, Reserve, InsertBody, InsertPointer, NextRow, Abort, Finish
<1>3. CASE Pick(w)
  <2>1. CASE \E q : writer' = [writer EXCEPT ![w].pc = "reserve", ![w].target = q]
    <3>1. writer'[w].pc = "reserve"
      BY <1>a, <2>1 DEF Insertions
    <3> QED
      BY <3>1 DEF Through
  <2>2. CASE Lose(Rest(w), "refused")
    <3>1. writer[w].next = 1
      BY <1>a, <1>3 DEF Pick, OneWriter
    <3> QED
      BY <1>a, <1>b, <2>2, <3>1
  <2> QED
    BY <1>3, <2>1, <2>2 DEF Pick
<1>4. CASE Reserve(w)
  <2>1. writer[w].next = 1
    BY <1>a, <1>4 DEF Reserve, OneWriter
  <2>2. writer'[w].pc = "body" /\ writer'[w].next = 1
    BY <1>a, <1>4, <2>1 DEF Reserve, Insertions
  <2> QED
    BY <1>a, <2>2 DEF Through
<1>5. CASE InsertBody(w)
  <2>1. writer[w].pc = "body" /\ writer'[w].pc = "pointer" /\ writer'[w].next = writer[w].next
    BY <1>a, <1>5 DEF InsertBody, Insertions
  <2> QED
    BY <2>1 DEF Through
<1>6. CASE InsertPointer(w)
  <2>1. PICK x \in Refs, q \in Queue : x = writer[w].ref /\ q = writer[w].target
    BY <1>6, WriterFacts DEF TInv, WriterInv, OneWriter, InsertPointer
  <2>2. /\ writer[w].pc = "pointer" /\ writer'[w].next = writer[w].next + 1
        /\ writer'[w].pc = (IF writer[w].next + 1 > Len(Batch(w)) THEN "finish" ELSE "body")
        /\ writer[w].next \in Nat
    BY <1>a, <1>6, WriterFacts DEF InsertPointer, NextRow, Insertions, TInv
  <2>3. n <= writer[w].next
    BY <1>a, <2>2 DEF Through
  <2>4. CASE n = writer[w].next
    <3>1. EventOf(x) = e /\ x \in Refs' /\ meta'[x] = meta[x] /\ x > 0
      BY <1>a, <2>1, <2>2, <2>4, StoreStep DEF OneWriter, MetaGrows, Refs
    <3>2. (EventOf(x) = e)'
      BY <3>1 DEF EventOf
    <3>3. rows' = [rows EXCEPT ![q] = @ \cup {x}] \/ Lose({EventOf(x)}, "duplicate")
      BY <1>6, <2>1 DEF InsertPointer
    <3>4. x \in rows'[q] \/ \E l \in lost' : l[1] = EventOf(x)
      BY <3>3, Loses DEF TInv, TablesInv
    <3> QED
      BY <3>1, <3>2, <3>4 DEF SafeAfter, Placed
  <2>5. CASE n < writer[w].next
    BY <2>2, <2>5 DEF Through
  <2> QED
    BY <1>a, <2>2, <2>3, <2>4, <2>5
<1>7. CASE Abort(w)
  <2>1. writer[w].pc \in {"body", "pointer"}
    BY <1>7 DEF Abort, Raises
  <2>2. CASE writer' = [writer EXCEPT ![w].pc = "reserve", ![w].target = Startup, ![w].next = 1, ![w].ref = None]
    <3>1. writer'[w].pc = "reserve"
      BY <1>a, <2>2 DEF Insertions
    <3> QED
      BY <3>1 DEF Through
  <2>3. CASE Lose(Rest(w), "refused")
    <3>1. n >= writer[w].next \/ n < writer[w].next
      BY <1>a, WriterFacts DEF TInv
    <3> QED
      BY <1>b, <2>1, <2>3, <3>1 DEF Through
  <2> QED
    BY <1>7, <2>2, <2>3 DEF Abort
<1>8. CASE Finish(w)
  BY <1>a, <1>8 DEF Finish, Through
<1> QED
  BY <1>1, <1>2, <1>3, <1>4, <1>5, <1>6, <1>7, <1>8, Writers DEF Frame, Writing, WriterStep

LEMMA AccountedStep ==
  ASSUME TInv, NoSeedsLeft, Accounted, [Next]_vars
  PROVE  Accounted'
<1>1. /\ MetaGrows /\ MetaInv' /\ Refs \subseteq Nat /\ None \notin Refs /\ Len(meta) \in Nat
      /\ RequeueInv
  BY StoreStep, NoneIsNoRef DEF TInv
<1>2. ASSUME NEW w \in Writer, NEW n \in DOMAIN Batch(w), Through(w, n)'
      PROVE  SafeAfter(Batch(w)[n], 0)'
  <2>1. PICK e : e = Batch(w)[n]
    OBVIOUS
  <2>2. Through(w, n) => SafeAfter(e, 0)
    BY <2>1 DEF Accounted
  <2>3. SafeAfter(e, 0)'
    BY <1>2, <2>1, <2>2, ThroughNext, SafeGoesOn
  <2> QED
    BY <2>1, <2>3 DEF Batch
<1>3. ASSUME NEW p \in Pipeline, req'[p].new # None PROVE req'[p].new > req'[p].old
  <2>1. CASE req'[p].new = req[p].new /\ req'[p].old = req[p].old
    BY <1>3, <2>1 DEF Accounted
  <2>2. CASE Stage(p)
    <3>1. req'[p].new = Fresh /\ req'[p].old = req[p].old
      BY <1>1, <2>2 DEF Stage, RequeueInv, Requeues
    <3>2. req[p].old \in Refs
      BY <2>2, StageRefs
    <3> QED
      BY <1>1, <3>1, <3>2 DEF Fresh, Refs
  <2> QED
    BY <1>3, <2>1, <2>2, Outcomes DEF Outcome, RequeueStays
<1>4. ASSUME NEW p \in Pipeline, req'[p].pc = "close", req'[p].why = "requeued"
      PROVE  \E e, r : r = req'[p].old /\ e = meta'[r].event /\ SafeAfter(e, r)'
  <2>1. req[p].old \in Refs \cup {None} /\ req \in [Pipeline -> Requeues] /\ OneRequeue(p)
    BY <1>1, RequeueFacts DEF RequeueInv
  <2>2. CASE req'[p] = req[p]
    <3>1. PICK r, e : r \in Refs /\ r = req[p].old /\ e = EventOf(r)
      BY <1>1, <1>4, <2>1, <2>2 DEF OneRequeue
    <3>2. SafeAfter(e, r)
      BY <1>4, <2>2, <3>1 DEF Accounted
    <3>3. SafeAfter(e, r)'
      BY <1>1, <3>1, <3>2, SafeGoesOn
    <3> QED
      BY <1>1, <2>2, <3>1, <3>3 DEF MetaGrows, EventOf
  <2>3. CASE req'[p].old = req[p].old /\ req[p].new \in Refs /\ \E q \in Queue : req[p].new \in rows'[q]
    <3>1. PICK x \in Refs : x = req[p].new /\ \E q \in Queue : x \in rows'[q]
      BY <2>3
    <3>2. PICK r, e : r \in Refs /\ r = req[p].old /\ e = EventOf(r)
      BY <1>1, <2>1, <3>1 DEF OneRequeue
    <3>3. x > r /\ EventOf(x) = e
      BY <1>1, <2>1, <3>1, <3>2 DEF Accounted, OneRequeue
    <3>4. meta'[x] = meta[x] /\ meta'[r] = meta[r] /\ x \in Refs'
      BY <1>1, <3>1, <3>2 DEF MetaGrows
    <3>5. SafeAfter(e, r)'
      BY <3>1, <3>3, <3>4 DEF SafeAfter, Placed, EventOf
    <3> QED
      BY <2>3, <3>2, <3>4, <3>5 DEF EventOf
  <2>4. ~Stage(p)
    BY <1>4, <2>1 DEF Stage, Requeues
  <2> QED
    BY <1>4, <2>2, <2>3, <2>4, Outcomes DEF Outcome
<1>5. \A p \in Pipeline : req'[p].pc = "close" /\ req'[p].why = "requeued" =>
                            SafeAfter(EventOf(req[p].old), req[p].old)'
  BY <1>4 DEF SafeAfter, EventOf
<1> QED
  BY <1>2, <1>3, <1>5 DEF Accounted

LEMMA AccountedInit ==
  ASSUME Init
  PROVE  NoSeedsLeft /\ Accounted
BY DEF Init, NoSeedsLeft, Accounted, Through, Idle

\* Every event of a batch whose segment was acked was inserted, still has a pointer,
\* or went one of the ways the code counts as a loss: whatever sequence of aborted
\* insertions, retries, collisions, moves and crashes it went through.
THEOREM IngestEventQueueNoneVanishes == Spec => []NoneVanishes
<1>1. Init => TInv /\ NoSeedsLeft /\ Accounted
  BY TypesInit, AccountedInit
<1>2. TInv /\ NoSeedsLeft /\ Accounted /\ [Next]_vars => TInv' /\ NoSeedsLeft' /\ Accounted'
  BY TypesStep, NoSeedsStep, AccountedStep
<1>3. TInv /\ Accounted => NoneVanishes
  <2> SUFFICES ASSUME TInv, Accounted, NEW w \in Writer, writer[w].pc = "done", NEW n \in DOMAIN Batch(w),
                      NEW e, e = Batch(w)[n]
               PROVE  e \in processed \/ (\E r \in Pointers : EventOf(r) = e) \/ \E l \in lost : l[1] = e
    BY DEF NoneVanishes
  <2>1. SafeAfter(e, 0)
    BY DEF Accounted, Through
  <2>2. ASSUME NEW r \in Refs, Placed(r) PROVE r \in Pointers
    <3>1. mover.held = r => mover.from \in Queue
      BY NoneIsNoRef, MoverFacts DEF TInv, MoverInv
    <3>2. \E x : x \in Places(r)
      BY <2>2, <3>1 DEF Placed, Places
    <3> QED
      BY <3>2 DEF Pointers
  <2> QED
    BY <2>1, <2>2 DEF SafeAfter
<1> QED
  BY <1>1, <1>2, <1>3, PTL DEF Spec

-----------------------------------------------------------------------------
(* What is lost only if something goes wrong: refused, removed with its queue. *)

Newly(why) == \E e : <<e, why>> \in lost' /\ <<e, why>> \notin lost

LEMMA LosesOnly ==
  ASSUME NEW E, NEW why, Lose(E, why)
  PROVE  \A y : Newly(y) => y = why
BY DEF Lose, Newly

\* Only a writer refuses an event, and only the Coordinator removes one.
LEMMA Reasons ==
  ASSUME TInv, [Next]_vars
  PROVE  /\ Newly("refused") => \E w \in Writer : Pick(w) \/ Abort(w)
         /\ Newly("removed") => Terminate
<1> DEFINE Goal == ~Newly("refused") /\ ~Newly("removed")
<1>0. UNCHANGED lost => \A y : ~Newly(y)
  BY DEF Newly
<1>a. ASSUME NEW E, NEW why, Lose(E, why), why \notin {"refused", "removed"} PROVE Goal
  BY <1>a, LosesOnly
<1>1. ASSUME NEW w \in Writer, Pick(w) \/ Abort(w) PROVE ~Newly("removed")
  <2>1. UNCHANGED lost \/ Lose(Rest(w), "refused")
    BY <1>1 DEF Pick, Abort
  <2> QED
    BY <1>0, <2>1, LosesOnly
<1>2. ASSUME NEW w \in Writer, InsertPointer(w) PROVE Goal
  <2>1. UNCHANGED lost \/ Lose({EventOf(writer[w].ref)}, "duplicate")
    BY <1>2 DEF InsertPointer
  <2> QED
    BY <1>0, <1>a, <2>1
<1>3. ASSUME NEW p \in Pipeline, NEW r \in 1..MaxRefs, SeedPut(p, r) PROVE Goal
  <2>1. \E E : Lose(E, "overwritten")
    BY <1>3 DEF SeedPut
  <2> QED
    BY <1>a, <2>1
<1>4. ASSUME NEW p \in Pipeline, ProducerDies(p) \/ ProcessorsDie(p) PROVE Goal
  <2>1. \E E : Lose(E, "crash")
    BY <1>4 DEF ProducerDies, ProcessorsDie
  <2> QED
    BY <1>a, <2>1
<1>5. ASSUME NEW p \in Pipeline, NEW q \in Queue, NEW r \in 1..MaxRefs, DropFailed(p, r, q) \/ LookupMiss(p, r, q)
      PROVE  Goal
  <2>1. \E E : Lose(E, "dropped") \/ Lose(E, "expired")
    BY <1>5 DEF DropFailed, LookupMiss
  <2> QED
    BY <1>a, <2>1
<1>6. ASSUME NEW p \in Pipeline, Reclaim(p) PROVE Goal
  <2>1. UNCHANGED lost \/ \E E : Lose(E, "expired")
    BY <1>6 DEF Reclaim
  <2> QED
    BY <1>0, <1>a, <2>1
<1>7. ASSUME NEW p \in Pipeline, Close(p) PROVE Goal
  <2>1. UNCHANGED lost \/ \E E : Lose(E, req[p].why)
    BY <1>7 DEF Close
  <2>2. req[p].why \notin {"refused", "removed"}
    BY DEF TInv, RequeueInv, Requeues
  <2> QED
    BY <1>0, <1>a, <2>1, <2>2
<1>8. ASSUME MoveClear \/ MovePut PROVE Goal
  <2>1. \E E : Lose(E, "duplicate") \/ Lose(E, "overwritten") \/ Lose(E, "crash")
    BY <1>8 DEF MoveClear, MovePut, CoordinatorDies
  <2> QED
    BY <1>a, <2>1
<1>9. ASSUME Terminate PROVE ~Newly("refused")
  <2>1. \E E : Lose(E, "removed")
    BY <1>9 DEF Terminate
  <2> QED
    BY <2>1, LosesOnly
<1>10. ASSUME NEW p \in Pipeline, Shed(p) PROVE Goal
  <2>1. \E E : Lose(E, "shed")
    BY <1>10 DEF Shed
  <2> QED
    BY <1>a, <2>1
<1>11. UNCHANGED lost \/ Losing
  BY Writers DEF Frame
<1> QED
  BY <1>0, <1>1, <1>2, <1>3, <1>4, <1>5, <1>6, <1>7, <1>8, <1>9, <1>10, <1>11 DEF Losing

\* The startup queue is no pipeline's, so nothing takes it away.
LEMMA StartupStays ==
  ASSUME TInv, status[Startup] = "active", [Next]_vars
  PROVE  status'[Startup] = "active"
<1>1. status \in [Queue -> Status] /\ Startup \in Queue /\ Startup \notin Pipeline /\ None \notin Queue
      /\ mover.from \in Pipeline \cup {None} /\ Pipeline \subseteq Queue
  BY NoneIsNoRef, MoverFacts DEF TInv, TablesInv
<1> QED
  BY <1>1, Writers DEF Frame, Start, ProducerDies, Unmap, Remap, Terminate

LEMMA NeverRefusedStep ==
  ASSUME "stall" \notin Happens, TInv, NeverRefused, [Next]_vars
  PROVE  NeverRefused'
<1>a. writer \in [Writer -> Insertions] /\ WriterInv /\ cur \in gens
  BY DEF TInv, WriterInv, StoreInv
<1>1. status'[Startup] = "active"
  BY StartupStays DEF NeverRefused
<1>2. ASSUME NEW w \in Writer, writer'[w].pc \in {"body", "pointer"} PROVE writer'[w].gen \in gens'
  <2>1. CASE writer'[w] = writer[w]
    <3>1. writer[w].gen \in gens
      BY <1>2, <2>1 DEF NeverRefused
    <3>2. ASSUME NEW g \in 1..MaxGen, DropGeneration(g) PROVE writer[w].gen \in gens'
      BY <1>2, <2>1, <3>1, <3>2 DEF DropGeneration, Inserting
    <3>3. ASSUME Rotate PROVE writer[w].gen \in gens'
      BY <3>1, <3>3 DEF Rotate
    <3>4. gens' = gens \/ Rotate \/ \E g \in 1..MaxGen : DropGeneration(g)
      BY Writers DEF Frame, InsertBody, Stage
    <3> QED
      BY <2>1, <3>1, <3>2, <3>3, <3>4
  <2>2. ASSUME NEW v \in Writer, WriterStep(v), v # w PROVE writer'[w] = writer[w]
    BY <1>a, <2>2 DEF WriterStep, Pick, Reserve, InsertBody, InsertPointer, NextRow, Abort, Finish
  <2>3. CASE Pick(w)
    <3>1. writer'[w].pc \in {"reserve", "finish"}
      BY <1>a, <2>3 DEF Pick, Insertions
    <3> QED
      BY <1>2, <3>1
  <2>4. CASE Reserve(w)
    BY <1>a, <2>4 DEF Reserve, Insertions, store
  <2>5. CASE InsertBody(w)
    BY <1>a, <2>5 DEF InsertBody, Insertions
  <2>6. CASE InsertPointer(w)
    <3>1. writer'[w].gen = writer[w].gen
      BY <1>a, <2>6 DEF InsertPointer, NextRow, Insertions
    <3>2. writer[w].gen \in gens /\ gens' = gens
      BY <2>6 DEF InsertPointer, NeverRefused
    <3> QED
      BY <3>1, <3>2
  <2>7. CASE Abort(w)
    <3>1. CASE writer' = [writer EXCEPT ![w].pc = "reserve", ![w].target = Startup, ![w].next = 1, ![w].ref = None]
      <4>1. writer'[w].pc = "reserve"
        BY <1>a, <3>1 DEF Insertions
      <4> QED
        BY <1>2, <4>1
    <3>2. CASE writer' = [writer EXCEPT ![w].pc = "finish", ![w].ref = None]
      <4>1. writer'[w].pc = "finish"
        BY <1>a, <3>2 DEF Insertions
      <4> QED
        BY <1>2, <4>1
    <3> QED
      BY <2>7, <3>1, <3>2 DEF Abort
  <2>8. CASE Finish(w)
    <3>1. writer'[w].pc = "done"
      BY <1>a, <2>8 DEF Finish, Insertions
    <3> QED
      BY <1>2, <3>1
  <2> QED
    BY <2>1, <2>2, <2>3, <2>4, <2>5, <2>6, <2>7, <2>8, Writers DEF Frame, Writing, WriterStep
<1>3. ASSUME NEW w \in Writer, Pick(w) PROVE lost' = lost
  BY <1>3 DEF Pick, NeverRefused, Mapped
<1>4. ASSUME NEW w \in Writer, Abort(w) PROVE lost' = lost
  <2>1. writer[w].pc \in {"body", "pointer"}
    BY <1>4 DEF Abort, Raises
  <2>2. ~Alive(writer[w].target)
    BY <1>4, <2>1 DEF Abort, Raises, NeverRefused
  <2> QED
    BY <1>4, <2>2 DEF Abort, NeverRefused, Mapped, Alive
<1>5. NoneRefused'
  BY <1>3, <1>4, Reasons DEF Newly, NeverRefused, NoneRefused
<1> QED
  BY <1>1, <1>2, <1>5 DEF NeverRefused

\* With the startup queue there, "before any producer/traffic exists", and writers
\* and janitor in time, no batch is ever refused: whatever pipelines come and go.
THEOREM IngestEventQueueNoneRefused ==
  ASSUME HasStartup, "stall" \notin Happens
  PROVE  Spec => []NoneRefused
<1>1. Init => TInv /\ NeverRefused
  <2>1. Init => NeverRefused
    BY DEF Init, NeverRefused, NoneRefused, Queue
  <2> QED
    BY <2>1, TypesInit
<1>2. TInv /\ NeverRefused /\ [Next]_vars => TInv' /\ NeverRefused'
  BY TypesStep, NeverRefusedStep
<1>3. NeverRefused => NoneRefused
  BY DEF NeverRefused
<1> QED
  BY <1>1, <1>2, <1>3, PTL DEF Spec

\* Nothing is requeued where retries are off, or no insert fails.
LEMMA NothingIsRequeued ==
  ASSUME MaxRetries = 0 \/ "failed insert" \notin Happens, TInv, NothingRemoved, [Next]_vars
  PROVE  /\ \A p \in Pipeline : req'[p].pc = "idle" /\ ~RequeueStep(p)
<1>1. req \in [Pipeline -> Requeues] /\ claimed \in [Pipeline -> SUBSET (Refs \X Queue)]
  BY DEF TInv, RequeueInv, TablesInv
<1>2. \A p \in Pipeline : ~RequeueStep(p)
  BY DEF NothingRemoved, RequeueStep, Stage, Publish, Inspect, Reclaim, Close
<1>3. ASSUME NEW p \in Pipeline, NEW q \in Queue, NEW r \in 1..MaxRefs, Requeue(p, r, q) PROVE FALSE
  <2>1. <<r, q>> \in claimed[p] /\ meta[r].retries < MaxRetries /\ MaxRetries = 0
    BY <1>3 DEF Requeue
  <2>2. r \in Refs
    BY <1>1, <2>1
  <2> QED
    BY <2>1, <2>2, RefFacts DEF TInv
<1>4. ASSUME NEW p \in Pipeline, ProcessorsDie(p), NEW s \in Pipeline PROVE req'[s].pc = "idle"
  BY <1>1, <1>4 DEF ProcessorsDie, Idle, NothingRemoved
<1> QED
  BY <1>2, <1>3, <1>4, Writers DEF Frame, Requeueing, NothingRemoved

\* While the rows of a queue are moved nothing else adds to it.
LEMMA DrainingStays ==
  ASSUME MaxRetries = 0 \/ "failed insert" \notin Happens, TInv, NothingRemoved, [Next]_vars,
         NEW f \in Pipeline, f = mover.from, Draining(f)
  PROVE  /\ mover' # AtRest => status'[f] \in {"draining", "dead"}
         /\ hand'[f] = {} /\ rows'[f] \subseteq rows[f]
         /\ \A w \in Writer : ~(Inserting(w)' /\ writer'[w].target = f)
<1>a. /\ status \in [Queue -> Status] /\ rows \in [Queue -> SUBSET Refs] /\ hand \in [Pipeline -> SUBSET Refs]
      /\ writer \in [Writer -> Insertions] /\ Pipeline \subseteq Queue /\ Startup \in Queue
      /\ Startup \notin Pipeline /\ None \notin Queue /\ mover \in Moves
      /\ status[f] \in {"draining", "dead"} /\ hand[f] = {} /\ mover.to # f /\ f \in Queue
  BY NoneIsNoRef DEF TInv, TablesInv, WriterInv, MoverInv, Draining
<1>1. mover' # AtRest => status'[f] \in {"draining", "dead"}
  BY <1>a, Writers DEF Frame, Start, ProducerDies, Unmap, Remap, Terminate
<1>2. hand'[f] = {}
  BY <1>a, Writers DEF Frame, Seeding, Start, ProducerDies, SeedPut
<1>3. rows'[f] \subseteq rows[f]
  <2>1. ASSUME NEW w \in Writer, InsertPointer(w) PROVE rows'[f] = rows[f]
    <3>1. writer[w].target # f
      BY <2>1 DEF InsertPointer, Draining, Inserting
    <3> QED
      BY <1>a, <2>1, <3>1 DEF InsertPointer
  <2>2. ASSUME NEW p \in Pipeline, Start(p) PROVE rows'[f] \subseteq rows[f]
    BY <1>a, <2>2 DEF Start
  <2>3. ASSUME NEW p \in Pipeline, ProducerDies(p) PROVE rows'[f] \subseteq rows[f]
    BY <1>a, <2>3 DEF ProducerDies
  <2>4. ASSUME NEW p \in Pipeline, Shed(p) PROVE rows'[f] \subseteq rows[f]
    BY <1>a, <2>4 DEF Shed
  <2>5. ASSUME NEW p \in Pipeline, NEW r \in 1..MaxRefs, SeedPut(p, r) PROVE rows'[f] \subseteq rows[f]
    BY <1>a, <2>5 DEF SeedPut
  <2>6. ASSUME NEW p \in Pipeline, NEW q \in Queue, NEW r \in 1..MaxRefs, Claim(p, q, r)
        PROVE  rows'[f] \subseteq rows[f]
    BY <1>a, <2>6 DEF Claim
  <2>7. ASSUME NEW e \in Event, MoveTake(e) PROVE rows'[f] \subseteq rows[f]
    <3>1. rows' = rows \/ \E r : rows' = [rows EXCEPT ![f] = @ \ {r}]
      BY <2>7 DEF MoveTake
    <3> QED
      BY <1>a, <3>1
  <2>8. ASSUME MoveClear PROVE rows'[f] \subseteq rows[f]
    BY <1>a, <2>8 DEF MoveClear, CoordinatorDies
  <2>9. ASSUME MovePut PROVE rows'[f] \subseteq rows[f]
    <3>1. rows' = rows \/ \E S, r : rows' = [rows EXCEPT ![mover.to] = (@ \ S) \cup {r}]
      BY <2>9 DEF MovePut, CoordinatorDies
    <3> QED
      BY <1>a, <3>1
  <2>10. ASSUME Terminate PROVE rows'[f] \subseteq rows[f]
    BY <1>a, <2>10 DEF Terminate
  <2>11. \A p \in Pipeline : ~Publish(p) /\ ~Reclaim(p)
    BY NothingIsRequeued DEF RequeueStep
  <2> QED
    BY <2>1, <2>2, <2>3, <2>4, <2>5, <2>6, <2>7, <2>8, <2>9, <2>10, <2>11, Writers DEF Frame, RowMoving
<1>4. ASSUME NEW w \in Writer, Inserting(w)' PROVE writer'[w].target # f
  <2>1. CASE writer'[w] = writer[w]
    BY <1>4, <2>1 DEF Draining, Inserting
  <2>2. ASSUME NEW v \in Writer, WriterStep(v), v # w PROVE writer'[w] = writer[w]
    BY <1>a, <2>2 DEF WriterStep, Pick, Reserve, InsertBody, InsertPointer, NextRow, Abort, Finish
  <2>3. CASE Pick(w)
    <3>1. CASE writer' = [writer EXCEPT ![w].pc = "finish"]
      <4>1. writer'[w].pc = "finish"
        BY <1>a, <3>1 DEF Insertions
      <4> QED
        BY <1>4, <4>1 DEF Inserting
    <3>2. CASE \E q \in Eligible \cup {Startup} : writer' = [writer EXCEPT ![w].pc = "reserve", ![w].target = q]
      <4>1. \E q \in Eligible \cup {Startup} : writer'[w].target = q
        BY <1>a, <3>2 DEF Insertions
      <4> QED
        BY <1>a, <4>1 DEF Eligible
    <3> QED
      BY <2>3, <3>1, <3>2 DEF Pick
  <2>4. CASE Reserve(w) \/ InsertBody(w) \/ InsertPointer(w)
    <3>1. writer'[w].target = writer[w].target
      <4>1. CASE Reserve(w)
        BY <1>a, <4>1 DEF Reserve, Insertions
      <4>2. CASE InsertBody(w)
        BY <1>a, <4>2 DEF InsertBody, Insertions
      <4>3. CASE InsertPointer(w)
        BY <1>a, <4>3 DEF InsertPointer, NextRow, Insertions
      <4> QED
        BY <2>4, <4>1, <4>2, <4>3
    <3>2. Inserting(w)
      BY <2>4 DEF Reserve, InsertBody, InsertPointer, Inserting
    <3> QED
      BY <3>1, <3>2 DEF Draining
  <2>5. CASE Abort(w)
    <3>1. CASE writer' = [writer EXCEPT ![w].pc = "reserve", ![w].target = Startup, ![w].next = 1, ![w].ref = None]
      <4>1. writer'[w].target = Startup
        BY <1>a, <3>1 DEF Insertions
      <4> QED
        BY <1>a, <4>1
    <3>2. CASE writer' = [writer EXCEPT ![w].pc = "finish", ![w].ref = None]
      <4>1. writer'[w].pc = "finish"
        BY <1>a, <3>2 DEF Insertions
      <4> QED
        BY <1>4, <4>1 DEF Inserting
    <3> QED
      BY <2>5, <3>1, <3>2 DEF Abort
  <2>6. CASE Finish(w)
    <3>1. writer'[w].pc = "done"
      BY <1>a, <2>6 DEF Finish, Insertions
    <3> QED
      BY <1>4, <3>1 DEF Inserting
  <2> QED
    BY <2>1, <2>2, <2>3, <2>4, <2>5, <2>6, Writers DEF Frame, Writing, WriterStep
<1> QED
  BY <1>1, <1>2, <1>3, <1>4

\* A row the Coordinator has not come to is on its list.
LEMMA TodoStep ==
  ASSUME TInv, NEW f \in Pipeline, f = mover.from, Draining(f), rows'[f] \subseteq rows[f], UNCHANGED meta,
         Moving, mover' # AtRest, mover.from # None
  PROVE  /\ mover'.from = f /\ mover'.to = mover.to
         /\ \A r \in rows'[f] : EventOf(r)' \in mover'.todo
<1>a. /\ rows \in [Queue -> SUBSET Refs] /\ mover \in Moves /\ f \in Queue
      /\ \A r \in rows[f] : EventOf(r) \in mover.todo
  BY NoneIsNoRef DEF TInv, TablesInv, MoverInv, Draining
<1>b. CASE mover'.from = f /\ mover'.to = mover.to /\ mover'.todo = mover.todo
  BY <1>a, <1>b DEF EventOf
<1>1. ASSUME NEW p \in Pipeline, BeginMove(p) PROVE FALSE
  BY <1>1 DEF BeginMove, AtRest
<1>2. ASSUME NEW e \in Event, MoveTake(e)
      PROVE  mover'.from = f /\ mover'.to = mover.to /\ \A r \in rows'[f] : EventOf(r)' \in mover'.todo
  <2>1. PICK S : S = {r \in rows[f] : idOf[EventOf(r)] = idOf[e]}
    OBVIOUS
  <2>2. mover'.from = f /\ mover'.to = mover.to /\ mover'.todo = mover.todo \ {e}
    BY <1>a, <1>2 DEF MoveTake, Moves
  <2>3. \A r \in rows'[f] : r \notin S
    <3>1. CASE S = {}
      BY <3>1
    <3>2. CASE S # {}
      <4>1. PICK x \in S : rows' = [rows EXCEPT ![f] = @ \ {x}]
        BY <1>2, <2>1, <3>2 DEF MoveTake
      <4>2. \A r \in S : r = x
        BY <1>a, <2>1, <4>1 DEF TInv, OneRowPerId
      <4> QED
        BY <1>a, <4>1, <4>2
    <3> QED
      BY <3>1, <3>2
  <2>4. \A r \in rows'[f] : EventOf(r) # e /\ EventOf(r) \in mover.todo
    BY <1>a, <2>1, <2>3
  <2> QED
    BY <2>2, <2>4 DEF EventOf
<1>3. ASSUME MoveClear PROVE mover'.from = f /\ mover'.to = mover.to /\ mover'.todo = mover.todo
  BY <1>a, <1>3 DEF MoveClear, CoordinatorDies, Moves
<1>4. ASSUME MovePut PROVE mover'.from = f /\ mover'.to = mover.to /\ mover'.todo = mover.todo
  BY <1>a, <1>4 DEF MovePut, CoordinatorDies, Moves
<1>5. ASSUME Terminate PROVE FALSE
  BY <1>5 DEF Terminate
<1> QED
  BY <1>b, <1>1, <1>2, <1>3, <1>4, <1>5 DEF Moving

LEMMA NothingRemovedStep ==
  ASSUME "stall" \notin Happens, MaxRetries = 0 \/ "failed insert" \notin Happens,
         TInv, NothingRemoved, [Next]_vars
  PROVE  NothingRemoved'
<1>a. /\ mover.from \in Pipeline \cup {None} /\ None \notin Pipeline /\ Startup \notin Pipeline
      /\ Pipeline \subseteq Queue /\ Startup \in Queue /\ None \notin Queue
  BY NoneIsNoRef, MoverFacts DEF TInv
<1>1. status'[Startup] = "active" /\ \A p \in Pipeline : req'[p].pc = "idle"
  BY StartupStays, NothingIsRequeued DEF NothingRemoved
<1>2. ASSUME NEW p \in Pipeline, BeginMove(p) PROVE mover'.from # None => Draining(mover.from)'
  <2>1. /\ status[p] = "draining" /\ hand[p] = {} /\ mover = AtRest
        /\ \A w \in Writer : ~(Inserting(w) /\ writer[w].target = p)
        /\ UNCHANGED <<status, hand, writer, rows, meta>>
    BY <1>2 DEF BeginMove, others, store, consumers
  <2>2. PICK s \in Queue \ {p} : mover' = [AtRest EXCEPT !.from = p, !.to = s, !.todo = {EventOf(r) : r \in rows[p]}]
    BY <1>a, <1>2 DEF BeginMove, NothingRemoved, Mapped
  <2>3. mover'.from = p /\ mover'.to = s /\ mover'.todo = {EventOf(r) : r \in rows[p]}
    BY <2>2 DEF AtRest
  <2> QED
    BY <1>a, <2>1, <2>3 DEF Draining, Inserting, EventOf
<1>3. ASSUME NEW f \in Pipeline, f = mover.from, mover' # AtRest PROVE mover'.from # None => Draining(mover.from)'
  <2>1. Draining(f)
    BY <1>a, <1>3 DEF NothingRemoved
  <2>2. /\ status'[f] \in {"draining", "dead"}
        /\ hand'[f] = {} /\ rows'[f] \subseteq rows[f]
        /\ \A w \in Writer : ~(Inserting(w)' /\ writer'[w].target = f)
    BY <1>3, <2>1, DrainingStays
  <2>3. \A r \in rows[f] : meta'[r] = meta[r]
    BY <1>a, StoreStep DEF MetaGrows, TInv, TablesInv
  <2>4. CASE UNCHANGED mover
    BY <1>3, <2>1, <2>2, <2>3, <2>4 DEF Draining, EventOf
  <2>5. CASE Moving
    <3>1. meta' = meta
      BY <2>5 DEF Moving, BeginMove, MoveTake, MoveClear, MovePut, Terminate, others, store
    <3>2. mover'.from = f /\ mover'.to = mover.to /\ \A r \in rows'[f] : EventOf(r)' \in mover'.todo
      BY <1>a, <1>3, <2>1, <2>2, <2>5, <3>1, TodoStep
    <3> QED
      BY <2>1, <2>2, <3>2 DEF Draining
  <2> QED
    BY <2>4, <2>5, Writers DEF Frame
<1>4. mover'.from # None => Draining(mover.from)'
  <2>1. CASE mover.from \in Pipeline /\ mover' # AtRest
    BY <1>3, <2>1
  <2>2. CASE mover' = AtRest
    BY <2>2 DEF AtRest
  <2>3. CASE mover.from = None /\ UNCHANGED mover
    BY <2>3
  <2>4. CASE mover.from = None /\ Moving
    <3>1. mover.to = None /\ mover.held = None /\ ~mover.cleared
      BY <2>4, MoverFacts DEF TInv, MoverInv
    <3> QED
      BY <1>2, <2>4, <3>1 DEF Moving, MoveTake, Visits, MoveClear, MovePut, Terminate
  <2> QED
    BY <1>a, <2>1, <2>2, <2>3, <2>4, Writers DEF Frame
<1>5. GracefulRemovalKeepsEvents'
  <2>1. ASSUME Terminate PROVE lost' = lost
    <3>1. PICK f \in Pipeline : f = mover.from
      BY <1>a, <2>1 DEF Terminate
    <3>2. rows[f] = {}
      BY <1>a, <2>1, <3>1 DEF Terminate, NothingRemoved, Draining
    <3> QED
      BY <2>1, <3>1, <3>2 DEF Terminate, Lose
  <2> QED
    BY <2>1, Reasons DEF Newly, NothingRemoved, GracefulRemovalKeepsEvents
<1> QED
  BY <1>1, <1>4, <1>5 DEF NothingRemoved

\* Removing a pipeline loses no pending event, as long as nothing is requeued to its
\* queue meanwhile: no claim, late insertion or row with the same id, and no walk that
\* came to a row or did not, leaves one behind in the table that goes.
THEOREM IngestEventQueueGracefulRemoval ==
  ASSUME HasStartup, "stall" \notin Happens, MaxRetries = 0 \/ "failed insert" \notin Happens
  PROVE  Spec => []GracefulRemovalKeepsEvents
<1>1. Init => TInv /\ NothingRemoved
  <2>1. Init => NothingRemoved
    <3> SUFFICES ASSUME Init PROVE NothingRemoved
      OBVIOUS
    <3>1. status[Startup] = "active"
      BY DEF Init, Queue
    <3>2. \A p \in Pipeline : req[p].pc = "idle"
      BY DEF Init, Idle
    <3>3. mover.from = None /\ GracefulRemovalKeepsEvents
      BY DEF Init, AtRest, GracefulRemovalKeepsEvents
    <3> QED
      BY <3>1, <3>2, <3>3 DEF NothingRemoved
  <2> QED
    BY <2>1, TypesInit
<1>2. TInv /\ NothingRemoved /\ [Next]_vars => TInv' /\ NothingRemoved'
  BY TypesStep, NothingRemovedStep
<1>3. NothingRemoved => GracefulRemovalKeepsEvents
  BY DEF NothingRemoved
<1> QED
  BY <1>1, <1>2, <1>3, PTL DEF Spec

-----------------------------------------------------------------------------
(***************************************************************************)
(* The units of the segments' counters.  A unit is owed for every          *)
(* unfinished segment, for every event a writer reserved and has not       *)
(* published, and for every pointer somebody has.  Each step pays for what *)
(* it takes away.                                                          *)
(***************************************************************************)

Units(h) == {r \in Refs : Pending(r) /\ HandleOf(r) = h}

UnitsKept ==
  \A h \in Handle :
    count[h] >= Cardinality(Unfinished(h)) + Cardinality(Reserved(h)) + Cardinality(Units(h))

-----------------------------------------------------------------------------
(* Events and handles, and how many units there are. *)

LEMMA HandlesOf ==
  /\ \A w \in Writer : \A e \in Events(w) : Handles(e) = handleOf[w]
  /\ \A e \in Event : Handles(e) \in Handle
<1>1. ASSUME NEW w \in Writer, NEW e \in Events(w) PROVE Handles(e) = handleOf[w]
  <2>1. PICK v : v = (CHOOSE u \in Writer : e \in Events(u))
    OBVIOUS
  <2>2. v \in Writer /\ e \in Events(v)
    BY <2>1
  <2>3. v = w
    BY <2>2, ConstantsAssumption
  <2> QED
    BY <2>1, <2>3 DEF Handles
<1> QED
  BY <1>1 DEF Event, Handle

LEMMA BatchEvents ==
  ASSUME NEW w \in Writer
  PROVE  /\ Len(Batch(w)) \in Nat \ {0} /\ DOMAIN Batch(w) = 1..Len(Batch(w))
         /\ \A n \in 1..Len(Batch(w)) : Batch(w)[n] \in Events(w)
<1>1. batchOf[w] \in Seq(Events(w)) /\ batchOf[w] # <<>>
  BY ConstantsAssumption
<1> QED
  BY <1>1 DEF Batch, Events

LEMMA RowsOfUnwritten ==
  ASSUME NEW w, NEW a \in Int, NEW b \in Int
  PROVE  /\ IsFiniteSet({w} \X (a..b))
         /\ Cardinality({w} \X (a..b)) = IF a > b THEN 0 ELSE b - a + 1
<1>1. IsFiniteSet({w}) /\ Cardinality({w}) = 1 /\ IsFiniteSet(a..b)
      /\ Cardinality(a..b) = (IF a > b THEN 0 ELSE b - a + 1)
  BY FS_Singleton, FS_Interval
<1>2. IsFiniteSet({w} \X (a..b)) /\ Cardinality({w} \X (a..b)) = 1 * Cardinality(a..b)
  BY <1>1, FS_Product
<1> QED
  BY <1>1, <1>2

LEMMA FiniteUnits ==
  ASSUME TInv, NEW h
  PROVE  /\ IsFiniteSet(Units(h)) /\ Cardinality(Units(h)) \in Nat
         /\ IsFiniteSet(Unfinished(h)) /\ Cardinality(Unfinished(h)) \in Nat
         /\ IsFiniteSet(Reserved(h)) /\ Cardinality(Reserved(h)) \in Nat
<1>1. IsFiniteSet(Units(h)) /\ Cardinality(Units(h)) \in Nat
  BY RefsFinite DEF Units, TInv
<1>2. IsFiniteSet(Unfinished(h)) /\ Cardinality(Unfinished(h)) \in Nat
  BY ConstantsAssumption, FS_Subset, FS_CardinalityType DEF Unfinished
<1>3. IsFiniteSet(Reserved(h))
  <2> DEFINE W == {w \in Writer : handleOf[w] = h}
  <2>1. IsFiniteSet(W)
    BY ConstantsAssumption, FS_Subset
  <2>2. IsFiniteSet({Unwritten(w) : w \in W})
    <3> DEFINE f == [w \in W |-> Unwritten(w)]
    <3>1. f \in Surjection(W, {Unwritten(w) : w \in W})
      BY DEF Surjection
    <3> QED
      BY <2>1, <3>1, FS_Surjection
  <2>3. ASSUME NEW w \in W PROVE IsFiniteSet(Unwritten(w))
    <3>1. w \in Writer /\ writer[w].next \in Int /\ Len(Batch(w)) \in Int
      BY WriterFacts, BatchEvents DEF TInv
    <3>2. IsFiniteSet({w} \X (writer[w].next .. Len(Batch(w))))
      BY <3>1, RowsOfUnwritten
    <3> QED
      BY <3>2, FS_EmptySet DEF Unwritten
  <2> QED
    BY <2>2, <2>3, FS_UNION DEF Reserved
<1> QED
  BY <1>1, <1>2, <1>3, FS_CardinalityType

\* A step of one writer changes what it reserved, and nobody else's.
LEMMA ReservedTurn ==
  ASSUME TInv, NEW w \in Writer, \A v \in Writer : v # w => writer'[v] = writer[v], writer'[w].next \in Int
  PROVE  \A h \in Handle :
           Cardinality(Reserved(h)') =
             Cardinality(Reserved(h))
             + IF h = handleOf[w] THEN Cardinality(Unwritten(w)') - Cardinality(Unwritten(w)) ELSE 0
<1>1. \A v \in Writer : v # w => Unwritten(v)' = Unwritten(v)
  BY DEF Unwritten, Batch
<1>2. ASSUME NEW h \in Handle, h # handleOf[w] PROVE Reserved(h)' = Reserved(h)
  BY <1>1, <1>2 DEF Reserved
<1>3. PICK O : O = UNION {Unwritten(v) : v \in {v \in Writer : handleOf[v] = handleOf[w] /\ v # w}}
  OBVIOUS
<1>4. Reserved(handleOf[w]) = O \cup Unwritten(w) /\ Reserved(handleOf[w])' = O \cup Unwritten(w)'
  BY <1>1, <1>3 DEF Reserved
<1>5. O \cap Unwritten(w) = {} /\ O \cap Unwritten(w)' = {}
  <2>1. \A x \in O : x[1] # w
    BY <1>3 DEF Unwritten
  <2>2. \A x \in Unwritten(w) : x[1] = w
    BY DEF Unwritten
  <2>3. \A x \in Unwritten(w)' : x[1] = w
    BY DEF Unwritten
  <2> QED
    BY <2>1, <2>2, <2>3
<1>6. IsFiniteSet(O) /\ IsFiniteSet(Unwritten(w)) /\ IsFiniteSet(Unwritten(w)')
  <2>1. IsFiniteSet(Reserved(handleOf[w]))
    BY FiniteUnits
  <2>2. IsFiniteSet(O) /\ IsFiniteSet(Unwritten(w))
    BY <1>4, <2>1, FS_Subset
  <2>3. IsFiniteSet(Unwritten(w)')
    <3>1. Len(batchOf[w]) \in Int
      BY BatchEvents DEF Batch
    <3>2. IsFiniteSet({w} \X (writer'[w].next .. Len(batchOf[w])))
      BY <3>1, RowsOfUnwritten
    <3> QED
      BY <3>2, FS_EmptySet DEF Unwritten, Batch
  <2> QED
    BY <2>2, <2>3
<1>7. /\ Cardinality(Reserved(handleOf[w])) = Cardinality(O) + Cardinality(Unwritten(w))
      /\ Cardinality(Reserved(handleOf[w])') = Cardinality(O) + Cardinality(Unwritten(w)')
  <2>1. ASSUME NEW U, IsFiniteSet(U), O \cap U = {} PROVE Cardinality(O \cup U) = Cardinality(O) + Cardinality(U)
    <3>1. Cardinality(O \cup U) = Cardinality(O) + Cardinality(U) - Cardinality(O \cap U)
      BY <1>6, <2>1, FS_Union
    <3>2. Cardinality(O \cap U) = 0 /\ Cardinality(O) \in Nat /\ Cardinality(U) \in Nat
      BY <1>6, <2>1, FS_EmptySet, FS_CardinalityType
    <3> QED
      BY <3>1, <3>2
  <2> QED
    BY <1>4, <1>5, <1>6, <2>1
<1>8. Cardinality(O) \in Nat /\ Cardinality(Unwritten(w)) \in Nat /\ Cardinality(Unwritten(w)') \in Nat
  BY <1>6, FS_CardinalityType
<1>9. \A h \in Handle : Cardinality(Reserved(h)) \in Nat
  BY FiniteUnits
<1> QED
  BY <1>2, <1>7, <1>8, <1>9

-----------------------------------------------------------------------------
(* Steps that make no pointer. *)

LEMMA NoNewPointers ==
  ASSUME TInv, Apart, [Next]_vars, UNCHANGED <<writer, meta>>
  PROVE  Refs' = Refs /\ \A r \in Refs : Pending(r)' => Pending(r)
<1>1. \A w \in Writer : ~InsertPointer(w)
  <2>1. ASSUME NEW w \in Writer, InsertPointer(w) PROVE FALSE
    <3>1. writer[w].pc = "pointer" /\ writer'[w].pc # "pointer"
      BY <2>1 DEF InsertPointer, NextRow, TInv, WriterInv, Insertions
    <3> QED
      BY <3>1
  <2> QED
    BY <2>1
<1> QED
  BY <1>1, PendingBefore DEF Refs

\* A step that acks the refs in A takes their pointers away.
LEMMA Paid ==
  ASSUME TInv, Apart, UnitsKept, [Next]_vars, UNCHANGED <<writer, meta>>,
         NEW A \in SUBSET Refs, \A r \in A : Pending(r) /\ ~Pending(r)',
         \A h \in Handle : count'[h] = count[h] - Cardinality({r \in A : HandleOf(r) = h})
  PROVE  UnitsKept'
<1> SUFFICES ASSUME NEW h \in Handle
             PROVE  count'[h] >= Cardinality(Unfinished(h)') + Cardinality(Reserved(h)') + Cardinality(Units(h)')
  BY DEF UnitsKept
<1>1. Unfinished(h)' = Unfinished(h) /\ Reserved(h)' = Reserved(h)
  BY DEF Unfinished, Reserved, Unwritten, Batch
<1>2. PICK B : B = {r \in A : HandleOf(r) = h}
  OBVIOUS
<1>3. Units(h)' \subseteq Units(h) \ B
  BY <1>2, NoNewPointers DEF Units, HandleOf, EventOf
<1>4. B \subseteq Units(h) /\ Units(h) \cap B = B
  BY <1>2 DEF Units
<1>5. /\ IsFiniteSet(Units(h)) /\ Cardinality(Units(h)) \in Nat /\ Cardinality(Unfinished(h)) \in Nat
      /\ Cardinality(Reserved(h)) \in Nat
  BY FiniteUnits
<1>6. IsFiniteSet(B) /\ Cardinality(B) \in Nat
  BY <1>4, <1>5, FS_Subset, FS_CardinalityType
<1>7. IsFiniteSet(Units(h) \ B) /\ Cardinality(Units(h) \ B) = Cardinality(Units(h)) - Cardinality(B)
  <2>1. PICK U : U = Units(h)
    OBVIOUS
  <2>2. IsFiniteSet(U \ B) /\ Cardinality(U \ B) = Cardinality(U) - Cardinality(U \cap B)
    BY <1>5, <2>1, FS_Difference
  <2> QED
    BY <1>4, <2>1, <2>2
<1>8. Cardinality(Units(h)') \in Nat /\ Cardinality(Units(h)') <= Cardinality(Units(h) \ B)
  BY <1>3, <1>7, FS_Subset, FS_CardinalityType
<1>9. count[h] \in Int /\ count'[h] = count[h] - Cardinality(B)
  BY <1>2 DEF TInv, CountInv
<1>10. count[h] >= Cardinality(Unfinished(h)) + Cardinality(Reserved(h)) + Cardinality(Units(h))
  BY DEF UnitsKept
<1> QED
  BY <1>1, <1>5, <1>6, <1>7, <1>8, <1>9, <1>10

LEMMA PaidNothing ==
  ASSUME TInv, Apart, UnitsKept, [Next]_vars, UNCHANGED <<writer, meta, count>>
  PROVE  UnitsKept'
<1>1. \A h \in Handle : count'[h] = count[h] - Cardinality({r \in {} : HandleOf(r) = h})
  <2>1. \A h \in Handle : {r \in {} : HandleOf(r) = h} = {} /\ count[h] \in Int
    BY DEF TInv, CountInv
  <2> QED
    BY <2>1, FS_EmptySet
<1> QED
  BY <1>1, Paid

LEMMA PaidOne ==
  ASSUME TInv, Apart, UnitsKept, [Next]_vars, UNCHANGED <<writer, meta>>,
         NEW r \in Refs, Pending(r), ~Pending(r)', AckN(HandleOf(r), 1)
  PROVE  UnitsKept'
<1>1. ASSUME NEW h \in Handle PROVE count'[h] = count[h] - Cardinality({s \in {r} : HandleOf(s) = h})
  <2>1. count[h] \in Int /\ count'[h] = (IF h = HandleOf(r) THEN count[h] - 1 ELSE count[h])
    BY DEF TInv, CountInv, AckN
  <2>2. CASE h = HandleOf(r)
    <3>1. {s \in {r} : HandleOf(s) = h} = {r}
      BY <2>2
    <3> QED
      BY <2>1, <2>2, <3>1, FS_Singleton
  <2>3. CASE h # HandleOf(r)
    <3>1. {s \in {r} : HandleOf(s) = h} = {}
      BY <2>3
    <3> QED
      BY <2>1, <2>3, <3>1, FS_EmptySet
  <2> QED
    BY <2>2, <2>3
<1> QED
  BY <1>1, Paid

LEMMA PaidEach ==
  ASSUME TInv, Apart, UnitsKept, [Next]_vars, UNCHANGED <<writer, meta>>,
         NEW A \in SUBSET Refs, \A r \in A : Pending(r) /\ ~Pending(r)', AckEach(A)
  PROVE  UnitsKept'
<1>1. \A h \in Handle : count'[h] = count[h] - Cardinality({r \in A : HandleOf(r) = h})
  BY DEF AckEach
<1> QED
  BY <1>1, Paid

-----------------------------------------------------------------------------
(* Who acks a pointer had it, and lets go of it. *)

\* The staged row taken back.
LEMMA UnstagePays ==
  ASSUME TInv, Apart, UnitsKept, [Next]_vars, UNCHANGED <<writer, meta, hand, claimed, mover>>,
         NEW p \in Pipeline, req[p].new # None, NextCandidate(p) \/ GiveUp(p)
  PROVE  UnitsKept'
<1>1. PICK r \in Refs : r = req[p].new
  BY RequeueFacts DEF TInv
<1>2. rows' = rows /\ (\A s \in Pipeline : req'[s].new = (IF s = p THEN None ELSE req[s].new)) /\ None \notin Refs
  BY StagedDropped, NoneIsNoRef DEF TInv
<1>3. PICK k \in Kinds, a \in Queue \cup Writer, b \in Queue : Sits(r, k, a, b)
  BY DEF Apart
<1>4. k = "staged" /\ a = p
  BY <1>1, <1>3 DEF Sits
<1>5. Pending(r) /\ ~Pending(r)'
  BY <1>1, <1>2, <1>3, <1>4 DEF Sits, Pending, Placed
<1>6. AckN(HandleOf(r), 1)
  BY <1>1 DEF NextCandidate, GiveUp, Unstage
<1> QED
  BY <1>5, <1>6, PaidOne

LEMMA BatcherPays ==
  ASSUME TInv, Apart, UnitsKept, [Next]_vars,
         NEW p \in Pipeline, Publish(p) \/ Inspect(p) \/ Reclaim(p) \/ Close(p)
  PROVE  UnitsKept'
<1>a. /\ rows \in [Queue -> SUBSET Refs] /\ claimed \in [Pipeline -> SUBSET (Refs \X Queue)]
      /\ req \in [Pipeline -> Requeues] /\ None \notin Refs /\ OneRequeue(p)
      /\ req[p].seen \in Refs \cup {None} /\ UNCHANGED <<writer, meta>>
  BY NoneIsNoRef, RequeueFacts DEF TInv, TablesInv, RequeueInv, Publish, Inspect, Reclaim, Close
<1>1. CASE Publish(p) \/ Inspect(p)
  <2>1. UNCHANGED count \/ NextCandidate(p) \/ GiveUp(p)
    BY <1>1 DEF Publish, Inspect
  <2>2. UNCHANGED <<hand, claimed, mover>> /\ req[p].new # None
    BY <1>a, <1>1 DEF Publish, Inspect, OneRequeue
  <2> QED
    BY <1>a, <2>1, <2>2, PaidNothing, UnstagePays
<1>2. CASE Reclaim(p)
  <2>1. UNCHANGED <<hand, claimed, mover>> /\ req[p].new # None /\ req[p].pc = "reclaim"
    BY <1>a, <1>2 DEF Reclaim, OneRequeue
  <2>2. PICK q, x : q \in Queue /\ q = req[p].target /\ x = req[p].seen
    BY <1>a, <2>1 DEF OneRequeue
  <2>3. \/ UNCHANGED count \/ NextCandidate(p)
        \/ /\ x \in rows[q] /\ rows' = [rows EXCEPT ![q] = @ \ {x}] /\ AckN(HandleOf(x), 1)
           /\ req' = [req EXCEPT ![p].pc = "publish", ![p].tries = @ - 1, ![p].seen = None]
    BY <1>2, <2>2 DEF Reclaim
  <2>4. CASE /\ x \in rows[q] /\ rows' = [rows EXCEPT ![q] = @ \ {x}] /\ AckN(HandleOf(x), 1)
             /\ req' = [req EXCEPT ![p].pc = "publish", ![p].tries = @ - 1, ![p].seen = None]
    <3>1. x \in Refs
      BY <1>a, <2>2, <2>4
    <3>2. PICK k \in Kinds, a \in Queue \cup Writer, b \in Queue : Sits(x, k, a, b)
      BY <3>1 DEF Apart
    <3>3. k = "row" /\ a = q
      BY <2>2, <2>4, <3>2 DEF Sits
    <3>4. \A s \in Pipeline : req'[s].new = req[s].new
      <4>1. PICK y : y = [req[p] EXCEPT !.pc = "publish", !.tries = @ - 1, !.seen = None]
        OBVIOUS
      <4>2. req' = [req EXCEPT ![p] = y] /\ y.new = req[p].new
        BY <1>a, <2>4, <4>1 DEF Requeues
      <4> QED
        BY <1>a, <4>2
    <3>5. Pending(x) /\ ~Pending(x)'
      BY <1>a, <2>1, <2>2, <2>4, <3>2, <3>3, <3>4 DEF Sits, Pending, Placed
    <3> QED
      BY <1>a, <2>4, <3>1, <3>5, PaidOne
  <2> QED
    BY <1>a, <2>1, <2>3, <2>4, PaidNothing, UnstagePays
<1>3. CASE Close(p)
  <2>1. req[p].pc = "close" /\ UNCHANGED <<rows, hand, mover>> /\ req' = [req EXCEPT ![p] = Idle]
    BY <1>3 DEF Close
  <2>2. PICK q \in Queue : <<req[p].old, q>> \in claimed[p]
    BY <1>a, <2>1 DEF OneRequeue
  <2>3. PICK x \in Refs : x = req[p].old /\ <<x, q>> \in claimed[p]
    BY <1>a, <2>2
  <2>4. claimed' = [claimed EXCEPT ![p] = {c \in @ : c[1] # x}] /\ AckN(HandleOf(x), 1)
    BY <1>3, <2>3 DEF Close
  <2>5. PICK k \in Kinds, a \in Queue \cup Writer, b \in Queue : Sits(x, k, a, b)
    BY DEF Apart
  <2>6. k = "claim" /\ a = p /\ b = q
    BY <2>3, <2>5 DEF Sits
  <2>7. \A s \in Pipeline : req'[s].new = (IF s = p THEN None ELSE req[s].new)
    BY <1>a, <2>1 DEF Idle
  <2>8. \A c \in claimed'[p] : c[1] # x
    BY <1>a, <2>4
  <2>9. Pending(x) /\ ~Pending(x)'
    BY <1>a, <2>1, <2>3, <2>4, <2>5, <2>6, <2>7, <2>8 DEF Sits, Pending, Placed
  <2> QED
    BY <1>a, <2>4, <2>9, PaidOne
<1> QED
  BY <1>1, <1>2, <1>3

LEMMA ClaimPays ==
  ASSUME TInv, Apart, UnitsKept, [Next]_vars, NEW p \in Pipeline, NEW q \in Queue, NEW r \in 1..MaxRefs,
         AckInserted(p, r, q) \/ DropFailed(p, r, q)
  PROVE  UnitsKept'
<1>1. /\ <<r, q>> \in claimed[p] /\ claimed' = [claimed EXCEPT ![p] = @ \ {<<r, q>>}]
      /\ AckN(HandleOf(r), 1) /\ UNCHANGED <<writer, meta, rows, hand, req, mover>>
  BY DEF AckInserted, DropFailed, Take
<1>2. claimed \in [Pipeline -> SUBSET (Refs \X Queue)]
  BY DEF TInv, TablesInv
<1>3. r \in Refs
  BY <1>1, <1>2
<1>4. PICK k \in Kinds, a \in Queue \cup Writer, b \in Queue : Sits(r, k, a, b)
  BY <1>3 DEF Apart
<1>5. k = "claim" /\ a = p /\ b = q
  BY <1>1, <1>3, <1>4 DEF Sits
<1>6. Pending(r) /\ ~Pending(r)'
  BY <1>1, <1>2, <1>4, <1>5 DEF Sits, Pending, Placed
<1> QED
  BY <1>1, <1>3, <1>6, PaidOne

\* Rows taken out of a table, and acked.
LEMMA RowsPay ==
  ASSUME TInv, Apart, UnitsKept, [Next]_vars, UNCHANGED <<writer, meta, hand, claimed, req>>,
         mover'.held = mover.held, NEW q \in Queue, NEW S \in SUBSET rows[q],
         rows' = [rows EXCEPT ![q] = @ \ S], AckEach(S)
  PROVE  UnitsKept'
<1>1. rows \in [Queue -> SUBSET Refs]
  BY DEF TInv, TablesInv
<1>2. ASSUME NEW x \in S PROVE x \in Refs /\ Pending(x) /\ ~Pending(x)'
  <2>1. x \in Refs /\ x \in rows[q]
    BY <1>1
  <2>2. PICK k \in Kinds, a \in Queue \cup Writer, b \in Queue : Sits(x, k, a, b)
    BY <2>1 DEF Apart
  <2>3. k = "row" /\ a = q
    BY <2>1, <2>2 DEF Sits
  <2> QED
    BY <1>1, <2>1, <2>2, <2>3 DEF Sits, Pending, Placed
<1> QED
  BY <1>2, PaidEach

LEMMA CleanersPay ==
  ASSUME TInv, Apart, UnitsKept, [Next]_vars, MoveClear \/ \E p \in Pipeline : Shed(p)
  PROVE  UnitsKept'
<1>1. ASSUME NEW p \in Pipeline, Shed(p) PROVE UnitsKept'
  <2>1. PICK S \in SUBSET rows[p] : rows' = [rows EXCEPT ![p] = @ \ S] /\ AckEach(S)
    BY <1>1 DEF Shed
  <2>2. UNCHANGED <<writer, meta, hand, claimed, req, mover>> /\ p \in Queue
    BY <1>1, NoneIsNoRef DEF Shed, consumers, TInv
  <2> QED
    BY <2>1, <2>2, RowsPay
<1>2. CASE MoveClear
  <2>1. UNCHANGED <<writer, meta, hand, claimed, req>> /\ mover \in Moves /\ mover.to \in Queue
    BY <1>2, MoverFacts DEF MoveClear, others, store, consumers, TInv, MoverInv
  <2>2. PICK S \in SUBSET rows[mover.to] : S = SameId(mover.held, rows[mover.to])
    BY DEF SameId
  <2>3. CASE CoordinatorDies
    BY <2>1, <2>3, PaidNothing DEF CoordinatorDies
  <2>4. CASE ~CoordinatorDies
    <3>1. rows' = [rows EXCEPT ![mover.to] = @ \ S] /\ AckEach(S) /\ mover' = [mover EXCEPT !.cleared = TRUE]
      BY <1>2, <2>2, <2>4 DEF MoveClear
    <3>2. mover'.held = mover.held
      BY <2>1, <3>1 DEF Moves
    <3> QED
      BY <2>1, <3>1, <3>2, RowsPay
  <2> QED
    BY <2>3, <2>4
<1> QED
  BY <1>1, <1>2

-----------------------------------------------------------------------------
(* Batchers staging, and writers. *)

LEMMA UnitsSame ==
  ASSUME TInv, [Next]_vars, UNCHANGED <<rows, hand, claimed, req, mover>>
  PROVE  \A h : Units(h)' = Units(h)
<1>1. /\ rows \in [Queue -> SUBSET Refs] /\ hand \in [Pipeline -> SUBSET Refs]
      /\ claimed \in [Pipeline -> SUBSET (Refs \X Queue)]
      /\ mover.held \in Refs \cup {None} /\ \A p \in Pipeline : req[p].new \in Refs \cup {None}
  BY MoverFacts, RequeueFacts DEF TInv, TablesInv
<1>2. MetaGrows /\ MetaInv'
  BY StoreStep
<1>3. None \notin Refs'
  BY <1>2, ConstantsAssumption DEF MetaInv, Refs
<1>4. \A r \in Refs' : Pending(r) => r \in Refs
  <2> SUFFICES ASSUME NEW r \in Refs', Pending(r) PROVE r \in Refs
    OBVIOUS
  <2>1. r # None
    BY <1>3
  <2>2. ASSUME NEW q \in Queue, r \in rows[q] PROVE r \in Refs
    BY <1>1, <2>2
  <2>3. ASSUME NEW p \in Pipeline, r \in hand[p] PROVE r \in Refs
    BY <1>1, <2>3
  <2>4. ASSUME NEW p \in Pipeline, NEW q \in Queue, <<r, q>> \in claimed[p] PROVE r \in Refs
    <3>1. <<r, q>> \in Refs \X Queue
      BY <1>1, <2>4
    <3> QED
      BY <3>1
  <2>5. mover.held = r \/ (\E p \in Pipeline : req[p].new = r) => r \in Refs
    BY <1>1, <2>1
  <2> QED
    BY <2>2, <2>3, <2>4, <2>5 DEF Pending, Placed
<1>5. \A r : Pending(r)' = Pending(r)
  BY DEF Pending, Placed
<1> QED
  BY <1>2, <1>4, <1>5 DEF Units, HandleOf, EventOf, MetaGrows

LEMMA StagePays ==
  ASSUME TInv, UnitsKept, [Next]_vars, NEW p \in Pipeline, Stage(p)
  PROVE  UnitsKept'
<1>a. /\ rows \in [Queue -> SUBSET Refs] /\ hand \in [Pipeline -> SUBSET Refs]
      /\ claimed \in [Pipeline -> SUBSET (Refs \X Queue)] /\ req \in [Pipeline -> Requeues]
      /\ mover.held \in Refs \cup {None} /\ \A s \in Pipeline : req[s].new \in Refs \cup {None}
  BY MoverFacts, RequeueFacts DEF TInv, TablesInv, RequeueInv
<1>b. UNCHANGED <<rows, hand, claimed, mover, writer>> /\ MetaGrows
  BY StoreStep DEF Stage
<1>1. PICK x, old : x = Fresh /\ old = req[p].old
  OBVIOUS
<1>2. /\ x \notin Refs /\ x # None /\ Refs' = Refs \cup {x} /\ old \in Refs
      /\ meta'[x] = [event |-> EventOf(old), gen |-> cur, retries |-> meta[old].retries + 1]
  BY <1>1, StageRefs
<1>3. \A s \in Pipeline : req'[s].new = (IF s = p THEN x ELSE req[s].new)
  BY <1>a, <1>1 DEF Stage, Requeues
<1>4. PICK g : g = HandleOf(old)
  OBVIOUS
<1>5. HandleOf(x)' = g /\ \A r \in Refs : HandleOf(r)' = HandleOf(r)
  BY <1>b, <1>2, <1>4 DEF HandleOf, EventOf, MetaGrows
<1>6. \A r \in Refs : Pending(r)' => Pending(r)
  BY <1>b, <1>2, <1>3 DEF Pending, Placed
<1>7. ASSUME NEW h \in Handle
      PROVE  count'[h] >= Cardinality(Unfinished(h)') + Cardinality(Reserved(h)') + Cardinality(Units(h)')
  <2>1. Unfinished(h)' = Unfinished(h) /\ Reserved(h)' = Reserved(h)
    BY <1>b DEF Unfinished, Reserved, Unwritten, Batch
  <2>2. PICK U : U = Units(h)
    OBVIOUS
  <2>3. IsFiniteSet(U) /\ Cardinality(U) \in Nat /\ Cardinality(Unfinished(h)) \in Nat
        /\ Cardinality(Reserved(h)) \in Nat
    BY <2>2, FiniteUnits
  <2>4. count'[h] = (IF h = g THEN count[h] + 1 ELSE count[h]) /\ count[h] \in Int
    BY <1>1, <1>4 DEF Stage, Bump, TInv, CountInv
  <2>5. count[h] >= Cardinality(Unfinished(h)) + Cardinality(Reserved(h)) + Cardinality(U)
    BY <2>2 DEF UnitsKept
  <2>6. CASE h = g
    <3>1. Units(h)' \subseteq U \cup {x}
      BY <1>2, <1>5, <1>6, <2>2 DEF Units
    <3>2. IsFiniteSet(U \cup {x}) /\ Cardinality(U \cup {x}) <= Cardinality(U) + 1 /\ Cardinality(U \cup {x}) \in Nat
      <4>1. IsFiniteSet(U \cup {x}) /\ Cardinality(U \cup {x}) = IF x \in U THEN Cardinality(U) ELSE Cardinality(U) + 1
        BY <2>3, FS_AddElement
      <4> QED
        BY <2>3, <4>1
    <3>3. Cardinality(Units(h)') \in Nat /\ Cardinality(Units(h)') <= Cardinality(U \cup {x})
      BY <3>1, <3>2, FS_Subset, FS_CardinalityType
    <3> QED
      BY <2>1, <2>3, <2>4, <2>5, <2>6, <3>2, <3>3
  <2>7. CASE h # g
    <3>1. Units(h)' \subseteq U
      BY <1>2, <1>5, <1>6, <2>2, <2>7 DEF Units
    <3>2. Cardinality(Units(h)') \in Nat /\ Cardinality(Units(h)') <= Cardinality(U)
      BY <2>3, <3>1, FS_Subset, FS_CardinalityType
    <3> QED
      BY <2>1, <2>3, <2>4, <2>5, <2>7, <3>2
  <2> QED
    BY <2>6, <2>7
<1> QED
  BY <1>7 DEF UnitsKept

\* How much a writer has reserved, and how much after its step.
LEMMA UnwrittenIs ==
  ASSUME TInv, NEW w \in Writer, NEW next \in Nat, next <= Len(Batch(w)) + 1
  PROVE  /\ writer[w].pc \in {"body", "pointer"} /\ writer[w].next = next =>
              Cardinality(Unwritten(w)) = Len(Batch(w)) - next + 1
         /\ writer[w].pc \notin {"body", "pointer"} => Cardinality(Unwritten(w)) = 0
         /\ writer'[w].pc \in {"body", "pointer"} /\ writer'[w].next = next =>
              Cardinality(Unwritten(w)') = Len(Batch(w)) - next + 1
         /\ writer'[w].pc \notin {"body", "pointer"} => Cardinality(Unwritten(w)') = 0
<1>1. Len(Batch(w)) \in Nat
  BY BatchEvents
<1>2. Cardinality({w} \X (next .. Len(Batch(w)))) = Len(Batch(w)) - next + 1
  <2>1. PICK l \in Int : l = Len(Batch(w))
    BY <1>1
  <2>2. PICK a \in Int : a = next
    OBVIOUS
  <2>3. Cardinality({w} \X (a .. l)) = IF a > l THEN 0 ELSE l - a + 1
    BY RowsOfUnwritten
  <2> QED
    BY <2>1, <2>2, <2>3
<1> QED
  BY <1>2, FS_EmptySet DEF Unwritten, Batch

\* Only the writer w goes on; it had m events reserved and has n; it makes at most u
\* pointers.
OnlyWriter(w) == (\A v \in Writer : v # w => writer'[v] = writer[v]) /\ writer'[w].next \in Int
ReservedGoes(w, m, n) == Cardinality(Unwritten(w)) = m /\ Cardinality(Unwritten(w)') = n
PointersMade(w, u) ==
  \A h \in Handle : /\ Cardinality(Units(h)') \in Nat
                    /\ Cardinality(Units(h)') <= Cardinality(Units(h)) + IF h = handleOf[w] THEN u ELSE 0

\* It adds d to the counter of its segment.
LEMMA WriterPays ==
  ASSUME TInv, UnitsKept, NEW w \in Writer, NEW d \in Int, NEW u \in Nat, NEW m \in Nat, NEW n \in Nat,
         OnlyWriter(w), PointersMade(w, u), ReservedGoes(w, m, n), Bump(handleOf[w], d),
         writer[w].pc # "done", writer'[w].pc # "done", n - m + u <= d
  PROVE  UnitsKept'
<1> SUFFICES ASSUME NEW h \in Handle
             PROVE  count'[h] >= Cardinality(Unfinished(h)') + Cardinality(Reserved(h)') + Cardinality(Units(h)')
  BY DEF UnitsKept
<1>1. /\ Cardinality(Units(h)) \in Nat /\ Cardinality(Unfinished(h)) \in Nat
      /\ Cardinality(Reserved(h)) \in Nat
  BY FiniteUnits
<1>2. Cardinality(Reserved(h)') = Cardinality(Reserved(h)) + IF h = handleOf[w] THEN n - m ELSE 0
  BY ReservedTurn DEF OnlyWriter, ReservedGoes
<1>3. count'[h] = (IF h = handleOf[w] THEN count[h] + d ELSE count[h]) /\ count[h] \in Int
  BY DEF Bump, TInv, CountInv
<1>4. count[h] >= Cardinality(Unfinished(h)) + Cardinality(Reserved(h)) + Cardinality(Units(h))
  BY DEF UnitsKept
<1>5. Unfinished(h)' = Unfinished(h)
  BY DEF Unfinished, OnlyWriter
<1>6. Cardinality(Units(h)') \in Nat
      /\ Cardinality(Units(h)') <= Cardinality(Units(h)) + IF h = handleOf[w] THEN u ELSE 0
  BY DEF PointersMade
<1>7. CASE h = handleOf[w]
  BY <1>1, <1>2, <1>3, <1>4, <1>5, <1>6, <1>7
<1>8. CASE h # handleOf[w]
  BY <1>1, <1>2, <1>3, <1>4, <1>5, <1>6, <1>8
<1> QED
  BY <1>7, <1>8

\* The last one acks the segment.
LEMMA FinishPays ==
  ASSUME TInv, UnitsKept, NEW w \in Writer, OnlyWriter(w), PointersMade(w, 0), ReservedGoes(w, 0, 0),
         Bump(handleOf[w], -1), writer[w].pc # "done", writer'[w].pc = "done"
  PROVE  UnitsKept'
<1> SUFFICES ASSUME NEW h \in Handle
             PROVE  count'[h] >= Cardinality(Unfinished(h)') + Cardinality(Reserved(h)') + Cardinality(Units(h)')
  BY DEF UnitsKept
<1>1. /\ IsFiniteSet(Unfinished(h)) /\ Cardinality(Units(h)) \in Nat /\ Cardinality(Unfinished(h)) \in Nat
      /\ Cardinality(Reserved(h)) \in Nat
  BY FiniteUnits
<1>2. Cardinality(Reserved(h)') = Cardinality(Reserved(h))
  BY <1>1, ReservedTurn DEF OnlyWriter, ReservedGoes
<1>3. count'[h] = (IF h = handleOf[w] THEN count[h] - 1 ELSE count[h]) /\ count[h] \in Int
  BY DEF Bump, TInv, CountInv
<1>4. count[h] >= Cardinality(Unfinished(h)) + Cardinality(Reserved(h)) + Cardinality(Units(h))
  BY DEF UnitsKept
<1>5. Cardinality(Units(h)') \in Nat /\ Cardinality(Units(h)') <= Cardinality(Units(h))
  BY <1>1 DEF PointersMade
<1>6. CASE h # handleOf[w]
  <2>1. Unfinished(h)' = Unfinished(h)
    BY <1>6 DEF Unfinished, OnlyWriter
  <2> QED
    BY <1>1, <1>2, <1>3, <1>4, <1>5, <1>6, <2>1
<1>7. CASE h = handleOf[w]
  <2>1. Unfinished(h)' = Unfinished(h) \ {w} /\ w \in Unfinished(h)
    BY <1>7 DEF Unfinished, OnlyWriter
  <2>2. PICK U : U = Unfinished(h)
    OBVIOUS
  <2>3. Cardinality(U \ {w}) = Cardinality(U) - 1
    BY <1>1, <2>1, <2>2, FS_RemoveElement
  <2> QED
    BY <1>1, <1>2, <1>3, <1>4, <1>5, <1>7, <2>1, <2>2, <2>3
<1> QED
  BY <1>6, <1>7

LEMMA PublishPays ==
  ASSUME TInv, UnitsKept, [Next]_vars, NEW w \in Writer, InsertPointer(w)
  PROVE  UnitsKept'
<1>a. /\ writer \in [Writer -> Insertions] /\ OneWriter(w) /\ handleOf[w] \in Handle
      /\ Len(Batch(w)) \in Nat \ {0} /\ writer[w].next \in Nat \ {0} /\ Handle = DOMAIN count
  BY BatchEvents, WriterFacts DEF TInv, WriterInv, Handle, CountInv
<1>1. PICK x \in Refs, q \in Queue : x = writer[w].ref /\ q = writer[w].target
  BY WriterFacts DEF TInv, WriterInv, OneWriter, InsertPointer
<1>2. /\ writer[w].pc = "pointer" /\ writer'[w].next = writer[w].next + 1
      /\ writer'[w].pc = (IF writer[w].next + 1 > Len(Batch(w)) THEN "finish" ELSE "body")
      /\ writer[w].next <= Len(Batch(w))
  BY <1>a DEF InsertPointer, NextRow, Insertions, OneWriter
<1>3. PICK k \in Nat : k = writer[w].next /\ k <= Len(Batch(w))
  BY <1>a, <1>2
<1>4. PICK n \in Nat : n = Len(Batch(w)) - k
  BY <1>a, <1>3
<1>5. OnlyWriter(w)
  BY <1>a, <1>2 DEF OnlyWriter, InsertPointer, NextRow
<1>6. ReservedGoes(w, n + 1, n)
  <2>1. Cardinality(Unwritten(w)) = Len(Batch(w)) - k + 1
    <3>1. k <= Len(Batch(w)) + 1
      BY <1>a, <1>3
    <3> QED
      BY <1>2, <1>3, <3>1, UnwrittenIs
  <2>2. PICK j \in Nat : j = k + 1 /\ j <= Len(Batch(w)) + 1
    BY <1>a, <1>3
  <2>3. CASE writer'[w].pc = "finish"
    <3>1. Cardinality(Unwritten(w)') = 0
      BY <2>2, <2>3, UnwrittenIs
    <3>2. n = 0
      BY <1>a, <1>2, <1>3, <1>4, <2>3
    <3> QED
      BY <1>4, <2>1, <3>1, <3>2 DEF ReservedGoes
  <2>4. CASE writer'[w].pc = "body"
    <3>1. Cardinality(Unwritten(w)') = Len(Batch(w)) - j + 1
      BY <1>2, <1>3, <2>2, <2>4, UnwrittenIs
    <3>2. Cardinality(Unwritten(w)') = n /\ Cardinality(Unwritten(w)) = n + 1
      BY <1>a, <1>4, <2>1, <2>2, <3>1
    <3> QED
      BY <3>2 DEF ReservedGoes
  <2> QED
    BY <1>2, <2>3, <2>4
<1>7. HandleOf(x) = handleOf[w]
  <2>1. EventOf(x) \in Events(w)
    BY <1>a, <1>1, <1>2, BatchEvents DEF OneWriter
  <2> QED
    BY <2>1, HandlesOf DEF HandleOf
<1>8. UNCHANGED <<meta, hand, claimed, req, mover>>
  BY DEF InsertPointer, consumers
<1>9. writer[w].pc # "done" /\ writer'[w].pc # "done" /\ n + 1 \in Nat
  BY <1>2
<1>10. CASE rows' = rows /\ AckN(HandleOf(x), 1)
  <2>1. Bump(handleOf[w], -1) /\ n - (n + 1) + 0 <= -1
    <3>1. \A i \in Int : AckN(handleOf[w], i) => Bump(handleOf[w], -i)
      BY <1>a DEF Bump, AckN, TInv, CountInv
    <3>2. n - (n + 1) + 0 <= -1
      OBVIOUS
    <3> QED
      BY <1>7, <1>10, <3>1, <3>2
  <2>2. PointersMade(w, 0)
    <3>1. \A h \in Handle : Cardinality(Units(h)) \in Nat
      BY FiniteUnits
    <3> QED
      BY <1>8, <1>10, <3>1, UnitsSame DEF PointersMade
  <2> QED
    BY <1>5, <1>6, <1>9, <2>1, <2>2, WriterPays
<1>11. CASE rows' = [rows EXCEPT ![q] = @ \cup {x}] /\ UNCHANGED count
  <2>1. \A r \in Refs : Pending(r)' => r = x \/ Pending(r)
    BY <1>8, <1>11 DEF Pending, Placed, TInv, TablesInv
  <2>2. ASSUME NEW h \in Handle
        PROVE  /\ Cardinality(Units(h)') \in Nat
               /\ Cardinality(Units(h)') <= Cardinality(Units(h)) + IF h = handleOf[w] THEN 1 ELSE 0
    <3>1. PICK U : U = Units(h)
      OBVIOUS
    <3>2. IsFiniteSet(U) /\ Cardinality(U) \in Nat
      BY <3>1, FiniteUnits
    <3>3. CASE h = handleOf[w]
      <4>1. Units(h)' \subseteq U \cup {x}
        BY <1>8, <2>1, <3>1 DEF Units, Refs, HandleOf, EventOf
      <4>2. IsFiniteSet(U \cup {x}) /\ Cardinality(U \cup {x}) = IF x \in U THEN Cardinality(U) ELSE Cardinality(U) + 1
        BY <3>2, FS_AddElement
      <4>3. Cardinality(Units(h)') \in Nat /\ Cardinality(Units(h)') <= Cardinality(U \cup {x})
        BY <4>1, <4>2, FS_Subset, FS_CardinalityType
      <4> QED
        BY <3>1, <3>2, <3>3, <4>2, <4>3
    <3>4. CASE h # handleOf[w]
      <4>1. Units(h)' \subseteq U
        BY <1>7, <1>8, <2>1, <3>1, <3>4 DEF Units, Refs, HandleOf, EventOf
      <4>2. Cardinality(Units(h)') \in Nat /\ Cardinality(Units(h)') <= Cardinality(U)
        BY <3>2, <4>1, FS_Subset, FS_CardinalityType
      <4> QED
        BY <3>1, <3>2, <3>4, <4>2
    <3> QED
      BY <3>3, <3>4
  <2>3. PointersMade(w, 1)
    BY <2>2 DEF PointersMade
  <2>4. Bump(handleOf[w], 0) /\ n - (n + 1) + 1 <= 0
    BY <1>11 DEF Bump, TInv, CountInv
  <2> QED
    BY <1>5, <1>6, <1>9, <2>3, <2>4, WriterPays
<1> QED
  BY <1>1, <1>10, <1>11 DEF InsertPointer

LEMMA WritersPay ==
  ASSUME TInv, UnitsKept, [Next]_vars, NEW w \in Writer, WriterStep(w)
  PROVE  UnitsKept'
<1>a. /\ writer \in [Writer -> Insertions] /\ OneWriter(w) /\ handleOf[w] \in Handle
      /\ Len(Batch(w)) \in Nat \ {0} /\ writer[w].next \in Nat \ {0} /\ Handle = DOMAIN count
  BY BatchEvents, WriterFacts DEF TInv, WriterInv, Handle, CountInv
<1>b. \A v \in Writer : v # w => writer'[v] = writer[v]
  BY <1>a DEF WriterStep, Pick, Reserve, InsertBody, InsertPointer, NextRow, Abort, Finish
<1>c. \A h \in Handle : Cardinality(Units(h)) \in Nat
  BY FiniteUnits
<1>d. UNCHANGED <<rows, hand, claimed, req, mover>> => PointersMade(w, 0)
  BY <1>c, UnitsSame DEF PointersMade
<1>e. UNCHANGED count => Bump(handleOf[w], 0)
  BY DEF Bump, TInv, CountInv
<1>f. \A n \in Int : AckN(handleOf[w], n) => Bump(handleOf[w], -n)
  BY <1>a DEF Bump, AckN, TInv, CountInv
<1>g. writer'[w].next \in Int => OnlyWriter(w)
  BY <1>b DEF OnlyWriter
<1>h. PICK l \in Nat \ {0} : l = Len(Batch(w))
  BY <1>a
<1>1. CASE Pick(w)
  <2>1. UNCHANGED <<rows, hand, claimed, req, mover, count>> /\ writer[w].pc = "pick"
    BY <1>1 DEF Pick, consumers
  <2>2. writer'[w].pc \in {"reserve", "finish"} /\ writer'[w].next = writer[w].next
    BY <1>a, <1>1 DEF Pick, Insertions
  <2>3. ReservedGoes(w, 0, 0)
    <3>1. PICK k \in Nat : k = 1 /\ k <= Len(Batch(w)) + 1
      BY <1>a
    <3>2. Cardinality(Unwritten(w)) = 0 /\ Cardinality(Unwritten(w)') = 0
      BY <2>1, <2>2, <3>1, UnwrittenIs
    <3> QED
      BY <3>2 DEF ReservedGoes
  <2>4. OnlyWriter(w) /\ PointersMade(w, 0) /\ Bump(handleOf[w], 0)
    BY <1>a, <1>d, <1>e, <1>g, <2>1, <2>2
  <2> QED
    BY <2>1, <2>2, <2>3, <2>4, WriterPays
<1>2. CASE Reserve(w)
  <2>1. UNCHANGED <<rows, hand, claimed, req, mover>> /\ writer[w].pc = "reserve" /\ writer[w].next = 1
        /\ Bump(handleOf[w], l)
    BY <1>a, <1>h, <1>2 DEF Reserve, consumers, OneWriter
  <2>2. writer'[w].pc = "body" /\ writer'[w].next = 1
    BY <1>a, <1>2, <2>1 DEF Reserve, Insertions
  <2>3. ReservedGoes(w, 0, l)
    <3>1. PICK k \in Nat : k = 1 /\ k <= Len(Batch(w)) + 1
      BY <1>a
    <3>2. Cardinality(Unwritten(w)) = 0 /\ Cardinality(Unwritten(w)') = Len(Batch(w)) - k + 1
      BY <2>1, <2>2, <3>1, UnwrittenIs
    <3> QED
      BY <1>h, <3>1, <3>2 DEF ReservedGoes
  <2>4. OnlyWriter(w) /\ PointersMade(w, 0)
    BY <1>d, <1>g, <2>1, <2>2
  <2>5. l - 0 + 0 <= l
    OBVIOUS
  <2> QED
    BY <2>1, <2>2, <2>3, <2>4, <2>5, WriterPays
<1>3. CASE InsertBody(w)
  <2>1. UNCHANGED <<rows, hand, claimed, req, mover, count>> /\ writer[w].pc = "body"
    BY <1>3 DEF InsertBody, consumers
  <2>2. writer'[w].pc = "pointer" /\ writer'[w].next = writer[w].next /\ writer[w].next <= Len(Batch(w))
    BY <1>a, <1>3, <2>1 DEF InsertBody, Insertions, OneWriter
  <2>3. PICK k \in Nat : k = writer[w].next /\ k <= Len(Batch(w)) + 1
    BY <1>a, <2>2
  <2>4. PICK m \in Nat : m = Len(Batch(w)) - k + 1
    BY <1>a, <2>3
  <2>5. ReservedGoes(w, m, m)
    <3>1. Cardinality(Unwritten(w)) = Len(Batch(w)) - k + 1 /\ Cardinality(Unwritten(w)') = Len(Batch(w)) - k + 1
      BY <2>1, <2>2, <2>3, UnwrittenIs
    <3> QED
      BY <2>4, <3>1 DEF ReservedGoes
  <2>6. OnlyWriter(w) /\ PointersMade(w, 0) /\ Bump(handleOf[w], 0)
    BY <1>a, <1>d, <1>e, <1>g, <2>1, <2>2
  <2>7. PICK n \in Nat : n = m /\ n - m + 0 <= 0
    OBVIOUS
  <2>8. ReservedGoes(w, m, n)
    BY <2>5, <2>7
  <2> QED
    BY <2>1, <2>2, <2>6, <2>7, <2>8, WriterPays
<1>4. CASE InsertPointer(w)
  BY <1>4, PublishPays
<1>5. CASE Abort(w)
  <2>1. UNCHANGED <<rows, hand, claimed, req, mover>> /\ writer[w].pc \in {"body", "pointer"}
        /\ AckN(handleOf[w], Len(Batch(w)) - writer[w].next + 1)
    BY <1>5 DEF Abort, Raises, consumers
  <2>2. writer'[w].pc \in {"reserve", "finish"} /\ writer'[w].next \in Int
    <3>1. CASE writer' = [writer EXCEPT ![w].pc = "reserve", ![w].target = Startup, ![w].next = 1, ![w].ref = None]
      BY <1>a, <3>1 DEF Insertions
    <3>2. CASE writer' = [writer EXCEPT ![w].pc = "finish", ![w].ref = None]
      BY <1>a, <3>2 DEF Insertions
    <3> QED
      BY <1>5, <3>1, <3>2 DEF Abort
  <2>3. PICK k \in Nat : k = writer[w].next /\ k <= Len(Batch(w)) + 1 /\ k <= Len(Batch(w))
    BY <1>a, <2>1 DEF OneWriter
  <2>4. PICK m \in Nat : m = Len(Batch(w)) - k + 1
    BY <1>a, <2>3
  <2>5. ReservedGoes(w, m, 0)
    <3>1. Cardinality(Unwritten(w)) = Len(Batch(w)) - k + 1 /\ Cardinality(Unwritten(w)') = 0
      BY <2>1, <2>2, <2>3, UnwrittenIs
    <3> QED
      BY <2>4, <3>1 DEF ReservedGoes
  <2>6. PICK d \in Int : d = -m /\ 0 - m + 0 <= d
    OBVIOUS
  <2>7. OnlyWriter(w) /\ PointersMade(w, 0) /\ Bump(handleOf[w], d)
    BY <1>d, <1>f, <1>g, <2>1, <2>2, <2>3, <2>4, <2>6
  <2> QED
    BY <2>1, <2>2, <2>5, <2>6, <2>7, WriterPays
<1>6. CASE Finish(w)
  <2>1. UNCHANGED <<rows, hand, claimed, req, mover>> /\ writer[w].pc = "finish" /\ AckN(handleOf[w], 1)
    BY <1>6 DEF Finish, consumers
  <2>2. writer'[w].pc = "done" /\ writer'[w].next = writer[w].next
    BY <1>a, <1>6 DEF Finish, Insertions
  <2>3. ReservedGoes(w, 0, 0)
    <3>1. PICK k \in Nat : k = 1 /\ k <= Len(Batch(w)) + 1
      BY <1>a
    <3>2. Cardinality(Unwritten(w)) = 0 /\ Cardinality(Unwritten(w)') = 0
      BY <2>1, <2>2, <3>1, UnwrittenIs
    <3> QED
      BY <3>2 DEF ReservedGoes
  <2>4. OnlyWriter(w) /\ PointersMade(w, 0) /\ Bump(handleOf[w], -1)
    BY <1>a, <1>d, <1>f, <1>g, <2>1, <2>2
  <2> QED
    BY <2>1, <2>2, <2>3, <2>4, FinishPays
<1> QED
  BY <1>1, <1>2, <1>3, <1>4, <1>5, <1>6 DEF WriterStep

LEMMA UnitsStep ==
  ASSUME TInv, Apart, UnitsKept, [Next]_vars
  PROVE  UnitsKept'
<1>1. CASE Writing
  BY <1>1, WritersPay DEF Writing
<1>2. CASE \E p \in Pipeline : Stage(p)
  BY <1>2, StagePays
<1>3. CASE UNCHANGED <<writer, meta, count>>
  BY <1>3, PaidNothing
<1>4. CASE Counting /\ ~Writing
  BY <1>2, <1>4, BatcherPays, ClaimPays, CleanersPay DEF Counting, Writing, WriterStep, RequeueStep
<1>5. UNCHANGED meta \/ Writing \/ \E p \in Pipeline : Stage(p)
  BY Writers DEF Frame, Writing, WriterStep, Rotate, DropGeneration
<1> QED
  BY <1>1, <1>2, <1>3, <1>4, <1>5, Writers DEF Frame

\* A segment's counter is never below what is still to be acked of it: whatever is
\* retried, moved, deduplicated, shed or lost, no unit is acked twice.
THEOREM IngestEventQueueNoOverRelease == Spec => []NoOverRelease
<1>1. Init => TInv /\ Apart /\ UnitsKept
  <2> SUFFICES ASSUME Init PROVE UnitsKept
    BY TypesInit, ApartInit
  <2>1. ASSUME NEW h \in Handle
        PROVE  count[h] >= Cardinality(Unfinished(h)) + Cardinality(Reserved(h)) + Cardinality(Units(h))
    <3>1. Unfinished(h) = {w \in Writer : handleOf[w] = h}
      BY DEF Init, Unfinished
    <3>2. Reserved(h) = {}
      BY DEF Init, Reserved, Unwritten
    <3>3. Units(h) = {}
      BY DEF Init, Units, Refs
    <3>4. count[h] = Cardinality({w \in Writer : handleOf[w] = h})
      BY DEF Init
    <3>5. Cardinality({w \in Writer : handleOf[w] = h}) \in Nat
      BY ConstantsAssumption, FS_Subset, FS_CardinalityType
    <3> QED
      BY <3>1, <3>2, <3>3, <3>4, <3>5, FS_EmptySet
  <2> QED
    BY <2>1 DEF UnitsKept
<1>2. TInv /\ Apart /\ UnitsKept /\ [Next]_vars => TInv' /\ Apart' /\ UnitsKept'
  BY TypesStep, ApartStep, UnitsStep
<1>3. TInv /\ UnitsKept => NoOverRelease
  <2> SUFFICES ASSUME TInv, NEW h \in Handle PROVE PointersOf(h) = Units(h)
    BY DEF UnitsKept, NoOverRelease, Owned
  <2>1. ASSUME NEW r \in Refs PROVE Placed(r) <=> Places(r) # {}
    <3>1. mover.held = r => mover.from \in Queue
      BY NoneIsNoRef, MoverFacts DEF TInv, MoverInv
    <3>2. Placed(r) => \E x : x \in Places(r)
      BY <3>1 DEF Placed, Places
    <3>3. ASSUME NEW x \in Places(r) PROVE Placed(r)
      BY <3>3 DEF Placed, Places
    <3> QED
      BY <3>2, <3>3
  <2>2. \A p \in Pipeline : req[p].new \in Refs \cup {None}
    BY RequeueFacts DEF TInv
  <2>3. \A r \in Pointers : r \in Refs
    BY <2>2 DEF Pointers
  <2>4. \A r \in Refs : r \in Pointers <=> Pending(r)
    BY <2>1, NoneIsNoRef DEF Pointers, Pending, TInv
  <2> QED
    BY <2>3, <2>4 DEF PointersOf, Units
<1> QED
  BY <1>1, <1>2, <1>3, PTL DEF Spec

=============================================================================
