--------------------------- MODULE QueueProducer ---------------------------
(***************************************************************************)
(* Spool.ConsumerPipeline.QueueProducer: the GenStage producer that polls  *)
(* the queue, prefetches one file at a time in a background task, and      *)
(* emits the segments of the loaded file within a byte budget.             *)
(*                                                                         *)
(* Module SpoolAck follows a handle from the producer to the broker's ack; *)
(* this module looks inside the producer: its poll timer, its prefetch     *)
(* slot, the task that fills it, and the two ways it is told to stop.      *)
(*                                                                         *)
(* Time is abstracted: an armed timer may fire at any moment, so the       *)
(* backoff and throttle delays only show as armed or not.  The memory      *)
(* flags over_limit?/0 reads change between handlers, not inside one.      *)
(***************************************************************************)
EXTENDS Integers, Sequences, FiniteSetsExt

CONSTANTS
  Handle,        \* deliveries the broker can make, each received at most once
  segmentsOf,    \* [Handle -> Seq(Nat \ {0})]: segment sizes of the file it names
  NoHandle,      \* nil
  MaxInFlight,   \* option :max_in_flight, in bytes
  MayRaise,      \* whether storage or queue calls can raise or exit
  MayDie,        \* whether the producer can be killed, and is then restarted
  Task,          \* slots for prefetch tasks, reused
  MaxDemand,     \* bound: demand outstanding at the producer
  MaxPolls       \* bound: :poll messages in the mailbox

ASSUME SegmentsAssumption ==
  /\ DOMAIN segmentsOf = Handle
  /\ \A h \in Handle : segmentsOf[h] \in Seq(Nat \ {0}) /\ segmentsOf[h] # <<>>
ASSUME BoundsAssumption ==
  /\ MaxInFlight \in Nat /\ MaxDemand \in Nat \ {0} /\ MaxPolls \in Nat \ {0}
  /\ MayRaise \in BOOLEAN /\ MayDie \in BOOLEAN /\ NoHandle \notin Handle

VARIABLES
  demand,      \* state.demand
  current,     \* [handle, emitted]: state.current, and how many segments are gone
  prefetch,    \* state.prefetch: a Result, or tag "nil" or "running"
  receiving,   \* state.receiving
  draining,    \* state.draining
  timer,       \* whether poll_timer is pending
  polls,       \* :poll messages in the mailbox
  inbox,       \* {:prefetch_result, _} messages in the mailbox
  inFlight,    \* the :atomics counter behind in_flight_ref
  flying,      \* segments <<h, i>> emitted and not acked, counted by that ref
  overLimit,   \* what over_limit?/0 answers
  task,        \* [Task -> what each prefetch task is doing]
  fate,        \* [Handle -> Fate]
  casualties   \* history: handles that died with a raising task or a killed producer

vars == <<demand, current, prefetch, receiving, draining, timer, polls, inbox, inFlight,
          flying, overLimit, task, fate, casualties>>

mailbox == <<timer, polls, inbox>>

\* "twice" is a handle acked or nacked again after it was settled.
Fate == {"queued", "received", "loaded", "acked", "nacked", "twice"}

Result == [tag : {"ok", "error"}, handle : Handle] \cup [tag : {"empty", "error"}, handle : {NoHandle}]

Nil == [tag |-> "nil", handle |-> NoHandle]
Running == [tag |-> "running", handle |-> NoHandle]
Empty == [tag |-> "empty", handle |-> NoHandle]
Crashed == [tag |-> "error", handle |-> NoHandle]
Loaded(h) == [tag |-> "ok", handle |-> h]
Failed(h) == [tag |-> "error", handle |-> h]

Ready(p) == p \in Result

\* A task: no process behind the slot, blocked in queue_mod.receive, downloading
\* for a handle, or with a result to deliver.
TaskState == [pc : {"idle", "receiving", "holding", "done"}, handle : Handle \cup {NoHandle},
              result : Result \cup {Nil}, orphan : BOOLEAN]
Idle == [pc |-> "idle", handle |-> NoHandle, result |-> Nil, orphan |-> FALSE]

NoFile == [handle |-> NoHandle, emitted |-> 0]

-----------------------------------------------------------------------------
(* The loaded file and the byte budget. *)

\* How many segments of the file c are still to be emitted.
Remaining(c) == IF c.handle = NoHandle THEN 0 ELSE Len(segmentsOf[c.handle]) - c.emitted

\* buffered?/1
Buffered(c) == Remaining(c) > 0

\* The next k segments of the file c.
Ahead(c, k) == {<<c.handle, i>> : i \in c.emitted + 1 .. c.emitted + k}

\* A byte is a segment and an offset in it, so a set of segments weighs as many
\* bytes as it has.
BytesOf(S) == UNION {{s} \X (1 .. segmentsOf[s[1]][s[2]]) : s \in S}
Size(S) == Cardinality(BytesOf(S))

\* Mutant of TakeCount: no segment is ever exempt from the budget.
TakeCountNoExemption(c, n, available, nothingInFlight) ==
  Max({k \in 0..Remaining(c) : k <= n /\ \A j \in 1..k : Size(Ahead(c, j)) <= available})

\* Mutant of TakeCount: the first segment is exempt whatever is in flight.
TakeCountAlwaysExempt(c, n, available, nothingInFlight) ==
  Max({k \in 0..Remaining(c) : k <= n /\ \A j \in 1..k : j = 1 \/ Size(Ahead(c, j)) <= available})

\* take_count_within_budget/4: as many of the next n segments as fit, the first
\* one in any case when nothing is in flight.
TakeCount(c, n, available, nothingInFlight) ==
  Max({k \in 0..Remaining(c) :
         k <= n /\ \A j \in 1..k : (j = 1 /\ nothingInFlight) \/ Size(Ahead(c, j)) <= available})

\* available_in_flight/1
Available == Max({MaxInFlight - inFlight, 0})

\* emit_from_buffer/1 on the file c with d segments asked for.
Emit(c, d) ==
  LET n == TakeCount(c, d, Available, inFlight = 0)
  IN  /\ current' = [c EXCEPT !.emitted = @ + n]
      /\ demand' = d - n
      /\ inFlight' = inFlight + Size(Ahead(c, n))
      /\ flying' = flying \cup Ahead(c, n)

\* schedule_poll/2: cancel_timer has no effect on a :poll already in the mailbox.
SchedulePoll == timer' = TRUE

-----------------------------------------------------------------------------
(* Callbacks of the producer. *)

\* The fate of h once it is settled as f: a second settlement leaves its mark.
Settled(h, f) == IF fate[h] \in {"acked", "nacked", "twice"} THEN "twice" ELSE f

\* nack_and_notify for whichever of the given results or files has a handle.
Nack(H) == [h \in Handle |-> IF h \in H THEN Settled(h, "nacked") ELSE fate[h]]

HandleDemand(d) ==
  /\ demand + d <= MaxDemand
  /\ \/ /\ draining
        /\ UNCHANGED <<demand, current, inFlight, flying, timer>>
     \/ /\ ~draining /\ Buffered(current) /\ ~overLimit
        /\ Emit(current, demand + d)
        /\ \/ Buffered(current') /\ demand' > 0 /\ inFlight' >= MaxInFlight /\ SchedulePoll
           \/ ~(Buffered(current') /\ demand' > 0 /\ inFlight' >= MaxInFlight) /\ UNCHANGED timer
     \/ /\ ~draining /\ ~(Buffered(current) /\ ~overLimit)
        /\ demand' = demand + d
        /\ IF Ready(prefetch) THEN SchedulePoll ELSE UNCHANGED timer
        /\ UNCHANGED <<current, inFlight, flying>>
  /\ UNCHANGED <<prefetch, receiving, draining, polls, inbox, overLimit, task, fate, casualties>>

\* The timer fires.
TimerFires ==
  /\ timer /\ polls < MaxPolls
  /\ timer' = FALSE
  /\ polls' = polls + 1
  /\ UNCHANGED <<demand, current, prefetch, receiving, draining, inbox, inFlight, flying,
                 overLimit, task, fate, casualties>>

\* Mutant of IdlePoll: an idle poll does not rearm the timer.
IdlePollOnce ==
  /\ draining \/ demand = 0 \/ overLimit
  /\ UNCHANGED <<timer, demand, current, prefetch, inFlight, flying, task, fate>>

\* :poll while draining, or with no demand or too little memory: at most rearms.
IdlePoll ==
  /\ draining \/ demand = 0 \/ overLimit
  /\ timer' = (timer \/ ~draining)
  /\ UNCHANGED <<demand, current, prefetch, inFlight, flying, task, fate>>

\* :poll otherwise: maybe_clear_exhausted, maybe_load_next, maybe_start_prefetch
\* and emit_from_buffer, in that order.
BusyPoll ==
  /\ ~draining /\ demand > 0 /\ ~overLimit
  /\ LET cleared == IF Buffered(current) THEN current ELSE NoFile
         settles == cleared = NoFile /\ Ready(prefetch)
         loads   == settles /\ prefetch.tag = "ok"
         file    == IF loads THEN [handle |-> prefetch.handle, emitted |-> 0] ELSE cleared
         slot    == IF settles THEN Nil ELSE prefetch
     IN  /\ fate' = IF loads THEN [fate EXCEPT ![prefetch.handle] = "loaded"]
                    ELSE IF settles THEN Nack({prefetch.handle}) ELSE fate
         /\ IF slot = Nil /\ receiving
              THEN /\ \E t \in Task : task[t] = Idle /\ task' = [task EXCEPT ![t].pc = "receiving"]
                   /\ prefetch' = Running
              ELSE /\ prefetch' = slot
                   /\ UNCHANGED task
         /\ IF Buffered(file) THEN Emit(file, demand)
            ELSE current' = file /\ UNCHANGED <<demand, inFlight, flying>>
  /\ SchedulePoll

\* handle_info(:poll, state)
HandlePoll ==
  /\ polls > 0
  /\ polls' = polls - 1
  /\ IdlePoll \/ BusyPoll
  /\ UNCHANGED <<receiving, draining, inbox, overLimit, casualties>>

\* Mutant of HandlePrefetchResult: after stop_receiving the handle is dropped.
HandlePrefetchResultDrops(r) ==
  /\ r \in inbox
  /\ inbox' = inbox \ {r}
  /\ IF draining \/ ~receiving
       THEN prefetch' = (IF draining THEN prefetch ELSE Nil) /\ UNCHANGED timer
       ELSE /\ prefetch' = r
            /\ IF demand > 0 /\ ~Buffered(current) THEN SchedulePoll ELSE UNCHANGED timer
  /\ UNCHANGED <<demand, current, receiving, draining, polls, inFlight, flying, overLimit, task,
                 fate, casualties>>

\* Mutant of HandlePrefetchResult: after stop_receiving the slot stays :running.
HandlePrefetchResultKeepsRunning(r) ==
  /\ r \in inbox
  /\ inbox' = inbox \ {r}
  /\ IF draining \/ ~receiving
       THEN fate' = Nack({r.handle}) /\ UNCHANGED <<prefetch, timer>>
       ELSE /\ prefetch' = r
            /\ IF demand > 0 /\ ~Buffered(current) THEN SchedulePoll ELSE UNCHANGED timer
            /\ UNCHANGED fate
  /\ UNCHANGED <<demand, current, receiving, draining, polls, inFlight, flying, overLimit, task,
                 casualties>>

\* handle_info({:prefetch_result, r}, state)
HandlePrefetchResult(r) ==
  /\ r \in inbox
  /\ inbox' = inbox \ {r}
  /\ IF draining \/ ~receiving
       THEN /\ fate' = Nack({r.handle})
            /\ prefetch' = IF draining THEN prefetch ELSE Nil
            /\ UNCHANGED timer
       ELSE /\ prefetch' = r
            /\ IF demand > 0 /\ ~Buffered(current) THEN SchedulePoll ELSE UNCHANGED timer
            /\ UNCHANGED fate
  /\ UNCHANGED <<demand, current, receiving, draining, polls, inFlight, flying, overLimit, task,
                 casualties>>

\* Mutant of StopReceiving: forgets to clear the prefetch it nacked.
StopReceivingKeepsSlot ==
  /\ fate' = IF Ready(prefetch) THEN Nack({prefetch.handle}) ELSE fate
  /\ receiving' = FALSE
  /\ UNCHANGED <<demand, current, prefetch, draining, mailbox, inFlight, flying, overLimit, task,
                 casualties>>

\* Mutant of StopReceiving: forgets a running prefetch.
StopReceivingClearsRunning ==
  /\ fate' = IF Ready(prefetch) THEN Nack({prefetch.handle}) ELSE fate
  /\ prefetch' = Nil
  /\ receiving' = FALSE
  /\ UNCHANGED <<demand, current, draining, mailbox, inFlight, flying, overLimit, task, casualties>>

\* handle_call(:stop_receiving, ...), from ShutdownDrain.
StopReceiving ==
  /\ fate' = IF Ready(prefetch) THEN Nack({prefetch.handle}) ELSE fate
  /\ prefetch' = IF Ready(prefetch) THEN Nil ELSE prefetch
  /\ receiving' = FALSE
  /\ UNCHANGED <<demand, current, draining, mailbox, inFlight, flying, overLimit, task, casualties>>

\* prepare_for_draining/1, when Broadway shuts the pipeline down.
PrepareForDraining ==
  /\ ~draining
  /\ fate' = Nack((IF Buffered(current) THEN {current.handle} ELSE {})
                  \cup (IF Ready(prefetch) THEN {prefetch.handle} ELSE {}))
  /\ draining' = TRUE
  /\ demand' = 0 /\ current' = NoFile /\ prefetch' = Nil
  /\ UNCHANGED <<receiving, mailbox, inFlight, flying, overLimit, task, casualties>>

\* The process is killed and its supervisor starts another: a fresh state and
\* counter, an empty mailbox, and a task that now has no parent.
Die ==
  /\ MayDie /\ ~draining
  /\ \E t \in Task : task[t] = Idle
  /\ casualties' = casualties \cup ({r.handle : r \in inbox \cup {prefetch}} \ {NoHandle})
  /\ demand' = 0 /\ current' = NoFile /\ prefetch' = Nil /\ receiving' = TRUE
  /\ timer' = TRUE /\ polls' = 0 /\ inbox' = {}
  /\ inFlight' = 0 /\ flying' = {}
  /\ task' = [t \in Task |-> [task[t] EXCEPT !.orphan = task[t] # Idle]]
  /\ UNCHANGED <<draining, overLimit, fate>>

-----------------------------------------------------------------------------
(* The prefetch task: run_prefetch/6. *)

producer == <<demand, current, prefetch, receiving, draining, timer, polls, inFlight, flying,
              overLimit>>

Finishes(t, r) == task' = [task EXCEPT ![t].pc = "done", ![t].result = r]

\* queue_mod.receive returns one message, none, or an error; or it raises.
TaskReceives(t) ==
  /\ task[t].pc = "receiving"
  /\ \/ \E h \in Handle :
          /\ fate[h] = "queued"
          /\ fate' = [fate EXCEPT ![h] = "received"]
          /\ task' = [task EXCEPT ![t].pc = "holding", ![t].handle = h]
     \/ \E r \in {Empty} \cup (IF MayRaise THEN {Crashed} ELSE {}) : Finishes(t, r) /\ UNCHANGED fate
  /\ UNCHANGED <<producer, inbox, casualties>>

\* handle_received_message/6: segments; a stale, broken or unnamed file, acked
\* here; an unknown version, nacked here; a failed download.
TaskDownloads(t) ==
  /\ task[t].pc = "holding"
  /\ LET h == task[t].handle IN
       \/ /\ \E r \in {Loaded(h), Failed(h)} : Finishes(t, r)
          /\ UNCHANGED <<fate, casualties>>
       \/ /\ \E f \in {"acked", "nacked"} : fate' = [fate EXCEPT ![h] = Settled(h, f)]
          /\ Finishes(t, Empty)
          /\ UNCHANGED casualties
       \/ /\ MayRaise
          /\ Finishes(t, Crashed)
          /\ casualties' = casualties \cup {h}
          /\ UNCHANGED fate
  /\ UNCHANGED <<producer, inbox>>

\* Mutant of TaskDelivers: sends to the producer without looking for its :DOWN.
TaskAlwaysSends(t) ==
  /\ task[t].pc = "done"
  /\ IF task[t].orphan THEN UNCHANGED inbox ELSE inbox' = inbox \cup {task[t].result}
  /\ task' = [task EXCEPT ![t] = Idle]
  /\ UNCHANGED <<producer, casualties, fate>>

\* deliver_or_settle/5
TaskDelivers(t) ==
  /\ task[t].pc = "done"
  /\ IF task[t].orphan
       THEN fate' = Nack({task[t].result.handle}) /\ UNCHANGED inbox
       ELSE inbox' = inbox \cup {task[t].result} /\ UNCHANGED fate
  /\ task' = [task EXCEPT ![t] = Idle]
  /\ UNCHANGED <<producer, casualties>>

-----------------------------------------------------------------------------
(* Around the producer. *)

\* Mutant of AckSegment: also counts off segments of the counter's predecessor.
AckSegmentOfAnyRef(s) ==
  /\ fate[s[1]] = "loaded"
  /\ flying' = flying \ {s}
  /\ inFlight' = inFlight - segmentsOf[s[1]][s[2]]
  /\ UNCHANGED <<demand, current, prefetch, receiving, draining, mailbox, overLimit, task, fate,
                 casualties>>

\* ConsumerPipeline.decrement_in_flight/1 for a segment Broadway is done with.
AckSegment(s) ==
  /\ s \in flying
  /\ flying' = flying \ {s}
  /\ inFlight' = inFlight - segmentsOf[s[1]][s[2]]
  /\ UNCHANGED <<demand, current, prefetch, receiving, draining, mailbox, overLimit, task, fate,
                 casualties>>

\* MemoryMonitor raises or clears a flag.
LimitChanges ==
  /\ overLimit' = ~overLimit
  /\ UNCHANGED <<demand, current, prefetch, receiving, draining, mailbox, inFlight, flying, task,
                 fate, casualties>>

Init ==
  /\ demand = 0 /\ current = NoFile /\ prefetch = Nil
  /\ receiving = TRUE /\ draining = FALSE
  /\ timer = TRUE /\ polls = 0 /\ inbox = {}
  /\ inFlight = 0 /\ flying = {}
  /\ overLimit \in BOOLEAN
  /\ task = [t \in Task |-> Idle]
  /\ fate = [h \in Handle |-> "queued"]
  /\ casualties = {}

TaskStep(t) == TaskReceives(t) \/ TaskDownloads(t) \/ TaskDelivers(t)

Segments == UNION {{<<h, i>> : i \in 1..Len(segmentsOf[h])} : h \in Handle}

Next ==
  \/ \E d \in 1..MaxDemand : HandleDemand(d)
  \/ TimerFires \/ HandlePoll
  \/ \E r \in Result : HandlePrefetchResult(r)
  \/ StopReceiving \/ PrepareForDraining \/ Die
  \/ \E t \in Task : TaskStep(t)
  \/ \E s \in Segments : AckSegment(s)
  \/ LimitChanges

Spec == Init /\ [][Next]_vars

\* Every message in the mailbox is handled, an armed timer fires, a task runs to
\* its end, the processors ask for more, and Broadway acknowledges every segment
\* it was given.  Memory pressure and being told to stop are owed to nobody.
Fairness ==
  /\ WF_vars(\E d \in 1..MaxDemand : HandleDemand(d))
  /\ WF_vars(TimerFires) /\ WF_vars(HandlePoll)
  /\ WF_vars(\E r \in Result : HandlePrefetchResult(r))
  /\ \A t \in Task : WF_vars(TaskStep(t))
  /\ \A s \in Segments : WF_vars(AckSegment(s))

FairSpec == Spec /\ Fairness

-----------------------------------------------------------------------------
(* Properties. *)

\* drained?/1
Drained == ~receiving /\ prefetch = Nil /\ ~Buffered(current)

\* The producer, its mailbox or its task has the handle.
Held(h) ==
  \/ h \in {r.handle : r \in inbox \cup {prefetch}}
  \/ \E t \in Task : /\ task[t].pc \in {"holding", "done"}
                     /\ task[t].handle = h

\* Every variable has its type.
TypeOK ==
  /\ demand \in 0..MaxDemand
  /\ current \in [handle : Handle \cup {NoHandle}, emitted : Nat]
  /\ prefetch \in Result \cup {Nil, Running} /\ inbox \subseteq Result
  /\ receiving \in BOOLEAN /\ draining \in BOOLEAN /\ timer \in BOOLEAN /\ overLimit \in BOOLEAN
  /\ polls \in 0..MaxPolls /\ inFlight \in Nat /\ flying \subseteq Segments
  /\ task \in [Task -> TaskState]
  /\ fate \in [Handle -> Fate] /\ casualties \subseteq Handle

\* The segments Broadway has and has not acked fit the byte budget; the one
\* exception is a single segment that alone is larger than the budget.
BudgetRespected == Size(flying) > MaxInFlight => Cardinality(flying) = 1

\* "the loop can never permanently stop" (handle_info(:poll), comment): until the
\* pipeline drains there is always a :poll in the mailbox or on its way.
PollLoopNeverStops == ~draining => timer \/ polls > 0

\* A message this node received and has not settled or loaded is in someone's
\* hands, through every order of results, stops, drains and kills.  A task that
\* raises after the receive and a kill that takes the mailbox are the only ways
\* to leave one to the visibility timeout.
NoHandleStranded == \A h \in Handle : fate[h] = "received" => Held(h) \/ h \in casualties

\* "True once receiving has stopped and nothing loaded or prefetched is left, a
\* running prefetch included" (drained?/1): no task of this producer may still
\* receive a message, and no result is on its way.
DrainedMeansIdle ==
  Drained /\ ~draining => inbox = {} /\ \A t \in Task : task[t] # Idle => task[t].orphan

\* A handle the producer or a task acked or nacked is neither settled again, a
\* second nack included, nor loaded; a loaded one is never acked here, and it is
\* nacked only with segments left to emit.
SettledOnce ==
  [][\A h \in Handle :
       /\ fate[h] \in {"acked", "nacked"} => fate'[h] = fate[h]
       /\ fate[h] = "loaded" /\ fate'[h] # fate[h] =>
            fate'[h] = "nacked" /\ current.handle = h /\ Buffered(current)]_vars

\* Once memory pressure stays away, every segment of a loaded file is emitted:
\* neither the byte budget nor a segment above it can stall the producer.
LoadedFileIsEmitted ==
  <>[]~overLimit =>
    \A h \in Handle : (current.handle = h /\ Buffered(current)) ~> ~(current.handle = h /\ Buffered(current))

\* Once memory pressure stays away, a received message is loaded, acked or nacked,
\* unless a raising task or a killed producer took it down.
ReceivedIsSettled ==
  <>[]~overLimit =>
    \A h \in Handle : fate[h] = "received" ~> fate[h] # "received" \/ h \in casualties

\* Once told to stop receiving, the producer drains, which is what ShutdownDrain
\* waits for, unless it is killed and a new one receives again.
StoppedDrains == <>[]~overLimit => (~receiving ~> Drained \/ receiving)

=============================================================================
