------------------------------ MODULE SpoolAck ------------------------------
(***************************************************************************)
(* The life of a spool queue message on a consuming node: the handle table *)
(* of Backends.Spool.SpoolAck, the queue calls QueueProducer makes for a   *)
(* handle outside that table, and the object deletes SpoolAck hands to     *)
(* ObjectDeleter.                                                          *)
(*                                                                         *)
(* A Message is one entry of the broker, pointing at one spool object.  A  *)
(* Handle is one delivery of a message (an SQS receipt handle, a PubSub    *)
(* ack id): the broker never reuses one, so msgOf is a constant.  An Item  *)
(* is one unit of work counted by bump/2: a segment that Broadway has not  *)
(* finished, or one event pointer.  Whoever holds an item may bump for     *)
(* more (a segment bumps for its events, a retry for its new pointer) and  *)
(* later acks it.  Module IngestEventQueue shows the event pipelines keep  *)
(* this discipline.                                                        *)
(*                                                                         *)
(* Time is abstracted: a row may go stale and a lease may expire at any    *)
(* moment, because work may outlive both @stale_after_ms and the queue's   *)
(* visibility timeout.                                                     *)
(***************************************************************************)
EXTENDS Integers, FiniteSets

CONSTANTS
  Message,        \* queue entries, each naming one spool object
  Handle,         \* deliveries
  Item,           \* units of work counted by bump and ack
  msgOf,          \* [Handle -> Message]: the message a handle delivers
  Undecodable,    \* messages whose body or object can never be decoded
  NoHandle,       \* the lease of a message nobody holds
  DeleteOnAck,    \* config :spool, delete_on_ack
  AckStale        \* config SpoolAck, ack_stale

ASSUME MsgOfAssumption == msgOf \in [Handle -> Message]
ASSUME UndecodableAssumption == Undecodable \subseteq Message
ASSUME ConfigAssumption == DeleteOnAck \in BOOLEAN /\ AckStale \in BOOLEAN
ASSUME NoHandleAssumption == NoHandle \notin Handle
ASSUME ItemAssumption == IsFiniteSet(Item)

VARIABLES
  lease,      \* [Message -> Handle \cup {NoHandle}]: who the broker leased it to
  acked,      \* messages the broker has removed
  deleted,    \* messages whose object is gone from storage
  deletions,  \* ObjectDeleter's buffer
  stage,      \* [Handle -> Stage]: how far QueueProducer took the handle
  rows,       \* handles with a row in the :spool_ack table
  count,      \* [Handle -> Int]: the row's counter
  held,       \* [Handle -> SUBSET Item]: bumped for and still being worked on
  lost,       \* [Handle -> SUBSET Item]: bumped for, and nobody is left to ack it
  deciding,   \* handles a process saw at zero or below and has yet to take
  casts,      \* {:perform_ack, ...} messages in the server's mailbox
  nacked      \* history: handles this node has nacked

vars == <<lease, acked, deleted, deletions, stage, rows, count, held, lost,
          deciding, casts, nacked>>

Stage == {"unused", "leased", "fetched", "registered", "loaded", "settled"}

Cast == [handle : Handle, object : BOOLEAN]

Used == UNION {held[h] \cup lost[h] : h \in Handle}

-----------------------------------------------------------------------------
(* The broker, from how Queue.SQS and Queue.PubSub call it. *)

\* queue_mod.ack: the call may fail or time out whether or not it took effect,
\* and may answer :ok for a lease that has expired without removing anything.
QueueAck(h) ==
  /\ acked' \in {acked, acked \cup {msgOf[h]}}
  /\ lease' = IF acked' = acked THEN lease ELSE [lease EXCEPT ![msgOf[h]] = NoHandle]

\* queue_mod.nack: makes the message visible again, if the call gets through
\* and the handle still has the lease.
QueueNack(h) ==
  /\ lease' \in {lease, [lease EXCEPT ![msgOf[h]] = IF @ = h THEN NoHandle ELSE @]}
  /\ UNCHANGED acked

\* The visibility timeout.
ExpireLease(m) ==
  /\ lease[m] # NoHandle
  /\ lease' = [lease EXCEPT ![m] = NoHandle]
  /\ UNCHANGED <<acked, deleted, deletions, stage, rows, count, held, lost, deciding, casts, nacked>>

-----------------------------------------------------------------------------
(* QueueProducer: from the receive to the loaded file. *)

\* The prefetch task's queue_mod.receive.
Receive(h) ==
  /\ stage[h] = "unused"
  /\ lease[msgOf[h]] = NoHandle
  /\ msgOf[h] \notin acked
  /\ lease' = [lease EXCEPT ![msgOf[h]] = h]
  /\ stage' = [stage EXCEPT ![h] = "leased"]
  /\ UNCHANGED <<acked, deleted, deletions, rows, count, held, lost, deciding, casts, nacked>>

\* The download found a decodable object.
Fetch(h) ==
  /\ stage[h] = "leased"
  /\ msgOf[h] \notin deleted \cup Undecodable
  /\ stage' = [stage EXCEPT ![h] = "fetched"]
  /\ UNCHANGED <<lease, acked, deleted, deletions, rows, count, held, lost, deciding, casts, nacked>>

\* No object (:not_found), no usable body or a broken file: the task acks the
\* message itself, and no row is ever made for it.
Discard(h) ==
  /\ stage[h] = "leased"
  /\ msgOf[h] \in deleted \cup Undecodable
  /\ QueueAck(h)
  /\ stage' = [stage EXCEPT ![h] = "settled"]
  /\ UNCHANGED <<deleted, deletions, rows, count, held, lost, deciding, casts, nacked>>

\* A failed download, an unknown file version, a result that arrives while
\* draining or after stop_receiving, or whose producer died: nacked, and no row
\* is ever made for it.
Return(h) ==
  /\ stage[h] \in {"leased", "fetched"}
  /\ QueueNack(h)
  /\ nacked' = nacked \cup {h}
  /\ stage' = [stage EXCEPT ![h] = "settled"]
  /\ UNCHANGED <<deleted, deletions, rows, count, held, lost, deciding, casts>>

\* SpoolAck.register/4 from maybe_load_next.
Register(h) ==
  /\ stage[h] = "fetched"
  /\ stage' = [stage EXCEPT ![h] = "registered"]
  /\ rows' = rows \cup {h}
  /\ count' = [count EXCEPT ![h] = 0]
  /\ UNCHANGED <<lease, acked, deleted, deletions, held, lost, deciding, casts, nacked>>

\* Mutant of Bump: counts one for a whole batch.
BumpOnce(h, S) ==
  /\ S # {} /\ S \cap Used = {}
  /\ held' = [held EXCEPT ![h] = @ \cup S]
  /\ count' = IF h \in rows THEN [count EXCEPT ![h] = @ + 1] ELSE count

\* SpoolAck.bump/2 for the items S: a no-op on a handle without a row.
Bump(h, S) ==
  /\ S # {} /\ S \cap Used = {}
  /\ held' = [held EXCEPT ![h] = @ \cup S]
  /\ count' = IF h \in rows THEN [count EXCEPT ![h] = @ + Cardinality(S)] ELSE count

\* The bump for the segments of the file, right after register.
Load(h) ==
  /\ stage[h] = "registered"
  /\ \E S \in SUBSET Item : Bump(h, S)
  /\ stage' = [stage EXCEPT ![h] = "loaded"]
  /\ UNCHANGED <<lease, acked, deleted, deletions, rows, lost, deciding, casts, nacked>>

\* prepare_for_draining nacks the current file when some of its segments have
\* not been emitted; those are gone with the producer's state.
DrainCurrent(h) ==
  /\ stage[h] = "loaded"
  /\ \E S \in (SUBSET held[h]) \ {{}} :
       /\ held' = [held EXCEPT ![h] = @ \ S]
       /\ lost' = [lost EXCEPT ![h] = @ \cup S]
  /\ QueueNack(h)
  /\ nacked' = nacked \cup {h}
  /\ UNCHANGED <<deleted, deletions, stage, rows, count, deciding, casts>>

-----------------------------------------------------------------------------
(* The clients that work on items. *)

\* A holder of an item bumps for the work it is about to publish.
Fork(h) ==
  /\ held[h] # {}
  /\ \E S \in SUBSET Item : Bump(h, S)
  /\ UNCHANGED <<lease, acked, deleted, deletions, stage, rows, lost, deciding, casts, nacked>>

\* Mutant of Ack: an off-by-one in the guard of perform_ack, one too late.
AckBelowZero(h, S) ==
  /\ S # {} /\ S \subseteq held[h]
  /\ held' = [held EXCEPT ![h] = @ \ S]
  /\ IF h \in rows
       THEN /\ count' = [count EXCEPT ![h] = @ - Cardinality(S)]
            /\ deciding' = IF count'[h] < 0 THEN deciding \cup {h} ELSE deciding
       ELSE UNCHANGED <<count, deciding>>
  /\ UNCHANGED <<lease, acked, deleted, deletions, stage, rows, lost, casts, nacked>>

\* SpoolAck.ack/2, the counter update: on a handle without a row it is a no-op,
\* and a counter at zero or below makes this process go on to perform_ack.
Ack(h, S) ==
  /\ S # {} /\ S \subseteq held[h]
  /\ held' = [held EXCEPT ![h] = @ \ S]
  /\ IF h \in rows
       THEN /\ count' = [count EXCEPT ![h] = @ - Cardinality(S)]
            /\ deciding' = IF count'[h] <= 0 THEN deciding \cup {h} ELSE deciding
       ELSE UNCHANGED <<count, deciding>>
  /\ UNCHANGED <<lease, acked, deleted, deletions, stage, rows, lost, casts, nacked>>

\* Mutant of Lose: a failed item is released like a successful one.
LoseReleases(h, i) ==
  /\ i \in held[h]
  /\ held' = [held EXCEPT ![h] = @ \ {i}]
  /\ lost' = [lost EXCEPT ![h] = @ \cup {i}]
  /\ IF h \in rows
       THEN /\ count' = [count EXCEPT ![h] = @ - 1]
            /\ deciding' = IF count'[h] <= 0 THEN deciding \cup {h} ELSE deciding
       ELSE UNCHANGED <<count, deciding>>
  /\ UNCHANGED <<lease, acked, deleted, deletions, stage, rows, casts, nacked>>

\* A failed segment, a pointer whose body rotated away before a retry, a queue
\* that died with its pointers: the item ends and is deliberately not acked.
Lose(h, i) ==
  /\ i \in held[h]
  /\ held' = [held EXCEPT ![h] = @ \ {i}]
  /\ lost' = [lost EXCEPT ![h] = @ \cup {i}]
  /\ UNCHANGED <<lease, acked, deleted, deletions, stage, rows, count, deciding, casts, nacked>>

\* Mutant of PerformAck: casts without having won the take.
PerformAckAnyway(h) ==
  /\ h \in deciding
  /\ deciding' = deciding \ {h}
  /\ rows' = rows \ {h}
  /\ casts' = casts \cup {[handle |-> h, object |-> TRUE]}
  /\ UNCHANGED <<lease, acked, deleted, deletions, stage, count, held, lost, nacked>>

\* Mutant of PerformAck: the message has lost its object field.
PerformAckBare(h) ==
  /\ h \in deciding
  /\ deciding' = deciding \ {h}
  /\ rows' = rows \ {h}
  /\ casts' = IF h \in rows THEN casts \cup {[handle |-> h]} ELSE casts
  /\ UNCHANGED <<lease, acked, deleted, deletions, stage, count, held, lost, nacked>>

\* perform_ack: the take that follows the counter update.
PerformAck(h) ==
  /\ h \in deciding
  /\ deciding' = deciding \ {h}
  /\ rows' = rows \ {h}
  /\ casts' = IF h \in rows THEN casts \cup {[handle |-> h, object |-> TRUE]} ELSE casts
  /\ UNCHANGED <<lease, acked, deleted, deletions, stage, count, held, lost, nacked>>

-----------------------------------------------------------------------------
(* The SpoolAck server, the shutdown drain and ObjectDeleter. *)

\* handle_cast({:perform_ack, ...}) and delete_object: after a queue ack that
\* answered :ok the object goes to ObjectDeleter, whose full buffer drops it.
HandlePerformAck(c) ==
  /\ c \in casts
  /\ casts' = casts \ {c}
  /\ QueueAck(c.handle)
  /\ deletions' \in IF c.object /\ DeleteOnAck
                      THEN {deletions, deletions \cup {msgOf[c.handle]}}
                      ELSE {deletions}
  /\ UNCHANGED <<deleted, stage, rows, count, held, lost, deciding, nacked>>

\* Mutant of ReclaimStale: the stale ack carries the object.
ReclaimStaleObject(h) ==
  /\ h \in rows
  /\ rows' = rows \ {h}
  /\ casts' = IF AckStale THEN casts \cup {[handle |-> h, object |-> TRUE]} ELSE casts
  /\ UNCHANGED <<lease, acked, deleted, deletions, stage, count, held, lost, deciding, nacked>>

\* reclaim_stale, from the periodic sweep.
ReclaimStale(h) ==
  /\ h \in rows
  /\ rows' = rows \ {h}
  /\ casts' = IF AckStale THEN casts \cup {[handle |-> h, object |-> FALSE]} ELSE casts
  /\ UNCHANGED <<lease, acked, deleted, deletions, stage, count, held, lost, deciding, nacked>>

\* nack_taken, from nack_pending at a shutdown that timed out.
NackTaken(h) ==
  /\ h \in rows
  /\ rows' = rows \ {h}
  /\ QueueNack(h)
  /\ nacked' = nacked \cup {h}
  /\ UNCHANGED <<deleted, deletions, stage, count, held, lost, deciding, casts>>

\* ObjectDeleter's drain: one attempt, a failed delete is not retried.
DeleteObject(m) ==
  /\ m \in deletions
  /\ deletions' = deletions \ {m}
  /\ deleted' \in {deleted, deleted \cup {m}}
  /\ UNCHANGED <<lease, acked, stage, rows, count, held, lost, deciding, casts, nacked>>

\* The SpoolAck server dies (a queue client that raises inside handle_cast) and
\* its supervisor restarts it: init makes a new, empty table.
ServerRestart ==
  /\ rows' = {} /\ casts' = {}
  /\ UNCHANGED <<lease, acked, deleted, deletions, stage, count, held, lost, deciding, nacked>>

\* The same for ObjectDeleter and its buffer.
DeleterRestart ==
  /\ deletions' = {}
  /\ UNCHANGED <<lease, acked, deleted, stage, rows, count, held, lost, deciding, casts, nacked>>

-----------------------------------------------------------------------------
Init ==
  /\ lease = [m \in Message |-> NoHandle]
  /\ acked = {} /\ deleted = {} /\ deletions = {}
  /\ stage = [h \in Handle |-> "unused"]
  /\ rows = {}
  /\ count = [h \in Handle |-> 0]
  /\ held = [h \in Handle |-> {}]
  /\ lost = [h \in Handle |-> {}]
  /\ deciding = {} /\ casts = {} /\ nacked = {}

HandleStep(h) ==
  \/ Receive(h) \/ Fetch(h) \/ Discard(h) \/ Return(h) \/ Register(h) \/ Load(h)
  \/ DrainCurrent(h) \/ Fork(h) \/ PerformAck(h) \/ ReclaimStale(h) \/ NackTaken(h)
  \/ \E S \in SUBSET Item : Ack(h, S)
  \/ \E i \in Item : Lose(h, i)

Next ==
  \/ \E h \in Handle : HandleStep(h)
  \/ \E c \in Cast : HandlePerformAck(c)
  \/ \E m \in Message : ExpireLease(m) \/ DeleteObject(m)
  \/ ServerRestart \/ DeleterRestart

Spec == Init /\ [][Next]_vars

\* A process that has decremented to zero goes on to take the row, and the
\* server handles its mailbox.  Nothing else is owed: workers may die, queues
\* may fail and the sweep may find nothing old enough.
Fairness ==
  /\ \A h \in Handle : WF_vars(PerformAck(h))
  /\ \A c \in Cast : WF_vars(HandlePerformAck(c))

FairSpec == Spec /\ Fairness

-----------------------------------------------------------------------------
(* What the protocol is for. *)

\* Every item ever bumped for the delivery h has been acked.
Completed(h) == stage[h] = "loaded" /\ held[h] = {} /\ lost[h] = {}

\* Some delivery of m was worked to the end.
Processed(m) == \E h \in Handle : msgOf[h] = m /\ Completed(h)

\* What a node promises about a message: processed first, removed after.
Delivery == INSTANCE AtLeastOnce
              WITH processed <- {m \in Message : Processed(m)},
                   removed <- acked \cup deleted,
                   Unreadable <- Undecodable

\* Every variable has its type.
TypeOK ==
  /\ lease \in [Message -> Handle \cup {NoHandle}]
  /\ acked \subseteq Message /\ deleted \subseteq Message /\ deletions \subseteq Message
  /\ stage \in [Handle -> Stage]
  /\ rows \subseteq Handle
  /\ count \in [Handle -> Int]
  /\ held \in [Handle -> SUBSET Item] /\ lost \in [Handle -> SUBSET Item]
  /\ deciding \subseteq Handle /\ casts \subseteq Cast /\ nacked \subseteq Handle

\* With ack_stale off, the broker only removes a message after some delivery of
\* it had every segment and event acked: a crash, a drain, a sweep or a failed
\* segment in between can cost duplicates but no event (unless nothing in the
\* file could be read).  Bump-before-ack and the two-step decrement-and-take of
\* ack/2 are what this rests on.
NoPrematureAck ==
  ~AckStale => \A m \in acked : Processed(m) \/ m \in Undecodable

\* Whatever ack_stale says, the object of a message is deleted, or queued for
\* deletion, only when some delivery was worked to the end: "nacked and swept
\* rows never delete, so the object survives for the redelivery" (moduledoc).
ObjectOutlivesWork ==
  \A m \in deleted \cup deletions : Processed(m)

\* With ack_stale off, a handle this node gave back to the broker is never also
\* acked by it: draining, nack_pending, the sweep and perform_ack race for the
\* row, and only the one whose take wins settles the handle.
NackedNeverAcked ==
  ~AckStale => \A c \in casts : c.handle \notin nacked

\* With ack_stale off the whole protocol is an at-least-once delivery: each step
\* processes a message, removes one that is processed, or changes neither; a
\* removed message never comes back and a processed one is never undone.
ImplementsAtLeastOnce == Delivery!Spec

\* A delivery whose last item was acked does not stay in the table until the
\* sweep: the process that brought the counter to zero goes on to take it.
CompletedRowIsTaken ==
  \A h \in Handle : (h \in rows /\ Completed(h)) ~> (h \notin rows)

=============================================================================
