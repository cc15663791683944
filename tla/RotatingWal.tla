---------------------------- MODULE RotatingWal ----------------------------
(***************************************************************************)
(* The write path of the spool in :wal mode, for one partition:            *)
(* DurableBuffer.Backends.RotatingWal commits a batch to the active WAL    *)
(* file, rotates that file to a sealed segment, and hands the segment to   *)
(* one of its Workers, which runs Backends.Cloud's commit on it: put the   *)
(* object, publish the message, and only then remove the file.             *)
(*                                                                         *)
(* The owner is the DurableBuffer partition's process (a library): it      *)
(* calls commit/4, handle_message/2, close/1 and open/2 one at a time.     *)
(* A Worker is unlinked from it, so each survives the other's death.       *)
(* An owner callback is one action: it meets the workers only through      *)
(* casts and the directory listing, and a worker that dies or removes a    *)
(* file in the middle of it leaves what it would leave just after it.      *)
(*                                                                         *)
(* A batch stands for its bytes, one unit of max_batch_bytes each.  A      *)
(* segment is the set of batches in its file, which also names the file,   *)
(* since no batch is written twice.  A mailbox is a bag: casts may be      *)
(* handled in any order, which allows more than the code does.             *)
(***************************************************************************)
EXTENDS Integers, FiniteSets, Bags

CONSTANTS
  BatchCount,        \* bound: group commits of the partition
  WorkerCount,       \* config worker_count
  MaxBatchBytes,     \* config max_batch_bytes, in batches
  MaxCommitAttempts, \* config max_commit_attempts of Backends.Cloud
  MaxDisturbances    \* bound: errors, deaths and closes in one behaviour

ASSUME CountAssumption == /\ BatchCount \in Nat
                          /\ WorkerCount \in Nat \ {0}
                          /\ MaxBatchBytes \in Nat \ {0}
                          /\ MaxCommitAttempts \in Nat \ {0}
                          /\ MaxDisturbances \in Nat

VARIABLES
  owner,      \* what the partition's process is doing
  stopping,   \* the next worker close/1 stops
  status,     \* [Batch -> Status]: what the caller of append was told
  active,     \* batches in the active file
  pending,    \* the batches pending_bytes counts
  sealed,     \* segments on disk
  pool,       \* [Worker -> Slot]: the processes in state.workers
  proc,       \* [Pid -> Process]
  stored,     \* batches some object in the bucket holds
  published,  \* [Batch -> Nat]: messages that name an object with the batch
  left,       \* history: segments given up, or not removed, since the last scan
  disturbed   \* disturbances so far

files   == <<active, pending, sealed>>
uploads == <<stored, published>>
vars    == <<owner, stopping, status, files, pool, proc, uploads, left, disturbed>>

Batch   == 1..BatchCount
Worker  == 0..(WorkerCount - 1)
Slot    == 1..(MaxDisturbances + 1)
Pid     == Worker \X Slot
Segment == (SUBSET Batch) \ {{}}
Status  == {"new", "acked", "refused"}
Stage   == {"dead", "idle", "put", "publish", "remove"}

Dead == [stage |-> "dead", mailbox |-> EmptyBag, job |-> {}, attempt |-> 0]

\* Worker.init: an inner backend opened, nothing in the mailbox.
Started == [Dead EXCEPT !.stage = "idle"]

Alive(p)   == proc[p].stage # "dead"
Pooled(w)  == <<w, pool[w]>>
Holds(p, s) == Alive(p) /\ (BagIn(s, proc[p].mailbox) \/ proc[p].job = s)

\* One of the bounded disturbances.
Disturb == disturbed < MaxDisturbances /\ disturbed' = disturbed + 1

-----------------------------------------------------------------------------
(* What the owner's callbacks are made of. *)

\* replace_dead_workers: whether some worker is found dead, the segments the
\* scan that follows finds, and the processes once new ones are started.  A
\* new process takes the slot of the dead one.
AnyDead == \E w \in Worker : ~Alive(Pooled(w))
\* Mutants: the scan runs every time, or never.
FoundAlways == sealed
FoundNever  == {}

Found   == IF AnyDead THEN sealed ELSE {}
Revived == [p \in Pid |-> IF ~Alive(p) /\ \E w \in Worker : p = Pooled(w)
                          THEN Started ELSE proc[p]]

\* dispatch_to_worker, for each segment: a cast to a random worker of ws.
Dispatch(segments, procs, ws) ==
  \E to \in [segments -> Worker] :
    proc' = [p \in Pid |->
               IF p[2] = ws[p[1]]
               THEN [procs[p] EXCEPT !.mailbox =
                       @ (+) SetToBag({s \in segments : to[s] = p[1]})]
               ELSE procs[p]]

\* A scan takes up what was left behind.
LeftBehind == IF AnyDead THEN {} ELSE left

\* Whether the interval has elapsed since the last rotation may go either way.
ShouldRotate(counted, intervalElapsed) ==
  Cardinality(counted) >= MaxBatchBytes \/ intervalElapsed

\* Mutant: pending_bytes is not reset.
RotatedKeepsCount(content) ==
  /\ sealed' = sealed \cup {content}
  /\ active' = {}
  /\ pending' = content
  /\ Dispatch(Found \cup {content}, Revived, pool)
  /\ UNCHANGED disturbed

\* rotate, when the rename works.
Rotated(content) ==
  /\ sealed' = sealed \cup {content}
  /\ active' = {}
  /\ pending' = {}
  /\ Dispatch(Found \cup {content}, Revived, pool)
  /\ UNCHANGED disturbed

\* rotate, when it does not: the file is reopened with its bytes in it, and
\* nothing counts them any longer.
RenameFails(content) ==
  /\ Disturb
  /\ active' = content
  /\ pending' = {}
  /\ Dispatch(Found, Revived, pool)
  /\ UNCHANGED sealed

Rotate(content) == Rotated(content) \/ RenameFails(content)

Keep(content, counted) ==
  /\ active' = content
  /\ pending' = counted
  /\ Dispatch(Found, Revived, pool)
  /\ UNCHANGED <<sealed, disturbed>>

-----------------------------------------------------------------------------
(* The owner. *)

\* The partition commits one batch after another.
Submitted(b) == status[b] = "new" /\ \A c \in 1..(b - 1) : status[c] # "new"

\* commit/4 with the write and the sync done: the append is answered.
Commit(b) ==
  /\ owner = "open"
  /\ Submitted(b)
  /\ status' = [status EXCEPT ![b] = "acked"]
  /\ \E intervalElapsed \in BOOLEAN :
       IF ShouldRotate(pending \cup {b}, intervalElapsed)
       THEN Rotate(active \cup {b})
       ELSE Keep(active \cup {b}, pending \cup {b})
  /\ left' = LeftBehind
  /\ UNCHANGED <<owner, stopping, pool, uploads>>

\* commit/4 with a failed write, or a failed sync after a write.
CommitFails(b) ==
  /\ owner = "open"
  /\ Submitted(b)
  /\ Disturb
  /\ status' = [status EXCEPT ![b] = "refused"]
  /\ active' \in {active, active \cup {b}}
  /\ Dispatch(Found, Revived, pool)
  /\ left' = LeftBehind
  /\ UNCHANGED <<owner, stopping, pool, pending, sealed, uploads>>

\* Mutant: only a commit rotates.
FlushTickNeverRotates(intervalElapsed) ==
  /\ owner = "open"
  /\ Keep(active, pending)
  /\ left' = LeftBehind
  /\ UNCHANGED <<owner, stopping, status, pool, uploads>>

\* handle_message(:flush_tick, _).
FlushTick(intervalElapsed) ==
  /\ owner = "open"
  /\ IF pending # {} /\ ShouldRotate(pending, intervalElapsed)
     THEN Rotate(active)
     ELSE Keep(active, pending)
  /\ left' = LeftBehind
  /\ UNCHANGED <<owner, stopping, status, pool, uploads>>

\* close/1 up to the first Worker.stop.  It replaces no dead worker: a segment
\* dispatched to one is dropped with the cast.
Close ==
  /\ owner = "open"
  /\ Disturb
  /\ owner' = "closing"
  /\ stopping' = 0
  /\ \/ /\ pending # {}
        /\ sealed' = sealed \cup {active}
        /\ active' = {}
        /\ \E w \in Worker :
             proc' = IF Alive(Pooled(w))
                     THEN [proc EXCEPT ![Pooled(w)].mailbox = @ (+) SetToBag({active})]
                     ELSE proc
     \/ UNCHANGED <<active, sealed, proc>>   \* nothing to rotate, or no rename
  /\ pending' = {}
  /\ UNCHANGED <<status, pool, uploads, left>>

\* GenServer.stop of the next worker.  Its :system message comes after every
\* cast the worker has, so it ends once the mailbox is empty.  It exits when
\* the worker is dead or dies first, and takes the owner down.
StopWorker ==
  /\ owner = "closing"
  /\ LET p == Pooled(stopping) IN
     \/ /\ ~Alive(p)
        /\ owner' = "down"
        /\ stopping' = 0
        /\ UNCHANGED proc
     \/ /\ proc[p].stage = "idle"
        /\ proc[p].mailbox = EmptyBag
        /\ proc' = [proc EXCEPT ![p] = Dead]
        /\ IF stopping = WorkerCount - 1
           THEN owner' = "closed" /\ stopping' = 0
           ELSE stopping' = stopping + 1 /\ UNCHANGED owner
  /\ UNCHANGED <<status, files, pool, uploads, left, disturbed>>

\* Workers of an earlier owner may still be at work when the next one opens; one
\* with nothing left to do gets no further message, and its slot is free.
FreeSlot(w, l) == proc[<<w, l>>] \in {Dead, Started}

Opened(ws) == [p \in Pid |-> IF p[2] = ws[p[1]] THEN Started
                             ELSE IF FreeSlot(p[1], p[2]) THEN Dead
                             ELSE proc[p]]

\* open/2 in a new owner.  The file keeps its complete entries and none of
\* them is counted; the sealed segments go to a new set of workers.
Open ==
  /\ owner \in {"down", "closed"}
  /\ owner' = "open"
  /\ pending' = {}
  /\ \E ws \in [Worker -> Slot] :
       /\ \A w \in Worker : \A l \in 1..ws[w] : FreeSlot(w, l) <=> l = ws[w]
       /\ pool' = ws
       /\ Dispatch(sealed, Opened(ws), ws)
  /\ left' = {}
  /\ UNCHANGED <<stopping, status, active, sealed, uploads, disturbed>>

\* The owner dies.  Its workers were started unlinked and go on.
OwnerDies ==
  /\ owner \in {"open", "closing"}
  /\ Disturb
  /\ owner' = "down"
  /\ stopping' = 0
  /\ UNCHANGED <<status, files, pool, proc, uploads, left>>

\* The node is killed.
NodeDies ==
  /\ Disturb
  /\ owner' = "down"
  /\ stopping' = 0
  /\ proc' = [p \in Pid |-> Dead]
  /\ UNCHANGED <<status, files, pool, uploads, left>>

-----------------------------------------------------------------------------
(* A worker: handle_cast with Backends.Cloud.commit inside. *)

Become(p, state) == proc' = [proc EXCEPT ![p] = state]

At(q, stage, job, attempt) ==
  [stage |-> stage, mailbox |-> q.mailbox, job |-> job, attempt |-> attempt]
Resting(q) == At(q, "idle", {}, 0)

\* do_commit after an error of process state q: once more under a new key, or
\* the file is left for a later scan.
AttemptFailed(p, q) ==
  IF q.attempt < MaxCommitAttempts
  THEN /\ Become(p, At(q, "put", q.job, q.attempt + 1))
       /\ UNCHANGED left
  ELSE /\ Become(p, Resting(q))
       /\ left' = left \cup ({q.job} \cap sealed)

\* Mutant: the result of put is not looked at.
PutUnchecked(p, q) ==
  /\ \/ stored' = stored \cup q.job /\ UNCHANGED disturbed
     \/ Disturb /\ UNCHANGED stored
  /\ Become(p, At(q, "publish", q.job, q.attempt))
  /\ UNCHANGED <<owner, stopping, status, files, pool, published, left>>

\* storage_mod.put under a fresh key.  A failed call may have stored the object.
Put(p, q) ==
  /\ \/ /\ stored' = stored \cup q.job
        /\ Become(p, At(q, "publish", q.job, q.attempt))
        /\ UNCHANGED <<left, disturbed>>
     \/ /\ Disturb
        /\ stored' \in {stored, stored \cup q.job}
        /\ AttemptFailed(p, q)
  /\ UNCHANGED <<owner, stopping, status, files, pool, published>>

\* File.read fails: another worker has removed the file, or it is left behind.
ReadFails(p, s, rest) ==
  /\ IF s \in sealed THEN Disturb ELSE UNCHANGED disturbed
  /\ Become(p, rest)
  /\ left' = left \cup ({s} \cap sealed)
  /\ UNCHANGED <<owner, stopping, status, files, pool, uploads>>

\* handle_cast: File.read and the first put.  Nothing sees the read by itself.
TakeSegment(p) ==
  /\ proc[p].stage = "idle"
  /\ \E s \in BagToSet(proc[p].mailbox) :
       LET rest == [proc[p] EXCEPT !.mailbox = @ (-) SetToBag({s})] IN
       \/ s \in sealed /\ Put(p, At(rest, "idle", s, 1))
       \/ ReadFails(p, s, rest)

RetryPut(p) == proc[p].stage = "put" /\ Put(p, proc[p])

Announced(s) == [b \in Batch |-> IF b \in s THEN published[b] + 1 ELSE published[b]]

\* queue_mod.publish of the key just stored.  A failed call may have published.
Publish(p) ==
  /\ proc[p].stage = "publish"
  /\ \/ /\ published' = Announced(proc[p].job)
        /\ Become(p, At(proc[p], "remove", proc[p].job, proc[p].attempt))
        /\ UNCHANGED <<left, disturbed>>
     \/ /\ Disturb
        /\ published' \in {published, Announced(proc[p].job)}
        /\ AttemptFailed(p, proc[p])
  /\ UNCHANGED <<owner, stopping, status, files, pool, stored>>

\* File.rm, whose result is ignored.
RemoveSegment(p) ==
  /\ proc[p].stage = "remove"
  /\ Become(p, Resting(proc[p]))
  /\ \/ /\ sealed' = sealed \ {proc[p].job}
        /\ left' = left \ {proc[p].job}
        /\ UNCHANGED disturbed
     \/ /\ Disturb
        /\ left' = left \cup ({proc[p].job} \cap sealed)
        /\ UNCHANGED sealed
  /\ UNCHANGED <<owner, stopping, status, active, pending, pool, uploads>>

WorkerDies(p) ==
  /\ Alive(p)
  /\ Disturb
  /\ Become(p, Dead)
  /\ UNCHANGED <<owner, stopping, status, files, pool, uploads, left>>

WorkerStep(p) == TakeSegment(p) \/ RetryPut(p) \/ Publish(p) \/ RemoveSegment(p)

-----------------------------------------------------------------------------

\* The first open of an empty directory.
Init ==
  /\ owner = "open"
  /\ stopping = 0
  /\ status = [b \in Batch |-> "new"]
  /\ active = {}
  /\ pending = {}
  /\ sealed = {}
  /\ pool = [w \in Worker |-> 1]
  /\ proc = [p \in Pid |-> IF p[2] = 1 THEN Started ELSE Dead]
  /\ stored = {}
  /\ published = [b \in Batch |-> 0]
  /\ left = {}
  /\ disturbed = 0

Next ==
  \/ \E b \in Batch : Commit(b) \/ CommitFails(b)
  \/ \E intervalElapsed \in BOOLEAN : FlushTick(intervalElapsed)
  \/ Close
  \/ StopWorker
  \/ Open
  \/ OwnerDies
  \/ NodeDies
  \/ \E p \in Pid : WorkerStep(p) \/ WorkerDies(p)

\* The interval timer fires for as long as the owner lives, and once an interval
\* has passed since the last rotation every tick finds it elapsed; a supervisor or
\* the next boot opens the partition again, and a worker keeps working through its
\* mailbox.  No new batch has to come, and no process is promised a later scan.
Fairness ==
  /\ WF_vars(FlushTick(TRUE))
  /\ WF_vars(StopWorker)
  /\ WF_vars(Open)
  /\ \A p \in Pid : WF_vars(WorkerStep(p))

Spec == Init /\ [][Next]_vars /\ Fairness

-----------------------------------------------------------------------------
(* Properties. *)

\* The variables have the values the code can give them: the bytes counted by
\* state.pending_bytes are in the active file, and only a worker at work has a job.
TypeOK ==
  /\ owner \in {"open", "closing", "closed", "down"}
  /\ stopping \in Worker
  /\ status \in [Batch -> Status]
  /\ active \subseteq Batch
  /\ pending \subseteq active
  /\ sealed \subseteq Segment
  /\ left \subseteq sealed
  /\ pool \in [Worker -> Slot]
  /\ \A p \in Pid :
       /\ proc[p].stage \in Stage
       /\ BagToSet(proc[p].mailbox) \subseteq Segment
       /\ proc[p].job \subseteq Batch
       /\ (proc[p].job # {}) <=> proc[p].stage \in {"put", "publish", "remove"}
       /\ proc[p].attempt \in 0..MaxCommitAttempts
  /\ stored \subseteq Batch
  /\ published \in [Batch -> Nat]

\* A batch whose append was answered is never lost: it is in the active file or
\* in a sealed one until a message for it has been published whose object is in
\* the bucket, whatever fails or dies in rotate, in a worker's commit_body and
\* upload_and_notify, or in open/2.
AckedNeverLost ==
  \A b \in Batch :
    status[b] = "acked" => \/ b \in active \cup UNION sealed
                           \/ published[b] > 0 /\ b \in stored

\* The double dispatch the moduledoc accepts stays narrow: a batch has one
\* message, and each error, death or close costs at most one more, however
\* scans, retries and the workers of two owners overlap.
DuplicatesBounded == \A b \in Batch : published[b] <= 1 + disturbed

\* While the partition is open and no worker of the pool lies dead, a sealed
\* segment is in some live worker's hands, unless a worker gave it up: neither
\* a death, nor a replacement, nor a restart may leave one that nobody ships.
\* A close/1 that returned has shipped all of them.
SealedIsHandled ==
  /\ owner = "open" /\ ~AnyDead =>
       \A s \in sealed \ left : \E p \in Pid : Holds(p, s)
  /\ owner = "closed" => sealed \subseteq left

\* Time and again every answered batch has been published, without further
\* traffic and although workers, the owner and the node die.  Excepted are bytes
\* in the active file that pending_bytes no longer counts (a tail recovered by
\* open/2, or a failed rename) and segments given up, which wait for the next
\* commit or scan.
AckedIsShipped ==
  []<>(\A b \in Batch :
         status[b] = "acked" =>
           \/ published[b] > 0
           \/ b \in active \ pending
           \/ \E s \in left : b \in s)

=============================================================================
