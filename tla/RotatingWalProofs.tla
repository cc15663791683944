------------------------- MODULE RotatingWalProofs -------------------------
(***************************************************************************)
(* Proofs about RotatingWal, for any number of batches, workers, attempts  *)
(* and disturbances: its type invariant, that an answered batch is never   *)
(* lost, that no sealed segment is left without a worker, and that a batch *)
(* has few messages.                                                       *)
(*                                                                         *)
(* The second is not inductive by itself, since nothing in it says why a   *)
(* worker may remove a file.  What carries it is what a worker's stage     *)
(* stands for: before it publishes, its segment is stored, before it       *)
(* removes a file, a message for it is out, and no message is out before   *)
(* its object is stored.                                                   *)
(***************************************************************************)
EXTENDS RotatingWal, FiniteSetTheorems, TLAPS

\* A process state with the fields of a worker, each of its type.
WellFormed(q) ==
  /\ q = [stage |-> q.stage, mailbox |-> q.mailbox, job |-> q.job, attempt |-> q.attempt]
  /\ q.stage \in Stage
  /\ BagToSet(q.mailbox) \subseteq Segment
  /\ q.job \subseteq Batch
  /\ (q.job # {}) <=> q.stage \in {"put", "publish", "remove"}
  /\ q.attempt \in 0..MaxCommitAttempts

\* What a stage stands for, given the objects and the messages there are.
StageEarned(q, objects, messages) ==
  /\ q.stage = "publish" => q.job \subseteq objects
  /\ q.stage = "remove" => \A b \in q.job : messages[b] > 0

Processes ==
  /\ proc = [p \in Pid |-> proc[p]]
  /\ \A p \in Pid : WellFormed(proc[p]) /\ StageEarned(proc[p], stored, published)

\* No message is out for an object that is not there.
MessageHasObject == \A b \in Batch : published[b] > 0 => b \in stored

IInv == TypeOK /\ Processes /\ AckedNeverLost /\ MessageHasObject

\* Objects and messages are only ever added.
UploadsGrow ==
  /\ stored \subseteq stored'
  /\ \A b \in Batch : published[b] > 0 => published'[b] > 0

-----------------------------------------------------------------------------
(* Lemmas. *)

\* A process that has nothing, dead or just started.
LEMMA FreshProcess ==
  ASSUME NEW objects, NEW messages
  PROVE  /\ WellFormed(Dead) /\ StageEarned(Dead, objects, messages)
         /\ WellFormed(Started) /\ StageEarned(Started, objects, messages)
         /\ Dead.stage = "dead" /\ Started.stage = "idle"
<1>1. Started = [stage |-> "idle", mailbox |-> EmptyBag, job |-> {}, attempt |-> 0]
  BY DEF Started, Dead
<1>2. BagToSet(EmptyBag) = {}
  BY DEF EmptyBag, SetToBag, BagToSet
<1>3. 0 \in 0..MaxCommitAttempts
  BY CountAssumption
<1> QED
  BY <1>1, <1>2, <1>3 DEF Dead, WellFormed, StageEarned, Stage

\* Casts change mailboxes only, and put segments into them.
LEMMA CastKeeps ==
  ASSUME NEW q, WellFormed(q), NEW segments \in SUBSET Segment,
         NEW objects, NEW messages, StageEarned(q, objects, messages)
  PROVE  LET r == [q EXCEPT !.mailbox = @ (+) SetToBag(segments)]
         IN  WellFormed(r) /\ StageEarned(r, objects, messages)
<1> DEFINE box == q.mailbox (+) SetToBag(segments)
           r == [q EXCEPT !.mailbox = @ (+) SetToBag(segments)]
<1>1. BagToSet(box) = BagToSet(q.mailbox) \cup segments
  BY DEF BagToSet, SetToBag, (+)
<1>2. r = [stage |-> q.stage, mailbox |-> box, job |-> q.job, attempt |-> q.attempt]
  <2> HIDE DEF box
  <2>1. q = [stage |-> q.stage, mailbox |-> q.mailbox, job |-> q.job, attempt |-> q.attempt]
    BY DEF WellFormed
  <2>2. r = [q EXCEPT !.mailbox = box]
    BY DEF box
  <2> QED
    BY <2>1, <2>2
<1>3. BagToSet(box) \subseteq Segment
  BY <1>1 DEF WellFormed
<1> QED
  <2> HIDE DEF box, r
  <2> SUFFICES WellFormed(r) /\ StageEarned(r, objects, messages)
    BY DEF r
  <2> QED
    BY <1>2, <1>3 DEF WellFormed, StageEarned

\* Handing segments to well-formed processes leaves well-formed processes.
LEMMA DispatchKeeps ==
  ASSUME NEW segments \in SUBSET Segment, NEW procs, NEW ws,
         \A p \in Pid : WellFormed(procs[p]) /\ StageEarned(procs[p], stored, published),
         Dispatch(segments, procs, ws), UNCHANGED uploads
  PROVE  Processes'
<1>1. PICK to \in [segments -> Worker] :
        proc' = [p \in Pid |->
                   IF p[2] = ws[p[1]]
                   THEN [procs[p] EXCEPT !.mailbox =
                           @ (+) SetToBag({s \in segments : to[s] = p[1]})]
                   ELSE procs[p]]
  BY DEF Dispatch
<1>2. \A p \in Pid : WellFormed(proc'[p]) /\ StageEarned(proc'[p], stored, published)
  <2> TAKE p \in Pid
  <2> DEFINE mine == {s \in segments : to[s] = p[1]}
  <2>1. mine \in SUBSET Segment
    OBVIOUS
  <2>2. CASE p[2] = ws[p[1]]
    <3>1. proc'[p] = [procs[p] EXCEPT !.mailbox = @ (+) SetToBag(mine)]
      BY <1>1, <2>2
    <3> HIDE DEF mine
    <3> QED
      BY <2>1, <3>1, CastKeeps
  <2>3. CASE p[2] # ws[p[1]]
    BY <1>1, <2>3
  <2> QED
    BY <2>2, <2>3
<1>3. stored' = stored /\ published' = published
  BY DEF uploads
<1>4. proc' = [p \in Pid |-> proc'[p]]
  BY <1>1
<1> QED
  BY <1>2, <1>3, <1>4 DEF Processes, WellFormed, StageEarned

\* One process steps, and objects and messages are only added.
LEMMA BecomeKeeps ==
  ASSUME Processes, NEW p \in Pid, NEW q, WellFormed(q), StageEarned(q, stored', published'),
         Become(p, q), UploadsGrow
  PROVE  Processes'
<1>1. proc' = [proc EXCEPT ![p] = q]
  BY DEF Become
<1>2. proc' = [r \in Pid |-> IF r = p THEN q ELSE proc[r]]
  BY <1>1 DEF Processes
<1>3. ASSUME NEW r \in Pid
      PROVE  WellFormed(proc'[r]) /\ StageEarned(proc'[r], stored', published')
  <2>1. CASE r = p
    BY <1>2, <2>1
  <2>2. CASE r # p
    <3>1. proc'[r] = proc[r]
      BY <1>2, <2>2
    <3>2. WellFormed(proc[r]) /\ StageEarned(proc[r], stored, published)
      BY DEF Processes
    <3>3. proc[r].job \subseteq Batch
      BY <3>2 DEF WellFormed
    <3> QED
      BY <3>1, <3>2, <3>3 DEF StageEarned, UploadsGrow
  <2> QED
    BY <2>1, <2>2
<1>4. proc' = [r \in Pid |-> proc'[r]]
  BY <1>2
<1> QED
  BY <1>3, <1>4 DEF Processes, WellFormed, StageEarned

\* Replacing dead workers leaves well-formed processes.
LEMMA RevivedKeeps ==
  ASSUME Processes
  PROVE  \A p \in Pid : WellFormed(Revived[p]) /\ StageEarned(Revived[p], stored, published)
BY FreshProcess DEF Revived, Processes


\* The part of TypeOK that is not about processes.
FilesTyped ==
  /\ owner \in {"open", "closing", "closed", "down"}
  /\ stopping \in Worker
  /\ status \in [Batch -> Status]
  /\ active \subseteq Batch
  /\ pending \subseteq active
  /\ sealed \subseteq Segment
  /\ left \subseteq sealed
  /\ pool \in [Worker -> Slot]
  /\ stored \subseteq Batch
  /\ published \in [Batch -> Nat]

LEMMA TypeParts == Processes => (TypeOK <=> FilesTyped)
BY DEF TypeOK, FilesTyped, Processes, WellFormed

\* No batch is lost by a step that answers only what is in a file, moves bytes
\* only from file to file, and removes a file only when its batches are published.
LEMMA KeepsBytes ==
  ASSUME AckedNeverLost, MessageHasObject', UploadsGrow,
         \A b \in Batch : status'[b] = "acked" =>
           status[b] = "acked" \/ b \in active' \cup UNION sealed',
         active \subseteq active' \cup UNION sealed',
         \A s \in sealed : s \in sealed' \/ \A b \in s : published'[b] > 0
  PROVE  AckedNeverLost'
<1> SUFFICES ASSUME NEW b \in Batch, status'[b] = "acked"
             PROVE  b \in active' \cup UNION sealed' \/ published'[b] > 0
  BY DEF AckedNeverLost, MessageHasObject
<1>1. CASE b \in active' \cup UNION sealed'
  BY <1>1
<1>2. CASE status[b] = "acked"
  <2>1. CASE b \in active
    BY <2>1
  <2>2. CASE b \in UNION sealed
    BY <2>2
  <2>3. CASE published[b] > 0
    BY <2>3 DEF UploadsGrow
  <2> QED
    BY <1>2, <2>1, <2>2, <2>3 DEF AckedNeverLost
<1> QED
  BY <1>1, <1>2

\* A step without an upload keeps the messages and their objects.
LEMMA UploadsUnchanged ==
  ASSUME MessageHasObject, UNCHANGED uploads
  PROVE  UploadsGrow /\ MessageHasObject'
BY DEF uploads, UploadsGrow, MessageHasObject

\* What rotate does with the bytes of the active file, renamed or not.
LEMMA RotateKeeps ==
  ASSUME TypeOK, Processes, NEW content \in Segment, active \subseteq content,
         Rotate(content), UNCHANGED uploads, left' = LeftBehind
  PROVE  /\ Processes'
         /\ active' \subseteq Batch /\ pending' \subseteq active'
         /\ sealed' \subseteq Segment /\ sealed \subseteq sealed'
         /\ left' \subseteq sealed'
         /\ content \subseteq active' \cup UNION sealed'
<1>1. Found \in SUBSET Segment /\ left' \subseteq sealed /\ content \subseteq Batch
  BY DEF Found, LeftBehind, TypeOK, Segment
<1>2. CASE Rotated(content)
  <2>1. Found \cup {content} \in SUBSET Segment
    BY <1>1
  <2>2. Processes'
    BY <1>2, <2>1, RevivedKeeps, DispatchKeeps DEF Rotated
  <2> QED
    BY <1>1, <1>2, <2>2 DEF Rotated, TypeOK
<1>3. CASE RenameFails(content)
  <2>1. Processes'
    BY <1>1, <1>3, RevivedKeeps, DispatchKeeps DEF RenameFails
  <2> QED
    BY <1>1, <1>3, <2>1 DEF RenameFails, TypeOK
<1> QED
  BY <1>2, <1>3 DEF Rotate

\* What a callback does that leaves the bytes in the active file.
LEMMA KeepKeeps ==
  ASSUME TypeOK, Processes, NEW content \in SUBSET Batch, NEW counted \in SUBSET content,
         Keep(content, counted), UNCHANGED uploads, left' = LeftBehind
  PROVE  /\ Processes'
         /\ active' = content /\ pending' = counted
         /\ sealed' = sealed /\ left' \subseteq sealed'
<1>1. Found \in SUBSET Segment
  BY DEF Found, TypeOK
<1>2. Processes'
  BY <1>1, RevivedKeeps, DispatchKeeps DEF Keep
<1> QED
  BY <1>2 DEF Keep, LeftBehind, TypeOK

\* A worker with a segment in its hands, at whatever stage.
Working(q) ==
  /\ BagToSet(q.mailbox) \subseteq Segment
  /\ q.job \in Segment
  /\ q.attempt \in 0..MaxCommitAttempts

\* The stages it goes to, and those it comes from.
LEMMA WorkingAt ==
  ASSUME NEW q, Working(q), NEW s \in {"put", "publish", "remove"},
         NEW n \in 0..MaxCommitAttempts
  PROVE  LET r == At(q, s, q.job, n)
         IN  WellFormed(r) /\ r.stage = s /\ r.job = q.job
BY DEF At, Working, WellFormed, Segment, Stage

LEMMA RestingKeeps ==
  ASSUME NEW q, Working(q)
  PROVE  WellFormed(Resting(q)) /\ Resting(q).stage = "idle"
BY CountAssumption DEF Resting, At, Working, WellFormed, Stage

LEMMA StageWorks ==
  ASSUME NEW q, WellFormed(q), q.stage \in {"put", "publish", "remove"}
  PROVE  Working(q)
<1>1. q.job # {} /\ q.job \subseteq Batch
  BY DEF WellFormed
<1>2. q.job \in Segment
  BY <1>1 DEF Segment
<1> QED
  BY <1>2 DEF WellFormed, Working

\* A failed attempt leaves a worker that retries or rests.
LEMMA AttemptFailedKeeps ==
  ASSUME TypeOK, Processes, NEW p \in Pid, NEW q, Working(q), AttemptFailed(p, q),
         UploadsGrow
  PROVE  Processes' /\ left' \subseteq sealed
<1>1. CASE q.attempt < MaxCommitAttempts
  <2> DEFINE r == At(q, "put", q.job, q.attempt + 1)
  <2>1. q.attempt + 1 \in 0..MaxCommitAttempts
    BY <1>1, CountAssumption DEF Working
  <2>2. WellFormed(r) /\ r.stage = "put"
    BY <2>1, WorkingAt
  <2>3. Become(p, r) /\ left' = left
    BY <1>1 DEF AttemptFailed
  <2> HIDE DEF r
  <2>4. StageEarned(r, stored', published')
    BY <2>2 DEF StageEarned
  <2> QED
    BY <2>2, <2>3, <2>4, BecomeKeeps DEF TypeOK
<1>2. CASE ~(q.attempt < MaxCommitAttempts)
  <2> DEFINE r == Resting(q)
  <2>1. WellFormed(r) /\ r.stage = "idle"
    BY RestingKeeps
  <2>2. Become(p, r) /\ left' = left \cup ({q.job} \cap sealed)
    BY <1>2 DEF AttemptFailed
  <2> HIDE DEF r
  <2>3. StageEarned(r, stored', published')
    BY <2>1 DEF StageEarned
  <2> QED
    BY <2>1, <2>2, <2>3, BecomeKeeps DEF TypeOK
<1> QED
  BY <1>1, <1>2

\* A step of a worker that leaves the files and the owner alone.
LEMMA WorkerKeeps ==
  ASSUME IInv, Processes', UploadsGrow, MessageHasObject',
         UNCHANGED <<owner, stopping, status, files, pool>>,
         left' \subseteq sealed, stored' \subseteq Batch, published' \in [Batch -> Nat]
  PROVE  IInv'
<1>1. FilesTyped
  BY TypeParts DEF IInv
<1>2. FilesTyped'
  BY <1>1 DEF FilesTyped, files
<1>3. AckedNeverLost'
  BY KeepsBytes DEF IInv, files
<1> QED
  BY <1>2, <1>3, TypeParts DEF IInv, TypeOK, FilesTyped, Processes, WellFormed

LEMMA PutKeeps ==
  ASSUME IInv, NEW p \in Pid, NEW q, Working(q), Put(p, q)
  PROVE  IInv'
<1>1. q.job \subseteq Batch /\ q.attempt \in 0..MaxCommitAttempts
  BY DEF Working, Segment
<1>2. UNCHANGED <<owner, stopping, status, files, pool>> /\ published' = published
  BY DEF Put
<1>3. stored' \in {stored, stored \cup q.job}
  BY DEF Put
<1>4. UploadsGrow /\ MessageHasObject' /\ stored' \subseteq Batch /\ published' \in [Batch -> Nat]
  BY <1>1, <1>2, <1>3 DEF IInv, UploadsGrow, MessageHasObject, TypeOK
<1>5. CASE /\ stored' = stored \cup q.job
           /\ Become(p, At(q, "publish", q.job, q.attempt))
           /\ UNCHANGED <<left, disturbed>>
  <2> DEFINE r == At(q, "publish", q.job, q.attempt)
  <2>1. WellFormed(r) /\ r.stage = "publish" /\ r.job = q.job
    BY <1>1, WorkingAt
  <2>2. Become(p, r) /\ left' = left
    BY <1>5
  <2> HIDE DEF r
  <2>3. StageEarned(r, stored', published')
    BY <1>5, <2>1 DEF StageEarned
  <2>4. Processes'
    BY <1>4, <2>1, <2>2, <2>3, BecomeKeeps DEF IInv
  <2> QED
    BY <1>2, <1>4, <2>2, <2>4, WorkerKeeps DEF IInv, TypeOK
<1>6. CASE AttemptFailed(p, q)
  BY <1>2, <1>4, <1>6, AttemptFailedKeeps, WorkerKeeps DEF IInv
<1> QED
  BY <1>5, <1>6 DEF Put

LEMMA TakeSegmentKeeps ==
  ASSUME IInv, NEW p \in Pid, TakeSegment(p)
  PROVE  IInv'
<1>1. PICK s \in BagToSet(proc[p].mailbox) :
        LET rest == [proc[p] EXCEPT !.mailbox = @ (-) SetToBag({s})] IN
        \/ s \in sealed /\ Put(p, At(rest, "idle", s, 1))
        \/ ReadFails(p, s, rest)
  BY DEF TakeSegment
<1> DEFINE box  == proc[p].mailbox (-) SetToBag({s})
           rest == [proc[p] EXCEPT !.mailbox = @ (-) SetToBag({s})]
<1>2. WellFormed(proc[p]) /\ StageEarned(proc[p], stored, published) /\ proc[p].stage = "idle"
  BY DEF IInv, Processes, TakeSegment
<1>3. BagToSet(box) \subseteq BagToSet(proc[p].mailbox)
  BY DEF BagToSet, SetToBag, (-)
<1>4. rest = [stage |-> proc[p].stage, mailbox |-> box, job |-> proc[p].job, attempt |-> proc[p].attempt]
  <2> HIDE DEF box
  <2>1. proc[p] = [stage |-> proc[p].stage, mailbox |-> proc[p].mailbox,
                   job |-> proc[p].job, attempt |-> proc[p].attempt]
    BY <1>2 DEF WellFormed
  <2>2. rest = [proc[p] EXCEPT !.mailbox = box]
    BY DEF box
  <2> QED
    BY <2>1, <2>2
<1>5. BagToSet(box) \subseteq Segment
  BY <1>2, <1>3 DEF WellFormed
<1> HIDE DEF box, rest
<1>6. WellFormed(rest) /\ StageEarned(rest, stored, published)
  BY <1>2, <1>4, <1>5 DEF WellFormed, StageEarned
<1>7. CASE s \in sealed /\ Put(p, At(rest, "idle", s, 1))
  <2>1. s \in Segment /\ 1 \in 0..MaxCommitAttempts
    BY <1>7, CountAssumption DEF IInv, TypeOK
  <2>2. rest.mailbox = box
    BY <1>4
  <2>3. Working(At(rest, "idle", s, 1))
    BY <1>5, <2>1, <2>2 DEF Working, At
  <2> QED
    BY <1>7, <2>3, PutKeeps
<1>8. CASE ReadFails(p, s, rest)
  <2>1. Become(p, rest) /\ UNCHANGED <<owner, stopping, status, files, pool, uploads>>
    BY <1>8 DEF ReadFails
  <2>2. UploadsGrow /\ MessageHasObject'
    BY <2>1, UploadsUnchanged DEF IInv
  <2>3. stored' = stored /\ published' = published
    BY <2>1 DEF uploads
  <2>4. Processes'
    BY <1>6, <2>1, <2>2, <2>3, BecomeKeeps DEF IInv
  <2>5. left' \subseteq sealed
    BY <1>8 DEF ReadFails, IInv, TypeOK
  <2> QED
    BY <2>1, <2>2, <2>3, <2>4, <2>5, WorkerKeeps DEF IInv, TypeOK
<1>9. (s \in sealed /\ Put(p, At(rest, "idle", s, 1))) \/ ReadFails(p, s, rest)
  BY <1>1 DEF rest
<1> QED
  BY <1>7, <1>8, <1>9

LEMMA PublishKeeps ==
  ASSUME IInv, NEW p \in Pid, Publish(p)
  PROVE  IInv'
<1> DEFINE q == proc[p]
<1>1. /\ WellFormed(q) /\ q.stage = "publish" /\ Working(q)
      /\ q.job \subseteq stored /\ q.job \subseteq Batch /\ q.attempt \in 0..MaxCommitAttempts
  BY StageWorks DEF IInv, Processes, Publish, StageEarned, WellFormed
<1>2. UNCHANGED <<owner, stopping, status, files, pool>> /\ stored' = stored
  BY DEF Publish
<1>3. published' \in {published, Announced(q.job)}
  BY DEF Publish
<1>4. UploadsGrow /\ MessageHasObject' /\ stored' \subseteq Batch /\ published' \in [Batch -> Nat]
  BY <1>1, <1>2, <1>3 DEF IInv, UploadsGrow, MessageHasObject, TypeOK, Announced
<1>5. CASE /\ published' = Announced(q.job)
           /\ Become(p, At(q, "remove", q.job, q.attempt))
           /\ UNCHANGED <<left, disturbed>>
  <2> DEFINE r == At(q, "remove", q.job, q.attempt)
  <2>1. WellFormed(r) /\ r.stage = "remove" /\ r.job = q.job
    <3> HIDE DEF q
    <3> QED BY <1>1, WorkingAt
  <2>2. Become(p, r) /\ left' = left
    BY <1>5
  <2>3. \A b \in q.job : published'[b] > 0
    BY <1>1, <1>5 DEF Announced, IInv, TypeOK
  <2> HIDE DEF r
  <2>4. StageEarned(r, stored', published')
    BY <2>1, <2>3 DEF StageEarned
  <2>5. Processes'
    BY <1>4, <2>1, <2>2, <2>4, BecomeKeeps DEF IInv
  <2> QED
    BY <1>2, <1>4, <2>2, <2>5, WorkerKeeps DEF IInv, TypeOK
<1>6. CASE AttemptFailed(p, q)
  BY <1>1, <1>2, <1>4, <1>6, AttemptFailedKeeps, WorkerKeeps DEF IInv
<1> QED
  BY <1>5, <1>6 DEF Publish

LEMMA RemoveSegmentKeeps ==
  ASSUME IInv, NEW p \in Pid, RemoveSegment(p)
  PROVE  IInv'
<1> DEFINE q == proc[p]
           r == Resting(q)
<1>1. WellFormed(q) /\ q.stage = "remove" /\ Working(q) /\ \A b \in q.job : published[b] > 0
  BY StageWorks DEF IInv, Processes, RemoveSegment, StageEarned
<1>2. Become(p, r) /\ UNCHANGED <<owner, stopping, status, active, pending, pool, uploads>>
  BY DEF RemoveSegment
<1>3. /\ sealed' \in {sealed, sealed \ {q.job}}
      /\ left' \subseteq sealed'
  BY DEF RemoveSegment, IInv, TypeOK
<1>4. UploadsGrow /\ MessageHasObject'
  BY <1>2, UploadsUnchanged DEF IInv
<1>5. WellFormed(r) /\ StageEarned(r, stored', published')
  <2>1. WellFormed(r) /\ r.stage = "idle"
    <3> HIDE DEF q
    <3> QED BY <1>1, RestingKeeps
  <2> HIDE DEF r
  <2> QED BY <2>1 DEF StageEarned
<1>6. Processes'
  <2> HIDE DEF r
  <2> QED BY <1>2, <1>4, <1>5, BecomeKeeps DEF IInv
<1>7. \A s \in sealed : s \in sealed' \/ \A b \in s : published'[b] > 0
  BY <1>1, <1>2, <1>3 DEF uploads
<1>8. AckedNeverLost'
  BY <1>2, <1>4, <1>7, KeepsBytes DEF IInv
<1>9. FilesTyped'
  BY <1>2, <1>3 DEF IInv, TypeOK, FilesTyped, uploads
<1> QED
  BY <1>4, <1>6, <1>8, <1>9, TypeParts DEF IInv, TypeOK, FilesTyped, Processes, WellFormed

LEMMA WorkerDiesKeeps ==
  ASSUME IInv, NEW p \in Pid, WorkerDies(p)
  PROVE  IInv'
<1>1. Become(p, Dead) /\ UNCHANGED <<owner, stopping, status, files, pool, uploads, left>>
  BY DEF WorkerDies
<1>2. UploadsGrow /\ MessageHasObject' /\ stored' = stored /\ published' = published
  BY <1>1, UploadsUnchanged DEF IInv, uploads
<1>3. Processes'
  BY <1>1, <1>2, FreshProcess, BecomeKeeps DEF IInv
<1> QED
  BY <1>1, <1>2, <1>3, WorkerKeeps DEF IInv, TypeOK

\* A step of the owner: the uploads stay, and the files keep their bytes.
LEMMA OwnerKeeps ==
  ASSUME IInv, Processes', UNCHANGED uploads,
         owner' \in {"open", "closing", "closed", "down"}, stopping' \in Worker,
         status' \in [Batch -> Status], pool' \in [Worker -> Slot],
         active' \subseteq Batch, pending' \subseteq active',
         sealed' \subseteq Segment, sealed \subseteq sealed', left' \subseteq sealed',
         active \subseteq active' \cup UNION sealed',
         \A b \in Batch : status'[b] = "acked" =>
           status[b] = "acked" \/ b \in active' \cup UNION sealed'
  PROVE  IInv'
<1>1. UploadsGrow /\ MessageHasObject' /\ stored' = stored /\ published' = published
  BY UploadsUnchanged DEF IInv, uploads
<1>2. AckedNeverLost'
  BY <1>1, KeepsBytes DEF IInv
<1>3. FilesTyped'
  BY <1>1 DEF IInv, TypeOK, FilesTyped
<1> QED
  BY <1>1, <1>2, <1>3 DEF IInv, TypeOK, FilesTyped, Processes, WellFormed

LEMMA CommitKeeps ==
  ASSUME IInv, NEW b \in Batch, Commit(b)
  PROVE  IInv'
<1> DEFINE content == active \cup {b}
<1>1. content \in Segment /\ content \in SUBSET Batch /\ pending \cup {b} \in SUBSET content
  BY DEF IInv, TypeOK, Segment
<1>2. /\ UNCHANGED uploads /\ left' = LeftBehind /\ UNCHANGED <<owner, stopping, pool>>
      /\ status' = [status EXCEPT ![b] = "acked"]
  BY DEF Commit
<1>3. Rotate(content) \/ Keep(content, pending \cup {b})
  BY DEF Commit
<1>4. /\ Processes'
      /\ active' \subseteq Batch /\ pending' \subseteq active'
      /\ sealed' \subseteq Segment /\ sealed \subseteq sealed'
      /\ left' \subseteq sealed'
      /\ content \subseteq active' \cup UNION sealed'
  <2> HIDE DEF content
  <2>1. CASE Rotate(content)
    <3>1. active \subseteq content
      BY DEF content
    <3> QED
      BY <1>1, <1>2, <2>1, <3>1, RotateKeeps DEF IInv
  <2>2. CASE Keep(content, pending \cup {b})
    <3>1. /\ Processes' /\ active' = content /\ pending' = pending \cup {b}
          /\ sealed' = sealed /\ left' \subseteq sealed'
      BY <1>1, <1>2, <2>2, KeepKeeps DEF IInv
    <3> QED
      BY <1>1, <3>1 DEF IInv, TypeOK
  <2> QED
    BY <1>3, <2>1, <2>2
<1>5. status' \in [Batch -> Status]
  BY <1>2 DEF IInv, TypeOK, Status
<1>6. \A c \in Batch : status'[c] = "acked" =>
        status[c] = "acked" \/ c \in active' \cup UNION sealed'
  BY <1>2, <1>4 DEF IInv, TypeOK
<1>7. owner' = owner /\ stopping' = stopping /\ pool' = pool
  BY <1>2
<1> QED
  BY <1>2, <1>4, <1>5, <1>6, <1>7, OwnerKeeps DEF IInv, TypeOK

LEMMA CommitFailsKeeps ==
  ASSUME IInv, NEW b \in Batch, CommitFails(b)
  PROVE  IInv'
<1>1. /\ UNCHANGED <<owner, stopping, pool, pending, sealed, uploads>> /\ left' = LeftBehind
      /\ status' = [status EXCEPT ![b] = "refused"]
      /\ active' \in {active, active \cup {b}}
      /\ Dispatch(Found, Revived, pool)
  BY DEF CommitFails
<1>2. Found \in SUBSET Segment
  BY DEF Found, IInv, TypeOK
<1>3. UNCHANGED uploads
  BY <1>1
<1>4. Processes'
  BY <1>1, <1>2, <1>3, RevivedKeeps, DispatchKeeps DEF IInv
<1>5. status' \in [Batch -> Status] /\ \A c \in Batch : status'[c] = "acked" => status[c] = "acked"
  BY <1>1 DEF IInv, TypeOK, Status
<1>6. /\ active' \subseteq Batch /\ active \subseteq active' /\ pending' \subseteq active'
      /\ sealed' = sealed /\ left' \subseteq sealed'
  BY <1>1 DEF IInv, TypeOK, LeftBehind
<1> QED
  BY <1>1, <1>3, <1>4, <1>5, <1>6, OwnerKeeps DEF IInv, TypeOK

LEMMA FlushTickKeeps ==
  ASSUME IInv, NEW intervalElapsed \in BOOLEAN, FlushTick(intervalElapsed)
  PROVE  IInv'
<1>1. UNCHANGED <<owner, stopping, status, pool, uploads>> /\ left' = LeftBehind
  BY DEF FlushTick
<1>2. /\ Processes'
      /\ active' \subseteq Batch /\ pending' \subseteq active'
      /\ sealed' \subseteq Segment /\ sealed \subseteq sealed'
      /\ left' \subseteq sealed'
      /\ active \subseteq active' \cup UNION sealed'
  <2>1. CASE pending # {} /\ Rotate(active)
    <3>1. active \in Segment
      BY <2>1 DEF IInv, TypeOK, Segment
    <3> QED
      BY <1>1, <2>1, <3>1, RotateKeeps DEF IInv
  <2>2. CASE Keep(active, pending)
    <3>1. /\ Processes' /\ active' = active /\ pending' = pending
          /\ sealed' = sealed /\ left' \subseteq sealed'
      BY <1>1, <2>2, KeepKeeps DEF IInv, TypeOK
    <3> QED
      BY <3>1 DEF IInv, TypeOK
  <2> QED
    BY <2>1, <2>2 DEF FlushTick
<1>3. owner' = owner /\ stopping' = stopping /\ pool' = pool /\ status' = status
  BY <1>1
<1> QED
  BY <1>1, <1>2, <1>3, OwnerKeeps DEF IInv, TypeOK

\* The first worker there is to stop.
LEMMA FirstWorker == 0 \in Worker
BY CountAssumption DEF Worker

LEMMA CloseKeeps ==
  ASSUME IInv, Close
  PROVE  IInv'
<1>1. /\ UNCHANGED <<status, pool, uploads, left>> /\ owner' = "closing" /\ stopping' = 0
      /\ pending' = {}
  BY DEF Close
<1>2. stored' = stored /\ published' = published /\ UNCHANGED uploads
  BY <1>1 DEF uploads
<1>3. CASE /\ pending # {}
           /\ sealed' = sealed \cup {active}
           /\ active' = {}
           /\ \E w \in Worker :
                proc' = IF Alive(Pooled(w))
                        THEN [proc EXCEPT ![Pooled(w)].mailbox = @ (+) SetToBag({active})]
                        ELSE proc
  <2>1. active \in Segment
    BY <1>3 DEF IInv, TypeOK, Segment
  <2>2. PICK w \in Worker :
          proc' = IF Alive(Pooled(w))
                  THEN [proc EXCEPT ![Pooled(w)].mailbox = @ (+) SetToBag({active})]
                  ELSE proc
    BY <1>3
  <2>3. Pooled(w) \in Pid
    BY DEF Pooled, Pid, IInv, TypeOK
  <2>4. Processes'
    <3>1. CASE Alive(Pooled(w))
      <4> DEFINE r == [proc[Pooled(w)] EXCEPT !.mailbox = @ (+) SetToBag({active})]
      <4>1. {active} \in SUBSET Segment
        BY <2>1
      <4>2. WellFormed(r) /\ StageEarned(r, stored', published')
        <5>1. WellFormed(proc[Pooled(w)]) /\ StageEarned(proc[Pooled(w)], stored, published)
          BY <2>3 DEF IInv, Processes
        <5> QED
          BY <1>2, <4>1, <5>1, CastKeeps
      <4>3. Become(Pooled(w), r)
        BY <2>2, <3>1 DEF Become
      <4>4. UploadsGrow
        BY <1>2, UploadsUnchanged DEF IInv
      <4> HIDE DEF r
      <4> QED
        BY <2>3, <4>2, <4>3, <4>4, BecomeKeeps DEF IInv
    <3>2. CASE ~Alive(Pooled(w))
      BY <1>2, <2>2, <3>2 DEF IInv, Processes, WellFormed, StageEarned
    <3> QED
      BY <3>1, <3>2
  <2>5. sealed' \subseteq Segment /\ left' \subseteq sealed'
    BY <1>1, <1>3, <2>1 DEF IInv, TypeOK
  <2> QED
    BY <1>1, <1>2, <1>3, <2>4, <2>5, FirstWorker, OwnerKeeps DEF IInv, TypeOK
<1>4. CASE UNCHANGED <<active, sealed, proc>>
  <2>1. Processes'
    BY <1>2, <1>4 DEF IInv, Processes, WellFormed, StageEarned
  <2> QED
    BY <1>1, <1>2, <1>4, <2>1, FirstWorker, OwnerKeeps DEF IInv, TypeOK
<1> QED
  BY <1>3, <1>4 DEF Close

LEMMA StopWorkerKeeps ==
  ASSUME IInv, StopWorker
  PROVE  IInv'
<1>1. UNCHANGED <<status, files, pool, uploads, left>>
  BY DEF StopWorker
<1>2. owner' \in {"open", "closing", "closed", "down"} /\ stopping' \in Worker
  BY FirstWorker, CountAssumption DEF StopWorker, IInv, TypeOK, Worker
<1>3. Pooled(stopping) \in Pid
  BY DEF Pooled, Pid, IInv, TypeOK
<1>4. UploadsGrow /\ stored' = stored /\ published' = published
  BY <1>1, UploadsUnchanged DEF IInv, uploads
<1>5. proc' = proc \/ Become(Pooled(stopping), Dead)
  BY DEF StopWorker, Become
<1>6. Processes'
  <2>1. CASE proc' = proc
    BY <1>4, <2>1 DEF IInv, Processes, WellFormed, StageEarned
  <2>2. CASE Become(Pooled(stopping), Dead)
    BY <1>3, <1>4, <2>2, FreshProcess, BecomeKeeps DEF IInv
  <2> QED
    BY <1>5, <2>1, <2>2
<1>7. active' = active /\ pending' = pending /\ sealed' = sealed /\ UNCHANGED uploads
  BY <1>1 DEF files
<1> QED
  BY <1>1, <1>2, <1>6, <1>7, OwnerKeeps DEF IInv, TypeOK

LEMMA OpenKeeps ==
  ASSUME IInv, Open
  PROVE  IInv'
<1>1. /\ UNCHANGED <<stopping, status, active, sealed, uploads>> /\ left' = {}
      /\ owner' = "open" /\ pending' = {}
  BY DEF Open
<1>2. PICK ws \in [Worker -> Slot] : pool' = ws /\ Dispatch(sealed, Opened(ws), ws)
  BY DEF Open
<1>3. \A p \in Pid : WellFormed(Opened(ws)[p]) /\ StageEarned(Opened(ws)[p], stored, published)
  BY FreshProcess DEF Opened, IInv, Processes
<1>4. UNCHANGED uploads /\ sealed \in SUBSET Segment
  BY <1>1 DEF IInv, TypeOK
<1>5. Processes'
  BY <1>2, <1>3, <1>4, DispatchKeeps
<1> QED
  BY <1>1, <1>2, <1>4, <1>5, OwnerKeeps DEF IInv, TypeOK

LEMMA OwnerDiesKeeps ==
  ASSUME IInv, OwnerDies
  PROVE  IInv'
<1>1. /\ UNCHANGED <<status, files, pool, proc, uploads, left>>
      /\ owner' = "down" /\ stopping' = 0
  BY DEF OwnerDies
<1>2. Processes'
  BY <1>1 DEF IInv, Processes, WellFormed, StageEarned, uploads
<1>3. active' = active /\ pending' = pending /\ sealed' = sealed /\ UNCHANGED uploads
  BY <1>1 DEF files
<1> QED
  BY <1>1, <1>2, <1>3, FirstWorker, OwnerKeeps DEF IInv, TypeOK

LEMMA NodeDiesKeeps ==
  ASSUME IInv, NodeDies
  PROVE  IInv'
<1>1. /\ UNCHANGED <<status, files, pool, uploads, left>>
      /\ owner' = "down" /\ stopping' = 0 /\ proc' = [p \in Pid |-> Dead]
  BY DEF NodeDies
<1>2. Processes'
  <2>1. \A p \in Pid : proc'[p] = Dead
    BY <1>1
  <2>2. WellFormed(Dead) /\ StageEarned(Dead, stored', published')
    BY FreshProcess
  <2>3. proc' = [p \in Pid |-> proc'[p]]
    BY <1>1
  <2> QED
    BY <2>1, <2>2, <2>3 DEF Processes, WellFormed, StageEarned
<1>3. active' = active /\ pending' = pending /\ sealed' = sealed /\ UNCHANGED uploads
  BY <1>1 DEF files
<1> QED
  BY <1>1, <1>2, <1>3, FirstWorker, OwnerKeeps DEF IInv, TypeOK

-----------------------------------------------------------------------------
(* The invariant. *)

LEMMA InitIInv == Init => IInv
<1> SUFFICES ASSUME Init PROVE IInv
  OBVIOUS
<1>1. \A p \in Pid : proc[p] \in {Started, Dead}
  BY DEF Init
<1>2. proc = [p \in Pid |-> proc[p]]
  BY DEF Init
<1>3. Processes
  BY <1>1, <1>2, FreshProcess DEF Processes
<1>4. 1 \in Slot
  BY CountAssumption DEF Slot
<1>5. FilesTyped
  BY <1>4, FirstWorker DEF Init, FilesTyped, Status
<1>6. AckedNeverLost /\ MessageHasObject
  BY DEF Init, AckedNeverLost, MessageHasObject
<1> QED
  BY <1>3, <1>5, <1>6, TypeParts DEF IInv

LEMMA NextIInv == IInv /\ [Next]_vars => IInv'
<1> SUFFICES ASSUME IInv, [Next]_vars PROVE IInv'
  OBVIOUS
<1>1. ASSUME NEW b \in Batch, Commit(b) PROVE IInv'
  BY <1>1, CommitKeeps
<1>2. ASSUME NEW b \in Batch, CommitFails(b) PROVE IInv'
  BY <1>2, CommitFailsKeeps
<1>3. ASSUME NEW e \in BOOLEAN, FlushTick(e) PROVE IInv'
  BY <1>3, FlushTickKeeps
<1>4. CASE Close
  BY <1>4, CloseKeeps
<1>5. CASE StopWorker
  BY <1>5, StopWorkerKeeps
<1>6. CASE Open
  BY <1>6, OpenKeeps
<1>7. CASE OwnerDies
  BY <1>7, OwnerDiesKeeps
<1>8. CASE NodeDies
  BY <1>8, NodeDiesKeeps
<1>9. ASSUME NEW p \in Pid, TakeSegment(p) PROVE IInv'
  BY <1>9, TakeSegmentKeeps
<1>10. ASSUME NEW p \in Pid, RetryPut(p) PROVE IInv'
  <2>1. Working(proc[p])
    BY <1>10, StageWorks DEF RetryPut, IInv, Processes
  <2> QED
    BY <1>10, <2>1, PutKeeps DEF RetryPut
<1>11. ASSUME NEW p \in Pid, Publish(p) PROVE IInv'
  BY <1>11, PublishKeeps
<1>12. ASSUME NEW p \in Pid, RemoveSegment(p) PROVE IInv'
  BY <1>12, RemoveSegmentKeeps
<1>13. ASSUME NEW p \in Pid, WorkerDies(p) PROVE IInv'
  BY <1>13, WorkerDiesKeeps
<1>14. CASE UNCHANGED vars
  BY <1>14 DEF vars, files, uploads, IInv, TypeOK, Processes, WellFormed, StageEarned,
               AckedNeverLost, MessageHasObject
<1> QED
  BY <1>1, <1>2, <1>3, <1>4, <1>5, <1>6, <1>7, <1>8, <1>9, <1>10, <1>11, <1>12, <1>13, <1>14
     DEF Next, WorkerStep

\* A worker that publishes has its segment stored, and one that removes a file
\* has a message out for it, in every reachable state of every instance.
THEOREM RotatingWalInductiveInvariant == Spec => []IInv
BY InitIInv, NextIInv, PTL DEF Spec

\* The variables have their types: counted bytes are in the active file, and
\* what is left behind is on disk.
THEOREM RotatingWalTypeOK == Spec => []TypeOK
<1>1. IInv => TypeOK
  BY DEF IInv
<1> QED
  BY <1>1, RotatingWalInductiveInvariant, PTL

\* No answered batch is lost, for any number of batches, workers, attempts and
\* disturbances: it is on disk until a message for a stored object is out.
THEOREM RotatingWalAckedNeverLost == Spec => []AckedNeverLost
<1>1. IInv => AckedNeverLost
  BY DEF IInv
<1> QED
  BY <1>1, RotatingWalInductiveInvariant, PTL

-----------------------------------------------------------------------------
(***************************************************************************)
(* The dispatch of sealed segments.                                        *)
(*                                                                         *)
(* That none is left without a worker is carried by the pool: while the    *)
(* owner is open a segment is held in the pool or a dead worker there will *)
(* make the next callback scan, and while it closes, by a worker not       *)
(* stopped yet.                                                            *)
(*                                                                         *)
(* Few messages: it counts.  Every message still to come for a batch is a  *)
(* token: a cast of its segment in some mailbox, a job that has not        *)
(* published, its place in the active file, or the scan that a dead worker *)
(* or a new owner will bring.  A step moves a token, spends one on a       *)
(* message, or is a disturbance.                                           *)
(***************************************************************************)

\* Worker w has s in its hands, or is dead and found so by the next callback.
Answers(w, s) == Holds(Pooled(w), s) \/ ~Alive(Pooled(w))

\* Who ships a sealed segment that nobody gave up.
SegmentsHeld ==
  \A s \in sealed \ left :
    /\ owner = "open" => \E w \in Worker : Answers(w, s)
    /\ owner = "closing" => \E w \in Worker : w >= stopping /\ Answers(w, s)
    /\ owner # "closed"

\* The copies of s in a mailbox.
Copies(s, B) == IF s \in BagToSet(B) THEN B[s] ELSE 0

\* A mailbox has a positive number of copies of each cast in it.
Mailboxes == \A p \in Pid : IsABag(proc[p].mailbox)

HInv == IInv /\ Mailboxes /\ SegmentsHeld

\* The casts of a segment with batch b that process p of state q has, and the
\* job it has not published.
Casts(q, p, b) == UNION {{<<p, s, k>> : k \in 1..Copies(s, q.mailbox)} :
                           s \in {t \in Segment : b \in t}}
Jobs(q, p, b) == IF q.stage \in {"put", "publish"} /\ b \in q.job THEN {<<p, {}, 0>>} ELSE {}
Tokens(q, p, b) == Casts(q, p, b) \cup Jobs(q, p, b)
AllTokens(b) == UNION {Tokens(proc[p], p, b) : p \in Pid}

\* The scan to come.
ScanAhead == IF owner # "open" \/ AnyDead THEN 1 ELSE 0

\* Tokens that become those of U: none is new, or one takes the place of another.
TokensMove(T, U) == U \subseteq T \/ \E x \in T : \E y : U \subseteq (T \ {x}) \cup {y}

Messages(b) ==
  published[b] + Cardinality(AllTokens(b)) + (IF b \in active THEN 1 ELSE 0) + ScanAhead

\* A batch is in one file at most, and nowhere before it is submitted.
OneFile ==
  /\ \A s \in sealed : s \cap active = {}
  /\ \A s, t \in sealed : s \cap t # {} => s = t
  /\ \A b \in Batch : status[b] = "new" =>
       b \notin active \cup UNION sealed /\ published[b] = 0 /\ AllTokens(b) = {}

MessagesBounded ==
  /\ disturbed \in Nat
  /\ \A b \in Batch : IsFiniteSet(AllTokens(b)) /\ Messages(b) <= 1 + disturbed

DInv == IInv /\ Mailboxes /\ OneFile /\ MessagesBounded

-----------------------------------------------------------------------------
(* Every sealed segment is in some worker's hands. *)

LEMMA PooledPid ==
  ASSUME TypeOK, NEW w \in Worker
  PROVE  Pooled(w) \in Pid
BY DEF Pooled, Pid, TypeOK

\* A mailbox to which casts are added, and one from which a cast is taken.
LEMMA BagCast ==
  ASSUME NEW B, IsABag(B), NEW S
  PROVE  /\ IsABag(B (+) SetToBag(S))
         /\ BagToSet(B (+) SetToBag(S)) = BagToSet(B) \cup S
         /\ \A s : Copies(s, B (+) SetToBag(S)) = Copies(s, B) + (IF s \in S THEN 1 ELSE 0)
BY DEF IsABag, BagToSet, SetToBag, (+), Copies

LEMMA BagTake ==
  ASSUME NEW B, IsABag(B), NEW s \in BagToSet(B)
  PROVE  /\ IsABag(B (-) SetToBag({s}))
         /\ BagToSet(B) \subseteq BagToSet(B (-) SetToBag({s})) \cup {s}
         /\ BagToSet(B (-) SetToBag({s})) \subseteq BagToSet(B)
         /\ \A t : Copies(t, B (-) SetToBag({s})) = Copies(t, B) - (IF t = s THEN 1 ELSE 0)
BY DEF IsABag, BagToSet, SetToBag, (-), Copies

LEMMA BagCopies ==
  ASSUME NEW B, IsABag(B)
  PROVE  /\ \A s : Copies(s, B) \in Nat
         /\ \A s \in BagToSet(B) : Copies(s, B) = B[s] /\ B[s] \in Nat \ {0}
BY DEF IsABag, BagToSet, Copies

LEMMA BagEmpty == IsABag(EmptyBag) /\ BagToSet(EmptyBag) = {}
BY DEF EmptyBag, SetToBag, BagToSet, IsABag

\* What a dispatch does to each process, given the worker it casts each segment to.
Delivered(to, segments, procs, ws) ==
  \A p \in Pid :
    /\ proc'[p].stage = procs[p].stage /\ proc'[p].job = procs[p].job
    /\ proc'[p].mailbox = IF p[2] = ws[p[1]]
                          THEN procs[p].mailbox (+) SetToBag({s \in segments : to[s] = p[1]})
                          ELSE procs[p].mailbox

LEMMA DispatchShape ==
  ASSUME NEW segments, NEW procs, NEW ws,
         \A p \in Pid : WellFormed(procs[p]), Dispatch(segments, procs, ws)
  PROVE  \E to \in [segments -> Worker] : Delivered(to, segments, procs, ws)
<1>1. PICK to \in [segments -> Worker] :
        proc' = [p \in Pid |->
                   IF p[2] = ws[p[1]]
                   THEN [procs[p] EXCEPT !.mailbox =
                           @ (+) SetToBag({s \in segments : to[s] = p[1]})]
                   ELSE procs[p]]
  BY DEF Dispatch
<1>2. ASSUME NEW p \in Pid, p[2] = ws[p[1]]
      PROVE  /\ proc'[p].stage = procs[p].stage /\ proc'[p].job = procs[p].job
             /\ proc'[p].mailbox
                  = procs[p].mailbox (+) SetToBag({s \in segments : to[s] = p[1]})
  <2> DEFINE box == procs[p].mailbox (+) SetToBag({s \in segments : to[s] = p[1]})
  <2>1. proc'[p] = [procs[p] EXCEPT !.mailbox = box]
    BY <1>1, <1>2
  <2> HIDE DEF box
  <2>2. procs[p] = [stage |-> procs[p].stage, mailbox |-> procs[p].mailbox, job |-> procs[p].job,
                    attempt |-> procs[p].attempt]
    BY DEF WellFormed
  <2> QED
    BY <2>1, <2>2 DEF box
<1>3. ASSUME NEW p \in Pid, p[2] # ws[p[1]] PROVE proc'[p] = procs[p]
  BY <1>1, <1>3
<1> QED
  BY <1>2, <1>3 DEF Delivered

\* A dispatch adds casts and nothing else, one for each segment.
LEMMA DispatchGives ==
  ASSUME NEW segments \in SUBSET Segment, NEW procs, NEW ws \in [Worker -> Slot],
         \A p \in Pid : WellFormed(procs[p]) /\ IsABag(procs[p].mailbox),
         Dispatch(segments, procs, ws)
  PROVE  /\ Mailboxes'
         /\ \E to \in [segments -> Worker] :
              /\ \A p \in Pid : /\ proc'[p].stage = procs[p].stage /\ proc'[p].job = procs[p].job
                                /\ BagToSet(procs[p].mailbox) \subseteq BagToSet(proc'[p].mailbox)
              /\ \A s \in segments : <<to[s], ws[to[s]]>> \in Pid
                                     /\ BagIn(s, proc'[<<to[s], ws[to[s]]>>].mailbox)
<1>0. \A p \in Pid : WellFormed(procs[p])
  OBVIOUS
<1>1. PICK to \in [segments -> Worker] : Delivered(to, segments, procs, ws)
  BY <1>0, DispatchShape
<1>2. ASSUME NEW p \in Pid, p[2] = ws[p[1]]
      PROVE  /\ IsABag(proc'[p].mailbox)
             /\ BagToSet(proc'[p].mailbox)
                  = BagToSet(procs[p].mailbox) \cup {s \in segments : to[s] = p[1]}
  <2> DEFINE mine == {s \in segments : to[s] = p[1]}
             B == procs[p].mailbox
  <2>1. IsABag(B) /\ proc'[p].mailbox = B (+) SetToBag(mine)
    BY <1>1, <1>2 DEF Delivered
  <2> HIDE DEF mine, B
  <2>2. IsABag(B (+) SetToBag(mine)) /\ BagToSet(B (+) SetToBag(mine)) = BagToSet(B) \cup mine
    BY <2>1, BagCast
  <2> QED
    BY <2>1, <2>2 DEF mine, B
<1>3. ASSUME NEW p \in Pid
      PROVE  /\ IsABag(proc'[p].mailbox)
             /\ BagToSet(procs[p].mailbox) \subseteq BagToSet(proc'[p].mailbox)
  BY <1>1, <1>2 DEF Delivered
<1>4. ASSUME NEW s \in segments
      PROVE  <<to[s], ws[to[s]]>> \in Pid /\ BagIn(s, proc'[<<to[s], ws[to[s]]>>].mailbox)
  <2> DEFINE p == <<to[s], ws[to[s]]>>
  <2>1. p \in Pid /\ p[1] = to[s] /\ p[2] = ws[p[1]]
    BY DEF Pid
  <2> HIDE DEF p
  <2>2. s \in BagToSet(proc'[p].mailbox)
    BY <1>2, <2>1
  <2> QED
    BY <2>1, <2>2 DEF p, BagIn
<1> QED
  BY <1>1, <1>3, <1>4 DEF Mailboxes, Delivered

LEMMA RevivedBags ==
  ASSUME Mailboxes
  PROVE  \A p \in Pid : IsABag(Revived[p].mailbox)
BY BagEmpty DEF Revived, Mailboxes, Started, Dead

\* A callback of the open owner: it scans if some worker is dead, and casts what
\* it seals.
LEMMA ScanHolds ==
  ASSUME HInv, owner = "open", UNCHANGED <<owner, pool>>, left' = LeftBehind,
         NEW more \in SUBSET Segment, Dispatch(Found \cup more, Revived, pool),
         sealed' \subseteq sealed \cup more
  PROVE  SegmentsHeld'
<1> SUFFICES ASSUME NEW s \in sealed', s \notin left'
             PROVE  \E w \in Worker : Answers(w, s)'
  BY DEF SegmentsHeld
<1>1. TypeOK /\ pool \in [Worker -> Slot] /\ Found \cup more \in SUBSET Segment
  BY DEF HInv, IInv, TypeOK, Found
<1>2. \A p \in Pid : WellFormed(Revived[p]) /\ IsABag(Revived[p].mailbox)
  BY RevivedKeeps, RevivedBags DEF HInv, IInv
<1>3. PICK to \in [Found \cup more -> Worker] :
        /\ \A p \in Pid : /\ proc'[p].stage = Revived[p].stage /\ proc'[p].job = Revived[p].job
                          /\ BagToSet(Revived[p].mailbox) \subseteq BagToSet(proc'[p].mailbox)
        /\ \A r \in Found \cup more : <<to[r], pool[to[r]]>> \in Pid
                                      /\ BagIn(r, proc'[<<to[r], pool[to[r]]>>].mailbox)
  BY <1>1, <1>2, DispatchGives
<1>4. \A w \in Worker : Pooled(w) \in Pid /\ Pooled(w)' = Pooled(w)
  BY <1>1, PooledPid DEF Pooled
<1>5. ASSUME NEW w \in Worker PROVE Alive(Pooled(w))'
  <2>1. Revived[Pooled(w)].stage # "dead"
    BY <1>4, FreshProcess DEF Revived, Alive
  <2> QED
    BY <1>3, <1>4, <2>1 DEF Alive
<1>6. CASE s \in Found \cup more
  <2>1. to[s] \in Worker /\ Pooled(to[s]) = <<to[s], pool[to[s]]>>
    BY <1>3, <1>6 DEF Pooled
  <2> QED
    BY <1>3, <1>4, <1>5, <1>6, <2>1 DEF Answers, Holds
<1>7. CASE s \notin Found \cup more
  <2>1. s \in sealed /\ ~AnyDead /\ s \notin left
    BY <1>7 DEF Found, LeftBehind
  <2>2. PICK w \in Worker : Answers(w, s)
    BY <2>1 DEF HInv, SegmentsHeld
  <2>3. Holds(Pooled(w), s) /\ Revived[Pooled(w)] = proc[Pooled(w)]
    BY <1>4, <2>1, <2>2 DEF AnyDead, Answers, Revived
  <2>4. Holds(Pooled(w), s)'
    BY <1>3, <1>4, <1>5, <2>3 DEF Holds, BagIn
  <2> QED
    BY <2>4 DEF Answers
<1> QED
  BY <1>6, <1>7

\* A worker that lets go of a segment has removed it or given it up.
LEMMA WorkerHolds ==
  ASSUME HInv, NEW p \in Pid, NEW r, Become(p, r), UNCHANGED <<owner, stopping, pool>>,
         sealed' \ left' \subseteq sealed \ left,
         \A s \in sealed' \ left' :
           Holds(p, s) => r.stage = "dead" \/ r.job = s \/ BagIn(s, r.mailbox),
         Alive(p)
  PROVE  SegmentsHeld'
<1>1. proc' = [q \in Pid |-> IF q = p THEN r ELSE proc[q]]
  BY DEF Become, HInv, IInv, Processes
<1>2. ASSUME NEW w \in Worker, NEW s \in sealed' \ left', Answers(w, s)
      PROVE  Answers(w, s)'
  <2>1. Pooled(w) \in Pid /\ Pooled(w)' = Pooled(w)
    BY PooledPid DEF Pooled, HInv, IInv
  <2>2. CASE Pooled(w) = p
    <3>1. Holds(p, s)
      BY <1>2, <2>2 DEF Answers
    <3>2. proc'[p] = r
      BY <1>1
    <3> QED
      BY <2>1, <2>2, <3>1, <3>2 DEF Answers, Holds, Alive
  <2>3. CASE Pooled(w) # p
    <3>1. proc'[Pooled(w)] = proc[Pooled(w)]
      BY <1>1, <2>1, <2>3
    <3> QED
      BY <1>2, <2>1, <3>1 DEF Answers, Holds, Alive
  <2> QED
    BY <2>2, <2>3
<1> QED
  BY <1>2 DEF HInv, SegmentsHeld

LEMMA RotateHolds ==
  ASSUME HInv, owner = "open", UNCHANGED <<owner, pool>>, left' = LeftBehind,
         NEW content \in Segment, Rotate(content)
  PROVE  SegmentsHeld'
<1>1. CASE Rotated(content)
  <2>1. /\ {content} \in SUBSET Segment /\ Dispatch(Found \cup {content}, Revived, pool)
        /\ sealed' \subseteq sealed \cup {content}
    BY <1>1 DEF Rotated
  <2> QED
    BY <2>1, ScanHolds
<1>2. CASE RenameFails(content)
  <2>1. /\ {} \in SUBSET Segment /\ Dispatch(Found \cup {}, Revived, pool)
        /\ sealed' \subseteq sealed \cup {}
    BY <1>2 DEF RenameFails
  <2> QED
    BY <2>1, ScanHolds
<1> QED
  BY <1>1, <1>2 DEF Rotate

LEMMA KeepHolds ==
  ASSUME HInv, owner = "open", UNCHANGED <<owner, pool>>, left' = LeftBehind,
         Dispatch(Found, Revived, pool), sealed' = sealed
  PROVE  SegmentsHeld'
<1>1. {} \in SUBSET Segment /\ Found \cup {} = Found /\ sealed' \subseteq sealed \cup {}
  OBVIOUS
<1> QED
  BY <1>1, ScanHolds

LEMMA CloseHolds ==
  ASSUME HInv, Close
  PROVE  SegmentsHeld'
<1>1. owner = "open" /\ owner' = "closing" /\ stopping' = 0 /\ UNCHANGED <<pool, left>>
  BY DEF Close
<1>2. \A w \in Worker : w >= 0 /\ Pooled(w) \in Pid /\ Pooled(w)' = Pooled(w)
  BY <1>1, PooledPid, CountAssumption DEF Pooled, HInv, IInv, Worker
<1> SUFFICES ASSUME NEW s \in sealed', s \notin left
             PROVE  \E w \in Worker : Answers(w, s)'
  BY <1>1, <1>2 DEF SegmentsHeld
<1>3. CASE UNCHANGED <<sealed, proc>>
  <2>1. PICK w \in Worker : Answers(w, s)
    BY <1>1, <1>3 DEF HInv, SegmentsHeld
  <2> QED
    BY <1>2, <1>3, <2>1 DEF Answers, Holds, Alive
<1>4. CASE /\ pending # {}
           /\ sealed' = sealed \cup {active}
           /\ \E w \in Worker :
                proc' = IF Alive(Pooled(w))
                        THEN [proc EXCEPT ![Pooled(w)].mailbox = @ (+) SetToBag({active})]
                        ELSE proc
  <2>1. PICK w \in Worker :
          proc' = IF Alive(Pooled(w))
                  THEN [proc EXCEPT ![Pooled(w)].mailbox = @ (+) SetToBag({active})]
                  ELSE proc
    BY <1>4
  <2>2. CASE ~Alive(Pooled(w))
    <3>1. proc' = proc
      BY <2>1, <2>2
    <3>2. CASE s \in sealed
      <4>1. PICK v \in Worker : Answers(v, s)
        BY <1>1, <3>2 DEF HInv, SegmentsHeld
      <4> QED
        BY <1>2, <3>1, <4>1 DEF Answers, Holds, Alive
    <3>3. CASE s = active
      BY <1>2, <2>2, <3>1 DEF Answers, Alive
    <3> QED
      BY <1>4, <3>2, <3>3
  <2>3. CASE Alive(Pooled(w))
    <3> DEFINE p == Pooled(w)
               box == proc[p].mailbox (+) SetToBag({active})
    <3>1. BagToSet(box) = BagToSet(proc[p].mailbox) \cup {active}
      BY DEF BagToSet, SetToBag, (+)
    <3>2. proc' = [proc EXCEPT ![p].mailbox = box] /\ p \in Pid
      BY <1>2, <2>1, <2>3
    <3>3. /\ proc = [q \in Pid |-> proc[q]]
          /\ proc[p] = [stage |-> proc[p].stage, mailbox |-> proc[p].mailbox,
                        job |-> proc[p].job, attempt |-> proc[p].attempt]
      BY <3>2 DEF HInv, IInv, Processes, WellFormed
    <3> HIDE DEF box
    <3>4. /\ proc'[p].stage = proc[p].stage /\ proc'[p].job = proc[p].job /\ proc'[p].mailbox = box
          /\ \A q \in Pid : q # p => proc'[q] = proc[q]
      BY <3>2, <3>3
    <3>5. CASE s \in sealed
      <4>1. PICK v \in Worker : Answers(v, s)
        BY <1>1, <3>5 DEF HInv, SegmentsHeld
      <4>2. CASE Pooled(v) = p
        BY <1>2, <3>1, <3>4, <4>1, <4>2 DEF Answers, Holds, Alive, BagIn
      <4>3. CASE Pooled(v) # p
        BY <1>2, <3>4, <4>1, <4>3 DEF Answers, Holds, Alive
      <4> QED
        BY <4>2, <4>3
    <3>6. CASE s = active
      BY <1>2, <2>3, <3>1, <3>4, <3>6 DEF Answers, Holds, Alive, BagIn
    <3> QED
      BY <1>4, <3>5, <3>6
  <2> QED
    BY <2>2, <2>3
<1> QED
  BY <1>3, <1>4 DEF Close

\* A process that takes a new state, and every other as it was.
LEMMA BecomeShape ==
  ASSUME Processes, NEW p \in Pid, NEW r, Become(p, r)
  PROVE  proc'[p] = r /\ \A q \in Pid : q # p => proc'[q] = proc[q]
BY DEF Become, Processes

LEMMA BecomeBags ==
  ASSUME Processes, Mailboxes, NEW p \in Pid, NEW r, Become(p, r), IsABag(r.mailbox)
  PROVE  Mailboxes'
BY BecomeShape DEF Mailboxes

\* The process state in which TakeSegment has taken the cast of s.
LEMMA Taken ==
  ASSUME Processes, Mailboxes, NEW p \in Pid, NEW s \in BagToSet(proc[p].mailbox)
  PROVE  LET rest == [proc[p] EXCEPT !.mailbox = @ (-) SetToBag({s})]
         IN  /\ rest.stage = proc[p].stage /\ rest.job = proc[p].job
             /\ rest.mailbox = proc[p].mailbox (-) SetToBag({s})
             /\ IsABag(rest.mailbox) /\ BagToSet(rest.mailbox) \subseteq Segment
             /\ BagToSet(proc[p].mailbox) \subseteq BagToSet(rest.mailbox) \cup {s}
             /\ \A t : Copies(t, rest.mailbox)
                         = Copies(t, proc[p].mailbox) - (IF t = s THEN 1 ELSE 0)
<1> DEFINE box  == proc[p].mailbox (-) SetToBag({s})
           rest == [proc[p] EXCEPT !.mailbox = @ (-) SetToBag({s})]
<1>1. /\ IsABag(box) /\ BagToSet(box) \subseteq BagToSet(proc[p].mailbox)
      /\ BagToSet(proc[p].mailbox) \subseteq BagToSet(box) \cup {s}
      /\ \A t : Copies(t, box) = Copies(t, proc[p].mailbox) - (IF t = s THEN 1 ELSE 0)
  BY BagTake DEF Mailboxes
<1>2. WellFormed(proc[p])
  BY DEF Processes
<1>3. rest.stage = proc[p].stage /\ rest.job = proc[p].job /\ rest.mailbox = box
  <2> HIDE DEF box
  <2>1. rest = [proc[p] EXCEPT !.mailbox = box]
    BY DEF box
  <2>2. proc[p] = [stage |-> proc[p].stage, mailbox |-> proc[p].mailbox,
                   job |-> proc[p].job, attempt |-> proc[p].attempt]
    BY <1>2 DEF WellFormed
  <2> HIDE DEF rest
  <2> QED
    BY <2>1, <2>2
<1> HIDE DEF box, rest
<1>4. BagToSet(box) \subseteq Segment
  BY <1>1, <1>2 DEF WellFormed
<1>5. /\ rest.stage = proc[p].stage /\ rest.job = proc[p].job
      /\ rest.mailbox = box /\ IsABag(rest.mailbox) /\ BagToSet(rest.mailbox) \subseteq Segment
      /\ BagToSet(proc[p].mailbox) \subseteq BagToSet(rest.mailbox) \cup {s}
      /\ \A t : Copies(t, rest.mailbox)
                  = Copies(t, proc[p].mailbox) - (IF t = s THEN 1 ELSE 0)
  BY <1>1, <1>3, <1>4
<1> QED
  BY <1>5 DEF rest, box

\* A worker at work keeps its mailbox.
LEMMA AtKeepsMailbox ==
  ASSUME NEW q, NEW stage, NEW job, NEW attempt
  PROVE  /\ At(q, stage, job, attempt).mailbox = q.mailbox
         /\ At(q, stage, job, attempt).stage = stage
         /\ At(q, stage, job, attempt).job = job
         /\ At(q, stage, job, attempt).attempt = attempt
         /\ Resting(q).mailbox = q.mailbox /\ Resting(q).stage = "idle" /\ Resting(q).job = {}
BY DEF At, Resting

LEMMA AttemptFailedBags ==
  ASSUME Processes, Mailboxes, NEW p \in Pid, NEW q, AttemptFailed(p, q), IsABag(q.mailbox)
  PROVE  Mailboxes'
BY BecomeBags, AtKeepsMailbox DEF AttemptFailed

LEMMA PutBags ==
  ASSUME Processes, Mailboxes, NEW p \in Pid, NEW q, Put(p, q), IsABag(q.mailbox)
  PROVE  Mailboxes'
BY BecomeBags, AttemptFailedBags, AtKeepsMailbox DEF Put

LEMMA WorkerBags ==
  ASSUME Processes, Mailboxes, NEW p \in Pid, WorkerStep(p) \/ WorkerDies(p)
  PROVE  Mailboxes'
<1>1. IsABag(proc[p].mailbox) /\ IsABag(Dead.mailbox)
  BY BagEmpty DEF Mailboxes, Dead
<1>2. CASE TakeSegment(p)
  <2>1. PICK s \in BagToSet(proc[p].mailbox) :
          LET rest == [proc[p] EXCEPT !.mailbox = @ (-) SetToBag({s})] IN
          \/ s \in sealed /\ Put(p, At(rest, "idle", s, 1))
          \/ ReadFails(p, s, rest)
    BY <1>2 DEF TakeSegment
  <2> DEFINE rest == [proc[p] EXCEPT !.mailbox = @ (-) SetToBag({s})]
  <2>2. Put(p, At(rest, "idle", s, 1)) \/ Become(p, rest)
    BY <2>1 DEF ReadFails
  <2>3. IsABag(rest.mailbox)
    BY Taken
  <2> HIDE DEF rest
  <2>4. IsABag(At(rest, "idle", s, 1).mailbox)
    BY <2>3, AtKeepsMailbox
  <2> QED
    BY <2>2, <2>3, <2>4, BecomeBags, PutBags
<1>3. CASE RetryPut(p)
  BY <1>1, <1>3, PutBags DEF RetryPut
<1>4. CASE Publish(p)
  BY <1>1, <1>4, BecomeBags, AttemptFailedBags, AtKeepsMailbox DEF Publish
<1>5. CASE RemoveSegment(p)
  BY <1>1, <1>5, BecomeBags, AtKeepsMailbox DEF RemoveSegment
<1>6. CASE WorkerDies(p)
  BY <1>1, <1>6, BecomeBags DEF WorkerDies
<1> QED
  BY <1>2, <1>3, <1>4, <1>5, <1>6 DEF WorkerStep

LEMMA ScanBags ==
  ASSUME IInv, Mailboxes, NEW more \in SUBSET Segment, Dispatch(Found \cup more, Revived, pool)
  PROVE  Mailboxes'
<1>1. Found \cup more \in SUBSET Segment /\ pool \in [Worker -> Slot]
  BY DEF IInv, TypeOK, Found
<1>2. \A p \in Pid : WellFormed(Revived[p]) /\ IsABag(Revived[p].mailbox)
  BY RevivedKeeps, RevivedBags DEF IInv
<1> QED
  BY <1>1, <1>2, DispatchGives

LEMMA RotateBags ==
  ASSUME IInv, Mailboxes, NEW content \in Segment, Rotate(content)
  PROVE  Mailboxes'
<1>1. {content} \in SUBSET Segment /\ {} \in SUBSET Segment /\ Found \cup {} = Found
  OBVIOUS
<1> QED
  BY <1>1, ScanBags DEF Rotate, Rotated, RenameFails

LEMMA FoundBags ==
  ASSUME IInv, Mailboxes, Dispatch(Found, Revived, pool)
  PROVE  Mailboxes'
<1>1. {} \in SUBSET Segment /\ Found \cup {} = Found
  OBVIOUS
<1> QED
  BY <1>1, ScanBags

\* The process states of a new owner's open.
LEMMA OpenedKeeps ==
  ASSUME Processes, Mailboxes, NEW ws
  PROVE  \A p \in Pid : /\ WellFormed(Opened(ws)[p]) /\ IsABag(Opened(ws)[p].mailbox)
                        /\ p[2] = ws[p[1]] => Opened(ws)[p] = Started
                        /\ Opened(ws)[p] \in {Started, Dead, proc[p]}
BY FreshProcess, BagEmpty DEF Opened, Processes, Mailboxes, Started, Dead

LEMMA NextMailboxes ==
  ASSUME IInv, Mailboxes, [Next]_vars
  PROVE  Mailboxes'
<1>1. ASSUME NEW b \in Batch, Commit(b) PROVE Mailboxes'
  <2>1. active \cup {b} \in Segment
    BY DEF IInv, TypeOK, Segment
  <2>2. Rotate(active \cup {b}) \/ Dispatch(Found, Revived, pool)
    BY <1>1 DEF Commit, Keep
  <2> QED
    BY <2>1, <2>2, RotateBags, FoundBags
<1>2. ASSUME NEW b \in Batch, CommitFails(b) PROVE Mailboxes'
  BY <1>2, FoundBags DEF CommitFails
<1>3. ASSUME NEW e \in BOOLEAN, FlushTick(e) PROVE Mailboxes'
  <2>1. (active # {} /\ Rotate(active)) \/ Dispatch(Found, Revived, pool)
    BY <1>3 DEF FlushTick, Keep, IInv, TypeOK
  <2>2. active # {} => active \in Segment
    BY DEF IInv, TypeOK, Segment
  <2> QED
    BY <2>1, <2>2, RotateBags, FoundBags
<1>4. CASE Close
  <2>1. CASE UNCHANGED proc
    BY <2>1 DEF Mailboxes
  <2>2. ASSUME NEW w \in Worker,
               proc' = [proc EXCEPT ![Pooled(w)].mailbox = @ (+) SetToBag({active})]
        PROVE  Mailboxes'
    <3> DEFINE r == [proc[Pooled(w)] EXCEPT !.mailbox = @ (+) SetToBag({active})]
               box == proc[Pooled(w)].mailbox (+) SetToBag({active})
    <3>1. Pooled(w) \in Pid
      BY PooledPid DEF IInv
    <3>2. Become(Pooled(w), r)
      BY <2>2 DEF Become
    <3>3. IsABag(box) /\ WellFormed(proc[Pooled(w)])
      BY <3>1, BagCast DEF Mailboxes, IInv, Processes
    <3>4. r.mailbox = box
      <4> HIDE DEF box
      <4>1. r = [proc[Pooled(w)] EXCEPT !.mailbox = box]
        BY DEF box
      <4> QED
        BY <3>3, <4>1 DEF WellFormed
    <3> HIDE DEF r, box
    <3> QED
      BY <3>1, <3>2, <3>3, <3>4, BecomeBags DEF IInv
  <2> QED
    BY <1>4, <2>1, <2>2 DEF Close
<1>5. CASE StopWorker
  <2>1. UNCHANGED proc \/ Become(Pooled(stopping), Dead)
    BY <1>5 DEF StopWorker, Become
  <2>2. Pooled(stopping) \in Pid /\ IsABag(Dead.mailbox)
    BY PooledPid, BagEmpty DEF IInv, TypeOK, Dead
  <2> QED
    BY <2>1, <2>2, BecomeBags DEF IInv, Mailboxes
<1>6. CASE Open
  <2>1. PICK ws \in [Worker -> Slot] : Dispatch(sealed, Opened(ws), ws)
    BY <1>6 DEF Open
  <2> QED
    BY <2>1, OpenedKeeps, DispatchGives DEF IInv, TypeOK
<1>7. CASE NodeDies
  BY <1>7, BagEmpty DEF NodeDies, Mailboxes, Dead
<1>8. ASSUME NEW p \in Pid, WorkerStep(p) \/ WorkerDies(p) PROVE Mailboxes'
  BY <1>8, WorkerBags DEF IInv
<1>9. CASE OwnerDies \/ UNCHANGED vars
  BY <1>9 DEF OwnerDies, vars, Mailboxes
<1> QED
  BY <1>1, <1>2, <1>3, <1>4, <1>5, <1>6, <1>7, <1>8, <1>9 DEF Next

-----------------------------------------------------------------------------
(* Every sealed segment is in some worker's hands: one lemma for each step. *)

\* A worker that stops has nothing in its hands, so others have the segments.
LEMMA StopWorkerHolds ==
  ASSUME HInv, StopWorker
  PROVE  SegmentsHeld'
<1>1. owner = "closing" /\ UNCHANGED <<files, pool, left>>
  BY DEF StopWorker
<1>2. CASE owner' = "down"
  BY <1>2 DEF SegmentsHeld
<1>3. CASE /\ proc[Pooled(stopping)].stage = "idle"
           /\ proc[Pooled(stopping)].mailbox = EmptyBag
           /\ proc' = [proc EXCEPT ![Pooled(stopping)] = Dead]
           /\ IF stopping = WorkerCount - 1
              THEN owner' = "closed" /\ stopping' = 0
              ELSE stopping' = stopping + 1 /\ UNCHANGED owner
  <2>1. /\ Pooled(stopping) \in Pid /\ stopping \in Worker
        /\ \A w \in Worker : Pooled(w) \in Pid /\ Pooled(w)' = Pooled(w)
    BY <1>1, PooledPid DEF HInv, IInv, TypeOK, Pooled
  <2>2. /\ \A q \in Pid : q # Pooled(stopping) => proc'[q] = proc[q]
        /\ WellFormed(proc[Pooled(stopping)])
    BY <1>3, <2>1 DEF HInv, IInv, Processes
  <2>3. ASSUME NEW s \in sealed \ left
        PROVE  \E w \in Worker : w > stopping /\ Answers(w, s)'
    <3>1. PICK w \in Worker : w >= stopping /\ Answers(w, s)
      BY <1>1, <2>3 DEF HInv, SegmentsHeld
    <3>2. s \in Segment /\ proc[Pooled(stopping)].job = {}
      BY <1>3, <2>2, <2>3 DEF HInv, IInv, TypeOK, WellFormed
    <3>3. ~Answers(stopping, s)
      BY <1>3, <3>2, BagEmpty DEF Answers, Holds, Alive, BagIn, Segment
    <3>4. w > stopping /\ Pooled(w) # Pooled(stopping)
      BY <2>1, <3>1, <3>3, CountAssumption DEF Worker, Pooled
    <3> QED
      BY <2>1, <2>2, <3>1, <3>4 DEF Answers, Holds, Alive
  <2>4. CASE stopping = WorkerCount - 1
    <3>1. \A w \in Worker : ~(w > stopping)
      BY <2>4, CountAssumption DEF Worker
    <3>2. sealed' \ left' = {}
      BY <1>1, <2>3, <3>1 DEF files
    <3> QED
      BY <3>2 DEF SegmentsHeld
  <2>5. CASE stopping # WorkerCount - 1
    <3>1. stopping' = stopping + 1 /\ owner' = "closing" /\ sealed' = sealed /\ left' = left
      BY <1>1, <1>3, <2>5 DEF files
    <3>2. \A w \in Worker : w > stopping => w >= stopping + 1
      BY <2>1, CountAssumption DEF Worker
    <3> QED
      BY <2>3, <3>1, <3>2 DEF SegmentsHeld
  <2> QED
    BY <2>4, <2>5
<1> QED
  BY <1>2, <1>3 DEF StopWorker

\* A new owner hands every segment to a worker it has just started.
LEMMA OpenHolds ==
  ASSUME HInv, Open
  PROVE  SegmentsHeld'
<1>1. UNCHANGED sealed /\ owner' = "open"
  BY DEF Open
<1>2. PICK ws \in [Worker -> Slot] : pool' = ws /\ Dispatch(sealed, Opened(ws), ws)
  BY DEF Open
<1> DEFINE procs == Opened(ws)
<1>3. \A p \in Pid : WellFormed(procs[p]) /\ IsABag(procs[p].mailbox)
  BY OpenedKeeps DEF HInv, IInv
<1>4. sealed \in SUBSET Segment /\ Dispatch(sealed, procs, ws)
  BY <1>2 DEF HInv, IInv, TypeOK
<1> HIDE DEF procs
<1>5. PICK to \in [sealed -> Worker] :
        /\ \A p \in Pid : proc'[p].stage = procs[p].stage
        /\ \A s \in sealed : <<to[s], ws[to[s]]>> \in Pid
                             /\ BagIn(s, proc'[<<to[s], ws[to[s]]>>].mailbox)
  <2>1. PICK to \in [sealed -> Worker] :
          /\ \A p \in Pid : /\ proc'[p].stage = procs[p].stage /\ proc'[p].job = procs[p].job
                            /\ BagToSet(procs[p].mailbox) \subseteq BagToSet(proc'[p].mailbox)
          /\ \A s \in sealed : <<to[s], ws[to[s]]>> \in Pid
                               /\ BagIn(s, proc'[<<to[s], ws[to[s]]>>].mailbox)
    BY <1>3, <1>4, DispatchGives
  <2> QED
    BY <2>1
<1>6. ASSUME NEW s \in sealed PROVE to[s] \in Worker /\ Answers(to[s], s)'
  <2> DEFINE p == <<to[s], ws[to[s]]>>
  <2>1. p \in Pid /\ p[2] = ws[p[1]]
    BY <1>5
  <2>2. Pooled(to[s])' = p
    BY <1>2 DEF Pooled
  <2>3. BagIn(s, proc'[p].mailbox)
    BY <1>5
  <2> HIDE DEF p
  <2>4. proc'[p].stage = "idle"
    BY <1>5, <2>1, OpenedKeeps, FreshProcess DEF HInv, IInv, procs
  <2> QED
    BY <2>2, <2>3, <2>4 DEF Answers, Holds, Alive
<1> QED
  BY <1>1, <1>6 DEF SegmentsHeld

\* A failed attempt keeps the segment, or gives it up.
LEMMA AttemptFailedHolds ==
  ASSUME HInv, NEW p \in Pid, NEW q, Alive(p), AttemptFailed(p, q),
         UNCHANGED <<owner, stopping, pool, sealed>>,
         \A s \in sealed : Holds(p, s) => s = q.job \/ BagIn(s, q.mailbox)
  PROVE  SegmentsHeld'
<1>1. CASE q.attempt < MaxCommitAttempts
  <2>1. Become(p, At(q, "put", q.job, q.attempt + 1)) /\ left' = left
    BY <1>1 DEF AttemptFailed
  <2> QED
    BY <2>1, WorkerHolds, AtKeepsMailbox
<1>2. CASE ~(q.attempt < MaxCommitAttempts)
  <2>1. Become(p, Resting(q)) /\ left' = left \cup ({q.job} \cap sealed)
    BY <1>2 DEF AttemptFailed
  <2>2. \A s \in sealed' \ left' : s \in sealed \ left /\ s # q.job
    BY <2>1
  <2>3. \A s \in sealed' \ left' : Holds(p, s) => BagIn(s, Resting(q).mailbox)
    BY <2>2, AtKeepsMailbox
  <2> QED
    BY <2>1, <2>2, <2>3, WorkerHolds
<1> QED
  BY <1>1, <1>2

LEMMA PutHolds ==
  ASSUME HInv, NEW p \in Pid, NEW q, Alive(p), Put(p, q),
         \A s \in sealed : Holds(p, s) => s = q.job \/ BagIn(s, q.mailbox)
  PROVE  SegmentsHeld'
<1>1. UNCHANGED <<owner, stopping, pool, sealed>>
  BY DEF Put, files
<1>2. CASE Become(p, At(q, "publish", q.job, q.attempt)) /\ UNCHANGED left
  BY <1>1, <1>2, WorkerHolds, AtKeepsMailbox
<1>3. CASE AttemptFailed(p, q)
  BY <1>1, <1>3, AttemptFailedHolds
<1> QED
  BY <1>2, <1>3 DEF Put

LEMMA TakeSegmentHolds ==
  ASSUME HInv, NEW p \in Pid, TakeSegment(p)
  PROVE  SegmentsHeld'
<1>1. PICK s \in BagToSet(proc[p].mailbox) :
        LET rest == [proc[p] EXCEPT !.mailbox = @ (-) SetToBag({s})] IN
        \/ s \in sealed /\ Put(p, At(rest, "idle", s, 1))
        \/ ReadFails(p, s, rest)
  BY DEF TakeSegment
<1> DEFINE rest == [proc[p] EXCEPT !.mailbox = @ (-) SetToBag({s})]
<1>2. /\ rest.stage = proc[p].stage
      /\ BagToSet(proc[p].mailbox) \subseteq BagToSet(rest.mailbox) \cup {s}
  BY Taken DEF HInv, IInv
<1>3. (s \in sealed /\ Put(p, At(rest, "idle", s, 1))) \/ ReadFails(p, s, rest)
  BY <1>1
<1> HIDE DEF rest
<1>4. proc[p].stage = "idle" /\ Alive(p) /\ WellFormed(proc[p])
  BY DEF TakeSegment, Alive, HInv, IInv, Processes
<1>5. \A t \in sealed : Holds(p, t) => t = s \/ BagIn(t, rest.mailbox)
  BY <1>2, <1>4 DEF Holds, WellFormed, HInv, IInv, TypeOK, Segment, BagIn
<1>6. CASE Put(p, At(rest, "idle", s, 1))
  BY <1>4, <1>5, <1>6, AtKeepsMailbox, PutHolds
<1>7. CASE ReadFails(p, s, rest)
  <2>1. /\ Become(p, rest) /\ left' = left \cup ({s} \cap sealed)
        /\ sealed' = sealed /\ UNCHANGED <<owner, stopping, pool>>
    BY <1>7 DEF ReadFails, files
  <2>2. \A t \in sealed' \ left' : Holds(p, t) => BagIn(t, rest.mailbox)
    BY <1>5, <2>1
  <2> QED
    BY <1>4, <2>1, <2>2, WorkerHolds
<1> QED
  BY <1>3, <1>6, <1>7

LEMMA PublishHolds ==
  ASSUME HInv, NEW p \in Pid, Publish(p)
  PROVE  SegmentsHeld'
<1> DEFINE q == proc[p]
<1>1. UNCHANGED <<owner, stopping, pool, sealed>> /\ Alive(p)
  BY DEF Publish, files, Alive
<1>2. \A s \in sealed : Holds(p, s) => s = q.job \/ BagIn(s, q.mailbox)
  BY DEF Holds
<1>3. CASE Become(p, At(q, "remove", q.job, q.attempt)) /\ UNCHANGED left
  BY <1>1, <1>2, <1>3, WorkerHolds, AtKeepsMailbox
<1>4. CASE AttemptFailed(p, q)
  <2> HIDE DEF q
  <2> QED
    BY <1>1, <1>2, <1>4, AttemptFailedHolds
<1> QED
  BY <1>3, <1>4 DEF Publish

LEMMA RemoveSegmentHolds ==
  ASSUME HInv, NEW p \in Pid, RemoveSegment(p)
  PROVE  SegmentsHeld'
<1>1. Become(p, Resting(proc[p])) /\ UNCHANGED <<owner, stopping, pool>> /\ Alive(p)
  BY DEF RemoveSegment, Alive
<1>2. sealed' \ left' \subseteq sealed \ left /\ proc[p].job \notin sealed' \ left'
  BY DEF RemoveSegment
<1>3. \A s \in sealed' \ left' : Holds(p, s) => BagIn(s, Resting(proc[p]).mailbox)
  BY <1>2, AtKeepsMailbox DEF Holds
<1> QED
  BY <1>1, <1>2, <1>3, WorkerHolds

LEMMA WorkerDiesHolds ==
  ASSUME HInv, NEW p \in Pid, WorkerDies(p)
  PROVE  SegmentsHeld'
<1>1. Become(p, Dead) /\ Alive(p) /\ UNCHANGED <<owner, stopping, pool, sealed, left>>
  BY DEF WorkerDies, files
<1> QED
  BY <1>1, WorkerHolds, FreshProcess

LEMMA NextHInv == HInv /\ [Next]_vars => HInv'
<1> SUFFICES ASSUME HInv, [Next]_vars PROVE SegmentsHeld'
  BY NextIInv, NextMailboxes DEF HInv
<1>1. ASSUME NEW b \in Batch, Commit(b) PROVE SegmentsHeld'
  <2>1. active \cup {b} \in Segment
    BY DEF HInv, IInv, TypeOK, Segment
  <2>2. owner = "open" /\ UNCHANGED <<owner, pool>> /\ left' = LeftBehind
    BY <1>1 DEF Commit
  <2>3. Rotate(active \cup {b}) \/ (Dispatch(Found, Revived, pool) /\ sealed' = sealed)
    BY <1>1 DEF Commit, Keep
  <2> QED
    BY <2>1, <2>2, <2>3, RotateHolds, KeepHolds
<1>2. ASSUME NEW b \in Batch, CommitFails(b) PROVE SegmentsHeld'
  BY <1>2, KeepHolds DEF CommitFails
<1>3. ASSUME NEW e \in BOOLEAN, FlushTick(e) PROVE SegmentsHeld'
  <2>1. \/ active # {} /\ Rotate(active)
        \/ Dispatch(Found, Revived, pool) /\ sealed' = sealed
    BY <1>3 DEF FlushTick, Keep, HInv, IInv, TypeOK
  <2>2. active # {} => active \in Segment
    BY DEF HInv, IInv, TypeOK, Segment
  <2>3. owner = "open" /\ UNCHANGED <<owner, pool>> /\ left' = LeftBehind
    BY <1>3 DEF FlushTick
  <2> QED
    BY <2>1, <2>2, <2>3, RotateHolds, KeepHolds
<1>4. CASE Close
  BY <1>4, CloseHolds
<1>5. CASE StopWorker
  BY <1>5, StopWorkerHolds
<1>6. CASE Open
  BY <1>6, OpenHolds
<1>7. CASE OwnerDies \/ NodeDies
  BY <1>7 DEF OwnerDies, NodeDies, SegmentsHeld
<1>8. ASSUME NEW p \in Pid, TakeSegment(p) PROVE SegmentsHeld'
  BY <1>8, TakeSegmentHolds
<1>9. ASSUME NEW p \in Pid, RetryPut(p) PROVE SegmentsHeld'
  <2>1. Alive(p) /\ \A s \in sealed : Holds(p, s) => s = proc[p].job \/ BagIn(s, proc[p].mailbox)
    BY <1>9 DEF RetryPut, Alive, Holds
  <2> QED
    BY <1>9, <2>1, PutHolds DEF RetryPut
<1>10. ASSUME NEW p \in Pid, Publish(p) PROVE SegmentsHeld'
  BY <1>10, PublishHolds
<1>11. ASSUME NEW p \in Pid, RemoveSegment(p) PROVE SegmentsHeld'
  BY <1>11, RemoveSegmentHolds
<1>12. ASSUME NEW p \in Pid, WorkerDies(p) PROVE SegmentsHeld'
  BY <1>12, WorkerDiesHolds
<1>13. CASE UNCHANGED vars
  BY <1>13 DEF vars, files, HInv, SegmentsHeld, Answers, Holds, Alive, Pooled
<1> QED
  BY <1>1, <1>2, <1>3, <1>4, <1>5, <1>6, <1>7, <1>8, <1>9, <1>10, <1>11, <1>12, <1>13
     DEF Next, WorkerStep

LEMMA InitHInv == Init => HInv
<1> SUFFICES ASSUME Init PROVE HInv
  OBVIOUS
<1>1. Mailboxes
  BY BagEmpty DEF Init, Mailboxes, Started, Dead
<1>2. SegmentsHeld
  BY DEF Init, SegmentsHeld
<1> QED
  BY <1>1, <1>2, InitIInv DEF HInv

\* While the partition is open, each segment not given up is in the hands of a
\* worker of its pool or a dead one there makes the next callback scan; while it
\* closes, of one that is not stopped yet.
THEOREM RotatingWalSegmentsHeld == Spec => []SegmentsHeld
<1>1. HInv => SegmentsHeld
  BY DEF HInv
<1> QED
  BY <1>1, InitHInv, NextHInv, PTL DEF Spec

\* However workers, owners and nodes die, an open partition whose workers live has
\* every sealed segment in some worker's hands or given up, and a close that
\* returned has left none to be shipped.
THEOREM RotatingWalSealedIsHandled == Spec => []SealedIsHandled
<1>1. HInv => SealedIsHandled
  <2> SUFFICES ASSUME HInv PROVE SealedIsHandled
    OBVIOUS
  <2>1. ASSUME owner = "open", ~AnyDead, NEW s \in sealed \ left
        PROVE  \E p \in Pid : Holds(p, s)
    <3>1. PICK w \in Worker : Answers(w, s)
      BY <2>1 DEF HInv, SegmentsHeld
    <3>2. Pooled(w) \in Pid /\ Alive(Pooled(w))
      BY <2>1, PooledPid DEF HInv, IInv, AnyDead
    <3> QED
      BY <3>1, <3>2 DEF Answers
  <2>2. owner = "closed" => sealed \subseteq left
    BY DEF HInv, SegmentsHeld
  <2> QED
    BY <2>1, <2>2 DEF SealedIsHandled
<1> QED
  BY <1>1, InitHInv, NextHInv, PTL DEF Spec

-----------------------------------------------------------------------------
(* A batch has few messages: what the steps do to the tokens. *)

LEMMA TokensMember ==
  ASSUME NEW q, NEW p, NEW b, NEW x
  PROVE  x \in Tokens(q, p, b) <=>
           \/ \E s \in Segment : b \in s /\ \E k \in 1..Copies(s, q.mailbox) : x = <<p, s, k>>
           \/ q.stage \in {"put", "publish"} /\ b \in q.job /\ x = <<p, {}, 0>>
BY DEF Tokens, Casts, Jobs

\* A process with no more casts than another, and no new job, has its tokens only.
LEMMA FewerTokens ==
  ASSUME NEW q, NEW r, NEW p, NEW b,
         IsABag(q.mailbox), IsABag(r.mailbox),
         \A s \in Segment : b \in s => Copies(s, r.mailbox) <= Copies(s, q.mailbox),
         r.stage \in {"put", "publish"} /\ b \in r.job =>
           q.stage \in {"put", "publish"} /\ b \in q.job
  PROVE  Tokens(r, p, b) \subseteq Tokens(q, p, b)
<1> SUFFICES ASSUME NEW x \in Tokens(r, p, b) PROVE x \in Tokens(q, p, b)
  OBVIOUS
<1>1. CASE r.stage \in {"put", "publish"} /\ b \in r.job /\ x = <<p, {}, 0>>
  BY <1>1, TokensMember
<1>2. ASSUME NEW s \in Segment, b \in s, NEW k \in 1..Copies(s, r.mailbox), x = <<p, s, k>>
      PROVE  x \in Tokens(q, p, b)
  <2>1. Copies(s, r.mailbox) \in Nat /\ Copies(s, q.mailbox) \in Nat
    BY BagCopies
  <2>2. k \in 1..Copies(s, q.mailbox)
    BY <1>2, <2>1
  <2> QED
    BY <1>2, <2>2, TokensMember
<1> QED
  BY <1>1, <1>2, TokensMember

\* A process without casts or a job.
LEMMA NoTokens ==
  ASSUME NEW p, NEW b
  PROVE  Tokens(Dead, p, b) = {} /\ Tokens(Started, p, b) = {}
<1>1. /\ Dead.mailbox = EmptyBag /\ Started.mailbox = EmptyBag
      /\ Dead.stage = "dead" /\ Started.stage = "idle"
  BY DEF Dead, Started
<1>2. \A s : Copies(s, EmptyBag) = 0
  BY BagEmpty DEF Copies
<1>3. 1..0 = {}
  OBVIOUS
<1> QED
  BY <1>1, <1>2, <1>3, TokensMember

\* The tokens of a process are its own.
LEMMA TokensApart ==
  ASSUME NEW q, NEW p, NEW r, NEW o, NEW b, p # o, NEW x \in Tokens(q, p, b)
  PROVE  x \notin Tokens(r, o, b)
BY TokensMember

\* One process takes a new state.
LEMMA BecomeTokens ==
  ASSUME Processes, NEW p \in Pid, NEW r, Become(p, r), NEW b
  PROVE  /\ Tokens(r, p, b) \subseteq Tokens(proc[p], p, b) => AllTokens(b)' \subseteq AllTokens(b)
         /\ \A x \in Tokens(proc[p], p, b) : \A y :
              Tokens(r, p, b) \subseteq (Tokens(proc[p], p, b) \ {x}) \cup {y} =>
                AllTokens(b)' \subseteq (AllTokens(b) \ {x}) \cup {y}
         /\ \A x \in Tokens(proc[p], p, b) :
              Tokens(r, p, b) \subseteq Tokens(proc[p], p, b) \ {x} =>
                AllTokens(b)' \subseteq AllTokens(b) \ {x}
         /\ Tokens(proc[p], p, b) \subseteq AllTokens(b)
<1>1. proc'[p] = r /\ \A q \in Pid : q # p => proc'[q] = proc[q]
  BY BecomeShape
<1>2. AllTokens(b)' = UNION {Tokens(proc'[q], q, b) : q \in Pid}
  BY DEF AllTokens, Tokens, Casts, Jobs
<1>3. \A x : x \in AllTokens(b)' => x \in Tokens(r, p, b) \/ \E q \in Pid \ {p} : x \in Tokens(proc[q], q, b)
  BY <1>1, <1>2
<1>4. \A q \in Pid : Tokens(proc[q], q, b) \subseteq AllTokens(b)
  BY DEF AllTokens
<1>5. \A x \in Tokens(proc[p], p, b), q \in Pid \ {p} : x \notin Tokens(proc[q], q, b)
  BY TokensApart
<1> QED
  BY <1>3, <1>4, <1>5

\* A dispatch of segments, at most one with b, adds one cast of b at most.
LEMMA DispatchTokens ==
  ASSUME NEW segments \in SUBSET Segment, NEW procs, NEW ws, NEW b,
         \A p \in Pid : WellFormed(procs[p]) /\ IsABag(procs[p].mailbox),
         \A p \in Pid : Tokens(procs[p], p, b) \subseteq Tokens(proc[p], p, b),
         \A s, t \in segments : b \in s /\ b \in t => s = t,
         Dispatch(segments, procs, ws)
  PROVE  /\ \E x : AllTokens(b)' \subseteq AllTokens(b) \cup {x}
         /\ b \notin UNION segments => AllTokens(b)' \subseteq AllTokens(b)
<1>1. \A p \in Pid : WellFormed(procs[p])
  OBVIOUS
<1>2. PICK to \in [segments -> Worker] : Delivered(to, segments, procs, ws)
  BY <1>1, DispatchShape
<1>3. ASSUME NEW p \in Pid
      PROVE  \A t : Copies(t, proc'[p].mailbox) =
               Copies(t, procs[p].mailbox)
                 + (IF p[2] = ws[p[1]] /\ t \in segments /\ to[t] = p[1] THEN 1 ELSE 0)
  <2> DEFINE mine == {s \in segments : to[s] = p[1]}
             B == procs[p].mailbox
  <2>1. IsABag(B)
    OBVIOUS
  <2>2. CASE p[2] = ws[p[1]]
    <3>1. proc'[p].mailbox = B (+) SetToBag(mine)
      BY <1>2, <2>2 DEF Delivered
    <3> HIDE DEF mine, B
    <3>2. \A t : Copies(t, B (+) SetToBag(mine)) = Copies(t, B) + (IF t \in mine THEN 1 ELSE 0)
      BY <2>1, BagCast
    <3> QED
      BY <2>2, <3>1, <3>2 DEF mine, B
  <2>3. CASE p[2] # ws[p[1]]
    <3>1. \A t : Copies(t, B) \in Nat
      BY <2>1, BagCopies
    <3>2. proc'[p].mailbox = B
      BY <1>2, <2>3 DEF Delivered
    <3> QED
      BY <2>3, <3>1, <3>2
  <2> HIDE DEF mine, B
  <2> QED
    BY <2>2, <2>3 DEF B
<1>4. AllTokens(b)' = UNION {Tokens(proc'[q], q, b) : q \in Pid}
  BY DEF AllTokens, Tokens, Casts, Jobs
<1>5. ASSUME NEW x \in AllTokens(b)', x \notin AllTokens(b)
      PROVE  \E s \in segments :
               /\ b \in s
               /\ LET p == <<to[s], ws[to[s]]>> IN x = <<p, s, Copies(s, procs[p].mailbox) + 1>>
  <2>1. PICK p \in Pid : x \in Tokens(proc'[p], p, b)
    BY <1>4
  <2>2. x \notin Tokens(procs[p], p, b)
    BY <1>5 DEF AllTokens
  <2>3. PICK s \in Segment, k \in Nat :
          b \in s /\ k \in 1..Copies(s, proc'[p].mailbox) /\ x = <<p, s, k>>
    <3>1. PICK s \in Segment :
            b \in s /\ \E k \in 1..Copies(s, proc'[p].mailbox) : x = <<p, s, k>>
      <4>1. ~(procs[p].stage \in {"put", "publish"} /\ b \in procs[p].job /\ x = <<p, {}, 0>>)
        BY <2>2, TokensMember
      <4>2. ~(proc'[p].stage \in {"put", "publish"} /\ b \in proc'[p].job /\ x = <<p, {}, 0>>)
        BY <1>2, <4>1 DEF Delivered
      <4> QED
        BY <2>1, <4>2, TokensMember
    <3> QED
      BY <3>1
  <2>4. k \notin 1..Copies(s, procs[p].mailbox)
    BY <2>2, <2>3, TokensMember
  <2>5. Copies(s, procs[p].mailbox) \in Nat
    BY BagCopies
  <2>6. /\ p[2] = ws[p[1]] /\ s \in segments /\ to[s] = p[1]
        /\ k = Copies(s, procs[p].mailbox) + 1
    BY <1>3, <2>3, <2>4, <2>5
  <2>7. p = <<to[s], ws[to[s]]>>
    BY <2>6 DEF Pid
  <2> QED
    BY <2>3, <2>6, <2>7
<1>6. CASE b \notin UNION segments
  BY <1>5, <1>6
<1>7. CASE b \in UNION segments
  <2>1. PICK s \in segments : b \in s
    BY <1>7
  <2>2. \A t \in segments : b \in t => t = s
    BY <2>1
  <2> DEFINE p == <<to[s], ws[to[s]]>>
             z == <<p, s, Copies(s, procs[p].mailbox) + 1>>
  <2>3. AllTokens(b)' \subseteq AllTokens(b) \cup {z}
    BY <1>5, <2>2
  <2> HIDE DEF z
  <2> QED
    BY <1>7, <2>3
<1> QED
  BY <1>6, <1>7

\* How many tokens that leaves.
LEMMA CountTokens ==
  ASSUME NEW T, NEW U, IsFiniteSet(T)
  PROVE  /\ Cardinality(T) \in Nat
         /\ U \subseteq T => IsFiniteSet(U) /\ Cardinality(U) \in Nat /\ Cardinality(U) <= Cardinality(T)
         /\ (\E x : U \subseteq T \cup {x}) =>
              IsFiniteSet(U) /\ Cardinality(U) \in Nat /\ Cardinality(U) <= Cardinality(T) + 1
         /\ (\E x \in T : \E y : U \subseteq (T \ {x}) \cup {y}) =>
              IsFiniteSet(U) /\ Cardinality(U) \in Nat /\ Cardinality(U) <= Cardinality(T)
         /\ (\E x \in T : U \subseteq T \ {x}) =>
              IsFiniteSet(U) /\ Cardinality(U) \in Nat /\ Cardinality(U) <= Cardinality(T) - 1
<1>1. Cardinality(T) \in Nat
  BY FS_CardinalityType
<1>2. ASSUME NEW V, IsFiniteSet(V), U \subseteq V
      PROVE  IsFiniteSet(U) /\ Cardinality(U) \in Nat /\ Cardinality(U) <= Cardinality(V)
  BY <1>2, FS_Subset, FS_CardinalityType
<1>3. ASSUME NEW V, IsFiniteSet(V), NEW x
      PROVE  /\ IsFiniteSet(V \cup {x}) /\ IsFiniteSet(V \ {x})
             /\ Cardinality(V \cup {x}) <= Cardinality(V) + 1
             /\ x \in V => Cardinality(V \ {x}) = Cardinality(V) - 1
  BY <1>3, FS_AddElement, FS_RemoveElement, FS_CardinalityType
<1>4. ASSUME NEW x, U \subseteq T \cup {x}
      PROVE  IsFiniteSet(U) /\ Cardinality(U) \in Nat /\ Cardinality(U) <= Cardinality(T) + 1
  <2>1. IsFiniteSet(T \cup {x}) /\ Cardinality(T \cup {x}) <= Cardinality(T) + 1
    BY <1>3
  <2>2. Cardinality(T \cup {x}) \in Nat
    BY <2>1, FS_CardinalityType
  <2> QED
    BY <1>1, <1>2, <1>4, <2>1, <2>2
<1>5. ASSUME NEW x \in T, NEW y, U \subseteq (T \ {x}) \cup {y}
      PROVE  IsFiniteSet(U) /\ Cardinality(U) \in Nat /\ Cardinality(U) <= Cardinality(T)
  <2>1. IsFiniteSet(T \ {x}) /\ Cardinality(T \ {x}) = Cardinality(T) - 1
    BY <1>3
  <2> DEFINE V == T \ {x}
  <2>2. /\ IsFiniteSet(V \cup {y}) /\ Cardinality(V \cup {y}) <= Cardinality(V) + 1
        /\ Cardinality(V) \in Nat
    BY <1>3, <2>1, FS_CardinalityType
  <2>3. Cardinality(V \cup {y}) \in Nat
    BY <2>2, FS_CardinalityType
  <2> QED
    BY <1>1, <1>2, <1>5, <2>1, <2>2, <2>3
<1>6. ASSUME NEW x \in T, U \subseteq T \ {x}
      PROVE  IsFiniteSet(U) /\ Cardinality(U) \in Nat /\ Cardinality(U) <= Cardinality(T) - 1
  BY <1>2, <1>3, <1>6
<1> QED
  BY <1>1, <1>2, <1>4, <1>5, <1>6

LEMMA DTypes ==
  ASSUME DInv, NEW b \in Batch
  PROVE  /\ published[b] \in Nat /\ IsFiniteSet(AllTokens(b)) /\ Cardinality(AllTokens(b)) \in Nat
         /\ disturbed \in Nat /\ ScanAhead \in {0, 1}
         /\ Messages(b) <= 1 + disturbed
BY CountTokens DEF DInv, MessagesBounded, IInv, TypeOK, ScanAhead

\* A step that adds no token, and either brings no scan or is a disturbance.
LEMMA ShrinkCounts ==
  ASSUME DInv, \A b \in Batch : AllTokens(b)' \subseteq AllTokens(b),
         UNCHANGED <<status, active, sealed, published>>,
         \/ disturbed' = disturbed /\ ScanAhead' <= ScanAhead
         \/ disturbed' = disturbed + 1,
         ScanAhead' \in {0, 1}
  PROVE  OneFile' /\ MessagesBounded'
<1>1. OneFile'
  BY DEF DInv, OneFile
<1>2. ASSUME NEW b \in Batch PROVE IsFiniteSet(AllTokens(b)') /\ Messages(b)' <= 1 + disturbed'
  <2>1. /\ IsFiniteSet(AllTokens(b)') /\ Cardinality(AllTokens(b)') \in Nat
        /\ Cardinality(AllTokens(b)') <= Cardinality(AllTokens(b))
    BY DTypes, CountTokens
  <2> QED
    BY <2>1, DTypes DEF Messages
<1>3. disturbed' \in Nat
  BY DEF DInv, MessagesBounded
<1> QED
  BY <1>1, <1>2, <1>3 DEF MessagesBounded

\* A live worker that stays alive brings no scan.
LEMMA NoNewScan ==
  ASSUME DInv, NEW p \in Pid, NEW r, Become(p, r), Alive(p), r.stage # "dead",
         UNCHANGED <<owner, pool>>
  PROVE  ScanAhead' = ScanAhead
<1>1. proc'[p] = r /\ \A q \in Pid : q # p => proc'[q] = proc[q]
  BY BecomeShape DEF DInv, IInv
<1>2. \A w \in Worker : Pooled(w) \in Pid /\ Pooled(w)' = Pooled(w)
  BY PooledPid DEF Pooled, DInv, IInv
<1>3. \A w \in Worker : Alive(Pooled(w))' <=> Alive(Pooled(w))
  BY <1>1, <1>2 DEF Alive
<1> QED
  BY <1>3 DEF ScanAhead, AnyDead

\* A step of a live worker: each batch keeps its tokens, or spends one on a
\* message, or has its message by a call that failed.
LEMMA WorkerCounts ==
  ASSUME DInv, UNCHANGED <<status, active>>, sealed' \subseteq sealed, ScanAhead' = ScanAhead,
         disturbed' \in {disturbed, disturbed + 1},
         \A b \in Batch :
           \/ published'[b] = published[b] /\ TokensMove(AllTokens(b), AllTokens(b)')
           \/ /\ published'[b] = published[b] + 1
              /\ \E x \in AllTokens(b) : AllTokens(b)' \subseteq AllTokens(b) \ {x}
           \/ /\ published'[b] = published[b] + 1 /\ disturbed' = disturbed + 1
              /\ TokensMove(AllTokens(b), AllTokens(b)') /\ AllTokens(b) # {}
  PROVE  OneFile' /\ MessagesBounded'
<1>1. ASSUME NEW b \in Batch, status'[b] = "new"
      PROVE  b \notin active' \cup UNION sealed' /\ published'[b] = 0 /\ AllTokens(b)' = {}
  <2>1. b \notin active \cup UNION sealed /\ published[b] = 0 /\ AllTokens(b) = {}
    BY <1>1 DEF DInv, OneFile
  <2> QED
    BY <2>1 DEF TokensMove
<1>2. OneFile'
  BY <1>1 DEF DInv, OneFile
<1>3. ASSUME NEW b \in Batch PROVE IsFiniteSet(AllTokens(b)') /\ Messages(b)' <= 1 + disturbed'
  <2> DEFINE T == AllTokens(b)
             U == AllTokens(b)'
  <2>1. /\ published[b] \in Nat /\ IsFiniteSet(T) /\ Cardinality(T) \in Nat
        /\ disturbed \in Nat /\ ScanAhead \in {0, 1}
    BY DTypes
  <2>2. published[b] + Cardinality(T) + (IF b \in active THEN 1 ELSE 0) + ScanAhead <= 1 + disturbed
    BY DTypes DEF Messages
  <2>3. \/ published'[b] = published[b] /\ TokensMove(T, U)
        \/ published'[b] = published[b] + 1 /\ \E x \in T : U \subseteq T \ {x}
        \/ published'[b] = published[b] + 1 /\ disturbed' = disturbed + 1 /\ TokensMove(T, U)
    OBVIOUS
  <2>4. Messages(b)' = published'[b] + Cardinality(U) + (IF b \in active THEN 1 ELSE 0) + ScanAhead
    BY DEF Messages
  <2> HIDE DEF T, U
  <2>5. /\ TokensMove(T, U) =>
             IsFiniteSet(U) /\ Cardinality(U) \in Nat /\ Cardinality(U) <= Cardinality(T)
        /\ (\E x \in T : U \subseteq T \ {x}) =>
             IsFiniteSet(U) /\ Cardinality(U) \in Nat /\ Cardinality(U) <= Cardinality(T) - 1
    BY <2>1, CountTokens DEF TokensMove
  <2>6. /\ IsFiniteSet(U) /\ Cardinality(U) \in Nat
        /\ \/ published'[b] = published[b] /\ Cardinality(U) <= Cardinality(T)
           \/ published'[b] = published[b] + 1 /\ Cardinality(U) <= Cardinality(T) - 1
           \/ published'[b] = published[b] + 1 /\ disturbed' = disturbed + 1
              /\ Cardinality(U) <= Cardinality(T)
    BY <2>3, <2>5
  <2>7. Messages(b)' <= 1 + disturbed'
    BY <2>1, <2>2, <2>4, <2>6
  <2> QED
    BY <2>6, <2>7 DEF U
<1>4. disturbed' \in Nat
  BY DEF DInv, MessagesBounded
<1> QED
  BY <1>2, <1>3, <1>4 DEF MessagesBounded

\* The stages before the message has been published stand for the same tokens.
LEMMA WaitingTokens ==
  ASSUME NEW q, NEW p, NEW b, NEW m, NEW n
  PROVE  Tokens(At(q, "publish", q.job, m), p, b) = Tokens(At(q, "put", q.job, n), p, b)
BY AtKeepsMailbox DEF Tokens, Casts, Jobs

LEMMA AttemptFailedTokens ==
  ASSUME DInv, NEW p \in Pid, NEW q, AttemptFailed(p, q), Alive(p), UNCHANGED <<owner, pool>>,
         \A b \in Batch :
           /\ TokensMove(Tokens(proc[p], p, b), Tokens(At(q, "put", q.job, 0), p, b))
           /\ Tokens(Resting(q), p, b) \subseteq Tokens(proc[p], p, b)
  PROVE  ScanAhead' = ScanAhead /\ \A b \in Batch : TokensMove(AllTokens(b), AllTokens(b)')
<1>1. PICK r : /\ Become(p, r) /\ r.stage # "dead"
               /\ \A b \in Batch : TokensMove(Tokens(proc[p], p, b), Tokens(r, p, b))
  <2>1. CASE q.attempt < MaxCommitAttempts
    <3> DEFINE r == At(q, "put", q.job, q.attempt + 1)
    <3>1. Become(p, r) /\ r.stage # "dead"
      BY <2>1, AtKeepsMailbox DEF AttemptFailed
    <3>2. \A b \in Batch : Tokens(r, p, b) = Tokens(At(q, "put", q.job, 0), p, b)
      BY AtKeepsMailbox DEF Tokens, Casts, Jobs
    <3> HIDE DEF r
    <3> QED
      BY <3>1, <3>2
  <2>2. CASE ~(q.attempt < MaxCommitAttempts)
    <3>1. Become(p, Resting(q)) /\ Resting(q).stage # "dead"
      BY <2>2, AtKeepsMailbox DEF AttemptFailed
    <3> QED
      BY <3>1 DEF TokensMove
  <2> QED
    BY <2>1, <2>2
<1>2. ScanAhead' = ScanAhead
  BY <1>1, NoNewScan
<1>3. ASSUME NEW b \in Batch PROVE TokensMove(AllTokens(b), AllTokens(b)')
  BY <1>1, BecomeTokens DEF TokensMove, DInv, IInv
<1> QED
  BY <1>2, <1>3

-----------------------------------------------------------------------------
(* A batch has few messages: one lemma for each step of a worker. *)

LEMMA PutCounts ==
  ASSUME DInv, NEW p \in Pid, NEW q, Alive(p), Put(p, q),
         \A b \in Batch :
           /\ TokensMove(Tokens(proc[p], p, b), Tokens(At(q, "put", q.job, 0), p, b))
           /\ Tokens(Resting(q), p, b) \subseteq Tokens(proc[p], p, b)
  PROVE  OneFile' /\ MessagesBounded'
<1>1. /\ UNCHANGED <<owner, pool, status, active, sealed, published>>
      /\ disturbed' \in {disturbed, disturbed + 1}
  BY DEF Put, Disturb, files
<1>2. CASE Become(p, At(q, "publish", q.job, q.attempt))
  <2> DEFINE r == At(q, "publish", q.job, q.attempt)
  <2>1. r.stage # "dead"
    BY AtKeepsMailbox
  <2>2. \A b \in Batch : Tokens(r, p, b) = Tokens(At(q, "put", q.job, 0), p, b)
    BY WaitingTokens
  <2>3. Become(p, r)
    BY <1>2
  <2> HIDE DEF r
  <2>4. ScanAhead' = ScanAhead
    BY <1>1, <2>1, <2>3, NoNewScan
  <2>5. ASSUME NEW b \in Batch PROVE TokensMove(AllTokens(b), AllTokens(b)')
    BY <2>2, <2>3, BecomeTokens DEF TokensMove, DInv, IInv
  <2> QED
    BY <1>1, <2>4, <2>5, WorkerCounts
<1>3. CASE AttemptFailed(p, q)
  <2>1. ScanAhead' = ScanAhead /\ \A b \in Batch : TokensMove(AllTokens(b), AllTokens(b)')
    BY <1>1, <1>3, AttemptFailedTokens
  <2> QED
    BY <1>1, <2>1, WorkerCounts
<1> QED
  BY <1>2, <1>3 DEF Put

\* A cast becomes the job.
LEMMA TakenTokens ==
  ASSUME Processes, Mailboxes, NEW p \in Pid, proc[p].stage = "idle",
         NEW s \in BagToSet(proc[p].mailbox), NEW rest,
         rest = [proc[p] EXCEPT !.mailbox = @ (-) SetToBag({s})], NEW b \in Batch
  PROVE  /\ Tokens(rest, p, b) \subseteq Tokens(proc[p], p, b)
         /\ \A job, n : Tokens(Resting(At(rest, "idle", job, n)), p, b) \subseteq Tokens(proc[p], p, b)
         /\ \A n, m : TokensMove(Tokens(proc[p], p, b),
                                 Tokens(At(At(rest, "idle", s, n), "put", s, m), p, b))
<1> DEFINE q == proc[p]
<1>1. /\ rest.stage = "idle" /\ IsABag(rest.mailbox) /\ IsABag(q.mailbox)
      /\ \A t : Copies(t, rest.mailbox) = Copies(t, q.mailbox) - (IF t = s THEN 1 ELSE 0)
  BY Taken DEF Mailboxes
<1>2. /\ \A t : Copies(t, q.mailbox) \in Nat /\ Copies(t, rest.mailbox) \in Nat
      /\ Copies(s, q.mailbox) \in Nat \ {0} /\ s \in Segment
  BY <1>1, BagCopies DEF Processes, WellFormed
<1> HIDE DEF q
<1>3. ASSUME NEW t PROVE Copies(t, rest.mailbox) <= Copies(t, q.mailbox)
  <2>1. Copies(t, rest.mailbox) = Copies(t, q.mailbox) - (IF t = s THEN 1 ELSE 0)
    BY <1>1
  <2>2. Copies(t, q.mailbox) \in Nat
    BY <1>2
  <2> QED
    BY <2>1, <2>2
<1>4. Tokens(rest, p, b) \subseteq Tokens(q, p, b)
  BY <1>1, <1>3, FewerTokens
<1>5. ASSUME NEW job, NEW n
      PROVE  Tokens(Resting(At(rest, "idle", job, n)), p, b) \subseteq Tokens(q, p, b)
  <2> DEFINE r == Resting(At(rest, "idle", job, n))
  <2>1. r.mailbox = rest.mailbox /\ r.stage = "idle"
    BY DEF At, Resting
  <2> HIDE DEF r
  <2>2. Tokens(r, p, b) \subseteq Tokens(q, p, b)
    BY <1>1, <1>3, <2>1, FewerTokens
  <2> QED
    BY <2>2 DEF r
<1>6. ASSUME NEW n, NEW m
      PROVE  TokensMove(Tokens(q, p, b), Tokens(At(At(rest, "idle", s, n), "put", s, m), p, b))
  <2> DEFINE r == At(At(rest, "idle", s, n), "put", s, m)
             x == <<p, s, Copies(s, q.mailbox)>>
             y == <<p, {}, 0>>
  <2>1. r.mailbox = rest.mailbox /\ r.job = s
    BY DEF At
  <2> HIDE DEF r
  <2>2. CASE b \notin s
    <3>1. Tokens(r, p, b) \subseteq Tokens(q, p, b)
      BY <1>1, <1>3, <2>1, <2>2, FewerTokens
    <3> QED
      BY <3>1 DEF TokensMove, r
  <2>3. CASE b \in s
    <3>1. x \in Tokens(q, p, b)
      BY <1>2, <2>3, TokensMember
    <3>2. ASSUME NEW z \in Tokens(r, p, b), z # y
          PROVE  z \in Tokens(q, p, b) /\ z # x
      <4>1. PICK t \in Segment, k \in Nat :
              b \in t /\ k \in 1..Copies(t, rest.mailbox) /\ z = <<p, t, k>>
        <5>1. PICK t \in Segment :
                b \in t /\ \E k \in 1..Copies(t, r.mailbox) : z = <<p, t, k>>
          BY <3>2, TokensMember
        <5> QED
          BY <2>1, <5>1
      <4>2. k \in 1..Copies(t, q.mailbox)
        BY <1>2, <1>3, <4>1
      <4>3. z \in Tokens(q, p, b)
        BY <4>1, <4>2, TokensMember
      <4>4. z # x
        <5>1. CASE t = s
          <6>1. Copies(s, rest.mailbox) = Copies(s, q.mailbox) - 1
            BY <1>1
          <6>2. k # Copies(s, q.mailbox)
            BY <1>2, <4>1, <5>1, <6>1
          <6> QED
            BY <4>1, <6>2
        <5>2. CASE t # s
          BY <4>1, <5>2
        <5> QED
          BY <5>1, <5>2
      <4> QED
        BY <4>3, <4>4
    <3>3. Tokens(r, p, b) \subseteq (Tokens(q, p, b) \ {x}) \cup {y}
      BY <3>2
    <3> HIDE DEF x, y
    <3> QED
      BY <3>1, <3>3 DEF TokensMove, r
  <2> QED
    BY <2>2, <2>3
<1> QED
  BY <1>4, <1>5, <1>6 DEF q

LEMMA TakeSegmentCounts ==
  ASSUME DInv, NEW p \in Pid, TakeSegment(p)
  PROVE  OneFile' /\ MessagesBounded'
<1>1. PICK s \in BagToSet(proc[p].mailbox) :
        LET rest == [proc[p] EXCEPT !.mailbox = @ (-) SetToBag({s})] IN
        \/ s \in sealed /\ Put(p, At(rest, "idle", s, 1))
        \/ ReadFails(p, s, rest)
  BY DEF TakeSegment
<1>2. PICK rest : rest = [proc[p] EXCEPT !.mailbox = @ (-) SetToBag({s})]
  OBVIOUS
<1>3. Put(p, At(rest, "idle", s, 1)) \/ ReadFails(p, s, rest)
  BY <1>1, <1>2
<1>4. proc[p].stage = "idle" /\ Alive(p) /\ Processes /\ Mailboxes
  BY DEF TakeSegment, Alive, DInv, IInv
<1>5. rest.stage = "idle"
  BY <1>2, <1>4, Taken
<1>6. CASE Put(p, At(rest, "idle", s, 1))
  <2> DEFINE q == At(rest, "idle", s, 1)
  <2>1. q.job = s
    BY AtKeepsMailbox
  <2>2. \A b \in Batch :
          /\ TokensMove(Tokens(proc[p], p, b), Tokens(At(q, "put", s, 0), p, b))
          /\ Tokens(Resting(q), p, b) \subseteq Tokens(proc[p], p, b)
    BY <1>2, <1>4, TakenTokens
  <2> HIDE DEF q
  <2> QED
    BY <1>4, <1>6, <2>1, <2>2, PutCounts DEF q
<1>7. CASE ReadFails(p, s, rest)
  <2>1. /\ Become(p, rest) /\ UNCHANGED <<owner, pool, status, active, sealed, published>>
        /\ disturbed' \in {disturbed, disturbed + 1}
    BY <1>7 DEF ReadFails, Disturb, files, uploads
  <2>2. ScanAhead' = ScanAhead
    BY <1>4, <1>5, <2>1, NoNewScan
  <2>3. \A b \in Batch : TokensMove(AllTokens(b), AllTokens(b)')
    BY <1>2, <1>4, <2>1, TakenTokens, BecomeTokens DEF TokensMove
  <2> QED
    BY <2>1, <2>2, <2>3, WorkerCounts
<1> QED
  BY <1>3, <1>6, <1>7

\* A worker that puts once more, or rests, has no token it did not have.
LEMMA OwnTokens ==
  ASSUME Processes, Mailboxes, NEW p \in Pid, proc[p].stage \in {"put", "publish"}, NEW b \in Batch
  PROVE  /\ TokensMove(Tokens(proc[p], p, b), Tokens(At(proc[p], "put", proc[p].job, 0), p, b))
         /\ Tokens(Resting(proc[p]), p, b) \subseteq Tokens(proc[p], p, b)
<1> DEFINE q == proc[p]
           again == At(q, "put", q.job, 0)
           rest == Resting(q)
<1>1. IsABag(q.mailbox) /\ \A s : Copies(s, q.mailbox) <= Copies(s, q.mailbox)
  BY BagCopies DEF Mailboxes
<1>2. /\ again.mailbox = q.mailbox /\ again.job = q.job
      /\ rest.mailbox = q.mailbox /\ rest.stage = "idle"
  BY AtKeepsMailbox
<1>3. q.stage \in {"put", "publish"}
  OBVIOUS
<1> HIDE DEF q, again, rest
<1>4. Tokens(again, p, b) \subseteq Tokens(q, p, b)
  BY <1>1, <1>2, <1>3, FewerTokens
<1>5. Tokens(rest, p, b) \subseteq Tokens(q, p, b)
  BY <1>1, <1>2, FewerTokens
<1> QED
  BY <1>4, <1>5 DEF TokensMove, q, again, rest

LEMMA PublishCounts ==
  ASSUME DInv, NEW p \in Pid, Publish(p)
  PROVE  OneFile' /\ MessagesBounded'
<1> DEFINE q == proc[p]
<1>1. /\ UNCHANGED <<owner, pool, status, active, sealed>> /\ Alive(p) /\ q.stage = "publish"
      /\ disturbed' \in {disturbed, disturbed + 1}
  BY DEF Publish, Disturb, files, Alive
<1>2. Processes /\ Mailboxes /\ q.job \subseteq Batch /\ published \in [Batch -> Nat]
  BY DEF DInv, IInv, Processes, WellFormed, TypeOK
<1>3. CASE published' = Announced(q.job) /\ Become(p, At(q, "remove", q.job, q.attempt))
  <2> DEFINE r == At(q, "remove", q.job, q.attempt)
             y == <<p, {}, 0>>
  <2>1. Become(p, r) /\ r.stage = "remove" /\ r.mailbox = q.mailbox
    BY <1>3, AtKeepsMailbox
  <2> HIDE DEF r
  <2>2. ScanAhead' = ScanAhead
    BY <1>1, <2>1, NoNewScan
  <2>3. IsABag(q.mailbox) /\ \A s : Copies(s, q.mailbox) <= Copies(s, q.mailbox)
    BY <1>2, BagCopies DEF Mailboxes
  <2>4. ASSUME NEW b \in Batch, b \notin q.job
        PROVE  published'[b] = published[b] /\ TokensMove(AllTokens(b), AllTokens(b)')
    <3>1. Tokens(r, p, b) \subseteq Tokens(q, p, b)
      BY <2>1, <2>3, FewerTokens
    <3> QED
      BY <1>2, <1>3, <2>1, <2>4, <3>1, BecomeTokens DEF TokensMove, Announced
  <2>5. ASSUME NEW b \in Batch, b \in q.job
        PROVE  /\ published'[b] = published[b] + 1
               /\ \E x \in AllTokens(b) : AllTokens(b)' \subseteq AllTokens(b) \ {x}
    <3>1. y \in Tokens(q, p, b)
      BY <1>1, <2>5, TokensMember
    <3>2. ASSUME NEW z \in Tokens(r, p, b) PROVE z \in Tokens(q, p, b) \ {y}
      <4>1. PICK s \in Segment :
              b \in s /\ \E k \in 1..Copies(s, r.mailbox) : z = <<p, s, k>>
        BY <2>1, <3>2, TokensMember
      <4>2. z \in Tokens(q, p, b)
        BY <2>1, <4>1, TokensMember
      <4> QED
        BY <4>1, <4>2 DEF Segment
    <3> HIDE DEF y
    <3>3. AllTokens(b)' \subseteq AllTokens(b) \ {y} /\ y \in AllTokens(b)
      BY <1>2, <2>1, <3>1, <3>2, BecomeTokens
    <3> QED
      BY <1>2, <1>3, <2>5, <3>3 DEF Announced
  <2> QED
    BY <1>1, <2>2, <2>4, <2>5, WorkerCounts
<1>4. CASE disturbed' = disturbed + 1 /\ published' \in {published, Announced(q.job)} /\ AttemptFailed(p, q)
  <2>1. \A b \in Batch :
          /\ TokensMove(Tokens(q, p, b), Tokens(At(q, "put", q.job, 0), p, b))
          /\ Tokens(Resting(q), p, b) \subseteq Tokens(q, p, b)
    BY <1>1, <1>2, OwnTokens
  <2>2. ScanAhead' = ScanAhead /\ \A b \in Batch : TokensMove(AllTokens(b), AllTokens(b)')
    <3> HIDE DEF q
    <3> QED
      BY <1>1, <1>4, <2>1, AttemptFailedTokens DEF q
  <2>3. ASSUME NEW b \in Batch, b \in q.job PROVE AllTokens(b) # {}
    <3>1. <<p, {}, 0>> \in Tokens(q, p, b)
      BY <1>1, <2>3, TokensMember
    <3> QED
      BY <3>1 DEF AllTokens
  <2>4. \A b \in Batch : \/ published'[b] = published[b]
                         \/ published'[b] = published[b] + 1 /\ b \in q.job
    BY <1>2, <1>4 DEF Announced
  <2> QED
    BY <1>1, <1>4, <2>2, <2>3, <2>4, WorkerCounts
<1> QED
  BY <1>3, <1>4 DEF Publish, Disturb

LEMMA RemoveSegmentCounts ==
  ASSUME DInv, NEW p \in Pid, RemoveSegment(p)
  PROVE  OneFile' /\ MessagesBounded'
<1> DEFINE r == Resting(proc[p])
<1>1. /\ Become(p, r) /\ UNCHANGED <<owner, pool, status, active, published>> /\ Alive(p)
      /\ sealed' \subseteq sealed /\ disturbed' \in {disturbed, disturbed + 1}
  BY DEF RemoveSegment, Disturb, Alive, uploads
<1>2. r.mailbox = proc[p].mailbox /\ r.stage = "idle"
  BY AtKeepsMailbox
<1> HIDE DEF r
<1>3. ScanAhead' = ScanAhead
  BY <1>1, <1>2, NoNewScan
<1>4. IsABag(proc[p].mailbox) /\ \A s : Copies(s, proc[p].mailbox) <= Copies(s, proc[p].mailbox)
  BY BagCopies DEF DInv, Mailboxes
<1>5. ASSUME NEW b \in Batch PROVE TokensMove(AllTokens(b), AllTokens(b)')
  <2>1. Tokens(r, p, b) \subseteq Tokens(proc[p], p, b)
    BY <1>2, <1>4, FewerTokens
  <2> QED
    BY <1>1, <2>1, BecomeTokens DEF TokensMove, DInv, IInv
<1> QED
  BY <1>1, <1>3, <1>5, WorkerCounts

\* The scan a death brings is paid for by the disturbance.
LEMMA WorkerDiesCounts ==
  ASSUME DInv, NEW p \in Pid, WorkerDies(p)
  PROVE  OneFile' /\ MessagesBounded'
<1>1. /\ Become(p, Dead) /\ UNCHANGED <<status, active, sealed, published>>
      /\ disturbed' = disturbed + 1
  BY DEF WorkerDies, Disturb, files, uploads
<1>2. ScanAhead' \in {0, 1}
  BY DEF ScanAhead
<1>3. \A b \in Batch : AllTokens(b)' \subseteq AllTokens(b)
  BY <1>1, NoTokens, BecomeTokens DEF DInv, IInv
<1> QED
  BY <1>1, <1>2, <1>3, ShrinkCounts

-----------------------------------------------------------------------------
(* A batch has few messages: one lemma for each step of the owner. *)

\* A callback of the open owner leaves no worker dead, so that a scan it made is
\* not ahead any longer.
LEMMA ScanCounts ==
  ASSUME DInv, owner = "open", UNCHANGED <<owner, pool>>, NEW more \in SUBSET Segment,
         \A s, t \in more : s = t, \A s \in sealed, t \in more : s \cap t = {},
         Dispatch(Found \cup more, Revived, pool)
  PROVE  /\ ScanAhead' = 0
         /\ \A b \in Batch :
              /\ IsFiniteSet(AllTokens(b)') /\ Cardinality(AllTokens(b)') \in Nat
              /\ Cardinality(AllTokens(b)') <= Cardinality(AllTokens(b)) + 1
              /\ b \notin UNION more =>
                   Cardinality(AllTokens(b)') <= Cardinality(AllTokens(b)) + ScanAhead
              /\ b \notin UNION (sealed \cup more) => AllTokens(b)' \subseteq AllTokens(b)
<1> DEFINE procs == Revived
           segments == Found \cup more
<1>1. /\ IInv /\ Processes /\ Mailboxes /\ TypeOK /\ pool \in [Worker -> Slot]
      /\ segments \in SUBSET Segment /\ segments \subseteq sealed \cup more
  BY DEF DInv, IInv, TypeOK, Found
<1>2. \A p \in Pid : WellFormed(procs[p]) /\ IsABag(procs[p].mailbox)
  BY <1>1, RevivedKeeps, RevivedBags
<1>3. \A p \in Pid : procs[p] \in {Started, proc[p]}
  BY DEF Revived
<1>4. \A w \in Worker : Pooled(w) \in Pid /\ Pooled(w)' = Pooled(w) /\ procs[Pooled(w)].stage # "dead"
  <2> TAKE w \in Worker
  <2>1. Pooled(w) \in Pid /\ Pooled(w)' = Pooled(w)
    BY <1>1, PooledPid DEF Pooled
  <2>2. procs[Pooled(w)].stage # "dead"
    BY <2>1, FreshProcess DEF Revived, Alive
  <2> QED
    BY <2>1, <2>2
<1>5. Dispatch(segments, procs, pool)
  OBVIOUS
<1>6. AnyDead => ScanAhead = 1
  BY DEF ScanAhead
<1>7. ~AnyDead => segments = more
  BY DEF Found
<1> HIDE DEF procs, segments
<1>8. ScanAhead' = 0
  <2>1. \A p \in Pid : WellFormed(procs[p])
    BY <1>2
  <2>2. PICK to \in [segments -> Worker] : Delivered(to, segments, procs, pool)
    BY <1>5, <2>1, DispatchShape
  <2>3. \A w \in Worker : Alive(Pooled(w))'
    BY <1>4, <2>2 DEF Delivered, Alive
  <2> QED
    BY <2>3 DEF ScanAhead, AnyDead
<1>9. ASSUME NEW b \in Batch
      PROVE  /\ IsFiniteSet(AllTokens(b)') /\ Cardinality(AllTokens(b)') \in Nat
             /\ Cardinality(AllTokens(b)') <= Cardinality(AllTokens(b)) + 1
             /\ b \notin UNION more =>
                  Cardinality(AllTokens(b)') <= Cardinality(AllTokens(b)) + ScanAhead
             /\ b \notin UNION (sealed \cup more) => AllTokens(b)' \subseteq AllTokens(b)
  <2>1. \A p \in Pid : Tokens(procs[p], p, b) \subseteq Tokens(proc[p], p, b)
    BY <1>3, NoTokens
  <2>2. \A s, t \in segments : b \in s /\ b \in t => s = t
    BY <1>1 DEF DInv, OneFile
  <2>3. /\ \E x : AllTokens(b)' \subseteq AllTokens(b) \cup {x}
        /\ b \notin UNION segments => AllTokens(b)' \subseteq AllTokens(b)
    BY <1>1, <1>2, <1>5, <2>1, <2>2, DispatchTokens
  <2>4. /\ IsFiniteSet(AllTokens(b)') /\ Cardinality(AllTokens(b)') \in Nat
        /\ Cardinality(AllTokens(b)') <= Cardinality(AllTokens(b)) + 1
        /\ b \notin UNION segments => Cardinality(AllTokens(b)') <= Cardinality(AllTokens(b))
    <3> DEFINE T == AllTokens(b)
               U == AllTokens(b)'
    <3>1. IsFiniteSet(T)
      BY DTypes
    <3>2. (\E x : U \subseteq T \cup {x}) /\ (b \notin UNION segments => U \subseteq T)
      BY <2>3
    <3> HIDE DEF T, U
    <3>3. IsFiniteSet(U) /\ Cardinality(U) \in Nat /\ Cardinality(U) <= Cardinality(T) + 1
      BY <3>1, <3>2, CountTokens
    <3>4. b \notin UNION segments => Cardinality(U) <= Cardinality(T)
      BY <3>1, <3>2, CountTokens
    <3> QED
      BY <3>3, <3>4 DEF T, U
  <2>5. b \notin UNION (sealed \cup more) => b \notin UNION segments
    BY <1>1
  <2>6. ASSUME b \notin UNION more
        PROVE  Cardinality(AllTokens(b)') <= Cardinality(AllTokens(b)) + ScanAhead
    <3>1. CASE AnyDead
      BY <1>6, <2>4, <3>1
    <3>2. CASE ~AnyDead
      BY <1>7, <2>4, <2>6, <3>2, DTypes
    <3> QED
      BY <3>1, <3>2
  <2> QED
    BY <2>3, <2>4, <2>5, <2>6
<1> QED
  BY <1>8, <1>9

LEMMA OnePays == \A n \in Nat : 1 <= 1 + n
OBVIOUS

\* The active file takes the batches of content, and rotate does not seal it.
LEMMA KeepCounts ==
  ASSUME DInv, owner = "open", UNCHANGED <<owner, pool, sealed, published>>,
         NEW content \in SUBSET Batch, active' = content, active \subseteq content,
         \A b \in content \ active : status[b] = "new",
         \A b \in Batch : status'[b] = "new" => status[b] = "new" /\ b \notin content,
         disturbed' \in {disturbed, disturbed + 1}, Dispatch(Found, Revived, pool)
  PROVE  OneFile' /\ MessagesBounded'
<1>1. {} \in SUBSET Segment /\ Found \cup {} = Found /\ sealed \cup {} = sealed /\ UNION {} = {}
  OBVIOUS
<1>2. /\ ScanAhead' = 0
      /\ \A b \in Batch :
           /\ IsFiniteSet(AllTokens(b)') /\ Cardinality(AllTokens(b)') \in Nat
           /\ Cardinality(AllTokens(b)') <= Cardinality(AllTokens(b)) + ScanAhead
           /\ b \notin UNION sealed => AllTokens(b)' \subseteq AllTokens(b)
  <2> DEFINE more == {}
  <2>1. /\ more \in SUBSET Segment /\ Dispatch(Found \cup more, Revived, pool)
        /\ \A s, t \in more : s = t
        /\ \A s \in sealed, t \in more : s \cap t = {}
    BY <1>1
  <2> HIDE DEF more
  <2>2. /\ ScanAhead' = 0
        /\ \A b \in Batch :
             /\ IsFiniteSet(AllTokens(b)') /\ Cardinality(AllTokens(b)') \in Nat
             /\ b \notin UNION more =>
                  Cardinality(AllTokens(b)') <= Cardinality(AllTokens(b)) + ScanAhead
             /\ b \notin UNION (sealed \cup more) => AllTokens(b)' \subseteq AllTokens(b)
    BY <2>1, ScanCounts
  <2> QED
    BY <1>1, <2>2 DEF more
<1>3. sealed \subseteq SUBSET Batch
  BY DEF DInv, IInv, TypeOK, Segment
<1>4. \A b \in Batch : status[b] = "new" =>
        b \notin active \cup UNION sealed /\ published[b] = 0 /\ AllTokens(b) = {}
  BY DEF DInv, OneFile
<1>5. OneFile'
  BY <1>2, <1>3, <1>4 DEF DInv, OneFile
<1>6. ASSUME NEW b \in Batch PROVE IsFiniteSet(AllTokens(b)') /\ Messages(b)' <= 1 + disturbed'
  <2>1. CASE b \in content \ active
    <3>1. published'[b] = 0 /\ AllTokens(b)' = {}
      BY <1>2, <1>4, <2>1
    <3>2. Cardinality(AllTokens(b)') = 0
      BY <3>1, FS_EmptySet
    <3>3. Messages(b)' = 1
      BY <1>2, <2>1, <3>1, <3>2 DEF Messages
    <3>4. disturbed' \in Nat
      BY DTypes
    <3>5. IsFiniteSet(AllTokens(b)')
      BY <1>2
    <3>6. 1 <= 1 + disturbed'
      BY <3>4, OnePays, Zenon
    <3> QED
      BY <3>3, <3>5, <3>6, Zenon
  <2>2. CASE b \notin content \ active
    <3>1. (b \in active') = (b \in active) /\ published'[b] = published[b]
      BY <2>2
    <3>2. Messages(b)' = published[b] + Cardinality(AllTokens(b)') + (IF b \in active THEN 1 ELSE 0)
      BY <1>2, <3>1, DTypes DEF Messages
    <3>3. Messages(b)' <= Messages(b)
      BY <1>2, <3>2, DTypes DEF Messages
    <3>4. Messages(b) <= 1 + disturbed /\ disturbed' >= disturbed /\ Messages(b) \in Nat
          /\ Messages(b)' \in Nat /\ disturbed \in Nat /\ disturbed' \in Nat
      BY <1>2, <3>2, DTypes DEF Messages
    <3>5. Messages(b)' <= 1 + disturbed'
      BY <3>3, <3>4
    <3>6. IsFiniteSet(AllTokens(b)')
      BY <1>2
    <3> QED
      BY <3>5, <3>6
  <2> QED
    BY <2>1, <2>2
<1>7. disturbed' \in Nat
  BY DEF DInv, MessagesBounded
<1> QED
  BY <1>5, <1>6, <1>7 DEF MessagesBounded

\* rotate: the place of a batch in the active file becomes the cast of its segment.
LEMMA RotateCounts ==
  ASSUME DInv, owner = "open", UNCHANGED <<owner, pool, published>>,
         NEW content \in Segment, active \subseteq content, Rotate(content),
         \A b \in content \ active : status[b] = "new",
         \A b \in Batch : status'[b] = "new" => status[b] = "new" /\ b \notin content
  PROVE  OneFile' /\ MessagesBounded'
<1>1. \A b \in Batch : status[b] = "new" =>
        b \notin active \cup UNION sealed /\ published[b] = 0 /\ AllTokens(b) = {}
  BY DEF DInv, OneFile
<1>2. content \in SUBSET Batch /\ sealed \subseteq SUBSET Batch
  BY DEF DInv, IInv, TypeOK, Segment
<1>3. \A s \in sealed : s \cap content = {}
  BY <1>1, <1>2 DEF DInv, OneFile
<1>4. CASE RenameFails(content)
  <2>1. /\ active' = content /\ sealed' = sealed /\ disturbed' \in {disturbed, disturbed + 1}
        /\ Dispatch(Found, Revived, pool)
    BY <1>4 DEF RenameFails, Disturb
  <2> QED
    BY <1>2, <2>1, KeepCounts
<1>5. CASE Rotated(content)
  <2>1. /\ active' = {} /\ sealed' = sealed \cup {content} /\ disturbed' = disturbed
        /\ Dispatch(Found \cup {content}, Revived, pool)
    BY <1>5 DEF Rotated
  <2>2. /\ ScanAhead' = 0
        /\ \A b \in Batch :
             /\ IsFiniteSet(AllTokens(b)') /\ Cardinality(AllTokens(b)') \in Nat
             /\ Cardinality(AllTokens(b)') <= Cardinality(AllTokens(b)) + 1
             /\ b \notin content =>
                  Cardinality(AllTokens(b)') <= Cardinality(AllTokens(b)) + ScanAhead
             /\ b \notin content /\ b \notin UNION sealed => AllTokens(b)' \subseteq AllTokens(b)
    <3> DEFINE more == {content}
    <3>1. /\ more \in SUBSET Segment /\ Dispatch(Found \cup more, Revived, pool)
          /\ \A s, t \in more : s = t
          /\ \A s \in sealed, t \in more : s \cap t = {}
      BY <1>3, <2>1
    <3> HIDE DEF more
    <3>2. /\ ScanAhead' = 0
          /\ \A b \in Batch :
               /\ IsFiniteSet(AllTokens(b)') /\ Cardinality(AllTokens(b)') \in Nat
               /\ Cardinality(AllTokens(b)') <= Cardinality(AllTokens(b)) + 1
               /\ b \notin UNION more =>
                    Cardinality(AllTokens(b)') <= Cardinality(AllTokens(b)) + ScanAhead
               /\ b \notin UNION (sealed \cup more) => AllTokens(b)' \subseteq AllTokens(b)
      BY <3>1, ScanCounts
    <3>3. UNION more = content /\ UNION (sealed \cup more) = content \cup UNION sealed
      BY DEF more
    <3> QED
      BY <3>2, <3>3
  <2>3. OneFile'
    <3>1. \A s \in sealed' : s \cap active' = {}
      BY <2>1
    <3>2. \A s, t \in sealed' : s \cap t # {} => s = t
      BY <1>3, <2>1 DEF DInv, OneFile
    <3>3. \A b \in Batch : status'[b] = "new" =>
            b \notin active' \cup UNION sealed' /\ published'[b] = 0 /\ AllTokens(b)' = {}
      BY <1>1, <2>1, <2>2
    <3> QED
      BY <3>1, <3>2, <3>3 DEF OneFile
  <2>4. ASSUME NEW b \in Batch PROVE IsFiniteSet(AllTokens(b)') /\ Messages(b)' <= 1 + disturbed'
    <3>1. CASE b \in content \ active
      <4>1. published'[b] = 0 /\ Cardinality(AllTokens(b)) = 0
        BY <1>1, <3>1, FS_EmptySet
      <4> QED
        BY <2>1, <2>2, <4>1, DTypes DEF Messages
    <3>2. CASE b \in active
      BY <2>1, <2>2, <3>2, DTypes DEF Messages
    <3>3. CASE b \notin content
      BY <2>1, <2>2, <3>3, DTypes DEF Messages
    <3> QED
      BY <3>1, <3>2, <3>3
  <2>5. disturbed' \in Nat
    BY <2>1 DEF DInv, MessagesBounded
  <2> QED
    BY <2>3, <2>4, <2>5 DEF MessagesBounded
<1> QED
  BY <1>4, <1>5 DEF Rotate

\* close/1 counts like a rotate that casts to one worker, or to none.
LEMMA CloseCounts ==
  ASSUME DInv, Close
  PROVE  OneFile' /\ MessagesBounded'
<1>1. UNCHANGED <<status, pool, published>> /\ disturbed' = disturbed + 1
  BY DEF Close, Disturb, uploads
<1>2. ScanAhead' \in {0, 1}
  BY DEF ScanAhead
<1>3. CASE UNCHANGED <<active, sealed, proc>>
  <2>1. \A b \in Batch : AllTokens(b)' \subseteq AllTokens(b)
    BY <1>3 DEF AllTokens, Tokens, Casts, Jobs
  <2> QED
    BY <1>1, <1>2, <1>3, <2>1, ShrinkCounts
<1>4. CASE /\ pending # {}
           /\ sealed' = sealed \cup {active}
           /\ active' = {}
           /\ \E w \in Worker :
                proc' = IF Alive(Pooled(w))
                        THEN [proc EXCEPT ![Pooled(w)].mailbox = @ (+) SetToBag({active})]
                        ELSE proc
  <2>1. active \in Segment /\ active \in SUBSET Batch
    BY <1>4 DEF DInv, IInv, TypeOK, Segment
  <2>2. ASSUME NEW b \in Batch
        PROVE  /\ b \notin active => AllTokens(b)' \subseteq AllTokens(b)
               /\ \E x : AllTokens(b)' \subseteq AllTokens(b) \cup {x}
    <3>1. PICK w \in Worker :
            proc' = IF Alive(Pooled(w))
                    THEN [proc EXCEPT ![Pooled(w)].mailbox = @ (+) SetToBag({active})]
                    ELSE proc
      BY <1>4
    <3>2. CASE ~Alive(Pooled(w))
      BY <3>1, <3>2 DEF AllTokens, Tokens, Casts, Jobs
    <3>3. CASE Alive(Pooled(w))
      <4> DEFINE p == Pooled(w)
                 q == proc[p]
                 r == [proc[p] EXCEPT !.mailbox = @ (+) SetToBag({active})]
                 box == proc[p].mailbox (+) SetToBag({active})
      <4>1. p \in Pid /\ Processes /\ WellFormed(q) /\ IsABag(q.mailbox)
        BY PooledPid DEF DInv, IInv, Processes, Mailboxes
      <4>2. Become(p, r)
        BY <3>1, <3>3 DEF Become
      <4>3. r.mailbox = box /\ r.stage = q.stage /\ r.job = q.job
        <5> HIDE DEF box
        <5>1. r = [q EXCEPT !.mailbox = box]
          BY DEF box
        <5>2. q = [stage |-> q.stage, mailbox |-> q.mailbox, job |-> q.job, attempt |-> q.attempt]
          BY <4>1 DEF WellFormed
        <5> HIDE DEF q, r
        <5> QED
          BY <5>1, <5>2
      <4>4. /\ IsABag(box)
            /\ \A t : Copies(t, box) = Copies(t, q.mailbox) + (IF t \in {active} THEN 1 ELSE 0)
        BY <4>1, BagCast
      <4>5. \A t : Copies(t, q.mailbox) \in Nat
        BY <4>1, BagCopies
      <4> DEFINE z == <<p, active, Copies(active, q.mailbox) + 1>>
      <4>6. ASSUME NEW x \in Tokens(r, p, b), x \notin Tokens(q, p, b)
            PROVE  x = z /\ b \in active
        <5> HIDE DEF p, q, r, box
        <5>1. ~(r.stage \in {"put", "publish"} /\ b \in r.job /\ x = <<p, {}, 0>>)
          BY <4>3, <4>6, TokensMember
        <5>2. PICK s \in Segment, k \in Nat :
                b \in s /\ k \in 1..Copies(s, box) /\ x = <<p, s, k>>
          <6>1. PICK s \in Segment : b \in s /\ \E k \in 1..Copies(s, r.mailbox) : x = <<p, s, k>>
            BY <4>6, <5>1, TokensMember
          <6> QED
            BY <4>3, <6>1
        <5>3. k \notin 1..Copies(s, q.mailbox)
          BY <4>6, <5>2, TokensMember
        <5>4. Copies(s, box) = Copies(s, q.mailbox) + (IF s \in {active} THEN 1 ELSE 0)
          BY <4>4
        <5>5. s = active /\ k = Copies(s, q.mailbox) + 1
          BY <4>5, <5>2, <5>3, <5>4
        <5> QED
          BY <5>2, <5>5
      <4> HIDE DEF p, q, r, box, z
      <4>7. /\ proc'[p] = r /\ \A o \in Pid : o # p => proc'[o] = proc[o]
        BY <4>1, <4>2, BecomeShape
      <4>8. AllTokens(b)' = UNION {Tokens(proc'[o], o, b) : o \in Pid}
        BY DEF AllTokens, Tokens, Casts, Jobs
      <4>9. ASSUME NEW x \in AllTokens(b)', x \notin AllTokens(b) PROVE x = z /\ b \in active
        <5>1. PICK o \in Pid : x \in Tokens(proc'[o], o, b)
          BY <4>8, <4>9
        <5>2. x \notin Tokens(proc[o], o, b)
          BY <4>9 DEF AllTokens
        <5>3. o = p
          BY <4>7, <5>1, <5>2
        <5> QED
          BY <4>6, <4>7, <5>1, <5>2, <5>3 DEF q
      <4> QED
        BY <4>9
    <3> QED
      BY <3>2, <3>3
  <2>3. OneFile'
    <3>1. \A s, t \in sealed' : s \cap t # {} => s = t
      BY <1>4, <2>1 DEF DInv, OneFile
    <3>2. \A b \in Batch : status'[b] = "new" =>
            b \notin active' \cup UNION sealed' /\ published'[b] = 0 /\ AllTokens(b)' = {}
      BY <1>1, <1>4, <2>2 DEF DInv, OneFile
    <3> QED
      BY <1>4, <3>1, <3>2 DEF OneFile
  <2>4. ASSUME NEW b \in Batch PROVE IsFiniteSet(AllTokens(b)') /\ Messages(b)' <= 1 + disturbed'
    <3>1. /\ IsFiniteSet(AllTokens(b)') /\ Cardinality(AllTokens(b)') \in Nat
          /\ Cardinality(AllTokens(b)') <= Cardinality(AllTokens(b)) + 1
          /\ b \notin active => Cardinality(AllTokens(b)') <= Cardinality(AllTokens(b))
      BY <2>2, DTypes, CountTokens
    <3>2. owner = "open" /\ owner' = "closing" /\ ScanAhead' = 1
      BY DEF Close, ScanAhead
    <3>3. b \notin active' /\ published'[b] = published[b]
      BY <1>1, <1>4
    <3>4. CASE b \in active
      BY <1>1, <3>1, <3>2, <3>3, <3>4, DTypes DEF Messages
    <3>5. CASE b \notin active
      BY <1>1, <3>1, <3>2, <3>3, <3>5, DTypes DEF Messages
    <3> QED
      BY <3>4, <3>5
  <2>5. disturbed' \in Nat
    BY <1>1 DEF DInv, MessagesBounded
  <2> QED
    BY <2>3, <2>4, <2>5 DEF MessagesBounded
<1> QED
  BY <1>3, <1>4 DEF Close

\* A worker that is stopped takes no token with it but its own.
LEMMA StopWorkerCounts ==
  ASSUME DInv, StopWorker
  PROVE  OneFile' /\ MessagesBounded'
<1>1. /\ UNCHANGED <<status, active, sealed, published, disturbed>>
      /\ owner = "closing" /\ owner' # "open"
  BY DEF StopWorker, files, uploads
<1>2. ScanAhead = 1 /\ ScanAhead' = 1
  BY <1>1 DEF ScanAhead
<1>3. UNCHANGED proc \/ Become(Pooled(stopping), Dead)
  BY DEF StopWorker, Become
<1>4. Pooled(stopping) \in Pid /\ Processes
  BY PooledPid DEF DInv, IInv, TypeOK
<1>5. \A b \in Batch : AllTokens(b)' \subseteq AllTokens(b)
  <2>1. CASE UNCHANGED proc
    BY <2>1 DEF AllTokens, Tokens, Casts, Jobs
  <2>2. CASE Become(Pooled(stopping), Dead)
    BY <1>4, <2>2, NoTokens, BecomeTokens
  <2> QED
    BY <1>3, <2>1, <2>2
<1> QED
  BY <1>1, <1>2, <1>5, ShrinkCounts

\* A new owner's open is the scan that was ahead.
LEMMA OpenCounts ==
  ASSUME DInv, Open
  PROVE  OneFile' /\ MessagesBounded'
<1>1. /\ UNCHANGED <<status, active, sealed, published, disturbed>>
      /\ owner \in {"down", "closed"} /\ owner' = "open"
  BY DEF Open, uploads
<1>2. PICK ws \in [Worker -> Slot] : pool' = ws /\ Dispatch(sealed, Opened(ws), ws)
  BY DEF Open
<1> DEFINE procs == Opened(ws)
<1>3. \A p \in Pid : WellFormed(procs[p]) /\ IsABag(procs[p].mailbox)
  BY OpenedKeeps DEF DInv, IInv
<1>4. \A p \in Pid : procs[p] \in {Started, Dead, proc[p]}
  BY OpenedKeeps DEF DInv, IInv
<1>5. \A p \in Pid : p[2] = ws[p[1]] => procs[p].stage = "idle"
  BY OpenedKeeps, FreshProcess DEF DInv, IInv
<1>6. sealed \in SUBSET Segment /\ Dispatch(sealed, procs, ws)
  BY <1>2 DEF DInv, IInv, TypeOK
<1> HIDE DEF procs
<1>7. ScanAhead = 1 /\ ScanAhead' = 0
  <2>1. \A p \in Pid : WellFormed(procs[p])
    BY <1>3
  <2>2. PICK to \in [sealed -> Worker] : Delivered(to, sealed, procs, ws)
    BY <1>6, <2>1, DispatchShape
  <2>3. ASSUME NEW w \in Worker PROVE Alive(Pooled(w))'
    <3>1. Pooled(w)' = <<w, ws[w]>>
      BY <1>2 DEF Pooled
    <3> DEFINE p == <<w, ws[w]>>
    <3>2. p \in Pid /\ p[2] = ws[p[1]]
      BY DEF Pid
    <3> HIDE DEF p
    <3>3. proc'[p].stage = "idle"
      BY <1>5, <2>2, <3>2 DEF Delivered
    <3> QED
      BY <3>1, <3>3 DEF Alive, p
  <2> QED
    BY <1>1, <2>3 DEF ScanAhead, AnyDead
<1>8. ASSUME NEW b \in Batch
      PROVE  /\ \E x : AllTokens(b)' \subseteq AllTokens(b) \cup {x}
             /\ b \notin UNION sealed => AllTokens(b)' \subseteq AllTokens(b)
  <2>1. \A p \in Pid : Tokens(procs[p], p, b) \subseteq Tokens(proc[p], p, b)
    BY <1>4, NoTokens
  <2>2. \A s, t \in sealed : b \in s /\ b \in t => s = t
    BY DEF DInv, OneFile
  <2> QED
    BY <1>3, <1>6, <2>1, <2>2, DispatchTokens
<1>9. OneFile'
  BY <1>1, <1>8 DEF DInv, OneFile
<1>10. ASSUME NEW b \in Batch PROVE IsFiniteSet(AllTokens(b)') /\ Messages(b)' <= 1 + disturbed'
  <2> DEFINE T == AllTokens(b)
             U == AllTokens(b)'
  <2>1. IsFiniteSet(T) /\ \E x : U \subseteq T \cup {x}
    BY <1>8, DTypes
  <2> HIDE DEF T, U
  <2>2. IsFiniteSet(U) /\ Cardinality(U) \in Nat /\ Cardinality(U) <= Cardinality(T) + 1
    BY <2>1, CountTokens
  <2>3. Messages(b)' <= Messages(b)
    BY <1>1, <1>7, <2>2, DTypes DEF Messages, T, U
  <2>4. Messages(b) \in Nat /\ Messages(b)' \in Nat /\ disturbed \in Nat
        /\ disturbed' = disturbed /\ Messages(b) <= 1 + disturbed
    BY <1>1, <1>7, <2>2, DTypes DEF Messages, U
  <2>5. Messages(b)' <= 1 + disturbed'
    BY <2>3, <2>4
  <2> QED
    BY <2>2, <2>5 DEF U
<1>11. disturbed' \in Nat
  BY <1>1 DEF DInv, MessagesBounded
<1> QED
  BY <1>9, <1>10, <1>11 DEF MessagesBounded

LEMMA OwnerDiesCounts ==
  ASSUME DInv, OwnerDies \/ NodeDies
  PROVE  OneFile' /\ MessagesBounded'
<1>1. UNCHANGED <<status, active, sealed, published>> /\ disturbed' = disturbed + 1
  BY DEF OwnerDies, NodeDies, Disturb, files, uploads
<1>2. ScanAhead' \in {0, 1}
  BY DEF ScanAhead
<1>3. \A p \in Pid : proc'[p] \in {Dead, proc[p]}
  BY DEF OwnerDies, NodeDies
<1>4. ASSUME NEW b \in Batch PROVE AllTokens(b)' \subseteq AllTokens(b)
  <2>1. AllTokens(b)' = UNION {Tokens(proc'[p], p, b) : p \in Pid}
    BY DEF AllTokens, Tokens, Casts, Jobs
  <2>2. \A p \in Pid : Tokens(proc'[p], p, b) \subseteq Tokens(proc[p], p, b)
    BY <1>3, NoTokens
  <2> QED
    BY <2>1, <2>2 DEF AllTokens
<1> QED
  BY <1>1, <1>2, <1>4, ShrinkCounts

LEMMA CommitCounts ==
  ASSUME DInv, NEW b \in Batch, Commit(b) \/ CommitFails(b)
  PROVE  OneFile' /\ MessagesBounded'
<1> DEFINE content == active \cup {b}
<1>1. /\ owner = "open" /\ status[b] = "new" /\ UNCHANGED <<owner, pool, published>>
      /\ \A c \in Batch : status'[c] = "new" => status[c] = "new" /\ c # b
  BY DEF Commit, CommitFails, Submitted, uploads, DInv, IInv, TypeOK
<1>2. /\ content \in Segment /\ content \in SUBSET Batch /\ active \in SUBSET Batch
      /\ \A c \in Batch : status[c] = "new" => c \notin active
  BY DEF DInv, IInv, OneFile, TypeOK, Segment
<1>3. /\ \A c \in content \ active : status[c] = "new"
      /\ \A c \in Batch : status'[c] = "new" => status[c] = "new" /\ c \notin content
      /\ active \subseteq content
  BY <1>1, <1>2
<1>4. CASE Commit(b) /\ Rotate(content)
  <2> HIDE DEF content
  <2> QED
    BY <1>1, <1>2, <1>3, <1>4, RotateCounts
<1>5. CASE Commit(b) /\ Keep(content, pending \cup {b})
  <2> HIDE DEF content
  <2>1. /\ active' = content /\ UNCHANGED <<sealed, disturbed>>
        /\ Dispatch(Found, Revived, pool)
    BY <1>5 DEF Keep
  <2> QED
    BY <1>1, <1>2, <1>3, <2>1, KeepCounts
<1>6. CASE CommitFails(b)
  <2>1. /\ active' \in {active, content} /\ UNCHANGED sealed /\ disturbed' = disturbed + 1
        /\ Dispatch(Found, Revived, pool)
    BY <1>6 DEF CommitFails, Disturb
  <2>2. CASE active' = content
    <3> HIDE DEF content
    <3> QED
      BY <1>1, <1>2, <1>3, <2>1, <2>2, KeepCounts
  <2>3. CASE active' = active
    BY <1>1, <1>2, <2>1, <2>3, KeepCounts
  <2> QED
    BY <2>1, <2>2, <2>3
<1> QED
  BY <1>4, <1>5, <1>6 DEF Commit

LEMMA FlushTickCounts ==
  ASSUME DInv, NEW intervalElapsed \in BOOLEAN, FlushTick(intervalElapsed)
  PROVE  OneFile' /\ MessagesBounded'
<1>1. owner = "open" /\ UNCHANGED <<owner, pool, published, status>>
  BY DEF FlushTick, uploads
<1>2. /\ active \in SUBSET Batch
      /\ \A c \in Batch : status'[c] = "new" => status[c] = "new" /\ c \notin active
  BY <1>1 DEF DInv, IInv, OneFile, TypeOK
<1>3. CASE pending # {} /\ Rotate(active)
  <2>1. active \in Segment
    BY <1>3 DEF DInv, IInv, TypeOK, Segment
  <2> QED
    BY <1>1, <1>2, <1>3, <2>1, RotateCounts
<1>4. CASE Keep(active, pending)
  <2>1. /\ active' = active /\ UNCHANGED <<sealed, disturbed>>
        /\ Dispatch(Found, Revived, pool)
    BY <1>4 DEF Keep
  <2> QED
    BY <1>1, <1>2, <2>1, KeepCounts
<1> QED
  BY <1>3, <1>4 DEF FlushTick

LEMMA RetryPutCounts ==
  ASSUME DInv, NEW p \in Pid, RetryPut(p)
  PROVE  OneFile' /\ MessagesBounded'
<1>1. Alive(p) /\ proc[p].stage = "put" /\ Put(p, proc[p]) /\ Processes /\ Mailboxes
  BY DEF RetryPut, Alive, DInv, IInv
<1>2. \A b \in Batch :
        /\ TokensMove(Tokens(proc[p], p, b), Tokens(At(proc[p], "put", proc[p].job, 0), p, b))
        /\ Tokens(Resting(proc[p]), p, b) \subseteq Tokens(proc[p], p, b)
  BY <1>1, OwnTokens
<1> QED
  BY <1>1, <1>2, PutCounts

LEMMA NextDInv == DInv /\ [Next]_vars => DInv'
<1> SUFFICES ASSUME DInv, [Next]_vars PROVE OneFile' /\ MessagesBounded'
  BY NextIInv, NextMailboxes DEF DInv
<1>1. CASE UNCHANGED vars
  <2>1. /\ UNCHANGED <<status, active, sealed, published, proc, disturbed>>
        /\ ScanAhead' = ScanAhead /\ ScanAhead' \in {0, 1}
    BY <1>1 DEF vars, files, uploads, ScanAhead, AnyDead, Alive, Pooled
  <2>2. \A b \in Batch : AllTokens(b)' \subseteq AllTokens(b)
    BY <2>1 DEF AllTokens, Tokens, Casts, Jobs
  <2> QED
    BY <2>1, <2>2, ShrinkCounts
<1>2. CASE Next
  BY <1>2, CommitCounts, FlushTickCounts, CloseCounts, StopWorkerCounts, OpenCounts,
     OwnerDiesCounts, TakeSegmentCounts, RetryPutCounts, PublishCounts, RemoveSegmentCounts,
     WorkerDiesCounts DEF Next, WorkerStep
<1> QED
  BY <1>1, <1>2

LEMMA InitDInv == Init => DInv
<1> SUFFICES ASSUME Init PROVE DInv
  OBVIOUS
<1>1. IInv /\ Mailboxes
  BY InitHInv DEF HInv
<1>2. \A p \in Pid : proc[p] \in {Started, Dead}
  BY DEF Init
<1>3. \A b \in Batch : AllTokens(b) = {}
  BY <1>2, NoTokens DEF AllTokens
<1>4. OneFile
  BY <1>3 DEF Init, OneFile
<1>5. ~AnyDead
  <2>1. \A w \in Worker : <<w, 1>> \in Pid /\ pool[w] = 1
    BY CountAssumption DEF Init, Pid, Slot
  <2>2. \A w \in Worker : proc[<<w, 1>>] = Started
    BY <2>1 DEF Init
  <2> QED
    BY <2>1, <2>2, FreshProcess DEF AnyDead, Alive, Pooled
<1>6. \A b \in Batch : IsFiniteSet(AllTokens(b)) /\ Messages(b) <= 1 + disturbed
  BY <1>3, <1>5, FS_EmptySet DEF Init, Messages, ScanAhead
<1> QED
  BY <1>1, <1>4, <1>6 DEF DInv, MessagesBounded, Init

\* A batch is in one file at a time, and the messages out for it, with those still
\* to come from casts, jobs, the active file and a scan, are at most one more than
\* the errors, deaths and closes so far.
THEOREM RotatingWalMessagesBounded == Spec => [](OneFile /\ MessagesBounded)
<1>1. DInv => OneFile /\ MessagesBounded
  BY DEF DInv
<1> QED
  BY <1>1, InitDInv, NextDInv, PTL DEF Spec

\* A batch has one message, and each error, death or close costs at most one more,
\* for any number of workers, attempts, scans and owners.
THEOREM RotatingWalDuplicatesBounded == Spec => []DuplicatesBounded
<1>1. DInv => DuplicatesBounded
  <2> SUFFICES ASSUME DInv, NEW b \in Batch PROVE published[b] <= 1 + disturbed
    BY DEF DuplicatesBounded
  <2> QED
    BY DTypes DEF Messages
<1> QED
  BY <1>1, InitDInv, NextDInv, PTL DEF Spec

=============================================================================
