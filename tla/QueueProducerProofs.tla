------------------------ MODULE QueueProducerProofs ------------------------
(***************************************************************************)
(* Proofs about QueueProducer, for any broker, any files, any byte budget  *)
(* and any number of task slots: the run's safety properties.              *)
(*                                                                         *)
(* None of them is inductive by itself.  What carries them is where a      *)
(* received handle may be: in one prefetch task, in one message in the     *)
(* mailbox or in the prefetch slot, never in two of them, because the slot *)
(* says :running exactly while one answer is still to come.  The budget    *)
(* rests on the counter being the bytes of the segments Broadway has, which*)
(* needs that no segment is emitted twice.                                 *)
(***************************************************************************)
EXTENDS QueueProducer, FiniteSetTheorems, WellFoundedInduction, TLAPS

\* A task of the present producer, whose answer the producer still waits for.
Expected(t) == task[t] # Idle /\ ~task[t].orphan

\* What a prefetch task knows of its handle at each stage.
TaskShape(t) ==
  /\ task[t].pc = "idle" => task[t] = Idle
  /\ task[t].pc = "receiving" => task[t].handle = NoHandle /\ task[t].result = Nil
  /\ task[t].pc = "holding" =>
       task[t].handle # NoHandle /\ fate[task[t].handle] = "received" /\ task[t].result = Nil
  /\ task[t].pc = "done" =>
       /\ task[t].result \in Result
       /\ task[t].result.handle \in {NoHandle, task[t].handle}
       /\ task[t].result.handle # NoHandle => fate[task[t].handle] = "received"
       /\ task[t].handle # NoHandle /\ fate[task[t].handle] = "received"
          /\ task[t].result.handle = NoHandle => task[t].handle \in casualties

\* No handle is in two places, and none that is somewhere is still queued.
PlacesApart ==
  /\ \A t \in Task : TaskShape(t) /\ (task[t].handle # NoHandle => fate[task[t].handle] # "queued")
  /\ \A t, u \in Task : task[t].handle = task[u].handle /\ task[t].handle # NoHandle => t = u
  /\ \A r \in inbox \cup {prefetch} : r.handle # NoHandle =>
       fate[r.handle] = "received" /\ \A t \in Task : task[t].handle # r.handle

\* One prefetch is under way at most, and the slot says :running exactly then.
OneUnderWay ==
  /\ \A t, u \in Task : Expected(t) /\ Expected(u) => t = u
  /\ \A r, q \in inbox : r = q
  /\ inbox = {} \/ \A t \in Task : ~Expected(t)
  /\ ~draining => (prefetch = Running <=> inbox # {} \/ \E t \in Task : Expected(t))
  /\ draining => prefetch = Nil /\ current = NoFile /\ demand = 0

\* The counter is the bytes Broadway has, and what it has of the loaded file is
\* behind the next segment.
CounterExact ==
  /\ IsFiniteSet(flying) /\ inFlight = Size(flying)
  /\ \A s \in flying : /\ fate[s[1]] \in {"loaded", "nacked"}
                       /\ s[1] = current.handle => s[2] <= current.emitted

\* The loaded file.
FileLoaded ==
  IF current.handle = NoHandle THEN current = NoFile
  ELSE fate[current.handle] = "loaded" /\ current.emitted <= Len(segmentsOf[current.handle])

IInv ==
  /\ TypeOK /\ PlacesApart /\ OneUnderWay /\ FileLoaded /\ CounterExact
  /\ BudgetRespected /\ PollLoopNeverStops /\ NoHandleStranded

-----------------------------------------------------------------------------
(* Numbers and sizes. *)

LEMMA LessPairs == \A x, y \in Nat : <<x, y>> \in OpToRel(<, Nat) <=> x < y
BY DEF OpToRel

\* Every set of naturals that is not empty has a least element.
LEMMA Least ==
  ASSUME NEW S \in SUBSET Nat, S # {}
  PROVE  \E n \in S : \A m \in S : n <= m
<1>1. PICK n \in S : \A m \in S : ~(<<m, n>> \in OpToRel(<, Nat))
  BY NatLessThanWellFounded, WFMin
<1>2. \A m \in S : ~(m < n)
  BY <1>1, LessPairs
<1> QED
  BY <1>2

\* Max is what it says on a bounded set of naturals that is not empty.
LEMMA MaxBounded ==
  ASSUME NEW n \in Nat, NEW S \in SUBSET (0..n), S # {}
  PROVE  Max(S) \in S /\ \A y \in S : Max(S) >= y
<1> DEFINE below == {m \in Nat : n - m \in S}
<1>1. \A x \in S : n - x \in below
  OBVIOUS
<1>2. below \in SUBSET Nat /\ below # {}
  BY <1>1
<1>3. PICK m \in below : \A k \in below : m <= k
  BY <1>2, Least
<1>4. n - m \in S /\ \A y \in S : n - m >= y
  BY <1>1, <1>3
<1> QED
  BY <1>4 DEF Max

\* Max of two integers.
LEMMA MaxOfTwo ==
  ASSUME NEW a \in Int, NEW b \in Int
  PROVE  Max({a, b}) = IF a >= b THEN a ELSE b
BY DEF Max

LEMMA UpTo ==
  ASSUME NEW n \in Nat
  PROVE  IsFiniteSet(1..n) /\ Cardinality(1..n) = n
<1>1. 1 \in Int /\ n \in Int
  OBVIOUS
<1>2. IsFiniteSet(1..n) /\ Cardinality(1..n) = IF 1 > n THEN 0 ELSE n - 1 + 1
  BY <1>1, FS_Interval
<1> QED
  BY <1>2

\* Segments have at least one byte.
LEMMA SegmentSize ==
  ASSUME NEW s \in Segments
  PROVE  /\ s[1] \in Handle /\ s[2] \in 1..Len(segmentsOf[s[1]])
         /\ s = <<s[1], s[2]>>
         /\ segmentsOf[s[1]][s[2]] \in Nat \ {0}
BY SegmentsAssumption DEF Segments

\* Finitely many segments have finitely many bytes.
LEMMA SizeType ==
  ASSUME NEW S \in SUBSET Segments, IsFiniteSet(S)
  PROVE  IsFiniteSet(BytesOf(S)) /\ Size(S) \in Nat
<1> DEFINE bytes == [s \in S |-> {s} \X (1 .. segmentsOf[s[1]][s[2]])]
           parts == {bytes[s] : s \in S}
<1>1. ASSUME NEW s \in S PROVE IsFiniteSet(bytes[s])
  <2>1. segmentsOf[s[1]][s[2]] \in Nat
    BY SegmentSize
  <2>2. IsFiniteSet(1 .. segmentsOf[s[1]][s[2]]) /\ IsFiniteSet({s})
    BY <2>1, UpTo, FS_Singleton
  <2>3. IsFiniteSet({s} \X (1 .. segmentsOf[s[1]][s[2]]))
    BY <2>2, FS_Product
  <2> QED
    BY <2>3
<1>2. bytes \in Surjection(S, parts)
  BY DEF Surjection
<1>3. IsFiniteSet(parts)
  BY <1>2, FS_Surjection
<1>4. IsFiniteSet(UNION parts)
  BY <1>1, <1>3, FS_UNION
<1>5. BytesOf(S) = UNION parts
  BY DEF BytesOf
<1> QED
  BY <1>4, <1>5, FS_CardinalityType DEF Size

\* One segment weighs its bytes.
LEMMA SizeOne ==
  ASSUME NEW s \in Segments
  PROVE  Size({s}) = segmentsOf[s[1]][s[2]]
<1> DEFINE n == segmentsOf[s[1]][s[2]]
<1>1. n \in Nat
  BY SegmentSize
<1>2. BytesOf({s}) = {s} \X (1..n)
  BY DEF BytesOf
<1>3. IsFiniteSet(1..n) /\ Cardinality(1..n) = n
  BY <1>1, UpTo
<1>4. IsFiniteSet({s}) /\ Cardinality({s}) = 1
  BY FS_Singleton
<1>5. Cardinality({s} \X (1..n)) = Cardinality({s}) * Cardinality(1..n)
  BY <1>3, <1>4, FS_Product
<1> HIDE DEF n
<1>6. Cardinality({s} \X (1..n)) = n
  BY <1>1, <1>3, <1>4, <1>5
<1> QED
  BY <1>2, <1>6 DEF Size, n

\* The sizes of disjoint sets of segments add up.
LEMMA SizeDisjoint ==
  ASSUME NEW S \in SUBSET Segments, NEW T \in SUBSET Segments,
         IsFiniteSet(S), IsFiniteSet(T), S \cap T = {}
  PROVE  Size(S \cup T) = Size(S) + Size(T)
<1>1. BytesOf(S \cup T) = BytesOf(S) \cup BytesOf(T)
  BY DEF BytesOf
<1>2. BytesOf(S) \cap BytesOf(T) = {}
  BY DEF BytesOf
<1>3. IsFiniteSet(BytesOf(S)) /\ IsFiniteSet(BytesOf(T)) /\ Size(S) \in Nat /\ Size(T) \in Nat
  BY SizeType
<1> DEFINE A == BytesOf(S)
           B == BytesOf(T)
<1>4. Cardinality(A \cup B) = Cardinality(A) + Cardinality(B) - Cardinality(A \cap B)
  <2>1. IsFiniteSet(A) /\ IsFiniteSet(B)
    BY <1>3
  <2> HIDE DEF A, B
  <2> QED
    BY <2>1, FS_Union
<1>5. Size(S \cup T) = Size(S) + Size(T) - Cardinality({})
  BY <1>1, <1>2, <1>4 DEF Size
<1> QED
  BY <1>3, <1>5, FS_EmptySet

\* Only no segments at all have no bytes.
LEMMA SizePositive ==
  ASSUME NEW S \in SUBSET Segments, IsFiniteSet(S)
  PROVE  Size(S) = 0 <=> S = {}
<1>1. Size({}) = 0
  BY FS_EmptySet DEF Size, BytesOf
<1>2. ASSUME NEW s \in S PROVE Size(S) # 0
  <2>1. <<s, 1>> \in BytesOf(S)
    BY SegmentSize DEF BytesOf
  <2> QED
    BY <2>1, SizeType, FS_EmptySet DEF Size
<1> QED
  BY <1>1, <1>2

\* A segment that is acked takes its bytes with it.
LEMMA SizeRemove ==
  ASSUME NEW S \in SUBSET Segments, IsFiniteSet(S), NEW s \in S
  PROVE  /\ IsFiniteSet(S \ {s})
         /\ Size(S) = Size(S \ {s}) + segmentsOf[s[1]][s[2]]
<1>1. IsFiniteSet(S \ {s}) /\ IsFiniteSet({s})
  BY FS_RemoveElement, FS_Singleton
<1>2. Size((S \ {s}) \cup {s}) = Size(S \ {s}) + Size({s})
  BY <1>1, SizeDisjoint
<1>3. (S \ {s}) \cup {s} = S
  OBVIOUS
<1> QED
  BY <1>1, <1>2, <1>3, SizeOne

\* What is ahead in a loaded file.
LEMMA AheadSegments ==
  ASSUME NEW c \in [handle : Handle, emitted : Nat], NEW k \in 0..Remaining(c)
  PROVE  /\ Ahead(c, k) \in SUBSET Segments /\ IsFiniteSet(Ahead(c, k))
         /\ Ahead(c, k) = {} <=> k = 0
         /\ k = 1 => Ahead(c, k) = {<<c.handle, c.emitted + 1>>}
<1>1. Remaining(c) = Len(segmentsOf[c.handle]) - c.emitted /\ Len(segmentsOf[c.handle]) \in Nat
  BY BoundsAssumption, SegmentsAssumption DEF Remaining
<1> DEFINE at == [i \in c.emitted + 1 .. c.emitted + k |-> <<c.handle, i>>]
<1>2. at \in Surjection(c.emitted + 1 .. c.emitted + k, Ahead(c, k))
  BY DEF Surjection, Ahead
<1>3. IsFiniteSet(Ahead(c, k))
  BY <1>2, FS_Interval, FS_Surjection
<1>4. Ahead(c, k) \in SUBSET Segments
  BY <1>1 DEF Ahead, Segments
<1>5. Ahead(c, k) = {} <=> k = 0
  <2>1. k > 0 => <<c.handle, c.emitted + 1>> \in Ahead(c, k)
    BY <1>1 DEF Ahead
  <2>2. k = 0 => Ahead(c, k) = {}
    BY DEF Ahead
  <2> QED
    BY <1>1, <2>1, <2>2
<1>6. k = 1 => Ahead(c, k) = {<<c.handle, c.emitted + 1>>}
  BY DEF Ahead
<1> QED
  BY <1>3, <1>4, <1>5, <1>6

\* take_count_within_budget/4 takes no more than is asked for and left, and what
\* it takes fits unless it is the one exempt segment.
LEMMA TakeCountBounds ==
  ASSUME NEW c \in [handle : Handle, emitted : Nat], Remaining(c) \in Nat,
         NEW n \in Nat, NEW available \in Nat, NEW none \in BOOLEAN
  PROVE  LET k == TakeCount(c, n, available, none)
         IN  /\ k \in 0..Remaining(c) /\ k <= n
             /\ k > 0 => (k = 1 /\ none) \/ Size(Ahead(c, k)) <= available
<1> DEFINE fits == {k \in 0..Remaining(c) :
         k <= n /\ \A j \in 1..k : (j = 1 /\ none) \/ Size(Ahead(c, j)) <= available}
<1>1. 0 \in fits
  OBVIOUS
<1>2. Max(fits) \in fits
  <2>1. fits \in SUBSET (0..Remaining(c)) /\ fits # {}
    BY <1>1
  <2> HIDE DEF fits
  <2> QED
    BY <2>1, MaxBounded
<1>3. TakeCount(c, n, available, none) = Max(fits)
  BY DEF TakeCount
<1> DEFINE m == Max(fits)
<1>4. m \in fits
  BY <1>2
<1> HIDE DEF m
<1>5. m \in 0..Remaining(c) /\ m <= n /\ \A j \in 1..m : (j = 1 /\ none) \/ Size(Ahead(c, j)) <= available
  BY <1>4
<1>6. m > 0 => m \in 1..m
  BY <1>5
<1> QED
  BY <1>3, <1>5, <1>6 DEF m

-----------------------------------------------------------------------------
(* Emitting. *)

\* emit_from_buffer/1 keeps the counter exact and the budget: the segments it
\* emits are new to Broadway, and they fit unless Broadway had none.
LEMMA EmitKeeps ==
  ASSUME NEW c \in [handle : Handle, emitted : Nat], c.emitted <= Len(segmentsOf[c.handle]),
         NEW d \in Nat, Emit(c, d),
         flying \in SUBSET Segments, IsFiniteSet(flying), inFlight = Size(flying),
         \A s \in flying : s[1] = c.handle => s[2] <= c.emitted,
         BudgetRespected
  PROVE  /\ current' \in [handle : Handle, emitted : Nat] /\ current'.handle = c.handle
         /\ c.emitted <= current'.emitted /\ current'.emitted <= Len(segmentsOf[c.handle])
         /\ demand' \in 0..d
         /\ flying' \in SUBSET Segments /\ IsFiniteSet(flying')
         /\ inFlight' = Size(flying') /\ inFlight' \in Nat
         /\ \A s \in flying' : s \in flying \/ s[1] = c.handle
         /\ \A s \in flying' : s[1] = c.handle => s[2] <= current'.emitted
         /\ BudgetRespected'
<1> DEFINE n == TakeCount(c, d, Available, inFlight = 0)
           new == Ahead(c, n)
<1>1. Remaining(c) = Len(segmentsOf[c.handle]) - c.emitted /\ Len(segmentsOf[c.handle]) \in Nat
  BY BoundsAssumption, SegmentsAssumption DEF Remaining
<1>2. inFlight \in Nat /\ (inFlight = 0 <=> flying = {})
  BY SizeType, SizePositive
<1>3. Available \in Nat /\ (Available > 0 => Available = MaxInFlight - inFlight)
  BY <1>2, MaxOfTwo, BoundsAssumption DEF Available
<1>4. /\ n \in 0..Remaining(c) /\ n <= d
      /\ n > 0 => (n = 1 /\ inFlight = 0) \/ Size(new) <= Available
  <2>1. Remaining(c) \in Nat /\ (inFlight = 0) \in BOOLEAN
    BY <1>1
  <2> QED
    BY <1>3, <2>1, TakeCountBounds
<1>5. /\ current' = [c EXCEPT !.emitted = @ + n]
      /\ demand' = d - n
      /\ inFlight' = inFlight + Size(new)
      /\ flying' = flying \cup new
  BY DEF Emit
<1> HIDE DEF n
<1>6. /\ new \in SUBSET Segments /\ IsFiniteSet(new)
      /\ (new = {} <=> n = 0)
      /\ n = 1 => new = {<<c.handle, c.emitted + 1>>}
  BY <1>4, AheadSegments
<1>7. \A s \in new : s[1] = c.handle /\ s[2] > c.emitted /\ s[2] <= c.emitted + n
  BY <1>4 DEF Ahead
<1> HIDE DEF new
<1>8. flying \cap new = {}
  BY <1>6, <1>7, SegmentSize
<1>9. Size(flying \cup new) = Size(flying) + Size(new) /\ Size(new) \in Nat
  BY <1>6, <1>8, SizeDisjoint, SizeType
<1>10. IsFiniteSet(flying')
  BY <1>5, <1>6, FS_Union
<1>11. BudgetRespected'
  <2>1. CASE n = 0
    BY <1>5, <1>6, <2>1 DEF BudgetRespected
  <2>2. CASE n = 1 /\ inFlight = 0
    <3>1. flying' = {<<c.handle, c.emitted + 1>>}
      BY <1>2, <1>5, <1>6, <2>2
    <3> QED
      BY <3>1, FS_Singleton DEF BudgetRespected
  <2>3. CASE n > 0 /\ Size(new) <= Available
    <3>1. Size(new) > 0
      BY <1>6, <1>9, <2>3, SizePositive
    <3>2. Size(flying') = inFlight + Size(new)
      BY <1>5, <1>9
    <3>3. Size(flying') <= MaxInFlight
      BY <1>2, <1>3, <1>9, <2>3, <3>1, <3>2, BoundsAssumption
    <3>4. Size(flying') \in Nat
      BY <1>2, <1>9, <3>2
    <3> QED
      BY <3>3, <3>4, BoundsAssumption DEF BudgetRespected
  <2> QED
    BY <1>4, <2>1, <2>2, <2>3
<1>12. /\ current' \in [handle : Handle, emitted : Nat] /\ current'.handle = c.handle
       /\ current'.emitted = c.emitted + n
  BY <1>4, <1>5
<1>13. demand' \in 0..d
  BY <1>4, <1>5
<1>14. c.emitted <= current'.emitted /\ current'.emitted <= Len(segmentsOf[c.handle])
  BY <1>1, <1>4, <1>12
<1>15. flying' \in SUBSET Segments /\ inFlight' = Size(flying') /\ inFlight' \in Nat
  BY <1>2, <1>5, <1>6, <1>9
<1>16. \A s \in flying' : s \in flying \/ s[1] = c.handle
  BY <1>5, <1>7
<1>17. ASSUME NEW s \in flying', s[1] = c.handle PROVE s[2] <= current'.emitted
  <2>1. CASE s \in flying
    BY <1>4, <1>12, <1>17, <2>1, SegmentSize
  <2>2. CASE s \in new
    BY <1>7, <1>12, <2>2
  <2> QED
    BY <1>5, <2>1, <2>2
<1> QED
  BY <1>10, <1>11, <1>12, <1>13, <1>14, <1>15, <1>16, <1>17

-----------------------------------------------------------------------------
(* Custody of the received handles. *)

\* A task is started in a free slot.
Starts(t) == task[t] = Idle /\ task'[t] = [Idle EXCEPT !.pc = "receiving"]

\* Handles nobody has settled yet are nacked once, and no other handle is touched.
LEMMA NackFresh ==
  ASSUME fate \in [Handle -> Fate], NEW H,
         \A h \in Handle : h \in H => fate[h] \in {"received", "loaded"}
  PROVE  /\ Nack(H) \in [Handle -> Fate]
         /\ \A h \in Handle : h \notin H => Nack(H)[h] = fate[h]
         /\ \A h \in Handle : h \in H => Nack(H)[h] = "nacked"
  BY DEF Nack, Settled, Fate

\* Settling or loading handles that leave the mailbox or the slot, or that no
\* task has, leaves every other handle where it was.
LEMMA SettleKeeps ==
  ASSUME TypeOK, PlacesApart, NoHandleStranded, NEW H,
         fate' \in [Handle -> Fate],
         \A h \in Handle : h \notin H => fate'[h] = fate[h],
         \A h \in Handle : h \in H => fate'[h] \in {"loaded", "nacked"},
         \A t \in Task : task'[t] = task[t] \/ Starts(t),
         \A t \in Task : task[t].handle \in H =>
           task[t].handle = NoHandle \/ fate[task[t].handle] # "received",
         \A r \in (inbox \cup {prefetch})' : r.handle # NoHandle =>
           r \in inbox \cup {prefetch} /\ r.handle \notin H,
         \A r \in inbox \cup {prefetch} : r.handle # NoHandle /\ r.handle \notin H =>
           r \in (inbox \cup {prefetch})',
         UNCHANGED casualties
  PROVE  PlacesApart' /\ NoHandleStranded'
<1>1. \A t \in Task : /\ task'[t].handle = task[t].handle
                      /\ task[t].handle \in Handle \cup {NoHandle}
                      /\ task'[t].pc \in {"holding", "done"} => task'[t] = task[t]
                      /\ task'[t].pc \notin {"holding", "done"} => task[t].pc = task'[t].pc \/ task[t].pc = "idle"
  BY DEF TypeOK, TaskState, Starts, Idle
<1>2. \A r \in inbox \cup {prefetch} : r.handle \in Handle \cup {NoHandle}
  BY DEF TypeOK, Result, Nil, Running
<1>3. ASSUME NEW t \in Task
      PROVE  TaskShape(t)' /\ (task'[t].handle # NoHandle => fate'[task'[t].handle] # "queued")
  <2>1. TaskShape(t) /\ (task[t].handle # NoHandle => fate[task[t].handle] # "queued")
    BY DEF PlacesApart
  <2>2. task[t].handle # NoHandle => fate'[task[t].handle] # "queued"
    BY <1>1, <2>1
  <2>3. CASE task'[t] = task[t]
    BY <1>1, <2>1, <2>2, <2>3 DEF TaskShape, Result
  <2>4. CASE Starts(t)
    BY <2>4 DEF TaskShape, Starts, Idle
  <2> QED
    BY <1>1, <2>2, <2>3, <2>4
<1>4. \A t, u \in Task : task'[t].handle = task'[u].handle /\ task'[t].handle # NoHandle => t = u
  BY <1>1 DEF PlacesApart
<1>5. \A r \in (inbox \cup {prefetch})' : r.handle # NoHandle =>
        fate'[r.handle] = "received" /\ \A t \in Task : task'[t].handle # r.handle
  BY <1>1, <1>2 DEF PlacesApart
<1>6. PlacesApart'
  BY <1>3, <1>4, <1>5 DEF PlacesApart
<1>7. ASSUME NEW h \in Handle, fate'[h] = "received", h \notin casualties
      PROVE  Held(h)'
  <2>1. h \notin H /\ fate[h] = "received" /\ h # NoHandle
    BY <1>7, BoundsAssumption
  <2>2. Held(h)
    BY <1>7, <2>1 DEF NoHandleStranded
  <2>3. CASE h \in {r.handle : r \in inbox \cup {prefetch}}
    BY <2>1, <2>3 DEF Held
  <2>4. CASE \E t \in Task : task[t].pc \in {"holding", "done"} /\ task[t].handle = h
    <3>1. PICK t \in Task : task[t].pc \in {"holding", "done"} /\ task[t].handle = h
      BY <2>4
    <3>2. task'[t] = task[t]
      BY <3>1 DEF Starts, Idle
    <3> QED
      BY <3>1, <3>2 DEF Held
  <2> QED
    BY <2>2, <2>3, <2>4 DEF Held
<1> QED
  BY <1>6, <1>7 DEF NoHandleStranded

-----------------------------------------------------------------------------
(* Steps of the producer. *)

\* What a step leaves alone keeps its part of the invariant.
LEMMA CustodyFrame ==
  ASSUME PlacesApart, NoHandleStranded, UNCHANGED <<task, fate, inbox, prefetch, casualties>>
  PROVE  PlacesApart' /\ NoHandleStranded'
BY DEF PlacesApart, TaskShape, NoHandleStranded, Held

LEMMA UnderWayFrame ==
  ASSUME OneUnderWay, UNCHANGED <<task, inbox, prefetch, draining, current, demand>>
  PROVE  OneUnderWay'
BY DEF OneUnderWay, Expected

LEMMA FileFrame ==
  ASSUME FileLoaded, UNCHANGED <<current, fate>>
  PROVE  FileLoaded'
BY DEF FileLoaded

LEMMA CounterFrame ==
  ASSUME CounterExact, BudgetRespected, UNCHANGED <<current, fate, flying, inFlight>>
  PROVE  CounterExact' /\ BudgetRespected'
BY DEF CounterExact, BudgetRespected

LEMMA Distinct ==
  /\ Nil # Running /\ Nil \notin Result /\ Running \notin Result
  /\ Nil.handle = NoHandle /\ Running.handle = NoHandle /\ NoHandle \notin Handle
  /\ \A r \in Result : r.handle \in Handle \cup {NoHandle} /\ (r.tag = "ok" => r.handle \in Handle)
BY BoundsAssumption DEF Nil, Running, Result

LEMMA QuietStepsKeep ==
  ASSUME IInv, TimerFires \/ (HandlePoll /\ IdlePoll) \/ LimitChanges \/ UNCHANGED vars
  PROVE  IInv'
<1>1. TypeOK' /\ PollLoopNeverStops'
  <2>1. CASE TimerFires
    <3>1. polls \in 0..MaxPolls /\ polls < MaxPolls /\ polls' = polls + 1
      BY <2>1 DEF TimerFires, IInv, TypeOK
    <3>2. polls' \in 0..MaxPolls /\ polls' > 0
      BY <3>1, BoundsAssumption
    <3> QED
      BY <2>1, <3>2 DEF IInv, TypeOK, PollLoopNeverStops, TimerFires
  <2>2. CASE HandlePoll /\ IdlePoll
    <3>1. polls \in 0..MaxPolls /\ polls > 0 /\ polls' = polls - 1
      BY <2>2 DEF HandlePoll, IInv, TypeOK
    <3>2. polls' \in 0..MaxPolls
      BY <3>1, BoundsAssumption
    <3>3. timer' = (timer \/ ~draining) /\ UNCHANGED draining
      BY <2>2 DEF HandlePoll, IdlePoll
    <3>4. timer' \in BOOLEAN /\ (~draining => timer')
      BY <3>3 DEF IInv, TypeOK
    <3> QED
      BY <2>2, <3>2, <3>3, <3>4 DEF IInv, TypeOK, PollLoopNeverStops, HandlePoll, IdlePoll
  <2>3. CASE LimitChanges
    BY <2>3 DEF IInv, TypeOK, PollLoopNeverStops, LimitChanges, mailbox
  <2>4. CASE UNCHANGED vars
    BY <2>4 DEF IInv, TypeOK, PollLoopNeverStops, vars
  <2> QED
    BY <2>1, <2>2, <2>3, <2>4
<1>2. UNCHANGED <<task, fate, inbox, prefetch, casualties, draining, current, demand, flying, inFlight>>
  BY DEF TimerFires, HandlePoll, IdlePoll, LimitChanges, mailbox, vars
<1> QED
  BY <1>1, <1>2, CustodyFrame, UnderWayFrame, FileFrame, CounterFrame DEF IInv

LEMMA HandleDemandKeeps ==
  ASSUME IInv, NEW d \in 1..MaxDemand, HandleDemand(d)
  PROVE  IInv'
<1>1. UNCHANGED <<task, fate, inbox, prefetch, casualties, draining>>
  BY DEF HandleDemand
<1>2. PlacesApart' /\ NoHandleStranded'
  BY <1>1, CustodyFrame DEF IInv
<1>3. PollLoopNeverStops'
  BY DEF HandleDemand, IInv, TypeOK, PollLoopNeverStops, SchedulePoll
<1>4. CASE draining
  <2>1. UNCHANGED <<demand, current, inFlight, flying>>
    BY <1>4 DEF HandleDemand
  <2>2. TypeOK'
    BY <1>4, <2>1 DEF HandleDemand, IInv, TypeOK, SchedulePoll
  <2> QED
    BY <1>1, <1>2, <1>3, <2>1, <2>2, UnderWayFrame, FileFrame, CounterFrame DEF IInv
<1>5. CASE ~draining /\ Buffered(current) /\ ~overLimit
  <2>1. Emit(current, demand + d) /\ demand + d \in 0..MaxDemand
    BY <1>5, BoundsAssumption DEF HandleDemand, IInv, TypeOK
  <2>2. /\ current \in [handle : Handle, emitted : Nat] /\ fate[current.handle] = "loaded"
        /\ current.emitted <= Len(segmentsOf[current.handle])
    BY <1>5 DEF IInv, TypeOK, FileLoaded, Buffered, Remaining
  <2>3. /\ flying \in SUBSET Segments /\ IsFiniteSet(flying) /\ inFlight = Size(flying)
        /\ \A s \in flying : fate[s[1]] \in {"loaded", "nacked"}
        /\ \A s \in flying : s[1] = current.handle => s[2] <= current.emitted
        /\ BudgetRespected
    BY DEF IInv, TypeOK, CounterExact
  <2>4. /\ current' \in [handle : Handle, emitted : Nat] /\ current'.handle = current.handle
        /\ current'.emitted <= Len(segmentsOf[current.handle])
        /\ demand' \in 0..MaxDemand
        /\ flying' \in SUBSET Segments /\ IsFiniteSet(flying')
        /\ inFlight' = Size(flying') /\ inFlight' \in Nat
        /\ \A s \in flying' : s \in flying \/ s[1] = current.handle
        /\ \A s \in flying' : s[1] = current.handle => s[2] <= current'.emitted
        /\ BudgetRespected'
    <3> DEFINE n == demand + d
    <3>1. n \in 0..MaxDemand /\ n \in Nat /\ Emit(current, n)
      BY <2>1, BoundsAssumption
    <3> HIDE DEF n
    <3>2. demand' \in 0..n /\ n <= MaxDemand
      BY <2>2, <2>3, <3>1, EmitKeeps
    <3>3. demand' \in 0..MaxDemand
      BY <3>1, <3>2, BoundsAssumption
    <3> QED
      BY <2>2, <2>3, <3>1, <3>3, EmitKeeps
  <2>5. TypeOK'
    <3>1. timer' \in BOOLEAN /\ UNCHANGED <<receiving, polls, overLimit>>
      BY <1>5 DEF HandleDemand, IInv, TypeOK, SchedulePoll
    <3>2. current' \in [handle : Handle \cup {NoHandle}, emitted : Nat]
      BY <2>4
    <3>3. flying' \subseteq Segments /\ inFlight' \in Nat /\ demand' \in 0..MaxDemand
      BY <2>4
    <3> HIDE <2>4
    <3> QED
      BY <1>1, <3>1, <3>2, <3>3 DEF IInv, TypeOK
  <2>6. FileLoaded'
    BY <1>1, <2>2, <2>4, Distinct DEF FileLoaded
  <2>7. CounterExact'
    BY <1>1, <2>2, <2>3, <2>4 DEF CounterExact
  <2>8. OneUnderWay'
    BY <1>1, <1>5 DEF IInv, OneUnderWay, Expected
  <2> QED
    BY <1>2, <1>3, <2>4, <2>5, <2>6, <2>7, <2>8 DEF IInv
<1>6. CASE ~draining /\ ~(Buffered(current) /\ ~overLimit)
  <2>1. UNCHANGED <<current, inFlight, flying>>
    BY <1>6 DEF HandleDemand
  <2>2. TypeOK'
    <3>1. demand \in 0..MaxDemand /\ demand + d <= MaxDemand /\ demand' = demand + d
      BY <1>6 DEF HandleDemand, IInv, TypeOK
    <3>2. demand' \in 0..MaxDemand
      BY <3>1, BoundsAssumption
    <3>3. timer' \in BOOLEAN
      BY <1>6 DEF HandleDemand, IInv, TypeOK, SchedulePoll
    <3> QED
      BY <1>6, <2>1, <3>2, <3>3 DEF HandleDemand, IInv, TypeOK
  <2>3. OneUnderWay'
    BY <1>1, <1>6 DEF IInv, OneUnderWay, Expected
  <2> QED
    BY <1>1, <1>2, <1>3, <2>1, <2>2, <2>3, FileFrame, CounterFrame DEF IInv
<1> QED
  BY <1>4, <1>5, <1>6

LEMMA HandlePrefetchResultKeeps ==
  ASSUME IInv, NEW r \in Result, HandlePrefetchResult(r)
  PROVE  IInv'
<1>1. /\ r \in inbox /\ inbox' = {} /\ inbox = {r}
      /\ ~draining => prefetch = Running
      /\ draining => prefetch = Nil
      /\ \A t \in Task : ~Expected(t)
  BY DEF HandlePrefetchResult, IInv, OneUnderWay
<1>2. UNCHANGED <<demand, current, receiving, draining, polls, inFlight, flying, overLimit, task, casualties>>
  BY DEF HandlePrefetchResult
<1>3. PollLoopNeverStops'
  BY <1>2 DEF HandlePrefetchResult, IInv, TypeOK, PollLoopNeverStops, SchedulePoll
<1>4. prefetch.handle = NoHandle
  BY <1>1, Distinct
<1>5. r.handle # NoHandle => fate[r.handle] = "received" /\ \A t \in Task : task[t].handle # r.handle
  BY <1>1 DEF IInv, PlacesApart
<1>6. CASE draining \/ ~receiving
  <2>1. fate' = Nack({r.handle}) /\ prefetch' = (IF draining THEN prefetch ELSE Nil) /\ UNCHANGED timer
    BY <1>6 DEF HandlePrefetchResult
  <2>2. /\ fate' \in [Handle -> Fate]
        /\ \A h \in Handle : h \notin {r.handle} => fate'[h] = fate[h]
        /\ \A h \in Handle : h \in {r.handle} => fate'[h] \in {"loaded", "nacked"}
    BY <1>5, <2>1, BoundsAssumption, NackFresh DEF IInv, TypeOK
  <2>3. prefetch' \in {Nil, prefetch} /\ prefetch'.handle = NoHandle /\ (prefetch' # Running)
    BY <1>1, <2>1, Distinct
  <2>4. PlacesApart' /\ NoHandleStranded'
    <3>1. TypeOK /\ PlacesApart /\ NoHandleStranded
      BY DEF IInv
    <3>2. \A q \in (inbox \cup {prefetch})' : q.handle # NoHandle =>
            q \in inbox \cup {prefetch} /\ q.handle \notin {r.handle}
      BY <1>1, <2>3
    <3>3. \A q \in inbox \cup {prefetch} : q.handle # NoHandle /\ q.handle \notin {r.handle} =>
            q \in (inbox \cup {prefetch})'
      BY <1>1, <1>4
    <3>4. \A t \in Task : task[t].handle \in {r.handle} =>
            task[t].handle = NoHandle \/ fate[task[t].handle] # "received"
      BY <1>5
    <3> QED
      BY <1>2, <2>2, <3>1, <3>2, <3>3, <3>4, SettleKeeps
  <2>5. TypeOK'
    BY <1>1, <1>2, <2>1, <2>2 DEF IInv, TypeOK
  <2>6. OneUnderWay'
    BY <1>1, <1>2, <2>1, <2>3 DEF IInv, OneUnderWay, Expected
  <2>7. FileLoaded'
    BY <1>2, <1>5, <2>2, Distinct DEF IInv, TypeOK, FileLoaded
  <2>8. CounterExact' /\ BudgetRespected'
    <3>1. \A s \in flying : fate'[s[1]] = fate[s[1]]
      BY <1>5, <2>2, SegmentSize, Distinct DEF IInv, TypeOK, CounterExact
    <3> QED
      BY <1>2, <3>1 DEF IInv, CounterExact, BudgetRespected
  <2> QED
    BY <1>3, <2>4, <2>5, <2>6, <2>7, <2>8 DEF IInv
<1>7. CASE ~draining /\ receiving
  <2>1. prefetch' = r /\ UNCHANGED fate
    BY <1>7 DEF HandlePrefetchResult
  <2>2. PlacesApart' /\ NoHandleStranded'
    <3>1. TypeOK /\ PlacesApart /\ NoHandleStranded
      BY DEF IInv
    <3>2. (inbox \cup {prefetch})' = {r}
      BY <1>1, <2>1
    <3>3. fate' \in [Handle -> Fate] /\ \A h \in Handle : fate'[h] = fate[h]
      BY <2>1, <3>1 DEF TypeOK
    <3> QED
      BY <1>1, <1>2, <1>4, <3>1, <3>2, <3>3, SettleKeeps
  <2>3. TypeOK'
    BY <1>1, <1>2, <2>1 DEF HandlePrefetchResult, IInv, TypeOK, SchedulePoll
  <2>4. OneUnderWay'
    BY <1>1, <1>2, <1>7, <2>1, Distinct DEF IInv, OneUnderWay, Expected
  <2> QED
    BY <1>2, <1>3, <2>1, <2>2, <2>3, <2>4, FileFrame, CounterFrame DEF IInv
<1> QED
  BY <1>6, <1>7 DEF IInv, TypeOK

\* The file a poll emits from is loaded, and Broadway has nothing beyond what was
\* emitted of it.
LEMMA BusyPollKeeps ==
  ASSUME IInv, HandlePoll, BusyPoll
  PROVE  IInv'
<1> DEFINE cleared == IF Buffered(current) THEN current ELSE NoFile
           settles == cleared = NoFile /\ Ready(prefetch)
           loads   == settles /\ prefetch.tag = "ok"
           file    == IF loads THEN [handle |-> prefetch.handle, emitted |-> 0] ELSE cleared
           slot    == IF settles THEN Nil ELSE prefetch
           H       == IF settles THEN {prefetch.handle} ELSE {}
<1>1. /\ ~draining /\ demand > 0 /\ timer'
      /\ polls > 0 /\ polls' = polls - 1
      /\ UNCHANGED <<receiving, draining, inbox, overLimit, casualties>>
  BY DEF HandlePoll, BusyPoll, SchedulePoll
<1>2. /\ fate' = IF loads THEN [fate EXCEPT ![prefetch.handle] = "loaded"]
                 ELSE IF settles THEN Nack({prefetch.handle}) ELSE fate
      /\ IF slot = Nil /\ receiving
           THEN /\ \E t \in Task : task[t] = Idle /\ task' = [task EXCEPT ![t].pc = "receiving"]
                /\ prefetch' = Running
           ELSE prefetch' = slot /\ UNCHANGED task
      /\ IF Buffered(file) THEN Emit(file, demand)
         ELSE current' = file /\ UNCHANGED <<demand, inFlight, flying>>
  BY DEF BusyPoll
<1>3. PollLoopNeverStops' /\ polls' \in 0..MaxPolls
  BY <1>1, BoundsAssumption DEF IInv, TypeOK, PollLoopNeverStops
<1>4. /\ loads => settles /\ prefetch.handle \in Handle
      /\ settles => prefetch \in Result
      /\ prefetch \in Result \cup {Nil, Running}
      /\ prefetch.handle # NoHandle =>
           fate[prefetch.handle] = "received" /\ \A t \in Task : task[t].handle # prefetch.handle
  BY Distinct DEF IInv, TypeOK, PlacesApart, Ready
<1>5. /\ fate' \in [Handle -> Fate]
      /\ \A h \in Handle : h \notin H => fate'[h] = fate[h]
      /\ \A h \in Handle : h \in H => fate'[h] \in {"loaded", "nacked"}
  <2> HIDE DEF settles
  <2>1. fate \in [Handle -> Fate]
    BY DEF IInv, TypeOK
  <2>2. /\ Nack({prefetch.handle}) \in [Handle -> Fate]
        /\ \A h \in Handle : h # prefetch.handle => Nack({prefetch.handle})[h] = fate[h]
        /\ \A h \in Handle : h = prefetch.handle => Nack({prefetch.handle})[h] = "nacked"
    BY <1>4, <2>1, BoundsAssumption, NackFresh
  <2>3. CASE loads
    BY <1>2, <1>4, <2>1, <2>3 DEF Fate
  <2>4. CASE settles /\ ~loads
    BY <1>2, <2>2, <2>4
  <2>5. CASE ~settles
    BY <1>2, <2>1, <2>5
  <2> QED
    BY <2>3, <2>4, <2>5
<1>6. /\ loads => fate'[prefetch.handle] = "loaded"
      /\ \A h \in Handle : fate[h] # "received" => fate'[h] = fate[h]
  <2> HIDE DEF settles
  <2>1. ASSUME loads PROVE fate'[prefetch.handle] = "loaded"
    BY <1>2, <1>4, <2>1 DEF IInv, TypeOK
  <2>2. ASSUME NEW h \in Handle, fate[h] # "received" PROVE h \notin H
    BY <1>4, <2>2, Distinct
  <2> QED
    BY <1>5, <2>1, <2>2
<1>7. \/ /\ slot = Nil /\ receiving /\ prefetch' = Running
         /\ \E t \in Task : task[t] = Idle /\ task' = [task EXCEPT ![t].pc = "receiving"]
      \/ ~(slot = Nil /\ receiving) /\ prefetch' = slot /\ UNCHANGED task
  <2> HIDE DEF slot
  <2> QED
    BY <1>2
<1>8. task' \in [Task -> TaskState]
      /\ \A t \in Task : task'[t] = task[t] \/ Starts(t)
  <2> HIDE DEF slot
  <2> QED
    BY <1>7 DEF IInv, TypeOK, TaskState, Starts, Nil
<1>9. PlacesApart' /\ NoHandleStranded'
  <2>1. \A t \in Task : task[t].handle \in H =>
          task[t].handle = NoHandle \/ fate[task[t].handle] # "received"
    BY <1>4
  <2>2. \A r \in (inbox \cup {prefetch})' : r.handle # NoHandle =>
          r \in inbox \cup {prefetch} /\ r.handle \notin H
    <3>1. ASSUME NEW r \in inbox, r.handle # NoHandle PROVE r.handle \notin H
      <4>1. inbox # {}
        OBVIOUS
      <4>2. prefetch = Running
        BY <1>1, <4>1 DEF IInv, OneUnderWay
      <4> QED
        BY <1>4, <4>2, Distinct
    <3>2. (prefetch' = prefetch /\ H = {}) \/ prefetch'.handle = NoHandle
      BY <1>7, Distinct
    <3> HIDE DEF H
    <3> QED
      BY <1>1, <3>1, <3>2
  <2>3. \A r \in inbox \cup {prefetch} : r.handle # NoHandle /\ r.handle \notin H =>
          r \in (inbox \cup {prefetch})'
    <3>1. prefetch.handle # NoHandle /\ prefetch.handle \notin H => prefetch' = prefetch
      BY <1>7, Distinct
    <3> HIDE DEF H
    <3> QED
      BY <1>1, <3>1
  <2> HIDE DEF H
  <2> QED
    BY <1>1, <1>5, <1>8, <2>1, <2>2, <2>3, SettleKeeps DEF IInv
<1>10. OneUnderWay'
  <2>1. slot = Nil => prefetch # Running
    BY <1>4, Distinct
  <2>2. slot # Nil => slot = prefetch
    OBVIOUS
  <2>3. slot = Running <=> prefetch = Running
    BY <1>4, Distinct
  <2> HIDE DEF slot
  <2>4. CASE slot = Nil /\ receiving
    <3>1. inbox = {} /\ \A t \in Task : ~Expected(t)
      BY <1>1, <2>1, <2>4 DEF IInv, OneUnderWay
    <3>2. PICK t \in Task : task[t] = Idle /\ task' = [task EXCEPT ![t].pc = "receiving"]
      BY <1>7, <2>4
    <3>3. \A u \in Task \ {t} : task'[u] = task[u]
      BY <3>2 DEF IInv, TypeOK
    <3>4. task'[t] = [Idle EXCEPT !.pc = "receiving"]
      BY <3>2 DEF IInv, TypeOK
    <3>5. Expected(t)' /\ \A u \in Task : Expected(u)' => u = t
      <4>1. task'[t].pc = "receiving" /\ task'[t].orphan = FALSE /\ Idle.pc = "idle"
        BY <3>4 DEF Idle
      <4>2. task'[t] # Idle
        BY <4>1
      <4> QED
        BY <3>1, <3>3, <4>1, <4>2 DEF Expected
    <3> QED
      BY <1>1, <1>7, <2>4, <3>1, <3>5 DEF OneUnderWay
  <2>5. CASE ~(slot = Nil /\ receiving)
    BY <1>1, <1>7, <2>3, <2>5 DEF IInv, OneUnderWay, Expected
  <2> QED
    BY <2>4, <2>5
<1>11. /\ file \in [handle : Handle \cup {NoHandle}, emitted : Nat]
       /\ file.handle = NoHandle => file = NoFile
       /\ file.handle # NoHandle => /\ fate'[file.handle] = "loaded"
                                    /\ file.emitted <= Len(segmentsOf[file.handle])
                                    /\ \A s \in flying : s[1] = file.handle => s[2] <= file.emitted
  <2>1. CASE loads
    <3>1. file = [handle |-> prefetch.handle, emitted |-> 0] /\ prefetch.handle \in Handle
      BY <1>4, <2>1
    <3>2. Len(segmentsOf[prefetch.handle]) \in Nat
      BY <3>1, SegmentsAssumption
    <3>3. \A s \in flying : s[1] # prefetch.handle
      BY <1>4, <3>1, Distinct DEF IInv, CounterExact
    <3> HIDE DEF file
    <3> QED
      BY <1>6, <2>1, <3>1, <3>2, <3>3, Distinct
  <2>2. CASE ~loads /\ Buffered(current)
    <3>1. file = current /\ current.handle # NoHandle
      BY <2>2 DEF Buffered, Remaining
    <3>2. /\ current \in [handle : Handle \cup {NoHandle}, emitted : Nat]
          /\ fate[current.handle] = "loaded" /\ current.emitted <= Len(segmentsOf[current.handle])
          /\ \A s \in flying : s[1] = current.handle => s[2] <= current.emitted
      BY <3>1 DEF IInv, TypeOK, FileLoaded, CounterExact
    <3>3. fate'[current.handle] = "loaded"
      BY <1>6, <3>1, <3>2
    <3> HIDE DEF file
    <3> QED
      BY <3>1, <3>2, <3>3
  <2>3. CASE ~loads /\ ~Buffered(current)
    BY <2>3 DEF NoFile
  <2> QED
    BY <2>1, <2>2, <2>3
<1>12. /\ demand \in 0..MaxDemand /\ MaxDemand \in Nat
       /\ flying \in SUBSET Segments /\ IsFiniteSet(flying) /\ inFlight = Size(flying)
       /\ \A s \in flying : fate'[s[1]] \in {"loaded", "nacked"}
       /\ BudgetRespected /\ inFlight \in Nat
  BY <1>6, BoundsAssumption, SegmentSize DEF IInv, TypeOK, CounterExact
<1>13. /\ current' \in [handle : Handle \cup {NoHandle}, emitted : Nat]
       /\ demand' \in 0..MaxDemand
       /\ flying' \in SUBSET Segments /\ inFlight' \in Nat
       /\ FileLoaded' /\ CounterExact' /\ BudgetRespected'
  <2> HIDE DEF file
  <2>1. CASE Buffered(file)
    <3>1. /\ file \in [handle : Handle, emitted : Nat] /\ file.handle # NoHandle
          /\ Emit(file, demand) /\ demand \in Nat
      BY <1>2, <1>11, <1>12, <2>1 DEF Buffered, Remaining
    <3>2. /\ current' \in [handle : Handle, emitted : Nat] /\ current'.handle = file.handle
          /\ current'.emitted <= Len(segmentsOf[file.handle])
          /\ demand' \in 0..demand
          /\ flying' \in SUBSET Segments /\ IsFiniteSet(flying')
          /\ inFlight' = Size(flying') /\ inFlight' \in Nat
          /\ \A s \in flying' : s \in flying \/ s[1] = file.handle
          /\ \A s \in flying' : s[1] = file.handle => s[2] <= current'.emitted
          /\ BudgetRespected'
      BY <1>11, <1>12, <3>1, EmitKeeps
    <3>3. demand' \in 0..MaxDemand
      BY <1>12, <3>2
    <3>4. FileLoaded'
      BY <1>11, <3>1, <3>2 DEF FileLoaded
    <3>5. CounterExact'
      BY <1>11, <1>12, <3>1, <3>2 DEF CounterExact
    <3> QED
      BY <3>2, <3>3, <3>4, <3>5
  <2>2. CASE ~Buffered(file)
    <3>1. current' = file /\ UNCHANGED <<demand, inFlight, flying>>
      BY <1>2, <2>2
    <3>2. FileLoaded'
      BY <1>11, <3>1 DEF FileLoaded
    <3>3. CounterExact' /\ BudgetRespected'
      <4>1. \A s \in flying : s[1] # NoHandle
        BY <1>12, SegmentSize, Distinct
      <4> QED
        BY <1>11, <1>12, <3>1, <4>1 DEF CounterExact, BudgetRespected
    <3> QED
      BY <1>11, <1>12, <3>1, <3>2, <3>3
  <2> QED
    BY <2>1, <2>2
<1>14. prefetch' \in Result \cup {Nil, Running}
  BY <1>4, <1>7
<1>15. TypeOK'
  <2> HIDE DEF H, file, slot, settles, loads, cleared
  <2> QED
    BY <1>1, <1>3, <1>5, <1>8, <1>13, <1>14 DEF IInv, TypeOK
<1> QED
  BY <1>3, <1>9, <1>10, <1>13, <1>15 DEF IInv

LEMMA StopReceivingKeeps ==
  ASSUME IInv, StopReceiving
  PROVE  IInv'
<1> DEFINE H == IF Ready(prefetch) THEN {prefetch.handle} ELSE {}
<1>1. /\ fate' = IF Ready(prefetch) THEN Nack({prefetch.handle}) ELSE fate
      /\ prefetch' = (IF Ready(prefetch) THEN Nil ELSE prefetch)
      /\ receiving' = FALSE
      /\ UNCHANGED <<demand, current, draining, mailbox, inFlight, flying, overLimit, task, casualties>>
  BY DEF StopReceiving
<1>2. /\ prefetch \in Result \cup {Nil, Running}
      /\ prefetch.handle # NoHandle =>
           fate[prefetch.handle] = "received" /\ \A t \in Task : task[t].handle # prefetch.handle
  BY DEF IInv, TypeOK, PlacesApart
<1>3. /\ fate' \in [Handle -> Fate]
      /\ \A h \in Handle : h \notin H => fate'[h] = fate[h]
      /\ \A h \in Handle : h \in H => fate'[h] \in {"loaded", "nacked"}
  BY <1>1, <1>2, BoundsAssumption, NackFresh DEF IInv, TypeOK
<1>4. prefetch'.handle # NoHandle => prefetch' = prefetch /\ H = {}
  BY <1>1, Distinct
<1>5. PlacesApart' /\ NoHandleStranded'
  <2>1. \A t \in Task : task[t].handle \in H => task[t].handle = NoHandle
    BY <1>2
  <2>2. \A r \in inbox : r.handle # NoHandle => r.handle \notin H
    <3>1. inbox # {} => ~Ready(prefetch)
      BY Distinct DEF IInv, OneUnderWay, Ready
    <3> QED
      BY <3>1
  <2>3. prefetch.handle # NoHandle /\ prefetch.handle \notin H => prefetch' = prefetch
    BY <1>1
  <2> HIDE DEF H
  <2>4. inbox' = inbox /\ UNCHANGED <<task, casualties>>
    BY <1>1 DEF mailbox
  <2> QED
    BY <1>3, <1>4, <2>1, <2>2, <2>3, <2>4, SettleKeeps DEF IInv
<1>6. TypeOK' /\ PollLoopNeverStops'
  BY <1>1, <1>3 DEF IInv, TypeOK, PollLoopNeverStops, mailbox
<1>7. OneUnderWay'
  <2>1. (prefetch' = Running <=> prefetch = Running) /\ (prefetch = Nil => prefetch' = Nil)
    BY <1>1, Distinct DEF Ready
  <2> QED
    BY <1>1, <2>1 DEF IInv, OneUnderWay, Expected, mailbox
<1>8. \A h \in Handle : fate[h] # "received" => fate'[h] = fate[h]
  BY <1>2, <1>3, Distinct
<1>9. FileLoaded'
  BY <1>1, <1>8 DEF IInv, TypeOK, FileLoaded
<1>10. CounterExact' /\ BudgetRespected'
  BY <1>1, <1>8, SegmentSize DEF IInv, TypeOK, CounterExact, BudgetRespected
<1> QED
  BY <1>5, <1>6, <1>7, <1>9, <1>10 DEF IInv

LEMMA PrepareForDrainingKeeps ==
  ASSUME IInv, PrepareForDraining
  PROVE  IInv'
<1> DEFINE H == (IF Buffered(current) THEN {current.handle} ELSE {})
                \cup (IF Ready(prefetch) THEN {prefetch.handle} ELSE {})
<1>1. /\ fate' = Nack(H) /\ draining' = TRUE
      /\ demand' = 0 /\ current' = NoFile /\ prefetch' = Nil
      /\ UNCHANGED <<receiving, mailbox, inFlight, flying, overLimit, task, casualties>>
      /\ ~draining
  BY DEF PrepareForDraining
<1>2. /\ prefetch \in Result \cup {Nil, Running}
      /\ prefetch.handle # NoHandle =>
           fate[prefetch.handle] = "received" /\ \A t \in Task : task[t].handle # prefetch.handle
  BY DEF IInv, TypeOK, PlacesApart
<1>3. Buffered(current) => current.handle \in Handle /\ fate[current.handle] = "loaded"
  BY DEF IInv, TypeOK, FileLoaded, Buffered, Remaining
<1>4. \A h \in H : h = NoHandle \/ fate[h] = "loaded" \/ (h = prefetch.handle /\ fate[h] = "received")
  BY <1>2, <1>3
<1>5. prefetch.handle # NoHandle => prefetch.handle \in H
  BY <1>2, Distinct DEF Ready
<1>6. prefetch.handle # NoHandle => inbox = {}
  BY <1>1, Distinct DEF IInv, OneUnderWay
<1> HIDE DEF H
<1>7. /\ fate' \in [Handle -> Fate]
      /\ \A h \in Handle : h \notin H => fate'[h] = fate[h]
      /\ \A h \in Handle : h \in H => fate'[h] = "nacked"
  BY <1>1, <1>4, BoundsAssumption, NackFresh DEF IInv, TypeOK
<1>8. inbox' = inbox /\ prefetch'.handle = NoHandle
  BY <1>1, Distinct DEF mailbox
<1>9. PlacesApart' /\ NoHandleStranded'
  <2>1. \A t \in Task : task[t].handle \in H =>
          task[t].handle = NoHandle \/ fate[task[t].handle] # "received"
    BY <1>2, <1>4
  <2>2. \A r \in inbox : r.handle # NoHandle => r.handle \notin H
    <3>1. \A r \in inbox : r.handle # NoHandle => fate[r.handle] = "received"
      BY DEF IInv, PlacesApart
    <3> QED
      BY <1>4, <1>6, <3>1
  <2>3. \A t \in Task : task'[t] = task[t]
    BY <1>1
  <2>4. TypeOK /\ PlacesApart /\ NoHandleStranded /\ UNCHANGED casualties
    BY <1>1 DEF IInv
  <2>5. \A r \in (inbox \cup {prefetch})' : r.handle # NoHandle =>
          r \in inbox \cup {prefetch} /\ r.handle \notin H
    BY <1>8, <2>2
  <2>6. \A r \in inbox \cup {prefetch} : r.handle # NoHandle /\ r.handle \notin H =>
          r \in (inbox \cup {prefetch})'
    BY <1>5, <1>8
  <2> QED
    BY <1>7, <2>1, <2>3, <2>4, <2>5, <2>6, SettleKeeps
<1>10. TypeOK' /\ PollLoopNeverStops'
  BY <1>1, <1>7, BoundsAssumption DEF IInv, TypeOK, PollLoopNeverStops, mailbox, NoFile
<1>11. OneUnderWay'
  BY <1>1 DEF IInv, OneUnderWay, Expected, mailbox
<1>12. FileLoaded'
  BY <1>1 DEF FileLoaded, NoFile
<1>13. CounterExact' /\ BudgetRespected'
  <2>1. \A s \in flying : s[1] \in Handle /\ fate'[s[1]] \in {"loaded", "nacked"}
    BY <1>7, SegmentSize DEF IInv, TypeOK, CounterExact
  <2> QED
    BY <1>1, <2>1, Distinct DEF IInv, CounterExact, BudgetRespected, NoFile
<1> QED
  BY <1>9, <1>10, <1>11, <1>12, <1>13 DEF IInv

LEMMA DieKeeps ==
  ASSUME IInv, Die
  PROVE  IInv'
<1>1. /\ casualties' = casualties \cup ({r.handle : r \in inbox \cup {prefetch}} \ {NoHandle})
      /\ demand' = 0 /\ current' = NoFile /\ prefetch' = Nil /\ receiving' = TRUE
      /\ timer' = TRUE /\ polls' = 0 /\ inbox' = {}
      /\ inFlight' = 0 /\ flying' = {}
      /\ task' = [t \in Task |-> [task[t] EXCEPT !.orphan = task[t] # Idle]]
      /\ UNCHANGED <<draining, overLimit, fate>> /\ ~draining
  BY DEF Die
<1>2. task' \in [Task -> TaskState]
  <2> SUFFICES ASSUME NEW t \in Task
               PROVE  task'[t] \in TaskState
    BY <1>1
  <2> DEFINE b == task[t] # Idle
  <2>1. task'[t] = [task[t] EXCEPT !.orphan = b] /\ b \in BOOLEAN
    BY <1>1
  <2> HIDE DEF b
  <2> QED
    BY <2>1 DEF IInv, TypeOK, TaskState
<1>3. \A t \in Task : /\ task'[t].pc = task[t].pc /\ task'[t].handle = task[t].handle
                      /\ task'[t].result = task[t].result
                      /\ task'[t].orphan = (task[t] # Idle)
  BY <1>1 DEF IInv, TypeOK, TaskState
<1>4. ASSUME NEW t \in Task, task[t] = Idle PROVE task'[t] = Idle
  <2>1. task'[t] = [Idle EXCEPT !.orphan = FALSE]
    BY <1>1, <1>4
  <2> QED
    BY <2>1 DEF Idle
<1>5. casualties' \subseteq Handle
  BY <1>1 DEF IInv, TypeOK, Result, Nil, Running
<1>6. TypeOK'
  BY <1>1, <1>2, <1>5, BoundsAssumption DEF IInv, TypeOK, NoFile
<1>7. PlacesApart'
  <2>1. \A t \in Task : TaskShape(t)'
    BY <1>1, <1>3, <1>4 DEF IInv, PlacesApart, TaskShape
  <2> QED
    BY <1>1, <1>3, <2>1, Distinct DEF IInv, PlacesApart
<1>8. NoHandleStranded'
  <2> SUFFICES ASSUME NEW h \in Handle, fate[h] = "received", h \notin casualties'
               PROVE  Held(h)'
    BY <1>1 DEF NoHandleStranded
  <2>1. Held(h) /\ h \notin {r.handle : r \in inbox \cup {prefetch}}
    BY <1>1, BoundsAssumption DEF IInv, NoHandleStranded
  <2> QED
    BY <1>3, <2>1 DEF Held
<1>9. OneUnderWay'
  <2>1. \A t \in Task : ~Expected(t)'
    BY <1>3, <1>4 DEF Expected
  <2> QED
    BY <1>1, <2>1, Distinct DEF OneUnderWay
<1>10. CounterExact' /\ BudgetRespected'
  <2>1. Size({}) = 0 /\ IsFiniteSet({})
    BY FS_EmptySet DEF Size, BytesOf
  <2> QED
    BY <1>1, <2>1, BoundsAssumption DEF CounterExact, BudgetRespected
<1> QED
  BY <1>1, <1>6, <1>7, <1>8, <1>9, <1>10 DEF IInv, FileLoaded, NoFile, PollLoopNeverStops

-----------------------------------------------------------------------------
(* Steps of a prefetch task, of Broadway and of the memory monitor. *)

\* What Finishes does to the tasks.
LEMMA FinishesGives ==
  ASSUME TypeOK, NEW t \in Task, NEW r \in Result, Finishes(t, r)
  PROVE  /\ task' \in [Task -> TaskState]
         /\ task'[t].pc = "done" /\ task'[t].handle = task[t].handle /\ task'[t].result = r
         /\ task'[t].orphan = task[t].orphan
         /\ \A u \in Task \ {t} : task'[u] = task[u]
<1> DEFINE q == [task[t] EXCEPT !.pc = "done", !.result = r]
<1>1. task[t] \in TaskState
  BY DEF TypeOK
<1>2. /\ q \in TaskState
      /\ q.pc = "done" /\ q.handle = task[t].handle /\ q.result = r /\ q.orphan = task[t].orphan
  BY <1>1 DEF TaskState
<1>3. task' = [task EXCEPT ![t] = q]
  BY DEF Finishes, TypeOK
<1> HIDE DEF q
<1> QED
  BY <1>2, <1>3 DEF TypeOK

LEMMA TaskReceivesKeeps ==
  ASSUME IInv, NEW t \in Task, TaskReceives(t)
  PROVE  IInv'
<1>1. /\ task[t].pc = "receiving" /\ task[t].handle = NoHandle /\ task[t].result = Nil
      /\ UNCHANGED <<demand, current, prefetch, receiving, draining, timer, polls, inFlight, flying,
                     overLimit, inbox, casualties>>
  BY DEF TaskReceives, producer, IInv, PlacesApart, TaskShape
<1>2. CASE \E h \in Handle :
             /\ fate[h] = "queued"
             /\ fate' = [fate EXCEPT ![h] = "received"]
             /\ task' = [task EXCEPT ![t].pc = "holding", ![t].handle = h]
  <2>1. PICK h \in Handle :
          /\ fate[h] = "queued"
          /\ fate' = [fate EXCEPT ![h] = "received"]
          /\ task' = [task EXCEPT ![t].pc = "holding", ![t].handle = h]
    BY <1>2
  <2>2. /\ fate' \in [Handle -> Fate] /\ fate'[h] = "received"
        /\ \A g \in Handle \ {h} : fate'[g] = fate[g]
    BY <2>1 DEF IInv, TypeOK, Fate
  <2>3. /\ task'[t].pc = "holding" /\ task'[t].handle = h /\ task'[t].result = Nil
        /\ task'[t].orphan = task[t].orphan
        /\ \A u \in Task \ {t} : task'[u] = task[u]
    BY <1>1, <2>1 DEF IInv, TypeOK
  <2>4. TypeOK'
    <3> DEFINE q == [task[t] EXCEPT !.pc = "holding", !.handle = h]
    <3>0. q \in TaskState /\ task' = [task EXCEPT ![t] = q]
      BY <2>1 DEF IInv, TypeOK, TaskState
    <3> HIDE DEF q
    <3>1. task' \in [Task -> TaskState]
      BY <3>0 DEF IInv, TypeOK
    <3> QED
      BY <1>1, <2>2, <3>1 DEF IInv, TypeOK
  <2>5. \A u \in Task : task[u].handle # h
    BY <2>1, Distinct DEF IInv, PlacesApart
  <2>6. PlacesApart'
    <3>1. TaskShape(t)'
      BY <2>2, <2>3, Distinct DEF TaskShape
    <3>2. ASSUME NEW u \in Task \ {t} PROVE TaskShape(u)'
      <4>1. TaskShape(u) /\ task'[u] = task[u] /\ task[u].handle \in Handle \cup {NoHandle}
        BY <2>3 DEF IInv, TypeOK, TaskState, PlacesApart
      <4>2. task[u].handle # NoHandle => fate'[task[u].handle] = fate[task[u].handle]
        BY <2>2, <2>5, <4>1
      <4> QED
        BY <1>1, <4>1, <4>2 DEF TaskShape
    <3>3. \A r \in inbox \cup {prefetch} : r.handle # NoHandle => r.handle \in Handle /\ r.handle # h
      BY <2>1, Distinct DEF IInv, TypeOK, PlacesApart
    <3>4. \A u \in Task : task'[u].handle # NoHandle => fate'[task'[u].handle] # "queued"
      BY <2>2, <2>3, <2>5 DEF IInv, TypeOK, TaskState, PlacesApart
    <3>5. \A u, v \in Task : task'[u].handle = task'[v].handle /\ task'[u].handle # NoHandle => u = v
      BY <2>3, <2>5 DEF IInv, PlacesApart
    <3>6. \A r \in inbox \cup {prefetch} : r.handle # NoHandle =>
            fate'[r.handle] = "received" /\ \A u \in Task : task'[u].handle # r.handle
      BY <2>2, <2>3, <3>3 DEF IInv, PlacesApart
    <3> QED
      BY <1>1, <3>1, <3>2, <3>4, <3>5, <3>6 DEF PlacesApart
  <2>7. NoHandleStranded'
    <3> SUFFICES ASSUME NEW g \in Handle, fate'[g] = "received", g \notin casualties
                 PROVE  Held(g)'
      BY <1>1 DEF NoHandleStranded
    <3>1. CASE g = h
      BY <2>3, <3>1 DEF Held
    <3>2. CASE g # h
      <4>1. Held(g)
        BY <2>2, <3>2 DEF IInv, NoHandleStranded
      <4> QED
        BY <1>1, <2>3, <4>1 DEF Held
    <3> QED
      BY <3>1, <3>2
  <2>8. OneUnderWay'
    <3>1. \A u \in Task : Expected(u)' <=> Expected(u)
      BY <1>1, <2>3 DEF Expected, Idle
    <3> QED
      BY <1>1, <3>1 DEF IInv, OneUnderWay
  <2>9. FileLoaded'
    BY <1>1, <2>1, <2>2 DEF IInv, TypeOK, FileLoaded
  <2>10. CounterExact' /\ BudgetRespected'
    BY <1>1, <2>1, <2>2, SegmentSize DEF IInv, TypeOK, CounterExact, BudgetRespected
  <2> QED
    BY <1>1, <2>4, <2>6, <2>7, <2>8, <2>9, <2>10 DEF IInv, PollLoopNeverStops
<1>3. CASE \E r \in {Empty, Crashed} : Finishes(t, r) /\ UNCHANGED fate
  <2>1. PICK r \in {Empty, Crashed} : Finishes(t, r) /\ UNCHANGED fate
    BY <1>3
  <2>2. r \in Result /\ r.handle = NoHandle
    BY DEF Empty, Crashed, Result
  <2>3. /\ task'[t].pc = "done" /\ task'[t].handle = NoHandle /\ task'[t].result = r
        /\ task'[t].orphan = task[t].orphan
        /\ \A u \in Task \ {t} : task'[u] = task[u]
    BY <1>1, <2>1, <2>2, FinishesGives DEF IInv
  <2>4. TypeOK'
    <3>1. task' \in [Task -> TaskState]
      BY <2>1, <2>2, FinishesGives DEF IInv
    <3> QED
      BY <1>1, <2>1, <3>1 DEF IInv, TypeOK
  <2>5. PlacesApart'
    <3>1. TaskShape(t)'
      BY <2>2, <2>3 DEF TaskShape
    <3>2. \A u \in Task \ {t} : TaskShape(u)'
      BY <1>1, <2>1, <2>3 DEF IInv, PlacesApart, TaskShape
    <3> QED
      BY <1>1, <2>1, <2>3, <3>1, <3>2 DEF IInv, PlacesApart
  <2>6. NoHandleStranded'
    BY <1>1, <2>1, <2>3, BoundsAssumption DEF IInv, NoHandleStranded, Held
  <2>7. OneUnderWay'
    <3>1. \A u \in Task : Expected(u)' <=> Expected(u)
      BY <1>1, <2>3 DEF Expected, Idle
    <3> QED
      BY <1>1, <3>1 DEF IInv, OneUnderWay
  <2> QED
    BY <1>1, <2>1, <2>4, <2>5, <2>6, <2>7, FileFrame, CounterFrame DEF IInv, PollLoopNeverStops
<1> QED
  BY <1>2, <1>3 DEF TaskReceives

LEMMA TaskDownloadsKeeps ==
  ASSUME IInv, NEW t \in Task, TaskDownloads(t)
  PROVE  IInv'
<1> DEFINE h == task[t].handle
<1>1. /\ task[t].pc = "holding" /\ h # NoHandle /\ h \in Handle /\ fate[h] = "received"
      /\ UNCHANGED <<demand, current, prefetch, receiving, draining, timer, polls, inFlight, flying,
                     overLimit, inbox>>
  BY DEF TaskDownloads, producer, IInv, TypeOK, TaskState, PlacesApart, TaskShape
<1> DEFINE Done == fate' \in [Handle -> Fate] /\ fate'[h] \in {"acked", "nacked"}
                   /\ \A g \in Handle \ {h} : fate'[g] = fate[g]
<1>2. PICK r \in Result :
        /\ Finishes(t, r)
        /\ \/ r.handle = h /\ UNCHANGED <<fate, casualties>>
           \/ r.handle = NoHandle /\ Done /\ UNCHANGED casualties
           \/ r.handle = NoHandle /\ UNCHANGED fate /\ casualties' = casualties \cup {h}
  <2>1. CASE (\E r \in {Loaded(h), Failed(h)} : Finishes(t, r)) /\ UNCHANGED <<fate, casualties>>
    BY <1>1, <2>1 DEF Loaded, Failed, Result
  <2>2. CASE /\ \E f \in {"acked", "nacked"} : fate' = [fate EXCEPT ![h] = Settled(h, f)]
             /\ Finishes(t, Empty) /\ UNCHANGED casualties
    <3>1. Empty \in Result /\ Empty.handle = NoHandle
      BY DEF Empty, Result
    <3>2. Done
      BY <1>1, <2>2 DEF IInv, TypeOK, Fate, Settled
    <3> HIDE DEF Done
    <3> QED
      BY <2>2, <3>1, <3>2
  <2>3. CASE Finishes(t, Crashed) /\ casualties' = casualties \cup {h} /\ UNCHANGED fate
    BY <2>3 DEF Crashed, Result
  <2> QED
    BY <2>1, <2>2, <2>3 DEF TaskDownloads
<1>3. /\ task' \in [Task -> TaskState]
      /\ task'[t].pc = "done" /\ task'[t].handle = h /\ task'[t].result = r
      /\ task'[t].orphan = task[t].orphan
      /\ \A u \in Task \ {t} : task'[u] = task[u]
  BY <1>2, FinishesGives DEF IInv
<1>4. /\ fate' \in [Handle -> Fate] /\ fate'[h] # "queued"
      /\ \A g \in Handle \ {h} : fate'[g] = fate[g]
      /\ fate'[h] # fate[h] => r.handle = NoHandle /\ fate'[h] # "received"
      /\ casualties \subseteq casualties' /\ casualties' \subseteq Handle
      /\ fate'[h] = "received" /\ r.handle = NoHandle => h \in casualties'
  BY <1>1, <1>2 DEF IInv, TypeOK
<1>5. /\ \A u \in Task \ {t} : task[u].handle # h
      /\ \A q \in inbox \cup {prefetch} : q.handle # h
  BY <1>1 DEF IInv, PlacesApart
<1> HIDE DEF h
<1>6. TypeOK'
  BY <1>1, <1>3, <1>4 DEF IInv, TypeOK
<1>7. PlacesApart'
  <2>1. TaskShape(t)'
    BY <1>1, <1>2, <1>3, <1>4 DEF TaskShape
  <2>2. ASSUME NEW u \in Task \ {t} PROVE TaskShape(u)'
    <3>1. TaskShape(u) /\ task'[u] = task[u] /\ task[u].handle \in Handle \cup {NoHandle}
      BY <1>3 DEF IInv, TypeOK, TaskState, PlacesApart
    <3>2. task[u].handle # NoHandle => fate'[task[u].handle] = fate[task[u].handle]
      BY <1>4, <1>5, <3>1
    <3> QED
      BY <1>4, <3>1, <3>2 DEF TaskShape
  <2>3. \A u \in Task : task'[u].handle # NoHandle => fate'[task'[u].handle] # "queued"
    BY <1>3, <1>4, <1>5 DEF IInv, TypeOK, TaskState, PlacesApart
  <2>4. \A u, v \in Task : task'[u].handle = task'[v].handle /\ task'[u].handle # NoHandle => u = v
    BY <1>3, <1>5 DEF IInv, PlacesApart
  <2>5. \A q \in inbox \cup {prefetch} : q.handle # NoHandle => q.handle \in Handle
    BY Distinct DEF IInv, TypeOK
  <2>6. \A q \in inbox \cup {prefetch} : q.handle # NoHandle =>
          fate'[q.handle] = "received" /\ \A u \in Task : task'[u].handle # q.handle
    BY <1>3, <1>4, <1>5, <2>5 DEF IInv, PlacesApart
  <2> QED
    BY <1>1, <2>1, <2>2, <2>3, <2>4, <2>6 DEF PlacesApart
<1>8. NoHandleStranded'
  <2> SUFFICES ASSUME NEW g \in Handle, fate'[g] = "received", g \notin casualties'
               PROVE  Held(g)'
    BY DEF NoHandleStranded
  <2>1. CASE g = h
    BY <1>3, <2>1 DEF Held
  <2>2. CASE g # h
    <3>1. Held(g)
      BY <1>4, <2>2 DEF IInv, NoHandleStranded
    <3>2. task[t].handle # g
      BY <2>2 DEF h
    <3> QED
      BY <1>1, <1>3, <3>1, <3>2 DEF Held
  <2> QED
    BY <2>1, <2>2
<1>9. OneUnderWay'
  <2>1. task[t] # Idle /\ task'[t] # Idle
    BY <1>1, <1>3 DEF Idle
  <2>2. \A u \in Task : Expected(u)' <=> Expected(u)
    BY <1>3, <2>1 DEF Expected
  <2> QED
    BY <1>1, <2>2 DEF IInv, OneUnderWay
<1>10. FileLoaded'
  BY <1>1, <1>4 DEF IInv, TypeOK, FileLoaded
<1>11. CounterExact' /\ BudgetRespected'
  BY <1>1, <1>4, SegmentSize DEF IInv, TypeOK, CounterExact, BudgetRespected
<1> QED
  BY <1>1, <1>6, <1>7, <1>8, <1>9, <1>10, <1>11 DEF IInv, PollLoopNeverStops

LEMMA TaskDeliversKeeps ==
  ASSUME IInv, NEW t \in Task, TaskDelivers(t)
  PROVE  IInv'
<1> DEFINE r == task[t].result
<1>1. /\ task[t].pc = "done" /\ r \in Result /\ r.handle \in {NoHandle, task[t].handle}
      /\ r.handle \in Handle \cup {NoHandle}
      /\ r.handle # NoHandle => fate[r.handle] = "received"
      /\ task[t].handle # NoHandle /\ fate[task[t].handle] = "received"
         /\ r.handle = NoHandle => task[t].handle \in casualties
      /\ UNCHANGED <<demand, current, prefetch, receiving, draining, timer, polls, inFlight, flying,
                     overLimit, casualties>>
  BY Distinct DEF TaskDelivers, producer, IInv, PlacesApart, TaskShape
<1>2. /\ task' \in [Task -> TaskState] /\ task'[t] = Idle
      /\ \A u \in Task \ {t} : task'[u] = task[u]
      /\ task[t] # Idle /\ Idle.handle = NoHandle
  BY <1>1 DEF TaskDelivers, IInv, TypeOK, TaskState, Idle
<1>3. TaskShape(t)'
  BY <1>2 DEF TaskShape, Idle
<1>4. /\ \A u \in Task \ {t} : task[u].handle = NoHandle \/ task[u].handle # r.handle
      /\ \A q \in inbox \cup {prefetch} : q.handle = NoHandle \/ q.handle # r.handle
  BY <1>1 DEF IInv, PlacesApart
<1>5. /\ \A q \in inbox \cup {prefetch} : q.handle \in Handle \cup {NoHandle}
      /\ \A u \in Task : task[u].handle \in Handle \cup {NoHandle}
  BY Distinct DEF IInv, TypeOK, TaskState
<1> HIDE DEF r
<1>6. CASE task[t].orphan
  <2>1. fate' = Nack({r.handle}) /\ UNCHANGED inbox
    BY <1>6 DEF TaskDelivers, r
  <2>2. /\ fate' \in [Handle -> Fate]
        /\ \A h \in Handle : h # r.handle => fate'[h] = fate[h]
        /\ \A h \in Handle : h = r.handle => fate'[h] = "nacked"
    BY <1>1, <2>1, BoundsAssumption, NackFresh DEF IInv, TypeOK
  <2>3. TypeOK'
    BY <1>1, <1>2, <2>1, <2>2 DEF IInv, TypeOK
  <2>4. PlacesApart'
    <3>1. ASSUME NEW u \in Task \ {t} PROVE TaskShape(u)'
      <4>1. TaskShape(u) /\ task'[u] = task[u]
        BY <1>2 DEF IInv, PlacesApart
      <4>2. task[u].handle # NoHandle => fate'[task[u].handle] = fate[task[u].handle]
        BY <1>4, <1>5, <2>2
      <4> QED
        BY <1>1, <4>1, <4>2 DEF TaskShape
    <3>2. \A u \in Task : task'[u].handle # NoHandle => fate'[task'[u].handle] # "queued"
      BY <1>2, <1>4, <1>5, <2>2 DEF IInv, PlacesApart
    <3>3. \A u, v \in Task : task'[u].handle = task'[v].handle /\ task'[u].handle # NoHandle => u = v
      BY <1>2 DEF IInv, PlacesApart
    <3>4. \A q \in inbox \cup {prefetch} : q.handle # NoHandle =>
            fate'[q.handle] = "received" /\ \A u \in Task : task'[u].handle # q.handle
      BY <1>2, <1>4, <1>5, <2>2 DEF IInv, PlacesApart
    <3> QED
      BY <1>1, <1>3, <2>1, <3>1, <3>2, <3>3, <3>4 DEF PlacesApart
  <2>5. NoHandleStranded'
    <3> SUFFICES ASSUME NEW g \in Handle, fate'[g] = "received", g \notin casualties
                 PROVE  Held(g)'
      BY <1>1 DEF NoHandleStranded
    <3>1. g # r.handle /\ fate[g] = "received" /\ g # NoHandle
      BY <2>2, BoundsAssumption
    <3>2. g # task[t].handle
      BY <1>1, <3>1
    <3>3. Held(g)
      BY <3>1 DEF IInv, NoHandleStranded
    <3> QED
      BY <1>1, <1>2, <2>1, <3>2, <3>3 DEF Held
  <2>6. OneUnderWay'
    <3>1. \A u \in Task : Expected(u)' <=> Expected(u)
      BY <1>2, <1>6 DEF Expected
    <3> QED
      BY <1>1, <2>1, <3>1 DEF IInv, OneUnderWay
  <2>7. FileLoaded'
    BY <1>1, <2>2 DEF IInv, TypeOK, FileLoaded
  <2>8. CounterExact' /\ BudgetRespected'
    BY <1>1, <2>2, SegmentSize DEF IInv, TypeOK, CounterExact, BudgetRespected
  <2> QED
    BY <1>1, <2>3, <2>4, <2>5, <2>6, <2>7, <2>8 DEF IInv, PollLoopNeverStops
<1>7. CASE ~task[t].orphan
  <2>1. inbox' = inbox \cup {r} /\ UNCHANGED fate
    BY <1>7 DEF TaskDelivers, r
  <2>2. Expected(t) /\ inbox = {} /\ \A u \in Task \ {t} : ~Expected(u)
    <3>1. Expected(t)
      BY <1>2, <1>7 DEF Expected
    <3> QED
      BY <3>1 DEF IInv, OneUnderWay
  <2>3. TypeOK'
    BY <1>1, <1>2, <2>1 DEF IInv, TypeOK
  <2>4. PlacesApart'
    <3>1. \A u \in Task \ {t} : TaskShape(u)'
      BY <1>1, <1>2, <2>1 DEF IInv, PlacesApart, TaskShape
    <3>2. \A u \in Task : task'[u].handle # NoHandle => fate'[task'[u].handle] # "queued"
      BY <1>2, <2>1 DEF IInv, PlacesApart
    <3>3. \A u, v \in Task : task'[u].handle = task'[v].handle /\ task'[u].handle # NoHandle => u = v
      BY <1>2 DEF IInv, PlacesApart
    <3>4. \A q \in (inbox \cup {prefetch})' : q.handle # NoHandle =>
            fate'[q.handle] = "received" /\ \A u \in Task : task'[u].handle # q.handle
      BY <1>1, <1>2, <1>4, <2>1 DEF IInv, PlacesApart
    <3> QED
      BY <1>3, <3>1, <3>2, <3>3, <3>4 DEF PlacesApart
  <2>5. NoHandleStranded'
    <3> SUFFICES ASSUME NEW g \in Handle, fate[g] = "received", g \notin casualties
                 PROVE  Held(g)'
      BY <1>1, <2>1 DEF NoHandleStranded
    <3>1. Held(g) /\ g # NoHandle
      BY BoundsAssumption DEF IInv, NoHandleStranded
    <3>2. CASE g = task[t].handle
      <4>1. r.handle = g
        BY <1>1, <3>1, <3>2
      <4> QED
        BY <2>1, <4>1 DEF Held
    <3>3. CASE g # task[t].handle
      BY <1>1, <1>2, <2>1, <3>1, <3>3 DEF Held
    <3> QED
      BY <3>2, <3>3
  <2>6. OneUnderWay'
    <3>1. \A u \in Task : ~Expected(u)'
      BY <1>2, <2>2 DEF Expected
    <3> QED
      BY <1>1, <2>1, <2>2, <3>1 DEF IInv, OneUnderWay
  <2> QED
    BY <1>1, <2>1, <2>3, <2>4, <2>5, <2>6, FileFrame, CounterFrame DEF IInv, PollLoopNeverStops
<1> QED
  BY <1>6, <1>7 DEF IInv, TypeOK, TaskState

LEMMA AckSegmentKeeps ==
  ASSUME IInv, NEW s \in Segments, AckSegment(s)
  PROVE  IInv'
<1>1. /\ s \in flying /\ flying' = flying \ {s}
      /\ inFlight' = inFlight - segmentsOf[s[1]][s[2]]
      /\ UNCHANGED <<demand, current, prefetch, receiving, draining, timer, polls, inbox, overLimit,
                     task, fate, casualties>>
  BY DEF AckSegment, mailbox
<1>2. /\ flying \in SUBSET Segments /\ IsFiniteSet(flying) /\ inFlight = Size(flying)
      /\ flying' \in SUBSET Segments
  BY <1>1 DEF IInv, TypeOK, CounterExact
<1>3. IsFiniteSet(flying') /\ Size(flying) = Size(flying') + segmentsOf[s[1]][s[2]]
  BY <1>1, <1>2, SizeRemove
<1>4. Size(flying) \in Nat /\ Size(flying') \in Nat /\ segmentsOf[s[1]][s[2]] \in Nat
  BY <1>2, <1>3, SizeType, SegmentSize
<1>5. inFlight' = Size(flying')
  BY <1>1, <1>2, <1>3, <1>4
<1>6. BudgetRespected'
  <2> SUFFICES ASSUME Size(flying') > MaxInFlight PROVE FALSE
    BY DEF BudgetRespected
  <2>1. Cardinality(flying) = 1
    BY <1>3, <1>4, BoundsAssumption DEF IInv, BudgetRespected
  <2>2. flying' = {}
    BY <1>1, <1>2, <2>1, FS_Singleton
  <2>3. Size(flying') = 0
    BY <1>2, <1>3, <2>2, SizePositive
  <2> QED
    BY <2>3, BoundsAssumption
<1>7. TypeOK'
  BY <1>1, <1>2, <1>4, <1>5 DEF IInv, TypeOK
<1>8. CounterExact'
  BY <1>1, <1>3, <1>5 DEF IInv, CounterExact
<1> QED
  BY <1>1, <1>6, <1>7, <1>8, CustodyFrame, UnderWayFrame, FileFrame DEF IInv, PollLoopNeverStops

-----------------------------------------------------------------------------
(* The inductive invariant and the theorems. *)

LEMMA InitIInv == Init => IInv
<1> SUFFICES ASSUME Init PROVE IInv
  OBVIOUS
<1>1. Idle \in TaskState /\ Idle.handle = NoHandle /\ Idle.pc = "idle"
  BY DEF Idle, TaskState
<1>2. TypeOK
  <2>1. task \in [Task -> TaskState]
    BY <1>1 DEF Init
  <2>2. fate \in [Handle -> Fate]
    BY DEF Init, Fate
  <2>3. demand \in 0..MaxDemand /\ polls \in 0..MaxPolls
    BY BoundsAssumption DEF Init
  <2> QED
    BY <2>1, <2>2, <2>3 DEF Init, TypeOK, NoFile
<1>3. PlacesApart
  BY <1>1, Distinct DEF Init, PlacesApart, TaskShape
<1>4. OneUnderWay
  BY Distinct DEF Init, OneUnderWay, Expected
<1>5. Size({}) = 0 /\ IsFiniteSet({})
  BY FS_EmptySet DEF Size, BytesOf
<1> QED
  BY <1>2, <1>3, <1>4, <1>5, BoundsAssumption
  DEF Init, IInv, FileLoaded, NoFile, CounterExact, BudgetRespected, PollLoopNeverStops, NoHandleStranded

LEMMA NextIInv == IInv /\ [Next]_vars => IInv'
<1> SUFFICES ASSUME IInv, [Next]_vars PROVE IInv'
  OBVIOUS
<1>1. ASSUME NEW d \in 1..MaxDemand, HandleDemand(d) PROVE IInv'
  BY <1>1, HandleDemandKeeps
<1>2. ASSUME TimerFires \/ LimitChanges \/ UNCHANGED vars PROVE IInv'
  BY <1>2, QuietStepsKeep
<1>3. ASSUME HandlePoll PROVE IInv'
  <2>1. IdlePoll \/ BusyPoll
    BY <1>3 DEF HandlePoll
  <2> QED
    BY <1>3, <2>1, QuietStepsKeep, BusyPollKeeps
<1>4. ASSUME NEW r \in Result, HandlePrefetchResult(r) PROVE IInv'
  BY <1>4, HandlePrefetchResultKeeps
<1>5. ASSUME StopReceiving \/ PrepareForDraining \/ Die PROVE IInv'
  BY <1>5, StopReceivingKeeps, PrepareForDrainingKeeps, DieKeeps
<1>6. ASSUME NEW t \in Task, TaskStep(t) PROVE IInv'
  BY <1>6, TaskReceivesKeeps, TaskDownloadsKeeps, TaskDeliversKeeps DEF TaskStep
<1>7. ASSUME NEW s \in Segments, AckSegment(s) PROVE IInv'
  BY <1>7, AckSegmentKeeps
<1> QED
  BY <1>1, <1>2, <1>3, <1>4, <1>5, <1>6, <1>7 DEF Next

\* At every reachable state each received handle is in one place, one prefetch
\* is under way at most, the slot says :running exactly then, and the counter is
\* the bytes Broadway has.
THEOREM QueueProducerInductiveInvariant == Spec => []IInv
<1> QED
  BY InitIInv, NextIInv, PTL DEF Spec

\* Every variable has its type.
THEOREM QueueProducerTypeOK == Spec => []TypeOK
<1>1. IInv => TypeOK
  BY DEF IInv
<1> QED
  BY <1>1, QueueProducerInductiveInvariant, PTL

\* However segments, demand, acks and restarts interleave, Broadway never has
\* more unacked bytes than the budget, but for a single segment that is larger.
THEOREM QueueProducerBudgetRespected == Spec => []BudgetRespected
<1>1. IInv => BudgetRespected
  BY DEF IInv
<1> QED
  BY <1>1, QueueProducerInductiveInvariant, PTL

\* Until the pipeline drains a :poll is in the mailbox or on its way.
THEOREM QueueProducerPollLoopNeverStops == Spec => []PollLoopNeverStops
<1>1. IInv => PollLoopNeverStops
  BY DEF IInv
<1> QED
  BY <1>1, QueueProducerInductiveInvariant, PTL

\* A received message that is neither settled nor loaded is in a task, in the
\* mailbox or in the slot, unless a raise or a kill took it.
THEOREM QueueProducerNoHandleStranded == Spec => []NoHandleStranded
<1>1. IInv => NoHandleStranded
  BY DEF IInv
<1> QED
  BY <1>1, QueueProducerInductiveInvariant, PTL

\* A producer that answers drained? has no task of its own and no result on its
\* way: the slot would say :running.
THEOREM QueueProducerDrainedMeansIdle == Spec => []DrainedMeansIdle
<1>1. IInv => DrainedMeansIdle
  <2> SUFFICES ASSUME IInv, Drained, ~draining
               PROVE  inbox = {} /\ \A t \in Task : task[t] # Idle => task[t].orphan
    BY DEF DrainedMeansIdle
  <2>1. prefetch # Running
    BY Distinct DEF Drained
  <2>2. inbox = {} /\ \A t \in Task : ~Expected(t)
    BY <2>1 DEF IInv, OneUnderWay
  <2> QED
    BY <2>2 DEF Expected
<1> QED
  BY <1>1, QueueProducerInductiveInvariant, PTL

\* No step settles a handle twice, a second nack included, acks a loaded one or
\* nacks it after its last segment went out: what a step settles it finds where
\* only a received handle may be, or in the file that still has segments.
THEOREM QueueProducerSettledOnce == Spec => SettledOnce
<1> DEFINE Once == \A h \in Handle :
             /\ fate[h] \in {"acked", "nacked"} => fate'[h] = fate[h]
             /\ fate[h] = "loaded" /\ fate'[h] # fate[h] =>
                  fate'[h] = "nacked" /\ current.handle = h /\ Buffered(current)
<1>1. ASSUME IInv, [Next]_vars PROVE Once
  <2> DEFINE OnlyReceived == \A h \in Handle : fate[h] \notin {"queued", "received"} => fate'[h] = fate[h]
  <2>1. ASSUME OnlyReceived PROVE Once
    BY <2>1
  <2>2. /\ fate \in [Handle -> Fate] /\ NoHandle \notin Handle
        /\ prefetch.handle # NoHandle => fate[prefetch.handle] = "received"
        /\ \A r \in inbox : r.handle # NoHandle => fate[r.handle] = "received"
    BY <1>1, BoundsAssumption DEF IInv, TypeOK, PlacesApart
  <2>3. ASSUME UNCHANGED fate PROVE Once
    BY <2>1, <2>3
  <2>4. CASE HandlePoll
    <3>1. CASE UNCHANGED fate
      BY <2>3, <3>1
    <3>2. CASE fate' = Nack({prefetch.handle}) \/ fate' = [fate EXCEPT ![prefetch.handle] = "loaded"]
      <4>1. OnlyReceived
        BY <2>2, <3>2 DEF Nack, Settled
      <4> QED
        BY <2>1, <4>1
    <3> QED
      BY <2>4, <3>1, <3>2 DEF HandlePoll, IdlePoll, BusyPoll
  <2>5. ASSUME NEW r \in Result, HandlePrefetchResult(r) PROVE Once
    <3>1. r \in inbox /\ (fate' = Nack({r.handle}) \/ UNCHANGED fate)
      BY <2>5 DEF HandlePrefetchResult
    <3>2. OnlyReceived
      BY <2>2, <3>1 DEF Nack, Settled
    <3> QED
      BY <2>1, <3>2
  <2>6. CASE StopReceiving
    <3>1. OnlyReceived
      BY <2>2, <2>6 DEF StopReceiving, Nack, Settled
    <3> QED
      BY <2>1, <3>1
  <2>7. CASE PrepareForDraining
    <3>1. Buffered(current) => fate[current.handle] = "loaded"
      BY <1>1 DEF IInv, FileLoaded, Buffered, Remaining
    <3> QED
      BY <2>2, <2>7, <3>1 DEF PrepareForDraining, Nack, Settled
  <2>8. ASSUME NEW t \in Task, TaskStep(t) PROVE Once
    <3>1. TaskShape(t)
      BY <1>1 DEF IInv, PlacesApart
    <3>2. CASE TaskReceives(t)
      <4>1. OnlyReceived
        BY <2>2, <3>2 DEF TaskReceives
      <4> QED
        BY <2>1, <4>1
    <3>3. CASE TaskDownloads(t)
      <4>1. OnlyReceived
        BY <2>2, <3>1, <3>3 DEF TaskDownloads, TaskShape, Settled
      <4> QED
        BY <2>1, <4>1
    <3>4. CASE TaskDelivers(t)
      <4>1. OnlyReceived
        BY <2>2, <3>1, <3>4 DEF TaskDelivers, TaskShape, Nack, Settled
      <4> QED
        BY <2>1, <4>1
    <3> QED
      BY <2>8, <3>2, <3>3, <3>4 DEF TaskStep
  <2>9. ASSUME \/ \E d \in 1..MaxDemand : HandleDemand(d)
               \/ TimerFires \/ Die \/ LimitChanges \/ UNCHANGED vars
               \/ \E s \in Segments : AckSegment(s)
        PROVE  Once
    <3>1. UNCHANGED fate
      BY <2>9 DEF HandleDemand, TimerFires, Die, LimitChanges, vars, AckSegment
    <3> QED
      BY <2>3, <3>1
  <2> QED
    BY <1>1, <2>4, <2>5, <2>6, <2>7, <2>8, <2>9 DEF Next
<1>2. IInv /\ [Next]_vars => [Once]_vars
  BY <1>1
<1> QED
  BY <1>2, QueueProducerInductiveInvariant, PTL DEF Spec, SettledOnce

\* With nothing in flight a loaded file and demand for it always make progress:
\* neither the budget nor a segment above it can stall the producer.
THEOREM QueueProducerNeverStalls ==
  ASSUME NEW c \in [handle : Handle, emitted : Nat], Buffered(c),
         NEW n \in Nat \ {0}, NEW available \in Nat
  PROVE  TakeCount(c, n, available, TRUE) > 0
<1> DEFINE fits == {k \in 0..Remaining(c) :
         k <= n /\ \A j \in 1..k : (j = 1 /\ TRUE) \/ Size(Ahead(c, j)) <= available}
<1>1. Remaining(c) \in Nat /\ Remaining(c) > 0
  <2>1. Remaining(c) = Len(segmentsOf[c.handle]) - c.emitted /\ Len(segmentsOf[c.handle]) \in Nat
    BY BoundsAssumption, SegmentsAssumption DEF Remaining
  <2> QED
    BY <2>1 DEF Buffered
<1>2. 1 \in fits
  BY <1>1
<1>3. fits \in SUBSET (0..Remaining(c)) /\ fits # {}
  BY <1>2
<1>4. TakeCount(c, n, available, TRUE) = Max(fits)
  BY DEF TakeCount
<1> HIDE DEF fits
<1>5. Max(fits) \in fits /\ Max(fits) >= 1
  BY <1>1, <1>2, <1>3, MaxBounded
<1> DEFINE m == Max(fits)
<1>6. m \in 0..Remaining(c) /\ m >= 1
  BY <1>3, <1>5
<1> HIDE DEF m
<1>7. m > 0
  BY <1>1, <1>6
<1> QED
  BY <1>4, <1>7 DEF m

=============================================================================
