--------------------------- MODULE SpoolAckProofs ---------------------------
(***************************************************************************)
(* Proofs about SpoolAck, for every set of messages, handles and items.    *)
(*                                                                         *)
(* None of the properties is inductive: nothing in NoPrematureAck says why *)
(* a cast may be handled or an object deleted.  The argument is that the   *)
(* counter of a row is the number of items bumped and not acked, lost ones *)
(* included, so that a process which sees it at zero knows the delivery is *)
(* complete; and a complete delivery stays so, because only the holder of  *)
(* an item can bump for more.                                              *)
(***************************************************************************)
EXTENDS SpoolAck, FiniteSetTheorems, TLAPS

\* An item is worked on or lost, never both.
HeldApartFromLost == \A h \in Handle : held[h] \cap lost[h] = {}

\* The counter of a row is the number of outstanding items.
CountIsOutstanding ==
  \A h \in rows : count[h] = Cardinality(held[h] \cup lost[h])

\* A handle has items only once its file is loaded, and a row only once it is
\* registered.
StageOrder ==
  \A h \in Handle :
    /\ stage[h] # "loaded" => held[h] = {} /\ lost[h] = {}
    /\ stage[h] \notin {"registered", "loaded"} => h \notin rows

\* A process that goes on to perform_ack, and a perform_ack message that names
\* an object, stand for a completed delivery.
AckMeansCompleted ==
  /\ \A h \in deciding : Completed(h)
  /\ \A c \in casts : c.object => Completed(c.handle)
  /\ \A c \in casts : ~c.object => AckStale

\* A nacked handle has no row, or has lost items and so a counter above zero;
\* a handle with a perform_ack message has been registered and has no row.
NackedStaysOpen ==
  /\ \A h \in nacked : h \notin rows \/ lost[h] # {}
  /\ \A h \in nacked : stage[h] \in {"registered", "loaded", "settled"}
  /\ \A c \in casts : c.object => c.handle \notin nacked
  /\ \A c \in casts : c.handle \notin rows /\ stage[c.handle] \in {"registered", "loaded"}

IInv ==
  /\ TypeOK /\ HeldApartFromLost /\ CountIsOutstanding /\ StageOrder
  /\ AckMeansCompleted /\ NackedStaysOpen
  /\ ObjectOutlivesWork /\ NoPrematureAck

-----------------------------------------------------------------------------
(* Lemmas. *)

\* Items are finite, so outstanding sets have a cardinality.
LEMMA OutstandingFinite ==
  ASSUME TypeOK, NEW h \in Handle
  PROVE  /\ IsFiniteSet(held[h] \cup lost[h])
         /\ Cardinality(held[h] \cup lost[h]) \in Nat
         /\ Cardinality(held[h] \cup lost[h]) = 0 <=> held[h] = {} /\ lost[h] = {}
<1>1. held[h] \cup lost[h] \in SUBSET Item
  BY DEF TypeOK
<1>2. IsFiniteSet(held[h] \cup lost[h])
  BY <1>1, ItemAssumption, FS_Subset
<1>3. QED
  BY <1>2, FS_CardinalityType, FS_EmptySet

\* TypeOK is inductive by itself.
LEMMA TypeStep == TypeOK /\ [Next]_vars => TypeOK'
<1> SUFFICES ASSUME TypeOK, [Next]_vars PROVE TypeOK'
  OBVIOUS
<1> USE MsgOfAssumption DEF TypeOK
<1>1. ASSUME NEW h \in Handle, HandleStep(h)
      PROVE  TypeOK'
  <2>1. CASE Receive(h)
    BY <2>1 DEF Receive, Stage
  <2>2. CASE Fetch(h)
    BY <2>2 DEF Fetch, Stage
  <2>3. CASE Discard(h)
    BY <2>3 DEF Discard, QueueAck, Stage
  <2>4. CASE Return(h)
    BY <2>4 DEF Return, QueueNack, Stage
  <2>5. CASE Register(h)
    BY <2>5 DEF Register, Stage
  <2>6. CASE Load(h)
    <3>1. PICK S \in SUBSET Item : Bump(h, S)
      BY <2>6 DEF Load
    <3>2. Cardinality(S) \in Nat
      BY FS_Subset, FS_CardinalityType, ItemAssumption
    <3>3. QED
      BY <2>6, <3>1, <3>2 DEF Load, Bump, Stage
  <2>7. CASE DrainCurrent(h)
    BY <2>7 DEF DrainCurrent, QueueNack
  <2>8. CASE Fork(h)
    <3>1. PICK S \in SUBSET Item : Bump(h, S)
      BY <2>8 DEF Fork
    <3>2. Cardinality(S) \in Nat
      BY FS_Subset, FS_CardinalityType, ItemAssumption
    <3>3. QED
      BY <2>8, <3>1, <3>2 DEF Fork, Bump
  <2>9. CASE PerformAck(h)
    <3>1. [handle |-> h, object |-> TRUE] \in Cast
      BY DEF Cast
    <3>2. QED
      BY <2>9, <3>1 DEF PerformAck
  <2>10. CASE ReclaimStale(h)
    <3>1. [handle |-> h, object |-> FALSE] \in Cast
      BY DEF Cast
    <3>2. QED
      BY <2>10, <3>1 DEF ReclaimStale
  <2>11. CASE NackTaken(h)
    BY <2>11 DEF NackTaken, QueueNack
  <2>12. ASSUME NEW S \in SUBSET Item, Ack(h, S)
         PROVE  TypeOK'
    <3>1. Cardinality(S) \in Nat
      BY FS_Subset, FS_CardinalityType, ItemAssumption
    <3>2. QED
      BY <2>12, <3>1 DEF Ack
  <2>13. ASSUME NEW i \in Item, Lose(h, i)
         PROVE  TypeOK'
    BY <2>13 DEF Lose
  <2>14. QED
    BY <1>1, <2>1, <2>2, <2>3, <2>4, <2>5, <2>6, <2>7, <2>8, <2>9, <2>10, <2>11,
       <2>12, <2>13 DEF HandleStep
<1>2. ASSUME NEW c \in Cast, HandlePerformAck(c)
      PROVE  TypeOK'
  BY <1>2 DEF HandlePerformAck, QueueAck, Cast
<1>3. ASSUME NEW m \in Message, ExpireLease(m) \/ DeleteObject(m)
      PROVE  TypeOK'
  BY <1>3 DEF ExpireLease, DeleteObject
<1>4. CASE ServerRestart \/ DeleterRestart
  BY <1>4 DEF ServerRestart, DeleterRestart
<1>5. CASE UNCHANGED vars
  BY <1>5 DEF vars
<1>6. QED
  BY <1>1, <1>2, <1>3, <1>4, <1>5 DEF Next

\* Only a holder bumps, so a completed delivery never gets work again.
LEMMA CompletedStable ==
  ASSUME TypeOK, [Next]_vars, NEW k \in Handle, Completed(k)
  PROVE  Completed(k)'
<1> USE DEF Completed, TypeOK
<1>1. ASSUME NEW h \in Handle, HandleStep(h)
      PROVE  Completed(k)'
  <2>1. CASE Receive(h) \/ Fetch(h) \/ Discard(h) \/ Return(h) \/ Register(h)
    BY <2>1 DEF Receive, Fetch, Discard, Return, Register
  <2>2. CASE Load(h) \/ Fork(h)
    BY <2>2 DEF Load, Fork, Bump
  <2>3. CASE DrainCurrent(h)
    BY <2>3 DEF DrainCurrent
  <2>4. CASE PerformAck(h) \/ ReclaimStale(h) \/ NackTaken(h)
    BY <2>4 DEF PerformAck, ReclaimStale, NackTaken
  <2>5. ASSUME NEW S \in SUBSET Item, Ack(h, S)
        PROVE  Completed(k)'
    BY <2>5 DEF Ack
  <2>6. ASSUME NEW i \in Item, Lose(h, i)
        PROVE  Completed(k)'
    BY <2>6 DEF Lose
  <2>7. QED
    BY <1>1, <2>1, <2>2, <2>3, <2>4, <2>5, <2>6 DEF HandleStep
<1>2. ASSUME NEW c \in Cast, HandlePerformAck(c)
      PROVE  Completed(k)'
  BY <1>2 DEF HandlePerformAck
<1>3. ASSUME NEW m \in Message, ExpireLease(m) \/ DeleteObject(m)
      PROVE  Completed(k)'
  BY <1>3 DEF ExpireLease, DeleteObject
<1>4. CASE ServerRestart \/ DeleterRestart
  BY <1>4 DEF ServerRestart, DeleterRestart
<1>5. CASE UNCHANGED vars
  BY <1>5 DEF vars
<1>6. QED
  BY <1>1, <1>2, <1>3, <1>4, <1>5 DEF Next

\* What has been shown of a message stays shown.
LEMMA ProcessedStable ==
  ASSUME TypeOK, [Next]_vars, NEW m \in Message, Processed(m)
  PROVE  Processed(m)'
<1>1. PICK h \in Handle : msgOf[h] = m /\ Completed(h)
  BY DEF Processed
<1>2. Completed(h)'
  BY <1>1, CompletedStable
<1>3. QED
  BY <1>1, <1>2 DEF Processed

-----------------------------------------------------------------------------
(* The inductive step, one conjunct of the invariant at a time. *)

LEMMA Initialization == Init => IInv
<1> SUFFICES ASSUME Init PROVE IInv
  OBVIOUS
<1>1. TypeOK
  BY DEF Init, TypeOK, Stage
<1>2. HeldApartFromLost /\ CountIsOutstanding /\ StageOrder /\ AckMeansCompleted
      /\ NackedStaysOpen /\ ObjectOutlivesWork /\ NoPrematureAck
  BY DEF Init, HeldApartFromLost, CountIsOutstanding, StageOrder, AckMeansCompleted,
         NackedStaysOpen, ObjectOutlivesWork, NoPrematureAck
<1>3. QED
  BY <1>1, <1>2 DEF IInv

\* Items are bumped for fresh and lost only while held.
LEMMA ApartStep ==
  ASSUME IInv, [Next]_vars
  PROVE  HeldApartFromLost'
<1> USE DEF HeldApartFromLost, IInv, TypeOK
<1>1. ASSUME NEW h \in Handle, HandleStep(h)
      PROVE  HeldApartFromLost'
  <2>1. CASE Receive(h) \/ Fetch(h) \/ Discard(h) \/ Return(h) \/ Register(h)
    BY <2>1 DEF Receive, Fetch, Discard, Return, Register
  <2>2. CASE Load(h) \/ Fork(h)
    BY <2>2 DEF Load, Fork, Bump, Used
  <2>3. CASE DrainCurrent(h)
    BY <2>3 DEF DrainCurrent
  <2>4. CASE PerformAck(h) \/ ReclaimStale(h) \/ NackTaken(h)
    BY <2>4 DEF PerformAck, ReclaimStale, NackTaken
  <2>5. ASSUME NEW S \in SUBSET Item, Ack(h, S)
        PROVE  HeldApartFromLost'
    BY <2>5 DEF Ack
  <2>6. ASSUME NEW i \in Item, Lose(h, i)
        PROVE  HeldApartFromLost'
    BY <2>6 DEF Lose
  <2>7. QED
    BY <1>1, <2>1, <2>2, <2>3, <2>4, <2>5, <2>6 DEF HandleStep
<1>2. ASSUME NEW c \in Cast, HandlePerformAck(c)
      PROVE  HeldApartFromLost'
  BY <1>2 DEF HandlePerformAck
<1>3. ASSUME NEW m \in Message, ExpireLease(m) \/ DeleteObject(m)
      PROVE  HeldApartFromLost'
  BY <1>3 DEF ExpireLease, DeleteObject
<1>4. CASE ServerRestart \/ DeleterRestart
  BY <1>4 DEF ServerRestart, DeleterRestart
<1>5. CASE UNCHANGED vars
  BY <1>5 DEF vars
<1>6. QED
  BY <1>1, <1>2, <1>3, <1>4, <1>5 DEF Next

\* The counter update of bump and of ack matches the change of the items, and
\* losing an item changes neither.
LEMMA CountStep ==
  ASSUME IInv, [Next]_vars
  PROVE  CountIsOutstanding'
<1> USE DEF CountIsOutstanding, IInv
<1>0. TypeOK
  OBVIOUS
<1>1. ASSUME NEW h \in Handle, HandleStep(h)
      PROVE  CountIsOutstanding'
  <2>1. CASE Receive(h) \/ Fetch(h) \/ Discard(h) \/ Return(h)
    BY <2>1 DEF Receive, Fetch, Discard, Return
  <2>2. CASE Register(h)
    <3>1. held[h] = {} /\ lost[h] = {}
      BY <2>2 DEF Register, StageOrder
    <3>2. Cardinality(held[h] \cup lost[h]) = 0
      BY <3>1, FS_EmptySet
    <3>3. QED
      BY <2>2, <3>2 DEF Register, TypeOK
  <2>3. CASE Load(h) \/ Fork(h)
    <3>1. PICK S \in SUBSET Item : Bump(h, S) /\ UNCHANGED <<rows, lost>>
      BY <2>3 DEF Load, Fork
    <3>2. IsFiniteSet(S) /\ Cardinality(S) \in Nat
      BY FS_Subset, FS_CardinalityType, ItemAssumption
    <3>3. S \cap (held[h] \cup lost[h]) = {}
      BY <3>1 DEF Bump, Used
    <3>4. Cardinality((held[h] \cup lost[h]) \cup S)
            = Cardinality(held[h] \cup lost[h]) + Cardinality(S)
      <4>1. Cardinality((held[h] \cup lost[h]) \cap S) = 0
        BY <3>3, FS_EmptySet
      <4>2. QED
        BY <4>1, <3>2, <1>0, OutstandingFinite, FS_Union
    <3>5. held'[h] \cup lost'[h] = (held[h] \cup lost[h]) \cup S
      BY <3>1, <1>0 DEF Bump, TypeOK
    <3>6. \A k \in Handle \ {h} : held'[k] = held[k] /\ lost'[k] = lost[k] /\ count'[k] = count[k]
      BY <3>1, <1>0 DEF Bump, TypeOK
    <3>7. h \in rows => count'[h] = Cardinality(held'[h] \cup lost'[h])
      BY <3>1, <3>4, <3>5, <1>0 DEF Bump, TypeOK
    <3>8. QED
      BY <3>1, <3>6, <3>7, <1>0 DEF TypeOK
  <2>4. CASE DrainCurrent(h)
    <3>1. PICK S \in SUBSET held[h] :
             /\ held' = [held EXCEPT ![h] = @ \ S]
             /\ lost' = [lost EXCEPT ![h] = @ \cup S]
      BY <2>4 DEF DrainCurrent
    <3>2. \A k \in Handle : held'[k] \cup lost'[k] = held[k] \cup lost[k]
      BY <3>1, <1>0 DEF TypeOK
    <3>3. QED
      BY <2>4, <3>2, <1>0 DEF DrainCurrent, TypeOK
  <2>5. CASE PerformAck(h) \/ ReclaimStale(h) \/ NackTaken(h)
    BY <2>5 DEF PerformAck, ReclaimStale, NackTaken
  <2>6. ASSUME NEW S \in SUBSET Item, Ack(h, S)
        PROVE  CountIsOutstanding'
    <3>1. IsFiniteSet(S) /\ Cardinality(S) \in Nat
      BY FS_Subset, FS_CardinalityType, ItemAssumption
    <3>2. /\ (held[h] \ S) \cap S = {} /\ lost[h] \cap S = {}
          /\ ((held[h] \ S) \cup lost[h]) \cup S = held[h] \cup lost[h]
      BY <2>6 DEF Ack, HeldApartFromLost
    <3>3. IsFiniteSet((held[h] \ S) \cup lost[h])
      <4>1. (held[h] \ S) \cup lost[h] \in SUBSET (held[h] \cup lost[h])
        OBVIOUS
      <4>2. QED
        BY <4>1, <1>0, OutstandingFinite, FS_Subset
    <3>4. Cardinality(held[h] \cup lost[h])
            = Cardinality((held[h] \ S) \cup lost[h]) + Cardinality(S)
      <4>1. ((held[h] \ S) \cup lost[h]) \cap S = {}
        BY <3>2
      <4>2. Cardinality(((held[h] \ S) \cup lost[h]) \cap S) = 0
        BY <4>1, FS_EmptySet
      <4>3. Cardinality((held[h] \ S) \cup lost[h]) \in Nat
        BY <3>3, FS_CardinalityType
      <4>4. Cardinality(((held[h] \ S) \cup lost[h]) \cup S)
              = Cardinality((held[h] \ S) \cup lost[h]) + Cardinality(S)
                  - Cardinality(((held[h] \ S) \cup lost[h]) \cap S)
        BY <3>1, <3>3, FS_Union
      <4>5. Cardinality(((held[h] \ S) \cup lost[h]) \cup S) = Cardinality(held[h] \cup lost[h])
        BY <3>2, Zenon
      <4>6. QED
        BY <3>1, <4>2, <4>3, <4>4, <4>5
    <3>5. Cardinality((held[h] \ S) \cup lost[h]) \in Nat
      BY <3>3, FS_CardinalityType
    <3>6. held'[h] \cup lost'[h] = (held[h] \ S) \cup lost[h]
      BY <2>6, <1>0 DEF Ack, TypeOK
    <3>7. h \in rows => count'[h] = Cardinality(held'[h] \cup lost'[h])
      BY <2>6, <3>1, <3>4, <3>5, <3>6, <1>0 DEF Ack, TypeOK
    <3>8. \A k \in Handle \ {h} : held'[k] = held[k] /\ lost'[k] = lost[k] /\ count'[k] = count[k]
      BY <2>6, <1>0 DEF Ack, TypeOK
    <3>9. rows' = rows
      BY <2>6 DEF Ack
    <3>10. QED
      BY <3>7, <3>8, <3>9, <1>0 DEF TypeOK
  <2>7. ASSUME NEW i \in Item, Lose(h, i)
        PROVE  CountIsOutstanding'
    <3>1. \A k \in Handle : held'[k] \cup lost'[k] = held[k] \cup lost[k]
      BY <2>7, <1>0 DEF Lose, TypeOK
    <3>2. QED
      BY <2>7, <3>1, <1>0 DEF Lose, TypeOK
  <2>8. QED
    BY <1>1, <2>1, <2>2, <2>3, <2>4, <2>5, <2>6, <2>7 DEF HandleStep
<1>2. ASSUME NEW c \in Cast, HandlePerformAck(c)
      PROVE  CountIsOutstanding'
  BY <1>2 DEF HandlePerformAck
<1>3. ASSUME NEW m \in Message, ExpireLease(m) \/ DeleteObject(m)
      PROVE  CountIsOutstanding'
  BY <1>3 DEF ExpireLease, DeleteObject
<1>4. CASE ServerRestart \/ DeleterRestart
  BY <1>4 DEF ServerRestart, DeleterRestart
<1>5. CASE UNCHANGED vars
  BY <1>5 DEF vars
<1>6. QED
  BY <1>1, <1>2, <1>3, <1>4, <1>5 DEF Next

LEMMA StageStep ==
  ASSUME IInv, [Next]_vars
  PROVE  StageOrder'
<1> USE DEF StageOrder, IInv, TypeOK
<1>1. ASSUME NEW h \in Handle, HandleStep(h)
      PROVE  StageOrder'
  <2>1. CASE Receive(h) \/ Fetch(h) \/ Discard(h) \/ Return(h) \/ Register(h)
    BY <2>1 DEF Receive, Fetch, Discard, Return, Register
  <2>2. CASE Load(h) \/ Fork(h)
    BY <2>2 DEF Load, Fork, Bump
  <2>3. CASE DrainCurrent(h)
    BY <2>3 DEF DrainCurrent
  <2>4. CASE PerformAck(h) \/ ReclaimStale(h) \/ NackTaken(h)
    BY <2>4 DEF PerformAck, ReclaimStale, NackTaken
  <2>5. ASSUME NEW S \in SUBSET Item, Ack(h, S)
        PROVE  StageOrder'
    BY <2>5 DEF Ack
  <2>6. ASSUME NEW i \in Item, Lose(h, i)
        PROVE  StageOrder'
    BY <2>6 DEF Lose
  <2>7. QED
    BY <1>1, <2>1, <2>2, <2>3, <2>4, <2>5, <2>6 DEF HandleStep
<1>2. ASSUME NEW c \in Cast, HandlePerformAck(c)
      PROVE  StageOrder'
  BY <1>2 DEF HandlePerformAck
<1>3. ASSUME NEW m \in Message, ExpireLease(m) \/ DeleteObject(m)
      PROVE  StageOrder'
  BY <1>3 DEF ExpireLease, DeleteObject
<1>4. CASE ServerRestart \/ DeleterRestart
  BY <1>4 DEF ServerRestart, DeleterRestart
<1>5. CASE UNCHANGED vars
  BY <1>5 DEF vars
<1>6. QED
  BY <1>1, <1>2, <1>3, <1>4, <1>5 DEF Next

\* A counter seen at zero means that nothing is outstanding, and that is final.
LEMMA AckMeansCompletedStep ==
  ASSUME IInv, [Next]_vars
  PROVE  AckMeansCompleted'
<1> USE DEF IInv
<1>0. \A k \in Handle : Completed(k) => Completed(k)'
  BY CompletedStable
<1>1. ASSUME NEW h \in Handle, HandleStep(h)
      PROVE  AckMeansCompleted'
  <2>1. CASE Receive(h) \/ Fetch(h) \/ Discard(h) \/ Return(h) \/ Register(h) \/ NackTaken(h)
    BY <2>1, <1>0 DEF Receive, Fetch, Discard, Return, Register, NackTaken,
                      AckMeansCompleted, TypeOK, Cast
  <2>2. CASE Load(h) \/ Fork(h) \/ DrainCurrent(h)
    BY <2>2, <1>0 DEF Load, Fork, DrainCurrent, AckMeansCompleted, TypeOK, Cast
  <2>3. CASE PerformAck(h)
    BY <2>3, <1>0 DEF PerformAck, AckMeansCompleted, TypeOK, Cast
  <2>4. CASE ReclaimStale(h)
    BY <2>4, <1>0 DEF ReclaimStale, AckMeansCompleted, TypeOK, Cast
  <2>5. ASSUME NEW S \in SUBSET Item, Ack(h, S)
        PROVE  AckMeansCompleted'
    <3>1. casts' = casts
      BY <2>5 DEF Ack
    <3>2. ASSUME h \in rows, count'[h] <= 0
          PROVE  Completed(h)'
      <4>1. CountIsOutstanding' /\ TypeOK' /\ rows' = rows
        BY <2>5, CountStep, TypeStep DEF Ack
      <4>2. count'[h] = Cardinality(held'[h] \cup lost'[h])
        BY <4>1, <3>2 DEF CountIsOutstanding
      <4>3. \A k \in Handle :
              /\ Cardinality(held'[k] \cup lost'[k]) \in Nat
              /\ Cardinality(held'[k] \cup lost'[k]) = 0 <=> held'[k] = {} /\ lost'[k] = {}
        <5>1. ASSUME NEW k \in Handle
              PROVE  /\ held'[k] \cup lost'[k] \in SUBSET Item
                     /\ IsFiniteSet(held'[k] \cup lost'[k])
          BY <4>1, ItemAssumption, FS_Subset DEF TypeOK
        <5>2. QED
          BY <5>1, FS_CardinalityType, FS_EmptySet
      <4>4. held'[h] = {} /\ lost'[h] = {}
        BY <4>2, <4>3, <3>2
      <4>5. stage'[h] = "loaded"
        BY <2>5 DEF Ack, StageOrder
      <4>6. QED
        BY <4>4, <4>5 DEF Completed
    <3>3. \A k \in deciding' : k \in deciding \/ (k = h /\ h \in rows /\ count'[h] <= 0)
      BY <2>5 DEF Ack
    <3>4. QED
      BY <3>1, <3>2, <3>3, <1>0 DEF AckMeansCompleted, TypeOK, Cast
  <2>6. ASSUME NEW i \in Item, Lose(h, i)
        PROVE  AckMeansCompleted'
    BY <2>6, <1>0 DEF Lose, AckMeansCompleted, TypeOK, Cast
  <2>7. QED
    BY <1>1, <2>1, <2>2, <2>3, <2>4, <2>5, <2>6 DEF HandleStep
<1>2. ASSUME NEW c \in Cast, HandlePerformAck(c)
      PROVE  AckMeansCompleted'
  BY <1>2, <1>0 DEF HandlePerformAck, AckMeansCompleted, TypeOK, Cast
<1>3. ASSUME NEW m \in Message, ExpireLease(m) \/ DeleteObject(m)
      PROVE  AckMeansCompleted'
  BY <1>3, <1>0 DEF ExpireLease, DeleteObject, AckMeansCompleted, TypeOK, Cast
<1>4. CASE ServerRestart \/ DeleterRestart
  BY <1>4, <1>0 DEF ServerRestart, DeleterRestart, AckMeansCompleted, TypeOK, Cast
<1>5. CASE UNCHANGED vars
  BY <1>5, <1>0 DEF vars, AckMeansCompleted, TypeOK, Cast
<1>6. QED
  BY <1>1, <1>2, <1>3, <1>4, <1>5 DEF Next

\* Whoever nacks has either taken the row or leaves lost items behind.
LEMMA NackedStep ==
  ASSUME IInv, [Next]_vars
  PROVE  NackedStaysOpen'
<1> USE DEF NackedStaysOpen, IInv, TypeOK
<1>0. \A c \in casts : c.handle \in Handle /\ c.object \in BOOLEAN
  BY DEF Cast
<1>1. ASSUME NEW h \in Handle, HandleStep(h)
      PROVE  NackedStaysOpen'
  <2>1. CASE Receive(h) \/ Fetch(h) \/ Discard(h)
    BY <1>0, <2>1 DEF Receive, Fetch, Discard
  <2>2. CASE Return(h)
    <3>1. h \notin rows /\ \A c \in casts : c.handle # h
      BY <2>2 DEF Return, StageOrder
    <3>2. nacked' = nacked \cup {h} /\ UNCHANGED <<rows, lost, casts>>
          /\ stage' = [stage EXCEPT ![h] = "settled"]
      BY <2>2 DEF Return
    <3>3. QED
      BY <1>0, <3>1, <3>2
  <2>3. CASE Register(h)
    BY <2>3 DEF Register, StageOrder, Cast
  <2>4. CASE Load(h) \/ Fork(h)
    BY <1>0, <2>4 DEF Load, Fork
  <2>5. CASE DrainCurrent(h)
    <3>1. PICK S \in (SUBSET held[h]) \ {{}} : lost' = [lost EXCEPT ![h] = @ \cup S]
      BY <2>5 DEF DrainCurrent
    <3>2. \A c \in casts : c.object => c.handle # h
      BY <3>1 DEF AckMeansCompleted, Completed
    <3>3. stage[h] = "loaded" /\ nacked' = nacked \cup {h} /\ UNCHANGED <<rows, casts, stage>>
      BY <2>5 DEF DrainCurrent
    <3>4. QED
      BY <1>0, <3>1, <3>2, <3>3
  <2>6. CASE PerformAck(h)
    BY <2>6 DEF PerformAck, AckMeansCompleted, Completed, Cast
  <2>7. CASE ReclaimStale(h)
    <3>1. rows' = rows \ {h} /\ UNCHANGED <<nacked, lost, stage>>
      BY <2>7 DEF ReclaimStale
    <3>2. stage[h] \in {"registered", "loaded"}
      BY <2>7 DEF ReclaimStale, StageOrder
    <3>3. \A c \in casts' : c \in casts \/ (c.handle = h /\ c.object = FALSE)
      BY <2>7 DEF ReclaimStale
    <3>4. QED
      BY <1>0, <3>1, <3>2, <3>3
  <2>8. CASE NackTaken(h)
    BY <2>8 DEF NackTaken, StageOrder, Cast
  <2>9. ASSUME NEW S \in SUBSET Item, Ack(h, S)
        PROVE  NackedStaysOpen'
    BY <2>9 DEF Ack
  <2>10. ASSUME NEW i \in Item, Lose(h, i)
         PROVE  NackedStaysOpen'
    BY <2>10 DEF Lose
  <2>11. QED
    BY <1>1, <2>1, <2>2, <2>3, <2>4, <2>5, <2>6, <2>7, <2>8, <2>9, <2>10 DEF HandleStep
<1>2. ASSUME NEW c \in Cast, HandlePerformAck(c)
      PROVE  NackedStaysOpen'
  BY <1>2 DEF HandlePerformAck
<1>3. ASSUME NEW m \in Message, ExpireLease(m) \/ DeleteObject(m)
      PROVE  NackedStaysOpen'
  BY <1>3 DEF ExpireLease, DeleteObject
<1>4. CASE ServerRestart \/ DeleterRestart
  BY <1>4 DEF ServerRestart, DeleterRestart
<1>5. CASE UNCHANGED vars
  BY <1>5 DEF vars
<1>6. QED
  BY <1>1, <1>2, <1>3, <1>4, <1>5 DEF Next

\* Objects are queued for deletion for completed deliveries, messages are acked
\* for those or because their object is gone or was never readable.
LEMMA RemovalStep ==
  ASSUME IInv, [Next]_vars
  PROVE  ObjectOutlivesWork' /\ NoPrematureAck'
<1> USE DEF ObjectOutlivesWork, NoPrematureAck, IInv
<1>0. \A m \in Message : Processed(m) => Processed(m)'
  BY ProcessedStable
<1>1. ASSUME NEW h \in Handle, HandleStep(h)
      PROVE  ObjectOutlivesWork' /\ NoPrematureAck'
  <2>1. CASE Discard(h)
    <3>1. /\ msgOf[h] \in Message
          /\ msgOf[h] \in deleted \cup Undecodable
          /\ \A m \in acked' : m \in acked \/ m = msgOf[h]
          /\ deleted' = deleted /\ deletions' = deletions
      BY <2>1, MsgOfAssumption DEF Discard, QueueAck
    <3>2. QED
      BY <3>1, <1>0 DEF TypeOK
  <2>2. CASE Receive(h) \/ Fetch(h) \/ Register(h) \/ Return(h) \/ NackTaken(h) \/ DrainCurrent(h)
    <3>1. UNCHANGED <<acked, deleted, deletions>>
      BY <2>2 DEF Receive, Fetch, Register, Return, NackTaken, DrainCurrent, QueueNack
    <3>2. QED
      BY <3>1, <1>0 DEF TypeOK
  <2>3. CASE \/ Load(h) \/ Fork(h) \/ PerformAck(h) \/ ReclaimStale(h)
             \/ (\E S \in SUBSET Item : Ack(h, S)) \/ (\E i \in Item : Lose(h, i))
    <3>1. UNCHANGED <<acked, deleted, deletions>>
      BY <2>3 DEF Load, Fork, PerformAck, ReclaimStale, Ack, Lose
    <3>2. QED
      BY <3>1, <1>0 DEF TypeOK
  <2>4. QED
    BY <1>1, <2>1, <2>2, <2>3 DEF HandleStep
<1>2. ASSUME NEW c \in Cast, HandlePerformAck(c)
      PROVE  ObjectOutlivesWork' /\ NoPrematureAck'
  <2>1. c.handle \in Handle /\ c.object \in BOOLEAN
    BY DEF Cast
  <2>2. msgOf[c.handle] \in Message
    BY <2>1, MsgOfAssumption
  <2>3. c.object => Processed(msgOf[c.handle])
    BY <1>2, <2>1 DEF HandlePerformAck, AckMeansCompleted, Processed
  <2>4. c.object \/ AckStale
    BY <1>2 DEF HandlePerformAck, AckMeansCompleted
  <2>5. /\ \A m \in acked' : m \in acked \/ m = msgOf[c.handle]
        /\ \A m \in deletions' : m \in deletions \/ (m = msgOf[c.handle] /\ c.object)
        /\ deleted' = deleted
    BY <1>2 DEF HandlePerformAck, QueueAck
  <2>6. QED
    BY <1>0, <2>2, <2>3, <2>4, <2>5 DEF TypeOK
<1>3. ASSUME NEW m \in Message, ExpireLease(m) \/ DeleteObject(m)
      PROVE  ObjectOutlivesWork' /\ NoPrematureAck'
  <2>1. /\ acked' = acked
        /\ \A x \in deleted' \cup deletions' : x \in deleted \cup deletions
    BY <1>3 DEF ExpireLease, DeleteObject
  <2>2. QED
    BY <2>1, <1>0 DEF TypeOK
<1>4. CASE ServerRestart \/ DeleterRestart
  <2>1. /\ acked' = acked /\ deleted' = deleted
        /\ deletions' \subseteq deletions
    BY <1>4 DEF ServerRestart, DeleterRestart
  <2>2. QED
    BY <2>1, <1>0 DEF TypeOK
<1>5. CASE UNCHANGED vars
  BY <1>5, <1>0 DEF vars, TypeOK
<1>6. QED
  BY <1>1, <1>2, <1>3, <1>4, <1>5 DEF Next

-----------------------------------------------------------------------------
(* The refinement: which steps process a message, which remove one. *)

\* Only the ack of a last item completes a delivery.
LEMMA CompletionStep ==
  ASSUME IInv, [Next]_vars, ~ \E h \in Handle, S \in SUBSET Item : Ack(h, S),
         NEW k \in Handle
  PROVE  Completed(k)' = Completed(k)
<1> USE DEF IInv, TypeOK, Completed
<1>1. ASSUME NEW h \in Handle, HandleStep(h)
      PROVE  Completed(k)' = Completed(k)
  <2>1. CASE Receive(h) \/ Fetch(h) \/ Discard(h) \/ Return(h) \/ Register(h)
    BY <2>1 DEF Receive, Fetch, Discard, Return, Register
  <2>2. CASE Load(h)
    <3>1. PICK S \in SUBSET Item : Bump(h, S)
      BY <2>2 DEF Load
    <3>2. S # {} /\ held' = [held EXCEPT ![h] = @ \cup S] /\ lost' = lost
          /\ stage[h] = "registered" /\ stage' = [stage EXCEPT ![h] = "loaded"]
      BY <2>2, <3>1 DEF Load, Bump
    <3>3. QED
      BY <3>2
  <2>3. CASE Fork(h)
    <3>1. PICK S \in SUBSET Item : Bump(h, S)
      BY <2>3 DEF Fork
    <3>2. S # {} /\ held' = [held EXCEPT ![h] = @ \cup S] /\ held[h] # {}
          /\ lost' = lost /\ stage' = stage
      BY <2>3, <3>1 DEF Fork, Bump
    <3>3. QED
      BY <3>2
  <2>4. CASE DrainCurrent(h)
    <3>1. PICK S \in (SUBSET held[h]) \ {{}} :
             /\ held' = [held EXCEPT ![h] = @ \ S]
             /\ lost' = [lost EXCEPT ![h] = @ \cup S]
      BY <2>4 DEF DrainCurrent
    <3>2. stage' = stage
      BY <2>4 DEF DrainCurrent
    <3>3. QED
      BY <3>1, <3>2
  <2>5. CASE PerformAck(h) \/ ReclaimStale(h) \/ NackTaken(h)
    BY <2>5 DEF PerformAck, ReclaimStale, NackTaken
  <2>6. ASSUME NEW i \in Item, Lose(h, i)
        PROVE  Completed(k)' = Completed(k)
    BY <2>6 DEF Lose
  <2>7. QED
    BY <1>1, <2>1, <2>2, <2>3, <2>4, <2>5, <2>6 DEF HandleStep
<1>2. ASSUME NEW c \in Cast, HandlePerformAck(c)
      PROVE  Completed(k)' = Completed(k)
  BY <1>2 DEF HandlePerformAck
<1>3. ASSUME NEW m \in Message, ExpireLease(m) \/ DeleteObject(m)
      PROVE  Completed(k)' = Completed(k)
  BY <1>3 DEF ExpireLease, DeleteObject
<1>4. CASE ServerRestart \/ DeleterRestart
  BY <1>4 DEF ServerRestart, DeleterRestart
<1>5. CASE UNCHANGED vars
  BY <1>5 DEF vars
<1>6. QED
  BY <1>1, <1>2, <1>3, <1>4, <1>5 DEF Next

\* A step removes at most one message, and only a processed or unreadable one.
LEMMA RemovedStep ==
  ASSUME IInv, [Next]_vars, ~AckStale
  PROVE  \/ acked' \cup deleted' = acked \cup deleted
         \/ \E m \in Message : /\ Processed(m) \/ m \in Undecodable
                               /\ acked' \cup deleted' = (acked \cup deleted) \cup {m}
<1> USE DEF IInv, TypeOK, ObjectOutlivesWork
<1>1. ASSUME NEW h \in Handle, HandleStep(h), ~ Discard(h)
      PROVE  acked' = acked /\ deleted' = deleted
  BY <1>1 DEF HandleStep, Receive, Fetch, Return, Register, Load, DrainCurrent, Fork, PerformAck,
              ReclaimStale, NackTaken, Ack, Lose, QueueNack
<1>2. ASSUME NEW h \in Handle, Discard(h)
      PROVE  /\ msgOf[h] \in Message
             /\ Processed(msgOf[h]) \/ msgOf[h] \in Undecodable
             /\ acked' \in {acked, acked \cup {msgOf[h]}} /\ deleted' = deleted
  BY <1>2, MsgOfAssumption DEF Discard, QueueAck
<1>3. ASSUME NEW c \in Cast, HandlePerformAck(c)
      PROVE  /\ msgOf[c.handle] \in Message
             /\ Processed(msgOf[c.handle])
             /\ acked' \in {acked, acked \cup {msgOf[c.handle]}} /\ deleted' = deleted
  <2>1. c.handle \in Handle /\ Completed(c.handle)
    BY <1>3 DEF HandlePerformAck, AckMeansCompleted, Cast
  <2>2. QED
    BY <1>3, <2>1, MsgOfAssumption DEF HandlePerformAck, QueueAck, Processed
<1>4. ASSUME NEW m \in Message, ExpireLease(m)
      PROVE  acked' = acked /\ deleted' = deleted
  BY <1>4 DEF ExpireLease
<1>5. ASSUME NEW m \in Message, DeleteObject(m)
      PROVE  Processed(m) /\ acked' = acked /\ deleted' \in {deleted, deleted \cup {m}}
  BY <1>5 DEF DeleteObject
<1>6. CASE ServerRestart \/ DeleterRestart \/ UNCHANGED vars
  BY <1>6 DEF ServerRestart, DeleterRestart, vars
<1>7. QED
  BY <1>1, <1>2, <1>3, <1>4, <1>5, <1>6 DEF Next

-----------------------------------------------------------------------------
(* The theorems. *)

\* Every variable of SpoolAck keeps its type, whatever the constants.
THEOREM SpoolAckTypeOK == Spec => []TypeOK
<1>1. Init => TypeOK
  BY Initialization DEF IInv
<1>2. TypeOK /\ [Next]_vars => TypeOK'
  BY TypeStep
<1>3. QED
  BY <1>1, <1>2, PTL DEF Spec

\* The strengthened invariant the other theorems rest on.
THEOREM SpoolAckInductiveInvariant == Spec => []IInv
<1>1. Init => IInv
  BY Initialization
<1>2. IInv /\ [Next]_vars => IInv'
  <2>1. IInv => TypeOK
    BY DEF IInv
  <2>2. QED
    BY <2>1, TypeStep, ApartStep, CountStep, StageStep, AckMeansCompletedStep, NackedStep,
       RemovalStep DEF IInv
<1>3. QED
  BY <1>1, <1>2, PTL DEF Spec

\* With ack_stale off, the broker removes a message only when some delivery of it
\* had every bumped item acked: SpoolAck.ack/2 never acks the queue early, however
\* its decrement and its take interleave with bumps, drains, sweeps and restarts.
THEOREM SpoolAckNoPrematureAck == Spec => []NoPrematureAck
<1>1. IInv => NoPrematureAck
  BY DEF IInv
<1>2. QED
  BY <1>1, SpoolAckInductiveInvariant, PTL

\* Whatever the configuration, the object of a message is deleted only when some
\* delivery of the message was worked to the end.
THEOREM SpoolAckObjectOutlivesWork == Spec => []ObjectOutlivesWork
<1>1. IInv => ObjectOutlivesWork
  BY DEF IInv
<1>2. QED
  BY <1>1, SpoolAckInductiveInvariant, PTL

\* With ack_stale off, a handle that was nacked by a drain, a failed prefetch or
\* nack_pending is never in the server's mailbox to be acked.
THEOREM SpoolAckNackedNeverAcked == Spec => []NackedNeverAcked
<1>1. IInv => NackedNeverAcked
  BY DEF IInv, NackedStaysOpen, AckMeansCompleted, NackedNeverAcked
<1>2. QED
  BY <1>1, SpoolAckInductiveInvariant, PTL

\* With ack_stale off, SpoolAck implements AtLeastOnce: a message and its object
\* are removed only after it was processed, and neither is undone.
THEOREM SpoolAckImplementsAtLeastOnce ==
  ASSUME ~AckStale
  PROVE  Spec => ImplementsAtLeastOnce
<1> DEFINE processed == {m \in Message : Processed(m)}
           removed == acked \cup deleted
<1>1. Init => Delivery!Init
  BY DEF Init, Delivery!Init, Processed, Completed
<1>2. ASSUME IInv, [Next]_vars
      PROVE  [Delivery!Next]_(Delivery!vars)
  <2>1. CASE \E h \in Handle, S \in SUBSET Item : Ack(h, S)
    <3>1. PICK h \in Handle, S \in SUBSET Item : Ack(h, S)
      BY <2>1
    <3>2. removed' = removed
      BY <3>1 DEF Ack
    <3>3. msgOf[h] \in Message
      BY MsgOfAssumption
    <3>4. \A k \in Handle \ {h} : Completed(k)' = Completed(k)
      BY <1>2, <3>1 DEF Ack, Completed, IInv, TypeOK
    <3>5. processed' \in {processed, processed \cup {msgOf[h]}}
      <4>1. processed \subseteq processed'
        BY <1>2, ProcessedStable DEF IInv
      <4>2. \A m \in processed' : m \in processed \/ m = msgOf[h]
        BY <3>4 DEF Processed
      <4>3. QED
        BY <4>1, <4>2
    <3>6. QED
      BY <3>2, <3>3, <3>5 DEF Delivery!Next, Delivery!Process, Delivery!vars
  <2>2. CASE ~ \E h \in Handle, S \in SUBSET Item : Ack(h, S)
    <3>1. processed' = processed
      BY <1>2, <2>2, CompletionStep DEF Processed
    <3>2. removed' = acked' \cup deleted'
      OBVIOUS
    <3>3. QED
      BY <1>2, <3>1, <3>2, RemovedStep DEF Delivery!Next, Delivery!Remove, Delivery!vars
  <2>3. QED
    BY <2>1, <2>2
<1>3. QED
  BY <1>1, <1>2, SpoolAckInductiveInvariant, PTL DEF Spec, ImplementsAtLeastOnce, Delivery!Spec

=============================================================================
