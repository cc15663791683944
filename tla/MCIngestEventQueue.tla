--------------------------- MODULE MCIngestEventQueue ---------------------------
(* IngestEventQueue with batches of one or two events, whose ids collide.   *)
EXTENDS IngestEventQueue, TLC

CONSTANTS w1, w2, h1, h2, a, b, c, i, j

\* One event.
MCBatchOne == w1 :> <<a>>
MCHandleOne == w1 :> h1

\* Two batches from two segments, of one event each, with one id.
MCBatchPair == w1 :> <<a>> @@ w2 :> <<b>>
MCHandlePair == w1 :> h1 @@ w2 :> h2

\* One batch of two events.
MCBatchTwo == w1 :> <<a, b>>

\* Three events with one id, two of them in one batch.
MCBatchThree == w1 :> <<a>> @@ w2 :> <<b, c>>

MCSameId == a :> i @@ b :> i @@ c :> i
MCOwnId == a :> i @@ b :> j

Symmetry == Permutations(Pipeline)

=============================================================================
