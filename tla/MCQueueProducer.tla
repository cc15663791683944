-------------------------- MODULE MCQueueProducer --------------------------
(* QueueProducer with a file of one segment above the byte budget between   *)
(* two that fit, and a file of one small segment.                           *)
EXTENDS QueueProducer, TLC

CONSTANTS h1, h2

MCSegmentsOf == h1 :> <<1, 3, 1>> @@ h2 :> <<2>>

Symmetry == Permutations(Task)

=============================================================================
