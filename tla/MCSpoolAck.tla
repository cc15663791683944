----------------------------- MODULE MCSpoolAck -----------------------------
(* SpoolAck with one message delivered up to twice, a second one that       *)
(* cannot be decoded, and three units of work.  Items are interchangeable,  *)
(* and so are the two deliveries of m1.                                     *)
EXTENDS SpoolAck, TLC

CONSTANTS m1, m2, h1, h2, h3, i1, i2, i3

MCMsgOf == [h \in Handle |-> IF h = h3 THEN m2 ELSE m1]

Symmetry == Permutations({h1, h2}) \cup Permutations({i1, i2, i3})

=============================================================================
