---------------------------- MODULE AtLeastOnce ----------------------------
(***************************************************************************)
(* What the consuming side of the spool promises about a message, with no  *)
(* mention of leases, counters or processes: the message and its object    *)
(* are removed only after some delivery of it was worked to the end, and   *)
(* neither step is undone.  A message may be processed again after it was  *)
(* processed, which this level does not see.                               *)
(***************************************************************************)
CONSTANTS
  Message,      \* queue entries
  Unreadable    \* messages nobody can decode: removed without being processed

VARIABLES
  processed,    \* messages some delivery of which was worked to the end
  removed       \* messages gone from the broker or whose object is gone

vars == <<processed, removed>>

Init == processed = {} /\ removed = {}

Process(m) ==
  /\ processed' = processed \cup {m}
  /\ UNCHANGED removed

Remove(m) ==
  /\ m \in processed \cup Unreadable
  /\ removed' = removed \cup {m}
  /\ UNCHANGED processed

Next == \E m \in Message : Process(m) \/ Remove(m)

Spec == Init /\ [][Next]_vars

=============================================================================
