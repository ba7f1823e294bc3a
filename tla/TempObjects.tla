----------------------------- MODULE TempObjects -----------------------------
(***************************************************************************)
(* What the reaper promises about the temporary objects of a bucket,       *)
(* stated without its pipeline: the write path creates objects under fresh *)
(* names and removes them, time passes, and the reaper removes an object   *)
(* only once its age has reached the staleness threshold.                  *)
(***************************************************************************)
EXTENDS Naturals

CONSTANTS Names, MaxTime, Staleness

VARIABLES
  clock,    \* the wall clock
  present,  \* the temporary objects in the bucket
  updated,  \* updated[n]: when object n was written
  used,     \* names ever created
  reaped    \* the objects the reaper has deleted

vars == <<clock, present, updated, used, reaped>>

Init ==
  /\ clock = 0
  /\ present = {}
  /\ updated = [n \in Names |-> 0]
  /\ used = {}
  /\ reaped = {}

Advance ==
  /\ clock < MaxTime
  /\ clock' = clock + 1
  /\ UNCHANGED <<present, updated, used, reaped>>

Create(n) ==
  /\ n \notin used
  /\ used' = used \cup {n}
  /\ present' = present \cup {n}
  /\ updated' = [updated EXCEPT ![n] = clock]
  /\ UNCHANGED <<clock, reaped>>

Remove(n) ==
  /\ n \in present
  /\ present' = present \ {n}
  /\ UNCHANGED <<clock, updated, used, reaped>>

\* The reaper deletes an object that has not been updated for at least the
\* staleness threshold.
Reap(n) ==
  /\ n \in present
  /\ clock - updated[n] >= Staleness
  /\ present' = present \ {n}
  /\ reaped' = reaped \cup {n}
  /\ UNCHANGED <<clock, updated, used>>

Next ==
  \/ Advance
  \/ \E n \in Names : Create(n) \/ Remove(n) \/ Reap(n)

Spec == Init /\ [][Next]_vars

=============================================================================
