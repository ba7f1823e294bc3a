------------------------ MODULE GarbageCollectProofs ------------------------
(***************************************************************************)
(* Proofs about the reaper model GarbageCollect, for all values of its     *)
(* constants that satisfy the module's assumptions.                        *)
(***************************************************************************)
EXTENDS GarbageCollect, FiniteSetTheorems, TLAPS

USE NamesAssumption, TimeAssumption, ChanCapAssumption

\* The type of the channel items the list stage sends.
ListItem == [name : Names, updated : 0..MaxTime]

\* TypeOK, split by the three groups of variables: the bucket and clock,
\* the loop, and the locals of a garbageCollectOnce call.
TypeBucket ==
  /\ clock \in 0..MaxTime
  /\ present \subseteq used /\ used \subseteq Names
  /\ updated \in [Names -> 0..MaxTime]
  /\ reaped \subseteq used

TypeLoop ==
  /\ ctxDone \in BOOLEAN /\ tick \in BOOLEAN
  /\ loop \in {"waiting", "running", "stopped"}

TypeRun ==
  /\ runNow \in 0..MaxTime
  /\ listing \subseteq Names /\ toList \subseteq listing
  /\ minObjects \in Seq(ListItem) /\ Len(minObjects) <= ChanCap
  /\ staleNames \in Seq(Names) /\ Len(staleNames) <= ChanCap
  /\ held \in Names \cup {NoName}
  /\ stage \in [Stages -> {"running", "done"}]
  /\ groupErr \in Errors /\ groupCancelled \in BOOLEAN
  /\ objectsDeleted \in Nat /\ deletedInRun \subseteq Names

LEMMA TypeSplit == TypeOK <=> TypeBucket /\ TypeLoop /\ TypeRun
  BY Zenon DEF TypeOK, TypeBucket, TypeLoop, TypeRun, ListItem

\* The groups an action leaves unchanged keep their type.
LEMMA BucketUnchanged ==
  ASSUME TypeBucket, UNCHANGED bucketVars PROVE TypeBucket'
  BY Zenon DEF TypeBucket, bucketVars

LEMMA LoopUnchanged ==
  ASSUME TypeLoop, UNCHANGED loopVars PROVE TypeLoop'
  BY Zenon DEF TypeLoop, loopVars

LEMMA RunUnchanged ==
  ASSUME TypeRun, UNCHANGED runVars PROVE TypeRun'
  BY Zenon DEF TypeRun, runVars

\* A goroutine's return keeps the group's error and cancellation typed.
LEMMA ReturnType ==
  ASSUME NEW s \in Stages, NEW e \in Errors, TypeRun, Return(s, e)
  PROVE  /\ stage' \in [Stages -> {"running", "done"}]
         /\ groupErr' \in Errors /\ groupCancelled' \in BOOLEAN
  <1>1. stage' \in [Stages -> {"running", "done"}]
    BY DEF Return, TypeRun
  <1>2. groupErr' \in Errors /\ groupCancelled' \in BOOLEAN
    BY Zenon DEF Return, TypeRun
  <1>3. QED
    BY <1>1, <1>2

-----------------------------------------------------------------------------
(* Type correctness.                                                       *)

\* Every step of the reaper and of its environment keeps each variable in
\* its type: the channels never exceed their capacity and the counter,
\* clock and captured time stay in range.
THEOREM TypeCorrect == Spec => []TypeOK
<1>1. Init => TypeOK
  <2> SUFFICES ASSUME Init PROVE TypeBucket /\ TypeLoop /\ TypeRun
    BY TypeSplit
  <2>1. TypeBucket
    BY DEF Init, TypeBucket
  <2>2. TypeLoop
    BY Zenon DEF Init, TypeLoop
  <2>3. TypeRun
    <3>1. groupErr \in Errors /\ groupCancelled \in BOOLEAN
      BY Zenon DEF Init, NoRun, Errors
    <3>2. QED
      BY <3>1 DEF Init, NoRun, TypeRun, Stages
  <2>4. QED
    BY <2>1, <2>2, <2>3
<1>2. TypeOK /\ [Next]_vars => TypeOK'
  <2> SUFFICES ASSUME TypeBucket, TypeLoop, TypeRun, [Next]_vars
               PROVE  TypeBucket' /\ TypeLoop' /\ TypeRun'
    BY Zenon DEF TypeOK, TypeBucket, TypeLoop, TypeRun, ListItem
  <2>1. CASE Tick
    <3>1. TypeBucket'
      BY <2>1 DEF Tick, TypeBucket
    <3>2. TypeLoop'
      BY <2>1, Zenon DEF Tick, TypeLoop
    <3>3. QED
      BY <2>1, <3>1, <3>2, RunUnchanged DEF Tick
  <2>2. CASE Cancel
    <3>1. TypeLoop'
      BY <2>2, Zenon DEF Cancel, TypeLoop
    <3>2. QED
      BY <2>2, <3>1, BucketUnchanged, RunUnchanged DEF Cancel
  <2>3. ASSUME NEW n \in Names, CreateTemp(n) PROVE TypeBucket' /\ TypeLoop' /\ TypeRun'
    <3>1. TypeBucket'
      BY <2>3 DEF CreateTemp, TypeBucket
    <3>2. QED
      BY <2>3, <3>1, LoopUnchanged, RunUnchanged DEF CreateTemp
  <2>4. ASSUME NEW n \in Names, RemoveTemp(n) PROVE TypeBucket' /\ TypeLoop' /\ TypeRun'
    <3>1. TypeBucket'
      BY <2>4 DEF RemoveTemp, TypeBucket
    <3>2. QED
      BY <2>4, <3>1, LoopUnchanged, RunUnchanged DEF RemoveTemp
  <2>5. CASE StartRun
    <3>1. TypeLoop'
      BY <2>5, Zenon DEF StartRun, TypeLoop
    <3>2. groupErr' \in Errors /\ groupCancelled' \in BOOLEAN
      BY <2>5, Zenon DEF StartRun, Errors
    <3>3. TypeRun'
      BY <2>5, <3>2 DEF StartRun, TypeRun, TypeBucket, Stages
    <3>4. QED
      BY <2>5, <3>1, <3>3, BucketUnchanged DEF StartRun
  <2>6. CASE StopLoop
    <3>1. TypeLoop'
      BY <2>6, Zenon DEF StopLoop, TypeLoop
    <3>2. QED
      BY <2>6, <3>1, BucketUnchanged, RunUnchanged DEF StopLoop
  <2>7. CASE EndRun
    <3>1. TypeLoop'
      BY <2>7, Zenon DEF EndRun, TypeLoop
    <3>2. groupErr' \in Errors /\ groupCancelled' \in BOOLEAN
      BY <2>7, Zenon DEF EndRun, ResetRun, Errors
    <3>3. TypeRun'
      BY <2>7, <3>2 DEF EndRun, ResetRun, TypeRun, Stages
    <3>4. QED
      BY <2>7, <3>1, <3>3, BucketUnchanged DEF EndRun
  <2>8. ASSUME NEW n \in Names, ListSend(n) PROVE TypeBucket' /\ TypeLoop' /\ TypeRun'
    <3>1. [name |-> n, updated |-> updated[n]] \in ListItem
      BY DEF TypeBucket, ListItem
    <3>2. TypeRun'
      BY <2>8, <3>1 DEF ListSend, TypeRun
    <3>3. QED
      BY <2>8, <3>2, BucketUnchanged, LoopUnchanged DEF ListSend
  <2>9. ASSUME NEW n \in Names, ListSkip(n) \/ ListLatePage(n)
        PROVE  TypeBucket' /\ TypeLoop' /\ TypeRun'
    <3>1. TypeRun'
      BY <2>9 DEF ListSkip, ListLatePage, TypeRun
    <3>2. QED
      BY <2>9, <3>1, BucketUnchanged, LoopUnchanged DEF ListSkip, ListLatePage
  <2>10. CASE ListFinish \/ ListFail \/ ListCancelled
    <3>1. \E e \in Errors : Return("list", e)
      BY <2>10 DEF ListFinish, ListFail, ListCancelled, Errors
    <3>2. /\ stage' \in [Stages -> {"running", "done"}]
          /\ groupErr' \in Errors /\ groupCancelled' \in BOOLEAN
      BY <3>1, ReturnType DEF Stages
    <3>3. UNCHANGED <<runNow, listing, toList, minObjects, staleNames, held,
                      objectsDeleted, deletedInRun>>
      BY <2>10 DEF ListFinish, ListFail, ListCancelled
    <3>4. TypeRun'
      BY <3>2, <3>3 DEF TypeRun
    <3>5. UNCHANGED bucketVars /\ UNCHANGED loopVars
      BY <2>10 DEF ListFinish, ListFail, ListCancelled
    <3>6. QED
      BY <3>4, <3>5, BucketUnchanged, LoopUnchanged
  <2>11. CASE FilterRecv
    <3>1. Head(minObjects) \in ListItem
      BY <2>11 DEF FilterRecv, TypeRun
    <3>2. held' \in Names \cup {NoName}
      BY <2>11, <3>1 DEF FilterRecv, ListItem
    <3>3. TypeRun'
      BY <2>11, <3>2 DEF FilterRecv, TypeRun
    <3>4. QED
      BY <2>11, <3>3, BucketUnchanged, LoopUnchanged DEF FilterRecv
  <2>12. CASE FilterSend
    <3>1. TypeRun'
      BY <2>12 DEF FilterSend, TypeRun
    <3>2. QED
      BY <2>12, <3>1, BucketUnchanged, LoopUnchanged DEF FilterSend
  <2>13. CASE FilterCancelled \/ FilterFinish
    <3>1. \E e \in Errors : Return("filter", e)
      BY <2>13 DEF FilterCancelled, FilterFinish, Errors
    <3>2. /\ stage' \in [Stages -> {"running", "done"}]
          /\ groupErr' \in Errors /\ groupCancelled' \in BOOLEAN
      BY <3>1, ReturnType DEF Stages
    <3>3. /\ held' \in Names \cup {NoName}
          /\ UNCHANGED <<runNow, listing, toList, minObjects, staleNames,
                         objectsDeleted, deletedInRun>>
      BY <2>13 DEF FilterCancelled, FilterFinish, TypeRun
    <3>4. TypeRun'
      BY <3>2, <3>3 DEF TypeRun
    <3>5. UNCHANGED bucketVars /\ UNCHANGED loopVars
      BY <2>13 DEF FilterCancelled, FilterFinish
    <3>6. QED
      BY <3>4, <3>5, BucketUnchanged, LoopUnchanged
  <2>14. CASE DeleteSucceeds
    <3>1. Head(staleNames) \in present
      BY <2>14 DEF DeleteSucceeds
    <3>2. TypeBucket'
      BY <2>14, <3>1 DEF DeleteSucceeds, TypeBucket
    <3>3. TypeRun'
      BY <2>14 DEF DeleteSucceeds, TypeRun
    <3>4. QED
      BY <2>14, <3>2, <3>3, LoopUnchanged DEF DeleteSucceeds
  <2>15. CASE DeleteFails \/ DeleteFinish
    <3>1. \E e \in Errors : Return("delete", e)
      BY <2>15 DEF DeleteFails, DeleteFinish, Errors
    <3>2. /\ stage' \in [Stages -> {"running", "done"}]
          /\ groupErr' \in Errors /\ groupCancelled' \in BOOLEAN
      BY <3>1, ReturnType DEF Stages
    <3>3. staleNames' \in Seq(Names) /\ Len(staleNames') <= ChanCap
      <4>1. CASE DeleteFails
        BY <4>1 DEF DeleteFails, TypeRun
      <4>2. CASE DeleteFinish
        BY <4>2 DEF DeleteFinish, TypeRun
      <4>3. QED
        BY <2>15, <4>1, <4>2
    <3>4. UNCHANGED <<runNow, listing, toList, minObjects, held,
                      objectsDeleted, deletedInRun>>
      BY <2>15 DEF DeleteFails, DeleteFinish
    <3>5. TypeRun'
      BY <3>2, <3>3, <3>4 DEF TypeRun
    <3>6. UNCHANGED bucketVars /\ UNCHANGED loopVars
      BY <2>15 DEF DeleteFails, DeleteFinish
    <3>7. QED
      BY <3>5, <3>6, BucketUnchanged, LoopUnchanged
  <2>16. CASE UNCHANGED vars
    BY <2>16, BucketUnchanged, LoopUnchanged, RunUnchanged DEF vars
  <2>17. QED
    BY <2>1, <2>2, <2>3, <2>4, <2>5, <2>6, <2>7, <2>8, <2>9, <2>10, <2>11,
       <2>12, <2>13, <2>14, <2>15, <2>16
    DEF Next, Environment, ListStage, FilterStage, DeleteStage
<1>3. QED
  BY <1>1, <1>2, PTL DEF Spec

-----------------------------------------------------------------------------
(* The pipeline invariant and the refinement of TempObjects.               *)
(*                                                                         *)
(* ReapsOnlyStale is not inductive as a statement about the bucket alone:  *)
(* the delete stage removes whatever name reaches it, so the argument has  *)
(* to say what is in the channels. PipelineStale does: the list stage only *)
(* sends current records, the filter only forwards names stale at runNow,  *)
(* and runNow never runs ahead of the clock. Names are never reused, so an *)
(* owner's creation cannot change the timestamp of an in-flight name.      *)

\* The steps that leave the channels, the captured time and the metadata
\* alone, and at most empty the filter's hand, keep PipelineStale, while
\* the clock only moves forward.
LEMMA PipelineFrame ==
  ASSUME TypeOK, PipelineStale, clock' \in Nat, clock <= clock',
         UNCHANGED <<runNow, minObjects, staleNames, updated, used>>,
         held' = held \/ held' = NoName
  PROVE  PipelineStale'
  BY DEF PipelineStale, TypeOK

\* The delete stage takes the head of staleNames and leaves the rest, and
\* the metadata, as they were.
LEMMA PipelineTail ==
  ASSUME TypeOK, PipelineStale, staleNames # << >>,
         staleNames' = Tail(staleNames),
         UNCHANGED <<clock, runNow, minObjects, held, updated, used>>
  PROVE  PipelineStale'
  BY DEF PipelineStale, TypeOK

\* Every step keeps what is in flight accurate.
LEMMA PipelineStep ==
  TypeOK /\ PipelineStale /\ [Next]_vars => PipelineStale'
<1> SUFFICES ASSUME TypeOK, PipelineStale, [Next]_vars PROVE PipelineStale'
  OBVIOUS
<1>1. CASE Tick
  BY <1>1, PipelineFrame DEF Tick, TypeOK, runVars
<1>2. CASE Cancel
  BY <1>2, PipelineFrame DEF Cancel, TypeOK, runVars, bucketVars
<1>3. ASSUME NEW n \in Names, CreateTemp(n) PROVE PipelineStale'
  <2>1. /\ n \notin used /\ used' = used \cup {n}
        /\ updated' = [updated EXCEPT ![n] = clock]
        /\ UNCHANGED <<clock, runNow, minObjects, staleNames, held>>
    BY <1>3 DEF CreateTemp, runVars
  <2>2. \A m \in used : updated'[m] = updated[m]
    BY <2>1 DEF TypeOK
  <2>3. QED
    BY <2>1, <2>2 DEF PipelineStale, TypeOK
<1>4. ASSUME NEW n \in Names, RemoveTemp(n) PROVE PipelineStale'
  BY <1>4, PipelineFrame DEF RemoveTemp, TypeOK, runVars
<1>5. CASE StartRun
  <2>1. /\ runNow' = clock /\ minObjects' = << >> /\ staleNames' = << >>
        /\ held' = NoName /\ UNCHANGED clock
    BY <1>5 DEF StartRun, bucketVars
  <2>2. clock \in Nat
    BY DEF TypeOK
  <2>3. /\ runNow' <= clock'
        /\ Len(minObjects') = 0 /\ Len(staleNames') = 0
    BY <2>1, <2>2
  <2>4. QED
    BY <2>1, <2>3 DEF PipelineStale
<1>6. CASE StopLoop
  BY <1>6, PipelineFrame DEF StopLoop, TypeOK, runVars, bucketVars
<1>7. CASE EndRun
  <2>1. /\ runNow' = 0 /\ minObjects' = << >> /\ staleNames' = << >>
        /\ held' = NoName /\ UNCHANGED clock
    BY <1>7 DEF EndRun, ResetRun, bucketVars
  <2>2. clock \in Nat
    BY DEF TypeOK
  <2>3. /\ runNow' <= clock'
        /\ Len(minObjects') = 0 /\ Len(staleNames') = 0
    BY <2>1, <2>2
  <2>4. QED
    BY <2>1, <2>3 DEF PipelineStale
<1>8. ASSUME NEW n \in Names, ListSend(n) PROVE PipelineStale'
  <2>1. /\ n \in present
        /\ minObjects' = Append(minObjects, [name |-> n, updated |-> updated[n]])
        /\ UNCHANGED <<clock, runNow, staleNames, held, updated, used>>
    BY <1>8 DEF ListSend, bucketVars
  <2>2. /\ minObjects \in Seq(ListItem)
        /\ n \in used
    BY <2>1 DEF TypeOK, ListItem
  <2>3. \A i \in 1..Len(minObjects') :
          minObjects'[i] = IF i <= Len(minObjects) THEN minObjects[i]
                           ELSE [name |-> n, updated |-> updated[n]]
    BY <2>1, <2>2
  <2>4. \A i \in 1..Len(minObjects') :
          /\ minObjects'[i].name \in used
          /\ minObjects'[i].updated = updated[minObjects'[i].name]
    BY <2>1, <2>2, <2>3 DEF PipelineStale
  <2>5. QED
    BY <2>1, <2>4 DEF PipelineStale
<1>9. ASSUME NEW n \in Names, ListSkip(n) \/ ListLatePage(n) PROVE PipelineStale'
  <2>1. UNCHANGED <<clock, runNow, minObjects, staleNames, held, updated, used>>
    BY <1>9 DEF ListSkip, ListLatePage, bucketVars
  <2>2. clock \in Nat
    BY DEF TypeOK
  <2>3. QED
    BY <2>1, <2>2, PipelineFrame
<1>10. CASE ListFinish \/ ListFail \/ ListCancelled
  BY <1>10, PipelineFrame DEF ListFinish, ListFail, ListCancelled, TypeOK,
     bucketVars
<1>11. CASE FilterRecv
  <2>1. /\ minObjects # << >> /\ minObjects' = Tail(minObjects)
        /\ held' = IF IsStale(Head(minObjects)) THEN Head(minObjects).name
                                                ELSE NoName
        /\ UNCHANGED <<clock, runNow, staleNames, updated, used>>
    BY <1>11 DEF FilterRecv, bucketVars
  <2>3. minObjects \in Seq(ListItem)
    BY DEF TypeOK, ListItem
  <2>2. /\ Head(minObjects).name \in used
        /\ Head(minObjects).updated = updated[Head(minObjects).name]
    BY <2>1, <2>3 DEF PipelineStale
  <2>4. \A i \in 1..Len(minObjects') : minObjects'[i] = minObjects[i + 1]
    BY <2>1, <2>3
  <2>5. \A i \in 1..Len(minObjects') :
          /\ minObjects'[i].name \in used
          /\ minObjects'[i].updated = updated[minObjects'[i].name]
    BY <2>1, <2>3, <2>4 DEF PipelineStale
  <2>6. held' # NoName =>
          /\ held' \in used
          /\ runNow - updated[held'] >= Staleness
    <3>1. CASE IsStale(Head(minObjects))
      BY <2>1, <2>2, <3>1 DEF IsStale
    <3>2. CASE ~IsStale(Head(minObjects))
      BY <2>1, <3>2
    <3>3. QED
      BY <3>1, <3>2
  <2>7. QED
    BY <2>1, <2>5, <2>6 DEF PipelineStale
<1>12. CASE FilterSend
  <2>1. /\ held # NoName /\ staleNames' = Append(staleNames, held)
        /\ held' = NoName
        /\ UNCHANGED <<clock, runNow, minObjects, updated, used>>
    BY <1>12 DEF FilterSend, bucketVars
  <2>2. staleNames \in Seq(Names)
    BY DEF TypeOK
  <2>3. \A i \in 1..Len(staleNames') :
          staleNames'[i] = IF i <= Len(staleNames) THEN staleNames[i] ELSE held
    BY <2>1, <2>2
  <2>4. QED
    BY <2>1, <2>2, <2>3 DEF PipelineStale
<1>13. CASE FilterCancelled \/ FilterFinish
  BY <1>13, PipelineFrame DEF FilterCancelled, FilterFinish, TypeOK,
     bucketVars
<1>14. CASE DeleteSucceeds
  BY <1>14, PipelineTail DEF DeleteSucceeds
<1>15. CASE DeleteFails
  BY <1>15, PipelineTail DEF DeleteFails, bucketVars
<1>16. CASE DeleteFinish
  BY <1>16, PipelineFrame DEF DeleteFinish, TypeOK, bucketVars
<1>17. CASE UNCHANGED vars
  BY <1>17 DEF PipelineStale, vars, bucketVars, runVars
<1>18. QED
  BY <1>1, <1>2, <1>3, <1>4, <1>5, <1>6, <1>7, <1>8, <1>9, <1>10, <1>11,
     <1>12, <1>13, <1>14, <1>15, <1>16, <1>17
  DEF Next, Environment, ListStage, FilterStage, DeleteStage

\* Whatever the interleaving of the owners, the clock and the three
\* goroutines, the channels of garbageCollectOnce only carry current
\* records and names that were stale when the run captured now.
THEOREM PipelineInvariant == Spec => []PipelineStale
<1>1. Init => PipelineStale
  BY DEF Init, NoRun, PipelineStale
<1>2. QED
  BY <1>1, PipelineStep, TypeCorrect, PTL DEF Spec

\* The delete stage removes only names whose age has reached the threshold
\* by the current clock: they were stale at runNow, and runNow <= clock.
LEMMA DeleteIsReap ==
  ASSUME TypeOK, PipelineStale, DeleteSucceeds
  PROVE  TO!Reap(Head(staleNames))
<1>1. /\ staleNames # << >> /\ staleNames \in Seq(Names)
      /\ Head(staleNames) = staleNames[1]
  BY DEF DeleteSucceeds, TypeOK
<1>2. runNow - updated[Head(staleNames)] >= Staleness
  BY <1>1 DEF PipelineStale
<1>3. clock - updated[Head(staleNames)] >= Staleness
  BY <1>1, <1>2 DEF PipelineStale, TypeOK
<1>4. QED
  BY <1>3 DEF DeleteSucceeds, TO!Reap

\* Each step of the reaper is a step of TempObjects or leaves the bucket
\* as it was.
LEMMA RefinementStep ==
  TypeOK /\ PipelineStale /\ [Next]_vars => [TO!Next]_TO!vars
<1> SUFFICES ASSUME TypeOK, PipelineStale, [Next]_vars
             PROVE  [TO!Next]_TO!vars
  OBVIOUS
<1>1. CASE Tick
  BY <1>1 DEF Tick, TO!Next, TO!Advance
<1>2. ASSUME NEW n \in Names, CreateTemp(n) PROVE [TO!Next]_TO!vars
  BY <1>2 DEF CreateTemp, TO!Next, TO!Create
<1>3. ASSUME NEW n \in Names, RemoveTemp(n) PROVE [TO!Next]_TO!vars
  BY <1>3 DEF RemoveTemp, TO!Next, TO!Remove
<1>4. CASE DeleteSucceeds
  <2>1. Head(staleNames) \in Names
    BY <1>4 DEF DeleteSucceeds, TypeOK
  <2>2. QED
    BY <1>4, <2>1, DeleteIsReap DEF TO!Next
<1>5. CASE \/ Cancel \/ StartRun \/ StopLoop \/ EndRun
           \/ \E n \in Names : ListSend(n) \/ ListSkip(n) \/ ListLatePage(n)
           \/ ListFinish \/ ListFail \/ ListCancelled
           \/ FilterStage \/ DeleteFails \/ DeleteFinish
  <2>1. UNCHANGED bucketVars
    BY <1>5 DEF Cancel, StartRun, StopLoop, EndRun, ListSend, ListSkip,
       ListLatePage, ListFinish, ListFail, ListCancelled, FilterStage, FilterRecv,
       FilterSend, FilterCancelled, FilterFinish, DeleteFails, DeleteFinish
  <2>2. QED
    BY <2>1 DEF bucketVars, TO!vars
<1>6. CASE UNCHANGED vars
  BY <1>6 DEF vars, bucketVars, TO!vars
<1>7. QED
  BY <1>1, <1>2, <1>3, <1>4, <1>5, <1>6
  DEF Next, Environment, ListStage, DeleteStage

\* The reaper implements its abstract specification: every object the
\* delete goroutine of garbageCollectOnce removes had not been updated for
\* at least stalenessThreshold at the moment it was removed, for every
\* number of objects, every clock bound, threshold, period and capacity.
THEOREM Refinement == Spec => ReapsOnlyStale
<1>1. Init => TO!Init
  BY DEF Init, TO!Init
<1>2. QED
  BY <1>1, RefinementStep, TypeCorrect, PipelineInvariant, PTL
  DEF Spec, ReapsOnlyStale, TO!Spec

-----------------------------------------------------------------------------
(* The accounting of a run and its report.                                 *)
(*                                                                         *)
(* RunReportAccurate speaks of the step in which group.Wait returns, and   *)
(* what it claims there is the end of an argument about the whole run:     *)
(* the counter follows the delete stage's removals, and a stale name only  *)
(* leaves the pipeline by being deleted or by a goroutine's error.          *)
(* RunAccounting says so at every state, and is inductive given TypeOK and *)
(* PipelineStale: the filter's test is taken on records that carry the     *)
(* object's current timestamp. Its three parts are proved apart.           *)

\* The counter and the run's removals.
CountPart ==
  /\ objectsDeleted = Cardinality(deletedInRun)
  /\ deletedInRun \subseteq used /\ deletedInRun \cap present = {}
  /\ listing \subseteq used

\* A stage that returned nil drained its input and what it sent.
DrainPart ==
  groupErr = "none" =>
    /\ stage["list"] = "done" => toList = {}
    /\ stage["filter"] = "done" =>
         /\ stage["list"] = "done"
         /\ minObjects = << >> /\ held = NoName
    /\ stage["delete"] = "done" =>
         /\ stage["filter"] = "done"
         /\ staleNames = << >>

\* No stale listed object has left the pipeline without being deleted.
FlightPart ==
  groupErr = "none" =>
    \A n \in listing \cap present :
      runNow - updated[n] >= Staleness => InFlight(n)

LEMMA AccountingSplit == RunAccounting <=> CountPart /\ DrainPart /\ FlightPart
  BY Zenon DEF RunAccounting, CountPart, DrainPart, FlightPart

\* Once a goroutine has returned an error, the group's error is never nil.
LEMMA ReturnError ==
  ASSUME NEW s \in Stages, NEW e \in Errors \ {"none"}, Return(s, e)
  PROVE  groupErr' # "none"
  BY DEF Return

\* The steps that touch neither the counter, the removals, the listing nor
\* the bucket's names keep the counter accurate.
LEMMA CountFrame ==
  ASSUME CountPart,
         UNCHANGED <<objectsDeleted, deletedInRun, listing, present, used>>
  PROVE  CountPart'
  BY DEF CountPart

\* Every step keeps the counter equal to the number of objects removed.
LEMMA CountStep == TypeOK /\ CountPart /\ [Next]_vars => CountPart'
<1> SUFFICES ASSUME TypeOK, CountPart, [Next]_vars PROVE CountPart'
  OBVIOUS
<1>1. ASSUME NEW n \in Names, CreateTemp(n) PROVE CountPart'
  BY <1>1 DEF CreateTemp, CountPart, runVars
<1>2. ASSUME NEW n \in Names, RemoveTemp(n) PROVE CountPart'
  BY <1>2 DEF RemoveTemp, CountPart, runVars
<1>3. CASE StartRun
  BY <1>3, FS_EmptySet DEF StartRun, CountPart, TypeOK, bucketVars
<1>4. CASE EndRun
  BY <1>4, FS_EmptySet DEF EndRun, ResetRun, CountPart, bucketVars
<1>5. CASE DeleteSucceeds
  <2> DEFINE h == Head(staleNames)
  <2>1. /\ h \in present
        /\ present' = present \ {h}
        /\ objectsDeleted' = objectsDeleted + 1
        /\ deletedInRun' = deletedInRun \cup {h}
        /\ UNCHANGED <<listing, used>>
    BY <1>5 DEF DeleteSucceeds
  <2>2. h \notin deletedInRun /\ h \in used
    BY <2>1 DEF CountPart, TypeOK
  <2>3. IsFiniteSet(deletedInRun)
    BY FS_Subset, NamesAssumption DEF TypeOK
  <2>4. Cardinality(deletedInRun') = Cardinality(deletedInRun) + 1
    BY <2>1, <2>2, <2>3, FS_AddElement
  <2>5. QED
    BY <2>1, <2>2, <2>4 DEF CountPart
<1>6. CASE \/ Tick \/ Cancel \/ StopLoop
           \/ \E n \in Names : ListSend(n) \/ ListSkip(n)
           \/ ListFinish \/ ListFail \/ ListCancelled
           \/ FilterStage \/ DeleteFails \/ DeleteFinish
  <2>1. UNCHANGED <<objectsDeleted, deletedInRun, listing, present, used>>
    BY <1>6 DEF Tick, Cancel, StopLoop, ListSend, ListSkip, ListFinish,
       ListFail, ListCancelled, FilterStage, FilterRecv, FilterSend,
       FilterCancelled, FilterFinish, DeleteFails, DeleteFinish,
       runVars, bucketVars
  <2>2. QED
    BY <2>1, CountFrame
<1>7. CASE UNCHANGED vars
  BY <1>7, CountFrame DEF vars, runVars, bucketVars
<1>8. ASSUME NEW n \in Names, ListLatePage(n) PROVE CountPart'
  <2>1. /\ n \in present /\ listing' = listing \cup {n}
        /\ UNCHANGED <<objectsDeleted, deletedInRun, present, used>>
    BY <1>8 DEF ListLatePage, bucketVars
  <2>2. QED
    BY <2>1 DEF CountPart, TypeOK
<1>9. QED
  BY <1>1, <1>2, <1>3, <1>4, <1>5, <1>6, <1>7, <1>8
  DEF Next, Environment, ListStage, DeleteStage

\* A goroutine that returns an error leaves the group's error non-nil, so
\* the parts of RunAccounting guarded by groupErr = "none" hold vacuously.
LEMMA ErrorReturns ==
  ASSUME TypeOK,
         \/ ListFail \/ ListCancelled \/ FilterCancelled \/ DeleteFails
  PROVE  groupErr' # "none"
<1>1. CASE ListFail
  BY <1>1, ReturnError DEF ListFail, Stages, Errors
<1>2. CASE ListCancelled
  BY <1>2, ReturnError DEF ListCancelled, Stages, Errors
<1>3. CASE FilterCancelled
  BY <1>3, ReturnError DEF FilterCancelled, Stages, Errors
<1>4. CASE DeleteFails
  <2>1. PICK e \in (IF Head(staleNames) \in present THEN {"delete"}
                                                    ELSE {"notfound"})
                   \cup (IF gctxDone THEN {"canceled"} ELSE {}) :
          Return("delete", e)
    BY <1>4 DEF DeleteFails
  <2>2. e \in Errors \ {"none"}
    BY DEF Errors
  <2>3. QED
    BY <2>1, <2>2, ReturnError DEF Stages
<1>5. QED
  BY <1>1, <1>2, <1>3, <1>4

\* The steps that leave the stages, the group's error and the channels alone
\* keep DrainPart.
LEMMA DrainFrame ==
  ASSUME DrainPart,
         UNCHANGED <<groupErr, stage, toList, minObjects, held, staleNames>>
  PROVE  DrainPart'
  BY DEF DrainPart

\* While no goroutine has failed, a stage returns only once its input is
\* closed and drained, and nothing it sent is lost.
LEMMA DrainStep == TypeOK /\ DrainPart /\ [Next]_vars => DrainPart'
<1> SUFFICES ASSUME TypeOK, DrainPart, [Next]_vars PROVE DrainPart'
  OBVIOUS
<1>1. CASE \/ ListFail \/ ListCancelled \/ FilterCancelled \/ DeleteFails
  BY <1>1, ErrorReturns DEF DrainPart
<1>2. CASE StartRun
  BY <1>2 DEF StartRun, DrainPart, Stages
<1>3. CASE EndRun
  BY <1>3 DEF EndRun, ResetRun, DrainPart, Stages
<1>4. ASSUME NEW n \in Names, ListSend(n) \/ ListSkip(n) \/ ListLatePage(n)
      PROVE  DrainPart'
  <2>1. /\ stage["list"] = "running"
        /\ UNCHANGED <<groupErr, stage, held, staleNames>>
    BY <1>4 DEF ListSend, ListSkip, ListLatePage
  <2>2. groupErr = "none" =>
          stage["filter"] # "done" /\ stage["delete"] # "done"
    BY <2>1 DEF DrainPart
  <2>3. QED
    BY <2>1, <2>2 DEF DrainPart
<1>5. CASE ListFinish
  <2>1. /\ toList = {} /\ stage' = [stage EXCEPT !["list"] = "done"]
        /\ UNCHANGED <<groupErr, toList, minObjects, held, staleNames>>
    BY <1>5 DEF ListFinish, Return
  <2>2. /\ stage'["list"] = "done"
        /\ stage'["filter"] = stage["filter"]
        /\ stage'["delete"] = stage["delete"]
    BY <2>1 DEF TypeOK, Stages
  <2>3. QED
    BY <2>1, <2>2 DEF DrainPart
<1>6. CASE FilterRecv \/ FilterSend
  <2>1. /\ stage["filter"] = "running"
        /\ UNCHANGED <<groupErr, stage, toList>>
    BY <1>6 DEF FilterRecv, FilterSend
  <2>2. groupErr = "none" => stage["delete"] # "done"
    BY <2>1 DEF DrainPart
  <2>3. QED
    BY <2>1, <2>2 DEF DrainPart
<1>7. CASE FilterFinish
  <2>1. /\ held = NoName /\ minObjects = << >> /\ stage["list"] = "done"
        /\ stage["filter"] = "running"
        /\ stage' = [stage EXCEPT !["filter"] = "done"]
        /\ UNCHANGED <<groupErr, toList, minObjects, held, staleNames>>
    BY <1>7 DEF FilterFinish, Return
  <2>2. /\ stage'["filter"] = "done"
        /\ stage'["list"] = stage["list"]
        /\ stage'["delete"] = stage["delete"]
    BY <2>1 DEF TypeOK, Stages
  <2>3. groupErr = "none" => stage["delete"] # "done"
    BY <2>1 DEF DrainPart
  <2>4. QED
    BY <2>1, <2>2, <2>3 DEF DrainPart
<1>8. CASE DeleteSucceeds
  <2>1. /\ stage["delete"] = "running"
        /\ UNCHANGED <<groupErr, stage, toList, minObjects, held>>
    BY <1>8 DEF DeleteSucceeds
  <2>2. QED
    BY <2>1 DEF DrainPart
<1>9. CASE DeleteFinish
  <2>1. /\ staleNames = << >> /\ stage["filter"] = "done"
        /\ stage' = [stage EXCEPT !["delete"] = "done"]
        /\ UNCHANGED <<groupErr, toList, minObjects, held, staleNames>>
    BY <1>9 DEF DeleteFinish, Return
  <2>2. /\ stage'["delete"] = "done"
        /\ stage'["list"] = stage["list"]
        /\ stage'["filter"] = stage["filter"]
    BY <2>1 DEF TypeOK, Stages
  <2>3. QED
    BY <2>1, <2>2 DEF DrainPart
<1>10. CASE \/ Tick \/ Cancel \/ StopLoop
            \/ \E n \in Names : CreateTemp(n) \/ RemoveTemp(n)
  <2>1. UNCHANGED <<groupErr, stage, toList, minObjects, held, staleNames>>
    BY <1>10 DEF Tick, Cancel, StopLoop, CreateTemp, RemoveTemp, runVars
  <2>2. QED
    BY <2>1, DrainFrame
<1>11. CASE UNCHANGED vars
  BY <1>11, DrainFrame DEF vars, runVars
<1>12. QED
  BY <1>1, <1>2, <1>3, <1>4, <1>5, <1>6, <1>7, <1>8, <1>9, <1>10, <1>11
  DEF Next, Environment, ListStage, FilterStage, DeleteStage

\* The steps that leave the pipeline, the captured time and the metadata
\* alone, and at most remove objects from the bucket, keep FlightPart.
LEMMA FlightFrame ==
  ASSUME FlightPart,
         UNCHANGED <<listing, toList, minObjects, held, staleNames, runNow,
                     updated, groupErr>>,
         present' \subseteq present
  PROVE  FlightPart'
  BY DEF FlightPart, InFlight

\* While no goroutine has failed, a stale object of the listing that is
\* still in the bucket moves along the pipeline and never drops out of it:
\* the list stage sends it, the filter's test keeps it, the send forwards
\* it, and only the delete stage's removal of it ends its flight.
LEMMA FlightStep ==
  TypeOK /\ PipelineStale /\ CountPart /\ FlightPart /\ [Next]_vars
    => FlightPart'
<1> SUFFICES ASSUME TypeOK, PipelineStale, CountPart, FlightPart, [Next]_vars
             PROVE  FlightPart'
  OBVIOUS
<1>0. /\ minObjects \in Seq(ListItem) /\ staleNames \in Seq(Names)
      /\ listing \subseteq Names /\ updated \in [Names -> 0..MaxTime]
      /\ runNow \in 0..MaxTime /\ clock \in 0..MaxTime
  BY DEF TypeOK, ListItem
<1> USE <1>0
<1>1. CASE \/ ListFail \/ ListCancelled \/ FilterCancelled \/ DeleteFails
  BY <1>1, ErrorReturns DEF FlightPart
<1>2. CASE \/ Tick \/ Cancel \/ StopLoop \/ \E n \in Names : RemoveTemp(n)
           \/ ListFinish \/ FilterFinish \/ DeleteFinish
  <2> DEFINE frame == UNCHANGED <<listing, toList, minObjects, held,
                                   staleNames, runNow, updated, groupErr>>
  <2>1. frame
    <3>1. CASE Tick \/ Cancel \/ StopLoop \/ \E n \in Names : RemoveTemp(n)
      BY <3>1 DEF Tick, Cancel, StopLoop, RemoveTemp, runVars, bucketVars
    <3>2. CASE ListFinish
      BY <3>2, Zenon DEF ListFinish, Return, bucketVars
    <3>3. CASE FilterFinish
      BY <3>3, Zenon DEF FilterFinish, Return, bucketVars
    <3>4. CASE DeleteFinish
      BY <3>4, Zenon DEF DeleteFinish, Return, bucketVars
    <3>5. QED
      BY <1>2, <3>1, <3>2, <3>3, <3>4
  <2>2. present' \subseteq present
    BY <1>2 DEF Tick, Cancel, StopLoop, RemoveTemp, ListFinish, FilterFinish,
       DeleteFinish, bucketVars
  <2>3. QED
    BY <2>1, <2>2, FlightFrame
<1>3. CASE UNCHANGED vars
  BY <1>3, FlightFrame DEF vars, runVars, bucketVars
<1>4. CASE StartRun
  BY <1>4 DEF StartRun, FlightPart, InFlight, bucketVars
<1>5. CASE EndRun
  BY <1>5 DEF EndRun, ResetRun, FlightPart
<1>6. ASSUME NEW k \in Names, CreateTemp(k) PROVE FlightPart'
  <2> SUFFICES ASSUME groupErr' = "none", NEW n \in listing' \cap present',
                      runNow' - updated'[n] >= Staleness
               PROVE  InFlight(n)'
    BY DEF FlightPart
  <2>1. /\ k \notin used /\ present' = present \cup {k}
        /\ updated' = [updated EXCEPT ![k] = clock]
        /\ UNCHANGED runVars
    BY <1>6 DEF CreateTemp
  <2>2. n \in used /\ n # k
    BY <2>1 DEF CountPart, runVars
  <2>3. n \in present /\ updated'[n] = updated[n]
    BY <2>1, <2>2
  <2>4. InFlight(n)
    BY <2>1, <2>3 DEF FlightPart, runVars
  <2>5. QED
    BY <2>1, <2>4 DEF InFlight, runVars
<1>7. ASSUME NEW k \in Names, ListSkip(k) PROVE FlightPart'
  <2> SUFFICES ASSUME groupErr' = "none", NEW n \in listing' \cap present',
                      runNow' - updated'[n] >= Staleness
               PROVE  InFlight(n)'
    BY DEF FlightPart
  <2>1. /\ k \notin present /\ toList' = toList \ {k}
        /\ UNCHANGED <<runNow, listing, minObjects, staleNames, held,
                       groupErr, updated, present>>
    BY <1>7 DEF ListSkip, bucketVars
  <2>2. InFlight(n) /\ n # k
    BY <2>1 DEF FlightPart
  <2>3. QED
    BY <2>1, <2>2 DEF InFlight
<1>8. ASSUME NEW k \in Names, ListSend(k) PROVE FlightPart'
  <2> SUFFICES ASSUME groupErr' = "none", NEW n \in listing' \cap present',
                      runNow' - updated'[n] >= Staleness
               PROVE  InFlight(n)'
    BY DEF FlightPart
  <2> DEFINE r == [name |-> k, updated |-> updated[k]]
  <2>1. /\ toList' = toList \ {k}
        /\ minObjects' = Append(minObjects, r)
        /\ UNCHANGED <<runNow, listing, staleNames, held, groupErr, updated,
                       present>>
    BY <1>8 DEF ListSend, bucketVars
  <2>2. InFlight(n)
    BY <2>1 DEF FlightPart
  <2>3. /\ Len(minObjects) \in Nat
        /\ Len(minObjects') = Len(minObjects) + 1
        /\ minObjects'[Len(minObjects) + 1] = r
        /\ \A i \in 1..Len(minObjects) : minObjects'[i] = minObjects[i]
    BY <2>1
  <2>4. CASE n = k
    <3>1. /\ Len(minObjects) + 1 \in 1..Len(minObjects')
          /\ minObjects'[Len(minObjects) + 1].name = n
      BY <2>3, <2>4
    <3>2. QED
      BY <3>1 DEF InFlight
  <2>5. CASE n # k
    <3>1. n \in toList => n \in toList'
      BY <2>1, <2>5
    <3>2. \A i \in 1..Len(minObjects) : i \in 1..Len(minObjects')
      BY <2>3
    <3>3. QED
      BY <2>1, <2>2, <2>3, <3>1, <3>2 DEF InFlight
  <2>6. QED
    BY <2>4, <2>5
<1>9. CASE FilterRecv
  <2> SUFFICES ASSUME groupErr' = "none", NEW n \in listing' \cap present',
                      runNow' - updated'[n] >= Staleness
               PROVE  InFlight(n)'
    BY DEF FlightPart
  <2>1. /\ held = NoName /\ minObjects # << >>
        /\ minObjects' = Tail(minObjects)
        /\ held' = IF IsStale(Head(minObjects)) THEN Head(minObjects).name
                                                ELSE NoName
        /\ UNCHANGED <<runNow, listing, toList, staleNames, groupErr, updated,
                       present>>
    BY <1>9 DEF FilterRecv, bucketVars
  <2>2. InFlight(n) /\ n \in Names
    BY <2>1 DEF FlightPart
  <2>3. /\ Len(minObjects') = Len(minObjects) - 1
        /\ \A i \in 1..Len(minObjects') : minObjects'[i] = minObjects[i + 1]
        /\ Head(minObjects) = minObjects[1]
    BY <2>1
  <2>4. CASE n \in toList \/ \E i \in 1..Len(staleNames) : staleNames[i] = n
    BY <2>1, <2>4 DEF InFlight
  <2>5. CASE held = n
    BY <2>1, <2>2, <2>5, NamesAssumption
  <2>6. ASSUME NEW i \in 1..Len(minObjects), minObjects[i].name = n
        PROVE  InFlight(n)'
    <3>1. CASE i = 1
      <4>1. Head(minObjects).updated = updated[n]
        BY <2>1, <2>3, <2>6, <3>1 DEF PipelineStale
      <4>2. IsStale(Head(minObjects))
        BY <2>1, <4>1 DEF IsStale
      <4>3. held' = n
        BY <2>1, <2>3, <2>6, <3>1, <4>2
      <4>4. QED
        BY <4>3 DEF InFlight
    <3>2. CASE i # 1
      <4>1. i - 1 \in 1..Len(minObjects') /\ minObjects'[i - 1] = minObjects[i]
        BY <2>3, <3>2
      <4>2. QED
        BY <2>6, <4>1 DEF InFlight
    <3>3. QED
      BY <3>1, <3>2
  <2>7. QED
    BY <2>2, <2>4, <2>5, <2>6 DEF InFlight
<1>10. CASE FilterSend
  <2> SUFFICES ASSUME groupErr' = "none", NEW n \in listing' \cap present',
                      runNow' - updated'[n] >= Staleness
               PROVE  InFlight(n)'
    BY DEF FlightPart
  <2>1. /\ held # NoName /\ staleNames' = Append(staleNames, held)
        /\ held' = NoName
        /\ UNCHANGED <<runNow, listing, toList, minObjects, groupErr, updated,
                       present>>
    BY <1>10 DEF FilterSend, bucketVars
  <2>2. InFlight(n)
    BY <2>1 DEF FlightPart
  <2>3. /\ Len(staleNames) \in Nat
        /\ Len(staleNames') = Len(staleNames) + 1
        /\ staleNames'[Len(staleNames) + 1] = held
        /\ \A i \in 1..Len(staleNames) : staleNames'[i] = staleNames[i]
    BY <2>1
  <2>4. CASE held = n
    <3>1. /\ Len(staleNames) + 1 \in 1..Len(staleNames')
          /\ staleNames'[Len(staleNames) + 1] = n
      BY <2>3, <2>4
    <3>2. QED
      BY <3>1 DEF InFlight
  <2>5. CASE held # n
    <3>1. \/ n \in toList
          \/ \E i \in 1..Len(minObjects) : minObjects[i].name = n
          \/ \E i \in 1..Len(staleNames) : staleNames[i] = n
      BY <2>2, <2>5 DEF InFlight
    <3>2. CASE n \in toList \/ \E i \in 1..Len(minObjects) : minObjects[i].name = n
      BY <2>1, <3>2 DEF InFlight
    <3>3. ASSUME NEW i \in 1..Len(staleNames), staleNames[i] = n
          PROVE  InFlight(n)'
      <4>1. i \in 1..Len(staleNames') /\ staleNames'[i] = n
        BY <2>3, <3>3
      <4>2. QED
        BY <4>1 DEF InFlight
    <3>4. QED
      BY <3>1, <3>2, <3>3
  <2>6. QED
    BY <2>4, <2>5
<1>11. CASE DeleteSucceeds
  <2> SUFFICES ASSUME groupErr' = "none", NEW n \in listing' \cap present',
                      runNow' - updated'[n] >= Staleness
               PROVE  InFlight(n)'
    BY DEF FlightPart
  <2>1. /\ staleNames # << >>
        /\ present' = present \ {Head(staleNames)}
        /\ staleNames' = Tail(staleNames)
        /\ UNCHANGED <<runNow, listing, toList, minObjects, held, groupErr,
                       updated>>
    BY <1>11 DEF DeleteSucceeds
  <2>2. InFlight(n) /\ n # Head(staleNames)
    BY <2>1 DEF FlightPart
  <2>3. /\ Len(staleNames') = Len(staleNames) - 1
        /\ \A i \in 1..Len(staleNames') : staleNames'[i] = staleNames[i + 1]
        /\ Head(staleNames) = staleNames[1]
    BY <2>1
  <2>4. ASSUME NEW i \in 1..Len(staleNames), staleNames[i] = n
        PROVE  InFlight(n)'
    <3>1. i # 1
      BY <2>2, <2>3, <2>4
    <3>2. i - 1 \in 1..Len(staleNames') /\ staleNames'[i - 1] = staleNames[i]
      BY <2>3, <3>1
    <3>3. QED
      BY <2>4, <3>2 DEF InFlight
  <2>5. QED
    BY <2>1, <2>2, <2>4 DEF InFlight
<1>12. ASSUME NEW k \in Names, ListLatePage(k) PROVE FlightPart'
  <2> SUFFICES ASSUME groupErr' = "none", NEW n \in listing' \cap present',
                      runNow' - updated'[n] >= Staleness
               PROVE  InFlight(n)'
    BY DEF FlightPart
  <2>1. /\ listing' = listing \cup {k} /\ toList' = toList \cup {k}
        /\ UNCHANGED <<runNow, minObjects, staleNames, held, groupErr,
                       updated, present>>
    BY <1>12 DEF ListLatePage, bucketVars
  <2>2. CASE n = k
    BY <2>1, <2>2 DEF InFlight
  <2>3. CASE n # k
    <3>1. InFlight(n)
      BY <2>1, <2>3 DEF FlightPart
    <3>2. QED
      BY <2>1, <3>1 DEF InFlight
  <2>4. QED
    BY <2>2, <2>3
<1>13. QED
  BY <1>1, <1>2, <1>3, <1>4, <1>5, <1>6, <1>7, <1>8, <1>9, <1>10, <1>11,
     <1>12
  DEF Next, Environment, ListStage, FilterStage, DeleteStage

\* Whatever the interleaving of the owners, the clock, the unmount and the
\* three goroutines, every state of a garbageCollectOnce run accounts for
\* it: the atomic counter matches the objects removed, and a stale object
\* of the listing leaves the pipeline only by being deleted, unless some
\* goroutine has returned an error.
THEOREM AccountingInvariant == Spec => []RunAccounting
<1>1. Init => RunAccounting
  <2> SUFFICES ASSUME Init PROVE CountPart /\ DrainPart /\ FlightPart
    BY AccountingSplit
  <2>1. CountPart
    BY FS_EmptySet DEF Init, NoRun, CountPart
  <2>2. DrainPart
    BY DEF Init, NoRun, DrainPart, Stages
  <2>3. FlightPart
    BY DEF Init, NoRun, FlightPart
  <2>4. QED
    BY <2>1, <2>2, <2>3
<1>2. TypeOK /\ PipelineStale /\ RunAccounting /\ [Next]_vars => RunAccounting'
  <2> SUFFICES ASSUME TypeOK, PipelineStale, RunAccounting, [Next]_vars
               PROVE  RunAccounting'
    OBVIOUS
  <2>1. CountPart /\ DrainPart /\ FlightPart
    BY AccountingSplit
  <2>2. CountPart' /\ DrainPart' /\ FlightPart'
    BY <2>1, CountStep, DrainStep, FlightStep
  <2>3. QED
    BY <2>2, Zenon DEF RunAccounting, CountPart, DrainPart, FlightPart
<1>3. QED
  BY <1>1, <1>2, TypeCorrect, PipelineInvariant, PTL DEF Spec

\* What garbageCollectOnce reports when group.Wait returns.
EndReport ==
  /\ objectsDeleted = Cardinality(deletedInRun)
  /\ groupErr = "none" =>
       \A n \in listing \cap present : runNow - updated[n] < Staleness

\* When all three goroutines have returned, nothing is in flight; so with
\* no error, no stale listed object can still be in the bucket.
LEMMA ReportAtEnd ==
  ASSUME TypeOK, RunAccounting, EndRun
  PROVE  EndReport
<1>1. CountPart /\ DrainPart /\ FlightPart
  BY AccountingSplit
<1>2. \A s \in Stages : stage[s] = "done"
  BY DEF EndRun
<1>3. objectsDeleted = Cardinality(deletedInRun)
  BY <1>1 DEF CountPart
<1>4. ASSUME groupErr = "none", NEW n \in listing \cap present
      PROVE  runNow - updated[n] < Staleness
  <2>1. /\ stage["list"] = "done" /\ stage["filter"] = "done"
        /\ stage["delete"] = "done"
    BY <1>2 DEF Stages
  <2>2. /\ toList = {} /\ minObjects = << >> /\ held = NoName
        /\ staleNames = << >>
    BY <1>1, <1>4, <2>1, Zenon DEF DrainPart
  <2>3. ~InFlight(n)
    BY <2>2 DEF InFlight, TypeOK
  <2>4. ~(runNow - updated[n] >= Staleness)
    BY <1>1, <1>4, <2>3 DEF FlightPart
  <2>5. runNow \in Nat /\ updated[n] \in Nat /\ Staleness \in Nat
    BY <1>4, TimeAssumption DEF TypeOK
  <2>6. QED
    BY <2>4, <2>5
<1>5. QED
  BY <1>3, <1>4 DEF EndReport

\* garbageCollectOnce's report is accurate in every run: when group.Wait
\* returns, objectsDeleted counts exactly the objects the delete goroutine
\* removed, and a run that returns nil has deleted every listed object
\* that was stale at its captured now and that its owner had not removed.
THEOREM ReportAccurate == Spec => RunReportAccurate
<1>1. TypeOK /\ RunAccounting => [EndRun => EndReport]_vars
  BY ReportAtEnd
<1>2. QED
  BY <1>1, TypeCorrect, AccountingInvariant, PTL
  DEF RunReportAccurate, EndReport

=============================================================================
