--------------------------- MODULE GarbageCollect ---------------------------
(***************************************************************************)
(* The stale temporary object reaper of internal/gcsx/garbage_collect.go.  *)
(*                                                                         *)
(* garbageCollect is a goroutine that waits on a ticker or on the mount's  *)
(* context; on each tick it calls garbageCollectOnce, which runs three     *)
(* goroutines in an errgroup sharing one derived context:                  *)
(*   list   -- storageutil.ListPrefix sends every object under the prefix  *)
(*             into the bounded channel minObjects, then closes it;        *)
(*   filter -- ranges over minObjects and forwards the names of objects    *)
(*             whose age at the run's start is at least the threshold      *)
(*             into the bounded channel staleNames, selecting on ctx.Done; *)
(*   delete -- ranges over staleNames and deletes each (generation 0),     *)
(*             counting the successes, returning on the first error.       *)
(* The first goroutine to return an error cancels the shared context, and  *)
(* group.Wait returns that error once all three have returned.             *)
(*                                                                         *)
(* The bucket holds temporary objects that the write path (its "owners")   *)
(* creates under fresh names and removes when done with them. Time is      *)
(* counted in ticks of the garbage-collection period's unit.               *)
(***************************************************************************)
EXTENDS Naturals, Sequences, FiniteSets

CONSTANTS
  Names,      \* names of temporary objects under the prefix
  NoName,     \* "the filter holds no object"
  MaxTime,    \* bound on the model clock
  Staleness,  \* stalenessThreshold, in clock units (30 minutes)
  Period,     \* the ticker period, in clock units (10 minutes)
  ChanCap     \* capacity of minObjects and of staleNames (100 in the code)

ASSUME NamesAssumption == IsFiniteSet(Names) /\ NoName \notin Names
ASSUME TimeAssumption ==
  /\ MaxTime \in Nat
  /\ Staleness \in Nat
  /\ Period \in Nat \ {0}
ASSUME ChanCapAssumption == ChanCap \in Nat \ {0}

Stages == {"list", "filter", "delete"}

\* The errors group.Wait can return: none, a listing error, the context's
\* error, a NotFoundError from DeleteObject, or another DeleteObject error.
Errors == {"none", "list", "canceled", "notfound", "delete"}

VARIABLES
  clock,          \* the wall clock, time.Now()
  present,        \* objects currently in the bucket under the prefix
  updated,        \* updated[n]: the object's Updated timestamp
  used,           \* names ever created (object names are never reused)
  reaped,         \* the objects the reaper has ever deleted (history)
  ctxDone,        \* the mount's context has been cancelled
  loop,           \* garbageCollect: "waiting" in its select, "running" a
                  \* collection, or "stopped" (returned)
  tick,           \* a tick is buffered in ticker.C (capacity 1)
  runNow,         \* now := time.Now() captured by garbageCollectOnce
  listing,        \* the objects the listing has included: those present
                  \* when the run started and those later pages list
  toList,         \* objects of the listing that ListPrefix has yet to send
  minObjects,     \* the channel minObjects: a sequence of [name, updated]
  staleNames,     \* the channel staleNames: a sequence of names
  held,           \* a stale name the filter is trying to send, or NoName
  stage,          \* stage[s]: "running" or "done" (goroutine returned)
  groupErr,       \* the errgroup's first error
  groupCancelled, \* the errgroup has cancelled its derived context
  objectsDeleted, \* the atomic counter of successful deletions
  deletedInRun    \* the objects this run's delete stage removed (history)

bucketVars == <<clock, present, updated, used, reaped>>
loopVars == <<ctxDone, loop, tick>>
runVars == <<runNow, listing, toList, minObjects, staleNames, held, stage,
             groupErr, groupCancelled, objectsDeleted, deletedInRun>>
vars == <<bucketVars, loopVars, runVars>>

-----------------------------------------------------------------------------
(* Helpers. *)

\* The derived context of errgroup.WithContext is done when its parent is
\* cancelled or when the group has cancelled it.
gctxDone == ctxDone \/ groupCancelled

\* Mutant: the comparison inverted, so fresh objects are forwarded.
IsStaleInverted(o) == runNow - o.updated < Staleness

\* Mutant: an object whose age equals the threshold is skipped.
IsStaleStrict(o) == runNow - o.updated > Staleness

\* The filter's test: an object is skipped when now.Sub(o.Updated) is below
\* the threshold, so it is stale when its age is at least the threshold.
IsStale(o) == runNow - o.updated >= Staleness

\* Mutant: a plain errgroup.Group, whose first error cancels nothing.
ReturnNoCancel(s, e) ==
  /\ stage' = [stage EXCEPT ![s] = "done"]
  /\ IF e # "none" /\ groupErr = "none"
       THEN groupErr' = e /\ UNCHANGED groupCancelled
       ELSE UNCHANGED <<groupErr, groupCancelled>>

\* A goroutine of the group returns the error e: the errgroup records the
\* first error and cancels the derived context with it.
Return(s, e) ==
  /\ stage' = [stage EXCEPT ![s] = "done"]
  /\ IF e # "none" /\ groupErr = "none"
       THEN groupErr' = e /\ groupCancelled' = TRUE
       ELSE UNCHANGED <<groupErr, groupCancelled>>

-----------------------------------------------------------------------------
(* The environment: the clock, the ticker, the write path's temporary      *)
(* objects and the unmount that cancels the mount's context.               *)

\* The clock advances; the ticker buffers one tick per period and drops a
\* tick when the previous one has not been received.
Tick ==
  /\ clock < MaxTime
  /\ clock' = clock + 1
  /\ tick' = (tick \/ (clock + 1) % Period = 0)
  /\ UNCHANGED <<present, updated, used, reaped, ctxDone, loop>>
  /\ UNCHANGED runVars

\* The write path creates a temporary object under a fresh name.
CreateTemp(n) ==
  /\ n \notin used
  /\ used' = used \cup {n}
  /\ present' = present \cup {n}
  /\ updated' = [updated EXCEPT ![n] = clock]
  /\ UNCHANGED <<clock, reaped>>
  /\ UNCHANGED loopVars
  /\ UNCHANGED runVars

\* The write path removes its temporary object once it is done with it.
RemoveTemp(n) ==
  /\ n \in present
  /\ present' = present \ {n}
  /\ UNCHANGED <<clock, updated, used, reaped>>
  /\ UNCHANGED loopVars
  /\ UNCHANGED runVars

\* The mount's context is cancelled (unmount).
Cancel ==
  /\ ~ctxDone
  /\ ctxDone' = TRUE
  /\ UNCHANGED <<loop, tick>>
  /\ UNCHANGED bucketVars
  /\ UNCHANGED runVars

-----------------------------------------------------------------------------
(* garbageCollect: the periodic loop.                                      *)

\* No garbageCollectOnce call is in progress: its group, channels, counter
\* and captured time exist only during the call.
NoRun ==
  /\ runNow = 0
  /\ listing = {}
  /\ toList = {}
  /\ minObjects = << >>
  /\ staleNames = << >>
  /\ held = NoName
  /\ stage = [s \in Stages |-> "done"]
  /\ groupErr = "none"
  /\ groupCancelled = FALSE
  /\ objectsDeleted = 0
  /\ deletedInRun = {}

\* The call returns and its locals go.
ResetRun ==
  /\ runNow' = 0
  /\ listing' = {}
  /\ toList' = {}
  /\ minObjects' = << >>
  /\ staleNames' = << >>
  /\ held' = NoName
  /\ stage' = [s \in Stages |-> "done"]
  /\ groupErr' = "none"
  /\ groupCancelled' = FALSE
  /\ objectsDeleted' = 0
  /\ deletedInRun' = {}

\* The select receives from ticker.C and garbageCollectOnce starts: the
\* group, both channels and the three goroutines are created and now is
\* captured. When ctx.Done is ready too, Go's select may still pick the tick.
StartRun ==
  /\ loop = "waiting"
  /\ tick
  /\ tick' = FALSE
  /\ loop' = "running"
  /\ runNow' = clock
  /\ listing' = present
  /\ toList' = present
  /\ minObjects' = << >>
  /\ staleNames' = << >>
  /\ held' = NoName
  /\ stage' = [s \in Stages |-> "running"]
  /\ groupErr' = "none"
  /\ groupCancelled' = FALSE
  /\ objectsDeleted' = 0
  /\ deletedInRun' = {}
  /\ UNCHANGED <<ctxDone>>
  /\ UNCHANGED bucketVars

\* The select receives from ctx.Done and garbageCollect returns.
StopLoop ==
  /\ loop = "waiting"
  /\ ctxDone
  /\ loop' = "stopped"
  /\ UNCHANGED <<ctxDone, tick>>
  /\ UNCHANGED bucketVars
  /\ UNCHANGED runVars

\* group.Wait returns once all three goroutines have returned; the result
\* is logged, garbageCollectOnce's locals go and the loop goes back to its
\* select.
EndRun ==
  /\ loop = "running"
  /\ \A s \in Stages : stage[s] = "done"
  /\ loop' = "waiting"
  /\ ResetRun
  /\ UNCHANGED <<ctxDone, tick>>
  /\ UNCHANGED bucketVars

-----------------------------------------------------------------------------
(* The list goroutine: storageutil.ListPrefix(ctx, bucket, prefix,         *)
(* minObjects), then close(minObjects) on return. ListPrefix reads the     *)
(* listing page by page and sends each object with a select on ctx.Done.   *)

\* The next listed object is sent with its current metadata.
ListSend(n) ==
  /\ loop = "running"
  /\ stage["list"] = "running"
  /\ n \in toList
  /\ n \in present
  /\ Len(minObjects) < ChanCap
  /\ minObjects' = Append(minObjects, [name |-> n, updated |-> updated[n]])
  /\ toList' = toList \ {n}
  /\ UNCHANGED <<runNow, listing, staleNames, held, stage, groupErr,
                 groupCancelled, objectsDeleted, deletedInRun>>
  /\ UNCHANGED bucketVars
  /\ UNCHANGED loopVars

\* An object removed by its owner before its page was read is not listed.
ListSkip(n) ==
  /\ loop = "running"
  /\ stage["list"] = "running"
  /\ n \in toList
  /\ n \notin present
  /\ toList' = toList \ {n}
  /\ UNCHANGED <<runNow, listing, minObjects, staleNames, held, stage,
                 groupErr, groupCancelled, objectsDeleted, deletedInRun>>
  /\ UNCHANGED bucketVars
  /\ UNCHANGED loopVars

\* A page read after an owner created an object lists that object too: it
\* joins the names the list stage has yet to send, with an Updated that
\* may be later than the run's captured now.
ListLatePage(n) ==
  /\ loop = "running"
  /\ stage["list"] = "running"
  /\ n \in present
  /\ n \notin listing
  /\ listing' = listing \cup {n}
  /\ toList' = toList \cup {n}
  /\ UNCHANGED <<runNow, minObjects, staleNames, held, stage, groupErr,
                 groupCancelled, objectsDeleted, deletedInRun>>
  /\ UNCHANGED bucketVars
  /\ UNCHANGED loopVars

\* The listing is exhausted: ListPrefix returns nil and minObjects closes.
ListFinish ==
  /\ loop = "running"
  /\ stage["list"] = "running"
  /\ toList = {}
  /\ Return("list", "none")
  /\ UNCHANGED <<runNow, listing, toList, minObjects, staleNames, held,
                 objectsDeleted, deletedInRun>>
  /\ UNCHANGED bucketVars
  /\ UNCHANGED loopVars

\* A ListObjects call fails: the goroutine returns "ListPrefix: ..." .
ListFail ==
  /\ loop = "running"
  /\ stage["list"] = "running"
  /\ Return("list", "list")
  /\ UNCHANGED <<runNow, listing, toList, minObjects, staleNames, held,
                 objectsDeleted, deletedInRun>>
  /\ UNCHANGED bucketVars
  /\ UNCHANGED loopVars

\* ListPrefix sees ctx.Done and returns ctx.Err().
ListCancelled ==
  /\ loop = "running"
  /\ stage["list"] = "running"
  /\ gctxDone
  /\ Return("list", "canceled")
  /\ UNCHANGED <<runNow, listing, toList, minObjects, staleNames, held,
                 objectsDeleted, deletedInRun>>
  /\ UNCHANGED bucketVars
  /\ UNCHANGED loopVars

-----------------------------------------------------------------------------
(* The filter goroutine: for o := range minObjects { if fresh, continue;   *)
(* select { case <-ctx.Done(): return ctx.Err(); case staleNames <- name }}*)
(* with close(staleNames) deferred.                                        *)

\* The range loop receives an object; a fresh one is skipped at once.
FilterRecv ==
  /\ loop = "running"
  /\ stage["filter"] = "running"
  /\ held = NoName
  /\ minObjects # << >>
  /\ minObjects' = Tail(minObjects)
  /\ held' = IF IsStale(Head(minObjects)) THEN Head(minObjects).name
                                          ELSE NoName
  /\ UNCHANGED <<runNow, listing, toList, staleNames, stage, groupErr,
                 groupCancelled, objectsDeleted, deletedInRun>>
  /\ UNCHANGED bucketVars
  /\ UNCHANGED loopVars

\* Mutant: the send does not wait for room in staleNames.
FilterSendUnbounded ==
  /\ loop = "running"
  /\ stage["filter"] = "running"
  /\ held # NoName
  /\ staleNames' = Append(staleNames, held)
  /\ held' = NoName
  /\ UNCHANGED <<runNow, listing, toList, minObjects, stage, groupErr,
                 groupCancelled, objectsDeleted, deletedInRun>>
  /\ UNCHANGED bucketVars
  /\ UNCHANGED loopVars

\* The select's send case: the stale name enters staleNames.
FilterSend ==
  /\ loop = "running"
  /\ stage["filter"] = "running"
  /\ held # NoName
  /\ Len(staleNames) < ChanCap
  /\ staleNames' = Append(staleNames, held)
  /\ held' = NoName
  /\ UNCHANGED <<runNow, listing, toList, minObjects, stage, groupErr,
                 groupCancelled, objectsDeleted, deletedInRun>>
  /\ UNCHANGED bucketVars
  /\ UNCHANGED loopVars

\* The select's ctx.Done case: the filter returns ctx.Err().
FilterCancelled ==
  /\ loop = "running"
  /\ stage["filter"] = "running"
  /\ held # NoName
  /\ gctxDone
  /\ held' = NoName
  /\ Return("filter", "canceled")
  /\ UNCHANGED <<runNow, listing, toList, minObjects, staleNames,
                 objectsDeleted, deletedInRun>>
  /\ UNCHANGED bucketVars
  /\ UNCHANGED loopVars

\* minObjects is closed and drained: the range loop ends, the filter
\* returns nil and staleNames closes.
FilterFinish ==
  /\ loop = "running"
  /\ stage["filter"] = "running"
  /\ held = NoName
  /\ minObjects = << >>
  /\ stage["list"] = "done"
  /\ Return("filter", "none")
  /\ UNCHANGED <<runNow, listing, toList, minObjects, staleNames, held,
                 objectsDeleted, deletedInRun>>
  /\ UNCHANGED bucketVars
  /\ UNCHANGED loopVars

-----------------------------------------------------------------------------
(* The delete goroutine: for name := range staleNames { DeleteObject(ctx,  *)
(* name, generation 0); on error return it; atomic.AddUint64(&n, 1) }.     *)

\* DeleteObject removes the latest generation and the counter is bumped.
DeleteSucceeds ==
  /\ loop = "running"
  /\ stage["delete"] = "running"
  /\ staleNames # << >>
  /\ Head(staleNames) \in present
  /\ present' = present \ {Head(staleNames)}
  /\ staleNames' = Tail(staleNames)
  /\ objectsDeleted' = objectsDeleted + 1
  /\ deletedInRun' = deletedInRun \cup {Head(staleNames)}
  /\ reaped' = reaped \cup {Head(staleNames)}
  /\ UNCHANGED <<runNow, listing, toList, minObjects, held, stage, groupErr,
                 groupCancelled>>
  /\ UNCHANGED <<clock, updated, used>>
  /\ UNCHANGED loopVars

\* Mutant: atomic.AddUint64 moved above the error check, so a failed
\* DeleteObject is counted.
DeleteFailsCounted ==
  /\ loop = "running"
  /\ stage["delete"] = "running"
  /\ staleNames # << >>
  /\ staleNames' = Tail(staleNames)
  /\ objectsDeleted' = objectsDeleted + 1
  /\ \E e \in (IF Head(staleNames) \in present THEN {"delete"}
                                               ELSE {"notfound"})
               \cup (IF gctxDone THEN {"canceled"} ELSE {}) :
       Return("delete", e)
  /\ UNCHANGED <<runNow, listing, toList, minObjects, held, deletedInRun>>
  /\ UNCHANGED bucketVars
  /\ UNCHANGED loopVars

\* DeleteObject fails: NotFoundError when the object is already gone,
\* otherwise a transient error, or the context's error once it is done.
\* The goroutine returns without draining staleNames.
DeleteFails ==
  /\ loop = "running"
  /\ stage["delete"] = "running"
  /\ staleNames # << >>
  /\ staleNames' = Tail(staleNames)
  /\ \E e \in (IF Head(staleNames) \in present THEN {"delete"}
                                               ELSE {"notfound"})
               \cup (IF gctxDone THEN {"canceled"} ELSE {}) :
       Return("delete", e)
  /\ UNCHANGED <<runNow, listing, toList, minObjects, held,
                 objectsDeleted, deletedInRun>>
  /\ UNCHANGED bucketVars
  /\ UNCHANGED loopVars

\* staleNames is closed and drained: the delete goroutine returns nil.
DeleteFinish ==
  /\ loop = "running"
  /\ stage["delete"] = "running"
  /\ staleNames = << >>
  /\ stage["filter"] = "done"
  /\ Return("delete", "none")
  /\ UNCHANGED <<runNow, listing, toList, minObjects, staleNames, held,
                 objectsDeleted, deletedInRun>>
  /\ UNCHANGED bucketVars
  /\ UNCHANGED loopVars

-----------------------------------------------------------------------------

Init ==
  /\ clock = 0
  /\ present = {}
  /\ updated = [n \in Names |-> 0]
  /\ used = {}
  /\ reaped = {}
  /\ ctxDone = FALSE
  /\ loop = "waiting"
  /\ tick = FALSE
  /\ NoRun

Environment ==
  \/ Tick
  \/ Cancel
  \/ \E n \in Names : CreateTemp(n) \/ RemoveTemp(n)

ListStage ==
  \/ \E n \in Names : ListSend(n) \/ ListSkip(n) \/ ListLatePage(n)
  \/ ListFinish \/ ListFail \/ ListCancelled

FilterStage == FilterRecv \/ FilterSend \/ FilterCancelled \/ FilterFinish

DeleteStage == DeleteSucceeds \/ DeleteFails \/ DeleteFinish

Next ==
  \/ Environment
  \/ StartRun \/ StopLoop \/ EndRun
  \/ ListStage \/ FilterStage \/ DeleteStage

\* The goroutines are scheduled by the Go runtime and every bucket call
\* returns: each stage that can make progress other than by a bucket fault
\* eventually does, and so does the loop. The clock, the owners and the
\* unmount are the environment and are not assumed to act.
ListProgress ==
  \/ \E n \in Names : ListSend(n) \/ ListSkip(n)
  \/ ListFinish \/ ListCancelled

DeleteProgress ==
  \/ DeleteSucceeds \/ DeleteFinish
  \/ DeleteFails /\ Head(staleNames) \notin present

Fairness ==
  /\ WF_vars(StartRun) /\ WF_vars(StopLoop) /\ WF_vars(EndRun)
  /\ WF_vars(ListProgress) /\ WF_vars(FilterStage) /\ WF_vars(DeleteProgress)

Spec == Init /\ [][Next]_vars /\ Fairness

-----------------------------------------------------------------------------
(* Properties.                                                             *)

TypeOK ==
  /\ clock \in 0..MaxTime
  /\ present \subseteq used /\ used \subseteq Names
  /\ updated \in [Names -> 0..MaxTime]
  /\ reaped \subseteq used
  /\ ctxDone \in BOOLEAN /\ tick \in BOOLEAN
  /\ loop \in {"waiting", "running", "stopped"}
  /\ runNow \in 0..MaxTime
  /\ listing \subseteq Names /\ toList \subseteq listing
  /\ minObjects \in Seq([name : Names, updated : 0..MaxTime])
  /\ Len(minObjects) <= ChanCap
  /\ staleNames \in Seq(Names) /\ Len(staleNames) <= ChanCap
  /\ held \in Names \cup {NoName}
  /\ stage \in [Stages -> {"running", "done"}]
  /\ groupErr \in Errors /\ groupCancelled \in BOOLEAN
  /\ objectsDeleted \in Nat /\ deletedInRun \subseteq Names

\* The reaper implements TempObjects: every object the delete stage removes
\* had reached the staleness threshold when it was removed, however the
\* owners' creations and removals, the clock and the three goroutines
\* interleave (garbageCollectOnce's filter and delete stages).
TO == INSTANCE TempObjects
ReapsOnlyStale == TO!Spec

\* What is in flight between the stages is accurate: every object record in
\* minObjects carries the object's Updated timestamp, and every name in
\* staleNames or held by the filter names an object whose age had reached
\* the threshold at the run's captured now, which is not in the future.
\* Owners only create objects under fresh names, so nothing they do can
\* make an in-flight name refer to a fresh object (the channels between
\* garbageCollectOnce's goroutines).
PipelineStale ==
  /\ runNow <= clock
  /\ \A i \in 1..Len(minObjects) :
       /\ minObjects[i].name \in used
       /\ minObjects[i].updated = updated[minObjects[i].name]
  /\ \A i \in 1..Len(staleNames) :
       /\ staleNames[i] \in used
       /\ runNow - updated[staleNames[i]] >= Staleness
  /\ held # NoName =>
       /\ held \in used
       /\ runNow - updated[held] >= Staleness

\* A name of the listing is in flight when some stage still has it: the
\* list stage has not read it yet, it is in minObjects or staleNames, or
\* the filter holds it.
InFlight(n) ==
  \/ n \in toList
  \/ \E i \in 1..Len(minObjects) : minObjects[i].name = n
  \/ held = n
  \/ \E i \in 1..Len(staleNames) : staleNames[i] = n

\* The state behind garbageCollectOnce's report, at every moment of a run.
\* The atomic counter equals the number of distinct objects the delete
\* stage removed, none of which is back in the bucket. While no goroutine
\* has failed, a returned stage has drained its input and everything it
\* sent, and every listed object still in the bucket that was stale at the
\* captured now is still in flight towards the delete stage: no stage of
\* the pipeline drops a stale name without an error.
RunAccounting ==
  /\ objectsDeleted = Cardinality(deletedInRun)
  /\ deletedInRun \subseteq used /\ deletedInRun \cap present = {}
  /\ listing \subseteq used
  /\ groupErr = "none" =>
       /\ stage["list"] = "done" => toList = {}
       /\ stage["filter"] = "done" =>
            /\ stage["list"] = "done"
            /\ minObjects = << >> /\ held = NoName
       /\ stage["delete"] = "done" =>
            /\ stage["filter"] = "done"
            /\ staleNames = << >>
       /\ \A n \in listing \cap present :
            runNow - updated[n] >= Staleness => InFlight(n)

\* When group.Wait returns, garbageCollectOnce reports as objectsDeleted
\* exactly the number of objects its delete stage removed, and a run that
\* returns no error has removed every listed object that was stale at its
\* start and that its owner had not removed.
RunReportAccurate ==
  [][EndRun =>
       /\ objectsDeleted = Cardinality(deletedInRun)
       /\ groupErr = "none" =>
            \A n \in listing \cap present : runNow - updated[n] < Staleness
    ]_vars

\* Every garbageCollectOnce run returns: no goroutine of the errgroup is left
\* blocked on a channel, whichever stage fails first (group.Wait).
RunTerminates == loop = "running" ~> loop # "running"

=============================================================================
