# TLA+ models of the gcsfuse reaper, TCP monitor and download task

This directory holds TLA+ models of the concurrent core of this repository:

- the stale temporary object reaper and the TCP connection monitor (`src/internal/gcsx/garbage_collect.go`);
- the buffered-read download task (`src/unnamed/part_004`, package `bufferedread`).

With the models come:

- TLC configurations that check them on small instances;
- TLAPS proofs of the reaper's type correctness, its pipeline invariant, the accounting of a run and the accuracy of its report, and its refinement of an abstract specification; of the download path's type, outcome and read-handle invariants and its refinement of the block's contract; and of the TCP monitor's agreement with a reference count of `/proc/net/tcp` for every file content.

## The system

- **Stale Object Reaper.** `garbageCollect` is a goroutine for the life of the mount. It selects on the mount's context and on a 10-minute ticker. On each tick it calls `garbageCollectOnce`, which starts three goroutines in an `errgroup` with one derived context:
  - *list*: `ListPrefix` sends every temporary object into `minObjects` (capacity 100), then closes it.
  - *filter*: ranges over `minObjects` and forwards the name of every object at least 30 minutes old into `staleNames` (capacity 100). Each send is a select on `ctx.Done`.
  - *delete*: ranges over `staleNames`, deletes each object at generation 0, and counts the successes atomically. It returns on the first error.

  The first error cancels the derived context, and `group.Wait` returns that error once all three goroutines have returned. The loop logs the outcome and goes back to its select.
- **TCP monitor.** `startTCPMonitoring` is a second ticker loop. On each tick it reads `/proc/net/tcp` and splits it into lines. It skips the header, splits each remaining line into fields, and counts a line with at least four fields as active when the fourth field is `01`, and as idle otherwise. A read error skips the tick.
- **Download Task.** A worker of the worker pool calls `Execute` for one block:
  - It computes the range `[start, min(start+cap, size))` and opens a reader. A `NotFoundError` becomes a `FileClobberedError`.
  - It copies exactly the range length with `io.CopyN`.
  - On success it hands the reader's new read handle to `readHandleUpdater`.
  - A deferred function classifies the attempt as `successful`, `cancelled` or `failed`. It notifies the block once, with `Downloaded` or with `DownloadFailed` and the error.

  The consumer that claims blocks and cancels tasks, the block package and the worker pool are not under `src/`. They are modelled from `spec.md`, as far as the task uses them. The pool's `shutdown()` stops accepting tasks and lets executing ones finish. The spec leaves open whether queued tasks still run, so the model allows both.
- **Block.** The block's contract (spec §4.1) is that it is claimed once, written only while `Downloading` and never past its range, and notified once into a terminal state that never changes; `Downloaded` means the whole range is written.
- The integration tests (`src/unnamed/part_000`–`part_003`, `src/tools/...`) mount a real bucket and inspect files. They are not modelled.

## Modules

| Module | Models | State | Actions |
|---|---|---|---|
| `GarbageCollect` | `garbageCollect`, `garbageCollectOnce` | the bucket (`present`, `updated`, `used`), the clock, the loop and its ticker buffer, and the locals of a run: captured `runNow`, the two channels as sequences, the filter's pending name `held`, per-stage status, the errgroup's first error and cancellation, the counter | one action per stage step: `ListSend`, `ListSkip`, `ListLatePage`, `ListFinish`, `ListFail`, `ListCancelled`; `FilterRecv`, `FilterSend`, `FilterCancelled`, `FilterFinish`; `DeleteSucceeds`, `DeleteFails`, `DeleteFinish`. The loop has `StartRun`, `StopLoop` and `EndRun`. The environment has `Tick`, `CreateTemp`, `RemoveTemp` and `Cancel` |
| `TempObjects` | the reaper's promise (spec §4.4) | clock, objects, timestamps, deleted set | `Advance`, `Create`, `Remove`, `Reap`, where only a stale object is reaped |
| `DownloadTask` | `DownloadTask.Execute` | per block: state, units written, error, notification count, task pc, cancellation, metric label, read handles; the pool's state | `Schedule`, `CancelTask`, `Dispatch` and `Shutdown(drop)` (consumer and pool, from the spec; `ShutdownSpec` allows both kinds of shutdown, `DrainSpec` only the draining one); `OpenSucceeds`, `OpenFails`, `CopyChunk`, `CopyFails`, `CopyDone`. `Finish` is the deferred classification |
| `PrefetchBlock` | the block's contract (spec §4.1) | per block: state, units written | `Claim`, `Write`, `NotifyReady(b, s)` |
| `TCPMonitor` | `startTCPMonitoring` | ticker buffer, loop state, last file read, last counts logged | `Tick`, `Cancel`, `Stop`, `ReadFails`, `Monitor(data)` |

Modelling choices:

- An action is the whole step of a goroutine between two points where it can block or where another goroutine can observe it. For example, `EndRun` is `group.Wait` returning together with the logging and the return to the select.
- Errors are abstracted to what the classification tells apart. For the reaper: `list`, `canceled`, `notfound`, `delete`. For the task: `clobbered`, `canceled`, `other`.
- A bucket call on a cancelled context may return `context.Canceled` or its own result, so both are allowed.
- `ListPrefix` reads the listing page by page while the owners go on. The listing starts as the objects present when the run begins; `ListLatePage` adds an object created since, as a later page would list it, with an `Updated` later than the run's `now`. `ListSkip` drops an object removed before its page was read.
- Owners create temporary objects under fresh names. This is why `used` exists, and why a deleted name can never denote a newer object.
- For the monitor, the file is a sequence of characters over `0`, `1`, space and newline. `strings.Split` and `strings.Fields` are written as left folds that do what those functions do on that text. Each fold is a recursive function over the length of the prefix read so far (`SplitPrefix`, `FieldsPrefix`), and so is the counting loop (`CountPrefix`). `RefStats` is an independent definition over character positions, with no folds, that the logged counts are checked against.

## Runs

| Run | Instance | Checks | Result |
|---|---|---|---|
| `gc_safety` | 3 objects, clock 0..4, threshold 3, period 1, capacity 1, symmetry on names | `TypeOK`, `PipelineStale`, `RunAccounting`, `ReapsOnlyStale` (refinement of `TempObjects`), `RunReportAccurate` | pass, about 700k distinct states |
| `gc_liveness` | 3 objects, clock 0..1 (one run), threshold 1, no symmetry | `RunTerminates` | pass, about 94k states |
| `download` | 3 blocks of 2 units over 5 units (the last is short), 2 workers | `TypeOK`, `OutcomeConsistent`, `HandleFromCompleteRead`, `EveryBlockNotified`, `ImplementsPrefetchBlock` (refinement of `PrefetchBlock`, liveness included) | pass, about 38k states |
| `download_pool` | as `download`, with `DrainSpec`: the pool may shut down at any point and drains its queue | `EveryBlockNotified` | pass, about 77k states |
| `download_shutdown` | 2 blocks, 1 worker, `ShutdownSpec` | `EveryBlockNotified` | violation (finding) |
| `download_cancel` | 1 block, 1 worker | `CancelledNeverFailed` | violation (finding) |
| `tcp_monitor` | 115 file contents: a header plus up to two of seven sample lines, with or without a trailing newline; 3 ticks | `ReportMatchesReference` | pass |

Why the bounds are enough:

- A channel capacity of 1 makes every "channel full" case reachable. With 3 objects, a run has an object in each stage at once, and an owner can remove one of them mid-run.
- A threshold of 3 on a clock of 4 gives objects that are fresh, exactly at the threshold, and past it within one run, and objects created after a run's `now` that a later page lists.
- `download_pool` is the only passing run in which the pool shuts down. It separates the two readings of `shutdown()`: with a draining pool every consumer is woken (its mutant, workers that stop taking queued tasks on shutdown, leaves one waiting), and with a pool that drops its queue `download_shutdown` finds one that is not.
- The download instance has a short last block and more tasks than workers.
- The monitor samples include a line with exactly four fields, `01` in another field, `011`, leading, doubled and trailing spaces, an empty line, and a header that itself looks like an established connection.

`RunAccounting` is the state invariant behind `RunReportAccurate`, checked here so that the proof's inductive invariant is also tested on the instance. Its mutant moves the `atomic.AddUint64` above the error check of the delete goroutine.

Every property of a passing run has a mutant in `PROJECT.json`: a plausible bug in the mapped code that makes TLC report the property violated. Examples are a copy that writes after the notification, a read handle captured in the defer, the age comparison inverted or made strict, a plain `errgroup.Group` that cancels nothing, `NotifyReady` outside the defer, a shadowed `err`, and `stats` not reset between ticks.

Deadlock checking is off in every cfg. Both loops really stop once their context is cancelled, the download path really ends once every block is done, and the model's clock and ticks are bounded.

### Findings

- `download_shutdown` (`part_004:76`): a block is notified only from `Execute`'s defer. If the pool shuts down with the block's task still queued and leaves its queue behind, the block stays `Downloading` and its consumer waits for ever. The spec allows such a pool, since it only promises that in-flight tasks finish. It also says a consumer is never left waiting forever. This is a gap in the spec.
- `download_cancel` (`part_004:83`): a task cancelled before it completes is labelled `failed` when the bucket's error does not wrap `context.Canceled`. That happens with a reply racing the cancellation, or with a transport error. The spec says such downloads are never counted as failed.

## Fairness

- The reaper's stages and loop, and the task's `Dispatch` and `Execute` steps, get weak fairness. They are goroutines that the Go runtime keeps scheduling, and each bucket call returns.
- `ListFail` and the transient `DeleteFails` are not fair. A run must terminate without counting on a fault.
- The owners, the clock, the consumer, the cancellations and the pool's shutdown are the environment and get no fairness. A stopped pool disables `Dispatch`, so its weak fairness asks nothing of a task left in the queue.
- The loops' return on a cancelled context is not checked as a property: with a select whose `ctx.Done` case stays ready, it would hold by the fairness of that one case alone. `RunTerminates` is the reaper's liveness property that depends on the code. The TCP monitor has no liveness property and its `Spec` assumes no fairness.
- `DrainSpec` keeps `Dispatch` fair after a draining shutdown: its workers go on taking queued tasks.

## Proofs (`GarbageCollectProofs`, checked by `tlapm`)

The proofs assume `NamesAssumption`, `TimeAssumption` and `ChanCapAssumption`: a finite set of names, natural-number bounds and a positive period and capacity. They hold for every value of these constants.

- `TypeCorrect`: `Spec => []TypeOK`. `TypeOK` is split into three groups: bucket, loop and run. Lemmas say that a group an action leaves unchanged keeps its type, and that an errgroup return keeps the group's error typed.
- `PipelineInvariant`: `Spec => []PipelineStale`. `PipelineStale` strengthens the refinement, which is not inductive on the bucket alone: the delete stage removes whatever name reaches it. It says three things:
  - every record in `minObjects` carries its object's current timestamp;
  - every name in `staleNames` or `held` was stale at `runNow`;
  - `runNow <= clock`.

  `CreateTemp` preserves it because it only uses fresh names. `PipelineFrame` and `PipelineTail` cover the steps that leave the channels alone or pop one.
- `AccountingInvariant`: `Spec => []RunAccounting`. `RunReportAccurate` is an action property about the step where `group.Wait` returns. What it claims there is the end of an argument about the whole run, so it needs a state invariant, `RunAccounting`. That invariant has three parts, each proved inductive on its own:
  - `CountStep`: `objectsDeleted` equals the size of the set of objects this run removed. None of those objects is back in the bucket, because names are never reused. So a successful delete adds a new element (`FS_AddElement`).
  - `DrainStep`: while the group's error is nil, a stage that has returned has drained its input and everything it sent. A stage that returns an error makes the group's error non-nil for the rest of the run (`ErrorReturns`).
  - `FlightStep`: while the group's error is nil, every listed object still in the bucket that was stale at `runNow` is `InFlight`: unread by the list stage, in `minObjects`, held by the filter, or in `staleNames`. The filter's test is taken on a record carrying the object's current timestamp (`PipelineStale`), so it keeps every such object. The only step that drops one from `staleNames` is the delete that removes it from the bucket. An object that a later page lists (`ListLatePage`) joins `toList`, so it is in flight from the moment it is in `listing`.
- `ReportAccurate`: `Spec => RunReportAccurate`. When all three stages are done and no error occurred, nothing is in flight (`DrainPart`). So no listed, present object can be stale (`FlightPart`), and the counter is exact (`CountPart`). `ReportAtEnd` proves this for one `EndRun` step. The theorem follows from `TypeCorrect` and `AccountingInvariant` by temporal logic.
- `Refinement`: `Spec => ReapsOnlyStale`, i.e. `Spec => TO!Spec`. Under the identity mapping of the bucket variables:
  - `Tick`, `CreateTemp` and `RemoveTemp` map to `Advance`, `Create` and `Remove`;
  - `DeleteSucceeds` maps to `Reap` of the head of `staleNames`, which is stale by `PipelineStale` and `runNow <= clock` (`DeleteIsReap`);
  - every other step leaves the bucket unchanged.

## Proofs (`DownloadTaskProofs`, checked by `tlapm`)

The proofs assume `SizeAssumption` and `WorkersAssumption`: a positive capacity, a natural-number size and a positive worker count.

- `TypeCorrect`: `Spec => []TypeOK`. `TypeOK` bounds `notified` by 1 and `written` by the capacity.
- `OutcomeInvariant`: `Spec => []OutcomeConsistent`. `ShutdownOutcomeInvariant` is the same for `ShutdownSpec`.
- `HandleInvariant`: `Spec => []HandleFromCompleteRead`. The consumer's read handle, and each submitted task's, is nil or the handle of a reader whose copy completed.
- `Refinement`: `ShutdownSpec => ImplementsPrefetchBlockSafety`, i.e. even with a pool that may shut down either way the download path implements `PrefetchBlock!SafeSpec` under `state <- bstate`, `filled <- written`, `Len <- RangeLen`. `Schedule` maps to `Claim`, `CopyChunk` to `Write`, the deferred `Finish` to `NotifyReady` (`FinishIsNotify`), and every other step leaves the block alone (`RefinementStep`).

None of these is inductive alone. All rest on one invariant `IInv`, shown to be kept by every step of `PoolNext` (`StepKeeps`), which includes every step of `Next` (`NextIsPoolNext`). `IInv` adds, per block (`BlockInv`):

- `notified` is 1 exactly when Execute has returned. So the deferred `NotifyReady` cannot run a second time: `Finish` is only enabled from `open` or `copy`.
- `written` never exceeds the block's range. `RangeBound` shows the range is at most the capacity, since `end` is clamped to a size beyond the block's start.
- an idle task's block is `NotReady`, a queued or executing task's block is `Downloading`. This is what makes `Finish` a `NotifyReady` and a copy a `Write`.
- the metric label is `none` until Execute returns. So a reader's handle counts as complete only once its task is done, and `OpenSucceeds` never changes a complete read's handle.

`FinishKeeps` proves once that the deferred classification keeps `IInv` when a nil error comes only with the whole range copied and the reader's handle reaches the consumer only then. `OpenFails`, `CopyFails` and `CopyDone` all cite it. `HandleFrame` covers the steps that touch no label or handle.

## Proofs (`TCPMonitorProofs`, checked by `tlapm`)

The proofs assume `FilesAssumption`: every file content is a sequence over `Chars`. Nothing bounds the length of the file, the number of lines or the number of fields.

- `ReportCorrect`: `Spec => []ReportMatchesReference`. It rests on the inductive invariant `ReportIsStats`: `file` is a text over `Chars`, and a logged report is `Stats(file)`. `ReportMatchesReference` alone is not inductive because it refers to `RefStats` and not to what `Monitor` computes. `ReportIsStatsInductive` shows that every step keeps `ReportIsStats`. The theorem then follows from `StatsIsRef`.
- `StatsIsRef`: `Stats(d) = RefStats(d)` for every text `d`. This is the fold-correctness argument. The folds are recursive functions, and the proofs use induction over their index.
  - `Least` and `UpTo` derive that induction from the well-foundedness of `<` on `Nat`.
  - `SplitPrefixUnfold`, `FieldsPrefixUnfold` and `CountPrefixUnfold` state each fold's recursion equations.
  - `SplitInvariant`: after `i` characters, the `Split` fold holds one piece per newline read plus one. The last piece is the text since the last newline, and piece `k` sits at the positions the reference calls line `k`. The lemmas on `NLs`, the number of newlines before a position, support this.
  - `SplitLines` and `SplitLen` follow from `SplitInvariant`.
  - `FieldsStepInv` and `FieldsInvariant`: while a line is scanned, field `m` is the maximal run of non-spaces starting at the start position of rank `m - 1`, and `inField` says whether the last character read was a non-space.
  - `LineFields` follows: a line has as many fields as the reference has field starts, and its fourth field is `01` exactly when the reference's `FourthIs01` holds (`RankInjective`, `Run01`).
  - `CountInvariant`: after `m` lines of `lines[1:]`, the counts are the sizes of the reference's active and idle lines `2..m + 1` (`CountStepInv`).

## Only model-checked

TLC checks these, and no proof covers them:

- The liveness properties (`RunTerminates`, `EveryBlockNotified` under `Spec` and under `DrainSpec`, and the fairness part of `ImplementsPrefetchBlock`). TLAPS does not reason about fairness and `ENABLED` here.

## Not modelled

- The write path that creates temporary objects, beyond fresh names.
- The consumer's use of the read handle beyond storing the last one. Tasks may update it in any order; `HandleFromCompleteRead` holds whatever the order, and no ordering is promised by the spec.
- A block starting at or past the object's end, where `end - start` would wrap as a `uint64`. The consumer only schedules blocks inside the object, so the model's `Blocks` never include one.
- The `generation 0` of `DeleteObject`. Temporary names are never rewritten, so the model creates each name once.
- Whether a `NotFoundError` from `DeleteObject` should fail a run: the model lets it fail the run, as the code and spec §4.4 do.
- Log and metric formatting.
- The integration tests.

The remaining plan:

- compose the reaper and the download path under one mount context, if a property about their interaction (shutdown order at unmount) is wanted.
