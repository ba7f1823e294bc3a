---------------------------- MODULE DownloadTask ----------------------------
(***************************************************************************)
(* The block download path of the buffered reader: the consumer claims a   *)
(* block and submits a DownloadTask to the worker pool; a worker runs      *)
(* DownloadTask.Execute (internal/bufferedread/download_task.go), which    *)
(* computes the block's byte range, opens a ranged reader on the bucket,   *)
(* copies the range into the block, hands the reader's read handle to the  *)
(* updater, and in a deferred function classifies the outcome, notifies    *)
(* the block and records the metrics.                                      *)
(*                                                                         *)
(* Bytes are counted in units: a block holds BlockCap units and the object *)
(* ObjectSize units; a copy step moves one unit.                           *)
(***************************************************************************)
EXTENDS Naturals, FiniteSets

CONSTANTS
  BlockCap,    \* block.Cap(), in units
  ObjectSize,  \* object.Size, in units
  Workers      \* the worker pool's number of workers

ASSUME SizeAssumption ==
  /\ BlockCap \in Nat \ {0}
  /\ ObjectSize \in Nat
ASSUME WorkersAssumption == Workers \in Nat \ {0}

\* The blocks the consumer schedules: those that start inside the object.
Blocks == {i \in 0..ObjectSize : i * BlockCap < ObjectSize}

BlockStates == {"NotReady", "Downloading", "Downloaded", "DownloadFailed"}

\* The error of Execute: nil, a FileClobberedError, an error that wraps
\* context.Canceled, or any other error.
ErrKinds == {"none", "clobbered", "canceled", "other"}

Labels == {"none", "successful", "cancelled", "failed"}

VARIABLES
  bstate,      \* bstate[b]: the block's state
  written,     \* written[b]: units written into the block
  berr,        \* berr[b]: the error carried by the block's status
  notified,    \* notified[b]: NotifyReady calls on the block
  pc,          \* pc[b]: "idle", "queued" in the pool, "open" (Execute has
               \* started), "copy" (reader open), "done" (Execute returned)
  ctxCancelled,\* ctxCancelled[b]: the task's context has been cancelled
  label,       \* label[b]: the status the metrics recorded
  taskHandle,  \* taskHandle[b]: the read handle the task was built with
  rdHandle,    \* rdHandle[b]: the read handle of the task's open reader
  readHandle,  \* the consumer's read handle, set by readHandleUpdater
  nextHandle,  \* the last read handle the bucket handed out
  pool         \* the worker pool: "running", "draining" (shut down, queued
               \* tasks still run) or "stopped" (shut down, queued tasks
               \* are never taken)

vars == <<bstate, written, berr, notified, pc, ctxCancelled, label,
          taskHandle, rdHandle, readHandle, nextHandle, pool>>

-----------------------------------------------------------------------------
(* The byte range of Execute.                                              *)

\* startOff := dt.block.AbsStartOff()
AbsStartOff(b) == b * BlockCap

\* end := start + Cap(), clamped to object.Size.
End(b) ==
  IF AbsStartOff(b) + BlockCap > ObjectSize THEN ObjectSize
                                            ELSE AbsStartOff(b) + BlockCap

\* The count io.CopyN copies, int64(end - start).
RangeLen(b) == End(b) - AbsStartOff(b)

Running == {b \in Blocks : pc[b] \in {"open", "copy"}}

-----------------------------------------------------------------------------
(* The consumer and the worker pool (spec-modelled).                       *)

\* The consumer claims a block and submits a task for it, built with the
\* read handle it holds. Once the pool is shut down, submit returns an
\* error and the consumer claims nothing.
Schedule(b) ==
  /\ pool = "running"
  /\ pc[b] = "idle"
  /\ bstate[b] = "NotReady"
  /\ bstate' = [bstate EXCEPT ![b] = "Downloading"]
  /\ pc' = [pc EXCEPT ![b] = "queued"]
  /\ taskHandle' = [taskHandle EXCEPT ![b] = readHandle]
  /\ UNCHANGED <<written, berr, notified, ctxCancelled, label, rdHandle,
                 readHandle, nextHandle, pool>>

\* The consumer abandons the read: it cancels the task's context.
CancelTask(b) ==
  /\ pc[b] \in {"queued", "open", "copy"}
  /\ ~ctxCancelled[b]
  /\ ctxCancelled' = [ctxCancelled EXCEPT ![b] = TRUE]
  /\ UNCHANGED <<bstate, written, berr, notified, pc, label, taskHandle,
                 rdHandle, readHandle, nextHandle, pool>>

Dispatch(b) ==
  /\ pool # "stopped"
  /\ pc[b] = "queued"
  /\ Cardinality(Running) < Workers
  /\ pc' = [pc EXCEPT ![b] = "open"]
  /\ UNCHANGED <<bstate, written, berr, notified, ctxCancelled, label,
                 taskHandle, rdHandle, readHandle, nextHandle, pool>>

\* shutdown(): the pool stops accepting tasks; tasks already executing run
\* to completion. Whether queued tasks are still taken (drop = FALSE) or
\* left in the queue (drop = TRUE) is not fixed by the spec.
Shutdown(drop) ==
  /\ pool = "running"
  /\ pool' = IF drop THEN "stopped" ELSE "draining"
  /\ UNCHANGED <<bstate, written, berr, notified, pc, ctxCancelled, label,
                 taskHandle, rdHandle, readHandle, nextHandle>>

-----------------------------------------------------------------------------
(* DownloadTask.Execute.                                                   *)

\* The deferred function: the status is "successful" for a nil error,
\* "cancelled" when the error is context.Canceled and the task's context
\* was cancelled, "failed" otherwise; the block is notified with
\* Downloaded or with DownloadFailed and the error; the metrics record the
\* status. Execute returns and the worker is free.
Finish(b, e) ==
  /\ pc' = [pc EXCEPT ![b] = "done"]
  /\ label' = [label EXCEPT ![b] =
                 IF e = "none" THEN "successful"
                 ELSE IF e = "canceled" /\ ctxCancelled[b] THEN "cancelled"
                 ELSE "failed"]
  /\ bstate' = [bstate EXCEPT ![b] =
                  IF e = "none" THEN "Downloaded" ELSE "DownloadFailed"]
  /\ berr' = [berr EXCEPT ![b] = e]
  /\ notified' = [notified EXCEPT ![b] = @ + 1]

\* NewReaderWithReadHandle succeeds and hands back a reader with a handle.
OpenSucceeds(b) ==
  /\ pc[b] = "open"
  /\ pc' = [pc EXCEPT ![b] = "copy"]
  /\ rdHandle' = [rdHandle EXCEPT ![b] = nextHandle + 1]
  /\ nextHandle' = nextHandle + 1
  /\ UNCHANGED <<bstate, written, berr, notified, ctxCancelled, label,
                 taskHandle, readHandle, pool>>

\* Mutant: NotifyReady called at the end of the body instead of in a
\* defer, so the early returns after a failed open skip it.
OpenFailsNoNotify(b) ==
  /\ pc[b] = "open"
  /\ \E e \in {"clobbered", "other"}
                \cup (IF ctxCancelled[b] THEN {"canceled"} ELSE {}) :
       /\ pc' = [pc EXCEPT ![b] = "done"]
       /\ berr' = [berr EXCEPT ![b] = e]
  /\ UNCHANGED <<bstate, written, notified, ctxCancelled, label, taskHandle,
                 rdHandle, readHandle, nextHandle, pool>>

\* NewReaderWithReadHandle fails: a NotFoundError becomes a
\* FileClobberedError; any other error is wrapped, and once the context is
\* cancelled the error may be its context.Canceled. A cancellation racing a
\* reply lets the reply's own outcome through.
OpenFails(b) ==
  /\ pc[b] = "open"
  /\ \E e \in {"clobbered", "other"}
                \cup (IF ctxCancelled[b] THEN {"canceled"} ELSE {}) :
       Finish(b, e)
  /\ UNCHANGED <<written, ctxCancelled, taskHandle, rdHandle, readHandle,
                 nextHandle, pool>>

\* Mutant: the copy goes on writing into the block after Execute's
\* deferred function has notified it.
CopyChunkAfterNotify(b) ==
  /\ pc[b] \in {"copy", "done"}
  /\ written[b] < RangeLen(b)
  /\ written' = [written EXCEPT ![b] = @ + 1]
  /\ UNCHANGED <<bstate, berr, notified, pc, ctxCancelled, label,
                 taskHandle, rdHandle, readHandle, nextHandle, pool>>

\* io.CopyN moves the next unit of the range into the block.
CopyChunk(b) ==
  /\ pc[b] = "copy"
  /\ written[b] < RangeLen(b)
  /\ written' = [written EXCEPT ![b] = @ + 1]
  /\ UNCHANGED <<bstate, berr, notified, pc, ctxCancelled, label,
                 taskHandle, rdHandle, readHandle, nextHandle, pool>>

\* Mutant: "if _, err := io.CopyN(...); err != nil { return }" shadows
\* err, so the deferred function sees nil after a failed copy.
CopyFailsShadowed(b) ==
  /\ pc[b] = "copy"
  /\ written[b] < RangeLen(b)
  /\ Finish(b, "none")
  /\ UNCHANGED <<written, ctxCancelled, taskHandle, rdHandle, readHandle,
                 nextHandle, pool>>

\* Mutant: the read handle is captured in the deferred function, so a
\* reader whose copy failed also hands its handle to readHandleUpdater.
CopyFailsUpdatesHandle(b) ==
  /\ pc[b] = "copy"
  /\ written[b] < RangeLen(b)
  /\ readHandle' = rdHandle[b]
  /\ \E e \in {"other"} \cup (IF ctxCancelled[b] THEN {"canceled"} ELSE {}) :
       Finish(b, e)
  /\ UNCHANGED <<written, ctxCancelled, taskHandle, rdHandle, nextHandle,
                 pool>>

\* io.CopyN fails before the range is copied: a read error or a truncated
\* stream, or context.Canceled once the context is cancelled.
CopyFails(b) ==
  /\ pc[b] = "copy"
  /\ written[b] < RangeLen(b)
  /\ \E e \in {"other"} \cup (IF ctxCancelled[b] THEN {"canceled"} ELSE {}) :
       Finish(b, e)
  /\ UNCHANGED <<written, ctxCancelled, taskHandle, rdHandle, readHandle,
                 nextHandle, pool>>

\* Mutant: the success path notifies the block itself and the deferred
\* function notifies it again.
CopyDoneDoubleNotify(b) ==
  /\ pc[b] = "copy"
  /\ written[b] = RangeLen(b)
  /\ readHandle' = rdHandle[b]
  /\ pc' = [pc EXCEPT ![b] = "done"]
  /\ label' = [label EXCEPT ![b] = "successful"]
  /\ bstate' = [bstate EXCEPT ![b] = "Downloaded"]
  /\ berr' = [berr EXCEPT ![b] = "none"]
  /\ notified' = [notified EXCEPT ![b] = @ + 2]
  /\ UNCHANGED <<written, ctxCancelled, taskHandle, rdHandle, nextHandle, pool>>

\* The whole range is copied: readHandleUpdater gets the reader's handle
\* and Execute returns with a nil error.
CopyDone(b) ==
  /\ pc[b] = "copy"
  /\ written[b] = RangeLen(b)
  /\ readHandle' = rdHandle[b]
  /\ Finish(b, "none")
  /\ UNCHANGED <<written, ctxCancelled, taskHandle, rdHandle, nextHandle, pool>>

-----------------------------------------------------------------------------

Init ==
  /\ bstate = [b \in Blocks |-> "NotReady"]
  /\ written = [b \in Blocks |-> 0]
  /\ berr = [b \in Blocks |-> "none"]
  /\ notified = [b \in Blocks |-> 0]
  /\ pc = [b \in Blocks |-> "idle"]
  /\ ctxCancelled = [b \in Blocks |-> FALSE]
  /\ label = [b \in Blocks |-> "none"]
  /\ taskHandle = [b \in Blocks |-> 0]
  /\ rdHandle = [b \in Blocks |-> 0]
  /\ readHandle = 0
  /\ nextHandle = 0
  /\ pool = "running"

\* The steps of one task's Execute.
Execute(b) ==
  \/ OpenSucceeds(b) \/ OpenFails(b)
  \/ CopyChunk(b) \/ CopyFails(b) \/ CopyDone(b)

Next ==
  \E b \in Blocks :
    \/ Schedule(b) \/ CancelTask(b) \/ Dispatch(b)
    \/ Execute(b)

\* Workers are goroutines scheduled by the Go runtime and every bucket call
\* returns: a dispatchable task is eventually dispatched and a running
\* Execute eventually takes its next step. The consumer is not assumed to
\* schedule or cancel anything.
Fairness ==
  \A b \in Blocks : WF_vars(Dispatch(b)) /\ WF_vars(Execute(b))

Spec == Init /\ [][Next]_vars /\ Fairness

\* The same, with the worker pool shut down at some point.
PoolNext == Next \/ \E drop \in BOOLEAN : Shutdown(drop)

ShutdownSpec == Init /\ [][PoolNext]_vars /\ Fairness

\* The same, with a shutdown that drains the queue: the tasks already
\* submitted still run.
DrainNext == Next \/ Shutdown(FALSE)

DrainSpec == Init /\ [][DrainNext]_vars /\ Fairness

-----------------------------------------------------------------------------
(* Properties.                                                             *)

TypeOK ==
  /\ bstate \in [Blocks -> BlockStates]
  /\ written \in [Blocks -> 0..BlockCap]
  /\ berr \in [Blocks -> ErrKinds]
  /\ notified \in [Blocks -> 0..1]
  /\ pc \in [Blocks -> {"idle", "queued", "open", "copy", "done"}]
  /\ ctxCancelled \in [Blocks -> BOOLEAN]
  /\ label \in [Blocks -> Labels]
  /\ taskHandle \in [Blocks -> Nat] /\ rdHandle \in [Blocks -> Nat]
  /\ readHandle \in Nat /\ nextHandle \in Nat
  /\ pool \in {"running", "draining", "stopped"}

\* Once Execute has returned, the block's status, its contents and the
\* metrics agree: a Downloaded block holds exactly its range
\* [start, min(start + cap, size)) and was counted "successful"; a failed
\* block carries its error; "cancelled" is counted only for a block whose
\* context was cancelled and that failed (DownloadTask.Execute and its
\* deferred classification).
OutcomeConsistent ==
  \A b \in Blocks : pc[b] = "done" =>
    /\ (bstate[b] = "Downloaded") = (label[b] = "successful")
    /\ bstate[b] = "Downloaded" => written[b] = RangeLen(b) /\ berr[b] = "none"
    /\ bstate[b] = "DownloadFailed" => berr[b] # "none"
    /\ label[b] = "cancelled" => ctxCancelled[b] /\ bstate[b] = "DownloadFailed"

\* The read handles a bucket reader has returned after copying its whole
\* range; 0 is the nil handle the consumer starts with.
CompleteReadHandles ==
  {0} \cup {rdHandle[c] : c \in {c \in Blocks : label[c] = "successful"}}

\* The consumer's read handle, and the handle every submitted task was built
\* with, are nil or the handle of a reader that copied its whole range:
\* Execute hands the new handle to readHandleUpdater only after io.CopyN
\* succeeded, however the tasks of the object finish and fail.
HandleFromCompleteRead ==
  /\ readHandle \in CompleteReadHandles
  /\ \A b \in Blocks : pc[b] # "idle" => taskHandle[b] \in CompleteReadHandles

\* A consumer waiting on a claimed block is eventually woken with a terminal
\* status, whether the download succeeds, fails or is cancelled
\* (DownloadTask.Execute's deferred NotifyReady), and, under DrainSpec,
\* whenever the pool is shut down: submission is refused once it is, and a
\* task submitted before is still executed.
EveryBlockNotified ==
  \A b \in Blocks :
    bstate[b] = "Downloading" ~> bstate[b] \in {"Downloaded", "DownloadFailed"}

\* The block's contract of spec section 4.1, under the refinement mapping
\* that reads the block's state and the units written off the download
\* path: a block is claimed once, written only while Downloading and within
\* its range, and notified once into a terminal state that never changes.
PB == INSTANCE PrefetchBlock
        WITH state <- bstate, filled <- written,
             Len <- [b \in Blocks |-> RangeLen(b)]

\* The download path implements the block's contract, the liveness of
\* the one notification included (Execute's deferred NotifyReady).
ImplementsPrefetchBlock == PB!Spec

\* The safety part of the block's contract, which must hold whether or not
\* the worker pool is shut down: no write after the notification, no
\* second terminal state, Downloaded only with the whole range.
ImplementsPrefetchBlockSafety == PB!SafeSpec

\* The spec: a download cancelled through its context before it completes
\* is counted "cancelled", never "failed" (DownloadTask.Execute's deferred
\* classification of the error).
CancelledNeverFailed ==
  \A b \in Blocks : ctxCancelled[b] /\ pc[b] = "done" => label[b] # "failed"

=============================================================================
