------------------------- MODULE DownloadTaskProofs -------------------------
(***************************************************************************)
(* Proofs about the download task model DownloadTask, for every block      *)
(* capacity, object size and number of workers allowed by its assumptions. *)
(*                                                                         *)
(* TypeOK and OutcomeConsistent are not inductive as they stand: that a    *)
(* block is notified at most once rests on notified being 1 exactly when   *)
(* Execute has returned, and the bound on written rests on the copy never  *)
(* passing the block's range. BlockInv states both for one block, with    *)
(* what ties the task's pc to the block's state and the metric label that *)
(* the refinement and the read-handle property need.                      *)
(***************************************************************************)
EXTENDS DownloadTask, TLAPS

USE SizeAssumption, WorkersAssumption

PCs == {"idle", "queued", "open", "copy", "done"}

\* What holds of each block: NotifyReady has been called once exactly when
\* Execute has returned, and no more than the block's range has been copied.
BlockInv(b) ==
  /\ notified[b] = IF pc[b] = "done" THEN 1 ELSE 0
  /\ written[b] <= RangeLen(b)
  /\ pc[b] = "idle" => bstate[b] = "NotReady"
  /\ pc[b] \in {"queued", "open", "copy"} => bstate[b] = "Downloading"
  /\ pc[b] # "done" => label[b] = "none"

IInv ==
  /\ TypeOK
  /\ \A b \in Blocks : BlockInv(b)
  /\ OutcomeConsistent
  /\ HandleFromCompleteRead

\* A step that changes no label, no reader's handle and not the consumer's
\* handle keeps the handle property when every submitted task's handle
\* is still a complete read's.
LEMMA HandleFrame ==
  ASSUME IInv, UNCHANGED <<label, rdHandle, readHandle>>,
         \A c \in Blocks : pc'[c] # "idle" => taskHandle'[c] \in CompleteReadHandles
  PROVE  HandleFromCompleteRead'
<1>1. CompleteReadHandles' = CompleteReadHandles
  BY DEF CompleteReadHandles
<1>2. QED
  BY <1>1 DEF IInv, HandleFromCompleteRead

\* A block's range is never longer than the block: end is clamped to the
\* object's size, which lies beyond the block's start.
LEMMA RangeBound == \A b \in Blocks : RangeLen(b) \in 0..BlockCap
<1> SUFFICES ASSUME NEW b \in Blocks PROVE RangeLen(b) \in 0..BlockCap
  OBVIOUS
<1>1. /\ b \in Nat /\ b * BlockCap \in Nat /\ b * BlockCap < ObjectSize
  BY DEF Blocks
<1>2. QED
  BY <1>1 DEF RangeLen, End, AbsStartOff

\* The deferred function of Execute, run at the end of an open or a copy,
\* keeps the invariant, provided a nil error comes only with the whole
\* range copied and the reader's handle reaches the consumer only then.
LEMMA FinishKeeps ==
  ASSUME IInv, NEW b \in Blocks, NEW e \in ErrKinds,
         pc[b] \in {"open", "copy"}, Finish(b, e),
         e = "none" => written[b] = RangeLen(b),
         UNCHANGED <<written, ctxCancelled, taskHandle, rdHandle, nextHandle,
                     pool>>,
         \/ readHandle' = readHandle
         \/ e = "none" /\ readHandle' = rdHandle[b]
  PROVE  IInv'
<1>1. notified[b] = 0 /\ label[b] = "none"
  BY DEF IInv, BlockInv
<1>2. TypeOK'
  <2>1. /\ bstate' \in [Blocks -> BlockStates]
        /\ berr' \in [Blocks -> ErrKinds]
        /\ pc' \in [Blocks -> PCs]
        /\ label' \in [Blocks -> Labels]
    BY DEF Finish, IInv, TypeOK, BlockStates, Labels, PCs
  <2>2. notified' \in [Blocks -> 0..1]
    BY <1>1 DEF Finish, IInv, TypeOK
  <2>3. readHandle' \in Nat
    BY DEF IInv, TypeOK
  <2>4. QED
    BY <2>1, <2>2, <2>3, Zenon DEF IInv, TypeOK, PCs
<1>3. \A c \in Blocks : BlockInv(c)'
  <2> SUFFICES ASSUME NEW c \in Blocks PROVE BlockInv(c)'
    OBVIOUS
  <2>1. CASE c = b
    BY <1>1, <2>1 DEF Finish, IInv, BlockInv, TypeOK, RangeLen, End,
       AbsStartOff
  <2>2. CASE c # b
    BY <2>2 DEF Finish, IInv, BlockInv, TypeOK, RangeLen, End, AbsStartOff
  <2>3. QED
    BY <2>1, <2>2
<1>4. OutcomeConsistent'
  <2> SUFFICES ASSUME NEW c \in Blocks, pc'[c] = "done"
               PROVE  OutcomeConsistent!(c)'
    BY DEF OutcomeConsistent
  <2>1. CASE c = b
    BY <2>1 DEF Finish, IInv, TypeOK
  <2>2. CASE c # b
    BY <2>2 DEF Finish, IInv, TypeOK, OutcomeConsistent
  <2>3. QED
    BY <2>1, <2>2
<1>5. HandleFromCompleteRead'
  <2>1. CompleteReadHandles \subseteq CompleteReadHandles'
    <3> SUFFICES ASSUME NEW c \in Blocks, label[c] = "successful"
                 PROVE  rdHandle[c] \in CompleteReadHandles'
      BY DEF CompleteReadHandles
    <3>1. c # b
      BY <1>1
    <3>2. label'[c] = "successful"
      BY <3>1 DEF Finish, IInv, TypeOK
    <3>3. QED
      BY <3>2 DEF CompleteReadHandles
  <2>2. e = "none" => rdHandle[b] \in CompleteReadHandles'
    <3>1. e = "none" => label'[b] = "successful"
      BY DEF Finish, IInv, TypeOK
    <3>2. QED
      BY <3>1 DEF CompleteReadHandles
  <2>3. readHandle' \in CompleteReadHandles'
    BY <2>1, <2>2 DEF IInv, HandleFromCompleteRead
  <2>4. ASSUME NEW c \in Blocks, pc'[c] # "idle"
        PROVE  taskHandle'[c] \in CompleteReadHandles'
    <3>1. pc[c] # "idle"
      BY <2>4 DEF Finish, IInv, TypeOK
    <3>2. QED
      BY <3>1, <2>1 DEF IInv, HandleFromCompleteRead
  <2>5. QED
    BY <2>3, <2>4 DEF HandleFromCompleteRead
<1>6. QED
  BY <1>2, <1>3, <1>4, <1>5 DEF IInv

\* Every step of the consumer, the pool and Execute keeps the invariant,
\* whether or not the pool is shut down.
LEMMA StepKeeps == IInv /\ [PoolNext]_vars => IInv'
<1> SUFFICES ASSUME IInv, [PoolNext]_vars PROVE IInv'
  OBVIOUS
<1>1. ASSUME NEW b \in Blocks, Schedule(b) PROVE IInv'
  <2>1. TypeOK'
    BY <1>1 DEF Schedule, IInv, TypeOK, BlockStates
  <2>2. \A c \in Blocks : BlockInv(c)'
    BY <1>1 DEF Schedule, IInv, TypeOK, BlockInv, RangeLen, End, AbsStartOff
  <2>3. OutcomeConsistent'
    BY <1>1 DEF Schedule, IInv, OutcomeConsistent, RangeLen, End, AbsStartOff
  <2>4. HandleFromCompleteRead'
    <3>1. \A c \in Blocks : pc'[c] # "idle" => taskHandle'[c] \in CompleteReadHandles
      BY <1>1 DEF Schedule, IInv, TypeOK, HandleFromCompleteRead
    <3>2. QED
      BY <1>1, <3>1, HandleFrame DEF Schedule
  <2>5. QED
    BY <2>1, <2>2, <2>3, <2>4 DEF IInv
<1>2. ASSUME NEW b \in Blocks, CancelTask(b) PROVE IInv'
  <2>1. TypeOK'
    BY <1>2 DEF CancelTask, IInv, TypeOK
  <2>2. \A c \in Blocks : BlockInv(c)'
    BY <1>2 DEF CancelTask, IInv, BlockInv, RangeLen, End, AbsStartOff
  <2>3. OutcomeConsistent'
    BY <1>2 DEF CancelTask, IInv, OutcomeConsistent, RangeLen, End, AbsStartOff
  <2>4. HandleFromCompleteRead'
    BY <1>2, HandleFrame DEF CancelTask, IInv, HandleFromCompleteRead
  <2>5. QED
    BY <2>1, <2>2, <2>3, <2>4 DEF IInv
<1>3. ASSUME NEW b \in Blocks, Dispatch(b) PROVE IInv'
  <2>1. TypeOK'
    BY <1>3 DEF Dispatch, IInv, TypeOK
  <2>2. \A c \in Blocks : BlockInv(c)'
    BY <1>3 DEF Dispatch, IInv, TypeOK, BlockInv, RangeLen, End, AbsStartOff
  <2>3. OutcomeConsistent'
    BY <1>3 DEF Dispatch, IInv, OutcomeConsistent, RangeLen, End, AbsStartOff
  <2>4. HandleFromCompleteRead'
    <3>1. \A c \in Blocks : pc'[c] # "idle" => taskHandle'[c] \in CompleteReadHandles
      BY <1>3 DEF Dispatch, IInv, TypeOK, HandleFromCompleteRead
    <3>2. QED
      BY <1>3, <3>1, HandleFrame DEF Dispatch
  <2>5. QED
    BY <2>1, <2>2, <2>3, <2>4 DEF IInv
<1>4. ASSUME NEW b \in Blocks, OpenSucceeds(b) PROVE IInv'
  <2>1. TypeOK'
    BY <1>4 DEF OpenSucceeds, IInv, TypeOK
  <2>2. \A c \in Blocks : BlockInv(c)'
    BY <1>4 DEF OpenSucceeds, IInv, TypeOK, BlockInv, RangeLen, End,
       AbsStartOff
  <2>3. OutcomeConsistent'
    BY <1>4 DEF OpenSucceeds, IInv, OutcomeConsistent, RangeLen, End,
       AbsStartOff
  <2>4. HandleFromCompleteRead'
    <3>1. label[b] = "none"
      BY <1>4 DEF OpenSucceeds, IInv, BlockInv
    <3>2. CompleteReadHandles' = CompleteReadHandles
      <4>1. \A c \in Blocks : label[c] = "successful" => rdHandle'[c] = rdHandle[c]
        BY <1>4, <3>1 DEF OpenSucceeds, IInv, TypeOK
      <4>2. QED
        BY <1>4, <4>1 DEF OpenSucceeds, CompleteReadHandles
    <3>3. QED
      BY <1>4, <3>2 DEF OpenSucceeds, IInv, TypeOK, HandleFromCompleteRead
  <2>5. QED
    BY <2>1, <2>2, <2>3, <2>4 DEF IInv
<1>5. ASSUME NEW b \in Blocks, OpenFails(b) PROVE IInv'
  <2>1. PICK e \in {"clobbered", "other"}
                    \cup (IF ctxCancelled[b] THEN {"canceled"} ELSE {}) :
          Finish(b, e)
    BY <1>5 DEF OpenFails
  <2>2. e \in ErrKinds /\ e # "none"
    BY <2>1 DEF ErrKinds
  <2>3. QED
    BY <1>5, <2>1, <2>2, FinishKeeps DEF OpenFails
<1>6. ASSUME NEW b \in Blocks, CopyChunk(b) PROVE IInv'
  <2>1. RangeLen(b) \in 0..BlockCap
    BY RangeBound
  <2>2. TypeOK'
    BY <1>6, <2>1 DEF CopyChunk, IInv, TypeOK, BlockInv
  <2>3. \A c \in Blocks : BlockInv(c)'
    <3> SUFFICES ASSUME NEW c \in Blocks PROVE BlockInv(c)'
      OBVIOUS
    <3>1. CASE c = b
      BY <1>6, <2>1, <3>1 DEF CopyChunk, IInv, BlockInv, TypeOK
    <3>2. CASE c # b
      BY <1>6, <3>2 DEF CopyChunk, IInv, BlockInv, TypeOK
    <3>3. QED
      BY <3>1, <3>2
  <2>4. OutcomeConsistent'
    BY <1>6 DEF CopyChunk, IInv, OutcomeConsistent, TypeOK
  <2>5. HandleFromCompleteRead'
    BY <1>6, HandleFrame DEF CopyChunk, IInv, HandleFromCompleteRead
  <2>6. QED
    BY <2>2, <2>3, <2>4, <2>5 DEF IInv
<1>7. ASSUME NEW b \in Blocks, CopyFails(b) PROVE IInv'
  <2>1. PICK e \in {"other"} \cup (IF ctxCancelled[b] THEN {"canceled"} ELSE {}) :
          Finish(b, e)
    BY <1>7 DEF CopyFails
  <2>2. e \in ErrKinds /\ e # "none"
    BY <2>1 DEF ErrKinds
  <2>3. QED
    BY <1>7, <2>1, <2>2, FinishKeeps DEF CopyFails
<1>8. ASSUME NEW b \in Blocks, CopyDone(b) PROVE IInv'
  BY <1>8, FinishKeeps DEF CopyDone, ErrKinds
<1>9. ASSUME NEW drop \in BOOLEAN, Shutdown(drop) PROVE IInv'
  <2>1. TypeOK'
    BY <1>9 DEF Shutdown, IInv, TypeOK
  <2>2. \A c \in Blocks : BlockInv(c)'
    BY <1>9 DEF Shutdown, IInv, BlockInv, RangeLen, End, AbsStartOff
  <2>3. OutcomeConsistent'
    BY <1>9 DEF Shutdown, IInv, OutcomeConsistent, RangeLen, End, AbsStartOff
  <2>4. HandleFromCompleteRead'
    BY <1>9, HandleFrame DEF Shutdown, IInv, HandleFromCompleteRead
  <2>5. QED
    BY <2>1, <2>2, <2>3, <2>4 DEF IInv
<1>10. CASE UNCHANGED vars
  BY <1>10 DEF vars, IInv, TypeOK, BlockInv, OutcomeConsistent, RangeLen,
     End, AbsStartOff, HandleFromCompleteRead, CompleteReadHandles
<1>11. QED
  BY <1>1, <1>2, <1>3, <1>4, <1>5, <1>6, <1>7, <1>8, <1>9, <1>10
     DEF PoolNext, Next, Execute

LEMMA InitIInv == Init => IInv
<1> SUFFICES ASSUME Init PROVE IInv
  OBVIOUS
<1>1. TypeOK
  <2>1. ctxCancelled \in [Blocks -> BOOLEAN]
    BY Zenon DEF Init
  <2>2. QED
    BY <2>1 DEF Init, TypeOK, BlockStates, ErrKinds, Labels
<1>2. \A b \in Blocks : BlockInv(b)
  BY RangeBound DEF Init, BlockInv
<1>3. OutcomeConsistent
  BY DEF Init, OutcomeConsistent
<1>4. HandleFromCompleteRead
  BY DEF Init, HandleFromCompleteRead, CompleteReadHandles
<1>5. QED
  BY <1>1, <1>2, <1>3, <1>4 DEF IInv

\* A step of the download path without a shutdown is a step with one.
LEMMA NextIsPoolNext == [Next]_vars => [PoolNext]_vars
  BY DEF PoolNext

\* Every reachable state of the download path is well typed; in particular
\* NotifyReady is called at most once on a block however the tasks,
\* workers and cancellations interleave (Execute's deferred notification).
THEOREM TypeCorrect == Spec => []TypeOK
<1>1. IInv => TypeOK
  BY DEF IInv
<1>2. QED
  BY InitIInv, StepKeeps, NextIsPoolNext, <1>1, PTL DEF Spec

\* Once Execute has returned, the block's state, its contents, its error and
\* the metric label agree, for every capacity, size and pool width: the
\* deferred classification of DownloadTask.Execute and its early returns.
THEOREM OutcomeInvariant == Spec => []OutcomeConsistent
<1>1. IInv => OutcomeConsistent
  BY DEF IInv
<1>2. QED
  BY InitIInv, StepKeeps, NextIsPoolNext, <1>1, PTL DEF Spec

\* The same holds when the worker pool is shut down while tasks are queued
\* or executing, whether the queued tasks are drained or left behind.
THEOREM ShutdownOutcomeInvariant == ShutdownSpec => []OutcomeConsistent
<1>1. IInv => OutcomeConsistent
  BY DEF IInv
<1>2. QED
  BY InitIInv, StepKeeps, <1>1, PTL DEF ShutdownSpec

\* The consumer's read handle and every task's handle come from a reader
\* that copied its whole range, however the tasks of the object finish:
\* Execute calls readHandleUpdater only after io.CopyN succeeded.
THEOREM HandleInvariant == Spec => []HandleFromCompleteRead
<1>1. IInv => HandleFromCompleteRead
  BY DEF IInv
<1>2. QED
  BY InitIInv, StepKeeps, NextIsPoolNext, <1>1, PTL DEF Spec

-----------------------------------------------------------------------------
(* The refinement: under the mapping state <- bstate, filled <- written,  *)
(* every step of the download path, shutdown included, is a step of the   *)
(* block's contract or leaves the block's state and contents alone.       *)

\* The deferred notification is the block's notifyReady.
LEMMA FinishIsNotify ==
  ASSUME IInv, NEW b \in Blocks, NEW e \in ErrKinds,
         pc[b] \in {"open", "copy"}, Finish(b, e),
         e = "none" => written[b] = RangeLen(b),
         UNCHANGED written
  PROVE  PB!NotifyReady(b, bstate'[b])
<1>1. bstate[b] = "Downloading"
  BY DEF IInv, BlockInv
<1>2. bstate'[b] \in PB!Terminal
  BY DEF Finish, IInv, TypeOK, PB!Terminal
<1>3. bstate'[b] = "Downloaded" => written[b] = RangeLen(b)
  BY DEF Finish, IInv, TypeOK
<1>4. bstate' = [bstate EXCEPT ![b] = bstate'[b]]
  BY DEF Finish, IInv, TypeOK
<1>5. QED
  BY <1>1, <1>2, <1>3, <1>4 DEF PB!NotifyReady

LEMMA RefinementStep == IInv /\ [PoolNext]_vars => [PB!Next]_PB!vars
<1> SUFFICES ASSUME IInv, [PoolNext]_vars PROVE [PB!Next]_PB!vars
  OBVIOUS
<1>1. ASSUME NEW b \in Blocks, Schedule(b) PROVE PB!Claim(b)
  BY <1>1 DEF Schedule, PB!Claim
<1>2. ASSUME NEW b \in Blocks, CopyChunk(b) PROVE PB!Write(b)
  BY <1>2 DEF CopyChunk, PB!Write, IInv, BlockInv
<1>3. ASSUME NEW b \in Blocks, OpenFails(b) \/ CopyFails(b) \/ CopyDone(b)
      PROVE  PB!Next
  <2>1. PICK e \in ErrKinds : /\ Finish(b, e)
                              /\ pc[b] \in {"open", "copy"}
                              /\ e = "none" => written[b] = RangeLen(b)
                              /\ UNCHANGED written
    BY <1>3 DEF OpenFails, CopyFails, CopyDone, ErrKinds
  <2>2. PB!NotifyReady(b, bstate'[b])
    BY <2>1, FinishIsNotify, Zenon
  <2>3. bstate'[b] \in PB!Terminal
    BY <2>2 DEF PB!NotifyReady
  <2>4. QED
    BY <2>2, <2>3 DEF PB!Next
<1>4. ASSUME NEW b \in Blocks,
             CancelTask(b) \/ Dispatch(b) \/ OpenSucceeds(b)
      PROVE  UNCHANGED PB!vars
  BY <1>4 DEF CancelTask, Dispatch, OpenSucceeds, PB!vars
<1>5. ASSUME NEW drop \in BOOLEAN, Shutdown(drop) PROVE UNCHANGED PB!vars
  BY <1>5 DEF Shutdown, PB!vars
<1>6. CASE UNCHANGED vars
  BY <1>6 DEF vars, PB!vars
<1>7. QED
  BY <1>1, <1>2, <1>3, <1>4, <1>5, <1>6 DEF PoolNext, Next, Execute, PB!Next

\* The download path implements the block's contract of spec section 4.1
\* (claimed once, written only while Downloading and within its range,
\* one terminal notification, Downloaded only with the whole range), with
\* or without a shutdown of the worker pool: DownloadTask.Execute's range,
\* copy and deferred NotifyReady.
THEOREM Refinement == ShutdownSpec => ImplementsPrefetchBlockSafety
<1>1. Init => PB!Init
  BY DEF Init, PB!Init
<1>2. QED
  BY <1>1, InitIInv, StepKeeps, RefinementStep, PTL
     DEF ShutdownSpec, ImplementsPrefetchBlockSafety, PB!SafeSpec

=============================================================================
