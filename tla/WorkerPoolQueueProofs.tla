------------------------- MODULE WorkerPoolQueueProofs -------------------------
(***************************************************************************)
(* Proofs about WorkerPoolQueue: for any items, any number of workers, any *)
(* batch and queue length and any sequence of settings of workerMaxNum.    *)
(***************************************************************************)
EXTENDS WorkerPoolQueue, RangeLemmas, FiniteSetTheorems

(***************************************************************************)
(* The structure on which everything else rests: which of the places that  *)
(* can hold items are empty, given where the goroutines are.               *)
(***************************************************************************)
Structure ==
  /\ \A w \in Worker : phase[w] \in {"off", "idle"} => batch[w] = {}
  /\ phase[Run] # "idle"
  /\ phase[Run] # "off" <=> run \in {"handleBatch", "flushItem"}
  /\ run \notin {"full", "blocked", "handleBatch", "flushItem"} => batch[Run] = {}
  /\ run \in {"sent", "full", "blocked", "handleBatch"} => wbuf = {}
  /\ run \in {"waitWorkers", "stopped"} => wbuf = {}
  /\ run \in FlushPc /\ wbuf # {} => ctxDone
  /\ hand # {} => popOpen
  /\ run \in StopPc \ {"drain"} => ~popOpen
  /\ run \in StopPc => ctxDone

(* The variables keep their types (all of modules/queue).                  *)
THEOREM TypeCorrect == Spec => []TypeOK
<1>1. Init => TypeOK
  <2> SUFFICES ASSUME Init PROVE TypeOK
    OBVIOUS
  <2>1. base \in Seq(Item) /\ Len(base) = 0
    BY DEF Init
  <2>2. Len(base) <= QueueLength
    BY <2>1, QueueAssumption
  <2>3. /\ batch \in [Handler -> SUBSET Item]
        /\ phase \in [Handler -> {"off", "idle", "handle", "requeue"}]
        /\ fate \in [Item -> Fate] /\ run \in RunPc
    BY DEF Init, Fate, RunPc
  <2> QED BY <2>1, <2>2, <2>3 DEF Init, TypeOK
<1>2. TypeOK /\ [Next]_vars => TypeOK'
  <2> SUFFICES ASSUME TypeOK, [Next]_vars PROVE TypeOK'
    OBVIOUS
  <2> USE QueueAssumption
      DEF TypeOK, RunPc, FlushPc, StopPc, Fate, LossReason, Handler, wVars, flushVars, Lose,
          AfterDispatch, Finish, handlerFrame, HasSpace
  <2>1. ASSUME Environment PROVE TypeOK'
    <3>1. ASSUME NEW i \in Item, Push(i) PROVE TypeOK'
      <4>1. base' \in Seq(Item) /\ Len(base') = Len(base) + 1
        BY <3>1 DEF Push
      <4> QED BY <3>1, <4>1 DEF Push
    <3>2. CASE RemoveAllItems
      <4>1. base' \in Seq(Item) /\ Len(base') = 0
        BY <3>2 DEF RemoveAllItems
      <4> QED BY <3>2, <4>1 DEF RemoveAllItems
    <3>3. ASSUME NEW n \in MaxNums, SetWorkerMaxNumber(n) PROVE TypeOK'
      BY <3>3 DEF SetWorkerMaxNumber
    <3>4. ASSUME NEW kind \in Flushes, FlushWithContext(kind) PROVE TypeOK'
      BY <3>4 DEF FlushWithContext
    <3>5. CASE FlushGivesUp
      BY <3>5 DEF FlushGivesUp
    <3>6. CASE Shutdown
      BY <3>6 DEF Shutdown
    <3> QED BY <2>1, <3>1, <3>2, <3>3, <3>4, <3>5, <3>6 DEF Environment
  <2>2. ASSUME Popper PROVE TypeOK'
    <3>1. CASE PopItem
      <4>1. /\ Head(base) \in Item /\ base' \in Seq(Item) /\ Len(base') = Len(base) - 1
            /\ Len(base) \in Nat
        BY <3>1, RangeTail DEF PopItem
      <4> QED BY <3>1, <4>1 DEF PopItem
    <3>2. CASE PopFails
      BY <3>2 DEF PopFails
    <3> QED BY <2>2, <3>1, <3>2 DEF Popper
  <2>3. ASSUME NEW i \in Item, RunReceive(i) PROVE TypeOK'
    BY <2>3 DEF RunReceive
  <2>4. CASE RunTimer \/ RunFlush \/ RunStop
    BY <2>4 DEF RunTimer, RunFlush, RunStop
  <2>5. ASSUME Dispatch PROVE TypeOK'
    <3>1. CASE DispatchNothing \/ DispatchFull
      BY <3>1 DEF DispatchNothing, DispatchFull
    <3>2. CASE DispatchStartWorker
      <4>1. phase' \in [Handler -> {"off", "idle", "handle", "requeue"}]
        BY <3>2 DEF DispatchStartWorker
      <4> QED BY <3>2, <4>1 DEF DispatchStartWorker
    <3>3. CASE BlockedFlush \/ BlockedCancelled
      BY <3>3 DEF BlockedFlush, BlockedCancelled
    <3>4. ASSUME NEW w \in Worker, DispatchSend(w) \/ BlockedSend(w) PROVE TypeOK'
      BY <3>4 DEF DispatchSend, BlockedSend
    <3> QED BY <2>5, <3>1, <3>2, <3>3, <3>4 DEF Dispatch
  <2>6. ASSUME Flush PROVE TypeOK'
    <3>1. CASE FlushWait
      BY <3>1 DEF FlushWait
    <3>2. CASE FlushDiscardEnds \/ FlushDrainEnds
      BY <3>2 DEF FlushDiscardEnds, FlushDrainEnds, FlushEnds
    <3>3. ASSUME NEW i \in Item, FlushDiscard(i) \/ FlushReceive(i) PROVE TypeOK'
      BY <3>3 DEF FlushDiscard, FlushReceive
    <3> QED BY <2>6, <3>1, <3>2, <3>3 DEF Flush
  <2>7. ASSUME Stop PROVE TypeOK'
    <3>1. CASE StopCollected \/ StopRepushed \/ StopWorkersWaited
      BY <3>1 DEF StopCollected, StopRepushed, StopWorkersWaited
    <3>2. ASSUME NEW i \in Item, StopReceive(i) \/ StopRepushFails(i) PROVE TypeOK'
      BY <3>2 DEF StopReceive, StopRepushFails
    <3>3. ASSUME NEW i \in Item, StopRepush(i) PROVE TypeOK'
      <4>1. base' \in Seq(Item) /\ Len(base') = Len(base) + 1
        BY <3>3 DEF StopRepush
      <4> QED BY <3>3, <4>1 DEF StopRepush
    <3> QED BY <2>7, <3>1, <3>2, <3>3 DEF Stop
  <2>8. ASSUME NEW h \in Handler, HandlerReturns(h) PROVE TypeOK'
    <3>1. CASE HandleAll(h) \/ HandleNoneInFlush(h) \/ HandlePanics(h)
      BY <3>1 DEF HandleAll, HandleNoneInFlush, HandlePanics
    <3>2. ASSUME NEW unhandled \in SUBSET batch[h], HandleSome(h, unhandled) PROVE TypeOK'
      BY <3>2 DEF HandleSome
    <3> QED BY <2>8, <3>1, <3>2 DEF HandlerReturns
  <2>9. ASSUME NEW h \in Handler, NEW i \in Item, Requeue(h, i) \/ RequeueFails(h, i)
        PROVE TypeOK'
    <3>1. Requeue(h, i) => base' \in Seq(Item) /\ Len(base') = Len(base) + 1
      BY DEF Requeue
    <3>2. base' \in Seq(Item) /\ Len(base') <= QueueLength
      BY <2>9, <3>1 DEF Requeue, RequeueFails
    <3> QED BY <2>9, <3>2 DEF Requeue, RequeueFails, RequeueNext
  <2>10. ASSUME NEW w \in Worker, WorkerStops(w) \/ WorkerIdles(w) PROVE TypeOK'
    BY <2>10 DEF WorkerStops, WorkerIdles
  <2>11. CASE UNCHANGED vars
    BY <2>11 DEF vars
  <2> QED BY <2>1, <2>2, <2>3, <2>4, <2>5, <2>6, <2>7, <2>8, <2>9, <2>10, <2>11
          DEF Next, DoRun, RequeueStep, WorkerExits
<1> QED BY <1>1, <1>2, PTL DEF Spec
-----------------------------------------------------------------------------
(* Every goroutine's step keeps the structure (doRun, doFlush, the         *)
(* deferred shutdown, doWorkerHandle).                                     *)
LEMMA StructureStep == TypeOK /\ Structure /\ [Next]_vars => Structure'
<1> SUFFICES ASSUME TypeOK, Structure, [Next]_vars PROVE Structure'
  OBVIOUS
<1> USE QueueAssumption
    DEF TypeOK, Structure, FlushPc, StopPc, Handler, wVars, flushVars, AfterDispatch,
        Finish, handlerFrame
<1>1. CASE Environment
  BY <1>1 DEF Environment, Push, RemoveAllItems, SetWorkerMaxNumber, FlushWithContext,
              FlushGivesUp, Shutdown
<1>2. CASE Popper
  BY <1>2 DEF Popper, PopItem, PopFails
<1>3. ASSUME NEW i \in Item, RunReceive(i) PROVE Structure'
  BY <1>3 DEF RunReceive
<1>4. CASE RunTimer \/ RunFlush \/ RunStop
  BY <1>4 DEF RunTimer, RunFlush, RunStop
<1>5. ASSUME Dispatch PROVE Structure'
  <2>1. CASE DispatchNothing \/ DispatchFull
    BY <2>1 DEF DispatchNothing, DispatchFull
  <2>2. CASE DispatchStartWorker
    <3>1. CASE UNCHANGED phase
      BY <2>2, <3>1 DEF DispatchStartWorker
    <3>2. ASSUME NEW w \in Worker, ~Live(w), phase' = [phase EXCEPT ![w] = "idle"]
          PROVE  Structure'
      BY <2>2, <3>2 DEF DispatchStartWorker, Live
    <3> QED BY <2>2, <3>1, <3>2 DEF DispatchStartWorker
  <2>3. CASE BlockedFlush \/ BlockedCancelled
    BY <2>3 DEF BlockedFlush, BlockedCancelled
  <2>4. ASSUME NEW w \in Worker, DispatchSend(w) \/ BlockedSend(w) PROVE Structure'
    BY <2>4 DEF DispatchSend, BlockedSend
  <2> QED BY <1>5, <2>1, <2>2, <2>3, <2>4 DEF Dispatch
<1>6. ASSUME Flush PROVE Structure'
  <2>1. CASE FlushWait
    BY <2>1 DEF FlushWait
  <2>2. CASE FlushDiscardEnds \/ FlushDrainEnds
    BY <2>2 DEF FlushDiscardEnds, FlushDrainEnds, FlushEnds
  <2>3. ASSUME NEW i \in Item, FlushDiscard(i) \/ FlushReceive(i) PROVE Structure'
    BY <2>3 DEF FlushDiscard, FlushReceive
  <2> QED BY <1>6, <2>1, <2>2, <2>3 DEF Flush
<1>7. ASSUME Stop PROVE Structure'
  <2>1. CASE StopCollected \/ StopRepushed \/ StopWorkersWaited
    BY <2>1 DEF StopCollected, StopRepushed, StopWorkersWaited
  <2>2. ASSUME NEW i \in Item, StopReceive(i) \/ StopRepush(i) \/ StopRepushFails(i)
        PROVE  Structure'
    BY <2>2 DEF StopReceive, StopRepush, StopRepushFails
  <2> QED BY <1>7, <2>1, <2>2 DEF Stop
<1>8. ASSUME NEW h \in Handler, HandlerReturns(h) PROVE Structure'
  <2>1. CASE HandleAll(h) \/ HandleNoneInFlush(h) \/ HandlePanics(h)
    BY <2>1 DEF HandleAll, HandleNoneInFlush, HandlePanics
  <2>2. ASSUME NEW unhandled \in SUBSET batch[h], HandleSome(h, unhandled) PROVE Structure'
    BY <2>2 DEF HandleSome
  <2> QED BY <1>8, <2>1, <2>2 DEF HandlerReturns
<1>9. ASSUME NEW h \in Handler, NEW i \in Item, Requeue(h, i) \/ RequeueFails(h, i)
      PROVE Structure'
  BY <1>9 DEF Requeue, RequeueFails, RequeueNext
<1>10. ASSUME NEW w \in Worker, WorkerStops(w) \/ WorkerIdles(w) PROVE Structure'
  BY <1>10 DEF WorkerStops, WorkerIdles
<1>11. CASE UNCHANGED vars
  BY <1>11 DEF vars
<1> QED BY <1>1, <1>2, <1>3, <1>4, <1>5, <1>6, <1>7, <1>8, <1>9, <1>10, <1>11
        DEF Next, DoRun, RequeueStep, WorkerExits

(* Which places can hold items, given where the goroutines are, holds in   *)
(* every reachable state (popItemByChan, doRun, doStartNewWorker).         *)
THEOREM StructureHolds == Spec => []Structure
<1>1. Init => Structure
  BY QueueAssumption DEF Init, Structure, Handler, FlushPc, StopPc
<1> QED BY <1>1, StructureStep, TypeCorrect, PTL DEF Spec

(* When the shutdown reports its end nothing is left on the fly (the       *)
(* deferred function of doRun).                                            *)
THEOREM StoppedEmpty == Spec => []StoppedIsEmpty
<1>1. Structure => StoppedIsEmpty
  BY DEF Structure, StoppedIsEmpty, StopPc
<1> QED BY <1>1, StructureHolds, PTL
-----------------------------------------------------------------------------
(* A flush is alone from the moment all workers have ended: workers start  *)
(* only while doRun dispatches (doFlush, doStartNewWorker).                *)
THEOREM FlushIsAlone == Spec => []FlushAlone
<1> USE DEF FlushAlone, Live
<1>1. Init => FlushAlone
  BY DEF Init
<1>2. TypeOK /\ Structure /\ FlushAlone /\ [Next]_vars => FlushAlone'
  <2> SUFFICES ASSUME TypeOK, Structure, FlushAlone, [Next]_vars PROVE FlushAlone'
    OBVIOUS
  <2> USE QueueAssumption
      DEF TypeOK, Handler, wVars, flushVars, AfterDispatch, Finish, handlerFrame
  <2>1. CASE Environment \/ Popper
    BY <2>1 DEF Environment, Push, RemoveAllItems, SetWorkerMaxNumber, FlushWithContext,
                FlushGivesUp, Shutdown, Popper, PopItem, PopFails
  <2>2. ASSUME NEW i \in Item, RunReceive(i) PROVE FlushAlone'
    BY <2>2 DEF RunReceive
  <2>3. CASE RunTimer \/ RunFlush \/ RunStop
    BY <2>3 DEF RunTimer, RunFlush, RunStop
  <2>4. CASE Dispatch
    BY <2>4 DEF Dispatch, DispatchNothing, DispatchFull, DispatchStartWorker, BlockedFlush,
                BlockedCancelled, DispatchSend, BlockedSend
  <2>5. CASE Flush
    BY <2>5 DEF Flush, FlushWait, FlushDiscardEnds, FlushDrainEnds, FlushEnds, FlushDiscard,
                FlushReceive
  <2>6. CASE Stop
    BY <2>6 DEF Stop, StopCollected, StopRepushed, StopWorkersWaited, StopReceive, StopRepush,
                StopRepushFails
  <2>7. ASSUME NEW h \in Handler, HandlerReturns(h) PROVE FlushAlone'
    BY <2>7 DEF HandlerReturns, HandleAll, HandleNoneInFlush, HandlePanics, HandleSome,
                Structure
  <2>8. ASSUME NEW h \in Handler, NEW i \in Item, Requeue(h, i) \/ RequeueFails(h, i)
        PROVE FlushAlone'
    BY <2>8 DEF Requeue, RequeueFails, RequeueNext, Structure
  <2>9. ASSUME NEW w \in Worker, WorkerStops(w) \/ WorkerIdles(w) PROVE FlushAlone'
    BY <2>9 DEF WorkerStops, WorkerIdles
  <2>10. CASE UNCHANGED vars
    BY <2>10 DEF vars
  <2> QED BY <2>1, <2>2, <2>3, <2>4, <2>5, <2>6, <2>7, <2>8, <2>9, <2>10
          DEF Next, DoRun, RequeueStep, WorkerExits
<1> QED BY <1>1, <1>2, TypeCorrect, StructureHolds, PTL DEF Spec

(* A buffered item waits for a running debounce timer, unless the queue    *)
(* is shutting down (doRun).                                               *)
THEOREM BufferIsTimed == Spec => []BufferHasTimer
<1> USE DEF BufferHasTimer
<1>1. Init => BufferHasTimer
  BY DEF Init
<1>2. TypeOK /\ Structure /\ BufferHasTimer /\ [Next]_vars => BufferHasTimer'
  <2> SUFFICES ASSUME TypeOK, Structure, BufferHasTimer, [Next]_vars PROVE BufferHasTimer'
    OBVIOUS
  <2> USE QueueAssumption DEF TypeOK, Handler, wVars, flushVars, AfterDispatch, Finish,
                              handlerFrame, Structure, FlushPc
  <2>1. CASE Environment \/ Popper
    BY <2>1 DEF Environment, Push, RemoveAllItems, SetWorkerMaxNumber, FlushWithContext,
                FlushGivesUp, Shutdown, Popper, PopItem, PopFails
  <2>2. ASSUME NEW i \in Item, RunReceive(i) PROVE BufferHasTimer'
    BY <2>2 DEF RunReceive
  <2>3. CASE RunTimer \/ RunFlush \/ RunStop
    BY <2>3 DEF RunTimer, RunFlush, RunStop
  <2>4. CASE Dispatch
    BY <2>4 DEF Dispatch, DispatchNothing, DispatchFull, DispatchStartWorker, BlockedFlush,
                BlockedCancelled, DispatchSend, BlockedSend
  <2>5. CASE Flush
    BY <2>5 DEF Flush, FlushWait, FlushDiscardEnds, FlushDrainEnds, FlushEnds, FlushDiscard,
                FlushReceive
  <2>6. CASE Stop
    BY <2>6 DEF Stop, StopCollected, StopRepushed, StopWorkersWaited, StopReceive, StopRepush,
                StopRepushFails
  <2>7. ASSUME NEW h \in Handler, HandlerReturns(h) PROVE BufferHasTimer'
    BY <2>7 DEF HandlerReturns, HandleAll, HandleNoneInFlush, HandlePanics, HandleSome
  <2>8. ASSUME NEW h \in Handler, NEW i \in Item, Requeue(h, i) \/ RequeueFails(h, i)
        PROVE BufferHasTimer'
    BY <2>8 DEF Requeue, RequeueFails, RequeueNext
  <2>9. ASSUME NEW w \in Worker, WorkerStops(w) \/ WorkerIdles(w) PROVE BufferHasTimer'
    BY <2>9 DEF WorkerStops, WorkerIdles
  <2>10. CASE UNCHANGED vars
    BY <2>10 DEF vars
  <2> QED BY <2>1, <2>2, <2>3, <2>4, <2>5, <2>6, <2>7, <2>8, <2>9, <2>10
          DEF Next, DoRun, RequeueStep, WorkerExits
<1> QED BY <1>1, <1>2, TypeCorrect, StructureHolds, PTL DEF Spec

-----------------------------------------------------------------------------
(***************************************************************************)
(* The blocked dispatch.                                                   *)
(***************************************************************************)

(* workerNum is zero exactly when no worker goroutine is left.             *)
LEMMA WorkerCount ==
  /\ workerNum \in Nat
  /\ workerNum = 0 <=> \A w \in Worker : ~Live(w)
  /\ \A w \in Worker : Live(w) /\ workerNum > 1 => \E v \in Worker \ {w} : Live(v)
<1> DEFINE L == {w \in Worker : Live(w)}
<1>1. IsFiniteSet(L) /\ workerNum = Cardinality(L)
  BY QueueAssumption, FS_Subset DEF workerNum
<1>2. Cardinality(L) \in Nat /\ (Cardinality(L) = 0 <=> L = {})
  BY <1>1, FS_CardinalityType, FS_EmptySet
<1>3. ASSUME NEW w \in Worker, Live(w), workerNum > 1, \A v \in Worker \ {w} : ~Live(v)
      PROVE  FALSE
  <2>1. L = {w}
    BY <1>3
  <2>2. Cardinality(L) = 1
    BY <2>1, FS_Singleton
  <2> QED BY <1>1, <1>3, <2>2
<1> QED BY <1>1, <1>2, <1>3

(* While doRun is blocked on batchChan a worker is left to receive: one    *)
(* was running or is started, and the last one does not idle out           *)
(* (doDispatchBatchToWorker and doStartNewWorker).                         *)
THEOREM NotBlockedForEver == Spec => []BlockedHasWorker
<1> USE DEF BlockedHasWorker
<1>1. Init => BlockedHasWorker
  BY DEF Init
<1>2. TypeOK /\ BlockedHasWorker /\ [Next]_vars => BlockedHasWorker'
  <2> SUFFICES ASSUME TypeOK, BlockedHasWorker, [Next]_vars, run' = "blocked", ~ctxDone'
               PROVE  \E w \in Worker : Live(w)'
    OBVIOUS
  <2> USE QueueAssumption DEF TypeOK, Handler, wVars, flushVars, AfterDispatch, Finish,
                              handlerFrame, Live
  <2>1. CASE Environment \/ Popper
    BY <2>1 DEF Environment, Push, RemoveAllItems, SetWorkerMaxNumber, FlushWithContext,
                FlushGivesUp, Shutdown, Popper, PopItem, PopFails
  <2>2. ASSUME NEW i \in Item, RunReceive(i) PROVE FALSE
    BY <2>2 DEF RunReceive
  <2>3. ASSUME RunTimer \/ RunFlush \/ RunStop PROVE FALSE
    BY <2>3 DEF RunTimer, RunFlush, RunStop
  <2>4. CASE DispatchStartWorker
    <3>1. run = "full" /\ (MayStartWorker => \E w \in Worker : Live(w)')
      BY <2>4 DEF DispatchStartWorker
    <3>2. CASE ~MayStartWorker
      <4>1. workerNum # 0 /\ UNCHANGED phase
        <5>1. workerMaxNum \in Int /\ workerNum \in Nat
          BY WorkerCount
        <5> QED BY <2>4, <3>1, <3>2, <5>1 DEF MayStartWorker, DispatchStartWorker
      <4>2. \E w \in Worker : Live(w)
        BY <4>1, WorkerCount
      <4> QED BY <4>1, <4>2
    <3> QED BY <3>1, <3>2
  <2>5. ASSUME DispatchNothing \/ DispatchFull \/ BlockedFlush \/ BlockedCancelled PROVE FALSE
    BY <2>5 DEF DispatchNothing, DispatchFull, BlockedFlush, BlockedCancelled
  <2>6. ASSUME NEW w \in Worker, DispatchSend(w) \/ BlockedSend(w) PROVE FALSE
    BY <2>6 DEF DispatchSend, BlockedSend
  <2>7. ASSUME Flush PROVE FALSE
    BY <2>7 DEF Flush, FlushWait, FlushDiscardEnds, FlushDrainEnds, FlushEnds, FlushDiscard,
                FlushReceive
  <2>8. ASSUME Stop PROVE FALSE
    BY <2>8 DEF Stop, StopCollected, StopRepushed, StopWorkersWaited, StopReceive, StopRepush,
                StopRepushFails
  <2>9. ASSUME NEW h \in Handler, HandlerReturns(h) PROVE \E w \in Worker : Live(w)'
    BY <2>9 DEF HandlerReturns, HandleAll, HandleNoneInFlush, HandlePanics, HandleSome
  <2>10. ASSUME NEW h \in Handler, NEW i \in Item, Requeue(h, i) \/ RequeueFails(h, i)
         PROVE \E w \in Worker : Live(w)'
    BY <2>10 DEF Requeue, RequeueFails, RequeueNext
  <2>11. ASSUME NEW w \in Worker, WorkerStops(w) PROVE FALSE
    BY <2>11 DEF WorkerStops, ctxWorkerDone, isFlushing, FlushPc
  <2>12. ASSUME NEW w \in Worker, WorkerIdles(w) PROVE \E v \in Worker : Live(v)'
    <3>1. PICK v \in Worker \ {w} : Live(v)
      BY <2>12, WorkerCount DEF WorkerIdles
    <3> QED BY <2>12, <3>1 DEF WorkerIdles
  <2>13. CASE UNCHANGED vars
    BY <2>13 DEF vars
  <2> QED BY <2>1, <2>2, <2>3, <2>4, <2>5, <2>6, <2>7, <2>8, <2>9, <2>10, <2>11, <2>12, <2>13
          DEF Next, DoRun, Dispatch, RequeueStep, WorkerExits
<1> QED BY <1>1, <1>2, TypeCorrect, PTL DEF Spec
-----------------------------------------------------------------------------
(***************************************************************************)
(* Conservation of items.                                                  *)
(***************************************************************************)

(* A base queue that changes loses its head, its content or gains an item. *)
LEMMA BaseChange ==
  ASSUME TypeOK
  PROVE  /\ base # <<>> => /\ Head(base) \in Item /\ Range(base) = {Head(base)} \cup Range(Tail(base))
                           /\ IsInjective(base) => /\ IsInjective(Tail(base))
                                                   /\ Head(base) \notin Range(Tail(base))
         /\ \A i \in Item : /\ Range(Append(base, i)) = Range(base) \cup {i}
                            /\ IsInjective(base) /\ i \notin Range(base)
                                 => IsInjective(Append(base, i))
<1> USE DEF TypeOK
<1>1. base # <<>> => Head(base) \in Item /\ Range(base) = {Head(base)} \cup Range(Tail(base))
  BY RangeTail
<1>2. base # <<>> /\ IsInjective(base)
        => IsInjective(Tail(base)) /\ Head(base) \notin Range(Tail(base))
  BY InjectiveTail
<1>3. \A i \in Item : Range(Append(base, i)) = Range(base) \cup {i}
  BY RangeAppend
<1>4. \A i \in Item : IsInjective(base) /\ i \notin Range(base) => IsInjective(Append(base, i))
  BY InjectiveAppend
<1> QED BY <1>1, <1>2, <1>3, <1>4

(* No step of any goroutine loses or doubles an item.                      *)
LEMMA ConservationStep ==
  TypeOK /\ Structure /\ NothingLostOrDoubled /\ [Next]_vars => NothingLostOrDoubled'
<1> SUFFICES ASSUME TypeOK, Structure, NothingLostOrDoubled, [Next]_vars
             PROVE  NothingLostOrDoubled'
  OBVIOUS
<1> USE QueueAssumption
    DEF NothingLostOrDoubled, InBase, InBatch, TypeOK, Handler, wVars, flushVars
<1>1. ASSUME NEW i \in Item, Push(i) PROVE NothingLostOrDoubled'
  <2>1. Range(base') = Range(base) \cup {i} /\ IsInjective(base')
    BY <1>1, BaseChange DEF Push
  <2> QED BY <1>1, <2>1 DEF Push
<1>2. CASE RemoveAllItems
  <2>1. Range(base') = {} /\ IsInjective(base')
    BY <1>2, RangeEmpty DEF RemoveAllItems
  <2>2. \A i \in Item : fate'[i] = IF i \in Range(base) THEN "removed" ELSE fate[i]
    BY <1>2 DEF RemoveAllItems, Lose
  <2> QED BY <1>2, <2>1, <2>2 DEF RemoveAllItems
<1>3. CASE PopItem
  <2>1. /\ Range(base) = {Head(base)} \cup Range(base') /\ IsInjective(base')
        /\ Head(base) \notin Range(base') /\ Head(base) \in Item /\ hand' = {Head(base)}
    BY <1>3, BaseChange DEF PopItem
  <2> QED BY <1>3, <2>1 DEF PopItem
<1>4. ASSUME NEW n \in MaxNums, SetWorkerMaxNumber(n) PROVE NothingLostOrDoubled'
  BY <1>4 DEF SetWorkerMaxNumber
<1>5. ASSUME NEW kind \in Flushes, FlushWithContext(kind) PROVE NothingLostOrDoubled'
  BY <1>5 DEF FlushWithContext
<1>6. CASE FlushGivesUp \/ Shutdown \/ PopFails
  BY <1>6 DEF FlushGivesUp, Shutdown, PopFails
<1>7. ASSUME NEW i \in Item, RunReceive(i) PROVE NothingLostOrDoubled'
  <2>1. CASE i \in Corrupted
    BY <1>7, <2>1 DEF RunReceive, Lose
  <2>2. CASE i \notin Corrupted
    BY <1>7, <2>2 DEF RunReceive
  <2> QED BY <2>1, <2>2
<1>8. CASE RunTimer \/ RunFlush \/ RunStop
  BY <1>8 DEF RunTimer, RunFlush, RunStop
<1>9. CASE DispatchNothing \/ DispatchStartWorker \/ BlockedFlush
  BY <1>9 DEF DispatchNothing, DispatchStartWorker, BlockedFlush
<1>10. CASE DispatchFull
  <2>1. batch[Run] = {}
    BY <1>10 DEF DispatchFull, Structure
  <2> QED BY <1>10, <2>1 DEF DispatchFull
<1>11. ASSUME NEW w \in Worker, DispatchSend(w) PROVE NothingLostOrDoubled'
  <2>1. batch[w] = {}
    BY <1>11 DEF DispatchSend, Structure
  <2> QED BY <1>11, <2>1 DEF DispatchSend
<1>12. ASSUME NEW w \in Worker, BlockedSend(w) PROVE NothingLostOrDoubled'
  <2>1. batch[w] = {}
    BY <1>12 DEF BlockedSend, Structure
  <2> QED BY <1>12, <2>1 DEF BlockedSend
<1>13. CASE BlockedCancelled
  <2>1. wbuf = {}
    BY <1>13 DEF BlockedCancelled, Structure
  <2> QED BY <1>13, <2>1 DEF BlockedCancelled
<1>14. CASE FlushWait
  <2>1. CASE flushing = "discard"
    BY <1>14, <2>1 DEF FlushWait, Lose
  <2>2. CASE flushing # "discard"
    BY <1>14, <2>2 DEF FlushWait
  <2> QED BY <2>1, <2>2
<1>15. ASSUME NEW i \in Item, FlushDiscard(i) PROVE NothingLostOrDoubled'
  BY <1>15 DEF FlushDiscard, Lose
<1>16. CASE FlushDiscardEnds \/ FlushDrainEnds
  BY <1>16 DEF FlushDiscardEnds, FlushDrainEnds, FlushEnds
<1>17. ASSUME NEW i \in Item, FlushReceive(i) PROVE NothingLostOrDoubled'
  <2>1. CASE i \in Corrupted
    BY <1>17, <2>1 DEF FlushReceive, Lose
  <2>2. CASE i \notin Corrupted
    <3>1. batch[Run] = {}
      BY <1>17 DEF FlushReceive, Structure
    <3> QED BY <1>17, <2>2, <3>1 DEF FlushReceive
  <2> QED BY <2>1, <2>2
<1>18. ASSUME NEW i \in Item, StopReceive(i) PROVE NothingLostOrDoubled'
  <2>1. CASE i \in Corrupted
    BY <1>18, <2>1 DEF StopReceive, Lose
  <2>2. CASE i \notin Corrupted
    BY <1>18, <2>2 DEF StopReceive
  <2> QED BY <2>1, <2>2
<1>19. ASSUME NEW i \in Item, StopRepush(i) PROVE NothingLostOrDoubled'
  <2>1. Range(base') = Range(base) \cup {i} /\ IsInjective(base')
    BY <1>19, BaseChange DEF StopRepush
  <2> QED BY <1>19, <2>1 DEF StopRepush
<1>20. ASSUME NEW i \in Item, StopRepushFails(i) PROVE NothingLostOrDoubled'
  BY <1>20 DEF StopRepushFails, Lose
<1>21. CASE StopCollected \/ StopRepushed \/ StopWorkersWaited
  BY <1>21 DEF StopCollected, StopRepushed, StopWorkersWaited
<1>22. ASSUME NEW h \in Handler, HandleAll(h) \/ HandleNoneInFlush(h) \/ HandlePanics(h)
       PROVE NothingLostOrDoubled'
  <2>1. PICK why \in Fate \ {"live"} :
          fate' = [i \in Item |-> IF i \in batch[h] THEN why ELSE fate[i]]
    BY <1>22 DEF HandleAll, HandleNoneInFlush, HandlePanics, Lose, Fate, LossReason
  <2>2. batch' = [batch EXCEPT ![h] = {}] /\ UNCHANGED <<base, hand, wbuf>>
    BY <1>22 DEF HandleAll, HandleNoneInFlush, HandlePanics, handlerFrame
  <2> QED BY <2>1, <2>2
<1>23. ASSUME NEW h \in Handler, NEW unhandled \in SUBSET batch[h], HandleSome(h, unhandled)
       PROVE NothingLostOrDoubled'
  BY <1>23 DEF HandleSome, handlerFrame, Lose
<1>24. ASSUME NEW h \in Handler, NEW i \in Item, Requeue(h, i) PROVE NothingLostOrDoubled'
  <2>1. Range(base') = Range(base) \cup {i} /\ IsInjective(base')
    BY <1>24, BaseChange DEF Requeue
  <2> QED BY <1>24, <2>1 DEF Requeue, RequeueNext, handlerFrame
<1>25. ASSUME NEW h \in Handler, NEW i \in Item, RequeueFails(h, i)
       PROVE NothingLostOrDoubled'
  BY <1>25 DEF RequeueFails, RequeueNext, handlerFrame, Lose
<1>26. ASSUME NEW w \in Worker, WorkerStops(w) \/ WorkerIdles(w) PROVE NothingLostOrDoubled'
  BY <1>26 DEF WorkerStops, WorkerIdles
<1>27. CASE UNCHANGED vars
  BY <1>27 DEF vars
<1> QED BY <1>1, <1>2, <1>3, <1>4, <1>5, <1>6, <1>7, <1>8, <1>9, <1>10, <1>11, <1>12, <1>13,
           <1>14, <1>15, <1>16, <1>17, <1>18, <1>19, <1>20, <1>21, <1>22, <1>23, <1>24, <1>25,
           <1>26, <1>27
        DEF Next, Environment, Popper, DoRun, Dispatch, Flush, Stop, HandlerReturns,
            RequeueStep, WorkerExits

(* No item in the queue's care is lost sight of, and none is in two places *)
(* (popItemByChan, doDispatchBatchToWorker, doFlush, doWorkerHandle, the   *)
(* shutdown of doRun).                                                     *)
THEOREM Conservation == Spec => []NothingLostOrDoubled
<1>1. Init => NothingLostOrDoubled
  BY RangeEmpty DEF Init, NothingLostOrDoubled, InBase, InBatch
<1> QED BY <1>1, ConservationStep, TypeCorrect, StructureHolds, PTL DEF Spec

(* A drain that ends undisturbed leaves nothing but what the popper holds  *)
(* and what a failing Len hides: the workers have ended, doRun's buffer    *)
(* was dispatched before, and Len saw an empty base queue (doFlush).       *)
THEOREM FlushComplete == Spec => FlushLeavesNothing
<1>1. TypeOK /\ Structure /\ FlushAlone /\ NothingLostOrDoubled /\ [Next]_vars
        => (run = "flushDrain" /\ run' = "select" /\ ~ctxDone /\ popOpen
              => \A i \in Item : fate[i] = "live" => i \in hand \/ (BaseMayFail /\ InBase(i)))
  <2> SUFFICES ASSUME TypeOK, Structure, FlushAlone, NothingLostOrDoubled, [Next]_vars,
                      run = "flushDrain", run' = "select", ~ctxDone, popOpen,
                      NEW i \in Item, fate[i] = "live"
               PROVE  i \in hand \/ (BaseMayFail /\ InBase(i))
    OBVIOUS
  <2>1. FlushDrainEnds
    BY DEF Next, Environment, Push, RemoveAllItems, SetWorkerMaxNumber, FlushWithContext,
           FlushGivesUp, Shutdown, Popper, PopItem, PopFails, DoRun, RunReceive, RunTimer,
           RunFlush, RunStop, Dispatch, DispatchNothing, DispatchFull, DispatchStartWorker,
           BlockedFlush, BlockedCancelled, DispatchSend, BlockedSend, Flush, FlushWait,
           FlushDiscardEnds, FlushEnds, FlushDiscard, FlushReceive, Stop, StopCollected,
           StopRepushed, StopWorkersWaited, StopReceive, StopRepush, StopRepushFails,
           HandlerReturns, HandleAll, HandleNoneInFlush, HandlePanics, HandleSome, RequeueStep,
           Requeue, RequeueFails, RequeueNext, WorkerExits, WorkerStops, WorkerIdles, vars,
           Finish, handlerFrame
  <2>2. base = <<>> \/ BaseMayFail
    BY <2>1 DEF FlushDrainEnds
  <2>3. wbuf = {} /\ batch[Run] = {} /\ \A w \in Worker : batch[w] = {}
    BY DEF Structure, FlushPc, FlushAlone, Live
  <2>4. InBase(i) \/ i \in hand
    BY <2>3 DEF NothingLostOrDoubled, InBatch, Handler
  <2>5. base = <<>> => ~InBase(i)
    BY RangeEmpty DEF InBase
  <2> QED BY <2>2, <2>4, <2>5
<1> QED BY <1>1, TypeCorrect, StructureHolds, FlushIsAlone, Conservation, PTL
        DEF Spec, FlushLeavesNothing
-----------------------------------------------------------------------------
(***************************************************************************)
(* WorkerPoolQueue implements QueueContract: every step of a goroutine is  *)
(* a step of the contract, or changes nothing it speaks of.                *)
(***************************************************************************)

(* The status of an item that a step neither moves nor decides about, and  *)
(* of a whole batch, which is of one handler only.                         *)
LEMMA BatchStatus ==
  ASSUME TypeOK, NothingLostOrDoubled, NEW h \in Handler, NEW i \in batch[h]
  PROVE  Status(i) = IF phase[h] = "handle" THEN "handling" ELSE "waiting"
<1>1. i \in Item /\ fate[i] = "live" /\ \A g \in Handler : i \in batch[g] => g = h
  BY DEF TypeOK, NothingLostOrDoubled, InBatch
<1> QED BY <1>1 DEF Status, Handled

(* An item outside all batches waits, if it is in the queue's care.        *)
LEMMA PlaceStatus ==
  ASSUME TypeOK, NothingLostOrDoubled, NEW i \in Item,
         i \in Range(base) \/ i \in hand \/ i \in wbuf
  PROVE  Status(i) = "waiting"
BY DEF TypeOK, NothingLostOrDoubled, InBase, InBatch, Status, Handled

(* The mode changes as the contract allows (doRun).                        *)
LEMMA ModeRefines ==
  ASSUME TypeOK, Structure, [Next]_vars
  PROVE  Contract!ModeStep
<1> USE QueueAssumption
    DEF Contract!ModeStep, QueueMode, isFlushing, FlushPc, StopPc, wVars, flushVars,
        AfterDispatch, Finish, handlerFrame
<1>1. CASE Environment \/ Popper
  BY <1>1 DEF Environment, Push, RemoveAllItems, SetWorkerMaxNumber, FlushWithContext,
              FlushGivesUp, Shutdown, Popper, PopItem, PopFails
<1>2. ASSUME NEW i \in Item, RunReceive(i) PROVE Contract!ModeStep
  BY <1>2 DEF RunReceive
<1>3. CASE RunTimer \/ RunFlush \/ RunStop
  BY <1>3 DEF RunTimer, RunFlush, RunStop
<1>4. CASE Dispatch
  BY <1>4 DEF Dispatch, DispatchNothing, DispatchFull, DispatchStartWorker, BlockedFlush,
              BlockedCancelled, DispatchSend, BlockedSend
<1>5. CASE Flush
  BY <1>5 DEF Flush, FlushWait, FlushDiscardEnds, FlushDrainEnds, FlushEnds, FlushDiscard,
              FlushReceive
<1>6. CASE Stop
  BY <1>6 DEF Stop, StopCollected, StopRepushed, StopWorkersWaited, StopReceive, StopRepush,
              StopRepushFails
<1>7. ASSUME NEW h \in Handler, HandlerReturns(h) PROVE Contract!ModeStep
  BY <1>7 DEF HandlerReturns, HandleAll, HandleNoneInFlush, HandlePanics, HandleSome,
              Structure
<1>8. ASSUME NEW h \in Handler, NEW i \in Item, Requeue(h, i) \/ RequeueFails(h, i)
      PROVE Contract!ModeStep
  BY <1>8 DEF Requeue, RequeueFails, RequeueNext, Structure
<1>9. ASSUME NEW w \in Worker, WorkerStops(w) \/ WorkerIdles(w) PROVE Contract!ModeStep
  BY <1>9 DEF WorkerStops, WorkerIdles
<1>10. CASE UNCHANGED vars
  BY <1>10 DEF vars
<1> QED BY <1>1, <1>2, <1>3, <1>4, <1>5, <1>6, <1>7, <1>8, <1>9, <1>10
        DEF Next, DoRun, RequeueStep, WorkerExits

-----------------------------------------------------------------------------
(***************************************************************************)
(* Three ways a step can change the statuses.                              *)
(***************************************************************************)

(* No status changes.                                                      *)
LEMMA StatusSame ==
  ASSUME \A i \in Item : Status(i)' = Status(i)
  PROVE  Contract!ItemStep
BY DEF Contract!ItemStep

(* Waiting items are given up.                                             *)
LEMMA StatusGivenUp ==
  ASSUME NEW S \in SUBSET Item, NEW why \in Contract!Reason,
         \A i \in S : Status(i) = "waiting" /\ Status(i)' = why,
         \A i \in Item \ S : Status(i)' = Status(i),
         \/ why \in {"full", "removed"}
         \/ why = "corrupt" /\ QueueMode # "stopped"
         \/ why = "discard" /\ QueueMode = "flushing"
  PROVE  Contract!ItemStep
<1>1. Contract!GiveUp(S, why)
  BY DEF Contract!GiveUp, Contract!Within, Contract!Becomes
<1> QED BY <1>1 DEF Contract!ItemStep

(* Waiting items are delivered to a handler.                               *)
LEMMA StatusDelivered ==
  ASSUME NEW S \in SUBSET Item,
         \A i \in S : Status(i) = "waiting" /\ Status(i)' = "handling",
         \A i \in Item \ S : Status(i)' = Status(i),
         QueueMode \in {"running", "flushing"}
  PROVE  Contract!ItemStep
<1>1. Contract!Deliver(S)
  BY DEF Contract!Deliver, Contract!Within, Contract!Becomes
<1> QED BY <1>1 DEF Contract!ItemStep

(* A handler call ends, for the items it holds.                            *)
LEMMA StatusReturned ==
  ASSUME NEW S \in SUBSET Item, NEW Done \in SUBSET S,
         \A i \in S : Status(i) = "handling",
         \A i \in Item : Status(i)' = IF i \in Done THEN "done"
                                      ELSE IF i \in S THEN "waiting" ELSE Status(i)
  PROVE  Contract!ItemStep
<1>1. Contract!Return(S, Done)
  BY DEF Contract!Return, Contract!Within
<1> QED BY <1>1 DEF Contract!ItemStep

(* A handler call ends and its batch is lost.                              *)
LEMMA StatusReturnedNothing ==
  ASSUME NEW S \in SUBSET Item, NEW why \in {"panic", "flush"},
         why = "flush" => QueueMode = "flushing",
         \A i \in S : Status(i) = "handling" /\ Status(i)' = why,
         \A i \in Item \ S : Status(i)' = Status(i)
  PROVE  Contract!ItemStep
<1>1. Contract!ReturnNothing(S, why)
  BY DEF Contract!ReturnNothing, Contract!Within, Contract!Becomes
<1> QED BY <1>1 DEF Contract!ItemStep, Contract!Reason

-----------------------------------------------------------------------------
(***************************************************************************)
(* One lemma per group of actions.                                         *)
(***************************************************************************)

(* Steps that leave the handlers and the fates alone.                      *)
LEMMA QuietStep ==
  ASSUME UNCHANGED <<phase, batch, fate>>
  PROVE  Contract!ItemStep
<1>1. \A i \in Item : Status(i)' = Status(i)
  BY DEF Status, Handled
<1> QED BY <1>1, StatusSame

(* Items outside the batches are given up, and no batch changes.           *)
LEMMA GivenUpStep ==
  ASSUME TypeOK, NothingLostOrDoubled, UNCHANGED <<phase, batch>>,
         NEW S \in SUBSET Item, NEW why \in Contract!Reason, Lose(S, why),
         \A i \in S : i \in Range(base) \/ i \in hand \/ i \in wbuf,
         \/ why \in {"full", "removed"}
         \/ why = "corrupt" /\ QueueMode # "stopped"
         \/ why = "discard" /\ QueueMode = "flushing"
  PROVE  Contract!ItemStep
<1>1. \A i \in S : Status(i) = "waiting"
  BY PlaceStatus
<1>2. \A i \in S : Status(i)' = why
  BY DEF Status, Lose, Contract!Reason
<1>3. \A i \in Item \ S : Status(i)' = Status(i)
  BY DEF Status, Lose, Handled
<1> QED BY <1>1, <1>2, <1>3, StatusGivenUp

(* An item is accepted (Push).                                             *)
LEMMA PushStep ==
  ASSUME TypeOK, NothingLostOrDoubled, NEW i \in Item, Push(i)
  PROVE  Contract!ItemStep
<1> USE DEF Push, wVars
<1>1. Status(i) = "new"
  BY DEF Status
<1>2. fate'[i] = "live" /\ \A h \in Handler : i \notin batch[h]
  BY DEF TypeOK, NothingLostOrDoubled, InBatch
<1>3. Status(i)' = "waiting"
  BY <1>2 DEF Status, Handled
<1>4. \A j \in Item \ {i} : Status(j)' = Status(j)
  BY DEF Status, Handled, TypeOK
<1>5. Contract!Accept(i)
  BY <1>1, <1>3, <1>4 DEF Contract!Accept, Contract!Within, Contract!Becomes
<1> QED BY <1>5 DEF Contract!ItemStep

(* A set of waiting items becomes the batch of h, and h runs its handler.  *)
LEMMA DeliveredStep ==
  ASSUME TypeOK, NothingLostOrDoubled, NEW h \in Handler, NEW S \in SUBSET Item,
         phase[h] # "handle", phase' = [phase EXCEPT ![h] = "handle"],
         \A i \in S : Status(i) = "waiting" /\ fate[i] = "live",
         batch'[h] = S,
         \A g \in Handler \ {h} : phase[g] = "handle" => batch'[g] = batch[g],
         UNCHANGED fate, QueueMode \in {"running", "flushing"}
  PROVE  Contract!ItemStep
<1>1. phase'[h] = "handle" /\ \A g \in Handler \ {h} : phase'[g] = phase[g]
  BY DEF TypeOK
<1>2. \A i \in S : Status(i)' = "handling"
  BY <1>1 DEF Status, Handled
<1>3. ASSUME NEW i \in Item \ S PROVE Handled(i)' <=> Handled(i)
  BY <1>1 DEF Handled
<1>4. \A i \in Item \ S : Status(i)' = Status(i)
  BY <1>3 DEF Status
<1> QED BY <1>2, <1>4, StatusDelivered

(* The handler of h ends: Done is handled (or lost), the rest waits.       *)
LEMMA HandlerDone ==
  ASSUME TypeOK, NothingLostOrDoubled, NEW h \in Handler,
         HandlerReturns(h)
  PROVE  Contract!ItemStep
<1> USE DEF Finish, handlerFrame, flushVars
<1>1. phase[h] = "handle" /\ batch[h] \in SUBSET Item
  BY DEF HandlerReturns, HandleAll, HandleNoneInFlush, HandlePanics, HandleSome, TypeOK
<1>2. \A i \in batch[h] : /\ Status(i) = "handling" /\ fate[i] = "live"
                         /\ \A g \in Handler : i \in batch[g] => g = h
  BY <1>1, BatchStatus DEF NothingLostOrDoubled, InBatch
<1>3. \A g \in Handler \ {h} : phase'[g] = phase[g] /\ batch'[g] = batch[g]
  BY DEF HandlerReturns, HandleAll, HandleNoneInFlush, HandlePanics, HandleSome, TypeOK
<1>4. phase'[h] # "handle"
  BY DEF HandlerReturns, HandleAll, HandleNoneInFlush, HandlePanics, HandleSome, TypeOK
<1>5. ASSUME NEW i \in Item \ batch[h], fate'[i] = fate[i] PROVE Status(i)' = Status(i)
  <2>1. Handled(i)' <=> Handled(i)
    BY <1>3, <1>4 DEF Handled
  <2> QED BY <1>5, <2>1 DEF Status
<1>6. \A i \in batch[h] : ~Handled(i)'
  <2> SUFFICES ASSUME NEW i \in batch[h], NEW g \in Handler, phase'[g] = "handle",
                      i \in batch'[g]
               PROVE FALSE
    BY DEF Handled
  <2>1. g # h /\ batch'[g] = batch[g]
    BY <1>3, <1>4
  <2> QED BY <2>1, <1>2
<1>7. CASE HandleAll(h)
  <2>1. \A i \in Item : fate'[i] = IF i \in batch[h] THEN "done" ELSE fate[i]
    BY <1>7 DEF HandleAll, Lose
  <2>2. \A i \in Item : Status(i)' = IF i \in batch[h] THEN "done" ELSE Status(i)
    BY <2>1, <1>5 DEF Status
  <2> QED BY <2>2, <1>1, <1>2, StatusReturned
<1>8. ASSUME NEW unhandled \in SUBSET batch[h], HandleSome(h, unhandled)
      PROVE Contract!ItemStep
  <2>1. \A i \in Item : fate'[i] = IF i \in batch[h] \ unhandled THEN "done" ELSE fate[i]
    BY <1>8 DEF HandleSome, Lose
  <2>2. \A i \in batch[h] : Status(i)' = IF i \in batch[h] \ unhandled THEN "done"
                                         ELSE "waiting"
    BY <2>1, <1>1, <1>2, <1>6 DEF Status
  <2>3. \A i \in Item : Status(i)' = IF i \in batch[h] \ unhandled THEN "done"
                                     ELSE IF i \in batch[h] THEN "waiting" ELSE Status(i)
    BY <2>1, <2>2, <1>5
  <2> QED BY <2>3, <1>1, <1>2, StatusReturned
<1>9. CASE HandleNoneInFlush(h)
  <2>1. \A i \in Item : fate'[i] = IF i \in batch[h] THEN "flush" ELSE fate[i]
    BY <1>9 DEF HandleNoneInFlush, Lose
  <2>2. /\ \A i \in batch[h] : Status(i)' = "flush"
        /\ \A i \in Item \ batch[h] : Status(i)' = Status(i)
    BY <2>1, <1>1, <1>5 DEF Status
  <2>3. QueueMode = "flushing"
    BY <1>9 DEF HandleNoneInFlush, QueueMode
  <2> QED BY <2>2, <2>3, <1>1, <1>2, StatusReturnedNothing
<1>10. CASE HandlePanics(h)
  <2>1. \A i \in Item : fate'[i] = IF i \in batch[h] THEN "panic" ELSE fate[i]
    BY <1>10 DEF HandlePanics, Lose
  <2>2. /\ \A i \in batch[h] : Status(i)' = "panic"
        /\ \A i \in Item \ batch[h] : Status(i)' = Status(i)
    BY <2>1, <1>1, <1>5 DEF Status
  <2> QED BY <2>2, <1>1, <1>2, StatusReturnedNothing
<1> QED BY <1>7, <1>8, <1>9, <1>10 DEF HandlerReturns

(* An unhandled item goes back to the base queue, or finds no room there.  *)
LEMMA Requeued ==
  ASSUME TypeOK, NothingLostOrDoubled, NEW h \in Handler, NEW i \in Item,
         Requeue(h, i) \/ RequeueFails(h, i)
  PROVE  Contract!ItemStep
<1> USE DEF Requeue, RequeueFails, RequeueNext, Finish, handlerFrame, flushVars
<1>1. phase[h] = "requeue" /\ phase'[h] # "handle" /\ i \in batch[h]
  BY DEF TypeOK
<1>2. \A g \in Handler \ {h} : phase'[g] = phase[g] /\ batch'[g] = batch[g]
  BY DEF TypeOK
<1>3. \A j \in Item : Handled(j)' <=> Handled(j)
  BY <1>1, <1>2 DEF Handled
<1>4. CASE Requeue(h, i)
  BY <1>3, <1>4, StatusSame DEF Status
<1>5. CASE RequeueFails(h, i)
  <2>1. \A j \in Item : fate'[j] = IF j = i THEN "full" ELSE fate[j]
    BY <1>5 DEF Lose
  <2>2. Status(i) = "waiting"
    BY <1>1, BatchStatus
  <2>3. Status(i)' = "full" /\ \A j \in Item \ {i} : Status(j)' = Status(j)
    BY <2>1, <1>3 DEF Status
  <2> QED BY <2>2, <2>3, StatusGivenUp, {i} \in SUBSET Item DEF Contract!Reason
<1> QED BY <1>4, <1>5
-----------------------------------------------------------------------------
(***************************************************************************)
(* Every step is a step of the contract.                                   *)
(***************************************************************************)

(* Batches move from doRun's buffer to a handler, or back to the buffer.   *)
LEMMA DispatchRefines ==
  ASSUME TypeOK, Structure, NothingLostOrDoubled, Dispatch
  PROVE  Contract!ItemStep
<1> USE QueueAssumption DEF flushVars, wVars, StopPc, FlushPc
<1>1. CASE DispatchNothing
  BY <1>1, QuietStep DEF DispatchNothing
<1>2. CASE DispatchFull \/ BlockedCancelled
  <2>1. phase[Run] # "handle" /\ phase' = phase
    BY <1>2 DEF DispatchFull, BlockedCancelled, Structure
  <2>2. \A h \in Handler \ {Run} : batch'[h] = batch[h]
    BY <1>2 DEF DispatchFull, BlockedCancelled, TypeOK
  <2>3. \A i \in Item : Handled(i)' <=> Handled(i)
    BY <2>1, <2>2 DEF Handled
  <2>4. fate' = fate
    BY <1>2 DEF DispatchFull, BlockedCancelled
  <2> QED BY <2>3, <2>4, StatusSame DEF Status
<1>3. CASE DispatchStartWorker
  <2>1. \A h \in Handler : phase'[h] = "handle" <=> phase[h] = "handle"
    BY <1>3 DEF DispatchStartWorker, TypeOK, Live
  <2>2. \A i \in Item : Handled(i)' <=> Handled(i)
    BY <1>3, <2>1 DEF Handled, DispatchStartWorker
  <2> QED BY <1>3, <2>2, StatusSame DEF Status, DispatchStartWorker
<1>4. ASSUME NEW w \in Worker, DispatchSend(w) PROVE Contract!ItemStep
  <2>1. wbuf \in SUBSET Item /\ w \in Handler /\ phase[w] # "handle"
    BY <1>4 DEF DispatchSend, TypeOK, Handler
  <2>2. \A i \in wbuf : Status(i) = "waiting" /\ fate[i] = "live"
    BY <2>1, PlaceStatus DEF NothingLostOrDoubled
  <2>3. batch'[w] = wbuf /\ \A g \in Handler \ {w} : batch'[g] = batch[g]
    BY <1>4, <2>1 DEF DispatchSend, TypeOK
  <2>4. phase' = [phase EXCEPT ![w] = "handle"] /\ fate' = fate
        /\ QueueMode \in {"running", "flushing"}
    BY <1>4 DEF DispatchSend, QueueMode, isFlushing
  <2> QED BY <2>1, <2>2, <2>3, <2>4, DeliveredStep
<1>5. ASSUME NEW w \in Worker, BlockedSend(w) PROVE Contract!ItemStep
  <2>1. batch[Run] \in SUBSET Item /\ w \in Handler /\ Run \in Handler /\ w # Run
        /\ phase[w] # "handle" /\ phase[Run] = "off"
    BY <1>5 DEF BlockedSend, TypeOK, Handler, Structure
  <2>2. \A i \in batch[Run] : Status(i) = "waiting" /\ fate[i] = "live"
    BY <2>1, BatchStatus DEF NothingLostOrDoubled, InBatch
  <2>3. batch'[w] = batch[Run]
    BY <1>5, <2>1 DEF BlockedSend, TypeOK
  <2>4. \A g \in Handler \ {w} : phase[g] = "handle" => batch'[g] = batch[g]
    BY <1>5, <2>1 DEF BlockedSend, TypeOK
  <2>5. phase' = [phase EXCEPT ![w] = "handle"] /\ fate' = fate
        /\ QueueMode \in {"running", "flushing"}
    BY <1>5 DEF BlockedSend, QueueMode, isFlushing
  <2> QED BY <2>1, <2>2, <2>3, <2>4, <2>5, DeliveredStep
<1>6. CASE BlockedFlush
  <2>1. batch[Run] \in SUBSET Item /\ Run \in Handler /\ phase[Run] = "off"
    BY <1>6 DEF BlockedFlush, TypeOK, Handler, Structure
  <2>2. \A i \in batch[Run] : Status(i) = "waiting" /\ fate[i] = "live"
    BY <2>1, BatchStatus DEF NothingLostOrDoubled, InBatch
  <2>3. phase' = [phase EXCEPT ![Run] = "handle"] /\ fate' = fate /\ batch' = batch
        /\ QueueMode \in {"running", "flushing"}
    BY <1>6 DEF BlockedFlush, QueueMode, isFlushing
  <2> QED BY <2>1, <2>2, <2>3, DeliveredStep
<1> QED BY <1>1, <1>2, <1>3, <1>4, <1>5, <1>6 DEF Dispatch

(* A flush drops waiting items or delivers them one at a time.             *)
LEMMA FlushRefines ==
  ASSUME TypeOK, Structure, NothingLostOrDoubled, Flush
  PROVE  Contract!ItemStep
<1> USE QueueAssumption DEF flushVars, wVars, FlushPc
<1>1. CASE FlushDiscardEnds \/ FlushDrainEnds
  BY <1>1, QuietStep DEF FlushDiscardEnds, FlushDrainEnds, FlushEnds
<1>2. CASE FlushWait
  <2>1. CASE flushing = "discard"
    <3>1. QueueMode = "flushing" /\ Lose(wbuf, "discard") /\ UNCHANGED <<phase, batch>>
      BY <1>2, <2>1 DEF FlushWait, QueueMode, isFlushing
    <3> QED BY <3>1, GivenUpStep, "discard" \in Contract!Reason
            DEF TypeOK, Contract!Reason
  <2>2. CASE flushing # "discard"
    BY <1>2, <2>2, QuietStep DEF FlushWait
  <2> QED BY <2>1, <2>2
<1>3. ASSUME NEW i \in Item, FlushDiscard(i) PROVE Contract!ItemStep
  <2>1. QueueMode = "flushing" /\ Lose({i}, "discard") /\ UNCHANGED <<phase, batch>>
        /\ i \in hand
    BY <1>3 DEF FlushDiscard, QueueMode, isFlushing
  <2> QED BY <2>1, GivenUpStep, {i} \in SUBSET Item DEF Contract!Reason
<1>4. ASSUME NEW i \in Item, FlushReceive(i) PROVE Contract!ItemStep
  <2>1. QueueMode = "flushing" /\ i \in hand
    BY <1>4 DEF FlushReceive, QueueMode, isFlushing
  <2>2. CASE i \in Corrupted
    <3>1. Lose({i}, "corrupt") /\ UNCHANGED <<phase, batch>>
      BY <1>4, <2>2 DEF FlushReceive
    <3> QED BY <2>1, <3>1, GivenUpStep, {i} \in SUBSET Item DEF Contract!Reason
  <2>3. CASE i \notin Corrupted
    <3>1. Status(i) = "waiting" /\ fate[i] = "live"
      BY <2>1, PlaceStatus DEF NothingLostOrDoubled
    <3>2. Run \in Handler /\ phase[Run] # "handle"
      BY <1>4 DEF FlushReceive, Structure, Handler
    <3>3. batch'[Run] = {i} /\ \A g \in Handler \ {Run} : batch'[g] = batch[g]
      BY <1>4, <2>3, <3>2 DEF FlushReceive, TypeOK
    <3>4. phase' = [phase EXCEPT ![Run] = "handle"] /\ fate' = fate
      BY <1>4, <2>3 DEF FlushReceive
    <3> QED BY <2>1, <3>1, <3>2, <3>3, <3>4, DeliveredStep, {i} \in SUBSET Item
  <2> QED BY <2>2, <2>3
<1> QED BY <1>1, <1>2, <1>3, <1>4 DEF Flush

(* A stopping queue delivers nothing.                                      *)
LEMMA StopRefines ==
  ASSUME TypeOK, Structure, NothingLostOrDoubled, Stop
  PROVE  Contract!ItemStep
<1> USE DEF flushVars, wVars
<1>1. CASE StopCollected \/ StopRepushed \/ StopWorkersWaited
  BY <1>1, QuietStep DEF StopCollected, StopRepushed, StopWorkersWaited
<1>2. ASSUME NEW i \in Item, StopReceive(i) PROVE Contract!ItemStep
  <2>1. QueueMode # "stopped" /\ i \in hand
    BY <1>2 DEF StopReceive, QueueMode
  <2>2. CASE i \in Corrupted
    <3>1. Lose({i}, "corrupt") /\ UNCHANGED <<phase, batch>>
      BY <1>2, <2>2 DEF StopReceive
    <3> QED BY <2>1, <3>1, GivenUpStep, {i} \in SUBSET Item DEF Contract!Reason
  <2>3. CASE i \notin Corrupted
    BY <1>2, <2>3, QuietStep DEF StopReceive
  <2> QED BY <2>2, <2>3
<1>3. ASSUME NEW i \in Item, StopRepush(i) PROVE Contract!ItemStep
  BY <1>3, QuietStep DEF StopRepush
<1>4. ASSUME NEW i \in Item, StopRepushFails(i) PROVE Contract!ItemStep
  <2>1. i \in wbuf /\ Lose({i}, "full") /\ UNCHANGED <<phase, batch>>
    BY <1>4 DEF StopRepushFails
  <2> QED BY <2>1, GivenUpStep, {i} \in SUBSET Item DEF Contract!Reason
<1> QED BY <1>1, <1>2, <1>3, <1>4 DEF Stop

(* Every step changes the statuses as the contract allows.                 *)
LEMMA ItemRefines ==
  ASSUME TypeOK, Structure, NothingLostOrDoubled, [Next]_vars
  PROVE  Contract!ItemStep
<1> USE DEF flushVars, wVars
<1>1. ASSUME NEW i \in Item, Push(i) PROVE Contract!ItemStep
  BY <1>1, PushStep
<1>2. CASE RemoveAllItems
  <2>1. Range(base) \in SUBSET Item
    BY DEF TypeOK, Range
  <2>2. Lose(Range(base), "removed") /\ UNCHANGED <<phase, batch>>
    BY <1>2 DEF RemoveAllItems
  <2> QED BY <2>1, <2>2, GivenUpStep DEF Contract!Reason
<1>3. ASSUME NEW n \in MaxNums, SetWorkerMaxNumber(n) PROVE Contract!ItemStep
  BY <1>3, QuietStep DEF SetWorkerMaxNumber
<1>4. ASSUME NEW kind \in Flushes, FlushWithContext(kind) PROVE Contract!ItemStep
  BY <1>4, QuietStep DEF FlushWithContext
<1>5. CASE FlushGivesUp \/ Shutdown \/ Popper
  BY <1>5, QuietStep DEF FlushGivesUp, Shutdown, Popper, PopItem, PopFails
<1>6. CASE RunTimer \/ RunFlush \/ RunStop
  BY <1>6, QuietStep DEF RunTimer, RunFlush, RunStop
<1>7. ASSUME NEW i \in Item, RunReceive(i) PROVE Contract!ItemStep
  <2>1. QueueMode = "running" /\ i \in hand
    BY <1>7 DEF RunReceive, QueueMode, isFlushing, FlushPc, StopPc
  <2>2. CASE i \in Corrupted
    <3>1. Lose({i}, "corrupt") /\ UNCHANGED <<phase, batch>>
      BY <1>7, <2>2 DEF RunReceive
    <3> QED BY <2>1, <3>1, GivenUpStep, {i} \in SUBSET Item DEF Contract!Reason
  <2>3. CASE i \notin Corrupted
    BY <1>7, <2>3, QuietStep DEF RunReceive
  <2> QED BY <2>2, <2>3
<1>8. CASE Dispatch
  BY <1>8, DispatchRefines
<1>9. CASE Flush
  BY <1>9, FlushRefines
<1>10. CASE Stop
  BY <1>10, StopRefines
<1>11. ASSUME NEW h \in Handler, HandlerReturns(h) PROVE Contract!ItemStep
  BY <1>11, HandlerDone
<1>12. ASSUME NEW h \in Handler, NEW i \in Item, Requeue(h, i) \/ RequeueFails(h, i)
       PROVE Contract!ItemStep
  BY <1>12, Requeued
<1>13. ASSUME NEW w \in Worker, WorkerStops(w) \/ WorkerIdles(w) PROVE Contract!ItemStep
  <2>1. phase[w] # "handle" /\ phase' = [phase EXCEPT ![w] = "off"] /\ UNCHANGED <<batch, fate>>
    BY <1>13 DEF WorkerStops, WorkerIdles
  <2>2. \A h \in Handler : phase'[h] = "handle" <=> phase[h] = "handle"
    BY <2>1 DEF TypeOK
  <2>3. \A i \in Item : Handled(i)' <=> Handled(i)
    BY <2>1, <2>2 DEF Handled
  <2> QED BY <2>1, <2>3, StatusSame DEF Status
<1>14. CASE UNCHANGED vars
  BY <1>14, QuietStep DEF vars
<1> QED BY <1>1, <1>2, <1>3, <1>4, <1>5, <1>6, <1>7, <1>8, <1>9, <1>10, <1>11, <1>12, <1>13,
           <1>14
        DEF Next, Environment, DoRun, RequeueStep, WorkerExits

(* modules/queue keeps the promise of its package comment, with the        *)
(* exceptions QueueContract names: the goroutines of the pool implement    *)
(* the contract.                                                           *)
THEOREM Implements == Spec => KeepsContract
<1>1. Init => Contract!Init
  <2> SUFFICES ASSUME Init PROVE Contract!Init
    OBVIOUS
  <2>1. \A i \in Item : Status(i) = "new"
    BY DEF Init, Status
  <2>2. QueueMode = "running"
    BY DEF Init, QueueMode, isFlushing, FlushPc, StopPc
  <2> QED BY <2>1, <2>2 DEF Contract!Init
<1>2. TypeOK /\ Structure /\ NothingLostOrDoubled /\ [Next]_vars => Contract!Next
  BY ItemRefines, ModeRefines DEF Contract!Next
<1>3. TypeOK /\ Structure /\ NothingLostOrDoubled /\ [Next]_vars
        => [Contract!Next]_(Contract!cvars)
  BY <1>2
<1> QED BY <1>1, <1>3, TypeCorrect, StructureHolds, Conservation, PTL
        DEF Spec, KeepsContract, Contract!Spec
=============================================================================
