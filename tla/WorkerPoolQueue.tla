---------------------------- MODULE WorkerPoolQueue ----------------------------
(***************************************************************************)
(* modules/queue: a WorkerPoolQueue over one base queue.  The goroutines   *)
(* are the popper (popItemByChan), the main loop (doRun) and the workers   *)
(* (doStartNewWorker); around them stand producers (Push), administrators  *)
(* (FlushWithContext, RemoveAllItems, SetWorkerMaxNumber) and whoever      *)
(* cancels the queue's context.  An Item is one accepted or attempted      *)
(* Push; batches are sets, because no handler may rely on their order, and *)
(* the base queue is a sequence.  batchChan and popItemChan are unbuffered *)
(* Go channels: a send and its receive are one step.                       *)
(***************************************************************************)
EXTENDS Integers, Sequences, FiniteSets, Functions

CONSTANTS
  Item,          \* push requests
  Corrupted,     \* those whose stored bytes no longer unmarshal
  Worker,        \* names for worker goroutines: at most this many run at once
  Run,           \* the doRun goroutine, which handles batches itself in a flush
  BatchLength,   \* setting BATCH_LENGTH
  QueueLength,   \* setting LENGTH: capacity of the base queue
  MaxNums,       \* values workerMaxNum may take (MAX_WORKERS, or the admin's)
  Flushes,       \* kinds of FlushWithContext requests: "drain", "discard"
  BaseMayFail    \* the base queue's PopItem and Len may report a storage error

ASSUME QueueAssumption ==
  /\ Corrupted \subseteq Item
  /\ IsFiniteSet(Worker) /\ Worker # {} /\ Run \notin Worker
  /\ BatchLength \in Nat \ {0} /\ QueueLength \in Nat \ {0}
  /\ MaxNums \subseteq Int /\ MaxNums # {}
  /\ \A n \in MaxNums : n <= Cardinality(Worker)
  /\ Flushes \subseteq {"drain", "discard"}
  /\ BaseMayFail \in BOOLEAN

Handler == Worker \cup {Run}

(***************************************************************************)
(* Where the doRun goroutine is.  "dispatch" to "handleBatch" are inside   *)
(* doDispatchBatchToWorker, "flushWait" to "flushItem" inside doFlush, and *)
(* "drain" to "waitWorkers" in the deferred function of doRun.             *)
(***************************************************************************)
FlushPc == {"flushWait", "flushDiscard", "flushDrain", "flushItem"}
StopPc == {"drain", "repush", "repushLate", "waitWorkers", "stopped"}
RunPc == {"select", "dispatch", "sent", "full", "blocked", "handleBatch"}
           \cup FlushPc \cup StopPc

(***************************************************************************)
(* The life of an item: not pushed, in the queue's care, handled, or the   *)
(* reason for which the queue gave it up.                                  *)
(***************************************************************************)
LossReason == {"panic",    \* the handler panicked on its batch
               "flush",    \* all of its batch was unhandled during a flush
               "full",     \* handed back to a base queue that stayed full
               "discard",  \* flush with a negative timeout
               "removed",  \* RemoveAllItems
               "corrupt"}  \* unmarshal failed
Fate == {"new", "live", "done"} \cup LossReason

VARIABLES
  base,          \* baseQueue: the stored items
  popOpen,       \* popItemChan is not closed
  hand,          \* the item the popper took and has not delivered yet
  run,           \* where doRun is
  wbuf,          \* wg.batchBuffer
  timer,         \* batchDispatchC is a running debounce timer
  batch,         \* the batch each handler holds; batch[Run] also while dispatching
  phase,         \* what each worker goroutine (and doRun as a handler) is doing
  workerMaxNum,  \* workerMaxNum
  ctxDone,       \* ctxRun is cancelled
  asked,         \* a FlushWithContext blocked on flushChan, or "none"
  flushing,      \* the flush request doRun accepted, or "none"
  fate           \* what became of each item

wVars == <<batch, phase>>
flushVars == <<asked, flushing>>
vars == <<base, popOpen, hand, run, wbuf, timer, wVars, workerMaxNum, ctxDone,
          flushVars, fate>>

TypeOK ==
  /\ base \in Seq(Item) /\ Len(base) <= QueueLength
  /\ popOpen \in BOOLEAN /\ timer \in BOOLEAN /\ ctxDone \in BOOLEAN
  /\ hand \subseteq Item /\ wbuf \subseteq Item
  /\ run \in RunPc
  /\ batch \in [Handler -> SUBSET Item]
  /\ phase \in [Handler -> {"off", "idle", "handle", "requeue"}]
  /\ workerMaxNum \in MaxNums
  /\ asked \in Flushes \cup {"none"} /\ flushing \in Flushes \cup {"none"}
  /\ fate \in [Item -> Fate]

Init ==
  /\ base = <<>> /\ popOpen = TRUE /\ hand = {}
  /\ run = "select" /\ wbuf = {} /\ timer = FALSE
  /\ batch = [h \in Handler |-> {}]
  /\ phase = [h \in Handler |-> "off"]
  /\ workerMaxNum \in MaxNums
  /\ ctxDone = FALSE /\ asked = "none" /\ flushing = "none"
  /\ fate = [i \in Item |-> "new"]

(***************************************************************************)
(* workerNum counts the goroutines that have not run stopWorking; the      *)
(* count and the goroutine's exit are one step, under workerNumMu.         *)
(***************************************************************************)
Live(w) == phase[w] # "off"
workerNum == Cardinality({w \in Worker : Live(w)})
isFlushing == run \in FlushPc
ctxWorkerDone == ctxDone \/ isFlushing

HasSpace == Len(base) < QueueLength
Lose(S, why) == fate' = [i \in Item |-> IF i \in S THEN why ELSE fate[i]]

(* What doRun does when doDispatchBatchToWorker returns: the select loop,  *)
(* or the doFlush the dispatch prepared.                                   *)
AfterDispatch == IF flushing = "none" THEN "select" ELSE "flushWait"
-----------------------------------------------------------------------------
(***************************************************************************)
(* Producers and administrators.                                           *)
(***************************************************************************)

(* Mutant: the base queue takes the item however full it is.               *)
PushToFull(i) ==
  /\ fate[i] = "new"
  /\ base' = Append(base, i)
  /\ fate' = [fate EXCEPT ![i] = "live"]
  /\ UNCHANGED <<popOpen, hand, run, wbuf, timer, wVars, workerMaxNum, ctxDone, flushVars>>

(* Push succeeds: a full base queue keeps the caller blocked, and refuses  *)
(* the item after pushBlockTime, which changes nothing.  A cancelled       *)
(* context does not surely prevent it (a select over two ready channels).  *)
Push(i) ==
  /\ fate[i] = "new" /\ HasSpace
  /\ base' = Append(base, i)
  /\ fate' = [fate EXCEPT ![i] = "live"]
  /\ UNCHANGED <<popOpen, hand, run, wbuf, timer, wVars, workerMaxNum, ctxDone, flushVars>>

RemoveAllItems ==
  /\ base # <<>>
  /\ Lose(Range(base), "removed")
  /\ base' = <<>>
  /\ UNCHANGED <<popOpen, hand, run, wbuf, timer, wVars, workerMaxNum, ctxDone, flushVars>>

SetWorkerMaxNumber(n) ==
  /\ workerMaxNum' = n
  /\ UNCHANGED <<base, popOpen, hand, run, wbuf, timer, wVars, ctxDone, flushVars, fate>>

FlushWithContext(kind) ==
  /\ asked = "none" /\ ~ctxDone
  /\ asked' = kind
  /\ UNCHANGED <<base, popOpen, hand, run, wbuf, timer, wVars, workerMaxNum, ctxDone,
                 flushing, fate>>

(* The caller's timeout or context, or ctxRun, ends before doRun accepts.  *)
FlushGivesUp ==
  /\ asked # "none"
  /\ asked' = "none"
  /\ UNCHANGED <<base, popOpen, hand, run, wbuf, timer, wVars, workerMaxNum, ctxDone,
                 flushing, fate>>

(* Cancel, ShutdownWait or the parent context.                             *)
Shutdown ==
  /\ ~ctxDone /\ ctxDone' = TRUE
  /\ UNCHANGED <<base, popOpen, hand, run, wbuf, timer, wVars, workerMaxNum, flushVars, fate>>
-----------------------------------------------------------------------------
(***************************************************************************)
(* The popper goroutine.                                                   *)
(***************************************************************************)

PopItem ==
  /\ popOpen /\ hand = {} /\ base # <<>>
  /\ hand' = {Head(base)}
  /\ base' = Tail(base)
  /\ UNCHANGED <<popOpen, run, wbuf, timer, wVars, workerMaxNum, ctxDone, flushVars, fate>>

PopFails ==
  /\ popOpen /\ hand = {} /\ (ctxDone \/ BaseMayFail)
  /\ popOpen' = FALSE
  /\ UNCHANGED <<base, hand, run, wbuf, timer, wVars, workerMaxNum, ctxDone, flushVars, fate>>
-----------------------------------------------------------------------------
(***************************************************************************)
(* doRun: its select loop.                                                 *)
(***************************************************************************)

(* Mutant: the debounce timer is not armed.                                *)
RunReceiveUntimed(i) ==
  /\ run = "select" /\ i \in hand
  /\ hand' = {} /\ wbuf' = wbuf \cup {i}
  /\ run' = IF Cardinality(wbuf') >= BatchLength THEN "dispatch" ELSE run
  /\ UNCHANGED <<base, popOpen, timer, wVars, workerMaxNum, ctxDone, flushVars, fate>>

RunReceive(i) ==
  /\ run = "select" /\ i \in hand
  /\ hand' = {}
  /\ IF i \in Corrupted
     THEN Lose({i}, "corrupt") /\ UNCHANGED <<wbuf, timer, run>>
     ELSE /\ wbuf' = wbuf \cup {i}
          /\ UNCHANGED fate
          /\ IF Cardinality(wbuf') >= BatchLength
             THEN run' = "dispatch" /\ UNCHANGED timer
             ELSE timer' = TRUE /\ UNCHANGED run
  /\ UNCHANGED <<base, popOpen, wVars, workerMaxNum, ctxDone, flushVars>>

RunTimer ==
  /\ run = "select" /\ timer
  /\ timer' = FALSE /\ run' = "dispatch"
  /\ UNCHANGED <<base, popOpen, hand, wbuf, wVars, workerMaxNum, ctxDone, flushVars, fate>>

(* Mutant: doFlush without the dispatch before it.                         *)
RunFlushUndispatched ==
  /\ run = "select" /\ asked # "none"
  /\ flushing' = asked /\ asked' = "none" /\ run' = "flushWait"
  /\ UNCHANGED <<base, popOpen, hand, wbuf, timer, wVars, workerMaxNum, ctxDone, fate>>

RunFlush ==
  /\ run = "select" /\ asked # "none"
  /\ flushing' = asked /\ asked' = "none" /\ run' = "dispatch"
  /\ UNCHANGED <<base, popOpen, hand, wbuf, timer, wVars, workerMaxNum, ctxDone, fate>>

(* ctxRun is done, or the popper closed its channel or reported an error;  *)
(* the deferred function starts with ctxRunCancel.                         *)
RunStop ==
  /\ run = "select" /\ (ctxDone \/ ~popOpen)
  /\ ctxDone' = TRUE /\ run' = "drain"
  /\ UNCHANGED <<base, popOpen, hand, wbuf, timer, wVars, workerMaxNum, flushVars, fate>>
-----------------------------------------------------------------------------
(***************************************************************************)
(* doDispatchBatchToWorker.                                                *)
(***************************************************************************)

DispatchNothing ==
  /\ run = "dispatch" /\ wbuf = {}
  /\ run' = AfterDispatch
  /\ UNCHANGED <<base, popOpen, hand, wbuf, timer, wVars, workerMaxNum, ctxDone, flushVars, fate>>

(* The non-blocking send finds a worker waiting in its select ...          *)
DispatchSend(w) ==
  /\ run = "dispatch" /\ wbuf # {} /\ phase[w] = "idle"
  /\ batch' = [batch EXCEPT ![w] = wbuf]
  /\ phase' = [phase EXCEPT ![w] = "handle"]
  /\ wbuf' = {} /\ run' = "sent"
  /\ UNCHANGED <<base, popOpen, hand, timer, workerMaxNum, ctxDone, flushVars, fate>>

(* ... or none; an idle worker may not have reached its select yet.        *)
DispatchFull ==
  /\ run = "dispatch" /\ wbuf # {}
  /\ batch' = [batch EXCEPT ![Run] = wbuf]
  /\ wbuf' = {} /\ run' = "full"
  /\ UNCHANGED <<base, popOpen, hand, timer, phase, workerMaxNum, ctxDone, flushVars, fate>>

(* The section under workerNumMu: start a worker if one is wanted and may  *)
(* be started, and always one if there is none.                            *)
MayStartWorker ==
  /\ run = "full" \/ workerNum = 0
  /\ workerNum < workerMaxNum \/ (workerNum = 0 /\ workerMaxNum <= 0)

DispatchStartWorker ==
  /\ run \in {"sent", "full"}
  /\ IF MayStartWorker
     THEN \E w \in Worker : ~Live(w) /\ phase' = [phase EXCEPT ![w] = "idle"]
     ELSE UNCHANGED phase
  /\ run' = IF run = "full" THEN "blocked" ELSE AfterDispatch
  /\ UNCHANGED <<base, popOpen, hand, wbuf, timer, batch, workerMaxNum, ctxDone, flushVars, fate>>

BlockedSend(w) ==
  /\ run = "blocked" /\ phase[w] = "idle"
  /\ batch' = [batch EXCEPT ![w] = batch[Run], ![Run] = {}]
  /\ phase' = [phase EXCEPT ![w] = "handle"]
  /\ run' = AfterDispatch
  /\ UNCHANGED <<base, popOpen, hand, wbuf, timer, workerMaxNum, ctxDone, flushVars, fate>>

(* A flush arrives while every worker is busy: doRun handles the batch     *)
(* itself first.  The dispatch that precedes a flush reads skipFlushChan.  *)
BlockedFlush ==
  /\ run = "blocked" /\ flushing = "none" /\ asked # "none"
  /\ flushing' = asked /\ asked' = "none"
  /\ phase' = [phase EXCEPT ![Run] = "handle"]
  /\ run' = "handleBatch"
  /\ UNCHANGED <<base, popOpen, hand, wbuf, timer, batch, workerMaxNum, ctxDone, fate>>

(* Mutant: the batch is not returned to the buffer.                        *)
BlockedCancelledForgets ==
  /\ run = "blocked" /\ ctxDone
  /\ batch' = [batch EXCEPT ![Run] = {}]
  /\ run' = AfterDispatch
  /\ UNCHANGED <<base, popOpen, hand, wbuf, timer, phase, workerMaxNum, ctxDone, flushVars, fate>>

BlockedCancelled ==
  /\ run = "blocked" /\ ctxDone
  /\ wbuf' = batch[Run]
  /\ batch' = [batch EXCEPT ![Run] = {}]
  /\ run' = AfterDispatch
  /\ UNCHANGED <<base, popOpen, hand, timer, phase, workerMaxNum, ctxDone, flushVars, fate>>
-----------------------------------------------------------------------------
(***************************************************************************)
(* Handlers: doWorkerHandle, in a worker or in doRun.  unhandled is what   *)
(* the handler function returned.  Afterwards a worker is idle again, and  *)
(* doRun goes on to (or with) its flush.                                   *)
(***************************************************************************)
Finish(h) ==
  IF h = Run
  THEN /\ phase' = [phase EXCEPT ![h] = "off"]
       /\ run' = IF run = "handleBatch" THEN "flushWait" ELSE "flushDrain"
  ELSE /\ phase' = [phase EXCEPT ![h] = "idle"]
       /\ UNCHANGED run

handlerFrame == <<popOpen, hand, wbuf, timer, workerMaxNum, ctxDone, flushVars>>

HandleAll(h) ==
  /\ phase[h] = "handle"
  /\ Lose(batch[h], "done")
  /\ batch' = [batch EXCEPT ![h] = {}]
  /\ Finish(h)
  /\ UNCHANGED base /\ UNCHANGED handlerFrame

(* Some items are unhandled and will be requeued, after a pause if all are *)
(* (outside a flush).                                                      *)
HandleSome(h, unhandled) ==
  /\ phase[h] = "handle"
  /\ unhandled # {} /\ unhandled \subseteq batch[h]
  /\ isFlushing => unhandled # batch[h]
  /\ Lose(batch[h] \ unhandled, "done")
  /\ batch' = [batch EXCEPT ![h] = unhandled]
  /\ phase' = [phase EXCEPT ![h] = "requeue"]
  /\ UNCHANGED <<base, run>> /\ UNCHANGED handlerFrame

(* Mutant: an unhandled batch is dropped outside a flush, too.             *)
HandleNoneDropped(h) ==
  /\ phase[h] = "handle"
  /\ Lose(batch[h], "flush")
  /\ batch' = [batch EXCEPT ![h] = {}]
  /\ Finish(h)
  /\ UNCHANGED base /\ UNCHANGED handlerFrame

(* No item was handled and a flush is on: "do not requeue items".          *)
HandleNoneInFlush(h) ==
  /\ phase[h] = "handle" /\ isFlushing
  /\ Lose(batch[h], "flush")
  /\ batch' = [batch EXCEPT ![h] = {}]
  /\ Finish(h)
  /\ UNCHANGED base /\ UNCHANGED handlerFrame

(* safeHandler recovers and returns no unhandled item.                     *)
HandlePanics(h) ==
  /\ phase[h] = "handle"
  /\ Lose(batch[h], "panic")
  /\ batch' = [batch EXCEPT ![h] = {}]
  /\ Finish(h)
  /\ UNCHANGED base /\ UNCHANGED handlerFrame

RequeueNext(h, i) ==
  /\ batch' = [batch EXCEPT ![h] = @ \ {i}]
  /\ IF batch[h] = {i} THEN Finish(h) ELSE UNCHANGED <<phase, run>>
  /\ UNCHANGED handlerFrame

Requeue(h, i) ==
  /\ phase[h] = "requeue" /\ i \in batch[h] /\ HasSpace
  /\ base' = Append(base, i) /\ UNCHANGED fate
  /\ RequeueNext(h, i)

(* Push gave up after pushBlockTime, basePushForShutdown after             *)
(* shutdownTimeout: the base queue stayed full.                            *)
RequeueFails(h, i) ==
  /\ phase[h] = "requeue" /\ i \in batch[h] /\ ~HasSpace
  /\ Lose({i}, "full") /\ UNCHANGED base
  /\ RequeueNext(h, i)
-----------------------------------------------------------------------------
(***************************************************************************)
(* The worker goroutine's own exits.                                       *)
(***************************************************************************)

WorkerStops(w) ==
  /\ phase[w] = "idle" /\ ctxWorkerDone
  /\ phase' = [phase EXCEPT ![w] = "off"]
  /\ UNCHANGED <<base, popOpen, hand, run, wbuf, timer, batch, workerMaxNum, ctxDone,
                 flushVars, fate>>

(* Mutant: the last worker goes, too.                                      *)
LastWorkerIdles(w) ==
  /\ phase[w] = "idle"
  /\ phase' = [phase EXCEPT ![w] = "off"]
  /\ UNCHANGED <<base, popOpen, hand, run, wbuf, timer, batch, workerMaxNum, ctxDone,
                 flushVars, fate>>

(* The idle ticker fires: the last worker stays.                           *)
WorkerIdles(w) ==
  /\ phase[w] = "idle" /\ workerNum > 1
  /\ phase' = [phase EXCEPT ![w] = "off"]
  /\ UNCHANGED <<base, popOpen, hand, run, wbuf, timer, batch, workerMaxNum, ctxDone,
                 flushVars, fate>>
-----------------------------------------------------------------------------
(***************************************************************************)
(* doFlush.                                                                *)
(***************************************************************************)
FlushEnds ==
  /\ run' = "select" /\ flushing' = "none"
  /\ UNCHANGED <<base, popOpen, hand, wbuf, timer, wVars, workerMaxNum, ctxDone, asked, fate>>

(* Mutant: the workers are cancelled and not waited for.                   *)
FlushUnwaited ==
  /\ run = "flushWait"
  /\ IF flushing = "discard"
     THEN Lose(wbuf, "discard") /\ wbuf' = {} /\ run' = "flushDiscard"
     ELSE run' = "flushDrain" /\ UNCHANGED <<wbuf, fate>>
  /\ UNCHANGED <<base, popOpen, hand, timer, wVars, workerMaxNum, ctxDone, flushVars>>

(* ctxWorkerCancel, wg.Wait; a negative timeout drops the batch buffer.    *)
FlushWait ==
  /\ run = "flushWait"
  /\ \A w \in Worker : ~Live(w)
  /\ IF flushing = "discard"
     THEN Lose(wbuf, "discard") /\ wbuf' = {} /\ run' = "flushDiscard"
     ELSE run' = "flushDrain" /\ UNCHANGED <<wbuf, fate>>
  /\ UNCHANGED <<base, popOpen, hand, timer, wVars, workerMaxNum, ctxDone, flushVars>>

FlushDiscard(i) ==
  /\ run = "flushDiscard" /\ i \in hand
  /\ hand' = {} /\ Lose({i}, "discard")
  /\ UNCHANGED <<base, popOpen, run, wbuf, timer, wVars, workerMaxNum, ctxDone, flushVars>>

(* The default case: the popper is not at its send (it may be about to     *)
(* be).  A closed popItemChan is always ready, so then only ctxRun ends    *)
(* the loop.                                                               *)
FlushDiscardEnds ==
  /\ run = "flushDiscard" /\ (popOpen \/ ctxDone)
  /\ FlushEnds

FlushReceive(i) ==
  /\ run = "flushDrain" /\ i \in hand
  /\ hand' = {}
  /\ IF i \in Corrupted
     THEN Lose({i}, "corrupt") /\ UNCHANGED <<batch, phase, run>>
     ELSE /\ batch' = [batch EXCEPT ![Run] = {i}]
          /\ phase' = [phase EXCEPT ![Run] = "handle"]
          /\ run' = "flushItem" /\ UNCHANGED fate
  /\ UNCHANGED <<base, popOpen, wbuf, timer, workerMaxNum, ctxDone, flushVars>>

(* The second time that 20 ms passed without an item and Len was 0 (two    *)
(* looks with nothing between them decide as the second alone does), or    *)
(* the queue is stopping.  Len's error is ignored, and a Len that fails    *)
(* returns 0.  Nobody asks whether the popper holds an item: it may have   *)
(* popped one and not have reached its send.                               *)
FlushDrainEnds ==
  /\ run = "flushDrain"
  /\ base = <<>> \/ BaseMayFail \/ ctxDone \/ ~popOpen
  /\ FlushEnds
-----------------------------------------------------------------------------
(***************************************************************************)
(* The deferred function of doRun: collect what is on the fly, push it     *)
(* back to the base queue, wait for the workers for shutdownTimeout.       *)
(***************************************************************************)

StopReceive(i) ==
  /\ run = "drain" /\ i \in hand
  /\ hand' = {}
  /\ IF i \in Corrupted THEN Lose({i}, "corrupt") /\ UNCHANGED wbuf
                        ELSE wbuf' = wbuf \cup {i} /\ UNCHANGED fate
  /\ UNCHANGED <<base, popOpen, run, timer, wVars, workerMaxNum, ctxDone, flushVars>>

(* Mutant: what the popper still holds is not collected.                   *)
StopUncollected ==
  /\ run = "drain"
  /\ run' = "repush"
  /\ UNCHANGED <<base, popOpen, hand, wbuf, timer, wVars, workerMaxNum, ctxDone, flushVars, fate>>

StopCollected ==
  /\ run = "drain" /\ hand = {} /\ ~popOpen
  /\ run' = "repush"
  /\ UNCHANGED <<base, popOpen, hand, wbuf, timer, wVars, workerMaxNum, ctxDone, flushVars, fate>>

StopRepush(i) ==
  /\ run \in {"repush", "repushLate"} /\ i \in wbuf /\ HasSpace
  /\ base' = Append(base, i) /\ wbuf' = wbuf \ {i}
  /\ UNCHANGED <<popOpen, hand, run, timer, wVars, workerMaxNum, ctxDone, flushVars, fate>>

(* The context shared by all the pushes ends while one waits for space;    *)
(* from then on a push may fail although there is space.                   *)
StopRepushFails(i) ==
  /\ i \in wbuf
  /\ (run = "repush" /\ ~HasSpace) \/ run = "repushLate"
  /\ run' = "repushLate"
  /\ Lose({i}, "full") /\ wbuf' = wbuf \ {i}
  /\ UNCHANGED <<base, popOpen, hand, timer, wVars, workerMaxNum, ctxDone, flushVars>>

StopRepushed ==
  /\ run \in {"repush", "repushLate"} /\ wbuf = {}
  /\ run' = "waitWorkers"
  /\ UNCHANGED <<base, popOpen, hand, wbuf, timer, wVars, workerMaxNum, ctxDone, flushVars, fate>>

(* Mutant: the workers are waited for without a timeout.                   *)
StopWaitsForWorkers ==
  /\ run = "waitWorkers" /\ \A w \in Worker : ~Live(w)
  /\ run' = "stopped"
  /\ UNCHANGED <<base, popOpen, hand, wbuf, timer, wVars, workerMaxNum, ctxDone, flushVars, fate>>

(* All workers ended, or shutdownTimeout passed with some still running.   *)
StopWorkersWaited ==
  /\ run = "waitWorkers"
  /\ run' = "stopped"
  /\ UNCHANGED <<base, popOpen, hand, wbuf, timer, wVars, workerMaxNum, ctxDone, flushVars, fate>>
-----------------------------------------------------------------------------
Environment ==
  \/ \E i \in Item : Push(i)
  \/ RemoveAllItems
  \/ \E n \in MaxNums : SetWorkerMaxNumber(n)
  \/ \E kind \in Flushes : FlushWithContext(kind)
  \/ FlushGivesUp
  \/ Shutdown

Popper == PopItem \/ PopFails

Dispatch ==
  \/ DispatchNothing \/ DispatchFull \/ DispatchStartWorker
  \/ BlockedFlush \/ BlockedCancelled
  \/ \E w \in Worker : DispatchSend(w) \/ BlockedSend(w)

Flush ==
  \/ FlushWait \/ FlushDiscardEnds \/ FlushDrainEnds
  \/ \E i \in Item : FlushDiscard(i) \/ FlushReceive(i)

Stop ==
  \/ StopCollected \/ StopRepushed \/ StopWorkersWaited
  \/ \E i \in Item : StopReceive(i) \/ StopRepush(i) \/ StopRepushFails(i)

DoRun ==
  \/ RunTimer \/ RunFlush \/ RunStop \/ \E i \in Item : RunReceive(i)
  \/ Dispatch \/ Flush \/ Stop

HandlerReturns(h) ==
  \/ HandleAll(h) \/ HandleNoneInFlush(h) \/ HandlePanics(h)
  \/ \E unhandled \in SUBSET batch[h] : HandleSome(h, unhandled)

RequeueStep(h) == \E i \in Item : Requeue(h, i) \/ RequeueFails(h, i)

WorkerExits == \E w \in Worker : WorkerStops(w) \/ WorkerIdles(w)

Next ==
  \/ Environment \/ Popper \/ DoRun \/ WorkerExits
  \/ \E h \in Handler : HandlerReturns(h) \/ RequeueStep(h)

Spec == Init /\ [][Next]_vars

(***************************************************************************)
(* Fairness.  Every goroutine that can take a step eventually does, and    *)
(* timers fire.  A Go select chooses at random among its ready cases, so a *)
(* case that is ready again and again is eventually chosen: strong         *)
(* fairness for the two selects whose cases compete (doRun's loop, and     *)
(* PopItem's data against its context).  Whether a handler returns, and    *)
(* with what, is the handler's business: HandlersSucceed says that one     *)
(* that is called again and again eventually handles a whole batch.        *)
(***************************************************************************)
Scheduling ==
  /\ WF_vars(Popper) /\ SF_vars(PopFails /\ ctxDone)
  /\ WF_vars(DoRun) /\ SF_vars(RunStop) /\ SF_vars(\E i \in Item : RunReceive(i))
  /\ \A h \in Handler : WF_vars(RequeueStep(h))
  /\ \A w \in Worker : WF_vars(WorkerStops(w))

HandlersSucceed == \A h \in Handler : SF_vars(HandleAll(h))

FairSpec == Spec /\ Scheduling
-----------------------------------------------------------------------------
(***************************************************************************)
(* Safety.                                                                 *)
(***************************************************************************)

(* No item is lost sight of and none is duplicated: the items in the       *)
(* queue's care are exactly those in the base queue, in the popper's hand, *)
(* in doRun's buffer or in some handler's batch, and each is in one of     *)
(* these places, once (popItemByChan, doDispatchBatchToWorker, doFlush and *)
(* doWorkerHandle pass items on without a copy left behind).               *)
InBase(i) == i \in Range(base)
InBatch(i) == \E h \in Handler : i \in batch[h]
NothingLostOrDoubled ==
  /\ \A i \in Item :
       fate[i] = "live" <=> InBase(i) \/ i \in hand \/ i \in wbuf \/ InBatch(i)
  /\ IsInjective(base) /\ \A i, j \in hand : i = j
  /\ \A i \in Item : InBase(i) => i \notin hand /\ i \notin wbuf /\ ~InBatch(i)
  /\ \A i \in hand : i \notin wbuf /\ ~InBatch(i)
  /\ \A i \in wbuf : ~InBatch(i)
  /\ \A g, h \in Handler : g # h => batch[g] \cap batch[h] = {}

(* doRun never waits for a worker that cannot come: while it is blocked on *)
(* batchChan some worker goroutine is left to receive, because             *)
(* doDispatchBatchToWorker starts one when there is none and the last one  *)
(* does not stop when idle (the race its TODO worries about).              *)
BlockedHasWorker ==
  run = "blocked" /\ ~ctxDone => \E w \in Worker : Live(w)

(* A buffered item is never stranded: outside dispatching, a non-empty     *)
(* batch buffer has a running debounce timer (doRun re-arms it only when   *)
(* it is infiniteTimerC, and dispatching leaves the timer as it is).       *)
BufferHasTimer ==
  run = "select" /\ wbuf # {} /\ ~ctxDone => timer

(* While a flush drains the queue in the doRun goroutine no worker runs:   *)
(* items are handled synchronously, one at a time (doFlush).               *)
FlushAlone ==
  run \in {"flushDiscard", "flushDrain", "flushItem"} => \A w \in Worker : ~Live(w)

(* When shutdownDone is closed nothing is left on the fly in the popper or *)
(* in doRun: every item is back in the base queue, with a worker that is   *)
(* still running, or accounted for.                                        *)
StoppedIsEmpty ==
  run = "stopped" => hand = {} /\ wbuf = {} /\ batch[Run] = {} /\ ~popOpen

(* What a flush promises (doFlush admits that it cannot promise more: "no  *)
(* reliable way to make sure all queue items are consumed").  A drain that *)
(* was not cut short by a shutdown or a storage error leaves nothing in    *)
(* the batch buffer, in the doRun goroutine or with a worker, and nothing  *)
(* in a base queue whose Len does not fail; the one item that may be left  *)
(* is the one the popper has taken.                                        *)
FlushLeavesNothing ==
  [][run = "flushDrain" /\ run' = "select" /\ ~ctxDone /\ popOpen
       => \A i \in Item : fate[i] = "live" => i \in hand \/ (BaseMayFail /\ InBase(i))]_vars

(* The queue keeps the promise of QueueContract: an item in a handler that *)
(* runs is being handled, any other item in the queue's care is waiting.   *)
Handled(i) == \E h \in Handler : phase[h] = "handle" /\ i \in batch[h]
Status(i) == IF fate[i] # "live" THEN fate[i]
             ELSE IF Handled(i) THEN "handling" ELSE "waiting"
QueueMode == IF isFlushing THEN "flushing"
             ELSE IF run = "stopped" THEN "stopped"
             ELSE IF run \in StopPc THEN "stopping" ELSE "running"
Contract == INSTANCE QueueContract WITH
  status <- [i \in Item |-> Status(i)], mode <- QueueMode
KeepsContract == Contract!Spec
-----------------------------------------------------------------------------
(***************************************************************************)
(* Liveness.                                                               *)
(***************************************************************************)

(* Unless the queue is shut down, every item it accepted is eventually     *)
(* handled or given up, whatever the batch size, however many workers and  *)
(* however often the handler hands items back (doRun, doWorkerHandle).     *)
EveryItemSettled ==
  HandlersSucceed /\ []~ctxDone => \A i \in Item : fate[i] = "live" ~> fate[i] # "live"

(* "in case some buggy handlers (workers) would hang forever, shutdown     *)
(* should finish in predictable time" (workerqueue.go:27, ShutdownWait):   *)
(* no assumption is made on the handlers.                                  *)
ShutdownFinishes == ctxDone ~> run = "stopped"

(* It does when nobody ever asks for a flush: doRun itself then never      *)
(* calls a handler nor waits for one without a timeout.                    *)
ShutdownFinishesUnlessFlushed == [](asked = "none") => ShutdownFinishes

(***************************************************************************)
(* A claim of the documentation that the code does not keep.               *)
(***************************************************************************)

(* "the queue system ensures these unhandled items are returned to the     *)
(* base queue [...] no item is skipped or lost due to transient failures"  *)
(* (queue.go:26-29): no item is given up because its batch failed.         *)
NoItemLostByFailure == \A i \in Item : fate[i] # "flush"
=============================================================================
