------------------------------ MODULE BaseChannel ------------------------------
(***************************************************************************)
(* modules/queue/base_channel.go: the unique in-memory base queue, a Go    *)
(* channel of capacity Length and a set of its members guarded by mu.  mu  *)
(* is not held while an item goes through the channel, so an operation is  *)
(* several steps.  One goroutine pops (popItemByChan); any number push;    *)
(* an administrator may remove all items.                                  *)
(***************************************************************************)
EXTENDS Integers, Sequences, FiniteSets, Functions

CONSTANTS
  Item,    \* distinct item values (their JSON)
  Pusher,  \* goroutines that push
  Length,  \* cfg.Length
  None     \* no item

VARIABLES
  c,       \* the channel's buffer
  set,     \* the set
  muHeld,  \* RemoveAll holds mu (the others hold it within one step)
  pc,      \* where each pusher is
  arg,     \* the item each pusher pushes
  popped,  \* the item PopItem has received and not removed from the set, or None
  admin,   \* where RemoveAll is
  owed     \* items whose last push was acknowledged and that were not
           \* popped or removed since

vars == <<c, set, muHeld, pc, arg, popped, admin, owed>>

Init ==
  /\ c = <<>> /\ set = {} /\ muHeld = FALSE
  /\ pc = [p \in Pusher |-> "idle"] /\ arg = [p \in Pusher |-> None]
  /\ popped = None /\ admin = "idle" /\ owed = {}

At(p, l) == pc[p] = l
Goto(p, l, x) == pc' = [pc EXCEPT ![p] = l] /\ arg' = [arg EXCEPT ![p] = x]
Return(p) == Goto(p, "idle", None)
-----------------------------------------------------------------------------
(* PushItem: the uniqueness check under mu ...                             *)
PushCheck(p, x) ==
  /\ At(p, "idle") /\ ~muHeld
  /\ IF x \in set
     THEN /\ owed' = owed \cup {x}    \* ErrAlreadyInQueue
          /\ UNCHANGED <<pc, arg>>
     ELSE Goto(p, "send", x) /\ UNCHANGED owed
  /\ UNCHANGED <<c, set, muHeld, popped, admin>>

(* ... the send into the channel ...                                       *)
PushSend(p) ==
  /\ At(p, "send") /\ Len(c) < Length
  /\ c' = Append(c, arg[p])
  /\ owed' = owed \cup {arg[p]}
  /\ Goto(p, "add", arg[p])
  /\ UNCHANGED <<set, muHeld, popped, admin>>

(* ... given up after pushBlockTime ...                                    *)
PushTimeout(p) ==
  /\ At(p, "send") /\ Len(c) = Length
  /\ Return(p)
  /\ UNCHANGED <<c, set, muHeld, popped, admin, owed>>

(* ... and only then the entry in the set, under mu again.                 *)
PushAdd(p) ==
  /\ At(p, "add") /\ ~muHeld
  /\ set' = set \cup {arg[p]}
  /\ Return(p)
  /\ UNCHANGED <<c, muHeld, popped, admin, owed>>

PopReceive ==
  /\ popped = None /\ c # <<>>
  /\ popped' = Head(c) /\ c' = Tail(c)
  /\ UNCHANGED <<set, muHeld, pc, arg, admin, owed>>

PopRemove ==
  /\ popped # None /\ ~muHeld
  /\ set' = set \ {popped}
  /\ owed' = owed \ {popped}
  /\ popped' = None
  /\ UNCHANGED <<c, muHeld, pc, arg, admin>>

(* RemoveAll: mu is held from beginning to end; "for len(q.c) > 0" and the *)
(* receive are two steps.                                                  *)
RemoveLock ==
  /\ admin = "idle" /\ ~muHeld
  /\ muHeld' = TRUE /\ admin' = "loop"
  /\ UNCHANGED <<c, set, pc, arg, popped, owed>>

RemoveTest ==
  /\ admin = "loop" /\ c # <<>>
  /\ admin' = "receive"
  /\ UNCHANGED <<c, set, muHeld, pc, arg, popped, owed>>

RemoveReceive ==
  /\ admin = "receive" /\ c # <<>>
  /\ c' = Tail(c) /\ admin' = "loop"
  /\ UNCHANGED <<set, muHeld, pc, arg, popped, owed>>

RemoveEnd ==
  /\ admin = "loop" /\ c = <<>>
  /\ set' = {} /\ owed' = {} /\ muHeld' = FALSE /\ admin' = "idle"
  /\ UNCHANGED <<c, pc, arg, popped>>

Next ==
  \/ \E p \in Pusher :
       \/ \E x \in Item : PushCheck(p, x)
       \/ PushSend(p) \/ PushTimeout(p) \/ PushAdd(p)
  \/ PopReceive \/ PopRemove
  \/ RemoveLock \/ RemoveTest \/ RemoveReceive \/ RemoveEnd

Spec == Init /\ [][Next]_vars

(***************************************************************************)
(* Every goroutine that can run does, and a Go mutex starves nobody:       *)
(* strong fairness for the steps that wait for mu.                         *)
(***************************************************************************)
FairSpec ==
  /\ Spec
  /\ \A p \in Pusher :
       WF_vars(PushSend(p) \/ PushTimeout(p)) /\ SF_vars(PushAdd(p))
  /\ WF_vars(PopReceive) /\ SF_vars(PopRemove)
  /\ WF_vars(RemoveTest \/ RemoveReceive \/ RemoveEnd)
-----------------------------------------------------------------------------
(* What the callers that ignore ErrAlreadyInQueue rely on, and base_redis  *)
(* keeps: an item whose push was acknowledged is still stored, or about to *)
(* be returned by PopItem, until that happened after the push.             *)
AcknowledgedIsStored ==
  \A x \in owed : x \in Range(c) \/ popped = x \/ admin # "idle"

(* "Its "Push" function doesn't block forever, it will return an error if  *)
(* the queue is full after the timeout" (queue.go:42): a goroutine in      *)
(* PushItem returns.  RemoveAll receives from the channel with mu held.    *)
PushReturns == \A p \in Pusher : ~At(p, "idle") ~> At(p, "idle")
=============================================================================
