------------------------------- MODULE BaseRedis -------------------------------
(***************************************************************************)
(* modules/queue/base_redis.go: a unique base queue shared by the nodes of *)
(* a cluster, as a Redis list (the queue) and a Redis set (its members).   *)
(* Each Redis command is atomic; an operation is several commands.  The    *)
(* mutex of baseRedis makes the operations of one node exclude each other  *)
(* and says nothing about the other nodes, so a node is here one sequence  *)
(* of operations and the nodes interleave between commands.                *)
(* A command may fail (an error, a cancelled context, the node is killed): *)
(* Redis then executed it or not, and the node does not learn which.       *)
(***************************************************************************)
EXTENDS Integers, Sequences, FiniteSets, Functions

CONSTANTS
  Item,    \* distinct item values (their JSON)
  Node,    \* Gitea processes sharing the Redis server
  Length,  \* cfg.Length
  None     \* no item

ASSUME RedisAssumption ==
  /\ Length \in Nat \ {0}
  /\ IsFiniteSet(Node) /\ Node # {}
  /\ None \notin Item

VARIABLES
  list,     \* the list QueueFullName
  set,      \* the set SetFullName
  pc,       \* the command each node issues next
  arg,      \* the item of the operation a node is in
  owed,     \* items whose last push was acknowledged and that were not
            \* popped or removed since
  lost,     \* items that a failed command took from the list, or whose
            \* member it left in the set, until they are removed or stored
            \* again
  cleared   \* some RemoveAll has started

vars == <<list, set, pc, arg, owed, lost, cleared>>

Init ==
  /\ list = <<>> /\ set = {}
  /\ pc = [n \in Node |-> "idle"] /\ arg = [n \in Node |-> None]
  /\ owed = {} /\ lost = {} /\ cleared = FALSE

At(n, l) == pc[n] = l
Goto(n, l, x) == pc' = [pc EXCEPT ![n] = l] /\ arg' = [arg EXCEPT ![n] = x]
Return(n) == Goto(n, "idle", None)
Doing(l, x) == \E n \in Node : At(n, l) /\ arg[n] = x
-----------------------------------------------------------------------------
(* Mutant: the length is not tested.                                       *)
PushUnchecked(n, x) ==
  /\ At(n, "idle")
  /\ Goto(n, "SADD", x)
  /\ UNCHANGED <<list, set, owed, lost, cleared>>

(* PushItem: LLEN; a full list is retried and then refused, which changes  *)
(* nothing.                                                                *)
PushLLen(n, x) ==
  /\ At(n, "idle") /\ Len(list) < Length
  /\ Goto(n, "SADD", x)
  /\ UNCHANGED <<list, set, owed, lost, cleared>>

(* Mutant: the reply of SADD is not looked at.                             *)
PushSAddBlindly(n) ==
  /\ At(n, "SADD")
  /\ Goto(n, "RPUSH", arg[n])
  /\ set' = set \cup {arg[n]}
  /\ UNCHANGED <<list, owed, lost, cleared>>

(* SADD returns 0 for a member: ErrAlreadyInQueue, which callers take for  *)
(* success.                                                                *)
PushSAdd(n) ==
  /\ At(n, "SADD")
  /\ IF arg[n] \in set
     THEN /\ Return(n)
          /\ owed' = owed \cup {arg[n]}
          /\ UNCHANGED <<set, lost>>
     ELSE /\ Goto(n, "RPUSH", arg[n])
          /\ set' = set \cup {arg[n]}
          /\ lost' = lost \ {arg[n]}
          /\ UNCHANGED owed
  /\ UNCHANGED <<list, cleared>>

(* Mutant: the length is tested again, and the member stays in the set.    *)
PushRPushRefused(n) ==
  /\ At(n, "RPUSH")
  /\ IF Len(list) < Length
     THEN list' = Append(list, arg[n]) /\ owed' = owed \cup {arg[n]}
     ELSE UNCHANGED <<list, owed>>
  /\ Return(n)
  /\ UNCHANGED <<set, lost, cleared>>

PushRPush(n) ==
  /\ At(n, "RPUSH")
  /\ list' = Append(list, arg[n])
  /\ owed' = owed \cup {arg[n]}
  /\ Return(n)
  /\ UNCHANGED <<set, lost, cleared>>

(* Mutant: redis.Nil is taken for data.                                    *)
PopNil(n) ==
  /\ At(n, "idle")
  /\ IF list = <<>> THEN Goto(n, "SREM", None) /\ UNCHANGED list
                    ELSE Goto(n, "SREM", Head(list)) /\ list' = Tail(list)
  /\ UNCHANGED <<set, owed, lost, cleared>>

(* PopItem: LPOP (an empty list is polled again), SREM, return the item.   *)
PopLPop(n) ==
  /\ At(n, "idle") /\ list # <<>>
  /\ Goto(n, "SREM", Head(list))
  /\ list' = Tail(list)
  /\ UNCHANGED <<set, owed, lost, cleared>>

(* Mutant: the member is left in the set.                                  *)
PopKeepsMember(n) ==
  /\ At(n, "SREM")
  /\ owed' = owed \ {arg[n]}
  /\ Return(n)
  /\ UNCHANGED <<list, set, lost, cleared>>

PopSRem(n) ==
  /\ At(n, "SREM")
  /\ set' = set \ {arg[n]}
  /\ owed' = owed \ {arg[n]} /\ lost' = lost \ {arg[n]}
  /\ Return(n)
  /\ UNCHANGED <<list, cleared>>

(* RemoveAll: DEL the list, then DEL the set.                              *)
RemoveDelList(n) ==
  /\ At(n, "idle")
  /\ list' = <<>> /\ cleared' = TRUE
  /\ Goto(n, "DEL", None)
  /\ UNCHANGED <<set, owed, lost>>

RemoveDelSet(n) ==
  /\ At(n, "DEL")
  /\ set' = {}
  /\ owed' = owed \cap Range(list) /\ lost' = {}
  /\ Return(n)
  /\ UNCHANGED <<list, cleared>>

-----------------------------------------------------------------------------
(* Commands that fail.  PushItem returns the error; the member SADD has    *)
(* added, perhaps unknown to the node, is not taken back.                  *)
PushSAddFails(n) ==
  /\ At(n, "SADD")
  /\ Return(n)
  /\ \/ UNCHANGED <<set, lost>>
     \/ set' = set \cup {arg[n]} /\ lost' = lost \cup ({arg[n]} \ set)
  /\ UNCHANGED <<list, owed, cleared>>

PushRPushFails(n) ==
  /\ At(n, "RPUSH")
  /\ Return(n)
  /\ \/ UNCHANGED list /\ lost' = lost \cup {arg[n]}
     \/ list' = Append(list, arg[n]) /\ UNCHANGED lost
  /\ UNCHANGED <<set, owed, cleared>>

(* PopItem polls again, whatever LPOP did.                                 *)
PopLPopFails(n) ==
  /\ At(n, "idle") /\ list # <<>>
  /\ list' = Tail(list)
  /\ lost' = lost \cup {Head(list)}
  /\ UNCHANGED <<set, pc, arg, owed, cleared>>

(* Its error is ignored: the item is delivered, unless the node is killed. *)
PopSRemFails(n) ==
  /\ At(n, "SREM")
  /\ Return(n)
  /\ owed' \in {owed, owed \ {arg[n]}}
  /\ lost' = lost \cup {arg[n]}
  /\ UNCHANGED <<list, set, cleared>>

(* The second DEL follows even if the first one failed.                    *)
RemoveDelListFails(n) ==
  /\ At(n, "idle")
  /\ cleared' = TRUE
  /\ Goto(n, "DEL", None)
  /\ UNCHANGED <<list, set, owed, lost>>

RemoveDelSetFails(n) ==
  /\ At(n, "DEL")
  /\ Return(n)
  /\ owed' = owed \cap Range(list)
  /\ lost' = lost \cup (set \ Range(list))
  /\ UNCHANGED <<list, set, cleared>>

Commands(n) ==
  \/ \E x \in Item : PushLLen(n, x)
  \/ PushSAdd(n) \/ PushRPush(n) \/ PopLPop(n) \/ PopSRem(n)
  \/ RemoveDelList(n) \/ RemoveDelSet(n)

Failures(n) ==
  \/ PushSAddFails(n) \/ PushRPushFails(n) \/ PopLPopFails(n) \/ PopSRemFails(n)
  \/ RemoveDelListFails(n) \/ RemoveDelSetFails(n)

NodeStep(n) == Commands(n) \/ Failures(n)

Next == \E n \in Node : NodeStep(n)

Spec == Init /\ [][Next]_vars
-----------------------------------------------------------------------------
TypeOK ==
  /\ list \in Seq(Item) /\ set \subseteq Item /\ owed \subseteq Item /\ lost \subseteq Item
  /\ cleared \in BOOLEAN
  /\ pc \in [Node -> {"idle", "SADD", "RPUSH", "SREM", "DEL"}]
  /\ arg \in [Node -> Item \cup {None}]
  /\ \A n \in Node : pc[n] \in {"SADD", "RPUSH", "SREM"} => arg[n] \in Item

(* The set never holds a stale member, which would refuse an item for ever *)
(* with ErrAlreadyInQueue: a member is in the list, or an operation that   *)
(* will add it there or take it out of the set is under way (the order of  *)
(* the two commands of PushItem, of PopItem and of RemoveAll).  Only a     *)
(* command that failed leaves one, and the RemoveAll that ends next        *)
(* removes it.                                                             *)
EntryIsBacked ==
  \A x \in set \ lost :
    \/ x \in Range(list) \/ Doing("RPUSH", x) \/ Doing("SREM", x)
    \/ \E n \in Node : At(n, "DEL")

(* No wake-up is lost: an item whose push was acknowledged, by success or  *)
(* by ErrAlreadyInQueue, is still to be delivered (stored, or about to be  *)
(* stored or delivered by some node), until it was delivered after that    *)
(* push, a RemoveAll took it or a command on it failed.  This is what      *)
(* every caller relies on that ignores ErrAlreadyInQueue, such as          *)
(* EmitJobsIfReadyByRun.                                                   *)
AcknowledgedIsDelivered ==
  \A x \in owed \ lost :
    \/ x \in Range(list) \/ Doing("RPUSH", x) \/ Doing("SREM", x)
    \/ \E n \in Node : At(n, "DEL")

(* Without a RemoveAll, a unique queue stores an item once and Has never   *)
(* denies a stored item ("better to have duplicate items than losing       *)
(* items", base_redis.go:129, is the price of RemoveAll only).             *)
UniqueUnlessCleared ==
  ~cleared => IsInjective(list) /\ Range(list) \subseteq set

(* The capacity is exceeded by at most one item for every other node: the  *)
(* length read under one node's mutex is stale by what the others append.  *)
BoundedOverflow == Len(list) <= Length + Cardinality(Node) - 1
=============================================================================
