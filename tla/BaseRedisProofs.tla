---------------------------- MODULE BaseRedisProofs ----------------------------
(***************************************************************************)
(* Proofs about BaseRedis: for any number of nodes, any items and any      *)
(* capacity, what the interleaving of the nodes' commands preserves.       *)
(***************************************************************************)
EXTENDS BaseRedis, RangeLemmas, FiniteSetTheorems

(* The variables keep their types, and an operation between its commands   *)
(* holds an item (PushItem, PopItem).                                      *)
THEOREM TypeCorrect == Spec => []TypeOK
<1>1. Init => TypeOK
  <2> SUFFICES ASSUME Init PROVE TypeOK
    OBVIOUS
  <2>1. list \in Seq(Item)
    BY DEF Init
  <2>2. \A n \in Node : pc[n] = "idle" /\ arg[n] = None
    BY DEF Init
  <2> QED BY <2>1, <2>2 DEF Init, TypeOK
<1>2. TypeOK /\ [Next]_vars => TypeOK'
  <2> SUFFICES ASSUME TypeOK, [Next]_vars PROVE TypeOK'
    OBVIOUS
  <2> USE DEF TypeOK, At, Goto, Return
  <2>1. ASSUME NEW n \in Node, NEW x \in Item, PushLLen(n, x) PROVE TypeOK'
    BY <2>1 DEF PushLLen
  <2>2. ASSUME NEW n \in Node, PushSAdd(n) PROVE TypeOK'
    <3>1. arg[n] \in Item
      BY <2>2 DEF PushSAdd
    <3> QED BY <2>2, <3>1 DEF PushSAdd
  <2>3. ASSUME NEW n \in Node, PushRPush(n) PROVE TypeOK'
    <3>1. arg[n] \in Item
      BY <2>3 DEF PushRPush
    <3> QED BY <2>3, <3>1 DEF PushRPush
  <2>4. ASSUME NEW n \in Node, PopLPop(n) PROVE TypeOK'
    BY <2>4, RangeTail DEF PopLPop
  <2>5. ASSUME NEW n \in Node, PopSRem(n) PROVE TypeOK'
    BY <2>5 DEF PopSRem
  <2>6. ASSUME NEW n \in Node, RemoveDelList(n) PROVE TypeOK'
    BY <2>6 DEF RemoveDelList
  <2>7. ASSUME NEW n \in Node, RemoveDelSet(n) PROVE TypeOK'
    BY <2>7 DEF RemoveDelSet
  <2>8. ASSUME NEW n \in Node, PushRPushFails(n) PROVE TypeOK'
    <3>1. arg[n] \in Item
      BY <2>8 DEF PushRPushFails
    <3> QED BY <2>8, <3>1 DEF PushRPushFails
  <2>9. ASSUME NEW n \in Node, PopLPopFails(n) PROVE TypeOK'
    BY <2>9, RangeTail DEF PopLPopFails
  <2>10. ASSUME NEW n \in Node,
                PushSAddFails(n) \/ PopSRemFails(n) \/ RemoveDelListFails(n) \/ RemoveDelSetFails(n)
         PROVE  TypeOK'
    BY <2>10 DEF PushSAddFails, PopSRemFails, RemoveDelListFails, RemoveDelSetFails
  <2>11. CASE UNCHANGED vars
    BY <2>11 DEF vars
  <2> QED BY <2>1, <2>2, <2>3, <2>4, <2>5, <2>6, <2>7, <2>8, <2>9, <2>10, <2>11
             DEF Next, NodeStep, Commands, Failures
<1> QED BY <1>1, <1>2, PTL DEF Spec

-----------------------------------------------------------------------------
(***************************************************************************)
(* What backs a member of the set and an acknowledged item is the same.    *)
(***************************************************************************)
Backed(x) ==
  \/ x \in Range(list) \/ Doing("RPUSH", x) \/ Doing("SREM", x)
  \/ \E n \in Node : At(n, "DEL")
Known(x) == x \in lost \/ Backed(x)

(* A step takes the backing from an item only by failing, or by removing   *)
(* the item from the set and from the owed items too, whichever node takes *)
(* the step; and only such a step, or one that backs it, ends what a       *)
(* failure has left.                                                       *)
LEMMA BackingLost ==
  ASSUME TypeOK, TypeOK', [Next]_vars, NEW x \in Item, Known(x)
  PROVE  Known(x)' \/ (x \notin set' /\ x \notin owed')
<1> USE DEF TypeOK, Known, Backed, Doing, At, Goto, Return
<1>1. ASSUME NEW n \in Node, NEW y \in Item, PushLLen(n, y) PROVE Known(x)'
  BY <1>1 DEF PushLLen
<1>2. ASSUME NEW n \in Node, PushSAdd(n) PROVE Known(x)'
  BY <1>2 DEF PushSAdd
<1>3. ASSUME NEW n \in Node, PushRPush(n) PROVE Known(x)'
  <2>1. arg[n] \in Item /\ list' = Append(list, arg[n])
    BY <1>3 DEF PushRPush
  <2>2. Range(list') = Range(list) \cup {arg[n]}
    BY <2>1, RangeAppend
  <2> QED BY <1>3, <2>2 DEF PushRPush
<1>4. ASSUME NEW n \in Node, PopLPop(n) PROVE Known(x)'
  <2>1. list # <<>> /\ list' = Tail(list)
    BY <1>4 DEF PopLPop
  <2>2. Range(list) = {Head(list)} \cup Range(list')
    BY <2>1, RangeTail
  <2> QED BY <1>4, <2>2 DEF PopLPop
<1>5. ASSUME NEW n \in Node, PopSRem(n)
      PROVE Known(x)' \/ (x \notin set' /\ x \notin owed')
  BY <1>5 DEF PopSRem
<1>6. ASSUME NEW n \in Node, RemoveDelList(n) PROVE Known(x)'
  BY <1>6 DEF RemoveDelList
<1>7. ASSUME NEW n \in Node, RemoveDelSet(n)
      PROVE Known(x)' \/ (x \notin set' /\ x \notin owed')
  BY <1>7 DEF RemoveDelSet
<1>8. ASSUME NEW n \in Node, PushRPushFails(n) PROVE Known(x)'
  <2>1. CASE UNCHANGED list /\ lost' = lost \cup {arg[n]}
    BY <1>8, <2>1 DEF PushRPushFails
  <2>2. CASE list' = Append(list, arg[n]) /\ UNCHANGED lost
    <3>1. arg[n] \in Item
      BY <1>8 DEF PushRPushFails
    <3>2. Range(list') = Range(list) \cup {arg[n]}
      BY <2>2, <3>1, RangeAppend
    <3> QED BY <1>8, <2>2, <3>2 DEF PushRPushFails
  <2> QED BY <1>8, <2>1, <2>2 DEF PushRPushFails
<1>9. ASSUME NEW n \in Node, PopLPopFails(n) PROVE Known(x)'
  <2>1. list # <<>> /\ list' = Tail(list) /\ lost' = lost \cup {Head(list)}
    BY <1>9 DEF PopLPopFails
  <2>2. Range(list) = {Head(list)} \cup Range(list')
    BY <2>1, RangeTail
  <2> QED BY <1>9, <2>1, <2>2 DEF PopLPopFails
<1>10. ASSUME NEW n \in Node, PushSAddFails(n) \/ PopSRemFails(n) \/ RemoveDelListFails(n)
       PROVE  Known(x)'
  BY <1>10 DEF PushSAddFails, PopSRemFails, RemoveDelListFails
<1>11. ASSUME NEW n \in Node, RemoveDelSetFails(n)
       PROVE  Known(x)' \/ (x \notin set' /\ x \notin owed')
  BY <1>11 DEF RemoveDelSetFails
<1>12. CASE UNCHANGED vars
  BY <1>12 DEF vars
<1> QED BY <1>1, <1>2, <1>3, <1>4, <1>5, <1>6, <1>7, <1>8, <1>9, <1>10, <1>11, <1>12
           DEF Next, NodeStep, Commands, Failures

(* Only SADD puts a member into the set; the list follows, or SADD was     *)
(* thought to have failed (PushItem).                                      *)
LEMMA NewMemberBacked ==
  ASSUME TypeOK, TypeOK', [Next]_vars, NEW x \in set', x \notin set
  PROVE  Known(x)'
<1> USE DEF TypeOK, Known, Backed, Doing, At, Goto, Return
<1>1. PICK n \in Node : PushSAdd(n) \/ PushSAddFails(n)
  BY DEF Next, NodeStep, Commands, Failures, vars, PushLLen, PushRPush, PopLPop, PopSRem,
         RemoveDelList, RemoveDelSet, PushRPushFails, PopLPopFails, PopSRemFails,
         RemoveDelListFails, RemoveDelSetFails
<1>2. CASE PushSAdd(n)
  <2>1. arg[n] = x /\ pc'[n] = "RPUSH" /\ arg'[n] = x
    BY <1>2 DEF PushSAdd
  <2> QED BY <2>1
<1>3. CASE PushSAddFails(n)
  BY <1>3 DEF PushSAddFails
<1> QED BY <1>1, <1>2, <1>3

(* No member of the set is stale, so that no item is refused for ever,     *)
(* unless a command failed (PushItem, PopItem, RemoveAll).                 *)
THEOREM NoStaleMember == Spec => []EntryIsBacked
<1>1. Init => EntryIsBacked
  BY DEF Init, EntryIsBacked
<1>2. TypeOK /\ TypeOK' /\ EntryIsBacked /\ [Next]_vars => EntryIsBacked'
  <2> SUFFICES ASSUME TypeOK, TypeOK', EntryIsBacked, [Next]_vars, NEW x \in set'
               PROVE  Known(x)'
    BY DEF EntryIsBacked, Known, Backed
  <2>1. CASE x \in set
    <3>1. Known(x) /\ x \in Item
      BY <2>1 DEF EntryIsBacked, Known, Backed, TypeOK
    <3> QED BY <3>1, BackingLost
  <2>2. CASE x \notin set
    BY <2>2, NewMemberBacked
  <2> QED BY <2>1, <2>2
<1> QED BY <1>1, <1>2, TypeCorrect, PTL DEF Spec

(* Every acknowledged push is followed by a delivery of its item, by a     *)
(* RemoveAll or by a failed command on it: an acknowledged item stays      *)
(* backed (the callers of Push that ignore ErrAlreadyInQueue).  It rests   *)
(* on NoStaleMember: the refusal of a member is an acknowledgement.        *)
THEOREM NoLostWakeup == Spec => []AcknowledgedIsDelivered
<1>1. Init => AcknowledgedIsDelivered
  BY DEF Init, AcknowledgedIsDelivered
<1>2. TypeOK /\ TypeOK' /\ EntryIsBacked /\ AcknowledgedIsDelivered /\ [Next]_vars
        => AcknowledgedIsDelivered'
  <2> SUFFICES ASSUME TypeOK, TypeOK', EntryIsBacked, AcknowledgedIsDelivered,
                      [Next]_vars, NEW x \in owed'
               PROVE  Known(x)'
    BY DEF AcknowledgedIsDelivered, Known, Backed
  <2>1. CASE x \in owed
    <3>1. Known(x) /\ x \in Item
      BY <2>1 DEF AcknowledgedIsDelivered, Known, Backed, TypeOK
    <3> QED BY <3>1, BackingLost
  <2>2. CASE x \notin owed
    <3>1. \E n \in Node : PushSAdd(n) \/ PushRPush(n)
      BY <2>2 DEF Next, NodeStep, Commands, Failures, vars, PushLLen, PopLPop, PopSRem,
                  RemoveDelList, RemoveDelSet, PushSAddFails, PushRPushFails, PopLPopFails,
                  PopSRemFails, RemoveDelListFails, RemoveDelSetFails
    <3>2. ASSUME NEW n \in Node, PushSAdd(n) PROVE Known(x)'
      <4>1. x \in set /\ UNCHANGED <<set, list>>
        BY <2>2, <3>2 DEF PushSAdd
      <4>2. Known(x) /\ x \in Item
        BY <4>1 DEF EntryIsBacked, Known, Backed, TypeOK
      <4> QED BY <4>1, <4>2, BackingLost
    <3>3. ASSUME NEW n \in Node, PushRPush(n) PROVE Known(x)'
      <4>1. x = arg[n] /\ list' = Append(list, x) /\ x \in Item
        BY <2>2, <3>3 DEF PushRPush, TypeOK, At
      <4>2. Range(list') = Range(list) \cup {x}
        BY <4>1, RangeAppend DEF TypeOK
      <4> QED BY <4>2 DEF Known, Backed
    <3> QED BY <3>1, <3>2, <3>3
  <2> QED BY <2>1, <2>2
<1> QED BY <1>1, <1>2, TypeCorrect, NoStaleMember, PTL DEF Spec
-----------------------------------------------------------------------------
(***************************************************************************)
(* Uniqueness without RemoveAll.  Inductively, the items in the list and   *)
(* those between two commands of a push or a pop are all different, and    *)
(* all of them are members of the set.                                     *)
(***************************************************************************)
InTransit(n) == At(n, "RPUSH") \/ At(n, "SREM")
UniqueInv ==
  ~cleared =>
    /\ IsInjective(list) /\ Range(list) \subseteq set
    /\ \A n \in Node : ~At(n, "DEL")
    /\ \A n \in Node : InTransit(n) => arg[n] \in set /\ arg[n] \notin Range(list)
    /\ \A m, n \in Node : InTransit(m) /\ InTransit(n) /\ arg[m] = arg[n] => m = n

(* The inductive step: SADD's answer and the order of the commands.        *)
LEMMA UniqueStep == TypeOK /\ UniqueInv /\ [Next]_vars => UniqueInv'
<1> SUFFICES ASSUME TypeOK, UniqueInv, [Next]_vars, ~cleared' PROVE UniqueInv'
  BY DEF UniqueInv
<1> USE DEF TypeOK, UniqueInv, InTransit, At, Goto, Return
<1>1. ASSUME NEW n \in Node, NEW y \in Item, PushLLen(n, y) PROVE UniqueInv'
  BY <1>1 DEF PushLLen
<1>2. ASSUME NEW n \in Node, PushSAdd(n) PROVE UniqueInv'
  BY <1>2 DEF PushSAdd
<1>3. ASSUME NEW n \in Node, PushRPush(n) PROVE UniqueInv'
  <2>1. /\ arg[n] \in Item /\ list' = Append(list, arg[n]) /\ ~cleared /\ pc[n] = "RPUSH"
        /\ set' = set /\ pc' = [pc EXCEPT ![n] = "idle"] /\ arg' = [arg EXCEPT ![n] = None]
    BY <1>3 DEF PushRPush
  <2>2. Range(list') = Range(list) \cup {arg[n]}
    BY <2>1, RangeAppend
  <2>3. IsInjective(list')
    BY <2>1, InjectiveAppend
  <2>4. \A m \in Node : InTransit(m)' => m # n /\ InTransit(m) /\ arg'[m] = arg[m]
    BY <2>1
  <2>5. Range(list') \subseteq set' /\ \A m \in Node : ~At(m, "DEL")'
    BY <2>1, <2>2
  <2> QED BY <2>1, <2>2, <2>3, <2>4, <2>5
<1>4. ASSUME NEW n \in Node, PopLPop(n) PROVE UniqueInv'
  <2>1. /\ list # <<>> /\ list' = Tail(list) /\ ~cleared /\ pc[n] = "idle"
        /\ pc' = [pc EXCEPT ![n] = "SREM"] /\ arg' = [arg EXCEPT ![n] = Head(list)]
        /\ set' = set
    BY <1>4 DEF PopLPop
  <2>2. Range(list) = {Head(list)} \cup Range(list')
    BY <2>1, RangeTail
  <2>3. IsInjective(list') /\ Head(list) \notin Range(list')
    BY <2>1, InjectiveTail
  <2>4. \A m \in Node : InTransit(m)' =>
           \/ m = n /\ arg'[m] = Head(list)
           \/ m # n /\ InTransit(m) /\ arg'[m] = arg[m] /\ arg[m] # Head(list)
    BY <2>1, <2>2
  <2>5. Range(list') \subseteq set' /\ \A m \in Node : ~At(m, "DEL")'
    BY <2>1, <2>2
  <2> QED BY <2>1, <2>2, <2>3, <2>4, <2>5
<1>5. ASSUME NEW n \in Node, PopSRem(n) PROVE UniqueInv'
  BY <1>5 DEF PopSRem
<1>6. ASSUME NEW n \in Node, RemoveDelList(n) PROVE FALSE
  BY <1>6 DEF RemoveDelList
<1>7. ASSUME NEW n \in Node, RemoveDelSet(n) PROVE FALSE
  BY <1>7 DEF RemoveDelSet
<1>8. ASSUME NEW n \in Node, PushRPushFails(n) PROVE UniqueInv'
  <2>1. /\ arg[n] \in Item /\ ~cleared /\ pc[n] = "RPUSH"
        /\ set' = set /\ pc' = [pc EXCEPT ![n] = "idle"] /\ arg' = [arg EXCEPT ![n] = None]
    BY <1>8 DEF PushRPushFails
  <2>2. \A m \in Node : InTransit(m)' => m # n /\ InTransit(m) /\ arg'[m] = arg[m]
    BY <2>1
  <2>3. CASE list' = list
    BY <2>1, <2>2, <2>3
  <2>4. CASE list' = Append(list, arg[n])
    <3>1. Range(list') = Range(list) \cup {arg[n]}
      BY <2>1, <2>4, RangeAppend
    <3>2. IsInjective(list')
      BY <2>1, <2>4, InjectiveAppend
    <3>3. Range(list') \subseteq set' /\ \A m \in Node : ~At(m, "DEL")'
      BY <2>1, <3>1
    <3> QED BY <2>1, <2>2, <3>1, <3>2, <3>3
  <2> QED BY <1>8, <2>3, <2>4 DEF PushRPushFails
<1>9. ASSUME NEW n \in Node, PopLPopFails(n) PROVE UniqueInv'
  <2>1. /\ list # <<>> /\ list' = Tail(list) /\ ~cleared /\ UNCHANGED <<set, pc, arg>>
    BY <1>9 DEF PopLPopFails
  <2>2. Range(list) = {Head(list)} \cup Range(list')
    BY <2>1, RangeTail
  <2>3. IsInjective(list')
    BY <2>1, InjectiveTail
  <2> QED BY <2>1, <2>2, <2>3
<1>10. ASSUME NEW n \in Node, PushSAddFails(n) \/ PopSRemFails(n) PROVE UniqueInv'
  BY <1>10 DEF PushSAddFails, PopSRemFails
<1>11. ASSUME NEW n \in Node, RemoveDelListFails(n) \/ RemoveDelSetFails(n) PROVE FALSE
  BY <1>11 DEF RemoveDelListFails, RemoveDelSetFails
<1>12. CASE UNCHANGED vars
  BY <1>12 DEF vars
<1> QED BY <1>1, <1>2, <1>3, <1>4, <1>5, <1>6, <1>7, <1>8, <1>9, <1>10, <1>11, <1>12
           DEF Next, NodeStep, Commands, Failures

(* A unique queue nobody cleared stores an item at most once, and Has      *)
(* knows every stored item (PushItem, PopItem, HasItem).                   *)
THEOREM Unique == Spec => []UniqueUnlessCleared
<1>1. Init => UniqueInv
  BY RangeEmpty DEF Init, UniqueInv, InTransit, At
<1>2. UniqueInv => UniqueUnlessCleared
  BY DEF UniqueInv, UniqueUnlessCleared
<1> QED BY <1>1, <1>2, UniqueStep, TypeCorrect, PTL DEF Spec

-----------------------------------------------------------------------------
(***************************************************************************)
(* Capacity.  A node between LLEN and RPUSH may still append: the length   *)
(* plus the number of such nodes stays below Length + |Node|.              *)
(***************************************************************************)
Appending == {n \in Node : pc[n] \in {"SADD", "RPUSH"}}
BoundInv == Len(list) + Cardinality(Appending) <= Length + Cardinality(Node) - 1

(* A node that starts appending was not counted, so the count was below    *)
(* the number of nodes (PushItem's LLEN).                                  *)
LEMMA JoinCount ==
  ASSUME NEW A \in SUBSET Node, NEW n \in Node \ A
  PROVE  /\ Cardinality(A) \in Nat /\ Cardinality(A) <= Cardinality(Node) - 1
         /\ Cardinality(A \cup {n}) = Cardinality(A) + 1
<1>1. A \subseteq Node \ {n} /\ IsFiniteSet(Node) /\ IsFiniteSet(A)
  BY RedisAssumption, FS_Subset
<1>2. IsFiniteSet(Node \ {n}) /\ Cardinality(Node \ {n}) = Cardinality(Node) - 1
  BY <1>1, FS_RemoveElement
<1>3. Cardinality(A) <= Cardinality(Node \ {n})
  BY <1>1, <1>2, FS_Subset
<1>4. Cardinality(A \cup {n}) = Cardinality(A) + 1 /\ Cardinality(A) \in Nat
  BY <1>1, FS_AddElement, FS_CardinalityType
<1> QED BY <1>2, <1>3, <1>4

(* A node that ends an operation, or was not appending, adds nothing       *)
(* (PushItem's RPUSH and the refusal by SADD).                             *)
LEMMA LeaveCount ==
  ASSUME NEW A \in SUBSET Node, NEW n \in Node
  PROVE  /\ Cardinality(A) \in Nat /\ Cardinality(A \ {n}) \in Nat
         /\ Cardinality(A \ {n}) <= Cardinality(A)
         /\ n \in A => Cardinality(A \ {n}) = Cardinality(A) - 1
<1>1. IsFiniteSet(A) /\ IsFiniteSet(A \ {n})
  BY RedisAssumption, FS_Subset
<1>2. Cardinality(A) \in Nat /\ Cardinality(A \ {n}) \in Nat
  BY <1>1, FS_CardinalityType
<1>3. n \in A => Cardinality(A \ {n}) = Cardinality(A) - 1
  BY <1>1, FS_RemoveElement
<1>4. Cardinality(A \ {n}) <= Cardinality(A)
  BY <1>1, FS_Subset
<1> QED BY <1>2, <1>3, <1>4

(* The list never holds more than Length items and one for every other     *)
(* node (the length check of PushItem, under a mutex of one node only).    *)
THEOREM Overflow == Spec => []BoundedOverflow
<1> USE RedisAssumption
<1>1. Init => BoundInv
  <2> SUFFICES ASSUME Init PROVE BoundInv
    OBVIOUS
  <2>1. Appending = {} /\ Len(list) = 0
    BY DEF Init, Appending
  <2>2. Cardinality(Appending) = 0
    BY <2>1, FS_EmptySet
  <2>3. Cardinality(Node) \in Nat /\ Cardinality(Node) # 0
    BY FS_CardinalityType, FS_EmptySet
  <2> QED BY <2>1, <2>2, <2>3 DEF BoundInv
<1>2. TypeOK /\ TypeOK' /\ BoundInv /\ [Next]_vars => BoundInv'
  <2> SUFFICES ASSUME TypeOK, TypeOK', BoundInv, [Next]_vars PROVE BoundInv'
    OBVIOUS
  <2>0. Len(list) \in Nat /\ Len(list') \in Nat /\ Cardinality(Node) \in Nat
    BY FS_CardinalityType DEF TypeOK
  <2> USE DEF BoundInv, At, Goto, Return
  <2>a. Appending \in SUBSET Node
    BY DEF Appending
  <2>1. ASSUME NEW n \in Node, NEW x \in Item, PushLLen(n, x) PROVE BoundInv'
    <3>1. Len(list) < Length /\ list' = list
      BY <2>1 DEF PushLLen
    <3>2. n \notin Appending /\ Appending' = Appending \cup {n}
      BY <2>1 DEF PushLLen, Appending, TypeOK
    <3>3. /\ Cardinality(Appending') = Cardinality(Appending) + 1
          /\ Cardinality(Appending) <= Cardinality(Node) - 1 /\ Cardinality(Appending) \in Nat
      BY <2>a, <3>2, JoinCount
    <3> QED BY <2>0, <3>1, <3>3
  <2>2. ASSUME NEW n \in Node, PushSAdd(n) PROVE BoundInv'
    <3>1. list' = list /\ (Appending' = Appending \/ Appending' = Appending \ {n})
      BY <2>2 DEF PushSAdd, Appending, TypeOK
    <3>2. /\ Cardinality(Appending') <= Cardinality(Appending)
          /\ Cardinality(Appending) \in Nat /\ Cardinality(Appending') \in Nat
      <4>1. CASE Appending' = Appending
        <5>1. Cardinality(Appending') = Cardinality(Appending)
          BY <4>1
        <5>2. Cardinality(Appending) \in Nat
          BY <2>a, LeaveCount
        <5> QED BY <5>1, <5>2
      <4>2. CASE Appending' = Appending \ {n}
        BY <2>a, <4>2, LeaveCount
      <4> QED BY <3>1, <4>1, <4>2
    <3> QED BY <2>0, <3>1, <3>2
  <2>3. ASSUME NEW n \in Node, PushRPush(n) PROVE BoundInv'
    <3>1. n \in Appending /\ Appending' = Appending \ {n}
      BY <2>3 DEF PushRPush, Appending, TypeOK
    <3>2. Len(list') = Len(list) + 1
      BY <2>3 DEF PushRPush, TypeOK
    <3>3. /\ Cardinality(Appending') = Cardinality(Appending) - 1
          /\ Cardinality(Appending) \in Nat
      BY <2>a, <3>1, LeaveCount
    <3> QED BY <2>0, <3>2, <3>3
  <2>4. ASSUME NEW n \in Node, PopLPop(n) PROVE BoundInv'
    <3>1. Appending' = Appending \ {n} /\ Len(list') <= Len(list)
      <4>1. Appending' = Appending \ {n}
        BY <2>4 DEF PopLPop, Appending, TypeOK
      <4>2. Len(list') = Len(list) - 1
        BY <2>4, RangeTail DEF PopLPop, TypeOK
      <4> QED BY <2>0, <4>1, <4>2
    <3>2. /\ Cardinality(Appending') <= Cardinality(Appending)
          /\ Cardinality(Appending) \in Nat /\ Cardinality(Appending') \in Nat
      BY <2>a, <3>1, LeaveCount
    <3> QED BY <2>0, <3>1, <3>2
  <2>5. ASSUME NEW n \in Node, PopSRem(n) PROVE BoundInv'
    <3>1. Appending' = Appending \ {n} /\ Len(list') <= Len(list)
      BY <2>0, <2>5 DEF PopSRem, Appending, TypeOK
    <3>2. /\ Cardinality(Appending') <= Cardinality(Appending)
          /\ Cardinality(Appending) \in Nat /\ Cardinality(Appending') \in Nat
      BY <2>a, <3>1, LeaveCount
    <3> QED BY <2>0, <3>1, <3>2
  <2>6. ASSUME NEW n \in Node, RemoveDelList(n) PROVE BoundInv'
    <3>1. Appending' = Appending \ {n} /\ Len(list') <= Len(list)
      <4>1. Appending' = Appending \ {n}
        BY <2>6 DEF RemoveDelList, Appending, TypeOK
      <4>2. Len(list') = 0
        BY <2>6 DEF RemoveDelList
      <4> QED BY <2>0, <4>1, <4>2
    <3>2. /\ Cardinality(Appending') <= Cardinality(Appending)
          /\ Cardinality(Appending) \in Nat /\ Cardinality(Appending') \in Nat
      BY <2>a, <3>1, LeaveCount
    <3> QED BY <2>0, <3>1, <3>2
  <2>7. ASSUME NEW n \in Node, RemoveDelSet(n) PROVE BoundInv'
    <3>1. Appending' = Appending \ {n} /\ Len(list') <= Len(list)
      BY <2>0, <2>7 DEF RemoveDelSet, Appending, TypeOK
    <3>2. /\ Cardinality(Appending') <= Cardinality(Appending)
          /\ Cardinality(Appending) \in Nat /\ Cardinality(Appending') \in Nat
      BY <2>a, <3>1, LeaveCount
    <3> QED BY <2>0, <3>1, <3>2
  <2>8. ASSUME NEW n \in Node, PushRPushFails(n) PROVE BoundInv'
    <3>1. n \in Appending /\ Appending' = Appending \ {n}
      BY <2>8 DEF PushRPushFails, Appending, TypeOK
    <3>2. Len(list') <= Len(list) + 1
      BY <2>0, <2>8 DEF PushRPushFails, TypeOK
    <3>3. /\ Cardinality(Appending') = Cardinality(Appending) - 1
          /\ Cardinality(Appending) \in Nat
      BY <2>a, <3>1, LeaveCount
    <3> QED BY <2>0, <3>2, <3>3
  <2>9. ASSUME NEW n \in Node, PopLPopFails(n) PROVE BoundInv'
    <3>1. Appending' = Appending
      BY <2>9 DEF PopLPopFails, Appending
    <3>2. Len(list') = Len(list) - 1
      BY <2>9, RangeTail DEF PopLPopFails, TypeOK
    <3>3. Cardinality(Appending) \in Nat
      BY <2>a, LeaveCount, RedisAssumption
    <3> QED BY <2>0, <3>1, <3>2, <3>3
  <2>10. ASSUME NEW n \in Node,
                PushSAddFails(n) \/ PopSRemFails(n) \/ RemoveDelListFails(n) \/ RemoveDelSetFails(n)
         PROVE  BoundInv'
    <3>1. Appending' = Appending \ {n} /\ list' = list
      BY <2>10 DEF PushSAddFails, PopSRemFails, RemoveDelListFails, RemoveDelSetFails,
                   Appending, TypeOK
    <3>2. /\ Cardinality(Appending') <= Cardinality(Appending)
          /\ Cardinality(Appending) \in Nat /\ Cardinality(Appending') \in Nat
      BY <2>a, <3>1, LeaveCount
    <3> QED BY <2>0, <3>1, <3>2
  <2>11. CASE UNCHANGED vars
    BY <2>11 DEF vars, Appending
  <2> QED BY <2>1, <2>2, <2>3, <2>4, <2>5, <2>6, <2>7, <2>8, <2>9, <2>10, <2>11
             DEF Next, NodeStep, Commands, Failures
<1>3. TypeOK /\ BoundInv => BoundedOverflow
  <2> SUFFICES ASSUME TypeOK, BoundInv PROVE BoundedOverflow
    OBVIOUS
  <2>1. IsFiniteSet(Appending)
    BY FS_Subset DEF Appending
  <2>2. Cardinality(Appending) \in Nat /\ Cardinality(Node) \in Nat /\ Len(list) \in Nat
    BY <2>1, FS_CardinalityType DEF TypeOK
  <2> QED BY <2>2 DEF BoundInv, BoundedOverflow
<1> QED BY <1>1, <1>2, <1>3, TypeCorrect, PTL DEF Spec
=============================================================================
