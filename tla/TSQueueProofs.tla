--------------------------- MODULE TSQueueProofs ---------------------------
(***************************************************************************)
(* For any threads, messages and sizes: tsqueue loses no wake-up and       *)
(* implements the safety part of FifoQueue.                                *)
(***************************************************************************)
EXTENDS TSQueue, FiniteSetTheorems, TLAPS

(***************************************************************************)
(* notify_one leaves a subset of the wait set, without one thread if there *)
(* was any.                                                                *)
(***************************************************************************)
LEMMA NotifyOneRemovesOne ==
  ASSUME NEW cond, NEW left \in NotifyOne(cond)
  PROVE  /\ left \subseteq cond
         /\ cond # {} => \E t \in cond : left = cond \ {t}
  BY DEF NotifyOne

\* The queue, its wait sets and the calls of the threads keep their types.
THEOREM TypeCorrect == Spec => []TypeOK
<1>1. Init => TypeOK
  BY ValuesAssumption DEF Init, TypeOK
<1>2. TypeOK /\ [Next]_vars => TypeOK'
  <2> SUFFICES ASSUME TypeOK, [Next]_vars PROVE TypeOK'
    OBVIOUS
  <2> USE DEF TypeOK, Threads
  <2>1. ASSUME NEW t \in Producers, NEW v \in Messages, push(t, v)
        PROVE  TypeOK'
    BY <2>1, NotifyOneRemovesOne DEF push
  <2>2. ASSUME NEW t \in Consumers, CallPop(t) PROVE TypeOK'
    BY <2>2 DEF CallPop
  <2>3. ASSUME NEW t \in Consumers, PopBlocks(t) PROVE TypeOK'
    BY <2>3 DEF PopBlocks
  <2>4. ASSUME NEW t \in Consumers, PopReturns(t) PROVE TypeOK'
    <3>1. Head(data_queue) \in Messages /\ Tail(data_queue) \in Seq(Messages)
      BY <2>4 DEF PopReturns
    <3>2. empty_cond' \subseteq empty_cond
      BY <2>4, NotifyOneRemovesOne DEF PopReturns
    <3>3. QED BY <2>4, <3>1, <3>2, ThreadsAssumption DEF PopReturns
  <2>5. ASSUME NEW t \in Waiters, NEW sz \in Sizes, CallWait(t, sz)
        PROVE  TypeOK'
    BY <2>5, ValuesAssumption DEF CallWait
  <2>6. ASSUME NEW t \in Waiters, WaitBlocks(t) PROVE TypeOK'
    BY <2>6 DEF WaitBlocks
  <2>7. ASSUME NEW t \in Waiters, WaitReturns(t) PROVE TypeOK'
    BY <2>7, ThreadsAssumption DEF WaitReturns
  <2>8. ASSUME NEW t \in Threads, SpuriousWakeup(t) PROVE TypeOK'
    BY <2>8 DEF SpuriousWakeup
  <2>9. CASE UNCHANGED vars
    BY <2>9 DEF vars
  <2>10. QED
    BY <2>1, <2>2, <2>3, <2>4, <2>5, <2>6, <2>7, <2>8, <2>9
    DEF Next, Pop, Wait
<1>3. QED BY <1>1, <1>2, PTL DEF Spec
-----------------------------------------------------------------------------
\* The awake poppers are finitely many: they can be counted.
LEMMA AwakePoppersFinite ==
  /\ IsFiniteSet(AwakePoppers) /\ IsFiniteSet(AwakePoppers')
  /\ Cardinality(AwakePoppers) \in Nat /\ Cardinality(AwakePoppers') \in Nat
<1>1. AwakePoppers \in SUBSET Threads /\ AwakePoppers' \in SUBSET Threads
  BY DEF AwakePoppers, Threads
<1>2. IsFiniteSet(AwakePoppers) /\ IsFiniteSet(AwakePoppers')
  BY <1>1, FS_Subset, ThreadsAssumption
<1>3. QED BY <1>2, FS_CardinalityType

\* A step that neither lengthens the queue, nor puts a popper to sleep, nor
\* takes an awake popper away keeps NoLostPopWakeup.
LEMMA PopWakeupKept ==
  ASSUME TypeOK, TypeOK', NoLostPopWakeup,
         data_cond' \subseteq data_cond,
         AwakePoppers \subseteq AwakePoppers',
         Len(data_queue') <= Len(data_queue)
  PROVE  NoLostPopWakeup'
<1>1. Cardinality(AwakePoppers) <= Cardinality(AwakePoppers')
  BY AwakePoppersFinite, FS_Subset
<1>2. Len(data_queue) \in Nat /\ Len(data_queue') \in Nat
  BY DEF TypeOK
<1>3. QED BY <1>1, <1>2, AwakePoppersFinite DEF NoLostPopWakeup

\* While a thread sleeps in wait_and_pop, at least as many threads are awake
\* in it as there are elements (tsqueue.hpp:25-49): one notify_one per push
\* is enough for any number of producers and consumers.
THEOREM PopWakeupsAreNotLost == Spec => []NoLostPopWakeup
<1>1. Init => NoLostPopWakeup
  BY DEF Init, NoLostPopWakeup
<1>2. TypeOK /\ TypeOK' /\ NoLostPopWakeup /\ [Next]_vars => NoLostPopWakeup'
  <2> SUFFICES ASSUME TypeOK, TypeOK', NoLostPopWakeup, [Next]_vars
               PROVE  NoLostPopWakeup'
    OBVIOUS
  <2>1. ASSUME NEW t \in Producers, NEW v \in Messages, push(t, v)
        PROVE  NoLostPopWakeup'
    <3>1. Len(data_queue) \in Nat /\ Len(data_queue') = Len(data_queue) + 1
      BY <2>1 DEF push, TypeOK
    <3>2. CASE data_cond = {}
      BY <2>1, <3>2, NotifyOneRemovesOne DEF push, NoLostPopWakeup
    <3>3. CASE data_cond # {}
      <4>1. PICK w \in data_cond : data_cond' = data_cond \ {w}
        BY <2>1, <3>3, NotifyOneRemovesOne DEF push
      <4>2. AwakePoppers' = AwakePoppers \cup {w} /\ w \notin AwakePoppers
        BY <2>1, <4>1 DEF push, TypeOK, AwakePoppers
      <4>3. Cardinality(AwakePoppers') = Cardinality(AwakePoppers) + 1
        BY <4>2, AwakePoppersFinite, FS_AddElement
      <4>4. QED BY <3>1, <3>3, <4>3, AwakePoppersFinite DEF NoLostPopWakeup
    <3>4. QED BY <3>2, <3>3
  <2>2. ASSUME NEW t \in Consumers, CallPop(t) PROVE NoLostPopWakeup'
    <3>1. AwakePoppers \subseteq AwakePoppers'
      BY <2>2 DEF CallPop, TypeOK, AwakePoppers, Threads
    <3>2. QED BY <2>2, <3>1, PopWakeupKept DEF CallPop, TypeOK
  <2>3. ASSUME NEW t \in Consumers, PopBlocks(t) PROVE NoLostPopWakeup'
    BY <2>3, AwakePoppersFinite DEF PopBlocks, NoLostPopWakeup, TypeOK
  <2>4. ASSUME NEW t \in Consumers, PopReturns(t) PROVE NoLostPopWakeup'
    <3>1. /\ Len(data_queue) \in Nat
          /\ Len(data_queue') = Len(data_queue) - 1
          /\ data_cond' = data_cond
      BY <2>4 DEF PopReturns, TypeOK
    <3>2. AwakePoppers' = AwakePoppers \ {t} /\ t \in AwakePoppers
      BY <2>4 DEF PopReturns, TypeOK, AwakePoppers, Threads
    <3>3. Cardinality(AwakePoppers') = Cardinality(AwakePoppers) - 1
      BY <3>2, AwakePoppersFinite, FS_RemoveElement
    <3>4. QED BY <3>1, <3>3, AwakePoppersFinite DEF NoLostPopWakeup
  <2>5. ASSUME NEW t \in Waiters, NEW sz \in Sizes, CallWait(t, sz)
        PROVE  NoLostPopWakeup'
    <3>1. AwakePoppers \subseteq AwakePoppers'
      BY <2>5, ThreadsAssumption DEF CallWait, TypeOK, AwakePoppers, Threads
    <3>2. QED BY <2>5, <3>1, PopWakeupKept DEF CallWait, TypeOK
  <2>6. ASSUME NEW t \in Waiters, WaitBlocks(t) PROVE NoLostPopWakeup'
    BY <2>6, PopWakeupKept DEF WaitBlocks, TypeOK, AwakePoppers
  <2>7. ASSUME NEW t \in Waiters, WaitReturns(t) PROVE NoLostPopWakeup'
    <3>1. AwakePoppers \subseteq AwakePoppers'
      BY <2>7, ThreadsAssumption DEF WaitReturns, TypeOK, AwakePoppers, Threads
    <3>2. QED BY <2>7, <3>1, PopWakeupKept DEF WaitReturns, TypeOK
  <2>8. ASSUME NEW t \in Threads, SpuriousWakeup(t) PROVE NoLostPopWakeup'
    <3>1. AwakePoppers \subseteq AwakePoppers'
      BY <2>8 DEF SpuriousWakeup, AwakePoppers
    <3>2. QED BY <2>8, <3>1, PopWakeupKept DEF SpuriousWakeup, TypeOK
  <2>9. CASE UNCHANGED vars
    BY <2>9 DEF vars, NoLostPopWakeup, AwakePoppers
  <2>10. QED
    BY <2>1, <2>2, <2>3, <2>4, <2>5, <2>6, <2>7, <2>8, <2>9
    DEF Next, Pop, Wait
<1>3. QED BY <1>1, <1>2, TypeCorrect, PTL DEF Spec
-----------------------------------------------------------------------------
\* A thread asleep in wait_empty / wait_size still has a reason to sleep
\* (tsqueue.hpp:51-63).  The proof needs the single waiter: with two, the one
\* notify_one of a pop could go to the wrong one.
THEOREM EmptyWakeupsAreNotLost == Spec => []NoLostEmptyWakeup
<1>1. Init => NoLostEmptyWakeup
  BY DEF Init, NoLostEmptyWakeup
<1>2. TypeOK /\ TypeOK' /\ NoLostEmptyWakeup /\ [Next]_vars
      => NoLostEmptyWakeup'
  <2> SUFFICES ASSUME TypeOK, TypeOK', NoLostEmptyWakeup, [Next]_vars
               PROVE  NoLostEmptyWakeup'
    OBVIOUS
  <2> USE DEF NoLostEmptyWakeup
  <2>1. ASSUME NEW t \in Producers, NEW v \in Messages, push(t, v)
        PROVE  NoLostEmptyWakeup'
    <3>1. Len(data_queue) \in Nat /\ Len(data_queue') = Len(data_queue) + 1
      BY <2>1 DEF push, TypeOK
    <3>2. \A w \in empty_cond : limit[w] \in Nat
      BY DEF TypeOK
    <3>3. QED BY <2>1, <3>1, <3>2 DEF push
  <2>2. ASSUME NEW t \in Consumers, CallPop(t) PROVE NoLostEmptyWakeup'
    BY <2>2 DEF CallPop
  <2>3. ASSUME NEW t \in Consumers, PopBlocks(t) PROVE NoLostEmptyWakeup'
    BY <2>3 DEF PopBlocks
  <2>4. ASSUME NEW t \in Consumers, PopReturns(t) PROVE NoLostEmptyWakeup'
    <3>1. empty_cond' = {}
      <4>1. CASE empty_cond = {}
        BY <2>4, <4>1, NotifyOneRemovesOne DEF PopReturns
      <4>2. CASE empty_cond # {}
        <5>1. PICK w \in empty_cond : empty_cond' = empty_cond \ {w}
          BY <2>4, <4>2, NotifyOneRemovesOne DEF PopReturns
        <5>2. QED BY <5>1, ThreadsAssumption DEF TypeOK
      <4>3. QED BY <4>1, <4>2
    <3>2. QED BY <3>1
  <2>5. ASSUME NEW t \in Waiters, NEW sz \in Sizes, CallWait(t, sz)
        PROVE  NoLostEmptyWakeup'
    BY <2>5 DEF CallWait, TypeOK
  <2>6. ASSUME NEW t \in Waiters, WaitBlocks(t) PROVE NoLostEmptyWakeup'
    BY <2>6 DEF WaitBlocks
  <2>7. ASSUME NEW t \in Waiters, WaitReturns(t) PROVE NoLostEmptyWakeup'
    BY <2>7 DEF WaitReturns
  <2>8. ASSUME NEW t \in Threads, SpuriousWakeup(t) PROVE NoLostEmptyWakeup'
    BY <2>8 DEF SpuriousWakeup
  <2>9. CASE UNCHANGED vars
    BY <2>9 DEF vars
  <2>10. QED
    BY <2>1, <2>2, <2>3, <2>4, <2>5, <2>6, <2>7, <2>8, <2>9
    DEF Next, Pop, Wait
<1>3. QED BY <1>1, <1>2, TypeCorrect, PTL DEF Spec
-----------------------------------------------------------------------------
\* Blocking, waking and notifying are invisible to the callers: every step of
\* tsqueue is a step of the FIFO queue it promises, or changes nothing.
THEOREM RefinesFifo == Spec => Fifo!SafeSpec
<1> USE DEF Fifo!Threads, Threads
<1>1. Init => Fifo!Init
  BY DEF Init, Fifo!Init
<1>2. [Next]_vars => [Fifo!Next]_Fifo!vars
  <2> SUFFICES ASSUME [Next]_vars PROVE [Fifo!Next]_Fifo!vars
    OBVIOUS
  <2>1. ASSUME NEW t \in Producers, NEW v \in Messages, push(t, v)
        PROVE  Fifo!Push(t, v)
    BY <2>1 DEF push, Fifo!Push
  <2>2. ASSUME NEW t \in Consumers, CallPop(t) PROVE Fifo!CallPop(t)
    BY <2>2 DEF CallPop, Fifo!CallPop
  <2>3. ASSUME NEW t \in Consumers, PopBlocks(t) PROVE UNCHANGED Fifo!vars
    BY <2>3 DEF PopBlocks, Fifo!vars
  <2>4. ASSUME NEW t \in Consumers, PopReturns(t) PROVE Fifo!ReturnPop(t)
    BY <2>4 DEF PopReturns, Fifo!ReturnPop
  <2>5. ASSUME NEW t \in Waiters, NEW sz \in Sizes, CallWait(t, sz)
        PROVE  Fifo!CallWait(t, sz)
    BY <2>5 DEF CallWait, Fifo!CallWait
  <2>6. ASSUME NEW t \in Waiters, WaitBlocks(t) PROVE UNCHANGED Fifo!vars
    BY <2>6 DEF WaitBlocks, Fifo!vars
  <2>7. ASSUME NEW t \in Waiters, WaitReturns(t) PROVE Fifo!ReturnWait(t)
    BY <2>7 DEF WaitReturns, Fifo!ReturnWait
  <2>8. ASSUME NEW t \in Threads, SpuriousWakeup(t) PROVE UNCHANGED Fifo!vars
    BY <2>8 DEF SpuriousWakeup, Fifo!vars
  <2>9. ASSUME UNCHANGED vars PROVE UNCHANGED Fifo!vars
    BY <2>9 DEF vars, Fifo!vars
  <2>10. QED
    BY <2>1, <2>2, <2>3, <2>4, <2>5, <2>6, <2>7, <2>8, <2>9
    DEF Next, Pop, Wait, Fifo!Next
<1>3. QED BY <1>1, <1>2, PTL DEF Spec, Fifo!SafeSpec
=============================================================================
