------------------------------ MODULE TSQueue ------------------------------
(***************************************************************************)
(* tsqueue<T> (src/src/tsqueue.hpp): std::queue, one mutex, and the two    *)
(* condition variables data_cond (poppers) and empty_cond (waiters).       *)
(*                                                                         *)
(* Every member function holds `mut' from its first to its last statement  *)
(* and gives it up only inside condition_variable::wait.  A step here is   *)
(* one such critical section: from taking the mutex to releasing it, by    *)
(* returning or by blocking.  A blocked thread is in the wait set of its   *)
(* condition variable; one that was notified, or woke up spuriously, has   *)
(* left it and competes for the mutex again with any thread that calls.    *)
(***************************************************************************)
EXTENDS Integers, Sequences, FiniteSets

CONSTANTS
  Producers,    \* threads that call push
  Consumers,    \* threads that call wait_and_pop
  Waiters,      \* threads that call wait_empty or wait_size
  Messages,     \* the values stored in the queue (T)
  NoMessage,    \* what a thread has before its first element
  Sizes,        \* arguments of wait_size; wait_empty is size 0
  MaxLen        \* model bound: no push when the queue holds MaxLen elements

Threads == Producers \cup Consumers \cup Waiters

\* Only Preparer (one thread) waits for a short queue, and the threads that
\* pop are none of those that wait.
ASSUME ThreadsAssumption ==
  /\ IsFiniteSet(Threads)
  /\ \A s, t \in Waiters : s = t
  /\ Consumers \cap Waiters = {}

ASSUME ValuesAssumption ==
  /\ NoMessage \notin Messages
  /\ Sizes \subseteq Nat
  /\ MaxLen \in Nat

VARIABLES
  data_queue,   \* std::queue<T> data_queue
  data_cond,    \* threads blocked on data_cond
  empty_cond,   \* threads blocked on empty_cond
  call,         \* the member function each thread is inside of
  limit,        \* the argument sz of a waiter's call
  value         \* the last element handed to each thread

vars == <<data_queue, data_cond, empty_cond, call, limit, value>>

Init ==
  /\ data_queue = << >>
  /\ data_cond = {}
  /\ empty_cond = {}
  /\ call = [t \in Threads |-> "none"]
  /\ limit = [t \in Waiters |-> 0]
  /\ value = [t \in Threads |-> NoMessage]

\* notify_one: the wait sets that can be left behind.
NotifyOne(cond) ==
  IF cond = {} THEN {cond} ELSE {cond \ {t} : t \in cond}
-----------------------------------------------------------------------------
\* Mutated forms of push: no notify_one; notify_one only when the queue was
\* empty.
push_notifies_nobody(t, v) ==
  /\ call[t] = "none"
  /\ Len(data_queue) < MaxLen
  /\ data_queue' = Append(data_queue, v)
  /\ UNCHANGED <<data_cond, empty_cond, call, limit, value>>

push_notifies_when_empty(t, v) ==
  /\ call[t] = "none"
  /\ Len(data_queue) < MaxLen
  /\ data_queue' = Append(data_queue, v)
  /\ data_cond' \in IF data_queue = << >> THEN NotifyOne(data_cond) ELSE {data_cond}
  /\ UNCHANGED <<empty_cond, call, limit, value>>

push(t, v) ==
  /\ call[t] = "none"
  /\ Len(data_queue) < MaxLen
  /\ data_queue' = Append(data_queue, v)
  /\ data_cond' \in NotifyOne(data_cond)
  /\ UNCHANGED <<empty_cond, call, limit, value>>

\* The call itself; the mutex is taken by one of the two steps that follow.
CallPop(t) ==
  /\ call[t] = "none"
  /\ call' = [call EXCEPT ![t] = "wait_and_pop"]
  /\ UNCHANGED <<data_queue, data_cond, empty_cond, limit, value>>

\* Mutated form of PopBlocks: waits on the other condition variable.
PopBlocks_on_empty_cond(t) ==
  /\ call[t] = "wait_and_pop"
  /\ t \notin empty_cond
  /\ data_queue = << >>
  /\ empty_cond' = empty_cond \cup {t}
  /\ UNCHANGED <<data_queue, data_cond, call, limit, value>>

\* The predicate of data_cond.wait is false: block.
PopBlocks(t) ==
  /\ call[t] = "wait_and_pop"
  /\ t \notin data_cond
  /\ data_queue = << >>
  /\ data_cond' = data_cond \cup {t}
  /\ UNCHANGED <<data_queue, empty_cond, call, limit, value>>

\* Mutated form of PopReturns: no empty_cond.notify_one.
PopReturns_notifies_nobody(t) ==
  /\ call[t] = "wait_and_pop"
  /\ t \notin data_cond
  /\ data_queue # << >>
  /\ value' = [value EXCEPT ![t] = Head(data_queue)]
  /\ data_queue' = Tail(data_queue)
  /\ call' = [call EXCEPT ![t] = "none"]
  /\ UNCHANGED <<data_cond, empty_cond, limit>>

\* The predicate is true: take the front element and tell a waiter.
PopReturns(t) ==
  /\ call[t] = "wait_and_pop"
  /\ t \notin data_cond
  /\ data_queue # << >>
  /\ value' = [value EXCEPT ![t] = Head(data_queue)]
  /\ data_queue' = Tail(data_queue)
  /\ empty_cond' \in NotifyOne(empty_cond)
  /\ call' = [call EXCEPT ![t] = "none"]
  /\ UNCHANGED <<data_cond, limit>>

\* wait_size(sz), and wait_empty() as wait_size(0).
CallWait(t, sz) ==
  /\ call[t] = "none"
  /\ call' = [call EXCEPT ![t] = "wait_size"]
  /\ limit' = [limit EXCEPT ![t] = sz]
  /\ UNCHANGED <<data_queue, data_cond, empty_cond, value>>

WaitBlocks(t) ==
  /\ call[t] = "wait_size"
  /\ t \notin empty_cond
  /\ Len(data_queue) > limit[t]
  /\ empty_cond' = empty_cond \cup {t}
  /\ UNCHANGED <<data_queue, data_cond, call, limit, value>>

WaitReturns(t) ==
  /\ call[t] = "wait_size"
  /\ t \notin empty_cond
  /\ Len(data_queue) <= limit[t]
  /\ call' = [call EXCEPT ![t] = "none"]
  /\ UNCHANGED <<data_queue, data_cond, empty_cond, limit, value>>

\* A condition variable may wake a thread nobody notified.
SpuriousWakeup(t) ==
  /\ t \in data_cond \cup empty_cond
  /\ data_cond' = data_cond \ {t}
  /\ empty_cond' = empty_cond \ {t}
  /\ UNCHANGED <<data_queue, call, limit, value>>
-----------------------------------------------------------------------------
Pop(t) == PopBlocks(t) \/ PopReturns(t)
Wait(t) == WaitBlocks(t) \/ WaitReturns(t)

Next ==
  \/ \E t \in Producers, v \in Messages : push(t, v)
  \/ \E t \in Consumers : CallPop(t) \/ Pop(t)
  \/ \E t \in Waiters, sz \in Sizes : CallWait(t, sz)
  \/ \E t \in Waiters : Wait(t)
  \/ \E t \in Threads : SpuriousWakeup(t)

\* A thread inside a call gets the mutex eventually.  Nobody has to call.
Fairness ==
  /\ \A t \in Consumers : WF_vars(Pop(t))
  /\ \A t \in Waiters : WF_vars(Wait(t))

Spec == Init /\ [][Next]_vars /\ Fairness
-----------------------------------------------------------------------------
\* Threads inside wait_and_pop that are not asleep.
AwakePoppers ==
  {t \in Consumers : call[t] = "wait_and_pop" /\ t \notin data_cond}

TypeOK ==
  /\ data_queue \in Seq(Messages)
  /\ data_cond \subseteq {t \in Consumers : call[t] = "wait_and_pop"}
  /\ empty_cond \subseteq {t \in Waiters : call[t] = "wait_size"}
  /\ call \in [Threads -> {"none", "wait_and_pop", "wait_size"}]
  /\ limit \in [Waiters -> Nat]
  /\ value \in [Threads -> Messages \cup {NoMessage}]

\* While some thread sleeps in wait_and_pop, every element of the queue has
\* a thread that is awake and about to take it: notify_one on each push is
\* enough, whichever thread wins the mutex (tsqueue.hpp:25-49).
NoLostPopWakeup ==
  data_cond # {} => Len(data_queue) <= Cardinality(AwakePoppers)

\* A thread asleep in wait_empty or wait_size has nothing to return for: the
\* queue is still longer than it asked (tsqueue.hpp:51-63).
NoLostEmptyWakeup ==
  \A t \in empty_cond : Len(data_queue) > limit[t]

\* The mechanism implements the promise, with its liveness: no wake-up is
\* lost for good, elements leave in the order they came in.
Fifo == INSTANCE FifoQueue WITH queue <- data_queue
ImplementsFifo == Fifo!Spec
=============================================================================
