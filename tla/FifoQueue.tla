----------------------------- MODULE FifoQueue -----------------------------
(***************************************************************************)
(* What tsqueue<T> promises its callers: a FIFO queue whose push never     *)
(* blocks, whose wait_and_pop returns the oldest element as soon as there  *)
(* is one, and whose wait_empty / wait_size return once the queue is short *)
(* enough.  No mutex, no condition variable, no wake-up: TSQueue shows     *)
(* that the mechanism of tsqueue.hpp implements this.                      *)
(***************************************************************************)
EXTENDS Integers, Sequences

CONSTANTS
  Producers,    \* threads that call push
  Consumers,    \* threads that call wait_and_pop
  Waiters,      \* threads that call wait_empty or wait_size
  Messages,     \* the values stored in the queue (T)
  NoMessage,    \* what a thread has before its first element
  Sizes,        \* arguments of wait_size; wait_empty is size 0
  MaxLen        \* model bound: no push when the queue holds MaxLen elements

VARIABLES
  queue,        \* the elements, oldest first
  call,         \* the blocking call each thread is inside of
  limit,        \* the size a waiter waits for
  value         \* the last element handed to each thread

vars == <<queue, call, limit, value>>

Threads == Producers \cup Consumers \cup Waiters

Init ==
  /\ queue = << >>
  /\ call = [t \in Threads |-> "none"]
  /\ limit = [t \in Waiters |-> 0]
  /\ value = [t \in Threads |-> NoMessage]

Push(t, v) ==
  /\ call[t] = "none"
  /\ Len(queue) < MaxLen
  /\ queue' = Append(queue, v)
  /\ UNCHANGED <<call, limit, value>>

CallPop(t) ==
  /\ call[t] = "none"
  /\ call' = [call EXCEPT ![t] = "wait_and_pop"]
  /\ UNCHANGED <<queue, limit, value>>

ReturnPop(t) ==
  /\ call[t] = "wait_and_pop"
  /\ queue # << >>
  /\ value' = [value EXCEPT ![t] = Head(queue)]
  /\ queue' = Tail(queue)
  /\ call' = [call EXCEPT ![t] = "none"]
  /\ UNCHANGED limit

CallWait(t, sz) ==
  /\ call[t] = "none"
  /\ call' = [call EXCEPT ![t] = "wait_size"]
  /\ limit' = [limit EXCEPT ![t] = sz]
  /\ UNCHANGED <<queue, value>>

ReturnWait(t) ==
  /\ call[t] = "wait_size"
  /\ Len(queue) <= limit[t]
  /\ call' = [call EXCEPT ![t] = "none"]
  /\ UNCHANGED <<queue, limit, value>>

Next ==
  \/ \E t \in Producers, v \in Messages : Push(t, v)
  \/ \E t \in Consumers : CallPop(t) \/ ReturnPop(t)
  \/ \E t \in Waiters, sz \in Sizes : CallWait(t, sz)
  \/ \E t \in Waiters : ReturnWait(t)

\* The safety part of the promise.
SafeSpec == Init /\ [][Next]_vars

\* A non-empty queue with a thread inside wait_and_pop is eventually popped,
\* and a waiter whose size stays satisfied eventually returns.
Spec ==
  /\ SafeSpec
  /\ WF_vars(\E t \in Consumers : ReturnPop(t))
  /\ \A t \in Waiters : WF_vars(ReturnWait(t))
=============================================================================
