--------------------------- MODULE ThreadMsgQueue ---------------------------
(***************************************************************************)
(* xtyThreadMsgQueue and the xtyThreadEvent inside it: a FIFO under one    *)
(* mutex, and an event counter under a second mutex with a condition       *)
(* variable.  PushMsg enqueues, then produces one event; PopMsg consumes   *)
(* one event, then dequeues.  The two locks are never held together, so    *)
(* between the two halves of a call every other thread may run.            *)
(*                                                                         *)
(* A thread's pc names the next step it takes inside the call:             *)
(*   push -> enqueue -> produce -> increment -> signal        (PushMsg)    *)
(*   consume -> check [-> waiting -> woken -> check] -> pop -> dequeue     *)
(*                                                            (PopMsg)     *)
(***************************************************************************)
EXTENDS Naturals, Sequences, FiniteSets

CONSTANTS Producers,    \* the threads that call PushMsg
          Consumers,    \* the threads that call PopMsg
          MaxPush,      \* bound: how many messages one producer pushes
          MaxSpurious,  \* bound: how many spurious wake-ups the run may have
          NoThread      \* the owner of a free mutex

Threads == Producers \union Consumers

ASSUME ThreadsAssumption ==
    /\ IsFiniteSet(Producers) /\ IsFiniteSet(Consumers)
    /\ Producers \intersect Consumers = {}
    /\ NoThread \notin Threads

ASSUME BoundsAssumption == MaxPush \in Nat /\ MaxSpurious \in Nat

VARIABLES pc,           \* pc[t]: the next step of t
          m_MsgQueue,   \* the xtyQueue of message pointers
          m_Lock,       \* owner of the queue's mutex
          m_Events,     \* xtyThreadEvent::m_Events
          m_EventLock,  \* owner of the event's mutex, xtyEvent::m_Lock
          sent,         \* sent[p]: how many messages p has enqueued
          got,          \* got[c]: the messages PopMsg has returned to c
          spurious      \* how many spurious wake-ups there were

vars == <<pc, m_MsgQueue, m_Lock, m_Events, m_EventLock, sent, got, spurious>>

Message == Producers \X (1 .. MaxPush)

PushSteps == {"idle", "push", "enqueue", "produce", "increment", "signal"}
PopSteps == {"idle", "consume", "check", "waiting", "woken", "pop", "dequeue", "threw"}

\* The threads at one of the given steps.
At(steps) == {t \in Threads : pc[t] \in steps}

Init ==
    /\ pc = [t \in Threads |-> "idle"]
    /\ m_MsgQueue = << >>
    /\ m_Lock = NoThread
    /\ m_Events = 0
    /\ m_EventLock = NoThread
    /\ sent = [p \in Producers |-> 0]
    /\ got = [c \in Consumers |-> << >>]
    /\ spurious = 0

-----------------------------------------------------------------------------
Goto(t, from, to) ==
    /\ pc[t] = from
    /\ pc' = [pc EXCEPT ![t] = to]

\* pthread_mutex_lock: blocks until the mutex is free.
Lock(t) == m_Lock = NoThread /\ m_Lock' = t
LockEvent(t) == m_EventLock = NoThread /\ m_EventLock' = t
UnLock == m_Lock' = NoThread
UnLockEvent == m_EventLock' = NoThread

(***************************************************************************)
(* PushMsg                                                                 *)
(***************************************************************************)
PushMsg(p) ==
    /\ sent[p] < MaxPush
    /\ Goto(p, "idle", "push")
    /\ UNCHANGED <<m_MsgQueue, m_Lock, m_Events, m_EventLock, sent, got, spurious>>

PushLock(p) ==
    /\ Goto(p, "push", "enqueue")
    /\ Lock(p)
    /\ UNCHANGED <<m_MsgQueue, m_Events, m_EventLock, sent, got, spurious>>

\* Mutant: the message goes to the front of the queue.
EnQueueFront(p) ==
    /\ Goto(p, "enqueue", "produce")
    /\ m_MsgQueue' = <<<<p, sent[p] + 1>>>> \o m_MsgQueue
    /\ sent' = [sent EXCEPT ![p] = @ + 1]
    /\ UnLock
    /\ UNCHANGED <<m_Events, m_EventLock, got, spurious>>

EnQueue(p) ==
    /\ Goto(p, "enqueue", "produce")
    /\ m_MsgQueue' = Append(m_MsgQueue, <<p, sent[p] + 1>>)
    /\ sent' = [sent EXCEPT ![p] = @ + 1]
    /\ UnLock
    /\ UNCHANGED <<m_Events, m_EventLock, got, spurious>>

ProduceLock(p) ==
    /\ Goto(p, "produce", "increment")
    /\ LockEvent(p)
    /\ UNCHANGED <<m_MsgQueue, m_Lock, m_Events, sent, got, spurious>>

ProduceIncrement(p) ==
    /\ Goto(p, "increment", "signal")
    /\ m_Events' = m_Events + 1
    /\ UnLockEvent
    /\ UNCHANGED <<m_MsgQueue, m_Lock, sent, got, spurious>>

\* Mutant: signal only when the counter was 0, as if one waiter were enough.
WakeUpFirst(p) ==
    /\ pc[p] = "signal"
    /\ \/ \E c \in At({"waiting"}) :
              m_Events = 1 /\ pc' = [pc EXCEPT ![p] = "idle", ![c] = "woken"]
       \/ /\ At({"waiting"}) = {} \/ m_Events # 1
          /\ pc' = [pc EXCEPT ![p] = "idle"]
    /\ UNCHANGED <<m_MsgQueue, m_Lock, m_Events, m_EventLock, sent, got, spurious>>

\* pthread_cond_signal, after the mutex was released: it unblocks one of the
\* threads waiting at that moment, or nobody.
WakeUp(p) ==
    /\ pc[p] = "signal"
    /\ \/ \E c \in At({"waiting"}) :
              pc' = [pc EXCEPT ![p] = "idle", ![c] = "woken"]
       \/ /\ At({"waiting"}) = {}
          /\ pc' = [pc EXCEPT ![p] = "idle"]
    /\ UNCHANGED <<m_MsgQueue, m_Lock, m_Events, m_EventLock, sent, got, spurious>>

(***************************************************************************)
(* PopMsg                                                                  *)
(***************************************************************************)
PopMsg(c) ==
    /\ Goto(c, "idle", "consume")
    /\ UNCHANGED <<m_MsgQueue, m_Lock, m_Events, m_EventLock, sent, got, spurious>>

ConsumeLock(c) ==
    /\ Goto(c, "consume", "check")
    /\ LockEvent(c)
    /\ UNCHANGED <<m_MsgQueue, m_Lock, m_Events, sent, got, spurious>>

\* pthread_cond_wait: releases the mutex and blocks in one step.
ConsumeWait(c) ==
    /\ m_Events = 0
    /\ Goto(c, "check", "waiting")
    /\ UnLockEvent
    /\ UNCHANGED <<m_MsgQueue, m_Lock, m_Events, sent, got, spurious>>

SpuriousWakeUp(c) ==
    /\ spurious < MaxSpurious
    /\ spurious' = spurious + 1
    /\ Goto(c, "waiting", "woken")
    /\ UNCHANGED <<m_MsgQueue, m_Lock, m_Events, m_EventLock, sent, got>>

\* Mutant: "if" instead of "while", the counter is not tested after the wait.
ConsumeOnWakeUp(c) ==
    /\ Goto(c, "woken", "pop")
    /\ m_EventLock = NoThread
    /\ m_Events' = m_Events - 1
    /\ UNCHANGED <<m_MsgQueue, m_Lock, m_EventLock, sent, got, spurious>>

\* pthread_cond_wait returns with the mutex held; the loop tests m_Events again.
ConsumeReLock(c) ==
    /\ Goto(c, "woken", "check")
    /\ LockEvent(c)
    /\ UNCHANGED <<m_MsgQueue, m_Lock, m_Events, sent, got, spurious>>

\* Mutant: the counter is treated as a flag.
ConsumeReset(c) ==
    /\ m_Events # 0
    /\ Goto(c, "check", "pop")
    /\ m_Events' = 0
    /\ UnLockEvent
    /\ UNCHANGED <<m_MsgQueue, m_Lock, sent, got, spurious>>

ConsumeDecrement(c) ==
    /\ m_Events # 0
    /\ Goto(c, "check", "pop")
    /\ m_Events' = m_Events - 1
    /\ UnLockEvent
    /\ UNCHANGED <<m_MsgQueue, m_Lock, sent, got, spurious>>

PopLock(c) ==
    /\ Goto(c, "pop", "dequeue")
    /\ Lock(c)
    /\ UNCHANGED <<m_MsgQueue, m_Events, m_EventLock, sent, got, spurious>>

\* xtyQueue::DeQueue throws XTY_EMPTY_QUEUE on an empty queue; nothing on the
\* way out releases m_Lock.
DeQueue(c) ==
    /\ pc[c] = "dequeue"
    /\ IF m_MsgQueue = << >>
       THEN /\ pc' = [pc EXCEPT ![c] = "threw"]
            /\ UNCHANGED <<m_MsgQueue, m_Lock, got>>
       ELSE /\ pc' = [pc EXCEPT ![c] = "idle"]
            /\ m_MsgQueue' = Tail(m_MsgQueue)
            /\ got' = [got EXCEPT ![c] = Append(@, Head(m_MsgQueue))]
            /\ UnLock
    /\ UNCHANGED <<m_Events, m_EventLock, sent, spurious>>

-----------------------------------------------------------------------------
\* What a thread inside a call does by itself; starting a call and a spurious
\* wake-up are nobody's obligation.
PushStep(p) ==
    \/ PushLock(p) \/ EnQueue(p) \/ ProduceLock(p) \/ ProduceIncrement(p) \/ WakeUp(p)

PopStep(c) ==
    \/ ConsumeLock(c) \/ ConsumeWait(c) \/ ConsumeReLock(c) \/ ConsumeDecrement(c)
    \/ PopLock(c) \/ DeQueue(c)

Next ==
    \/ \E p \in Producers : PushMsg(p) \/ PushStep(p)
    \/ \E c \in Consumers : PopMsg(c) \/ PopStep(c) \/ SpuriousWakeUp(c)

SafeSpec == Init /\ [][Next]_vars

\* The scheduler runs every thread that can take its next step.
Fairness ==
    /\ \A p \in Producers : WF_vars(PushStep(p))
    /\ \A c \in Consumers : WF_vars(PopStep(c))

Spec == SafeSpec /\ Fairness

-----------------------------------------------------------------------------
(***************************************************************************)
(* Properties                                                              *)
(***************************************************************************)
TypeOK ==
    /\ pc \in [Threads -> PushSteps \union PopSteps]
    /\ \A p \in Producers : pc[p] \in PushSteps
    /\ \A c \in Consumers : pc[c] \in PopSteps
    /\ m_MsgQueue \in Seq(Message)
    /\ m_Lock \in Threads \union {NoThread}
    /\ m_EventLock \in Threads \union {NoThread}
    /\ m_Events \in Nat
    /\ sent \in [Producers -> 0 .. MaxPush]
    /\ got \in [Consumers -> Seq(Message)]
    /\ spurious \in 0 .. MaxSpurious

\* The producer has enqueued and not yet counted; the consumer has been counted
\* down and not yet dequeued.
Uncounted == At({"produce", "increment"})
Entitled == At({"pop", "dequeue"})

\* The event counter and the queue, which are under different locks, never
\* drift apart: every queued message is announced by an event, is about to be,
\* or is reserved for a consumer whose Consume has returned.
EventAccounting ==
    Len(m_MsgQueue) = m_Events + Cardinality(Uncounted) + Cardinality(Entitled)

\* PopMsg never reaches DeQueue's XTY_EMPTY_QUEUE, whatever the number of
\* consumers: the exception would leave m_Lock held for ever.
NeverDeQueueEmpty == At({"threw"}) = {}

\* pthread_cond_signal is called after the mutex is released and wakes only a
\* current waiter; still no wake-up is lost: while a consumer sleeps, every
\* event has a signal on its way or a consumer about to test the counter.
NoLostWakeUp ==
    At({"waiting"}) # {} =>
        m_Events <= Cardinality(At({"signal"})) + Cardinality(At({"woken", "check"}))

\* Between Lock and UnLock only the owner of the mutex touches what it guards.
MutualExclusion ==
    /\ \A t \in Threads : pc[t] \in {"enqueue", "dequeue", "threw"} <=> m_Lock = t
    /\ \A t \in Threads : pc[t] \in {"increment", "check"} <=> m_EventLock = t

\* The queue is the FIFO its callers are promised: no message is lost,
\* duplicated or overtaken, and while a message is queued and a consumer is
\* inside PopMsg one of them eventually returns it.
Channel == INSTANCE MsgChannel WITH
    chan <- m_MsgQueue,
    asking <- {c \in Consumers : pc[c] # "idle"}

ImplementsChannel == Channel!Spec

\* The safety half of it: every step of a thread is a step of the FIFO or
\* invisible to its callers.
ImplementsFIFO == Channel!SafeSpec
=============================================================================
