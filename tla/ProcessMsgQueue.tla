-------------------------- MODULE ProcessMsgQueue --------------------------
(***************************************************************************)
(* xtyProcessMsgQueue and the xtyProcessEvent inside it: the same PushMsg  *)
(* and PopMsg as xtyThreadMsgQueue, between processes.  The locks are spin *)
(* locks in shared memory and the event waits on a System V semaphore, so  *)
(* Consume tests m_Events before it takes the lock.                        *)
(*                                                                         *)
(* Two facts of the semaphore reach beyond one queue.  Every xtySemaphore  *)
(* is made from the same key, so a second queue shares the permits of this *)
(* one; and every operation carries SEM_UNDO, so the kernel reverts what a *)
(* process did to the semaphore when it exits.                             *)
(*                                                                         *)
(*   push -> enqueue -> produce -> increment -> post             (PushMsg) *)
(*   test [-> wait -> test] -> consume -> decrement -> pop -> dequeue      *)
(*                                                               (PopMsg)  *)
(***************************************************************************)
EXTENDS Integers, Sequences, FiniteSets

CONSTANTS Producers,   \* the processes that call PushMsg
          Consumers,   \* the processes that call PopMsg
          MaxPush,     \* bound: how many messages one producer pushes
          EventRange,  \* m_Events is unsigned: it counts modulo EventRange
          MaxQuit,     \* bound: how many processes end during the run
          MaxOther,    \* bound: how many times another queue uses the semaphore
          NoProcess    \* the owner of a free spin lock

Processes == Producers \union Consumers

ASSUME ProcessesAssumption ==
    /\ IsFiniteSet(Producers) /\ IsFiniteSet(Consumers)
    /\ Producers \intersect Consumers = {}
    /\ NoProcess \notin Processes

ASSUME BoundsAssumption ==
    /\ MaxPush \in Nat /\ MaxQuit \in Nat /\ MaxOther \in Nat
    /\ EventRange \in Nat \ {0}

VARIABLES pc,           \* pc[t]: the next step of t
          m_MsgQueue,   \* the xtyQueue of message pointers
          m_Lock,       \* owner of the queue's spin lock
          m_Events,     \* xtyProcessEvent::m_Events
          m_EventLock,  \* owner of the event's spin lock
          m_Notifier,   \* the value of the semaphore
          undo,         \* undo[t]: the kernel's SEM_UNDO adjustment for t
          sent,         \* sent[p]: how many messages p has enqueued
          got,          \* got[c]: the messages PopMsg has returned to c
          others,       \* how often another queue has used the semaphore
          m_SemID       \* "valid", or "removed" once another queue has removed it

queueVars == <<m_MsgQueue, m_Lock, sent, got>>
semVars == <<m_Notifier, undo, others, m_SemID>>
vars == <<pc, m_Events, m_EventLock, queueVars, semVars>>

Message == Producers \X (1 .. MaxPush)

At(steps) == {t \in Processes : pc[t] \in steps}

Init ==
    /\ pc = [t \in Processes |-> "idle"]
    /\ m_MsgQueue = << >>
    /\ m_Lock = NoProcess
    /\ m_Events = 0
    /\ m_EventLock = NoProcess
    /\ m_Notifier = 0
    /\ undo = [t \in Processes |-> 0]
    /\ sent = [p \in Producers |-> 0]
    /\ got = [c \in Consumers |-> << >>]
    /\ others = 0
    /\ m_SemID = "valid"

-----------------------------------------------------------------------------
Goto(t, from, to) ==
    /\ pc[t] = from
    /\ pc' = [pc EXCEPT ![t] = to]

\* xtySpinLock::Lock: the compare-and-swap that succeeds.
Lock(t) == m_Lock = NoProcess /\ m_Lock' = t
LockEvent(t) == m_EventLock = NoProcess /\ m_EventLock' = t
UnLock == m_Lock' = NoProcess
UnLockEvent == m_EventLock' = NoProcess

(***************************************************************************)
(* PushMsg                                                                 *)
(***************************************************************************)
PushMsg(p) ==
    /\ sent[p] < MaxPush
    /\ Goto(p, "idle", "push")
    /\ UNCHANGED <<m_Events, m_EventLock, queueVars, semVars>>

PushLock(p) ==
    /\ Goto(p, "push", "enqueue")
    /\ Lock(p)
    /\ UNCHANGED <<m_MsgQueue, sent, got, m_Events, m_EventLock, semVars>>

\* Mutant: the node is linked before the message is stored in it.
EnQueueBlank(p) ==
    /\ Goto(p, "enqueue", "produce")
    /\ m_MsgQueue' = Append(m_MsgQueue, <<p, 0>>)
    /\ sent' = [sent EXCEPT ![p] = @ + 1]
    /\ UnLock
    /\ UNCHANGED <<got, m_Events, m_EventLock, semVars>>

\* Mutant: the message goes to the front of the queue.
EnQueueFront(p) ==
    /\ Goto(p, "enqueue", "produce")
    /\ m_MsgQueue' = <<<<p, sent[p] + 1>>>> \o m_MsgQueue
    /\ sent' = [sent EXCEPT ![p] = @ + 1]
    /\ UnLock
    /\ UNCHANGED <<got, m_Events, m_EventLock, semVars>>

EnQueue(p) ==
    /\ Goto(p, "enqueue", "produce")
    /\ m_MsgQueue' = Append(m_MsgQueue, <<p, sent[p] + 1>>)
    /\ sent' = [sent EXCEPT ![p] = @ + 1]
    /\ UnLock
    /\ UNCHANGED <<got, m_Events, m_EventLock, semVars>>

ProduceLock(p) ==
    /\ Goto(p, "produce", "increment")
    /\ LockEvent(p)
    /\ UNCHANGED <<m_Events, queueVars, semVars>>

ProduceIncrement(p) ==
    /\ Goto(p, "increment", "post")
    /\ m_Events' = (m_Events + 1) % EventRange
    /\ UnLockEvent
    /\ UNCHANGED <<queueVars, semVars>>

\* Mutant: a permit only when the counter was 0.
WakeUpFirst(p) ==
    /\ Goto(p, "post", "idle")
    /\ m_Notifier' = m_Notifier + (IF m_Events = 1 THEN 1 ELSE 0)
    /\ undo' = [undo EXCEPT ![p] = @ - 1]
    /\ UNCHANGED <<m_Events, m_EventLock, queueVars, others, m_SemID>>

\* xtySemaphore::WakeUp: semop +1 with SEM_UNDO.
WakeUp(p) ==
    /\ m_SemID = "valid"
    /\ Goto(p, "post", "idle")
    /\ m_Notifier' = m_Notifier + 1
    /\ undo' = [undo EXCEPT ![p] = @ - 1]
    /\ UNCHANGED <<m_Events, m_EventLock, queueVars, others, m_SemID>>

(***************************************************************************)
(* PopMsg                                                                  *)
(***************************************************************************)
PopMsg(c) ==
    /\ Goto(c, "idle", "test")
    /\ UNCHANGED <<m_Events, m_EventLock, queueVars, semVars>>

\* Mutant: no test at all.
ConsumeNoTest(c) ==
    /\ Goto(c, "test", "consume")
    /\ UNCHANGED <<m_Events, m_EventLock, queueVars, semVars>>

\* The loop condition, read without the lock.
ConsumeTest(c) ==
    /\ Goto(c, "test", IF m_Events = 0 THEN "wait" ELSE "consume")
    /\ UNCHANGED <<m_Events, m_EventLock, queueVars, semVars>>

\* xtySemaphore::Wait: semop -1 with SEM_UNDO blocks until there is a permit.
ConsumeWait(c) ==
    /\ m_SemID = "valid" /\ m_Notifier > 0
    /\ Goto(c, "wait", "test")
    /\ m_Notifier' = m_Notifier - 1
    /\ undo' = [undo EXCEPT ![c] = @ + 1]
    /\ UNCHANGED <<m_Events, m_EventLock, queueVars, others, m_SemID>>

ConsumeLock(c) ==
    /\ Goto(c, "consume", "decrement")
    /\ LockEvent(c)
    /\ UNCHANGED <<m_Events, queueVars, semVars>>

\* The counter is not tested again under the lock; unsigned arithmetic wraps.
ConsumeDecrement(c) ==
    /\ Goto(c, "decrement", "pop")
    /\ m_Events' = (m_Events - 1) % EventRange
    /\ UnLockEvent
    /\ UNCHANGED <<queueVars, semVars>>

PopLock(c) ==
    /\ Goto(c, "pop", "dequeue")
    /\ Lock(c)
    /\ UNCHANGED <<m_MsgQueue, sent, got, m_Events, m_EventLock, semVars>>

\* DeQueue throws XTY_EMPTY_QUEUE on an empty queue and m_Lock stays taken.
DeQueue(c) ==
    /\ pc[c] = "dequeue"
    /\ IF m_MsgQueue = << >>
       THEN /\ pc' = [pc EXCEPT ![c] = "threw"]
            /\ UNCHANGED <<m_MsgQueue, m_Lock, got>>
       ELSE /\ pc' = [pc EXCEPT ![c] = "idle"]
            /\ m_MsgQueue' = Tail(m_MsgQueue)
            /\ got' = [got EXCEPT ![c] = Append(@, Head(m_MsgQueue))]
            /\ UnLock
    /\ UNCHANGED <<sent, m_Events, m_EventLock, semVars>>

\* semop fails because the semaphore is gone, also for whoever is waiting in it:
\* Produce and Consume call ErrorExit, which ends the process.
SemOpFails(t) ==
    /\ m_SemID = "removed"
    /\ pc[t] \in {"post", "wait"}
    /\ pc' = [pc EXCEPT ![t] = "quit"]
    /\ UNCHANGED <<m_Events, m_EventLock, queueVars, semVars>>

(***************************************************************************)
(* What other processes and the kernel do                                  *)
(***************************************************************************)
\* A process that has ended inside a call, or between two.
Gone == {"quit", "exited"}

NonNegative(n) == IF n < 0 THEN 0 ELSE n

\* A process is quit by a signal (xtyProcess::QuitNoDelay) at any step, or just
\* ends.  A spin lock it holds stays taken; the kernel applies its adjustment.
Quit(t) ==
    /\ Cardinality(At(Gone)) < MaxQuit
    /\ pc[t] \notin Gone
    /\ pc' = [pc EXCEPT ![t] = IF @ = "idle" THEN "exited" ELSE "quit"]
    /\ m_Notifier' = NonNegative(m_Notifier + undo[t])
    /\ undo' = [undo EXCEPT ![t] = 0]
    /\ UNCHANGED <<m_Events, m_EventLock, queueVars, others, m_SemID>>

\* A second queue on the same key: constructing it sets the value to 0 and
\* clears all adjustments; its consumer takes a permit, its producer gives one;
\* its destructor removes the semaphore from under this queue, for good.
OtherQueue ==
    /\ m_SemID = "valid" /\ others < MaxOther
    /\ others' = others + 1
    /\ \/ m_Notifier' = 0 /\ undo' = [t \in Processes |-> 0] /\ UNCHANGED m_SemID
       \/ m_Notifier > 0 /\ m_Notifier' = m_Notifier - 1 /\ UNCHANGED <<undo, m_SemID>>
       \/ m_Notifier' = m_Notifier + 1 /\ UNCHANGED <<undo, m_SemID>>
       \/ m_Notifier' = 0 /\ undo' = [t \in Processes |-> 0] /\ m_SemID' = "removed"
    /\ UNCHANGED <<pc, m_Events, m_EventLock, queueVars>>

-----------------------------------------------------------------------------
PushStep(p) ==
    \/ PushLock(p) \/ EnQueue(p) \/ ProduceLock(p) \/ ProduceIncrement(p) \/ WakeUp(p)
    \/ SemOpFails(p)

PopStep(c) ==
    \/ ConsumeTest(c) \/ ConsumeWait(c) \/ ConsumeLock(c) \/ ConsumeDecrement(c)
    \/ PopLock(c) \/ DeQueue(c) \/ SemOpFails(c)

Next ==
    \/ \E p \in Producers : PushMsg(p) \/ PushStep(p)
    \/ \E c \in Consumers : PopMsg(c) \/ PopStep(c)
    \/ \E t \in Processes : Quit(t)
    \/ OtherQueue

SafeSpec == Init /\ [][Next]_vars

\* Every process that can take its next step is run, and the spin locks, which
\* are contended by finitely many calls, are eventually won.
Fairness ==
    /\ \A p \in Producers : WF_vars(PushStep(p))
    /\ \A c \in Consumers : WF_vars(PopStep(c))

Spec == SafeSpec /\ Fairness

-----------------------------------------------------------------------------
(***************************************************************************)
(* Properties                                                              *)
(***************************************************************************)
PushSteps == {"idle", "push", "enqueue", "produce", "increment", "post"} \union Gone
PopSteps == {"idle", "test", "wait", "consume", "decrement", "pop", "dequeue",
             "threw"} \union Gone

TypeOK ==
    /\ \A p \in Producers : pc[p] \in PushSteps
    /\ \A c \in Consumers : pc[c] \in PopSteps
    /\ m_MsgQueue \in Seq(Message)
    /\ m_Lock \in Processes \union {NoProcess}
    /\ m_EventLock \in Processes \union {NoProcess}
    /\ m_Events \in 0 .. (EventRange - 1)
    /\ m_Notifier \in Nat
    /\ undo \in [Processes -> Int] /\ m_SemID \in {"valid", "removed"}
    /\ sent \in [Producers -> 0 .. MaxPush]
    /\ got \in [Consumers -> Seq(Message)]

\* Nothing from outside has touched the semaphore, and no process has ended.
Undisturbed == others = 0 /\ At(Gone) = {}

\* With one consumer, and until a process ends in the middle of a call, the
\* counter and the queue agree as they do in the thread queue although m_Events
\* is tested without the lock: it never wraps and DeQueue never throws.  Permits
\* that another queue or the end of a process adds or takes do not matter here: a
\* consumer that is woken by one tests the counter again.
EventAccounting ==
    At({"quit"}) = {} =>
        Len(m_MsgQueue) = m_Events + Cardinality(At({"produce", "increment"}))
                                   + Cardinality(At({"pop", "dequeue"}))

\* With one consumer: when it has read m_Events = 0 and gone to wait, every
\* event produced since has left a permit or is about to, although the test
\* and the wait are two steps.  A second queue on the same key, or SEM_UNDO when
\* a producer ends, takes the permit away and breaks this.
NoLostPermit ==
    Undisturbed => \A c \in Consumers : pc[c] = "wait" =>
        m_Events <= m_Notifier + Cardinality(At({"post"}))

\* xty_event.h says of m_Events: "> 0: available resource count, = 0: nothing
\* available left".  A consumer that passed the unlocked test is entitled to
\* one unit; the rest of the count is backed by messages in the queue.
EventsAreAvailable ==
    m_Events <= Len(m_MsgQueue)

\* Whatever the consumers, the exits and the other queues do to the counter and
\* the semaphore, messages leave the queue in the order they entered it, once.
Channel == INSTANCE MsgChannel WITH
    chan <- m_MsgQueue,
    asking <- {c \in Consumers : pc[c] \notin {"idle", "exited"}}

ImplementsFIFO == Channel!SafeSpec

\* With one consumer, as long as nothing disturbs the semaphore, a queued message
\* does not wait for ever while the consumer is inside PopMsg.
PopsGoOn == <>~Undisturbed \/ Channel!PopsGoOn
=============================================================================
