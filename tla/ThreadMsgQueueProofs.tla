------------------------ MODULE ThreadMsgQueueProofs ------------------------
(***************************************************************************)
(* What is true of xtyThreadMsgQueue for any number of producers and       *)
(* consumers, any number of messages and any number of spurious wake-ups.  *)
(***************************************************************************)
EXTENDS ThreadMsgQueue, FiniteSetTheorems, SequenceTheorems, TLAPS

-----------------------------------------------------------------------------
(***************************************************************************)
(* Counting threads by the step they are at                                *)
(***************************************************************************)
\* The threads that a pc function f puts at one of the given steps.
In(f, steps) == {t \in Threads : f[t] \in steps}

\* How the number of threads at some steps changes when one of them moves.
Gain(from, to, steps) ==
    IF to \in steps THEN IF from \in steps THEN 0 ELSE 1
                    ELSE IF from \in steps THEN -1 ELSE 0

\* From pc function f to pc function g nobody but t moves.
OnlyMoves(t, f, g) == \A u \in Threads : u # t => g[u] = f[u]

CountChanges(t, f, g, steps) ==
    Cardinality(In(g, steps)) = Cardinality(In(f, steps)) + Gain(f[t], g[t], steps)

\* There are finitely many threads, so those at given steps can be counted.
LEMMA InIsFinite ==
    ASSUME NEW f, NEW steps
    PROVE  IsFiniteSet(In(f, steps)) /\ Cardinality(In(f, steps)) \in Nat
<1>1. IsFiniteSet(Threads)
  BY ThreadsAssumption, FS_Union DEF Threads
<1>2. In(f, steps) \subseteq Threads
  BY DEF In
<1>. QED BY <1>1, <1>2, FS_Subset, FS_CardinalityType

\* One thread moves from a step to another: every count changes by at most one.
LEMMA Move ==
    ASSUME NEW t \in Threads, NEW f, NEW g, NEW steps, OnlyMoves(t, f, g)
    PROVE  CountChanges(t, f, g, steps)
<1>1. /\ IsFiniteSet(In(f, steps)) /\ Cardinality(In(f, steps)) \in Nat
      /\ IsFiniteSet(In(g, steps)) /\ Cardinality(In(g, steps)) \in Nat
  BY InIsFinite
<1>2. \A u \in Threads : u # t => g[u] = f[u]
  BY DEF OnlyMoves
<1>3. CASE f[t] \in steps <=> g[t] \in steps
  <2>1. In(g, steps) = In(f, steps)
    BY <1>2, <1>3 DEF In
  <2>. QED BY <1>1, <1>3, <2>1 DEF CountChanges, Gain
<1>4. CASE f[t] \notin steps /\ g[t] \in steps
  <2>1. In(g, steps) = In(f, steps) \union {t} /\ t \notin In(f, steps)
    BY <1>2, <1>4 DEF In
  <2>2. Cardinality(In(g, steps)) = Cardinality(In(f, steps)) + 1
    BY <1>1, <2>1, FS_AddElement
  <2>. QED BY <1>4, <2>2 DEF CountChanges, Gain
<1>5. CASE f[t] \in steps /\ g[t] \notin steps
  <2>1. In(g, steps) = In(f, steps) \ {t} /\ t \in In(f, steps)
    BY <1>2, <1>5 DEF In
  <2>2. Cardinality(In(g, steps)) = Cardinality(In(f, steps)) - 1
    BY <1>1, <2>1, FS_RemoveElement
  <2>. QED BY <1>1, <1>5, <2>2 DEF CountChanges, Gain
<1>. QED BY <1>3, <1>4, <1>5

-----------------------------------------------------------------------------
(***************************************************************************)
(* Types                                                                   *)
(***************************************************************************)
\* TypeOK is not inductive by itself: that EnQueue stays below MaxPush rests on
\* the test made when the call began.
HasRoom == \A p \in Producers : pc[p] \in {"push", "enqueue"} => sent[p] < MaxPush

TypeInv == TypeOK /\ HasRoom

LEMMA TypeInit == Init => TypeInv
BY ThreadsAssumption, BoundsAssumption
   DEF Init, TypeInv, TypeOK, HasRoom, Threads, PushSteps, PopSteps, Message

LEMMA TypeNext == TypeInv /\ [Next]_vars => TypeInv'
<1> SUFFICES ASSUME TypeInv, [Next]_vars PROVE TypeInv'
  OBVIOUS
<1> USE ThreadsAssumption, BoundsAssumption
    DEF TypeInv, TypeOK, HasRoom, Threads, PushSteps, PopSteps,
        Goto, Lock, LockEvent, UnLock, UnLockEvent
<1>1. ASSUME NEW p \in Producers, PushMsg(p) PROVE TypeInv'
  BY <1>1 DEF PushMsg
<1>2. ASSUME NEW p \in Producers, PushLock(p) PROVE TypeInv'
  BY <1>2 DEF PushLock
<1>3. ASSUME NEW p \in Producers, EnQueue(p) PROVE TypeInv'
  <2>1. <<p, sent[p] + 1>> \in Message
    BY <1>3 DEF EnQueue, Message
  <2>2. m_MsgQueue' \in Seq(Message)
    BY <1>3, <2>1 DEF EnQueue
  <2>. QED BY <1>3, <2>2 DEF EnQueue
<1>4. ASSUME NEW p \in Producers, ProduceLock(p) PROVE TypeInv'
  BY <1>4 DEF ProduceLock
<1>5. ASSUME NEW p \in Producers, ProduceIncrement(p) PROVE TypeInv'
  BY <1>5 DEF ProduceIncrement
<1>6. ASSUME NEW p \in Producers, WakeUp(p) PROVE TypeInv'
  BY <1>6 DEF WakeUp, At
<1>7. ASSUME NEW c \in Consumers, PopMsg(c) PROVE TypeInv'
  BY <1>7 DEF PopMsg
<1>8. ASSUME NEW c \in Consumers, ConsumeLock(c) PROVE TypeInv'
  BY <1>8 DEF ConsumeLock
<1>9. ASSUME NEW c \in Consumers, ConsumeWait(c) PROVE TypeInv'
  BY <1>9 DEF ConsumeWait
<1>10. ASSUME NEW c \in Consumers, SpuriousWakeUp(c) PROVE TypeInv'
  BY <1>10 DEF SpuriousWakeUp
<1>11. ASSUME NEW c \in Consumers, ConsumeReLock(c) PROVE TypeInv'
  BY <1>11 DEF ConsumeReLock
<1>12. ASSUME NEW c \in Consumers, ConsumeDecrement(c) PROVE TypeInv'
  BY <1>12 DEF ConsumeDecrement
<1>13. ASSUME NEW c \in Consumers, PopLock(c) PROVE TypeInv'
  BY <1>13 DEF PopLock
<1>14. ASSUME NEW c \in Consumers, DeQueue(c) PROVE TypeInv'
  <2>1. /\ m_MsgQueue' \in Seq(Message)
        /\ got' \in [Consumers -> Seq(Message)]
    <3>1. CASE m_MsgQueue = << >>
      BY <1>14, <3>1 DEF DeQueue
    <3>2. CASE m_MsgQueue # << >>
      <4>1. Tail(m_MsgQueue) \in Seq(Message) /\ Head(m_MsgQueue) \in Message
        BY <3>2, HeadTailProperties
      <4>2. Append(got[c], Head(m_MsgQueue)) \in Seq(Message)
        BY <4>1, AppendProperties
      <4>3. /\ m_MsgQueue' = Tail(m_MsgQueue)
            /\ got' = [got EXCEPT ![c] = Append(@, Head(m_MsgQueue))]
        BY <1>14, <3>2 DEF DeQueue
      <4>4. m_MsgQueue' \in Seq(Message)
        BY <4>1, <4>3
      <4>5. got' \in [Consumers -> Seq(Message)]
        BY <4>2, <4>3
      <4>. QED BY <4>4, <4>5
    <3>. QED BY <3>1, <3>2
  <2>. QED BY <1>14, <2>1 DEF DeQueue
<1>15. CASE UNCHANGED vars
  BY <1>15 DEF vars
<1>. QED
  BY <1>1, <1>2, <1>3, <1>4, <1>5, <1>6, <1>7, <1>8, <1>9, <1>10, <1>11, <1>12,
     <1>13, <1>14, <1>15 DEF Next, PushStep, PopStep

LEMMA TypeInvariant == SafeSpec => []TypeInv
BY TypeInit, TypeNext, PTL DEF SafeSpec

\* TypeOK holds in every reachable state.
THEOREM TypeCorrect == SafeSpec => []TypeOK
<1>1. TypeInv => TypeOK
  BY DEF TypeInv
<1>. QED BY <1>1, TypeInvariant, PTL

-----------------------------------------------------------------------------
(***************************************************************************)
(* The two mutexes                                                         *)
(***************************************************************************)
LEMMA MutexInit == Init => MutualExclusion
BY ThreadsAssumption DEF Init, MutualExclusion, Threads

LEMMA MutexNext == TypeInv /\ MutualExclusion /\ [Next]_vars => MutualExclusion'
<1> SUFFICES ASSUME TypeInv, MutualExclusion, [Next]_vars PROVE MutualExclusion'
  OBVIOUS
<1> USE ThreadsAssumption DEF Threads, Goto, Lock, LockEvent, UnLock, UnLockEvent
<1>0. pc \in [Threads -> PushSteps \union PopSteps]
  BY DEF TypeInv, TypeOK
<1>1. ASSUME NEW p \in Producers, PushMsg(p) PROVE MutualExclusion'
  BY <1>0, <1>1 DEF PushMsg, MutualExclusion
<1>2. ASSUME NEW p \in Producers, PushLock(p) PROVE MutualExclusion'
  BY <1>0, <1>2 DEF PushLock, MutualExclusion
<1>3. ASSUME NEW p \in Producers, EnQueue(p) PROVE MutualExclusion'
  BY <1>0, <1>3 DEF EnQueue, MutualExclusion
<1>4. ASSUME NEW p \in Producers, ProduceLock(p) PROVE MutualExclusion'
  BY <1>0, <1>4 DEF ProduceLock, MutualExclusion
<1>5. ASSUME NEW p \in Producers, ProduceIncrement(p) PROVE MutualExclusion'
  BY <1>0, <1>5 DEF ProduceIncrement, MutualExclusion
<1>6. ASSUME NEW p \in Producers, WakeUp(p) PROVE MutualExclusion'
  <2>1. CASE \E c \in At({"waiting"}) : pc' = [pc EXCEPT ![p] = "idle", ![c] = "woken"]
    <3>1. PICK c \in Threads :
            /\ pc[c] = "waiting"
            /\ pc' = [pc EXCEPT ![p] = "idle", ![c] = "woken"]
      BY <2>1 DEF At
    <3>2. \A t \in Threads :
            /\ pc[t] \in {"enqueue", "dequeue", "threw"} <=> pc'[t] \in {"enqueue", "dequeue", "threw"}
            /\ pc[t] \in {"increment", "check"} <=> pc'[t] \in {"increment", "check"}
      BY <1>0, <1>6, <3>1 DEF WakeUp
    <3>. QED BY <1>6, <3>2 DEF WakeUp, MutualExclusion
  <2>2. CASE pc' = [pc EXCEPT ![p] = "idle"]
    BY <1>0, <1>6, <2>2 DEF WakeUp, MutualExclusion
  <2>. QED BY <1>6, <2>1, <2>2 DEF WakeUp
<1>7. ASSUME NEW c \in Consumers, PopMsg(c) PROVE MutualExclusion'
  BY <1>0, <1>7 DEF PopMsg, MutualExclusion
<1>8. ASSUME NEW c \in Consumers, ConsumeLock(c) PROVE MutualExclusion'
  BY <1>0, <1>8 DEF ConsumeLock, MutualExclusion
<1>9. ASSUME NEW c \in Consumers, ConsumeWait(c) PROVE MutualExclusion'
  BY <1>0, <1>9 DEF ConsumeWait, MutualExclusion
<1>10. ASSUME NEW c \in Consumers, SpuriousWakeUp(c) PROVE MutualExclusion'
  BY <1>0, <1>10 DEF SpuriousWakeUp, MutualExclusion
<1>11. ASSUME NEW c \in Consumers, ConsumeReLock(c) PROVE MutualExclusion'
  BY <1>0, <1>11 DEF ConsumeReLock, MutualExclusion
<1>12. ASSUME NEW c \in Consumers, ConsumeDecrement(c) PROVE MutualExclusion'
  BY <1>0, <1>12 DEF ConsumeDecrement, MutualExclusion
<1>13. ASSUME NEW c \in Consumers, PopLock(c) PROVE MutualExclusion'
  BY <1>0, <1>13 DEF PopLock, MutualExclusion
<1>14. ASSUME NEW c \in Consumers, DeQueue(c) PROVE MutualExclusion'
  BY <1>0, <1>14 DEF DeQueue, MutualExclusion
<1>15. CASE UNCHANGED vars
  BY <1>15 DEF vars, MutualExclusion
<1>. QED
  BY <1>1, <1>2, <1>3, <1>4, <1>5, <1>6, <1>7, <1>8, <1>9, <1>10, <1>11, <1>12,
     <1>13, <1>14, <1>15 DEF Next, PushStep, PopStep

\* A mutex is owned by exactly the thread that is between its Lock and UnLock.
THEOREM MutexesExclude == SafeSpec => []MutualExclusion
BY TypeInvariant, MutexInit, MutexNext, PTL DEF SafeSpec
-----------------------------------------------------------------------------
(***************************************************************************)
(* The event counter and the queue                                         *)
(***************************************************************************)
LEMMA Counting ==
    ASSUME TypeInv, NEW steps
    PROVE  IsFiniteSet(At(steps)) /\ Cardinality(At(steps)) \in Nat
BY InIsFinite, At(steps) = In(pc, steps) DEF At, In

\* What one step of one thread does to the counts the invariants speak of.
LEMMA Step ==
    ASSUME TypeInv, NEW t \in Threads, NEW to, pc' = [pc EXCEPT ![t] = to],
           NEW CONSTANT steps
    PROVE  Cardinality(At(steps)') = Cardinality(At(steps)) + Gain(pc[t], to, steps)
<1>1. At(steps) = In(pc, steps) /\ At(steps)' = In(pc', steps)
  BY DEF At, In
<1>2. pc'[t] = to /\ OnlyMoves(t, pc, pc')
  BY DEF TypeInv, TypeOK, OnlyMoves
<1>3. CountChanges(t, pc, pc', steps)
  BY <1>2, Move
<1>. QED BY <1>1, <1>2, <1>3 DEF CountChanges

\* The events, the queue and the threads between the two halves of a call.
Accounting == EventAccounting /\ NeverDeQueueEmpty

LEMMA AccountingInit == Init => Accounting
<1> SUFFICES ASSUME Init PROVE Accounting
  OBVIOUS
<1>1. Uncounted = {} /\ Entitled = {} /\ At({"threw"}) = {}
  BY DEF Init, Uncounted, Entitled, At
<1>. QED BY <1>1, FS_EmptySet DEF Init, Accounting, EventAccounting, NeverDeQueueEmpty

\* The queue cannot be empty under a consumer that holds its lock.
LEMMA EntitledFindsMessage ==
    ASSUME TypeInv, Accounting, NEW c \in Consumers, pc[c] = "dequeue"
    PROVE  m_MsgQueue # << >>
<1>1. c \in Entitled
  BY DEF Entitled, At, Threads
<1>2. IsFiniteSet(Entitled) /\ Cardinality(Entitled) \in Nat /\ Cardinality(Uncounted) \in Nat
  BY Counting DEF Entitled, Uncounted
<1>3. Cardinality(Entitled) # 0
  BY <1>1, <1>2, FS_EmptySet
<1>4. m_Events \in Nat
  BY DEF TypeInv, TypeOK
<1>. QED BY <1>2, <1>3, <1>4 DEF Accounting, EventAccounting

\* A thread that changes no count of the accounting.
LEMMA AccountingKept ==
    ASSUME TypeInv, Accounting, m_MsgQueue' = m_MsgQueue, m_Events' = m_Events,
           \A t \in Threads :
              /\ pc'[t] \in {"produce", "increment"} <=> pc[t] \in {"produce", "increment"}
              /\ pc'[t] \in {"pop", "dequeue"} <=> pc[t] \in {"pop", "dequeue"}
              /\ pc'[t] = "threw" => pc[t] = "threw"
    PROVE  Accounting'
<1>1. Uncounted' = Uncounted /\ Entitled' = Entitled
  BY DEF Uncounted, Entitled, At
<1>2. At({"threw"})' = {}
  BY DEF Accounting, NeverDeQueueEmpty, At
<1>. QED BY <1>1, <1>2 DEF Accounting, EventAccounting, NeverDeQueueEmpty

LEMMA AccountingNext == TypeInv /\ Accounting /\ [Next]_vars => Accounting'
<1> SUFFICES ASSUME TypeInv, Accounting, [Next]_vars PROVE Accounting'
  OBVIOUS
<1> USE DEF Threads, Goto
<1>0. /\ pc \in [Threads -> PushSteps \union PopSteps]
      /\ m_MsgQueue \in Seq(Message) /\ m_Events \in Nat
      /\ Len(m_MsgQueue) = m_Events + Cardinality(Uncounted) + Cardinality(Entitled)
      /\ Cardinality(Uncounted) \in Nat /\ Cardinality(Entitled) \in Nat
      /\ \A t \in Threads : pc[t] # "threw"
  BY Counting DEF TypeInv, TypeOK, Accounting, EventAccounting, NeverDeQueueEmpty,
     Uncounted, Entitled, At
<1>1. ASSUME NEW p \in Producers, PushMsg(p) PROVE Accounting'
  BY <1>0, <1>1, AccountingKept DEF PushMsg
<1>2. ASSUME NEW p \in Producers, PushLock(p) PROVE Accounting'
  BY <1>0, <1>2, AccountingKept DEF PushLock
<1>3. ASSUME NEW p \in Producers, EnQueue(p) PROVE Accounting'
  <2>1. pc' = [pc EXCEPT ![p] = "produce"] /\ pc[p] = "enqueue"
    BY <1>3 DEF EnQueue
  <2>2. /\ Cardinality(Uncounted') = Cardinality(Uncounted) + 1
        /\ Cardinality(Entitled') = Cardinality(Entitled)
    <3>1. p \in Threads /\ pc[p] = "enqueue" /\ pc' = [pc EXCEPT ![p] = "produce"]
      BY <2>1
    <3>2. /\ Cardinality(Uncounted') = Cardinality(Uncounted)
                                       + Gain("enqueue", "produce", {"produce", "increment"})
          /\ Cardinality(Entitled') = Cardinality(Entitled)
                                       + Gain("enqueue", "produce", {"pop", "dequeue"})
      BY <3>1, Step DEF Uncounted, Entitled
    <3>. QED BY <1>0, <3>2 DEF Gain
  <2>3. Len(m_MsgQueue') = Len(m_MsgQueue) + 1 /\ m_Events' = m_Events
    <3>1. m_MsgQueue' = Append(m_MsgQueue, <<p, sent[p] + 1>>) /\ m_Events' = m_Events
      BY <1>3 DEF EnQueue
    <3>2. \A x : Len(Append(m_MsgQueue, x)) = Len(m_MsgQueue) + 1
      BY <1>0
    <3>. QED BY <3>1, <3>2
  <2>4. At({"threw"})' = {}
    BY <1>0, <2>1 DEF At
  <2>. QED BY <1>0, <2>2, <2>3, <2>4 DEF Accounting, EventAccounting, NeverDeQueueEmpty
<1>4. ASSUME NEW p \in Producers, ProduceLock(p) PROVE Accounting'
  BY <1>0, <1>4, AccountingKept DEF ProduceLock
<1>5. ASSUME NEW p \in Producers, ProduceIncrement(p) PROVE Accounting'
  <2>1. pc' = [pc EXCEPT ![p] = "signal"] /\ pc[p] = "increment"
    BY <1>5 DEF ProduceIncrement
  <2>2. /\ Cardinality(Uncounted') = Cardinality(Uncounted) - 1
        /\ Cardinality(Entitled') = Cardinality(Entitled)
    <3>1. p \in Threads /\ pc[p] = "increment" /\ pc' = [pc EXCEPT ![p] = "signal"]
      BY <2>1
    <3>2. /\ Cardinality(Uncounted') = Cardinality(Uncounted)
                                       + Gain("increment", "signal", {"produce", "increment"})
          /\ Cardinality(Entitled') = Cardinality(Entitled)
                                       + Gain("increment", "signal", {"pop", "dequeue"})
      BY <3>1, Step DEF Uncounted, Entitled
    <3>. QED BY <1>0, <3>2 DEF Gain
  <2>3. m_MsgQueue' = m_MsgQueue /\ m_Events' = m_Events + 1
    BY <1>5 DEF ProduceIncrement
  <2>4. At({"threw"})' = {}
    BY <1>0, <2>1 DEF At
  <2>. QED BY <1>0, <2>2, <2>3, <2>4 DEF Accounting, EventAccounting, NeverDeQueueEmpty
<1>6. ASSUME NEW p \in Producers, WakeUp(p) PROVE Accounting'
  <2>1. CASE \E c \in At({"waiting"}) : pc' = [pc EXCEPT ![p] = "idle", ![c] = "woken"]
    <3>1. PICK c \in Threads :
            pc[c] = "waiting" /\ pc' = [pc EXCEPT ![p] = "idle", ![c] = "woken"]
      BY <2>1 DEF At
    <3>. QED BY <1>0, <1>6, <3>1, AccountingKept DEF WakeUp
  <2>2. CASE pc' = [pc EXCEPT ![p] = "idle"]
    BY <1>0, <1>6, <2>2, AccountingKept DEF WakeUp
  <2>. QED BY <1>6, <2>1, <2>2 DEF WakeUp
<1>7. ASSUME NEW c \in Consumers, PopMsg(c) PROVE Accounting'
  BY <1>0, <1>7, AccountingKept DEF PopMsg
<1>8. ASSUME NEW c \in Consumers, ConsumeLock(c) PROVE Accounting'
  BY <1>0, <1>8, AccountingKept DEF ConsumeLock
<1>9. ASSUME NEW c \in Consumers, ConsumeWait(c) PROVE Accounting'
  BY <1>0, <1>9, AccountingKept DEF ConsumeWait
<1>10. ASSUME NEW c \in Consumers, SpuriousWakeUp(c) PROVE Accounting'
  BY <1>0, <1>10, AccountingKept DEF SpuriousWakeUp
<1>11. ASSUME NEW c \in Consumers, ConsumeReLock(c) PROVE Accounting'
  BY <1>0, <1>11, AccountingKept DEF ConsumeReLock
<1>12. ASSUME NEW c \in Consumers, ConsumeDecrement(c) PROVE Accounting'
  <2>1. pc' = [pc EXCEPT ![c] = "pop"] /\ pc[c] = "check"
    BY <1>12 DEF ConsumeDecrement
  <2>2. /\ Cardinality(Uncounted') = Cardinality(Uncounted)
        /\ Cardinality(Entitled') = Cardinality(Entitled) + 1
    <3>1. c \in Threads /\ pc[c] = "check" /\ pc' = [pc EXCEPT ![c] = "pop"]
      BY <2>1
    <3>2. /\ Cardinality(Uncounted') = Cardinality(Uncounted)
                                       + Gain("check", "pop", {"produce", "increment"})
          /\ Cardinality(Entitled') = Cardinality(Entitled)
                                       + Gain("check", "pop", {"pop", "dequeue"})
      BY <3>1, Step DEF Uncounted, Entitled
    <3>. QED BY <1>0, <3>2 DEF Gain
  <2>3. m_MsgQueue' = m_MsgQueue /\ m_Events' = m_Events - 1
    BY <1>12 DEF ConsumeDecrement
  <2>4. At({"threw"})' = {}
    BY <1>0, <2>1 DEF At
  <2>. QED BY <1>0, <2>2, <2>3, <2>4 DEF Accounting, EventAccounting, NeverDeQueueEmpty
<1>13. ASSUME NEW c \in Consumers, PopLock(c) PROVE Accounting'
  BY <1>0, <1>13, AccountingKept DEF PopLock
<1>14. ASSUME NEW c \in Consumers, DeQueue(c) PROVE Accounting'
  <2>1. pc[c] = "dequeue" /\ m_MsgQueue # << >>
    BY <1>14, EntitledFindsMessage DEF DeQueue
  <2>2. pc' = [pc EXCEPT ![c] = "idle"] /\ m_MsgQueue' = Tail(m_MsgQueue) /\ m_Events' = m_Events
    BY <1>14, <2>1 DEF DeQueue
  <2>3. /\ Cardinality(Uncounted') = Cardinality(Uncounted)
        /\ Cardinality(Entitled') = Cardinality(Entitled) - 1
    <3>1. c \in Threads /\ pc[c] = "dequeue" /\ pc' = [pc EXCEPT ![c] = "idle"]
      BY <2>1, <2>2
    <3>2. /\ Cardinality(Uncounted') = Cardinality(Uncounted)
                                       + Gain("dequeue", "idle", {"produce", "increment"})
          /\ Cardinality(Entitled') = Cardinality(Entitled)
                                       + Gain("dequeue", "idle", {"pop", "dequeue"})
      BY <3>1, Step DEF Uncounted, Entitled
    <3>. QED BY <1>0, <3>2 DEF Gain
  <2>4. Len(m_MsgQueue') = Len(m_MsgQueue) - 1
    BY <1>0, <2>1, <2>2, HeadTailProperties
  <2>5. At({"threw"})' = {}
    BY <1>0, <2>2 DEF At
  <2>. QED BY <1>0, <2>2, <2>3, <2>4, <2>5 DEF Accounting, EventAccounting, NeverDeQueueEmpty
<1>15. CASE UNCHANGED vars
  BY <1>15, AccountingKept DEF vars
<1>. QED
  BY <1>1, <1>2, <1>3, <1>4, <1>5, <1>6, <1>7, <1>8, <1>9, <1>10, <1>11, <1>12,
     <1>13, <1>14, <1>15 DEF Next, PushStep, PopStep

LEMMA AccountingInvariant == SafeSpec => []Accounting
BY TypeInvariant, AccountingInit, AccountingNext, PTL DEF SafeSpec

\* The counter and the queue agree in every reachable state, for any number of
\* producers and consumers.
THEOREM EventsAccountForMessages == SafeSpec => []EventAccounting
<1>1. Accounting => EventAccounting
  BY DEF Accounting
<1>. QED BY <1>1, AccountingInvariant, PTL

\* No consumer ever dequeues from an empty queue.
THEOREM PopMsgNeverThrows == SafeSpec => []NeverDeQueueEmpty
<1>1. Accounting => NeverDeQueueEmpty
  BY DEF Accounting
<1>. QED BY <1>1, AccountingInvariant, PTL
-----------------------------------------------------------------------------
(***************************************************************************)
(* The condition variable                                                  *)
(***************************************************************************)
\* The signals on their way, and the consumers about to test the counter.
Signals == Cardinality(At({"signal"}))
Testers == Cardinality(At({"woken", "check"}))

LEMMA NoLostWakeUpInit == Init => NoLostWakeUp
BY DEF Init, NoLostWakeUp, At

\* A thread that neither changes the counter nor the two counts, and does not
\* go to sleep.
LEMMA NoLostWakeUpKept ==
    ASSUME TypeInv, NoLostWakeUp, m_Events' = m_Events,
           \A t \in Threads :
              /\ pc'[t] = "signal" <=> pc[t] = "signal"
              /\ pc'[t] \in {"woken", "check"} <=> pc[t] \in {"woken", "check"}
              /\ pc'[t] = "waiting" => pc[t] = "waiting"
    PROVE  NoLostWakeUp'
<1>1. /\ At({"signal"})' = At({"signal"})
      /\ At({"woken", "check"})' = At({"woken", "check"})
      /\ At({"waiting"})' \subseteq At({"waiting"})
  BY DEF At
<1>. QED BY <1>1 DEF NoLostWakeUp

\* One thread moves, and what the counter gains the two counts gain too.
Moves(t, from, to) == pc[t] = from /\ pc' = [pc EXCEPT ![t] = to]

Covers(from, to) ==
    /\ m_Events' \in Nat /\ to # "waiting"
    /\ m_Events' - m_Events <= Gain(from, to, {"signal"}) + Gain(from, to, {"woken", "check"})

LEMMA NoLostWakeUpStep ==
    ASSUME TypeInv, NoLostWakeUp,
           NEW t \in Threads, NEW from, NEW to, Moves(t, from, to), Covers(from, to)
    PROVE  NoLostWakeUp'
<1>0. pc[t] = from /\ pc' = [pc EXCEPT ![t] = to]
  BY DEF Moves
<1>1. /\ Signals' = Signals + Gain(from, to, {"signal"})
      /\ Testers' = Testers + Gain(from, to, {"woken", "check"})
  BY <1>0, Step DEF Signals, Testers
<1>2. Signals \in Nat /\ Testers \in Nat /\ m_Events \in Nat
  BY Counting DEF Signals, Testers, TypeInv, TypeOK
<1>3. At({"waiting"})' \subseteq At({"waiting"})
  BY <1>0 DEF At, TypeInv, TypeOK, Covers
<1>4. NoLostWakeUp <=> (At({"waiting"}) # {} => m_Events <= Signals + Testers)
  BY DEF NoLostWakeUp, Signals, Testers
<1>5. NoLostWakeUp' <=> (At({"waiting"})' # {} => m_Events' <= Signals' + Testers')
  BY DEF NoLostWakeUp, Signals, Testers
<1>6. /\ Gain(from, to, {"signal"}) \in Int
      /\ Gain(from, to, {"woken", "check"}) \in Int
  BY DEF Gain
<1>7. m_Events' \in Nat /\ m_Events' - m_Events <= Gain(from, to, {"signal"}) + Gain(from, to, {"woken", "check"})
  BY DEF Covers
<1>8. m_Events <= Signals + Testers => m_Events' <= Signals' + Testers'
  BY <1>1, <1>2, <1>6, <1>7
<1>. QED BY <1>3, <1>4, <1>5, <1>8

LEMMA NoLostWakeUpNext == TypeInv /\ NoLostWakeUp /\ [Next]_vars => NoLostWakeUp'
<1> SUFFICES ASSUME TypeInv, NoLostWakeUp, [Next]_vars PROVE NoLostWakeUp'
  OBVIOUS
<1> USE DEF Threads, Goto
<1>0. pc \in [Threads -> PushSteps \union PopSteps] /\ m_Events \in Nat
  BY DEF TypeInv, TypeOK
<1>1. ASSUME NEW p \in Producers, PushMsg(p) PROVE NoLostWakeUp'
  BY <1>0, <1>1, NoLostWakeUpKept DEF PushMsg
<1>2. ASSUME NEW p \in Producers, PushLock(p) PROVE NoLostWakeUp'
  BY <1>0, <1>2, NoLostWakeUpKept DEF PushLock
<1>3. ASSUME NEW p \in Producers, EnQueue(p) PROVE NoLostWakeUp'
  BY <1>0, <1>3, NoLostWakeUpKept DEF EnQueue
<1>4. ASSUME NEW p \in Producers, ProduceLock(p) PROVE NoLostWakeUp'
  BY <1>0, <1>4, NoLostWakeUpKept DEF ProduceLock
<1>5. ASSUME NEW p \in Producers, ProduceIncrement(p) PROVE NoLostWakeUp'
  <2>1. p \in Threads /\ Moves(p, "increment", "signal")
    BY <1>5 DEF ProduceIncrement, Moves
  <2>2. m_Events' = m_Events + 1 /\ m_Events' \in Nat
    BY <1>0, <1>5 DEF ProduceIncrement
  <2>3. /\ Gain("increment", "signal", {"signal"}) = 1
        /\ Gain("increment", "signal", {"woken", "check"}) = 0
    BY DEF Gain
  <2>4. Covers("increment", "signal")
    BY <1>0, <2>2, <2>3 DEF Covers
  <2>. QED BY <2>1, <2>4, NoLostWakeUpStep
<1>6. ASSUME NEW p \in Producers, WakeUp(p) PROVE NoLostWakeUp'
  <2>1. CASE \E c \in At({"waiting"}) : pc' = [pc EXCEPT ![p] = "idle", ![c] = "woken"]
    <3>1. PICK c \in Threads :
            pc[c] = "waiting" /\ pc' = [pc EXCEPT ![p] = "idle", ![c] = "woken"]
      BY <2>1 DEF At
    <3>2. pc[p] = "signal" /\ m_Events' = m_Events /\ p # c
      BY <1>6, <3>1 DEF WakeUp
    <3>3. PICK middle : middle = [pc EXCEPT ![p] = "idle"]
      OBVIOUS
    <3>4. /\ OnlyMoves(p, pc, middle) /\ middle[p] = "idle"
          /\ OnlyMoves(c, middle, pc') /\ middle[c] = "waiting" /\ pc'[c] = "woken"
      BY <1>0, <3>1, <3>2, <3>3 DEF OnlyMoves
    <3>5. /\ CountChanges(p, pc, middle, {"signal"})
          /\ CountChanges(p, pc, middle, {"woken", "check"})
          /\ CountChanges(c, middle, pc', {"signal"})
          /\ CountChanges(c, middle, pc', {"woken", "check"})
      BY <3>4, Move
    <3>6. /\ Cardinality(In(pc, {"signal"})) \in Nat
          /\ Cardinality(In(pc, {"woken", "check"})) \in Nat
      BY InIsFinite
    <3>7. /\ Cardinality(In(pc', {"signal"})) = Cardinality(In(pc, {"signal"})) - 1
          /\ Cardinality(In(pc', {"woken", "check"})) = Cardinality(In(pc, {"woken", "check"})) + 1
      BY <3>2, <3>4, <3>5, <3>6 DEF CountChanges, Gain
    <3>8. /\ At({"signal"}) = In(pc, {"signal"}) /\ At({"signal"})' = In(pc', {"signal"})
          /\ At({"woken", "check"}) = In(pc, {"woken", "check"})
          /\ At({"woken", "check"})' = In(pc', {"woken", "check"})
          /\ c \in At({"waiting"})
      BY <3>1 DEF At, In
    <3>9. m_Events <= Cardinality(In(pc, {"signal"})) + Cardinality(In(pc, {"woken", "check"}))
      BY <3>8 DEF NoLostWakeUp
    <3>10. m_Events' <= Cardinality(At({"signal"})') + Cardinality(At({"woken", "check"})')
      BY <1>0, <3>2, <3>6, <3>7, <3>8, <3>9
    <3>. QED BY <3>10 DEF NoLostWakeUp
  <2>2. CASE At({"waiting"}) = {} /\ pc' = [pc EXCEPT ![p] = "idle"]
    <3>1. At({"waiting"})' = {}
      BY <1>0, <2>2 DEF At
    <3>. QED BY <3>1 DEF NoLostWakeUp
  <2>. QED BY <1>6, <2>1, <2>2 DEF WakeUp
<1>7. ASSUME NEW c \in Consumers, PopMsg(c) PROVE NoLostWakeUp'
  BY <1>0, <1>7, NoLostWakeUpKept DEF PopMsg
<1>8. ASSUME NEW c \in Consumers, ConsumeLock(c) PROVE NoLostWakeUp'
  <2>1. c \in Threads /\ Moves(c, "consume", "check")
    BY <1>8 DEF ConsumeLock, Moves
  <2>2. m_Events' = m_Events /\ m_Events' \in Nat
    BY <1>0, <1>8 DEF ConsumeLock
  <2>3. /\ Gain("consume", "check", {"signal"}) = 0
        /\ Gain("consume", "check", {"woken", "check"}) = 1
    BY DEF Gain
  <2>4. Covers("consume", "check")
    BY <1>0, <2>2, <2>3 DEF Covers
  <2>. QED BY <2>1, <2>4, NoLostWakeUpStep
<1>9. ASSUME NEW c \in Consumers, ConsumeWait(c) PROVE NoLostWakeUp'
  <2>1. m_Events' = 0
    BY <1>9 DEF ConsumeWait
  <2>2. pc' \in [Threads -> PushSteps \union PopSteps]
    BY <1>0, <1>9 DEF ConsumeWait, PopSteps
  <2>3. /\ At({"signal"})' = In(pc', {"signal"})
        /\ At({"woken", "check"})' = In(pc', {"woken", "check"})
    BY DEF At, In
  <2>4. /\ Cardinality(At({"signal"})') \in Nat
        /\ Cardinality(At({"woken", "check"})') \in Nat
    BY <2>3, InIsFinite
  <2>. QED BY <2>1, <2>4 DEF NoLostWakeUp
<1>10. ASSUME NEW c \in Consumers, SpuriousWakeUp(c) PROVE NoLostWakeUp'
  <2>1. c \in Threads /\ Moves(c, "waiting", "woken")
    BY <1>10 DEF SpuriousWakeUp, Moves
  <2>2. m_Events' = m_Events /\ m_Events' \in Nat
    BY <1>0, <1>10 DEF SpuriousWakeUp
  <2>3. /\ Gain("waiting", "woken", {"signal"}) = 0
        /\ Gain("waiting", "woken", {"woken", "check"}) = 1
    BY DEF Gain
  <2>4. Covers("waiting", "woken")
    BY <1>0, <2>2, <2>3 DEF Covers
  <2>. QED BY <2>1, <2>4, NoLostWakeUpStep
<1>11. ASSUME NEW c \in Consumers, ConsumeReLock(c) PROVE NoLostWakeUp'
  <2>1. c \in Threads /\ Moves(c, "woken", "check")
    BY <1>11 DEF ConsumeReLock, Moves
  <2>2. m_Events' = m_Events /\ m_Events' \in Nat
    BY <1>0, <1>11 DEF ConsumeReLock
  <2>3. /\ Gain("woken", "check", {"signal"}) = 0
        /\ Gain("woken", "check", {"woken", "check"}) = 0
    BY DEF Gain
  <2>4. Covers("woken", "check")
    BY <1>0, <2>2, <2>3 DEF Covers
  <2>. QED BY <2>1, <2>4, NoLostWakeUpStep
<1>12. ASSUME NEW c \in Consumers, ConsumeDecrement(c) PROVE NoLostWakeUp'
  <2>1. c \in Threads /\ Moves(c, "check", "pop")
    BY <1>12 DEF ConsumeDecrement, Moves
  <2>2. m_Events' = m_Events - 1 /\ m_Events' \in Nat
    BY <1>0, <1>12 DEF ConsumeDecrement
  <2>3. /\ Gain("check", "pop", {"signal"}) = 0
        /\ Gain("check", "pop", {"woken", "check"}) = -1
    BY DEF Gain
  <2>4. Covers("check", "pop")
    BY <1>0, <2>2, <2>3 DEF Covers
  <2>. QED BY <2>1, <2>4, NoLostWakeUpStep
<1>13. ASSUME NEW c \in Consumers, PopLock(c) PROVE NoLostWakeUp'
  BY <1>0, <1>13, NoLostWakeUpKept DEF PopLock
<1>14. ASSUME NEW c \in Consumers, DeQueue(c) PROVE NoLostWakeUp'
  BY <1>0, <1>14, NoLostWakeUpKept DEF DeQueue
<1>15. CASE UNCHANGED vars
  BY <1>15, NoLostWakeUpKept DEF vars
<1>. QED
  BY <1>1, <1>2, <1>3, <1>4, <1>5, <1>6, <1>7, <1>8, <1>9, <1>10, <1>11, <1>12,
     <1>13, <1>14, <1>15 DEF Next, PushStep, PopStep

\* A consumer never sleeps while there is an event that nobody is on the way to
\* tell it of, although Produce signals after it has released the mutex.
THEOREM NoWakeUpIsLost == SafeSpec => []NoLostWakeUp
BY TypeInvariant, NoLostWakeUpInit, NoLostWakeUpNext, PTL DEF SafeSpec

-----------------------------------------------------------------------------
(***************************************************************************)
(* The queue implements the FIFO                                           *)
(***************************************************************************)
\* The consumers inside PopMsg.
Asking == {c \in Consumers : pc[c] # "idle"}

LEMMA RefinesInit == Init => Channel!Init
BY DEF Init, Channel!Init, Threads

\* A step inside a call that touches neither the queue nor what callers see.
LEMMA Invisible ==
    ASSUME UNCHANGED <<m_MsgQueue, sent, got>>,
           \A c \in Consumers : pc'[c] = "idle" <=> pc[c] = "idle"
    PROVE  UNCHANGED Channel!chanVars
BY DEF Channel!chanVars

LEMMA RefinesNext == TypeInv /\ [Next]_vars => [Channel!Next]_(Channel!chanVars)
<1> SUFFICES ASSUME TypeInv, [Next]_vars PROVE Channel!Next \/ UNCHANGED Channel!chanVars
  OBVIOUS
<1> USE ThreadsAssumption DEF Threads, Goto
<1>0. pc \in [Threads -> PushSteps \union PopSteps]
  BY DEF TypeInv, TypeOK
<1>1. ASSUME NEW p \in Producers, PushMsg(p) \/ PushLock(p) \/ ProduceLock(p) \/ ProduceIncrement(p)
      PROVE  UNCHANGED Channel!chanVars
  BY <1>0, <1>1, Invisible DEF PushMsg, PushLock, ProduceLock, ProduceIncrement
<1>2. ASSUME NEW p \in Producers, EnQueue(p) PROVE Channel!Push(p)
  <2>1. pc[p] = "enqueue" /\ pc' = [pc EXCEPT ![p] = "produce"] /\ sent[p] < MaxPush
    BY <1>2 DEF EnQueue, TypeInv, HasRoom
  <2>2. \A c \in Consumers : pc'[c] = pc[c]
    BY <1>0, <2>1
  <2>. QED BY <1>2, <2>1, <2>2 DEF EnQueue, Channel!Push
<1>3. ASSUME NEW p \in Producers, WakeUp(p) PROVE UNCHANGED Channel!chanVars
  <2>1. \A c \in Consumers : pc'[c] = "idle" <=> pc[c] = "idle"
    <3>1. CASE \E c \in At({"waiting"}) : pc' = [pc EXCEPT ![p] = "idle", ![c] = "woken"]
      BY <1>0, <3>1 DEF At
    <3>2. CASE pc' = [pc EXCEPT ![p] = "idle"]
      BY <1>0, <3>2
    <3>. QED BY <1>3, <3>1, <3>2 DEF WakeUp
  <2>. QED BY <1>3, <2>1, Invisible DEF WakeUp
<1>4. ASSUME NEW c \in Consumers, PopMsg(c) PROVE Channel!Ask(c)
  <2>1. pc[c] = "idle" /\ pc' = [pc EXCEPT ![c] = "consume"]
    BY <1>4 DEF PopMsg
  <2>2. c \notin Asking /\ Asking' = Asking \union {c}
    BY <1>0, <2>1 DEF Asking
  <2>. QED BY <1>4, <2>2 DEF PopMsg, Asking, Channel!Ask
<1>5. ASSUME NEW c \in Consumers,
             \/ ConsumeLock(c) \/ ConsumeWait(c) \/ SpuriousWakeUp(c)
             \/ ConsumeReLock(c) \/ ConsumeDecrement(c) \/ PopLock(c)
      PROVE  UNCHANGED Channel!chanVars
  BY <1>0, <1>5, Invisible
     DEF ConsumeLock, ConsumeWait, SpuriousWakeUp, ConsumeReLock, ConsumeDecrement, PopLock
<1>6. ASSUME NEW c \in Consumers, DeQueue(c)
      PROVE  Channel!Pop(c) \/ UNCHANGED Channel!chanVars
  <2>1. CASE m_MsgQueue = << >>
    BY <1>0, <1>6, <2>1, Invisible DEF DeQueue
  <2>2. CASE m_MsgQueue # << >>
    <3>1. pc[c] = "dequeue" /\ pc' = [pc EXCEPT ![c] = "idle"]
      BY <1>6, <2>2 DEF DeQueue
    <3>2. c \in Asking /\ Asking' = Asking \ {c}
      BY <1>0, <3>1 DEF Asking
    <3>. QED BY <1>6, <2>2, <3>2 DEF DeQueue, Asking, Channel!Pop
  <2>. QED BY <2>1, <2>2
<1>7. CASE UNCHANGED vars
  BY <1>7 DEF vars, Channel!chanVars
<1>. QED
  BY <1>1, <1>2, <1>3, <1>4, <1>5, <1>6, <1>7 DEF Next, PushStep, PopStep, Channel!Next

\* Every step of a thread inside PushMsg and PopMsg is a step of the FIFO queue
\* or one its callers cannot see: messages come out once, in order.
THEOREM QueueIsFIFO == SafeSpec => ImplementsFIFO
BY TypeInvariant, RefinesInit, RefinesNext, PTL DEF SafeSpec, ImplementsFIFO, Channel!SafeSpec
=============================================================================
