----------------------- MODULE ProcessMsgQueueProofs -----------------------
(***************************************************************************)
(* What is true of xtyProcessMsgQueue for any number of producers and      *)
(* messages, any number of processes that end in the middle of a call and  *)
(* any number of other queues on the same semaphore: types and the FIFO    *)
(* for any number of consumers too, the event counter and the semaphore    *)
(* for the one consumer the library is used with.                          *)
(***************************************************************************)
EXTENDS ProcessMsgQueue, FiniteSetTheorems, SequenceTheorems, TLAPS

-----------------------------------------------------------------------------
(***************************************************************************)
(* Arithmetic of the unsigned counter                                      *)
(***************************************************************************)
\* The remainder is within range, and a number within range is its own.
LEMMA ModRange ==
    ASSUME NEW n \in Int
    PROVE  /\ n % EventRange \in 0 .. (EventRange - 1)
           /\ n \in 0 .. (EventRange - 1) => n % EventRange = n
           /\ n \in Nat => n % EventRange <= n
<1>1. EventRange \in Nat /\ EventRange > 0
  BY BoundsAssumption
<1>2. n % EventRange \in 0 .. (EventRange - 1)
  BY <1>1
<1>3. ASSUME n \in 0 .. (EventRange - 1) PROVE n % EventRange = n
  BY <1>1, <1>3
<1>4. ASSUME n \in Nat PROVE n % EventRange <= n
  <2>1. CASE n < EventRange
    BY <1>1, <1>3, <1>4, <2>1
  <2>2. CASE n >= EventRange
    BY <1>1, <1>2, <1>4, <2>2
  <2>. QED BY <1>1, <1>4, <2>1, <2>2
<1>. QED BY <1>2, <1>3, <1>4

-----------------------------------------------------------------------------
(***************************************************************************)
(* Types                                                                   *)
(***************************************************************************)
\* TypeOK is not inductive by itself: that EnQueue stays below MaxPush rests on
\* the test made when the call began.
HasRoom == \A p \in Producers : pc[p] \in {"push", "enqueue"} => sent[p] < MaxPush

TypeInv ==
    /\ TypeOK
    /\ pc \in [Processes -> PushSteps \union PopSteps]
    /\ others \in Nat
    /\ HasRoom

LEMMA TypeInit == Init => TypeInv
BY ProcessesAssumption, BoundsAssumption
   DEF Init, TypeInv, TypeOK, HasRoom, Processes, PushSteps, PopSteps, Gone, Message

LEMMA TypeNext == TypeInv /\ [Next]_vars => TypeInv'
<1> SUFFICES ASSUME TypeInv, [Next]_vars PROVE TypeInv'
  OBVIOUS
<1> USE ProcessesAssumption, BoundsAssumption
    DEF TypeInv, TypeOK, HasRoom, Processes, PushSteps, PopSteps,
        Gone, Goto, Lock, LockEvent, UnLock, UnLockEvent, queueVars, semVars
<1>1. ASSUME NEW p \in Producers, PushMsg(p) PROVE TypeInv'
  BY <1>1 DEF PushMsg
<1>2. ASSUME NEW p \in Producers, PushLock(p) PROVE TypeInv'
  BY <1>2 DEF PushLock
<1>3. ASSUME NEW p \in Producers, EnQueue(p) PROVE TypeInv'
  <2>1. <<p, sent[p] + 1>> \in Message
    BY <1>3 DEF EnQueue, Message
  <2>2. m_MsgQueue' \in Seq(Message)
    BY <1>3, <2>1 DEF EnQueue
  <2>. QED BY <1>3, <2>2 DEF EnQueue
<1>4. ASSUME NEW p \in Producers, ProduceLock(p) PROVE TypeInv'
  BY <1>4 DEF ProduceLock
<1>5. ASSUME NEW p \in Producers, ProduceIncrement(p) PROVE TypeInv'
  <2>1. m_Events' \in 0 .. (EventRange - 1)
    BY <1>5, ModRange DEF ProduceIncrement
  <2>. QED BY <1>5, <2>1 DEF ProduceIncrement
<1>6. ASSUME NEW p \in Producers, WakeUp(p) PROVE TypeInv'
  BY <1>6 DEF WakeUp
<1>7. ASSUME NEW c \in Consumers, PopMsg(c) PROVE TypeInv'
  BY <1>7 DEF PopMsg
<1>8. ASSUME NEW c \in Consumers, ConsumeTest(c) PROVE TypeInv'
  BY <1>8 DEF ConsumeTest
<1>9. ASSUME NEW c \in Consumers, ConsumeWait(c) PROVE TypeInv'
  BY <1>9 DEF ConsumeWait
<1>10. ASSUME NEW c \in Consumers, ConsumeLock(c) PROVE TypeInv'
  BY <1>10 DEF ConsumeLock
<1>11. ASSUME NEW c \in Consumers, ConsumeDecrement(c) PROVE TypeInv'
  <2>1. m_Events' \in 0 .. (EventRange - 1)
    BY <1>11, ModRange DEF ConsumeDecrement
  <2>. QED BY <1>11, <2>1 DEF ConsumeDecrement
<1>12. ASSUME NEW c \in Consumers, PopLock(c) PROVE TypeInv'
  BY <1>12 DEF PopLock
<1>13. ASSUME NEW c \in Consumers, DeQueue(c) PROVE TypeInv'
  <2>1. /\ m_MsgQueue' \in Seq(Message)
        /\ got' \in [Consumers -> Seq(Message)]
    <3>1. CASE m_MsgQueue = << >>
      BY <1>13, <3>1 DEF DeQueue
    <3>2. CASE m_MsgQueue # << >>
      <4>1. Tail(m_MsgQueue) \in Seq(Message) /\ Head(m_MsgQueue) \in Message
        BY <3>2, HeadTailProperties
      <4>2. Append(got[c], Head(m_MsgQueue)) \in Seq(Message)
        BY <4>1, AppendProperties
      <4>3. /\ m_MsgQueue' = Tail(m_MsgQueue)
            /\ got' = [got EXCEPT ![c] = Append(@, Head(m_MsgQueue))]
        BY <1>13, <3>2 DEF DeQueue
      <4>. QED BY <4>1, <4>2, <4>3
    <3>. QED BY <3>1, <3>2
  <2>2. m_Lock' \in Processes \union {NoProcess}
    BY <1>13 DEF DeQueue
  <2>3. pc' \in [Processes -> PushSteps \union PopSteps] /\ \A t \in Processes :
           t # c => pc'[t] = pc[t]
    BY <1>13 DEF DeQueue
  <2>4. pc'[c] \in PopSteps
    BY <1>13 DEF DeQueue
  <2>. QED BY <1>13, <2>1, <2>2, <2>3, <2>4 DEF DeQueue
<1>14. ASSUME NEW t \in Processes, Quit(t) \/ SemOpFails(t) PROVE TypeInv'
  <2>1. CASE Quit(t)
    <3>1. m_Notifier' \in Nat /\ undo' \in [Processes -> Int]
      BY <2>1 DEF Quit, NonNegative
    <3>2. /\ pc' \in [Processes -> PushSteps \union PopSteps]
          /\ pc'[t] \in Gone /\ \A u \in Processes : u # t => pc'[u] = pc[u]
      BY <2>1 DEF Quit
    <3>. QED BY <2>1, <3>1, <3>2 DEF Quit
  <2>2. CASE SemOpFails(t)
    BY <2>2 DEF SemOpFails
  <2>. QED BY <1>14, <2>1, <2>2
<1>15. ASSUME OtherQueue PROVE TypeInv'
  BY <1>15 DEF OtherQueue
<1>16. CASE UNCHANGED vars
  BY <1>16 DEF vars
<1>. QED
  BY <1>1, <1>2, <1>3, <1>4, <1>5, <1>6, <1>7, <1>8, <1>9, <1>10, <1>11, <1>12,
     <1>13, <1>14, <1>15, <1>16 DEF Next, PushStep, PopStep

LEMMA TypeInvariant == SafeSpec => []TypeInv
BY TypeInit, TypeNext, PTL DEF SafeSpec

\* TypeOK holds in every reachable state: however often processes end and other
\* queues use the semaphore, its value is never negative.
THEOREM TypeCorrect == SafeSpec => []TypeOK
<1>1. TypeInv => TypeOK
  BY DEF TypeInv
<1>. QED BY <1>1, TypeInvariant, PTL

-----------------------------------------------------------------------------
(***************************************************************************)
(* Counting processes by the step they are at                              *)
(***************************************************************************)
LEMMA Counting ==
    ASSUME NEW S \in SUBSET Processes
    PROVE  IsFiniteSet(S) /\ Cardinality(S) \in Nat
BY ProcessesAssumption, FS_Union, FS_Subset, FS_CardinalityType DEF Processes

\* What one process does to a count when it goes from one step to another.
Gain(from, to, steps) ==
    IF to \in steps THEN IF from \in steps THEN 0 ELSE 1
                    ELSE IF from \in steps THEN -1 ELSE 0

LEMMA Step ==
    ASSUME TypeInv, NEW t \in Processes, NEW to, pc' = [pc EXCEPT ![t] = to],
           NEW CONSTANT steps
    PROVE  Cardinality(At(steps)') = Cardinality(At(steps)) + Gain(pc[t], to, steps)
<1>1. pc'[t] = to /\ \A u \in Processes : u # t => pc'[u] = pc[u]
  BY DEF TypeInv
<1>2. At(steps) \in SUBSET Processes
  BY DEF At
<1>3. IsFiniteSet(At(steps)) /\ Cardinality(At(steps)) \in Nat
  BY <1>2, Counting
<1>4. CASE pc[t] \in steps <=> to \in steps
  <2>1. At(steps)' = At(steps)
    BY <1>1, <1>4 DEF At
  <2>. QED BY <1>3, <1>4, <2>1 DEF Gain
<1>5. CASE pc[t] \notin steps /\ to \in steps
  <2>1. At(steps)' = At(steps) \union {t} /\ t \notin At(steps)
    BY <1>1, <1>5 DEF At
  <2>. QED BY <1>3, <1>5, <2>1, FS_AddElement DEF Gain
<1>6. CASE pc[t] \in steps /\ to \notin steps
  <2>1. At(steps)' = At(steps) \ {t} /\ t \in At(steps)
    BY <1>1, <1>6 DEF At
  <2>2. Cardinality(At(steps)') = Cardinality(At(steps)) - 1
    BY <1>3, <2>1, FS_RemoveElement
  <2>. QED BY <1>3, <1>6, <2>2 DEF Gain
<1>. QED BY <1>4, <1>5, <1>6

-----------------------------------------------------------------------------
(***************************************************************************)
(* The event counter and the queue, one consumer                           *)
(***************************************************************************)
OneConsumer == \A c, d \in Consumers : c = d

\* While fewer messages wait than the unsigned counter can count.
QueueFits == Len(m_MsgQueue) < EventRange

NobodyQuit == \A t \in Processes : pc[t] # "quit"

\* The messages whose event is not produced yet, and those already promised to a
\* consumer.
Uncounted == At({"produce", "increment"})
Entitled == At({"pop", "dequeue"})

Balance == Len(m_MsgQueue) = m_Events + Cardinality(Uncounted) + Cardinality(Entitled)

\* The balance is not inductive: ConsumeDecrement does not test the counter
\* again.  The unlocked test holds until then because nobody else decrements.
TestStillHolds ==
    \A c \in Consumers : pc[c] \in {"consume", "decrement"} => m_Events > 0

\* DeQueue has never found the queue empty.
NobodyThrew == \A t \in Processes : pc[t] # "threw"

Accounting == NobodyQuit => Balance /\ TestStillHolds /\ NobodyThrew

LEMMA AccountingInit == Init => Accounting
<1> SUFFICES ASSUME Init PROVE Accounting
  OBVIOUS
<1>1. Uncounted = {} /\ Entitled = {}
  BY DEF Init, Uncounted, Entitled, At
<1>2. NobodyThrew /\ TestStillHolds
  BY DEF Init, NobodyThrew, TestStillHolds, Processes
<1>3. m_MsgQueue = << >> /\ m_Events = 0
  BY DEF Init
<1>. QED
  BY <1>1, <1>2, <1>3, FS_EmptySet DEF Accounting, Balance

LEMMA Counts ==
    /\ Cardinality(Uncounted) \in Nat /\ Cardinality(Entitled) \in Nat
    /\ Uncounted # {} => Cardinality(Uncounted) > 0
    /\ Entitled # {} => Cardinality(Entitled) > 0
<1>1. Uncounted \in SUBSET Processes /\ Entitled \in SUBSET Processes
  BY DEF Uncounted, Entitled, At
<1>. QED BY <1>1, Counting, FS_EmptySet

\* What a step of one process does to the two counts.
LEMMA CountsChange ==
    ASSUME TypeInv, NEW t \in Processes, NEW to, pc' = [pc EXCEPT ![t] = to]
    PROVE  /\ Cardinality(Uncounted') = Cardinality(Uncounted)
                                        + Gain(pc[t], to, {"produce", "increment"})
           /\ Cardinality(Entitled') = Cardinality(Entitled)
                                        + Gain(pc[t], to, {"pop", "dequeue"})
BY Step DEF Uncounted, Entitled

\* A step that keeps the counter, the queue and the counts of processes.
LEMMA AccountingKept ==
    ASSUME Accounting, m_MsgQueue' = m_MsgQueue, m_Events' = m_Events,
           \A u \in Processes :
              /\ pc'[u] \in {"produce", "increment"} <=> pc[u] \in {"produce", "increment"}
              /\ pc'[u] \in {"pop", "dequeue"} <=> pc[u] \in {"pop", "dequeue"}
              /\ pc'[u] \in {"consume", "decrement"} =>
                    pc[u] \in {"consume", "decrement"} \/ m_Events > 0
              /\ pc[u] = "quit" => pc'[u] = "quit"
              /\ pc'[u] = "threw" => pc[u] = "threw"
    PROVE  Accounting'
<1>1. Uncounted' = Uncounted /\ Entitled' = Entitled
  BY DEF Uncounted, Entitled, At
<1>2. NobodyQuit' => NobodyQuit
  BY DEF NobodyQuit
<1>. QED
  BY <1>1, <1>2 DEF Accounting, Balance, TestStillHolds, NobodyThrew, Processes

LEMMA AccountingNext ==
    ASSUME OneConsumer
    PROVE  TypeInv /\ QueueFits /\ Accounting /\ [Next]_vars => Accounting'
<1> SUFFICES ASSUME TypeInv, QueueFits, Accounting, [Next]_vars PROVE Accounting'
  OBVIOUS
<1> USE ProcessesAssumption DEF Processes, Goto, queueVars, semVars
<1>0. /\ pc \in [Processes -> PushSteps \union PopSteps]
      /\ m_MsgQueue \in Seq(Message) /\ Len(m_MsgQueue) \in Nat
      /\ m_Events \in Nat /\ m_Events < EventRange /\ EventRange \in Nat
      /\ Cardinality(Uncounted) \in Nat /\ Cardinality(Entitled) \in Nat
  BY Counts, BoundsAssumption DEF TypeInv, TypeOK
<1>1. ASSUME NEW p \in Producers, PushMsg(p) PROVE Accounting'
  BY <1>0, <1>1, AccountingKept DEF PushMsg
<1>2. ASSUME NEW p \in Producers, PushLock(p) PROVE Accounting'
  BY <1>0, <1>2, AccountingKept DEF PushLock
<1>3. ASSUME NEW p \in Producers, EnQueue(p) PROVE Accounting'
  <2>1. pc[p] = "enqueue" /\ pc' = [pc EXCEPT ![p] = "produce"] /\ m_Events' = m_Events
    BY <1>3 DEF EnQueue
  <2>2. NobodyQuit' => NobodyQuit
    BY <1>0, <2>1 DEF NobodyQuit
  <2>3. /\ Cardinality(Uncounted') = Cardinality(Uncounted) + 1
        /\ Cardinality(Entitled') = Cardinality(Entitled)
    <3>1. /\ Gain("enqueue", "produce", {"produce", "increment"}) = 1
          /\ Gain("enqueue", "produce", {"pop", "dequeue"}) = 0
      BY DEF Gain
    <3>2. p \in Processes /\ pc[p] = "enqueue" /\ pc' = [pc EXCEPT ![p] = "produce"]
      BY <2>1
    <3>3. /\ Cardinality(Uncounted') = Cardinality(Uncounted)
                                         + Gain("enqueue", "produce", {"produce", "increment"})
          /\ Cardinality(Entitled') = Cardinality(Entitled)
                                         + Gain("enqueue", "produce", {"pop", "dequeue"})
      BY <3>2, CountsChange
    <3>. QED BY <1>0, <3>1, <3>3
  <2>4. Len(m_MsgQueue') = Len(m_MsgQueue) + 1
    <3>1. m_MsgQueue' = Append(m_MsgQueue, <<p, sent[p] + 1>>)
      BY <1>3 DEF EnQueue
    <3>2. \A x : Len(Append(m_MsgQueue, x)) = Len(m_MsgQueue) + 1
      BY <1>0
    <3>. QED BY <3>1, <3>2
  <2>5. Balance => Balance'
    BY <1>0, <2>1, <2>3, <2>4 DEF Balance
  <2>6. TestStillHolds /\ NobodyThrew => (TestStillHolds /\ NobodyThrew)'
    BY <1>0, <2>1 DEF TestStillHolds, NobodyThrew
  <2>. QED BY <2>2, <2>5, <2>6 DEF Accounting
<1>4. ASSUME NEW p \in Producers, ProduceLock(p) PROVE Accounting'
  BY <1>0, <1>4, AccountingKept DEF ProduceLock
<1>5. ASSUME NEW p \in Producers, ProduceIncrement(p) PROVE Accounting'
  <2>1. /\ pc[p] = "increment" /\ pc' = [pc EXCEPT ![p] = "post"]
        /\ m_MsgQueue' = m_MsgQueue /\ m_Events' = (m_Events + 1) % EventRange
    BY <1>5 DEF ProduceIncrement
  <2>2. NobodyQuit' => NobodyQuit
    BY <1>0, <2>1 DEF NobodyQuit
  <2>3. /\ Cardinality(Uncounted') = Cardinality(Uncounted) - 1
        /\ Cardinality(Entitled') = Cardinality(Entitled)
    <3>1. /\ Gain("increment", "post", {"produce", "increment"}) = -1
          /\ Gain("increment", "post", {"pop", "dequeue"}) = 0
      BY DEF Gain
    <3>2. p \in Processes /\ pc[p] = "increment" /\ pc' = [pc EXCEPT ![p] = "post"]
      BY <2>1
    <3>3. /\ Cardinality(Uncounted') = Cardinality(Uncounted)
                                         + Gain("increment", "post", {"produce", "increment"})
          /\ Cardinality(Entitled') = Cardinality(Entitled)
                                         + Gain("increment", "post", {"pop", "dequeue"})
      BY <3>2, CountsChange
    <3>. QED BY <1>0, <3>1, <3>3
  <2>4. Balance => m_Events' = m_Events + 1
    <3>1. p \in Uncounted
      BY <2>1 DEF Uncounted, At
    <3>2. Cardinality(Uncounted) > 0
      BY <3>1, Counts
    <3>3. Balance => m_Events + 1 \in 0 .. (EventRange - 1)
      BY <1>0, <3>2 DEF QueueFits, Balance
    <3>4. m_Events + 1 \in Int
      BY <1>0
    <3>. QED BY <2>1, <3>3, <3>4, ModRange
  <2>5. Balance => Balance'
    BY <1>0, <2>1, <2>3, <2>4 DEF Balance
  <2>6. Balance /\ TestStillHolds /\ NobodyThrew => (TestStillHolds /\ NobodyThrew)'
    BY <1>0, <2>1, <2>4 DEF TestStillHolds, NobodyThrew
  <2>. QED BY <2>2, <2>5, <2>6 DEF Accounting
<1>6. ASSUME NEW p \in Producers, WakeUp(p) PROVE Accounting'
  BY <1>0, <1>6, AccountingKept DEF WakeUp
<1>7. ASSUME NEW c \in Consumers, PopMsg(c) PROVE Accounting'
  BY <1>0, <1>7, AccountingKept DEF PopMsg
<1>8. ASSUME NEW c \in Consumers, ConsumeTest(c) PROVE Accounting'
  <2>1. CASE m_Events = 0
    BY <1>0, <1>8, <2>1, AccountingKept DEF ConsumeTest
  <2>2. CASE m_Events # 0
    BY <1>0, <1>8, <2>2, AccountingKept DEF ConsumeTest
  <2>. QED BY <2>1, <2>2
<1>9. ASSUME NEW c \in Consumers, ConsumeWait(c) PROVE Accounting'
  BY <1>0, <1>9, AccountingKept DEF ConsumeWait
<1>10. ASSUME NEW c \in Consumers, ConsumeLock(c) PROVE Accounting'
  BY <1>0, <1>10, AccountingKept DEF ConsumeLock
<1>11. ASSUME NEW c \in Consumers, ConsumeDecrement(c) PROVE Accounting'
  <2>1. /\ pc[c] = "decrement" /\ pc' = [pc EXCEPT ![c] = "pop"]
        /\ m_MsgQueue' = m_MsgQueue /\ m_Events' = (m_Events - 1) % EventRange
    BY <1>11 DEF ConsumeDecrement
  <2>2. NobodyQuit' => NobodyQuit
    BY <1>0, <2>1 DEF NobodyQuit
  <2>3. /\ Cardinality(Uncounted') = Cardinality(Uncounted)
        /\ Cardinality(Entitled') = Cardinality(Entitled) + 1
    <3>1. /\ Gain("decrement", "pop", {"produce", "increment"}) = 0
          /\ Gain("decrement", "pop", {"pop", "dequeue"}) = 1
      BY DEF Gain
    <3>2. c \in Processes /\ pc[c] = "decrement" /\ pc' = [pc EXCEPT ![c] = "pop"]
      BY <2>1
    <3>3. /\ Cardinality(Uncounted') = Cardinality(Uncounted)
                                         + Gain("decrement", "pop", {"produce", "increment"})
          /\ Cardinality(Entitled') = Cardinality(Entitled)
                                         + Gain("decrement", "pop", {"pop", "dequeue"})
      BY <3>2, CountsChange
    <3>. QED BY <1>0, <3>1, <3>3
  <2>4. TestStillHolds => m_Events' = m_Events - 1
    <3>1. TestStillHolds => m_Events - 1 \in 0 .. (EventRange - 1)
      BY <1>0, <2>1 DEF TestStillHolds
    <3>2. m_Events - 1 \in Int
      BY <1>0
    <3>. QED BY <2>1, <3>1, <3>2, ModRange
  <2>5. Balance /\ TestStillHolds => Balance'
    BY <1>0, <2>1, <2>3, <2>4 DEF Balance
  <2>6. \A d \in Consumers : pc'[d] = "pop"
    BY <1>0, <2>1 DEF OneConsumer
  <2>7. NobodyThrew => (TestStillHolds /\ NobodyThrew)'
    BY <1>0, <2>1, <2>6 DEF TestStillHolds, NobodyThrew
  <2>. QED BY <2>2, <2>5, <2>7 DEF Accounting
<1>12. ASSUME NEW c \in Consumers, PopLock(c) PROVE Accounting'
  BY <1>0, <1>12, AccountingKept DEF PopLock
<1>13. ASSUME NEW c \in Consumers, DeQueue(c) PROVE Accounting'
  <2>1. NobodyQuit' => NobodyQuit
    BY <1>0, <1>13 DEF NobodyQuit, DeQueue
  <2>2. Balance => m_MsgQueue # << >>
    <3>1. c \in Entitled
      BY <1>13 DEF DeQueue, Entitled, At
    <3>2. Balance => Len(m_MsgQueue) # 0
      BY <1>0, <3>1, Counts DEF Balance
    <3>. QED BY <3>2
  <2>3. CASE m_MsgQueue = << >>
    BY <2>1, <2>2, <2>3 DEF Accounting
  <2>4. CASE m_MsgQueue # << >>
    <3>1. /\ pc[c] = "dequeue" /\ pc' = [pc EXCEPT ![c] = "idle"]
          /\ m_MsgQueue' = Tail(m_MsgQueue) /\ m_Events' = m_Events
      BY <1>13, <2>4 DEF DeQueue
    <3>2. /\ Cardinality(Uncounted') = Cardinality(Uncounted)
          /\ Cardinality(Entitled') = Cardinality(Entitled) - 1
      <4>1. /\ Gain("dequeue", "idle", {"produce", "increment"}) = 0
            /\ Gain("dequeue", "idle", {"pop", "dequeue"}) = -1
        BY DEF Gain
      <4>2. c \in Processes /\ pc[c] = "dequeue" /\ pc' = [pc EXCEPT ![c] = "idle"]
        BY <3>1
      <4>3. /\ Cardinality(Uncounted') = Cardinality(Uncounted)
                                           + Gain("dequeue", "idle", {"produce", "increment"})
            /\ Cardinality(Entitled') = Cardinality(Entitled)
                                           + Gain("dequeue", "idle", {"pop", "dequeue"})
        BY <4>2, CountsChange
      <4>. QED BY <1>0, <4>1, <4>3
    <3>3. Len(m_MsgQueue') = Len(m_MsgQueue) - 1
      BY <1>0, <2>4, <3>1, HeadTailProperties
    <3>4. Balance => Balance'
      BY <1>0, <3>1, <3>2, <3>3 DEF Balance
    <3>5. TestStillHolds /\ NobodyThrew => (TestStillHolds /\ NobodyThrew)'
      BY <1>0, <3>1 DEF TestStillHolds, NobodyThrew
    <3>. QED BY <2>1, <3>4, <3>5 DEF Accounting
  <2>. QED BY <2>3, <2>4
<1>14. ASSUME NEW t \in Processes, Quit(t) \/ SemOpFails(t) PROVE Accounting'
  <2>1. CASE pc'[t] = "quit"
    BY <1>0, <2>1 DEF Accounting, NobodyQuit
  <2>2. CASE pc'[t] # "quit"
    BY <1>0, <1>14, <2>2, AccountingKept DEF Quit, SemOpFails, Gone
  <2>. QED BY <2>1, <2>2
<1>15. CASE OtherQueue \/ UNCHANGED vars
  BY <1>15, AccountingKept DEF OtherQueue, vars
<1>. QED
  BY <1>1, <1>2, <1>3, <1>4, <1>5, <1>6, <1>7, <1>8, <1>9, <1>10, <1>11, <1>12,
     <1>13, <1>14, <1>15 DEF Next, PushStep, PopStep

\* A producer's messages are numbered: no message is in the queue twice, so the
\* queue never holds more than all of them.
QueuedOnce ==
    /\ \A i \in 1 .. Len(m_MsgQueue) : m_MsgQueue[i][2] <= sent[m_MsgQueue[i][1]]
    /\ \A i, j \in 1 .. Len(m_MsgQueue) : m_MsgQueue[i] = m_MsgQueue[j] => i = j

LEMMA QueuedOnceInit == Init => QueuedOnce
BY DEF Init, QueuedOnce

LEMMA QueuedOnceNext == TypeInv /\ QueuedOnce /\ [Next]_vars => QueuedOnce'
<1> SUFFICES ASSUME TypeInv, QueuedOnce, [Next]_vars PROVE QueuedOnce'
  OBVIOUS
<1>0. m_MsgQueue \in Seq(Producers \X (1 .. MaxPush)) /\ sent \in [Producers -> 0 .. MaxPush]
  BY DEF TypeInv, TypeOK, Message
<1>1. CASE m_MsgQueue' = m_MsgQueue /\ sent' = sent
  BY <1>1 DEF QueuedOnce
<1>2. ASSUME NEW p \in Producers, EnQueue(p) PROVE QueuedOnce'
  <2> DEFINE new == <<p, sent[p] + 1>>
  <2>1. m_MsgQueue' = Append(m_MsgQueue, new) /\ sent' = [sent EXCEPT ![p] = sent[p] + 1]
    BY <1>2 DEF EnQueue
  <2>2. /\ Len(m_MsgQueue') = Len(m_MsgQueue) + 1
        /\ \A i \in 1 .. Len(m_MsgQueue) : m_MsgQueue'[i] = m_MsgQueue[i]
        /\ m_MsgQueue'[Len(m_MsgQueue) + 1] = new
    BY <1>0, <2>1
  <2>3. new[1] = p /\ new[2] = sent[p] + 1
    OBVIOUS
  <2>4. \A i \in 1 .. Len(m_MsgQueue) :
           /\ m_MsgQueue[i][1] \in Producers /\ m_MsgQueue[i][2] \in Nat
           /\ m_MsgQueue[i][2] <= sent[m_MsgQueue[i][1]]
    BY <1>0 DEF QueuedOnce
  <2>5. /\ sent'[p] = sent[p] + 1
        /\ \A q \in Producers : sent[q] \in Nat /\ sent'[q] \in Nat /\ sent[q] <= sent'[q]
    BY <1>0, <2>1
  <2>6. \A i \in 1 .. Len(m_MsgQueue) : m_MsgQueue[i] # new
    BY <2>3, <2>4, <2>5
  <2> HIDE DEF new
  <2>7. Len(m_MsgQueue) \in Nat
    BY <1>0
  <2>8. \A i \in 1 .. Len(m_MsgQueue') : m_MsgQueue'[i][2] <= sent'[m_MsgQueue'[i][1]]
    <3> SUFFICES ASSUME NEW i \in 1 .. Len(m_MsgQueue')
                 PROVE  m_MsgQueue'[i][2] <= sent'[m_MsgQueue'[i][1]]
      OBVIOUS
    <3>1. CASE i \in 1 .. Len(m_MsgQueue)
      <4>1. m_MsgQueue'[i] = m_MsgQueue[i] /\ m_MsgQueue[i][1] \in Producers
        BY <2>2, <2>4, <3>1
      <4>2. /\ m_MsgQueue[i][2] \in Nat
            /\ sent[m_MsgQueue[i][1]] \in Nat /\ sent'[m_MsgQueue[i][1]] \in Nat
            /\ m_MsgQueue[i][2] <= sent[m_MsgQueue[i][1]]
            /\ sent[m_MsgQueue[i][1]] <= sent'[m_MsgQueue[i][1]]
        BY <2>4, <2>5, <3>1, <4>1
      <4>. QED BY <4>1, <4>2
    <3>2. CASE i = Len(m_MsgQueue) + 1
      BY <2>2, <2>3, <2>5, <3>2
    <3>. QED BY <2>2, <2>7, <3>1, <3>2
  <2>9. \A i, j \in 1 .. Len(m_MsgQueue') : m_MsgQueue'[i] = m_MsgQueue'[j] => i = j
    BY <2>2, <2>6, <2>7 DEF QueuedOnce
  <2>. QED BY <2>8, <2>9 DEF QueuedOnce
<1>3. ASSUME NEW c \in Consumers, DeQueue(c) PROVE QueuedOnce'
  <2>1. CASE m_MsgQueue = << >>
    BY <1>1, <1>3, <2>1 DEF DeQueue
  <2>2. CASE m_MsgQueue # << >>
    <3>1. m_MsgQueue' = Tail(m_MsgQueue) /\ sent' = sent
      BY <1>3, <2>2 DEF DeQueue
    <3>2. /\ Len(m_MsgQueue) \in Nat /\ Len(m_MsgQueue') = Len(m_MsgQueue) - 1
          /\ \A i \in 1 .. Len(m_MsgQueue') : m_MsgQueue'[i] = m_MsgQueue[i + 1]
      BY <1>0, <2>2, <3>1, HeadTailProperties
    <3>3. \A i \in 1 .. Len(m_MsgQueue') : i + 1 \in 1 .. Len(m_MsgQueue)
      BY <3>2
    <3>4. \A i \in 1 .. Len(m_MsgQueue') : m_MsgQueue'[i][2] <= sent'[m_MsgQueue'[i][1]]
      BY <3>1, <3>2, <3>3 DEF QueuedOnce
    <3>5. \A i, j \in 1 .. Len(m_MsgQueue') : m_MsgQueue'[i] = m_MsgQueue'[j] => i = j
      <4> SUFFICES ASSUME NEW i \in 1 .. Len(m_MsgQueue'), NEW j \in 1 .. Len(m_MsgQueue'),
                          m_MsgQueue'[i] = m_MsgQueue'[j]
                   PROVE  i = j
        OBVIOUS
      <4>1. m_MsgQueue[i + 1] = m_MsgQueue[j + 1]
        BY <3>2
      <4>2. i + 1 = j + 1
        BY <3>3, <4>1 DEF QueuedOnce
      <4>. QED BY <4>2
    <3>. QED BY <3>4, <3>5 DEF QueuedOnce
  <2>. QED BY <2>1, <2>2
<1>4. ASSUME NEW p \in Producers, PushMsg(p) \/ PushLock(p) \/ ProduceLock(p)
                                  \/ ProduceIncrement(p) \/ WakeUp(p)
      PROVE  QueuedOnce'
  BY <1>1, <1>4 DEF PushMsg, PushLock, ProduceLock, ProduceIncrement, WakeUp, queueVars
<1>5. ASSUME NEW c \in Consumers,
             \/ PopMsg(c) \/ ConsumeTest(c) \/ ConsumeWait(c)
             \/ ConsumeLock(c) \/ ConsumeDecrement(c) \/ PopLock(c)
      PROVE  QueuedOnce'
  BY <1>1, <1>5
     DEF PopMsg, ConsumeTest, ConsumeWait, ConsumeLock, ConsumeDecrement, PopLock, queueVars
<1>6. ASSUME NEW t \in Processes, Quit(t) \/ SemOpFails(t) PROVE QueuedOnce'
  BY <1>1, <1>6 DEF Quit, SemOpFails, queueVars
<1>7. CASE OtherQueue \/ UNCHANGED vars
  BY <1>1, <1>7 DEF OtherQueue, vars, queueVars
<1>. QED
  BY <1>2, <1>3, <1>4, <1>5, <1>6, <1>7 DEF Next, PushStep, PopStep, Processes

\* All messages together fit the counter.
FewMessages == Cardinality(Producers) * MaxPush < EventRange

LEMMA QueueNeverOverflows ==
    ASSUME FewMessages
    PROVE  TypeInv /\ QueuedOnce => QueueFits
<1> SUFFICES ASSUME TypeInv, QueuedOnce PROVE QueueFits
  OBVIOUS
<1>1. /\ IsFiniteSet(1 .. MaxPush) /\ Cardinality(1 .. MaxPush) = MaxPush
  BY BoundsAssumption, FS_Interval
<1>2. /\ IsFiniteSet(Message) /\ Cardinality(Message) = Cardinality(Producers) * MaxPush
  BY <1>1, ProcessesAssumption, FS_Product DEF Message
<1>3. m_MsgQueue \in Seq(Message) /\ Len(m_MsgQueue) \in Nat
  BY DEF TypeInv, TypeOK
<1>4. m_MsgQueue \in Injection(1 .. Len(m_MsgQueue), Message)
  <2>1. m_MsgQueue \in [1 .. Len(m_MsgQueue) -> Message]
    BY <1>3
  <2>. QED BY <2>1 DEF Injection, IsInjective, QueuedOnce
<1>5. Cardinality(1 .. Len(m_MsgQueue)) <= Cardinality(Message)
  BY <1>2, <1>4, FS_Injection
<1>6. Cardinality(1 .. Len(m_MsgQueue)) = Len(m_MsgQueue)
  <2>1. \A n \in Nat : Cardinality(1 .. n) = n
    BY FS_Interval
  <2>. QED BY <1>3, <2>1
<1>7. EventRange \in Nat /\ Cardinality(Message) \in Nat
  BY <1>2, BoundsAssumption, FS_CardinalityType
<1>. QED BY <1>2, <1>3, <1>5, <1>6, <1>7 DEF FewMessages, QueueFits

LEMMA AccountingInvariant ==
    ASSUME OneConsumer, FewMessages
    PROVE  SafeSpec => []Accounting
<1>1. Init => QueuedOnce /\ Accounting
  BY QueuedOnceInit, AccountingInit
<1>2. TypeInv /\ QueuedOnce /\ Accounting /\ [Next]_vars => (QueuedOnce /\ Accounting)'
  BY QueuedOnceNext, QueueNeverOverflows, AccountingNext
<1>. QED BY <1>1, <1>2, TypeInvariant, PTL DEF SafeSpec

\* With one consumer, and fewer messages than the unsigned counter can count, the
\* counter and the queue agree until a process ends, for any number of producers.
THEOREM EventsAccountForMessages ==
    ASSUME OneConsumer, FewMessages
    PROVE  SafeSpec => []EventAccounting
<1>1. Accounting => EventAccounting
  <2>1. At({"quit"}) = {} => NobodyQuit
    BY DEF At, NobodyQuit
  <2>. QED BY <2>1 DEF Accounting, EventAccounting, Balance, Uncounted, Entitled
<1>. QED BY <1>1, AccountingInvariant, PTL

\* Under the same conditions DeQueue never throws XTY_EMPTY_QUEUE, although
\* m_Events is tested before its lock is taken.
THEOREM PopMsgNeverThrows ==
    ASSUME OneConsumer, FewMessages
    PROVE  SafeSpec => [](NobodyQuit => NobodyThrew)
<1>1. Accounting => (NobodyQuit => NobodyThrew)
  BY DEF Accounting
<1>. QED BY <1>1, AccountingInvariant, PTL

-----------------------------------------------------------------------------
(***************************************************************************)
(* The semaphore, one consumer                                             *)
(***************************************************************************)
\* The producers that have counted an event and not given its permit yet.
Posting == At({"post"})

NobodyGone == \A t \in Processes : pc[t] \notin Gone

\* NoLostPermit with its sets written out: it is inductive as it stands, because
\* while the one consumer waits only producers change the counter or the permits.
Permits ==
    others = 0 /\ NobodyGone =>
        \A c \in Consumers : pc[c] = "wait" => m_Events <= m_Notifier + Cardinality(Posting)

LEMMA PostingCounts ==
    /\ Cardinality(Posting) \in Nat
    /\ Posting # {} => Cardinality(Posting) > 0
<1>1. Posting \in SUBSET Processes
  BY DEF Posting, At
<1>. QED BY <1>1, Counting, FS_EmptySet

LEMMA PostingChange ==
    ASSUME TypeInv, NEW t \in Processes, NEW to, pc' = [pc EXCEPT ![t] = to]
    PROVE  Cardinality(Posting') = Cardinality(Posting) + Gain(pc[t], to, {"post"})
BY Step DEF Posting

LEMMA PermitsInit == Init => Permits
BY DEF Init, Permits, Processes

\* A step that changes neither the counter nor the permits and after which no
\* more consumers wait.
LEMMA PermitsKept ==
    ASSUME Permits, UNCHANGED <<m_Events, m_Notifier, others>>,
           \A u \in Processes :
              /\ pc'[u] = "post" <=> pc[u] = "post"
              /\ pc'[u] = "wait" => pc[u] = "wait"
              /\ pc[u] \in Gone => pc'[u] \in Gone
    PROVE  Permits'
<1>1. Posting' = Posting
  BY DEF Posting, At
<1>. QED BY <1>1 DEF Permits, NobodyGone, Processes

LEMMA PermitsNext ==
    ASSUME OneConsumer
    PROVE  TypeInv /\ Permits /\ [Next]_vars => Permits'
<1> SUFFICES ASSUME TypeInv, Permits, [Next]_vars PROVE Permits'
  OBVIOUS
<1> USE ProcessesAssumption DEF Processes, Goto, queueVars, semVars
<1>0. /\ pc \in [Processes -> PushSteps \union PopSteps]
      /\ m_Events \in 0 .. (EventRange - 1) /\ m_Events \in Nat /\ EventRange \in Nat
      /\ m_Notifier \in Nat /\ Cardinality(Posting) \in Nat
  BY PostingCounts, BoundsAssumption DEF TypeInv, TypeOK
<1>1. ASSUME NEW p \in Producers, PushMsg(p) PROVE Permits'
  BY <1>0, <1>1, PermitsKept DEF Gone, PushMsg
<1>2. ASSUME NEW p \in Producers, PushLock(p) PROVE Permits'
  BY <1>0, <1>2, PermitsKept DEF Gone, PushLock
<1>3. ASSUME NEW p \in Producers, EnQueue(p) PROVE Permits'
  BY <1>0, <1>3, PermitsKept DEF Gone, EnQueue
<1>4. ASSUME NEW p \in Producers, ProduceLock(p) PROVE Permits'
  BY <1>0, <1>4, PermitsKept DEF Gone, ProduceLock
<1>5. ASSUME NEW p \in Producers, ProduceIncrement(p) PROVE Permits'
  <2>1. p \in Processes /\ pc[p] = "increment" /\ pc' = [pc EXCEPT ![p] = "post"]
    BY <1>5 DEF ProduceIncrement
  <2>2. /\ m_Events' = (m_Events + 1) % EventRange
        /\ m_Notifier' = m_Notifier /\ others' = others
    BY <1>5 DEF ProduceIncrement
  <2>3. m_Events' <= m_Events + 1
    BY <1>0, <2>2, ModRange, m_Events + 1 \in Nat
  <2>4. Cardinality(Posting') = Cardinality(Posting) + 1
    <3>1. Gain("increment", "post", {"post"}) = 1
      BY DEF Gain
    <3>2. Cardinality(Posting') = Cardinality(Posting) + Gain("increment", "post", {"post"})
      BY <2>1, PostingChange
    <3>. QED BY <3>1, <3>2
  <2>5. \A c \in Consumers : pc'[c] = pc[c]
    BY <1>0, <2>1
  <2>6. NobodyGone' => NobodyGone
    BY <1>0, <2>1 DEF NobodyGone, Gone
  <2>7. m_Events' \in Nat
    <3>1. m_Events' \in 0 .. (EventRange - 1)
      BY <1>0, <2>2, ModRange, m_Events + 1 \in Int
    <3>. QED BY <3>1
  <2>. QED BY <1>0, <2>2, <2>3, <2>4, <2>5, <2>6, <2>7 DEF Permits
<1>6. ASSUME NEW p \in Producers, WakeUp(p) PROVE Permits'
  <2>1. p \in Processes /\ pc[p] = "post" /\ pc' = [pc EXCEPT ![p] = "idle"]
    BY <1>6 DEF WakeUp
  <2>2. m_Events' = m_Events /\ m_Notifier' = m_Notifier + 1 /\ others' = others
    BY <1>6 DEF WakeUp
  <2>3. Cardinality(Posting') = Cardinality(Posting) - 1
    <3>1. Gain("post", "idle", {"post"}) = -1
      BY DEF Gain
    <3>2. Cardinality(Posting') = Cardinality(Posting) + Gain("post", "idle", {"post"})
      BY <2>1, PostingChange
    <3>. QED BY <1>0, <3>1, <3>2
  <2>4. \A c \in Consumers : pc'[c] = pc[c]
    BY <1>0, <2>1
  <2>5. NobodyGone' => NobodyGone
    BY <1>0, <2>1 DEF NobodyGone, Gone
  <2>. QED BY <1>0, <2>2, <2>3, <2>4, <2>5 DEF Permits
<1>7. ASSUME NEW c \in Consumers, PopMsg(c) PROVE Permits'
  BY <1>0, <1>7, PermitsKept DEF Gone, PopMsg
<1>8. ASSUME NEW c \in Consumers, ConsumeTest(c) PROVE Permits'
  <2>1. CASE m_Events = 0
    <3>1. pc[c] = "test" /\ pc' = [pc EXCEPT ![c] = "wait"]
      BY <1>8, <2>1 DEF ConsumeTest
    <3>2. m_Events' = 0 /\ m_Notifier' = m_Notifier
      BY <1>8, <2>1 DEF ConsumeTest
    <3>3. Posting' = Posting
      BY <1>0, <3>1 DEF Posting, At
    <3>. QED BY <1>0, <3>2, <3>3 DEF Permits
  <2>2. CASE m_Events # 0
    BY <1>0, <1>8, <2>2, PermitsKept DEF Gone, ConsumeTest
  <2>. QED BY <2>1, <2>2
<1>9. ASSUME NEW c \in Consumers, ConsumeWait(c) PROVE Permits'
  <2>1. \A d \in Consumers : pc'[d] = "test"
    BY <1>0, <1>9 DEF ConsumeWait, OneConsumer
  <2>. QED BY <2>1 DEF Permits
<1>10. ASSUME NEW c \in Consumers, ConsumeLock(c) PROVE Permits'
  BY <1>0, <1>10, PermitsKept DEF Gone, ConsumeLock
<1>11. ASSUME NEW c \in Consumers, ConsumeDecrement(c) PROVE Permits'
  <2>1. \A d \in Consumers : pc'[d] = "pop"
    BY <1>0, <1>11 DEF ConsumeDecrement, OneConsumer
  <2>. QED BY <2>1 DEF Permits
<1>12. ASSUME NEW c \in Consumers, PopLock(c) PROVE Permits'
  BY <1>0, <1>12, PermitsKept DEF Gone, PopLock
<1>13. ASSUME NEW c \in Consumers, DeQueue(c) PROVE Permits'
  BY <1>0, <1>13, PermitsKept DEF Gone, DeQueue
<1>14. ASSUME NEW t \in Processes, Quit(t) \/ SemOpFails(t) PROVE Permits'
  BY <1>0, <1>14 DEF Quit, SemOpFails, Permits, NobodyGone, Gone
<1>15. ASSUME OtherQueue PROVE Permits'
  <2>1. others \in Nat /\ others' = others + 1
    BY <1>15 DEF OtherQueue, TypeInv
  <2>. QED BY <2>1 DEF Permits
<1>16. CASE UNCHANGED vars
  BY <1>16, PermitsKept DEF Gone, vars
<1>. QED
  BY <1>1, <1>2, <1>3, <1>4, <1>5, <1>6, <1>7, <1>8, <1>9, <1>10, <1>11, <1>12,
     <1>13, <1>14, <1>15, <1>16 DEF Next, PushStep, PopStep

\* With one consumer and nobody else on the semaphore, an event the consumer has
\* not seen when it goes to wait has left it a permit or is about to.
THEOREM NoPermitIsLost ==
    ASSUME OneConsumer
    PROVE  SafeSpec => []NoLostPermit
<1>1. Permits => NoLostPermit
  <2>1. At(Gone) = {} => NobodyGone
    BY DEF At, NobodyGone
  <2>. QED BY <2>1 DEF Permits, NoLostPermit, Undisturbed, Posting
<1>. QED BY <1>1, TypeInvariant, PermitsInit, PermitsNext, PTL DEF SafeSpec

-----------------------------------------------------------------------------
(***************************************************************************)
(* The queue implements the FIFO                                           *)
(***************************************************************************)
\* The consumers inside PopMsg.  One that ends in it stays there.
Asking == {c \in Consumers : pc[c] \notin {"idle", "exited"}}

LEMMA RefinesInit == Init => Channel!Init
BY DEF Init, Channel!Init, Processes

\* A step that touches neither the queue nor what callers see.
LEMMA Invisible ==
    ASSUME UNCHANGED <<m_MsgQueue, sent, got>>,
           \A c \in Consumers :
              pc'[c] \in {"idle", "exited"} <=> pc[c] \in {"idle", "exited"}
    PROVE  UNCHANGED Channel!chanVars
BY DEF Channel!chanVars

\* A step that brings an idle consumer into PopMsg.
LEMMA Asks ==
    ASSUME TypeInv, UNCHANGED <<m_MsgQueue, sent, got>>, NEW c \in Consumers, NEW to,
           pc[c] = "idle", to \notin {"idle", "exited"}, pc' = [pc EXCEPT ![c] = to]
    PROVE  Channel!Ask(c)
<1>1. c \in Processes /\ pc \in [Processes -> PushSteps \union PopSteps] /\ Consumers \subseteq Processes
  BY DEF TypeInv, Processes
<1>2. c \notin Asking /\ Asking' = Asking \union {c}
  BY <1>1 DEF Asking
<1>. QED BY <1>2 DEF Asking, Channel!Ask

LEMMA RefinesNext == TypeInv /\ [Next]_vars => [Channel!Next]_(Channel!chanVars)
<1> SUFFICES ASSUME TypeInv, [Next]_vars PROVE Channel!Next \/ UNCHANGED Channel!chanVars
  OBVIOUS
<1> USE ProcessesAssumption DEF Processes, Goto, queueVars, semVars
<1>0. pc \in [Processes -> PushSteps \union PopSteps]
  BY DEF TypeInv
<1>1. ASSUME NEW p \in Producers, PushMsg(p) \/ PushLock(p) \/ ProduceLock(p)
                                  \/ ProduceIncrement(p) \/ WakeUp(p)
      PROVE  UNCHANGED Channel!chanVars
  BY <1>0, <1>1, Invisible DEF PushMsg, PushLock, ProduceLock, ProduceIncrement, WakeUp
<1>2. ASSUME NEW p \in Producers, EnQueue(p) PROVE Channel!Push(p)
  <2>1. pc[p] = "enqueue" /\ pc' = [pc EXCEPT ![p] = "produce"] /\ sent[p] < MaxPush
    BY <1>2 DEF EnQueue, TypeInv, HasRoom
  <2>2. \A c \in Consumers : pc'[c] = pc[c]
    BY <1>0, <2>1
  <2>. QED BY <1>2, <2>1, <2>2 DEF EnQueue, Channel!Push
<1>3. ASSUME NEW c \in Consumers, PopMsg(c) PROVE Channel!Ask(c)
  BY <1>3, Asks DEF PopMsg
<1>4. ASSUME NEW c \in Consumers,
             \/ ConsumeTest(c) \/ ConsumeWait(c) \/ ConsumeLock(c)
             \/ ConsumeDecrement(c) \/ PopLock(c)
      PROVE  UNCHANGED Channel!chanVars
  BY <1>0, <1>4, Invisible
     DEF ConsumeTest, ConsumeWait, ConsumeLock, ConsumeDecrement, PopLock
<1>5. ASSUME NEW c \in Consumers, DeQueue(c)
      PROVE  Channel!Pop(c) \/ UNCHANGED Channel!chanVars
  <2>1. CASE m_MsgQueue = << >>
    BY <1>0, <1>5, <2>1, Invisible DEF DeQueue
  <2>2. CASE m_MsgQueue # << >>
    <3>1. pc[c] = "dequeue" /\ pc' = [pc EXCEPT ![c] = "idle"]
      BY <1>5, <2>2 DEF DeQueue
    <3>2. c \in Asking /\ Asking' = Asking \ {c}
      BY <1>0, <3>1 DEF Asking
    <3>. QED BY <1>5, <2>2, <3>2 DEF DeQueue, Asking, Channel!Pop
  <2>. QED BY <2>1, <2>2
<1>6. ASSUME NEW t \in Processes, Quit(t) \/ SemOpFails(t)
      PROVE  UNCHANGED Channel!chanVars
  BY <1>0, <1>6, Invisible DEF Quit, SemOpFails, Gone
<1>7. CASE OtherQueue \/ UNCHANGED vars
  BY <1>7, Invisible DEF OtherQueue, vars
<1>. QED
  BY <1>1, <1>2, <1>3, <1>4, <1>5, <1>6, <1>7 DEF Next, PushStep, PopStep, Channel!Next

\* Messages come out once, in order, to whatever consumers there are, whoever ends
\* in the middle of a call and whatever happens to the semaphore.
THEOREM QueueIsFIFO == SafeSpec => ImplementsFIFO
BY TypeInvariant, RefinesInit, RefinesNext, PTL DEF SafeSpec, ImplementsFIFO, Channel!SafeSpec
=============================================================================
