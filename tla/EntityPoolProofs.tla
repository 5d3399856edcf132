-------------------------- MODULE EntityPoolProofs --------------------------
(***************************************************************************)
(* What is true of a pool of entities of any size, with any number of      *)
(* threads that use and release messages and any number of decodes that    *)
(* throw, but one thread that fills entities.  That is how every pool of   *)
(* the program is used, and it is needed: between its delete and its clear *)
(* Prepare leaves a pointer to freed memory in its entity, an address that *)
(* a second thread could be given for its message.                         *)
(***************************************************************************)
EXTENDS EntityPool, FiniteSetTheorems, WellFoundedInduction, TLAPS

-----------------------------------------------------------------------------
(***************************************************************************)
(* The loops over the array                                                *)
(***************************************************************************)
\* A search that finds something returns something it was looking for.
LEMMA FirstIsMember ==
    ASSUME NEW S \in SUBSET Entities, S # {}
    PROVE  First(S) \in S /\ First(S) \in Entities
<1>1. S \subseteq Nat
  BY DEF Entities
<1>2. PICK x \in S : \A y \in S : ~(<<y, x>> \in OpToRel(<, Nat))
  BY <1>1, NatLessThanWellFounded, WFMin
<1>3. \A y \in S : x <= y
  <2>1. \A y \in S : y \in Nat /\ ~(y < x)
    BY <1>1, <1>2 DEF OpToRel
  <2>. QED BY <1>1, <2>1
<1>4. \E e \in S : \A d \in S : e <= d
  BY <1>3
<1>. QED BY <1>4 DEF First

-----------------------------------------------------------------------------
(***************************************************************************)
(* Types                                                                   *)
(***************************************************************************)
OneFiller == \A f, g \in Fillers : f = g

Busy == {"delete", "clear", "create", "decode"}

\* TypeOK is not inductive by itself: the entity a filler indexes the array with
\* is one only between AcquireEntity and the end of the call.
HasEntity == \A f \in Fillers : entity[f] # 0 <=> pc[f] \in Busy

\* And Decode passes on the message PrepareCreate has made.
HasMsg == \A f \in Fillers : pc[f] = "decode" => m_pMsg[entity[f]] \in Address

TypeInv ==
    /\ TypeOK
    /\ pc \in [Threads -> FillSteps \union ReleaseSteps]
    /\ HasEntity
    /\ HasMsg

LEMMA TypeInit == Init => TypeInv
BY PoolAssumption DEF Init, TypeInv, TypeOK, HasEntity, HasMsg, Busy, Threads, FillSteps, ReleaseSteps

LEMMA EntityOfFiller ==
    ASSUME TypeInv, NEW f \in Fillers, pc[f] \in Busy
    PROVE  entity[f] \in Entities
BY PoolAssumption DEF TypeInv, TypeOK, HasEntity, Entities

LEMMA TypeNext ==
    ASSUME OneFiller
    PROVE  TypeInv /\ [Next]_vars => TypeInv'
<1> SUFFICES ASSUME TypeInv, [Next]_vars PROVE TypeInv'
  OBVIOUS
<1> USE PoolAssumption
    DEF OneFiller, TypeInv, TypeOK, HasEntity, HasMsg, Busy, Threads, FillSteps,
        ReleaseSteps, Goto, Lock, UnLock
<1>1. ASSUME NEW f \in Fillers, DeSerialize(f) PROVE TypeInv'
  BY <1>1 DEF DeSerialize
<1>2. ASSUME NEW f \in Fillers, AcquireLock(f) PROVE TypeInv'
  BY <1>2 DEF AcquireLock
<1>3. ASSUME NEW f \in Fillers, AcquireWait(f) PROVE TypeInv'
  BY <1>3 DEF AcquireWait
<1>4. ASSUME NEW f \in Fillers, AcquireEntity(f) PROVE TypeInv'
  <2>1. First(Available) \in 1 .. TotalEntity
    BY <1>4, FirstIsMember DEF AcquireEntity, Available, Entities
  <2>2. m_IsOccupied' \in [Entities -> BOOLEAN]
    BY <1>4, <2>1 DEF AcquireEntity, Entities
  <2>3. entity' \in [Fillers -> 0 .. TotalEntity] /\ HasEntity'
    BY <1>4, <2>1 DEF AcquireEntity
  <2>. QED BY <1>4, <2>2, <2>3 DEF AcquireEntity
<1>5. ASSUME NEW f \in Fillers, PrepareDelete(f) PROVE TypeInv'
  BY <1>5 DEF PrepareDelete
<1>6. ASSUME NEW f \in Fillers, PrepareClear(f) PROVE TypeInv'
  BY <1>6 DEF PrepareClear
<1>7. ASSUME NEW f \in Fillers, PrepareCreate(f) PROVE TypeInv'
  <2>1. PICK a \in Address :
           heap' = heap \union {a} /\ m_pMsg' = [m_pMsg EXCEPT ![entity[f]] = a]
    BY <1>7 DEF PrepareCreate
  <2>2. entity[f] \in Entities
    BY <1>7, EntityOfFiller DEF PrepareCreate
  <2>3. m_pMsg' \in [Entities -> Address \union {NULL}] /\ m_pMsg'[entity[f]] = a
    BY <2>1, <2>2
  <2>. QED BY <1>7, <2>1, <2>3 DEF PrepareCreate
<1>8. ASSUME NEW f \in Fillers, Decode(f) PROVE TypeInv'
  <2>1. m_pMsg[entity[f]] \in Address
    BY <1>8 DEF Decode
  <2>. QED BY <1>8, <2>1 DEF Decode
<1>9. ASSUME NEW f \in Fillers, DecodeThrows(f) PROVE TypeInv'
  BY <1>9 DEF DecodeThrows
<1>10. ASSUME NEW r \in Releasers, UseMsg(r) PROVE TypeInv'
  BY <1>10 DEF UseMsg
<1>11. ASSUME NEW r \in Releasers, ReleaseLock(r) PROVE TypeInv'
  BY <1>11 DEF ReleaseLock
<1>12. ASSUME NEW r \in Releasers, ReleaseEntity(r) PROVE TypeInv'
  BY <1>12 DEF ReleaseEntity
<1>13. ASSUME NEW r \in Releasers, WakeUp(r) PROVE TypeInv'
  BY <1>13 DEF WakeUp, At
<1>14. CASE UNCHANGED vars
  BY <1>14 DEF vars
<1>. QED
  BY <1>1, <1>2, <1>3, <1>4, <1>5, <1>6, <1>7, <1>8, <1>9, <1>10, <1>11, <1>12,
     <1>13, <1>14 DEF Next, FillStep, ReleaseStep

LEMMA TypeInvariant == ASSUME OneFiller PROVE SafeSpec => []TypeInv
BY TypeInit, TypeNext, PTL DEF SafeSpec

\* TypeOK holds in every reachable state; above all, no null pointer is ever
\* passed on or released.
THEOREM TypeCorrect == ASSUME OneFiller PROVE SafeSpec => []TypeOK
<1>1. TypeInv => TypeOK
  BY DEF TypeInv
<1>. QED BY <1>1, TypeInvariant, PTL

-----------------------------------------------------------------------------
(***************************************************************************)
(* Messages, their memory and their entities                               *)
(***************************************************************************)
\* The entity being filled is marked, and where the filler is says what is in it.
FillInv ==
    \A f \in Fillers :
        /\ entity[f] # 0 => m_IsOccupied[entity[f]]
        /\ pc[f] = "create" => m_pMsg[entity[f]] = NULL

\* An entity's pointer is null or leads to live memory, but for the moment between
\* the delete and the clear, and no two entities hold the same one.
HeapInv ==
    /\ \A e \in Entities :
          \/ m_pMsg[e] \in heap \union {NULL}
          \/ \E f \in Fillers : entity[f] = e /\ pc[f] = "clear"
    /\ \A d, e \in Entities : m_pMsg[d] = m_pMsg[e] => d = e \/ m_pMsg[d] = NULL

\* A message is passed on once and held by one thread.
HeldInv ==
    /\ \A r \in Releasers : held[r] # NULL <=> pc[r] \in {"release", "find"}
    /\ \A r \in Releasers : held[r] \notin passed
    /\ \A q, r \in Releasers : held[q] = held[r] => q = r \/ held[q] = NULL

\* e holds the message m for somebody outside the pool.
Keeps(e, m) ==
    /\ m_pMsg[e] = m /\ m_IsOccupied[e]
    /\ \A f \in Fillers : entity[f] # e

UseInv == \A m \in InUse : \E e \in Entities : Keeps(e, m)

KeepInv == FillInv /\ HeapInv /\ HeldInv /\ UseInv

LEMMA InUseIs ==
    ASSUME NEW m
    PROVE  m \in InUse <=> m \in passed \/ (m # NULL /\ \E r \in Releasers : held[r] = m)
BY DEF InUse

LEMMA KeepInit == Init => KeepInv
<1> SUFFICES ASSUME Init PROVE KeepInv
  OBVIOUS
<1>1. FillInv /\ HeapInv /\ HeldInv
  BY DEF Init, FillInv, HeapInv, HeldInv, Threads
<1>2. UseInv
  BY DEF Init, UseInv, InUse
<1>. QED BY <1>1, <1>2 DEF KeepInv

\* A step that changes only the steps threads are at, outside Busy and the use of
\* a message.
LEMMA KeepKept ==
    ASSUME KeepInv, UNCHANGED <<m_IsOccupied, m_pMsg, heap, entity, passed, held>>,
           \A f \in Fillers : /\ pc'[f] = "create" <=> pc[f] = "create"
                              /\ pc'[f] = "clear" <=> pc[f] = "clear",
           \A r \in Releasers : pc'[r] \in {"release", "find"} <=> pc[r] \in {"release", "find"}
    PROVE  KeepInv'
<1>1. FillInv'
  BY DEF KeepInv, FillInv
<1>2. HeapInv'
  BY DEF KeepInv, HeapInv
<1>3. HeldInv'
  BY DEF KeepInv, HeldInv
<1>4. UseInv'
  BY DEF KeepInv, UseInv, InUse, Keeps
<1>. QED BY <1>1, <1>2, <1>3, <1>4 DEF KeepInv

\* The messages in use are other than what is in the entity being filled.
LEMMA FilledIsNotInUse ==
    ASSUME TypeInv, KeepInv, NEW f \in Fillers, pc[f] \in Busy,
           NEW m \in InUse, NEW e \in Entities, Keeps(e, m)
    PROVE  e # entity[f] /\ m \in Address /\ m # m_pMsg[entity[f]] /\ m \in heap
<1>1. e # entity[f]
  BY DEF Keeps
<1>2. m \in Address
  BY DEF TypeInv, TypeOK, InUse
<1>3. m_pMsg[e] = m /\ m # NULL /\ \A g \in Fillers : entity[g] # e
  BY <1>2, PoolAssumption DEF Keeps
<1>4. entity[f] \in Entities
  BY EntityOfFiller
<1>5. m \in heap
  BY <1>3 DEF KeepInv, HeapInv
<1>6. m # m_pMsg[entity[f]]
  BY <1>1, <1>3, <1>4 DEF KeepInv, HeapInv
<1>. QED BY <1>1, <1>2, <1>5, <1>6

\* ReleaseEntity, which looks for the pointer, frees the one entity that keeps the
\* message for its caller.
LEMMA ReleaseFrees ==
    ASSUME TypeInv, KeepInv, NEW r \in Releasers, ReleaseEntity(r)
    PROVE  /\ held[r] \in InUse /\ InUse' = InUse \ {held[r]}
           /\ \E e \in Entities :
                 /\ Keeps(e, held[r])
                 /\ m_IsOccupied' = [m_IsOccupied EXCEPT ![e] = FALSE]
<1> DEFINE m == held[r]
           Holding == {e \in Entities : m_pMsg[e] = m}
<1>1. /\ pc[r] = "find" /\ held' = [held EXCEPT ![r] = NULL] /\ passed' = passed
      /\ m_IsOccupied' = [e \in Entities |->
             m_IsOccupied[e] /\ ~(Holding # {} /\ e = First(Holding))]
  BY DEF ReleaseEntity, Goto
<1>2. /\ held \in [Releasers -> Address \union {NULL}] /\ passed \subseteq Address
      /\ m_IsOccupied \in [Entities -> BOOLEAN] /\ NULL \notin Address
  BY PoolAssumption DEF TypeInv, TypeOK
<1>3. m # NULL /\ m \in InUse
  BY <1>1, InUseIs DEF KeepInv, HeldInv
<1>4. InUse' = InUse \ {m}
  BY <1>1, <1>2, <1>3 DEF InUse, KeepInv, HeldInv
<1>5. PICK e \in Entities : Keeps(e, m)
  BY <1>3 DEF KeepInv, UseInv
<1>6. Holding = {e}
  BY <1>3, <1>5 DEF Keeps, KeepInv, HeapInv
<1>7. First(Holding) = e
  BY <1>6, FirstIsMember
<1> HIDE DEF Holding
<1>8. m_IsOccupied' = [m_IsOccupied EXCEPT ![e] = FALSE]
  BY <1>1, <1>2, <1>6, <1>7
<1>. QED BY <1>3, <1>4, <1>5, <1>8

LEMMA KeepNext ==
    ASSUME OneFiller
    PROVE  TypeInv /\ KeepInv /\ [Next]_vars => KeepInv'
<1> SUFFICES ASSUME TypeInv, KeepInv, [Next]_vars PROVE KeepInv'
  OBVIOUS
<1> USE PoolAssumption DEF OneFiller, Threads, Goto, Lock, UnLock
<1>0. /\ pc \in [Threads -> FillSteps \union ReleaseSteps]
      /\ m_IsOccupied \in [Entities -> BOOLEAN]
      /\ m_pMsg \in [Entities -> Address \union {NULL}]
      /\ entity \in [Fillers -> 0 .. TotalEntity]
      /\ held \in [Releasers -> Address \union {NULL}]
      /\ heap \subseteq Address /\ passed \subseteq Address
      /\ HasEntity /\ HasMsg
  BY DEF TypeInv, TypeOK
<1>a. FillInv /\ HeapInv /\ HeldInv /\ UseInv
  BY DEF KeepInv
<1>1. ASSUME NEW f \in Fillers, DeSerialize(f) PROVE KeepInv'
  BY <1>0, <1>1, KeepKept DEF DeSerialize
<1>2. ASSUME NEW f \in Fillers, AcquireLock(f) PROVE KeepInv'
  BY <1>0, <1>2, KeepKept DEF AcquireLock
<1>3. ASSUME NEW f \in Fillers, AcquireWait(f) PROVE KeepInv'
  BY <1>0, <1>3, KeepKept DEF AcquireWait
<1>4. ASSUME NEW f \in Fillers, AcquireEntity(f) PROVE KeepInv'
  <2> DEFINE a == First(Available)
  <2>1. a \in Entities /\ ~m_IsOccupied[a]
    BY <1>4, FirstIsMember DEF AcquireEntity, Available
  <2>2. /\ entity' = [entity EXCEPT ![f] = a]
        /\ m_IsOccupied' = [m_IsOccupied EXCEPT ![a] = TRUE]
        /\ pc[f] = "search" /\ pc' = [pc EXCEPT ![f] = "delete"]
        /\ UNCHANGED <<m_pMsg, heap, passed, held>>
    BY <1>4 DEF AcquireEntity
  <2> HIDE DEF a
  <2>3. FillInv'
    BY <1>0, <1>a, <2>1, <2>2 DEF FillInv
  <2>4. HeapInv'
    <3>1. \A g \in Fillers : pc[g] # "clear"
      BY <2>2
    <3>. QED BY <1>a, <2>2, <3>1 DEF HeapInv
  <2>5. HeldInv'
    BY <1>0, <1>a, <2>2 DEF HeldInv
  <2>6. UseInv'
    <3> SUFFICES ASSUME NEW m \in InUse PROVE \E e \in Entities : Keeps(e, m)'
      BY <2>2 DEF UseInv, InUse
    <3>1. PICK e \in Entities : Keeps(e, m)
      BY <1>a DEF UseInv
    <3>2. e # a
      BY <2>1, <3>1 DEF Keeps
    <3>. QED BY <1>0, <2>2, <3>1, <3>2 DEF Keeps
  <2>. QED BY <2>3, <2>4, <2>5, <2>6 DEF KeepInv
<1>5. ASSUME NEW f \in Fillers, PrepareDelete(f) PROVE KeepInv'
  <2>1. /\ pc[f] = "delete" /\ pc' = [pc EXCEPT ![f] = "clear"]
        /\ heap' = heap \ {m_pMsg[entity[f]]}
        /\ UNCHANGED <<m_IsOccupied, m_pMsg, entity, passed, held>>
    BY <1>5 DEF PrepareDelete
  <2>2. entity[f] \in Entities
    BY <2>1, EntityOfFiller DEF Busy
  <2>3. FillInv'
    BY <1>0, <1>a, <2>1 DEF FillInv
  <2>4. HeapInv'
    <3>1. ASSUME NEW e \in Entities, e # entity[f] PROVE m_pMsg[e] \in heap' \union {NULL}
      <4>1. m_pMsg[e] \in heap \union {NULL}
        BY <1>a, <2>1, <3>1 DEF HeapInv
      <4>. QED BY <1>a, <2>1, <2>2, <3>1, <4>1 DEF HeapInv
    <3>2. pc'[f] = "clear"
      BY <1>0, <2>1
    <3>. QED BY <1>a, <2>1, <3>1, <3>2 DEF HeapInv
  <2>5. HeldInv'
    BY <1>0, <1>a, <2>1 DEF HeldInv
  <2>6. UseInv'
    BY <1>a, <2>1 DEF UseInv, InUse, Keeps
  <2>. QED BY <2>3, <2>4, <2>5, <2>6 DEF KeepInv
<1>6. ASSUME NEW f \in Fillers, PrepareClear(f) PROVE KeepInv'
  <2>1. /\ pc[f] = "clear" /\ pc' = [pc EXCEPT ![f] = "create"]
        /\ m_pMsg' = [m_pMsg EXCEPT ![entity[f]] = NULL]
        /\ UNCHANGED <<m_IsOccupied, heap, entity, passed, held>>
    BY <1>6 DEF PrepareClear
  <2>2. entity[f] \in Entities
    BY <2>1, EntityOfFiller DEF Busy
  <2>3. /\ m_pMsg'[entity[f]] = NULL
        /\ \A e \in Entities : e # entity[f] => m_pMsg'[e] = m_pMsg[e]
    BY <1>0, <2>1, <2>2
  <2>4. FillInv'
    BY <1>0, <1>a, <2>1, <2>3 DEF FillInv
  <2>5. HeapInv'
    BY <1>a, <2>1, <2>3 DEF HeapInv
  <2>6. HeldInv'
    BY <1>0, <1>a, <2>1 DEF HeldInv
  <2>7. UseInv'
    <3> SUFFICES ASSUME NEW m \in InUse PROVE \E e \in Entities : Keeps(e, m)'
      BY <2>1 DEF UseInv, InUse
    <3>1. PICK e \in Entities : Keeps(e, m)
      BY <1>a DEF UseInv
    <3>2. e # entity[f]
      BY <3>1 DEF Keeps
    <3>. QED BY <2>1, <2>3, <3>1, <3>2 DEF Keeps
  <2>. QED BY <2>4, <2>5, <2>6, <2>7 DEF KeepInv
<1>7. ASSUME NEW f \in Fillers, PrepareCreate(f) PROVE KeepInv'
  <2>1. PICK a \in Address \ heap :
           heap' = heap \union {a} /\ m_pMsg' = [m_pMsg EXCEPT ![entity[f]] = a]
    BY <1>7 DEF PrepareCreate
  <2>2. /\ pc[f] = "create" /\ pc' = [pc EXCEPT ![f] = "decode"]
        /\ UNCHANGED <<m_IsOccupied, entity, passed, held>>
    BY <1>7 DEF PrepareCreate
  <2>3. entity[f] \in Entities
    BY <2>2, EntityOfFiller DEF Busy
  <2>4. /\ m_pMsg'[entity[f]] = a
        /\ \A e \in Entities : e # entity[f] => m_pMsg'[e] = m_pMsg[e]
    BY <1>0, <2>1, <2>3
  <2>5. FillInv'
    BY <1>0, <1>a, <2>2 DEF FillInv
  <2>6. HeapInv'
    <3>1. \A e \in Entities : m_pMsg[e] \in heap \union {NULL} /\ m_pMsg[e] # a
      BY <1>a, <2>1, <2>2 DEF HeapInv
    <3>. QED BY <1>a, <2>1, <2>4, <3>1 DEF HeapInv
  <2>7. HeldInv'
    BY <1>0, <1>a, <2>2 DEF HeldInv
  <2>8. UseInv'
    <3> SUFFICES ASSUME NEW m \in InUse PROVE \E e \in Entities : Keeps(e, m)'
      BY <2>2 DEF UseInv, InUse
    <3>1. PICK e \in Entities : Keeps(e, m)
      BY <1>a DEF UseInv
    <3>2. e # entity[f]
      BY <3>1 DEF Keeps
    <3>. QED BY <2>2, <2>4, <3>1, <3>2 DEF Keeps
  <2>. QED BY <2>5, <2>6, <2>7, <2>8 DEF KeepInv
<1>8. ASSUME NEW f \in Fillers, Decode(f) PROVE KeepInv'
  <2> DEFINE d == entity[f]
  <2>1. /\ pc[f] = "decode" /\ pc' = [pc EXCEPT ![f] = "idle"]
        /\ passed' = passed \union {m_pMsg[d]} /\ entity' = [entity EXCEPT ![f] = 0]
        /\ UNCHANGED <<m_IsOccupied, m_pMsg, heap, held>>
    BY <1>8 DEF Decode
  <2>2. d \in Entities /\ m_pMsg[d] \in Address /\ m_IsOccupied[d]
    BY <1>0, <1>a, <2>1, EntityOfFiller DEF Busy, FillInv, HasMsg, HasEntity
  <2>3. m_pMsg[d] \notin InUse
    BY <1>a, <2>1, FilledIsNotInUse DEF Busy, UseInv
  <2> HIDE DEF d
  <2>4. \A g \in Fillers : entity'[g] = 0 /\ pc'[g] = "idle"
    BY <1>0, <2>1
  <2>5. FillInv'
    BY <2>4 DEF FillInv
  <2>6. HeapInv'
    BY <1>a, <2>1 DEF HeapInv
  <2>7. HeldInv'
    <3>1. \A r \in Releasers : held[r] # m_pMsg[d]
      BY <2>2, <2>3, InUseIs
    <3>2. \A r \in Releasers : pc'[r] = pc[r]
      BY <1>0, <2>1
    <3>. QED BY <1>a, <2>1, <3>1, <3>2 DEF HeldInv
  <2>8. UseInv'
    <3> SUFFICES ASSUME NEW m \in InUse' PROVE \E e \in Entities : Keeps(e, m)'
      BY DEF UseInv
    <3>1. m \in InUse \/ m = m_pMsg[d]
      BY <2>1 DEF InUse
    <3>2. \A e \in Entities : m_pMsg[e] = m /\ m_IsOccupied[e] => Keeps(e, m)'
      BY <2>1, <2>4 DEF Keeps, Entities
    <3>. QED BY <1>a, <2>2, <3>1, <3>2 DEF UseInv, Keeps
  <2>. QED BY <2>5, <2>6, <2>7, <2>8 DEF KeepInv
<1>9. ASSUME NEW f \in Fillers, DecodeThrows(f) PROVE KeepInv'
  <2>1. /\ pc[f] = "decode" /\ pc' = [pc EXCEPT ![f] = "idle"]
        /\ entity' = [entity EXCEPT ![f] = 0]
        /\ UNCHANGED <<m_IsOccupied, m_pMsg, heap, passed, held>>
    BY <1>9 DEF DecodeThrows
  <2>2. \A g \in Fillers : entity'[g] = 0 /\ pc'[g] = "idle"
    BY <1>0, <2>1
  <2>3. FillInv'
    BY <2>2 DEF FillInv
  <2>4. HeapInv'
    BY <1>a, <2>1 DEF HeapInv
  <2>5. HeldInv'
    BY <1>0, <1>a, <2>1 DEF HeldInv
  <2>6. UseInv'
    BY <1>a, <2>1, <2>2 DEF UseInv, InUse, Keeps, Entities
  <2>. QED BY <2>3, <2>4, <2>5, <2>6 DEF KeepInv
<1>10. ASSUME NEW r \in Releasers, UseMsg(r) PROVE KeepInv'
  <2>1. PICK m \in passed : passed' = passed \ {m} /\ held' = [held EXCEPT ![r] = m]
    BY <1>10 DEF UseMsg
  <2>2. /\ pc[r] = "idle" /\ pc' = [pc EXCEPT ![r] = "release"]
        /\ UNCHANGED <<m_IsOccupied, m_pMsg, heap, entity>>
    BY <1>10 DEF UseMsg
  <2>3. held[r] = NULL /\ m # NULL /\ \A q \in Releasers : held[q] # m
    BY <1>0, <1>a, <2>2 DEF HeldInv
  <2>4. \A f \in Fillers : pc'[f] = pc[f]
    BY <1>0, <2>2
  <2>5. FillInv' /\ HeapInv'
    BY <1>a, <2>2, <2>4 DEF FillInv, HeapInv
  <2>6. HeldInv'
    BY <1>0, <1>a, <2>1, <2>2, <2>3 DEF HeldInv
  <2>7. InUse' = InUse
    BY <1>0, <2>1, <2>3, InUseIs DEF InUse
  <2>8. UseInv'
    BY <1>a, <2>2, <2>7 DEF UseInv, Keeps
  <2>. QED BY <2>5, <2>6, <2>8 DEF KeepInv
<1>11. ASSUME NEW r \in Releasers, ReleaseLock(r) PROVE KeepInv'
  BY <1>0, <1>11, KeepKept DEF ReleaseLock
<1>12. ASSUME NEW r \in Releasers, ReleaseEntity(r) PROVE KeepInv'
  <2>1. /\ pc[r] = "find" /\ pc' = [pc EXCEPT ![r] = "signal"]
        /\ held' = [held EXCEPT ![r] = NULL]
        /\ UNCHANGED <<m_pMsg, heap, entity, passed>>
    BY <1>12 DEF ReleaseEntity
  <2>2. held[r] \in InUse /\ InUse' = InUse \ {held[r]}
    BY <1>12, ReleaseFrees
  <2>3. PICK d \in Entities : /\ Keeps(d, held[r])
                              /\ m_IsOccupied' = [m_IsOccupied EXCEPT ![d] = FALSE]
    BY <1>12, ReleaseFrees
  <2>4. \A f \in Fillers : pc'[f] = pc[f] /\ entity[f] # d
    BY <1>0, <2>1, <2>3 DEF Keeps
  <2>5. FillInv' /\ HeapInv'
    <3>1. FillInv'
      BY <1>0, <1>a, <2>1, <2>3, <2>4 DEF FillInv, Entities
    <3>2. HeapInv'
      BY <1>a, <2>1, <2>4 DEF HeapInv
    <3>. QED BY <3>1, <3>2
  <2>6. HeldInv'
    BY <1>0, <1>a, <2>1 DEF HeldInv
  <2>7. UseInv'
    <3> SUFFICES ASSUME NEW m \in InUse, m # held[r] PROVE \E e \in Entities : Keeps(e, m)'
      BY <2>2 DEF UseInv
    <3>1. PICK e \in Entities : Keeps(e, m)
      BY <1>a DEF UseInv
    <3>2. e # d
      BY <2>3, <3>1 DEF Keeps
    <3>. QED BY <1>0, <2>1, <2>3, <3>1, <3>2 DEF Keeps
  <2>. QED BY <2>5, <2>6, <2>7 DEF KeepInv
<1>13. ASSUME NEW r \in Releasers, WakeUp(r) PROVE KeepInv'
  BY <1>0, <1>13, KeepKept DEF WakeUp, At
<1>14. CASE UNCHANGED vars
  BY <1>14, KeepKept DEF vars
<1>. QED
  BY <1>1, <1>2, <1>3, <1>4, <1>5, <1>6, <1>7, <1>8, <1>9, <1>10, <1>11,
     <1>12, <1>13, <1>14 DEF Next, FillStep, ReleaseStep

LEMMA KeepInvariant == ASSUME OneFiller PROVE SafeSpec => []KeepInv
BY TypeInvariant, KeepInit, KeepNext, PTL DEF SafeSpec

\* A message somebody may still read is live memory in an entity nobody fills, the
\* only one with its pointer: what operator new returns does not matter.
THEOREM MessagesInUseAreKept == ASSUME OneFiller PROVE SafeSpec => []MsgInUseIsKept
<1>1. TypeInv /\ KeepInv => MsgInUseIsKept
  <2> SUFFICES ASSUME TypeInv, KeepInv, NEW m \in InUse
               PROVE  /\ m \in heap
                      /\ \E e \in Entities :
                            /\ m_pMsg[e] = m /\ m_IsOccupied[e]
                            /\ \A f \in Fillers : entity[f] # e
                            /\ \A d \in Entities \ {e} : m_pMsg[d] # m
    BY DEF MsgInUseIsKept
  <2>1. PICK e \in Entities : Keeps(e, m)
    BY DEF KeepInv, UseInv
  <2>2. m # NULL
    BY PoolAssumption DEF TypeInv, TypeOK, InUse
  <2>3. m \in heap
    BY <2>1, <2>2 DEF Keeps, KeepInv, HeapInv
  <2>4. \A d \in Entities \ {e} : m_pMsg[d] # m
    BY <2>1, <2>2 DEF Keeps, KeepInv, HeapInv
  <2>. QED BY <2>1, <2>3, <2>4 DEF Keeps
<1>. QED BY <1>1, TypeInvariant, KeepInvariant, PTL

-----------------------------------------------------------------------------
(***************************************************************************)
(* What an entity is occupied for                                          *)
(***************************************************************************)
Occupied == {e \in Entities : m_IsOccupied[e]}
Filling == {f \in Fillers : entity[f] # 0}

Accounted == Cardinality(Occupied) = Cardinality(Filling) + Cardinality(InUse) + thrown

LEMMA SetsAreFinite ==
    ASSUME OneFiller, TypeInv
    PROVE  /\ IsFiniteSet(Occupied) /\ Cardinality(Occupied) \in Nat
           /\ IsFiniteSet(Filling) /\ Cardinality(Filling) \in Nat
           /\ IsFiniteSet(InUse) /\ Cardinality(InUse) \in Nat
<1>1. IsFiniteSet(Entities)
  BY PoolAssumption, FS_Interval DEF Entities
<1>2. IsFiniteSet(Fillers)
  <2>1. CASE Fillers = {}
    BY <2>1, FS_EmptySet
  <2>2. CASE Fillers # {}
    <3>1. PICK f : Fillers = {f}
      BY <2>2 DEF OneFiller
    <3>. QED BY <3>1, FS_Singleton
  <2>. QED BY <2>1, <2>2
<1>3. InUse \subseteq Address
  BY DEF InUse, TypeInv, TypeOK
<1>4. Occupied \subseteq Entities /\ Filling \subseteq Fillers
  BY DEF Occupied, Filling
<1>. QED BY <1>1, <1>2, <1>3, <1>4, PoolAssumption, FS_Subset, FS_CardinalityType

LEMMA AccountedInit == Init => Accounted
<1> SUFFICES ASSUME Init PROVE Accounted
  OBVIOUS
<1>1. Occupied = {} /\ Filling = {} /\ InUse = {} /\ thrown = 0
  BY DEF Init, Occupied, Filling, InUse
<1>. QED BY <1>1, FS_EmptySet DEF Accounted

\* A step that changes none of the sets.
LEMMA AccountedKept ==
    ASSUME Accounted, UNCHANGED <<m_IsOccupied, entity, passed, held, thrown>>
    PROVE  Accounted'
<1>1. Occupied' = Occupied /\ Filling' = Filling /\ InUse' = InUse
  BY DEF Occupied, Filling, InUse
<1>. QED BY <1>1 DEF Accounted

\* The one filler is all of Filling, while it has an entity.
LEMMA FillingIs ==
    ASSUME OneFiller, NEW f \in Fillers
    PROVE  /\ entity[f] # 0 => Cardinality(Filling) = 1
           /\ entity[f] = 0 => Cardinality(Filling) = 0
<1>1. entity[f] # 0 => Filling = {f}
  BY DEF OneFiller, Filling
<1>2. entity[f] = 0 => Filling = {}
  BY DEF OneFiller, Filling
<1>. QED BY <1>1, <1>2, FS_Singleton, FS_EmptySet

LEMMA FillingIsNext ==
    ASSUME OneFiller, NEW f \in Fillers
    PROVE  /\ entity'[f] # 0 => Cardinality(Filling') = 1
           /\ entity'[f] = 0 => Cardinality(Filling') = 0
<1>1. entity'[f] # 0 => Filling' = {f}
  BY DEF OneFiller, Filling
<1>2. entity'[f] = 0 => Filling' = {}
  BY DEF OneFiller, Filling
<1>. QED BY <1>1, <1>2, FS_Singleton, FS_EmptySet

LEMMA AccountedNext ==
    ASSUME OneFiller
    PROVE  TypeInv /\ KeepInv /\ Accounted /\ [Next]_vars => Accounted'
<1> SUFFICES ASSUME TypeInv, KeepInv, Accounted, [Next]_vars PROVE Accounted'
  OBVIOUS
<1>0. /\ m_IsOccupied \in [Entities -> BOOLEAN] /\ entity \in [Fillers -> 0 .. TotalEntity]
      /\ held \in [Releasers -> Address \union {NULL}] /\ thrown \in Nat
      /\ IsFiniteSet(Occupied) /\ Cardinality(Occupied) \in Nat
      /\ Cardinality(Filling) \in Nat
      /\ IsFiniteSet(InUse) /\ Cardinality(InUse) \in Nat
      /\ Cardinality(Occupied) = Cardinality(Filling) + Cardinality(InUse) + thrown
      /\ HasEntity /\ HasMsg
  BY PoolAssumption, SetsAreFinite DEF TypeInv, TypeOK, Accounted
<1>1. ASSUME NEW f \in Fillers, AcquireEntity(f) PROVE Accounted'
  <2> DEFINE a == First(Available)
  <2>1. a \in Entities /\ ~m_IsOccupied[a] /\ a # 0
    BY <1>1, FirstIsMember DEF AcquireEntity, Available, Entities
  <2>2. /\ pc[f] = "search" /\ entity' = [entity EXCEPT ![f] = a]
        /\ m_IsOccupied' = [m_IsOccupied EXCEPT ![a] = TRUE]
        /\ UNCHANGED <<passed, held, thrown>>
    BY <1>1 DEF AcquireEntity, Goto
  <2> HIDE DEF a
  <2>3. Occupied' = Occupied \union {a} /\ a \notin Occupied
    BY <1>0, <2>1, <2>2 DEF Occupied
  <2>4. Cardinality(Occupied') = Cardinality(Occupied) + 1
    BY <1>0, <2>3, FS_AddElement
  <2>5. entity[f] = 0 /\ entity'[f] # 0
    BY <1>0, <2>1, <2>2 DEF HasEntity, Busy
  <2>6. Cardinality(Filling) = 0 /\ Cardinality(Filling') = 1
    BY <2>5, FillingIs, FillingIsNext
  <2>7. InUse' = InUse
    BY <2>2 DEF InUse
  <2>. QED BY <1>0, <2>2, <2>4, <2>6, <2>7 DEF Accounted
<1>2. ASSUME NEW f \in Fillers, Decode(f) PROVE Accounted'
  <2> DEFINE m == m_pMsg[entity[f]]
  <2>1. /\ pc[f] = "decode" /\ pc[f] \in Busy
        /\ passed' = passed \union {m} /\ entity' = [entity EXCEPT ![f] = 0]
        /\ UNCHANGED <<m_IsOccupied, held, thrown>>
    BY <1>2 DEF Decode, Goto, Busy
  <2>2. m \notin InUse
    BY <2>1, FilledIsNotInUse DEF KeepInv, UseInv
  <2>3. InUse' = InUse \union {m}
    BY <2>1 DEF InUse
  <2> HIDE DEF m
  <2>4. Cardinality(InUse') = Cardinality(InUse) + 1
    BY <1>0, <2>2, <2>3, FS_AddElement
  <2>5. entity[f] # 0 /\ entity'[f] = 0
    BY <1>0, <2>1 DEF HasEntity
  <2>6. Cardinality(Filling) = 1 /\ Cardinality(Filling') = 0
    BY <2>5, FillingIs, FillingIsNext
  <2>7. Occupied' = Occupied
    BY <2>1 DEF Occupied
  <2>. QED BY <1>0, <2>1, <2>4, <2>6, <2>7 DEF Accounted
<1>3. ASSUME NEW f \in Fillers, DecodeThrows(f) PROVE Accounted'
  <2>1. /\ pc[f] = "decode" /\ entity' = [entity EXCEPT ![f] = 0] /\ thrown' = thrown + 1
        /\ UNCHANGED <<m_IsOccupied, passed, held>>
    BY <1>3 DEF DecodeThrows, Goto
  <2>2. entity[f] # 0 /\ entity'[f] = 0
    BY <1>0, <2>1 DEF HasEntity, Busy
  <2>3. Cardinality(Filling) = 1 /\ Cardinality(Filling') = 0
    BY <2>2, FillingIs, FillingIsNext
  <2>4. Occupied' = Occupied /\ InUse' = InUse
    BY <2>1 DEF Occupied, InUse
  <2>. QED BY <1>0, <2>1, <2>3, <2>4 DEF Accounted
<1>4. ASSUME NEW r \in Releasers, UseMsg(r) PROVE Accounted'
  <2>1. PICK m \in passed : passed' = passed \ {m} /\ held' = [held EXCEPT ![r] = m]
    BY <1>4 DEF UseMsg
  <2>2. pc[r] = "idle" /\ UNCHANGED <<m_IsOccupied, entity, thrown>>
    BY <1>4 DEF UseMsg, Goto
  <2>3. held[r] = NULL /\ m # NULL
    BY <2>2, PoolAssumption DEF KeepInv, HeldInv, TypeInv, TypeOK
  <2>4. InUse' = InUse
    BY <1>0, <2>1, <2>3 DEF InUse
  <2>5. Occupied' = Occupied /\ Filling' = Filling
    BY <2>2 DEF Occupied, Filling
  <2>. QED BY <1>0, <2>2, <2>4, <2>5 DEF Accounted
<1>5. ASSUME NEW r \in Releasers, ReleaseEntity(r) PROVE Accounted'
  <2>1. held[r] \in InUse /\ InUse' = InUse \ {held[r]}
    BY <1>5, ReleaseFrees
  <2>2. PICK d \in Entities : /\ Keeps(d, held[r])
                              /\ m_IsOccupied' = [m_IsOccupied EXCEPT ![d] = FALSE]
    BY <1>5, ReleaseFrees
  <2>3. Occupied' = Occupied \ {d} /\ d \in Occupied
    BY <1>0, <2>2 DEF Occupied, Keeps
  <2>4. /\ Cardinality(Occupied') = Cardinality(Occupied) - 1
        /\ Cardinality(InUse') = Cardinality(InUse) - 1
    BY <1>0, <2>1, <2>3, FS_RemoveElement
  <2>5. Filling' = Filling /\ thrown' = thrown
    BY <1>5 DEF ReleaseEntity, Filling
  <2>. QED BY <1>0, <2>4, <2>5 DEF Accounted
<1>6. ASSUME NEW f \in Fillers,
             \/ DeSerialize(f) \/ AcquireLock(f) \/ AcquireWait(f)
             \/ PrepareDelete(f) \/ PrepareClear(f) \/ PrepareCreate(f)
      PROVE  Accounted'
  BY <1>6, AccountedKept
     DEF DeSerialize, AcquireLock, AcquireWait, PrepareDelete, PrepareClear, PrepareCreate
<1>7. ASSUME NEW r \in Releasers, ReleaseLock(r) \/ WakeUp(r) PROVE Accounted'
  BY <1>7, AccountedKept DEF ReleaseLock, WakeUp
<1>8. CASE UNCHANGED vars
  BY <1>8, AccountedKept DEF vars
<1>. QED
  BY <1>1, <1>2, <1>3, <1>4, <1>5, <1>6, <1>7, <1>8 DEF Next, FillStep, ReleaseStep

\* Every occupied entity is being filled, holds a message in use or was lost to a
\* decode that threw, one for each; none is lost or freed twice otherwise.
THEOREM EntitiesAreAccountedFor ==
    ASSUME OneFiller
    PROVE  SafeSpec => []OccupiedIsAccountedFor
<1>1. Accounted /\ TypeInv /\ KeepInv => OccupiedIsAccountedFor
  BY DEF Accounted, OccupiedIsAccountedFor, Occupied, Filling, KeepInv, FillInv
<1>. QED
  BY <1>1, TypeInvariant, KeepInvariant, AccountedInit, AccountedNext, PTL DEF SafeSpec
=============================================================================
