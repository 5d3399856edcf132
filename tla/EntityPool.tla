----------------------------- MODULE EntityPool -----------------------------
(***************************************************************************)
(* xtyMsgDeSerializer: a fixed array of entities, each able to hold one    *)
(* deserialized message, lent out under a mutex and a condition variable.  *)
(* DeSerialize acquires an entity and fills it OUTSIDE the mutex; the      *)
(* message then travels by pointer (through a queue, to callbacks) until   *)
(* somebody calls ReleaseEntity, which finds the entity again by comparing *)
(* that pointer with what every entity holds.  xtyMsgSerializer has the    *)
(* same AcquireEntity and ReleaseEntity over entities whose buffers never  *)
(* move.                                                                   *)
(*                                                                         *)
(* Filler:   idle -> acquire -> search [-> waiting -> woken -> search]     *)
(*                -> delete -> clear -> create -> decode -> idle           *)
(* Releaser: idle -> release -> find -> signal -> idle                     *)
(***************************************************************************)
EXTENDS Naturals, FiniteSets

CONSTANTS TotalEntity,  \* m_TotalEntityCount
          Fillers,      \* the threads that call DeSerialize
          Releasers,    \* the threads that use a message, then release it
          Address,      \* the addresses operator new can return
          MaxThrow,     \* bound: how many messages fail to decode
          NULL,         \* the null pointer
          NoThread      \* the owner of a free mutex

Entities == 1 .. TotalEntity
Threads == Fillers \union Releasers

ASSUME PoolAssumption ==
    /\ TotalEntity \in Nat \ {0} /\ MaxThrow \in Nat
    /\ Fillers \intersect Releasers = {} /\ NoThread \notin Threads
    /\ NULL \notin Address
    /\ IsFiniteSet(Address) /\ Cardinality(Address) > TotalEntity

VARIABLES pc,           \* pc[t]: the next step of t
          m_IsOccupied, \* m_IsOccupied[e]
          m_pMsg,       \* m_pMsg[e]: the entity's m_pDeSerializedMsg
          m_Lock,       \* owner of m_EntityArrayLock
          heap,         \* the addresses that hold a live message
          entity,       \* entity[f]: the entity f has acquired, or 0
          passed,       \* the message pointers on their way to a releaser
          held,         \* held[r]: the message pointer r is using, or NULL
          thrown        \* how many decodes have thrown

vars == <<pc, m_IsOccupied, m_pMsg, m_Lock, heap, entity, passed, held, thrown>>

At(steps) == {t \in Threads : pc[t] \in steps}

Init ==
    /\ pc = [t \in Threads |-> "idle"]
    /\ m_IsOccupied = [e \in Entities |-> FALSE]
    /\ m_pMsg = [e \in Entities |-> NULL]
    /\ m_Lock = NoThread
    /\ heap = {}
    /\ entity = [f \in Fillers |-> 0]
    /\ passed = {}
    /\ held = [r \in Releasers |-> NULL]
    /\ thrown = 0

-----------------------------------------------------------------------------
Goto(t, from, to) ==
    /\ pc[t] = from
    /\ pc' = [pc EXCEPT ![t] = to]

Lock(t) == m_Lock = NoThread /\ m_Lock' = t
UnLock == m_Lock' = NoThread

\* The first of a set of entities: both loops over the array stop there.
First(S) == CHOOSE e \in S : \A d \in S : e <= d

Available == {e \in Entities : ~m_IsOccupied[e]}

(***************************************************************************)
(* DeSerialize                                                             *)
(***************************************************************************)
DeSerialize(f) ==
    /\ Goto(f, "idle", "acquire")
    /\ UNCHANGED <<m_IsOccupied, m_pMsg, m_Lock, heap, entity, passed, held, thrown>>

AcquireLock(f) ==
    /\ Goto(f, "acquire", "search") \/ Goto(f, "woken", "search")
    /\ Lock(f)
    /\ UNCHANGED <<m_IsOccupied, m_pMsg, heap, entity, passed, held, thrown>>

AcquireWait(f) ==
    /\ Available = {}
    /\ Goto(f, "search", "waiting")
    /\ UnLock
    /\ UNCHANGED <<m_IsOccupied, m_pMsg, heap, entity, passed, held, thrown>>

\* Mutant: the entity is not marked.
AcquireUnmarked(f) ==
    /\ Available # {}
    /\ Goto(f, "search", "delete")
    /\ entity' = [entity EXCEPT ![f] = First(Available)]
    /\ UnLock
    /\ UNCHANGED <<m_IsOccupied, m_pMsg, heap, passed, held, thrown>>

AcquireEntity(f) ==
    /\ Available # {}
    /\ Goto(f, "search", "delete")
    /\ entity' = [entity EXCEPT ![f] = First(Available)]
    /\ m_IsOccupied' = [m_IsOccupied EXCEPT ![First(Available)] = TRUE]
    /\ UnLock
    /\ UNCHANGED <<m_pMsg, heap, passed, held, thrown>>

\* Prepare, three steps outside the mutex: the old message is deleted, its
\* pointer cleared, and a message of the new type is created.
PrepareDelete(f) ==
    /\ Goto(f, "delete", "clear")
    /\ heap' = heap \ {m_pMsg[entity[f]]}
    /\ UNCHANGED <<m_IsOccupied, m_pMsg, m_Lock, entity, passed, held, thrown>>

PrepareClear(f) ==
    /\ Goto(f, "clear", "create")
    /\ m_pMsg' = [m_pMsg EXCEPT ![entity[f]] = NULL]
    /\ UNCHANGED <<m_IsOccupied, m_Lock, heap, entity, passed, held, thrown>>

\* Mutant: a type the switch does not know leaves the null pointer.
PrepareUnknown(f) ==
    /\ Goto(f, "create", "decode")
    /\ UNCHANGED <<m_IsOccupied, m_pMsg, m_Lock, heap, entity, passed, held, thrown>>

PrepareCreate(f) ==
    /\ Goto(f, "create", "decode")
    /\ \E a \in Address \ heap :
          /\ heap' = heap \union {a}
          /\ m_pMsg' = [m_pMsg EXCEPT ![entity[f]] = a]
    /\ UNCHANGED <<m_IsOccupied, m_Lock, entity, passed, held, thrown>>

Decode(f) ==
    /\ Goto(f, "decode", "idle")
    /\ passed' = passed \union {m_pMsg[entity[f]]}
    /\ entity' = [entity EXCEPT ![f] = 0]
    /\ UNCHANGED <<m_IsOccupied, m_pMsg, m_Lock, heap, held, thrown>>

\* A field does not fit in the buffer: XTY_OUT_OF_BUFFER_RANGE leaves
\* DeSerialize and the entity, which no caller can name, stays occupied.
DecodeThrows(f) ==
    /\ thrown < MaxThrow
    /\ thrown' = thrown + 1
    /\ Goto(f, "decode", "idle")
    /\ entity' = [entity EXCEPT ![f] = 0]
    /\ UNCHANGED <<m_IsOccupied, m_pMsg, m_Lock, heap, passed, held>>

(***************************************************************************)
(* ReleaseEntity                                                           *)
(***************************************************************************)
\* A thread takes up a message to release it.  Nobody has to: a data message that no
\* client matches, and those of the dull and the quit call-back, stay in passed.
UseMsg(r) ==
    /\ Goto(r, "idle", "release")
    /\ \E m \in passed :
          /\ passed' = passed \ {m}
          /\ held' = [held EXCEPT ![r] = m]
    /\ UNCHANGED <<m_IsOccupied, m_pMsg, m_Lock, heap, entity, thrown>>

ReleaseLock(r) ==
    /\ Goto(r, "release", "find")
    /\ Lock(r)
    /\ UNCHANGED <<m_IsOccupied, m_pMsg, heap, entity, passed, held, thrown>>

\* Mutant: the search begins with the second entity.
ReleaseFromSecond(r) ==
    LET Holding == {e \in Entities \ {1} : m_pMsg[e] = held[r]} IN
    /\ Goto(r, "find", "signal")
    /\ m_IsOccupied' = [e \in Entities |->
          m_IsOccupied[e] /\ ~(Holding # {} /\ e = First(Holding))]
    /\ held' = [held EXCEPT ![r] = NULL]
    /\ UnLock
    /\ UNCHANGED <<m_pMsg, heap, entity, passed, thrown>>

\* Mutant: the message is deleted on release, its pointer stays.
ReleaseDeletes(r) ==
    LET Holding == {e \in Entities : m_pMsg[e] = held[r]} IN
    /\ Goto(r, "find", "signal")
    /\ m_IsOccupied' = [e \in Entities |->
          m_IsOccupied[e] /\ ~(Holding # {} /\ e = First(Holding))]
    /\ heap' = heap \ {held[r]}
    /\ held' = [held EXCEPT ![r] = NULL]
    /\ UnLock
    /\ UNCHANGED <<m_pMsg, entity, passed, thrown>>

\* The first entity that holds the given pointer is freed, if there is one.
ReleaseEntity(r) ==
    LET Holding == {e \in Entities : m_pMsg[e] = held[r]} IN
    /\ Goto(r, "find", "signal")
    /\ m_IsOccupied' = [e \in Entities |->
          m_IsOccupied[e] /\ ~(Holding # {} /\ e = First(Holding))]
    /\ held' = [held EXCEPT ![r] = NULL]
    /\ UnLock
    /\ UNCHANGED <<m_pMsg, heap, entity, passed, thrown>>

\* Mutant: nobody is woken.
NoWakeUp(r) ==
    /\ Goto(r, "signal", "idle")
    /\ UNCHANGED <<m_IsOccupied, m_pMsg, m_Lock, heap, entity, passed, held, thrown>>

\* m_EntityArrayCond.WakeUp(), after the mutex is released.
WakeUp(r) ==
    /\ pc[r] = "signal"
    /\ \/ \E f \in At({"waiting"}) : pc' = [pc EXCEPT ![r] = "idle", ![f] = "woken"]
       \/ At({"waiting"}) = {} /\ pc' = [pc EXCEPT ![r] = "idle"]
    /\ UNCHANGED <<m_IsOccupied, m_pMsg, m_Lock, heap, entity, passed, held, thrown>>

-----------------------------------------------------------------------------
FillStep(f) ==
    \/ AcquireLock(f) \/ AcquireWait(f) \/ AcquireEntity(f)
    \/ PrepareDelete(f) \/ PrepareClear(f) \/ PrepareCreate(f)
    \/ Decode(f) \/ DecodeThrows(f)

ReleaseStep(r) == ReleaseLock(r) \/ ReleaseEntity(r) \/ WakeUp(r)

Next ==
    \/ \E f \in Fillers : DeSerialize(f) \/ FillStep(f)
    \/ \E r \in Releasers : UseMsg(r) \/ ReleaseStep(r)

SafeSpec == Init /\ [][Next]_vars

\* Threads that can take their next step inside a call do.  Nobody owes the pool a
\* call: that a message is ever released is not assumed.
Fairness ==
    /\ \A f \in Fillers : WF_vars(FillStep(f))
    /\ \A r \in Releasers : WF_vars(ReleaseStep(r))

Spec == SafeSpec /\ Fairness

-----------------------------------------------------------------------------
(***************************************************************************)
(* Properties                                                              *)
(***************************************************************************)
FillSteps == {"idle", "acquire", "search", "waiting", "woken", "delete", "clear",
              "create", "decode"}
ReleaseSteps == {"idle", "release", "find", "signal"}

TypeOK ==
    /\ \A f \in Fillers : pc[f] \in FillSteps
    /\ \A r \in Releasers : pc[r] \in ReleaseSteps
    /\ m_IsOccupied \in [Entities -> BOOLEAN]
    /\ m_pMsg \in [Entities -> Address \union {NULL}]
    /\ m_Lock \in Threads \union {NoThread}
    /\ heap \subseteq Address
    /\ entity \in [Fillers -> 0 .. TotalEntity]
    /\ passed \subseteq Address
    /\ held \in [Releasers -> Address \union {NULL}]
    /\ thrown \in 0 .. MaxThrow

\* The message pointers somebody outside the pool may still follow.
InUse == passed \union {held[r] : r \in {q \in Releasers : held[q] # NULL}}

\* A message somebody may still read is live memory, in an occupied entity that
\* no thread is filling: the pool never deletes or rewrites it before release.  No
\* other entity holds its pointer, so that ReleaseEntity, which finds the entity by
\* the pointer, frees the right one.
MsgInUseIsKept ==
    \A m \in InUse :
        /\ m \in heap
        /\ \E e \in Entities :
              /\ m_pMsg[e] = m /\ m_IsOccupied[e]
              /\ \A f \in Fillers : entity[f] # e
              /\ \A d \in Entities \ {e} : m_pMsg[d] # m

\* An entity is occupied for a thread filling it, a message in use, or a message
\* that failed to decode; a release never frees an entity that is being filled,
\* and a decode that throws costs the pool exactly one entity for ever.
OccupiedIsAccountedFor ==
    /\ \A f \in Fillers : entity[f] # 0 => m_IsOccupied[entity[f]]
    /\ Cardinality({e \in Entities : m_IsOccupied[e]}) =
          Cardinality({f \in Fillers : entity[f] # 0}) + Cardinality(InUse) + thrown

\* Every entity is lost to a decode that threw, or holds a message that was passed
\* on and that nobody is releasing.
NothingComesBack == Cardinality(passed) + thrown = TotalEntity

\* A call of DeSerialize that waits for an entity gets one, unless from some time on
\* nothing comes back, because the messages that fill the pool are never released: no
\* wake-up is lost between the flag, the mutex and the signal sent after it, and no
\* entity is lost in between but by a decode that throws.
AcquireSucceeds ==
    \/ \A f \in Fillers : pc[f] = "acquire" ~> pc[f] = "delete"
    \/ <>[]NothingComesBack
=============================================================================
