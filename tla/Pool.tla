-------------------------------- MODULE Pool --------------------------------
(***************************************************************************)
(* xtyPool: the allocator behind every queue, map and facility.  Memory is *)
(* a list of nodes of PoolSize bytes; a request takes the aligned start of *)
(* the first node with room for it, under m_PoolLock, and nothing is given *)
(* back before the whole pool is destroyed.  A request that is too large   *)
(* for a node takes a small header from the pool, gets its data from       *)
(* malloc, and links the header into a list, so that Destroy finds it.     *)
(*                                                                         *)
(*   idle -> lock -> search -> take -> idle                       (small)  *)
(*                                  -> construct -> link -> publish -> idle*)
(*                                                                (large)  *)
(***************************************************************************)
EXTENDS Integers, Sequences

CONSTANTS Threads,      \* the threads that allocate
          PoolSize,     \* XTY_DEFAULT_POOL_SIZE
          Alignment,    \* XTY_PTR_ALIGNMENT
          PoolHeader,   \* sizeof(xtyPool), at the start of the first node
          NodeHeader,   \* sizeof(xtyPoolNode), at the start of the others
          LargeHeader,  \* sizeof(xtyLargeBlock)
          MaxSmall,     \* XTY_LARGE_BLOCK_SIZE - sizeof(xtyPool)
          SizeRange,    \* size_t counts modulo SizeRange
          Sizes,        \* the sizes that are asked for
          MaxCall,      \* bound: how many allocations the run has
          NoThread      \* the owner of a free mutex

\* GetAlignedPtr: the next multiple of the alignment.
Aligned(p) == ((p + Alignment - 1) \div Alignment) * Alignment

ASSUME SizesAssumption ==
    /\ Alignment \in Nat \ {0}
    /\ PoolSize \in Nat /\ PoolSize % Alignment = 0
    /\ PoolHeader \in Nat /\ NodeHeader \in Nat /\ MaxSmall \in Nat
    /\ LargeHeader \in Nat \ {0}
    /\ NodeHeader <= PoolHeader /\ PoolHeader <= PoolSize
    /\ LargeHeader <= MaxSmall
    /\ Aligned(NodeHeader) + MaxSmall <= PoolSize
    /\ SizeRange \in Nat /\ PoolSize < SizeRange
    /\ Sizes \subseteq Nat /\ MaxCall \in Nat

ASSUME ThreadsAssumption == NoThread \notin Threads

VARIABLES pc,          \* pc[t]: the next step of t
          need,        \* need[t]: the bytes t wants from a node
          large,       \* large[t]: t wants them for the header of a large block
          place,       \* place[t]: the node and offset t has found
          rest,        \* rest[t]: the list t has read as the tail of its block
          m_PoolLock,  \* the owner of the mutex
          nodes,       \* nodes[i]: m_pEmptyStart of the i-th node, as an offset
          m_pLarge,    \* the list of large blocks: where their headers are
          heap,        \* the large blocks whose data malloc has allocated
          given,       \* the blocks the callers were given, in order
          m_pPool,     \* the pool exists
          lost,        \* the large blocks of threads that ended before linking
          calls        \* how many allocations were begun

threadVars == <<pc, need, large, place, rest>>
vars == <<threadVars, m_PoolLock, nodes, m_pLarge, heap, given, m_pPool, lost, calls>>

Nowhere == [node |-> 0, at |-> 0]

\* After xtyPool::Create, by the main thread, before there are others.
Init ==
    /\ pc = [t \in Threads |-> "idle"]
    /\ need = [t \in Threads |-> 0]
    /\ large = [t \in Threads |-> FALSE]
    /\ place = [t \in Threads |-> Nowhere]
    /\ rest = [t \in Threads |-> << >>]
    /\ m_PoolLock = NoThread
    /\ nodes = <<PoolHeader>>
    /\ m_pLarge = << >>
    /\ heap = {}
    /\ given = << >>
    /\ m_pPool = TRUE
    /\ lost = {}
    /\ calls = 0

-----------------------------------------------------------------------------
Goto(t, from, to) ==
    /\ pc[t] = from
    /\ pc' = [pc EXCEPT ![t] = to]

Lock(t) == m_PoolLock = NoThread /\ m_PoolLock' = t
UnLock == m_PoolLock' = NoThread

Allocate(t, size) ==
    /\ m_pPool /\ calls < MaxCall
    /\ calls' = calls + 1
    /\ Goto(t, "idle", "lock")
    /\ large' = [large EXCEPT ![t] = size > MaxSmall]
    /\ need' = [need EXCEPT ![t] = IF size > MaxSmall THEN LargeHeader ELSE size]
    /\ UNCHANGED <<place, rest, m_PoolLock, nodes, m_pLarge, heap, given, m_pPool, lost>>

\* Mutant: the nodes are searched and changed without the mutex.
AllocateNoLock(t) ==
    /\ Goto(t, "lock", "search")
    /\ UNCHANGED <<need, large, place, rest, m_PoolLock, nodes, m_pLarge, heap, given,
                   m_pPool, lost, calls>>

AllocateLock(t) ==
    /\ Goto(t, "lock", "search")
    /\ Lock(t)
    /\ UNCHANGED <<need, large, place, rest, nodes, m_pLarge, heap, given, m_pPool,
                   lost, calls>>

\* Mutant: the room is counted from the start that is not yet aligned.
SpaceUnaligned(i) == (PoolSize - nodes[i]) % SizeRange

\* m_pEmptyEnd - pAligned, cast to size_t.
Space(i) == (PoolSize - Aligned(nodes[i])) % SizeRange

\* The first node with room, or none.
Search(t) ==
    LET fitting == {i \in DOMAIN nodes : need[t] <= Space(i)} IN
    /\ Goto(t, "search", "take")
    /\ \/ /\ fitting = {}
          /\ place' = [place EXCEPT ![t] = Nowhere]
       \/ \E i \in fitting :
             /\ \A j \in fitting : i <= j
             /\ place' = [place EXCEPT ![t] = [node |-> i, at |-> Aligned(nodes[i])]]
    /\ UNCHANGED <<need, large, rest, m_PoolLock, nodes, m_pLarge, heap, given, m_pPool,
                   lost, calls>>

Block(p, n) == [node |-> p.node, at |-> p.at, size |-> n]

\* What DoPoolAllocate returns is a block, or the header of a large block.
Return(t) == pc' = [pc EXCEPT ![t] = IF large[t] THEN "construct" ELSE "idle"]

\* Mutant: the mutex is not released.
TakeNoUnLock(t) ==
    /\ pc[t] = "take" /\ place[t] # Nowhere
    /\ nodes' = [nodes EXCEPT ![place[t].node] = place[t].at + need[t]]
    /\ given' = Append(given, Block(place[t], need[t]))
    /\ Return(t)
    /\ UNCHANGED <<need, large, place, rest, m_PoolLock, m_pLarge, heap, m_pPool, lost, calls>>

Take(t) ==
    /\ pc[t] = "take" /\ place[t] # Nowhere
    /\ nodes' = [nodes EXCEPT ![place[t].node] = place[t].at + need[t]]
    /\ given' = Append(given, Block(place[t], need[t]))
    /\ UnLock
    /\ Return(t)
    /\ UNCHANGED <<need, large, place, rest, m_pLarge, heap, m_pPool, lost, calls>>

\* A new node at the end of the list.
Grow(t) ==
    LET new == [node |-> Len(nodes) + 1, at |-> Aligned(NodeHeader)] IN
    /\ pc[t] = "take" /\ place[t] = Nowhere
    /\ nodes' = Append(nodes, new.at + need[t])
    /\ place' = [place EXCEPT ![t] = new]
    /\ given' = Append(given, Block(new, need[t]))
    /\ UnLock
    /\ Return(t)
    /\ UNCHANGED <<need, large, rest, m_pLarge, heap, m_pPool, lost, calls>>

\* The constructor of xtyLargeBlock calls malloc; m_pNext is null.
Construct(t) ==
    /\ Goto(t, "construct", "link")
    /\ heap' = heap \union {place[t]}
    /\ UNCHANGED <<need, large, place, rest, m_PoolLock, nodes, m_pLarge, given, m_pPool,
                   lost, calls>>

\* Mutant: the list is read before the mutex is taken.
LinkNoLock(t) ==
    /\ Goto(t, "link", "publish")
    /\ rest' = [rest EXCEPT ![t] = m_pLarge]
    /\ UNCHANGED <<need, large, place, m_PoolLock, nodes, m_pLarge, heap, given, m_pPool,
                   lost, calls>>

Link(t) ==
    /\ Goto(t, "link", "publish")
    /\ Lock(t)
    /\ rest' = [rest EXCEPT ![t] = m_pLarge]
    /\ UNCHANGED <<need, large, place, nodes, m_pLarge, heap, given, m_pPool, lost, calls>>

Publish(t) ==
    /\ Goto(t, "publish", "idle")
    /\ m_pLarge' = <<place[t]>> \o rest[t]
    /\ UnLock
    /\ UNCHANGED <<need, large, place, rest, nodes, heap, given, m_pPool, lost, calls>>

\* xtyThread::QuitNoDelay: the signal ends the thread at any step.  A mutex it
\* holds stays taken, a large block it has not linked is lost.
Quit(t) ==
    /\ pc[t] # "quit"
    /\ pc' = [pc EXCEPT ![t] = "quit"]
    /\ lost' = IF pc[t] \in {"link", "publish"} THEN lost \union {place[t]} ELSE lost
    /\ UNCHANGED <<need, large, place, rest, m_PoolLock, nodes, m_pLarge, heap, given,
                   m_pPool, calls>>

\* Without m_PoolLock, after the threads were joined: the data of the blocks in
\* the list, then every node, and with them every block.
Destroy ==
    /\ m_pPool /\ \A t \in Threads : pc[t] \in {"idle", "quit"}
    /\ m_pPool' = FALSE
    /\ heap' = heap \ {m_pLarge[i] : i \in DOMAIN m_pLarge}
    /\ m_pLarge' = << >>
    /\ nodes' = << >>
    /\ given' = << >>
    /\ UNCHANGED <<threadVars, m_PoolLock, lost, calls>>

-----------------------------------------------------------------------------
Step(t) ==
    \/ AllocateLock(t) \/ Search(t) \/ Take(t) \/ Grow(t)
    \/ Construct(t) \/ Link(t) \/ Publish(t)

Next ==
    \/ \E t \in Threads : Step(t) \/ Quit(t) \/ \E size \in Sizes : Allocate(t, size)
    \/ Destroy

SafeSpec == Init /\ [][Next]_vars

\* A thread that can take its next step does so in the end, and the mutex, which
\* is contended by finitely many calls, is won in the end.
Spec == SafeSpec /\ \A t \in Threads : WF_vars(Step(t))

-----------------------------------------------------------------------------
(***************************************************************************)
(* Properties                                                              *)
(***************************************************************************)
Steps == {"idle", "lock", "search", "take", "construct", "link", "publish", "quit"}
Place == [node : Nat, at : 0 .. PoolSize]

\* No m_pEmptyStart ever passes the end of its node, so that the unsigned
\* difference in Space cannot turn into a huge number.
TypeOK ==
    /\ pc \in [Threads -> Steps]
    /\ need \in [Threads -> 0 .. MaxSmall]
    /\ large \in [Threads -> BOOLEAN]
    /\ place \in [Threads -> Place]
    /\ rest \in [Threads -> Seq(Place)]
    /\ m_PoolLock \in Threads \union {NoThread}
    /\ nodes \in Seq(0 .. PoolSize)
    /\ m_pLarge \in Seq(Place)
    /\ heap \subseteq Place
    /\ given \in Seq([node : Nat, at : 0 .. PoolSize, size : 0 .. PoolSize])
    /\ m_pPool \in BOOLEAN
    /\ lost \subseteq Place
    /\ calls \in 0 .. MaxCall

\* Every block is aligned, inside its node, and clear of the node's own header.
BlocksInside ==
    \A i \in DOMAIN given :
        /\ given[i].node \in DOMAIN nodes
        /\ (IF given[i].node = 1 THEN PoolHeader ELSE NodeHeader) <= given[i].at
        /\ given[i].at + given[i].size <= PoolSize
        /\ given[i].at % Alignment = 0

\* No two blocks overlap, whichever threads were given them: between the search
\* for a node and the change of its m_pEmptyStart nobody else gets in.
BlocksDisjoint ==
    \A i, j \in DOMAIN given :
        i # j /\ given[i].node = given[j].node =>
            \/ given[i].at + given[i].size <= given[j].at
            \/ given[j].at + given[j].size <= given[i].at

\* What the callers rely on: a block is theirs alone, whoever else calls Allocate.
BlocksApart == BlocksInside /\ BlocksDisjoint

\* Destroy finds the data of every large block in the list, once: what it does
\* not free belongs to threads that were quit between malloc and the link.
DestroyFreesAll ==
    /\ ~m_pPool => heap = lost
    /\ \A i, j \in DOMAIN m_pLarge : i # j => m_pLarge[i] # m_pLarge[j]

\* A call ends, unless its thread, or one that holds the mutex, was quit.
AllocationEnds ==
    \A t \in Threads : pc[t] = "lock" ~>
        \/ pc[t] \in {"idle", "quit"}
        \/ m_PoolLock # NoThread /\ pc[m_PoolLock] = "quit"
=============================================================================
