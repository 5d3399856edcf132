----------------------------- MODULE PoolProofs -----------------------------
(***************************************************************************)
(* Proofs about Pool, for any number of threads, sizes and calls.  The     *)
(* first invariant, Blocks, speaks of nodes and blocks; the second,        *)
(* Headers, of the large blocks, and rests on the first.                   *)
(***************************************************************************)
EXTENDS Pool, SequenceTheorems, TLAPS

Header(i) == IF i = 1 THEN PoolHeader ELSE NodeHeader

\* Who searches or changes the nodes or the list owns the mutex.
Exclusion ==
    \A t \in Threads : pc[t] \in {"search", "take", "publish"} => m_PoolLock = t

\* A call runs only while the pool exists, and then the pool has a node.
PoolInUse ==
    /\ m_pPool => nodes # << >>
    /\ ~m_pPool => given = << >>
    /\ \A t \in Threads : pc[t] \notin {"idle", "quit"} => m_pPool

\* What a thread has found is still there, with room, when it takes it.
FoundHasRoom ==
    \A t \in Threads : pc[t] = "take" /\ place[t] # Nowhere =>
        /\ place[t].node \in DOMAIN nodes
        /\ place[t].at = Aligned(nodes[place[t].node])
        /\ place[t].at + need[t] <= PoolSize

StartsPastHeader == \A i \in DOMAIN nodes : Header(i) <= nodes[i]

BlocksBelowStart ==
    \A i \in DOMAIN given :
        /\ given[i].node \in DOMAIN nodes
        /\ given[i].at + given[i].size <= nodes[given[i].node]

Blocks ==
    /\ TypeOK /\ Exclusion /\ PoolInUse /\ FoundHasRoom /\ StartsPastHeader
    /\ BlocksBelowStart /\ BlocksInside /\ BlocksDisjoint

-----------------------------------------------------------------------------
Carries(t) == pc[t] \in {"construct", "link", "publish"}
Holds(t) == pc[t] \in {"link", "publish"}

Below(p) == p.node \in DOMAIN nodes /\ p.at < nodes[p.node]

Listed == {m_pLarge[i] : i \in DOMAIN m_pLarge}

\* A header is carried by a call, or listed, or lost, and lies in a node.
HeadersBelowStart ==
    m_pPool =>
        /\ \A t \in Threads : Carries(t) => Below(place[t])
        /\ \A i \in DOMAIN m_pLarge : Below(m_pLarge[i])
        /\ \A p \in lost : Below(p)

HeadersDiffer ==
    m_pPool =>
        /\ \A t, u \in Threads : t # u /\ Carries(t) /\ Carries(u) => place[t] # place[u]
        /\ \A t \in Threads : Carries(t) => place[t] \notin Listed \union lost
        /\ \A i \in DOMAIN m_pLarge : m_pLarge[i] \notin lost

ListIsSet == \A i, j \in DOMAIN m_pLarge : i # j => m_pLarge[i] # m_pLarge[j]

\* What malloc gave is known to the list or to a call, or was lost.
HeapIsKnown ==
    /\ m_pPool => heap = Listed \union lost \union {place[t] : t \in {u \in Threads : Holds(u)}}
    /\ ~m_pPool => heap = lost

RestIsList == \A t \in Threads : pc[t] = "publish" => rest[t] = m_pLarge

\* The size of a header is what a large call needs.
NeedsHeader ==
    \A t \in Threads :
        large[t] /\ pc[t] \in {"lock", "search", "take"} => need[t] = LargeHeader

Headers ==
    /\ HeadersBelowStart /\ HeadersDiffer /\ ListIsSet
    /\ HeapIsKnown /\ RestIsList /\ NeedsHeader

-----------------------------------------------------------------------------
(***************************************************************************)
(* Arithmetic                                                              *)
(***************************************************************************)
\* Rounding up gives a multiple of the alignment that is not below.
LEMMA Rounding ==
    ASSUME NEW p \in Nat
    PROVE  /\ Aligned(p) \in Nat
           /\ p <= Aligned(p)
           /\ Aligned(p) % Alignment = 0
<1>1. Alignment \in Nat \ {0}
  BY SizesAssumption
<1> DEFINE q == (p + Alignment - 1) \div Alignment
<1>2. q \in Nat /\ p + Alignment - 1 = (Alignment * q) + ((p + Alignment - 1) % Alignment)
  BY <1>1
<1>3. (p + Alignment - 1) % Alignment \in 0 .. (Alignment - 1)
  BY <1>1
<1>4. p <= Alignment * q /\ Alignment * q \in Nat
  BY <1>1, <1>2, <1>3
<1>5. (q * Alignment) % Alignment = 0
  BY <1>1, <1>2
<1>6. Alignment * q = q * Alignment
  BY <1>1, <1>2
<1>. QED BY <1>4, <1>5, <1>6 DEF Aligned

\* The end of a node is aligned: rounding up does not pass it.
LEMMA RoundingFits ==
    ASSUME NEW p \in 0 .. PoolSize
    PROVE  Aligned(p) \in 0 .. PoolSize
<1>1. Alignment \in Nat \ {0} /\ PoolSize \in Nat /\ PoolSize % Alignment = 0
  BY SizesAssumption
<1> DEFINE q == (p + Alignment - 1) \div Alignment
           k == PoolSize \div Alignment
<1>2. k \in Nat /\ PoolSize = (Alignment * k) + (PoolSize % Alignment)
  BY <1>1
<1>3. PoolSize = Alignment * k
  BY <1>1, <1>2
<1>4. q \in Nat /\ p + Alignment - 1 = (Alignment * q) + ((p + Alignment - 1) % Alignment)
  BY <1>1
<1>5. (p + Alignment - 1) % Alignment \in 0 .. (Alignment - 1)
  BY <1>1
<1>6. Alignment * q <= (Alignment * k) + Alignment - 1
  <2> HIDE DEF q, k
  <2>. QED BY <1>1, <1>2, <1>3, <1>4, <1>5
<1>7. q <= k
  <2> HIDE DEF q, k
  <2>1. SUFFICES ASSUME q >= k + 1 PROVE FALSE
    BY <1>2, <1>4
  <2>2. Alignment * q >= Alignment * (k + 1)
    BY <1>1, <1>2, <1>4, <2>1
  <2>3. Alignment * (k + 1) = (Alignment * k) + Alignment
    BY <1>1, <1>2
  <2>4. Alignment * q \in Int /\ Alignment * k \in Int
    BY <1>1, <1>2, <1>4
  <2>. QED BY <1>1, <1>6, <2>2, <2>3, <2>4
<1>8. q * Alignment <= k * Alignment /\ k * Alignment = PoolSize
  <2> HIDE DEF q, k
  <2>. QED BY <1>1, <1>2, <1>3, <1>4, <1>7
<1>9. Aligned(p) <= PoolSize
  BY <1>8 DEF Aligned
<1>. QED BY <1>1, <1>9, Rounding

\* The unsigned difference is the room that is left: it cannot wrap.
LEMMA SpaceIsRoom ==
    ASSUME NEW i \in DOMAIN nodes, nodes[i] \in 0 .. PoolSize
    PROVE  Space(i) = PoolSize - Aligned(nodes[i])
<1>1. Aligned(nodes[i]) \in 0 .. PoolSize
  BY RoundingFits
<1>2. PoolSize - Aligned(nodes[i]) \in 0 .. SizeRange - 1 /\ SizeRange \in Nat \ {0}
  BY <1>1, SizesAssumption
<1>. QED BY <1>2 DEF Space

-----------------------------------------------------------------------------
(***************************************************************************)
(* Nodes and blocks                                                        *)
(***************************************************************************)
\* A block that begins at or after the old start of its node, and ends at the
\* new one, touches no other.
LEMMA Give ==
    ASSUME TypeOK, BlocksBelowStart, BlocksInside, BlocksDisjoint,
           NEW p \in Place, NEW n \in 0 .. MaxSmall,
           nodes' \in Seq(0 .. PoolSize),
           \A i \in DOMAIN nodes : i \in DOMAIN nodes' /\ nodes[i] <= nodes'[i],
           p.node \in DOMAIN nodes', nodes'[p.node] = p.at + n,
           p.node \in DOMAIN nodes => nodes[p.node] <= p.at,
           Header(p.node) <= p.at, p.at % Alignment = 0,
           given' = Append(given, Block(p, n))
    PROVE  /\ given' \in Seq([node : Nat, at : 0 .. PoolSize, size : 0 .. PoolSize])
           /\ BlocksBelowStart' /\ BlocksInside' /\ BlocksDisjoint'
<1> DEFINE b == Block(p, n)
           B == [node : Nat, at : 0 .. PoolSize, size : 0 .. PoolSize]
<1>1. MaxSmall \in Nat /\ PoolSize \in Nat /\ NodeHeader \in Nat /\ PoolHeader \in Nat
  BY SizesAssumption
<1>2. p.node \in Nat /\ p.at \in 0 .. PoolSize /\ nodes'[p.node] \in 0 .. PoolSize
  <2>1. p.node \in Nat /\ p.at \in 0 .. PoolSize
    BY DEF Place
  <2>2. nodes'[p.node] \in 0 .. PoolSize
    BY ElementOfSeq, LenProperties
  <2>. QED BY <2>1, <2>2
<1>3. b \in B /\ b.node = p.node /\ b.at = p.at /\ b.size = n
  BY <1>1, <1>2 DEF Block
<1>4. given \in Seq(B) /\ nodes \in Seq(0 .. PoolSize)
  BY DEF TypeOK
<1>5. /\ given' \in Seq(B)
      /\ DOMAIN given' = 1 .. Len(given) + 1 /\ DOMAIN given = 1 .. Len(given)
      /\ \A i \in DOMAIN given : given'[i] = given[i]
      /\ given'[Len(given) + 1] = b
      /\ Len(given) \in Nat
  <2> HIDE DEF b, B
  <2>. QED BY <1>3, <1>4 DEF b
<1>6. /\ \A i \in DOMAIN given : given[i] \in B
      /\ \A i \in DOMAIN nodes : nodes[i] \in 0 .. PoolSize
      /\ \A i \in DOMAIN nodes' : nodes'[i] \in 0 .. PoolSize
  <2> HIDE DEF B
  <2>. QED BY <1>4, ElementOfSeq, LenProperties
<1> HIDE DEF b
<1>7. ASSUME NEW i \in DOMAIN given
      PROVE  /\ given[i].node \in DOMAIN nodes /\ given[i].node \in DOMAIN nodes'
             /\ given[i].at \in Nat /\ given[i].size \in Nat
             /\ given[i].at + given[i].size <= nodes[given[i].node]
             /\ given[i].at + given[i].size <= nodes'[given[i].node]
             /\ given[i].at + given[i].size <= PoolSize
  <2>1. given[i].node \in DOMAIN nodes /\ given[i].node \in DOMAIN nodes'
    BY DEF BlocksBelowStart
  <2>2. given[i].at \in Nat /\ given[i].size \in Nat
    BY <1>6
  <2>3. given[i].at + given[i].size <= nodes[given[i].node]
    BY DEF BlocksBelowStart
  <2>. QED BY <1>1, <1>6, <2>1, <2>2, <2>3
<1>8. BlocksBelowStart'
  <2> SUFFICES ASSUME NEW i \in DOMAIN given'
               PROVE  /\ given'[i].node \in DOMAIN nodes'
                      /\ given'[i].at + given'[i].size <= nodes'[given'[i].node]
    BY DEF BlocksBelowStart
  <2>1. CASE i \in DOMAIN given
    BY <1>5, <1>7, <2>1
  <2>2. CASE i = Len(given) + 1
    BY <1>1, <1>2, <1>3, <1>5, <2>2
  <2>. QED BY <1>5, <2>1, <2>2
<1>9. BlocksInside'
  <2> SUFFICES ASSUME NEW i \in DOMAIN given'
               PROVE  /\ given'[i].node \in DOMAIN nodes'
                      /\ (IF given'[i].node = 1 THEN PoolHeader ELSE NodeHeader) <= given'[i].at
                      /\ given'[i].at + given'[i].size <= PoolSize
                      /\ given'[i].at % Alignment = 0
    BY DEF BlocksInside
  <2>1. CASE i \in DOMAIN given
    BY <1>5, <1>7, <2>1 DEF BlocksInside
  <2>2. CASE i = Len(given) + 1
    <3>1. given'[i] = b
      BY <1>5, <2>2
    <3>2. p.at + n <= PoolSize
      BY <1>2
    <3>. QED BY <1>1, <1>2, <1>3, <3>1, <3>2 DEF Header
  <2>3. i \in DOMAIN given \/ i = Len(given) + 1
    BY <1>5
  <2>. QED BY <2>1, <2>2, <2>3
<1>10. BlocksDisjoint'
  <2>1. \A i \in DOMAIN given : given[i].node = p.node => given[i].at + given[i].size <= p.at
    BY <1>2, <1>6, <1>7
  <2>2. \A i \in DOMAIN given' : i \in DOMAIN given \/ i = Len(given) + 1
    BY <1>5
  <2> SUFFICES ASSUME NEW i \in DOMAIN given', NEW j \in DOMAIN given',
                      i # j, given'[i].node = given'[j].node
               PROVE  \/ given'[i].at + given'[i].size <= given'[j].at
                      \/ given'[j].at + given'[j].size <= given'[i].at
    BY DEF BlocksDisjoint
  <2>3. CASE i \in DOMAIN given /\ j \in DOMAIN given
    BY <1>5, <2>3 DEF BlocksDisjoint
  <2>4. CASE i \in DOMAIN given /\ j = Len(given) + 1
    BY <1>3, <1>5, <2>1, <2>4
  <2>5. CASE i = Len(given) + 1 /\ j \in DOMAIN given
    BY <1>3, <1>5, <2>1, <2>5
  <2>. QED BY <2>2, <2>3, <2>4, <2>5
<1>. QED BY <1>5, <1>8, <1>9, <1>10

\* The blocks are as they must be in the initial state.
LEMMA BlocksInit == Init => Blocks
<1> SUFFICES ASSUME Init PROVE Blocks
  OBVIOUS
<1> USE SizesAssumption DEF Init
<1>1. nodes \in Seq(0 .. PoolSize) /\ nodes # << >> /\ DOMAIN nodes = {1} /\ nodes[1] = PoolHeader
  OBVIOUS
<1>2. TypeOK
  <2>1. Nowhere \in Place
    BY DEF Nowhere, Place
  <2>. QED BY <1>1, <2>1 DEF TypeOK, Steps
<1>. QED BY <1>1, <1>2 DEF Blocks, Exclusion, PoolInUse, FoundHasRoom, StartsPastHeader, Header,
              BlocksBelowStart, BlocksInside, BlocksDisjoint

\* What most steps leave alone.
LEMMA BlocksUnchanged ==
    ASSUME BlocksBelowStart, BlocksInside, BlocksDisjoint, StartsPastHeader,
           UNCHANGED <<nodes, given>>
    PROVE  BlocksBelowStart' /\ BlocksInside' /\ BlocksDisjoint' /\ StartsPastHeader'
BY DEF BlocksBelowStart, BlocksInside, BlocksDisjoint, StartsPastHeader

\* The block that Search has found is given, under the mutex.
LEMMA BlocksTake ==
    ASSUME Blocks, NEW t \in Threads, Take(t)
    PROVE  Blocks'
<1> DEFINE p == place[t]
           n == need[t]
<1>1. TypeOK /\ PoolSize \in Nat /\ MaxSmall \in Nat
  BY SizesAssumption DEF Blocks
<1>2. pc[t] = "take" /\ p # Nowhere /\ p \in Place /\ n \in 0 .. MaxSmall
  BY <1>1 DEF Take, TypeOK
<1>3. p.node \in DOMAIN nodes /\ p.at = Aligned(nodes[p.node]) /\ p.at + n <= PoolSize
  BY <1>2 DEF Blocks, FoundHasRoom
<1>4. /\ nodes \in Seq(0 .. PoolSize) /\ DOMAIN nodes = 1 .. Len(nodes)
      /\ \A i \in DOMAIN nodes : nodes[i] \in 0 .. PoolSize
  BY <1>1, ElementOfSeq, LenProperties DEF TypeOK
<1>5. p.at \in Nat /\ nodes[p.node] <= p.at /\ p.at % Alignment = 0
  <2>1. nodes[p.node] \in Nat
    BY <1>1, <1>3, <1>4
  <2>. QED BY <1>3, <2>1, Rounding
<1>6. nodes' = [nodes EXCEPT ![p.node] = p.at + n]
  BY DEF Take
<1>7. /\ nodes' \in Seq(0 .. PoolSize) /\ DOMAIN nodes' = DOMAIN nodes
      /\ \A i \in DOMAIN nodes : nodes[i] <= nodes'[i]
      /\ nodes'[p.node] = p.at + n
  <2> HIDE DEF p, n
  <2>1. p.at + n \in 0 .. PoolSize
    BY <1>1, <1>2, <1>3, <1>5
  <2>2. /\ nodes' \in Seq(0 .. PoolSize) /\ Len(nodes') = Len(nodes)
        /\ \A i \in 1 .. Len(nodes) : nodes'[i] = IF i = p.node THEN p.at + n ELSE nodes[i]
    BY <1>3, <1>4, <1>6, <2>1, ExceptSeq
  <2>3. DOMAIN nodes' = DOMAIN nodes
    BY <1>4, <2>2, LenProperties
  <2>4. nodes'[p.node] = p.at + n
    BY <1>3, <1>4, <2>2
  <2>5. nodes[p.node] <= nodes'[p.node]
    BY <1>1, <1>2, <1>3, <1>4, <1>5, <2>1, <2>4
  <2>6. \A i \in DOMAIN nodes : nodes[i] <= nodes'[i]
    BY <1>4, <2>2, <2>4, <2>5
  <2>. QED BY <2>2, <2>3, <2>4, <2>6
<1>8. \A i \in Nat : Header(i) \in Nat
  BY SizesAssumption DEF Header
<1>9. StartsPastHeader'
  <2>1. \A i \in DOMAIN nodes : Header(i) <= nodes[i] /\ i \in Nat
    BY <1>4 DEF Blocks, StartsPastHeader
  <2>2. \A i \in DOMAIN nodes' : nodes'[i] \in 0 .. PoolSize
    BY <1>7, ElementOfSeq, LenProperties
  <2>3. \A i \in DOMAIN nodes' : Header(i) <= nodes'[i]
    BY <1>1, <1>4, <1>7, <1>8, <2>1, <2>2
  <2>. QED BY <2>3 DEF StartsPastHeader
<1>10. Header(p.node) <= p.at
  <2>1. Header(p.node) <= nodes[p.node] /\ p.node \in Nat
    BY <1>3, <1>4 DEF Blocks, StartsPastHeader
  <2>2. Header(p.node) \in Nat
    BY <1>8, <2>1
  <2>3. nodes[p.node] \in Nat
    BY <1>1, <1>3, <1>4
  <2> HIDE DEF p
  <2>. QED BY <1>5, <2>1, <2>2, <2>3
<1>11. /\ given' \in Seq([node : Nat, at : 0 .. PoolSize, size : 0 .. PoolSize])
       /\ BlocksBelowStart' /\ BlocksInside' /\ BlocksDisjoint'
  <2>1. given' = Append(given, Block(p, n))
    BY DEF Take
  <2> HIDE DEF p, n
  <2>. QED BY <1>1, <1>2, <1>3, <1>5, <1>7, <1>10, <2>1, Give DEF Blocks
<1>12. /\ pc' = [pc EXCEPT ![t] = IF large[t] THEN "construct" ELSE "idle"]
       /\ m_PoolLock' = NoThread
       /\ UNCHANGED <<need, large, place, rest, m_pLarge, heap, m_pPool, lost, calls>>
  BY DEF Take, UnLock, Return
<1>13. TypeOK'
  BY <1>1, <1>7, <1>11, <1>12 DEF TypeOK, Steps
<1>14. Exclusion' /\ FoundHasRoom'
  <2>1. \A u \in Threads : pc'[u] \notin {"search", "take", "publish"}
    BY <1>1, <1>2, <1>12 DEF Blocks, Exclusion, TypeOK
  <2>. QED BY <2>1 DEF Exclusion, FoundHasRoom
<1>15. PoolInUse'
  <2>1. m_pPool
    BY <1>2 DEF Blocks, PoolInUse
  <2>2. nodes' # << >>
    BY <1>3, <1>7
  <2>. QED BY <1>12, <2>1, <2>2 DEF PoolInUse
<1>. QED BY <1>9, <1>11, <1>13, <1>14, <1>15 DEF Blocks

\* A new node is given its first block, under the mutex.
LEMMA BlocksGrow ==
    ASSUME Blocks, NEW t \in Threads, Grow(t)
    PROVE  Blocks'
<1> DEFINE p == [node |-> Len(nodes) + 1, at |-> Aligned(NodeHeader)]
           n == need[t]
<1>1. TypeOK /\ PoolSize \in Nat /\ MaxSmall \in Nat /\ NodeHeader \in Nat
  BY SizesAssumption DEF Blocks
<1>2. pc[t] = "take" /\ n \in 0 .. MaxSmall
  BY <1>1 DEF Grow, TypeOK
<1>3. /\ nodes \in Seq(0 .. PoolSize) /\ Len(nodes) \in Nat
      /\ DOMAIN nodes = 1 .. Len(nodes)
      /\ \A i \in DOMAIN nodes : nodes[i] \in 0 .. PoolSize
  BY <1>1, ElementOfSeq, LenProperties DEF TypeOK
<1>4. m_pPool /\ Len(nodes) # 0
  <2>1. m_pPool /\ nodes # << >>
    BY <1>2 DEF Blocks, PoolInUse
  <2>. QED BY <1>3, <2>1
<1>5. /\ Aligned(NodeHeader) \in Nat /\ NodeHeader <= Aligned(NodeHeader)
      /\ Aligned(NodeHeader) % Alignment = 0
  BY <1>1, Rounding
<1>6. Aligned(NodeHeader) + n \in 0 .. PoolSize
  BY <1>1, <1>2, <1>5, SizesAssumption
<1>7. p \in Place /\ p.node = Len(nodes) + 1 /\ p.at = Aligned(NodeHeader)
  BY <1>1, <1>2, <1>3, <1>5, <1>6 DEF Place
<1>8. Header(p.node) = NodeHeader
  BY <1>3, <1>4 DEF Header
<1>9. /\ nodes' = Append(nodes, Aligned(NodeHeader) + n)
      /\ given' = Append(given, Block(p, n))
      /\ place' = [place EXCEPT ![t] = p]
      /\ pc' = [pc EXCEPT ![t] = IF large[t] THEN "construct" ELSE "idle"]
      /\ m_PoolLock' = NoThread
      /\ UNCHANGED <<need, large, rest, m_pLarge, heap, m_pPool, lost, calls>>
  BY DEF Grow, UnLock, Return
<1> HIDE DEF p, n
<1>10. /\ nodes' \in Seq(0 .. PoolSize) /\ DOMAIN nodes' = 1 .. Len(nodes) + 1
       /\ \A i \in DOMAIN nodes : i \in DOMAIN nodes' /\ nodes'[i] = nodes[i]
       /\ nodes'[Len(nodes) + 1] = Aligned(NodeHeader) + n
  BY <1>3, <1>6, <1>9
<1>11. /\ given' \in Seq([node : Nat, at : 0 .. PoolSize, size : 0 .. PoolSize])
       /\ BlocksBelowStart' /\ BlocksInside' /\ BlocksDisjoint'
  <2>1. \A i \in DOMAIN nodes : i \in DOMAIN nodes' /\ nodes[i] <= nodes'[i]
    BY <1>1, <1>3, <1>10
  <2>2. p.node \in DOMAIN nodes' /\ nodes'[p.node] = p.at + n /\ p.node \notin DOMAIN nodes
    BY <1>3, <1>7, <1>10
  <2>3. Header(p.node) <= p.at /\ p.at % Alignment = 0
    BY <1>5, <1>7, <1>8
  <2>. QED BY <1>2, <1>7, <1>9, <1>10, <2>1, <2>2, <2>3, Give DEF Blocks
<1>12. StartsPastHeader'
  <2> SUFFICES ASSUME NEW i \in DOMAIN nodes' PROVE Header(i) <= nodes'[i]
    BY DEF StartsPastHeader
  <2>1. CASE i \in DOMAIN nodes
    BY <1>10, <2>1 DEF Blocks, StartsPastHeader
  <2>2. CASE i = Len(nodes) + 1
    BY <1>1, <1>2, <1>5, <1>7, <1>8, <1>10, <2>2
  <2>. QED BY <1>3, <1>10, <2>1, <2>2
<1>13. TypeOK'
  BY <1>1, <1>7, <1>9, <1>10, <1>11 DEF TypeOK, Steps
<1>14. Exclusion' /\ FoundHasRoom'
  <2>1. \A u \in Threads : pc'[u] \notin {"search", "take", "publish"}
    BY <1>1, <1>2, <1>9 DEF Blocks, Exclusion, TypeOK
  <2>. QED BY <2>1 DEF Exclusion, FoundHasRoom
<1>15. PoolInUse'
  <2>1. nodes' # << >>
    BY <1>3, <1>10
  <2>. QED BY <1>4, <1>9, <2>1 DEF PoolInUse
<1>. QED BY <1>11, <1>12, <1>13, <1>14, <1>15 DEF Blocks

\* A place that Search has found has room for what was asked.
LEMMA BlocksSearch ==
    ASSUME Blocks, NEW t \in Threads, Search(t)
    PROVE  Blocks'
<1>1. TypeOK /\ PoolSize \in Nat /\ MaxSmall \in Nat
  BY SizesAssumption DEF Blocks
<1>2. /\ pc[t] = "search" /\ pc' = [pc EXCEPT ![t] = "take"]
      /\ m_PoolLock = t
      /\ UNCHANGED <<need, large, rest, m_PoolLock, nodes, m_pLarge, heap, given, m_pPool,
                     lost, calls>>
  BY DEF Search, Goto, Blocks, Exclusion
<1>3. \A i \in DOMAIN nodes : i \in Nat /\ nodes[i] \in 0 .. PoolSize
  BY <1>1, ElementOfSeq, LenProperties DEF TypeOK
<1>4. PICK p \in Place :
        /\ place' = [place EXCEPT ![t] = p]
        /\ p # Nowhere => /\ p.node \in DOMAIN nodes
                          /\ p.at = Aligned(nodes[p.node])
                          /\ p.at + need[t] <= PoolSize
  <2> DEFINE fitting == {i \in DOMAIN nodes : need[t] <= Space(i)}
  <2>1. CASE place' = [place EXCEPT ![t] = Nowhere]
    <3>1. Nowhere \in Place
      BY <1>1 DEF Nowhere, Place
    <3>. QED BY <2>1, <3>1
  <2>2. CASE \E i \in fitting :
                place' = [place EXCEPT ![t] = [node |-> i, at |-> Aligned(nodes[i])]]
    <3>1. PICK i \in fitting :
                place' = [place EXCEPT ![t] = [node |-> i, at |-> Aligned(nodes[i])]]
      BY <2>2
    <3> DEFINE q == [node |-> i, at |-> Aligned(nodes[i])]
    <3>2. i \in DOMAIN nodes /\ i \in Nat /\ nodes[i] \in 0 .. PoolSize
      BY <1>3
    <3>3. Aligned(nodes[i]) \in 0 .. PoolSize
      BY <3>2, RoundingFits
    <3>4. need[t] <= PoolSize - Aligned(nodes[i])
      BY <3>2, SpaceIsRoom
    <3>5. need[t] \in Nat
      BY <1>1 DEF TypeOK
    <3>6. Aligned(nodes[i]) + need[t] <= PoolSize
      BY <1>1, <3>3, <3>4, <3>5
    <3>7. q \in Place
      BY <3>2, <3>3 DEF Place
    <3>. QED BY <3>1, <3>2, <3>6, <3>7
  <2>3. \/ place' = [place EXCEPT ![t] = Nowhere]
        \/ \E i \in fitting :
              place' = [place EXCEPT ![t] = [node |-> i, at |-> Aligned(nodes[i])]]
    BY DEF Search
  <2>. QED BY <2>1, <2>2, <2>3
<1>5. TypeOK'
  BY <1>1, <1>2, <1>4 DEF TypeOK, Steps
<1>6. Exclusion'
  BY <1>1, <1>2 DEF Blocks, Exclusion, TypeOK
<1>7. PoolInUse'
  BY <1>1, <1>2 DEF Blocks, PoolInUse, TypeOK
<1>8. FoundHasRoom'
  <2> SUFFICES ASSUME NEW u \in Threads, pc'[u] = "take", place'[u] # Nowhere
               PROVE  /\ place'[u].node \in DOMAIN nodes
                      /\ place'[u].at = Aligned(nodes[place'[u].node])
                      /\ place'[u].at + need[u] <= PoolSize
    BY <1>2 DEF FoundHasRoom
  <2>1. CASE u = t
    BY <1>1, <1>4, <2>1 DEF TypeOK
  <2>2. CASE u # t
    BY <1>1, <1>2, <1>4, <2>2 DEF TypeOK, Blocks, FoundHasRoom
  <2>. QED BY <2>1, <2>2
<1>9. BlocksBelowStart' /\ BlocksInside' /\ BlocksDisjoint' /\ StartsPastHeader'
  BY <1>2, BlocksUnchanged DEF Blocks
<1>. QED BY <1>5, <1>6, <1>7, <1>8, <1>9 DEF Blocks

\* Every step keeps the blocks apart, inside their nodes, below the free part.
LEMMA BlocksNext == Blocks /\ [Next]_vars => Blocks'
<1> SUFFICES ASSUME Blocks, [Next]_vars PROVE Blocks'
  OBVIOUS
<1>0. TypeOK /\ PoolSize \in Nat /\ MaxSmall \in Nat
  BY SizesAssumption DEF Blocks
<1>1. ASSUME NEW t \in Threads, NEW size \in Sizes, Allocate(t, size) PROVE Blocks'
  <2>1. TypeOK'
    BY <1>0, <1>1, SizesAssumption DEF TypeOK, Steps, Allocate, Goto
  <2>2. Exclusion' /\ PoolInUse' /\ FoundHasRoom'
    BY <1>0, <1>1 DEF TypeOK, Blocks, Exclusion, PoolInUse, FoundHasRoom, Allocate, Goto
  <2>. QED BY <1>1, <2>1, <2>2, BlocksUnchanged DEF Blocks, Allocate
<1>2. ASSUME NEW t \in Threads, AllocateLock(t) PROVE Blocks'
  <2>1. TypeOK'
    BY <1>0, <1>2 DEF TypeOK, Steps, AllocateLock, Goto, Lock
  <2>2. Exclusion' /\ PoolInUse' /\ FoundHasRoom'
    BY <1>0, <1>2, ThreadsAssumption
       DEF TypeOK, Blocks, Exclusion, PoolInUse, FoundHasRoom, AllocateLock, Goto, Lock
  <2>. QED BY <1>2, <2>1, <2>2, BlocksUnchanged DEF Blocks, AllocateLock
<1>3. ASSUME NEW t \in Threads, Construct(t) PROVE Blocks'
  <2>1. TypeOK'
    BY <1>0, <1>3 DEF TypeOK, Steps, Construct, Goto
  <2>2. Exclusion' /\ PoolInUse' /\ FoundHasRoom'
    BY <1>0, <1>3 DEF TypeOK, Blocks, Exclusion, PoolInUse, FoundHasRoom, Construct, Goto
  <2>. QED BY <1>3, <2>1, <2>2, BlocksUnchanged DEF Blocks, Construct
<1>4. ASSUME NEW t \in Threads, Link(t) PROVE Blocks'
  <2>1. TypeOK'
    BY <1>0, <1>4 DEF TypeOK, Steps, Link, Goto, Lock
  <2>2. Exclusion' /\ PoolInUse' /\ FoundHasRoom'
    BY <1>0, <1>4, ThreadsAssumption
       DEF TypeOK, Blocks, Exclusion, PoolInUse, FoundHasRoom, Link, Goto, Lock
  <2>. QED BY <1>4, <2>1, <2>2, BlocksUnchanged DEF Blocks, Link
<1>5. ASSUME NEW t \in Threads, Publish(t) PROVE Blocks'
  <2>1. <<place[t]>> \in Seq(Place) /\ rest[t] \in Seq(Place)
    BY <1>0 DEF TypeOK
  <2>2. m_pLarge' \in Seq(Place)
    BY <1>5, <2>1, ConcatProperties DEF Publish
  <2>3. TypeOK'
    BY <1>0, <1>5, <2>2 DEF TypeOK, Steps, Publish, Goto, UnLock
  <2>4. Exclusion' /\ PoolInUse' /\ FoundHasRoom'
    BY <1>0, <1>5 DEF TypeOK, Blocks, Exclusion, PoolInUse, FoundHasRoom, Publish, Goto, UnLock
  <2>. QED BY <1>5, <2>3, <2>4, BlocksUnchanged DEF Blocks, Publish
<1>6. ASSUME NEW t \in Threads, Quit(t) PROVE Blocks'
  <2>1. TypeOK'
    BY <1>0, <1>6 DEF TypeOK, Steps, Quit
  <2>2. Exclusion' /\ PoolInUse' /\ FoundHasRoom'
    BY <1>0, <1>6 DEF TypeOK, Blocks, Exclusion, PoolInUse, FoundHasRoom, Quit
  <2>. QED BY <1>6, <2>1, <2>2, BlocksUnchanged DEF Blocks, Quit
<1>7. ASSUME Destroy PROVE Blocks'
  <2>1. heap' \subseteq Place
    BY <1>0, <1>7 DEF TypeOK, Destroy
  <2>2. /\ m_pLarge' = << >> /\ nodes' = << >> /\ given' = << >> /\ m_pPool' = FALSE
        /\ UNCHANGED <<pc, need, large, place, rest, m_PoolLock, lost, calls>>
    BY <1>7 DEF Destroy, threadVars
  <2>3. TypeOK'
    BY <1>0, <2>1, <2>2, EmptySeq DEF TypeOK
  <2>4. Exclusion' /\ PoolInUse' /\ FoundHasRoom'
    BY <1>0, <1>7 DEF TypeOK, Blocks, Exclusion, PoolInUse, FoundHasRoom, Destroy, threadVars
  <2>5. DOMAIN nodes' = {} /\ DOMAIN given' = {}
    BY <2>2
  <2>. QED BY <2>3, <2>4, <2>5
           DEF Blocks, StartsPastHeader, BlocksBelowStart, BlocksInside, BlocksDisjoint
<1>8. CASE UNCHANGED vars
  <2>1. TypeOK'
    BY <1>0, <1>8 DEF TypeOK, vars, threadVars
  <2>2. Exclusion' /\ PoolInUse' /\ FoundHasRoom'
    BY <1>8 DEF Blocks, Exclusion, PoolInUse, FoundHasRoom, vars, threadVars
  <2>. QED BY <1>8, <2>1, <2>2, BlocksUnchanged DEF Blocks, vars
<1>. QED BY <1>1, <1>2, <1>3, <1>4, <1>5, <1>6, <1>7, <1>8, BlocksSearch, BlocksTake, BlocksGrow
         DEF Next, Step

\* The blocks are sound in every reachable state.
LEMMA BlocksInvariant == SafeSpec => []Blocks
BY BlocksInit, BlocksNext, PTL DEF SafeSpec

\* The types, and with them: no start of a node's free part passes its end.
THEOREM TypeCorrect == SafeSpec => []TypeOK
<1>1. Blocks => TypeOK
  BY DEF Blocks
<1>. QED BY <1>1, BlocksInvariant, PTL

\* Whatever threads ask for, and whenever one of them is ended, a block lies in
\* its node, behind the node's header, aligned, and shares no byte with another.
THEOREM BlocksStayApart == SafeSpec => []BlocksApart
<1>1. Blocks => BlocksApart
  BY DEF Blocks, BlocksApart
<1>. QED BY <1>1, BlocksInvariant, PTL

-----------------------------------------------------------------------------
(***************************************************************************)
(* Large blocks                                                            *)
(***************************************************************************)
\* A step that leaves every header with the call that carries it, or in the list.
SameHeaders ==
    /\ UNCHANGED <<nodes, m_pLarge, lost, m_pPool>>
    /\ \A u \in Threads : Carries(u)' => Carries(u) /\ place'[u] = place[u]

\* Such a step moves no header.
LEMMA HeadersUnchanged ==
    ASSUME Headers, SameHeaders
    PROVE  HeadersBelowStart' /\ HeadersDiffer' /\ ListIsSet'
BY DEF Headers, SameHeaders, HeadersBelowStart, HeadersDiffer, ListIsSet, Below, Listed

\* A step that leaves malloc's blocks with whoever knows them.
LEMMA HeapUnchanged ==
    ASSUME Headers, UNCHANGED <<heap, m_pLarge, lost, m_pPool>>,
           \A u \in Threads : (Holds(u)' <=> Holds(u)) /\ (Holds(u) => place'[u] = place[u])
    PROVE  HeapIsKnown'
<1>1. {place'[t] : t \in {u \in Threads : Holds(u)'}} = {place[t] : t \in {u \in Threads : Holds(u)}}
  OBVIOUS
<1>2. Listed' = Listed
  BY DEF Listed
<1>. QED BY <1>1, <1>2 DEF Headers, HeapIsKnown

\* A header that begins where the free part of a node began is in nobody's hands.
LEMMA HeadersGive ==
    ASSUME Blocks, Headers, NEW t \in Threads, NEW p \in Place,
           Blocks', m_pPool,
           place' = [place EXCEPT ![t] = p],
           pc[t] = "take", pc' = [pc EXCEPT ![t] = IF large[t] THEN "construct" ELSE "idle"],
           \A i \in DOMAIN nodes : i \in DOMAIN nodes' /\ nodes[i] <= nodes'[i],
           p.node \in DOMAIN nodes', nodes'[p.node] = p.at + need[t],
           p.node \in DOMAIN nodes => nodes[p.node] <= p.at,
           UNCHANGED <<need, large, rest, m_pLarge, heap, m_pPool, lost>>
    PROVE  Headers'
<1>1. TypeOK /\ TypeOK' /\ PoolSize \in Nat /\ LargeHeader \in Nat \ {0}
  BY SizesAssumption DEF Blocks
<1>2. /\ \A i \in DOMAIN nodes : nodes[i] \in 0 .. PoolSize
      /\ \A i \in DOMAIN nodes' : nodes'[i] \in 0 .. PoolSize
  <2>1. nodes \in Seq(0 .. PoolSize) /\ nodes' \in Seq(0 .. PoolSize)
    BY <1>1 DEF TypeOK
  <2>. QED BY <2>1, ElementOfSeq, LenProperties
<1>3. /\ place \in [Threads -> Place] /\ pc \in [Threads -> Steps]
      /\ lost \subseteq Place /\ \A i \in DOMAIN m_pLarge : m_pLarge[i] \in Place
  BY <1>1, ElementOfSeq, LenProperties DEF TypeOK
<1>4. ASSUME NEW q \in Place, Below(q) PROVE Below(q)' /\ q # p
  <2>1. q.node \in DOMAIN nodes /\ q.node \in DOMAIN nodes' /\ q.at < nodes[q.node]
    BY <1>4 DEF Below
  <2>2. nodes[q.node] \in Nat /\ nodes'[q.node] \in Nat /\ nodes[q.node] <= nodes'[q.node]
    BY <1>1, <1>2, <2>1
  <2>3. q.at \in Nat /\ p.at \in Nat
    BY <1>1 DEF Place
  <2>. QED BY <2>1, <2>2, <2>3 DEF Below
<1>5. large[t] => Below(p)'
  <2>1. large[t] => need[t] = LargeHeader
    BY DEF Headers, NeedsHeader
  <2>2. p.at \in Nat
    BY <1>1 DEF Place
  <2>. QED BY <1>1, <2>1, <2>2 DEF Below
<1>6. /\ \A u \in Threads : u # t => (Carries(u)' <=> Carries(u)) /\ place'[u] = place[u]
      /\ ~Carries(t) /\ (Carries(t)' => large[t]) /\ place'[t] = p
  BY <1>3 DEF Carries
<1>7. HeadersBelowStart'
  <2>1. ASSUME NEW u \in Threads, Carries(u)' PROVE Below(place[u])'
    <3>1. CASE u = t
      BY <1>5, <1>6, <2>1, <3>1 DEF Below
    <3>2. CASE u # t
      <4>1. place[u] \in Place /\ Below(place[u])
        BY <1>3, <1>6, <2>1, <3>2 DEF Headers, HeadersBelowStart
      <4>. QED BY <1>4, <1>6, <3>2, <4>1 DEF Below
    <3>. QED BY <3>1, <3>2
  <2>2. \A i \in DOMAIN m_pLarge : Below(m_pLarge[i])'
    BY <1>3, <1>4 DEF Headers, HeadersBelowStart
  <2>3. \A q \in lost : Below(q)'
    BY <1>3, <1>4 DEF Headers, HeadersBelowStart
  <2>. QED BY <2>1, <2>2, <2>3 DEF HeadersBelowStart, Below
<1>8. HeadersDiffer'
  <2>1. \A u \in Threads : Carries(u) => place[u] # p
    BY <1>3, <1>4 DEF Headers, HeadersBelowStart
  <2>2. p \notin Listed \union lost
    BY <1>3, <1>4 DEF Headers, HeadersBelowStart, Listed
  <2>3. Listed' = Listed
    BY DEF Listed
  <2>4. \A u, v \in Threads : u # v /\ Carries(u)' /\ Carries(v)' => place'[u] # place'[v]
    BY <1>6, <2>1 DEF Headers, HeadersDiffer
  <2>5. \A u \in Threads : Carries(u)' => place'[u] \notin Listed \union lost
    BY <1>6, <2>2 DEF Headers, HeadersDiffer
  <2>. QED BY <2>3, <2>4, <2>5 DEF Headers, HeadersDiffer
<1>9. ListIsSet'
  BY DEF Headers, ListIsSet
<1>10. HeapIsKnown'
  <2>1. \A u \in Threads : (Holds(u)' <=> Holds(u)) /\ (Holds(u) => place'[u] = place[u])
    BY <1>3 DEF Holds
  <2>. QED BY <2>1, HeapUnchanged
<1>11. RestIsList' /\ NeedsHeader'
  BY <1>3 DEF Headers, RestIsList, NeedsHeader
<1>. QED BY <1>7, <1>8, <1>9, <1>10, <1>11 DEF Headers

\* A header that a thread takes from the pool is in nobody's hands.
LEMMA HeadersTake ==
    ASSUME Blocks, Blocks', Headers, NEW t \in Threads, Take(t)
    PROVE  Headers'
<1> DEFINE p == place[t]
<1>1. TypeOK /\ PoolSize \in Nat /\ MaxSmall \in Nat
  BY SizesAssumption DEF Blocks
<1>2. pc[t] = "take" /\ p # Nowhere /\ p \in Place /\ need[t] \in Nat
  BY <1>1 DEF Take, TypeOK
<1>3. m_pPool /\ p.node \in DOMAIN nodes /\ p.at = Aligned(nodes[p.node])
  BY <1>2 DEF Blocks, FoundHasRoom, PoolInUse
<1>4. /\ nodes \in Seq(0 .. PoolSize)
      /\ \A i \in DOMAIN nodes : nodes[i] \in 0 .. PoolSize
  BY <1>1, ElementOfSeq, LenProperties DEF TypeOK
<1>5. p.at \in Nat /\ nodes[p.node] \in Nat /\ nodes[p.node] <= p.at
  <2>1. nodes[p.node] \in Nat
    BY <1>1, <1>3, <1>4
  <2>. QED BY <1>3, <2>1, Rounding
<1>6. nodes' = [nodes EXCEPT ![p.node] = p.at + need[t]]
  BY DEF Take
<1> HIDE DEF p
<1>7. DOMAIN nodes' = DOMAIN nodes /\ nodes'[p.node] = p.at + need[t]
  BY <1>3, <1>6
<1>8. \A i \in DOMAIN nodes : nodes[i] <= nodes'[i]
  BY <1>1, <1>2, <1>3, <1>4, <1>5, <1>6
<1>9. /\ place' = [place EXCEPT ![t] = p]
      /\ pc' = [pc EXCEPT ![t] = IF large[t] THEN "construct" ELSE "idle"]
      /\ UNCHANGED <<need, large, rest, m_pLarge, heap, m_pPool, lost>>
  BY <1>1 DEF Take, Return, TypeOK, p
<1>. QED BY <1>2, <1>3, <1>5, <1>7, <1>8, <1>9, HeadersGive

\* Nor is a header at the start of a new node.
LEMMA HeadersGrow ==
    ASSUME Blocks, Blocks', Headers, NEW t \in Threads, Grow(t)
    PROVE  Headers'
<1> DEFINE p == [node |-> Len(nodes) + 1, at |-> Aligned(NodeHeader)]
<1>1. TypeOK /\ TypeOK' /\ PoolSize \in Nat /\ MaxSmall \in Nat
  BY SizesAssumption DEF Blocks
<1>2. pc[t] = "take" /\ m_pPool
  BY DEF Grow, Blocks, PoolInUse
<1>3. /\ place' = [place EXCEPT ![t] = p]
      /\ nodes' = Append(nodes, p.at + need[t])
      /\ pc' = [pc EXCEPT ![t] = IF large[t] THEN "construct" ELSE "idle"]
      /\ UNCHANGED <<need, large, rest, m_pLarge, heap, m_pPool, lost>>
  BY DEF Grow, Return
<1>4. p \in Place /\ p.node = Len(nodes) + 1
  BY <1>1, <1>3 DEF TypeOK
<1> HIDE DEF p
<1>5. /\ nodes \in Seq(0 .. PoolSize) /\ Len(nodes) \in Nat /\ DOMAIN nodes = 1 .. Len(nodes)
      /\ \A i \in DOMAIN nodes : nodes[i] \in 0 .. PoolSize
  BY <1>1, ElementOfSeq, LenProperties DEF TypeOK
<1>6. /\ DOMAIN nodes' = 1 .. Len(nodes) + 1
      /\ \A i \in DOMAIN nodes : nodes'[i] = nodes[i]
      /\ nodes'[Len(nodes) + 1] = p.at + need[t]
  BY <1>3, <1>5
<1>7. \A i \in DOMAIN nodes : i \in DOMAIN nodes' /\ nodes[i] <= nodes'[i]
  BY <1>1, <1>5, <1>6
<1>8. p.node \in DOMAIN nodes' /\ p.node \notin DOMAIN nodes /\ nodes'[p.node] = p.at + need[t]
  BY <1>4, <1>5, <1>6
<1>. QED BY <1>2, <1>3, <1>4, <1>7, <1>8, HeadersGive

\* malloc's block is known to the call that asked for it.
LEMMA HeadersConstruct ==
    ASSUME Blocks, Headers, NEW t \in Threads, Construct(t)
    PROVE  Headers'
<1>1. pc \in [Threads -> Steps]
  BY DEF Blocks, TypeOK
<1>2. /\ pc[t] = "construct" /\ pc' = [pc EXCEPT ![t] = "link"]
      /\ heap' = heap \union {place[t]} /\ m_pPool
      /\ UNCHANGED <<need, large, place, rest, nodes, m_pLarge, m_pPool, lost>>
  BY DEF Construct, Goto, Blocks, PoolInUse
<1>3. SameHeaders
  BY <1>1, <1>2 DEF SameHeaders, Carries
<1>4. HeapIsKnown'
  <2>1. {u \in Threads : Holds(u)'} = {u \in Threads : Holds(u)} \union {t}
    BY <1>1, <1>2 DEF Holds
  <2>2. {place'[u] : u \in {v \in Threads : Holds(v)'}}
          = {place[u] : u \in {v \in Threads : Holds(v)}} \union {place[t]}
    BY <1>2, <2>1
  <2>3. heap = Listed \union lost \union {place[u] : u \in {v \in Threads : Holds(v)}}
    BY <1>2 DEF Headers, HeapIsKnown
  <2>4. Listed' = Listed
    BY <1>2 DEF Listed
  <2>. QED BY <1>2, <2>2, <2>3, <2>4 DEF HeapIsKnown
<1>5. RestIsList' /\ NeedsHeader'
  BY <1>1, <1>2 DEF Headers, RestIsList, NeedsHeader
<1>. QED BY <1>3, <1>4, <1>5, HeadersUnchanged DEF Headers

\* Under the mutex the list is still the one Link has read.
LEMMA HeadersPublish ==
    ASSUME Blocks, Headers, NEW t \in Threads, Publish(t)
    PROVE  Headers'
<1>1. /\ pc \in [Threads -> Steps] /\ place \in [Threads -> Place]
      /\ m_pLarge \in Seq(Place) /\ DOMAIN m_pLarge = 1 .. Len(m_pLarge)
  BY LenProperties DEF Blocks, TypeOK
<1>2. /\ pc[t] = "publish" /\ pc' = [pc EXCEPT ![t] = "idle"]
      /\ m_pPool /\ m_PoolLock = t
      /\ UNCHANGED <<need, large, place, rest, nodes, heap, m_pPool, lost>>
  BY DEF Publish, Goto, Blocks, PoolInUse, Exclusion
<1>3. m_pLarge' = <<place[t]>> \o m_pLarge
  BY <1>2 DEF Publish, Headers, RestIsList
<1>4. /\ DOMAIN m_pLarge' = 1 .. Len(m_pLarge) + 1 /\ Len(m_pLarge) \in Nat
      /\ m_pLarge'[1] = place[t]
      /\ \A i \in DOMAIN m_pLarge' : i # 1 => i - 1 \in DOMAIN m_pLarge /\ m_pLarge'[i] = m_pLarge[i - 1]
      /\ \A i \in DOMAIN m_pLarge : i + 1 \in DOMAIN m_pLarge' /\ m_pLarge'[i + 1] = m_pLarge[i]
  <2>1. <<place[t]>> \in Seq(Place) /\ Len(<<place[t]>>) = 1 /\ <<place[t]>>[1] = place[t]
    BY <1>1
  <2> DEFINE s == <<place[t]>>
  <2> HIDE DEF s
  <2>2. /\ s \o m_pLarge \in Seq(Place) /\ Len(s \o m_pLarge) = 1 + Len(m_pLarge)
        /\ \A i \in 1 .. 1 + Len(m_pLarge) : (s \o m_pLarge)[i]
                = IF i <= 1 THEN s[i] ELSE m_pLarge[i - 1]
    BY <1>1, <2>1, ConcatProperties DEF s
  <2>. QED BY <1>1, <1>3, <2>1, <2>2, LenProperties DEF s
<1>5. Listed' = Listed \union {place[t]}
  <2>1. ASSUME NEW q \in Listed' PROVE q \in Listed \union {place[t]}
    BY <1>4, <2>1 DEF Listed
  <2>2. ASSUME NEW q \in Listed PROVE q \in Listed'
    BY <1>4, <2>2 DEF Listed
  <2>3. place[t] \in Listed'
    BY <1>4 DEF Listed
  <2>. QED BY <2>1, <2>2, <2>3
<1>6. /\ Carries(t) /\ Holds(t) /\ ~Carries(t)' /\ ~Holds(t)'
      /\ \A u \in Threads : u # t => (Carries(u)' <=> Carries(u)) /\ (Holds(u)' <=> Holds(u))
  BY <1>1, <1>2 DEF Carries, Holds
<1>7. HeadersBelowStart'
  <2>1. \A i \in DOMAIN m_pLarge' : Below(m_pLarge'[i])
    BY <1>2, <1>4, <1>6 DEF Headers, HeadersBelowStart
  <2>. QED BY <1>2, <1>6, <2>1 DEF Headers, HeadersBelowStart, Below
<1>8. HeadersDiffer'
  <2>1. \A u \in Threads : Carries(u)' => Carries(u) /\ place[u] # place[t]
    BY <1>2, <1>6 DEF Headers, HeadersDiffer
  <2>2. \A i \in DOMAIN m_pLarge' : m_pLarge'[i] \notin lost
    BY <1>2, <1>4, <1>6 DEF Headers, HeadersDiffer
  <2>. QED BY <1>2, <1>5, <2>1, <2>2 DEF Headers, HeadersDiffer
<1>9. ListIsSet'
  <2>1. \A i \in DOMAIN m_pLarge : m_pLarge[i] # place[t]
    BY <1>2, <1>6 DEF Headers, HeadersDiffer, Listed
  <2>. QED BY <1>4, <2>1 DEF Headers, ListIsSet
<1>10. HeapIsKnown'
  <2>1. {u \in Threads : Holds(u)} = {u \in Threads : Holds(u)'} \union {t}
    BY <1>6
  <2>2. {place[u] : u \in {v \in Threads : Holds(v)}}
          = {place'[u] : u \in {v \in Threads : Holds(v)'}} \union {place[t]}
    BY <1>2, <2>1
  <2>. QED BY <1>2, <1>5, <2>2 DEF Headers, HeapIsKnown
<1>11. RestIsList'
  <2>1. \A u \in Threads : pc'[u] # "publish"
    BY <1>1, <1>2 DEF Blocks, Exclusion
  <2>. QED BY <2>1 DEF RestIsList
<1>12. NeedsHeader'
  BY <1>1, <1>2 DEF Headers, NeedsHeader
<1>. QED BY <1>7, <1>8, <1>9, <1>10, <1>11, <1>12 DEF Headers

\* A thread that is ended loses what it has not linked.
LEMMA HeadersQuit ==
    ASSUME Blocks, Headers, NEW t \in Threads, Quit(t)
    PROVE  Headers'
<1>1. pc \in [Threads -> Steps] /\ place \in [Threads -> Place]
  BY DEF Blocks, TypeOK
<1>2. /\ pc' = [pc EXCEPT ![t] = "quit"]
      /\ lost' = IF Holds(t) THEN lost \union {place[t]} ELSE lost
      /\ UNCHANGED <<need, large, place, rest, nodes, m_pLarge, heap, m_pPool>>
  BY DEF Quit, Holds
<1>3. /\ Holds(t) => Carries(t) /\ m_pPool
      /\ ~Carries(t)' /\ ~Holds(t)'
      /\ \A u \in Threads : u # t => (Carries(u)' <=> Carries(u)) /\ (Holds(u)' <=> Holds(u))
  BY <1>1, <1>2 DEF Carries, Holds, Blocks, PoolInUse
<1>4. Listed' = Listed
  BY <1>2 DEF Listed
<1>5. HeadersBelowStart'
  BY <1>2, <1>3 DEF Headers, HeadersBelowStart, Below
<1>6. HeadersDiffer'
  <2> SUFFICES ASSUME m_pPool
               PROVE  /\ \A u, v \in Threads : u # v /\ Carries(u)' /\ Carries(v)' => place[u] # place[v]
                      /\ \A u \in Threads : Carries(u)' => place[u] \notin Listed \union lost'
                      /\ \A i \in DOMAIN m_pLarge : m_pLarge[i] \notin lost'
    BY <1>2, <1>4 DEF HeadersDiffer
  <2>1. \A u, v \in Threads : u # v /\ Carries(u)' /\ Carries(v)' => place[u] # place[v]
    BY <1>3 DEF Headers, HeadersDiffer
  <2>2. \A u \in Threads : Carries(u)' => place[u] \notin Listed \union lost'
    BY <1>2, <1>3 DEF Headers, HeadersDiffer
  <2>3. \A i \in DOMAIN m_pLarge : m_pLarge[i] \notin lost'
    <3>1. Holds(t) => \A i \in DOMAIN m_pLarge : m_pLarge[i] # place[t]
      BY <1>3 DEF Headers, HeadersDiffer, Listed
    <3>. QED BY <1>2, <3>1 DEF Headers, HeadersDiffer
  <2>. QED BY <2>1, <2>2, <2>3
<1>7. ListIsSet'
  BY <1>2 DEF Headers, ListIsSet
<1>8. HeapIsKnown'
  <2>1. CASE Holds(t)
    <3>1. {place[u] : u \in {v \in Threads : Holds(v)}}
            = {place'[u] : u \in {v \in Threads : Holds(v)'}} \union {place[t]}
      BY <1>2, <1>3, <2>1
    <3>. QED BY <1>2, <1>3, <1>4, <2>1, <3>1 DEF Headers, HeapIsKnown
  <2>2. CASE ~Holds(t)
    <3>1. \A u \in Threads : (Holds(u)' <=> Holds(u)) /\ (Holds(u) => place'[u] = place[u])
      BY <1>2, <1>3, <2>2
    <3>. QED BY <1>2, <2>2, <3>1, HeapUnchanged
  <2>. QED BY <2>1, <2>2
<1>9. RestIsList' /\ NeedsHeader'
  BY <1>1, <1>2 DEF Headers, RestIsList, NeedsHeader
<1>. QED BY <1>5, <1>6, <1>7, <1>8, <1>9 DEF Headers

\* There are no headers in the initial state.
LEMMA HeadersInit == Init => Headers
<1> SUFFICES ASSUME Init PROVE Headers
  OBVIOUS
<1>1. \A t \in Threads : pc[t] = "idle" /\ large[t] = FALSE
  BY DEF Init
<1>2. m_pLarge = << >> /\ DOMAIN m_pLarge = {} /\ lost = {} /\ heap = {}
  BY DEF Init
<1>3. Listed = {} /\ {u \in Threads : Holds(u)} = {}
  BY <1>1, <1>2 DEF Listed, Holds
<1>4. HeapIsKnown
  BY <1>2, <1>3 DEF HeapIsKnown
<1>. QED BY <1>1, <1>2, <1>3, <1>4
         DEF Headers, HeadersBelowStart, HeadersDiffer, ListIsSet, RestIsList, NeedsHeader, Carries

\* Every step keeps the headers, the list and the heap in agreement.
LEMMA HeadersNext == Blocks /\ Blocks' /\ Headers /\ [Next]_vars => Headers'
<1> SUFFICES ASSUME Blocks, Blocks', Headers, [Next]_vars PROVE Headers'
  OBVIOUS
<1>0. pc \in [Threads -> Steps] /\ large \in [Threads -> BOOLEAN] /\ need \in [Threads -> 0 .. MaxSmall]
  BY DEF Blocks, TypeOK
<1>1. ASSUME NEW t \in Threads, NEW size \in Sizes, Allocate(t, size) PROVE Headers'
  <2>1. SameHeaders /\ \A u \in Threads : (Holds(u)' <=> Holds(u)) /\ place'[u] = place[u]
    BY <1>0, <1>1 DEF SameHeaders, Carries, Holds, Allocate, Goto
  <2>2. RestIsList' /\ NeedsHeader'
    BY <1>0, <1>1 DEF Headers, RestIsList, NeedsHeader, Allocate, Goto
  <2>. QED BY <1>1, <2>1, <2>2, HeadersUnchanged, HeapUnchanged DEF Headers, Allocate
<1>2. ASSUME NEW t \in Threads, AllocateLock(t) PROVE Headers'
  <2>1. SameHeaders /\ \A u \in Threads : (Holds(u)' <=> Holds(u)) /\ place'[u] = place[u]
    BY <1>0, <1>2 DEF SameHeaders, Carries, Holds, AllocateLock, Goto
  <2>2. RestIsList' /\ NeedsHeader'
    BY <1>0, <1>2 DEF Headers, RestIsList, NeedsHeader, AllocateLock, Goto
  <2>. QED BY <1>2, <2>1, <2>2, HeadersUnchanged, HeapUnchanged DEF Headers, AllocateLock
<1>3. ASSUME NEW t \in Threads, Search(t) PROVE Headers'
  <2>1. pc[t] = "search" /\ \A u \in Threads : u # t => place'[u] = place[u]
    <3>1. PICK p : place' = [place EXCEPT ![t] = p]
      BY <1>3 DEF Search
    <3>2. place \in [Threads -> Place]
      BY DEF Blocks, TypeOK
    <3>. QED BY <1>3, <3>1, <3>2 DEF Search, Goto
  <2>2. SameHeaders /\ \A u \in Threads : (Holds(u)' <=> Holds(u)) /\ (Holds(u) => place'[u] = place[u])
    BY <1>0, <1>3, <2>1 DEF SameHeaders, Carries, Holds, Search, Goto
  <2>3. RestIsList' /\ NeedsHeader'
    BY <1>0, <1>3 DEF Headers, RestIsList, NeedsHeader, Search, Goto
  <2>4. UNCHANGED <<heap, m_pLarge, lost, m_pPool>>
    BY <1>3 DEF Search
  <2>. QED BY <2>2, <2>3, <2>4, HeadersUnchanged, HeapUnchanged DEF Headers
<1>4. ASSUME NEW t \in Threads, Link(t) PROVE Headers'
  <2>1. SameHeaders /\ \A u \in Threads : (Holds(u)' <=> Holds(u)) /\ place'[u] = place[u]
    BY <1>0, <1>4 DEF SameHeaders, Carries, Holds, Link, Goto
  <2>2. rest \in [Threads -> Seq(Place)]
    BY DEF Blocks, TypeOK
  <2>3. RestIsList' /\ NeedsHeader'
    BY <1>0, <1>4, <2>2 DEF Headers, RestIsList, NeedsHeader, Link, Goto
  <2>. QED BY <1>4, <2>1, <2>3, HeadersUnchanged, HeapUnchanged DEF Headers, Link
<1>5. ASSUME Destroy PROVE Headers'
  <2>1. /\ m_pPool /\ m_pPool' = FALSE /\ m_pLarge' = << >> /\ lost' = lost
        /\ heap' = heap \ Listed
        /\ \A t \in Threads : pc[t] \in {"idle", "quit"}
        /\ UNCHANGED <<pc, need, large, place, rest>>
    BY <1>5 DEF Destroy, Listed, threadVars
  <2>2. {u \in Threads : Holds(u)} = {}
    BY <2>1 DEF Holds
  <2>3. heap = Listed \union lost
    BY <2>1, <2>2 DEF Headers, HeapIsKnown
  <2>4. \A q \in Listed : q \notin lost
    BY <2>1 DEF Headers, HeadersDiffer, Listed
  <2>5. HeapIsKnown'
    BY <2>1, <2>3, <2>4 DEF HeapIsKnown
  <2>6. DOMAIN m_pLarge' = {}
    BY <2>1
  <2>. QED BY <2>1, <2>5, <2>6
           DEF Headers, HeadersBelowStart, HeadersDiffer, ListIsSet, RestIsList, NeedsHeader
<1>6. CASE UNCHANGED vars
  <2>1. SameHeaders /\ \A u \in Threads : (Holds(u)' <=> Holds(u)) /\ place'[u] = place[u]
    BY <1>6 DEF SameHeaders, Carries, Holds, vars, threadVars
  <2>2. RestIsList' /\ NeedsHeader'
    BY <1>6 DEF Headers, RestIsList, NeedsHeader, vars, threadVars
  <2>. QED BY <1>6, <2>1, <2>2, HeadersUnchanged, HeapUnchanged DEF Headers, vars
<1>. QED BY <1>1, <1>2, <1>3, <1>4, <1>5, <1>6,
            HeadersTake, HeadersGrow, HeadersConstruct, HeadersPublish, HeadersQuit
         DEF Next, Step

\* The headers are sound in every reachable state.
LEMMA HeadersInvariant == SafeSpec => []Headers
BY BlocksInvariant, HeadersInit, HeadersNext, PTL DEF SafeSpec

\* Destroy finds every large block, once: what is left when the pool is gone
\* belonged to threads that were ended between malloc and the link.
THEOREM DestroyFindsAll == SafeSpec => []DestroyFreesAll
<1>1. Headers => DestroyFreesAll
  BY DEF Headers, HeapIsKnown, ListIsSet, DestroyFreesAll
<1>. QED BY <1>1, HeadersInvariant, PTL
=============================================================================
