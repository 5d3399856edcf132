----------------------------- MODULE LogProofs ------------------------------
(***************************************************************************)
(* The record locks of the log, for any number of processes and threads:   *)
(* of the processes that log from one thread one writes at a time, and     *)
(* whatever they leave locked, they never wait for each other in a circle. *)
(***************************************************************************)
EXTENDS Log, Integers, FiniteSetTheorems,
        NaturalsInduction, WellFoundedInduction, TLAPS

\* While the thread of such a process is inside, the process has locked all from
\* where it saw the end.
InsideHolds ==
    \A w \in Inside : ProcessOf[w] \in Single => From(start[w]) \subseteq locked[ProcessOf[w]]

\* No byte is locked by two processes.
LocksAreDisjoint ==
    \A p, q \in Processes : p # q => locked[p] \intersect locked[q] = {}

\* What such a process leaves locked lies before the end, and before the range that
\* its next call asks for.
LeftLiesBehind ==
    \A w \in Writers :
        w \notin Inside /\ ProcessOf[w] \in Single =>
            \A x \in locked[ProcessOf[w]] :
                x < end /\ (pc[w] = "lock" => x < start[w])

\* Every range that was asked for begins at or before the end.
StartIsBehind == \A w \in Writers : start[w] <= end

\* The inductive invariant.
LogInv == InsideHolds /\ LocksAreDisjoint /\ LeftLiesBehind /\ StartIsBehind

-----------------------------------------------------------------------------
\* A set of numbers up to N has a greatest one.
LEMMA GreatestOf ==
    ASSUME NEW N \in Nat, NEW T \in SUBSET (0 .. N), T # {}
    PROVE  \E n \in T : \A m \in T : m <= n
<1> DEFINE U == {N - n : n \in T}
<1>1. U \subseteq Nat
  OBVIOUS
<1>2. U # {}
  <2>1. PICK n \in T : TRUE
    OBVIOUS
  <2>2. N - n \in U
    BY <2>1
  <2> QED BY <2>2
<1>3. PICK x \in U : \A y \in U : ~(<<y, x>> \in OpToRel(<, Nat))
  BY <1>1, <1>2, NatLessThanWellFounded, WFMin
<1>4. \A y \in U : ~(y < x)
  BY <1>1, <1>3 DEF OpToRel
<1>5. PICK n \in T : x = N - n
  OBVIOUS
<1>6. ASSUME NEW m \in T PROVE m <= n
  <2>1. N - m \in U
    OBVIOUS
  <2>2. ~(N - m < N - n)
    BY <1>4, <1>5, <2>1
  <2>3. m \in Int /\ n \in Int /\ N \in Int
    OBVIOUS
  <2> HIDE DEF U
  <2> QED BY <2>2, <2>3
<1> QED BY <1>6

\* A call that begins or ends its wait changes the number of lines to come by one.
LEMMA BusyCount ==
    ASSUME NEW S \in SUBSET Writers, NEW w \in Writers, w \notin S
    PROVE  /\ Cardinality(S) \in Nat
           /\ Cardinality(S \union {w}) = Cardinality(S) + 1
           /\ Cardinality(S \union {w}) * MaxLen = Cardinality(S) * MaxLen + MaxLen
<1>1. IsFiniteSet(S)
  BY FS_Subset, LogAssumption
<1>2. Cardinality(S) \in Nat
  BY <1>1, FS_CardinalityType
<1>3. Cardinality(S \union {w}) = Cardinality(S) + 1
  BY <1>1, FS_AddElement
<1>4. \A k, m \in Nat : (k + 1) * m = k * m + m
  OBVIOUS
<1> QED BY <1>2, <1>3, <1>4, LogAssumption

LEMMA BusyIsNat ==
    ASSUME NEW S \in SUBSET Writers
    PROVE  Cardinality(S) * MaxLen \in Nat
<1>1. Cardinality(S) \in Nat
  BY FS_Subset, FS_CardinalityType, LogAssumption
<1>2. \A k, m \in Nat : k * m \in Nat
  OBVIOUS
<1> QED BY <1>1, <1>2, LogAssumption

LEMMA InitTypeOK == Init => TypeOK
<1> SUFFICES ASSUME Init PROVE TypeOK
  OBVIOUS
<1>1. Busy = {}
  BY DEF Init, Busy
<1>2. Cardinality(Busy) * MaxLen = 0
  <2>1. Cardinality({}) = 0
    BY FS_EmptySet
  <2>2. \A m \in Nat : 0 * m = 0
    OBVIOUS
  <2> QED BY <1>1, <2>1, <2>2, LogAssumption
<1> QED BY <1>2, LogAssumption DEF Init, TypeOK, Bytes

\* The line of a busy writer still fits.
LEMMA LineFits ==
    ASSUME TypeOK, NEW w \in Busy
    PROVE  /\ Cardinality(Busy \ {w}) * MaxLen \in Nat
           /\ end + len[w] + Cardinality(Busy \ {w}) * MaxLen <= MaxEnd
<1>1. Cardinality(Busy) * MaxLen = Cardinality(Busy \ {w}) * MaxLen + MaxLen
  <2>1. Busy = (Busy \ {w}) \union {w} /\ Busy \ {w} \in SUBSET Writers /\ w \in Writers
    BY DEF Busy
  <2> QED BY <2>1, BusyCount
<1>2. Cardinality(Busy \ {w}) * MaxLen \in Nat
  BY BusyIsNat DEF Busy
<1>3. len[w] \in 0 .. MaxLen
  BY DEF TypeOK, Busy
<1> QED BY <1>1, <1>2, <1>3, LogAssumption DEF TypeOK

LEMMA NextTypeOK == TypeOK /\ [Next]_vars => TypeOK'
<1> SUFFICES ASSUME TypeOK, [Next]_vars PROVE TypeOK'
  OBVIOUS
<1> USE LogAssumption
<1>0. end <= MaxEnd /\ end \in Bytes
  BY BusyIsNat DEF TypeOK, Busy, Bytes
<1>1. ASSUME NEW w \in Writers, WriteLog(w) PROVE TypeOK'
  <2>1. Busy' = Busy \union {w} /\ w \notin Busy
    BY <1>1 DEF WriteLog, Goto, Busy, TypeOK
  <2>2. Cardinality(Busy') = Cardinality(Busy) + 1
    BY <2>1, BusyCount DEF Busy
  <2>3. end' + Cardinality(Busy') * MaxLen <= MaxEnd
    BY <1>1, <2>2 DEF WriteLog
  <2> QED BY <1>0, <1>1, <2>3 DEF TypeOK, WriteLog, Goto
<1>2. ASSUME NEW w \in Writers, SetLock(w) PROVE TypeOK'
  <2>1. Busy' = Busy
    BY <1>2 DEF SetLock, Goto, Busy, TypeOK
  <2>2. From(start[w]) \subseteq Bytes
    BY DEF TypeOK, From, Bytes
  <2> QED BY <1>2, <2>1, <2>2 DEF TypeOK, SetLock, Goto
<1>3. ASSUME NEW w \in Writers, Write(w) PROVE TypeOK'
  <2>1. w \in Busy /\ Busy' = Busy \ {w}
    BY <1>3 DEF Write, Goto, Busy, TypeOK
  <2>2. end' + Cardinality(Busy') * MaxLen <= MaxEnd
    BY <1>3, <2>1, LineFits DEF Write
  <2>3. end' \in Nat
    BY <1>3 DEF Write, TypeOK
  <2> QED BY <1>3, <2>2, <2>3 DEF TypeOK, Write, Goto
<1>4. ASSUME NEW w \in Writers, UnLock(w) PROVE TypeOK'
  <2>1. Busy' = Busy
    BY <1>4 DEF UnLock, Goto, Busy, TypeOK
  <2> QED BY <1>4, <2>1 DEF TypeOK, UnLock, Goto
<1>5. ASSUME NEW p \in Processes, End(p) PROVE TypeOK'
  <2>1. Busy' \subseteq Busy
    BY <1>5 DEF End, Busy
  <2>2. Cardinality(Busy') <= Cardinality(Busy) /\ Cardinality(Busy') \in Nat
                                                /\ Cardinality(Busy) \in Nat
    <3>1. IsFiniteSet(Busy)
      BY FS_Subset DEF Busy
    <3> QED BY <2>1, <3>1, FS_Subset, FS_CardinalityType
  <2>3. Cardinality(Busy') * MaxLen <= Cardinality(Busy) * MaxLen
    <3>1. \A j, k, m \in Nat : j <= k => j * m <= k * m
      <4>1. ASSUME NEW j \in Nat, NEW k \in Nat, NEW m \in Nat, j <= k
            PROVE  j * m <= k * m
        <5>1. PICK d \in Nat : k = j + d
          BY <4>1
        <5>2. (j + d) * m = j * m + d * m /\ d * m \in Nat /\ j * m \in Nat
          OBVIOUS
        <5> QED BY <5>1, <5>2
      <4> QED BY <4>1
    <3> QED BY <2>2, <3>1
  <2>4. end' + Cardinality(Busy') * MaxLen <= MaxEnd
    <3>1. Cardinality(Busy) * MaxLen \in Nat /\ Cardinality(Busy') * MaxLen \in Nat
      BY <2>1, BusyIsNat DEF Busy
    <3> QED BY <1>5, <2>3, <3>1 DEF TypeOK, End
  <2> QED BY <1>5, <2>4 DEF TypeOK, End
<1>6. ASSUME UNCHANGED vars PROVE TypeOK'
  BY <1>6 DEF vars, TypeOK, Busy
<1> QED BY <1>1, <1>2, <1>3, <1>4, <1>5, <1>6, LogAssumption
     DEF Next, DoWriteLog, Exit, SetLockFails

\* The file never outgrows the bound, whatever the threads do: what is modelled
\* is every step of writers whose lines fit.
THEOREM TypeCorrect == Spec => []TypeOK
<1> QED BY InitTypeOK, NextTypeOK, PTL DEF Spec

-----------------------------------------------------------------------------
LEMMA InitLogInv == Init => LogInv
  BY LogAssumption DEF Init, LogInv, InsideHolds, LocksAreDisjoint, LeftLiesBehind,
     StartIsBehind, Inside

\* The range of a writer holds the last byte, and all lie within the file.
LEMMA RangeFacts ==
    ASSUME TypeOK, StartIsBehind
    PROVE  /\ end \in Nat /\ end <= MaxEnd
           /\ \A w \in Writers : start[w] \in Nat /\ start[w] <= end
                                 /\ MaxEnd \in From(start[w])
                                 /\ From(start[w]) = {x \in Bytes : start[w] <= x}
<1>1. end <= MaxEnd /\ end \in Nat
  BY BusyIsNat, LogAssumption DEF TypeOK, Busy
<1> QED BY <1>1, LogAssumption DEF TypeOK, StartIsBehind, From, Bytes

LEMMA NextLogInv == TypeOK /\ LogInv /\ [Next]_vars => LogInv'
<1> SUFFICES ASSUME TypeOK, LogInv, [Next]_vars PROVE LogInv'
  OBVIOUS
<1> USE LogAssumption
<1>0. /\ end \in Nat /\ end <= MaxEnd
      /\ \A w \in Writers : start[w] \in Nat /\ start[w] <= end
      /\ \A w \in Writers : \A x \in Bytes : x \in From(start[w]) <=> start[w] <= x
      /\ \A p \in Processes : locked[p] \subseteq Bytes
      /\ \A w \in Writers : ProcessOf[w] \in Processes /\ len[w] \in Nat
      /\ Inside \subseteq Writers
      /\ \A v, w \in Writers : ProcessOf[v] \in Single /\ v # w => ProcessOf[v] # ProcessOf[w]
  BY RangeFacts DEF LogInv, TypeOK, Inside, Single
<1>1. ASSUME NEW w \in Writers, WriteLog(w) PROVE LogInv'
  <2>1. Inside' = Inside /\ w \notin Inside
    BY <1>1 DEF WriteLog, Goto, Inside, TypeOK
  <2>2. /\ end' = end /\ locked' = locked /\ start'[w] = end /\ pc'[w] = "lock"
        /\ \A v \in Writers \ {w} : start'[v] = start[v] /\ pc'[v] = pc[v]
    BY <1>1 DEF WriteLog, Goto, TypeOK
  <2>3. InsideHolds'
    BY <2>1, <2>2 DEF InsideHolds, LogInv, From, Inside
  <2>4. LocksAreDisjoint'
    BY <2>2 DEF LocksAreDisjoint, LogInv
  <2>5. LeftLiesBehind'
    BY <2>1, <2>2 DEF LeftLiesBehind, LogInv
  <2>6. StartIsBehind'
    BY <1>0, <2>2 DEF StartIsBehind
  <2> QED BY <2>3, <2>4, <2>5, <2>6 DEF LogInv
<1>2. ASSUME NEW w \in Writers, SetLock(w) PROVE LogInv'
  <2>1. Inside' = Inside \union {w} /\ w \notin Inside
    BY <1>2 DEF SetLock, Goto, Inside, TypeOK
  <2>2. /\ end' = end /\ start' = start /\ pc'[w] = "write"
        /\ locked'[ProcessOf[w]] = locked[ProcessOf[w]] \union From(start[w])
        /\ \A p \in Processes \ {ProcessOf[w]} : locked'[p] = locked[p]
        /\ \A v \in Writers \ {w} : pc'[v] = pc[v]
        /\ \A p \in Processes \ {ProcessOf[w]} : locked[p] \intersect From(start[w]) = {}
    BY <1>2 DEF SetLock, Goto, TypeOK, Blocks
  <2>3. InsideHolds'
    <3> SUFFICES ASSUME NEW v \in Writers, v \in Inside', ProcessOf[v] \in Single
                 PROVE  From(start'[v]) \subseteq locked'[ProcessOf[v]]
      BY DEF InsideHolds, From, Inside
    <3>1. CASE v = w
      BY <2>2, <3>1
    <3>2. CASE v # w
      BY <1>0, <2>1, <2>2, <3>2 DEF InsideHolds, LogInv
    <3> QED BY <3>1, <3>2
  <2>4. LocksAreDisjoint'
    <3> SUFFICES ASSUME NEW p \in Processes, NEW q \in Processes, p # q
                 PROVE  locked'[p] \intersect locked'[q] = {}
      BY DEF LocksAreDisjoint
    <3>1. locked[p] \intersect locked[q] = {}
      BY DEF LocksAreDisjoint, LogInv
    <3>2. CASE p = ProcessOf[w]
      BY <2>2, <3>1, <3>2
    <3>3. CASE q = ProcessOf[w]
      BY <2>2, <3>1, <3>3
    <3>4. CASE p # ProcessOf[w] /\ q # ProcessOf[w]
      BY <2>2, <3>1, <3>4
    <3> QED BY <3>2, <3>3, <3>4
  <2>5. LeftLiesBehind'
    <3> SUFFICES ASSUME NEW v \in Writers, v \notin Inside', ProcessOf[v] \in Single,
                        NEW x \in locked'[ProcessOf[v]]
                 PROVE  x < end' /\ (pc'[v] = "lock" => x < start'[v])
      BY DEF LeftLiesBehind
    <3>1. v # w /\ v \notin Inside /\ ProcessOf[v] # ProcessOf[w]
      BY <1>0, <2>1
    <3> QED BY <1>0, <2>2, <3>1 DEF LeftLiesBehind, LogInv
  <2>6. StartIsBehind'
    BY <1>0, <2>2 DEF StartIsBehind
  <2> QED BY <2>3, <2>4, <2>5, <2>6 DEF LogInv
<1>3. ASSUME NEW w \in Writers, Write(w) PROVE LogInv'
  <2>1. Inside' = Inside /\ w \in Inside
    BY <1>3 DEF Write, Goto, Inside, TypeOK
  <2>2. /\ end' = end + len[w] /\ end <= end' /\ start' = start /\ locked' = locked
        /\ \A v \in Writers : v # w => pc'[v] = pc[v]
    BY <1>0, <1>3 DEF Write, Goto, TypeOK
  <2>3. InsideHolds' /\ LocksAreDisjoint'
    BY <2>1, <2>2 DEF InsideHolds, LocksAreDisjoint, LogInv, From, Inside
  <2>4. LeftLiesBehind'
    <3> SUFFICES ASSUME NEW v \in Writers, v \notin Inside, ProcessOf[v] \in Single,
                        NEW x \in locked[ProcessOf[v]]
                 PROVE  x < end' /\ (pc'[v] = "lock" => x < start[v])
      BY <2>1, <2>2 DEF LeftLiesBehind
    <3>1. x < end /\ (pc[v] = "lock" => x < start[v]) /\ v # w /\ x \in Nat
      BY <1>0, <2>1 DEF LeftLiesBehind, LogInv, Bytes
    <3>2. end' \in Nat
      BY <1>0, <2>2
    <3> QED BY <1>0, <2>2, <3>1, <3>2
  <2>5. StartIsBehind'
    <3>1. end' \in Nat
      BY <1>0, <2>2
    <3> QED BY <1>0, <2>2, <3>1 DEF StartIsBehind
  <2> QED BY <2>3, <2>4, <2>5 DEF LogInv
<1>4. ASSUME NEW w \in Writers, UnLock(w) PROVE LogInv'
  <2>1. Inside' = Inside \ {w} /\ w \in Inside
    BY <1>4 DEF UnLock, Goto, Inside, TypeOK
  <2>2. /\ end' = end /\ start' = start /\ pc'[w] = "idle"
        /\ locked'[ProcessOf[w]] = locked[ProcessOf[w]] \ From(end - len[w])
        /\ \A p \in Processes \ {ProcessOf[w]} : locked'[p] = locked[p]
        /\ \A v \in Writers \ {w} : pc'[v] = pc[v]
    BY <1>4 DEF UnLock, Goto, TypeOK
  <2>3. InsideHolds'
    <3> SUFFICES ASSUME NEW v \in Writers, v \in Inside, v # w, ProcessOf[v] \in Single
                 PROVE  From(start[v]) \subseteq locked'[ProcessOf[v]]
      BY <1>0, <2>1, <2>2 DEF InsideHolds, From
    <3> QED BY <1>0, <2>2 DEF InsideHolds, LogInv
  <2>4. LocksAreDisjoint'
    <3>1. \A p \in Processes : locked'[p] \subseteq locked[p]
      BY <1>0, <2>2
    <3> QED BY <3>1 DEF LocksAreDisjoint, LogInv
  <2>5. LeftLiesBehind'
    <3> SUFFICES ASSUME NEW v \in Writers, v \notin Inside', ProcessOf[v] \in Single,
                        NEW x \in locked'[ProcessOf[v]]
                 PROVE  x < end' /\ (pc'[v] = "lock" => x < start'[v])
      BY DEF LeftLiesBehind
    <3>1. CASE v = w
      <4>1. x \in Bytes /\ x \notin From(end - len[w])
        BY <1>0, <2>2, <3>1
      <4>2. x < end - len[w]
        BY <1>0, <4>1 DEF Bytes, From
      <4> QED BY <1>0, <2>2, <3>1, <4>1, <4>2 DEF Bytes
    <3>2. CASE v # w
      <4>1. v \notin Inside /\ ProcessOf[v] # ProcessOf[w]
        BY <1>0, <2>1, <3>2
      <4> QED BY <1>0, <2>2, <3>2, <4>1 DEF LeftLiesBehind, LogInv
    <3> QED BY <3>1, <3>2
  <2>6. StartIsBehind'
    BY <1>0, <2>2 DEF StartIsBehind
  <2> QED BY <2>3, <2>4, <2>5, <2>6 DEF LogInv
<1>5. ASSUME NEW p \in Processes, End(p) PROVE LogInv'
  <2>1. /\ end' = end /\ start' = start /\ locked'[p] = {}
        /\ \A q \in Processes \ {p} : locked'[q] = locked[q]
        /\ \A v \in Writers : pc'[v] = IF ProcessOf[v] = p THEN "gone" ELSE pc[v]
    BY <1>5 DEF End, TypeOK
  <2>2. \A v \in Writers : v \in Inside' <=> v \in Inside /\ ProcessOf[v] # p
    BY <2>1 DEF Inside
  <2>3. InsideHolds'
    <3> SUFFICES ASSUME NEW v \in Writers, v \in Inside, ProcessOf[v] # p, ProcessOf[v] \in Single
                 PROVE  From(start[v]) \subseteq locked'[ProcessOf[v]]
      BY <2>1, <2>2 DEF InsideHolds, From, Inside
    <3> QED BY <1>0, <2>1 DEF InsideHolds, LogInv
  <2>4. LocksAreDisjoint'
    <3>1. \A q \in Processes : locked'[q] \subseteq locked[q]
      BY <1>0, <2>1
    <3> QED BY <3>1 DEF LocksAreDisjoint, LogInv
  <2>5. LeftLiesBehind'
    <3> SUFFICES ASSUME NEW v \in Writers, v \notin Inside', ProcessOf[v] \in Single,
                        NEW x \in locked'[ProcessOf[v]]
                 PROVE  x < end' /\ (pc'[v] = "lock" => x < start'[v])
      BY DEF LeftLiesBehind
    <3>1. ProcessOf[v] # p
      BY <2>1
    <3>2. v \notin Inside /\ pc'[v] = pc[v] /\ locked'[ProcessOf[v]] = locked[ProcessOf[v]]
      BY <1>0, <2>1, <2>2, <3>1
    <3> QED BY <2>1, <3>2 DEF LeftLiesBehind, LogInv
  <2>6. StartIsBehind'
    BY <1>0, <2>1 DEF StartIsBehind
  <2> QED BY <2>3, <2>4, <2>5, <2>6 DEF LogInv
<1>6. ASSUME UNCHANGED vars PROVE LogInv'
  BY <1>6 DEF vars, LogInv, InsideHolds, LocksAreDisjoint, LeftLiesBehind, StartIsBehind,
     Inside, From
<1> QED BY <1>1, <1>2, <1>3, <1>4, <1>5, <1>6, LogAssumption
     DEF Next, DoWriteLog, Exit, SetLockFails

LEMMA InvariantHolds == Spec => []LogInv
<1> QED BY InitLogInv, NextLogInv, TypeCorrect, PTL DEF Spec

\* While a process that logs from one thread writes and until it has unlocked, no
\* other such process does.
THEOREM OneProcessWrites == Spec => []OneWriter
<1>1. TypeOK /\ LogInv => OneWriter
  <2> SUFFICES ASSUME TypeOK, LogInv, NEW v \in Inside, NEW w \in Inside, v # w,
                      ProcessOf[v] \in Single, ProcessOf[w] \in Single
               PROVE  FALSE
    BY DEF OneWriter
  <2>1. v \in Writers /\ w \in Writers /\ ProcessOf[v] # ProcessOf[w]
    BY DEF Inside, Single
  <2>2. MaxEnd \in locked[ProcessOf[v]] /\ MaxEnd \in locked[ProcessOf[w]]
    BY <2>1, RangeFacts DEF LogInv, InsideHolds
  <2>3. ProcessOf[v] \in Processes /\ ProcessOf[w] \in Processes
    BY <2>1, LogAssumption
  <2> QED BY <2>1, <2>2, <2>3 DEF LogInv, LocksAreDisjoint
<1> QED BY <1>1, TypeCorrect, InvariantHolds, PTL

\* Of two such processes, one of which waits for the other, that one, if it waits
\* too, has asked for a range further back in the file.
LEMMA WaitsClimb ==
    ASSUME TypeOK, LogInv,
           NEW v \in Writers, NEW w \in Writers, pc[v] = "lock",
           ProcessOf[v] \in Single, Blocks(ProcessOf[v], w)
    PROVE  start[w] < start[v]
<1>1. PICK x \in locked[ProcessOf[v]] : x \in From(start[w])
  BY DEF Blocks
<1>2. v \notin Inside
  BY DEF Inside
<1>3. x < start[v] /\ start[w] <= x
  BY <1>1, <1>2 DEF LogInv, LeftLiesBehind, From
<1>4. x \in Nat /\ start[v] \in Nat /\ start[w] \in Nat
  BY <1>1, LogAssumption DEF TypeOK, Bytes, From
<1> QED BY <1>3, <1>4

\* fcntl never finds a circle of processes that log from one thread each.
THEOREM NoCircleOfWaits == Spec => []WaitsAreAcyclic
<1>1. TypeOK /\ LogInv => WaitsAreAcyclic
  <2> SUFFICES ASSUME TypeOK, LogInv, NEW S \in SUBSET Single, Cycle(S)
               PROVE  FALSE
    BY DEF WaitsAreAcyclic
  <2> DEFINE W == {w \in Writers : ProcessOf[w] \in S /\ pc[w] = "lock"}
             T == {start[w] : w \in W}
  <2>1. \A p \in S : \E w \in W : ProcessOf[w] = p
    BY DEF Cycle, WaitsFor
  <2>2. T # {} /\ T \in SUBSET (0 .. MaxEnd)
    BY <2>1 DEF Cycle, TypeOK, Bytes
  <2>3. PICK n \in T : \A m \in T : m <= n
    BY <2>2, GreatestOf, LogAssumption
  <2>4. PICK w \in W : n = start[w]
    OBVIOUS
  <2>5. PICK q \in S : WaitsFor(ProcessOf[w], q)
    BY DEF Cycle
  <2>6. Blocks(q, w)
    BY <2>5 DEF WaitsFor, Single
  <2>7. PICK v \in W : ProcessOf[v] = q
    BY <2>1
  <2>8. start[w] < start[v] /\ start[v] \in T
    BY <2>6, <2>7, WaitsClimb
  <2>9. start[v] <= start[w]
    BY <2>3, <2>4, <2>8
  <2>10. start[v] \in Nat /\ start[w] \in Nat
    BY DEF TypeOK, Bytes
  <2> HIDE DEF T, W
  <2> QED BY <2>8, <2>9, <2>10
<1> QED BY <1>1, TypeCorrect, InvariantHolds, PTL
=============================================================================
