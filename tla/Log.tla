-------------------------------- MODULE Log ---------------------------------
(***************************************************************************)
(* xtyLog: every thread of every process on the host appends its lines to  *)
(* one file.  DoWriteLog locks the file from its end on, writes, and       *)
(* unlocks; the locks are the kernel's record locks, which belong to a     *)
(* process and not to a thread.                                            *)
(*                                                                         *)
(* The kernel takes the end of the file when fcntl is called, for the lock *)
(* as for the unlock: a writer that had to wait has locked from where the  *)
(* end was, and unlocks from where its own line begins.  What lies between *)
(* stays locked until its process ends.                                    *)
(***************************************************************************)
EXTENDS Naturals, FiniteSets

CONSTANTS Writers,    \* the threads that log
          Processes,
          ProcessOf,  \* ProcessOf[w]: the process of thread w
          MaxLen,     \* the longest line
          MaxEnd      \* bound: how long the file gets

ASSUME LogAssumption ==
    /\ IsFiniteSet(Writers) /\ IsFiniteSet(Processes)
    /\ ProcessOf \in [Writers -> Processes]
    /\ MaxLen \in Nat \ {0} /\ MaxEnd \in Nat

VARIABLES end,    \* the length of the file
          locked, \* locked[p]: the bytes that process p has locked
          pc,     \* pc[w]: "idle", the next step of DoWriteLog, or "gone"
          start,  \* start[w]: where the lock that w asks for begins
          len     \* len[w]: the length of the line of w

vars == <<end, locked, pc, start, len>>

\* The bytes of the file; the last one stands for all that lies past the bound.
Bytes == 0 .. MaxEnd
From(n) == n .. MaxEnd

Init ==
    /\ end = 0
    /\ locked = [p \in Processes |-> {}]
    /\ pc = [w \in Writers |-> "idle"]
    /\ start = [w \in Writers |-> 0]
    /\ len = [w \in Writers |-> 0]

\* The writers whose line is still to come.
Busy == {w \in Writers : pc[w] \in {"lock", "write"}}

Goto(w, step) == pc' = [pc EXCEPT ![w] = step]

\* Mutant: the range begins at an end that the process has read earlier.
WriteLogStale(w) ==
    /\ pc[w] = "idle"
    /\ end + (Cardinality(Busy) + 1) * MaxLen <= MaxEnd
    /\ \E s \in 0 .. end : start' = [start EXCEPT ![w] = s]
    /\ \E n \in 1 .. MaxLen : len' = [len EXCEPT ![w] = n]
    /\ Goto(w, "lock")
    /\ UNCHANGED <<end, locked>>

\* The line is made, and the range of the lock fixed: from the end of the file
\* as it is now.
WriteLog(w) ==
    /\ pc[w] = "idle"
    /\ end + (Cardinality(Busy) + 1) * MaxLen <= MaxEnd
    /\ start' = [start EXCEPT ![w] = end]
    /\ \E n \in 1 .. MaxLen : len' = [len EXCEPT ![w] = n]
    /\ Goto(w, "lock")
    /\ UNCHANGED <<end, locked>>

\* What F_SETLKW waits for: other processes' locks in its range.
Blocks(q, w) == q # ProcessOf[w] /\ locked[q] \intersect From(start[w]) # {}

\* Mutant: the lock covers the line only.
SetLockLine(w) ==
    /\ pc[w] = "lock"
    /\ \A q \in Processes :
          q # ProcessOf[w] => locked[q] \intersect (start[w] .. start[w] + len[w] - 1) = {}
    /\ locked' = [locked EXCEPT ![ProcessOf[w]] = @ \union (start[w] .. start[w] + len[w] - 1)]
    /\ Goto(w, "write")
    /\ UNCHANGED <<end, start, len>>

SetLock(w) ==
    /\ pc[w] = "lock" /\ \A q \in Processes : ~Blocks(q, w)
    /\ locked' = [locked EXCEPT ![ProcessOf[w]] = @ \union From(start[w])]
    /\ Goto(w, "write")
    /\ UNCHANGED <<end, start, len>>

\* Mutant: a write that was interrupted is done again from its beginning.
WriteTwice(w) ==
    /\ pc[w] = "write"
    /\ end' = end + 2 * len[w]
    /\ Goto(w, "unlock")
    /\ UNCHANGED <<locked, start, len>>

\* The file is open with O_APPEND: one write is one piece, at the end.
Write(w) ==
    /\ pc[w] = "write"
    /\ end' = end + len[w]
    /\ Goto(w, "unlock")
    /\ UNCHANGED <<locked, start, len>>

\* F_UNLCK from writebytes before the end as it is now.
UnLock(w) ==
    /\ pc[w] = "unlock"
    /\ locked' = [locked EXCEPT ![ProcessOf[w]] = @ \ From(end - len[w])]
    /\ Goto(w, "idle")
    /\ UNCHANGED <<end, start, len>>

\* p waits for a lock of q.
WaitsFor(p, q) == \E w \in Writers : ProcessOf[w] = p /\ pc[w] = "lock" /\ Blocks(q, w)

\* Processes each of which waits for another one of them.
Cycle(S) == S # {} /\ \A p \in S : \E q \in S : WaitsFor(p, q)

End(p) ==
    /\ pc' = [w \in Writers |-> IF ProcessOf[w] = p THEN "gone" ELSE pc[w]]
    /\ locked' = [locked EXCEPT ![p] = {}]
    /\ UNCHANGED <<end, start, len>>

\* A process ends, at any step of its threads; the kernel drops its locks.
Exit(p) == (\E w \in Writers : ProcessOf[w] = p /\ pc[w] # "gone") /\ End(p)

\* fcntl fails with EDEADLK, and DoWriteLog ends the process.  To the kernel the
\* threads of a process are one owner of locks, and a circle of owners is a
\* deadlock even if one of them has a thread that could go on.
SetLockFails(w) ==
    /\ pc[w] = "lock"
    /\ \E S \in SUBSET Processes :
          ProcessOf[w] \in S /\ Cycle(S) /\ \E q \in S : Blocks(q, w)
    /\ End(ProcessOf[w])

DoWriteLog(w) == SetLock(w) \/ SetLockFails(w) \/ Write(w) \/ UnLock(w)

Next == (\E w \in Writers : WriteLog(w) \/ DoWriteLog(w)) \/ \E p \in Processes : Exit(p)

Spec == Init /\ [][Next]_vars

-----------------------------------------------------------------------------
(***************************************************************************)
(* Properties                                                              *)
(***************************************************************************)
TypeOK ==
    /\ end \in Nat /\ end + Cardinality(Busy) * MaxLen <= MaxEnd
    /\ locked \in [Processes -> SUBSET Bytes]
    /\ pc \in [Writers -> {"idle", "lock", "write", "unlock", "gone"}]
    /\ start \in [Writers -> Bytes]
    /\ len \in [Writers -> 0 .. MaxLen]

\* The processes that log from one thread.
Single == {p \in Processes :
              \A v, w \in Writers : ProcessOf[v] = p /\ ProcessOf[w] = p => v = w}

Inside == {w \in Writers : pc[w] \in {"write", "unlock"}}

\* The lock does what it is for, between processes that log from one thread:
\* while one of them writes its line, and until it has unlocked, no other one
\* writes, although each has locked from where it saw the end.
OneWriter ==
    \A v, w \in Inside : ProcessOf[v] \in Single /\ ProcessOf[w] \in Single => v = w

\* Whatever stays locked, such processes never wait for each other in a circle:
\* who calls later asks for a range further back than all it keeps.  In a circle
\* for which fcntl returns EDEADLK, and DoWriteLog ends the process, there is
\* always a process that logs from several threads.
WaitsAreAcyclic == \A S \in SUBSET Single : ~Cycle(S)

\* What a process has locked while none of its threads writes.
LeftBy(p) == IF \E w \in Inside : ProcessOf[w] = p THEN {} ELSE locked[p]

\* xty_log.cpp:141: "unlock-bytes-field: (from old 'SEEK_END' to new 'SEEK_END')":
\* a process that is not in DoWriteLog has nothing locked.
NothingStaysLocked == \A p \in Processes : LeftBy(p) = {}
=============================================================================
