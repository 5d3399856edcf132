--------------------------- MODULE SessionProofs ---------------------------
(***************************************************************************)
(* What is true of a session with any number of entities of both kinds,    *)
(* any socket buffer and any number of messages, whatever step of its      *)
(* three threads SIGQUIT and SIGINT come at, and whenever the server       *)
(* closes the connection; and of the bytes that it sends and reads.        *)
(***************************************************************************)
EXTENDS Session, Codec, SequenceTheorems, FiniteSetTheorems, WellFoundedInduction, TLAPS

-----------------------------------------------------------------------------
(***************************************************************************)
(* Lists of numbers, in which Rest counts for nothing                      *)
(***************************************************************************)
Ordered(s) == \A i, j \in DOMAIN s : i < j /\ s[j] # Rest => s[i] < s[j]
Below(P, Q) == \A p \in P, q \in Q : q # Rest => p < q

\* A list of one element, or of none.
LEMMA ShortLists ==
    ASSUME NEW S, NEW e \in S
    PROVE  /\ <<e>> \in Seq(S) /\ Range(<<e>>) = {e} /\ Len(<<e>>) = 1
           /\ IsInjective(<<e>>) /\ Ordered(<<e>>)
           /\ << >> \in Seq(S) /\ Range(<< >>) = {} /\ Len(<< >>) = 0
           /\ IsInjective(<< >>) /\ Ordered(<< >>)
BY DEF Range, IsInjective, Ordered

\* A list with one element more at its end.
LEMMA AppendedList ==
    ASSUME NEW S, NEW s \in Seq(S), NEW e \in S
    PROVE  /\ Append(s, e) \in Seq(S) /\ Len(Append(s, e)) = Len(s) + 1
           /\ Range(Append(s, e)) = Range(s) \union {e}
           /\ IsInjective(s) /\ e \notin Range(s) => IsInjective(Append(s, e))
           /\ Ordered(s) /\ Below(Range(s), {e}) => Ordered(Append(s, e))
<1> DEFINE t == Append(s, e)
<1>1. /\ t \in Seq(S) /\ Len(t) = Len(s) + 1 /\ t[Len(s) + 1] = e
      /\ \A i \in 1 .. Len(s) : t[i] = s[i]
  BY AppendProperties
<1>2. Len(s) \in Nat /\ DOMAIN s = 1 .. Len(s) /\ DOMAIN t = 1 .. Len(s) + 1
  BY <1>1, LenProperties
<1> HIDE DEF t
<1>3. \A i \in DOMAIN t : i \in DOMAIN s \/ (i = Len(s) + 1 /\ i \notin DOMAIN s)
  BY <1>2
<1>4. Range(t) = Range(s) \union {e}
  BY <1>1, <1>2, <1>3 DEF Range
<1>5. IsInjective(s) /\ e \notin Range(s) => IsInjective(t)
  BY <1>1, <1>2, <1>3 DEF Range, IsInjective
<1>6. ASSUME Ordered(s), Below(Range(s), {e}), NEW i \in DOMAIN t, NEW j \in DOMAIN t,
             i < j, t[j] # Rest
      PROVE  t[i] < t[j]
  <2>1. i \in DOMAIN s /\ t[i] = s[i] /\ s[i] \in Range(s)
    BY <1>1, <1>2, <1>6 DEF Range
  <2>2. CASE j \in DOMAIN s
    BY <1>1, <1>2, <1>6, <2>1, <2>2 DEF Ordered
  <2>3. CASE j = Len(s) + 1
    BY <1>1, <1>6, <2>1, <2>3 DEF Below
  <2>. QED BY <1>3, <2>2, <2>3
<1>7. Ordered(s) /\ Below(Range(s), {e}) => Ordered(t)
  BY <1>6 DEF Ordered
<1>. QED BY <1>1, <1>4, <1>5, <1>7 DEF t

\* A list whose head was taken.
LEMMA TakenList ==
    ASSUME NEW S, NEW s \in Seq(S), s # << >>
    PROVE  /\ Head(s) \in S /\ Tail(s) \in Seq(S) /\ Len(s) = Len(Tail(s)) + 1
           /\ Range(s) = {Head(s)} \union Range(Tail(s))
           /\ IsInjective(s) => IsInjective(Tail(s)) /\ Head(s) \notin Range(Tail(s))
           /\ Ordered(s) => Ordered(Tail(s)) /\ Below({Head(s)}, Range(Tail(s)))
<1> DEFINE t == Tail(s)
           h == Head(s)
<1>1. /\ h \in S /\ h = s[1] /\ t \in Seq(S) /\ Len(t) = Len(s) - 1
      /\ \A i \in 1 .. Len(t) : t[i] = s[i + 1]
  BY HeadTailProperties
<1>2. Len(s) \in Nat \ {0} /\ DOMAIN s = 1 .. Len(s) /\ DOMAIN t = 1 .. Len(s) - 1
  BY <1>1, LenProperties, EmptySeq
<1> HIDE DEF t, h
<1>3. \A i \in DOMAIN t : i + 1 \in DOMAIN s /\ t[i] = s[i + 1] /\ i + 1 # 1
  BY <1>1, <1>2
<1>4. \A i \in DOMAIN s : i = 1 \/ (i - 1 \in DOMAIN t /\ t[i - 1] = s[i])
  BY <1>1, <1>2
<1>5. 1 \in DOMAIN s /\ \A i, j \in DOMAIN t : (i + 1 = j + 1 => i = j) /\ (i < j => i + 1 < j + 1)
  BY <1>2
<1>6. Range(s) = {h} \union Range(t)
  <2>1. Range(t) \subseteq Range(s) /\ h \in Range(s)
    BY <1>1, <1>3, <1>5 DEF Range
  <2>2. Range(s) \subseteq {h} \union Range(t)
    BY <1>1, <1>4 DEF Range
  <2>. QED BY <2>1, <2>2
<1>7. IsInjective(s) => IsInjective(t) /\ h \notin Range(t)
  BY <1>1, <1>3, <1>5 DEF Range, IsInjective
<1>8. ASSUME Ordered(s) PROVE Ordered(t) /\ Below({h}, Range(t))
  <2>1. Ordered(t)
    BY <1>3, <1>5, <1>8 DEF Ordered
  <2>2. \A i \in DOMAIN t : 1 < i + 1
    BY <1>2
  <2>3. Below({h}, Range(t))
    BY <1>1, <1>3, <1>5, <1>8, <2>2 DEF Ordered, Below, Range
  <2>. QED BY <2>1, <2>3
<1>. QED BY <1>1, <1>2, <1>6, <1>7, <1>8 DEF t, h

\* Two lists, one behind the other.
LEMMA JoinedLists ==
    ASSUME NEW S, NEW s \in Seq(S), NEW t \in Seq(S)
    PROVE  /\ s \o t \in Seq(S) /\ Len(s \o t) = Len(s) + Len(t)
           /\ Range(s \o t) = Range(s) \union Range(t)
           /\ IsInjective(s) /\ IsInjective(t) /\ Range(s) \intersect Range(t) = {}
                  => IsInjective(s \o t)
           /\ Ordered(s) /\ Ordered(t) /\ Below(Range(s), Range(t)) => Ordered(s \o t)
<1> DEFINE u == s \o t
<1>1. /\ u \in Seq(S) /\ Len(u) = Len(s) + Len(t)
      /\ \A i \in 1 .. Len(s) + Len(t) : u[i] = IF i <= Len(s) THEN s[i] ELSE t[i - Len(s)]
  BY ConcatProperties
<1>2. /\ Len(s) \in Nat /\ Len(t) \in Nat
      /\ DOMAIN s = 1 .. Len(s) /\ DOMAIN t = 1 .. Len(t) /\ DOMAIN u = 1 .. Len(s) + Len(t)
  BY <1>1, LenProperties
<1>3. Range(u) = Range(s) \union Range(t)
  BY RangeConcatenation
<1> HIDE DEF u
<1>4. \A i \in DOMAIN u :
          \/ i \in DOMAIN s /\ u[i] = s[i] /\ u[i] \in Range(s)
          \/ /\ i \notin DOMAIN s /\ i - Len(s) \in DOMAIN t
             /\ u[i] = t[i - Len(s)] /\ u[i] \in Range(t)
  BY <1>1, <1>2 DEF Range
<1>5. \A i, j \in DOMAIN u :
          /\ i - Len(s) = j - Len(s) => i = j
          /\ i < j => i - Len(s) < j - Len(s)
          /\ i < j /\ j \in DOMAIN s => i \in DOMAIN s
  BY <1>2
<1>6. IsInjective(s) /\ IsInjective(t) /\ Range(s) \intersect Range(t) = {} => IsInjective(u)
  BY <1>4, <1>5 DEF IsInjective
<1>7. ASSUME Ordered(s), Ordered(t), Below(Range(s), Range(t)),
             NEW i \in DOMAIN u, NEW j \in DOMAIN u, i < j, u[j] # Rest
      PROVE  u[i] < u[j]
  <2>1. CASE j \in DOMAIN s
    BY <1>4, <1>5, <1>7, <2>1 DEF Ordered
  <2>2. CASE i \notin DOMAIN s
    BY <1>4, <1>5, <1>7, <2>2 DEF Ordered
  <2>3. CASE i \in DOMAIN s /\ j \notin DOMAIN s
    BY <1>4, <1>7, <2>3 DEF Below
  <2>. QED BY <2>1, <2>2, <2>3
<1>8. Ordered(s) /\ Ordered(t) /\ Below(Range(s), Range(t)) => Ordered(u)
  BY <1>7 DEF Ordered
<1>. QED BY <1>1, <1>3, <1>6, <1>8 DEF u

\* What a receive leaves of the stream.
LEMMA RestOfList ==
    ASSUME NEW S, NEW s \in Seq(S), NEW k \in 1 .. Len(s)
    PROVE  /\ s # << >> /\ Head(s) \in S /\ Head(s) \in Range(s)
           /\ SubSeq(s, k + 1, Len(s)) \in Seq(S)
           /\ k = 1 => Len(s) = Len(SubSeq(s, k + 1, Len(s))) + 1
           /\ Range(SubSeq(s, k + 1, Len(s))) \subseteq Range(s)
           /\ Ordered(s) => /\ Ordered(SubSeq(s, k + 1, Len(s)))
                            /\ Below({Head(s)}, Range(SubSeq(s, k + 1, Len(s))))
<1> DEFINE t == SubSeq(s, k + 1, Len(s))
           h == Head(s)
<1>1. Len(s) \in Nat /\ DOMAIN s = 1 .. Len(s) /\ k \in 1 .. Len(s) /\ s # << >>
  BY LenProperties
<1>2. h \in S /\ h = s[1] /\ 1 \in DOMAIN s
  BY <1>1, HeadTailProperties
<1>3. /\ t \in Seq(S) /\ Len(t) = Len(s) - k
      /\ \A i \in 1 .. Len(s) - k : t[i] = s[k + i]
  <2>1. /\ k + 1 \in 1 .. Len(s) + 1 /\ Len(s) \in k + 1 - 1 .. Len(s)
        /\ Len(s) - (k + 1) + 1 = Len(s) - k
        /\ \A i \in 1 .. Len(s) - k : (k + 1) + i - 1 = k + i
    BY <1>1
  <2>2. /\ t \in Seq(S)
        /\ Len(t) = IF k + 1 <= Len(s) THEN Len(s) - (k + 1) + 1 ELSE 0
        /\ \A i \in 1 .. Len(s) - (k + 1) + 1 : t[i] = s[(k + 1) + i - 1]
    BY <1>1, <2>1, SubSeqProperties
  <2> HIDE DEF t
  <2>3. k \in Int /\ Len(s) \in Int /\ k <= Len(s)
    BY <1>1
  <2>4. Len(t) = Len(s) - k
    BY <2>2, <2>3
  <2>5. \A i \in 1 .. Len(s) - k : t[i] = s[k + i]
    BY <2>1, <2>2
  <2>. QED BY <2>2, <2>4, <2>5
<1>4. DOMAIN t = 1 .. Len(s) - k
  BY <1>3, LenProperties
<1> HIDE DEF t, h
<1>5. \A i \in DOMAIN t : k + i \in DOMAIN s /\ 1 < k + i /\ t[i] = s[k + i]
  BY <1>1, <1>3, <1>4
<1>6. \A i, j \in DOMAIN t : i < j => k + i < k + j
  BY <1>1, <1>4
<1>7. Range(t) \subseteq Range(s) /\ h \in Range(s)
  BY <1>2, <1>5 DEF Range
<1>8. ASSUME Ordered(s) PROVE Ordered(t) /\ Below({h}, Range(t))
  BY <1>2, <1>5, <1>6, <1>8 DEF Ordered, Below, Range
<1>9. k = 1 => Len(s) = Len(t) + 1
  BY <1>1, <1>3
<1>. QED BY <1>1, <1>2, <1>3, <1>7, <1>8, <1>9 DEF t, h

\* An operation that looks for a free entity finds one.
LEMMA FirstIsMember ==
    ASSUME NEW S, S \subseteq Nat, S # {}
    PROVE  First(S) \in S
<1>1. PICK x \in S : \A y \in S : ~(<<y, x>> \in OpToRel(<, Nat))
  BY NatLessThanWellFounded, WFMin
<1>2. \A y \in S : y \in Nat /\ ~(y < x)
  BY <1>1 DEF OpToRel
<1>3. \E e \in S : \A d \in S : e <= d
  BY <1>2
<1>. QED BY <1>3 DEF First

-----------------------------------------------------------------------------
(***************************************************************************)
(* Types                                                                   *)
(***************************************************************************)
MainSteps == Writing \union Leaving
                 \union {"acquire", "idle", "pop", "copy", "free", "quitSend", "ended"}
SendSteps == Writing \union {"born", "pop", "acquire", "dead"}
RecvSteps == {"born", "read", "deserialize", "push", "dead"}
Slots == 1 .. Buffers

ProcessTypes ==
    /\ pc \in [Threads -> MainSteps \union SendSteps \union RecvSteps]
    /\ pc["main"] \in MainSteps /\ pc["send"] \in SendSteps /\ pc["recv"] \in RecvSteps
    /\ handler \in BOOLEAN /\ up \in BOOLEAN
    /\ interrupted \in {"no", "writing", "leaving", "other"} /\ pending \subseteq {"send", "recv"}

\* A writer that has an entity has one that is marked, and no other writer has it; the
\* one that is to mark an entity has the mutex, so that it finds the entity it waited for.
Owns(u) == pc[u] \in {"fill", "write", "release", "unmark"}

WriterTypes ==
    /\ msg \in [Writers -> Message] /\ buffer \in [Slots -> Message]
    /\ entity \in [Writers -> 0 .. Buffers] /\ occupied \subseteq Slots
    /\ lock \in Writers \union {"none"}
    /\ \A u \in Writers :
           /\ pc[u] \in {"mark", "unmark"} => lock = u
           /\ pc[u] = "mark" => occupied # Slots
           /\ Owns(u) => entity[u] \in occupied
    /\ Owns("main") /\ Owns("send") => entity["main"] # entity["send"]

OutTypes ==
    /\ sendQueue \in Seq(Message) /\ sent \in 0 .. MaxSend
    /\ wire \in Seq(Message) /\ unread \in 0 .. SockBuf
    /\ server \in {"open", "closed"}

InTypes ==
    /\ served \in 0 .. MaxServe
    /\ stream \in Seq(0 .. MaxServe) /\ mixed \in 0 .. MaxMixed
    /\ content \in [1 .. Entities -> 0 .. MaxServe] /\ lent \subseteq 1 .. Entities
    /\ hand \in [main : 0 .. Entities, recv : 0 .. Entities, read : 0 .. MaxServe]
    /\ pc["main"] \in {"copy", "free"} => hand.main \in 1 .. Entities
    /\ pc["recv"] = "push" => hand.recv \in 1 .. Entities
    /\ recvQueue \in Seq(1 .. Entities) /\ got \in Seq(0 .. MaxServe)

TypeInv == ProcessTypes /\ WriterTypes /\ OutTypes /\ InTypes

LEMMA TypeInit == Init => TypeInv
<1> SUFFICES ASSUME Init PROVE TypeInv
  OBVIOUS
<1>1. /\ pc["main"] = "acquire" /\ pc["send"] = "born" /\ pc["recv"] = "born"
      /\ pc \in [Threads -> MainSteps \union SendSteps \union RecvSteps]
  BY DEF Init, Threads, MainSteps, SendSteps, RecvSteps
<1>2. ProcessTypes
  BY <1>1 DEF Init, ProcessTypes, MainSteps, SendSteps, RecvSteps
<1>3. WriterTypes
  <2>1. Reg \in Message /\ 0 \in 0 .. Buffers
    BY SessionAssumption DEF Message
  <2>2. \A u \in Writers : pc[u] \in {"acquire", "born"}
    BY <1>1 DEF Writers
  <2>. QED BY <1>1, <2>1, <2>2 DEF Init, WriterTypes, Slots, Owns
<1>4. OutTypes /\ InTypes
  BY <1>1, SessionAssumption DEF Init, OutTypes, InTypes
<1>. QED BY <1>2, <1>3, <1>4 DEF TypeInv

\* Where a step of a thread takes it; the other two stay where they are.
LEMMA Moved ==
    ASSUME TypeInv, NEW t \in Threads, NEW a, NEW b, Goto(t, a, b),
           t = "main" => b \in MainSteps, t = "send" => b \in SendSteps,
           t = "recv" => b \in RecvSteps
    PROVE  /\ up /\ pc[t] = a /\ pc'[t] = b
           /\ \A o \in Threads \ {t} : pc'[o] = pc[o]
           /\ pc' \in [Threads -> MainSteps \union SendSteps \union RecvSteps]
           /\ pc'["main"] \in MainSteps /\ pc'["send"] \in SendSteps /\ pc'["recv"] \in RecvSteps
BY DEF Goto, TypeInv, ProcessTypes, Threads

LEMMA ProcessTypesNext == TypeInv /\ [Next]_vars => ProcessTypes'
<1> SUFFICES ASSUME TypeInv, [Next]_vars PROVE ProcessTypes'
  OBVIOUS
<1> USE DEF ProcessTypes, Threads
<1>1. ASSUME NEW t \in Threads, NEW a, NEW b, Goto(t, a, b), UNCHANGED calm,
             t = "main" => b \in MainSteps, t = "send" => b \in SendSteps,
             t = "recv" => b \in RecvSteps
      PROVE  ProcessTypes'
  BY <1>1, Moved DEF calm, TypeInv
<1>2. ASSUME UNCHANGED <<pc, handler, pending, interrupted>>, up' \in BOOLEAN PROVE ProcessTypes'
  BY <1>2 DEF TypeInv
<1>3. ASSUME NEW u \in Writers, WriterStep(u) PROVE ProcessTypes'
  <2>1. u = "main" \/ u = "send"
    BY DEF Writers
  <2>2. CASE Acquire(u)
    BY <1>1, <2>1, <2>2 DEF Acquire, MainSteps, SendSteps, Writing
  <2>3. CASE Mark(u)
    BY <1>1, <2>1, <2>3 DEF Mark, MainSteps, SendSteps, Writing
  <2>4. CASE Fill(u)
    BY <1>1, <2>1, <2>4 DEF Fill, MainSteps, SendSteps, Writing
  <2>5. CASE Write(u)
    <3>1. Goto(u, "write", "release") /\ up' \in BOOLEAN
          /\ UNCHANGED <<handler, pending, interrupted>>
      BY <2>5 DEF Write, TypeInv
    <3>2. "release" \in MainSteps /\ "release" \in SendSteps
      BY DEF MainSteps, SendSteps, Writing
    <3>. QED BY <2>1, <3>1, <3>2, Moved DEF TypeInv
  <2>6. CASE Release(u)
    BY <1>1, <2>1, <2>6 DEF Release, MainSteps, SendSteps, Writing
  <2>7. CASE UnMark(u)
    <3> DEFINE b == IF u = "send" THEN "pop" ELSE IF msg[u] = Reg THEN "idle" ELSE "quitSend"
    <3>1. (u = "main" => b \in MainSteps) /\ (u = "send" => b \in SendSteps)
      BY <2>1 DEF MainSteps, SendSteps
    <3>2. Goto(u, "unmark", b) /\ UNCHANGED calm
      BY <2>7 DEF UnMark
    <3> HIDE DEF b
    <3>. QED BY <1>1, <2>1, <3>1, <3>2
  <2>. QED BY <1>3, <2>2, <2>3, <2>4, <2>5, <2>6, <2>7 DEF WriterStep
<1>4. CASE MainStep
  <2>1. CASE Pop \/ Copy \/ Free
    BY <1>1, <2>1 DEF Pop, Copy, Free, MainSteps
  <2>2. ASSUME NEW t \in {"send", "recv"}, NEW a, NEW b \in MainSteps, QuitNoDelay(t, a, b)
        PROVE  ProcessTypes'
    BY <2>2 DEF QuitNoDelay, TypeInv
  <2>3. ASSUME NEW t \in {"send", "recv"}, NEW a, NEW b \in MainSteps, Join(t, a, b)
        PROVE  ProcessTypes'
    BY <1>1, <2>3 DEF Join
  <2>4. {"joinSend", "joinRecv", "quitRecv", "cleanUp"} \subseteq MainSteps
    BY DEF MainSteps, Leaving
  <2>5. CASE CleanUp \/ Forget
    BY <1>1, <2>5 DEF CleanUp, Forget, MainSteps, Leaving
  <2>6. CASE FillThrows("main")
    BY <1>2, <2>6 DEF FillThrows
  <2>. QED BY <1>3, <1>4, <2>1, <2>2, <2>3, <2>4, <2>5, <2>6 DEF MainStep, Writers
<1>5. CASE SendStep
  <2>1. CASE Install("send")
    BY <2>1, Moved DEF Install, SendSteps, TypeInv
  <2>2. CASE SendPop
    BY <1>1, <2>2 DEF SendPop, SendSteps
  <2>3. CASE FillThrows("send")
    BY <1>2, <2>3 DEF FillThrows
  <2>. QED BY <1>3, <1>5, <2>1, <2>2, <2>3 DEF SendStep, Writers
<1>6. CASE RecvStep
  <2>1. CASE Install("recv")
    BY <2>1, Moved DEF Install, RecvSteps, TypeInv
  <2>2. CASE RecvBytes
    <3>1. UNCHANGED calm /\ \E b \in {"deserialize", "read"} : Goto("recv", "read", b)
      BY <2>2 DEF RecvBytes, Goto
    <3>. QED BY <1>1, <3>1 DEF RecvSteps
  <2>3. CASE RecvDeSerialize \/ RecvPush
    BY <1>1, <2>3 DEF RecvDeSerialize, RecvPush, RecvSteps
  <2>. QED BY <1>6, <2>1, <2>2, <2>3 DEF RecvStep
<1>7. ASSUME NEW t \in {"send", "recv"}, Die(t) PROVE ProcessTypes'
  BY <1>7 DEF Die, TypeInv, SendSteps, RecvSteps
<1>8. CASE Call
  BY <1>1, <1>8 DEF Call, SendMsg, RecvMsg, Exit, MainSteps
<1>9. CASE Interrupt
  <2>1. interrupted' \in {"no", "writing", "leaving", "other"}
    BY <1>9 DEF Interrupt
  <2>2. "acquire" \in MainSteps
    BY DEF MainSteps
  <2>. QED BY <1>9, <2>1, <2>2 DEF Interrupt, TypeInv
<1>10. CASE Server \/ UNCHANGED vars
  BY <1>2, <1>10 DEF Server, ServerRead, ServerSend, ServerClose, processVars, vars, TypeInv
<1>. QED BY <1>4, <1>5, <1>6, <1>7, <1>8, <1>9, <1>10 DEF Next

\* The steps that are not those of Register, DeRegister and the send thread's writing
\* leave the serializer alone, and begin no writing.
LEMMA NotWriting ==
    ASSUME TypeInv, [Next]_vars, \A u \in Writers : ~WriterStep(u)
    PROVE  /\ UNCHANGED <<buffer, entity, occupied, lock>>
           /\ \A u \in Writers : pc'[u] = pc[u] \/ pc'[u] \notin Writing
<1> USE DEF TypeInv, ProcessTypes, Threads, Writers, Writing, serializerVars
<1>1. CASE MainStep
  <2>1. CASE Pop \/ Copy \/ Free
    BY <2>1 DEF Pop, Copy, Free, Goto
  <2>2. CASE \/ QuitNoDelay("send", "quitSend", "joinSend") \/ Join("send", "joinSend", "quitRecv")
             \/ QuitNoDelay("recv", "quitRecv", "joinRecv") \/ Join("recv", "joinRecv", "cleanUp")
    BY <2>2 DEF QuitNoDelay, Join, Goto
  <2>3. CASE CleanUp \/ Forget
    BY <2>3 DEF CleanUp, Forget, Goto
  <2>4. CASE FillThrows("main")
    BY <2>4 DEF FillThrows
  <2>. QED BY <1>1, <2>1, <2>2, <2>3, <2>4 DEF MainStep
<1>2. CASE SendStep
  BY <1>2 DEF SendStep, Install, SendPop, FillThrows, Goto
<1>3. CASE RecvStep
  <2>1. /\ UNCHANGED serializerVars
        /\ \E a, b : Goto("recv", a, b)
    BY <1>3 DEF RecvStep, Install, RecvBytes, RecvDeSerialize, RecvPush, Goto
  <2>. QED BY <2>1 DEF Goto
<1>4. ASSUME NEW t \in {"send", "recv"}, Die(t)
      PROVE  /\ UNCHANGED <<buffer, entity, occupied, lock>>
             /\ \A u \in Writers : pc'[u] = pc[u] \/ pc'[u] \notin Writing
  BY <1>4 DEF Die
<1>5. CASE Call
  BY <1>5 DEF Call, SendMsg, RecvMsg, Exit, Goto
<1>6. CASE Interrupt
  BY <1>6 DEF Interrupt
<1>7. CASE Server \/ UNCHANGED vars
  BY <1>7 DEF Server, ServerRead, ServerSend, ServerClose, processVars, vars
<1>. QED BY <1>1, <1>2, <1>3, <1>4, <1>5, <1>6, <1>7 DEF Next

\* The mutex keeps the writers apart where they look for an entity; what one of them
\* has marked, the other does not find.
LEMMA WriterTypesNext == TypeInv /\ [Next]_vars => WriterTypes'
<1> SUFFICES ASSUME TypeInv, [Next]_vars PROVE WriterTypes'
  OBVIOUS
<1> USE DEF TypeInv, ProcessTypes, WriterTypes, Threads
<1>1. msg' \in [Writers -> Message]
  <2>1. CASE SendPop
    <3>1. Head(sendQueue) \in Message
      BY <2>1 DEF SendPop, OutTypes
    <3>. QED BY <2>1, <3>1 DEF SendPop
  <2>2. CASE Exit \/ Interrupt
    <3>1. DeReg \in Message
      BY DEF Message
    <3>. QED BY <2>2, <3>1 DEF Exit, Interrupt
  <2>3. CASE ~SendPop /\ ~Exit /\ ~Interrupt
    <3>1. UNCHANGED msg
      BY <2>3 DEF Next, MainStep, SendStep, RecvStep, WriterStep, Acquire, Mark, Fill, Write, Release,
                  UnMark, Pop, Copy, Free, QuitNoDelay, Join, CleanUp, Forget, Install, FillThrows,
                  RecvBytes, RecvDeSerialize, RecvPush, Die, Call, SendMsg, RecvMsg, Server, ServerRead,
                  ServerSend, ServerClose, serializerVars, vars
    <3>. QED BY <3>1
  <2>. QED BY <2>1, <2>2, <2>3
<1>2. CASE \A u \in Writers : ~WriterStep(u)
  <2>1. /\ UNCHANGED <<buffer, entity, occupied, lock>>
        /\ \A u \in Writers : pc'[u] = pc[u] \/ pc'[u] \notin Writing
    BY <1>2, NotWriting
  <2>2. \A u \in Writers : /\ Owns(u)' => Owns(u)
                           /\ pc'[u] \in {"mark", "unmark"} => pc[u] = pc'[u]
    BY <2>1 DEF Owns, Writing
  <2>. QED BY <1>1, <2>1, <2>2 DEF Writers
<1>3. ASSUME NEW u \in Writers, WriterStep(u) PROVE WriterTypes'
  <2>1. u \in Threads /\ Writers = {"main", "send"} /\ \A o \in Writers : o \in Threads
    BY DEF Writers
  <2>2. CASE Acquire(u)
    <3>1. /\ pc'[u] = "mark" /\ \A o \in Writers \ {u} : pc'[o] = pc[o]
          /\ lock = "none" /\ lock' = u /\ occupied # Slots /\ UNCHANGED <<buffer, entity, occupied>>
      BY <2>1, <2>2 DEF Acquire, Goto, Slots
    <3>2. \A o \in Writers : /\ Owns(o)' => Owns(o)
                             /\ pc'[o] \in {"mark", "unmark"} => o = u
      BY <2>1, <3>1 DEF Owns
    <3>. QED BY <1>1, <2>1, <3>1, <3>2
  <2>3. CASE Mark(u)
    <3> DEFINE b == First(Slots \ occupied)
    <3>1. /\ pc[u] = "mark" /\ pc'[u] = "fill" /\ \A o \in Writers \ {u} : pc'[o] = pc[o]
          /\ entity' = [entity EXCEPT ![u] = b] /\ occupied' = occupied \union {b}
          /\ lock' = "none" /\ UNCHANGED buffer
      BY <2>1, <2>3 DEF Mark, Goto, Slots
    <3>2. b \in Slots /\ b \notin occupied
      <4>1. Slots \subseteq Nat
        BY SessionAssumption DEF Slots
      <4>2. occupied \subseteq Slots /\ occupied # Slots
        BY <3>1
      <4>3. Slots \ occupied \subseteq Nat /\ Slots \ occupied # {}
        BY <4>1, <4>2
      <4>. QED BY <4>3, FirstIsMember
    <3> HIDE DEF b
    <3>3. b \in 0 .. Buffers
      BY <3>2, SessionAssumption DEF Slots
    <3>4. \A o \in Writers \ {u} : entity'[o] = entity[o]
      BY <3>1
    <3>5. entity'[u] = b
      BY <3>1
    <3>6. \A o \in Writers \ {u} : /\ Owns(o)' <=> Owns(o)
                                   /\ pc'[o] \notin {"mark", "unmark"}
      BY <3>1 DEF Owns
    <3>7. \A o \in Writers : Owns(o)' => entity'[o] \in occupied'
      BY <3>1, <3>4, <3>5, <3>6
    <3>8. Owns("main")' /\ Owns("send")' => entity'["main"] # entity'["send"]
      BY <2>1, <3>2, <3>4, <3>5, <3>6
    <3>. QED BY <1>1, <3>1, <3>2, <3>3, <3>6, <3>7, <3>8
  <2>4. CASE Fill(u) \/ Write(u)
    <3>1. /\ Owns(u) /\ pc'[u] \in {"write", "release"} /\ \A o \in Writers \ {u} : pc'[o] = pc[o]
          /\ UNCHANGED <<entity, occupied, lock>>
      BY <2>1, <2>4 DEF Fill, Write, Goto, Owns, serializerVars
    <3>2. buffer' \in [Slots -> Message]
      <4>1. CASE Fill(u)
        BY <4>1 DEF Fill
      <4>2. CASE Write(u)
        BY <4>2 DEF Write, serializerVars
      <4>. QED BY <2>4, <4>1, <4>2
    <3>3. \A o \in Writers : /\ Owns(o)' <=> Owns(o)
                             /\ pc'[o] \in {"mark", "unmark"} => pc[o] = pc'[o]
      BY <3>1 DEF Owns
    <3>. QED BY <1>1, <2>1, <3>1, <3>2, <3>3
  <2>5. CASE Release(u)
    <3>1. /\ pc[u] = "release" /\ pc'[u] = "unmark" /\ \A o \in Writers \ {u} : pc'[o] = pc[o]
          /\ lock = "none" /\ lock' = u /\ UNCHANGED <<buffer, entity, occupied>>
      BY <2>1, <2>5 DEF Release, Goto
    <3>2. \A o \in Writers : /\ Owns(o)' <=> Owns(o)
                             /\ pc'[o] \in {"mark", "unmark"} => o = u
      BY <2>1, <3>1 DEF Owns
    <3>. QED BY <1>1, <2>1, <3>1, <3>2
  <2>6. CASE UnMark(u)
    <3>1. /\ pc[u] = "unmark" /\ pc'[u] \in {"pop", "idle", "quitSend"}
          /\ \A o \in Writers \ {u} : pc'[o] = pc[o]
          /\ occupied' = occupied \ {entity[u]} /\ lock' = "none" /\ UNCHANGED <<buffer, entity>>
      BY <2>1, <2>6 DEF UnMark, Goto
    <3>2. ~Owns(u)' /\ Owns(u) /\ pc'[u] \notin {"mark", "unmark"}
      BY <3>1 DEF Owns
    <3>3. \A o \in Writers \ {u} : /\ Owns(o)' <=> Owns(o)
                                   /\ pc'[o] \notin {"mark", "unmark"}
      BY <3>1 DEF Owns
    <3>4. \A o \in Writers : Owns(o)' => entity'[o] \in occupied'
      BY <2>1, <3>1, <3>2, <3>3
    <3>. QED BY <1>1, <2>1, <3>1, <3>2, <3>3, <3>4
  <2>. QED BY <1>3, <2>2, <2>3, <2>4, <2>5, <2>6 DEF WriterStep
<1>. QED BY <1>2, <1>3

LEMMA OutTypesNext == TypeInv /\ [Next]_vars => OutTypes'
<1> SUFFICES ASSUME TypeInv, [Next]_vars PROVE OutTypes'
  OBVIOUS
<1> USE DEF TypeInv, OutTypes
<1>1. CASE UNCHANGED outVars
  BY <1>1 DEF outVars
<1>2. CASE SendPop
  <2>1. Tail(sendQueue) \in Seq(Message)
    BY <1>2 DEF SendPop
  <2>. QED BY <1>2, <2>1 DEF SendPop
<1>3. ASSUME NEW u \in Writers, Write(u) PROVE OutTypes'
  <2>1. UNCHANGED <<wire, unread>> \/ (unread < SockBuf /\ unread' = unread + 1
                                        /\ wire' = Append(wire, buffer[entity[u]]))
    BY <1>3 DEF Write
  <2>2. buffer[entity[u]] \in Message
    BY <1>3 DEF Write, Goto, WriterTypes, Owns
  <2>3. Append(wire, buffer[entity[u]]) \in Seq(Message)
    BY <2>2
  <2>4. unread < SockBuf => unread + 1 \in 0 .. SockBuf
    BY SessionAssumption
  <2>. QED BY <1>3, <2>1, <2>3, <2>4 DEF Write
<1>4. CASE SendMsg
  <2>1. sent + 1 \in 1 .. MaxSend /\ sent + 1 \in 0 .. MaxSend
    BY <1>4, SessionAssumption DEF SendMsg
  <2>2. Data(sent + 1) \in Message
    BY <2>1 DEF Message
  <2>3. Append(sendQueue, Data(sent + 1)) \in Seq(Message)
    BY <2>2
  <2>. QED BY <1>4, <2>1, <2>3 DEF SendMsg
<1>5. CASE ServerRead
  <2>1. unread - 1 \in 0 .. SockBuf
    BY <1>5, SessionAssumption DEF ServerRead
  <2>. QED BY <1>5, <2>1 DEF ServerRead
<1>6. CASE ServerClose
  BY <1>6 DEF ServerClose
<1>7. CASE ~SendPop /\ ~SendMsg /\ ~ServerRead /\ ~ServerClose /\ \A u \in Writers : ~Write(u)
  <2>1. UNCHANGED outVars
    BY <1>7 DEF Next, MainStep, SendStep, RecvStep, WriterStep, Acquire, Mark, Fill, Release, UnMark,
                Pop, Copy, Free, QuitNoDelay, Join, CleanUp, Forget, Install, FillThrows, RecvBytes,
                RecvDeSerialize, RecvPush, Die, Call, RecvMsg, Exit, Interrupt, Server, ServerSend,
                Writers, vars
  <2>. QED BY <1>1, <2>1
<1>. QED BY <1>2, <1>3, <1>4, <1>5, <1>6, <1>7

\* The steps that are not those of the way in leave it alone; they take neither main nor
\* recv to a place where it has a message in hand, and only SIGINT and SIGQUIT take them
\* away from one.
LEMMA NotReceiving ==
    ASSUME TypeInv, [Next]_vars,
           ~RecvBytes, ~RecvDeSerialize, ~RecvPush, ~Pop, ~Copy, ~Free, ~ServerSend
    PROVE  /\ UNCHANGED inVars
           /\ UNCHANGED interrupted \/ interrupted' # "no"
           /\ \/ pc'["main"] = pc["main"]
              \/ {pc["main"], pc'["main"]} \intersect {"copy", "free"} = {}
              \/ interrupted' # "no" /\ pc'["main"] \notin {"copy", "free"}
           /\ \/ pc'["recv"] = pc["recv"]
              \/ pc'["recv"] = "dead"
              \/ pc["recv"] = "born" /\ pc'["recv"] = "read"
<1> USE DEF TypeInv, ProcessTypes, Threads, inVars, Goto
<1>1. ASSUME NEW u \in Writers, WriterStep(u)
      PROVE  /\ UNCHANGED <<inVars, interrupted>> /\ pc'["recv"] = pc["recv"]
             /\ \/ pc'["main"] = pc["main"]
                \/ {pc["main"], pc'["main"]} \intersect {"copy", "free"} = {}
  <2>1. /\ UNCHANGED <<inVars, interrupted>>
        /\ pc[u] \notin {"copy", "free"}
        /\ \E b \in Writing \union {"pop", "idle", "quitSend"} : pc' = [pc EXCEPT ![u] = b]
    BY <1>1 DEF WriterStep, Acquire, Mark, Fill, Write, Release, UnMark, Writing, calm
  <2>. QED BY <2>1 DEF Writers, Writing
<1>2. CASE MainStep
  <2>1. CASE \/ QuitNoDelay("send", "quitSend", "joinSend") \/ Join("send", "joinSend", "quitRecv")
             \/ QuitNoDelay("recv", "quitRecv", "joinRecv") \/ Join("recv", "joinRecv", "cleanUp")
    BY <2>1 DEF QuitNoDelay, Join, calm
  <2>2. CASE CleanUp \/ Forget
    BY <2>2 DEF CleanUp, Forget, calm
  <2>3. CASE FillThrows("main")
    BY <2>3 DEF FillThrows
  <2>. QED BY <1>1, <1>2, <2>1, <2>2, <2>3 DEF MainStep, Writers
<1>3. CASE SendStep
  <2>1. CASE Install("send") \/ SendPop \/ FillThrows("send")
    BY <2>1 DEF Install, SendPop, FillThrows, calm
  <2>. QED BY <1>1, <1>3, <2>1 DEF SendStep, Writers
<1>4. CASE RecvStep
  BY <1>4 DEF RecvStep, Install
<1>5. ASSUME NEW t \in {"send", "recv"}, Die(t)
      PROVE  /\ UNCHANGED <<inVars, interrupted>> /\ pc'["main"] = pc["main"]
             /\ pc'["recv"] = pc["recv"] \/ pc'["recv"] = "dead"
  BY <1>5 DEF Die
<1>6. CASE Call
  BY <1>6 DEF Call, SendMsg, RecvMsg, Exit, calm
<1>7. CASE Interrupt
  <2>1. interrupted' # "no"
    BY <1>7 DEF Interrupt
  <2>. QED BY <1>7, <2>1 DEF Interrupt
<1>8. CASE Server \/ UNCHANGED vars
  BY <1>8 DEF Server, ServerRead, ServerSend, ServerClose, processVars, vars
<1>. QED BY <1>2, <1>3, <1>4, <1>5, <1>6, <1>7, <1>8 DEF Next

\* What recv does with a receive.
LEMMA ReceiveStep ==
    ASSUME TypeInv, RecvBytes
    PROVE  \E k \in 1 .. Len(stream), inside \in BOOLEAN :
               LET left == SubSeq(stream, k + 1, Len(stream))
                   one == k = 1 /\ ~inside
                   whole == one /\ Head(stream) # Rest
               IN  /\ mixed' = IF one THEN mixed ELSE mixed + 1
                   /\ mixed' \in 0 .. MaxMixed
                   /\ stream' = IF inside THEN <<Rest>> \o left ELSE left
                   /\ pc["recv"] = "read" /\ pc'["main"] = pc["main"]
                   /\ pc'["recv"] = IF whole THEN "deserialize" ELSE "read"
                   /\ hand'.main = hand.main /\ hand'.recv = hand.recv
                   /\ hand'.read = IF whole THEN Head(stream) ELSE hand.read
                   /\ hand' \in [main : 0 .. Entities, recv : 0 .. Entities, read : 0 .. MaxServe]
<1>1. PICK k \in 1 .. Len(stream), inside \in BOOLEAN :
          LET left == SubSeq(stream, k + 1, Len(stream))
              one == k = 1 /\ ~inside
              whole == one /\ Head(stream) # Rest
          IN
          /\ one \/ mixed < MaxMixed
          /\ mixed' = IF one THEN mixed ELSE mixed + 1
          /\ stream' = IF inside THEN <<Rest>> \o left ELSE left
          /\ pc' = [pc EXCEPT !["recv"] = IF whole THEN "deserialize" ELSE "read"]
          /\ hand' = [hand EXCEPT !.read = IF whole THEN Head(stream) ELSE @]
  BY DEF RecvBytes
<1>2. stream \in Seq(0 .. MaxServe) /\ mixed \in 0 .. MaxMixed /\ pc["recv"] = "read"
  BY DEF TypeInv, InTypes, RecvBytes
<1>3. Head(stream) \in 0 .. MaxServe
  BY <1>2, RestOfList
<1>4. mixed' \in 0 .. MaxMixed
  <2>1. mixed < MaxMixed => mixed + 1 \in 0 .. MaxMixed
    BY <1>2, SessionAssumption
  <2>. QED BY <1>1, <1>2, <2>1
<1> DEFINE left == SubSeq(stream, k + 1, Len(stream))
           whole == (k = 1 /\ ~inside) /\ Head(stream) # Rest
<1>5. pc' = [pc EXCEPT !["recv"] = IF whole THEN "deserialize" ELSE "read"]
      /\ hand' = [hand EXCEPT !.read = IF whole THEN Head(stream) ELSE @]
  BY <1>1
<1> HIDE DEF whole
<1>6. /\ pc'["main"] = pc["main"] /\ pc'["recv"] = IF whole THEN "deserialize" ELSE "read"
      /\ hand'.main = hand.main /\ hand'.recv = hand.recv
      /\ hand'.read = IF whole THEN Head(stream) ELSE hand.read
      /\ hand' \in [main : 0 .. Entities, recv : 0 .. Entities, read : 0 .. MaxServe]
  BY <1>3, <1>5 DEF TypeInv, ProcessTypes, InTypes, Threads
<1>. QED BY <1>1, <1>2, <1>4, <1>6 DEF whole

\* The entity that recv finds for a message.
LEMMA LentEntity ==
    ASSUME TypeInv, RecvDeSerialize
    PROVE  \E e \in 1 .. Entities :
               /\ e \notin lent /\ lent' = lent \union {e}
               /\ content' = [content EXCEPT ![e] = hand.read]
               /\ hand'.recv = e /\ hand'.main = hand.main /\ hand'.read = hand.read
               /\ hand' \in [main : 0 .. Entities, recv : 0 .. Entities, read : 0 .. MaxServe]
               /\ pc["recv"] = "deserialize" /\ pc'["recv"] = "push" /\ pc'["main"] = pc["main"]
<1> DEFINE all == 1 .. Entities
           e == First(all \ lent)
<1>1. /\ lent # all /\ lent' = lent \union {e}
      /\ content' = [content EXCEPT ![e] = hand.read]
      /\ hand' = [hand EXCEPT !.recv = e]
      /\ pc["recv"] = "deserialize" /\ pc' = [pc EXCEPT !["recv"] = "push"]
  BY DEF RecvDeSerialize, Goto
<1>2. lent \subseteq all /\ all \subseteq Nat
  BY SessionAssumption DEF TypeInv, InTypes
<1>3. all \ lent \subseteq Nat /\ all \ lent # {}
  BY <1>1, <1>2
<1> HIDE DEF all
<1>4. e \in all /\ e \notin lent
  BY <1>3, FirstIsMember
<1> HIDE DEF e
<1>5. /\ hand'.recv = e /\ hand'.main = hand.main /\ hand'.read = hand.read
      /\ hand' \in [main : 0 .. Entities, recv : 0 .. Entities, read : 0 .. MaxServe]
  <2>1. e \in 0 .. Entities
    BY <1>4, SessionAssumption DEF all
  <2>. QED BY <1>1, <2>1 DEF TypeInv, InTypes
<1>6. pc'["recv"] = "push" /\ pc'["main"] = pc["main"]
  BY <1>1 DEF TypeInv, ProcessTypes, Threads
<1>. QED BY <1>1, <1>4, <1>5, <1>6 DEF all

\* The entity that RecvMsg takes from the queue.
LEMMA PoppedEntity ==
    ASSUME TypeInv, Pop
    PROVE  /\ recvQueue # << >> /\ recvQueue' = Tail(recvQueue)
           /\ Head(recvQueue) \in 1 .. Entities
           /\ hand'.main = Head(recvQueue) /\ hand'.recv = hand.recv /\ hand'.read = hand.read
           /\ hand' \in [main : 0 .. Entities, recv : 0 .. Entities, read : 0 .. MaxServe]
           /\ pc["main"] = "pop" /\ pc'["main"] = "copy" /\ pc'["recv"] = pc["recv"]
<1>1. /\ recvQueue # << >> /\ recvQueue' = Tail(recvQueue)
      /\ hand' = [hand EXCEPT !.main = Head(recvQueue)]
      /\ pc["main"] = "pop" /\ pc' = [pc EXCEPT !["main"] = "copy"]
  BY DEF Pop, Goto
<1>2. Head(recvQueue) \in 1 .. Entities
  BY <1>1, TakenList DEF TypeInv, InTypes
<1>3. Head(recvQueue) \in 0 .. Entities
  BY <1>2, SessionAssumption
<1>4. pc'["main"] = "copy" /\ pc'["recv"] = pc["recv"]
  BY <1>1 DEF TypeInv, ProcessTypes, Threads
<1> DEFINE e == Head(recvQueue)
<1>5. e \in 0 .. Entities /\ hand' = [hand EXCEPT !.main = e]
  BY <1>1, <1>3
<1> HIDE DEF e
<1>6. /\ hand'.main = e /\ hand'.recv = hand.recv /\ hand'.read = hand.read
      /\ hand' \in [main : 0 .. Entities, recv : 0 .. Entities, read : 0 .. MaxServe]
  BY <1>5 DEF TypeInv, InTypes
<1>. QED BY <1>1, <1>2, <1>4, <1>6 DEF e

LEMMA InTypesNext == TypeInv /\ [Next]_vars => InTypes'
<1> SUFFICES ASSUME TypeInv, [Next]_vars PROVE InTypes'
  OBVIOUS
<1>1. CASE RecvBytes
  <2>1. PICK k \in 1 .. Len(stream), inside \in BOOLEAN :
            LET left == SubSeq(stream, k + 1, Len(stream)) IN
            /\ stream' = IF inside THEN <<Rest>> \o left ELSE left
            /\ mixed' \in 0 .. MaxMixed
            /\ pc'["main"] = pc["main"] /\ pc'["recv"] # "push" /\ hand'.main = hand.main
            /\ hand' \in [main : 0 .. Entities, recv : 0 .. Entities, read : 0 .. MaxServe]
    BY <1>1, ReceiveStep
  <2>2. stream' \in Seq(0 .. MaxServe)
    <3> DEFINE left == SubSeq(stream, k + 1, Len(stream))
    <3>1. left \in Seq(0 .. MaxServe)
      BY RestOfList DEF TypeInv, InTypes
    <3>2. <<Rest>> \in Seq(0 .. MaxServe)
      <4>1. Rest \in 0 .. MaxServe
        BY SessionAssumption DEF Rest
      <4>. QED BY <4>1
    <3>3. stream' = <<Rest>> \o left \/ stream' = left
      BY <2>1
    <3> HIDE DEF left
    <3>4. <<Rest>> \o left \in Seq(0 .. MaxServe)
      BY <3>1, <3>2, JoinedLists
    <3>. QED BY <3>1, <3>3, <3>4
  <2>3. UNCHANGED <<served, content, lent, recvQueue, got>>
    BY <1>1 DEF RecvBytes
  <2>. QED BY <2>1, <2>2, <2>3 DEF TypeInv, InTypes
<1>2. CASE RecvDeSerialize
  BY <1>2, LentEntity DEF RecvDeSerialize, TypeInv, InTypes
<1>3. CASE RecvPush
  <2>1. hand.recv \in 1 .. Entities /\ recvQueue' = Append(recvQueue, hand.recv)
    BY <1>3 DEF RecvPush, Goto, TypeInv, InTypes
  <2>2. recvQueue' \in Seq(1 .. Entities)
    BY <2>1, AppendedList DEF TypeInv, InTypes
  <2>3. pc'["main"] = pc["main"] /\ pc'["recv"] = "read"
    BY <1>3 DEF RecvPush, Goto, TypeInv, ProcessTypes, Threads
  <2>. QED BY <1>3, <2>2, <2>3 DEF RecvPush, TypeInv, InTypes
<1>4. CASE Pop
  <2>1. Tail(recvQueue) \in Seq(1 .. Entities)
    BY <1>4, PoppedEntity, TakenList DEF TypeInv, InTypes
  <2>. QED BY <1>4, <2>1, PoppedEntity DEF Pop, TypeInv, InTypes
<1>5. CASE Copy
  <2>1. content[hand.main] \in 0 .. MaxServe /\ got' = Append(got, content[hand.main])
    BY <1>5 DEF Copy, Goto, TypeInv, InTypes
  <2>2. got' \in Seq(0 .. MaxServe)
    BY <2>1, AppendedList DEF TypeInv, InTypes
  <2>3. pc'["main"] = "free" /\ pc["main"] = "copy" /\ pc'["recv"] = pc["recv"]
    BY <1>5 DEF Copy, Goto, TypeInv, ProcessTypes, Threads
  <2>. QED BY <1>5, <2>2, <2>3 DEF Copy, TypeInv, InTypes
<1>6. CASE Free
  <2>1. pc'["main"] = "idle" /\ pc'["recv"] = pc["recv"]
    BY <1>6 DEF Free, Goto, TypeInv, ProcessTypes, Threads
  <2>. QED BY <1>6, <2>1 DEF Free, TypeInv, InTypes
<1>7. CASE ServerSend
  <2>1. served + 1 \in 0 .. MaxServe /\ stream' = Append(stream, served + 1) /\ served' = served + 1
    BY <1>7, SessionAssumption DEF ServerSend, TypeInv, InTypes
  <2>2. stream' \in Seq(0 .. MaxServe)
    BY <2>1, AppendedList DEF TypeInv, InTypes
  <2>. QED BY <1>7, <2>1, <2>2 DEF ServerSend, processVars, TypeInv, InTypes
<1>8. CASE ~RecvBytes /\ ~RecvDeSerialize /\ ~RecvPush /\ ~Pop /\ ~Copy /\ ~Free /\ ~ServerSend
  <2>1. /\ UNCHANGED inVars
        /\ pc'["main"] \in {"copy", "free"} => pc["main"] \in {"copy", "free"}
        /\ pc'["recv"] = "push" => pc["recv"] = "push"
    BY <1>8, NotReceiving
  <2>. QED BY <2>1 DEF inVars, TypeInv, InTypes
<1>. QED BY <1>1, <1>2, <1>3, <1>4, <1>5, <1>6, <1>7, <1>8

LEMMA TypeNext == TypeInv /\ [Next]_vars => TypeInv'
BY ProcessTypesNext, WriterTypesNext, OutTypesNext, InTypesNext DEF TypeInv

-----------------------------------------------------------------------------
(***************************************************************************)
(* The entities of the deserializer                                        *)
(***************************************************************************)
Queued == Range(recvQueue)
MainHas == IF pc["main"] \in {"copy", "free"} THEN {hand.main} ELSE {}
RecvHas == IF pc["recv"] = "push" THEN {hand.recv} ELSE {}
InUse == Queued \union MainHas \union RecvHas

\* Nobody is gone with an entity in hand.
Steady == interrupted = "no" /\ pc["recv"] # "dead"

Owners ==
    /\ IsInjective(recvQueue)
    /\ MainHas \intersect Queued = {}
    /\ RecvHas \intersect (Queued \union MainHas) = {}
    /\ InUse \subseteq lent
    /\ Steady => lent \subseteq InUse

\* What is in use is whole messages.
Whole ==
    /\ \A e \in InUse : content[e] # Rest
    /\ pc["recv"] = "deserialize" => hand.read # Rest
    /\ got \in Seq(1 .. MaxServe)

OwnInv == TypeInv /\ Owners /\ Whole

LEMMA OwnersInit == Init => Owners /\ Whole
<1> SUFFICES ASSUME Init PROVE Owners /\ Whole
  OBVIOUS
<1>1. Queued = {} /\ IsInjective(recvQueue)
  BY DEF Init, Queued, Range, IsInjective
<1>2. pc["main"] = "acquire" /\ pc["recv"] = "born"
  BY DEF Init
<1>3. MainHas = {} /\ RecvHas = {}
  BY <1>2 DEF MainHas, RecvHas
<1>. QED BY <1>1, <1>2, <1>3 DEF Init, Owners, Whole, InUse

LEMMA OwnersNext == OwnInv /\ [Next]_vars => Owners' /\ Whole'
<1> SUFFICES ASSUME OwnInv, [Next]_vars PROVE Owners' /\ Whole'
  OBVIOUS
<1>1. CASE RecvBytes
  <2>1. PICK k \in 1 .. Len(stream), inside \in BOOLEAN :
            /\ pc["recv"] = "read" /\ pc'["main"] = pc["main"]
            /\ pc'["recv"] \in {"deserialize", "read"}
            /\ hand'.main = hand.main
            /\ pc'["recv"] = "deserialize" => hand'.read # Rest
    BY <1>1, ReceiveStep DEF OwnInv
  <2>2. UNCHANGED <<interrupted, recvQueue, content, lent, got>>
    BY <1>1 DEF RecvBytes, calm
  <2>3. UNCHANGED <<Queued, MainHas, RecvHas>> /\ UNCHANGED Steady
    BY <2>1, <2>2 DEF Queued, MainHas, RecvHas, Steady
  <2>4. UNCHANGED InUse
    BY <2>3 DEF InUse
  <2>. QED BY <2>1, <2>2, <2>3, <2>4 DEF OwnInv, Owners, Whole
<1>2. CASE RecvDeSerialize
  <2>1. PICK e \in 1 .. Entities :
            /\ e \notin lent /\ lent' = lent \union {e}
            /\ content' = [content EXCEPT ![e] = hand.read]
            /\ hand'.recv = e /\ hand'.main = hand.main
            /\ pc["recv"] = "deserialize" /\ pc'["recv"] = "push" /\ pc'["main"] = pc["main"]
    BY <1>2, LentEntity DEF OwnInv
  <2>2. UNCHANGED <<interrupted, recvQueue, got>>
    BY <1>2 DEF RecvDeSerialize, calm
  <2>3. UNCHANGED <<Queued, MainHas>> /\ UNCHANGED Steady /\ RecvHas = {} /\ RecvHas' = {e}
    BY <2>1, <2>2 DEF Queued, MainHas, RecvHas, Steady
  <2>4. InUse' = InUse \union {e} /\ e \notin InUse
    BY <2>1, <2>3 DEF InUse, OwnInv, Owners
  <2>5. content'[e] = hand.read /\ \A d \in lent : content'[d] = content[d]
    BY <2>1 DEF OwnInv, TypeInv, InTypes
  <2>6. Owners'
    BY <2>1, <2>2, <2>3, <2>4 DEF OwnInv, Owners, InUse
  <2>7. Whole'
    BY <2>1, <2>2, <2>4, <2>5 DEF OwnInv, Owners, Whole
  <2>. QED BY <2>6, <2>7
<1>3. CASE RecvPush
  <2>1. /\ hand.recv \in 1 .. Entities /\ recvQueue' = Append(recvQueue, hand.recv)
        /\ recvQueue \in Seq(1 .. Entities)
        /\ pc["recv"] = "push" /\ pc'["recv"] = "read" /\ pc'["main"] = pc["main"]
        /\ UNCHANGED <<interrupted, content, lent, hand, got>>
    BY <1>3 DEF RecvPush, Goto, calm, OwnInv, TypeInv, ProcessTypes, InTypes, Threads
  <2>2. UNCHANGED <<MainHas, Steady>> /\ RecvHas = {hand.recv} /\ RecvHas' = {}
    BY <2>1 DEF MainHas, RecvHas, Steady
  <2>3. Queued' = Queued \union {hand.recv} /\ IsInjective(recvQueue')
    <3>1. hand.recv \notin Range(recvQueue) /\ IsInjective(recvQueue)
      BY <2>2 DEF Queued, OwnInv, Owners
    <3>2. /\ Range(Append(recvQueue, hand.recv)) = Range(recvQueue) \union {hand.recv}
          /\ IsInjective(Append(recvQueue, hand.recv))
      <4> DEFINE E == 1 .. Entities
      <4>1. hand.recv \in E /\ recvQueue \in Seq(E)
        BY <2>1
      <4> HIDE DEF E
      <4>. QED BY <3>1, <4>1, AppendedList
    <3>. QED BY <2>1, <3>2 DEF Queued
  <2>4. UNCHANGED InUse
    BY <2>2, <2>3 DEF InUse
  <2>. QED BY <2>1, <2>2, <2>3, <2>4 DEF OwnInv, Owners, Whole
<1>4. CASE Pop
  <2>1. /\ recvQueue # << >> /\ recvQueue' = Tail(recvQueue) /\ recvQueue \in Seq(1 .. Entities)
        /\ hand'.main = Head(recvQueue) /\ hand'.recv = hand.recv /\ hand'.read = hand.read
        /\ pc["main"] = "pop" /\ pc'["main"] = "copy" /\ pc'["recv"] = pc["recv"]
        /\ UNCHANGED <<interrupted, content, lent, got>>
    BY <1>4, PoppedEntity DEF Pop, calm, OwnInv, TypeInv, InTypes
  <2>2. UNCHANGED <<RecvHas, Steady>> /\ MainHas = {} /\ MainHas' = {Head(recvQueue)}
    BY <2>1 DEF MainHas, RecvHas, Steady
  <2>3. /\ Queued = {Head(recvQueue)} \union Queued' /\ IsInjective(recvQueue')
        /\ Head(recvQueue) \notin Queued'
    BY <2>1, TakenList DEF Queued, OwnInv, Owners
  <2>4. UNCHANGED InUse
    BY <2>2, <2>3 DEF InUse
  <2>. QED BY <2>1, <2>2, <2>3, <2>4 DEF OwnInv, Owners, Whole
<1>5. CASE Copy
  <2>1. /\ pc["main"] = "copy" /\ pc'["main"] = "free" /\ pc'["recv"] = pc["recv"]
        /\ got' = Append(got, content[hand.main])
        /\ UNCHANGED <<interrupted, content, lent, hand, recvQueue>>
    BY <1>5 DEF Copy, Goto, calm, OwnInv, TypeInv, ProcessTypes, Threads
  <2>2. UNCHANGED <<Queued, MainHas, RecvHas, Steady>>
    BY <2>1 DEF Queued, MainHas, RecvHas, Steady
  <2>3. UNCHANGED InUse
    BY <2>2 DEF InUse
  <2>4. content[hand.main] \in 1 .. MaxServe
    <3>1. content[hand.main] # Rest
      BY <2>1 DEF OwnInv, Whole, InUse, MainHas
    <3>2. content[hand.main] \in 0 .. MaxServe
      BY <2>1 DEF OwnInv, TypeInv, InTypes
    <3>. QED BY <3>1, <3>2, SessionAssumption DEF Rest
  <2>5. got' \in Seq(1 .. MaxServe)
    BY <2>1, <2>4, AppendedList DEF OwnInv, Whole
  <2>. QED BY <2>1, <2>2, <2>3, <2>5 DEF OwnInv, Owners, Whole
<1>6. CASE Free
  <2>1. /\ pc["main"] = "free" /\ pc'["main"] = "idle" /\ pc'["recv"] = pc["recv"]
        /\ lent' = lent \ {hand.main}
        /\ UNCHANGED <<interrupted, content, hand, recvQueue, got>>
    BY <1>6 DEF Free, Goto, calm, OwnInv, TypeInv, ProcessTypes, Threads
  <2>2. UNCHANGED <<Queued, RecvHas, Steady>> /\ MainHas = {hand.main} /\ MainHas' = {}
    BY <2>1 DEF Queued, MainHas, RecvHas, Steady
  <2>3. InUse' = InUse \ {hand.main}
    BY <2>2 DEF InUse, OwnInv, Owners
  <2>. QED BY <2>1, <2>2, <2>3 DEF OwnInv, Owners, Whole
<1>7. CASE ServerSend
  <2>1. UNCHANGED <<pc, interrupted, content, lent, hand, recvQueue, got>>
    BY <1>7 DEF ServerSend, processVars
  <2>2. UNCHANGED <<Queued, MainHas, RecvHas, Steady, InUse>>
    BY <2>1 DEF Queued, MainHas, RecvHas, Steady, InUse
  <2>. QED BY <2>1, <2>2 DEF OwnInv, Owners, Whole
<1>8. CASE ~RecvBytes /\ ~RecvDeSerialize /\ ~RecvPush /\ ~Pop /\ ~Copy /\ ~Free /\ ~ServerSend
  <2>1. /\ UNCHANGED <<content, lent, hand, recvQueue, got>>
        /\ UNCHANGED interrupted \/ interrupted' # "no"
        /\ \/ pc'["main"] = pc["main"]
           \/ {pc["main"], pc'["main"]} \intersect {"copy", "free"} = {}
           \/ interrupted' # "no" /\ pc'["main"] \notin {"copy", "free"}
        /\ \/ pc'["recv"] = pc["recv"]
           \/ pc'["recv"] = "dead"
           \/ pc["recv"] = "born" /\ pc'["recv"] = "read"
    BY <1>8, NotReceiving DEF OwnInv, inVars
  <2>2. /\ UNCHANGED Queued
        /\ MainHas' = MainHas \/ (MainHas' = {} /\ interrupted' # "no")
        /\ RecvHas' = RecvHas \/ (RecvHas' = {} /\ pc'["recv"] = "dead")
    BY <2>1 DEF Queued, MainHas, RecvHas
  <2>3. InUse' \subseteq InUse /\ (Steady' => Steady /\ InUse' = InUse)
    BY <2>1, <2>2 DEF InUse, Steady
  <2>. QED BY <2>1, <2>2, <2>3 DEF OwnInv, Owners, Whole
<1>. QED BY <1>1, <1>2, <1>3, <1>4, <1>5, <1>6, <1>7, <1>8

LEMMA OwnInvariant == SafeSpec => []OwnInv
<1>1. OwnInv /\ [Next]_vars => OwnInv'
  BY TypeNext, OwnersNext DEF OwnInv
<1>. QED BY <1>1, TypeInit, OwnersInit, PTL DEF SafeSpec, OwnInv

\* TypeOK: a session's variables keep their types; what RecvMsg returns is always a
\* message, though the stream may hold the rest of one.
THEOREM TypeCorrect == SafeSpec => []TypeOK
<1>1. OwnInv => TypeOK
  <2> SUFFICES ASSUME OwnInv PROVE TypeOK
    OBVIOUS
  <2>1. hand.main \in 0 .. Entities /\ hand.recv \in 0 .. Entities /\ hand.read \in 0 .. MaxServe
    BY DEF OwnInv, TypeInv, InTypes
  <2>. QED BY <2>1 DEF OwnInv, Whole, TypeInv, ProcessTypes, WriterTypes, OutTypes, InTypes, TypeOK,
                       MainSteps, SendSteps, RecvSteps, Slots
<1>. QED BY <1>1, OwnInvariant, PTL

\* EntitiesAreAccounted: an entity of the deserializer is lent to one message on its way,
\* and unless a signal has taken a thread away from its entity none is lent for nothing.
THEOREM EntitiesOnTheirWay == SafeSpec => []EntitiesAreAccounted
<1>1. OwnInv => EntitiesAreAccounted
  <2> SUFFICES ASSUME OwnInv PROVE EntitiesAreAccounted
    OBVIOUS
  <2> DEFINE E == 1 .. Entities
             m == IF pc["main"] \in {"copy", "free"} THEN <<hand.main>> ELSE << >>
             r == IF pc["recv"] = "push" THEN <<hand.recv>> ELSE << >>
  <2>1. recvQueue \in Seq(E) /\ IsInjective(recvQueue)
    BY DEF OwnInv, Owners, TypeInv, InTypes
  <2>2. m \in Seq(E) /\ Range(m) = MainHas /\ IsInjective(m)
    <3>1. CASE pc["main"] \in {"copy", "free"}
      <4>1. hand.main \in E
        BY <3>1 DEF OwnInv, TypeInv, InTypes
      <4>. QED BY <3>1, <4>1, ShortLists DEF MainHas
    <3>2. CASE pc["main"] \notin {"copy", "free"}
      BY <3>2 DEF MainHas, Range, IsInjective
    <3>. QED BY <3>1, <3>2
  <2>3. r \in Seq(E) /\ Range(r) = RecvHas /\ IsInjective(r)
    <3>1. CASE pc["recv"] = "push"
      <4>1. hand.recv \in E
        BY <3>1 DEF OwnInv, TypeInv, InTypes
      <4>. QED BY <3>1, <4>1, ShortLists DEF RecvHas
    <3>2. CASE pc["recv"] # "push"
      BY <3>2 DEF RecvHas, Range, IsInjective
    <3>. QED BY <3>1, <3>2
  <2> HIDE DEF E, m, r
  <2>4. recvQueue \o m \in Seq(E) /\ Range(recvQueue \o m) = Queued \union MainHas
        /\ IsInjective(recvQueue \o m)
    BY <2>1, <2>2, JoinedLists DEF OwnInv, Owners, Queued
  <2> DEFINE q == recvQueue \o m
  <2>5. q \in Seq(E) /\ Range(q) = Queued \union MainHas /\ IsInjective(q)
    BY <2>4
  <2> HIDE DEF q
  <2>6. Range(q \o r) = InUse /\ IsInjective(q \o r)
    BY <2>3, <2>5, JoinedLists DEF OwnInv, Owners, InUse
  <2>7. Pointers = q \o r
    BY DEF Pointers, m, r, q
  <2>. QED BY <2>6, <2>7 DEF EntitiesAreAccounted, OwnInv, Owners, Steady
<1>. QED BY <1>1, OwnInvariant, PTL

-----------------------------------------------------------------------------
(***************************************************************************)
(* Receiving in order                                                      *)
(***************************************************************************)
DeEntity == 1 .. Entities
Number == 0 .. MaxServe

\* What the entities of a queue hold.
MsgsOf(q, f) == [i \in DOMAIN q |-> f[q[i]]]

LEMMA MsgsAreASeq ==
    ASSUME NEW q \in Seq(DeEntity), NEW f \in [DeEntity -> Number]
    PROVE  MsgsOf(q, f) \in Seq(Number) /\ Len(MsgsOf(q, f)) = Len(q)
           /\ Range(MsgsOf(q, f)) = {f[e] : e \in Range(q)}
<1>1. Len(q) \in Nat /\ DOMAIN q = 1 .. Len(q) /\ \A i \in 1 .. Len(q) : q[i] \in DeEntity
  BY LenProperties
<1>2. MsgsOf(q, f) \in [1 .. Len(q) -> Number]
  BY <1>1 DEF MsgsOf
<1>3. MsgsOf(q, f) \in Seq(Number)
  BY <1>1, <1>2, SeqDef
<1>4. Len(MsgsOf(q, f)) = Len(q)
  BY <1>1, <1>2, <1>3, LenProperties
<1>. QED BY <1>3, <1>4 DEF MsgsOf, Range

LEMMA MsgsAppended ==
    ASSUME NEW q \in Seq(DeEntity), NEW f \in [DeEntity -> Number], NEW e \in DeEntity
    PROVE  MsgsOf(Append(q, e), f) = Append(MsgsOf(q, f), f[e])
<1> DEFINE p == Append(q, e)
           m == MsgsOf(q, f)
           s == MsgsOf(p, f)
           t == Append(m, f[e])
<1>1. /\ p \in Seq(DeEntity) /\ Len(p) = Len(q) + 1 /\ p[Len(q) + 1] = e
      /\ \A i \in 1 .. Len(q) : p[i] = q[i]
  BY AppendProperties
<1>2. m \in Seq(Number) /\ Len(m) = Len(q)
  BY MsgsAreASeq
<1>3. s \in Seq(Number) /\ Len(s) = Len(q) + 1
  <2>1. \A r \in Seq(DeEntity) : MsgsOf(r, f) \in Seq(Number) /\ Len(MsgsOf(r, f)) = Len(r)
    BY MsgsAreASeq
  <2>. QED BY <1>1, <2>1
<1>4. /\ t \in Seq(Number) /\ Len(t) = Len(q) + 1 /\ t[Len(q) + 1] = f[e]
      /\ \A i \in 1 .. Len(q) : t[i] = m[i]
  BY <1>2, AppendProperties
<1>5. Len(q) \in Nat /\ DOMAIN q = 1 .. Len(q) /\ DOMAIN p = 1 .. Len(q) + 1
  BY <1>1, LenProperties
<1>6. \A i \in 1 .. Len(q) : m[i] = f[q[i]]
  BY <1>5 DEF MsgsOf
<1>7. \A i \in 1 .. Len(q) + 1 : s[i] = f[p[i]]
  BY <1>5 DEF MsgsOf
<1> HIDE DEF p, m, s, t
<1>8. \A i \in 1 .. Len(q) + 1 : i \in 1 .. Len(q) \/ i = Len(q) + 1
  BY <1>5
<1>9. \A i \in 1 .. Len(q) + 1 : s[i] = t[i]
  BY <1>1, <1>4, <1>6, <1>7, <1>8
<1>10. s = t
  BY <1>3, <1>4, <1>9, SeqEqual
<1>. QED BY <1>10 DEF s, t, m, p

LEMMA MsgsTaken ==
    ASSUME NEW q \in Seq(DeEntity), NEW f \in [DeEntity -> Number], q # << >>
    PROVE  /\ MsgsOf(q, f) # << >>
           /\ Head(MsgsOf(q, f)) = f[Head(q)]
           /\ MsgsOf(Tail(q), f) = Tail(MsgsOf(q, f))
<1> DEFINE p == Tail(q)
           m == MsgsOf(q, f)
           s == MsgsOf(p, f)
           t == Tail(m)
<1>1. /\ p \in Seq(DeEntity) /\ Len(p) = Len(q) - 1 /\ Head(q) = q[1]
      /\ \A i \in 1 .. Len(p) : p[i] = q[i + 1]
  BY HeadTailProperties
<1>2. Len(q) \in Nat \ {0} /\ DOMAIN q = 1 .. Len(q) /\ DOMAIN p = 1 .. Len(q) - 1
  BY <1>1, LenProperties, EmptySeq
<1>3. m \in Seq(Number) /\ Len(m) = Len(q)
  BY MsgsAreASeq
<1>4. s \in Seq(Number) /\ Len(s) = Len(q) - 1
  <2>1. \A r \in Seq(DeEntity) : MsgsOf(r, f) \in Seq(Number) /\ Len(MsgsOf(r, f)) = Len(r)
    BY MsgsAreASeq
  <2>. QED BY <1>1, <2>1
<1>5. \A i \in 1 .. Len(q) : m[i] = f[q[i]]
  BY <1>2 DEF MsgsOf
<1>6. \A i \in 1 .. Len(q) - 1 : s[i] = f[p[i]]
  BY <1>2 DEF MsgsOf
<1> HIDE DEF p, m, s
<1>7. m # << >>
  BY <1>2, <1>3, EmptySeq
<1>8. /\ t \in Seq(Number) /\ Len(t) = Len(q) - 1 /\ Head(m) = m[1]
      /\ \A i \in 1 .. Len(q) - 1 : t[i] = m[i + 1]
  BY <1>3, <1>7, HeadTailProperties
<1> HIDE DEF t
<1>9. \A i \in 1 .. Len(q) - 1 : i + 1 \in 1 .. Len(q)
  BY <1>2
<1>10. \A i \in 1 .. Len(q) - 1 : s[i] = t[i]
  BY <1>1, <1>5, <1>6, <1>8, <1>9
<1>3a. s = t
  BY <1>4, <1>8, <1>10, SeqEqual
<1>12. Head(m) = f[Head(q)]
  <2>1. 1 \in 1 .. Len(q)
    BY <1>2
  <2>. QED BY <1>1, <1>5, <1>8, <2>1
<1>. QED BY <1>7, <1>3a, <1>12 DEF s, t, m, p

\* The places of the line, from the caller to the socket.
QueuedMsgs == MsgsOf(recvQueue, content)
Copying == IF pc["main"] = "copy" THEN {content[hand.main]} ELSE {}
Carried == IF pc["recv"] = "push" THEN {content[hand.recv]}
           ELSE IF pc["recv"] = "deserialize" THEN {hand.read} ELSE {}

\* What is behind each place.
BehindQueue == Carried \union Range(stream)
BehindCopy == Range(QueuedMsgs) \union BehindQueue
BehindGot == Copying \union BehindCopy

InOrder ==
    /\ Ordered(got) /\ Ordered(QueuedMsgs) /\ Ordered(stream)
    /\ Below(Carried, Range(stream))
    /\ Below(Range(QueuedMsgs), BehindQueue)
    /\ Below(Copying, BehindCopy)
    /\ Below(Range(got), BehindGot)
    /\ \A n \in Range(got) \union BehindGot : n <= served

One(P) == IF P = {} THEN 0 ELSE 1

\* As long as no receive was of more or less than one message, each has its place.
OneByOne ==
    mixed = 0 =>
        /\ Rest \notin Range(stream)
        /\ Steady => Len(got) + One(Copying) + Len(recvQueue) + One(Carried) + Len(stream) = served

\* What is behind a place may go, and rests count for nothing.
LEMMA BelowKept ==
    ASSUME NEW P, NEW Q, Below(P, Q), NEW R, R \subseteq P, NEW T, T \subseteq Q \union {Rest}
    PROVE  Below(R, T)
BY DEF Below

LEMMA QueuedAreASeq ==
    ASSUME TypeInv
    PROVE  /\ recvQueue \in Seq(DeEntity) /\ content \in [DeEntity -> Number]
           /\ QueuedMsgs \in Seq(Number) /\ Len(QueuedMsgs) = Len(recvQueue)
           /\ Range(QueuedMsgs) = {content[e] : e \in Queued}
<1>1. recvQueue \in Seq(DeEntity) /\ content \in [DeEntity -> Number]
  BY DEF TypeInv, InTypes, DeEntity, Number
<1>2. /\ MsgsOf(recvQueue, content) \in Seq(Number)
      /\ Len(MsgsOf(recvQueue, content)) = Len(recvQueue)
      /\ Range(MsgsOf(recvQueue, content)) = {content[e] : e \in Range(recvQueue)}
  BY <1>1, MsgsAreASeq
<1>. QED BY <1>1, <1>2 DEF QueuedMsgs, Queued

LEMMA MsgsUnchanged ==
    ASSUME NEW q \in Seq(DeEntity), NEW f \in [DeEntity -> Number], NEW g \in [DeEntity -> Number],
           \A e \in Range(q) : g[e] = f[e]
    PROVE  MsgsOf(q, g) = MsgsOf(q, f)
BY DEF MsgsOf, Range

\* Everything in the line is a number, and a number only.
LEMMA PlacesAreNumbers ==
    ASSUME OwnInv
    PROVE  /\ got \in Seq(Number) /\ stream \in Seq(Number) /\ served \in Number /\ mixed \in Nat
           /\ Number \subseteq Nat /\ Rest \in Number /\ Rest = 0
           /\ Range(got) \subseteq Number /\ Range(stream) \subseteq Number
           /\ Range(QueuedMsgs) \subseteq Number
           /\ Copying \subseteq Number /\ Carried \subseteq Number
           /\ Rest \notin Copying /\ Rest \notin Carried
<1>1. /\ got \in Seq(Number) /\ stream \in Seq(Number) /\ served \in Number /\ mixed \in Nat
      /\ Number \subseteq Nat /\ Rest \in Number /\ Rest = 0
  BY SessionAssumption DEF OwnInv, TypeInv, InTypes, Number, Rest
<1>2. QueuedMsgs \in Seq(Number)
  BY QueuedAreASeq DEF OwnInv
<1>3. Range(got) \subseteq Number /\ Range(stream) \subseteq Number /\ Range(QueuedMsgs) \subseteq Number
  BY <1>1, <1>2, RangeOfSeq
<1>4. Copying \subseteq Number /\ Rest \notin Copying
  <2>1. CASE pc["main"] = "copy"
    <3>1. hand.main \in 1 .. Entities /\ hand.main \in InUse
      BY <2>1 DEF OwnInv, TypeInv, InTypes, InUse, MainHas
    <3>. QED BY <2>1, <3>1 DEF OwnInv, TypeInv, InTypes, Whole, Copying, Number
  <2>2. CASE pc["main"] # "copy"
    BY <2>2 DEF Copying
  <2>. QED BY <2>1, <2>2
<1>5. Carried \subseteq Number /\ Rest \notin Carried
  <2>1. CASE pc["recv"] = "push"
    <3>1. hand.recv \in 1 .. Entities /\ hand.recv \in InUse
      BY <2>1 DEF OwnInv, TypeInv, InTypes, InUse, RecvHas
    <3>. QED BY <2>1, <3>1 DEF OwnInv, TypeInv, InTypes, Whole, Carried, Number
  <2>2. CASE pc["recv"] = "deserialize"
    BY <2>2 DEF OwnInv, TypeInv, InTypes, Whole, Carried, Number
  <2>3. CASE pc["recv"] \notin {"push", "deserialize"}
    BY <2>3 DEF Carried
  <2>. QED BY <2>1, <2>2, <2>3
<1>. QED BY <1>1, <1>3, <1>4, <1>5

LEMMA OrderInit == Init => InOrder /\ OneByOne
<1> SUFFICES ASSUME Init PROVE InOrder /\ OneByOne
  OBVIOUS
<1>1. /\ got = << >> /\ stream = << >> /\ recvQueue = << >> /\ served = 0
      /\ pc["main"] = "acquire" /\ pc["recv"] = "born"
  BY DEF Init
<1>2. QueuedMsgs = << >>
  BY <1>1 DEF QueuedMsgs, MsgsOf
<1>3. Range(<< >>) = {} /\ Ordered(<< >>) /\ Len(<< >>) = 0
  BY ShortLists
<1>4. Copying = {} /\ Carried = {}
  BY <1>1 DEF Copying, Carried
<1>5. InOrder
  BY <1>1, <1>2, <1>3, <1>4 DEF InOrder, Below, BehindQueue, BehindCopy, BehindGot
<1>6. OneByOne
  BY <1>1, <1>3, <1>4 DEF OneByOne, One
<1>. QED BY <1>5, <1>6

OrderInv == OwnInv /\ InOrder /\ OneByOne

\* A receive: what is left of the stream is behind the message that was taken from it.
LEMMA OrderReceive == OrderInv /\ OwnInv' /\ RecvBytes => InOrder' /\ OneByOne'
<1> SUFFICES ASSUME OrderInv, OwnInv', RecvBytes PROVE InOrder' /\ OneByOne'
  OBVIOUS
<1> DEFINE left(k) == SubSeq(stream, k + 1, Len(stream))
<1>1. PICK k \in 1 .. Len(stream), inside \in BOOLEAN :
          LET one == k = 1 /\ ~inside
              whole == one /\ Head(stream) # Rest
          IN  /\ mixed' = IF one THEN mixed ELSE mixed + 1
              /\ stream' = IF inside THEN <<Rest>> \o left(k) ELSE left(k)
              /\ pc["recv"] = "read" /\ pc'["main"] = pc["main"]
              /\ pc'["recv"] = IF whole THEN "deserialize" ELSE "read"
              /\ hand'.main = hand.main
              /\ hand'.read = IF whole THEN Head(stream) ELSE hand.read
  BY ReceiveStep DEF OrderInv, OwnInv
<1> DEFINE one == k = 1 /\ ~inside
           whole == one /\ Head(stream) # Rest
           t == left(k)
<1>2. UNCHANGED <<interrupted, served, content, recvQueue, got>>
  BY DEF RecvBytes, calm
<1>3. /\ UNCHANGED <<QueuedMsgs, Copying, Steady>>
      /\ Carried = {} /\ Carried' = IF whole THEN {Head(stream)} ELSE {}
  BY <1>1, <1>2 DEF QueuedMsgs, Copying, Steady, Carried
<1>4. /\ got \in Seq(Number) /\ stream \in Seq(Number) /\ served \in Number /\ mixed \in Nat
      /\ Number \subseteq Nat /\ Rest \in Number /\ Rest = 0 /\ Range(stream) \subseteq Number
  BY PlacesAreNumbers DEF OrderInv
<1>5. /\ Head(stream) \in Range(stream) /\ t \in Seq(Number) /\ Range(t) \subseteq Range(stream)
      /\ k = 1 => Len(stream) = Len(t) + 1
      /\ Ordered(t) /\ Below({Head(stream)}, Range(t))
  BY <1>4, RestOfList DEF OrderInv, InOrder
<1>6. (stream' = t /\ (whole \/ ~whole)) \/ (stream' = <<Rest>> \o t /\ ~whole)
  BY <1>1
<1>7. (one => stream' = t) /\ mixed' = IF one THEN mixed ELSE mixed + 1
  BY <1>1
<1> HIDE DEF left, t
<1>8. Ordered(<<Rest>> \o t) /\ Range(<<Rest>> \o t) = {Rest} \union Range(t)
  <2>1. <<Rest>> \in Seq(Number) /\ Range(<<Rest>>) = {Rest} /\ Ordered(<<Rest>>)
    BY <1>4, ShortLists
  <2>2. Range(t) \subseteq Nat
    BY <1>4, <1>5
  <2>3. Below({Rest}, Range(t))
    BY <1>4, <2>2 DEF Below
  <2> DEFINE r == <<Rest>>
  <2>4. r \in Seq(Number) /\ Range(r) = {Rest} /\ Ordered(r)
    BY <2>1
  <2> HIDE DEF r
  <2>5. r \in Seq(Number) /\ t \in Seq(Number) /\ Ordered(r) /\ Ordered(t) /\ Below(Range(r), Range(t))
    BY <1>5, <2>3, <2>4
  <2>6. Ordered(r \o t) /\ Range(r \o t) = Range(r) \union Range(t)
    BY <2>5, JoinedLists
  <2>. QED BY <2>4, <2>6 DEF r
<1>9. Ordered(stream') /\ Range(stream') \subseteq Range(t) \union {Rest}
      /\ (one => Range(stream') = Range(t))
  BY <1>5, <1>6, <1>7, <1>8
<1>10. InOrder'
  <2>1. Below(Carried', Range(stream'))
    BY <1>3, <1>5, <1>9 DEF Below
  <2>2. /\ BehindQueue' \subseteq BehindQueue \union {Rest}
        /\ BehindCopy' \subseteq BehindCopy \union {Rest}
        /\ BehindGot' \subseteq BehindGot \union {Rest}
    BY <1>3, <1>5, <1>9 DEF BehindQueue, BehindCopy, BehindGot
  <2>3. /\ Below(Range(QueuedMsgs), BehindQueue') /\ Below(Copying, BehindCopy')
        /\ Below(Range(got), BehindGot')
    BY <2>2 DEF OrderInv, InOrder, Below
  <2>4. \A n \in Range(got) \union BehindGot' : n <= served
    <3>1. Rest <= served
      BY <1>4
    <3>. QED BY <2>2, <3>1 DEF OrderInv, InOrder
  <2>. QED BY <1>2, <1>3, <1>9, <2>1, <2>3, <2>4 DEF OrderInv, InOrder
<1>3a. OneByOne'
  <2> SUFFICES ASSUME mixed' = 0
               PROVE  /\ Rest \notin Range(stream')
                      /\ Steady' => Len(got') + One(Copying') + Len(recvQueue') + One(Carried')
                                        + Len(stream') = served'
    BY DEF OneByOne
  <2>1. one /\ mixed = 0
    BY <1>4, <1>7
  <2>2. /\ Rest \notin Range(stream)
        /\ Steady => Len(got) + One(Copying) + Len(recvQueue) + One(Carried) + Len(stream) = served
    BY <2>1 DEF OrderInv, OneByOne
  <2>3. whole /\ Rest \notin Range(stream')
    BY <1>5, <1>9, <2>1, <2>2
  <2>4. One(Carried) = 0 /\ One(Carried') = 1
    BY <1>3, <2>3 DEF One
  <2>5. Len(stream) = Len(stream') + 1 /\ Len(stream') \in Nat
    BY <1>5, <1>7, <2>1, LenProperties
  <2>6. Len(got) \in Nat /\ Len(recvQueue) \in Nat /\ One(Copying) \in Nat
    BY <1>4, QueuedAreASeq, LenProperties DEF OrderInv, OwnInv, One
  <2>. QED BY <1>2, <1>3, <2>2, <2>3, <2>4, <2>5, <2>6
<1>. QED BY <1>10, <1>3a

\* What leaves the line or stays in it leaves the rest in order.
LEMMA OrderKept ==
    ASSUME OrderInv, UNCHANGED <<QueuedMsgs, got, stream, served, mixed, recvQueue>>,
           Copying' \subseteq Copying, Carried' \subseteq Carried,
           Steady' => Steady /\ Copying' = Copying /\ Carried' = Carried
    PROVE  InOrder' /\ OneByOne'
<1>1. /\ BehindQueue' \subseteq BehindQueue /\ BehindCopy' \subseteq BehindCopy
      /\ BehindGot' \subseteq BehindGot
  BY DEF BehindQueue, BehindCopy, BehindGot
<1>2. /\ Below(Carried', Range(stream)) /\ Below(Range(QueuedMsgs), BehindQueue')
      /\ Below(Copying', BehindCopy') /\ Below(Range(got), BehindGot')
      /\ \A n \in Range(got) \union BehindGot' : n <= served
  BY <1>1 DEF OrderInv, InOrder, Below
<1>3. InOrder'
  BY <1>2 DEF OrderInv, InOrder
<1>4. OneByOne'
  BY DEF OrderInv, OneByOne
<1>. QED BY <1>3, <1>4

LEMMA OrderNext == OrderInv /\ OwnInv' /\ [Next]_vars => InOrder' /\ OneByOne'
<1> SUFFICES ASSUME OrderInv, OwnInv', [Next]_vars PROVE InOrder' /\ OneByOne'
  OBVIOUS
<1> DEFINE q == QueuedMsgs
<1>1. /\ recvQueue \in Seq(DeEntity) /\ content \in [DeEntity -> Number]
      /\ q \in Seq(Number) /\ Len(q) = Len(recvQueue) /\ Len(q) \in Nat
      /\ Len(got) \in Nat /\ Len(stream) \in Nat
  BY QueuedAreASeq, PlacesAreNumbers, LenProperties DEF OrderInv, OwnInv
<1>2. CASE RecvBytes
  BY <1>2, OrderReceive
<1>3. CASE RecvDeSerialize
  <2>1. PICK e \in 1 .. Entities :
            /\ e \notin lent /\ content' = [content EXCEPT ![e] = hand.read]
            /\ hand'.recv = e /\ hand'.main = hand.main
            /\ pc["recv"] = "deserialize" /\ pc'["recv"] = "push" /\ pc'["main"] = pc["main"]
    BY <1>3, LentEntity DEF OrderInv, OwnInv
  <2>2. UNCHANGED <<interrupted, recvQueue, got, stream, served, mixed>>
    BY <1>3 DEF RecvDeSerialize, calm
  <2>3. content'[e] = hand.read /\ \A d \in lent : content'[d] = content[d]
    BY <2>1 DEF OrderInv, OwnInv, TypeInv, InTypes
  <2>4. InUse \subseteq lent
    BY DEF OrderInv, OwnInv, Owners
  <2>5. UNCHANGED QueuedMsgs
    <3>1. \A d \in Range(recvQueue) : content'[d] = content[d]
      BY <2>3, <2>4 DEF InUse, Queued
    <3>2. content' \in [DeEntity -> Number]
      BY DEF OwnInv, TypeInv, InTypes, DeEntity, Number
    <3>3. MsgsOf(recvQueue, content') = MsgsOf(recvQueue, content)
      BY <1>1, <3>1, <3>2, MsgsUnchanged
    <3>. QED BY <2>2, <3>3 DEF QueuedMsgs
  <2>6. UNCHANGED <<Copying, Carried, Steady>>
    <3>1. pc["main"] = "copy" => hand.main \in lent
      BY <2>4 DEF InUse, MainHas
    <3>. QED BY <2>1, <2>2, <2>3, <3>1 DEF Copying, Carried, Steady
  <2>. QED BY <2>2, <2>5, <2>6, OrderKept
<1>4. CASE RecvPush
  <2>1. /\ hand.recv \in DeEntity /\ recvQueue' = Append(recvQueue, hand.recv)
        /\ pc["recv"] = "push" /\ pc'["recv"] = "read" /\ pc'["main"] = pc["main"]
        /\ UNCHANGED <<interrupted, content, hand, got, stream, served, mixed>>
    BY <1>4 DEF RecvPush, Goto, calm, OrderInv, OwnInv, TypeInv, ProcessTypes, InTypes, Threads, DeEntity
  <2> DEFINE c == content[hand.recv]
  <2>2. QueuedMsgs' = Append(q, c)
    BY <1>1, <2>1, MsgsAppended DEF QueuedMsgs
  <2>3. UNCHANGED <<Copying, Steady>> /\ Carried = {c} /\ Carried' = {}
    BY <2>1 DEF Copying, Steady, Carried
  <2>4. c \in Number
    BY <1>1, <2>1
  <2> HIDE DEF q, c
  <2>5. Below(Range(q), Carried) /\ Ordered(q)
    BY DEF OrderInv, InOrder, BehindQueue, Below, q
  <2>6. Ordered(QueuedMsgs') /\ Range(QueuedMsgs') = Range(QueuedMsgs) \union Carried
    BY <1>1, <2>2, <2>3, <2>4, <2>5, AppendedList DEF q
  <2>7. BehindQueue' = Range(stream) /\ UNCHANGED <<BehindCopy, BehindGot>>
    BY <2>1, <2>3, <2>6 DEF BehindQueue, BehindCopy, BehindGot
  <2>8. Below(Range(QueuedMsgs'), BehindQueue') /\ Below(Carried', Range(stream))
    BY <2>3, <2>6, <2>7 DEF OrderInv, InOrder, BehindQueue, Below
  <2>9. InOrder'
    BY <2>1, <2>3, <2>6, <2>7, <2>8 DEF OrderInv, InOrder
  <2>10. Len(recvQueue') = Len(recvQueue) + 1
    BY <1>1, <2>1, AppendedList
  <2>11. One(Carried) = 1 /\ One(Carried') = 0 /\ One(Copying) \in Nat
    BY <2>3 DEF One
  <2>12. OneByOne'
    BY <1>1, <2>1, <2>3, <2>10, <2>11 DEF OrderInv, OneByOne
  <2>. QED BY <2>9, <2>12
<1>5. CASE Pop
  <2>1. /\ recvQueue # << >> /\ recvQueue' = Tail(recvQueue)
        /\ hand'.main = Head(recvQueue) /\ hand'.recv = hand.recv /\ hand'.read = hand.read
        /\ pc["main"] = "pop" /\ pc'["main"] = "copy" /\ pc'["recv"] = pc["recv"]
        /\ UNCHANGED <<interrupted, content, got, stream, served, mixed>>
    BY <1>5, PoppedEntity DEF Pop, calm, OrderInv, OwnInv
  <2> DEFINE c == content[Head(recvQueue)]
  <2>2. q # << >> /\ Head(q) = c /\ QueuedMsgs' = Tail(q)
    BY <1>1, <2>1, MsgsTaken DEF QueuedMsgs
  <2>3. UNCHANGED <<Carried, Steady>> /\ Copying = {} /\ Copying' = {c}
    BY <2>1 DEF Copying, Steady, Carried
  <2> HIDE DEF q, c
  <2>4. Ordered(q)
    BY DEF OrderInv, InOrder, q
  <2>5. /\ Ordered(QueuedMsgs') /\ Range(QueuedMsgs) = Range(QueuedMsgs') \union {c}
        /\ Below({c}, Range(QueuedMsgs'))
    <3>1. q \in Seq(Number) /\ q # << >> /\ Ordered(q)
      BY <1>1, <2>2, <2>4
    <3>2. /\ Ordered(Tail(q)) /\ Range(q) = {Head(q)} \union Range(Tail(q))
          /\ Below({Head(q)}, Range(Tail(q)))
      BY <3>1, TakenList
    <3>. QED BY <2>2, <3>2 DEF q
  <2>6. UNCHANGED <<BehindQueue, BehindGot>> /\ BehindCopy = BehindCopy' \union {c}
    BY <2>1, <2>3, <2>5 DEF BehindQueue, BehindCopy, BehindGot
  <2>7. Below({c}, BehindQueue) /\ Below(Range(QueuedMsgs'), BehindQueue)
    BY <2>5 DEF OrderInv, InOrder, Below
  <2>8. Below(Copying', BehindCopy')
    BY <2>3, <2>5, <2>6, <2>7 DEF BehindCopy, Below
  <2>9. InOrder'
    BY <2>1, <2>3, <2>5, <2>6, <2>7, <2>8 DEF OrderInv, InOrder
  <2>10. Len(recvQueue) = Len(recvQueue') + 1 /\ Len(recvQueue') \in Nat
    BY <1>1, <2>1, TakenList, LenProperties
  <2>11. One(Copying) = 0 /\ One(Copying') = 1 /\ One(Carried) \in Nat
    BY <2>3 DEF One
  <2>12. OneByOne'
    <3>1. Steady' = Steady /\ One(Carried') = One(Carried)
      BY <2>3
    <3>2. Len(got) + 1 + Len(recvQueue') + One(Carried) + Len(stream)
              = Len(got) + 0 + Len(recvQueue) + One(Carried) + Len(stream)
      BY <1>1, <2>10, <2>11
    <3>. QED BY <2>1, <2>11, <3>1, <3>2 DEF OrderInv, OneByOne
  <2>. QED BY <2>9, <2>12
<1>6. CASE Copy
  <2>1. /\ pc["main"] = "copy" /\ pc'["main"] = "free" /\ pc'["recv"] = pc["recv"]
        /\ got' = Append(got, content[hand.main])
        /\ UNCHANGED <<interrupted, content, hand, recvQueue, stream, served, mixed>>
    BY <1>6 DEF Copy, Goto, calm, OrderInv, OwnInv, TypeInv, ProcessTypes, Threads
  <2> DEFINE c == content[hand.main]
  <2>2. UNCHANGED <<Carried, Steady, QueuedMsgs>> /\ Copying = {c} /\ Copying' = {}
    BY <2>1 DEF Copying, Steady, Carried, QueuedMsgs
  <2>3. got \in Seq(Number) /\ c \in Number /\ got' = Append(got, c)
    BY <2>1, <2>2, PlacesAreNumbers DEF OrderInv
  <2> HIDE DEF c
  <2>4. Ordered(got) /\ Below(Range(got), {c})
    BY <2>2 DEF OrderInv, InOrder, BehindGot, Below
  <2>5. Ordered(got') /\ Range(got') = Range(got) \union {c} /\ Len(got') = Len(got) + 1
    BY <2>3, <2>4, AppendedList
  <2>6. UNCHANGED <<BehindQueue, BehindCopy>> /\ BehindGot' = BehindCopy
        /\ BehindGot = {c} \union BehindCopy
    BY <2>1, <2>2 DEF BehindQueue, BehindCopy, BehindGot
  <2>7. Below(Range(got'), BehindGot') /\ Below(Copying', BehindCopy')
        /\ \A n \in Range(got') \union BehindGot' : n <= served
    BY <2>2, <2>5, <2>6 DEF OrderInv, InOrder, Below
  <2>8. InOrder'
    BY <2>1, <2>2, <2>5, <2>6, <2>7 DEF OrderInv, InOrder
  <2>9. One(Copying) = 1 /\ One(Copying') = 0 /\ One(Carried) \in Nat
    BY <2>2 DEF One
  <2>10. OneByOne'
    BY <1>1, <2>1, <2>2, <2>5, <2>9 DEF OrderInv, OneByOne
  <2>. QED BY <2>8, <2>10
<1>7. CASE Free
  <2>1. /\ pc["main"] = "free" /\ pc'["main"] = "idle" /\ pc'["recv"] = pc["recv"]
        /\ UNCHANGED <<interrupted, content, hand, recvQueue, got, stream, served, mixed>>
    BY <1>7 DEF Free, Goto, calm, OrderInv, OwnInv, TypeInv, ProcessTypes, Threads
  <2>2. UNCHANGED <<QueuedMsgs, Copying, Carried, Steady>>
    BY <2>1 DEF QueuedMsgs, Copying, Carried, Steady
  <2>. QED BY <2>1, <2>2, OrderKept
<1>8. CASE ServerSend
  <2>1. /\ served' = served + 1 /\ stream' = Append(stream, served + 1) /\ served' \in Number
        /\ UNCHANGED <<pc, interrupted, content, hand, recvQueue, got, mixed>>
    BY <1>8, PlacesAreNumbers DEF ServerSend, processVars, OwnInv, TypeInv, InTypes, Number
  <2>2. UNCHANGED <<QueuedMsgs, Copying, Carried, Steady>>
    BY <2>1 DEF QueuedMsgs, Copying, Carried, Steady
  <2>3. /\ stream \in Seq(Number) /\ Number \subseteq Nat /\ served \in Number /\ Rest = 0
        /\ Range(stream) \subseteq Number /\ Range(got) \subseteq Number
        /\ Range(QueuedMsgs) \subseteq Number
        /\ Copying \subseteq Number /\ Carried \subseteq Number
    BY PlacesAreNumbers DEF OrderInv
  <2> DEFINE n == served'
             all == Range(got) \union BehindGot
  <2>4. all \subseteq Nat /\ (\A m \in all : m <= served) /\ n = served + 1 /\ served \in Nat
    BY <2>1, <2>3 DEF OrderInv, InOrder, BehindQueue, BehindCopy, BehindGot
  <2>5. \A m \in all : m < n /\ m <= n
    BY <2>4
  <2>6. Below(Range(stream), {n}) /\ stream' = Append(stream, n) /\ n \in Number
    BY <2>1, <2>5 DEF Below, BehindQueue, BehindCopy, BehindGot
  <2> HIDE DEF n, all
  <2>7. Ordered(stream') /\ Range(stream') = Range(stream) \union {n} /\ Len(stream') = Len(stream) + 1
    BY <2>3, <2>6, AppendedList DEF OrderInv, InOrder
  <2>8. /\ BehindQueue' = BehindQueue \union {n} /\ BehindCopy' = BehindCopy \union {n}
        /\ BehindGot' = BehindGot \union {n}
    BY <2>2, <2>7 DEF BehindQueue, BehindCopy, BehindGot
  <2>9. Range(QueuedMsgs) \union Copying \union Carried \union Range(got) \subseteq all
    BY DEF all, BehindQueue, BehindCopy, BehindGot
  <2>10. /\ Below(Carried, Range(stream')) /\ Below(Range(QueuedMsgs), BehindQueue')
         /\ Below(Copying, BehindCopy') /\ Below(Range(got), BehindGot')
    BY <2>5, <2>7, <2>8, <2>9 DEF OrderInv, InOrder, Below
  <2>11. \A m \in Range(got) \union BehindGot' : m <= n
    <3>1. n \in Nat /\ n <= n
      BY <2>1, <2>3 DEF n
    <3>. QED BY <2>5, <2>8, <3>1 DEF all
  <2>12. InOrder'
    BY <2>1, <2>2, <2>7, <2>10, <2>11 DEF OrderInv, InOrder, n
  <2>13. Rest \notin Range(stream) => Rest \notin Range(stream')
    BY <2>3, <2>4, <2>7
  <2>14. One(Carried) \in Nat /\ One(Copying) \in Nat
    BY DEF One
  <2>15. OneByOne'
    BY <1>1, <2>1, <2>2, <2>3, <2>7, <2>13, <2>14 DEF OrderInv, OneByOne
  <2>. QED BY <2>12, <2>15
<1>9. CASE ~RecvBytes /\ ~RecvDeSerialize /\ ~RecvPush /\ ~Pop /\ ~Copy /\ ~Free /\ ~ServerSend
  <2>1. /\ UNCHANGED inVars
        /\ UNCHANGED interrupted \/ interrupted' # "no"
        /\ \/ pc'["main"] = pc["main"]
           \/ {pc["main"], pc'["main"]} \intersect {"copy", "free"} = {}
           \/ interrupted' # "no" /\ pc'["main"] \notin {"copy", "free"}
        /\ \/ pc'["recv"] = pc["recv"]
           \/ pc'["recv"] = "dead"
           \/ pc["recv"] = "born" /\ pc'["recv"] = "read"
    BY <1>9, NotReceiving DEF OrderInv, OwnInv
  <2>2. UNCHANGED <<content, hand, recvQueue, got, stream, served, mixed>>
    BY <2>1 DEF inVars
  <2>3. /\ UNCHANGED QueuedMsgs
        /\ Copying' = Copying \/ (Copying' = {} /\ interrupted' # "no")
        /\ Carried' = Carried \/ (Carried' = {} /\ pc'["recv"] = "dead")
        /\ Steady' => Steady
    BY <2>1, <2>2 DEF QueuedMsgs, Copying, Carried, Steady
  <2>4. /\ Copying' \subseteq Copying /\ Carried' \subseteq Carried
        /\ Steady' => Steady /\ Copying' = Copying /\ Carried' = Carried
    BY <2>3 DEF Steady
  <2>. QED BY <2>2, <2>3, <2>4, OrderKept
<1>. QED BY <1>2, <1>3, <1>4, <1>5, <1>6, <1>7, <1>8, <1>9

LEMMA OrderInvariant == SafeSpec => []OrderInv
<1>1. OrderInv /\ OwnInv' /\ [Next]_vars => OrderInv'
  BY OrderNext DEF OrderInv
<1>2. Init => OrderInv
  BY OrderInit, OwnersInit, TypeInit DEF OrderInv, OwnInv
<1>. QED BY <1>1, <1>2, OwnInvariant, PTL DEF SafeSpec

\* One place of the line behind what is before it.
LEMMA LineLonger ==
    ASSUME NEW s \in Seq(Number), NEW t \in Seq(Number), Ordered(s), Ordered(t),
           Below(Range(s), Range(t))
    PROVE  /\ s \o t \in Seq(Number) /\ Ordered(s \o t) /\ Range(s \o t) = Range(s) \union Range(t)
           /\ Len(s \o t) = Len(s) + Len(t)
BY JoinedLists

LEMMA NoNumbers ==
    << >> \in Seq(Number) /\ Range(<< >>) = {} /\ Ordered(<< >>) /\ Len(<< >>) = 0
BY DEF Range, Ordered

\* ReceivedInOrder: what RecvMsg has returned, what main copies, the queue, what recv
\* carries and what it can still read are one line of ever higher numbers; and unless a
\* receive was of more or less than one message, or a thread is gone with one in hand,
\* the line has every message that the server has sent.
THEOREM MessagesAreReceivedInOrder == SafeSpec => []ReceivedInOrder
<1>1. OrderInv => ReceivedInOrder
  <2> SUFFICES ASSUME OrderInv PROVE ReceivedInOrder
    OBVIOUS
  <2> DEFINE m == IF pc["main"] = "copy" THEN <<content[hand.main]>> ELSE << >>
             q == QueuedMsgs
             p == IF pc["recv"] = "push" THEN <<content[hand.recv]>> ELSE << >>
             d == IF pc["recv"] = "deserialize" THEN <<hand.read>> ELSE << >>
             P == Range(p)
             D == Range(d)
  <2>1. /\ got \in Seq(Number) /\ stream \in Seq(Number) /\ q \in Seq(Number)
        /\ Len(q) = Len(recvQueue)
        /\ Copying \subseteq Number /\ Carried \subseteq Number
    BY PlacesAreNumbers, QueuedAreASeq DEF OrderInv, OwnInv
  <2>2. m \in Seq(Number) /\ Range(m) = Copying /\ Ordered(m) /\ Len(m) = One(Copying)
    <3>1. CASE pc["main"] = "copy"
      <4>1. content[hand.main] \in Number /\ Copying = {content[hand.main]}
        BY <2>1, <3>1 DEF Copying
      <4>. QED BY <3>1, <4>1, ShortLists DEF One
    <3>2. CASE pc["main"] # "copy"
      <4>1. m = << >> /\ Copying = {}
        BY <3>2 DEF Copying
      <4>. QED BY <4>1, NoNumbers DEF One
    <3>. QED BY <3>1, <3>2
  <2>3. /\ p \in Seq(Number) /\ d \in Seq(Number) /\ Ordered(p) /\ Ordered(d)
        /\ P \union D = Carried /\ Below(P, D) /\ Len(p) + Len(d) = One(Carried)
    <3>1. CASE pc["recv"] = "push"
      <4>1. content[hand.recv] \in Number /\ Carried = {content[hand.recv]}
        BY <2>1, <3>1 DEF Carried
      <4>2. p = <<content[hand.recv]>> /\ d = << >>
        BY <3>1
      <4>3. p \in Seq(Number) /\ P = Carried /\ Ordered(p) /\ Len(p) = 1
        BY <4>1, <4>2, ShortLists
      <4>4. d \in Seq(Number) /\ D = {} /\ Ordered(d) /\ Len(d) = 0
        BY <4>2, NoNumbers
      <4> HIDE DEF p, d, P, D
      <4>5. One(Carried) = 1
        BY <4>1 DEF One
      <4>6. P \union D = Carried /\ Below(P, D)
        BY <4>3, <4>4 DEF Below
      <4>. QED BY <4>3, <4>4, <4>5, <4>6
    <3>2. CASE pc["recv"] = "deserialize"
      <4>1. hand.read \in Number /\ Carried = {hand.read}
        BY <2>1, <3>2 DEF Carried
      <4>2. p = << >> /\ d = <<hand.read>>
        BY <3>2
      <4>3. d \in Seq(Number) /\ D = Carried /\ Ordered(d) /\ Len(d) = 1
        BY <4>1, <4>2, ShortLists
      <4>4. p \in Seq(Number) /\ P = {} /\ Ordered(p) /\ Len(p) = 0
        BY <4>2, NoNumbers
      <4> HIDE DEF p, d, P, D
      <4>5. One(Carried) = 1
        BY <4>1 DEF One
      <4>6. P \union D = Carried /\ Below(P, D)
        BY <4>3, <4>4 DEF Below
      <4>. QED BY <4>3, <4>4, <4>5, <4>6
    <3>3. CASE pc["recv"] \notin {"push", "deserialize"}
      <4>1. p = << >> /\ d = << >> /\ Carried = {}
        BY <3>3 DEF Carried
      <4>. QED BY <4>1, NoNumbers DEF One, Below
    <3>. QED BY <3>1, <3>2, <3>3
  <2> DEFINE a == got \o m
             b == a \o q
             c == b \o p
             e == c \o d
             l == e \o stream
  <2>4. Line = l
    BY DEF Line, QueuedMsgs, MsgsOf
  <2> HIDE DEF m, q, p, d, P, D, a, b, c, e, l
  <2>5. /\ Ordered(got) /\ Ordered(q) /\ Ordered(stream)
        /\ Below(Range(got), Copying)
        /\ Below(Range(got) \union Copying, Range(q))
        /\ Below((Range(got) \union Copying) \union Range(q), P)
        /\ Below(((Range(got) \union Copying) \union Range(q)) \union P, D)
        /\ Below((((Range(got) \union Copying) \union Range(q)) \union P) \union D, Range(stream))
    BY <2>3 DEF OrderInv, InOrder, Below, BehindGot, BehindCopy, BehindQueue, q
  <2>6. /\ a \in Seq(Number) /\ Ordered(a) /\ Range(a) = Range(got) \union Copying
        /\ Len(a) = Len(got) + Len(m)
    <3>1. Below(Range(got), Range(m))
      BY <2>2, <2>5
    <3>. QED BY <2>1, <2>2, <2>5, <3>1, LineLonger DEF a
  <2>7. /\ b \in Seq(Number) /\ Ordered(b) /\ Range(b) = (Range(got) \union Copying) \union Range(q)
        /\ Len(b) = Len(a) + Len(q)
    <3>1. Below(Range(a), Range(q))
      BY <2>5, <2>6
    <3>2. /\ b \in Seq(Number) /\ Ordered(b) /\ Range(b) = Range(a) \union Range(q)
          /\ Len(b) = Len(a) + Len(q)
      BY <2>1, <2>5, <2>6, <3>1, LineLonger DEF b
    <3>. QED BY <2>6, <3>2
  <2>8. /\ c \in Seq(Number) /\ Ordered(c)
        /\ Range(c) = ((Range(got) \union Copying) \union Range(q)) \union P
        /\ Len(c) = Len(b) + Len(p)
    <3>1. Below(Range(b), Range(p))
      BY <2>5, <2>7 DEF P
    <3>2. /\ c \in Seq(Number) /\ Ordered(c) /\ Range(c) = Range(b) \union Range(p)
          /\ Len(c) = Len(b) + Len(p)
      BY <2>3, <2>7, <3>1, LineLonger DEF c
    <3>. QED BY <2>7, <3>2 DEF P
  <2>9. /\ e \in Seq(Number) /\ Ordered(e)
        /\ Range(e) = (((Range(got) \union Copying) \union Range(q)) \union P) \union D
        /\ Len(e) = Len(c) + Len(d)
    <3>1. Below(Range(c), Range(d))
      BY <2>5, <2>8 DEF D
    <3>2. /\ e \in Seq(Number) /\ Ordered(e) /\ Range(e) = Range(c) \union Range(d)
          /\ Len(e) = Len(c) + Len(d)
      BY <2>3, <2>8, <3>1, LineLonger DEF e
    <3>. QED BY <2>8, <3>2 DEF D
  <2>10. Ordered(l) /\ Len(l) = Len(e) + Len(stream)
    <3>1. Below(Range(e), Range(stream))
      BY <2>5, <2>9
    <3>. QED BY <2>1, <2>5, <2>9, <3>1, LineLonger DEF l
  <2>11. /\ Len(got) \in Nat /\ Len(stream) \in Nat /\ Len(recvQueue) \in Nat
         /\ Len(p) \in Nat /\ Len(d) \in Nat /\ One(Copying) \in Nat
    BY <2>1, <2>3, LenProperties DEF One
  <2>12. Len(l) = Len(got) + One(Copying) + Len(recvQueue) + One(Carried) + Len(stream)
    <3>1. /\ Len(l) = Len(e) + Len(stream) /\ Len(e) = Len(c) + Len(d) /\ Len(c) = Len(b) + Len(p)
          /\ Len(b) = Len(a) + Len(recvQueue) /\ Len(a) = Len(got) + One(Copying)
          /\ Len(p) + Len(d) = One(Carried)
      BY <2>1, <2>2, <2>3, <2>6, <2>7, <2>8, <2>9, <2>10
    <3>. QED BY <2>11, <3>1
  <2>13. mixed = 0 /\ interrupted = "no" /\ pc["recv"] # "dead" => Len(Line) = served
    BY <2>4, <2>12 DEF OrderInv, OneByOne, Steady
  <2>. QED BY <2>4, <2>10, <2>13 DEF ReceivedInOrder, Ordered
<1>. QED BY <1>1, OrderInvariant, PTL

-----------------------------------------------------------------------------
(***************************************************************************)
(* Sending in order                                                        *)
(***************************************************************************)
LEMMA KindsDiffer ==
    /\ Reg # DeReg /\ Reg.kind # "data" /\ DeReg.kind # "data"
    /\ \A n : Data(n).kind = "data" /\ Data(n).n = n /\ Data(n) # Reg /\ Data(n) # DeReg
<1>1. Reg.kind = "reg" /\ DeReg.kind = "dereg" /\ \A n : Data(n).kind = "data" /\ Data(n).n = n
  BY DEF Reg, DeReg, Data
<1>. QED BY <1>1

\* What one message more on the wire is to the data messages and their count.
LEMMA WrittenAppended ==
    ASSUME NEW w \in Seq(Message), NEW e \in Message
    PROVE  LET v == Append(w, e) IN
           /\ DOMAIN v = DOMAIN w \union {Len(w) + 1} /\ Len(w) + 1 \notin DOMAIN w
           /\ v[Len(w) + 1] = e /\ \A i \in DOMAIN w : v[i] = w[i]
           /\ Cardinality(Written(w)) \in Nat
           /\ e.kind # "data" => Written(v) = Written(w)
           /\ e.kind = "data" =>
                  /\ Written(v) = Written(w) \union {Len(w) + 1}
                  /\ Cardinality(Written(v)) = Cardinality(Written(w)) + 1
                  /\ {j \in Written(v) : j <= Len(w) + 1} = Written(v)
           /\ \A i \in DOMAIN w : {j \in Written(v) : j <= i} = {j \in Written(w) : j <= i}
<1> DEFINE v == Append(w, e)
           k == Len(w) + 1
<1>1. v \in Seq(Message) /\ Len(v) = k /\ v[k] = e /\ \A i \in 1 .. Len(w) : v[i] = w[i]
  BY AppendProperties
<1>2. Len(w) \in Nat /\ DOMAIN w = 1 .. Len(w) /\ DOMAIN v = 1 .. k
  BY <1>1, LenProperties
<1>3. DOMAIN v = DOMAIN w \union {k} /\ k \notin DOMAIN w
  BY <1>2
<1>4. IsFiniteSet(Written(w)) /\ Cardinality(Written(w)) \in Nat
  <2>1. IsFiniteSet(DOMAIN w)
    BY <1>2, FS_Interval
  <2>2. Written(w) \subseteq DOMAIN w
    BY DEF Written
  <2>3. IsFiniteSet(Written(w))
    BY <2>1, <2>2, FS_Subset
  <2>. QED BY <2>3, FS_CardinalityType
<1>5. /\ \A i \in DOMAIN w : i <= k /\ ~(k <= i)
      /\ k <= k
  BY <1>2
<1> HIDE DEF v, k
<1>6. e.kind # "data" => Written(v) = Written(w)
  BY <1>1, <1>2, <1>3 DEF Written
<1>7. ASSUME e.kind = "data"
      PROVE  /\ Written(v) = Written(w) \union {k}
             /\ Cardinality(Written(v)) = Cardinality(Written(w)) + 1
             /\ {j \in Written(v) : j <= k} = Written(v)
  <2>1. Written(v) = Written(w) \union {k}
    BY <1>1, <1>2, <1>3, <1>7 DEF Written
  <2>2. k \notin Written(w)
    BY <1>3 DEF Written
  <2>3. Cardinality(Written(w) \union {k}) = Cardinality(Written(w)) + 1
    BY <1>4, <2>2, FS_AddElement
  <2>4. \A j \in Written(v) : j <= k
    BY <1>5, <2>1 DEF Written
  <2>. QED BY <2>1, <2>3, <2>4
<1>8. ASSUME NEW i \in DOMAIN w
      PROVE  {j \in Written(v) : j <= i} = {j \in Written(w) : j <= i}
  <2>1. ~(k <= i)
    BY <1>5
  <2>2. Written(v) = Written(w) \/ Written(v) = Written(w) \union {k}
    BY <1>6, <1>7
  <2>. QED BY <2>1, <2>2
<1>. QED BY <1>1, <1>2, <1>3, <1>4, <1>6, <1>7, <1>8 DEF v, k

Carries == pc["send"] \in {"acquire", "mark", "fill", "write"}
Sending == pc["main"] \in {"acquire", "mark", "fill", "write"}
Calling == pc["main"] \in {"idle", "pop", "copy", "free"}

\* What a writer writes is its message, though the other may use the entity after it.
Filled == \A u \in Writers : pc[u] = "write" => buffer[entity[u]] = msg[u]

\* main writes Reg and DeReg, send the messages of SendMsg: the queue holds the last
\* ones, send has the one before them; there are none before main has registered.
OwnMessages ==
    /\ msg["main"] \in {Reg, DeReg}
    /\ \A i \in 1 .. Len(sendQueue) : sendQueue[i] = Data(sent - Len(sendQueue) + i)
    /\ Carries => msg["send"] = Data(sent - Len(sendQueue))
    /\ Sending /\ msg["main"] = Reg => wire = << >> /\ sendQueue = << >> /\ ~Carries

Numbered == \A i \in Written(wire) : wire[i].n = Cardinality({j \in Written(wire) : j <= i})

NothingIsLost ==
    server = "open" /\ pc["send"] # "dead" =>
        Cardinality(Written(wire)) + (IF Carries THEN 1 ELSE 0) + Len(sendQueue) = sent

RegisteredFirst == \A i \in DOMAIN wire : wire[i] = Reg => i = 1

\* Exit does not come back to the calls.
DeRegisteredOnce ==
    interrupted = "no" =>
        /\ Calling => msg["main"] = Reg
        /\ Sending \/ msg["main"] = Reg => \A i \in DOMAIN wire : wire[i] # DeReg
        /\ \A i, j \in DOMAIN wire : wire[i] = DeReg /\ wire[j] = DeReg => i = j

SendInv ==
    /\ TypeInv /\ Filled /\ OwnMessages /\ Numbered /\ NothingIsLost /\ RegisteredFirst
    /\ DeRegisteredOnce

LEMMA SendInit == Init => SendInv
<1> SUFFICES ASSUME Init PROVE SendInv
  OBVIOUS
<1>1. /\ pc["main"] = "acquire" /\ pc["send"] = "born" /\ wire = << >> /\ sendQueue = << >>
      /\ sent = 0 /\ \A u \in Writers : msg[u] = Reg /\ pc[u] # "write"
  BY DEF Init, Writers
<1>2. Written(wire) = {} /\ Cardinality(Written(wire)) = 0 /\ Len(sendQueue) = 0
  BY <1>1, FS_EmptySet DEF Written
<1>3. ~Carries
  BY <1>1 DEF Carries
<1>4. DOMAIN wire = {} /\ \A i \in 1 .. Len(sendQueue) : FALSE
  BY <1>1, <1>2
<1>5. msg["main"] = Reg
  BY <1>1 DEF Writers
<1>. QED BY <1>1, <1>2, <1>3, <1>4, <1>5, TypeInit
          DEF SendInv, Filled, OwnMessages, Numbered, NothingIsLost, RegisteredFirst, DeRegisteredOnce

\* A step that only moves threads, as far as what is sent is concerned.
LEMMA SendKept ==
    ASSUME SendInv, TypeInv', Filled', UNCHANGED <<msg, sendQueue, sent, wire>>,
           interrupted' = "no" => interrupted = "no",
           server' = "open" => server = "open",
           Carries' => Carries,
           server' = "open" /\ pc'["send"] # "dead" => pc["send"] # "dead" /\ (Carries' <=> Carries),
           Sending' => Sending,
           Calling' => Calling \/ msg["main"] = Reg
    PROVE  SendInv'
<1>1. OwnMessages'
  BY DEF SendInv, OwnMessages
<1>2. Numbered' /\ RegisteredFirst'
  BY DEF SendInv, Numbered, RegisteredFirst
<1>3. NothingIsLost'
  BY DEF SendInv, NothingIsLost
<1>4. DeRegisteredOnce'
  BY DEF SendInv, DeRegisteredOnce
<1>. QED BY <1>1, <1>2, <1>3, <1>4 DEF SendInv

LEMMA NotSending ==
    ASSUME TypeInv, [Next]_vars, \A u \in Writers : ~WriterStep(u),
           ~SendPop, ~SendMsg, ~Exit, ~Interrupt
    PROVE  /\ UNCHANGED <<msg, buffer, entity, sendQueue, sent, wire, interrupted>>
           /\ UNCHANGED server \/ server' = "closed"
           /\ \/ pc'["main"] = pc["main"]
              \/ /\ pc'["main"] \notin {"acquire", "mark", "fill", "write"}
                 /\ pc'["main"] \in {"idle", "pop", "copy", "free"} =>
                        pc["main"] \in {"idle", "pop", "copy", "free"}
           /\ \/ pc'["send"] = pc["send"]
              \/ pc'["send"] = "dead"
              \/ pc["send"] = "born" /\ pc'["send"] = "pop"
<1> USE DEF TypeInv, ProcessTypes, Threads, serializerVars, outVars, Goto
<1>1. CASE MainStep
  <2>1. CASE Pop \/ Copy \/ Free
    BY <2>1 DEF Pop, Copy, Free, calm
  <2>2. CASE \/ QuitNoDelay("send", "quitSend", "joinSend") \/ Join("send", "joinSend", "quitRecv")
             \/ QuitNoDelay("recv", "quitRecv", "joinRecv") \/ Join("recv", "joinRecv", "cleanUp")
    BY <2>2 DEF QuitNoDelay, Join, calm
  <2>3. CASE CleanUp \/ Forget
    BY <2>3 DEF CleanUp, Forget, calm
  <2>4. CASE FillThrows("main")
    BY <2>4 DEF FillThrows
  <2>. QED BY <1>1, <2>1, <2>2, <2>3, <2>4 DEF MainStep, Writers
<1>2. CASE SendStep
  BY <1>2 DEF SendStep, Install, FillThrows, Writers
<1>3. CASE RecvStep
  <2>1. /\ UNCHANGED <<serializerVars, outVars, interrupted>>
        /\ \E a, b : Goto("recv", a, b)
    BY <1>3 DEF RecvStep, Install, RecvBytes, RecvDeSerialize, RecvPush, calm
  <2>. QED BY <2>1
<1>4. ASSUME NEW t \in {"send", "recv"}, Die(t)
      PROVE  /\ UNCHANGED <<serializerVars, outVars, interrupted>> /\ pc'["main"] = pc["main"]
             /\ pc'["send"] = pc["send"] \/ pc'["send"] = "dead"
  BY <1>4 DEF Die
<1>5. CASE Call
  BY <1>5 DEF Call, RecvMsg, calm
<1>6. CASE Server \/ UNCHANGED vars
  BY <1>6 DEF Server, ServerRead, ServerSend, ServerClose, processVars, vars
<1>. QED BY <1>1, <1>2, <1>3, <1>4, <1>5, <1>6 DEF Next

\* A message more on the wire: the registration first, the deregistration once, the
\* messages of the queue one after the other.
LEMMA WriteStep ==
    ASSUME SendInv, TypeInv', NEW u \in Writers, Write(u)
    PROVE  SendInv'
<1>1. /\ pc[u] = "write" /\ pc'[u] = "release" /\ \A o \in Writers \ {u} : pc'[o] = pc[o]
      /\ UNCHANGED <<msg, buffer, entity, sendQueue, sent, server, interrupted>>
  BY DEF Write, Goto, serializerVars, SendInv, TypeInv, ProcessTypes, Threads, Writers
<1>2. Filled'
  BY <1>1 DEF SendInv, Filled
<1>3. /\ Carries' <=> Carries /\ u = "main"
      /\ u = "send" => Carries
      /\ Sending' <=> Sending /\ u = "send"
      /\ u = "main" => Sending
      /\ Calling' => Calling
      /\ pc'["send"] # "dead" => pc["send"] # "dead"
  BY <1>1 DEF Carries, Sending, Calling, Writers
<1>4. CASE server = "closed"
  <2>1. UNCHANGED wire
    BY <1>4 DEF Write
  <2>. QED BY <1>1, <1>2, <1>3, <1>4, <2>1, SendKept
<1>5. CASE server # "closed"
  <2> DEFINE e == msg[u]
             k == Len(wire) + 1
  <2>1. wire' = Append(wire, e)
    BY <1>1, <1>5 DEF Write, SendInv, Filled
  <2>2. wire \in Seq(Message) /\ e \in Message /\ Len(sendQueue) \in Nat /\ sent \in Nat
    BY LenProperties, SessionAssumption DEF SendInv, TypeInv, OutTypes, WriterTypes
  <2> HIDE DEF e
  <2>3. /\ DOMAIN wire' = DOMAIN wire \union {k} /\ k \notin DOMAIN wire
        /\ wire'[k] = e /\ \A i \in DOMAIN wire : wire'[i] = wire[i]
        /\ Cardinality(Written(wire)) \in Nat
        /\ e.kind # "data" => Written(wire') = Written(wire)
        /\ e.kind = "data" =>
               /\ Written(wire') = Written(wire) \union {k}
               /\ Cardinality(Written(wire')) = Cardinality(Written(wire)) + 1
               /\ {j \in Written(wire') : j <= k} = Written(wire')
        /\ \A i \in DOMAIN wire : {j \in Written(wire') : j <= i} = {j \in Written(wire) : j <= i}
    BY <2>1, <2>2, WrittenAppended
  <2> HIDE DEF k
  <2>4. \A i \in Written(wire) : i \in DOMAIN wire
    BY DEF Written
  <2>5. \A i \in Written(wire) :
            wire'[i].n = Cardinality({j \in Written(wire') : j <= i})
    BY <2>3, <2>4 DEF SendInv, Numbered
  <2>6. CASE u = "main"
    <3>1. (e = Reg \/ e = DeReg) /\ e.kind # "data" /\ e = msg["main"]
      BY <2>6, KindsDiffer DEF SendInv, OwnMessages, e
    <3>2. OwnMessages'
      BY <1>1, <1>3, <2>6 DEF SendInv, OwnMessages
    <3>3. Numbered' /\ NothingIsLost'
      BY <1>1, <1>3, <2>3, <2>5, <2>6, <3>1 DEF SendInv, Numbered, NothingIsLost
    <3>4. RegisteredFirst'
      <4>1. e = Reg => k = 1
        <5>1. e = Reg => wire = << >>
          BY <1>3, <2>6, <3>1 DEF SendInv, OwnMessages
        <5>. QED BY <5>1 DEF k
      <4>. QED BY <2>3, <4>1 DEF SendInv, RegisteredFirst
    <3>5. DeRegisteredOnce'
      <4> SUFFICES ASSUME interrupted = "no" PROVE DeRegisteredOnce'
        BY <1>1 DEF DeRegisteredOnce
      <4>1. \A i \in DOMAIN wire : wire[i] # DeReg
        BY <1>3, <2>6 DEF SendInv, DeRegisteredOnce
      <4>2. ~Sending' /\ ~(e = DeReg /\ msg["main"] = Reg)
        BY <1>3, <2>6, <3>1, KindsDiffer
      <4>3. Calling' => msg'["main"] = Reg
        BY <1>1, <1>3 DEF SendInv, DeRegisteredOnce
      <4>4. \A i \in DOMAIN wire' : wire'[i] = DeReg => i = k /\ e = DeReg
        BY <2>3, <4>1
      <4>. QED BY <1>1, <4>2, <4>3, <4>4 DEF DeRegisteredOnce
    <3>. QED BY <1>2, <3>2, <3>3, <3>4, <3>5 DEF SendInv
  <2>7. CASE u = "send"
    <3>1. e = Data(sent - Len(sendQueue)) /\ Carries
      BY <1>3, <2>7 DEF SendInv, OwnMessages, e
    <3>2. e.kind = "data" /\ e.n = sent - Len(sendQueue) /\ e # Reg /\ e # DeReg
      BY <3>1, KindsDiffer
    <3>3. server = "open" /\ pc["send"] # "dead" /\ ~Carries'
      BY <1>1, <1>3, <1>5, <2>7 DEF SendInv, TypeInv, OutTypes
    <3>4. Cardinality(Written(wire)) + 1 + Len(sendQueue) = sent
      BY <3>1, <3>3 DEF SendInv, NothingIsLost
    <3>5. Cardinality(Written(wire')) = sent - Len(sendQueue)
      BY <2>2, <2>3, <3>2, <3>4
    <3>6. OwnMessages'
      BY <1>1, <1>3, <2>7, <3>1 DEF SendInv, OwnMessages
    <3>7. Numbered'
      BY <2>3, <2>5, <3>2, <3>5 DEF Numbered
    <3>8. NothingIsLost'
      <4>1. Cardinality(Written(wire')) + 0 + Len(sendQueue) = sent
        BY <2>2, <3>5
      <4>. QED BY <1>1, <3>3, <4>1 DEF NothingIsLost
    <3>9. RegisteredFirst'
      BY <2>3, <3>2 DEF SendInv, RegisteredFirst
    <3>10. DeRegisteredOnce'
      BY <1>1, <1>3, <2>3, <3>2 DEF SendInv, DeRegisteredOnce
    <3>. QED BY <1>2, <3>6, <3>7, <3>8, <3>9, <3>10 DEF SendInv
  <2>. QED BY <2>6, <2>7 DEF Writers
<1>. QED BY <1>4, <1>5

\* The other steps of a writer.
LEMMA WriterMoves ==
    ASSUME SendInv, TypeInv', NEW u \in Writers, WriterStep(u), ~Write(u)
    PROVE  SendInv'
<1>1. u \in Threads /\ Writers = {"main", "send"} /\ \A o \in Writers : o \in Threads
  BY DEF Writers, Threads
<1>2. /\ UNCHANGED <<msg, sendQueue, sent, wire, server, interrupted>>
      /\ \A o \in Writers \ {u} : pc'[o] = pc[o]
  BY <1>1 DEF WriterStep, Acquire, Mark, Fill, Release, UnMark, Goto, outVars, calm, SendInv, TypeInv,
              ProcessTypes
<1>3. CASE Acquire(u) \/ Mark(u) \/ Release(u)
  <2>1. /\ \/ pc[u] \in {"acquire", "mark"} /\ pc'[u] \in {"mark", "fill"}
           \/ pc[u] = "release" /\ pc'[u] = "unmark"
        /\ UNCHANGED buffer /\ \A o \in Writers \ {u} : entity'[o] = entity[o]
    BY <1>1, <1>3 DEF Acquire, Mark, Release, Goto, SendInv, TypeInv, ProcessTypes, WriterTypes
  <2>2. Filled'
    BY <1>2, <2>1 DEF SendInv, Filled
  <2>3. /\ Carries' <=> Carries
        /\ Sending' <=> Sending
        /\ Calling' => Calling
        /\ pc'["send"] # "dead" => pc["send"] # "dead"
    BY <1>1, <1>2, <2>1 DEF Carries, Sending, Calling
  <2>. QED BY <1>2, <2>2, <2>3, SendKept
<1>4. CASE Fill(u)
  <2>1. /\ pc[u] = "fill" /\ pc'[u] = "write" /\ UNCHANGED entity
        /\ buffer' = [buffer EXCEPT ![entity[u]] = msg[u]]
    BY <1>1, <1>4 DEF Fill, Goto, SendInv, TypeInv, ProcessTypes
  <2>2. Filled'
    <3>1. buffer'[entity[u]] = msg[u]
      BY <2>1 DEF SendInv, TypeInv, WriterTypes, Owns
    <3>2. ASSUME NEW o \in Writers \ {u}, pc[o] = "write"
          PROVE  buffer'[entity[o]] = msg[o]
      <4>1. entity[o] # entity[u] /\ entity[o] \in Slots
        BY <1>1, <2>1, <3>2 DEF SendInv, TypeInv, WriterTypes, Owns
      <4>. QED BY <2>1, <3>2, <4>1 DEF SendInv, Filled, TypeInv, WriterTypes
    <3>. QED BY <1>2, <2>1, <3>1, <3>2 DEF Filled
  <2>3. /\ Carries' <=> Carries
        /\ Sending' <=> Sending
        /\ Calling' => Calling
        /\ pc'["send"] # "dead" => pc["send"] # "dead"
    BY <1>1, <1>2, <2>1 DEF Carries, Sending, Calling
  <2>. QED BY <1>2, <2>2, <2>3, SendKept
<1>5. CASE UnMark(u)
  <2>1. /\ pc[u] = "unmark"
        /\ pc'[u] = IF u = "send" THEN "pop" ELSE IF msg[u] = Reg THEN "idle" ELSE "quitSend"
        /\ UNCHANGED <<buffer, entity>>
    BY <1>1, <1>5 DEF UnMark, Goto, SendInv, TypeInv, ProcessTypes
  <2>2. Filled'
    BY <1>2, <2>1 DEF SendInv, Filled
  <2>3. /\ Carries' <=> Carries
        /\ Sending' <=> Sending
        /\ Calling' => Calling \/ msg["main"] = Reg
        /\ pc'["send"] # "dead" => pc["send"] # "dead"
    BY <1>1, <1>2, <2>1 DEF Carries, Sending, Calling
  <2>. QED BY <1>2, <2>2, <2>3, SendKept
<1>. QED BY <1>3, <1>4, <1>5 DEF WriterStep

LEMMA SendNext == SendInv /\ TypeInv' /\ [Next]_vars => SendInv'
<1> SUFFICES ASSUME SendInv, TypeInv', [Next]_vars PROVE SendInv'
  OBVIOUS
<1>1. ASSUME NEW u \in Writers, WriterStep(u) PROVE SendInv'
  BY <1>1, WriteStep, WriterMoves
<1>2. CASE SendPop
  <2>1. /\ pc["send"] = "pop" /\ pc'["send"] = "acquire" /\ pc'["main"] = pc["main"]
        /\ sendQueue # << >> /\ sendQueue' = Tail(sendQueue)
        /\ msg'["send"] = Head(sendQueue) /\ msg'["main"] = msg["main"]
        /\ UNCHANGED <<buffer, entity, sent, wire, server, interrupted>>
    BY <1>2 DEF SendPop, Goto, calm, SendInv, TypeInv, ProcessTypes, WriterTypes, Threads, Writers
  <2>2. /\ ~Carries /\ Carries' /\ pc["send"] # "dead"
        /\ Sending' <=> Sending
        /\ Calling' <=> Calling
    BY <2>1 DEF Carries, Sending, Calling
  <2>3. /\ Len(sendQueue') = Len(sendQueue) - 1 /\ Len(sendQueue) \in Nat \ {0} /\ sent \in Nat
        /\ Head(sendQueue) = sendQueue[1]
        /\ \A i \in 1 .. Len(sendQueue') : sendQueue'[i] = sendQueue[i + 1]
    BY <2>1, HeadTailProperties, LenProperties, EmptySeq, SessionAssumption
       DEF SendInv, TypeInv, OutTypes
  <2>4. Filled'
    BY <2>1 DEF SendInv, Filled, Writers
  <2>5. OwnMessages'
    <3>1. ~(Sending /\ msg["main"] = Reg)
      BY <2>1 DEF SendInv, OwnMessages
    <3> DEFINE n == Len(sendQueue)
    <3>2. n \in Nat \ {0} /\ Len(sendQueue') = n - 1 /\ sent \in Nat
      BY <2>3
    <3>3. \A i \in 1 .. n : sendQueue[i] = Data(sent - n + i)
      BY DEF SendInv, OwnMessages
    <3> HIDE DEF n
    <3>4. msg'["send"] = Data(sent - (n - 1))
      <4>1. 1 \in 1 .. n /\ sent - n + 1 = sent - (n - 1)
        BY <3>2
      <4>. QED BY <2>1, <2>3, <3>3, <4>1
    <3>5. \A i \in 1 .. n - 1 : sendQueue'[i] = Data(sent - (n - 1) + i)
      <4>1. \A i \in 1 .. n - 1 : i + 1 \in 1 .. n /\ sent - n + (i + 1) = sent - (n - 1) + i
        BY <3>2
      <4>. QED BY <2>3, <3>2, <3>3, <4>1
    <3>. QED BY <2>1, <2>2, <3>1, <3>2, <3>4, <3>5 DEF SendInv, OwnMessages
  <2>6. Numbered' /\ RegisteredFirst'
    BY <2>1 DEF SendInv, Numbered, RegisteredFirst
  <2>7. NothingIsLost'
    <3> SUFFICES ASSUME server = "open"
                 PROVE  Cardinality(Written(wire)) + 1 + Len(sendQueue') = sent
      BY <2>1, <2>2 DEF NothingIsLost
    <3>1. Cardinality(Written(wire)) + 0 + Len(sendQueue) = sent
      BY <2>2 DEF SendInv, NothingIsLost
    <3>2. Cardinality(Written(wire)) \in Nat
      <4>1. wire \in Seq(Message) /\ Reg \in Message
        BY DEF SendInv, TypeInv, OutTypes, Message
      <4>. QED BY <4>1, WrittenAppended
    <3>. QED BY <2>3, <3>1, <3>2
  <2>8. DeRegisteredOnce'
    BY <2>1, <2>2 DEF SendInv, DeRegisteredOnce
  <2>. QED BY <2>4, <2>5, <2>6, <2>7, <2>8 DEF SendInv
<1>3. CASE SendMsg
  <2>1. /\ pc["main"] = "idle" /\ pc'["main"] = "idle" /\ pc'["send"] = pc["send"]
        /\ sent' = sent + 1 /\ sendQueue' = Append(sendQueue, Data(sent + 1))
        /\ UNCHANGED <<msg, buffer, entity, wire, server, interrupted>>
    BY <1>3 DEF SendMsg, Goto, calm, serializerVars, SendInv, TypeInv, ProcessTypes, Threads
  <2>2. /\ Carries' <=> Carries
        /\ ~Sending /\ ~Sending'
        /\ Calling' <=> Calling
    BY <2>1 DEF Carries, Sending, Calling
  <2> DEFINE n == Len(sendQueue)
  <2>3. /\ n \in Nat /\ sent \in Nat /\ sendQueue \in Seq(Message)
        /\ Len(sendQueue') = n + 1 /\ sendQueue'[n + 1] = Data(sent + 1)
        /\ \A i \in 1 .. n : sendQueue'[i] = sendQueue[i]
    <3>1. sendQueue \in Seq(Message) /\ sent \in Nat
      BY SessionAssumption DEF SendInv, TypeInv, OutTypes
    <3>2. sent + 1 \in 1 .. MaxSend
      BY <1>3, <3>1, SessionAssumption DEF SendMsg
    <3>3. Data(sent + 1) \in Message
      BY <3>2 DEF Message
    <3>. QED BY <2>1, <3>1, <3>3, AppendProperties, LenProperties
  <2>4. Filled'
    BY <2>1 DEF SendInv, Filled, Writers
  <2>5. OwnMessages'
    <3>1. (\A i \in 1 .. n : sendQueue[i] = Data(sent - n + i)) /\ (Carries => msg["send"] = Data(sent - n))
      BY DEF SendInv, OwnMessages
    <3> HIDE DEF n
    <3>2. \A i \in 1 .. n + 1 : (i \in 1 .. n \/ i = n + 1) /\ (sent + 1) - (n + 1) + i = sent - n + i
      BY <2>3
    <3>3. sent - n + (n + 1) = sent + 1 /\ (sent + 1) - (n + 1) = sent - n
      BY <2>3
    <3>4. \A i \in 1 .. n + 1 : sendQueue'[i] = Data((sent + 1) - (n + 1) + i)
      BY <2>3, <3>1, <3>2, <3>3
    <3>. QED BY <2>1, <2>2, <2>3, <3>1, <3>3, <3>4 DEF SendInv, OwnMessages
  <2>6. Numbered' /\ RegisteredFirst'
    BY <2>1 DEF SendInv, Numbered, RegisteredFirst
  <2>7. NothingIsLost'
    <3> DEFINE c == IF Carries THEN 1 ELSE 0
               w == Cardinality(Written(wire))
    <3>1. w \in Nat /\ c \in Nat
      <4>1. wire \in Seq(Message) /\ Reg \in Message
        BY DEF SendInv, TypeInv, OutTypes, Message
      <4>. QED BY <4>1, WrittenAppended
    <3>2. server = "open" /\ pc["send"] # "dead" => w + c + n = sent
      BY DEF SendInv, NothingIsLost
    <3>3. NothingIsLost' <=> (server = "open" /\ pc["send"] # "dead" => w + c + (n + 1) = sent + 1)
      BY <2>1, <2>2, <2>3 DEF NothingIsLost
    <3> HIDE DEF c, w, n
    <3>. QED BY <2>3, <3>1, <3>2, <3>3
  <2>8. DeRegisteredOnce'
    BY <2>1, <2>2 DEF SendInv, DeRegisteredOnce
  <2>. QED BY <2>4, <2>5, <2>6, <2>7, <2>8 DEF SendInv
<1>4. CASE Exit \/ Interrupt
  <2>1. /\ UNCHANGED <<buffer, entity, sendQueue, sent, wire, server>> /\ pc'["send"] = pc["send"]
        /\ \/ pc'["main"] = "acquire" /\ msg' = [msg EXCEPT !["main"] = DeReg]
           \/ pc' = pc /\ msg' = msg
        /\ \/ Calling /\ interrupted' = interrupted
           \/ interrupted' # "no"
    BY <1>4 DEF Exit, Interrupt, Goto, calm, outVars, SendInv, TypeInv, ProcessTypes, Threads, Calling
  <2>2. msg'["send"] = msg["send"] /\ (msg'["main"] = DeReg \/ (msg' = msg /\ pc' = pc))
    BY <2>1 DEF SendInv, TypeInv, WriterTypes, Writers
  <2>3. (Carries' <=> Carries) /\ ~(Calling /\ Sending)
    BY <2>1 DEF Carries, Calling, Sending
  <2>4. Filled'
    BY <2>1, <2>2 DEF SendInv, Filled, Writers
  <2>5. OwnMessages'
    <3>1. Sending' /\ msg'["main"] = Reg => Sending /\ msg["main"] = Reg
      BY <2>1, <2>2, KindsDiffer DEF Sending
    <3>. QED BY <2>1, <2>2, <2>3, <3>1 DEF SendInv, OwnMessages
  <2>6. Numbered' /\ NothingIsLost' /\ RegisteredFirst'
    BY <2>1, <2>3 DEF SendInv, Numbered, NothingIsLost, RegisteredFirst
  <2>7. DeRegisteredOnce'
    <3> SUFFICES ASSUME interrupted' = "no" PROVE DeRegisteredOnce'
      BY DEF DeRegisteredOnce
    <3>1. Calling /\ interrupted = "no"
      BY <2>1
    <3>2. Calling' => msg'["main"] = Reg
      <4>1. CASE pc' = pc /\ msg' = msg
        BY <3>1, <4>1 DEF SendInv, DeRegisteredOnce
      <4>2. CASE pc'["main"] = "acquire"
        BY <4>2 DEF Calling
      <4>. QED BY <2>1, <4>1, <4>2
    <3>3. /\ \A i \in DOMAIN wire : wire[i] # DeReg
          /\ \A i, j \in DOMAIN wire : wire[i] = DeReg /\ wire[j] = DeReg => i = j
      BY <3>1 DEF SendInv, DeRegisteredOnce
    <3>. QED BY <2>1, <3>2, <3>3 DEF DeRegisteredOnce
  <2>. QED BY <2>4, <2>5, <2>6, <2>7 DEF SendInv
<1>5. CASE ~SendPop /\ ~SendMsg /\ ~Exit /\ ~Interrupt /\ \A u \in Writers : ~WriterStep(u)
  <2>1. /\ UNCHANGED <<msg, buffer, entity, sendQueue, sent, wire, interrupted>>
        /\ UNCHANGED server \/ server' = "closed"
        /\ \/ pc'["main"] = pc["main"]
           \/ /\ pc'["main"] \notin {"acquire", "mark", "fill", "write"}
              /\ pc'["main"] \in {"idle", "pop", "copy", "free"} =>
                     pc["main"] \in {"idle", "pop", "copy", "free"}
        /\ \/ pc'["send"] = pc["send"]
           \/ pc'["send"] = "dead"
           \/ pc["send"] = "born" /\ pc'["send"] = "pop"
    BY <1>5, NotSending DEF SendInv
  <2>2. Filled'
    BY <2>1 DEF SendInv, Filled, Writers
  <2>3. /\ Carries' => Carries
        /\ pc'["send"] # "dead" => pc["send"] # "dead" /\ (Carries' <=> Carries)
        /\ Sending' => Sending
        /\ Calling' => Calling
    BY <2>1 DEF Carries, Sending, Calling
  <2>. QED BY <2>1, <2>2, <2>3, SendKept
<1>. QED BY <1>1, <1>2, <1>3, <1>4, <1>5

LEMMA SendInvariant == SafeSpec => []SendInv
<1>1. SendInv /\ [Next]_vars => SendInv'
  BY SendNext, TypeNext DEF SendInv
<1>. QED BY <1>1, SendInit, PTL DEF SafeSpec

\* SentInOrder: on the wire the messages of SendMsg have the numbers 1, 2, 3 ..., the
\* registration is before all of them and the deregistration comes once, but for SIGINT;
\* while the server reads and the send thread lives, what is not on the wire is queued or
\* in the thread's hands.
THEOREM MessagesAreSentInOrder == SafeSpec => []SentInOrder
<1>1. SendInv => SentInOrder
  <2> SUFFICES ASSUME SendInv PROVE SentInOrder
    OBVIOUS
  <2> DEFINE closing == {i \in DOMAIN wire : wire[i] = DeReg}
  <2>1. interrupted = "no" => Cardinality(closing) <= 1
    <3> SUFFICES ASSUME interrupted = "no" PROVE Cardinality(closing) <= 1
      OBVIOUS
    <3>1. \A i, j \in closing : i = j
      BY DEF SendInv, DeRegisteredOnce
    <3>2. CASE closing = {}
      BY <3>2, FS_EmptySet
    <3>3. CASE closing # {}
      <4>1. PICK i \in closing : TRUE
        BY <3>3
      <4>2. closing = {i}
        BY <3>1, <4>1
      <4> HIDE DEF closing
      <4>3. Cardinality(closing) = 1
        BY <4>2, FS_Singleton
      <4>. QED BY <4>3
    <3>. QED BY <3>2, <3>3
  <2>. QED BY <2>1 DEF SendInv, Numbered, NothingIsLost, Carries, RegisteredFirst, SentInOrder
<1>. QED BY <1>1, SendInvariant, PTL

-----------------------------------------------------------------------------
(***************************************************************************)
(* Leaving                                                                 *)
(***************************************************************************)
\* A thread that is gone was quit; and it was quit in an Exit that is beyond the place
\* where it would quit it again, unless SIGINT has begun another one.
LeaveInv ==
    /\ TypeInv /\ EndedForAReason
    /\ \A t \in {"send", "recv"} : pc[t] = "dead" => t \in pending
    /\ "send" \in pending => interrupted = "leaving" \/ pc["main"] \in Leaving \union {"ended"}
    /\ "recv" \in pending => \/ interrupted = "leaving"
                             \/ pc["main"] \in {"joinRecv", "cleanUp", "cleaned", "ended"}

LEMMA LeaveInit == Init => LeaveInv
<1> SUFFICES ASSUME Init PROVE LeaveInv
  OBVIOUS
<1>1. up = TRUE /\ pending = {} /\ pc["send"] = "born" /\ pc["recv"] = "born"
  BY DEF Init
<1>. QED BY <1>1, TypeInit DEF LeaveInv, EndedForAReason

\* A step of main that stays out of Exit, and a step of another thread.
LEMMA LeaveKept ==
    ASSUME LeaveInv, TypeInv', up', UNCHANGED <<pending, interrupted>>,
           \A t \in {"send", "recv"} : pc'[t] = "dead" => pc[t] = "dead" \/ t \in pending,
           \/ pc'["main"] = pc["main"]
           \/ pc["main"] \notin Leaving \union {"ended"}
    PROVE  LeaveInv'
BY DEF LeaveInv, EndedForAReason, Leaving

LEMMA LeaveNext == LeaveInv /\ TypeInv' /\ [Next]_vars => LeaveInv'
<1> SUFFICES ASSUME LeaveInv, TypeInv', [Next]_vars PROVE LeaveInv'
  OBVIOUS
<1>0. /\ pc \in [Threads -> MainSteps \union SendSteps \union RecvSteps]
      /\ pending \subseteq {"send", "recv"} /\ up \in BOOLEAN
      /\ Threads = {"main", "send", "recv"} /\ Writers = {"main", "send"}
  BY DEF LeaveInv, TypeInv, ProcessTypes, Threads, Writers
<1>1. CASE UNCHANGED vars
  BY <1>1 DEF vars, processVars, outVars, LeaveInv, EndedForAReason
<1>2. ASSUME NEW t \in Threads, NEW a, NEW b, Goto(t, a, b), UNCHANGED calm, b # "dead",
             t = "main" => a \notin Leaving \union {"ended"}
      PROVE  LeaveInv'
  <2>1. /\ up /\ pc[t] = a /\ pc'[t] = b /\ \A o \in Threads \ {t} : pc'[o] = pc[o]
        /\ UNCHANGED <<pending, interrupted, up>>
    BY <1>0, <1>2 DEF Goto, calm
  <2>2. \A o \in {"send", "recv"} : pc'[o] = "dead" => pc[o] = "dead" \/ o \in pending
    BY <1>0, <1>2, <2>1
  <2>3. pc'["main"] = pc["main"] \/ pc["main"] \notin Leaving \union {"ended"}
    BY <1>0, <1>2, <2>1
  <2>. QED BY <2>1, <2>2, <2>3, LeaveKept
<1>3. ASSUME NEW u \in Writers, WriterStep(u) PROVE LeaveInv'
  <2>1. CASE ~Write(u)
    <3>1. /\ UNCHANGED calm
          /\ \E a \in {"acquire", "mark", "fill", "release", "unmark"},
                b \in Writing \union {"pop", "idle", "quitSend"} : Goto(u, a, b)
      BY <1>3, <2>1 DEF WriterStep, Acquire, Mark, Fill, Release, UnMark, Writing
    <3>. QED BY <1>0, <1>2, <3>1 DEF Writing, Leaving
  <2>2. CASE Write(u)
    <3>1. /\ up /\ pc[u] = "write" /\ pc'[u] = "release"
          /\ \A o \in Threads \ {u} : pc'[o] = pc[o]
          /\ UNCHANGED <<handler, pending, interrupted, server>>
          /\ server # "closed" => up' = up
      BY <1>0, <2>2 DEF Write, Goto
    <3>2. EndedForAReason'
      BY <1>0, <3>1 DEF EndedForAReason
    <3>. QED BY <1>0, <3>1, <3>2 DEF LeaveInv, Leaving
  <2>. QED BY <2>1, <2>2
<1>3a. ASSUME NEW u \in Writers, FillThrows(u) PROVE LeaveInv'
  <2>1. /\ pc[u] = "fill" /\ pc' = pc /\ UNCHANGED <<handler, pending, interrupted, server>>
    BY <1>3a DEF FillThrows, outVars
  <2>2. EndedForAReason'
    BY <2>1 DEF EndedForAReason
  <2>. QED BY <2>1, <2>2 DEF LeaveInv
<1>4. CASE MainStep
  <2>1. CASE Pop \/ Copy \/ Free
    <3>1. /\ UNCHANGED calm
          /\ \E a \in {"pop", "copy", "free"}, b \in {"copy", "free", "idle"} : Goto("main", a, b)
      BY <2>1 DEF Pop, Copy, Free
    <3>. QED BY <1>0, <1>2, <3>1 DEF Leaving
  <2>2. CASE QuitNoDelay("send", "quitSend", "joinSend")
    <3>1. pc["main"] = "quitSend" /\ UNCHANGED <<handler, interrupted, server>>
      BY <2>2 DEF QuitNoDelay, outVars
    <3>2. CASE pc["send"] = "dead"
      BY <2>2, <3>1, <3>2 DEF QuitNoDelay, LeaveInv, EndedForAReason, Leaving
    <3>3. CASE pc["send"] # "dead"
      <4>1. /\ pc'["main"] = "joinSend" /\ pc'["send"] = pc["send"] /\ pc'["recv"] = pc["recv"]
            /\ pending' = pending \union {"send"} /\ up' = up /\ up
        BY <1>0, <2>2, <3>3 DEF QuitNoDelay
      <4>. QED BY <3>1, <4>1 DEF LeaveInv, EndedForAReason, Leaving
    <3>. QED BY <3>2, <3>3
  <2>3. CASE QuitNoDelay("recv", "quitRecv", "joinRecv")
    <3>1. pc["main"] = "quitRecv" /\ UNCHANGED <<handler, interrupted, server>>
      BY <2>3 DEF QuitNoDelay, outVars
    <3>2. CASE pc["recv"] = "dead"
      BY <2>3, <3>1, <3>2 DEF QuitNoDelay, LeaveInv, EndedForAReason
    <3>3. CASE pc["recv"] # "dead"
      <4>1. /\ pc'["main"] = "joinRecv" /\ pc'["send"] = pc["send"] /\ pc'["recv"] = pc["recv"]
            /\ pending' = pending \union {"recv"} /\ up' = up /\ up
        BY <1>0, <2>3, <3>3 DEF QuitNoDelay
      <4>. QED BY <3>1, <4>1 DEF LeaveInv, EndedForAReason, Leaving
    <3>. QED BY <3>2, <3>3
  <2>4. CASE \/ Join("send", "joinSend", "quitRecv") \/ Join("recv", "joinRecv", "cleanUp")
             \/ CleanUp \/ Forget
    <3>1. /\ up /\ UNCHANGED <<pending, interrupted, up>>
          /\ pc'["send"] = pc["send"] /\ pc'["recv"] = pc["recv"]
          /\ \/ pc["main"] = "joinSend" /\ pc'["main"] = "quitRecv"
             \/ pc["main"] = "joinRecv" /\ pc'["main"] = "cleanUp"
             \/ pc["main"] = "cleanUp" /\ pc'["main"] = "cleaned"
             \/ pc["main"] = "cleaned" /\ pc'["main"] = "ended"
      BY <1>0, <2>4 DEF Join, CleanUp, Forget, Goto, calm
    <3>. QED BY <3>1 DEF LeaveInv, EndedForAReason, Leaving
  <2>. QED BY <1>0, <1>3, <1>4, <1>3a, <2>1, <2>2, <2>3, <2>4 DEF MainStep
<1>5. CASE SendStep
  <2>1. CASE SendPop
    BY <1>0, <1>2, <2>1 DEF SendPop
  <2>2. CASE Install("send")
    <3>1. /\ up /\ UNCHANGED <<pending, interrupted, up>>
          /\ pc'["main"] = pc["main"] /\ pc'["recv"] = pc["recv"] /\ pc'["send"] = "pop"
      BY <1>0, <2>2 DEF Install, Goto
    <3>. QED BY <3>1, LeaveKept
  <2>. QED BY <1>0, <1>3, <1>5, <1>3a, <2>1, <2>2 DEF SendStep
<1>6. CASE RecvStep
  <2>1. CASE Install("recv")
    <3>1. /\ up /\ UNCHANGED <<pending, interrupted, up>>
          /\ pc'["main"] = pc["main"] /\ pc'["send"] = pc["send"] /\ pc'["recv"] = "read"
      BY <1>0, <2>1 DEF Install, Goto
    <3>. QED BY <3>1, LeaveKept
  <2>2. CASE RecvBytes \/ RecvDeSerialize \/ RecvPush
    <3>1. /\ UNCHANGED calm
          /\ \E a, b \in {"read", "deserialize", "push"} : Goto("recv", a, b)
      BY <2>2 DEF RecvBytes, RecvDeSerialize, RecvPush, Goto
    <3>. QED BY <1>0, <1>2, <3>1
  <2>. QED BY <1>6, <2>1, <2>2 DEF RecvStep
<1>7. ASSUME NEW t \in {"send", "recv"}, Die(t) PROVE LeaveInv'
  <2>1. up /\ t \in pending /\ UNCHANGED <<handler, pending, interrupted>>
    BY <1>7 DEF Die
  <2>2. CASE handler
    <3>1. pc'["main"] = pc["main"] /\ up' = up /\ \A o \in {"send", "recv"} \ {t} : pc'[o] = pc[o]
      BY <1>0, <1>7, <2>2 DEF Die
    <3>. QED BY <2>1, <3>1, LeaveKept
  <2>3. CASE ~handler
    <3>1. pc' = pc
      BY <1>7, <2>3 DEF Die
    <3>. QED BY <2>1, <2>3, <3>1 DEF LeaveInv, EndedForAReason
  <2>. QED BY <2>2, <2>3
<1>8. CASE Call
  <2>1. /\ UNCHANGED calm
        /\ \E b \in {"idle", "pop", "acquire"} : Goto("main", "idle", b)
    BY <1>8 DEF Call, SendMsg, RecvMsg, Exit
  <2>. QED BY <1>0, <1>2, <2>1 DEF Leaving
<1>9. CASE Interrupt
  <2>1. /\ interrupted' = CASE pc["main"] \in Writing -> "writing"
                            [] pc["main"] \in Leaving -> "leaving"
                            [] OTHER -> "other"
        /\ up /\ pc["main"] # "ended" /\ UNCHANGED pending /\ interrupted = "no"
        /\ pc'["send"] = pc["send"] /\ pc'["recv"] = pc["recv"]
        /\ pc["main"] # "cleaned" => up' = up
    BY <1>0, <1>9 DEF Interrupt
  <2>2. Writing \intersect Leaving = {} /\ "cleaned" \in Leaving
    BY DEF Writing, Leaving
  <2>3. pc["main"] \in Leaving => interrupted' = "leaving"
    BY <2>1, <2>2
  <2>4. EndedForAReason'
    BY <2>1, <2>2, <2>3 DEF EndedForAReason
  <2>5. \A t \in {"send", "recv"} : t \in pending => pc["main"] \in Leaving
    BY <2>1 DEF LeaveInv, Leaving
  <2>. QED BY <2>1, <2>3, <2>4, <2>5 DEF LeaveInv
<1>10. CASE Server
  <2>1. UNCHANGED processVars /\ up
    BY <1>10 DEF Server, ServerRead, ServerSend, ServerClose
  <2>. QED BY <2>1, LeaveKept DEF processVars, LeaveInv
<1>. QED BY <1>1, <1>4, <1>5, <1>6, <1>7, <1>8, <1>9, <1>10 DEF Next

\* EndedForAReason: no step of Exit signals a thread that is gone, which would end the
\* process or worse, unless SIGINT has begun a second Exit after the first had begun
\* to quit the threads; otherwise the process ends before its time only because of a
\* signal before a handler was there, a message too long, or a server that has closed.
THEOREM ProcessEndsForAReason == SafeSpec => []EndedForAReason
<1>1. LeaveInv /\ [Next]_vars => LeaveInv'
  BY LeaveNext, TypeNext DEF LeaveInv
<1>2. LeaveInv => EndedForAReason
  BY DEF LeaveInv
<1>. QED BY <1>1, <1>2, LeaveInit, PTL DEF SafeSpec

-----------------------------------------------------------------------------
(***************************************************************************)
(* Messages as bytes.  What the send threads, the deserializers and the    *)
(* models of them rely on: a message takes exactly the bytes it has        *)
(* measured, it comes back as it was from those bytes whatever follows     *)
(* them, and from fewer bytes it does not come back at all.                *)
(***************************************************************************)
\* The memory at address a is what a string's serialization leaves there.
Holds(mem, a, t) ==
    /\ mem[a] = Len(t)
    /\ \A i \in 1 .. Len(t) : mem[a + sizeofSize + i - 1] = t[i]

SameBelow(mem, old, a) == \A i \in Nat : i < a => mem[i] = old[i]

\* What one member's serialization does, and that it leaves what is before it alone.

LEMMA StoreWorks ==
    ASSUME NEW c \in Cursor, NEW v \in Cell, NEW n \in Nat \ {0}
    PROVE  /\ Store(c, v, n) \in Cursor
           /\ Store(c, v, n).end = c.end
           /\ Store(c, v, n).ok <=> Fits(c, n)
           /\ Store(c, v, n).ok =>
                 /\ Store(c, v, n).at = c.at + n
                 /\ Store(c, v, n).mem[c.at] = v
                 /\ SameBelow(Store(c, v, n).mem, c.mem, c.at)
  <1>1. CASE Fits(c, n)
    <2>1. [c.mem EXCEPT ![c.at] = v] \in [Nat -> Cell]
      BY DEF Cursor
    <2>2. Store(c, v, n) = [mem |-> [c.mem EXCEPT ![c.at] = v], at |-> c.at + n,
                            end |-> c.end, ok |-> TRUE]
      BY <1>1 DEF Store
    <2>3. c.at \in Nat /\ c.end \in Nat
      BY DEF Cursor
    <2>4. Store(c, v, n) \in Cursor
      BY <2>1, <2>2, <2>3 DEF Cursor
    <2>5. SameBelow([c.mem EXCEPT ![c.at] = v], c.mem, c.at)
      BY DEF Cursor, SameBelow
    <2>6. [c.mem EXCEPT ![c.at] = v][c.at] = v
      BY DEF Cursor
    <2> QED
      BY <1>1, <2>2, <2>4, <2>5, <2>6
  <1>2. CASE ~Fits(c, n)
    BY <1>2 DEF Store, Cursor
  <1> QED
    BY <1>1, <1>2

LEMMA CopyWorks ==
    ASSUME NEW mem \in [Nat -> Cell], NEW a \in Nat, NEW t \in Text
    PROVE  /\ CopyText(mem, a, t) \in [Nat -> Cell]
           /\ \A i \in Nat : i < a => CopyText(mem, a, t)[i] = mem[i]
           /\ \A i \in 1 .. Len(t) : CopyText(mem, a, t)[a + i - 1] = t[i]
  <1>1. Len(t) \in Nat /\ t \in [1 .. Len(t) -> Char]
    BY DEF Text
  <1>2. ASSUME NEW i \in Nat, i \in a .. a + Len(t) - 1 PROVE t[i - a + 1] \in Char
    <2>1. i - a + 1 \in 1 .. Len(t)
      BY <1>1, <1>2
    <2> QED
      BY <1>1, <2>1
  <1>3. CopyText(mem, a, t) \in [Nat -> Cell]
    BY <1>2 DEF CopyText, Cell
  <1>4. ASSUME NEW i \in Nat, i < a PROVE CopyText(mem, a, t)[i] = mem[i]
    BY <1>1, <1>4 DEF CopyText
  <1>5. ASSUME NEW i \in 1 .. Len(t) PROVE CopyText(mem, a, t)[a + i - 1] = t[i]
    <2>1. /\ a + i - 1 \in Nat
          /\ a + i - 1 \in a .. a + Len(t) - 1
          /\ (a + i - 1) - a + 1 = i
      BY <1>1
    <2> QED
      BY <2>1 DEF CopyText
  <1> QED
    BY <1>3, <1>4, <1>5

LEMMA StoreTextWorks ==
    ASSUME NEW c \in Cursor, NEW t \in Text
    PROVE  /\ StoreText(c, t) \in Cursor
           /\ StoreText(c, t).end = c.end
           /\ StoreText(c, t).ok <=> Fits(c, TextLen(t))
           /\ StoreText(c, t).ok =>
                 /\ StoreText(c, t).at = c.at + TextLen(t)
                 /\ Holds(StoreText(c, t).mem, c.at, t)
                 /\ SameBelow(StoreText(c, t).mem, c.mem, c.at)
  <1>1. Len(t) \in Nat
    BY DEF Text
  <1>2. CASE Fits(c, TextLen(t))
    <2> DEFINE m1 == [c.mem EXCEPT ![c.at] = Len(t)]
               m2 == CopyText(m1, c.at + sizeofSize, t)
    <2>1. /\ c.at \in Nat /\ c.end \in Nat
          /\ c.mem \in [Nat -> Cell]
      BY DEF Cursor
    <2>2. m1 \in [Nat -> Cell]
      BY <1>1, <2>1 DEF Cell
    <2>3. c.at + sizeofSize \in Nat
      BY <2>1 DEF sizeofSize
    <2>4. StoreText(c, t) = [mem |-> m2, at |-> c.at + sizeofSize + Len(t), end |-> c.end,
                             ok |-> TRUE]
      BY <1>2 DEF StoreText, TextLen
    <2>5. /\ m2 \in [Nat -> Cell]
          /\ \A i \in Nat : i < c.at + sizeofSize => m2[i] = m1[i]
          /\ \A i \in 1 .. Len(t) : m2[c.at + sizeofSize + i - 1] = t[i]
      BY <2>2, <2>3, CopyWorks
    <2> HIDE DEF m2
    <2>6. m2[c.at] = Len(t)
      BY <2>1, <2>5 DEF sizeofSize
    <2>7. SameBelow(m2, c.mem, c.at)
      BY <2>1, <2>5 DEF SameBelow, sizeofSize
    <2>8. Holds(m2, c.at, t)
      BY <2>5, <2>6 DEF Holds
    <2>9. c.at + sizeofSize + Len(t) = c.at + TextLen(t) /\ c.at + TextLen(t) \in Nat
      BY <1>1, <2>1 DEF TextLen, sizeofSize
    <2>10. StoreText(c, t) \in Cursor
      BY <2>1, <2>4, <2>5, <2>9 DEF Cursor
    <2> QED
      BY <1>2, <2>4, <2>7, <2>8, <2>9, <2>10
  <1>3. CASE ~Fits(c, TextLen(t))
    BY <1>3 DEF StoreText, Cursor, TextLen
  <1> QED
    BY <1>2, <1>3

\* What lies before an address is not lost by changes behind it.
LEMMA HoldsKept ==
    ASSUME NEW mem, NEW old, NEW a \in Nat, NEW t \in Text, NEW b \in Nat,
           Holds(old, a, t), SameBelow(mem, old, b), a + TextLen(t) <= b
    PROVE  Holds(mem, a, t)
  <1>1. Len(t) \in Nat
    BY DEF Text
  <1>2. mem[a] = Len(t)
    BY <1>1 DEF Holds, SameBelow, TextLen, sizeofSize
  <1>3. ASSUME NEW i \in 1 .. Len(t) PROVE mem[a + sizeofSize + i - 1] = t[i]
    <2>1. a + sizeofSize + i - 1 \in Nat /\ a + sizeofSize + i - 1 < b
      BY <1>1 DEF TextLen, sizeofSize
    <2> QED
      BY <2>1 DEF Holds, SameBelow
  <1> QED
    BY <1>2, <1>3 DEF Holds

\* What one member's deserialization gives.  HoldsTo is Holds for a reader who sees the
\* bytes before address e only.

HoldsTo(mem, a, t, e) ==
    /\ a + sizeofSize <= e => mem[a] = Len(t)
    /\ a + TextLen(t) <= e => \A i \in 1 .. Len(t) : mem[a + sizeofSize + i - 1] = t[i]

LEMMA SkipWorks ==
    ASSUME NEW c \in Cursor, NEW n \in Nat
    PROVE  /\ Skip(c, n) \in Cursor
           /\ Skip(c, n).end = c.end
           /\ Skip(c, n).mem = c.mem
           /\ Skip(c, n).ok <=> Fits(c, n)
           /\ Skip(c, n).ok => Skip(c, n).at = c.at + n
  <1>1. c.at \in Nat /\ c.end \in Nat
    BY DEF Cursor
  <1>2. CASE Fits(c, n)
    <2>1. Skip(c, n) = [c EXCEPT !.at = @ + n]
      BY <1>2 DEF Skip
    <2>2. Skip(c, n) \in Cursor
      BY <1>1, <2>1 DEF Cursor
    <2>3. c.ok
      BY <1>2 DEF Fits
    <2> QED
      BY <1>2, <2>1, <2>2, <2>3 DEF Cursor
  <1>3. CASE ~Fits(c, n)
    BY <1>3 DEF Skip, Cursor
  <1> QED
    BY <1>2, <1>3

LEMMA SkipTextWorks ==
    ASSUME NEW c \in Cursor, NEW t \in Text, HoldsTo(c.mem, c.at, t, c.end)
    PROVE  /\ SkipText(c) \in Cursor
           /\ SkipText(c).end = c.end
           /\ SkipText(c).mem = c.mem
           /\ SkipText(c).ok <=> Fits(c, TextLen(t))
           /\ SkipText(c).ok => /\ SkipText(c).at = c.at + TextLen(t)
                                /\ LoadText(c) = t
  <1>1. /\ Len(t) \in Nat
        /\ t \in [1 .. Len(t) -> Char]
        /\ c.at \in Nat /\ c.end \in Nat
    BY DEF Text, Cursor
  <1>2. Fits(c, sizeofSize) => Load(c) = Len(t)
    BY DEF Load, HoldsTo, Fits
  <1>3. ASSUME Fits(c, TextLen(t)) PROVE LoadText(c) = t
    <2>1. Assign(c.mem, c.at + sizeofSize, Len(t)) = [i \in 1 .. Len(t) |-> t[i]]
      <3>1. ASSUME NEW i \in 1 .. Len(t)
            PROVE  c.mem[c.at + sizeofSize + i - 1] = t[i]
        BY <1>3 DEF HoldsTo, Fits
      <3> QED
        BY <3>1 DEF Assign
    <2>2. t = [i \in 1 .. Len(t) |-> t[i]]
      BY <1>1
    <2>3. Fits(c, sizeofSize)
      BY <1>1, <1>3 DEF Fits, TextLen, sizeofSize
    <2> QED
      BY <1>2, <2>1, <2>2, <2>3 DEF LoadText
  <1> DEFINE d == Skip(c, sizeofSize)
  <1>4. /\ d \in Cursor /\ d.end = c.end /\ d.mem = c.mem
        /\ d.ok <=> Fits(c, sizeofSize)
        /\ d.ok => d.at = c.at + sizeofSize
    BY SkipWorks DEF sizeofSize
  <1> HIDE DEF d
  <1>5. CASE Fits(c, sizeofSize)
    <2>1. SkipText(c) = Skip(d, Len(t))
      BY <1>2, <1>5 DEF SkipText, d
    <2>2. /\ Skip(d, Len(t)) \in Cursor /\ Skip(d, Len(t)).end = d.end
          /\ Skip(d, Len(t)).mem = d.mem
          /\ Skip(d, Len(t)).ok <=> Fits(d, Len(t))
          /\ Skip(d, Len(t)).ok => Skip(d, Len(t)).at = d.at + Len(t)
      BY <1>1, <1>4, SkipWorks
    <2>3. Fits(d, Len(t)) <=> Fits(c, TextLen(t))
      BY <1>1, <1>4, <1>5 DEF Fits, TextLen, sizeofSize
    <2>4. d.at + Len(t) = c.at + TextLen(t)
      BY <1>1, <1>4, <1>5 DEF TextLen, sizeofSize
    <2> QED
      BY <1>3, <1>4, <2>1, <2>2, <2>3, <2>4
  <1>6. CASE ~Fits(c, sizeofSize)
    <2>1. SkipText(c) = [c EXCEPT !.ok = FALSE]
      BY <1>6 DEF SkipText
    <2>2. ~Fits(c, TextLen(t))
      BY <1>1, <1>6 DEF Fits, TextLen, sizeofSize
    <2> QED
      BY <2>1, <2>2 DEF Cursor
  <1> QED
    BY <1>5, <1>6

\* Once the code has thrown, it reads nothing more.
LEMMA StoppedStays ==
    ASSUME NEW c \in Cursor, ~c.ok
    PROVE  /\ \A n \in Nat : Skip(c, n) \in Cursor /\ ~Skip(c, n).ok
           /\ SkipText(c) \in Cursor /\ ~SkipText(c).ok
  BY SkipWorks DEF SkipText, Fits, Cursor

-----------------------------------------------------------------------------
\* Whole messages.  Layout says where the members of a message lie.

Layout(mem, a, m) ==
    /\ mem[a] = m.type
    /\ mem[a + sizeofType] = CalculateSerializedMsgLen(m)
    /\ m.type \notin Short =>
          /\ Holds(mem, a + Header, m.fields[1])
          /\ Holds(mem, a + Header + TextLen(m.fields[1]), m.fields[2])
          /\ Holds(mem, a + Header + TextLen(m.fields[1]) + TextLen(m.fields[2]), m.fields[3])

LEMMA FieldsAreTexts ==
    ASSUME NEW m, WellFormed(m)
    PROVE  /\ m.type \in Kinds
           /\ CalculateSerializedMsgLen(m) \in Nat
           /\ m.type \in Short => m.fields = << >>
           /\ m.type \notin Short =>
                 /\ m.fields = <<m.fields[1], m.fields[2], m.fields[3]>>
                 /\ \A i \in 1 .. 3 : m.fields[i] \in Text /\ TextLen(m.fields[i]) \in Nat
  <1>1. m.type \in Kinds /\ (m.type \in Short => m.fields = << >>)
    BY DEF WellFormed, Msg
  <1>2. CASE m.type \in Short
    BY <1>1, <1>2 DEF CalculateSerializedMsgLen, Header, sizeofType, sizeofSize
  <1>3. CASE m.type \notin Short
    <2>1. m.fields \in Text \X Text \X Text
      BY <1>3 DEF WellFormed, Msg
    <2>2. m.fields = <<m.fields[1], m.fields[2], m.fields[3]>>
      BY <2>1
    <2>3. m.fields[1] \in Text /\ m.fields[2] \in Text /\ m.fields[3] \in Text
      BY <2>1
    <2>4. \A t \in Text : TextLen(t) \in Nat
      BY DEF Text, TextLen, sizeofSize
    <2>5. \A i \in 1 .. 3 : m.fields[i] \in Text /\ TextLen(m.fields[i]) \in Nat
      <3>1. \A i \in 1 .. 3 : i = 1 \/ i = 2 \/ i = 3
        OBVIOUS
      <3> QED
        BY <2>3, <2>4, <3>1
    <2>6. CalculateSerializedMsgLen(m) \in Nat
      BY <1>3, <2>3, <2>4 DEF CalculateSerializedMsgLen, Header, sizeofType, sizeofSize
    <2> QED
      BY <1>1, <1>3, <2>2, <2>5, <2>6
  <1> QED
    BY <1>2, <1>3

LEMMA StoreHeaderWorks ==
    ASSUME NEW c \in Cursor, c.ok, NEW m, WellFormed(m)
    PROVE  /\ StoreHeader(c, m) \in Cursor
           /\ StoreHeader(c, m).end = c.end
           /\ StoreHeader(c, m).ok <=> c.at + Header <= c.end
           /\ StoreHeader(c, m).ok =>
                 /\ StoreHeader(c, m).at = c.at + Header
                 /\ StoreHeader(c, m).mem[c.at] = m.type
                 /\ StoreHeader(c, m).mem[c.at + sizeofType] = CalculateSerializedMsgLen(m)
  <1> DEFINE n == CalculateSerializedMsgLen(m)
             d == Store(c, m.type, sizeofType)
             e == Store(d, n, sizeofSize)
  <1>1. m.type \in Cell /\ n \in Cell
    BY FieldsAreTexts DEF Cell
  <1>2. /\ d \in Cursor /\ d.end = c.end
        /\ d.ok <=> Fits(c, sizeofType)
        /\ d.ok => d.at = c.at + sizeofType /\ d.mem[c.at] = m.type
    BY <1>1, StoreWorks DEF sizeofType
  <1> HIDE DEF n, d
  <1>3. /\ e \in Cursor /\ e.end = d.end
        /\ e.ok <=> Fits(d, sizeofSize)
        /\ e.ok => /\ e.at = d.at + sizeofSize
                   /\ e.mem[d.at] = n
                   /\ SameBelow(e.mem, d.mem, d.at)
    BY <1>1, <1>2, StoreWorks DEF sizeofSize
  <1> HIDE DEF e
  <1>4. c.at \in Nat /\ c.end \in Nat
    BY DEF Cursor
  <1>5. e.ok <=> c.at + Header <= c.end
    BY <1>2, <1>3, <1>4 DEF Fits, Header, sizeofType, sizeofSize
  <1>6. e.ok => e.mem[c.at] = m.type
    BY <1>2, <1>3, <1>4 DEF Fits, SameBelow, sizeofType
  <1>7. e.ok => e.at = c.at + Header /\ e.mem[c.at + sizeofType] = n
    BY <1>2, <1>3, <1>4 DEF Fits, Header, sizeofType, sizeofSize
  <1> QED
    BY <1>2, <1>3, <1>5, <1>6, <1>7 DEF StoreHeader, n, d, e

LEMMA SerializeWorks ==
    ASSUME NEW c \in Cursor, c.ok, NEW m, WellFormed(m)
    PROVE  /\ Serialize(c, m) \in Cursor
           /\ Serialize(c, m).ok <=> c.at + CalculateSerializedMsgLen(m) <= c.end
           /\ Serialize(c, m).ok =>
                 /\ Serialize(c, m).at = c.at + CalculateSerializedMsgLen(m)
                 /\ Layout(Serialize(c, m).mem, c.at, m)
  <1> DEFINE h == StoreHeader(c, m)
  <1>1. /\ h \in Cursor /\ h.end = c.end
        /\ h.ok <=> c.at + Header <= c.end
        /\ h.ok => /\ h.at = c.at + Header
                   /\ h.mem[c.at] = m.type
                   /\ h.mem[c.at + sizeofType] = CalculateSerializedMsgLen(m)
    BY StoreHeaderWorks
  <1> HIDE DEF h
  <1>2. c.at \in Nat /\ c.end \in Nat
    BY DEF Cursor
  <1>3. CASE m.type \in Short
    <2>1. Serialize(c, m) = h
      BY <1>3 DEF Serialize, h
    <2>2. CalculateSerializedMsgLen(m) = Header
      BY <1>3 DEF CalculateSerializedMsgLen
    <2> QED
      BY <1>1, <1>3, <2>1, <2>2 DEF Layout
  <1>4. CASE m.type \notin Short
    <2> DEFINE t1 == m.fields[1]
               t2 == m.fields[2]
               t3 == m.fields[3]
               d1 == StoreText(h, t1)
               d2 == StoreText(d1, t2)
               d3 == StoreText(d2, t3)
    <2>1. /\ t1 \in Text /\ t2 \in Text /\ t3 \in Text
          /\ TextLen(t1) \in Nat /\ TextLen(t2) \in Nat /\ TextLen(t3) \in Nat
      BY <1>4, FieldsAreTexts
    <2>2. Serialize(c, m) = d3
      BY <1>4 DEF Serialize, h
    <2>3. CalculateSerializedMsgLen(m) = Header + TextLen(t1) + TextLen(t2) + TextLen(t3)
      BY <1>4 DEF CalculateSerializedMsgLen
    <2>4. /\ d1 \in Cursor /\ d1.end = h.end
          /\ d1.ok <=> Fits(h, TextLen(t1))
          /\ d1.ok => /\ d1.at = h.at + TextLen(t1)
                      /\ Holds(d1.mem, h.at, t1)
                      /\ SameBelow(d1.mem, h.mem, h.at)
      BY <1>1, <2>1, StoreTextWorks
    <2> HIDE DEF t1, t2, t3, d1
    <2>5. /\ d2 \in Cursor /\ d2.end = d1.end
          /\ d2.ok <=> Fits(d1, TextLen(t2))
          /\ d2.ok => /\ d2.at = d1.at + TextLen(t2)
                      /\ Holds(d2.mem, d1.at, t2)
                      /\ SameBelow(d2.mem, d1.mem, d1.at)
      BY <2>1, <2>4, StoreTextWorks
    <2> HIDE DEF d2
    <2>6. /\ d3 \in Cursor /\ d3.end = d2.end
          /\ d3.ok <=> Fits(d2, TextLen(t3))
          /\ d3.ok => /\ d3.at = d2.at + TextLen(t3)
                      /\ Holds(d3.mem, d2.at, t3)
                      /\ SameBelow(d3.mem, d2.mem, d2.at)
      BY <2>1, <2>5, StoreTextWorks
    <2> HIDE DEF d3
    <2>7. Header = 12 /\ sizeofType = 4
      BY DEF Header, sizeofType, sizeofSize
    <2>8. d3.ok <=> c.at + CalculateSerializedMsgLen(m) <= c.end
      BY <1>1, <1>2, <2>1, <2>3, <2>4, <2>5, <2>6, <2>7 DEF Fits
    <2>9. ASSUME d3.ok
          PROVE  /\ d3.at = c.at + CalculateSerializedMsgLen(m)
                 /\ Layout(d3.mem, c.at, m)
      <3>1. /\ d2.ok /\ d1.ok /\ h.ok
            /\ h.at = c.at + Header
            /\ d1.at = c.at + Header + TextLen(t1)
            /\ d2.at = c.at + Header + TextLen(t1) + TextLen(t2)
            /\ d3.at = c.at + Header + TextLen(t1) + TextLen(t2) + TextLen(t3)
            /\ h.at \in Nat /\ d1.at \in Nat /\ d2.at \in Nat
        BY <1>1, <1>2, <2>1, <2>4, <2>5, <2>6, <2>7, <2>9 DEF Fits
      <3>2. Holds(d2.mem, h.at, t1)
        BY <2>1, <2>4, <2>5, <3>1, HoldsKept
      <3>3. d2.at >= h.at + TextLen(t1) /\ d2.at >= d1.at + TextLen(t2)
        BY <1>2, <2>1, <2>7, <3>1
      <3>4. Holds(d3.mem, h.at, t1)
        BY <2>1, <2>6, <2>9, <3>1, <3>2, <3>3, HoldsKept
      <3>5. Holds(d3.mem, d1.at, t2)
        BY <2>1, <2>5, <2>6, <2>9, <3>1, <3>3, HoldsKept
      <3>6. d3.mem[c.at] = m.type /\ d3.mem[c.at + sizeofType] = CalculateSerializedMsgLen(m)
        BY <1>1, <1>2, <2>1, <2>4, <2>5, <2>6, <2>7, <2>9, <3>1 DEF SameBelow
      <3>7. d3.at = c.at + CalculateSerializedMsgLen(m)
        BY <1>2, <2>1, <2>3, <2>7, <3>1
      <3> QED
        BY <2>6, <2>9, <3>1, <3>4, <3>5, <3>6, <3>7 DEF Layout, t1, t2, t3
    <2> QED
      BY <2>2, <2>6, <2>8, <2>9
  <1> QED
    BY <1>3, <1>4

\* A reader has n bytes of a message, at an address of its own, when its memory agrees
\* with the writer's on them; what its memory holds behind them is anything.
HasBytes(mem, b, n, old, a) == \A i \in Nat : i < n => mem[b + i] = old[a + i]

LEMMA HoldsMoves ==
    ASSUME NEW mem, NEW old, NEW a \in Nat, NEW b \in Nat, NEW k \in Nat, NEW n \in Nat,
           NEW g \in Nat, NEW t \in Text, HasBytes(mem, b, g, old, a), Holds(old, a + k, t),
           g = n \/ k + TextLen(t) <= g
    PROVE  HoldsTo(mem, b + k, t, b + n)
  <1>1. Len(t) \in Nat
    BY DEF Text
  <1>2. ASSUME b + k + sizeofSize <= b + n PROVE mem[b + k] = Len(t)
    <2>1. k < g
      BY <1>1, <1>2 DEF TextLen, sizeofSize
    <2> QED
      BY <2>1 DEF HasBytes, Holds
  <1>3. ASSUME b + k + TextLen(t) <= b + n, NEW i \in 1 .. Len(t)
        PROVE  mem[b + k + sizeofSize + i - 1] = t[i]
    <2>1. /\ k + sizeofSize + i - 1 \in Nat
          /\ k + sizeofSize + i - 1 < g
          /\ b + k + sizeofSize + i - 1 = b + (k + sizeofSize + i - 1)
          /\ a + k + sizeofSize + i - 1 = a + (k + sizeofSize + i - 1)
      BY <1>1, <1>3 DEF TextLen, sizeofSize
    <2>2. old[a + k + sizeofSize + i - 1] = t[i]
      BY DEF Holds
    <2> QED
      BY <2>1, <2>2 DEF HasBytes
  <1> QED
    BY <1>2, <1>3 DEF HoldsTo

LEMMA DeSerializeWorks ==
    ASSUME NEW c \in Cursor, c.ok, NEW m, WellFormed(m), NEW n \in Nat, c.end = c.at + n,
           NEW old, NEW a \in Nat, Layout(old, a, m),
           NEW g \in Nat, g = n \/ (g = CalculateSerializedMsgLen(m) /\ g <= n),
           HasBytes(c.mem, c.at, g, old, a)
    PROVE  /\ DeSerializeEnd(c).ok <=> CalculateSerializedMsgLen(m) <= n
           /\ DeSerializeEnd(c).ok => DeSerialize(c) = Measured(m)
  <1> DEFINE len == CalculateSerializedMsgLen(m)
             d == AfterType(c)
             h == AfterHeader(c)
  <1>1. c.at \in Nat /\ c.end \in Nat
    BY DEF Cursor
  <1>2. Header = 12 /\ sizeofType = 4 /\ sizeofSize = 8
    BY DEF Header, sizeofType, sizeofSize
  <1>3. len \in Nat /\ len >= Header
    <2>1. CASE m.type \in Short
      BY <1>2, <2>1 DEF CalculateSerializedMsgLen
    <2>2. CASE m.type \notin Short
      BY <1>2, <2>2, FieldsAreTexts DEF CalculateSerializedMsgLen
    <2> QED
      BY <2>1, <2>2
  <1>4. /\ d \in Cursor /\ d.end = c.end /\ d.mem = c.mem
        /\ d.ok <=> Fits(c, sizeofType)
        /\ d.ok => d.at = c.at + sizeofType
    BY SkipWorks DEF AfterType, sizeofType
  <1> HIDE DEF d
  <1>5. h = Skip(d, sizeofSize)
    BY DEF AfterHeader, d
  <1>6. /\ h \in Cursor /\ h.end = d.end /\ h.mem = d.mem
        /\ h.ok <=> Fits(d, sizeofSize)
        /\ h.ok => h.at = d.at + sizeofSize
    <2>1. sizeofSize \in Nat
      BY <1>2
    <2> HIDE DEF h
    <2> QED
      BY <1>4, <1>5, <2>1, SkipWorks
  <1> HIDE DEF h
  <1>7. /\ h.ok <=> Header <= n
        /\ h.ok => d.ok /\ h.at = c.at + Header
    BY <1>1, <1>2, <1>4, <1>6 DEF Fits
  <1>8. ASSUME h.ok PROVE Load(c) = m.type /\ Load(d) = len
    <2>1. c.mem[c.at + 0] = old[a + 0] /\ c.mem[c.at + 4] = old[a + 4]
      BY <1>2, <1>3, <1>7, <1>8 DEF HasBytes
    <2> QED
      BY <1>1, <1>2, <1>4, <1>7, <1>8, <2>1 DEF Load, Layout
  <1>9. Measured(m) = [type |-> m.type, len |-> len, fields |-> m.fields]
    BY DEF Measured, WellFormed, Msg
  <1> HIDE DEF len
  <1>10. CASE ~h.ok
    <2>1. ~SkipText(SkipText(SkipText(h))).ok
      BY <1>6, <1>10, StoppedStays
    <2>2. ~DeSerializeEnd(c).ok
      BY <1>10, <2>1 DEF DeSerializeEnd, AfterSecond, AfterFirst, h
    <2> QED
      BY <1>2, <1>3, <1>7, <1>10, <2>2 DEF len
  <1>3a. CASE h.ok /\ m.type \in Short
    <2>1. DeSerializeEnd(c) = h
      BY <1>8, <1>3a DEF DeSerializeEnd, h
    <2>2. len = Header
      BY <1>3a DEF CalculateSerializedMsgLen, len
    <2>3. DeSerialize(c) = [type |-> m.type, len |-> len, fields |-> << >>]
      BY <1>8, <1>3a DEF DeSerialize, d
    <2>4. m.fields = << >>
      BY <1>3a, FieldsAreTexts
    <2> QED
      BY <1>7, <1>9, <2>1, <2>2, <2>3, <2>4 DEF len
  <1>12. CASE h.ok /\ m.type \notin Short
    <2> DEFINE t1 == m.fields[1]
               t2 == m.fields[2]
               t3 == m.fields[3]
               k1 == Header
               k2 == Header + TextLen(t1)
               k3 == Header + TextLen(t1) + TextLen(t2)
               d1 == SkipText(h)
               d2 == SkipText(d1)
               d3 == SkipText(d2)
    <2>1. /\ t1 \in Text /\ t2 \in Text /\ t3 \in Text
          /\ TextLen(t1) \in Nat /\ TextLen(t2) \in Nat /\ TextLen(t3) \in Nat
          /\ m.fields = <<t1, t2, t3>>
      BY <1>12, FieldsAreTexts
    <2>2. DeSerializeEnd(c) = d3
      BY <1>8, <1>12 DEF DeSerializeEnd, AfterSecond, AfterFirst, h
    <2>3. len = k3 + TextLen(t3)
      BY <1>12 DEF CalculateSerializedMsgLen, len
    <2>4. AfterFirst(c) = d1 /\ AfterSecond(c) = d2
      BY DEF AfterFirst, AfterSecond, h
    <2>5. Holds(old, a + Header, t1)
      BY <1>12 DEF Layout
    <2>6. /\ Holds(old, a + Header + TextLen(t1), t2)
          /\ Holds(old, a + Header + TextLen(t1) + TextLen(t2), t3)
      BY <1>12 DEF Layout
    <2> HIDE DEF t1, t2, t3
    <2>7. /\ k1 \in Nat /\ k2 \in Nat /\ k3 \in Nat
          /\ k2 = k1 + TextLen(t1) /\ k3 = k2 + TextLen(t2)
          /\ a + Header = a + k1
          /\ a + Header + TextLen(t1) = a + k2
          /\ a + Header + TextLen(t1) + TextLen(t2) = a + k3
      BY <1>2, <2>1
    <2>8. Holds(old, a + k1, t1) /\ Holds(old, a + k2, t2) /\ Holds(old, a + k3, t3)
      BY <2>5, <2>6, <2>7
    <2>9. h.at = c.at + k1
      BY <1>7, <1>12
    <2> HIDE DEF k1, k2, k3
    <2>10. /\ HoldsTo(c.mem, c.at + k1, t1, c.end)
           /\ HoldsTo(c.mem, c.at + k2, t2, c.end)
           /\ HoldsTo(c.mem, c.at + k3, t3, c.end)
      <3>1. ASSUME NEW k \in Nat, NEW t \in Text, Holds(old, a + k, t), k + TextLen(t) <= len
            PROVE  HoldsTo(c.mem, c.at + k, t, c.at + n)
        <4>1. g = n \/ k + TextLen(t) <= g
          BY <3>1 DEF len
        <4> QED
          BY <1>1, <3>1, <4>1, HoldsMoves
      <3>2. k1 + TextLen(t1) <= len /\ k2 + TextLen(t2) <= len /\ k3 + TextLen(t3) <= len
        BY <2>1, <2>3, <2>7
      <3> QED
        BY <2>1, <2>7, <2>8, <3>1, <3>2
    <2>11. /\ d1 \in Cursor /\ d1.end = c.end /\ d1.mem = c.mem
           /\ d1.ok <=> k2 <= n
           /\ d1.ok => d1.at = c.at + k2 /\ LoadText(h) = t1
      <3>1. HoldsTo(h.mem, h.at, t1, h.end)
        BY <1>4, <1>6, <2>9, <2>10
      <3>2. /\ d1 \in Cursor /\ d1.end = h.end /\ d1.mem = h.mem
            /\ d1.ok <=> Fits(h, TextLen(t1))
            /\ d1.ok => d1.at = h.at + TextLen(t1) /\ LoadText(h) = t1
        BY <1>6, <2>1, <3>1, SkipTextWorks
      <3> HIDE DEF d1
      <3> QED
        BY <1>1, <1>4, <1>6, <1>12, <2>1, <2>7, <2>9, <3>2 DEF Fits
    <2> HIDE DEF d1
    <2>12. /\ d2 \in Cursor /\ d2.end = c.end /\ d2.mem = c.mem
           /\ d2.ok <=> k3 <= n
           /\ d2.ok => d1.ok /\ d2.at = c.at + k3 /\ LoadText(d1) = t2
      <3>1. CASE ~d1.ok
        <4>1. ~d2.ok /\ d2 \in Cursor /\ d2.end = d1.end /\ d2.mem = d1.mem
          BY <2>11, <3>1 DEF SkipText, Fits, Cursor
        <4> QED
          BY <2>1, <2>7, <2>11, <3>1, <4>1
      <3>2. CASE d1.ok
        <4>1. HoldsTo(d1.mem, d1.at, t2, d1.end)
          BY <2>10, <2>11, <3>2
        <4>2. /\ d2 \in Cursor /\ d2.end = d1.end /\ d2.mem = d1.mem
              /\ d2.ok <=> Fits(d1, TextLen(t2))
              /\ d2.ok => d2.at = d1.at + TextLen(t2) /\ LoadText(d1) = t2
          BY <2>1, <2>11, <4>1, SkipTextWorks
        <4> HIDE DEF d2
        <4> QED
          BY <1>1, <2>1, <2>7, <2>11, <3>2, <4>2 DEF Fits
      <3> QED
        BY <3>1, <3>2
    <2> HIDE DEF d2
    <2>13. /\ d3.ok <=> k3 + TextLen(t3) <= n
           /\ d3.ok => d2.ok /\ LoadText(d2) = t3
      <3>1. CASE ~d2.ok
        <4>1. ~d3.ok
          BY <2>12, <3>1, StoppedStays
        <4> QED
          BY <2>1, <2>7, <2>12, <3>1, <4>1
      <3>2. CASE d2.ok
        <4>1. HoldsTo(d2.mem, d2.at, t3, d2.end)
          BY <2>10, <2>12, <3>2
        <4>2. /\ d3.ok <=> Fits(d2, TextLen(t3))
              /\ d3.ok => LoadText(d2) = t3
          BY <2>1, <2>12, <4>1, SkipTextWorks
        <4> HIDE DEF d3
        <4> QED
          BY <1>1, <2>1, <2>7, <2>12, <3>2, <4>2 DEF Fits
      <3> QED
        BY <3>1, <3>2
    <2> HIDE DEF d3
    <2>14. d3.ok => DeSerialize(c) = [type |-> m.type, len |-> len, fields |-> <<t1, t2, t3>>]
      BY <1>8, <1>12, <2>4, <2>11, <2>12, <2>13 DEF DeSerialize, d, h
    <2> QED
      BY <1>9, <2>1, <2>2, <2>3, <2>13, <2>14 DEF len
  <1> QED
    BY <1>10, <1>3a, <1>12

-----------------------------------------------------------------------------
\* Serialize throws exactly when the buffer is shorter than the message; otherwise it
\* writes as many bytes as the message has just measured, so that neither send thread
\* ever takes its branch "msg serialization failed".
THEOREM LengthIsMeasured ==
    ASSUME NEW c \in Cursor, c.ok, NEW m, WellFormed(m)
    PROVE  /\ Serialize(c, m).ok <=> c.at + Measured(m).len <= c.end
           /\ Serialize(c, m).ok => SerializeDataLen(c, m) = Measured(m).len
  <1>1. Measured(m).len = CalculateSerializedMsgLen(m) /\ Measured(m).len \in Nat
    BY FieldsAreTexts DEF Measured, WellFormed, Msg
  <1>2. c.at \in Nat /\ c.end \in Nat
    BY DEF Cursor
  <1> QED
    BY <1>1, <1>2, SerializeWorks DEF SerializeDataLen

\* A reader that gets at least the bytes of a message, with whatever behind them (the
\* next messages of the stream, or what an earlier read left), has the message as it
\* was sent, the length included.
THEOREM WholeMessageComesBack ==
    ASSUME NEW c \in Cursor, c.ok, NEW m, WellFormed(m), Serialize(c, m).ok,
           NEW mem \in [Nat -> Cell], NEW b \in Nat, NEW n \in Nat, n >= Measured(m).len,
           HasBytes(mem, b, Measured(m).len, Serialize(c, m).mem, c.at)
    PROVE  /\ DeSerializeEnd(Prepare(mem, b, n)).ok
           /\ DeSerialize(Prepare(mem, b, n)) = Measured(m)
  <1> DEFINE d == Prepare(mem, b, n)
  <1>1. Measured(m).len = CalculateSerializedMsgLen(m) /\ Measured(m).len \in Nat
    BY FieldsAreTexts DEF Measured, WellFormed, Msg
  <1>2. c.at \in Nat /\ Layout(Serialize(c, m).mem, c.at, m)
    BY SerializeWorks DEF Cursor
  <1>3. /\ d \in Cursor /\ d.ok /\ d.mem = mem
        /\ d.at = b /\ d.end = d.at + n
    BY DEF Prepare, Cursor
  <1>4. HasBytes(d.mem, d.at, Measured(m).len, Serialize(c, m).mem, c.at)
    BY <1>3
  <1> HIDE DEF d
  <1>5. DeSerializeEnd(d).ok /\ DeSerialize(d) = Measured(m)
    BY <1>1, <1>2, <1>3, <1>4, DeSerializeWorks
  <1> QED
    BY <1>5 DEF d

\* From fewer bytes DeSerialize throws, whatever an earlier read has left behind them: a
\* message that arrives in two reads is never taken for another one at its first.
THEOREM TornMessageThrows ==
    ASSUME NEW c \in Cursor, c.ok, NEW m, WellFormed(m), Serialize(c, m).ok,
           NEW mem \in [Nat -> Cell], NEW b \in Nat, NEW n \in Nat, n < Measured(m).len,
           HasBytes(mem, b, n, Serialize(c, m).mem, c.at)
    PROVE  ~DeSerializeEnd(Prepare(mem, b, n)).ok
  <1> DEFINE d == Prepare(mem, b, n)
  <1>1. Measured(m).len = CalculateSerializedMsgLen(m) /\ Measured(m).len \in Nat
    BY FieldsAreTexts DEF Measured, WellFormed, Msg
  <1>2. c.at \in Nat /\ Layout(Serialize(c, m).mem, c.at, m)
    BY SerializeWorks DEF Cursor
  <1>3. /\ d \in Cursor /\ d.ok /\ d.mem = mem
        /\ d.at = b /\ d.end = d.at + n
    BY DEF Prepare, Cursor
  <1>4. HasBytes(d.mem, d.at, n, Serialize(c, m).mem, c.at)
    BY <1>3
  <1> HIDE DEF d
  <1>5. ~(CalculateSerializedMsgLen(m) <= n)
    BY <1>1
  <1>6. ~DeSerializeEnd(d).ok
    BY <1>2, <1>3, <1>4, <1>5, DeSerializeWorks
  <1> QED
    BY <1>6 DEF d
=============================================================================
