-------------------------- MODULE MsgServerProofs --------------------------
(***************************************************************************)
(* What is true of a message server with any number of clients, entities,  *)
(* messages, torn reads and sessions at one address.  Most of it needs     *)
(* that no two clients register the same name: the send thread follows its *)
(* pointer once for every entry of the table that has the addressee's name *)
(* and releases the message after the first.                               *)
(***************************************************************************)
EXTENDS MsgServer, SequenceTheorems, WellFoundedInduction, TLAPS

-----------------------------------------------------------------------------
(***************************************************************************)
(* Queues without repetitions                                              *)
(***************************************************************************)
\* What a queue holds after a message was put at its end.
LEMMA AppendedQueue ==
    ASSUME NEW S, NEW s \in Seq(S), NEW e \in S
    PROVE  /\ Append(s, e) \in Seq(S)
           /\ Range(Append(s, e)) = Range(s) \union {e}
           /\ IsInjective(s) /\ e \notin Range(s) => IsInjective(Append(s, e))
<1>1. /\ Append(s, e) \in Seq(S) /\ Len(Append(s, e)) = Len(s) + 1
      /\ \A i \in 1 .. Len(s) : Append(s, e)[i] = s[i]
      /\ Append(s, e)[Len(s) + 1] = e
  BY AppendProperties
<1>2. Len(s) \in Nat /\ DOMAIN s = 1 .. Len(s) /\ DOMAIN Append(s, e) = 1 .. Len(s) + 1
  BY <1>1, LenProperties
<1>3. \A i \in 1 .. Len(s) + 1 : i \in 1 .. Len(s) \/ i = Len(s) + 1
  BY <1>2
<1>4. Range(Append(s, e)) = Range(s) \union {e}
  BY <1>1, <1>2, <1>3 DEF Range
<1>5. ASSUME IsInjective(s), e \notin Range(s) PROVE IsInjective(Append(s, e))
  BY <1>1, <1>2, <1>3, <1>5 DEF Range, IsInjective
<1>. QED BY <1>1, <1>4, <1>5

\* What a queue holds after the message at its head was taken.
LEMMA TakenFromQueue ==
    ASSUME NEW S, NEW s \in Seq(S), s # << >>
    PROVE  /\ Head(s) \in S /\ Head(s) \in Range(s) /\ Tail(s) \in Seq(S)
           /\ Range(s) = {Head(s)} \union Range(Tail(s))
           /\ IsInjective(s) => IsInjective(Tail(s)) /\ Head(s) \notin Range(Tail(s))
<1>1. /\ Head(s) \in S /\ Tail(s) \in Seq(S) /\ Len(Tail(s)) = Len(s) - 1
      /\ \A i \in 1 .. Len(Tail(s)) : Tail(s)[i] = s[i + 1]
  BY HeadTailProperties
<1>2. Len(s) \in Nat \ {0} /\ DOMAIN s = 1 .. Len(s) /\ DOMAIN Tail(s) = 1 .. Len(s) - 1
  BY <1>1, LenProperties, EmptySeq
<1>3. Head(s) = s[1]
  OBVIOUS
<1>4. \A i \in 1 .. Len(s) : i = 1 \/ (i - 1 \in 1 .. Len(s) - 1 /\ Tail(s)[i - 1] = s[i])
  BY <1>1, <1>2
<1>5. \A i \in 1 .. Len(s) - 1 : i + 1 \in 1 .. Len(s) /\ Tail(s)[i] = s[i + 1] /\ i + 1 # 1
  BY <1>1, <1>2
<1>6. Head(s) \in Range(s)
  BY <1>2, <1>3 DEF Range
<1>7. Range(Tail(s)) \subseteq Range(s)
  BY <1>2, <1>5 DEF Range
<1>8. Range(s) \subseteq {Head(s)} \union Range(Tail(s))
  BY <1>2, <1>3, <1>4 DEF Range
<1>9. ASSUME IsInjective(s) PROVE IsInjective(Tail(s)) /\ Head(s) \notin Range(Tail(s))
  <2>1. Head(s) \notin Range(Tail(s))
    BY <1>2, <1>3, <1>5, <1>9 DEF Range, IsInjective
  <2>2. \A i, j \in 1 .. Len(s) - 1 : i + 1 = j + 1 => i = j
    BY <1>2
  <2>3. IsInjective(Tail(s))
    BY <1>2, <1>5, <1>9, <2>2 DEF IsInjective
  <2>. QED BY <2>1, <2>3
<1>. QED BY <1>1, <1>6, <1>7, <1>8, <1>9

\* Two lists without a common element, one behind the other.
LEMMA JoinedLists ==
    ASSUME NEW S, NEW s \in Seq(S), NEW t \in Seq(S)
    PROVE  /\ s \o t \in Seq(S)
           /\ Range(s \o t) = Range(s) \union Range(t)
           /\ IsInjective(s) /\ IsInjective(t) /\ Range(s) \intersect Range(t) = {}
                  => IsInjective(s \o t)
<1>1. /\ s \o t \in Seq(S) /\ Len(s \o t) = Len(s) + Len(t)
      /\ \A i \in 1 .. Len(s) + Len(t) :
             (s \o t)[i] = IF i <= Len(s) THEN s[i] ELSE t[i - Len(s)]
  BY ConcatProperties
<1>2. /\ Len(s) \in Nat /\ Len(t) \in Nat
      /\ DOMAIN s = 1 .. Len(s) /\ DOMAIN t = 1 .. Len(t)
      /\ DOMAIN (s \o t) = 1 .. Len(s) + Len(t)
  BY <1>1, LenProperties
<1>3. \A i \in 1 .. Len(s) + Len(t) :
          \/ i \in 1 .. Len(s) /\ (s \o t)[i] = s[i]
          \/ /\ ~(i \in 1 .. Len(s))
             /\ i - Len(s) \in 1 .. Len(t) /\ (s \o t)[i] = t[i - Len(s)]
  BY <1>1, <1>2
<1>4. ASSUME IsInjective(s), IsInjective(t), Range(s) \intersect Range(t) = {}
      PROVE  IsInjective(s \o t)
  <2> SUFFICES ASSUME NEW i \in 1 .. Len(s) + Len(t), NEW j \in 1 .. Len(s) + Len(t),
                      (s \o t)[i] = (s \o t)[j]
               PROVE  i = j
    BY <1>2 DEF IsInjective
  <2>1. CASE i \in 1 .. Len(s) /\ j \in 1 .. Len(s)
    BY <1>2, <1>3, <1>4, <2>1 DEF IsInjective
  <2>2. CASE i \notin 1 .. Len(s) /\ j \notin 1 .. Len(s)
    <3>1. i - Len(s) = j - Len(s)
      BY <1>2, <1>3, <1>4, <2>2 DEF IsInjective
    <3>. QED BY <1>2, <3>1
  <2>3. CASE i \in 1 .. Len(s) /\ j \notin 1 .. Len(s)
    <3>1. (s \o t)[i] \in Range(s) /\ (s \o t)[j] \in Range(t)
      BY <1>2, <1>3, <2>3 DEF Range
    <3>. QED BY <1>4, <3>1
  <2>4. CASE i \notin 1 .. Len(s) /\ j \in 1 .. Len(s)
    <3>1. (s \o t)[j] \in Range(s) /\ (s \o t)[i] \in Range(t)
      BY <1>2, <1>3, <2>4 DEF Range
    <3>. QED BY <1>4, <3>1
  <2>. QED BY <2>1, <2>2, <2>3, <2>4
<1>. QED BY <1>1, <1>4, RangeConcatenation

\* A list of one pointer, or of none.
LEMMA ShortLists ==
    ASSUME NEW S, NEW e \in S
    PROVE  /\ <<e>> \in Seq(S) /\ Range(<<e>>) = {e} /\ IsInjective(<<e>>)
           /\ << >> \in Seq(S) /\ Range(<< >>) = {} /\ IsInjective(<< >>)
BY DEF Range, IsInjective

-----------------------------------------------------------------------------
(***************************************************************************)
(* Types                                                                   *)
(***************************************************************************)
EpollSteps == {"wait", "insert", "read", "acquire", "push", "remove"}
LoopSteps == {"get", "handle", "release", "quit"}
SendSteps == {"get", "lock", "visit", "release"}
Slots == Entities \union {0}

ClientTypes ==
    /\ client \in [Clients -> {"off", "on", "left"}]
    /\ stage \in [Clients -> {"new", "registered", "deregistered"}]
    /\ sentData \in [Clients -> Nat] /\ tears \in [Clients -> Nat] /\ reuses \in [Clients -> Nat]
    /\ \A c \in Clients : /\ sentData[c] <= MaxData[c]
                          /\ tears[c] <= MaxTear[c] /\ reuses[c] <= MaxReuse[c]
    /\ stream \in [Clients -> Seq(Bytes)]
    /\ fd \in [Clients -> {"none", "open", "closed"}]

ServerTypes ==
    /\ table \in [Clients -> Entity \union {"absent", "null"}]
    /\ content \in [Entities -> Message \union {Torn, Dull, Quit}]
    /\ occupied \subseteq Entities
    /\ recvQueue \in Seq(Entities) /\ sendQueue \in Seq(Entities)
    /\ cut \subseteq Clients /\ up \in BOOLEAN

\* What a thread has in its local variables depends on where it is.
EpollTypes ==
    /\ epoll \in [at : EpollSteps, c : Clients \union {NoClient}, msg : Bytes, e : Slots]
    /\ epoll.at # "wait" => epoll.c \in Clients
    /\ epoll.at = "push" => epoll.e \in Entities

LoopTypes ==
    /\ loop \in [at : LoopSteps, e : Slots]
    /\ loop.at \in {"handle", "release"} => loop.e \in Entities

SendTypes ==
    /\ send \in [at : SendSteps, e : Slots, msg : Data \union {Torn}, todo : SUBSET Clients]
    /\ send.at # "get" => send.e \in Entities /\ send.msg \in Data

\* TypeOK without the inboxes: what the send thread forwards is a data message
\* only as long as nobody else has released it, which is not a matter of types.
TypeInv == ClientTypes /\ ServerTypes /\ EpollTypes /\ LoopTypes /\ SendTypes

\* The kinds of message are told apart by their first field.
LEMMA Kinds ==
    /\ Message \subseteq Bytes /\ Data \subseteq Message
    /\ Torn \in Bytes /\ Rest \in Bytes
    /\ Torn \notin Message /\ Rest \notin Message /\ Torn # Rest
    /\ \A m \in Message \union {Torn, Dull, Quit} :
           /\ m.kind = "data" => m \in Data
           /\ m.kind = "reg" => m.from \in Clients /\ m = RegMsg(m.from)
           /\ m.kind = "dereg" => m.from \in Clients /\ m = DeRegMsg(m.from)
    /\ \A m \in Data : m.kind = "data" /\ m.from \in Clients /\ m.to \in Names /\ m.n \in Nat
    /\ \A m \in Bytes : Decoded(m) \subseteq Message \union {Torn, Dull, Quit}
<1>1. \A m \in Data : m.kind = "data" /\ m.from \in Clients /\ m.to \in Names /\ m.n \in Nat
  BY ServerAssumption DEF Data, DataMsg
<1>2. \A m \in Message : m.kind \in {"reg", "dereg", "data"}
  BY <1>1 DEF Message, RegMsg, DeRegMsg
<1>3. \A m \in Message : /\ m.kind = "data" => m \in Data
                         /\ m.kind = "reg" => m.from \in Clients /\ m = RegMsg(m.from)
                         /\ m.kind = "dereg" => m.from \in Clients /\ m = DeRegMsg(m.from)
  BY <1>1 DEF Message, RegMsg, DeRegMsg
<1>4. /\ Torn.kind = "torn" /\ Rest.kind = "rest" /\ Dull.kind = "dull" /\ Quit.kind = "quit"
  BY DEF Torn, Rest, Dull, Quit
<1>5. Torn \notin Message /\ Rest \notin Message /\ Torn # Rest
  BY <1>2, <1>4
<1>6. \A m \in Bytes : Decoded(m) \subseteq Message \union {Torn, Dull, Quit}
  BY DEF Bytes, Decoded
<1>. QED BY <1>1, <1>3, <1>4, <1>5, <1>6 DEF Bytes, Message

\* An operation that looks for a free entity finds one.
LEMMA FirstIsMember ==
    ASSUME NEW S \in SUBSET Entities, S # {}
    PROVE  First(S) \in S
<1>1. S \subseteq Nat
  BY ServerAssumption DEF Entities
<1>2. PICK x \in S : \A y \in S : ~(<<y, x>> \in OpToRel(<, Nat))
  BY <1>1, NatLessThanWellFounded, WFMin
<1>3. \A y \in S : x <= y
  <2>1. \A y \in S : y \in Nat /\ ~(y < x)
    BY <1>1, <1>2 DEF OpToRel
  <2>. QED BY <1>1, <2>1
<1>4. \E e \in S : \A d \in S : e <= d
  BY <1>3
<1>. QED BY <1>4 DEF First

LEMMA AcquiredIsFree ==
    ASSUME TypeInv, EpollDeSerialize
    PROVE  First(Entities \ occupied) \in Entities \ occupied
<1>1. (Entities \ occupied) \in SUBSET Entities /\ (Entities \ occupied) # {}
  BY DEF EpollDeSerialize, TypeInv, ServerTypes
<1>. QED BY <1>1, FirstIsMember

LEMMA TypeInit == Init => TypeInv
<1> SUFFICES ASSUME Init PROVE TypeInv
  OBVIOUS
<1>1. 0 \in Slots /\ Torn \in Bytes
  BY Kinds DEF Slots
<1>. QED BY <1>1, ServerAssumption
     DEF Init, TypeInv, ClientTypes, ServerTypes, EpollTypes, LoopTypes, SendTypes, EpollIdle,
         LoopIdle, SendIdle, EpollSteps, LoopSteps, SendSteps, Entity, Message

\* A counter that is below its bound is counted up.
LEMMA CountedUp ==
    ASSUME NEW f \in [Clients -> Nat], NEW M \in [Clients -> Nat],
           \A d \in Clients : f[d] <= M[d], NEW c \in Clients, f[c] < M[c]
    PROVE  /\ [f EXCEPT ![c] = @ + 1] \in [Clients -> Nat]
           /\ \A d \in Clients : [f EXCEPT ![c] = @ + 1][d] <= M[d]
           /\ f[c] + 1 \in 1 .. M[c]
<1>1. f[c] \in Nat /\ M[c] \in Nat /\ f[c] + 1 \in Nat /\ f[c] + 1 <= M[c]
  OBVIOUS
<1>2. f[c] + 1 \in 1 .. M[c]
  BY <1>1
<1>3. \A d \in Clients : [f EXCEPT ![c] = @ + 1][d] = IF d = c THEN f[c] + 1 ELSE f[d]
  OBVIOUS
<1>4. \A d \in Clients : [f EXCEPT ![c] = @ + 1][d] <= M[d]
  BY <1>1, <1>3
<1>. QED BY <1>1, <1>2, <1>4

LEMMA ClientTypesNext == TypeInv /\ [Next]_vars => ClientTypes'
<1> SUFFICES ASSUME TypeInv, [Next]_vars PROVE ClientTypes'
  OBVIOUS
<1> USE DEF TypeInv, ClientTypes
<1>1. ASSUME NEW c \in Clients, NEW m \in Bytes, Write(c, m)
      PROVE  stream' \in [Clients -> Seq(Bytes)]
  BY <1>1 DEF Write
<1>2. ASSUME NEW c \in Clients, ClientStep(c) PROVE ClientTypes'
  <2>1. CASE Connect(c)
    BY <2>1 DEF Connect, serverVars
  <2>2. CASE ReConnect(c)
    <3>1. /\ reuses' \in [Clients -> Nat]
          /\ \A d \in Clients : reuses'[d] <= MaxReuse[d]
      BY <2>2, ServerAssumption, CountedUp DEF ReConnect
    <3>. QED BY <2>2, <3>1 DEF ReConnect
  <2>3. CASE Register(c)
    <3>1. stream' \in [Clients -> Seq(Bytes)]
      BY <1>1, <2>3, Kinds DEF Register, Message
    <3>. QED BY <2>3, <3>1 DEF Register, serverVars
  <2>4. CASE DeRegister(c)
    <3>1. stream' \in [Clients -> Seq(Bytes)]
      BY <1>1, <2>4, Kinds DEF DeRegister, Message
    <3>. QED BY <2>4, <3>1 DEF DeRegister, serverVars
  <2>5. CASE Leave(c)
    BY <2>5 DEF Leave, serverVars
  <2>6. ASSUME NEW to \in Names, SendData(c, to) PROVE ClientTypes'
    <3>1. /\ sentData[c] + 1 \in 1 .. MaxData[c]
          /\ sentData' \in [Clients -> Nat]
          /\ \A d \in Clients : sentData'[d] <= MaxData[d]
      BY <2>6, ServerAssumption, CountedUp DEF SendData
    <3>2. DataMsg(c, to, sentData[c] + 1) \in Bytes
      BY <3>1, Kinds DEF Data
    <3>3. stream' \in [Clients -> Seq(Bytes)]
      BY <1>1, <2>6, <3>2 DEF SendData
    <3>. QED BY <2>6, <3>1, <3>3 DEF SendData, serverVars
  <2>. QED BY <1>2, <2>1, <2>2, <2>3, <2>4, <2>5, <2>6 DEF ClientStep
<1>3. CASE EpollStep
  <2>1. ASSUME NEW c \in Clients, EpollAccept(c) \/ EpollFind(c) PROVE ClientTypes'
    BY <2>1 DEF EpollAccept, EpollFind, clientVars
  <2>2. CASE EpollInsert \/ EpollEOF
    BY <2>2 DEF EpollInsert, EpollEOF, EpollTypes, clientVars
  <2>3. CASE EpollRead
    <3>1. PICK n \in 1 .. Len(stream[epoll.c]), inside \in BOOLEAN :
             LET rest == SubSeq(stream[epoll.c], n + 1, Len(stream[epoll.c])) IN
             /\ inside => tears[epoll.c] < MaxTear[epoll.c]
             /\ tears' = IF inside THEN [tears EXCEPT ![epoll.c] = @ + 1] ELSE tears
             /\ stream' = [stream EXCEPT ![epoll.c] =
                                IF inside THEN <<Rest>> \o rest ELSE rest]
      BY <2>3 DEF EpollRead
    <3>2. epoll.c \in Clients
      BY <2>3 DEF EpollRead, EpollTypes
    <3> DEFINE s == stream[epoll.c]
               rest == SubSeq(s, n + 1, Len(s))
    <3>3. s \in Seq(Bytes) /\ Len(s) \in Nat
      BY <3>2
    <3>4. \A i \in n + 1 .. Len(s) : s[i] \in Bytes
      BY <3>3, ElementOfSeq
    <3>5. rest \in Seq(Bytes)
      BY <3>3, <3>4, SubSeqProperties
    <3>6. <<Rest>> \in Seq(Bytes)
      BY Kinds
    <3>7. <<Rest>> \o rest \in Seq(Bytes)
      BY <3>5, <3>6, ConcatProperties
    <3>8. (IF inside THEN <<Rest>> \o rest ELSE rest) \in Seq(Bytes)
      BY <3>5, <3>7
    <3>9. stream' \in [Clients -> Seq(Bytes)]
      BY <3>1, <3>2, <3>8
    <3>10. /\ tears' \in [Clients -> Nat]
           /\ \A c \in Clients : tears'[c] <= MaxTear[c]
      <4>1. CASE inside
        BY <3>1, <3>2, <4>1, ServerAssumption, CountedUp
      <4>2. CASE ~inside
        BY <3>1, <4>2
      <4>. QED BY <4>1, <4>2
    <3>. QED BY <2>3, <3>9, <3>10 DEF EpollRead, clientVars
  <2>4. CASE EpollRemove \/ EpollDeSerialize \/ EpollPush \/ EpollExit
    BY <2>4 DEF EpollRemove, EpollDeSerialize, EpollPush, EpollExit, clientVars
  <2>. QED BY <1>3, <2>1, <2>2, <2>3, <2>4 DEF EpollStep
<1>4. CASE LoopStep
  BY <1>4 DEF LoopStep, LoopGet, HandleRegMsg, HandleDeRegMsg, LoopRelease, HandleDataMsg,
              HandleDullMsg, HandleQuitMsg, clientVars
<1>5. CASE SendStep
  BY <1>5
  DEF SendStep, SendGet, SendLock, SendRelease, SendUnLock, SendTo, Transmit, clientVars
<1>6. CASE UNCHANGED vars
  BY <1>6 DEF vars, clientVars
<1>. QED BY <1>2, <1>3, <1>4, <1>5, <1>6 DEF Next

LEMMA ServerTypesNext == TypeInv /\ [Next]_vars => ServerTypes'
<1> SUFFICES ASSUME TypeInv, [Next]_vars PROVE ServerTypes'
  OBVIOUS
<1> USE DEF TypeInv, ServerTypes
<1>1. ASSUME NEW c \in Clients, ClientStep(c) PROVE ServerTypes'
  BY <1>1 DEF ClientStep, Connect, ReConnect, Register, SendData, DeRegister, Leave,
              serverVars, poolVars
<1>2. CASE EpollStep
  <2>1. ASSUME NEW c \in Clients, EpollAccept(c) \/ EpollFind(c) PROVE ServerTypes'
    BY <2>1 DEF EpollAccept, EpollFind, poolVars
  <2>2. CASE EpollInsert \/ EpollRemove
    BY <2>2 DEF EpollInsert, EpollRemove, EpollTypes, Entity, poolVars
  <2>3. CASE EpollEOF \/ EpollRead \/ EpollExit
    BY <2>3 DEF EpollEOF, EpollRead, EpollExit, poolVars
  <2>4. CASE EpollDeSerialize
    <3>1. First(Entities \ occupied) \in Entities
      BY <2>4, AcquiredIsFree
    <3>2. Decoded(epoll.msg) \subseteq Message \union {Torn, Dull, Quit}
      BY Kinds DEF EpollTypes
    <3>. QED BY <2>4, <3>1, <3>2 DEF EpollDeSerialize
  <2>5. CASE EpollPush
    <3>1. recvQueue' \in Seq(Entities)
      BY <2>5, AppendedQueue DEF EpollPush, EpollTypes
    <3>. QED BY <2>5, <3>1 DEF EpollPush, poolVars
  <2>. QED BY <1>2, <2>1, <2>2, <2>3, <2>4, <2>5 DEF EpollStep
<1>3. CASE LoopStep
  <2>1. CASE LoopGet
    <3>1. recvQueue' \in Seq(Entities)
      BY <2>1, TakenFromQueue DEF LoopGet
    <3>. QED BY <2>1, <3>1 DEF LoopGet, poolVars
  <2>2. CASE HandleRegMsg
    BY <2>2 DEF HandleRegMsg, WriteName, Entity, poolVars
  <2>3. CASE HandleDeRegMsg
    BY <2>3 DEF HandleDeRegMsg, WriteName, Entity, poolVars
  <2>4. CASE HandleDataMsg
    <3>1. sendQueue' \in Seq(Entities)
      BY <2>4, AppendedQueue DEF HandleDataMsg, LoopTypes
    <3>. QED BY <2>4, <3>1 DEF HandleDataMsg, poolVars
  <2>5. CASE LoopRelease \/ HandleDullMsg \/ HandleQuitMsg
    BY <2>5 DEF LoopRelease, HandleDullMsg, HandleQuitMsg, poolVars
  <2>. QED BY <1>3, <2>1, <2>2, <2>3, <2>4, <2>5 DEF LoopStep
<1>4. CASE SendStep
  <2>1. CASE SendGet
    <3>1. Tail(sendQueue) \in Seq(Entities)
      BY <2>1, TakenFromQueue DEF SendGet
    <3>. QED BY <2>1, <3>1 DEF SendGet, poolVars
  <2>2. CASE SendLock \/ SendRelease \/ SendUnLock
    BY <2>2 DEF SendLock, SendRelease, SendUnLock, poolVars
  <2>3. ASSUME NEW c \in Clients, SendTo(c) PROVE ServerTypes'
    BY <2>3 DEF SendTo, Transmit, poolVars
  <2>. QED BY <1>4, <2>1, <2>2, <2>3 DEF SendStep
<1>5. CASE UNCHANGED vars
  BY <1>5 DEF vars, poolVars
<1>. QED BY <1>1, <1>2, <1>3, <1>4, <1>5 DEF Next

LEMMA EpollTypesNext == TypeInv /\ [Next]_vars => EpollTypes'
<1> SUFFICES ASSUME TypeInv, [Next]_vars PROVE EpollTypes'
  OBVIOUS
<1> USE DEF TypeInv, EpollTypes, EpollSteps
<1>1. EpollIdle \in [at : EpollSteps, c : Clients \union {NoClient}, msg : Bytes, e : Slots]
  BY Kinds DEF EpollIdle, Slots
<1>2. ASSUME UNCHANGED epoll PROVE EpollTypes'
  BY <1>2
<1>3. ASSUME epoll' = EpollIdle PROVE EpollTypes'
  BY <1>1, <1>3 DEF EpollIdle
<1>4. ASSUME NEW c \in Clients, ClientStep(c) PROVE UNCHANGED epoll
  BY <1>4 DEF ClientStep, Connect, ReConnect, Register, SendData, DeRegister, Leave, serverVars
<1>5. CASE EpollStep
  <2>1. ASSUME NEW c \in Clients, EpollAccept(c) \/ EpollFind(c) PROVE EpollTypes'
    BY <2>1 DEF EpollAccept, EpollFind
  <2>2. CASE EpollInsert \/ EpollRemove \/ EpollPush
    BY <1>3, <2>2 DEF EpollInsert, EpollRemove, EpollPush
  <2>3. CASE EpollEOF
    BY <2>3 DEF EpollEOF
  <2>4. CASE EpollRead
    <3>1. epoll.c \in Clients /\ stream[epoll.c] \in Seq(Bytes)
      BY <2>4 DEF EpollRead, ClientTypes
    <3>2. PICK n \in 1 .. Len(stream[epoll.c]), inside \in BOOLEAN :
             epoll' = [epoll EXCEPT !.at = "acquire",
                            !.msg = IF inside /\ n = 1 THEN Torn ELSE Head(stream[epoll.c])]
      BY <2>4 DEF EpollRead
    <3>3. stream[epoll.c] # << >>
      BY <3>1, <3>2
    <3>4. Head(stream[epoll.c]) \in Bytes
      BY <3>1, <3>3, HeadTailProperties
    <3>. QED BY <3>1, <3>2, <3>4, Kinds
  <2>5. CASE EpollDeSerialize
    <3>1. First(Entities \ occupied) \in Entities
      BY <2>5, AcquiredIsFree
    <3>2. \/ epoll' = EpollIdle
          \/ epoll' = [epoll EXCEPT !.at = "push", !.e = First(Entities \ occupied)]
      BY <2>5 DEF EpollDeSerialize
    <3>3. CASE epoll' = [epoll EXCEPT !.at = "push", !.e = First(Entities \ occupied)]
      <4>1. epoll.at = "acquire"
        BY <2>5 DEF EpollDeSerialize
      <4>. QED BY <3>1, <3>3, <4>1 DEF Slots
    <3>. QED BY <1>3, <3>2, <3>3
  <2>6. CASE EpollExit
    BY <2>6 DEF EpollExit
  <2>. QED BY <1>5, <2>1, <2>2, <2>3, <2>4, <2>5, <2>6 DEF EpollStep
<1>6. CASE LoopStep \/ SendStep
  <2>1. UNCHANGED epoll
    BY <1>6 DEF LoopStep, LoopGet, HandleRegMsg, HandleDeRegMsg, LoopRelease, HandleDataMsg,
                HandleDullMsg, HandleQuitMsg, SendStep, SendGet, SendLock, SendRelease,
                SendUnLock, SendTo, Transmit
  <2>. QED BY <1>2, <2>1
<1>7. CASE UNCHANGED vars
  BY <1>2, <1>7 DEF vars
<1>. QED BY <1>2, <1>4, <1>5, <1>6, <1>7 DEF Next

LEMMA LoopTypesNext == TypeInv /\ [Next]_vars => LoopTypes'
<1> SUFFICES ASSUME TypeInv, [Next]_vars PROVE LoopTypes'
  OBVIOUS
<1> USE DEF TypeInv, LoopTypes, LoopSteps, LoopIdle, Slots
<1>1. ASSUME UNCHANGED loop PROVE LoopTypes'
  BY <1>1
<1>2. ASSUME NEW c \in Clients, ClientStep(c) PROVE UNCHANGED loop
  BY <1>2 DEF ClientStep, Connect, ReConnect, Register, SendData, DeRegister, Leave, serverVars
<1>3. CASE EpollStep \/ SendStep
  BY <1>3 DEF EpollStep, EpollAccept, EpollFind, EpollInsert, EpollEOF, EpollRemove, EpollRead,
              EpollDeSerialize, EpollPush, EpollExit, SendStep, SendGet, SendLock, SendRelease,
              SendUnLock, SendTo, Transmit
<1>4. CASE LoopStep
  <2>1. CASE LoopGet
    <3>1. Head(recvQueue) \in Entities
      BY <2>1, TakenFromQueue DEF LoopGet, ServerTypes
    <3>. QED BY <2>1, <3>1 DEF LoopGet
  <2>2. CASE HandleRegMsg
    BY <2>2 DEF HandleRegMsg, WriteName
  <2>3. CASE HandleDeRegMsg
    BY <2>3 DEF HandleDeRegMsg, WriteName
  <2>4. CASE LoopRelease \/ HandleDataMsg \/ HandleDullMsg \/ HandleQuitMsg
    BY <2>4 DEF LoopRelease, HandleDataMsg, HandleDullMsg, HandleQuitMsg
  <2>. QED BY <1>4, <2>1, <2>2, <2>3, <2>4 DEF LoopStep
<1>5. CASE UNCHANGED vars
  BY <1>1, <1>5 DEF vars
<1>. QED BY <1>1, <1>2, <1>3, <1>4, <1>5 DEF Next

LEMMA SendTypesNext == TypeInv /\ [Next]_vars => SendTypes'
<1> SUFFICES ASSUME TypeInv, [Next]_vars PROVE SendTypes'
  OBVIOUS
<1> USE DEF TypeInv, SendTypes, SendSteps, SendIdle, Slots
<1>1. ASSUME UNCHANGED send PROVE SendTypes'
  BY <1>1
<1>2. ASSUME NEW c \in Clients, ClientStep(c) PROVE UNCHANGED send
  BY <1>2 DEF ClientStep, Connect, ReConnect, Register, SendData, DeRegister, Leave, serverVars
<1>3. CASE EpollStep \/ LoopStep
  <2>1. UNCHANGED send
    BY <1>3 DEF EpollStep, EpollAccept, EpollFind, EpollInsert, EpollEOF, EpollRemove, EpollRead,
              EpollDeSerialize, EpollPush, EpollExit, LoopStep, LoopGet, HandleRegMsg,
              HandleDeRegMsg, LoopRelease, HandleDataMsg, HandleDullMsg, HandleQuitMsg
  <2>. QED BY <1>1, <2>1
<1>4. CASE SendStep
  <2>1. CASE SendGet
    <3>1. Head(sendQueue) \in Entities
      BY <2>1, TakenFromQueue DEF SendGet, ServerTypes
    <3>2. CASE content[Head(sendQueue)].kind = "data"
      <4>1. content[Head(sendQueue)] \in Data
        BY <3>1, <3>2, Kinds DEF ServerTypes
      <4>. QED BY <2>1, <3>1, <3>2, <4>1 DEF SendGet
    <3>3. CASE content[Head(sendQueue)].kind # "data"
      BY <2>1, <3>3 DEF SendGet
    <3>. QED BY <3>2, <3>3
  <2>2. CASE SendLock
    BY <2>2 DEF SendLock
  <2>3. CASE SendRelease \/ SendUnLock
    BY <2>3 DEF SendRelease, SendUnLock
  <2>4. ASSUME NEW c \in Clients, SendTo(c) PROVE SendTypes'
    BY <2>4 DEF SendTo, Transmit
  <2>. QED BY <1>4, <2>1, <2>2, <2>3, <2>4 DEF SendStep
<1>5. CASE UNCHANGED vars
  BY <1>1, <1>5 DEF vars
<1>. QED BY <1>1, <1>2, <1>3, <1>4, <1>5 DEF Next

LEMMA TypeNext == TypeInv /\ [Next]_vars => TypeInv'
BY ClientTypesNext, ServerTypesNext, EpollTypesNext, LoopTypesNext, SendTypesNext DEF TypeInv

LEMMA TypeInvariant == SafeSpec => []TypeInv
BY TypeInit, TypeNext, PTL DEF SafeSpec

-----------------------------------------------------------------------------
(***************************************************************************)
(* The table and the connections                                           *)
(***************************************************************************)
\* The epoll thread closes sockets without the lock: what it knows about its own
\* connection carries the property through the steps in which the lock is free.
TableInv ==
    /\ TableMatchesConnections
    /\ epoll.at = "insert" => fd[epoll.c] = "none"
    /\ epoll.at \in {"read", "acquire", "push"} => fd[epoll.c] = "open"
    /\ epoll.at = "remove" => fd[epoll.c] # "open"

LEMMA TableInit == Init => TableInv
BY DEF Init, TableInv, TableMatchesConnections, EpollIdle, SendIdle, Entity

\* What the call-backs of the two messages write into the table.
LEMMA TableWritten ==
    ASSUME TypeInv, TableInv, NEW c \in Clients, NEW name \in Entity, WriteName(c, name),
           UNCHANGED <<fd, epoll, send>>
    PROVE  TableInv'
BY DEF TypeInv, ServerTypes, TableInv, TableMatchesConnections, WriteName, TableFree, Entity

LEMMA TableNext == TypeInv /\ TableInv /\ [Next]_vars => TableInv'
<1> SUFFICES ASSUME TypeInv, TableInv, [Next]_vars PROVE TableInv'
  OBVIOUS
<1>1. ASSUME UNCHANGED <<fd, table, epoll, send>> PROVE TableInv'
  BY <1>1 DEF TableInv, TableMatchesConnections
<1>2. ASSUME NEW c \in Clients, ClientStep(c) PROVE TableInv'
  <2>1. CASE ReConnect(c)
    BY <2>1 DEF ReConnect, TypeInv, ClientTypes, EpollTypes, EpollSteps, TableInv,
                TableMatchesConnections
  <2>2. CASE ~ReConnect(c)
    <3>1. UNCHANGED <<fd, table, epoll, send>>
      BY <1>2, <2>2 DEF ClientStep, Connect, Register, SendData, DeRegister, Leave, serverVars
    <3>. QED BY <1>1, <3>1
  <2>. QED BY <2>1, <2>2
<1>3. CASE EpollStep
  <2> USE DEF TypeInv, ClientTypes, ServerTypes, EpollTypes, TableInv, TableMatchesConnections,
              TableFree, EpollIdle, Entity
  <2>1. ASSUME NEW c \in Clients, EpollAccept(c) PROVE TableInv'
    <3>1. \/ fd' = [fd EXCEPT ![c] = "closed"] /\ UNCHANGED epoll
          \/ epoll' = [epoll EXCEPT !.at = "insert", !.c = c] /\ UNCHANGED fd
      BY <2>1 DEF EpollAccept
    <3>2. epoll.at = "wait" /\ fd[c] = "none" /\ UNCHANGED <<table, send>>
      BY <2>1 DEF EpollAccept
    <3>3. CASE fd' = [fd EXCEPT ![c] = "closed"] /\ UNCHANGED epoll
      BY <3>2, <3>3
    <3>4. CASE epoll' = [epoll EXCEPT !.at = "insert", !.c = c] /\ UNCHANGED fd
      <4>1. epoll'.at = "insert" /\ epoll'.c = c
        BY <3>4
      <4>. QED BY <3>2, <3>4, <4>1
    <3>. QED BY <3>1, <3>3, <3>4
  <2>2. ASSUME NEW c \in Clients, EpollFind(c) PROVE TableInv'
    BY <2>2 DEF EpollFind
  <2>3. CASE EpollInsert
    BY <2>3 DEF EpollInsert
  <2>4. CASE EpollEOF
    BY <2>4 DEF EpollEOF
  <2>5. CASE EpollRemove
    BY <2>5 DEF EpollRemove
  <2>6. CASE EpollRead
    <3>1. /\ epoll.at = "read" /\ epoll'.at = "acquire" /\ epoll'.c = epoll.c
          /\ UNCHANGED <<fd, table, send>>
      BY <2>6 DEF EpollRead
    <3>. QED BY <3>1
  <2>7. CASE EpollDeSerialize
    <3>1. /\ epoll.at = "acquire" /\ epoll'.at \in {"wait", "push"}
          /\ epoll'.at = "push" => epoll'.c = epoll.c
          /\ UNCHANGED <<fd, table, send>>
      BY <2>7 DEF EpollDeSerialize
    <3>. QED BY <3>1
  <2>8. CASE EpollPush
    BY <2>8 DEF EpollPush
  <2>9. CASE EpollExit
    BY <2>9 DEF EpollExit
  <2>. QED BY <1>3, <2>1, <2>2, <2>3, <2>4, <2>5, <2>6, <2>7, <2>8, <2>9 DEF EpollStep
<1>4. CASE LoopStep
  <2>1. CASE HandleRegMsg
    BY <2>1, TableWritten, Kinds
    DEF HandleRegMsg, TypeInv, ServerTypes, LoopTypes, Entity
  <2>2. CASE HandleDeRegMsg
    BY <2>2, TableWritten, Kinds
    DEF HandleDeRegMsg, TypeInv, ServerTypes, LoopTypes, Entity
  <2>3. CASE LoopGet \/ LoopRelease \/ HandleDataMsg \/ HandleDullMsg \/ HandleQuitMsg
    BY <1>1, <2>3 DEF LoopGet, LoopRelease, HandleDataMsg, HandleDullMsg, HandleQuitMsg
  <2>. QED BY <1>4, <2>1, <2>2, <2>3 DEF LoopStep
<1>5. CASE SendStep
  <2> USE DEF TypeInv, SendTypes, TableInv, TableMatchesConnections, SendIdle
  <2>1. CASE SendGet
    <3>1. CASE content[Head(sendQueue)].kind = "data"
      BY <2>1, <3>1 DEF SendGet
    <3>2. CASE content[Head(sendQueue)].kind # "data"
      BY <2>1, <3>2 DEF SendGet
    <3>. QED BY <3>1, <3>2
  <2>2. CASE SendLock
    BY <2>2 DEF SendLock
  <2>3. CASE SendRelease
    BY <2>3 DEF SendRelease
  <2>4. CASE SendUnLock
    BY <2>4 DEF SendUnLock
  <2>5. ASSUME NEW c \in Clients, SendTo(c) PROVE TableInv'
    BY <2>5 DEF SendTo, Transmit
  <2>. QED BY <1>5, <2>1, <2>2, <2>3, <2>4, <2>5 DEF SendStep
<1>6. CASE UNCHANGED vars
  BY <1>1, <1>6 DEF vars
<1>. QED BY <1>2, <1>3, <1>4, <1>5, <1>6 DEF Next

\* TableMatchesConnections: whatever names the clients register, the epoll thread's
\* unlocked use of a client's buffer and the send thread's walk over the table never
\* meet an entity that has been deleted.
THEOREM TableIsInStep == SafeSpec => []TableMatchesConnections
<1>1. TypeInv /\ TableInv /\ [Next]_vars => TypeInv' /\ TableInv'
  BY TypeNext, TableNext
<1>. QED BY <1>1, TypeInit, TableInit, PTL DEF SafeSpec, TableInv

-----------------------------------------------------------------------------
(***************************************************************************)
(* Who follows which pointer                                               *)
(***************************************************************************)
\* The table is searched by name although its key is the address: that a message has
\* one owner needs that every session registers a name of its own.
DistinctNames == \A c, d \in Clients : NameOf[c] = NameOf[d] => c = d

Received == Range(recvQueue)
ToSend == Range(sendQueue)
EpollOwns == IF epoll.at = "push" THEN {epoll.e} ELSE {}
LoopOwns == IF loop.at \in {"handle", "release"} THEN {loop.e} ELSE {}
SendOwns == IF send.at \in {"lock", "release"} \/ send.todo # {} THEN {send.e} ELSE {}

OneOwner ==
    /\ IsInjective(recvQueue) /\ IsInjective(sendQueue)
    /\ Received \intersect ToSend = {}
    /\ EpollOwns \intersect (Received \union ToSend) = {}
    /\ LoopOwns \intersect (Received \union ToSend \union EpollOwns) = {}
    /\ SendOwns \intersect (Received \union ToSend \union EpollOwns \union LoopOwns) = {}

Owned == Received \union ToSend \union EpollOwns \union LoopOwns \union SendOwns

\* Only clients with the addressee's name are still to come in a scan, which with
\* DistinctNames is one at most: after its release nobody follows the pointer again.
ScanInv ==
    /\ send.at \in {"get", "lock", "release"} => send.todo = {}
    /\ \A c \in send.todo : NameOf[c] = send.msg.to

Owners == OneOwner /\ Owned \subseteq occupied /\ ScanInv

\* An entity that somebody has a pointer to still holds the message it was filled
\* with, for it is not handed out again.
Contents ==
    /\ \A e \in ToSend : content[e] \in Data
    /\ SendOwns # {} => content[send.e] = send.msg
    /\ inbox \in [Clients -> Seq(Data)]
    /\ epoll.at = "push" => content[epoll.e] \in Decoded(epoll.msg)

\* What the send thread takes is data: its cast does not fail.
LEMMA SendGetsData ==
    ASSUME TypeInv, Contents, SendGet
    PROVE  /\ sendQueue \in Seq(Entities) /\ sendQueue # << >> /\ sendQueue' = Tail(sendQueue)
           /\ send.at = "get"
           /\ send' = [at |-> "lock", e |-> Head(sendQueue),
                       msg |-> content[Head(sendQueue)], todo |-> {}]
           /\ UNCHANGED <<clientVars, stream, inbox, content, occupied, recvQueue, epoll, loop>>
<1>1. Head(sendQueue) \in ToSend
  BY TakenFromQueue DEF SendGet, TypeInv, ServerTypes, ToSend
<1>2. content[Head(sendQueue)].kind = "data"
  BY <1>1, Kinds DEF Contents
<1>. QED BY <1>2 DEF SendGet, TypeInv, ServerTypes, poolVars

LEMMA OwnersInit == Init => Owners /\ Contents
<1> SUFFICES ASSUME Init PROVE Owners /\ Contents
  OBVIOUS
<1>1. Received = {} /\ ToSend = {} /\ IsInjective(recvQueue) /\ IsInjective(sendQueue)
  BY DEF Init, Received, ToSend, Range, IsInjective
<1>2. EpollOwns = {} /\ LoopOwns = {} /\ SendOwns = {}
  BY DEF Init, EpollOwns, LoopOwns, SendOwns, EpollIdle, LoopIdle, SendIdle
<1>3. ScanInv
  BY DEF Init, ScanInv, SendIdle
<1>. QED BY <1>1, <1>2, <1>3 DEF Init, Owners, OneOwner, Owned, Contents, EpollIdle

\* What leaves the queues, the threads and the pool alone changes no owner.
LEMMA OwnersKept ==
    ASSUME Owners, UNCHANGED <<recvQueue, sendQueue, EpollOwns, loop, send, occupied>>
    PROVE  Owners'
BY DEF Owners, OneOwner, Owned, ScanInv, Received, ToSend, LoopOwns, SendOwns

LEMMA ClientOwners ==
    ASSUME Owners, NEW c \in Clients, ClientStep(c)
    PROVE  Owners'
<1>1. UNCHANGED <<recvQueue, sendQueue, epoll, loop, send, occupied>>
  BY DEF ClientStep, Connect, ReConnect, Register, SendData, DeRegister, Leave, serverVars,
         poolVars
<1>. QED BY <1>1, OwnersKept DEF EpollOwns

LEMMA EpollOwners ==
    ASSUME TypeInv, Owners, EpollStep
    PROVE  Owners'
<1>1. UNCHANGED <<sendQueue, loop, send>> /\ UNCHANGED <<LoopOwns, SendOwns, ToSend>> /\ ScanInv'
  BY DEF EpollStep, EpollAccept, EpollFind, EpollInsert, EpollEOF, EpollRemove, EpollRead,
         EpollDeSerialize, EpollPush, EpollExit, LoopOwns, SendOwns, ToSend, Owners, ScanInv
<1>2. ASSUME UNCHANGED <<recvQueue, occupied>>, EpollOwns = {}, EpollOwns' = {} PROVE Owners'
  BY <1>1, <1>2, OwnersKept
<1>3. ASSUME NEW c \in Clients, EpollAccept(c) \/ EpollFind(c) PROVE Owners'
  <2>1. UNCHANGED <<recvQueue, occupied>> /\ epoll.at = "wait" /\ epoll'.at # "push"
    BY <1>3 DEF EpollAccept, EpollFind, poolVars, TypeInv, EpollTypes
  <2>. QED BY <1>2, <2>1 DEF EpollOwns
<1>4. CASE EpollInsert \/ EpollEOF \/ EpollRemove \/ EpollRead
  <2>1. UNCHANGED <<recvQueue, occupied>> /\ epoll.at # "push" /\ epoll'.at # "push"
    <3>1. CASE EpollInsert \/ EpollRemove
      BY <3>1 DEF EpollInsert, EpollRemove, EpollIdle, poolVars
    <3>2. CASE EpollEOF
      BY <3>2 DEF EpollEOF, TypeInv, EpollTypes, poolVars
    <3>3. CASE EpollRead
      BY <3>3 DEF EpollRead, TypeInv, EpollTypes, poolVars
    <3>. QED BY <1>4, <3>1, <3>2, <3>3
  <2>. QED BY <1>2, <2>1 DEF EpollOwns
<1>5. CASE EpollDeSerialize
  <2> DEFINE e == First(Entities \ occupied)
  <2>1. e \in Entities \ occupied
    BY <1>5, AcquiredIsFree
  <2>2. recvQueue' = recvQueue /\ occupied' = occupied \union {e} /\ epoll.at = "acquire"
    BY <1>5 DEF EpollDeSerialize
  <2>3. epoll' = EpollIdle \/ epoll' = [epoll EXCEPT !.at = "push", !.e = e]
    BY <1>5 DEF EpollDeSerialize
  <2>4. EpollOwns' = {} \/ EpollOwns' = {e}
    <3>1. CASE epoll' = EpollIdle
      BY <3>1 DEF EpollOwns, EpollIdle
    <3>2. CASE epoll' = [epoll EXCEPT !.at = "push", !.e = e]
      <4> HIDE DEF e
      <4>1. epoll'.at = "push" /\ epoll'.e = e
        BY <3>2 DEF TypeInv, EpollTypes
      <4>. QED BY <4>1 DEF EpollOwns
    <3>. QED BY <2>3, <3>1, <3>2
  <2>5. EpollOwns = {} /\ Received' = Received
    BY <2>2 DEF EpollOwns, Received
  <2> HIDE DEF e
  <2>6. OneOwner' /\ (Owned \subseteq occupied)'
    BY <1>1, <2>1, <2>2, <2>4, <2>5 DEF Owners, OneOwner, Owned
  <2>. QED BY <1>1, <2>6 DEF Owners
<1>6. CASE EpollPush
  <2>1. /\ epoll.e \in Entities /\ EpollOwns = {epoll.e} /\ EpollOwns' = {}
        /\ recvQueue' = Append(recvQueue, epoll.e) /\ UNCHANGED occupied
    BY <1>6 DEF EpollPush, EpollOwns, EpollIdle, TypeInv, EpollTypes, poolVars
  <2>2. epoll.e \notin Received
    BY <2>1 DEF Owners, OneOwner
  <2>3. Received' = Received \union {epoll.e} /\ IsInjective(recvQueue')
    BY <2>1, <2>2, AppendedQueue DEF Received, TypeInv, ServerTypes, Owners, OneOwner
  <2>4. OneOwner' /\ (Owned \subseteq occupied)'
    BY <1>1, <2>1, <2>3 DEF Owners, OneOwner, Owned
  <2>. QED BY <1>1, <2>4 DEF Owners
<1>7. CASE EpollExit
  BY <1>7, OwnersKept DEF EpollExit, EpollOwns, poolVars
<1>. QED BY <1>3, <1>4, <1>5, <1>6, <1>7 DEF EpollStep

LEMMA LoopOwners ==
    ASSUME TypeInv, Owners, LoopStep
    PROVE  Owners'
<1>1. UNCHANGED <<epoll, send>> /\ UNCHANGED <<EpollOwns, SendOwns>> /\ ScanInv'
  BY DEF LoopStep, LoopGet, HandleRegMsg, HandleDeRegMsg, LoopRelease, HandleDataMsg,
         HandleDullMsg, HandleQuitMsg, EpollOwns, SendOwns, Owners, ScanInv
<1>2. CASE LoopGet
  <2>1. /\ recvQueue \in Seq(Entities) /\ recvQueue # << >> /\ recvQueue' = Tail(recvQueue)
        /\ LoopOwns = {} /\ LoopOwns' = {Head(recvQueue)} /\ UNCHANGED <<sendQueue, occupied>>
    BY <1>2 DEF LoopGet, LoopOwns, TypeInv, ServerTypes, poolVars
  <2>2. /\ Received = {Head(recvQueue)} \union Received'
        /\ IsInjective(recvQueue') /\ Head(recvQueue) \notin Received'
    BY <2>1, TakenFromQueue DEF Received, Owners, OneOwner
  <2>3. ToSend' = ToSend
    BY <2>1 DEF ToSend
  <2>4. OneOwner' /\ (Owned \subseteq occupied)'
    BY <1>1, <2>1, <2>2, <2>3 DEF Owners, OneOwner, Owned
  <2>. QED BY <1>1, <2>4 DEF Owners
<1>3. CASE HandleRegMsg \/ HandleDeRegMsg
  <2>1. /\ UNCHANGED <<recvQueue, sendQueue, occupied>>
        /\ loop.at = "handle" /\ loop' = [loop EXCEPT !.at = "release"]
    BY <1>3 DEF HandleRegMsg, HandleDeRegMsg, WriteName, poolVars
  <2>2. LoopOwns' = LoopOwns
    BY <2>1 DEF LoopOwns, TypeInv, LoopTypes
  <2>3. Received' = Received /\ ToSend' = ToSend
    BY <2>1 DEF Received, ToSend
  <2>. QED BY <1>1, <2>1, <2>2, <2>3 DEF Owners, OneOwner, Owned
<1>4. CASE LoopRelease
  <2>1. /\ UNCHANGED <<recvQueue, sendQueue>> /\ occupied' = occupied \ {loop.e}
        /\ LoopOwns = {loop.e} /\ LoopOwns' = {}
    BY <1>4 DEF LoopRelease, LoopOwns, LoopIdle
  <2>2. Received' = Received /\ ToSend' = ToSend
    BY <2>1 DEF Received, ToSend
  <2>3. OneOwner' /\ (Owned \subseteq occupied)'
    BY <1>1, <2>1, <2>2 DEF Owners, OneOwner, Owned
  <2>. QED BY <1>1, <2>3 DEF Owners
<1>5. CASE HandleDataMsg
  <2>1. /\ sendQueue \in Seq(Entities) /\ loop.e \in Entities
        /\ sendQueue' = Append(sendQueue, loop.e) /\ UNCHANGED <<recvQueue, occupied>>
        /\ LoopOwns = {loop.e} /\ LoopOwns' = {}
    BY <1>5 DEF HandleDataMsg, LoopOwns, LoopIdle, TypeInv, ServerTypes, LoopTypes, poolVars
  <2>2. loop.e \notin ToSend
    BY <2>1 DEF Owners, OneOwner
  <2>3. ToSend' = ToSend \union {loop.e} /\ IsInjective(sendQueue') /\ Received' = Received
    BY <2>1, <2>2, AppendedQueue DEF Received, ToSend, Owners, OneOwner
  <2>4. OneOwner' /\ (Owned \subseteq occupied)'
    BY <1>1, <2>1, <2>3 DEF Owners, OneOwner, Owned
  <2>. QED BY <1>1, <2>4 DEF Owners
<1>6. CASE HandleDullMsg \/ HandleQuitMsg
  <2>1. UNCHANGED <<recvQueue, sendQueue, occupied>> /\ LoopOwns' = {}
    BY <1>6 DEF HandleDullMsg, HandleQuitMsg, LoopOwns, LoopIdle, poolVars
  <2>2. Received' = Received /\ ToSend' = ToSend
    BY <2>1 DEF Received, ToSend
  <2>3. OneOwner' /\ (Owned \subseteq occupied)'
    BY <1>1, <2>1, <2>2 DEF Owners, OneOwner, Owned
  <2>. QED BY <1>1, <2>3 DEF Owners
<1>. QED BY <1>2, <1>3, <1>4, <1>5, <1>6 DEF LoopStep

LEMMA SendOwners ==
    ASSUME DistinctNames, TypeInv, Owners, Contents, SendStep
    PROVE  Owners'
<1>1. UNCHANGED <<epoll, loop, recvQueue>> /\ UNCHANGED <<EpollOwns, LoopOwns, Received>>
  BY DEF SendStep, SendGet, SendLock, SendRelease, SendUnLock, SendTo, Transmit,
         EpollOwns, LoopOwns, Received
<1>2. CASE SendGet
  <2>1. /\ sendQueue \in Seq(Entities) /\ sendQueue # << >> /\ sendQueue' = Tail(sendQueue)
        /\ send.at = "get" /\ SendOwns' = {Head(sendQueue)} /\ UNCHANGED occupied
        /\ send'.at = "lock" /\ send'.todo = {}
    BY <1>2, SendGetsData DEF SendOwns
  <2>2. SendOwns = {}
    BY <2>1 DEF SendOwns, Owners, ScanInv
  <2>3. /\ ToSend = {Head(sendQueue)} \union ToSend'
        /\ IsInjective(sendQueue') /\ Head(sendQueue) \notin ToSend'
    BY <2>1, TakenFromQueue DEF ToSend, Owners, OneOwner
  <2>4. OneOwner' /\ (Owned \subseteq occupied)'
    BY <1>1, <2>1, <2>2, <2>3 DEF Owners, OneOwner, Owned
  <2>. QED BY <2>1, <2>4 DEF Owners, ScanInv
<1>3. CASE SendLock
  <2>1. /\ UNCHANGED <<sendQueue, occupied>> /\ send.at = "lock" /\ send'.at = "visit"
        /\ send'.e = send.e /\ send'.msg = send.msg
        /\ \A c \in send'.todo : NameOf[c] = send.msg.to
    BY <1>3 DEF SendLock, TypeInv, SendTypes, poolVars
  <2>2. SendOwns' \subseteq SendOwns /\ ToSend' = ToSend
    BY <2>1 DEF SendOwns, ToSend
  <2>3. OneOwner' /\ (Owned \subseteq occupied)'
    BY <1>1, <2>1, <2>2 DEF Owners, OneOwner, Owned
  <2>. QED BY <2>1, <2>3 DEF Owners, ScanInv
<1>4. ASSUME NEW c \in Clients, SendTo(c) PROVE Owners'
  <2>1. /\ UNCHANGED <<sendQueue, occupied>> /\ send.at = "visit" /\ send'.at = "release"
        /\ send'.e = send.e /\ send'.msg = send.msg /\ send'.todo = send.todo \ {c}
        /\ c \in send.todo /\ send.todo \subseteq Clients
    BY <1>4 DEF SendTo, Transmit, TypeInv, SendTypes, poolVars
  <2>2. send.todo = {c}
    BY <2>1 DEF DistinctNames, Owners, ScanInv
  <2>3. SendOwns' = SendOwns /\ ToSend' = ToSend /\ ScanInv'
    BY <2>1, <2>2 DEF SendOwns, ToSend, ScanInv
  <2>4. OneOwner' /\ (Owned \subseteq occupied)'
    BY <1>1, <2>1, <2>3 DEF Owners, OneOwner, Owned
  <2>. QED BY <2>3, <2>4 DEF Owners
<1>5. CASE SendRelease
  <2>1. /\ UNCHANGED sendQueue /\ send.at = "release" /\ send'.at = "visit" /\ send'.todo = {}
        /\ SendOwns = {send.e}
    BY <1>5 DEF SendRelease, TypeInv, SendTypes, Owners, ScanInv, SendOwns
  <2>2. content[send.e] = send.msg
    BY <2>1 DEF Contents
  <2>3. occupied' = occupied \ {send.e}
    BY <1>5, <2>2 DEF SendRelease
  <2>4. SendOwns' = {} /\ ToSend' = ToSend /\ ScanInv'
    BY <2>1 DEF SendOwns, ToSend, ScanInv
  <2>5. OneOwner' /\ (Owned \subseteq occupied)'
    BY <1>1, <2>1, <2>3, <2>4 DEF Owners, OneOwner, Owned
  <2>. QED BY <2>4, <2>5 DEF Owners
<1>6. CASE SendUnLock
  <2>1. /\ UNCHANGED <<sendQueue, occupied>> /\ send' = SendIdle
    BY <1>6 DEF SendUnLock, poolVars
  <2>2. SendOwns' = {} /\ ToSend' = ToSend /\ ScanInv'
    BY <2>1 DEF SendOwns, ToSend, ScanInv, SendIdle
  <2>3. OneOwner' /\ (Owned \subseteq occupied)'
    BY <1>1, <2>1, <2>2 DEF Owners, OneOwner, Owned
  <2>. QED BY <2>2, <2>3 DEF Owners
<1>. QED BY <1>2, <1>3, <1>4, <1>5, <1>6 DEF SendStep

\* The message the epoll thread has read stays what it was until it is pushed.
EpollContents == epoll.at = "push" => content[epoll.e] \in Decoded(epoll.msg)

LEMMA ContentsKept ==
    ASSUME Contents, UNCHANGED <<content, sendQueue, send, inbox>>, EpollContents'
    PROVE  Contents'
BY DEF Contents, EpollContents, ToSend, SendOwns

LEMMA ContentsNext ==
    ASSUME DistinctNames, TypeInv, Owners, Contents, [Next]_vars
    PROVE  Contents'
<1>1. ASSUME NEW c \in Clients, ClientStep(c) PROVE Contents'
  <2>1. CASE ReConnect(c)
    <3>1. inbox' \in [Clients -> Seq(Data)] /\ UNCHANGED <<content, sendQueue, send, epoll>>
      BY <2>1 DEF ReConnect, Contents, poolVars
    <3>. QED BY <3>1 DEF Contents, ToSend, SendOwns
  <2>2. CASE ~ReConnect(c)
    <3>1. UNCHANGED <<content, sendQueue, send, inbox, epoll>>
      BY <1>1, <2>2 DEF ClientStep, Connect, Register, SendData, DeRegister, Leave, serverVars,
                        poolVars
    <3>. QED BY <3>1, ContentsKept DEF Contents, EpollContents
  <2>. QED BY <2>1, <2>2
<1>2. CASE EpollStep
  <2>1. ASSUME NEW c \in Clients, EpollAccept(c) \/ EpollFind(c) PROVE Contents'
    <3>1. UNCHANGED <<content, sendQueue, send, inbox>> /\ epoll'.at # "push"
      BY <2>1 DEF EpollAccept, EpollFind, poolVars, TypeInv, EpollTypes
    <3>. QED BY <3>1, ContentsKept DEF EpollContents
  <2>2. CASE EpollInsert \/ EpollRemove \/ EpollPush
    <3>1. UNCHANGED <<content, sendQueue, send, inbox>> /\ epoll'.at # "push"
      BY <2>2 DEF EpollInsert, EpollRemove, EpollPush, EpollIdle, poolVars
    <3>. QED BY <3>1, ContentsKept DEF EpollContents
  <2>3. CASE EpollEOF
    <3>1. UNCHANGED <<content, sendQueue, send, inbox>> /\ epoll'.at # "push"
      BY <2>3 DEF EpollEOF, poolVars, TypeInv, EpollTypes
    <3>. QED BY <3>1, ContentsKept DEF EpollContents
  <2>4. CASE EpollRead
    <3>1. UNCHANGED <<content, sendQueue, send, inbox>> /\ epoll'.at # "push"
      BY <2>4 DEF EpollRead, poolVars, TypeInv, EpollTypes
    <3>. QED BY <3>1, ContentsKept DEF EpollContents
  <2>5. CASE EpollDeSerialize
    <3> DEFINE e == First(Entities \ occupied)
    <3>1. e \in Entities /\ e \notin occupied
      BY <2>5, AcquiredIsFree
    <3>2. PICK m \in Decoded(epoll.msg) :
             /\ content' = [content EXCEPT ![e] = m]
             /\ epoll' = IF m = Torn THEN EpollIdle ELSE [epoll EXCEPT !.at = "push", !.e = e]
      BY <2>5 DEF EpollDeSerialize
    <3>3. UNCHANGED <<sendQueue, send, inbox>>
      BY <2>5 DEF EpollDeSerialize
    <3> HIDE DEF e
    <3>4. \A d \in occupied : content'[d] = content[d]
      BY <3>1, <3>2 DEF TypeInv, ServerTypes
    <3>5. ToSend' = ToSend /\ ToSend \subseteq occupied
          /\ SendOwns' = SendOwns /\ SendOwns \subseteq occupied
      BY <3>3 DEF ToSend, SendOwns, Owners, Owned
    <3>6. SendOwns # {} => send.e \in occupied
      BY <3>5 DEF SendOwns
    <3>7. EpollContents'
      <4>1. CASE epoll' = EpollIdle
        BY <4>1 DEF EpollIdle, EpollContents
      <4>2. CASE epoll' = [epoll EXCEPT !.at = "push", !.e = e]
        <5>1. epoll'.e = e /\ epoll'.msg = epoll.msg /\ content'[e] = m
          BY <3>1, <3>2, <4>2 DEF TypeInv, EpollTypes, ServerTypes
        <5>. QED BY <5>1 DEF EpollContents
      <4>. QED BY <3>2, <4>1, <4>2
    <3>. QED BY <3>3, <3>4, <3>5, <3>6, <3>7 DEF Contents, EpollContents
  <2>6. CASE EpollExit
    BY <2>6, ContentsKept DEF EpollExit, Contents, EpollContents, poolVars
  <2>. QED BY <1>2, <2>1, <2>2, <2>3, <2>4, <2>5, <2>6 DEF EpollStep
<1>3. CASE LoopStep
  <2>1. CASE HandleDataMsg
    <3>1. /\ sendQueue \in Seq(Entities) /\ loop.e \in Entities
          /\ sendQueue' = Append(sendQueue, loop.e) /\ UNCHANGED <<content, send, inbox, epoll>>
      BY <2>1 DEF HandleDataMsg, TypeInv, ServerTypes, LoopTypes, poolVars
    <3>2. content[loop.e] \in Data
      BY <2>1, <3>1, Kinds DEF HandleDataMsg, TypeInv, ServerTypes
    <3>3. ToSend' = ToSend \union {loop.e}
      BY <3>1, AppendedQueue DEF ToSend
    <3>. QED BY <3>1, <3>2, <3>3 DEF Contents, SendOwns
  <2>2. CASE ~HandleDataMsg
    <3>1. UNCHANGED <<content, sendQueue, send, inbox, epoll>>
      BY <1>3, <2>2 DEF LoopStep, LoopGet, HandleRegMsg, HandleDeRegMsg, LoopRelease,
                        HandleDullMsg, HandleQuitMsg, poolVars
    <3>. QED BY <3>1, ContentsKept DEF Contents, EpollContents
  <2>. QED BY <2>1, <2>2
<1>4. CASE SendStep
  <2>1. UNCHANGED <<epoll, content>>
    BY <1>4
    DEF SendStep, SendGet, SendLock, SendRelease, SendUnLock, SendTo, Transmit, poolVars
  <2>2. CASE SendGet
    <3>1. /\ sendQueue \in Seq(Entities) /\ sendQueue # << >> /\ sendQueue' = Tail(sendQueue)
          /\ send'.e = Head(sendQueue) /\ send'.msg = content[Head(sendQueue)]
          /\ UNCHANGED inbox
      BY <2>2, SendGetsData
    <3>2. ToSend' \subseteq ToSend
      BY <3>1, TakenFromQueue DEF ToSend
    <3>. QED BY <2>1, <3>1, <3>2 DEF Contents
  <2>3. CASE SendLock
    <3>1. /\ UNCHANGED <<sendQueue, inbox>> /\ send.at = "lock"
          /\ send'.e = send.e /\ send'.msg = send.msg
      BY <2>3 DEF SendLock, TypeInv, SendTypes
    <3>. QED BY <2>1, <3>1 DEF Contents, ToSend, SendOwns
  <2>4. ASSUME NEW c \in Clients, SendTo(c) PROVE Contents'
    <3>1. /\ UNCHANGED sendQueue /\ c \in send.todo
          /\ send'.e = send.e /\ send'.msg = send.msg
          /\ send.at = "visit" /\ send.msg \in Data
      BY <2>4 DEF SendTo, Transmit, TypeInv, SendTypes
    <3>2. content[send.e] = send.msg
      BY <3>1 DEF Contents, SendOwns
    <3>3. inbox' \in [Clients -> Seq(Data)]
      <4>1. Append(inbox[c], content[send.e]) \in Seq(Data)
        BY <3>1, <3>2, AppendProperties DEF Contents
      <4>. QED BY <2>4, <4>1 DEF SendTo, Transmit, Contents
    <3>. QED BY <2>1, <3>1, <3>2, <3>3 DEF Contents, ToSend
  <2>5. CASE SendRelease
    <3>1. /\ UNCHANGED <<sendQueue, inbox>> /\ send.at = "release"
          /\ send'.e = send.e /\ send'.msg = send.msg
      BY <2>5 DEF SendRelease, TypeInv, SendTypes
    <3>. QED BY <2>1, <3>1 DEF Contents, ToSend, SendOwns
  <2>6. CASE SendUnLock
    <3>1. UNCHANGED <<sendQueue, inbox>> /\ send' = SendIdle
      BY <2>6 DEF SendUnLock
    <3>2. SendOwns' = {} /\ ToSend' = ToSend
      BY <3>1 DEF SendOwns, SendIdle, ToSend
    <3>. QED BY <2>1, <3>1, <3>2 DEF Contents
  <2>. QED BY <1>4, <2>2, <2>3, <2>4, <2>5, <2>6 DEF SendStep
<1>5. CASE UNCHANGED vars
  BY <1>5, ContentsKept DEF vars, poolVars, Contents, EpollContents
<1>. QED BY <1>1, <1>2, <1>3, <1>4, <1>5 DEF Next

OwnInv == TypeInv /\ Owners /\ Contents

LEMMA OwnNext ==
    ASSUME DistinctNames
    PROVE  OwnInv /\ [Next]_vars => OwnInv'
<1> SUFFICES ASSUME OwnInv, [Next]_vars PROVE OwnInv'
  OBVIOUS
<1>1. TypeInv' /\ Contents'
  BY TypeNext, ContentsNext DEF OwnInv
<1>2. Owners'
  <2>1. CASE UNCHANGED vars
    BY <2>1, OwnersKept DEF OwnInv, vars, poolVars, EpollOwns
  <2>2. CASE Next
    BY <2>2, ClientOwners, EpollOwners, LoopOwners, SendOwners DEF OwnInv, Next
  <2>. QED BY <2>1, <2>2
<1>. QED BY <1>1, <1>2 DEF OwnInv

LEMMA OwnInvariant == ASSUME DistinctNames PROVE SafeSpec => []OwnInv
<1>1. Init => OwnInv
  BY TypeInit, OwnersInit DEF OwnInv
<1>. QED BY <1>1, OwnNext, PTL DEF SafeSpec

\* TypeOK: every variable keeps its shape.  That the inboxes hold messages is part
\* of it, and is why it needs the names to be distinct.
THEOREM TypeCorrect == ASSUME DistinctNames PROVE SafeSpec => []TypeOK
<1>1. OwnInv => TypeOK
  <2> SUFFICES ASSUME OwnInv PROVE TypeOK
    OBVIOUS
  <2>1. inbox \in [Clients -> Seq(Message)]
    <3>1. \A c \in Clients : inbox[c] \in Seq(Message)
      BY Kinds, SeqMonotonic DEF OwnInv, Contents
    <3>. QED BY <3>1 DEF OwnInv, Contents
  <2>2. \A c \in Clients : /\ sentData[c] \in 0 .. MaxData[c]
                           /\ tears[c] \in 0 .. MaxTear[c] /\ reuses[c] \in 0 .. MaxReuse[c]
    <3>1. ASSUME NEW f \in [Clients -> Nat], NEW M \in [Clients -> Nat],
                 NEW c \in Clients, f[c] <= M[c]
          PROVE  f[c] \in 0 .. M[c]
      <4>1. f[c] \in Nat /\ M[c] \in Nat
        OBVIOUS
      <4>. QED BY <3>1, <4>1
    <3>. QED BY <3>1, ServerAssumption DEF OwnInv, TypeInv, ClientTypes
  <2>3. /\ epoll.at \in {"wait", "insert", "read", "acquire", "push", "remove"}
        /\ epoll.c \in Clients \union {NoClient} /\ epoll.msg \in Bytes
    BY DEF OwnInv, TypeInv, EpollTypes, EpollSteps
  <2>4. /\ send.at \in {"get", "lock", "visit", "release"}
        /\ send.e \in Entities \union {0} /\ send.msg \in Data \union {Torn}
        /\ send.todo \subseteq Clients
    BY DEF OwnInv, TypeInv, SendTypes, SendSteps, Slots
  <2>5. loop.at \in {"get", "handle", "release", "quit"}
    BY DEF OwnInv, TypeInv, LoopTypes, LoopSteps
  <2>. QED BY <2>1, <2>2, <2>3, <2>4, <2>5 DEF OwnInv, TypeInv, ClientTypes, ServerTypes, TypeOK
<1>. QED BY <1>1, OwnInvariant, PTL

\* EntityHasOneOwner: of the two queues and the three threads only one has the pointer
\* to a message, and the pool does not hand the entity out while one has it.
THEOREM MessagesHaveOneOwner == ASSUME DistinctNames PROVE SafeSpec => []EntityHasOneOwner
<1>1. OwnInv => EntityHasOneOwner
  <2> SUFFICES ASSUME OwnInv PROVE EntityHasOneOwner
    OBVIOUS
  <2> DEFINE read == IF epoll.at = "push" THEN <<epoll.e>> ELSE << >>
             handled == IF loop.at \in {"handle", "release"} THEN <<loop.e>> ELSE << >>
             sent == IF send.at \in {"lock", "release"} \/ send.todo # {}
                     THEN <<send.e>> ELSE << >>
  <2>1. read \in Seq(Entities) /\ Range(read) = EpollOwns /\ IsInjective(read)
    <3>1. epoll.at = "push" => epoll.e \in Entities
      BY DEF OwnInv, TypeInv, EpollTypes
    <3>2. << >> \in Seq(Entities) /\ Range(<< >>) = {} /\ IsInjective(<< >>)
      BY DEF Range, IsInjective
    <3>. QED BY <3>1, <3>2, ShortLists DEF EpollOwns
  <2>2. handled \in Seq(Entities) /\ Range(handled) = LoopOwns /\ IsInjective(handled)
    <3>1. loop.at \in {"handle", "release"} => loop.e \in Entities
      BY DEF OwnInv, TypeInv, LoopTypes
    <3>2. << >> \in Seq(Entities) /\ Range(<< >>) = {} /\ IsInjective(<< >>)
      BY DEF Range, IsInjective
    <3>. QED BY <3>1, <3>2, ShortLists DEF LoopOwns
  <2>3. sent \in Seq(Entities) /\ Range(sent) = SendOwns /\ IsInjective(sent)
    <3>1. send.at \in {"lock", "release"} \/ send.todo # {} => send.e \in Entities
      BY DEF OwnInv, Owners, ScanInv, TypeInv, SendTypes, SendSteps
    <3>2. << >> \in Seq(Entities) /\ Range(<< >>) = {} /\ IsInjective(<< >>)
      BY DEF Range, IsInjective
    <3>. QED BY <3>1, <3>2, ShortLists DEF SendOwns
  <2> HIDE DEF read, handled, sent
  <2> DEFINE two == recvQueue \o sendQueue
             three == two \o read
             four == three \o handled
  <2>4. two \in Seq(Entities) /\ Range(two) = Received \union ToSend /\ IsInjective(two)
    BY JoinedLists DEF OwnInv, TypeInv, ServerTypes, Owners, OneOwner, Received, ToSend
  <2> HIDE DEF two
  <2>5. /\ three \in Seq(Entities) /\ Range(three) = Received \union ToSend \union EpollOwns
        /\ IsInjective(three)
    <3>1. Range(two) \intersect Range(read) = {}
      BY <2>1, <2>4 DEF OwnInv, Owners, OneOwner
    <3>. QED BY <2>1, <2>4, <3>1, JoinedLists
  <2> HIDE DEF three
  <2>6. /\ four \in Seq(Entities)
        /\ Range(four) = Received \union ToSend \union EpollOwns \union LoopOwns
        /\ IsInjective(four)
    <3>1. Range(three) \intersect Range(handled) = {}
      BY <2>2, <2>5 DEF OwnInv, Owners, OneOwner
    <3>. QED BY <2>2, <2>5, <3>1, JoinedLists
  <2> HIDE DEF four
  <2>7. Range(four \o sent) = Owned /\ IsInjective(four \o sent)
    <3>1. Range(four) \intersect Range(sent) = {}
      BY <2>3, <2>6 DEF OwnInv, Owners, OneOwner
    <3>. QED BY <2>3, <2>6, <3>1, JoinedLists DEF Owned
  <2>8. Pointers = four \o sent
    BY DEF Pointers, four, three, two, read, handled, sent
  <2>. QED BY <2>7, <2>8 DEF EntityHasOneOwner, OwnInv, Owners
<1>. QED BY <1>1, OwnInvariant, PTL

\* SendQueueHasDataOnly, what the comment in the send job asks to be made sure of, is
\* so as long as no two clients register the same name; two clients of one name are
\* the counterexample of the run MsgServer_same.
THEOREM SendQueueIsDataOnly == ASSUME DistinctNames PROVE SafeSpec => []SendQueueHasDataOnly
<1>1. OwnInv => SendQueueHasDataOnly
  BY Kinds DEF OwnInv, Contents, ToSend, Range, SendQueueHasDataOnly
<1>. QED BY <1>1, OwnInvariant, PTL

-----------------------------------------------------------------------------
(***************************************************************************)
(* The line of messages from a client, from the inboxes it has reached to  *)
(* what the server has still to read                                       *)
(***************************************************************************)
\* What an entity may hold.
Content == Message \union {Torn, Dull, Quit}

\* What the pointers of a queue point to.
MsgsOf(q, f) == [i \in DOMAIN q |-> f[q[i]]]

\* No pair of G is in this order in the list s, or in this order in P and Q.
Sorted(s, G) == \A i, j \in DOMAIN s : i < j => <<s[i], s[j]>> \notin G
Apart(P, Q, G) == \A p \in P, q \in Q : <<p, q>> \notin G

LEMMA MsgsAreASeq ==
    ASSUME NEW q \in Seq(Entities), NEW f \in [Entities -> Content]
    PROVE  /\ MsgsOf(q, f) \in Seq(Content)
           /\ Len(MsgsOf(q, f)) = Len(q)
           /\ Range(MsgsOf(q, f)) = {f[e] : e \in Range(q)}
<1>1. Len(q) \in Nat /\ DOMAIN q = 1 .. Len(q) /\ \A i \in 1 .. Len(q) : q[i] \in Entities
  BY LenProperties
<1>2. MsgsOf(q, f) \in [1 .. Len(q) -> Content]
  BY <1>1 DEF MsgsOf
<1>3. MsgsOf(q, f) \in Seq(Content)
  BY <1>1, <1>2, SeqDef
<1>4. Len(MsgsOf(q, f)) = Len(q)
  BY <1>1, <1>2, <1>3, LenProperties
<1>. QED BY <1>3, <1>4 DEF MsgsOf, Range

LEMMA MsgsAppended ==
    ASSUME NEW q \in Seq(Entities), NEW f \in [Entities -> Content], NEW e \in Entities
    PROVE  MsgsOf(Append(q, e), f) = Append(MsgsOf(q, f), f[e])
<1> DEFINE s == MsgsOf(Append(q, e), f)
           t == Append(MsgsOf(q, f), f[e])
<1>1. /\ Append(q, e) \in Seq(Entities) /\ Len(Append(q, e)) = Len(q) + 1
      /\ \A i \in 1 .. Len(q) : Append(q, e)[i] = q[i]
      /\ Append(q, e)[Len(q) + 1] = e
  BY AppendProperties
<1>2. /\ MsgsOf(q, f) \in Seq(Content) /\ Len(MsgsOf(q, f)) = Len(q)
      /\ s \in Seq(Content) /\ Len(s) = Len(q) + 1
  <2>1. \A r \in Seq(Entities) : MsgsOf(r, f) \in Seq(Content) /\ Len(MsgsOf(r, f)) = Len(r)
    BY MsgsAreASeq
  <2>2. s \in Seq(Content) /\ Len(s) = Len(Append(q, e))
    BY <1>1, <2>1
  <2>. QED BY <1>1, <2>1, <2>2
<1>3. /\ t \in Seq(Content) /\ Len(t) = Len(q) + 1
      /\ \A i \in 1 .. Len(q) : t[i] = MsgsOf(q, f)[i]
      /\ t[Len(q) + 1] = f[e]
  BY <1>2, AppendProperties
<1>4. Len(q) \in Nat /\ DOMAIN q = 1 .. Len(q) /\ DOMAIN Append(q, e) = 1 .. Len(q) + 1
  BY <1>1, LenProperties
<1>5. ASSUME NEW i \in 1 .. Len(q) + 1 PROVE s[i] = t[i]
  <2>1. s[i] = f[Append(q, e)[i]]
    BY <1>4 DEF MsgsOf
  <2>2. CASE i \in 1 .. Len(q)
    <3>1. MsgsOf(q, f)[i] = f[q[i]]
      BY <1>4, <2>2 DEF MsgsOf
    <3>. QED BY <1>1, <1>3, <2>1, <2>2, <3>1
  <2>3. CASE i = Len(q) + 1
    BY <1>1, <1>3, <2>1, <2>3
  <2>4. i \in 1 .. Len(q) \/ i = Len(q) + 1
    BY <1>4
  <2> HIDE DEF s, t
  <2>. QED BY <2>2, <2>3, <2>4
<1> HIDE DEF s, t
<1>6. s = t
  BY <1>2, <1>3, <1>5, SeqEqual
<1>. QED BY <1>6 DEF s, t

LEMMA MsgsTaken ==
    ASSUME NEW q \in Seq(Entities), NEW f \in [Entities -> Content], q # << >>
    PROVE  /\ MsgsOf(q, f) # << >>
           /\ Head(MsgsOf(q, f)) = f[Head(q)]
           /\ MsgsOf(Tail(q), f) = Tail(MsgsOf(q, f))
<1> DEFINE s == MsgsOf(Tail(q), f)
           t == Tail(MsgsOf(q, f))
<1>1. /\ Tail(q) \in Seq(Entities) /\ Len(Tail(q)) = Len(q) - 1
      /\ \A i \in 1 .. Len(Tail(q)) : Tail(q)[i] = q[i + 1]
  BY HeadTailProperties
<1>2. /\ Len(q) \in Nat \ {0} /\ DOMAIN q = 1 .. Len(q) /\ DOMAIN Tail(q) = 1 .. Len(q) - 1
  BY <1>1, LenProperties, EmptySeq
<1>3. /\ MsgsOf(q, f) \in Seq(Content) /\ Len(MsgsOf(q, f)) = Len(q)
      /\ s \in Seq(Content) /\ Len(s) = Len(q) - 1
  <2>1. \A r \in Seq(Entities) : MsgsOf(r, f) \in Seq(Content) /\ Len(MsgsOf(r, f)) = Len(r)
    BY MsgsAreASeq
  <2>2. s \in Seq(Content) /\ Len(s) = Len(Tail(q))
    BY <1>1, <2>1
  <2>. QED BY <1>1, <2>1, <2>2
<1>4. MsgsOf(q, f) # << >>
  BY <1>2, <1>3
<1>5. /\ t \in Seq(Content) /\ Len(t) = Len(q) - 1
      /\ \A i \in 1 .. Len(q) - 1 : t[i] = MsgsOf(q, f)[i + 1]
  BY <1>3, <1>4, HeadTailProperties
<1>6. ASSUME NEW i \in 1 .. Len(q) - 1 PROVE s[i] = t[i]
  <2>1. s[i] = f[q[i + 1]]
    BY <1>1, <1>2 DEF MsgsOf
  <2>2. i + 1 \in 1 .. Len(q)
    BY <1>2
  <2>3. MsgsOf(q, f)[i + 1] = f[q[i + 1]]
    BY <1>2, <2>2 DEF MsgsOf
  <2>. QED BY <1>5, <2>1, <2>3
<1>7. Head(MsgsOf(q, f)) = f[Head(q)]
  <2>1. Head(q) = q[1] /\ Head(MsgsOf(q, f)) = MsgsOf(q, f)[1] /\ 1 \in DOMAIN q
    BY <1>2
  <2>. QED BY <2>1 DEF MsgsOf
<1> HIDE DEF s, t
<1>8. s = t
  BY <1>3, <1>5, <1>6, SeqEqual
<1>. QED BY <1>4, <1>7, <1>8 DEF s, t

LEMMA MsgsKept ==
    ASSUME NEW q, NEW f, NEW g, \A e \in Range(q) : f[e] = g[e]
    PROVE  MsgsOf(q, f) = MsgsOf(q, g)
BY DEF MsgsOf, Range

LEMMA SortedAppended ==
    ASSUME NEW S, NEW s \in Seq(S), NEW e \in S, NEW G,
           Sorted(s, G), Apart(Range(s), {e}, G)
    PROVE  Sorted(Append(s, e), G)
<1>1. /\ Append(s, e) \in Seq(S) /\ Len(Append(s, e)) = Len(s) + 1
      /\ \A i \in 1 .. Len(s) : Append(s, e)[i] = s[i]
      /\ Append(s, e)[Len(s) + 1] = e
  BY AppendProperties
<1>2. Len(s) \in Nat /\ DOMAIN s = 1 .. Len(s) /\ DOMAIN Append(s, e) = 1 .. Len(s) + 1
  BY <1>1, LenProperties
<1>3. ASSUME NEW i \in 1 .. Len(s) + 1, NEW j \in 1 .. Len(s) + 1, i < j
      PROVE  <<Append(s, e)[i], Append(s, e)[j]>> \notin G
  <2>1. i \in 1 .. Len(s) /\ Append(s, e)[i] = s[i] /\ s[i] \in Range(s)
    BY <1>1, <1>2, <1>3 DEF Range
  <2>2. CASE j \in 1 .. Len(s)
    BY <1>1, <1>2, <1>3, <2>1, <2>2 DEF Sorted
  <2>3. CASE j = Len(s) + 1
    BY <1>1, <2>1, <2>3 DEF Apart
  <2>. QED BY <1>2, <2>2, <2>3
<1>. QED BY <1>2, <1>3 DEF Sorted

\* What is read or taken from the head of a list is not in disorder with the rest.
LEMMA SortedRest ==
    ASSUME NEW S, NEW s \in Seq(S), NEW n \in 1 .. Len(s), NEW G, Sorted(s, G)
    PROVE  LET rest == SubSeq(s, n + 1, Len(s)) IN
           /\ rest \in Seq(S) /\ Range(rest) \subseteq Range(s) /\ Sorted(rest, G)
           /\ Head(s) \in Range(s) /\ Apart({Head(s)}, Range(rest), G)
<1> DEFINE rest == SubSeq(s, n + 1, Len(s))
<1>1. Len(s) \in Nat /\ DOMAIN s = 1 .. Len(s)
  BY LenProperties
<1>2. \A i \in n + 1 .. Len(s) : s[i] \in S
  BY <1>1, ElementOfSeq
<1>3. /\ rest \in Seq(S) /\ Len(rest) = IF n + 1 <= Len(s) THEN Len(s) - (n + 1) + 1 ELSE 0
      /\ \A i \in 1 .. Len(s) - (n + 1) + 1 : rest[i] = s[n + 1 + i - 1]
  BY <1>1, <1>2, SubSeqProperties
<1>4. DOMAIN rest = 1 .. Len(s) - n
  <2>1. Len(rest) = Len(s) - n
    <3> HIDE DEF rest
    <3> DEFINE l == Len(s)
    <3>1. l \in Nat /\ n \in 1 .. l /\ Len(rest) = IF n + 1 <= l THEN l - (n + 1) + 1 ELSE 0
      BY <1>1, <1>3
    <3> HIDE DEF l
    <3>2. Len(rest) = l - n
      BY <3>1
    <3>. QED BY <3>2 DEF l
  <2>. QED BY <1>3, <2>1, LenProperties
<1>5. \A i \in 1 .. Len(s) - n : rest[i] = s[n + i] /\ n + i \in 1 .. Len(s) /\ 1 < n + i
  BY <1>1, <1>3
<1> HIDE DEF rest
<1>6. Range(rest) \subseteq Range(s)
  BY <1>1, <1>4, <1>5 DEF Range
<1>7. Sorted(rest, G)
  <2>1. \A i, j \in 1 .. Len(s) - n : i < j => n + i < n + j
    BY <1>1
  <2>. QED BY <1>1, <1>4, <1>5, <2>1 DEF Sorted
<1>8. Head(s) = s[1] /\ 1 \in 1 .. Len(s)
  BY <1>1
<1>9. Apart({Head(s)}, Range(rest), G)
  <2>1. \A j \in 1 .. Len(s) : 1 < j => <<s[1], s[j]>> \notin G
    BY <1>1, <1>8 DEF Sorted
  <2>2. \A i \in DOMAIN rest : <<s[1], rest[i]>> \notin G
    BY <1>4, <1>5, <2>1
  <2>. QED BY <1>8, <2>2 DEF Apart, Range
<1>. QED BY <1>1, <1>3, <1>6, <1>7, <1>8, <1>9 DEF rest, Range

LEMMA SortedTail ==
    ASSUME NEW S, NEW s \in Seq(S), s # << >>, NEW G, Sorted(s, G)
    PROVE  /\ Sorted(Tail(s), G) /\ Apart({Head(s)}, Range(Tail(s)), G)
<1>1. Len(s) \in Nat \ {0}
  BY EmptySeq
<1>2. 1 \in 1 .. Len(s) /\ 1 + 1 = 2
  BY <1>1
<1>3. Tail(s) = SubSeq(s, 1 + 1, Len(s))
  BY <1>2, TailIsSubSeq
<1>. QED BY <1>2, <1>3, SortedRest

\* A message that G does not speak of may be put in front.
LEMMA SortedPrefixed ==
    ASSUME NEW S, NEW s \in Seq(S), NEW e \in S, NEW G, Sorted(s, G),
           \A x : <<e, x>> \notin G
    PROVE  /\ <<e>> \o s \in Seq(S) /\ Range(<<e>> \o s) = {e} \union Range(s)
           /\ Sorted(<<e>> \o s, G)
<1>1. <<e>> \in Seq(S) /\ Len(<<e>>) = 1 /\ Range(<<e>>) = {e} /\ <<e>>[1] = e
  BY DEF Range
<1>2. /\ <<e>> \o s \in Seq(S) /\ Len(<<e>> \o s) = 1 + Len(s)
      /\ \A i \in 1 .. 1 + Len(s) : (<<e>> \o s)[i] = IF i <= 1 THEN <<e>>[i] ELSE s[i - 1]
  BY <1>1, ConcatProperties
<1>3. Range(<<e>> \o s) = {e} \union Range(s)
  <2>1. \A r \in Seq(S) : Range(r \o s) = Range(r) \union Range(s)
    BY RangeConcatenation
  <2>. QED BY <1>1, <2>1
<1>4. Len(s) \in Nat /\ DOMAIN s = 1 .. Len(s) /\ DOMAIN (<<e>> \o s) = 1 .. 1 + Len(s)
  BY <1>2, LenProperties
<1>5. ASSUME NEW i \in 1 .. 1 + Len(s), NEW j \in 1 .. 1 + Len(s), i < j
      PROVE  <<(<<e>> \o s)[i], (<<e>> \o s)[j]>> \notin G
  <2>1. CASE i = 1
    <3>1. (<<e>> \o s)[i] = e
      BY <1>1, <1>2, <2>1
    <3>. QED BY <3>1
  <2>2. CASE i # 1
    <3>1. i - 1 \in 1 .. Len(s) /\ j - 1 \in 1 .. Len(s) /\ i - 1 < j - 1
      BY <1>4, <1>5, <2>2
    <3>2. (<<e>> \o s)[i] = s[i - 1] /\ (<<e>> \o s)[j] = s[j - 1]
      BY <1>2, <1>4, <1>5, <2>2
    <3>. QED BY <1>4, <3>1, <3>2 DEF Sorted
  <2>. QED BY <2>1, <2>2
<1>. QED BY <1>2, <1>3, <1>4, <1>5 DEF Sorted

From(c) == {m \in Message : m.from = c}

\* The places of the line, from its end to its head.
Unread(c) == Range(stream[c])
Reading == IF epoll.at = "acquire" THEN {epoll.msg}
           ELSE IF epoll.at = "push" THEN {content[epoll.e]} ELSE {}
RecvMsgs == MsgsOf(recvQueue, content)
Handling == IF loop.at = "handle" THEN {content[loop.e]} ELSE {}
SendMsgs == MsgsOf(sendQueue, content)
Sending == IF send.at = "lock" \/ send.todo # {} THEN {send.msg} ELSE {}

\* What is behind each place.
BehindRecv(c) == Reading \union Unread(c)
BehindHandling(c) == Range(RecvMsgs) \union BehindRecv(c)
BehindSend(c) == Handling \union BehindHandling(c)
BehindSending(c) == Range(SendMsgs) \union BehindSend(c)
BehindInbox(c) == Sending \union BehindSending(c)

InLine(c, G) ==
    /\ Sorted(stream[c], G) /\ Sorted(RecvMsgs, G) /\ Sorted(SendMsgs, G)
    /\ Apart(Reading, Unread(c), G)
    /\ Apart(Range(RecvMsgs), BehindRecv(c), G)
    /\ Apart(Handling, BehindHandling(c), G)
    /\ Apart(Range(SendMsgs), BehindSend(c), G)
    /\ Apart(Sending, BehindSending(c), G)
    /\ \A d \in Clients : Sorted(inbox[d], G) /\ Apart(Range(inbox[d]), BehindInbox(c), G)

Anywhere(c) == BehindInbox(c) \union UNION {Range(inbox[d]) : d \in Clients}

\* What comes out of a connection was sent on it.
Source ==
    /\ \A c \in Clients : Unread(c) \subseteq From(c) \union {Rest}
    /\ epoll.at \in {"acquire", "push"} => epoll.msg \in From(epoll.c) \union {Rest, Torn}

LEMMA FromKinds ==
    /\ \A c \in Clients : From(c) \subseteq Message
    /\ \A c, d \in Clients : c # d => From(c) \intersect From(d) = {}
    /\ \A c \in Clients : Torn \notin From(c) /\ Rest \notin From(c)
    /\ \A c \in Clients : Dull \notin From(c) /\ Quit \notin From(c)
    /\ \A c \in Clients, m \in Bytes : \A k \in Decoded(m) : k \in From(c) => k = m
<1>1. \A m \in Message : m.kind \in {"reg", "dereg", "data"}
  BY Kinds DEF Message, RegMsg, DeRegMsg
<1>2. /\ Torn.kind = "torn" /\ Rest.kind = "rest" /\ Dull.kind = "dull" /\ Quit.kind = "quit"
  BY DEF Torn, Rest, Dull, Quit
<1>3. Torn \notin Message /\ Rest \notin Message /\ Dull \notin Message /\ Quit \notin Message
  BY <1>1, <1>2
<1>. QED BY <1>3 DEF From, Decoded

LEMMA QueuedMsgs ==
    ASSUME TypeInv
    PROVE  /\ RecvMsgs \in Seq(Content) /\ Range(RecvMsgs) = {content[e] : e \in Received}
           /\ SendMsgs \in Seq(Content) /\ Range(SendMsgs) = {content[e] : e \in ToSend}
<1>1. content \in [Entities -> Content] /\ recvQueue \in Seq(Entities) /\ sendQueue \in Seq(Entities)
  BY DEF TypeInv, ServerTypes, Content
<1>. QED BY <1>1, MsgsAreASeq DEF RecvMsgs, SendMsgs, Received, ToSend

\* The queues and the threads behind the epoll thread keep their messages while it
\* fills a free entity.
LEMMA OwnedMsgsKept ==
    ASSUME OwnInv, UNCHANGED <<recvQueue, sendQueue, loop, send>>,
           \A e \in occupied : content'[e] = content[e]
    PROVE  UNCHANGED <<RecvMsgs, SendMsgs, Handling, Sending>>
<1>1. Received \subseteq occupied /\ ToSend \subseteq occupied /\ LoopOwns \subseteq occupied
  BY DEF OwnInv, Owners, Owned
<1>2. MsgsOf(recvQueue, content') = MsgsOf(recvQueue, content)
  BY <1>1, MsgsKept DEF Received
<1>3. MsgsOf(sendQueue, content') = MsgsOf(sendQueue, content)
  BY <1>1, MsgsKept DEF ToSend
<1>4. Handling' = Handling /\ Sending' = Sending
  BY <1>1 DEF Handling, Sending, LoopOwns
<1>. QED BY <1>2, <1>3, <1>4 DEF RecvMsgs, SendMsgs

\* In every step of the server messages stay in their place, go to the next one or are
\* lost, so what is behind a place only gets less.  It remains to show of a place that
\* gains a message that it is not in disorder with what is behind.
LEMMA LineMoves ==
    ASSUME NEW c \in Clients, NEW G \in SUBSET (From(c) \X From(c)), InLine(c, G),
           Unread(c)' \intersect From(c) \subseteq Unread(c),
           BehindRecv(c)' \intersect From(c) \subseteq BehindRecv(c),
           BehindHandling(c)' \intersect From(c) \subseteq BehindHandling(c),
           BehindSend(c)' \intersect From(c) \subseteq BehindSend(c),
           BehindSending(c)' \intersect From(c) \subseteq BehindSending(c),
           BehindInbox(c)' \intersect From(c) \subseteq BehindInbox(c),
           Sorted(stream'[c], G), Sorted(RecvMsgs', G), Sorted(SendMsgs', G),
           Reading' \intersect From(c) \subseteq Reading \/ Apart(Reading', Unread(c)', G),
           \/ Range(RecvMsgs') \intersect From(c) \subseteq Range(RecvMsgs)
           \/ Apart(Range(RecvMsgs'), BehindRecv(c)', G),
           \/ Handling' \intersect From(c) \subseteq Handling
           \/ Apart(Handling', BehindHandling(c)', G),
           \/ Range(SendMsgs') \intersect From(c) \subseteq Range(SendMsgs)
           \/ Apart(Range(SendMsgs'), BehindSend(c)', G),
           \/ Sending' \intersect From(c) \subseteq Sending
           \/ Apart(Sending', BehindSending(c)', G),
           \A d \in Clients :
               \/ inbox'[d] \in {inbox[d], << >>}
               \/ /\ Sorted(inbox'[d], G) /\ Apart(Range(inbox'[d]), BehindInbox(c)', G)
                  /\ Range(inbox'[d]) \subseteq Range(inbox[d]) \union BehindInbox(c)
    PROVE  InLine(c, G)' /\ Anywhere(c)' \intersect From(c) \subseteq Anywhere(c)
<1>1. \A x, y : x \notin From(c) \/ y \notin From(c) => <<x, y>> \notin G
  OBVIOUS
<1>2. ASSUME NEW P, NEW Q, NEW P2, NEW Q2, Apart(P, Q, G), Q2 \intersect From(c) \subseteq Q,
             P2 \intersect From(c) \subseteq P
      PROVE  Apart(P2, Q2, G)
  BY <1>1, <1>2 DEF Apart
<1>3. Apart(Reading', Unread(c)', G)
  BY <1>2 DEF InLine
<1>4. Apart(Range(RecvMsgs'), BehindRecv(c)', G)
  BY <1>2 DEF InLine
<1>5. Apart(Handling', BehindHandling(c)', G)
  BY <1>2 DEF InLine
<1>6. Apart(Range(SendMsgs'), BehindSend(c)', G)
  BY <1>2 DEF InLine
<1>7. Apart(Sending', BehindSending(c)', G)
  BY <1>2 DEF InLine
<1>8. ASSUME NEW d \in Clients
      PROVE  /\ Sorted(inbox'[d], G) /\ Apart(Range(inbox'[d]), BehindInbox(c)', G)
             /\ Range(inbox'[d]) \subseteq Range(inbox[d]) \union BehindInbox(c)
  <2>1. CASE inbox'[d] = inbox[d]
    <3>1. Sorted(inbox'[d], G) /\ Apart(Range(inbox[d]), BehindInbox(c), G)
      BY <2>1 DEF InLine
    <3>. QED BY <1>2, <2>1, <3>1
  <2>2. CASE inbox'[d] = << >>
    BY <2>2 DEF Sorted, Apart, Range
  <2>. QED BY <2>1, <2>2
<1>9. Anywhere(c)' \intersect From(c) \subseteq Anywhere(c)
  BY <1>8 DEF Anywhere
<1>. QED BY <1>3, <1>4, <1>5, <1>6, <1>7, <1>8, <1>9 DEF InLine

LEMMA LineSame ==
    ASSUME NEW c \in Clients, NEW G, InLine(c, G),
           UNCHANGED <<stream[c], inbox, Reading, RecvMsgs, Handling, SendMsgs, Sending>>
    PROVE  InLine(c, G)' /\ Anywhere(c)' = Anywhere(c)
<1>1. Unread(c)' = Unread(c) /\ BehindRecv(c)' = BehindRecv(c)
  BY DEF Unread, BehindRecv
<1>2. BehindHandling(c)' = BehindHandling(c) /\ BehindSend(c)' = BehindSend(c)
  BY <1>1 DEF BehindHandling, BehindSend
<1>3. BehindSending(c)' = BehindSending(c) /\ BehindInbox(c)' = BehindInbox(c)
  BY <1>2 DEF BehindSending, BehindInbox
<1>. QED BY <1>1, <1>2, <1>3 DEF InLine, Anywhere

\* A step of the epoll thread shows in the rest of the line by what is behind recvQueue.
LEMMA BehindKept ==
    ASSUME NEW c \in Clients, UNCHANGED <<RecvMsgs, Handling, SendMsgs, Sending>>,
           BehindRecv(c)' \intersect From(c) \subseteq BehindRecv(c)
    PROVE  /\ BehindHandling(c)' \intersect From(c) \subseteq BehindHandling(c)
           /\ BehindSend(c)' \intersect From(c) \subseteq BehindSend(c)
           /\ BehindSending(c)' \intersect From(c) \subseteq BehindSending(c)
           /\ BehindInbox(c)' \intersect From(c) \subseteq BehindInbox(c)
<1>1. BehindHandling(c)' \intersect From(c) \subseteq BehindHandling(c)
  BY DEF BehindHandling
<1>2. BehindSend(c)' \intersect From(c) \subseteq BehindSend(c)
  BY <1>1 DEF BehindSend
<1>3. BehindSending(c)' \intersect From(c) \subseteq BehindSending(c)
  BY <1>2 DEF BehindSending
<1>4. BehindInbox(c)' \intersect From(c) \subseteq BehindInbox(c)
  BY <1>3 DEF BehindInbox
<1>. QED BY <1>1, <1>2, <1>3, <1>4

\* What reading, decoding and pushing a message does to the line.
LEMMA ReadLine ==
    ASSUME OwnInv, Source, EpollRead, NEW c \in Clients,
           NEW G \in SUBSET (From(c) \X From(c)), InLine(c, G)
    PROVE  InLine(c, G)' /\ Anywhere(c)' \intersect From(c) \subseteq Anywhere(c)
<1> DEFINE d == epoll.c
           s == stream[d]
<1>1. d \in Clients /\ s \in Seq(Bytes) /\ epoll.at = "read" /\ stream \in [Clients -> Seq(Bytes)]
  BY DEF EpollRead, OwnInv, TypeInv, EpollTypes, ClientTypes
<1>2. PICK n \in 1 .. Len(s), inside \in BOOLEAN :
         LET rest == SubSeq(s, n + 1, Len(s)) IN
         /\ stream' = [stream EXCEPT ![d] = IF inside THEN <<Rest>> \o rest ELSE rest]
         /\ epoll' = [epoll EXCEPT !.at = "acquire",
                           !.msg = IF inside /\ n = 1 THEN Torn ELSE Head(s)]
  BY DEF EpollRead
<1> DEFINE rest == SubSeq(s, n + 1, Len(s))
           m == IF inside /\ n = 1 THEN Torn ELSE Head(s)
<1>3. epoll'.at = "acquire" /\ epoll'.msg = m
  BY <1>2 DEF OwnInv, TypeInv, EpollTypes
<1>4. Reading = {} /\ Reading' = {m}
  BY <1>1, <1>3 DEF Reading
<1>5. UNCHANGED <<inbox, RecvMsgs, Handling, SendMsgs, Sending>>
  BY DEF EpollRead, poolVars, RecvMsgs, Handling, SendMsgs, Sending
<1>6. CASE c # d
  <2>1. stream'[c] = stream[c] /\ Unread(c)' = Unread(c)
    BY <1>1, <1>2, <1>6 DEF Unread
  <2>2. m \notin From(c)
    <3>1. s # << >>
      BY <1>1
    <3>2. Head(s) \in Unread(d)
      BY <1>1, <3>1, TakenFromQueue DEF Unread
    <3>. QED BY <1>1, <1>6, <3>2, FromKinds DEF Source
  <2>3. Reading' \intersect From(c) \subseteq Reading
    BY <1>4, <2>2
  <2>4. BehindRecv(c)' \intersect From(c) \subseteq BehindRecv(c)
    BY <2>1, <2>3 DEF BehindRecv
  <2> HIDE DEF d, s, rest, m
  <2>5. Sorted(stream'[c], G) /\ Sorted(RecvMsgs', G) /\ Sorted(SendMsgs', G)
    BY <1>5, <2>1 DEF InLine
  <2>. QED BY <1>5, <2>1, <2>3, <2>4, <2>5, BehindKept, LineMoves
<1>7. CASE c = d
  <2>1. /\ rest \in Seq(Bytes) /\ Range(rest) \subseteq Range(s) /\ Sorted(rest, G)
        /\ Head(s) \in Range(s) /\ Apart({Head(s)}, Range(rest), G)
    <3>1. Sorted(s, G)
      BY <1>7 DEF InLine
    <3>. QED BY <1>1, <3>1, SortedRest
  <2>2. stream'[c] = IF inside THEN <<Rest>> \o rest ELSE rest
    BY <1>1, <1>2, <1>7
  <2>3. Rest \notin From(c) /\ Torn \notin From(c) /\ Rest \in Bytes
    BY FromKinds, Kinds
  <2>4. /\ Sorted(stream'[c], G) /\ Range(stream'[c]) \subseteq {Rest} \union Range(rest)
    <3>1. CASE inside
      <4>1. \A x : <<Rest, x>> \notin G
        BY <2>3
      <4> HIDE DEF rest
      <4>2. Range(<<Rest>> \o rest) = {Rest} \union Range(rest) /\ Sorted(<<Rest>> \o rest, G)
        BY <2>1, <2>3, <4>1, SortedPrefixed
      <4>. QED BY <2>2, <3>1, <4>2
    <3>2. CASE ~inside
      BY <2>1, <2>2, <3>2
    <3>. QED BY <3>1, <3>2
  <2>5. Unread(c) = Range(s)
    BY <1>7 DEF Unread
  <2>6. m = Head(s) \/ m = Torn
    OBVIOUS
  <2> HIDE DEF d, s, rest, m
  <2>7. Unread(c)' \subseteq {Rest} \union Range(rest)
    BY <2>4 DEF Unread
  <2>8. Unread(c)' \intersect From(c) \subseteq Unread(c)
    BY <2>1, <2>3, <2>5, <2>7
  <2>9. Apart(Reading', Unread(c)', G)
    <3>1. \A x \in Unread(c)' : <<m, x>> \notin G
      BY <2>1, <2>3, <2>6, <2>7 DEF Apart
    <3>. QED BY <1>4, <3>1 DEF Apart
  <2>10. BehindRecv(c)' \intersect From(c) \subseteq BehindRecv(c)
    BY <1>4, <2>1, <2>3, <2>5, <2>6, <2>8 DEF BehindRecv
  <2>11. Sorted(stream'[c], G) /\ Sorted(RecvMsgs', G) /\ Sorted(SendMsgs', G)
    BY <1>5, <2>4 DEF InLine
  <2>. QED BY <1>5, <2>8, <2>9, <2>10, <2>11, BehindKept, LineMoves
<1>. QED BY <1>6, <1>7

LEMMA DeSerializeLine ==
    ASSUME OwnInv, EpollDeSerialize, NEW c \in Clients,
           NEW G \in SUBSET (From(c) \X From(c)), InLine(c, G)
    PROVE  InLine(c, G)' /\ Anywhere(c)' \intersect From(c) \subseteq Anywhere(c)
<1> DEFINE e == First(Entities \ occupied)
<1>1. e \in Entities /\ e \notin occupied
  BY AcquiredIsFree DEF OwnInv
<1>2. PICK m \in Decoded(epoll.msg) :
         /\ content' = [content EXCEPT ![e] = m]
         /\ epoll' = IF m = Torn THEN EpollIdle ELSE [epoll EXCEPT !.at = "push", !.e = e]
  BY DEF EpollDeSerialize
<1>3. epoll.at = "acquire" /\ UNCHANGED <<stream, inbox, recvQueue, sendQueue, loop, send>>
  BY DEF EpollDeSerialize
<1> HIDE DEF e
<1>4. content'[e] = m /\ \A d \in occupied : content'[d] = content[d]
  BY <1>1, <1>2 DEF OwnInv, TypeInv, ServerTypes
<1>5. UNCHANGED <<RecvMsgs, SendMsgs, Handling, Sending>>
  BY <1>3, <1>4, OwnedMsgsKept
<1>6. Reading = {epoll.msg} /\ (Reading' = {} \/ Reading' = {m})
  <2>1. CASE epoll' = EpollIdle
    BY <1>3, <2>1 DEF Reading, EpollIdle
  <2>2. CASE epoll' = [epoll EXCEPT !.at = "push", !.e = e]
    <3>1. epoll'.at = "push" /\ epoll'.e = e
      BY <2>2 DEF OwnInv, TypeInv, EpollTypes
    <3>. QED BY <1>3, <1>4, <3>1 DEF Reading
  <2>. QED BY <1>2, <2>1, <2>2
<1>7. m \in From(c) => m = epoll.msg
  BY FromKinds DEF OwnInv, TypeInv, EpollTypes
<1>8. Reading' \intersect From(c) \subseteq Reading
  BY <1>6, <1>7
<1>9. Unread(c)' = Unread(c)
  BY <1>3 DEF Unread
<1>10. BehindRecv(c)' \intersect From(c) \subseteq BehindRecv(c)
  BY <1>8, <1>9 DEF BehindRecv
<1>11. Sorted(stream'[c], G) /\ Sorted(RecvMsgs', G) /\ Sorted(SendMsgs', G)
  BY <1>3, <1>5 DEF InLine
<1>. QED BY <1>3, <1>5, <1>8, <1>9, <1>10, <1>11, BehindKept, LineMoves

LEMMA PushLine ==
    ASSUME OwnInv, EpollPush, NEW c \in Clients,
           NEW G \in SUBSET (From(c) \X From(c)), InLine(c, G)
    PROVE  InLine(c, G)' /\ Anywhere(c)' \intersect From(c) \subseteq Anywhere(c)
<1> DEFINE m == content[epoll.e]
<1>1. /\ epoll.e \in Entities /\ recvQueue \in Seq(Entities) /\ content \in [Entities -> Content]
      /\ epoll.at = "push" /\ recvQueue' = Append(recvQueue, epoll.e) /\ epoll' = EpollIdle
      /\ UNCHANGED <<content, stream, inbox, sendQueue, loop, send>>
  BY DEF EpollPush, OwnInv, TypeInv, EpollTypes, ServerTypes, Content, poolVars
<1>2. RecvMsgs' = Append(RecvMsgs, m)
  <2>1. MsgsOf(Append(recvQueue, epoll.e), content) = Append(MsgsOf(recvQueue, content), m)
    BY <1>1, MsgsAppended
  <2>. QED BY <1>1, <2>1 DEF RecvMsgs
<1>3. Reading = {m} /\ Reading' = {}
  BY <1>1 DEF Reading, EpollIdle
<1>4. UNCHANGED <<SendMsgs, Handling, Sending>> /\ Unread(c)' = Unread(c)
  BY <1>1 DEF SendMsgs, Handling, Sending, Unread
<1>5. RecvMsgs \in Seq(Content) /\ m \in Content
  BY <1>1, QueuedMsgs DEF OwnInv
<1> HIDE DEF m
<1>6. Range(RecvMsgs') = Range(RecvMsgs) \union {m}
  BY <1>2, <1>5, AppendedQueue
<1>7. Sorted(RecvMsgs', G)
  <2>1. Sorted(RecvMsgs, G) /\ Apart(Range(RecvMsgs), {m}, G)
    BY <1>3 DEF InLine, Apart, BehindRecv
  <2>. QED BY <1>2, <1>5, <2>1, SortedAppended
<1>8. BehindRecv(c)' = Unread(c) /\ Unread(c) \subseteq BehindRecv(c)
  BY <1>3, <1>4 DEF BehindRecv
<1>9. BehindHandling(c)' = BehindHandling(c)
  BY <1>3, <1>6, <1>8 DEF BehindHandling, BehindRecv
<1>10. BehindSend(c)' = BehindSend(c) /\ BehindSending(c)' = BehindSending(c)
       /\ BehindInbox(c)' = BehindInbox(c)
  BY <1>4, <1>9 DEF BehindSend, BehindSending, BehindInbox
<1>11. Apart(Range(RecvMsgs'), BehindRecv(c)', G)
  BY <1>3, <1>6, <1>8 DEF InLine, Apart
<1>12. Sorted(stream'[c], G) /\ Sorted(SendMsgs', G)
  BY <1>1, <1>4 DEF InLine
<1>. QED BY <1>1, <1>3, <1>4, <1>7, <1>8, <1>9, <1>10, <1>11, <1>12, LineMoves

LEMMA EpollLine ==
    ASSUME OwnInv, Source, EpollStep, NEW c \in Clients,
           NEW G \in SUBSET (From(c) \X From(c)), InLine(c, G)
    PROVE  InLine(c, G)' /\ Anywhere(c)' \intersect From(c) \subseteq Anywhere(c)
<1>1. ASSUME UNCHANGED <<stream, inbox, content, recvQueue, sendQueue, loop, send>>,
             UNCHANGED Reading
      PROVE  InLine(c, G)' /\ Anywhere(c)' = Anywhere(c)
  <2>1. UNCHANGED <<stream[c], inbox, Reading, RecvMsgs, Handling, SendMsgs, Sending>>
    BY <1>1 DEF RecvMsgs, SendMsgs, Handling, Sending
  <2>. QED BY <2>1, LineSame
<1>2. ASSUME NEW d \in Clients, EpollAccept(d) \/ EpollFind(d)
      PROVE  InLine(c, G)' /\ Anywhere(c)' = Anywhere(c)
  <2>1. epoll.at = "wait" /\ epoll'.at \notin {"acquire", "push"}
        /\ UNCHANGED <<stream, inbox, content, recvQueue, sendQueue, loop, send>>
    BY <1>2 DEF EpollAccept, EpollFind, poolVars, OwnInv, TypeInv, EpollTypes
  <2>. QED BY <1>1, <2>1 DEF Reading
<1>3. CASE EpollInsert \/ EpollRemove
  <2>1. epoll.at \notin {"acquire", "push"} /\ epoll'.at \notin {"acquire", "push"}
        /\ UNCHANGED <<stream, inbox, content, recvQueue, sendQueue, loop, send>>
    BY <1>3 DEF EpollInsert, EpollRemove, poolVars, EpollIdle
  <2>. QED BY <1>1, <2>1 DEF Reading
<1>4. CASE EpollEOF
  <2>1. epoll.at \notin {"acquire", "push"} /\ epoll'.at \notin {"acquire", "push"}
        /\ UNCHANGED <<stream, inbox, content, recvQueue, sendQueue, loop, send>>
    BY <1>4 DEF EpollEOF, poolVars, OwnInv, TypeInv, EpollTypes
  <2>. QED BY <1>1, <2>1 DEF Reading
<1>5. CASE EpollExit
  BY <1>1, <1>5 DEF EpollExit, poolVars, Reading
<1>. QED BY <1>2, <1>3, <1>4, <1>5, ReadLine, DeSerializeLine, PushLine DEF EpollStep

LEMMA GetLine ==
    ASSUME OwnInv, LoopGet, NEW c \in Clients,
           NEW G \in SUBSET (From(c) \X From(c)), InLine(c, G)
    PROVE  InLine(c, G)' /\ Anywhere(c)' \intersect From(c) \subseteq Anywhere(c)
<1> DEFINE m == content[Head(recvQueue)]
<1>1. /\ recvQueue \in Seq(Entities) /\ recvQueue # << >> /\ content \in [Entities -> Content]
      /\ loop.at = "get" /\ recvQueue' = Tail(recvQueue)
      /\ loop'.at = "handle" /\ loop'.e = Head(recvQueue)
      /\ UNCHANGED <<content, stream, inbox, sendQueue, epoll, send>>
  BY DEF LoopGet, OwnInv, TypeInv, ServerTypes, Content, poolVars
<1>2. RecvMsgs # << >> /\ Head(RecvMsgs) = m /\ RecvMsgs' = Tail(RecvMsgs)
  <2>1. /\ MsgsOf(recvQueue, content) # << >>
        /\ Head(MsgsOf(recvQueue, content)) = m
        /\ MsgsOf(Tail(recvQueue), content) = Tail(MsgsOf(recvQueue, content))
    BY <1>1, MsgsTaken
  <2>. QED BY <1>1, <2>1 DEF RecvMsgs
<1>3. Handling = {} /\ Handling' = {m}
  BY <1>1 DEF Handling
<1>4. UNCHANGED <<Reading, SendMsgs, Sending>> /\ Unread(c)' = Unread(c)
  BY <1>1 DEF Reading, SendMsgs, Sending, Unread
<1> HIDE DEF m
<1>5. Range(RecvMsgs) = {m} \union Range(RecvMsgs')
  BY <1>2, TakenFromQueue, QueuedMsgs DEF OwnInv
<1>6. Sorted(RecvMsgs', G) /\ Apart({m}, Range(RecvMsgs'), G)
  BY <1>2, SortedTail, QueuedMsgs DEF OwnInv, InLine
<1>7. BehindRecv(c)' = BehindRecv(c)
  BY <1>4 DEF BehindRecv
<1>8. BehindHandling(c)' \subseteq BehindHandling(c) /\ BehindSend(c)' = BehindSend(c)
  BY <1>3, <1>5, <1>7 DEF BehindHandling, BehindSend
<1>9. BehindSending(c)' = BehindSending(c) /\ BehindInbox(c)' = BehindInbox(c)
  BY <1>4, <1>8 DEF BehindSending, BehindInbox
<1>10. Apart(Handling', BehindHandling(c)', G)
  <2>1. Apart({m}, BehindRecv(c), G)
    BY <1>5 DEF InLine, Apart
  <2>2. BehindHandling(c)' = Range(RecvMsgs') \union BehindRecv(c)
    BY <1>7 DEF BehindHandling
  <2>. QED BY <1>3, <1>6, <2>1, <2>2 DEF Apart
<1>11. Sorted(stream'[c], G) /\ Sorted(SendMsgs', G)
  BY <1>1, <1>4 DEF InLine
<1>. QED BY <1>1, <1>4, <1>5, <1>6, <1>7, <1>8, <1>9, <1>10, <1>11, LineMoves

LEMMA ForwardLine ==
    ASSUME OwnInv, HandleDataMsg, NEW c \in Clients,
           NEW G \in SUBSET (From(c) \X From(c)), InLine(c, G)
    PROVE  InLine(c, G)' /\ Anywhere(c)' \intersect From(c) \subseteq Anywhere(c)
<1> DEFINE m == content[loop.e]
<1>1. /\ sendQueue \in Seq(Entities) /\ loop.e \in Entities /\ content \in [Entities -> Content]
      /\ loop.at = "handle" /\ sendQueue' = Append(sendQueue, loop.e) /\ loop' = LoopIdle
      /\ UNCHANGED <<content, stream, inbox, recvQueue, epoll, send>>
  BY DEF HandleDataMsg, OwnInv, TypeInv, ServerTypes, LoopTypes, Content, poolVars
<1>2. SendMsgs' = Append(SendMsgs, m)
  <2>1. MsgsOf(Append(sendQueue, loop.e), content) = Append(MsgsOf(sendQueue, content), m)
    BY <1>1, MsgsAppended
  <2>. QED BY <1>1, <2>1 DEF SendMsgs
<1>3. Handling = {m} /\ Handling' = {}
  BY <1>1 DEF Handling, LoopIdle
<1>4. UNCHANGED <<Reading, RecvMsgs, Sending>> /\ Unread(c)' = Unread(c)
  BY <1>1 DEF Reading, RecvMsgs, Sending, Unread
<1>5. SendMsgs \in Seq(Content) /\ m \in Content
  BY <1>1, QueuedMsgs DEF OwnInv
<1> HIDE DEF m
<1>6. Range(SendMsgs') = Range(SendMsgs) \union {m}
  BY <1>2, <1>5, AppendedQueue
<1>7. Sorted(SendMsgs', G)
  <2>1. Sorted(SendMsgs, G) /\ Apart(Range(SendMsgs), {m}, G)
    BY <1>3 DEF InLine, Apart, BehindSend
  <2>. QED BY <1>2, <1>5, <2>1, SortedAppended
<1>8. BehindRecv(c)' = BehindRecv(c) /\ BehindHandling(c)' = BehindHandling(c)
  BY <1>4 DEF BehindRecv, BehindHandling
<1>9. BehindSend(c)' = BehindHandling(c) /\ BehindHandling(c) \subseteq BehindSend(c)
  BY <1>3, <1>8 DEF BehindSend
<1>10. BehindSending(c)' = BehindSending(c) /\ BehindInbox(c)' = BehindInbox(c)
  BY <1>3, <1>4, <1>6, <1>9 DEF BehindSending, BehindInbox, BehindSend
<1>11. Apart(Range(SendMsgs'), BehindSend(c)', G)
  BY <1>3, <1>6, <1>9 DEF InLine, Apart
<1>12. Sorted(stream'[c], G) /\ Sorted(RecvMsgs', G)
  BY <1>1, <1>4 DEF InLine
<1>. QED BY <1>1, <1>3, <1>4, <1>7, <1>8, <1>9, <1>10, <1>11, <1>12, LineMoves

\* The loop thread is done with a message that it does not forward.
LEMMA HandledLine ==
    ASSUME NEW c \in Clients, NEW G \in SUBSET (From(c) \X From(c)), InLine(c, G),
           UNCHANGED <<stream, inbox, Reading, RecvMsgs, SendMsgs, Sending>>, Handling' = {}
    PROVE  InLine(c, G)' /\ Anywhere(c)' \intersect From(c) \subseteq Anywhere(c)
<1>1. Unread(c)' = Unread(c) /\ BehindRecv(c)' = BehindRecv(c)
  BY DEF Unread, BehindRecv
<1>2. BehindHandling(c)' = BehindHandling(c) /\ BehindSend(c)' \subseteq BehindSend(c)
  BY <1>1 DEF BehindHandling, BehindSend
<1>3. BehindSending(c)' \subseteq BehindSending(c) /\ BehindInbox(c)' \subseteq BehindInbox(c)
  BY <1>2 DEF BehindSending, BehindInbox
<1>4. Sorted(stream'[c], G) /\ Sorted(RecvMsgs', G) /\ Sorted(SendMsgs', G)
  BY DEF InLine
<1>. QED BY <1>1, <1>2, <1>3, <1>4, LineMoves

LEMMA LoopLine ==
    ASSUME OwnInv, LoopStep, NEW c \in Clients,
           NEW G \in SUBSET (From(c) \X From(c)), InLine(c, G)
    PROVE  InLine(c, G)' /\ Anywhere(c)' \intersect From(c) \subseteq Anywhere(c)
<1>1. CASE HandleRegMsg \/ HandleDeRegMsg
  <2>1. loop'.at = "release" /\ UNCHANGED <<stream, inbox, content, recvQueue, sendQueue, epoll, send>>
    BY <1>1 DEF HandleRegMsg, HandleDeRegMsg, WriteName, OwnInv, TypeInv, LoopTypes, poolVars
  <2>. QED BY <2>1, HandledLine DEF Handling, Reading, RecvMsgs, SendMsgs, Sending
<1>2. CASE LoopRelease \/ HandleDullMsg \/ HandleQuitMsg
  <2>1. loop'.at # "handle" /\ UNCHANGED <<stream, inbox, content, recvQueue, sendQueue, epoll, send>>
    BY <1>2 DEF LoopRelease, HandleDullMsg, HandleQuitMsg, LoopIdle, poolVars
  <2>. QED BY <2>1, HandledLine DEF Handling, Reading, RecvMsgs, SendMsgs, Sending
<1>. QED BY <1>1, <1>2, GetLine, ForwardLine DEF LoopStep

LEMMA SendGetLine ==
    ASSUME OwnInv, SendGet, NEW c \in Clients,
           NEW G \in SUBSET (From(c) \X From(c)), InLine(c, G)
    PROVE  InLine(c, G)' /\ Anywhere(c)' \intersect From(c) \subseteq Anywhere(c)
<1> DEFINE m == content[Head(sendQueue)]
<1>1. /\ sendQueue \in Seq(Entities) /\ sendQueue # << >> /\ content \in [Entities -> Content]
      /\ send.at = "get" /\ send.todo = {} /\ sendQueue' = Tail(sendQueue)
      /\ send'.at = "lock" /\ send'.msg = m
      /\ UNCHANGED <<content, stream, inbox, recvQueue, epoll, loop>>
  BY SendGetsData DEF OwnInv, TypeInv, ServerTypes, Content, Owners, ScanInv
<1>2. SendMsgs # << >> /\ Head(SendMsgs) = m /\ SendMsgs' = Tail(SendMsgs)
  <2>1. /\ MsgsOf(sendQueue, content) # << >>
        /\ Head(MsgsOf(sendQueue, content)) = m
        /\ MsgsOf(Tail(sendQueue), content) = Tail(MsgsOf(sendQueue, content))
    BY <1>1, MsgsTaken
  <2>. QED BY <1>1, <2>1 DEF SendMsgs
<1>3. Sending = {} /\ Sending' = {m}
  BY <1>1 DEF Sending
<1>4. UNCHANGED <<Reading, RecvMsgs, Handling>> /\ Unread(c)' = Unread(c)
  BY <1>1 DEF Reading, RecvMsgs, Handling, Unread
<1> HIDE DEF m
<1>5. Range(SendMsgs) = {m} \union Range(SendMsgs')
  BY <1>2, TakenFromQueue, QueuedMsgs DEF OwnInv
<1>6. Sorted(SendMsgs', G) /\ Apart({m}, Range(SendMsgs'), G)
  BY <1>2, SortedTail, QueuedMsgs DEF OwnInv, InLine
<1>7. BehindRecv(c)' = BehindRecv(c) /\ BehindHandling(c)' = BehindHandling(c)
      /\ BehindSend(c)' = BehindSend(c)
  BY <1>4 DEF BehindRecv, BehindHandling, BehindSend
<1>8. BehindSending(c)' \subseteq BehindSending(c) /\ BehindInbox(c)' = BehindInbox(c)
  BY <1>3, <1>5, <1>7 DEF BehindSending, BehindInbox
<1>9. Apart(Sending', BehindSending(c)', G)
  <2>1. Apart({m}, BehindSend(c), G)
    BY <1>5 DEF InLine, Apart
  <2>2. BehindSending(c)' = Range(SendMsgs') \union BehindSend(c)
    BY <1>7 DEF BehindSending
  <2>. QED BY <1>3, <1>6, <2>1, <2>2 DEF Apart
<1>10. Sorted(stream'[c], G) /\ Sorted(RecvMsgs', G)
  BY <1>1, <1>4 DEF InLine
<1>. QED BY <1>1, <1>4, <1>5, <1>6, <1>7, <1>8, <1>9, <1>10, LineMoves

\* The send thread delivers its message to b, or loses it.
LEMMA DeliverLine ==
    ASSUME DistinctNames, OwnInv, NEW b \in Clients, SendTo(b), NEW c \in Clients,
           NEW G \in SUBSET (From(c) \X From(c)), InLine(c, G)
    PROVE  InLine(c, G)' /\ Anywhere(c)' \intersect From(c) \subseteq Anywhere(c)
<1> DEFINE m == send.msg
<1>1. /\ send.at = "visit" /\ b \in send.todo /\ send.todo \subseteq Clients /\ m \in Data
      /\ send'.at = "release" /\ send'.todo = send.todo \ {b}
      /\ UNCHANGED <<content, stream, recvQueue, sendQueue, epoll, loop>>
  BY DEF SendTo, Transmit, OwnInv, TypeInv, SendTypes, poolVars
<1>2. send.todo = {b}
  BY <1>1 DEF DistinctNames, OwnInv, Owners, ScanInv
<1>3. Sending = {m} /\ Sending' = {}
  BY <1>1, <1>2 DEF Sending
<1>4. UNCHANGED <<Reading, RecvMsgs, Handling, SendMsgs>> /\ Unread(c)' = Unread(c)
  BY <1>1 DEF Reading, RecvMsgs, Handling, SendMsgs, Unread
<1>5. content[send.e] = m /\ inbox \in [Clients -> Seq(Data)]
  BY <1>1 DEF OwnInv, Contents, SendOwns
<1>6. \A d \in Clients : inbox'[d] = inbox[d] \/ (d = b /\ inbox'[d] = Append(inbox[b], m))
  BY <1>5 DEF SendTo, Transmit
<1>7. BehindRecv(c)' = BehindRecv(c) /\ BehindHandling(c)' = BehindHandling(c)
      /\ BehindSend(c)' = BehindSend(c) /\ BehindSending(c)' = BehindSending(c)
  BY <1>4 DEF BehindRecv, BehindHandling, BehindSend, BehindSending
<1> HIDE DEF m
<1>8. BehindInbox(c)' = BehindSending(c) /\ BehindSending(c) \subseteq BehindInbox(c)
      /\ m \in BehindInbox(c)
  BY <1>3, <1>7 DEF BehindInbox
<1>9. Sorted(Append(inbox[b], m), G) /\ Range(Append(inbox[b], m)) = Range(inbox[b]) \union {m}
  <2>1. Sorted(inbox[b], G) /\ Apart(Range(inbox[b]), {m}, G) /\ inbox[b] \in Seq(Data)
    BY <1>5, <1>8 DEF InLine, Apart
  <2>. QED BY <1>1, <2>1, SortedAppended, AppendedQueue
<1>10. Apart(Range(inbox[b]) \union {m}, BehindInbox(c)', G)
  BY <1>3, <1>8 DEF InLine, Apart
<1>11. Sorted(stream'[c], G) /\ Sorted(RecvMsgs', G) /\ Sorted(SendMsgs', G)
  BY <1>1, <1>4 DEF InLine
<1>12. \A d \in Clients :
          \/ inbox'[d] \in {inbox[d], << >>}
          \/ /\ Sorted(inbox'[d], G) /\ Apart(Range(inbox'[d]), BehindInbox(c)', G)
             /\ Range(inbox'[d]) \subseteq Range(inbox[d]) \union BehindInbox(c)
  BY <1>6, <1>8, <1>9, <1>10
<1>. QED BY <1>3, <1>4, <1>7, <1>8, <1>11, <1>12, LineMoves

LEMMA SendLine ==
    ASSUME DistinctNames, OwnInv, SendStep, NEW c \in Clients,
           NEW G \in SUBSET (From(c) \X From(c)), InLine(c, G)
    PROVE  InLine(c, G)' /\ Anywhere(c)' \intersect From(c) \subseteq Anywhere(c)
<1>1. CASE SendLock \/ SendRelease \/ SendUnLock
  <2>1. UNCHANGED <<stream, inbox, content, recvQueue, sendQueue, epoll, loop>>
    BY <1>1 DEF SendLock, SendRelease, SendUnLock, poolVars
  <2>2. Sending' \subseteq Sending
    <3>1. CASE SendLock
      <4>1. send.at = "lock" /\ send'.msg = send.msg
        BY <3>1 DEF SendLock, OwnInv, TypeInv, SendTypes
      <4>. QED BY <4>1 DEF Sending
    <3>2. CASE SendRelease
      <4>1. send.at = "release" /\ send.todo = {} /\ send'.at = "visit" /\ send'.todo = {}
        BY <3>2 DEF SendRelease, OwnInv, TypeInv, SendTypes, Owners, ScanInv
      <4>. QED BY <4>1 DEF Sending
    <3>3. CASE SendUnLock
      BY <3>3 DEF SendUnLock, SendIdle, Sending
    <3>. QED BY <1>1, <3>1, <3>2, <3>3
  <2>3. UNCHANGED <<Reading, RecvMsgs, Handling, SendMsgs>> /\ Unread(c)' = Unread(c)
    BY <2>1 DEF Reading, RecvMsgs, Handling, SendMsgs, Unread
  <2>4. BehindRecv(c)' = BehindRecv(c) /\ BehindHandling(c)' = BehindHandling(c)
        /\ BehindSend(c)' = BehindSend(c) /\ BehindSending(c)' = BehindSending(c)
    BY <2>3 DEF BehindRecv, BehindHandling, BehindSend, BehindSending
  <2>5. BehindInbox(c)' \subseteq BehindInbox(c)
    BY <2>2, <2>4 DEF BehindInbox
  <2>6. Sorted(stream'[c], G) /\ Sorted(RecvMsgs', G) /\ Sorted(SendMsgs', G)
    BY <2>1, <2>3 DEF InLine
  <2>. QED BY <2>1, <2>2, <2>3, <2>4, <2>5, <2>6, LineMoves
<1>. QED BY <1>1, SendGetLine, DeliverLine DEF SendStep

\* A message that c writes is the last of the line, or the server has closed.
LEMMA WrittenLine ==
    ASSUME TypeInv, NEW c \in Clients, NEW m \in Message, Write(c, m),
           UNCHANGED <<inbox, serverVars>>,
           NEW G, InLine(c, G), Apart(Anywhere(c), {m}, G)
    PROVE  InLine(c, G)' /\ Anywhere(c)' \subseteq Anywhere(c) \union {m}
<1>1. UNCHANGED <<inbox, content, recvQueue, sendQueue, epoll, loop, send>>
  BY DEF serverVars, poolVars
<1>2. UNCHANGED <<Reading, RecvMsgs, Handling, SendMsgs, Sending>>
  BY <1>1 DEF Reading, RecvMsgs, Handling, SendMsgs, Sending
<1>3. CASE stream' = stream
  BY <1>1, <1>2, <1>3, LineSame
<1>4. CASE stream' = [stream EXCEPT ![c] = Append(@, m)]
  <2>1. stream[c] \in Seq(Bytes) /\ m \in Bytes /\ stream'[c] = Append(stream[c], m)
    BY <1>4, Kinds DEF TypeInv, ClientTypes
  <2>2. Unread(c) \subseteq Anywhere(c)
    BY DEF Anywhere, BehindInbox, BehindSending, BehindSend, BehindHandling, BehindRecv
  <2>3. Sorted(stream'[c], G) /\ Unread(c)' = Unread(c) \union {m}
    <3>1. Sorted(stream[c], G) /\ Apart(Range(stream[c]), {m}, G)
      BY <2>2 DEF InLine, Apart, Unread
    <3>. QED BY <2>1, <3>1, SortedAppended, AppendedQueue DEF Unread
  <2>4. BehindRecv(c)' = BehindRecv(c) \union {m}
    BY <1>2, <2>3 DEF BehindRecv
  <2>5. BehindHandling(c)' = BehindHandling(c) \union {m}
    BY <1>2, <2>4 DEF BehindHandling
  <2>6. BehindSend(c)' = BehindSend(c) \union {m}
    BY <1>2, <2>5 DEF BehindSend
  <2>7. BehindSending(c)' = BehindSending(c) \union {m}
    BY <1>2, <2>6 DEF BehindSending
  <2>8. BehindInbox(c)' = BehindInbox(c) \union {m}
    BY <1>2, <2>7 DEF BehindInbox
  <2>9. /\ Apart(Reading, {m}, G) /\ Apart(Range(RecvMsgs), {m}, G) /\ Apart(Handling, {m}, G)
        /\ Apart(Range(SendMsgs), {m}, G) /\ Apart(Sending, {m}, G)
        /\ \A d \in Clients : Apart(Range(inbox[d]), {m}, G)
    BY DEF Apart, Anywhere, BehindInbox, BehindSending, BehindSend, BehindHandling, BehindRecv
  <2>10. Anywhere(c)' = Anywhere(c) \union {m}
    BY <1>1, <2>8 DEF Anywhere
  <2>11. ASSUME NEW P, NEW Q, Apart(P, Q, G), Apart(P, {m}, G) PROVE Apart(P, Q \union {m}, G)
    BY <2>11 DEF Apart
  <2>12. Apart(Reading', Unread(c)', G)
    BY <1>2, <2>3, <2>9, <2>11 DEF InLine
  <2>13. Apart(Range(RecvMsgs'), BehindRecv(c)', G)
    BY <1>2, <2>4, <2>9, <2>11 DEF InLine
  <2>14. Apart(Handling', BehindHandling(c)', G)
    BY <1>2, <2>5, <2>9, <2>11 DEF InLine
  <2>15. Apart(Range(SendMsgs'), BehindSend(c)', G)
    BY <1>2, <2>6, <2>9, <2>11 DEF InLine
  <2>16. Apart(Sending', BehindSending(c)', G)
    BY <1>2, <2>7, <2>9, <2>11 DEF InLine
  <2>17. \A d \in Clients : Sorted(inbox'[d], G) /\ Apart(Range(inbox'[d]), BehindInbox(c)', G)
    <3>1. ASSUME NEW d \in Clients
          PROVE  Sorted(inbox'[d], G) /\ Apart(Range(inbox'[d]), BehindInbox(c)', G)
      <4>1. Sorted(inbox[d], G) /\ Apart(Range(inbox[d]), BehindInbox(c), G)
        BY DEF InLine
      <4>. QED BY <1>1, <2>8, <2>9, <2>11, <4>1
    <3>. QED BY <3>1
  <2>18. Sorted(RecvMsgs', G) /\ Sorted(SendMsgs', G)
    BY <1>2 DEF InLine
  <2>. QED BY <2>3, <2>10, <2>12, <2>13, <2>14, <2>15, <2>16, <2>17, <2>18 DEF InLine
<1>. QED BY <1>3, <1>4 DEF Write

\* Steps of the clients in which c writes nothing: its stream stays, or is that of a
\* new session.
LEMMA ClientLine ==
    ASSUME NEW d \in Clients, ClientStep(d), NEW c \in Clients,
           NEW G \in SUBSET (From(c) \X From(c)), InLine(c, G),
           stream'[c] \in {stream[c], << >>}, OwnInv
    PROVE  InLine(c, G)' /\ Anywhere(c)' \intersect From(c) \subseteq Anywhere(c)
<1>1. UNCHANGED <<content, recvQueue, sendQueue, epoll, loop, send>>
  BY DEF ClientStep, Connect, ReConnect, Register, SendData, DeRegister, Leave, serverVars,
         poolVars
<1>2. UNCHANGED <<Reading, RecvMsgs, Handling, SendMsgs, Sending>>
  BY <1>1 DEF Reading, RecvMsgs, Handling, SendMsgs, Sending
<1>3. \A b \in Clients : inbox'[b] \in {inbox[b], << >>}
  BY DEF ClientStep, Connect, ReConnect, Register, SendData, DeRegister, Leave, OwnInv, Contents
<1>4. Unread(c)' \subseteq Unread(c)
  BY DEF Unread, Range
<1>5. BehindRecv(c)' \subseteq BehindRecv(c)
  BY <1>2, <1>4 DEF BehindRecv
<1>6. Sorted(stream'[c], G) /\ Sorted(RecvMsgs', G) /\ Sorted(SendMsgs', G)
  BY <1>2 DEF InLine, Sorted
<1>. QED BY <1>2, <1>3, <1>4, <1>5, <1>6, BehindKept, LineMoves

\* All the steps but those in which c writes.
LEMMA LineNext ==
    ASSUME DistinctNames, OwnInv, Source, [Next]_vars, NEW c \in Clients,
           NEW G \in SUBSET (From(c) \X From(c)), InLine(c, G),
           \A d \in Clients : ClientStep(d) => stream'[c] \in {stream[c], << >>}
    PROVE  InLine(c, G)' /\ Anywhere(c)' \intersect From(c) \subseteq Anywhere(c)
<1>1. ASSUME NEW d \in Clients, ClientStep(d)
      PROVE  InLine(c, G)' /\ Anywhere(c)' \intersect From(c) \subseteq Anywhere(c)
  BY <1>1, ClientLine
<1>2. CASE UNCHANGED vars
  <2>1. UNCHANGED <<stream[c], inbox, Reading, RecvMsgs, Handling, SendMsgs, Sending>>
    BY <1>2 DEF vars, poolVars, Reading, RecvMsgs, Handling, SendMsgs, Sending
  <2>. QED BY <2>1, LineSame
<1>. QED BY <1>1, <1>2, EpollLine, LoopLine, SendLine DEF Next

LEMMA InitLine ==
    ASSUME Init, NEW c \in Clients, NEW G
    PROVE  InLine(c, G) /\ Anywhere(c) = {}
<1>1. /\ stream[c] = << >> /\ RecvMsgs = << >> /\ SendMsgs = << >>
      /\ \A d \in Clients : inbox[d] = << >>
  BY DEF Init, RecvMsgs, SendMsgs, MsgsOf
<1>2. Reading = {} /\ Handling = {} /\ Sending = {}
  BY DEF Init, Reading, Handling, Sending, EpollIdle, LoopIdle, SendIdle
<1>3. Range(<< >>) = {} /\ Sorted(<< >>, G)
  BY DEF Range, Sorted
<1>4. Unread(c) = {} /\ Range(RecvMsgs) = {} /\ Range(SendMsgs) = {}
      /\ \A d \in Clients : Range(inbox[d]) = {}
  BY <1>1, <1>3 DEF Unread
<1>5. Anywhere(c) = {}
  BY <1>2, <1>4 DEF Anywhere, BehindInbox, BehindSending, BehindSend, BehindHandling, BehindRecv
<1>. QED BY <1>1, <1>2, <1>3, <1>4, <1>5 DEF InLine, Apart

LEMMA SourceInit == Init => Source
BY DEF Init, Source, Unread, Range, EpollIdle

LEMMA SourceNext == TypeInv /\ Source /\ [Next]_vars => Source'
<1> SUFFICES ASSUME TypeInv, Source, [Next]_vars PROVE Source'
  OBVIOUS
<1>1. ASSUME UNCHANGED <<stream, epoll>> PROVE Source'
  BY <1>1 DEF Source, Unread
<1>2. ASSUME UNCHANGED stream,
             epoll'.at \in {"acquire", "push"} =>
                epoll.at \in {"acquire", "push"} /\ epoll'.c = epoll.c /\ epoll'.msg = epoll.msg
      PROVE  Source'
  BY <1>2 DEF Source, Unread
<1>3. ASSUME NEW c \in Clients, ClientStep(c) PROVE Source'
  <2>1. UNCHANGED epoll
    BY <1>3 DEF ClientStep, Connect, ReConnect, Register, SendData, DeRegister, Leave, serverVars
  <2>2. ASSUME NEW m \in From(c), Write(c, m) PROVE Source'
    <3>1. CASE stream' = [stream EXCEPT ![c] = Append(@, m)]
      <4>1. stream[c] \in Seq(Bytes) /\ m \in Bytes
        BY <2>2, Kinds, FromKinds DEF TypeInv, ClientTypes
      <4>2. \A d \in Clients : stream'[d] = IF d = c THEN Append(stream[c], m) ELSE stream[d]
        BY <3>1 DEF TypeInv, ClientTypes
      <4>3. Range(stream'[c]) = Range(stream[c]) \union {m}
        BY <4>1, <4>2, AppendedQueue
      <4>. QED BY <2>1, <2>2, <4>2, <4>3 DEF Source, Unread
    <3>. QED BY <1>1, <2>1, <2>2, <3>1 DEF Write
  <2>3. CASE ReConnect(c)
    <3>1. \A d \in Clients : Range(stream'[d]) \subseteq Range(stream[d])
      BY <2>3 DEF ReConnect, TypeInv, ClientTypes, Range
    <3>. QED BY <2>1, <3>1 DEF Source, Unread
  <2>4. CASE Register(c) \/ DeRegister(c)
    <3>1. RegMsg(c) \in From(c) /\ DeRegMsg(c) \in From(c)
      BY DEF From, Message, RegMsg, DeRegMsg
    <3>. QED BY <2>2, <2>4, <3>1 DEF Register, DeRegister
  <2>5. ASSUME NEW to \in Names, SendData(c, to) PROVE Source'
    <3>1. sentData[c] + 1 \in 1 .. MaxData[c]
      BY <2>5, ServerAssumption, CountedUp DEF SendData, TypeInv, ClientTypes
    <3>2. DataMsg(c, to, sentData[c] + 1) \in From(c)
      BY <3>1 DEF From, Message, Data, DataMsg
    <3>. QED BY <2>2, <2>5, <3>2 DEF SendData
  <2>6. CASE Connect(c) \/ Leave(c)
    BY <1>1, <2>6 DEF Connect, Leave, serverVars
  <2>. QED BY <1>3, <2>3, <2>4, <2>5, <2>6 DEF ClientStep
<1>4. CASE EpollStep
  <2>1. ASSUME NEW c \in Clients, EpollAccept(c) \/ EpollFind(c) PROVE Source'
    <3>1. UNCHANGED stream /\ epoll'.at \notin {"acquire", "push"}
      BY <2>1 DEF EpollAccept, EpollFind, TypeInv, EpollTypes
    <3>. QED BY <1>2, <3>1
  <2>2. CASE EpollInsert \/ EpollRemove \/ EpollPush
    BY <1>2, <2>2 DEF EpollInsert, EpollRemove, EpollPush, EpollIdle
  <2>3. CASE EpollEOF
    <3>1. UNCHANGED stream /\ epoll'.at \notin {"acquire", "push"}
      BY <2>3 DEF EpollEOF, TypeInv, EpollTypes
    <3>. QED BY <1>2, <3>1
  <2>4. CASE EpollRead
    <3> DEFINE d == epoll.c
               s == stream[d]
    <3>1. d \in Clients /\ s \in Seq(Bytes) /\ stream \in [Clients -> Seq(Bytes)]
      BY <2>4 DEF EpollRead, TypeInv, EpollTypes, ClientTypes
    <3>2. PICK n \in 1 .. Len(s), inside \in BOOLEAN :
             LET rest == SubSeq(s, n + 1, Len(s)) IN
             /\ stream' = [stream EXCEPT ![d] = IF inside THEN <<Rest>> \o rest ELSE rest]
             /\ epoll' = [epoll EXCEPT !.at = "acquire",
                               !.msg = IF inside /\ n = 1 THEN Torn ELSE Head(s)]
      BY <2>4 DEF EpollRead
    <3> DEFINE rest == SubSeq(s, n + 1, Len(s))
               m == IF inside /\ n = 1 THEN Torn ELSE Head(s)
    <3>3. epoll'.at = "acquire" /\ epoll'.msg = m /\ epoll'.c = d
      BY <3>2 DEF TypeInv, EpollTypes
    <3>4. Sorted(s, {})
      BY DEF Sorted
    <3>5. /\ rest \in Seq(Bytes) /\ Range(rest) \subseteq Range(s) /\ Sorted(rest, {})
          /\ Head(s) \in Range(s)
      BY <3>1, <3>4, SortedRest
    <3>6. \A c \in Clients : c # d => stream'[c] = stream[c]
      BY <3>1, <3>2
    <3>7. stream'[d] = IF inside THEN <<Rest>> \o rest ELSE rest
      BY <3>1, <3>2
    <3>8. m \in Range(s) \union {Torn}
      BY <3>5
    <3> HIDE DEF rest, m
    <3>9. Range(stream'[d]) \subseteq {Rest} \union Range(s)
      <4>1. CASE inside
        <5>1. Range(<<Rest>> \o rest) = {Rest} \union Range(rest)
          BY <3>5, Kinds, SortedPrefixed
        <5>. QED BY <3>5, <3>7, <4>1, <5>1
      <4>2. CASE ~inside
        BY <3>5, <3>7, <4>2
      <4>. QED BY <4>1, <4>2
    <3>10. Unread(d) \subseteq From(d) \union {Rest} /\ Unread(d) = Range(s)
      BY <3>1 DEF Source, Unread
    <3>11. \A c \in Clients : Range(stream'[c]) \subseteq From(c) \union {Rest}
      <4>1. \A c \in Clients : c # d => Range(stream'[c]) \subseteq From(c) \union {Rest}
        BY <3>6 DEF Source, Unread
      <4>. QED BY <3>9, <3>10, <4>1
    <3>12. epoll'.msg \in From(epoll'.c) \union {Rest, Torn}
      BY <3>3, <3>8, <3>10
    <3>. QED BY <3>11, <3>12 DEF Source, Unread
  <2>5. CASE EpollDeSerialize
    <3> DEFINE e == First(Entities \ occupied)
    <3>1. epoll' = EpollIdle \/ epoll' = [epoll EXCEPT !.at = "push", !.e = e]
      BY <2>5 DEF EpollDeSerialize
    <3> HIDE DEF e
    <3>2. UNCHANGED stream /\ epoll.at = "acquire"
      BY <2>5 DEF EpollDeSerialize
    <3>3. CASE epoll' = EpollIdle
      BY <1>2, <3>2, <3>3 DEF EpollIdle
    <3>4. CASE epoll' = [epoll EXCEPT !.at = "push", !.e = e]
      <4>1. epoll'.at = "push" /\ epoll'.c = epoll.c /\ epoll'.msg = epoll.msg
        BY <3>4 DEF TypeInv, EpollTypes
      <4>. QED BY <1>2, <3>2, <4>1
    <3>. QED BY <3>1, <3>3, <3>4
  <2>6. CASE EpollExit
    BY <1>1, <2>6 DEF EpollExit
  <2>. QED BY <1>4, <2>1, <2>2, <2>3, <2>4, <2>5, <2>6 DEF EpollStep
<1>5. CASE LoopStep \/ SendStep
  <2>1. UNCHANGED <<stream, epoll>>
    BY <1>5 DEF LoopStep, LoopGet, HandleRegMsg, HandleDeRegMsg, LoopRelease, HandleDataMsg,
                HandleDullMsg, HandleQuitMsg, SendStep, SendGet, SendLock, SendRelease,
                SendUnLock, SendTo, Transmit
  <2>. QED BY <1>1, <2>1
<1>6. CASE UNCHANGED vars
  BY <1>1, <1>6 DEF vars
<1>. QED BY <1>3, <1>4, <1>5, <1>6 DEF Next

-----------------------------------------------------------------------------
(***************************************************************************)
(* Delivery in order                                                       *)
(***************************************************************************)
\* The messages of c are in line in the order of their numbers, and no number has
\* been used that c has not given out.
OutOfOrder(c) ==
    {pair \in From(c) \X From(c) :
        pair[1].kind = "data" /\ pair[2].kind = "data" /\ ~(pair[1].n < pair[2].n)}

Numbered(c) == \A m \in Anywhere(c) : m \in From(c) /\ m.kind = "data" => m.n <= sentData[c]

Addressed == \A d \in Clients : \A m \in Range(inbox[d]) : m.to = NameOf[d]

DeliveryInv == Addressed /\ \A c \in Clients : InLine(c, OutOfOrder(c)) /\ Numbered(c)

LEMMA AddressedNext ==
    ASSUME OwnInv, Addressed, [Next]_vars
    PROVE  Addressed'
<1>1. ASSUME \A d \in Clients : inbox'[d] \in {inbox[d], << >>} PROVE Addressed'
  <2>1. \A d \in Clients : Range(inbox'[d]) \subseteq Range(inbox[d])
    BY <1>1 DEF Range
  <2>. QED BY <2>1 DEF Addressed
<1>2. ASSUME NEW c \in Clients, ClientStep(c) PROVE Addressed'
  <2>1. \A d \in Clients : inbox'[d] \in {inbox[d], << >>}
    BY <1>2 DEF ClientStep, Connect, ReConnect, Register, SendData, DeRegister, Leave, OwnInv,
                Contents
  <2>. QED BY <1>1, <2>1
<1>3. ASSUME NEW c \in Clients, SendTo(c) PROVE Addressed'
  <2> DEFINE m == content[send.e]
  <2>1. c \in send.todo /\ send.at = "visit" /\ inbox \in [Clients -> Seq(Data)]
    BY <1>3 DEF SendTo, Transmit, OwnInv, Contents
  <2>2. m = send.msg /\ m \in Data /\ m.to = NameOf[c]
    BY <2>1 DEF OwnInv, Owners, ScanInv, Contents, SendOwns, TypeInv, SendTypes
  <2>3. inbox' = inbox \/ inbox' = [inbox EXCEPT ![c] = Append(@, m)]
    BY <1>3 DEF SendTo, Transmit
  <2> HIDE DEF m
  <2>4. Range(Append(inbox[c], m)) = Range(inbox[c]) \union {m}
    BY <2>1, <2>2, AppendedQueue
  <2>5. CASE inbox' = inbox
    BY <1>1, <2>5
  <2>6. CASE inbox' = [inbox EXCEPT ![c] = Append(@, m)]
    <3>1. \A d \in Clients : Range(inbox'[d]) = IF d = c THEN Range(inbox[c]) \union {m}
                                                ELSE Range(inbox[d])
      BY <2>1, <2>4, <2>6
    <3>. QED BY <2>2, <3>1 DEF Addressed
  <2>. QED BY <2>3, <2>5, <2>6
<1>4. CASE EpollStep \/ LoopStep \/ SendGet \/ SendLock \/ SendRelease \/ SendUnLock
  <2>1. UNCHANGED inbox
    BY <1>4 DEF EpollStep, EpollAccept, EpollFind, EpollInsert, EpollEOF, EpollRemove, EpollRead,
              EpollDeSerialize, EpollPush, EpollExit, LoopStep, LoopGet, HandleRegMsg,
              HandleDeRegMsg, LoopRelease, HandleDataMsg, HandleDullMsg, HandleQuitMsg,
              SendGet, SendLock, SendRelease, SendUnLock
  <2>. QED BY <1>1, <2>1
<1>5. CASE UNCHANGED vars
  BY <1>1, <1>5 DEF vars
<1>. QED BY <1>2, <1>3, <1>4, <1>5 DEF Next, SendStep

LEMMA OrderKept ==
    ASSUME DistinctNames, OwnInv, Source, [Next]_vars, NEW c \in Clients,
           InLine(c, OutOfOrder(c)), Numbered(c)
    PROVE  (InLine(c, OutOfOrder(c)) /\ Numbered(c))'
<1> DEFINE G == OutOfOrder(c)
<1>1. G \in SUBSET (From(c) \X From(c))
  BY DEF OutOfOrder
<1>2. G' = G
  BY DEF OutOfOrder
<1>3. sentData'[c] = sentData[c] \/ sentData'[c] = sentData[c] + 1
  <2>1. ASSUME NEW d \in Clients, NEW to \in Names, SendData(d, to)
        PROVE  sentData'[c] = sentData[c] \/ sentData'[c] = sentData[c] + 1
    BY <2>1 DEF SendData, OwnInv, TypeInv, ClientTypes
  <2>2. ASSUME NEW d \in Clients, ClientStep(d), ~(\E to \in Names : SendData(d, to))
        PROVE  UNCHANGED sentData
    BY <2>2 DEF ClientStep, Connect, ReConnect, Register, DeRegister, Leave
  <2>3. CASE EpollStep
    BY <2>3 DEF EpollStep, EpollAccept, EpollFind, EpollInsert, EpollEOF, EpollRemove, EpollRead,
                EpollDeSerialize, EpollPush, EpollExit, clientVars
  <2>4. CASE LoopStep
    BY <2>4 DEF LoopStep, LoopGet, HandleRegMsg, HandleDeRegMsg, LoopRelease, HandleDataMsg,
                HandleDullMsg, HandleQuitMsg, clientVars
  <2>5. CASE SendStep
    BY <2>5
    DEF SendStep, SendGet, SendLock, SendRelease, SendUnLock, SendTo, Transmit, clientVars
  <2>6. CASE UNCHANGED vars
    BY <2>6 DEF vars, clientVars
  <2>. QED BY <2>1, <2>2, <2>3, <2>4, <2>5, <2>6 DEF Next
<1>4. sentData[c] \in Nat /\ \A m \in From(c) : m.kind = "data" => m.n \in Nat
  BY Kinds DEF OwnInv, TypeInv, ClientTypes, From
<1>5. ASSUME Anywhere(c)' \intersect From(c) \subseteq Anywhere(c) PROVE Numbered(c)'
  <2>1. \A m \in From(c) : m \in Anywhere(c)' /\ m.kind = "data" => m.n <= sentData[c]
    BY <1>5 DEF Numbered
  <2>2. \A m \in From(c) : m \in Anywhere(c)' /\ m.kind = "data" => m.n <= sentData'[c]
    BY <1>3, <1>4, <2>1
  <2>. QED BY <2>2 DEF Numbered
<1>6. ASSUME NEW m \in From(c), Write(c, m), UNCHANGED <<inbox, serverVars>>,
             m.kind = "data" => m.n = sentData[c] + 1 /\ sentData'[c] = sentData[c] + 1
      PROVE  InLine(c, G)' /\ Numbered(c)'
  <2>1. ASSUME NEW p \in Anywhere(c) PROVE <<p, m>> \notin G
    <3>1. CASE p \in From(c) /\ p.kind = "data" /\ m.kind = "data"
      <4>1. p.n <= sentData[c] /\ m.n = sentData[c] + 1 /\ p.n \in Nat
        BY <1>4, <1>6, <3>1 DEF Numbered
      <4>2. p.n < m.n
        BY <1>4, <4>1
      <4>. QED BY <4>2 DEF OutOfOrder
    <3>2. CASE ~(p \in From(c) /\ p.kind = "data" /\ m.kind = "data")
      BY <3>2 DEF OutOfOrder
    <3>. QED BY <3>1, <3>2
  <2>2. Apart(Anywhere(c), {m}, G)
    BY <2>1 DEF Apart
  <2>3. m \in Message
    BY FromKinds
  <2> HIDE DEF G
  <2>4. InLine(c, G)' /\ Anywhere(c)' \subseteq Anywhere(c) \union {m}
    <3>1. InLine(c, G)
      BY DEF G
    <3>. QED BY <1>2, <1>6, <2>2, <2>3, <3>1, WrittenLine DEF OwnInv
  <2>5. ASSUME NEW k \in Anywhere(c)', k \in From(c), k.kind = "data" PROVE k.n <= sentData'[c]
    <3>1. CASE k \in Anywhere(c)
      <4>1. k.n <= sentData[c] /\ k.n \in Nat
        BY <1>4, <2>5, <3>1 DEF Numbered
      <4>. QED BY <1>3, <1>4, <4>1
    <3>2. CASE k = m
      BY <1>4, <1>6, <2>5, <3>2
    <3>. QED BY <2>4, <3>1, <3>2
  <2>. QED BY <2>4, <2>5 DEF Numbered
<1>7. CASE \A d \in Clients : ClientStep(d) => stream'[c] \in {stream[c], << >>}
  <2> HIDE DEF G
  <2>1. InLine(c, G)
    BY DEF G
  <2>2. InLine(c, G)' /\ Anywhere(c)' \intersect From(c) \subseteq Anywhere(c)
    BY <1>1, <1>2, <1>7, <2>1, LineNext
  <2>. QED BY <1>5, <2>2 DEF G
<1>8. ASSUME NEW d \in Clients, ClientStep(d), stream'[c] \notin {stream[c], << >>}
      PROVE  InLine(c, G)' /\ Numbered(c)'
  <2>1. stream \in [Clients -> Seq(Bytes)]
    BY DEF OwnInv, TypeInv, ClientTypes
  <2>2. ASSUME NEW m, Write(d, m) PROVE d = c
    BY <1>8, <2>1, <2>2 DEF Write
  <2>3. CASE Connect(d) \/ ReConnect(d) \/ Leave(d)
    BY <1>8, <2>1, <2>3 DEF Connect, ReConnect, Leave
  <2>4. CASE Register(d) \/ DeRegister(d)
    <3>1. RegMsg(c) \in From(c) /\ DeRegMsg(c) \in From(c)
          /\ RegMsg(c).kind # "data" /\ DeRegMsg(c).kind # "data"
      BY DEF From, Message, RegMsg, DeRegMsg
    <3>2. d = c
      BY <2>2, <2>4 DEF Register, DeRegister
    <3>. QED BY <1>6, <2>4, <3>1, <3>2 DEF Register, DeRegister
  <2>5. ASSUME NEW to \in Names, SendData(d, to) PROVE InLine(c, G)' /\ Numbered(c)'
    <3>1. d = c
      BY <2>2, <2>5 DEF SendData
    <3> DEFINE m == DataMsg(c, to, sentData[c] + 1)
    <3>2. sentData[c] + 1 \in 1 .. MaxData[c] /\ sentData'[c] = sentData[c] + 1
      BY <2>5, <3>1, ServerAssumption, CountedUp DEF SendData, OwnInv, TypeInv, ClientTypes
    <3>3. m \in From(c) /\ m.n = sentData[c] + 1
      BY <3>2 DEF From, Message, Data, DataMsg
    <3>4. Write(c, m) /\ UNCHANGED <<inbox, serverVars>>
      BY <2>5, <3>1 DEF SendData
    <3> HIDE DEF m
    <3>. QED BY <1>6, <3>2, <3>3, <3>4
  <2>. QED BY <1>8, <2>3, <2>4, <2>5 DEF ClientStep
<1>. QED BY <1>7, <1>8, <1>2

LEMMA DeliveryInvariant ==
    ASSUME DistinctNames
    PROVE  SafeSpec => [](OwnInv /\ Source /\ DeliveryInv)
<1>1. Init => OwnInv /\ Source /\ DeliveryInv
  <2> SUFFICES ASSUME Init PROVE OwnInv /\ Source /\ DeliveryInv
    OBVIOUS
  <2>1. OwnInv /\ Source
    BY TypeInit, OwnersInit, SourceInit DEF OwnInv
  <2>2. Addressed
    BY DEF Init, Addressed, Range
  <2>3. \A c \in Clients : InLine(c, OutOfOrder(c)) /\ Numbered(c)
    BY InitLine DEF Numbered
  <2>. QED BY <2>1, <2>2, <2>3 DEF DeliveryInv
<1>2. OwnInv /\ Source /\ DeliveryInv /\ [Next]_vars => (OwnInv /\ Source /\ DeliveryInv)'
  <2> SUFFICES ASSUME OwnInv, Source, DeliveryInv, [Next]_vars
               PROVE  (OwnInv /\ Source /\ DeliveryInv)'
    OBVIOUS
  <2>1. OwnInv' /\ Source' /\ Addressed'
    BY OwnNext, SourceNext, AddressedNext DEF OwnInv, DeliveryInv
  <2>2. ASSUME NEW c \in Clients PROVE (InLine(c, OutOfOrder(c)) /\ Numbered(c))'
    BY OrderKept DEF DeliveryInv
  <2>. QED BY <2>1, <2>2 DEF DeliveryInv
<1>. QED BY <1>1, <1>2, PTL DEF SafeSpec

\* DeliveredInOrder: a client gets the messages that are addressed to it, those of
\* one sender in the order they were sent and none of them twice.
THEOREM DeliveryIsInOrder == ASSUME DistinctNames PROVE SafeSpec => []DeliveredInOrder
<1>1. OwnInv /\ DeliveryInv => DeliveredInOrder
  <2> SUFFICES ASSUME OwnInv, DeliveryInv, NEW c \in Clients
               PROVE  /\ \A i \in DOMAIN inbox[c] :
                             inbox[c][i].kind = "data" /\ inbox[c][i].to = NameOf[c]
                      /\ \A i, j \in DOMAIN inbox[c] :
                             i < j /\ inbox[c][i].from = inbox[c][j].from
                                 => inbox[c][i].n < inbox[c][j].n
    BY DEF DeliveredInOrder
  <2>1. \A i \in DOMAIN inbox[c] : inbox[c][i] \in Data /\ inbox[c][i] \in Range(inbox[c])
    BY LenProperties, ElementOfSeq DEF OwnInv, Contents, Range
  <2>2. \A i \in DOMAIN inbox[c] : inbox[c][i].kind = "data" /\ inbox[c][i].to = NameOf[c]
    BY <2>1, Kinds DEF DeliveryInv, Addressed
  <2>3. ASSUME NEW i \in DOMAIN inbox[c], NEW j \in DOMAIN inbox[c], i < j,
               inbox[c][i].from = inbox[c][j].from
        PROVE  inbox[c][i].n < inbox[c][j].n
    <3> DEFINE b == inbox[c][i].from
    <3>1. b \in Clients /\ inbox[c][i] \in From(b) /\ inbox[c][j] \in From(b)
      BY <2>1, <2>3, Kinds DEF From
    <3>2. <<inbox[c][i], inbox[c][j]>> \notin OutOfOrder(b)
      <4> HIDE DEF b
      <4>. QED BY <2>3, <3>1 DEF DeliveryInv, InLine, Sorted
    <3>. QED BY <2>1, <3>1, <3>2, Kinds DEF OutOfOrder
  <2>. QED BY <2>2, <2>3
<1>. QED BY <1>1, DeliveryInvariant, PTL

-----------------------------------------------------------------------------
(***************************************************************************)
(* Logging out                                                             *)
(***************************************************************************)
\* The disorder in which a late registration would undo a deregistration.
LateRegistration(c) == {<<DeRegMsg(c), RegMsg(c)>>}

LoggedOut(c) ==
    /\ InLine(c, LateRegistration(c))
    /\ stage[c] = "new" => DeRegMsg(c) \notin Anywhere(c) /\ table[c] # "loggedOut"
    /\ table[c] = "loggedOut" => RegMsg(c) \notin Anywhere(c)

LogOutInv == \A c \in Clients : reuses[c] = 0 => LoggedOut(c)

LEMMA CallsAreFrom ==
    ASSUME NEW c \in Clients
    PROVE  /\ RegMsg(c) \in From(c) /\ DeRegMsg(c) \in From(c) /\ RegMsg(c) # DeRegMsg(c)
           /\ LateRegistration(c) \in SUBSET (From(c) \X From(c))
BY DEF From, Message, RegMsg, DeRegMsg, LateRegistration

\* Only the message that the loop thread handles changes the table, and it changes
\* the entry of its sender.
LEMMA HandledEntry ==
    ASSUME OwnInv, LoopStep, NEW c \in Clients
    PROVE  \/ table'[c] = table[c]
           \/ /\ HandleRegMsg /\ Handling = {RegMsg(c)}
              /\ table'[c] = IF table[c] \in Entity THEN "named" ELSE "null"
           \/ /\ HandleDeRegMsg /\ Handling = {DeRegMsg(c)}
              /\ table'[c] = IF table[c] \in Entity THEN "loggedOut" ELSE "null"
<1> DEFINE m == content[loop.e]
<1>1. CASE HandleRegMsg
  <2>1. loop.at = "handle" /\ m.kind = "reg" /\ m \in Message \union {Torn, Dull, Quit}
    BY <1>1 DEF HandleRegMsg, OwnInv, TypeInv, LoopTypes, ServerTypes
  <2>2. m.from \in Clients /\ m = RegMsg(m.from) /\ Handling = {m}
    BY <2>1, Kinds DEF Handling
  <2>3. table' = [table EXCEPT ![m.from] = IF @ \in Entity THEN "named" ELSE "null"]
    BY <1>1 DEF HandleRegMsg, WriteName
  <2> HIDE DEF m
  <2>. QED BY <1>1, <2>2, <2>3 DEF OwnInv, TypeInv, ServerTypes
<1>2. CASE HandleDeRegMsg
  <2>1. loop.at = "handle" /\ m.kind = "dereg" /\ m \in Message \union {Torn, Dull, Quit}
    BY <1>2 DEF HandleDeRegMsg, OwnInv, TypeInv, LoopTypes, ServerTypes
  <2>2. m.from \in Clients /\ m = DeRegMsg(m.from) /\ Handling = {m}
    BY <2>1, Kinds DEF Handling
  <2>3. table' = [table EXCEPT ![m.from] = IF @ \in Entity THEN "loggedOut" ELSE "null"]
    BY <1>2 DEF HandleDeRegMsg, WriteName
  <2> HIDE DEF m
  <2>. QED BY <1>2, <2>2, <2>3 DEF OwnInv, TypeInv, ServerTypes
<1>3. CASE LoopGet \/ LoopRelease \/ HandleDataMsg \/ HandleDullMsg \/ HandleQuitMsg
  BY <1>3 DEF LoopGet, LoopRelease, HandleDataMsg, HandleDullMsg, HandleQuitMsg
<1>. QED BY <1>1, <1>2, <1>3 DEF LoopStep

\* The other threads and the clients never mark an entry, nor touch one that is marked
\* except to remove it.
LEMMA OtherEntries ==
    ASSUME TypeInv, TableInv, [Next]_vars, ~LoopStep, NEW c \in Clients
    PROVE  \/ table'[c] = table[c] \/ table'[c] = "absent"
           \/ table'[c] = "unnamed" /\ table[c] \notin Entity
<1>1. ASSUME NEW d \in Clients, ClientStep(d) PROVE table'[c] = table[c]
  BY <1>1 DEF ClientStep, Connect, ReConnect, Register, SendData, DeRegister, Leave, serverVars
<1>2. CASE EpollInsert
  <2>1. epoll.at = "insert" /\ fd[epoll.c] = "none" /\ epoll.c \in Clients
        /\ table' = [table EXCEPT ![epoll.c] = "unnamed"]
    BY <1>2 DEF EpollInsert, TypeInv, EpollTypes, TableInv
  <2>2. table[epoll.c] \notin Entity
    BY <2>1 DEF TableInv, TableMatchesConnections
  <2>. QED BY <2>1, <2>2 DEF TypeInv, ServerTypes
<1>3. CASE EpollRemove
  BY <1>3 DEF EpollRemove, TypeInv, ServerTypes
<1>4. ASSUME NEW d \in Clients, EpollAccept(d) \/ EpollFind(d) PROVE table'[c] = table[c]
  BY <1>4 DEF EpollAccept, EpollFind
<1>5. CASE EpollEOF \/ EpollRead \/ EpollDeSerialize \/ EpollPush \/ EpollExit
  BY <1>5 DEF EpollEOF, EpollRead, EpollDeSerialize, EpollPush, EpollExit
<1>6. CASE SendStep
  BY <1>6 DEF SendStep, SendGet, SendLock, SendRelease, SendUnLock, SendTo, Transmit
<1>7. CASE UNCHANGED vars
  BY <1>7 DEF vars
<1>. QED BY <1>1, <1>2, <1>3, <1>4, <1>5, <1>6, <1>7 DEF Next, EpollStep

\* In the parts of the line that the loop thread has passed are data messages only.
LEMMA PassedIsData ==
    ASSUME OwnInv, NEW c \in Clients, NEW m \in Anywhere(c), m \notin Data
    PROVE  m \in BehindSend(c)
<1>1. Range(SendMsgs) \subseteq Data
  BY QueuedMsgs DEF OwnInv, Contents
<1>2. Sending \subseteq Data
  BY DEF Sending, OwnInv, TypeInv, SendTypes, Owners, ScanInv, SendSteps
<1>3. \A d \in Clients : Range(inbox[d]) \subseteq Data
  BY RangeOfSeq DEF OwnInv, Contents
<1>. QED BY <1>1, <1>2, <1>3 DEF Anywhere, BehindInbox, BehindSending

\* What a client's stage says, and how often its address has been used, is up to the client.
LEMMA OnlyClients ==
    ASSUME [Next]_vars, \A d \in Clients : ~ClientStep(d)
    PROVE  UNCHANGED <<stage, reuses>>
<1>1. CASE EpollStep
  BY <1>1 DEF EpollStep, EpollAccept, EpollFind, EpollInsert, EpollEOF, EpollRemove, EpollRead,
              EpollDeSerialize, EpollPush, EpollExit, clientVars
<1>2. CASE LoopStep
  BY <1>2 DEF LoopStep, LoopGet, HandleRegMsg, HandleDeRegMsg, LoopRelease, HandleDataMsg,
              HandleDullMsg, HandleQuitMsg, clientVars
<1>3. CASE SendStep
  BY <1>3
  DEF SendStep, SendGet, SendLock, SendRelease, SendUnLock, SendTo, Transmit, clientVars
<1>4. CASE UNCHANGED vars
  BY <1>4 DEF vars, clientVars
<1>. QED BY <1>1, <1>2, <1>3, <1>4 DEF Next

\* A step of a client, as the session c sees it: it is a step of another one, a new
\* session, a change of stage or a message of c.
LEMMA ClientCases ==
    ASSUME TypeInv, NEW d \in Clients, ClientStep(d), NEW c \in Clients
    PROVE  \/ UNCHANGED <<stage[c], stream[c], reuses[c]>>
           \/ ReConnect(c)
           \/ Register(c) \/ DeRegister(c)
           \/ \E to \in Names : SendData(c, to)
<1> USE DEF TypeInv, ClientTypes
<1>1. CASE ReConnect(d)
  BY <1>1 DEF ReConnect
<1>2. CASE Connect(d) \/ Leave(d)
  BY <1>2 DEF Connect, Leave, serverVars
<1>3. CASE Register(d) \/ DeRegister(d)
  <2>1. CASE d # c
    BY <1>3, <2>1 DEF Register, DeRegister, Write, serverVars
  <2>. QED BY <1>3, <2>1
<1>4. ASSUME NEW to \in Names, SendData(d, to), d # c
      PROVE  UNCHANGED <<stage[c], stream[c], reuses[c]>>
  BY <1>4 DEF SendData, Write, serverVars
<1>. QED BY <1>1, <1>2, <1>3, <1>4 DEF ClientStep

\* An entry that is marked in a step was marked by the deregistration at the head of
\* the line, and there is no registration behind it.
LEMMA MarkedEntry ==
    ASSUME OwnInv, TableInv, [Next]_vars, NEW c \in Clients, InLine(c, LateRegistration(c)),
           table[c] # "loggedOut", table'[c] = "loggedOut"
    PROVE  LoopStep /\ DeRegMsg(c) \in Anywhere(c) /\ RegMsg(c) \notin Anywhere(c)'
<1>1. LoopStep
  BY OtherEntries DEF OwnInv
<1>2. HandleDeRegMsg /\ Handling = {DeRegMsg(c)}
  BY <1>1, HandledEntry
<1>3. Apart({DeRegMsg(c)}, BehindHandling(c), LateRegistration(c))
  BY <1>2 DEF InLine
<1>4. RegMsg(c) \notin BehindHandling(c)
  BY <1>3 DEF Apart, LateRegistration
<1>5. BehindSend(c) = {DeRegMsg(c)} \union BehindHandling(c)
  BY <1>2 DEF BehindSend
<1>6. RegMsg(c) \notin BehindSend(c)
  BY <1>4, <1>5, CallsAreFrom
<1>7. RegMsg(c) \notin Data
  BY Kinds DEF RegMsg
<1>8. RegMsg(c) \notin Anywhere(c)
  BY <1>6, <1>7, PassedIsData
<1>9. Anywhere(c)' \intersect From(c) \subseteq Anywhere(c)
  BY <1>1, CallsAreFrom, LoopLine
<1>10. DeRegMsg(c) \in Anywhere(c)
  BY <1>5 DEF Anywhere, BehindInbox, BehindSending
<1>. QED BY <1>1, <1>8, <1>9, <1>10, CallsAreFrom

LEMMA LoggedOutNext ==
    ASSUME DistinctNames, OwnInv, TableInv, Source, [Next]_vars, NEW c \in Clients,
           LoggedOut(c), reuses[c] = 0, reuses'[c] = 0
    PROVE  LoggedOut(c)'
<1> DEFINE G == LateRegistration(c)
<1>1. G \in SUBSET (From(c) \X From(c)) /\ G' = G /\ RegMsg(c) \in From(c)
      /\ DeRegMsg(c) \in From(c) /\ RegMsg(c) # DeRegMsg(c)
  BY CallsAreFrom DEF LateRegistration
<1>2. ASSUME InLine(c, G)', Anywhere(c)' \intersect From(c) \subseteq Anywhere(c),
             stage'[c] = "new" => stage[c] = "new"
      PROVE  LoggedOut(c)'
  <2>1. stage'[c] = "new" => DeRegMsg(c) \notin Anywhere(c)' /\ table'[c] # "loggedOut"
    <3>1. stage'[c] = "new" => DeRegMsg(c) \notin Anywhere(c) /\ table[c] # "loggedOut"
      BY <1>2 DEF LoggedOut
    <3>. QED BY <1>1, <1>2, <3>1, MarkedEntry DEF LoggedOut
  <2>2. table'[c] = "loggedOut" => RegMsg(c) \notin Anywhere(c)'
    <3>1. CASE table[c] = "loggedOut"
      BY <1>1, <1>2, <3>1 DEF LoggedOut
    <3>2. CASE table[c] # "loggedOut"
      BY <3>2, MarkedEntry DEF LoggedOut
    <3>. QED BY <3>1, <3>2
  <2>. QED BY <1>2, <2>1, <2>2 DEF LoggedOut
<1>3. ASSUME NEW d \in Clients, ClientStep(d), UNCHANGED <<stage[c], stream[c]>>
      PROVE  LoggedOut(c)'
  <2>1. InLine(c, G)
    BY DEF LoggedOut
  <2> HIDE DEF G
  <2>2. InLine(c, G)' /\ Anywhere(c)' \intersect From(c) \subseteq Anywhere(c)
    BY <1>1, <1>3, <2>1, ClientLine
  <2>. QED BY <1>2, <1>3, <2>2
<1>4. ASSUME NEW m \in From(c), Write(c, m), UNCHANGED <<inbox, serverVars>>,
             stage'[c] # "new",
             m = RegMsg(c) => stage[c] = "new"
      PROVE  LoggedOut(c)'
  <2>1. InLine(c, G)
    BY DEF LoggedOut
  <2>2. Apart(Anywhere(c), {m}, G)
    BY <1>4 DEF Apart, LateRegistration, LoggedOut
  <2>3. m \in Message
    BY FromKinds
  <2> HIDE DEF G
  <2>4. InLine(c, G)' /\ Anywhere(c)' \subseteq Anywhere(c) \union {m}
    BY <1>1, <1>4, <2>1, <2>2, <2>3, WrittenLine DEF OwnInv
  <2>5. table' = table
    BY <1>4 DEF serverVars
  <2>6. table[c] = "loggedOut" => RegMsg(c) \notin Anywhere(c) /\ m # RegMsg(c)
    BY <1>4 DEF LoggedOut
  <2>. QED BY <1>4, <2>4, <2>5, <2>6 DEF LoggedOut, G
<1>5. ASSUME NEW d \in Clients, ClientStep(d) PROVE LoggedOut(c)'
  <2>1. CASE ReConnect(c)
    <3>1. reuses'[c] = reuses[c] + 1
      BY <2>1 DEF ReConnect, OwnInv, TypeInv, ClientTypes
    <3>. QED BY <3>1
  <2>2. CASE Register(c)
    <3>1. stage[c] = "new" /\ stage'[c] = "registered" /\ Write(c, RegMsg(c))
          /\ UNCHANGED <<inbox, serverVars>>
      BY <2>2 DEF Register, OwnInv, TypeInv, ClientTypes
    <3>. QED BY <1>1, <1>4, <3>1
  <2>3. CASE DeRegister(c)
    <3>1. stage'[c] = "deregistered" /\ Write(c, DeRegMsg(c)) /\ UNCHANGED <<inbox, serverVars>>
      BY <2>3 DEF DeRegister, OwnInv, TypeInv, ClientTypes
    <3>. QED BY <1>1, <1>4, <3>1
  <2>4. ASSUME NEW to \in Names, SendData(c, to) PROVE LoggedOut(c)'
    <3> DEFINE m == DataMsg(c, to, sentData[c] + 1)
    <3>1. sentData[c] + 1 \in 1 .. MaxData[c]
      BY <2>4, ServerAssumption, CountedUp DEF SendData, OwnInv, TypeInv, ClientTypes
    <3>2. m \in From(c) /\ m.kind = "data"
      BY <3>1 DEF From, Message, Data, DataMsg
    <3>3. RegMsg(c).kind # "data"
      BY DEF RegMsg
    <3>4. Write(c, m) /\ UNCHANGED <<inbox, serverVars>> /\ stage'[c] # "new"
      BY <2>4 DEF SendData
    <3> HIDE DEF m
    <3>. QED BY <1>4, <3>2, <3>3, <3>4
  <2>. QED BY <1>3, <1>5, <2>1, <2>2, <2>3, <2>4, ClientCases DEF OwnInv
<1>6. CASE \A d \in Clients : ~ClientStep(d)
  <2>1. InLine(c, G)
    BY DEF LoggedOut
  <2>2. UNCHANGED stage
    BY <1>6, OnlyClients
  <2> HIDE DEF G
  <2>3. InLine(c, G)' /\ Anywhere(c)' \intersect From(c) \subseteq Anywhere(c)
    BY <1>1, <1>6, <2>1, LineNext
  <2>. QED BY <1>2, <2>2, <2>3
<1>. QED BY <1>5, <1>6

LEMMA ReusesGrow ==
    ASSUME TypeInv, [Next]_vars, NEW c \in Clients, reuses'[c] = 0
    PROVE  reuses[c] = 0
<1>1. ASSUME NEW d \in Clients, ClientStep(d) PROVE reuses[c] = 0
  <2>1. CASE ReConnect(c)
    BY <2>1 DEF ReConnect, TypeInv, ClientTypes
  <2>2. CASE Register(c) \/ DeRegister(c) \/ \E to \in Names : SendData(c, to)
    BY <2>2 DEF Register, DeRegister, SendData, serverVars
  <2>. QED BY <1>1, <2>1, <2>2, ClientCases
<1>. QED BY <1>1, OnlyClients

LEMMA LogOutInvariant ==
    ASSUME DistinctNames
    PROVE  SafeSpec => [](OwnInv /\ TableInv /\ Source /\ LogOutInv)
<1>1. Init => OwnInv /\ TableInv /\ Source /\ LogOutInv
  <2> SUFFICES ASSUME Init PROVE OwnInv /\ TableInv /\ Source /\ LogOutInv
    OBVIOUS
  <2>1. OwnInv /\ TableInv /\ Source
    BY TypeInit, OwnersInit, TableInit, SourceInit DEF OwnInv
  <2>2. \A c \in Clients : LoggedOut(c)
    BY InitLine DEF LoggedOut, Init
  <2>. QED BY <2>1, <2>2 DEF LogOutInv
<1>2. OwnInv /\ TableInv /\ Source /\ LogOutInv /\ [Next]_vars
          => (OwnInv /\ TableInv /\ Source /\ LogOutInv)'
  <2> SUFFICES ASSUME OwnInv, TableInv, Source, LogOutInv, [Next]_vars
               PROVE  (OwnInv /\ TableInv /\ Source /\ LogOutInv)'
    OBVIOUS
  <2>1. OwnInv' /\ TableInv' /\ Source'
    BY OwnNext, TableNext, SourceNext DEF OwnInv
  <2>2. ASSUME NEW c \in Clients, reuses'[c] = 0 PROVE LoggedOut(c)'
    BY <2>2, ReusesGrow, LoggedOutNext DEF LogOutInv, OwnInv
  <2>. QED BY <2>1, <2>2 DEF LogOutInv
<1>. QED BY <1>1, <1>2, PTL DEF SafeSpec

\* LogOutIsFinal: the entry of a client that has logged out is not named again by a
\* registration that was written before; only the end of the connection removes the mark.
THEOREM LogOutStands == ASSUME DistinctNames PROVE SafeSpec => LogOutIsFinal
<1>1. OwnInv /\ TableInv /\ Source /\ LogOutInv /\ [Next]_vars
          => [\A c \in Clients :
                 table[c] = "loggedOut" /\ reuses[c] = 0
                     => table'[c] \in {"loggedOut", "absent"}]_vars
  <2> SUFFICES ASSUME OwnInv, TableInv, LogOutInv, Next, NEW c \in Clients,
                      table[c] = "loggedOut", reuses[c] = 0
               PROVE  table'[c] \in {"loggedOut", "absent"}
    OBVIOUS
  <2>1. RegMsg(c) \notin Anywhere(c)
    BY DEF LogOutInv, LoggedOut
  <2>2. Handling # {RegMsg(c)}
    BY <2>1 DEF Anywhere, BehindInbox, BehindSending, BehindSend
  <2>3. table[c] \in Entity
    BY DEF Entity
  <2>. QED BY <2>2, <2>3, HandledEntry, OtherEntries DEF OwnInv
<1>. QED BY <1>1, LogOutInvariant, PTL DEF SafeSpec, LogOutIsFinal

-----------------------------------------------------------------------------
(***************************************************************************)
(* Registering                                                             *)
(***************************************************************************)
\* A registration of c is in the list s, and no deregistration after it.
Ends(s, c) ==
    \E i \in DOMAIN s : s[i] = RegMsg(c) /\ \A j \in DOMAIN s : i < j => s[j] # DeRegMsg(c)

\* Of the registrations and deregistrations of c that the server has read, the last
\* one to be handled is a registration.
LastRegisters(c) ==
    \/ RegMsg(c) \in Reading
    \/ Ends(RecvMsgs, c)
    \/ RegMsg(c) \in Handling /\ DeRegMsg(c) \notin Range(RecvMsgs)
    \/ table[c] = "named" /\ DeRegMsg(c) \notin Range(RecvMsgs) \union Handling

AtHead(c) == stream[c] # << >> /\ Head(stream[c]) = RegMsg(c)

\* A session registers before it writes anything else, so that its registration is the
\* first message of its connection; what is left of an earlier session at its address
\* has been read from an earlier connection.
Settling(c) ==
    fd[c] # "closed" /\ tears[c] = 0 =>
        /\ stage[c] = "new" => stream[c] = << >>
        /\ stage[c] # "deregistered" => DeRegMsg(c) \notin Reading \union Unread(c)
        /\ stage[c] = "registered" => AtHead(c) \/ (fd[c] = "open" /\ LastRegisters(c))

RegInv == \A c \in Clients : Settling(c)

LEMMA SettlingKept ==
    ASSUME NEW c \in Clients, Settling(c),
           UNCHANGED <<stage[c], stream[c], fd[c], tears[c], table[c]>>,
           UNCHANGED <<Reading, RecvMsgs, Handling>>
    PROVE  Settling(c)'
<1>1. Unread(c)' = Unread(c) /\ AtHead(c)' = AtHead(c)
  BY DEF Unread, AtHead
<1>2. LastRegisters(c)' = LastRegisters(c)
  BY DEF LastRegisters, Ends, RegMsg, DeRegMsg
<1>. QED BY <1>1, <1>2 DEF Settling, DeRegMsg

LEMMA EndsAppended ==
    ASSUME NEW c \in Clients, NEW s \in Seq(Content), NEW m \in Content,
           m = RegMsg(c) \/ (Ends(s, c) /\ m # DeRegMsg(c))
    PROVE  Ends(Append(s, m), c)
<1> DEFINE t == Append(s, m)
<1>1. /\ t \in Seq(Content) /\ Len(t) = Len(s) + 1
      /\ \A i \in 1 .. Len(s) : t[i] = s[i]
      /\ t[Len(s) + 1] = m
  BY AppendProperties
<1>2. Len(s) \in Nat /\ DOMAIN s = 1 .. Len(s) /\ DOMAIN t = 1 .. Len(s) + 1
  BY <1>1, LenProperties
<1> HIDE DEF t
<1>3. CASE m = RegMsg(c)
  <2>1. Len(s) + 1 \in DOMAIN t /\ \A j \in DOMAIN t : ~(Len(s) + 1 < j)
    BY <1>2
  <2>. QED BY <1>1, <1>3, <2>1 DEF Ends, t
<1>4. CASE Ends(s, c) /\ m # DeRegMsg(c)
  <2>1. PICK i \in DOMAIN s : s[i] = RegMsg(c) /\ \A j \in DOMAIN s : i < j => s[j] # DeRegMsg(c)
    BY <1>4 DEF Ends
  <2>2. i \in DOMAIN t /\ t[i] = RegMsg(c)
    BY <1>1, <1>2, <2>1
  <2>3. \A j \in DOMAIN t : j \in DOMAIN s \/ j = Len(s) + 1
    BY <1>2
  <2>4. \A j \in DOMAIN t : i < j => t[j] # DeRegMsg(c)
    BY <1>1, <1>2, <1>4, <2>1, <2>3
  <2>. QED BY <2>2, <2>4 DEF Ends, t
<1>. QED BY <1>3, <1>4

LEMMA EndsTaken ==
    ASSUME NEW c \in Clients, NEW s \in Seq(Content), s # << >>, Ends(s, c)
    PROVE  Ends(Tail(s), c) \/ (Head(s) = RegMsg(c) /\ DeRegMsg(c) \notin Range(Tail(s)))
<1> DEFINE t == Tail(s)
<1>1. /\ t \in Seq(Content) /\ Len(t) = Len(s) - 1
      /\ \A i \in 1 .. Len(t) : t[i] = s[i + 1]
  BY HeadTailProperties
<1>2. /\ Len(s) \in Nat \ {0} /\ DOMAIN s = 1 .. Len(s) /\ DOMAIN t = 1 .. Len(s) - 1
      /\ Head(s) = s[1]
  BY <1>1, LenProperties, EmptySeq
<1> HIDE DEF t
<1>3. PICK i \in DOMAIN s : s[i] = RegMsg(c) /\ \A j \in DOMAIN s : i < j => s[j] # DeRegMsg(c)
  BY DEF Ends
<1>4. \A j \in DOMAIN t : j + 1 \in DOMAIN s /\ t[j] = s[j + 1]
  BY <1>1, <1>2
<1>5. CASE i = 1
  <2>1. \A j \in DOMAIN t : t[j] # DeRegMsg(c)
    BY <1>2, <1>3, <1>4, <1>5
  <2>. QED BY <1>2, <1>3, <1>5, <2>1 DEF Range, t
<1>6. CASE i # 1
  <2>1. i - 1 \in DOMAIN t /\ t[i - 1] = RegMsg(c)
    <3>1. i - 1 \in DOMAIN t /\ (i - 1) + 1 = i
      BY <1>2, <1>6
    <3>. QED BY <1>3, <1>4, <3>1
  <2>2. \A j \in DOMAIN t : i - 1 < j => t[j] # DeRegMsg(c)
    <3>1. \A j \in DOMAIN t : i - 1 < j => i < j + 1
      BY <1>2
    <3>. QED BY <1>3, <1>4, <3>1
  <2>. QED BY <2>1, <2>2 DEF Ends, t
<1>. QED BY <1>5, <1>6

\* The message between a connection and the queue is of the connection it was read from.
LEMMA ReadFrom ==
    ASSUME OwnInv, Source, NEW c \in Clients, NEW m \in From(c), m \in Reading
    PROVE  epoll.at \in {"acquire", "push"} /\ epoll.c = c /\ epoll.msg = m
<1>1. epoll.at \in {"acquire", "push"} /\ epoll.c \in Clients /\ epoll.msg \in Bytes
  BY DEF Reading, OwnInv, TypeInv, EpollTypes
<1>2. m \in Decoded(epoll.msg)
  <2>1. CASE epoll.at = "acquire"
    <3>1. m = epoll.msg
      BY <2>1 DEF Reading
    <3>2. m # Rest
      BY FromKinds
    <3>. QED BY <3>1, <3>2 DEF Decoded
  <2>2. CASE epoll.at = "push"
    BY <2>2 DEF Reading, OwnInv, Contents
  <2>. QED BY <1>1, <2>1, <2>2
<1>3. m = epoll.msg
  BY <1>1, <1>2, FromKinds
<1>4. epoll.msg \in From(epoll.c)
  BY <1>1, <1>3, FromKinds DEF Source
<1>. QED BY <1>1, <1>3, <1>4, FromKinds

LEMMA ReadSettles ==
    ASSUME OwnInv, TableInv, Source, EpollRead, NEW c \in Clients, Settling(c)
    PROVE  Settling(c)'
<1> DEFINE d == epoll.c
           s == stream[d]
<1>1. d \in Clients /\ s \in Seq(Bytes) /\ epoll.at = "read" /\ stream \in [Clients -> Seq(Bytes)]
      /\ tears \in [Clients -> Nat] /\ fd[d] = "open"
  BY DEF EpollRead, OwnInv, TypeInv, EpollTypes, ClientTypes, TableInv
<1>2. PICK n \in 1 .. Len(s), inside \in BOOLEAN :
         LET rest == SubSeq(s, n + 1, Len(s)) IN
         /\ tears' = IF inside THEN [tears EXCEPT ![d] = @ + 1] ELSE tears
         /\ stream' = [stream EXCEPT ![d] = IF inside THEN <<Rest>> \o rest ELSE rest]
         /\ epoll' = [epoll EXCEPT !.at = "acquire",
                           !.msg = IF inside /\ n = 1 THEN Torn ELSE Head(s)]
  BY DEF EpollRead
<1> DEFINE rest == SubSeq(s, n + 1, Len(s))
           m == IF inside /\ n = 1 THEN Torn ELSE Head(s)
<1>3. epoll'.at = "acquire" /\ epoll'.msg = m
  BY <1>2 DEF OwnInv, TypeInv, EpollTypes
<1>4. Reading = {} /\ Reading' = {m}
  BY <1>1, <1>3 DEF Reading
<1>5. UNCHANGED <<stage, fd, table, RecvMsgs, Handling>>
  BY DEF EpollRead, clientVars, poolVars, RecvMsgs, Handling
<1>6. s # << >> /\ Head(s) \in Range(s)
  <2>1. s # << >>
    BY <1>1
  <2>. QED BY <1>1, <2>1, TakenFromQueue
<1>7. CASE c # d
  <2>1. stream'[c] = stream[c] /\ tears'[c] = tears[c]
    BY <1>1, <1>2, <1>7
  <2>2. m \notin From(c)
    BY <1>1, <1>6, <1>7, FromKinds DEF Source, Unread
  <2> HIDE DEF d, s, rest, m
  <2>3. Unread(c)' = Unread(c) /\ AtHead(c)' = AtHead(c)
    BY <2>1 DEF Unread, AtHead
  <2>4. LastRegisters(c) => LastRegisters(c)'
    BY <1>4, <1>5 DEF LastRegisters, Ends, RegMsg, DeRegMsg
  <2>5. DeRegMsg(c) \notin Reading'
    BY <1>4, <2>2, CallsAreFrom
  <2>. QED BY <1>5, <2>1, <2>3, <2>4, <2>5 DEF Settling, DeRegMsg
<1>8. CASE c = d /\ inside
  <2>1. tears'[c] # 0
    BY <1>1, <1>2, <1>8
  <2>. QED BY <2>1 DEF Settling
<1>9. CASE c = d /\ ~inside
  <2>1. stream'[c] = rest /\ tears'[c] = tears[c] /\ m = Head(s)
    BY <1>1, <1>2, <1>9
  <2>2. Range(rest) \subseteq Range(s)
    <3>1. Sorted(s, {})
      BY DEF Sorted
    <3>. QED BY <1>1, <3>1, SortedRest
  <2>3. s = stream[c] /\ fd'[c] = "open"
    BY <1>1, <1>5, <1>9
  <2> HIDE DEF d, s, rest, m
  <2>4. Reading' \union Unread(c)' \subseteq Unread(c)
    BY <1>4, <1>6, <2>1, <2>2, <2>3 DEF Unread
  <2>5. AtHead(c) => LastRegisters(c)'
    BY <1>4, <2>1, <2>3 DEF AtHead, LastRegisters, RegMsg
  <2>6. LastRegisters(c) => LastRegisters(c)'
    BY <1>4, <1>5 DEF LastRegisters, Ends, RegMsg, DeRegMsg
  <2>7. stage[c] # "new" \/ fd[c] = "closed" \/ tears[c] # 0
    BY <1>6, <2>3 DEF Settling
  <2>. QED BY <1>5, <2>1, <2>3, <2>4, <2>5, <2>6, <2>7 DEF Settling, DeRegMsg
<1>. QED BY <1>7, <1>8, <1>9

LEMMA DeSerializeSettles ==
    ASSUME OwnInv, Source, EpollDeSerialize, NEW c \in Clients, Settling(c)
    PROVE  Settling(c)'
<1> DEFINE e == First(Entities \ occupied)
<1>1. e \in Entities /\ e \notin occupied
  BY AcquiredIsFree DEF OwnInv
<1>2. PICK m \in Decoded(epoll.msg) :
         /\ content' = [content EXCEPT ![e] = m]
         /\ epoll' = IF m = Torn THEN EpollIdle ELSE [epoll EXCEPT !.at = "push", !.e = e]
  BY DEF EpollDeSerialize
<1>3. epoll.at = "acquire"
      /\ UNCHANGED <<stage, stream, fd, tears, table, recvQueue, sendQueue, loop, send>>
  BY DEF EpollDeSerialize, clientVars
<1> HIDE DEF e
<1>4. content'[e] = m /\ \A d \in occupied : content'[d] = content[d]
  BY <1>1, <1>2 DEF OwnInv, TypeInv, ServerTypes
<1>5. UNCHANGED <<RecvMsgs, Handling>>
  BY <1>3, <1>4, OwnedMsgsKept
<1>6. Reading = {epoll.msg} /\ Reading' = IF m = Torn THEN {} ELSE {m}
  <2>1. CASE m = Torn
    <3>1. epoll'.at = "wait"
      BY <1>2, <2>1 DEF EpollIdle
    <3>. QED BY <1>3, <2>1, <3>1 DEF Reading
  <2>2. CASE m # Torn
    <3>1. epoll'.at = "push" /\ epoll'.e = e
      BY <1>2, <2>2 DEF OwnInv, TypeInv, EpollTypes
    <3>. QED BY <1>3, <1>4, <2>2, <3>1 DEF Reading
  <2>. QED BY <2>1, <2>2
<1>7. m \in From(c) => m = epoll.msg
  BY FromKinds DEF OwnInv, TypeInv, EpollTypes
<1>8. epoll.msg \in From(c) => m = epoll.msg /\ m # Torn
  <2>1. Rest \notin From(c) /\ Torn \notin From(c)
    BY FromKinds
  <2>. QED BY <2>1 DEF Decoded
<1>9. Reading' \intersect From(c) = Reading \intersect From(c)
  BY <1>6, <1>7, <1>8
<1>10. Unread(c)' = Unread(c) /\ AtHead(c)' = AtHead(c)
  BY <1>3 DEF Unread, AtHead
<1>11. LastRegisters(c)' = LastRegisters(c)
  BY <1>3, <1>5, <1>9, CallsAreFrom DEF LastRegisters, Ends, RegMsg, DeRegMsg
<1>12. DeRegMsg(c) \in Reading' <=> DeRegMsg(c) \in Reading
  BY <1>9, CallsAreFrom
<1>. QED BY <1>3, <1>10, <1>11, <1>12 DEF Settling, DeRegMsg

LEMMA PushSettles ==
    ASSUME OwnInv, EpollPush, NEW c \in Clients, Settling(c)
    PROVE  Settling(c)'
<1> DEFINE m == content[epoll.e]
<1>1. /\ epoll.e \in Entities /\ recvQueue \in Seq(Entities) /\ content \in [Entities -> Content]
      /\ epoll.at = "push" /\ recvQueue' = Append(recvQueue, epoll.e) /\ epoll' = EpollIdle
      /\ UNCHANGED <<content, stage, stream, fd, tears, table, loop>>
  BY DEF EpollPush, OwnInv, TypeInv, EpollTypes, ServerTypes, Content, poolVars, clientVars
<1>2. RecvMsgs' = Append(RecvMsgs, m)
  <2>1. MsgsOf(Append(recvQueue, epoll.e), content) = Append(MsgsOf(recvQueue, content), m)
    BY <1>1, MsgsAppended
  <2>. QED BY <1>1, <2>1 DEF RecvMsgs
<1>3. Reading = {m} /\ Reading' = {}
  BY <1>1 DEF Reading, EpollIdle
<1>4. Handling' = Handling /\ Unread(c)' = Unread(c) /\ AtHead(c)' = AtHead(c)
  BY <1>1 DEF Handling, Unread, AtHead
<1>5. RecvMsgs \in Seq(Content) /\ m \in Content
  BY <1>1, QueuedMsgs DEF OwnInv
<1> HIDE DEF m
<1>6. Range(RecvMsgs') = Range(RecvMsgs) \union {m}
  BY <1>2, <1>5, AppendedQueue
<1>7. ASSUME DeRegMsg(c) # m, LastRegisters(c) PROVE LastRegisters(c)'
  <2>1. CASE m = RegMsg(c) \/ Ends(RecvMsgs, c)
    <3>1. Ends(Append(RecvMsgs, m), c)
      BY <1>5, <1>7, <2>1, EndsAppended
    <3>2. Ends(RecvMsgs, c)' <=> Ends(Append(RecvMsgs, m), c)
      BY <1>2 DEF Ends, RegMsg, DeRegMsg
    <3>. QED BY <3>1, <3>2 DEF LastRegisters
  <2>2. CASE m # RegMsg(c) /\ ~Ends(RecvMsgs, c)
    BY <1>1, <1>3, <1>4, <1>6, <1>7, <2>2 DEF LastRegisters, RegMsg, DeRegMsg
  <2>. QED BY <2>1, <2>2
<1>. QED BY <1>1, <1>3, <1>4, <1>7 DEF Settling, DeRegMsg

LEMMA GetSettles ==
    ASSUME OwnInv, LoopGet, NEW c \in Clients, Settling(c)
    PROVE  Settling(c)'
<1> DEFINE m == content[Head(recvQueue)]
<1>1. /\ recvQueue \in Seq(Entities) /\ recvQueue # << >> /\ content \in [Entities -> Content]
      /\ loop.at = "get" /\ recvQueue' = Tail(recvQueue)
      /\ loop'.at = "handle" /\ loop'.e = Head(recvQueue)
      /\ UNCHANGED <<content, stage, stream, fd, tears, table, epoll>>
  BY DEF LoopGet, OwnInv, TypeInv, ServerTypes, Content, poolVars, clientVars
<1>2. RecvMsgs # << >> /\ Head(RecvMsgs) = m /\ RecvMsgs' = Tail(RecvMsgs)
  <2>1. /\ MsgsOf(recvQueue, content) # << >>
        /\ Head(MsgsOf(recvQueue, content)) = m
        /\ MsgsOf(Tail(recvQueue), content) = Tail(MsgsOf(recvQueue, content))
    BY <1>1, MsgsTaken
  <2>. QED BY <1>1, <2>1 DEF RecvMsgs
<1>3. Handling = {} /\ Handling' = {m}
  BY <1>1 DEF Handling
<1>4. Reading' = Reading /\ Unread(c)' = Unread(c) /\ AtHead(c)' = AtHead(c)
  BY <1>1 DEF Reading, Unread, AtHead
<1> HIDE DEF m
<1>5. RecvMsgs \in Seq(Content)
  BY QueuedMsgs DEF OwnInv
<1>6. Range(RecvMsgs) = {m} \union Range(RecvMsgs')
  BY <1>2, <1>5, TakenFromQueue
<1>7. ASSUME LastRegisters(c) PROVE LastRegisters(c)'
  <2>1. CASE Ends(RecvMsgs, c)
    <3>1. Ends(Tail(RecvMsgs), c) \/ (m = RegMsg(c) /\ DeRegMsg(c) \notin Range(Tail(RecvMsgs)))
      BY <1>2, <1>5, <2>1, EndsTaken
    <3>2. Ends(RecvMsgs, c)' <=> Ends(Tail(RecvMsgs), c)
      BY <1>2 DEF Ends, RegMsg, DeRegMsg
    <3>3. CASE Ends(Tail(RecvMsgs), c)
      BY <3>2, <3>3 DEF LastRegisters
    <3>4. CASE m = RegMsg(c) /\ DeRegMsg(c) \notin Range(Tail(RecvMsgs))
      BY <1>2, <1>3, <3>4 DEF LastRegisters, RegMsg, DeRegMsg
    <3>. QED BY <3>1, <3>3, <3>4
  <2>2. CASE ~Ends(RecvMsgs, c)
    BY <1>1, <1>3, <1>4, <1>6, <1>7, <2>2 DEF LastRegisters, RegMsg, DeRegMsg
  <2>. QED BY <2>1, <2>2
<1>. QED BY <1>1, <1>4, <1>7 DEF Settling, DeRegMsg

\* The call-back of a registration names the entry, for the connection is open.
LEMMA HandledSettles ==
    ASSUME OwnInv, TableInv, LoopStep, ~LoopGet, NEW c \in Clients, Settling(c)
    PROVE  Settling(c)'
<1>1. /\ loop'.at # "handle"
      /\ UNCHANGED <<content, stage, stream, fd, tears, recvQueue, epoll>>
  BY DEF LoopStep, HandleRegMsg, HandleDeRegMsg, WriteName, LoopRelease, HandleDataMsg,
         HandleDullMsg, HandleQuitMsg, LoopIdle, OwnInv, TypeInv, LoopTypes, poolVars, clientVars
<1>2. UNCHANGED <<Reading, RecvMsgs>> /\ Handling' = {}
  BY <1>1 DEF Reading, RecvMsgs, Handling
<1>3. Unread(c)' = Unread(c) /\ AtHead(c)' = AtHead(c)
  BY <1>1 DEF Unread, AtHead
<1>4. ASSUME RegMsg(c) \in Handling, table[c] \in Entity PROVE table'[c] = "named"
  <2>1. loop.at = "handle" /\ content[loop.e] = RegMsg(c)
    BY <1>4 DEF Handling
  <2>2. HandleRegMsg
    BY <2>1 DEF LoopStep, HandleDeRegMsg, LoopRelease, HandleDataMsg, HandleDullMsg,
                HandleQuitMsg, RegMsg
  <2>3. table' = [table EXCEPT ![c] = IF @ \in Entity THEN "named" ELSE "null"]
    BY <2>1, <2>2 DEF HandleRegMsg, WriteName, RegMsg
  <2>. QED BY <1>4, <2>3 DEF OwnInv, TypeInv, ServerTypes
<1>5. ASSUME DeRegMsg(c) \notin Handling, table[c] = "named" PROVE table'[c] = "named"
  BY <1>5, HandledEntry DEF Entity
<1>6. ASSUME fd[c] = "open", LastRegisters(c) PROVE LastRegisters(c)'
  <2>1. table[c] \in Entity
    BY <1>6 DEF TableInv, TableMatchesConnections
  <2>. QED BY <1>2, <1>4, <1>5, <1>6, <2>1 DEF LastRegisters, Ends, RegMsg, DeRegMsg
<1>. QED BY <1>1, <1>2, <1>3, <1>6 DEF Settling, DeRegMsg

LEMMA EpollSettles ==
    ASSUME OwnInv, TableInv, Source, EpollStep, NEW c \in Clients, Settling(c)
    PROVE  Settling(c)'
<1> USE DEF OwnInv, TypeInv, ClientTypes, ServerTypes, EpollTypes
<1>1. ASSUME UNCHANGED <<content, stage, stream, tears, recvQueue, loop>>,
             epoll.at \notin {"acquire", "push"}, epoll'.at \notin {"acquire", "push"},
             \/ UNCHANGED <<fd[c], table[c]>>
             \/ fd[c] # "open" /\ fd'[c] # "closed" /\ fd[c] # "closed"
             \/ fd'[c] = "closed"
      PROVE  Settling(c)'
  <2>1. UNCHANGED <<Reading, RecvMsgs, Handling>>
    BY <1>1 DEF Reading, RecvMsgs, Handling
  <2>2. CASE UNCHANGED <<fd[c], table[c]>>
    BY <1>1, <2>1, <2>2, SettlingKept
  <2>3. CASE fd[c] # "open" /\ fd'[c] # "closed" /\ fd[c] # "closed"
    <3>1. Unread(c)' = Unread(c) /\ AtHead(c)' = AtHead(c)
      BY <1>1 DEF Unread, AtHead
    <3>. QED BY <1>1, <2>1, <2>3, <3>1 DEF Settling, DeRegMsg
  <2>4. CASE fd'[c] = "closed"
    BY <2>4 DEF Settling
  <2>. QED BY <1>1, <2>2, <2>3, <2>4
<1>2. ASSUME NEW d \in Clients, EpollAccept(d) PROVE Settling(c)'
  <2>1. \/ fd' = [fd EXCEPT ![d] = "closed"] /\ UNCHANGED epoll
        \/ epoll' = [epoll EXCEPT !.at = "insert", !.c = d] /\ UNCHANGED fd
    BY <1>2 DEF EpollAccept
  <2>2. epoll.at = "wait" /\ UNCHANGED <<content, stage, stream, tears, recvQueue, loop, table>>
    BY <1>2 DEF EpollAccept, clientVars, poolVars
  <2>3. epoll'.at \notin {"acquire", "push"}
    BY <2>1, <2>2
  <2>4. UNCHANGED fd[c] \/ fd'[c] = "closed"
    BY <2>1
  <2>. QED BY <1>1, <2>2, <2>3, <2>4
<1>3. ASSUME NEW d \in Clients, EpollFind(d) PROVE Settling(c)'
  <2>1. epoll.at = "wait" /\ epoll'.at = "read"
        /\ UNCHANGED <<content, stage, stream, tears, recvQueue, loop, fd, table>>
    BY <1>3 DEF EpollFind, clientVars, poolVars
  <2>. QED BY <1>1, <2>1
<1>4. CASE EpollInsert
  <2>1. /\ epoll.at = "insert" /\ fd[epoll.c] = "none" /\ epoll'.at = "wait"
        /\ table' = [table EXCEPT ![epoll.c] = "unnamed"]
        /\ fd' = [fd EXCEPT ![epoll.c] = "open"]
        /\ UNCHANGED <<content, stage, stream, tears, recvQueue, loop>>
    BY <1>4 DEF EpollInsert, EpollIdle, TableInv, clientVars, poolVars
  <2>2. \/ UNCHANGED <<fd[c], table[c]>>
        \/ fd[c] # "open" /\ fd'[c] # "closed" /\ fd[c] # "closed"
    BY <2>1
  <2>. QED BY <1>1, <2>1, <2>2
<1>5. CASE EpollEOF
  <2>1. /\ epoll.at = "read" /\ epoll'.at = "remove"
        /\ fd' = [fd EXCEPT ![epoll.c] = "closed"]
        /\ UNCHANGED <<content, stage, stream, tears, recvQueue, loop, table>>
    BY <1>5 DEF EpollEOF, clientVars, poolVars
  <2>2. UNCHANGED fd[c] \/ fd'[c] = "closed"
    BY <2>1
  <2>. QED BY <1>1, <2>1, <2>2
<1>6. CASE EpollRemove
  <2>1. /\ epoll.at = "remove" /\ epoll'.at = "wait" /\ fd[epoll.c] # "open"
        /\ table' = [table EXCEPT ![epoll.c] = "absent"]
        /\ UNCHANGED <<content, stage, stream, tears, recvQueue, loop, fd>>
    BY <1>6 DEF EpollRemove, EpollIdle, TableInv, clientVars, poolVars
  <2>2. \/ UNCHANGED <<fd[c], table[c]>>
        \/ fd[c] # "open" /\ fd'[c] # "closed" /\ fd[c] # "closed"
        \/ fd'[c] = "closed"
    BY <2>1
  <2>. QED BY <1>1, <2>1, <2>2
<1>7. CASE EpollExit
  <2>1. UNCHANGED <<content, stage, stream, tears, recvQueue, loop, fd, table, epoll>>
    BY <1>7 DEF EpollExit, clientVars, poolVars
  <2>. QED BY <2>1, SettlingKept DEF Reading, RecvMsgs, Handling
<1>. QED BY <1>2, <1>3, <1>4, <1>5, <1>6, <1>7, ReadSettles, DeSerializeSettles, PushSettles
     DEF EpollStep

\* A session writes its registration first, and its deregistration last of the two.
LEMMA ClientSettles ==
    ASSUME OwnInv, TableInv, Source, NEW d \in Clients, ClientStep(d), NEW c \in Clients,
           Settling(c)
    PROVE  Settling(c)'
<1> USE DEF OwnInv, TypeInv, ClientTypes
<1>1. UNCHANGED <<table, tears, content, recvQueue, epoll, loop>>
  BY DEF ClientStep, Connect, ReConnect, Register, SendData, DeRegister, Leave, serverVars, poolVars
<1>2. UNCHANGED <<Reading, RecvMsgs, Handling>>
  BY <1>1 DEF Reading, RecvMsgs, Handling
<1>3. LastRegisters(c)' = LastRegisters(c)
  BY <1>1, <1>2 DEF LastRegisters, Ends, RegMsg, DeRegMsg
<1>4. ~ReConnect(c) => fd'[c] = fd[c]
  BY DEF ClientStep, Connect, ReConnect, Register, SendData, DeRegister, Leave, serverVars
<1>5. CASE UNCHANGED <<stage[c], stream[c]>> /\ ~ReConnect(c)
  BY <1>1, <1>2, <1>4, <1>5, SettlingKept
<1>6. CASE ReConnect(c)
  <2>1. fd[c] = "closed" /\ stage'[c] = "new" /\ stream'[c] = << >>
    BY <1>6 DEF ReConnect
  <2>2. Unread(c)' = {}
    BY <2>1 DEF Unread, Range
  <2>3. DeRegMsg(c) \notin Reading
    <3>1. SUFFICES ASSUME DeRegMsg(c) \in Reading PROVE FALSE
      OBVIOUS
    <3>2. epoll.at \in {"acquire", "push"} /\ epoll.c = c
      BY <3>1, CallsAreFrom, ReadFrom
    <3>. QED BY <2>1, <3>2 DEF TableInv
  <2>. QED BY <1>2, <2>1, <2>2, <2>3 DEF Settling, DeRegMsg
<1>7. ASSUME NEW m \in From(c), Write(c, m), fd[c] # "closed"
      PROVE  /\ stream'[c] = Append(stream[c], m) /\ stream'[c] # << >>
             /\ Unread(c)' = Unread(c) \union {m}
             /\ stream[c] = << >> => Head(stream'[c]) = m
             /\ stream[c] # << >> => Head(stream'[c]) = Head(stream[c])
  <2>1. stream'[c] = Append(stream[c], m)
    BY <1>7 DEF Write
  <2>2. stream[c] \in Seq(Bytes) /\ m \in Bytes
    BY <1>7, FromKinds, Kinds
  <2>3. Range(Append(stream[c], m)) = Range(stream[c]) \union {m}
    BY <2>2, AppendedQueue
  <2>4. /\ Append(stream[c], m) # << >>
        /\ stream[c] = << >> => Head(Append(stream[c], m)) = m
        /\ stream[c] # << >> => Head(Append(stream[c], m)) = Head(stream[c])
    <3> DEFINE s == stream[c]
               t == Append(s, m)
    <3>1. /\ t \in Seq(Bytes) /\ Len(t) = Len(s) + 1 /\ t[Len(s) + 1] = m
          /\ \A i \in 1 .. Len(s) : t[i] = s[i]
      BY <2>2, AppendProperties
    <3>2. Len(s) \in Nat /\ (s = << >> <=> Len(s) = 0)
      BY <2>2, EmptySeq
    <3> HIDE DEF s, t
    <3>3. t # << >> /\ Head(t) = t[1] /\ (s # << >> => Head(s) = s[1])
      BY <2>2, <3>1, <3>2 DEF s
    <3>. QED BY <3>1, <3>2, <3>3 DEF s, t
  <2>. QED BY <2>1, <2>3, <2>4 DEF Unread
<1>8. CASE Register(c)
  <2> SUFFICES ASSUME fd'[c] # "closed", tears'[c] = 0 PROVE Settling(c)'
    BY DEF Settling
  <2>1. stage[c] = "new" /\ stage'[c] = "registered" /\ Write(c, RegMsg(c)) /\ fd'[c] = fd[c]
    BY <1>8 DEF Register, serverVars
  <2>2. stream[c] = << >> /\ DeRegMsg(c) \notin Reading \union Unread(c)
    BY <1>1, <2>1 DEF Settling
  <2>3. AtHead(c)' /\ Unread(c)' = Unread(c) \union {RegMsg(c)}
    BY <1>7, <2>1, <2>2, CallsAreFrom DEF AtHead, RegMsg
  <2>. QED BY <1>2, <2>1, <2>2, <2>3, CallsAreFrom DEF Settling, DeRegMsg
<1>9. CASE DeRegister(c)
  <2>1. stage'[c] = "deregistered"
    BY <1>9 DEF DeRegister
  <2>. QED BY <2>1 DEF Settling
<1>10. ASSUME NEW to \in Names, SendData(c, to) PROVE Settling(c)'
  <2> SUFFICES ASSUME fd'[c] # "closed", tears'[c] = 0 PROVE Settling(c)'
    BY DEF Settling
  <2> DEFINE m == DataMsg(c, to, sentData[c] + 1)
  <2>1. sentData[c] + 1 \in 1 .. MaxData[c]
    BY <1>10, ServerAssumption, CountedUp DEF SendData
  <2>2. m \in From(c) /\ m.kind = "data"
    BY <2>1 DEF From, Message, Data, DataMsg
  <2>3. stage[c] # "new" /\ stage'[c] = stage[c] /\ Write(c, m) /\ fd'[c] = fd[c]
    BY <1>10 DEF SendData, serverVars
  <2>4. m # DeRegMsg(c)
    BY <2>2 DEF DeRegMsg
  <2> HIDE DEF m
  <2>5. Unread(c)' = Unread(c) \union {m} /\ (AtHead(c) => AtHead(c)')
    BY <1>7, <2>2, <2>3 DEF AtHead, RegMsg
  <2>. QED BY <1>1, <1>2, <1>3, <2>3, <2>4, <2>5 DEF Settling, DeRegMsg
<1>. QED BY <1>5, <1>6, <1>8, <1>9, <1>10, ClientCases

LEMMA SettlingNext ==
    ASSUME OwnInv, TableInv, Source, [Next]_vars, NEW c \in Clients, Settling(c)
    PROVE  Settling(c)'
<1>1. CASE LoopStep
  BY <1>1, GetSettles, HandledSettles
<1>2. CASE SendStep
  <2>1. UNCHANGED <<content, stage, stream, fd, tears, table, recvQueue, epoll, loop>>
    BY <1>2 DEF SendStep, SendGet, SendLock, SendRelease, SendUnLock, SendTo, Transmit,
                clientVars, poolVars
  <2>. QED BY <2>1, SettlingKept DEF Reading, RecvMsgs, Handling
<1>3. CASE UNCHANGED vars
  BY <1>3, SettlingKept DEF vars, clientVars, poolVars, Reading, RecvMsgs, Handling
<1>. QED BY <1>1, <1>2, <1>3, ClientSettles, EpollSettles DEF Next

LEMMA RegInvariant ==
    ASSUME DistinctNames
    PROVE  SafeSpec => [](OwnInv /\ TableInv /\ Source /\ RegInv)
<1>1. Init => OwnInv /\ TableInv /\ Source /\ RegInv
  <2> SUFFICES ASSUME Init PROVE OwnInv /\ TableInv /\ Source /\ RegInv
    OBVIOUS
  <2>1. OwnInv /\ TableInv /\ Source
    BY TypeInit, OwnersInit, TableInit, SourceInit DEF OwnInv
  <2>2. \A c \in Clients : stage[c] = "new" /\ stream[c] = << >> /\ Unread(c) = {}
    BY DEF Init, Unread, Range
  <2>3. Reading = {}
    BY DEF Init, Reading, EpollIdle
  <2>. QED BY <2>1, <2>2, <2>3 DEF RegInv, Settling
<1>2. OwnInv /\ TableInv /\ Source /\ RegInv /\ [Next]_vars
          => (OwnInv /\ TableInv /\ Source /\ RegInv)'
  <2> SUFFICES ASSUME OwnInv, TableInv, Source, RegInv, [Next]_vars
               PROVE  (OwnInv /\ TableInv /\ Source /\ RegInv)'
    OBVIOUS
  <2>1. OwnInv' /\ TableInv' /\ Source'
    BY OwnNext, TableNext, SourceNext DEF OwnInv
  <2>2. ASSUME NEW c \in Clients PROVE Settling(c)'
    BY SettlingNext DEF RegInv
  <2>. QED BY <2>1, <2>2 DEF RegInv
<1>. QED BY <1>1, <1>2, PTL DEF SafeSpec

\* RegistrationSettles: once nothing of an address is under way any more, the session
\* that has registered last is named in the table, whatever the sessions before it left.
THEOREM RegistrationsSettle == ASSUME DistinctNames PROVE SafeSpec => []RegistrationSettles
<1>1. OwnInv /\ RegInv => RegistrationSettles
  <2> SUFFICES ASSUME OwnInv, RegInv, NEW c \in Clients,
                      fd[c] = "open", stage[c] = "registered", UnderWay(c) = {}, tears[c] = 0
               PROVE  table[c] = "named"
    BY DEF RegistrationSettles
  <2> DEFINE calls == {RegMsg(c), DeRegMsg(c)}
             read == IF epoll.at \in {"acquire", "push"} THEN {epoll.msg} ELSE {}
  <2>1. Range(RecvMsgs) = {content[e] : e \in Range(recvQueue)}
    BY QueuedMsgs DEF OwnInv, Received
  <2>2. (Range(RecvMsgs) \union Handling \union read \union Range(stream[c])) \intersect calls = {}
    BY <2>1 DEF UnderWay, Handling
  <2>3. RegMsg(c) \notin Reading
    <3>1. SUFFICES ASSUME RegMsg(c) \in Reading PROVE FALSE
      OBVIOUS
    <3>2. epoll.at \in {"acquire", "push"} /\ epoll.msg \in Bytes /\ RegMsg(c) \in From(c)
      BY <3>1, CallsAreFrom DEF Reading, OwnInv, TypeInv, EpollTypes
    <3>3. RegMsg(c) # Rest
      BY <3>2, FromKinds
    <3>4. RegMsg(c) \in Decoded(epoll.msg)
      BY <3>1, <3>2, <3>3 DEF Reading, OwnInv, Contents, Decoded
    <3>5. RegMsg(c) = epoll.msg
      BY <3>2, <3>4, FromKinds
    <3>. QED BY <2>2, <3>2, <3>5
  <2>4. ~AtHead(c)
    <3>1. stream[c] # << >> => Head(stream[c]) \in Range(stream[c])
      BY TakenFromQueue DEF OwnInv, TypeInv, ClientTypes
    <3>. QED BY <2>2, <3>1 DEF AtHead
  <2>5. ~Ends(RecvMsgs, c)
    BY <2>2 DEF Ends, Range
  <2>6. LastRegisters(c)
    BY <2>4 DEF RegInv, Settling
  <2>. QED BY <2>2, <2>3, <2>5, <2>6 DEF LastRegisters
<1>. QED BY <1>1, RegInvariant, PTL

=============================================================================
