------------------------------ MODULE Session ------------------------------
(***************************************************************************)
(* xtySession: the client's end of a connection to the message server.     *)
(*                                                                         *)
(*   main  registers, then calls SendMsg and RecvMsg, in the end Exit;     *)
(*         SIGINT makes it run Exit on top of whatever it was doing;       *)
(*   send  serializes the queued messages and writes them;                 *)
(*   recv  reads, deserializes and queues what the server sends.           *)
(*                                                                         *)
(* The queues are the FIFO of MsgChannel and the entities are lent as in   *)
(* EntityPool.  The mutex of the serializer is kept, because a thread that *)
(* is quit, or a handler that does not return, can leave it taken for one  *)
(* that still wants it; nobody uses the other mutexes after that.          *)
(*                                                                         *)
(* Start is modelled from Register on, with both threads created.          *)
(***************************************************************************)
EXTENDS Naturals, Sequences, FiniteSets, Functions

CONSTANTS Buffers,   \* XTY_SESSION_SERIALIZE_ENTITY_NUM
          Entities,  \* XTY_SESSION_DESERIALIZE_ENTITY_NUM
          SockBuf,   \* how many messages the server's socket buffers
          MaxSend,   \* bound: how many messages main sends
          MaxServe,  \* bound: how many messages the server sends
          MaxMixed   \* bound: how many receives are not of one message

ASSUME SessionAssumption ==
    /\ Buffers \in Nat \ {0} /\ Entities \in Nat \ {0} /\ SockBuf \in Nat \ {0}
    /\ MaxSend \in Nat /\ MaxServe \in Nat /\ MaxMixed \in Nat

Threads == {"main", "send", "recv"}
Writers == {"main", "send"}

VARIABLES
    pc,          \* pc[t]: the next step of t
    handler,     \* a handler for SIGQUIT is installed
    pending,     \* the threads that SIGQUIT was sent to
    interrupted, \* where SIGINT interrupted main: "writing", "leaving", "other" or "no"
    up,          \* FALSE once the process has ended before its time
    msg,         \* msg[u]: the message u writes
    buffer,      \* buffer[b]: what is in a serialize entity
    entity,      \* entity[u]: the serialize entity of u
    occupied,    \* the serialize entities with m_IsOccupied set
    lock,        \* the owner of their mutex
    sendQueue,   \* m_pSendMsgQueue
    sent,        \* how many messages were given to SendMsg
    wire,        \* what the server's socket has taken
    unread,      \* how much of it the server has not read
    server,      \* "open" or "closed"
    served,      \* how many messages the server has sent
    stream,      \* what recv can still read
    mixed,       \* how many receives were not of one message
    content,     \* content[e]: the message in a deserialize entity
    lent,        \* the deserialize entities with m_IsOccupied set
    hand,        \* hand[t]: the message recv has read, the entity it or main has
    recvQueue,   \* m_pRecvMsgQueue
    got          \* what RecvMsg has returned

processVars == <<pc, handler, pending, interrupted, up>>
serializerVars == <<msg, buffer, entity, occupied, lock>>
outVars == <<sendQueue, sent, wire, unread, server>>
inVars == <<served, stream, mixed, content, lent, hand, recvQueue, got>>
vars == <<processVars, serializerVars, outVars, inVars>>

Reg == [kind |-> "reg", n |-> 0]
DeReg == [kind |-> "dereg", n |-> 0]
Data(n) == [kind |-> "data", n |-> n]
Message == {Reg, DeReg} \union {Data(n) : n \in 1 .. MaxSend}

\* In the stream a message is its number, the end of a torn one is 0.
Rest == 0

First(S) == CHOOSE e \in S : \A d \in S : e <= d

Init ==
    /\ pc = [main |-> "acquire", send |-> "born", recv |-> "born"]
    /\ handler = FALSE /\ pending = {} /\ interrupted = "no" /\ up = TRUE
    /\ msg = [u \in Writers |-> Reg]
    /\ buffer = [b \in 1 .. Buffers |-> Reg]
    /\ entity = [u \in Writers |-> 0]
    /\ occupied = {} /\ lock = "none"
    /\ sendQueue = << >> /\ sent = 0 /\ wire = << >> /\ unread = 0 /\ server = "open"
    /\ served = 0 /\ stream = << >> /\ mixed = 0
    /\ content = [e \in 1 .. Entities |-> 0]
    /\ lent = {} /\ hand = [main |-> 0, recv |-> 0, read |-> 0]
    /\ recvQueue = << >> /\ got = << >>

-----------------------------------------------------------------------------
Goto(t, from, to) ==
    /\ up /\ pc[t] = from
    /\ pc' = [pc EXCEPT ![t] = to]

\* What a step that only moves a thread leaves alone.
calm == <<handler, pending, interrupted, up>>

(***************************************************************************)
(* The serializer and the socket: Register, DeRegister and the send thread *)
(***************************************************************************)
\* AcquireEntity waits, with the mutex released, until an entity is free.
Acquire(u) ==
    /\ Goto(u, "acquire", "mark")
    /\ lock = "none" /\ occupied # 1 .. Buffers
    /\ lock' = u
    /\ UNCHANGED <<calm, msg, buffer, entity, occupied, outVars, inVars>>

\* Mutant: the entity is not marked.
MarkNothing(u) ==
    /\ Goto(u, "mark", "fill")
    /\ entity' = [entity EXCEPT ![u] = First(1 .. Buffers \ occupied)]
    /\ lock' = "none"
    /\ UNCHANGED <<calm, msg, buffer, occupied, outVars, inVars>>

Mark(u) ==
    LET b == First(1 .. Buffers \ occupied) IN
    /\ Goto(u, "mark", "fill")
    /\ entity' = [entity EXCEPT ![u] = b]
    /\ occupied' = occupied \union {b}
    /\ lock' = "none"
    /\ UNCHANGED <<calm, msg, buffer, outVars, inVars>>

Fill(u) ==
    /\ Goto(u, "fill", "write")
    /\ buffer' = [buffer EXCEPT ![entity[u]] = msg[u]]
    /\ UNCHANGED <<calm, msg, entity, occupied, lock, outVars, inVars>>

\* A message that is too long for the buffer throws XTY_OUT_OF_BUFFER_RANGE, which
\* nobody catches.  The fields of DeReg are those of Reg: it fits if that has fitted,
\* that is, unless a signal has cut off Register.
FillThrows(u) ==
    /\ up /\ pc[u] = "fill"
    /\ msg[u] = DeReg => interrupted = "writing"
    /\ up' = FALSE
    /\ UNCHANGED <<pc, handler, pending, interrupted, serializerVars, outVars, inVars>>

\* send() blocks while the socket is full.  When the server has closed, the call
\* fails and is reported, or SIGPIPE, which nobody handles, ends the process.
Write(u) ==
    /\ Goto(u, "write", "release")
    /\ \/ /\ server = "open" /\ unread < SockBuf
          /\ wire' = Append(wire, buffer[entity[u]])
          /\ unread' = unread + 1
          /\ UNCHANGED up
       \/ /\ server = "closed"
          /\ up' \in BOOLEAN
          /\ UNCHANGED <<wire, unread>>
    /\ UNCHANGED <<handler, pending, interrupted, serializerVars, sendQueue, sent, server,
                   inVars>>

Release(u) ==
    /\ Goto(u, "release", "unmark")
    /\ lock = "none" /\ lock' = u
    /\ UNCHANGED <<calm, msg, buffer, entity, occupied, outVars, inVars>>

\* Mutant: the mutex is not released.
UnMarkNoUnLock(u) ==
    /\ Goto(u, "unmark", IF u = "send" THEN "pop"
                         ELSE IF msg[u] = Reg THEN "idle" ELSE "quitSend")
    /\ occupied' = occupied \ {entity[u]}
    /\ UNCHANGED <<calm, msg, buffer, entity, lock, outVars, inVars>>

\* The message is deleted and, at the end of DeRegister, the clean-up begins.
UnMark(u) ==
    /\ Goto(u, "unmark", IF u = "send" THEN "pop"
                         ELSE IF msg[u] = Reg THEN "idle" ELSE "quitSend")
    /\ occupied' = occupied \ {entity[u]}
    /\ lock' = "none"
    /\ UNCHANGED <<calm, msg, buffer, entity, outVars, inVars>>

(***************************************************************************)
(* The two threads                                                         *)
(***************************************************************************)
\* ThreadRunRoutine installs the handler, which is the whole process's, first.
Install(t) ==
    /\ t # "main"
    /\ Goto(t, "born", IF t = "send" THEN "pop" ELSE "read")
    /\ handler' = TRUE
    /\ UNCHANGED <<pending, interrupted, up, serializerVars, outVars, inVars>>

SendPop ==
    /\ Goto("send", "pop", "acquire")
    /\ sendQueue # << >>
    /\ msg' = [msg EXCEPT !["send"] = Head(sendQueue)]
    /\ sendQueue' = Tail(sendQueue)
    /\ UNCHANGED <<calm, buffer, entity, occupied, lock, sent, wire, unread, server, inVars>>

\* Mutant: the length is not compared with that of the first message.
RecvUnchecked ==
    /\ up /\ pc["recv"] = "read"
    /\ \E k \in 1 .. Len(stream), inside \in BOOLEAN :
          LET left == SubSeq(stream, k + 1, Len(stream))
              one == k = 1 /\ ~inside
          IN
          /\ one \/ mixed < MaxMixed
          /\ mixed' = IF one THEN mixed ELSE mixed + 1
          /\ stream' = IF inside THEN <<Rest>> \o left ELSE left
          /\ pc' = [pc EXCEPT !["recv"] = "deserialize"]
          /\ hand' = [hand EXCEPT !.read = Head(stream)]
    /\ UNCHANGED <<calm, serializerVars, outVars, served, content, lent, recvQueue, got>>

\* recv() takes what has arrived: k messages, the last one perhaps in part.  All
\* of it is dropped unless it is one message, as its length field says.
RecvBytes ==
    /\ up /\ pc["recv"] = "read"
    /\ \E k \in 1 .. Len(stream), inside \in BOOLEAN :
          LET left == SubSeq(stream, k + 1, Len(stream))
              one == k = 1 /\ ~inside
              whole == one /\ Head(stream) # Rest
          IN
          /\ one \/ mixed < MaxMixed
          /\ mixed' = IF one THEN mixed ELSE mixed + 1
          /\ stream' = IF inside THEN <<Rest>> \o left ELSE left
          /\ pc' = [pc EXCEPT !["recv"] = IF whole THEN "deserialize" ELSE "read"]
          /\ hand' = [hand EXCEPT !.read = IF whole THEN Head(stream) ELSE @]
    /\ UNCHANGED <<calm, serializerVars, outVars, served, content, lent, recvQueue, got>>

\* DeSerialize waits until an entity is free.
RecvDeSerialize ==
    LET e == First(1 .. Entities \ lent) IN
    /\ Goto("recv", "deserialize", "push")
    /\ lent # 1 .. Entities
    /\ lent' = lent \union {e}
    /\ content' = [content EXCEPT ![e] = hand.read]
    /\ hand' = [hand EXCEPT !.recv = e]
    /\ UNCHANGED <<calm, serializerVars, outVars, served, stream, mixed, recvQueue, got>>

RecvPush ==
    /\ Goto("recv", "push", "read")
    /\ recvQueue' = Append(recvQueue, hand.recv)
    /\ UNCHANGED <<calm, serializerVars, outVars, served, stream, mixed, content, lent,
                   hand, got>>

\* SIGQUIT reaches the thread at any step: its handler ends the thread, which
\* keeps what it holds.  Without a handler the signal ends the process.
Die(t) ==
    /\ up /\ t \in pending /\ pc[t] # "dead"
    /\ IF handler THEN pc' = [pc EXCEPT ![t] = "dead"] /\ UNCHANGED up
                  ELSE up' = FALSE /\ UNCHANGED pc
    /\ UNCHANGED <<handler, pending, interrupted, serializerVars, outVars, inVars>>

(***************************************************************************)
(* The callers                                                             *)
(***************************************************************************)
SendMsg ==
    /\ Goto("main", "idle", "idle")
    /\ sent < MaxSend
    /\ sent' = sent + 1
    /\ sendQueue' = Append(sendQueue, Data(sent + 1))
    /\ UNCHANGED <<calm, serializerVars, wire, unread, server, inVars>>

RecvMsg ==
    /\ Goto("main", "idle", "pop")
    /\ UNCHANGED <<calm, serializerVars, outVars, inVars>>

\* Mutant: the entity is released before its message is copied.
PopReleases ==
    /\ Goto("main", "pop", "copy")
    /\ recvQueue # << >>
    /\ hand' = [hand EXCEPT !.main = Head(recvQueue)]
    /\ lent' = lent \ {Head(recvQueue)}
    /\ recvQueue' = Tail(recvQueue)
    /\ UNCHANGED <<calm, serializerVars, outVars, served, stream, mixed, content, got>>

Pop ==
    /\ Goto("main", "pop", "copy")
    /\ recvQueue # << >>
    /\ hand' = [hand EXCEPT !.main = Head(recvQueue)]
    /\ recvQueue' = Tail(recvQueue)
    /\ UNCHANGED <<calm, serializerVars, outVars, served, stream, mixed, content, lent, got>>

Copy ==
    /\ Goto("main", "copy", "free")
    /\ got' = Append(got, content[hand.main])
    /\ UNCHANGED <<calm, serializerVars, outVars, served, stream, mixed, content, lent,
                   hand, recvQueue>>

\* Mutant: RecvMsg keeps the entity.
FreeNothing ==
    /\ Goto("main", "free", "idle")
    /\ UNCHANGED <<calm, serializerVars, outVars, inVars>>

\* ReleaseEntity.
Free ==
    /\ Goto("main", "free", "idle")
    /\ lent' = lent \ {hand.main}
    /\ UNCHANGED <<calm, serializerVars, outVars, served, stream, mixed, content, hand,
                   recvQueue, got>>

-----------------------------------------------------------------------------
(***************************************************************************)
(* Exit                                                                    *)
(***************************************************************************)
\* DeRegister first, on the caller's thread.
Exit ==
    /\ Goto("main", "idle", "acquire")
    /\ msg' = [msg EXCEPT !["main"] = DeReg]
    /\ UNCHANGED <<calm, buffer, entity, occupied, lock, outVars, inVars>>

\* Register and DeRegister while they have the serialize entity or its mutex, and
\* Exit since it has quit a thread.
Writing == {"mark", "fill", "write", "release", "unmark"}
Leaving == {"joinSend", "quitRecv", "joinRecv", "cleanUp", "cleaned"}

\* The SIGINT handler of the programs runs Exit on the main thread, on top of
\* the step it interrupts, and then ends the process: it comes once.  Between
\* Exit and the reset of the session's pointer it meets destroyed objects.
Interrupt ==
    /\ up /\ interrupted = "no" /\ pc["main"] # "ended"
    /\ interrupted' = CASE pc["main"] \in Writing -> "writing"
                         [] pc["main"] \in Leaving -> "leaving"
                         [] OTHER -> "other"
    /\ IF pc["main"] = "cleaned"
       THEN up' = FALSE /\ UNCHANGED <<pc, msg>>
       ELSE /\ pc' = [pc EXCEPT !["main"] = "acquire"]
            /\ msg' = [msg EXCEPT !["main"] = DeReg]
            /\ UNCHANGED up
    /\ UNCHANGED <<handler, pending, buffer, entity, occupied, lock, outVars, inVars>>

\* QuitNoDelay: pthread_kill, which for a thread that is gone fails and ends the
\* process, or worse; then pthread_join.
QuitNoDelay(t, from, to) ==
    /\ up /\ pc["main"] = from
    /\ IF pc[t] = "dead"
       THEN up' = FALSE /\ UNCHANGED <<pc, pending>>
       ELSE pc' = [pc EXCEPT !["main"] = to] /\ pending' = pending \union {t} /\ UNCHANGED up
    /\ UNCHANGED <<handler, interrupted, serializerVars, outVars, inVars>>

Join(t, from, to) ==
    /\ Goto("main", from, to)
    /\ pc[t] = "dead"
    /\ UNCHANGED <<calm, serializerVars, outVars, inVars>>

\* The destructors, and close().
CleanUp ==
    /\ Goto("main", "cleanUp", "cleaned")
    /\ UNCHANGED <<calm, serializerVars, outVars, inVars>>

Forget ==
    /\ Goto("main", "cleaned", "ended")
    /\ UNCHANGED <<calm, serializerVars, outVars, inVars>>

-----------------------------------------------------------------------------
(***************************************************************************)
(* The server                                                              *)
(***************************************************************************)
ServerRead ==
    /\ up /\ server = "open" /\ unread > 0
    /\ unread' = unread - 1
    /\ UNCHANGED <<processVars, serializerVars, sendQueue, sent, wire, server, inVars>>

\* The server writes to registered clients only.
ServerSend ==
    /\ up /\ server = "open" /\ Reg \in Range(wire) /\ served < MaxServe
    /\ served' = served + 1
    /\ stream' = Append(stream, served + 1)
    /\ UNCHANGED <<processVars, serializerVars, outVars, mixed, content, lent, hand,
                   recvQueue, got>>

ServerClose ==
    /\ up /\ server = "open"
    /\ server' = "closed"
    /\ UNCHANGED <<processVars, serializerVars, sendQueue, sent, wire, unread, inVars>>

-----------------------------------------------------------------------------
WriterStep(u) ==
    Acquire(u) \/ Mark(u) \/ Fill(u) \/ Write(u) \/ Release(u) \/ UnMark(u)

MainStep ==
    \/ WriterStep("main") \/ Pop \/ Copy \/ Free
    \/ QuitNoDelay("send", "quitSend", "joinSend") \/ Join("send", "joinSend", "quitRecv")
    \/ QuitNoDelay("recv", "quitRecv", "joinRecv") \/ Join("recv", "joinRecv", "cleanUp")
    \/ CleanUp \/ Forget \/ FillThrows("main")

SendStep == Install("send") \/ SendPop \/ WriterStep("send") \/ FillThrows("send")

RecvStep == Install("recv") \/ RecvBytes \/ RecvDeSerialize \/ RecvPush

Call == SendMsg \/ RecvMsg \/ Exit

Server == ServerRead \/ ServerSend \/ ServerClose

Next ==
    \/ MainStep \/ SendStep \/ RecvStep
    \/ \E t \in {"send", "recv"} : Die(t)
    \/ Call \/ Interrupt \/ Server

SafeSpec == Init /\ [][Next]_vars

\* Threads that can run do, a signal that was sent arrives, and the mutex, which
\* is contended by finitely many messages, is won in the end.  The callers and
\* the server owe nothing.
Fairness ==
    /\ WF_vars(MainStep) /\ WF_vars(SendStep) /\ WF_vars(RecvStep)
    /\ \A t \in {"send", "recv"} : WF_vars(Die(t))

Spec == SafeSpec /\ Fairness

-----------------------------------------------------------------------------
(***************************************************************************)
(* Properties                                                              *)
(***************************************************************************)
TypeOK ==
    /\ pc["main"] \in Writing \union Leaving
                       \union {"acquire", "idle", "pop", "copy", "free", "quitSend", "ended"}
    /\ pc["send"] \in Writing \union {"born", "pop", "acquire", "dead"}
    /\ pc["recv"] \in {"born", "read", "deserialize", "push", "dead"}
    /\ handler \in BOOLEAN /\ up \in BOOLEAN
    /\ interrupted \in {"no", "writing", "leaving", "other"} /\ pending \subseteq {"send", "recv"}
    /\ msg \in [Writers -> Message] /\ buffer \in [1 .. Buffers -> Message]
    /\ entity \in [Writers -> 0 .. Buffers] /\ occupied \subseteq 1 .. Buffers
    /\ lock \in Writers \union {"none"}
    /\ sendQueue \in Seq(Message) /\ sent \in 0 .. MaxSend
    /\ wire \in Seq(Message) /\ unread \in 0 .. SockBuf
    /\ server \in {"open", "closed"} /\ served \in 0 .. MaxServe
    /\ stream \in Seq(0 .. MaxServe) /\ mixed \in 0 .. MaxMixed
    /\ content \in [1 .. Entities -> 0 .. MaxServe] /\ lent \subseteq 1 .. Entities
    /\ hand.main \in 0 .. Entities /\ hand.recv \in 0 .. Entities
    /\ hand.read \in 0 .. MaxServe
    /\ recvQueue \in Seq(1 .. Entities) /\ got \in Seq(1 .. MaxServe)

\* Which entries of the wire are data messages.
Written(w) == {i \in DOMAIN w : w[i].kind = "data"}

\* The server is sent the messages in the order of the calls of SendMsg, each
\* once, although the main thread writes to the same socket and the same entity;
\* while the send thread lives, what was not written is in its hands or queued.
\* The registration comes first and the deregistration once, but for a signal.
SentInOrder ==
    LET carried == pc["send"] \in {"acquire", "mark", "fill", "write"}
        closing == {i \in DOMAIN wire : wire[i] = DeReg}
    IN  /\ \A i \in Written(wire) :
              wire[i].n = Cardinality({j \in Written(wire) : j <= i})
        /\ server = "open" /\ pc["send"] # "dead" =>
              Cardinality(Written(wire)) + (IF carried THEN 1 ELSE 0) + Len(sendQueue) = sent
        /\ \A i \in DOMAIN wire : wire[i] = Reg => i = 1
        /\ interrupted = "no" => Cardinality(closing) <= 1

\* From the caller to the server: what RecvMsg returned, what it copies, what is
\* queued, what recv has, what it can still read.
Line ==
    LET queued == [i \in DOMAIN recvQueue |-> content[recvQueue[i]]] IN
    got \o (IF pc["main"] = "copy" THEN <<content[hand.main]>> ELSE << >>)
        \o queued
        \o (IF pc["recv"] = "push" THEN <<content[hand.recv]>> ELSE << >>)
        \o (IF pc["recv"] = "deserialize" THEN <<hand.read>> ELSE << >>)
        \o stream

\* RecvMsg returns the server's messages in order, none of them twice or changed
\* before it is copied.  None is lost as long as every receive is of exactly one.
ReceivedInOrder ==
    /\ \A i, j \in DOMAIN Line : i < j /\ Line[j] # Rest => Line[i] < Line[j]
    /\ mixed = 0 /\ interrupted = "no" /\ pc["recv"] # "dead" => Len(Line) = served

Pointers ==
    recvQueue \o (IF pc["main"] \in {"copy", "free"} THEN <<hand.main>> ELSE << >>)
              \o (IF pc["recv"] = "push" THEN <<hand.recv>> ELSE << >>)

\* The session's deserializer, unlike the server's, leaks nothing: what is torn
\* is dropped before it takes an entity, so an occupied entity is that of a
\* message on its way, and of one only.
EntitiesAreAccounted ==
    /\ IsInjective(Pointers) /\ Range(Pointers) \subseteq lent
    /\ interrupted = "no" /\ pc["recv"] # "dead" => lent = Range(Pointers)

\* The process ends by itself only if a thread was quit before one of the two had
\* installed its handler, if a message does not fit its buffer, if the server has
\* closed, or in a second Exit that meets what the first one has quit.
EndedForAReason ==
    ~up => \/ ~handler \/ server = "closed" \/ interrupted = "leaving"
           \/ \E u \in Writers : pc[u] = "fill"

\* Exit ends, if the server reads: though the only serialize entity and its mutex
\* are shared with the send thread, and that is quit at any step.  The exceptions
\* are a signal while Register or DeRegister holds them, and one after the first
\* Exit has begun to quit the threads.
ExitEnds ==
    []<>(unread < SockBuf \/ server = "closed") =>
        (pc["main"] = "acquire" /\ msg["main"] = DeReg ~>
            \/ pc["main"] = "ended"
            \/ ~up /\ EndedForAReason
            \/ interrupted \in {"writing", "leaving"})

\* RecvMsg returns as long as something for it has arrived, in the queue, in the hands
\* of the receive thread or in the socket, and whether or not the server has closed;
\* the exception is what is dropped because it was not received alone.  With nothing on
\* its way the caller waits, after the end of the stream for ever: the thread then reads
\* zero bytes and logs it, round after round, and nobody tells the caller.
RecvMsgReturns ==
    LET arrived == \E i \in DOMAIN Line : i > Len(got) /\ Line[i] # Rest IN
    pc["main"] = "pop" /\ arrived ~> pc["main"] # "pop" \/ ~arrived \/ ~up
=============================================================================
