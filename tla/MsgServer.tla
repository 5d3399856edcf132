----------------------------- MODULE MsgServer -----------------------------
(***************************************************************************)
(* xtyMsgServer: three threads around one table of clients.                *)
(*                                                                         *)
(*   epoll thread  accepts connections, reads and deserializes messages,   *)
(*                 removes a client on end of file;                        *)
(*   loop thread   runs the call-back of each message: register and        *)
(*                 deregister write the table, data goes to the send queue;*)
(*   send thread   looks the addressee of each data message up in the      *)
(*                 table and forwards the message.                         *)
(*                                                                         *)
(* The two queues are the FIFO of MsgChannel and the deserializer is the   *)
(* pool of EntityPool, each operation in one step.  What travels through   *)
(* the queues is a pointer into an entity, so a message is its entity: the *)
(* content stays what it is only until the entity is acquired again.       *)
(*                                                                         *)
(* A client is one session of a process: its ip:port, which is the key of  *)
(* the table, its connection, and the process name (with the ip) that it   *)
(* registers.  An address may be used again when its connection is closed. *)
(***************************************************************************)
EXTENDS Naturals, Sequences, FiniteSets, Functions

CONSTANTS Clients,      \* the sessions
          Names,        \* process names (with their ip)
          NameOf,       \* NameOf[c]: the name c registers
          TotalEntity,  \* XTY_SERVER_DESERIALIZE_ENTITY_NUM
          MaxClients,   \* XTY_EPOLL_MAX_EVENTS
          MaxData,      \* bound: how many data messages each session sends
          MaxTear,      \* bound: how many reads of each address end inside a message
          MaxReuse,     \* bound: how many more sessions take each address
          SockBuf,      \* how many messages a client's socket buffers
          NoClient

Entities == 1 .. TotalEntity

ASSUME ServerAssumption ==
    /\ NameOf \in [Clients -> Names]
    /\ TotalEntity \in Nat \ {0} /\ MaxClients \in Nat \ {0}
    /\ MaxData \in [Clients -> Nat] /\ MaxTear \in [Clients -> Nat]
    /\ MaxReuse \in [Clients -> Nat] /\ SockBuf \in Nat

VARIABLES
    client,    \* client[c]: "off", "on" or "left", the session's process
    stage,     \* stage[c]: "new", "registered" or "deregistered", as c sees it
    sentData,  \* sentData[c]: how many data messages c has sent
    stream,    \* stream[c]: what the server can still read from c
    inbox,     \* inbox[c]: the data messages the server has sent to c
    cut,       \* the clients that were sent a part of a message
    fd,        \* fd[c]: "none", "open" or "closed", the server's end
    table,     \* m_ActiveClientTable: what is at the key of c
    content,   \* content[e]: the message in entity e
    occupied,  \* the entities with m_IsOccupied set
    recvQueue, \* m_pRecvMsgQueue
    sendQueue, \* m_pSendMsgQueue
    epoll,     \* the epoll thread: its next step, its event, its message
    loop,      \* the loop thread
    send,      \* the send thread
    tears,     \* tears[c]: how many reads from c have ended inside a message
    reuses,    \* reuses[c]: how many sessions have taken the address after the first
    up         \* FALSE once the server's process has ended

clientVars == <<client, stage, sentData>>
poolVars == <<content, occupied>>
vars == <<clientVars, stream, inbox, cut, fd, table, poolVars, recvQueue, sendQueue,
          epoll, loop, send, tears, reuses, up>>

-----------------------------------------------------------------------------
RegMsg(c) == [kind |-> "reg", from |-> c]
DeRegMsg(c) == [kind |-> "dereg", from |-> c]
DataMsg(c, to, n) == [kind |-> "data", from |-> c, to |-> to, n |-> n]

\* The beginning of a message, whose type is right and whose fields end too early;
\* and the rest of it, which the next read takes for a message of its own.
Torn == [kind |-> "torn"]
Rest == [kind |-> "rest"]
Dull == [kind |-> "dull"]
Quit == [kind |-> "quit"]

\* What DeSerialize makes of the bytes.  It takes the first four for the type,
\* whatever they are: the rest of a message may fail to decode like a torn one,
\* or pass for one of the two messages that have no fields.
Decoded(m) == IF m = Rest THEN {Torn, Dull, Quit} ELSE {m}

Data == UNION {{DataMsg(c, to, n) : to \in Names, n \in 1 .. MaxData[c]} : c \in Clients}
Message == {RegMsg(c) : c \in Clients} \union {DeRegMsg(c) : c \in Clients} \union Data
Bytes == Message \union {Torn, Rest}

\* A key of the table is absent, holds a null pointer, or an xtyClientEntity
\* with no name yet, with the client's name, or marked as logged out.
Entity == {"unnamed", "named", "loggedOut"}
Keys == {c \in Clients : table[c] # "absent"}

\* Mutant: the send thread walks the table without the mutex.
NeverLocked == TRUE

\* The table's mutex is held across steps only by the send thread.
TableFree == send.at \notin {"visit", "release"}

\* What a thread has in its local variables between two iterations: nothing.
EpollIdle == [at |-> "wait", c |-> NoClient, msg |-> Torn, e |-> 0]
LoopIdle == [at |-> "get", e |-> 0]
SendIdle == [at |-> "get", e |-> 0, msg |-> Torn, todo |-> {}]

First(S) == CHOOSE e \in S : \A d \in S : e <= d

Init ==
    /\ client = [c \in Clients |-> "off"]
    /\ stage = [c \in Clients |-> "new"]
    /\ sentData = [c \in Clients |-> 0]
    /\ stream = [c \in Clients |-> << >>]
    /\ inbox = [c \in Clients |-> << >>]
    /\ cut = {}
    /\ fd = [c \in Clients |-> "none"]
    /\ table = [c \in Clients |-> "absent"]
    /\ content = [e \in Entities |-> Torn]
    /\ occupied = {}
    /\ recvQueue = << >>
    /\ sendQueue = << >>
    /\ epoll = EpollIdle
    /\ loop = LoopIdle
    /\ send = SendIdle
    /\ tears = [c \in Clients |-> 0]
    /\ reuses = [c \in Clients |-> 0]
    /\ up = TRUE

-----------------------------------------------------------------------------
(***************************************************************************)
(* The sessions, as far as the server sees them                            *)
(***************************************************************************)
serverVars == <<fd, table, poolVars, recvQueue, sendQueue, epoll, loop, send, tears, reuses, up>>

Connect(c) ==
    /\ client[c] = "off"
    /\ client' = [client EXCEPT ![c] = "on"]
    /\ UNCHANGED <<stage, sentData, stream, inbox, cut, serverVars>>

\* A session at the address of one whose connection the server has closed; what
\* that one sent may still be on its way to the table.
ReConnect(c) ==
    /\ client[c] = "left" /\ fd[c] = "closed" /\ reuses[c] < MaxReuse[c]
    /\ reuses' = [reuses EXCEPT ![c] = @ + 1]
    /\ client' = [client EXCEPT ![c] = "on"]
    /\ stage' = [stage EXCEPT ![c] = "new"]
    /\ stream' = [stream EXCEPT ![c] = << >>]
    /\ inbox' = [inbox EXCEPT ![c] = << >>]
    /\ cut' = cut \ {c}
    /\ fd' = [fd EXCEPT ![c] = "none"]
    /\ UNCHANGED <<sentData, table, poolVars, recvQueue, sendQueue, epoll, loop, send,
                   tears, up>>

\* What a session writes reaches the server unless the server has closed.
Write(c, m) == stream' = IF fd[c] = "closed" THEN stream
                         ELSE [stream EXCEPT ![c] = Append(@, m)]

Register(c) ==
    /\ client[c] = "on" /\ stage[c] = "new"
    /\ stage' = [stage EXCEPT ![c] = "registered"]
    /\ Write(c, RegMsg(c))
    /\ UNCHANGED <<client, sentData, inbox, cut, serverVars>>

\* The session's send thread may still run while Exit deregisters.
SendData(c, to) ==
    /\ client[c] = "on" /\ stage[c] # "new"
    /\ sentData[c] < MaxData[c]
    /\ sentData' = [sentData EXCEPT ![c] = @ + 1]
    /\ Write(c, DataMsg(c, to, sentData[c] + 1))
    /\ UNCHANGED <<client, stage, inbox, cut, serverVars>>

DeRegister(c) ==
    /\ client[c] = "on" /\ stage[c] = "registered"
    /\ stage' = [stage EXCEPT ![c] = "deregistered"]
    /\ Write(c, DeRegMsg(c))
    /\ UNCHANGED <<client, sentData, inbox, cut, serverVars>>

\* The process closes its socket, or ends, at any time.
Leave(c) ==
    /\ client[c] = "on"
    /\ client' = [client EXCEPT ![c] = "left"]
    /\ UNCHANGED <<stage, sentData, stream, inbox, cut, serverVars>>

-----------------------------------------------------------------------------
(***************************************************************************)
(* The epoll thread                                                        *)
(***************************************************************************)
\* The size is read without the lock, before the entity is made.
EpollAccept(c) ==
    /\ up /\ epoll.at = "wait" /\ client[c] # "off" /\ fd[c] = "none"
    /\ IF Cardinality(Keys) >= MaxClients
       THEN fd' = [fd EXCEPT ![c] = "closed"] /\ UNCHANGED epoll
       ELSE epoll' = [epoll EXCEPT !.at = "insert", !.c = c] /\ UNCHANGED fd
    /\ UNCHANGED <<clientVars, stream, inbox, cut, table, poolVars, recvQueue, sendQueue,
                   loop, send, tears, reuses, up>>

EpollInsert ==
    /\ up /\ epoll.at = "insert" /\ TableFree
    /\ table' = [table EXCEPT ![epoll.c] = "unnamed"]
    /\ fd' = [fd EXCEPT ![epoll.c] = "open"]
    /\ epoll' = EpollIdle
    /\ UNCHANGED <<clientVars, stream, inbox, cut, poolVars, recvQueue, sendQueue,
                   loop, send, tears, reuses, up>>

\* Mutant: only clients that have a name are found.
EpollFindNamed(c) ==
    /\ up /\ epoll.at = "wait" /\ TableFree
    /\ fd[c] = "open" /\ (stream[c] # << >> \/ client[c] = "left")
    /\ table[c] = "named"
    /\ epoll' = [epoll EXCEPT !.at = "read", !.c = c]
    /\ UNCHANGED <<clientVars, stream, inbox, cut, fd, table, poolVars, recvQueue, sendQueue,
                   loop, send, tears, reuses, up>>

\* The entity is looked up by its fd under the lock; its buffer is used after.
EpollFind(c) ==
    /\ up /\ epoll.at = "wait" /\ TableFree
    /\ fd[c] = "open" /\ (stream[c] # << >> \/ client[c] = "left")
    /\ table[c] \in Entity
    /\ epoll' = [epoll EXCEPT !.at = "read", !.c = c]
    /\ UNCHANGED <<clientVars, stream, inbox, cut, fd, table, poolVars, recvQueue, sendQueue,
                   loop, send, tears, reuses, up>>

EpollEOF ==
    /\ up /\ epoll.at = "read" /\ stream[epoll.c] = << >>
    /\ fd' = [fd EXCEPT ![epoll.c] = "closed"]
    /\ epoll' = [epoll EXCEPT !.at = "remove"]
    /\ UNCHANGED <<clientVars, stream, inbox, cut, table, poolVars, recvQueue, sendQueue,
                   loop, send, tears, reuses, up>>

EpollRemove ==
    /\ up /\ epoll.at = "remove" /\ TableFree
    /\ table' = [table EXCEPT ![epoll.c] = "absent"]
    /\ epoll' = EpollIdle
    /\ UNCHANGED <<clientVars, stream, inbox, cut, fd, poolVars, recvQueue, sendQueue,
                   loop, send, tears, reuses, up>>

\* read() takes n messages of what has arrived, the last of them perhaps only in
\* part.  The first one is deserialized; the others are gone when the buffer is
\* cleared before the next read.
EpollRead ==
    /\ up /\ epoll.at = "read"
    /\ \E n \in 1 .. Len(stream[epoll.c]), inside \in BOOLEAN :
          LET rest == SubSeq(stream[epoll.c], n + 1, Len(stream[epoll.c])) IN
          /\ inside => tears[epoll.c] < MaxTear[epoll.c]
          /\ tears' = IF inside THEN [tears EXCEPT ![epoll.c] = @ + 1] ELSE tears
          /\ stream' = [stream EXCEPT ![epoll.c] =
                             IF inside THEN <<Rest>> \o rest ELSE rest]
          /\ epoll' = [epoll EXCEPT !.at = "acquire",
                            !.msg = IF inside /\ n = 1 THEN Torn ELSE Head(stream[epoll.c])]
    /\ UNCHANGED <<clientVars, inbox, cut, fd, table, poolVars, recvQueue, sendQueue,
                   loop, send, reuses, up>>

\* DeSerialize blocks until an entity is free; whatever it held is deleted.  When
\* it throws, the handler only reports, and the entity stays occupied.
EpollDeSerialize ==
    /\ up /\ epoll.at = "acquire"
    /\ occupied # Entities
    /\ \E m \in Decoded(epoll.msg) :
          LET e == First(Entities \ occupied) IN
          /\ occupied' = occupied \union {e}
          /\ content' = [content EXCEPT ![e] = m]
          /\ epoll' = IF m = Torn THEN EpollIdle ELSE [epoll EXCEPT !.at = "push", !.e = e]
    /\ UNCHANGED <<clientVars, stream, inbox, cut, fd, table, recvQueue, sendQueue,
                   loop, send, tears, reuses, up>>

\* The server's process ends: accept() or read() fails because the peer is gone
\* and the thread calls exit(-1), or the type of a rest is past the end of
\* xtyCreateMsgFunArray.
EpollExit ==
    /\ up
    /\ \/ epoll.at = "wait" /\ \E c \in Clients : client[c] = "left" /\ fd[c] = "none"
       \/ epoll.at = "read" /\ client[epoll.c] = "left"
       \/ epoll.at = "acquire" /\ epoll.msg = Rest /\ occupied # Entities
    /\ up' = FALSE
    /\ UNCHANGED <<clientVars, stream, inbox, cut, fd, table, poolVars, recvQueue, sendQueue,
                   epoll, loop, send, tears, reuses>>

\* Mutant: the message goes to the front of the queue.
EpollPushFront ==
    /\ up /\ epoll.at = "push"
    /\ recvQueue' = <<epoll.e>> \o recvQueue
    /\ epoll' = EpollIdle
    /\ UNCHANGED <<clientVars, stream, inbox, cut, fd, table, poolVars, sendQueue,
                   loop, send, tears, reuses, up>>

EpollPush ==
    /\ up /\ epoll.at = "push"
    /\ recvQueue' = Append(recvQueue, epoll.e)
    /\ epoll' = EpollIdle
    /\ UNCHANGED <<clientVars, stream, inbox, cut, fd, table, poolVars, sendQueue,
                   loop, send, tears, reuses, up>>

-----------------------------------------------------------------------------
(***************************************************************************)
(* The loop thread                                                         *)
(***************************************************************************)
LoopGet ==
    /\ up /\ loop.at = "get" /\ recvQueue # << >>
    /\ loop' = [at |-> "handle", e |-> Head(recvQueue)]
    /\ recvQueue' = Tail(recvQueue)
    /\ UNCHANGED <<clientVars, stream, inbox, cut, fd, table, poolVars, sendQueue,
                   epoll, send, tears, reuses, up>>

\* Mutant: a key that is not in the table gets an entity.
WriteNameAlways(c, name) ==
    /\ TableFree
    /\ table' = [table EXCEPT ![c] = name]
    /\ loop' = [loop EXCEPT !.at = "release"]

\* Mutant: an entity that is marked keeps its mark.
WriteNameOnce(c, name) ==
    /\ TableFree
    /\ table' = [table EXCEPT ![c] = IF @ = "loggedOut" THEN @
                                      ELSE IF @ \in Entity THEN name ELSE "null"]
    /\ loop' = [loop EXCEPT !.at = "release"]

\* m_ActiveClientTable[UserIPPort] puts a null pointer under a key that is not
\* in the table; a client entity gets the given name.
WriteName(c, name) ==
    /\ TableFree
    /\ table' = [table EXCEPT ![c] = IF @ \in Entity THEN name ELSE "null"]
    /\ loop' = [loop EXCEPT !.at = "release"]

HandleRegMsg ==
    /\ up /\ loop.at = "handle" /\ content[loop.e].kind = "reg"
    /\ WriteName(content[loop.e].from, "named")
    /\ UNCHANGED <<clientVars, stream, inbox, cut, fd, poolVars, recvQueue, sendQueue,
                   epoll, send, tears, reuses, up>>

HandleDeRegMsg ==
    /\ up /\ loop.at = "handle" /\ content[loop.e].kind = "dereg"
    /\ WriteName(content[loop.e].from, "loggedOut")
    /\ UNCHANGED <<clientVars, stream, inbox, cut, fd, poolVars, recvQueue, sendQueue,
                   epoll, send, tears, reuses, up>>

LoopRelease ==
    /\ up /\ loop.at = "release"
    /\ occupied' = occupied \ {loop.e}
    /\ loop' = LoopIdle
    /\ UNCHANGED <<clientVars, stream, inbox, cut, fd, table, content, recvQueue, sendQueue,
                   epoll, send, tears, reuses, up>>

\* Mutant: the loop thread releases every message, those it forwards too.
HandleDataMsgReleases ==
    /\ up /\ loop.at = "handle" /\ content[loop.e].kind = "data"
    /\ sendQueue' = Append(sendQueue, loop.e)
    /\ loop' = [loop EXCEPT !.at = "release"]
    /\ UNCHANGED <<clientVars, stream, inbox, cut, fd, table, poolVars, recvQueue,
                   epoll, send, tears, reuses, up>>

HandleDataMsg ==
    /\ up /\ loop.at = "handle" /\ content[loop.e].kind = "data"
    /\ sendQueue' = Append(sendQueue, loop.e)
    /\ loop' = LoopIdle
    /\ UNCHANGED <<clientVars, stream, inbox, cut, fd, table, poolVars, recvQueue,
                   epoll, send, tears, reuses, up>>

\* The call-backs of the two messages without fields release nothing; the second
\* one ends the loop, and with it the thread.
HandleDullMsg ==
    /\ up /\ loop.at = "handle" /\ content[loop.e].kind = "dull"
    /\ loop' = LoopIdle
    /\ UNCHANGED <<clientVars, stream, inbox, cut, fd, table, poolVars, recvQueue, sendQueue,
                   epoll, send, tears, reuses, up>>

HandleQuitMsg ==
    /\ up /\ loop.at = "handle" /\ content[loop.e].kind = "quit"
    /\ loop' = [at |-> "quit", e |-> 0]
    /\ UNCHANGED <<clientVars, stream, inbox, cut, fd, table, poolVars, recvQueue, sendQueue,
                   epoll, send, tears, reuses, up>>

-----------------------------------------------------------------------------
(***************************************************************************)
(* The send thread                                                         *)
(***************************************************************************)
\* Mutant: the message goes to the address it came from.
SendGetSender ==
    /\ up /\ send.at = "get" /\ sendQueue # << >>
    /\ content[Head(sendQueue)].kind = "data"
    /\ send' = [at |-> "lock", e |-> Head(sendQueue),
                msg |-> [content[Head(sendQueue)] EXCEPT !.to = content[Head(sendQueue)].from],
                todo |-> {}]
    /\ sendQueue' = Tail(sendQueue)
    /\ UNCHANGED <<clientVars, stream, inbox, cut, fd, table, poolVars, recvQueue,
                   epoll, loop, tears, reuses, up>>

\* The addressee is copied out of the message before the lock is taken.  On a message
\* that is not data the cast gives a null pointer, and the copy ends the process.
SendGet ==
    /\ up /\ send.at = "get" /\ sendQueue # << >>
    /\ IF content[Head(sendQueue)].kind = "data"
       THEN /\ send' = [at |-> "lock", e |-> Head(sendQueue),
                        msg |-> content[Head(sendQueue)], todo |-> {}]
            /\ sendQueue' = Tail(sendQueue)
            /\ UNCHANGED up
       ELSE up' = FALSE /\ UNCHANGED <<send, sendQueue>>
    /\ UNCHANGED <<clientVars, stream, inbox, cut, fd, table, poolVars, recvQueue,
                   epoll, loop, tears, reuses>>

\* The scan of the table under the lock: todo are the entries still to come
\* whose name is the addressee; null entries are skipped.
SendLock ==
    /\ up /\ send.at = "lock"
    /\ send' = [send EXCEPT !.at = "visit",
                    !.todo = {c \in Clients : table[c] = "named" /\ NameOf[c] = send.msg.to}]
    /\ UNCHANGED <<clientVars, stream, inbox, cut, fd, table, poolVars, recvQueue, sendQueue,
                   epoll, loop, tears, reuses, up>>

\* What send() on a non-blocking socket does to an open connection: the message is
\* delivered; or, at the end of the buffer, a part of it, which the test for an error
\* takes for success; or nothing, which is reported.
Transmit(c) ==
    \/ Len(inbox[c]) < SockBuf /\ inbox' = [inbox EXCEPT ![c] = Append(@, content[send.e])]
       /\ UNCHANGED cut
    \/ Len(inbox[c]) + 1 >= SockBuf /\ cut' = cut \union {c} /\ UNCHANGED inbox
    \/ Len(inbox[c]) >= SockBuf /\ UNCHANGED <<inbox, cut>>

\* When the connection is gone the error is reported; on one that the peer has
\* closed the call may raise SIGPIPE, which nobody handles.
SendTo(c) ==
    /\ up /\ send.at = "visit" /\ c \in send.todo
    /\ send' = [send EXCEPT !.at = "release", !.todo = @ \ {c}]
    /\ IF client[c] = "on" /\ fd[c] = "open" THEN Transmit(c) ELSE UNCHANGED <<inbox, cut>>
    /\ \/ UNCHANGED up
       \/ client[c] = "left" /\ fd[c] = "open" /\ up' = FALSE
    /\ UNCHANGED <<clientVars, stream, fd, table, poolVars, recvQueue, sendQueue,
                   epoll, loop, tears, reuses>>

\* ReleaseEntity(pSendMsg) is inside the loop over the table.  If the entity was
\* filled again meanwhile, its message may be at the old address or at another.
SendRelease ==
    /\ up /\ send.at = "release"
    /\ \/ occupied' = occupied \ {send.e}
       \/ content[send.e] # send.msg /\ UNCHANGED occupied
    /\ send' = [send EXCEPT !.at = "visit"]
    /\ UNCHANGED <<clientVars, stream, inbox, cut, fd, table, content, recvQueue, sendQueue,
                   epoll, loop, tears, reuses, up>>

\* The end of the scan.  If nobody matched, nobody has released the message.
SendUnLock ==
    /\ up /\ send.at = "visit" /\ send.todo = {}
    /\ send' = SendIdle
    /\ UNCHANGED <<clientVars, stream, inbox, cut, fd, table, poolVars, recvQueue, sendQueue,
                   epoll, loop, tears, reuses, up>>

-----------------------------------------------------------------------------
ClientStep(c) ==
    \/ Connect(c) \/ ReConnect(c) \/ Register(c) \/ DeRegister(c) \/ Leave(c)
    \/ \E to \in Names : SendData(c, to)

EpollStep ==
    \/ \E c \in Clients : EpollAccept(c) \/ EpollFind(c)
    \/ EpollInsert \/ EpollEOF \/ EpollRemove \/ EpollRead
    \/ EpollDeSerialize \/ EpollPush \/ EpollExit

LoopStep ==
    \/ LoopGet \/ HandleRegMsg \/ HandleDeRegMsg \/ LoopRelease \/ HandleDataMsg
    \/ HandleDullMsg \/ HandleQuitMsg

SendStep ==
    \/ SendGet \/ SendLock \/ SendRelease \/ SendUnLock
    \/ \E c \in Clients : SendTo(c)

Next ==
    \/ \E c \in Clients : ClientStep(c)
    \/ EpollStep \/ LoopStep \/ SendStep

SafeSpec == Init /\ [][Next]_vars

\* The three threads run whenever they can; the clients owe nothing.
Fairness ==
    /\ WF_vars(EpollStep)
    /\ WF_vars(LoopStep)
    /\ WF_vars(SendStep)

Spec == SafeSpec /\ Fairness

-----------------------------------------------------------------------------
(***************************************************************************)
(* Properties                                                              *)
(***************************************************************************)
TypeOK ==
    /\ client \in [Clients -> {"off", "on", "left"}]
    /\ stage \in [Clients -> {"new", "registered", "deregistered"}]
    /\ \A c \in Clients : /\ sentData[c] \in 0 .. MaxData[c]
                          /\ tears[c] \in 0 .. MaxTear[c] /\ reuses[c] \in 0 .. MaxReuse[c]
    /\ stream \in [Clients -> Seq(Bytes)]
    /\ inbox \in [Clients -> Seq(Message)] /\ cut \subseteq Clients
    /\ fd \in [Clients -> {"none", "open", "closed"}]
    /\ table \in [Clients -> Entity \union {"absent", "null"}]
    /\ content \in [Entities -> Message \union {Torn, Dull, Quit}]
    /\ occupied \subseteq Entities
    /\ recvQueue \in Seq(Entities) /\ sendQueue \in Seq(Entities)
    /\ epoll.at \in {"wait", "insert", "read", "acquire", "push", "remove"}
    /\ epoll.c \in Clients \union {NoClient} /\ epoll.msg \in Bytes
    /\ loop.at \in {"get", "handle", "release", "quit"}
    /\ send.at \in {"get", "lock", "visit", "release"}
    /\ send.e \in Entities \union {0} /\ send.msg \in Data \union {Torn}
    /\ send.todo \subseteq Clients
    /\ up \in BOOLEAN

\* The pointers to messages that somebody will still follow: the send thread
\* follows its own until the scan of the table has no match left.
Pointers ==
    recvQueue \o sendQueue
    \o (IF epoll.at = "push" THEN <<epoll.e>> ELSE << >>)
    \o (IF loop.at \in {"handle", "release"} THEN <<loop.e>> ELSE << >>)
    \o (IF send.at \in {"lock", "release"} \/ send.todo # {} THEN <<send.e>> ELSE << >>)

\* A message travels by pointer through two queues and three threads.  At most
\* one of them has it, and as long as one has it its entity is not handed out
\* again: nobody reads a message that was deleted or replaced.  It holds as long
\* as no two clients register the same name.
EntityHasOneOwner == IsInjective(Pointers) /\ Range(Pointers) \subseteq occupied

\* The entities no thread can release any more.
Leaked == occupied \ Range(Pointers)

\* The table and the connections tell the same story although the socket is
\* closed before the lock is taken and the loop thread inserts keys of its own:
\* an open connection has its entity, an entity its connection, and a null
\* entry is left of a connection that is gone.  So nobody deletes the entity
\* whose buffer the epoll thread reads into without the lock, nor one that the
\* send thread's walk has still to come to.
TableMatchesConnections ==
    \A c \in Clients :
        /\ fd[c] = "open" => table[c] \in Entity
        /\ table[c] \in Entity =>
               fd[c] = "open" \/ (epoll.at = "remove" /\ epoll.c = c)
        /\ table[c] = "null" => fd[c] # "open"
        /\ epoll.at = "read" /\ epoll.c = c => table[c] \in Entity
        /\ send.at \in {"visit", "release"} /\ c \in send.todo => table[c] = "named"

\* What a client receives whole was addressed to it, and the messages of one sender
\* arrive in the order they were sent, none of them twice.
DeliveredInOrder ==
    \A c \in Clients :
        /\ \A i \in DOMAIN inbox[c] : inbox[c][i].kind = "data" /\ inbox[c][i].to = NameOf[c]
        /\ \A i, j \in DOMAIN inbox[c] :
              i < j /\ inbox[c][i].from = inbox[c][j].from => inbox[c][i].n < inbox[c][j].n

\* xty_msg_server_send_job.cpp:23: "have to make sure that send-queue contains
\* 'xtyDataMsg' only".
SendQueueHasDataOnly ==
    \A i \in DOMAIN sendQueue : content[sendQueue[i]].kind = "data"

\* The registrations and deregistrations of an address that the loop thread has
\* still to handle.
UnderWay(c) ==
    LET queued == {content[e] : e \in Range(recvQueue)}
        handled == IF loop.at = "handle" THEN {content[loop.e]} ELSE {}
        read == IF epoll.at \in {"acquire", "push"} THEN {epoll.msg} ELSE {}
    IN  (queued \union handled \union read \union Range(stream[c]))
           \intersect {RegMsg(c), DeRegMsg(c)}

\* A client that has registered is named in the table once its registration is
\* handled, whatever an earlier session at the same address has left under way:
\* that session's late deregistration may mark the entry, but never last.
RegistrationSettles ==
    \A c \in Clients :
        fd[c] = "open" /\ stage[c] = "registered" /\ UnderWay(c) = {}
        /\ tears[c] = 0 =>
            table[c] = "named"

\* A client that has logged out is not brought back by an older message: its
\* entry is marked until the connection ends, unless the address is used again.
LogOutIsFinal ==
    [][\A c \in Clients :
          table[c] = "loggedOut" /\ reuses[c] = 0 => table'[c] \in {"loggedOut", "absent"}]_vars

\* The server stops taking messages off its connections only when every entity
\* has leaked, to messages that nobody was registered for or that were torn, or
\* when the rest of a torn message has passed for the one that ends the loop.
ReadsGoOn ==
    \A c \in Clients :
        fd[c] = "open" /\ stream[c] # << >> ~>
            stream[c] = << >> \/ Leaked = Entities \/ loop.at = "quit" \/ ~up

=============================================================================
