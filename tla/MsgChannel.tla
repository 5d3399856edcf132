----------------------------- MODULE MsgChannel -----------------------------
(***************************************************************************)
(* What a message queue of xty promises its callers, whatever locks and    *)
(* events it is built from: PushMsg appends one message, PopMsg blocks     *)
(* until there is one and hands the oldest message to exactly one caller.  *)
(* xtyThreadMsgQueue and xtyProcessMsgQueue share this interface, the      *)
(* pure virtual xtyMsgQueue of src/src/xty_msg_queue.h.                    *)
(***************************************************************************)
EXTENDS Naturals, Sequences

CONSTANTS Producers,  \* the threads that call PushMsg
          Consumers,  \* the threads that call PopMsg
          MaxPush     \* bound: how many messages one producer pushes

VARIABLES chan,    \* the messages pushed and not popped, oldest first
          sent,    \* sent[p]: how many messages p has pushed
          asking,  \* the consumers that are inside PopMsg
          got      \* got[c]: the messages PopMsg has returned to c, in order

chanVars == <<chan, sent, asking, got>>

\* The k-th message of producer p: what is in a message does not matter here.
Message == Producers \X (1 .. MaxPush)

Init ==
    /\ chan = << >>
    /\ sent = [p \in Producers |-> 0]
    /\ asking = {}
    /\ got = [c \in Consumers |-> << >>]

Push(p) ==
    /\ sent[p] < MaxPush
    /\ sent' = [sent EXCEPT ![p] = @ + 1]
    /\ chan' = Append(chan, <<p, sent[p] + 1>>)
    /\ UNCHANGED <<asking, got>>

Ask(c) ==
    /\ c \notin asking
    /\ asking' = asking \union {c}
    /\ UNCHANGED <<chan, sent, got>>

Pop(c) ==
    /\ c \in asking
    /\ chan # << >>
    /\ chan' = Tail(chan)
    /\ got' = [got EXCEPT ![c] = Append(@, Head(chan))]
    /\ asking' = asking \ {c}
    /\ UNCHANGED sent

Next ==
    \/ \E p \in Producers : Push(p)
    \/ \E c \in Consumers : Ask(c) \/ Pop(c)

SafeSpec == Init /\ [][Next]_chanVars

\* A message never waits for ever while somebody is inside PopMsg.
PopsGoOn == WF_chanVars(\E c \in Consumers : Pop(c))

Spec == SafeSpec /\ PopsGoOn
=============================================================================
