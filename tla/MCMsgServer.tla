---------------------------- MODULE MCMsgServer ----------------------------
\* Two sessions of a host; what tells the runs apart is whether each session
\* registers a name of its own, as the server's bookkeeping needs, or two
\* processes of one name run on one host.
EXTENDS MsgServer

CONSTANTS a, b,  \* the sessions
          x, y   \* the names

\* a talks, b listens: one sender is what the order of its messages needs.
OneMessage == [c \in Clients |-> IF c = a THEN 1 ELSE 0]
TwoMessages == [c \in Clients |-> IF c = a THEN 2 ELSE 0]

\* A read of what a sends ends inside a message; the address of b is used by a
\* second session.
Never == [c \in Clients |-> 0]
TearOnce == [c \in Clients |-> IF c = a THEN 1 ELSE 0]
ReuseOnce == [c \in Clients |-> IF c = b THEN 1 ELSE 0]

OwnName == [c \in Clients |-> IF c = a THEN x ELSE y]
SameName == [c \in Clients |-> x]
=============================================================================
