------------------------------- MODULE MCLog --------------------------------
\* The server, which logs from two threads, and two programs with a session,
\* whose receive threads log when the server has gone.
EXTENDS Log

CONSTANTS server, alpha, beta, epoll, send

WithServer == [w \in Writers |-> IF w \in {epoll, send} THEN server ELSE w]
=============================================================================
