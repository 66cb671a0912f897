---------------------------- MODULE MCHttpServer ----------------------------
EXTENDS HttpServer

\* The first client sends two requests on its connection, the others one.
MCRequests == [c \in Clients |-> IF c = 1 THEN 2 ELSE 1]
=============================================================================
