----------------------------- MODULE HttpServer -----------------------------
(***************************************************************************)
(* hw4/HttpServer.cc and hw4/HttpConnection.cc: the accept loop of Run, the*)
(* connection handler HttpServer_ThrFn that a pool thread runs per client, *)
(* and the clients at the other end.  The pool is TaskPool, which          *)
(* ThreadPool implements; the task of a client is the client itself.       *)
(*                                                                         *)
(* A client sends requests on one connection.  The network delivers each   *)
(* of them in two fragments, the second of which ends in "\r\n\r\n", and a *)
(* read returns any number of the fragments that have arrived.  Fragments  *)
(* are numbered, so that request r is made of 2r-1 and 2r.                 *)
(***************************************************************************)
EXTENDS Integers, Sequences, FiniteSets

CONSTANTS NumClients,    \* bound: connections over the life of the server
          kNumThreads,
          MaxRequests    \* bound: how many requests each client sends at most

Clients  == 1..NumClients

ASSUME HttpAssumption == /\ NumClients \in Nat
                         /\ kNumThreads \in Nat \ {0}
                         /\ MaxRequests \in [Clients -> Nat]

NoClient == 0

VARIABLES
    pending, active, finished, phase,   \* the pool of connections, see TaskPool
    main,       \* where Run is: accept, dispatch, closing, returned; crashed: no process
    hst,        \* the connection Accept returned, until it is dispatched
    fd,         \* the server's end of each connection: none, open, closed
    client,     \* the client's end: idle, up, shut (sends no more), gone
    wantsClose, \* per client, which of its requests say "Connection: close"
    sent,       \* how many fragments the client has sent
    wire,       \* the fragments sent and not read
    buffer_,    \* the fragments read and not parsed (HttpConnection::buffer_)
    step,       \* the handler of a connection: read or write
    request,    \* the request GetNextRequest returned last, or 0
    answers     \* the requests to which the client received a response

pool == <<pending, active, finished, phase>>
conn == <<fd, client, wantsClose, sent, wire, buffer_, step, request, answers>>
vars == <<pool, main, hst, conn>>

Pool == INSTANCE TaskPool WITH MaxTasks <- NumClients, Limit <- kNumThreads

\* The process has not been ended by an exception or a Verify333 in one of its threads.
Alive == main # "crashed"

EndsRequest(k) == k % 2 = 0
HasRequest(s)  == \E i \in DOMAIN s : EndsRequest(s[i])

Init ==
    /\ Pool!Init
    /\ main = "accept"
    /\ hst = NoClient
    /\ fd = [c \in Clients |-> "none"]
    /\ client = [c \in Clients |-> "idle"]
    /\ wantsClose = [c \in Clients |-> {}]
    /\ sent = [c \in Clients |-> 0]
    /\ wire = [c \in Clients |-> <<>>]
    /\ buffer_ = [c \in Clients |-> <<>>]
    /\ step = [c \in Clients |-> "read"]
    /\ request = [c \in Clients |-> 0]
    /\ answers = [c \in Clients |-> <<>>]

-----------------------------------------------------------------------------
\* The clients and the network.

\* A connection that comes after the last accept has no effect: it is left out.
Connect(c) ==
    /\ client[c] = "idle"
    /\ main \in {"accept", "dispatch"}
    /\ client' = [client EXCEPT ![c] = "up"]
    /\ UNCHANGED <<pool, main, hst, fd, wantsClose, sent, wire, buffer_, step, request, answers>>

\* The next fragment; the second one of a request holds the Connection header.
\* What is sent after the server has closed the connection or crashed is left out.
Send(c) ==
    /\ client[c] = "up" /\ fd[c] # "closed" /\ Alive
    /\ sent[c] < 2 * MaxRequests[c]
    /\ sent' = [sent EXCEPT ![c] = @ + 1]
    /\ wire' = [wire EXCEPT ![c] = Append(@, sent[c] + 1)]
    /\ \/ UNCHANGED wantsClose
       \/ /\ EndsRequest(sent'[c])
          /\ wantsClose' = [wantsClose EXCEPT ![c] = @ \cup {sent'[c] \div 2}]
    /\ UNCHANGED <<pool, main, hst, fd, client, buffer_, step, request, answers>>

\* The client will send no more, but reads what comes.
Shut(c) ==
    /\ client[c] = "up"
    /\ client' = [client EXCEPT ![c] = "shut"]
    /\ UNCHANGED <<pool, main, hst, fd, wantsClose, sent, wire, buffer_, step, request, answers>>

\* The connection drops; what was under way to the server may be lost.
Vanish(c) ==
    /\ client[c] \in {"up", "shut"}
    /\ client' = [client EXCEPT ![c] = "gone"]
    /\ UNCHANGED <<pool, main, hst, fd, wantsClose, sent, wire, buffer_, step, request, answers>>

-----------------------------------------------------------------------------
\* HttpServer::Run, in the main thread.

\* accept() hands out a connection that waits in the backlog.
Accept(c) ==
    /\ main = "accept"
    /\ client[c] # "idle" /\ fd[c] = "none"
    /\ main' = "dispatch"
    /\ hst' = c
    /\ fd' = [fd EXCEPT ![c] = "open"]
    /\ UNCHANGED <<pool, client, wantsClose, sent, wire, buffer_, step, request, answers>>

Dispatch ==
    /\ main = "dispatch"
    /\ Pool!Submit(hst)
    /\ main' = "accept"
    /\ hst' = NoClient
    /\ UNCHANGED conn

\* Accept returns false: accept() failed, or it succeeded and the lookup of the
\* client's name did not, in which case the descriptor is left open in hst.  Run
\* leaves the loop and the destructor of the pool begins.
AcceptFails ==
    /\ main = "accept"
    /\ Pool!Close
    /\ main' = "closing"
    /\ \/ UNCHANGED <<hst, fd>>
       \/ \E c \in Clients :
             /\ client[c] # "idle" /\ fd[c] = "none"
             /\ hst' = c
             /\ fd' = [fd EXCEPT ![c] = "open"]
    /\ UNCHANGED <<client, wantsClose, sent, wire, buffer_, step, request, answers>>

\* The destructor of the pool returns, and Run with it.
Return ==
    /\ main = "closing"
    /\ Pool!Closed
    /\ main' = "returned"
    /\ UNCHANGED <<hst, conn>>

-----------------------------------------------------------------------------
\* HttpServer_ThrFn, in a thread of the pool.

BeginTask == Alive /\ Pool!Begin /\ UNCHANGED <<main, hst, conn>>

\* Deviation: the descriptor is not closed.
HangupOpen(c) == Pool!Finish(c) /\ UNCHANGED fd

\* The handler leaves its loop: ~HttpConnection closes the descriptor.
Hangup(c) ==
    /\ fd' = [fd EXCEPT ![c] = "closed"]
    /\ Pool!Finish(c)

\* GetNextRequest finds no whole request in buffer_ and reads some more.
Read(c) ==
    /\ c \in active /\ step[c] = "read"
    /\ ~HasRequest(buffer_[c])
    /\ \E n \in 1..Len(wire[c]) :
          /\ buffer_' = [buffer_ EXCEPT ![c] = @ \o SubSeq(wire[c], 1, n)]
          /\ wire' = [wire EXCEPT ![c] = SubSeq(@, n + 1, Len(@))]
    /\ UNCHANGED <<pool, main, hst, fd, client, wantsClose, sent, step, request, answers>>

\* Deviation: the handler reads again at the end of the stream.
ReadFailsIgnored(c) ==
    /\ c \in active /\ step[c] = "read"
    /\ ~HasRequest(buffer_[c])
    /\ client[c] \in {"shut", "gone"}
    /\ UNCHANGED vars

\* read() returns 0 at the end of the stream, or fails once the client is gone.
ReadFails(c) ==
    /\ c \in active /\ step[c] = "read"
    /\ ~HasRequest(buffer_[c])
    /\ client[c] = "shut" => wire[c] = <<>>
    /\ client[c] \in {"shut", "gone"}
    /\ Hangup(c)
    /\ UNCHANGED <<main, hst, client, wantsClose, sent, wire, buffer_, step, request, answers>>

\* Deviation: the last request is taken for the first.
LastEnd(s) == CHOOSE i \in DOMAIN s : /\ EndsRequest(s[i])
                                      /\ \A j \in (i + 1)..Len(s) : ~EndsRequest(s[j])

\* Where the first request of s ends.
FirstEnd(s) == CHOOSE i \in DOMAIN s : /\ EndsRequest(s[i])
                                       /\ \A j \in 1..(i - 1) : ~EndsRequest(s[j])

\* Deviation: what follows the first request is thrown away.
NoRest(s) == <<>>

\* The fragments of s after its first request.
Rest(s) == SubSeq(s, FirstEnd(s) + 1, Len(s))

\* GetNextRequest returns the first request of buffer_ and keeps the rest.  On
\* "Connection: close" the handler hangs up at once.
NextRequest(c) ==
    /\ c \in active /\ step[c] = "read"
    /\ HasRequest(buffer_[c])
    /\ request' = [request EXCEPT ![c] = buffer_[c][FirstEnd(buffer_[c])] \div 2]
    /\ buffer_' = [buffer_ EXCEPT ![c] = Rest(@)]
    /\ IF request'[c] \in wantsClose[c]
       THEN Hangup(c) /\ UNCHANGED step
       ELSE step' = [step EXCEPT ![c] = "write"] /\ UNCHANGED <<pool, fd>>
    /\ UNCHANGED <<main, hst, client, wantsClose, sent, wire, answers>>

\* Deviation: one response per connection.
RespondOnce(c) ==
    /\ c \in active /\ step[c] = "write"
    /\ client[c] # "gone"
    /\ answers' = [answers EXCEPT ![c] = Append(@, request[c])]
    /\ Hangup(c)
    /\ UNCHANGED <<main, hst, client, wantsClose, sent, wire, buffer_, step, request>>

\* WriteResponse to a client that is there.
Respond(c) ==
    /\ c \in active /\ step[c] = "write"
    /\ client[c] # "gone"
    /\ answers' = [answers EXCEPT ![c] = Append(@, request[c])]
    /\ step' = [step EXCEPT ![c] = "read"]
    /\ UNCHANGED <<pool, main, hst, fd, client, wantsClose, sent, wire, buffer_, request>>

\* WriteResponse to a client that is gone: the kernel takes the bytes and the
\* handler reads on, or the write fails and it hangs up.
RespondInVain(c) ==
    /\ c \in active /\ step[c] = "write"
    /\ client[c] = "gone"
    /\ \/ step' = [step EXCEPT ![c] = "read"] /\ UNCHANGED <<pool, fd>>
       \/ Hangup(c) /\ UNCHANGED step
    /\ UNCHANGED <<main, hst, client, wantsClose, sent, wire, buffer_, request, answers>>

\* ProcessRequest does not return: nobody catches what it throws (a name without an
\* extension, a file that is none) and a Verify333 on an index exits.  WebSite says of
\* which requests.  The process is gone with all its threads.
Crash(c) ==
    /\ c \in active /\ step[c] = "write"
    /\ main' = "crashed"
    /\ UNCHANGED <<pool, hst, conn>>

-----------------------------------------------------------------------------
Handler(c) ==
    /\ Alive
    /\ \/ Read(c) \/ ReadFails(c) \/ NextRequest(c)
       \/ Respond(c) \/ RespondInVain(c) \/ Crash(c)

\* Run has returned or the process has crashed, or nobody has anything to do.
Quiet == main \in {"returned", "accept", "crashed"} /\ UNCHANGED vars

Next ==
    \/ \E c \in Clients : Connect(c) \/ Send(c) \/ Shut(c) \/ Vanish(c)
    \/ \E c \in Clients : Accept(c) \/ Handler(c)
    \/ Dispatch \/ AcceptFails \/ Return \/ BeginTask
    \/ Quiet

Spec == Init /\ [][Next]_vars

(***************************************************************************)
(* Fairness: the main thread and the handlers run on unless they wait for  *)
(* somebody (an accepted connection, bytes, a free thread).  Clients owe   *)
(* nothing.                                                                *)
(***************************************************************************)
FairSpec ==
    /\ Spec
    /\ WF_vars(\E c \in Clients : Accept(c)) /\ WF_vars(Dispatch) /\ WF_vars(Return)
    /\ WF_vars(BeginTask)
    /\ \A c \in Clients : WF_vars(Handler(c))

-----------------------------------------------------------------------------
\* Every variable keeps its type; handlers run on at most kNumThreads threads.
TypeOK ==
    /\ pending \in Seq(Clients)
    /\ active \subseteq Clients /\ Cardinality(active) <= kNumThreads
    /\ finished \subseteq Clients
    /\ phase \in {"open", "closing", "closed"}
    /\ main \in {"accept", "dispatch", "closing", "returned", "crashed"}
    /\ hst \in Clients \cup {NoClient}
    /\ fd \in [Clients -> {"none", "open", "closed"}]
    /\ client \in [Clients -> {"idle", "up", "shut", "gone"}]
    /\ wantsClose \in [Clients -> SUBSET Nat]
    /\ sent \in [Clients -> Nat]
    /\ \A c \in Clients : /\ sent[c] <= 2 * MaxRequests[c]
                         /\ wire[c] \in Seq(1..sent[c]) /\ buffer_[c] \in Seq(1..sent[c])
    /\ step \in [Clients -> {"read", "write"}]
    /\ request \in [Clients -> Nat]
    /\ answers \in [Clients -> Seq(Nat)]

\* A connection is open exactly while somebody owns it, up to a crash: the main thread,
\* the queue or a handler.  So when Run has returned nothing is left open but what
\* a failing Accept left behind.
Owned == {pending[i] : i \in DOMAIN pending} \cup active \cup {hst}

NoDescriptorLeak ==
    /\ \A c \in Clients : fd[c] = "open" <=> c \in Owned
    /\ main = "returned" => \A c \in Clients : fd[c] = "open" => c = hst

\* No byte of a client is lost, repeated or reordered, however the reads cut the
\* stream: buffer_ and the wire hold all that follows the last parsed request.
StreamIntact ==
    \A c \in Clients :
        buffer_[c] \o wire[c] = [i \in 1..(sent[c] - 2 * request[c]) |-> 2 * request[c] + i]

\* The responses a client receives are for its first requests, in order, once each.
AnswersInOrder ==
    \A c \in Clients : /\ Len(answers[c]) <= request[c]
                       /\ \A i \in DOMAIN answers[c] : answers[c][i] = i

Answered(c, r) == \E i \in DOMAIN answers[c] : answers[c][i] = r

\* Clients hang up or shut down their side in the end.
ClientsLeave == \A c \in Clients : client[c] = "up" ~> client[c] \in {"shut", "gone"}

\* If clients leave, every request that reached a dispatched connection whole is
\* answered, those behind a "Connection: close" and of vanished clients excepted, unless
\* a request, this one or another's, ends the server: keep-alive connections free
\* their thread, and the queued ones get it.
EveryRequestAnswered ==
    ClientsLeave =>
        \A c \in Clients : \A r \in 1..MaxRequests[c] :
            (sent[c] >= 2 * r /\ c \in Owned /\ c # hst)
                ~> \/ Answered(c, r) \/ client[c] = "gone" \/ ~Alive
                   \/ \E q \in 1..r : q \in wantsClose[c]

\* If clients leave, a server whose Accept has failed comes to its end: Run returns
\* unless a request that is still being handled ends the process before.
ShutdownCompletes == ClientsLeave => (main = "closing" ~> main = "returned" \/ ~Alive)

-----------------------------------------------------------------------------
\* "read and process the next request [...], then write out our response.  If
\* the client sends a Connection: close header, then shut down the connection"
\* (HttpServer.cc:127-130): a request that was read is answered before hangup.
AnsweredBeforeHangup ==
    \A c \in Clients :
        fd[c] = "closed" /\ request[c] # 0 => Answered(c, request[c]) \/ client[c] = "gone"
=============================================================================
