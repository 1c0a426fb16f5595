------------------------------ MODULE EchoTcp ------------------------------
(***************************************************************************)
(* examples/tcp_server.c and examples/tcp_client.c: an iterative echo      *)
(* server, its clients, and the TCP connections between them.              *)
(*                                                                         *)
(* A connection is two byte streams.  recv() returns any non-empty part of *)
(* what was sent, as it arrives; closing a socket sends FIN, or RST if     *)
(* unread data is thrown away; data for a closed socket is answered with   *)
(* RST, which takes a while to arrive.  Socket buffers hold everything a   *)
(* session sends (send() does not block), and a kernel that has learnt of  *)
(* a reset fails the next send() with an error or with SIGPIPE.            *)
(***************************************************************************)
EXTENDS Integers, Sequences, SequencesExt

CONSTANTS
  Clients,              \* client processes
  MaxLines,             \* lines a user types into each client
  LineLen,              \* bytes of a line: strlen() of what fgets() read, which
                        \* is 0 only for a line that begins with a NUL byte
  AcceptQueue           \* connections the kernel completes ahead of accept()

NoOne == "no one"

ASSUME EchoAssumption ==
  /\ MaxLines \in Nat /\ LineLen \in Nat \ {0} /\ AcceptQueue \in Nat \ {0}
  /\ NoOne \notin Clients

VARIABLES
  srv,                  \* program point of the server
  cur,                  \* the client behind client_fd, or NoOne
  buffer,               \* the server's buffer
  queue,                \* completed connections waiting for accept()
  cl,                   \* cl[c]: program point of client c
  lines,                \* lines[c]: lines c has sent
  sent, rcvd,           \* sent[c], rcvd[c]: all bytes c sent and received
  toS, toC,             \* toS[c], toC[c]: bytes under way in each direction
  cEnd, sEnd,           \* client's and server's socket: "none", "open", "closed"
  cErr, sErr,           \* error pending on each: "none", "reset" or "epipe"
  rstToC, rstToS        \* clients with a RST under way to them, to the server

vars == <<srv, cur, buffer, queue, cl, lines, sent, rcvd, toS, toC, cEnd, sEnd,
          cErr, sErr, rstToC, rstToS>>
server == <<srv, cur, buffer, queue>>
client == <<cl, lines, sent, rcvd>>
network == <<toS, toC, cEnd, sEnd, cErr, sErr, rstToC, rstToS>>

Init ==
  /\ srv = "start" /\ cur = NoOne /\ buffer = <<>> /\ queue = <<>>
  /\ cl = [c \in Clients |-> "start"]
  /\ lines = [c \in Clients |-> 0]
  /\ sent = [c \in Clients |-> <<>>] /\ rcvd = [c \in Clients |-> <<>>]
  /\ toS = [c \in Clients |-> <<>>] /\ toC = [c \in Clients |-> <<>>]
  /\ cEnd = [c \in Clients |-> "none"] /\ sEnd = [c \in Clients |-> "none"]
  /\ cErr = [c \in Clients |-> "none"] /\ sErr = [c \in Clients |-> "none"]
  /\ rstToC = {} /\ rstToS = {}

\* The bytes of the n-th line typed into client c.
Line(c, n) == [k \in 1..LineLen |-> <<c, n, k>>]

\* What recv() may return of the bytes on their way.
Chunks(s) == {SubSeq(s, 1, k) : k \in 1..Len(s)}
Rest(s, chunk) == SubSeq(s, Len(chunk) + 1, Len(s))

Listening == srv \in {"accept", "recv", "send", "close"}

-----------------------------------------------------------------------------
(* The kernel                                                              *)

\* Client c's socket is closed, by close() or by the end of the process.  With
\* unread data in it RST is sent, overtaking part of what c had sent; FIN goes
\* first if that data is still on its way, and RST follows when it arrives.
ClientCloses(c) ==
  /\ cEnd' = [cEnd EXCEPT ![c] = "closed"]
  /\ toC' = [toC EXCEPT ![c] = <<>>]
  /\ \/ /\ toC[c] # <<>> /\ sEnd[c] = "open"
        /\ sErr' = [sErr EXCEPT ![c] = "reset"]
        /\ \E k \in 0..Len(toS[c]) : toS' = [toS EXCEPT ![c] = SubSeq(@, 1, k)]
        /\ UNCHANGED rstToS
     \/ /\ rstToS' = IF toC[c] # <<>> THEN rstToS \cup {c} ELSE rstToS
        /\ UNCHANGED <<toS, sErr>>
  /\ UNCHANGED <<sEnd, cErr, rstToC>>

\* The server's sockets in cs are closed.  RST goes to a client whose data is
\* thrown away, and to one whose connection was never accepted.
ServerCloses(cs) ==
  /\ sEnd' = [c \in Clients |-> IF c \in cs THEN "closed" ELSE sEnd[c]]
  /\ toS' = [c \in Clients |-> IF c \in cs THEN <<>> ELSE toS[c]]
  /\ rstToC' = rstToC \cup {c \in cs : toS[c] # <<>> \/ \E k \in DOMAIN queue : queue[k] = c}
  /\ UNCHANGED <<toC, cEnd, cErr, sErr, rstToS>>

\* A RST arrives at the server.  It means EPIPE because FIN was there before.
RstAtServer(c) ==
  /\ c \in rstToS
  /\ sErr' = [sErr EXCEPT ![c] = IF @ = "none" THEN "epipe" ELSE @]
  /\ rstToS' = rstToS \ {c}
  /\ UNCHANGED <<server, client, toS, toC, cEnd, sEnd, cErr, rstToC>>

\* A RST arrives at a client; the part of the echo that has not is lost.
RstAtClient(c) ==
  /\ c \in rstToC
  /\ cErr' = [cErr EXCEPT ![c] = "reset"]
  /\ rstToC' = rstToC \ {c}
  /\ \E k \in 0..Len(toC[c]) : toC' = [toC EXCEPT ![c] = SubSeq(@, 1, k)]
  /\ UNCHANGED <<server, client, toS, cEnd, sEnd, sErr, rstToS>>

-----------------------------------------------------------------------------
(* tcp_server                                                              *)

\* socket, setsockopt, bind, listen; a failure of any but setsockopt: exit(1).
Startup ==
  /\ srv = "start"
  /\ srv' \in {"accept", "exited"}
  /\ UNCHANGED <<cur, buffer, queue, client, network>>

Accept ==
  /\ srv = "accept" /\ queue # <<>>
  /\ cur' = Head(queue)
  /\ queue' = Tail(queue)
  /\ srv' = "recv"
  /\ UNCHANGED <<buffer, client, network>>

\* accept() fails: perror unless EINTR, continue.
AcceptFails == srv = "accept" /\ UNCHANGED vars

\* recv(): data first, then what the kernel knows, then end of file.
Recv ==
  /\ srv = "recv"
  /\ \/ \E chunk \in Chunks(toS[cur]) :
          /\ buffer' = chunk
          /\ toS' = [toS EXCEPT ![cur] = Rest(@, chunk)]
          /\ srv' = "send"
     \/ /\ toS[cur] = <<>>
        /\ sErr[cur] # "none" \/ cEnd[cur] = "closed"
        /\ srv' = "close"
        /\ UNCHANGED <<buffer, toS>>
  /\ UNCHANGED <<cur, queue, client, toC, cEnd, sEnd, cErr, sErr, rstToC, rstToS>>

\* Mutant of Send: only the first byte is echoed.
SendFirstByte ==
  /\ srv = "send" /\ sErr[cur] = "none"
  /\ IF cEnd[cur] = "open"
       THEN toC' = [toC EXCEPT ![cur] = Append(@, Head(buffer))] /\ UNCHANGED rstToS
       ELSE rstToS' = rstToS \cup {cur} /\ UNCHANGED toC
  /\ srv' = "recv" /\ buffer' = <<>>
  /\ UNCHANGED <<cur, queue, client, toS, cEnd, sEnd, cErr, sErr, rstToC>>

\* Mutant of Send: the last byte received is taken for the line's end and kept.
SendAllButLast ==
  /\ srv = "send" /\ sErr[cur] = "none"
  /\ IF cEnd[cur] = "open"
       THEN toC' = [toC EXCEPT ![cur] = @ \o Front(buffer)] /\ UNCHANGED rstToS
       ELSE rstToS' = rstToS \cup {cur} /\ UNCHANGED toC
  /\ srv' = "recv" /\ buffer' = <<>>
  /\ UNCHANGED <<cur, queue, client, toS, cEnd, sEnd, cErr, sErr, rstToC>>

\* send() of the bytes received; the buffer is not looked at again.
Send ==
  /\ srv = "send" /\ sErr[cur] = "none"
  /\ IF cEnd[cur] = "open"
       THEN toC' = [toC EXCEPT ![cur] = @ \o buffer] /\ UNCHANGED rstToS
       ELSE rstToS' = rstToS \cup {cur} /\ UNCHANGED toC
  /\ srv' = "recv" /\ buffer' = <<>>
  /\ UNCHANGED <<cur, queue, client, toS, cEnd, sEnd, cErr, sErr, rstToC>>

\* send() returns -1: perror, break.
SendFails ==
  /\ srv = "send" /\ sErr[cur] = "reset"
  /\ srv' = "close" /\ buffer' = <<>>
  /\ UNCHANGED <<cur, queue, client, network>>

\* The default action of SIGPIPE, or Ctrl+C, ends the server: the kernel
\* closes every connection, accepted or not.
ServerEnds(how) ==
  /\ srv' = how /\ cur' = NoOne /\ buffer' = <<>> /\ queue' = <<>>
  /\ ServerCloses({c \in Clients : sEnd[c] = "open"})
  /\ UNCHANGED client

SendSigpipe == srv = "send" /\ sErr[cur] = "epipe" /\ ServerEnds("sigpipe")

Interrupt == Listening /\ ServerEnds("interrupted")

\* Mutant of CloseClient: the descriptor is leaked.
CloseClientLeaks ==
  /\ srv = "close"
  /\ srv' = "accept" /\ cur' = NoOne
  /\ UNCHANGED <<buffer, queue, client, network>>

CloseClient ==
  /\ srv = "close"
  /\ srv' = "accept" /\ cur' = NoOne
  /\ ServerCloses({cur})
  /\ UNCHANGED <<buffer, queue, client>>

Server ==
  \/ Startup \/ Accept \/ Recv \/ Send \/ SendFails \/ SendSigpipe \/ CloseClient

-----------------------------------------------------------------------------
(* tcp_client                                                              *)

\* socket, inet_pton: a failure of either: exit(1).
ClientStart(c) ==
  /\ cl[c] = "start"
  /\ \E next \in {"connect", "exited"} : cl' = [cl EXCEPT ![c] = next]
  /\ UNCHANGED <<server, lines, sent, rcvd, network>>

\* connect() succeeds as soon as the kernel has queued the connection.
Connect(c) ==
  /\ cl[c] = "connect" /\ Listening /\ Len(queue) < AcceptQueue
  /\ queue' = Append(queue, c)
  /\ cEnd' = [cEnd EXCEPT ![c] = "open"] /\ sEnd' = [sEnd EXCEPT ![c] = "open"]
  /\ cl' = [cl EXCEPT ![c] = "prompt"]
  /\ UNCHANGED <<srv, cur, buffer, lines, sent, rcvd, toS, toC, cErr, sErr,
                 rstToC, rstToS>>

\* Nobody listens (ECONNREFUSED) or the queue stays full (ETIMEDOUT): exit(1).
ConnectFails(c) ==
  /\ cl[c] = "connect" /\ (~Listening \/ Len(queue) = AcceptQueue)
  /\ cl' = [cl EXCEPT ![c] = "exited"]
  /\ UNCHANGED <<server, lines, sent, rcvd, network>>

\* fgets() returns a line and send() takes it.
SendLine(c) ==
  /\ cl[c] = "prompt" /\ lines[c] < MaxLines /\ cErr[c] = "none"
  /\ LET line == Line(c, lines[c] + 1)
     IN  /\ sent' = [sent EXCEPT ![c] = @ \o line]
         /\ IF sEnd[c] = "open"
              THEN toS' = [toS EXCEPT ![c] = @ \o line] /\ UNCHANGED rstToC
              ELSE rstToC' = rstToC \cup {c} /\ UNCHANGED toS
  /\ lines' = [lines EXCEPT ![c] = @ + 1]
  /\ cl' = [cl EXCEPT ![c] = "recv"]
  /\ UNCHANGED <<server, rcvd, toC, cEnd, sEnd, cErr, sErr, rstToS>>

\* send() returns -1 or raises SIGPIPE: either way the client is at its end.
SendLineFails(c) ==
  /\ cl[c] = "prompt" /\ lines[c] < MaxLines /\ cErr[c] # "none"
  /\ cl' = [cl EXCEPT ![c] = "exited"]
  /\ ClientCloses(c)
  /\ UNCHANGED <<server, lines, sent, rcvd>>

\* One recv() per line, whatever part of the echo it returns.
RecvEcho(c) ==
  /\ cl[c] = "recv"
  /\ \E chunk \in Chunks(toC[c]) :
       /\ rcvd' = [rcvd EXCEPT ![c] = @ \o chunk]
       /\ toC' = [toC EXCEPT ![c] = Rest(@, chunk)]
  /\ cl' = [cl EXCEPT ![c] = "prompt"]
  /\ UNCHANGED <<server, lines, sent, toS, cEnd, sEnd, cErr, sErr, rstToC, rstToS>>

\* Mutant of RecvEnds: end of file is not taken for the end.
RecvEndsOnError(c) ==
  /\ cl[c] = "recv" /\ toC[c] = <<>>
  /\ cErr[c] # "none"
  /\ cl' = [cl EXCEPT ![c] = "exited"]
  /\ ClientCloses(c)
  /\ UNCHANGED <<server, lines, sent, rcvd>>

\* recv() returns 0 or -1: break, close.
RecvEnds(c) ==
  /\ cl[c] = "recv" /\ toC[c] = <<>>
  /\ cErr[c] # "none" \/ sEnd[c] = "closed"
  /\ cl' = [cl EXCEPT ![c] = "exited"]
  /\ ClientCloses(c)
  /\ UNCHANGED <<server, lines, sent, rcvd>>

\* Ctrl+D at the prompt, or Ctrl+C at any time.
Quit(c) ==
  /\ cl[c] \in {"prompt", "recv"}
  /\ cl' = [cl EXCEPT ![c] = "exited"]
  /\ ClientCloses(c)
  /\ UNCHANGED <<server, lines, sent, rcvd>>

\* What the client does of its own accord once its user has typed a line.
ClientReacts(c) == RecvEcho(c) \/ RecvEnds(c)

Client(c) ==
  \/ ClientStart(c) \/ Connect(c) \/ ConnectFails(c)
  \/ SendLine(c) \/ SendLineFails(c) \/ ClientReacts(c) \/ Quit(c)

-----------------------------------------------------------------------------

\* The server has ended and so have the clients.
Terminated ==
  /\ srv \in {"exited", "interrupted", "sigpipe"}
  /\ \A c \in Clients : cl[c] = "exited"
  /\ UNCHANGED vars

Next ==
  \/ Server \/ AcceptFails \/ Interrupt
  \/ \E c \in Clients : Client(c) \/ RstAtServer(c) \/ RstAtClient(c)
  \/ Terminated

\* Server and clients run while they are not blocked and RSTs arrive; users
\* owe nothing, neither a line nor an end.
Fairness ==
  /\ WF_vars(Server)
  /\ \A c \in Clients :
       WF_vars(ClientReacts(c)) /\ WF_vars(RstAtServer(c)) /\ WF_vars(RstAtClient(c))

Spec == Init /\ [][Next]_vars
FairSpec == Spec /\ Fairness

-----------------------------------------------------------------------------
(* Properties                                                              *)

\* What the server has of client c's bytes.
InServer(c) == IF cur = c THEN buffer ELSE <<>>

\* Whatever a client receives is what it sent, in order and from the start: no
\* byte of another client, none twice, none out of order, although server and
\* client reuse one buffer; and while both ends are open none is missing.
EchoIntegrity ==
  \A c \in Clients :
    /\ IsPrefix(rcvd[c], sent[c])
    /\ cEnd[c] = "open" /\ sEnd[c] = "open"
         => rcvd[c] \o toC[c] \o InServer(c) \o toS[c] = sent[c]

\* Between two clients the server holds no connection: what is open on its
\* side is being served or still in the queue.
NoConnectionLeak ==
  \A c \in Clients :
    sEnd[c] = "open" => cur = c \/ \E k \in DOMAIN queue : queue[k] = c

\* Client and server never wait for each other: when a client in recv() is
\* being served, bytes for it are under way, or in the buffer of a server whose
\* send() will not fail, or before the server's recv(); and a server that has
\* ended has closed its end, so that recv() returns.
Answerable ==
  \A c \in Clients : cl[c] = "recv" =>
    /\ cur = c => \/ toC[c] # <<>>
                  \/ srv = "send" /\ buffer # <<>> /\ sErr[c] = "none"
                  \/ srv = "recv" /\ toS[c] # <<>>
    /\ ~Listening => sEnd[c] = "closed"

\* A client that waits for its echo while it is being served, or when the
\* server is gone, does not wait forever: it gets bytes, an error or end of
\* file.  (While another client is served it may wait as long as that takes.)
NoWaitInVain ==
  \A c \in Clients :
    (cl[c] = "recv" /\ (cur = c \/ ~Listening)) ~> (cl[c] # "recv")

\* "Server echo" shows the line that was sent.
EchoIsTheLine == \A c \in Clients : cl[c] = "prompt" => rcvd[c] = sent[c]

=============================================================================
