--------------------------- MODULE EchoTcpProofs ---------------------------
(***************************************************************************)
(* EchoIntegrity, NoConnectionLeak and Answerable of EchoTcp for any       *)
(* number of clients and lines, any length of a line and of the queue.     *)
(*                                                                         *)
(* EchoIntegrity is not inductive: that a client's bytes are preserved     *)
(* when the server goes on to another connection needs that the buffer is  *)
(* empty then; that a failing send() loses nothing of a live connection    *)
(* needs that a reset means the other end is gone; and that close() ends   *)
(* one session only needs that nobody is both served and in the queue.     *)
(***************************************************************************)
EXTENDS EchoTcp, SequenceTheorems, TLAPS

\* A byte is named by who typed it, in which line and where in the line.
Bytes == Clients \X Nat \X Nat

\* What every variable holds.
TypeOK ==
  /\ srv \in {"start", "accept", "recv", "send", "close",
              "exited", "interrupted", "sigpipe"}
  /\ cur \in Clients \cup {NoOne}
  /\ buffer \in Seq(Bytes)
  /\ queue \in Seq(Clients)
  /\ cl \in [Clients -> {"start", "connect", "prompt", "recv", "exited"}]
  /\ lines \in [Clients -> Nat]
  /\ sent \in [Clients -> Seq(Bytes)] /\ rcvd \in [Clients -> Seq(Bytes)]
  /\ toS \in [Clients -> Seq(Bytes)] /\ toC \in [Clients -> Seq(Bytes)]
  /\ cEnd \in [Clients -> {"none", "open", "closed"}]
  /\ sEnd \in [Clients -> {"none", "open", "closed"}]
  /\ cErr \in [Clients -> {"none", "reset", "epipe"}]
  /\ sErr \in [Clients -> {"none", "reset", "epipe"}]
  /\ rstToC \in SUBSET Clients /\ rstToS \in SUBSET Clients

\* client_fd is open from accept() to close(), and the buffer is in use only
\* between recv() and send().
Serves ==
  /\ cur # NoOne <=> srv \in {"recv", "send", "close"}
  /\ cur # NoOne => sEnd[cur] = "open"
  /\ srv # "send" => buffer = <<>>

\* Every connection is in the queue once, and not when it is being served.
Waiting ==
  /\ \A k \in 1..Len(queue) : sEnd[queue[k]] = "open" /\ queue[k] # cur
  /\ \A k, l \in 1..Len(queue) : queue[k] = queue[l] => k = l

\* There is nothing of a connection before connect() ...
Fresh ==
  \A c \in Clients : cl[c] \in {"start", "connect"} =>
    /\ cEnd[c] = "none" /\ sEnd[c] = "none" /\ sErr[c] = "none"
    /\ sent[c] = <<>> /\ rcvd[c] = <<>> /\ toS[c] = <<>> /\ toC[c] = <<>>
    /\ c \notin rstToC /\ c \notin rstToS

\* ... and a connection is reset only when the other end has been closed.
Resets ==
  \A c \in Clients :
    /\ c \in rstToC => sEnd[c] # "open"
    /\ c \in rstToS \/ sErr[c] # "none" => cEnd[c] # "open"

\* What is received and what will be is what was sent, from the start.
Streams ==
  \A c \in Clients :
    /\ IsPrefix(rcvd[c] \o toC[c], sent[c])
    /\ cEnd[c] = "open" /\ sEnd[c] = "open"
         => ((rcvd[c] \o toC[c]) \o InServer(c)) \o toS[c] = sent[c]

Inv == TypeOK /\ Serves /\ Waiting /\ Fresh /\ Resets /\ Streams /\ NoConnectionLeak

-----------------------------------------------------------------------------
(* Byte streams                                                            *)

\* recv() splits what is under way.
LEMMA Split ==
  ASSUME NEW S, NEW s \in Seq(S), NEW chunk \in Chunks(s)
  PROVE  /\ chunk \in Seq(S) /\ Rest(s, chunk) \in Seq(S)
         /\ chunk \o Rest(s, chunk) = s
  <1>1. PICK k \in 1..Len(s) : chunk = SubSeq(s, 1, k)
    BY DEF Chunks
  <1>2. chunk \in Seq(S) /\ Len(chunk) = k
    BY <1>1
  <1>3. Rest(s, chunk) = SubSeq(s, k + 1, Len(s))
    BY <1>2 DEF Rest
  <1>4. Rest(s, chunk) \in Seq(S)
    BY <1>3
  <1>5. SubSeq(s, 1, k) \o SubSeq(s, k + 1, Len(s)) = SubSeq(s, 1, Len(s))
    BY ConcatAdjacentSubSeq
  <1> QED BY <1>1, <1>2, <1>3, <1>4, <1>5, SubSeqFull

\* Bytes that move on stay behind what went before them.
LEMMA Regroup ==
  \A r, s, t \in Seq(Bytes) :
    (r \o s) \o t = r \o (s \o t) /\ r \o (s \o t) \in Seq(Bytes)
  BY ConcatAssociative

\* Element by element.
LEMMA PrefixPointwise ==
  ASSUME NEW S, NEW s \in Seq(S), NEW u \in Seq(S)
  PROVE  IsPrefix(s, u) <=>
           Len(s) <= Len(u) /\ \A i \in 1..Len(s) : s[i] = u[i]
  <1>1. ASSUME IsPrefix(s, u), NEW i \in 1..Len(s) PROVE s[i] = u[i]
    <2>1. SubSeq(s, 1, Len(s))[i] = s[i] /\ SubSeq(u, 1, Len(s))[i] = u[i]
      BY <1>1 DEF IsPrefix
    <2> QED BY <2>1, <1>1 DEF IsPrefix
  <1>2. ASSUME Len(s) <= Len(u), \A i \in 1..Len(s) : s[i] = u[i]
        PROVE  IsPrefix(s, u)
    BY <1>2 DEF IsPrefix
  <1> QED BY <1>1, <1>2 DEF IsPrefix

\* What is a part of a prefix ...
LEMMA PrefixPart ==
  ASSUME NEW S, NEW s \in Seq(S), NEW t \in Seq(S), NEW u \in Seq(S),
         IsPrefix(s \o t, u), NEW k \in 0..Len(t)
  PROVE  IsPrefix(s \o SubSeq(t, 1, k), u)
  <1> DEFINE v == s \o SubSeq(t, 1, k)
             w == s \o t
  <1>1. /\ v \in Seq(S) /\ Len(v) = Len(s) + k
        /\ \A i \in 1..Len(v) : v[i] = w[i]
    OBVIOUS
  <1>2. w \in Seq(S) /\ Len(w) = Len(s) + Len(t) /\ IsPrefix(w, u)
    OBVIOUS
  <1> HIDE DEF v, w
  <1>3. Len(w) <= Len(u) /\ \A i \in 1..Len(w) : w[i] = u[i]
    BY <1>2, PrefixPointwise
  <1>4. Len(v) <= Len(u) /\ \A i \in 1..Len(v) : v[i] = u[i]
    BY <1>1, <1>2, <1>3
  <1>5. IsPrefix(v, u)
    BY <1>1, <1>4, PrefixPointwise
  <1> QED BY <1>5 DEF v

\* ... is one, in particular what is left when a client throws away the rest.
LEMMA PrefixFirst ==
  ASSUME NEW S, NEW s \in Seq(S), NEW t \in Seq(S), NEW u \in Seq(S),
         IsPrefix(s \o t, u)
  PROVE  IsPrefix(s \o <<>>, u) /\ IsPrefix(s, u)
  <1>1. IsPrefix(s, u)
    BY DEF IsPrefix
  <1> QED BY <1>1, ConcatEmptySeq

\* More may be sent.
LEMMA PrefixMore ==
  ASSUME NEW S, NEW s \in Seq(S), NEW u \in Seq(S), NEW v \in Seq(S),
         IsPrefix(s, u)
  PROVE  IsPrefix(s, u \o v)
  BY DEF IsPrefix

\* All but the end.
LEMMA PrefixOfConcat ==
  ASSUME NEW S, NEW s \in Seq(S), NEW t \in Seq(S)
  PROVE  IsPrefix(s, s \o t)
  BY DEF IsPrefix

\* A line is a sequence of bytes.
LEMMA LineType ==
  ASSUME NEW c \in Clients, NEW n \in Nat
  PROVE  Line(c, n) \in Seq(Bytes)
  <1>1. \A k \in 1..LineLen : <<c, n, k>> \in Bytes
    BY EchoAssumption DEF Bytes
  <1> QED BY <1>1, EchoAssumption DEF Line

-----------------------------------------------------------------------------
(* One lemma per action                                                    *)

USE DEF vars, server, client, network

\* Nothing is connected before the server listens.
LEMMA StartupStep == ASSUME Inv, Startup PROVE Inv'
  <1>1. TypeOK' BY DEF Inv, TypeOK, Startup
  <1>2. Serves' BY DEF Inv, Serves, Startup
  <1>3. Waiting' BY DEF Inv, Waiting, Startup
  <1>4. Fresh' /\ Resets' BY DEF Inv, Fresh, Resets, Startup
  <1>5. Streams' BY DEF Inv, Streams, InServer, Startup
  <1>6. NoConnectionLeak' BY DEF Inv, NoConnectionLeak, Startup
  <1> QED BY <1>1, <1>2, <1>3, <1>4, <1>5, <1>6 DEF Inv

\* accept() takes a connection that nobody else holds; the buffer is empty.
LEMMA AcceptStep == ASSUME Inv, Accept PROVE Inv'
  <1>1. /\ Len(queue) \in Nat \ {0} /\ queue' \in Seq(Clients)
        /\ Len(queue') = Len(queue) - 1
        /\ \A k \in 1..Len(queue') : queue'[k] = queue[k + 1]
        /\ cur' = queue[1] /\ cur' \in Clients
    BY DEF Inv, TypeOK, Accept
  <1>2. TypeOK' BY <1>1 DEF Inv, TypeOK, Accept
  <1>3. Serves' BY <1>1, EchoAssumption DEF Inv, Serves, Waiting, Accept
  <1>4. Waiting' BY <1>1 DEF Inv, Waiting, Accept
  <1>5. Fresh' /\ Resets' BY DEF Inv, Fresh, Resets, Accept
  <1>6. \A c \in Clients : InServer(c) = <<>> /\ InServer(c)' = <<>>
    BY DEF Inv, Serves, InServer, Accept
  <1>7. Streams' BY <1>6 DEF Inv, Streams, Accept
  <1>8. ASSUME NEW c \in Clients, sEnd[c] = "open", c # cur'
        PROVE  \E k \in DOMAIN queue' : queue'[k] = c
    <2>1. cur = NoOne BY DEF Inv, Serves, Accept
    <2>2. \E k \in DOMAIN queue : queue[k] = c
      BY <1>8, <2>1, EchoAssumption DEF Inv, NoConnectionLeak
    <2>3. DOMAIN queue = 1..Len(queue) BY DEF Inv, TypeOK
    <2>4. PICK k \in 1..Len(queue) : queue[k] = c BY <2>2, <2>3
    <2>5. k # 1 BY <1>1, <1>8, <2>4
    <2>6. k - 1 \in DOMAIN queue' /\ queue'[k - 1] = c BY <1>1, <2>4, <2>5
    <2> QED BY <2>6
  <1>9. NoConnectionLeak' BY <1>8 DEF NoConnectionLeak, Accept
  <1> QED BY <1>2, <1>3, <1>4, <1>5, <1>7, <1>9 DEF Inv

\* recv() moves the first bytes under way into the buffer.
LEMMA RecvStep == ASSUME Inv, Recv PROVE Inv'
  <1>0. cur \in Clients BY DEF Inv, TypeOK, Serves, Recv
  <1>1. CASE \E chunk \in Chunks(toS[cur]) :
               /\ buffer' = chunk
               /\ toS' = [toS EXCEPT ![cur] = Rest(@, chunk)]
               /\ srv' = "send"
    <2>1. PICK chunk \in Chunks(toS[cur]) :
               /\ buffer' = chunk
               /\ toS' = [toS EXCEPT ![cur] = Rest(@, chunk)]
               /\ srv' = "send"
      BY <1>1
    <2>2. toS[cur] \in Seq(Bytes) BY <1>0 DEF Inv, TypeOK
    <2>3. /\ chunk \in Seq(Bytes) /\ Rest(toS[cur], chunk) \in Seq(Bytes)
          /\ chunk \o Rest(toS[cur], chunk) = toS[cur]
      BY <2>2, Split
    <2>4. TypeOK' BY <1>0, <2>1, <2>3 DEF Inv, TypeOK, Recv
    <2>5. Serves' BY <2>1 DEF Inv, Serves, Recv
    <2>6. Waiting' BY DEF Inv, Waiting, Recv
    <2>7. Fresh' /\ Resets'
      BY <1>0, <2>1 DEF Inv, Fresh, Resets, Serves, Recv
    <2>8. ASSUME NEW c \in Clients, cEnd[c] = "open", sEnd[c] = "open"
          PROVE  ((rcvd[c] \o toC[c]) \o InServer(c)') \o toS'[c] = sent[c]
      <3>1. CASE c # cur
        <4>1. InServer(c)' = InServer(c) /\ toS'[c] = toS[c]
          BY <2>1, <3>1, <1>0 DEF InServer, Inv, TypeOK, Recv
        <4> QED BY <4>1, <2>8 DEF Inv, Streams
      <3>2. CASE c = cur
        <4> DEFINE r == rcvd[c] \o toC[c]
        <4>1. r \in Seq(Bytes) BY DEF Inv, TypeOK
        <4>2. InServer(c) = <<>> BY <3>2 DEF InServer, Inv, Serves, Recv
        <4>3. (r \o <<>>) \o toS[c] = sent[c]
          BY <2>8, <4>2 DEF Inv, Streams
        <4>4. InServer(c)' = chunk /\ toS'[c] = Rest(toS[cur], chunk)
          BY <2>1, <3>2, <1>0 DEF InServer, Inv, TypeOK, Recv
        <4> HIDE DEF r
        <4>5. r \o <<>> = r BY <4>1, ConcatEmptySeq
        <4>6. (r \o chunk) \o Rest(toS[cur], chunk) = r \o toS[cur]
          <5>1. (r \o chunk) \o Rest(toS[cur], chunk)
                  = r \o (chunk \o Rest(toS[cur], chunk))
            BY <4>1, <2>3, Regroup, Zenon
          <5> QED BY <5>1, <2>3, Zenon
        <4>7. (r \o InServer(c)') \o toS'[c] = sent[c]
          BY <3>2, <4>3, <4>4, <4>5, <4>6
        <4> QED BY <4>7 DEF r
      <3> QED BY <3>1, <3>2
    <2>9. Streams' BY <2>8 DEF Inv, Streams, Recv
    <2>10. NoConnectionLeak' BY DEF Inv, NoConnectionLeak, Recv
    <2> QED BY <2>4, <2>5, <2>6, <2>7, <2>9, <2>10 DEF Inv
  <1>2. CASE srv' = "close" /\ UNCHANGED <<buffer, toS>>
    <2>1. TypeOK' BY <1>2 DEF Inv, TypeOK, Recv
    <2>2. Serves' BY <1>2 DEF Inv, Serves, Recv
    <2>3. Waiting' BY DEF Inv, Waiting, Recv
    <2>4. Fresh' /\ Resets' BY <1>2 DEF Inv, Fresh, Resets, Recv
    <2>5. Streams' BY <1>2 DEF Inv, Streams, InServer, Recv
    <2>6. NoConnectionLeak' BY DEF Inv, NoConnectionLeak, Recv
    <2> QED BY <2>1, <2>2, <2>3, <2>4, <2>5, <2>6 DEF Inv
  <1> QED BY <1>1, <1>2 DEF Recv

\* send() puts the buffer behind what is on its way to the same client.
LEMMA SendStep == ASSUME Inv, Send PROVE Inv'
  <1>0. cur \in Clients /\ sEnd[cur] = "open"
    BY DEF Inv, TypeOK, Serves, Send
  <1>1. cl[cur] \notin {"start", "connect"} BY <1>0 DEF Inv, Fresh
  <1>2. CASE cEnd[cur] = "open"
    <2>1. toC' = [toC EXCEPT ![cur] = @ \o buffer] /\ UNCHANGED rstToS
      BY <1>2 DEF Send
    <2>2. buffer \in Seq(Bytes) /\ toC[cur] \in Seq(Bytes)
      BY <1>0 DEF Inv, TypeOK
    <2>3. toC[cur] \o buffer \in Seq(Bytes) BY <2>2
    <2>4. TypeOK' BY <1>0, <2>1, <2>3 DEF Inv, TypeOK, Send
    <2>5. Serves' BY DEF Inv, Serves, Send
    <2>6. Waiting' BY DEF Inv, Waiting, Send
    <2>7. Fresh' /\ Resets'
      BY <1>0, <1>1, <2>1 DEF Inv, Fresh, Resets, Send, TypeOK
    <2>8. ASSUME NEW c \in Clients
          PROVE  /\ IsPrefix(rcvd[c] \o toC'[c], sent[c])
                 /\ cEnd[c] = "open" /\ sEnd[c] = "open"
                      => ((rcvd[c] \o toC'[c]) \o InServer(c)') \o toS[c] = sent[c]
      <3>1. CASE c # cur
        <4>1. InServer(c)' = InServer(c) /\ toC'[c] = toC[c]
          BY <2>1, <3>1, <1>0 DEF InServer, Inv, TypeOK, Send
        <4> QED BY <4>1 DEF Inv, Streams
      <3>2. CASE c = cur
        <4> DEFINE r == rcvd[c] \o toC'[c]
        <4>1. /\ rcvd[c] \in Seq(Bytes) /\ toC[c] \in Seq(Bytes)
              /\ toS[c] \in Seq(Bytes)
          BY DEF Inv, TypeOK
        <4>2. InServer(c) = buffer /\ InServer(c)' = <<>> /\ toC'[c] = toC[c] \o buffer
          BY <2>1, <3>2, <1>0 DEF InServer, Send, Inv, TypeOK
        <4>3. ((rcvd[c] \o toC[c]) \o buffer) \o toS[c] = sent[c]
          BY <1>0, <1>2, <3>2, <4>2 DEF Inv, Streams
        <4>4. r = (rcvd[c] \o toC[c]) \o buffer /\ r \in Seq(Bytes)
          <5>1. /\ (rcvd[c] \o toC[c]) \o buffer = rcvd[c] \o (toC[c] \o buffer)
                /\ rcvd[c] \o (toC[c] \o buffer) \in Seq(Bytes)
            BY <4>1, <2>2, Regroup, Zenon
          <5> QED BY <5>1, <4>2, Zenon
        <4>5. r \o toS[c] = sent[c] BY <4>3, <4>4
        <4> HIDE DEF r
        <4>6. IsPrefix(r, sent[c])
          BY <4>1, <4>4, <4>5, PrefixOfConcat
        <4>7. (r \o <<>>) \o toS[c] = sent[c]
          BY <4>4, <4>5, ConcatEmptySeq
        <4> QED BY <4>2, <4>6, <4>7 DEF r
      <3> QED BY <3>1, <3>2
    <2>9. Streams' BY <2>8 DEF Streams, Send
    <2>10. NoConnectionLeak' BY DEF Inv, NoConnectionLeak, Send
    <2> QED BY <2>4, <2>5, <2>6, <2>7, <2>9, <2>10 DEF Inv
  <1>3. CASE cEnd[cur] # "open"
    <2>1. rstToS' = rstToS \cup {cur} /\ UNCHANGED toC
      BY <1>3 DEF Send
    <2>2. TypeOK' BY <1>0, <2>1 DEF Inv, TypeOK, Send
    <2>3. Serves' BY DEF Inv, Serves, Send
    <2>4. Waiting' BY DEF Inv, Waiting, Send
    <2>5. Fresh' /\ Resets'
      BY <1>0, <1>1, <1>3, <2>1 DEF Inv, Fresh, Resets, Send
    <2>6. \A c \in Clients : cEnd[c] = "open" => InServer(c)' = InServer(c)
      BY <1>3 DEF InServer, Send
    <2>7. Streams' BY <2>1, <2>6 DEF Inv, Streams, Send
    <2>8. NoConnectionLeak' BY DEF Inv, NoConnectionLeak, Send
    <2> QED BY <2>2, <2>3, <2>4, <2>5, <2>7, <2>8 DEF Inv
  <1> QED BY <1>2, <1>3

\* When send() fails the buffer is lost, but then the client has gone.
LEMMA SendFailsStep == ASSUME Inv, SendFails PROVE Inv'
  <1>0. cur \in Clients /\ cEnd[cur] # "open"
    BY DEF Inv, TypeOK, Serves, Resets, SendFails
  <1>1. TypeOK' BY DEF Inv, TypeOK, SendFails
  <1>2. Serves' BY DEF Inv, Serves, SendFails
  <1>3. Waiting' BY DEF Inv, Waiting, SendFails
  <1>4. Fresh' /\ Resets' BY DEF Inv, Fresh, Resets, SendFails
  <1>5. \A c \in Clients : cEnd[c] = "open" => InServer(c)' = InServer(c)
    BY <1>0 DEF InServer, SendFails
  <1>6. Streams' BY <1>5 DEF Inv, Streams, SendFails
  <1>7. NoConnectionLeak' BY DEF Inv, NoConnectionLeak, SendFails
  <1> QED BY <1>1, <1>2, <1>3, <1>4, <1>6, <1>7 DEF Inv

\* Closing sockets of the server only ends the obligation to echo.
LEMMA ServerClosesStep ==
  ASSUME Inv, NEW cs \in SUBSET {c \in Clients : sEnd[c] = "open"},
         ServerCloses(cs), UNCHANGED client,
         \A c \in Clients \ cs : InServer(c)' = InServer(c)
  PROVE  Fresh' /\ Resets' /\ Streams'
  <1>1. \A c \in Clients \ cs : sEnd'[c] = sEnd[c] /\ toS'[c] = toS[c]
    BY DEF ServerCloses
  <1>2. \A c \in cs : sEnd'[c] = "closed" /\ c \in Clients /\ sEnd[c] = "open"
    BY DEF ServerCloses
  <1>3. \A c \in cs : cl[c] \notin {"start", "connect"}
    BY <1>2 DEF Inv, Fresh
  <1>4. \A c \in rstToC' : c \in rstToC \/ c \in cs
    BY DEF ServerCloses
  <1>5. Fresh' BY <1>1, <1>3, <1>4 DEF Inv, Fresh, ServerCloses
  <1>6. Resets' BY <1>1, <1>2, <1>4 DEF Inv, Resets, ServerCloses
  <1>7. Streams' BY <1>1, <1>2, ZenonT(60) DEF Inv, Streams, ServerCloses
  <1> QED BY <1>5, <1>6, <1>7

\* The end of the server closes all connections.
LEMMA ServerEndsStep ==
  ASSUME Inv, NEW how \in {"sigpipe", "interrupted"}, ServerEnds(how)
  PROVE  Inv'
  <1> DEFINE cs == {c \in Clients : sEnd[c] = "open"}
  <1>1. TypeOK'
    <2>1. /\ sEnd' \in [Clients -> {"none", "open", "closed"}]
          /\ rstToC' \in SUBSET Clients
      BY DEF Inv, TypeOK, ServerEnds, ServerCloses
    <2>2. toS' \in [Clients -> Seq(Bytes)]
      BY DEF Inv, TypeOK, ServerEnds, ServerCloses
    <2> QED BY <2>1, <2>2 DEF Inv, TypeOK, ServerEnds, ServerCloses
  <1>2. Serves' BY DEF ServerEnds, Serves
  <1>3. Waiting' BY DEF ServerEnds, Waiting
  <1>4. \A c \in Clients \ cs : InServer(c)' = InServer(c)
    BY DEF Inv, Serves, InServer, ServerEnds
  <1>5. cs \in SUBSET {c \in Clients : sEnd[c] = "open"} /\ ServerCloses(cs)
    BY DEF ServerEnds
  <1>6. UNCHANGED client BY DEF ServerEnds
  <1>7. Fresh' /\ Resets' /\ Streams'
    BY <1>4, <1>5, <1>6, ServerClosesStep
  <1>8. NoConnectionLeak' BY DEF NoConnectionLeak, ServerEnds, ServerCloses
  <1> QED BY <1>1, <1>2, <1>3, <1>7, <1>8 DEF Inv

\* close(client_fd) closes the connection that was served, and no other.
LEMMA CloseClientStep == ASSUME Inv, CloseClient PROVE Inv'
  <1>0. cur \in Clients /\ sEnd[cur] = "open" /\ buffer = <<>>
    BY DEF Inv, TypeOK, Serves, CloseClient
  <1>1. TypeOK'
    <2>1. /\ sEnd' \in [Clients -> {"none", "open", "closed"}]
          /\ rstToC' \in SUBSET Clients
      BY <1>0 DEF Inv, TypeOK, CloseClient, ServerCloses
    <2>2. toS' \in [Clients -> Seq(Bytes)]
      BY DEF Inv, TypeOK, CloseClient, ServerCloses
    <2> QED BY <2>1, <2>2 DEF Inv, TypeOK, CloseClient, ServerCloses
  <1>2. Serves' BY <1>0 DEF CloseClient, Serves
  <1>3. ASSUME NEW k \in 1..Len(queue)
        PROVE  sEnd'[queue[k]] = "open" /\ queue[k] # cur'
    <2>1. queue[k] \in Clients BY DEF Inv, TypeOK
    <2>2. queue[k] # cur /\ sEnd[queue[k]] = "open" BY DEF Inv, Waiting
    <2> QED BY <2>1, <2>2, EchoAssumption DEF CloseClient, ServerCloses
  <1>4. Waiting' BY <1>3 DEF Inv, Waiting, CloseClient
  <1>5. \A c \in Clients : InServer(c)' = InServer(c)
    BY <1>0 DEF InServer, CloseClient
  <1>6. {cur} \in SUBSET {c \in Clients : sEnd[c] = "open"} /\ ServerCloses({cur})
        /\ UNCHANGED client
    BY <1>0 DEF CloseClient
  <1>7. Fresh' /\ Resets' /\ Streams' BY <1>5, <1>6, ServerClosesStep
  <1>8. NoConnectionLeak'
    BY <1>0 DEF Inv, NoConnectionLeak, CloseClient, ServerCloses
  <1> QED BY <1>1, <1>2, <1>4, <1>7, <1>8 DEF Inv

\* A client ends: its socket is closed and what had not been read is lost.
ClientEnds(c) ==
  /\ cl[c] \in {"prompt", "recv"}
  /\ cl' = [cl EXCEPT ![c] = "exited"]
  /\ ClientCloses(c)
  /\ UNCHANGED <<server, lines, sent, rcvd>>

\* That leaves the client a prefix and obliges the server to nothing.
LEMMA ClientEndsStep ==
  ASSUME Inv, NEW c \in Clients, ClientEnds(c)
  PROVE  Inv'
  <1>1. toS' \in [Clients -> Seq(Bytes)] /\ \A d \in Clients \ {c} : toS'[d] = toS[d]
    <2>1. ASSUME NEW k \in 0..Len(toS[c]),
                 toS' = [toS EXCEPT ![c] = SubSeq(@, 1, k)]
          PROVE  /\ toS' \in [Clients -> Seq(Bytes)]
                 /\ \A d \in Clients \ {c} : toS'[d] = toS[d]
      <3>1. SubSeq(toS[c], 1, k) \in Seq(Bytes)
        BY DEF Inv, TypeOK
      <3> QED BY <2>1, <3>1 DEF Inv, TypeOK
    <2>2. CASE UNCHANGED toS BY <2>2 DEF Inv, TypeOK
    <2> QED BY <2>1, <2>2 DEF ClientEnds, ClientCloses
  <1>2. /\ sErr' \in [Clients -> {"none", "reset", "epipe"}]
        /\ rstToS' \in SUBSET Clients
        /\ \A d \in Clients \ {c} :
             sErr'[d] = sErr[d] /\ (d \in rstToS' <=> d \in rstToS)
    BY DEF Inv, TypeOK, ClientEnds, ClientCloses
  <1>3. /\ cEnd' = [cEnd EXCEPT ![c] = "closed"] /\ toC' = [toC EXCEPT ![c] = <<>>]
        /\ cl' = [cl EXCEPT ![c] = "exited"]
        /\ UNCHANGED <<server, lines, sent, rcvd, sEnd, cErr, rstToC>>
    BY DEF ClientEnds, ClientCloses
  <1>4. TypeOK' BY <1>1, <1>2, <1>3, SMTT(40) DEF Inv, TypeOK
  <1>5. Serves' BY <1>3 DEF Inv, Serves
  <1>6. Waiting' BY <1>3 DEF Inv, Waiting
  <1>7. Fresh' BY <1>1, <1>2, <1>3 DEF Inv, TypeOK, Fresh
  <1>8. Resets' BY <1>2, <1>3 DEF Inv, TypeOK, Resets
  <1>9. ASSUME NEW d \in Clients
        PROVE  /\ IsPrefix(rcvd[d] \o toC'[d], sent[d])
               /\ cEnd'[d] = "open" /\ sEnd[d] = "open"
                    => ((rcvd[d] \o toC'[d]) \o InServer(d)') \o toS'[d] = sent[d]
    <2>1. CASE d = c
      <3>1. toC'[d] = <<>> /\ cEnd'[d] = "closed"
        BY <1>3, <2>1 DEF Inv, TypeOK
      <3>2. /\ rcvd[d] \in Seq(Bytes) /\ toC[d] \in Seq(Bytes) /\ sent[d] \in Seq(Bytes)
            /\ IsPrefix(rcvd[d] \o toC[d], sent[d])
        BY DEF Inv, TypeOK, Streams
      <3>3. IsPrefix(rcvd[d] \o <<>>, sent[d])
        BY <3>2, PrefixFirst
      <3> QED BY <3>1, <3>3
    <2>2. CASE d # c
      <3>1. toC'[d] = toC[d] /\ cEnd'[d] = cEnd[d] /\ toS'[d] = toS[d]
            /\ InServer(d)' = InServer(d)
        BY <1>1, <1>3, <2>2 DEF Inv, TypeOK, InServer
      <3> QED BY <3>1 DEF Inv, Streams
    <2> QED BY <2>1, <2>2
  <1>10. Streams' BY <1>3, <1>9 DEF Streams
  <1>11. NoConnectionLeak' BY <1>3 DEF Inv, NoConnectionLeak
  <1> QED BY <1>4, <1>5, <1>6, <1>7, <1>8, <1>10, <1>11 DEF Inv

\* A client that starts or fails to connect has no connection yet.
LEMMA NotConnectedStep ==
  ASSUME Inv, NEW c \in Clients, ClientStart(c) \/ ConnectFails(c)
  PROVE  Inv'
  <1>1. PICK next \in {"connect", "exited"} : cl' = [cl EXCEPT ![c] = next]
    BY DEF ClientStart, ConnectFails
  <1>2. /\ cl[c] \in {"start", "connect"}
        /\ UNCHANGED <<server, lines, sent, rcvd, network>>
    BY DEF ClientStart, ConnectFails
  <1>3. TypeOK' BY <1>1, <1>2 DEF Inv, TypeOK
  <1>4. Serves' BY <1>2 DEF Inv, Serves
  <1>5. Waiting' BY <1>2 DEF Inv, Waiting
  <1>6. \A d \in Clients :
          cl'[d] \in {"start", "connect"} => cl[d] \in {"start", "connect"}
    BY <1>1, <1>2 DEF Inv, TypeOK
  <1>7. Fresh' /\ Resets' BY <1>2, <1>6 DEF Inv, Fresh, Resets
  <1>8. Streams' BY <1>2 DEF Inv, Streams, InServer
  <1>9. NoConnectionLeak' BY <1>2 DEF Inv, NoConnectionLeak
  <1> QED BY <1>3, <1>4, <1>5, <1>7, <1>8, <1>9 DEF Inv

\* A new connection is last in the queue and nobody has served it before.
LEMMA ConnectStep ==
  ASSUME Inv, NEW c \in Clients, Connect(c)
  PROVE  Inv'
  <1>1. /\ queue \in Seq(Clients) /\ Len(queue) \in Nat
        /\ queue' \in Seq(Clients) /\ Len(queue') = Len(queue) + 1
        /\ \A k \in 1..Len(queue) : queue'[k] = queue[k] /\ queue[k] \in Clients
        /\ queue'[Len(queue) + 1] = c
    BY SMTT(40) DEF Inv, TypeOK, Connect
  <1>2. /\ cEnd[c] = "none" /\ sEnd[c] = "none" /\ sErr[c] = "none"
        /\ sent[c] = <<>> /\ rcvd[c] = <<>> /\ toS[c] = <<>> /\ toC[c] = <<>>
        /\ c \notin rstToC /\ c \notin rstToS
    BY DEF Inv, Fresh, Connect
  <1>3. cur # c BY <1>2, EchoAssumption DEF Inv, Serves
  <1>4. \A k \in 1..Len(queue) :
          queue[k] # c /\ sEnd[queue[k]] = "open" /\ queue[k] # cur
    BY <1>2 DEF Inv, Waiting
  <1>5. TypeOK' BY <1>1 DEF Inv, TypeOK, Connect
  <1>6. Serves'
    <2>1. cur # NoOne => cur \in Clients BY DEF Inv, TypeOK
    <2> QED BY <1>3, <2>1 DEF Inv, Serves, Connect, TypeOK
  <1>7. Waiting'
    <2>1. \A k \in 1..Len(queue') : k \in 1..Len(queue) \/ k = Len(queue) + 1
      BY <1>1
    <2>2. /\ cur' = cur /\ sEnd'[c] = "open"
          /\ \A d \in Clients \ {c} : sEnd'[d] = sEnd[d]
      BY DEF Inv, TypeOK, Connect
    <2>3. \A k \in 1..Len(queue') : sEnd'[queue'[k]] = "open" /\ queue'[k] # cur'
      BY <1>1, <1>3, <1>4, <2>1, <2>2
    <2>4. \A k, l \in 1..Len(queue') : queue'[k] = queue'[l] => k = l
      BY <1>1, <1>4, <2>1 DEF Inv, Waiting
    <2> QED BY <2>3, <2>4 DEF Waiting
  <1>8. Fresh' BY DEF Inv, TypeOK, Fresh, Connect
  <1>9. Resets' BY <1>2 DEF Inv, TypeOK, Resets, Connect
  <1>10. ASSUME NEW d \in Clients, cEnd'[d] = "open", sEnd'[d] = "open"
         PROVE  ((rcvd[d] \o toC[d]) \o InServer(d)) \o toS[d] = sent[d]
    <2>1. CASE d = c
      <3>1. InServer(d) = <<>> BY <1>3, <2>1 DEF InServer
      <3>2. ((<<>> \o <<>>) \o <<>>) \o <<>> = <<>> OBVIOUS
      <3> QED BY <1>2, <2>1, <3>1, <3>2
    <2>2. CASE d # c
      <3>1. cEnd[d] = "open" /\ sEnd[d] = "open"
        BY <1>10, <2>2 DEF Inv, TypeOK, Connect
      <3> QED BY <3>1 DEF Inv, Streams
    <2> QED BY <2>1, <2>2
  <1>11. Streams'
    <2>1. \A d \in Clients : InServer(d)' = InServer(d) BY DEF InServer, Connect
    <2> QED BY <1>10, <2>1 DEF Inv, Streams, Connect
  <1>12. ASSUME NEW d \in Clients, sEnd'[d] = "open", cur # d
         PROVE  \E k \in DOMAIN queue' : queue'[k] = d
    <2>1. DOMAIN queue = 1..Len(queue) /\ DOMAIN queue' = 1..Len(queue')
      BY <1>1
    <2>2. CASE d = c BY <1>1, <2>1, <2>2
    <2>3. CASE d # c
      <3>1. sEnd[d] = "open" BY <1>12, <2>3 DEF Inv, TypeOK, Connect
      <3>2. PICK k \in DOMAIN queue : queue[k] = d
        BY <1>12, <3>1 DEF Inv, NoConnectionLeak
      <3> QED BY <1>1, <2>1, <3>2
    <2> QED BY <2>2, <2>3
  <1>13. NoConnectionLeak' BY <1>12 DEF NoConnectionLeak, Connect
  <1> QED BY <1>5, <1>6, <1>7, <1>8, <1>9, <1>11, <1>13 DEF Inv

\* A line is sent, to the server or, when that has closed, to nobody.
LEMMA SendLineStep ==
  ASSUME Inv, NEW c \in Clients, SendLine(c)
  PROVE  Inv'
  <1> DEFINE line == Line(c, lines[c] + 1)
  <1>1. line \in Seq(Bytes) BY LineType DEF Inv, TypeOK
  <1>2. /\ sent' = [sent EXCEPT ![c] = @ \o line]
        /\ IF sEnd[c] = "open"
             THEN toS' = [toS EXCEPT ![c] = @ \o line] /\ UNCHANGED rstToC
             ELSE rstToC' = rstToC \cup {c} /\ UNCHANGED toS
        /\ lines' = [lines EXCEPT ![c] = @ + 1]
        /\ cl' = [cl EXCEPT ![c] = "recv"]
        /\ UNCHANGED <<server, rcvd, toC, cEnd, sEnd, cErr, sErr, rstToS>>
    BY DEF SendLine
  <1> HIDE DEF line
  <1>3. \A d \in Clients : /\ sent[d] \in Seq(Bytes) /\ rcvd[d] \in Seq(Bytes)
                           /\ toS[d] \in Seq(Bytes) /\ toC[d] \in Seq(Bytes)
    BY DEF Inv, TypeOK
  <1>4. sent[c] \o line \in Seq(Bytes) /\ toS[c] \o line \in Seq(Bytes)
    BY <1>1, <1>3
  <1>5. sent' \in [Clients -> Seq(Bytes)] /\ toS' \in [Clients -> Seq(Bytes)]
    BY <1>2, <1>4 DEF Inv, TypeOK
  <1>6. TypeOK'
    <2>1. /\ lines' \in [Clients -> Nat] /\ rstToC' \in SUBSET Clients
          /\ cl' \in [Clients -> {"start", "connect", "prompt", "recv", "exited"}]
      BY <1>2, SMTT(40) DEF Inv, TypeOK
    <2>2. UNCHANGED <<server, rcvd, toC, cEnd, sEnd, cErr, sErr, rstToS>>
      BY <1>2
    <2> QED BY <1>5, <2>1, <2>2 DEF Inv, TypeOK
  <1>7. Serves' BY <1>2 DEF Inv, Serves
  <1>8. Waiting' BY <1>2 DEF Inv, Waiting
  <1>9. Fresh'
    <2>1. \A d \in Clients \ {c} :
            /\ cl'[d] = cl[d] /\ sent'[d] = sent[d] /\ toS'[d] = toS[d]
            /\ (d \in rstToC' <=> d \in rstToC)
      BY <1>2 DEF Inv, TypeOK
    <2>2. cl'[c] = "recv" BY <1>2 DEF Inv, TypeOK
    <2> QED BY <1>2, <2>1, <2>2 DEF Inv, Fresh
  <1>10. Resets' BY <1>2 DEF Inv, Resets
  <1>11. ASSUME NEW d \in Clients
         PROVE  /\ IsPrefix(rcvd[d] \o toC[d], sent'[d])
                /\ cEnd[d] = "open" /\ sEnd[d] = "open"
                     => ((rcvd[d] \o toC[d]) \o InServer(d)) \o toS'[d] = sent'[d]
    <2>1. CASE d # c
      <3>1. sent'[d] = sent[d] /\ toS'[d] = toS[d] BY <1>2, <2>1 DEF Inv, TypeOK
      <3> QED BY <3>1 DEF Inv, Streams
    <2>2. CASE d = c
      <3> DEFINE r == rcvd[d] \o toC[d]
                 q == r \o InServer(d)
      <3>1. r \in Seq(Bytes) BY <1>3
      <3>2. InServer(d) \in Seq(Bytes) BY DEF InServer, Inv, TypeOK
      <3>3. q \in Seq(Bytes) BY <3>1, <3>2
      <3>4. sent'[d] = sent[d] \o line BY <1>2, <2>2 DEF Inv, TypeOK
      <3>5. /\ IsPrefix(r, sent[d])
            /\ cEnd[d] = "open" /\ sEnd[d] = "open" => q \o toS[d] = sent[d]
        BY DEF Inv, Streams
      <3>6. sEnd[d] = "open" => toS'[d] = toS[d] \o line
        BY <1>2, <2>2 DEF Inv, TypeOK
      <3> HIDE DEF r, q
      <3>7. IsPrefix(r, sent[d] \o line)
        BY <1>1, <1>3, <3>1, <3>5, PrefixMore
      <3>8. (q \o toS[d]) \o line = q \o (toS[d] \o line)
        BY <1>1, <1>3, <3>3, Regroup, ZenonT(60)
      <3>9. /\ IsPrefix(r, sent'[d])
            /\ cEnd[d] = "open" /\ sEnd[d] = "open" => q \o toS'[d] = sent'[d]
        BY <3>4, <3>5, <3>6, <3>7, <3>8
      <3> QED BY <3>9 DEF q, r
    <2> QED BY <2>1, <2>2
  <1>12. Streams'
    <2>1. \A d \in Clients : InServer(d)' = InServer(d) BY <1>2 DEF InServer
    <2> QED BY <1>2, <1>11, <2>1 DEF Streams
  <1>13. NoConnectionLeak' BY <1>2 DEF Inv, NoConnectionLeak
  <1> QED BY <1>6, <1>7, <1>8, <1>9, <1>10, <1>12, <1>13 DEF Inv

\* recv() in the client takes what comes next.
LEMMA RecvEchoStep ==
  ASSUME Inv, NEW c \in Clients, RecvEcho(c)
  PROVE  Inv'
  <1>1. PICK chunk \in Chunks(toC[c]) :
          /\ rcvd' = [rcvd EXCEPT ![c] = @ \o chunk]
          /\ toC' = [toC EXCEPT ![c] = Rest(@, chunk)]
    BY DEF RecvEcho
  <1>2. toC[c] \in Seq(Bytes) /\ rcvd[c] \in Seq(Bytes) BY DEF Inv, TypeOK
  <1> DEFINE rest == Rest(toC[c], chunk)
  <1>3. chunk \in Seq(Bytes) /\ rest \in Seq(Bytes) /\ chunk \o rest = toC[c]
    BY <1>2, Split
  <1>4. rcvd'[c] = rcvd[c] \o chunk /\ toC'[c] = rest
        /\ \A d \in Clients \ {c} : rcvd'[d] = rcvd[d] /\ toC'[d] = toC[d]
    BY <1>1 DEF Inv, TypeOK
  <1> HIDE DEF rest
  <1>5. rcvd[c] \o chunk \in Seq(Bytes) BY <1>2, <1>3
  <1>6. rcvd' \in [Clients -> Seq(Bytes)] /\ toC' \in [Clients -> Seq(Bytes)]
    BY <1>1, <1>3, <1>5 DEF Inv, TypeOK, rest
  <1>7. TypeOK' BY <1>6 DEF Inv, TypeOK, RecvEcho
  <1>8. Serves' BY DEF Inv, Serves, RecvEcho
  <1>9. Waiting' BY DEF Inv, Waiting, RecvEcho
  <1>10. cl'[c] = "prompt" /\ \A d \in Clients \ {c} : cl'[d] = cl[d]
    BY DEF Inv, TypeOK, RecvEcho
  <1>11. Fresh' BY <1>4, <1>10 DEF Inv, Fresh, RecvEcho
  <1>12. Resets' BY DEF Inv, Resets, RecvEcho
  <1>13. rcvd'[c] \o toC'[c] = rcvd[c] \o toC[c]
    <2>1. (rcvd[c] \o chunk) \o rest = rcvd[c] \o (chunk \o rest)
      BY <1>2, <1>3, Regroup, Zenon
    <2> QED BY <2>1, <1>3, <1>4, Zenon
  <1>14. \A d \in Clients : rcvd'[d] \o toC'[d] = rcvd[d] \o toC[d]
    BY <1>4, <1>13
  <1>15. \A d \in Clients : InServer(d)' = InServer(d) BY DEF InServer, RecvEcho
  <1>16. Streams' BY <1>14, <1>15 DEF Inv, Streams, RecvEcho
  <1>17. NoConnectionLeak' BY DEF Inv, NoConnectionLeak, RecvEcho
  <1> QED BY <1>7, <1>8, <1>9, <1>11, <1>12, <1>16, <1>17 DEF Inv

\* A RST that arrives at the server finds the client gone.
LEMMA RstAtServerStep ==
  ASSUME Inv, NEW c \in Clients, RstAtServer(c)
  PROVE  Inv'
  <1>1. /\ sErr' \in [Clients -> {"none", "reset", "epipe"}]
        /\ \A d \in Clients \ {c} : sErr'[d] = sErr[d]
    BY DEF Inv, TypeOK, RstAtServer
  <1>2. cEnd[c] # "open" /\ cl[c] \notin {"start", "connect"}
    BY DEF Inv, Resets, Fresh, RstAtServer
  <1>3. TypeOK' BY <1>1 DEF Inv, TypeOK, RstAtServer
  <1>4. Serves' BY DEF Inv, Serves, RstAtServer
  <1>5. Waiting' BY DEF Inv, Waiting, RstAtServer
  <1>6. Fresh' BY <1>1, <1>2 DEF Inv, Fresh, RstAtServer
  <1>7. Resets' BY <1>1, <1>2 DEF Inv, Resets, RstAtServer
  <1>8. Streams' BY DEF Inv, Streams, InServer, RstAtServer
  <1>9. NoConnectionLeak' BY DEF Inv, NoConnectionLeak, RstAtServer
  <1> QED BY <1>3, <1>4, <1>5, <1>6, <1>7, <1>8, <1>9 DEF Inv

\* A RST that arrives at a client cuts the echo short.
LEMMA RstAtClientStep ==
  ASSUME Inv, NEW c \in Clients, RstAtClient(c)
  PROVE  Inv'
  <1>1. PICK k \in 0..Len(toC[c]) : toC' = [toC EXCEPT ![c] = SubSeq(@, 1, k)]
    BY DEF RstAtClient
  <1>2. rcvd[c] \in Seq(Bytes) /\ toC[c] \in Seq(Bytes) /\ sent[c] \in Seq(Bytes)
    BY DEF Inv, TypeOK
  <1>3. SubSeq(toC[c], 1, k) \in Seq(Bytes) BY <1>2
  <1>4. toC'[c] = SubSeq(toC[c], 1, k) /\ \A d \in Clients \ {c} : toC'[d] = toC[d]
    BY <1>1 DEF Inv, TypeOK
  <1>5. sEnd[c] # "open" /\ cl[c] \notin {"start", "connect"}
    BY DEF Inv, Resets, Fresh, RstAtClient
  <1>6. TypeOK' BY <1>1, <1>3 DEF Inv, TypeOK, RstAtClient
  <1>7. Serves' BY DEF Inv, Serves, RstAtClient
  <1>8. Waiting' BY DEF Inv, Waiting, RstAtClient
  <1>9. Fresh' BY <1>4, <1>5 DEF Inv, Fresh, RstAtClient
  <1>10. Resets' BY <1>5 DEF Inv, Resets, RstAtClient
  <1>11. IsPrefix(rcvd[c] \o toC[c], sent[c]) BY DEF Inv, Streams
  <1>12. IsPrefix(rcvd[c] \o toC'[c], sent[c])
    BY <1>2, <1>4, <1>11, PrefixPart
  <1>13. \A d \in Clients : InServer(d)' = InServer(d) BY DEF InServer, RstAtClient
  <1>14. Streams' BY <1>4, <1>5, <1>12, <1>13 DEF Inv, Streams, RstAtClient
  <1>15. NoConnectionLeak' BY DEF Inv, NoConnectionLeak, RstAtClient
  <1> QED BY <1>6, <1>7, <1>8, <1>9, <1>10, <1>14, <1>15 DEF Inv

-----------------------------------------------------------------------------

\* The invariant holds before anything runs.
LEMMA InitInv == Init => Inv
  <1> SUFFICES ASSUME Init PROVE Inv OBVIOUS
  <1>1. <<>> \in Seq(Bytes) /\ <<>> \in Seq(Clients) /\ Len(<<>>) = 0 OBVIOUS
  <1>2. TypeOK BY <1>1 DEF Init, TypeOK
  <1>3. Serves /\ Waiting /\ Fresh /\ Resets /\ NoConnectionLeak
    BY <1>1 DEF Init, Serves, Waiting, Fresh, Resets, NoConnectionLeak
  <1>4. IsPrefix(<<>> \o <<>>, <<>>) BY DEF IsPrefix
  <1>5. Streams BY <1>4 DEF Init, Streams
  <1> QED BY <1>2, <1>3, <1>5 DEF Inv

\* Every step keeps it.
LEMMA StepInv == Inv /\ [Next]_vars => Inv'
  <1> SUFFICES ASSUME Inv, [Next]_vars PROVE Inv' OBVIOUS
  <1>1. CASE Server
    <2>1. CASE SendSigpipe BY <2>1, ServerEndsStep DEF SendSigpipe
    <2> QED BY <1>1, <2>1, StartupStep, AcceptStep, RecvStep, SendStep,
              SendFailsStep, CloseClientStep DEF Server
  <1>2. CASE Interrupt BY <1>2, ServerEndsStep DEF Interrupt
  <1>3. ASSUME NEW c \in Clients, Client(c) PROVE Inv'
    <2>1. CASE SendLineFails(c) \/ RecvEnds(c) \/ Quit(c)
      <3>1. ClientEnds(c)
        BY <2>1 DEF ClientEnds, SendLineFails, RecvEnds, Quit
      <3> QED BY <3>1, ClientEndsStep
    <2> QED BY <1>3, <2>1, NotConnectedStep, ConnectStep, SendLineStep,
              RecvEchoStep DEF Client, ClientReacts
  <1>4. CASE UNCHANGED vars
    <2>1. TypeOK' BY <1>4 DEF Inv, TypeOK
    <2>2. Serves' /\ Waiting' BY <1>4 DEF Inv, Serves, Waiting
    <2>3. Fresh' /\ Resets' BY <1>4 DEF Inv, Fresh, Resets
    <2>4. Streams' BY <1>4 DEF Inv, Streams, InServer
    <2>5. NoConnectionLeak' BY <1>4 DEF Inv, NoConnectionLeak
    <2> QED BY <2>1, <2>2, <2>3, <2>4, <2>5 DEF Inv
  <1> QED BY <1>1, <1>2, <1>3, <1>4, RstAtServerStep, RstAtClientStep
          DEF Next, AcceptFails, Terminated

\* The invariant holds throughout.
THEOREM Invariance == Spec => []Inv
  BY InitInv, StepInv, PTL DEF Spec

\* For any number of clients, lines and bytes a client receives what it sent,
\* in order and from the start, and while both ends are open nothing is lost,
\* although recv() and send() cut the streams anywhere, connections are reset
\* and one buffer serves all.
THEOREM EchoIntegrityCorrect == Spec => []EchoIntegrity
  <1>1. Inv => EchoIntegrity
    <2> SUFFICES ASSUME Inv, NEW c \in Clients
                 PROVE  /\ IsPrefix(rcvd[c], sent[c])
                        /\ cEnd[c] = "open" /\ sEnd[c] = "open"
                             => rcvd[c] \o toC[c] \o InServer(c) \o toS[c] = sent[c]
      BY DEF EchoIntegrity
    <2>1. /\ rcvd[c] \in Seq(Bytes) /\ toC[c] \in Seq(Bytes) /\ sent[c] \in Seq(Bytes)
          /\ IsPrefix(rcvd[c] \o toC[c], sent[c])
      BY DEF Inv, TypeOK, Streams
    <2>2. IsPrefix(rcvd[c], sent[c]) BY <2>1, PrefixFirst
    <2> QED BY <2>2 DEF Inv, Streams
  <1> QED BY <1>1, Invariance, PTL

\* For any number of clients, what is open on the server's side is the
\* connection being served or one in the queue: none is forgotten, whichever
\* way its session ended.
THEOREM NoConnectionLeakCorrect == Spec => []NoConnectionLeak
  <1>1. Inv => NoConnectionLeak BY DEF Inv
  <1> QED BY <1>1, Invariance, PTL

-----------------------------------------------------------------------------
(* Waiting for the echo                                                    *)

\* A client in its loop has its socket, and the kernel has had the other end.
Connected ==
  \A c \in Clients : cl[c] \in {"prompt", "recv"} =>
    cEnd[c] = "open" /\ sEnd[c] # "none"

\* A client in recv() has not received all it sent: at most one recv() per
\* line, which does not catch up with the line sent just before it.
Owed == \A c \in Clients : cl[c] = "recv" => Len(rcvd[c]) < Len(sent[c])

\* The server hangs up only on a client that has gone, it has something to
\* send when it sends, and leaves no connection in the queue when it ends.
HangsUp ==
  /\ srv = "close" => cEnd[cur] # "open"
  /\ srv = "send" => buffer # <<>>
  /\ ~Listening => queue = <<>>

WaitInv == Connected /\ Owed /\ HangsUp

\* A line is not empty.
LEMMA LineLength ==
  ASSUME NEW c \in Clients, NEW n \in Nat
  PROVE  Len(Line(c, n)) = LineLen /\ LineLen > 0
  BY EchoAssumption DEF Line

\* The server leaves the clients alone, but may close its ends.
LEMMA ClientsAlone ==
  ASSUME Inv, Connected, Owed, UNCHANGED <<client, cEnd>>,
         \A c \in Clients : sEnd'[c] = sEnd[c] \/ sEnd'[c] = "closed"
  PROVE  Connected' /\ Owed'
  <1>1. Connected' BY DEF Connected
  <1>2. Owed' BY DEF Owed
  <1> QED BY <1>1, <1>2

\* Every step keeps what a waiting client relies on.
LEMMA WaitStep == ASSUME Inv, WaitInv, [Next]_vars PROVE WaitInv'
  <1> USE DEF WaitInv
  <1>1. CASE Startup \/ Accept \/ SendFails \/ UNCHANGED vars
    <2>1. UNCHANGED <<client, cEnd, sEnd>> BY <1>1 DEF Startup, Accept, SendFails
    <2>2. Connected' /\ Owed' BY <2>1, ClientsAlone
    <2>3. CASE Startup BY <2>2, <2>3 DEF HangsUp, Startup, Listening
    <2>4. CASE Accept BY <2>2, <2>4 DEF HangsUp, Accept, Listening
    <2>5. CASE SendFails
      <3>1. cur \in Clients /\ cEnd[cur] # "open"
        BY <2>5 DEF Inv, TypeOK, Serves, Resets, SendFails
      <3> QED BY <2>2, <2>5, <3>1 DEF HangsUp, SendFails, Listening
    <2>6. CASE UNCHANGED vars BY <2>2, <2>6 DEF HangsUp, Listening
    <2> QED BY <1>1, <2>2, <2>3, <2>4, <2>5, <2>6 DEF WaitInv
  <1>2. CASE Recv
    <2>1. cur \in Clients BY <1>2 DEF Inv, TypeOK, Serves, Recv
    <2>2. Connected' /\ Owed' BY <1>2, ClientsAlone DEF Recv
    <2>3. srv' = "close" => cEnd[cur] # "open"
      BY <1>2, <2>1 DEF Inv, Resets, Recv
    <2>4. \A chunk \in Chunks(toS[cur]) : chunk # <<>>
      <3>1. toS[cur] \in Seq(Bytes) BY <2>1 DEF Inv, TypeOK
      <3>2. \A k \in 1..Len(toS[cur]) : Len(SubSeq(toS[cur], 1, k)) > 0 BY <3>1
      <3> QED BY <3>2 DEF Chunks
    <2>5. srv' = "send" => buffer' # <<>> BY <1>2, <2>4 DEF Recv
    <2>6. srv' \in {"send", "close"} /\ UNCHANGED <<cur, cEnd>> BY <1>2 DEF Recv
    <2>7. HangsUp' BY <2>3, <2>5, <2>6 DEF HangsUp, Listening
    <2> QED BY <2>2, <2>7
  <1>3. CASE Send
    <2>1. Connected' /\ Owed' BY <1>3, ClientsAlone DEF Send
    <2>2. HangsUp' BY <1>3 DEF HangsUp, Send, Listening
    <2> QED BY <2>1, <2>2
  <1>4. CASE SendSigpipe \/ Interrupt \/ CloseClient
    <2>1. /\ UNCHANGED <<client, cEnd>>
          /\ \A c \in Clients : sEnd'[c] = sEnd[c] \/ sEnd'[c] = "closed"
      BY <1>4 DEF SendSigpipe, Interrupt, ServerEnds, CloseClient, ServerCloses
    <2>2. Connected' /\ Owed' BY <2>1, ClientsAlone
    <2>3. \/ srv' = "accept"
          \/ srv' \in {"sigpipe", "interrupted"} /\ queue' = <<>>
      BY <1>4 DEF SendSigpipe, Interrupt, ServerEnds, CloseClient
    <2>4. HangsUp' BY <2>3 DEF HangsUp, Listening
    <2> QED BY <2>2, <2>4
  <1>5. ASSUME NEW c \in Clients, ClientEnds(c) PROVE WaitInv'
    <2>1. /\ UNCHANGED <<server, lines, sent, rcvd, sEnd>>
          /\ cEnd' = [cEnd EXCEPT ![c] = "closed"]
          /\ cl' = [cl EXCEPT ![c] = "exited"]
      BY <1>5 DEF ClientEnds, ClientCloses
    <2>2. Connected' BY <2>1 DEF Inv, TypeOK, Connected
    <2>3. Owed' BY <2>1 DEF Inv, TypeOK, Owed
    <2>4. HangsUp'
      <3>1. cEnd'[cur] # "open" \/ cEnd'[cur] = cEnd[cur]
        BY <2>1 DEF Inv, TypeOK
      <3> QED BY <2>1, <3>1 DEF HangsUp, Listening
    <2> QED BY <2>2, <2>3, <2>4
  <1>6. ASSUME NEW c \in Clients, ClientStart(c) \/ ConnectFails(c) PROVE WaitInv'
    <2>1. PICK next \in {"connect", "exited"} : cl' = [cl EXCEPT ![c] = next]
      BY <1>6 DEF ClientStart, ConnectFails
    <2>2. UNCHANGED <<server, lines, sent, rcvd, network>>
      BY <1>6 DEF ClientStart, ConnectFails
    <2>3. \A d \in Clients : cl'[d] \in {"prompt", "recv"} => cl'[d] = cl[d]
      BY <2>1 DEF Inv, TypeOK
    <2>4. Connected' BY <2>2, <2>3 DEF Connected
    <2>5. Owed' BY <2>2, <2>3 DEF Owed
    <2>6. HangsUp' BY <2>2 DEF HangsUp, Listening
    <2> QED BY <2>4, <2>5, <2>6
  <1>7. ASSUME NEW c \in Clients, Connect(c) PROVE WaitInv'
    <2>1. Connected' BY <1>7 DEF Inv, TypeOK, Connected, Connect
    <2>2. Owed' BY <1>7 DEF Inv, TypeOK, Owed, Connect
    <2>3. HangsUp'
      <3>1. srv = "close" => cur \in Clients /\ sEnd[cur] = "open"
        BY DEF Inv, TypeOK, Serves
      <3>2. sEnd[c] = "none" BY <1>7 DEF Inv, Fresh, Connect
      <3>3. srv = "close" => cEnd'[cur] = cEnd[cur]
        BY <1>7, <3>1, <3>2 DEF Inv, TypeOK, Connect
      <3> QED BY <1>7, <3>3 DEF HangsUp, Connect, Listening
    <2> QED BY <2>1, <2>2, <2>3
  <1>8. ASSUME NEW c \in Clients, SendLine(c) PROVE WaitInv'
    <2> DEFINE line == Line(c, lines[c] + 1)
    <2>0. lines[c] + 1 \in Nat BY DEF Inv, TypeOK
    <2>1. line \in Seq(Bytes) /\ Len(line) > 0
      BY <2>0, LineType, LineLength
    <2>2. /\ cl[c] = "prompt" /\ cl' = [cl EXCEPT ![c] = "recv"]
          /\ sent' = [sent EXCEPT ![c] = @ \o line]
          /\ UNCHANGED <<server, rcvd, cEnd, sEnd>>
      BY <1>8 DEF SendLine
    <2> HIDE DEF line
    <2>3. Connected' BY <2>2 DEF Inv, TypeOK, Connected
    <2>4. HangsUp' BY <2>2 DEF HangsUp, Listening
    <2>5. /\ rcvd[c] \in Seq(Bytes) /\ toC[c] \in Seq(Bytes) /\ sent[c] \in Seq(Bytes)
          /\ IsPrefix(rcvd[c] \o toC[c], sent[c])
      BY DEF Inv, TypeOK, Streams
    <2>6. Len(rcvd[c]) <= Len(sent[c])
      BY <2>5, PrefixFirst DEF IsPrefix
    <2>7. sent'[c] = sent[c] \o line /\ rcvd'[c] = rcvd[c] BY <2>2 DEF Inv, TypeOK
    <2>8. Len(sent[c] \o line) = Len(sent[c]) + Len(line) BY <2>1, <2>5
    <2>9. Len(rcvd'[c]) < Len(sent'[c]) BY <2>1, <2>5, <2>6, <2>7, <2>8
    <2>10. \A d \in Clients \ {c} :
             cl'[d] = cl[d] /\ sent'[d] = sent[d] /\ rcvd'[d] = rcvd[d]
      BY <2>2 DEF Inv, TypeOK
    <2>11. Owed' BY <2>9, <2>10 DEF Owed
    <2> QED BY <2>3, <2>4, <2>11
  <1>9. ASSUME NEW c \in Clients, RecvEcho(c) PROVE WaitInv'
    <2>1. /\ cl[c] = "recv" /\ cl' = [cl EXCEPT ![c] = "prompt"]
          /\ UNCHANGED <<server, sent, cEnd, sEnd>>
      BY <1>9 DEF RecvEcho
    <2>2. \A d \in Clients \ {c} : rcvd'[d] = rcvd[d] BY <1>9 DEF Inv, TypeOK, RecvEcho
    <2>3. Connected' BY <2>1 DEF Inv, TypeOK, Connected
    <2>4. \A d \in Clients : cl'[d] = "recv" => d # c /\ cl[d] = "recv"
      BY <2>1 DEF Inv, TypeOK
    <2>5. Owed' BY <2>1, <2>2, <2>4 DEF Owed
    <2>6. HangsUp' BY <2>1 DEF HangsUp, Listening
    <2> QED BY <2>3, <2>5, <2>6
  <1>10. ASSUME NEW c \in Clients, RstAtServer(c) \/ RstAtClient(c) PROVE WaitInv'
    <2>1. UNCHANGED <<server, client, cEnd, sEnd>>
      BY <1>10 DEF RstAtServer, RstAtClient
    <2>2. Connected' /\ Owed' BY <2>1, ClientsAlone
    <2>3. HangsUp' BY <2>1 DEF HangsUp, Listening
    <2> QED BY <2>2, <2>3
  <1>11. ASSUME NEW c \in Clients, SendLineFails(c) \/ RecvEnds(c) \/ Quit(c)
         PROVE  ClientEnds(c)
    BY <1>11 DEF ClientEnds, SendLineFails, RecvEnds, Quit
  <1> QED BY <1>1, <1>2, <1>3, <1>4, <1>5, <1>6, <1>7, <1>8, <1>9, <1>10, <1>11
          DEF Next, Server, Client, ClientReacts, AcceptFails, Terminated

\* With both ends open, what is owed is somewhere on its way.
LEMMA OnItsWay ==
  ASSUME Inv, NEW c \in Clients, cEnd[c] = "open", sEnd[c] = "open",
         Len(rcvd[c]) < Len(sent[c])
  PROVE  toC[c] # <<>> \/ InServer(c) # <<>> \/ toS[c] # <<>>
  <1>1. ((rcvd[c] \o toC[c]) \o InServer(c)) \o toS[c] = sent[c]
    BY DEF Inv, Streams
  <1>2. rcvd[c] \in Seq(Bytes) BY DEF Inv, TypeOK
  <1>3. ((rcvd[c] \o <<>>) \o <<>>) \o <<>> = rcvd[c] BY <1>2, ConcatEmptySeq
  <1>4. SUFFICES ASSUME toC[c] = <<>>, InServer(c) = <<>>, toS[c] = <<>>
                 PROVE  FALSE
    OBVIOUS
  <1>5. rcvd[c] = sent[c] BY <1>1, <1>3, <1>4
  <1> QED BY <1>2, <1>5

\* For any number of clients, lines and bytes, a client that waits for its echo
\* has something coming or its connection closed: the safety half of
\* NoWaitInVain, without which no fairness would help.
THEOREM AnswerableCorrect == Spec => []Answerable
  <1>1. Init => WaitInv
    BY DEF Init, WaitInv, Connected, Owed, HangsUp
  <1>2. ASSUME Inv, WaitInv PROVE Answerable
    <2> SUFFICES ASSUME NEW c \in Clients, cl[c] = "recv"
                 PROVE  /\ cur = c => \/ toC[c] # <<>>
                                      \/ srv = "send" /\ buffer # <<>> /\ sErr[c] = "none"
                                      \/ srv = "recv" /\ toS[c] # <<>>
                        /\ ~Listening => sEnd[c] = "closed"
      BY DEF Answerable
    <2>1. /\ cEnd[c] = "open" /\ sEnd[c] # "none" /\ Len(rcvd[c]) < Len(sent[c])
          /\ sErr[c] = "none"
      BY <1>2 DEF WaitInv, Connected, Owed, Inv, Resets
    <2>2. ASSUME cur = c
          PROVE  \/ toC[c] # <<>>
                 \/ srv = "send" /\ buffer # <<>>
                 \/ srv = "recv" /\ toS[c] # <<>>
      <3>1. sEnd[c] = "open" /\ srv \in {"recv", "send", "close"}
            /\ (srv # "send" => buffer = <<>>)
        BY <2>2, EchoAssumption, <1>2 DEF Inv, Serves
      <3>2. srv # "close" /\ (srv = "send" => buffer # <<>>)
        BY <1>2, <2>1, <2>2 DEF WaitInv, HangsUp
      <3>3. toC[c] # <<>> \/ buffer # <<>> \/ toS[c] # <<>>
        BY <1>2, <2>1, <2>2, <3>1, OnItsWay DEF InServer
      <3> QED BY <3>1, <3>2, <3>3, Zenon
    <2>3. ASSUME ~Listening PROVE sEnd[c] = "closed"
      <3>1. queue = <<>> /\ DOMAIN queue = 1..Len(queue)
        BY <1>2, <2>3 DEF WaitInv, HangsUp, Inv, TypeOK
      <3>2. cur = NoOne BY <1>2, <2>3 DEF Inv, Serves, Listening
      <3>3. sEnd[c] # "open"
        BY <1>2, <3>1, <3>2, EchoAssumption DEF Inv, NoConnectionLeak
      <3> QED BY <1>2, <2>1, <3>3 DEF Inv, TypeOK
    <2> QED BY <2>1, <2>2, <2>3
  <1> QED BY <1>1, <1>2, WaitStep, Invariance, PTL DEF Spec

=============================================================================
