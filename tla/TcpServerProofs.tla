--------------------------- MODULE TcpServerProofs ---------------------------
(***************************************************************************)
(* Proofs about TcpServer with its clients and its pool, for every set of  *)
(* connections, number of workers and requests, payload limit and socket   *)
(* buffer.                                                                 *)
(***************************************************************************)
EXTENDS TcpServer, FiniteSetTheorems, SequenceTheorems, TLAPS

(* A reader stops at a length it does not accept, and at the end of the    *)
(* frame the length announces.                                             *)
WithinFrame(f) == f = <<>> \/ (IF LengthOK(f[1]) THEN Len(f) <= f[1] - 2 ELSE Len(f) = 1)

(* The streams of every connection.                                        *)
StreamInv ==
  /\ wire \in [Ends -> Seq(Nat)] /\ \A e \in Ends : Len(wire[e]) <= SockBuf
  /\ out \in [Ends -> Seq(Nat)]
  /\ got \in [Ends -> Seq(Nat)] /\ \A e \in Ends : WithinFrame(got[e])
  /\ shut \subseteq Ends

(* What the clients have done and seen.                                    *)
ClientInv ==
  /\ client \in [Conns -> {"new", "idle", "send", "recv", "failed", "closed"}]
  /\ asked \in [Conns -> Nat] /\ \A c \in Conns : asked[c] <= Requests[c]
  /\ handled \in [Conns -> Seq(Seq(Nat))] /\ answered \in [Conns -> Seq(Seq(Nat))]
  /\ reused \subseteq Conns

(* The accept loop: an event of the batch that has not been looked at is   *)
(* still true, since each descriptor is reported once.                     *)
LoopInv ==
  /\ backlog \in Seq(Conns) /\ pipe \in BOOLEAN
  /\ loop \in {"out", "wait", "batch"} /\ (events # <<>> <=> loop = "batch")
  /\ events \in Seq({"accept", "stop"})
  /\ \A i, j \in 1..Len(events) : events[i] = events[j] => i = j
  /\ \A i \in 1..Len(events) : events[i] = "accept" => backlog # <<>>
  /\ life \in {"alive", "closing", "joining", "dead"}
  /\ loop # "out" => life = "alive"

(* The pool: a connection that was accepted is waiting, being served or    *)
(* closed, and the workers leave only when all of them are closed.         *)
ServeInv ==
  /\ submitted \subseteq Conns /\ queue \in Seq(Conns) /\ running \subseteq Conns
  /\ closed \in BOOLEAN /\ gone \in BOOLEAN
  /\ \A c \in submitted :
       c \in running \/ Server(c) \in shut \/ \E i \in 1..Len(queue) : queue[i] = c
  /\ closed => life \in {"joining", "dead"}
  /\ gone => closed /\ queue = <<>> /\ running = {}
  /\ life = "dead" => gone

ServerInv == StreamInv /\ ClientInv /\ LoopInv /\ ServeInv

-----------------------------------------------------------------------------
(***************************************************************************)
(* Frames and streams.                                                     *)
(***************************************************************************)

(* Every connection has two ends, each other's peer.                       *)
LEMMA EndsOfConn ==
  /\ \A c \in Conns : Client(c) \in Ends /\ Server(c) \in Ends
  /\ \A e \in Ends : Peer(e) \in Ends
  BY DEF Client, Server, Ends, Peer

(* A frame is a sequence of numbers.                                       *)
LEMMA FrameType ==
  ASSUME NEW id \in Nat, NEW size \in Nat
  PROVE  Frame(id, size) \in Seq(Nat)
<1>1. <<5 + size, id, id>> \in Seq(Nat)
  OBVIOUS
<1>2. [i \in 1..size |-> id] \in Seq(Nat)
  OBVIOUS
<1> QED
  BY <1>1, <1>2, ConcatProperties DEF Frame

(* So is every request of a client.                                        *)
LEMMA RequestType == ASSUME NEW i \in Nat, i >= 1 PROVE Request(i) \in Seq(Nat)
<1>1. (i - 1) % (MaxPayload + 1) \in Nat
  BY FramingAssumption
<1> QED
  BY <1>1, FrameType DEF Request

(* A reader that goes on only inside a frame stays within the frame.       *)
LEMMA ReadOne ==
  ASSUME NEW f \in Seq(Nat), WithinFrame(f), ~Malformed(f), ~Complete(f), NEW x \in Nat
  PROVE  WithinFrame(Append(f, x))
<1> DEFINE g == Append(f, x)
<1>1. g \in Seq(Nat) /\ Len(g) = Len(f) + 1 /\ Len(f) \in Nat /\ g # <<>>
  OBVIOUS
<1>2. CASE f = <<>>
  <2>1. Len(g) = 1 /\ g[1] = x
    BY <1>2
  <2> QED
    BY <1>1, <2>1 DEF WithinFrame, LengthOK
<1>3. CASE f # <<>>
  <2>1. g[1] = f[1] /\ f[1] \in Nat /\ Len(f) >= 1
    BY <1>3
  <2>2. f[1] >= 5 /\ LengthOK(f[1]) /\ Len(f) <= f[1] - 2
    BY <1>3 DEF Malformed, WithinFrame, LengthOK
  <2>3. Len(f) + 1 <= f[1] - 2
    BY <2>1, <2>2, <1>1 DEF Complete
  <2> QED
    BY <1>1, <2>1, <2>2, <2>3 DEF WithinFrame
<1> QED
  BY <1>2, <1>3

(* send() and recv(), the end of a socket, and a new frame to send.        *)
LEMMA SendStream == ASSUME StreamInv, NEW e \in Ends, Send(e) PROVE StreamInv'
<1>1. /\ out[e] \in Seq(Nat) /\ out[e] # <<>>
      /\ wire[Peer(e)] \in Seq(Nat) /\ Peer(e) \in Ends /\ Len(wire[Peer(e)]) < SockBuf
  BY EndsOfConn DEF StreamInv, Send
<1>2. Head(out[e]) \in Nat /\ Tail(out[e]) \in Seq(Nat)
  BY <1>1
<1>3. out' \in [Ends -> Seq(Nat)]
  BY <1>1, <1>2 DEF StreamInv, Send
<1>4. Append(wire[Peer(e)], Head(out[e])) \in Seq(Nat)
      /\ Len(Append(wire[Peer(e)], Head(out[e]))) <= SockBuf
  BY <1>1, <1>2, FramingAssumption
<1>5. wire' \in [Ends -> Seq(Nat)] /\ \A d \in Ends : Len(wire'[d]) <= SockBuf
  BY <1>1, <1>4 DEF StreamInv, Send
<1> QED
  BY <1>3, <1>5 DEF StreamInv, Send

(* One recv() inside a frame.                                              *)
LEMMA RecvStream ==
  ASSUME StreamInv, NEW e \in Ends, Recv(e), ~Malformed(got[e]), ~Complete(got[e])
  PROVE  StreamInv'
<1>1. wire[e] \in Seq(Nat) /\ wire[e] # <<>> /\ got[e] \in Seq(Nat) /\ WithinFrame(got[e])
      /\ Len(wire[e]) <= SockBuf
  BY DEF StreamInv, Recv
<1>2. Head(wire[e]) \in Nat /\ Tail(wire[e]) \in Seq(Nat) /\ Len(Tail(wire[e])) <= SockBuf
  BY <1>1, FramingAssumption
<1>3. WithinFrame(Append(got[e], Head(wire[e]))) /\ Append(got[e], Head(wire[e])) \in Seq(Nat)
  BY <1>1, <1>2, ReadOne
<1>4. got' \in [Ends -> Seq(Nat)] /\ \A d \in Ends : WithinFrame(got'[d])
  BY <1>1, <1>3 DEF StreamInv, Recv
<1>5. wire' \in [Ends -> Seq(Nat)] /\ \A d \in Ends : Len(wire'[d]) <= SockBuf
  BY <1>1, <1>2 DEF StreamInv, Recv
<1> QED
  BY <1>4, <1>5 DEF StreamInv, Recv

(* close() empties what belongs to the end.                                *)
LEMMA CloseStream == ASSUME StreamInv, NEW e \in Ends, CloseEnd(e) PROVE StreamInv'
<1>1. <<>> \in Seq(Nat) /\ WithinFrame(<<>>) /\ Len(<<>>) <= SockBuf
  BY FramingAssumption DEF WithinFrame
<1>2. /\ wire' \in [Ends -> Seq(Nat)] /\ \A d \in Ends : Len(wire'[d]) <= SockBuf
      /\ out' \in [Ends -> Seq(Nat)]
  BY <1>1 DEF StreamInv, CloseEnd
<1>3. got' \in [Ends -> Seq(Nat)] /\ \A d \in Ends : WithinFrame(got'[d])
  BY <1>1 DEF StreamInv, CloseEnd
<1> QED
  BY <1>2, <1>3 DEF StreamInv, CloseEnd

(* A frame that was read is taken away; a frame to be sent is put in out.  *)
LEMMA FrameStream ==
  ASSUME StreamInv, UNCHANGED <<wire, shut>>, NEW e \in Ends, NEW s \in Seq(Nat),
         out' = [out EXCEPT ![e] = s] \/ out' = out,
         got' = [got EXCEPT ![e] = <<>>] \/ got' = got
  PROVE  StreamInv'
<1>1. out' \in [Ends -> Seq(Nat)]
  BY DEF StreamInv
<1>2. <<>> \in Seq(Nat) /\ WithinFrame(<<>>)
  BY DEF WithinFrame
<1>3. got' \in [Ends -> Seq(Nat)] /\ \A d \in Ends : WithinFrame(got'[d])
  BY <1>2 DEF StreamInv
<1> QED
  BY <1>1, <1>3 DEF StreamInv

-----------------------------------------------------------------------------
(***************************************************************************)
(* The four parts of the invariant, step by step.                          *)
(***************************************************************************)

(* Nothing is connected, sent or submitted at first.                       *)
LEMMA ServerInit == Init => ServerInv
<1> SUFFICES ASSUME Init PROVE ServerInv
  OBVIOUS
<1>1. StreamInv
  BY FramingAssumption DEF Init, StreamInit, StreamInv, WithinFrame
<1>2. ClientInv
  BY ServerAssumption DEF Init, ClientInv
<1>3. pipe \in BOOLEAN /\ closed \in BOOLEAN /\ gone \in BOOLEAN
  BY DEF Init, PoolInit
<1>4. LoopInv
  BY <1>3 DEF Init, LoopInv
<1>5. ServeInv
  BY <1>3 DEF Init, PoolInit, ServeInv
<1> QED
  BY <1>1, <1>2, <1>4, <1>5 DEF ServerInv

(* Readers and writers of both ends keep to their frames.                  *)
LEMMA StreamStep == ASSUME ServerInv, [Next]_vars PROVE StreamInv'
<1> USE DEF ServerInv
<1>0. \A c \in Conns : Client(c) \in Ends /\ Server(c) \in Ends
  BY EndsOfConn
<1>1. ASSUME UNCHANGED streamVars PROVE StreamInv'
  BY <1>1 DEF StreamInv, streamVars
<1>2. ASSUME NEW c \in Conns, ClientSend(c) PROVE StreamInv'
  <2>1. asked[c] \in Nat /\ asked'[c] = asked[c] + 1
    BY <1>2 DEF ClientSend, ClientInv
  <2>2. Request(asked'[c]) \in Seq(Nat)
    BY <2>1, RequestType
  <2> QED
    BY <1>0, <1>2, <2>2, FrameStream DEF ClientSend
<1>3. ASSUME NEW c \in Conns, NEW len \in Nat, SendMalformed(c, len) PROVE StreamInv'
  <2>1. <<len>> \in Seq(Nat)
    OBVIOUS
  <2> QED
    BY <1>0, <1>3, <2>1, FrameStream DEF SendMalformed
<1>4. ASSUME NEW c \in Conns, ClientSends(c) \/ ServerSends(c) PROVE StreamInv'
  BY <1>0, <1>4, SendStream DEF ClientSends, ServerSends
<1>5. ASSUME NEW c \in Conns, ClientReceives(c) \/ ServerReceives(c) PROVE StreamInv'
  BY <1>0, <1>5, RecvStream DEF ClientReceives, ServerReceives, Reading
<1>6. ASSUME NEW c \in Conns, ClientRecvReturns(c) PROVE StreamInv'
  <2>1. got' = [got EXCEPT ![Client(c)] = <<>>] /\ UNCHANGED <<wire, out, shut>> /\ <<>> \in Seq(Nat)
    BY <1>6 DEF ClientRecvReturns
  <2> QED
    BY <1>0, <2>1, FrameStream
<1>7. ASSUME NEW c \in Conns, Handle(c) PROVE StreamInv'
  <2>1. got[Server(c)] \in Seq(Nat)
    BY <1>0 DEF StreamInv
  <2> QED
    BY <1>0, <1>7, <2>1, FrameStream DEF Handle
<1>8. ASSUME NEW c \in Conns, ClientClose(c) PROVE StreamInv'
  BY <1>0, <1>8, CloseStream DEF ClientClose
<1>9. ASSUME NEW c \in Conns,
             HandleOversized(c) \/ ConnectionFails(c) \/ ReceiveTimesOut(c) \/ Interrupted(c)
      PROVE  StreamInv'
  BY <1>0, <1>9, CloseStream
  DEF HandleOversized, ConnectionFails, ReceiveTimesOut, Interrupted, EndConnection
<1>10. ASSUME CloseListener PROVE StreamInv'
  <2>1. \A i \in DOMAIN backlog : Server(backlog[i]) \in Ends
    BY <1>0 DEF LoopInv
  <2> QED
    BY <1>10, <2>1 DEF CloseListener, StreamInv
<1>11. ASSUME NEW c \in Conns, Connect(c) \/ ClientRecv(c) \/ ClientFails(c) \/ Begin(c)
       PROVE  StreamInv'
  BY <1>1, <1>11 DEF Connect, ClientRecv, ClientFails, Begin
<1>15. ASSUME NEW c \in Conns, ClientResumes(c) PROVE StreamInv'
  <2>1. <<>> \in Seq(Nat)
    OBVIOUS
  <2> QED
    BY <1>0, <1>15, <2>1, FrameStream DEF ClientResumes
<1>12. ASSUME stop \/ run \/ AcceptLoop \/ Destroy \/ UNCHANGED vars PROVE StreamInv'
  BY <1>1, <1>12 DEF stop, run, AcceptLoop, Wait, Accept, AcceptFails, StopSeen, Destroy,
                     ShutDownPool, WorkersLeave, DestroyHandler, vars
<1>13. ASSUME NEW c \in Conns, Serve(c) \/ Interrupted(c) PROVE StreamInv'
  BY <1>4, <1>5, <1>7, <1>9, <1>11, <1>13 DEF Serve
<1>14. ASSUME NEW c \in Conns, ClientCall(c) \/ ClientStep(c) \/ ClientFails(c) \/ ClientClose(c)
       PROVE  StreamInv'
  BY <1>2, <1>3, <1>4, <1>5, <1>6, <1>8, <1>11, <1>14, <1>15, FramingAssumption
  DEF ClientCall, ClientStep
<1> QED
  BY <1>10, <1>12, <1>13, <1>14 DEF Next

(* The clients' calls, and the requests and answers recorded.              *)
LEMMA ClientInvStep == ASSUME ServerInv, [Next]_vars PROVE ClientInv'
<1> USE DEF ServerInv
<1>1. ASSUME UNCHANGED <<client, logVars>> PROVE ClientInv'
  BY <1>1 DEF ClientInv, logVars
<1>2. ASSUME NEW c \in Conns, NEW to \in {"idle", "send", "recv", "failed", "closed"},
             client' = [client EXCEPT ![c] = to], UNCHANGED logVars
      PROVE  ClientInv'
  BY <1>2 DEF ClientInv, logVars
<1>3. ASSUME NEW c \in Conns, ClientSend(c) PROVE ClientInv'
  <2>1. asked' \in [Conns -> Nat] /\ \A d \in Conns : asked'[d] <= Requests[d]
    <3>1. asked' = [asked EXCEPT ![c] = asked[c] + 1] /\ asked[c] < Requests[c]
      BY <1>3 DEF ClientSend
    <3>2. asked[c] \in Nat /\ Requests \in [Conns -> Nat]
      BY ServerAssumption DEF ClientInv
    <3>3. asked[c] + 1 \in Nat /\ asked[c] + 1 <= Requests[c]
      BY <3>1, <3>2
    <3> QED
      BY <3>1, <3>3 DEF ClientInv
  <2> QED
    BY <1>3, <2>1 DEF ClientSend, ClientMoves, ClientInv
<1>4. ASSUME NEW c \in Conns, ClientRecvReturns(c) PROVE ClientInv'
  <2>1. got[Client(c)] \in Seq(Nat) /\ answered[c] \in Seq(Seq(Nat))
    BY EndsOfConn DEF StreamInv, ClientInv
  <2>2. Append(answered[c], got[Client(c)]) \in Seq(Seq(Nat))
    BY <2>1, AppendProperties
  <2> QED
    BY <1>4, <2>2 DEF ClientRecvReturns, ClientMoves, ClientInv
<1>5. ASSUME NEW c \in Conns, Handle(c) \/ HandleOversized(c) PROVE ClientInv'
  <2>1. got[Server(c)] \in Seq(Nat) /\ handled[c] \in Seq(Seq(Nat))
    BY EndsOfConn DEF StreamInv, ClientInv
  <2>2. Append(handled[c], got[Server(c)]) \in Seq(Seq(Nat))
    BY <2>1, AppendProperties
  <2>3. handled' = [handled EXCEPT ![c] = Append(@, got[Server(c)])] /\ UNCHANGED <<client, asked, answered, reused>>
    BY <1>5 DEF Handle, HandleOversized, EndConnection
  <2> QED
    BY <2>2, <2>3 DEF ClientInv
<1>6. ASSUME NEW c \in Conns,
             Connect(c) \/ ClientSends(c) \/ ClientRecv(c) \/ ClientFails(c)
               \/ ClientClose(c) \/ \E len \in {4, 6 + MaxPayload} : SendMalformed(c, len)
      PROVE  ClientInv'
  <2>1. UNCHANGED logVars
    BY <1>6 DEF Connect, ClientSends, ClientRecv, ClientFails, ClientClose, SendMalformed
  <2>2. \E to \in {"idle", "send", "recv", "failed", "closed"} : client' = [client EXCEPT ![c] = to]
    BY <1>6 DEF Connect, ClientSends, ClientRecv, ClientFails, ClientClose, SendMalformed,
                ClientMoves
  <2> QED
    BY <1>2, <2>1, <2>2
<1>7. ASSUME NEW c \in Conns,
             ClientReceives(c) \/ Begin(c) \/ ServerReceives(c) \/ ServerSends(c) \/ ConnectionFails(c)
               \/ ReceiveTimesOut(c) \/ Interrupted(c)
      PROVE  ClientInv'
  BY <1>1, <1>7 DEF ClientReceives, Begin, ServerReceives, ServerSends, ConnectionFails, ReceiveTimesOut,
                    Interrupted, EndConnection
<1>8. ASSUME stop \/ run \/ AcceptLoop \/ CloseListener \/ Destroy \/ UNCHANGED vars PROVE ClientInv'
  BY <1>1, <1>8 DEF stop, run, AcceptLoop, Wait, Accept, AcceptFails, StopSeen, CloseListener, Destroy,
                    ShutDownPool, WorkersLeave, DestroyHandler, vars
<1>9. ASSUME NEW c \in Conns, Serve(c) \/ Interrupted(c) PROVE ClientInv'
  BY <1>5, <1>7, <1>9 DEF Serve
<1>11. ASSUME NEW c \in Conns, ClientResumes(c) PROVE ClientInv'
  BY <1>11 DEF ClientResumes, ClientMoves, ClientInv
<1>10. ASSUME NEW c \in Conns, ClientCall(c) \/ ClientStep(c) \/ ClientFails(c) \/ ClientClose(c)
       PROVE  ClientInv'
  BY <1>3, <1>4, <1>6, <1>7, <1>10, <1>11 DEF ClientCall, ClientStep
<1> QED
  BY <1>8, <1>9, <1>10 DEF Next

(* Looking at the next event of a batch.                                   *)
LEMMA NextEventStep ==
  ASSUME LoopInv, loop = "batch", NextEvent
  PROVE  /\ loop' \in {"out", "wait", "batch"} /\ (events' # <<>> <=> loop' = "batch")
         /\ events' \in Seq({"accept", "stop"})
         /\ \A i, j \in 1..Len(events') : events'[i] = events'[j] => i = j
         /\ \A i \in 1..Len(events') : events'[i] = "accept" => backlog # <<>> /\ Head(events) # "accept"
<1>1. events \in Seq({"accept", "stop"}) /\ events # <<>> /\ events' = Tail(events)
  BY DEF LoopInv, NextEvent
<1>2. /\ events' \in Seq({"accept", "stop"}) /\ Len(events') = Len(events) - 1
      /\ \A i \in 1..Len(events') : events'[i] = events[i + 1] /\ i + 1 \in 1..Len(events)
      /\ Head(events) = events[1] /\ 1 \in 1..Len(events)
  BY <1>1, HeadTailProperties
<1>3. \A i, j \in 1..Len(events') : events'[i] = events'[j] => i = j
  BY <1>2 DEF LoopInv
<1>4. \A i \in 1..Len(events') : events'[i] = "accept" => backlog # <<>> /\ Head(events) # "accept"
  BY <1>2 DEF LoopInv
<1>5. loop' = IF events' = <<>> THEN "wait" ELSE "batch"
  BY <1>1 DEF NextEvent
<1> QED
  BY <1>2, <1>3, <1>4, <1>5

(* epoll_wait reports a descriptor at most once.                           *)
LEMMA WaitStep ==
  ASSUME LoopInv, Wait
  PROVE  /\ events' # <<>> /\ events' \in Seq({"accept", "stop"})
         /\ \A i, j \in 1..Len(events') : events'[i] = events'[j] => i = j
         /\ \A i \in 1..Len(events') : events'[i] = "accept" => backlog # <<>>
<1> DEFINE n == Cardinality(Ready)
<1>1. Ready \in SUBSET {"accept", "stop"} /\ ("accept" \in Ready => backlog # <<>>) /\ Ready # {}
  BY DEF Ready, Wait
<1>2. IsFiniteSet({"accept", "stop"})
  <2>1. IsFiniteSet({"accept"} \cup {"stop"})
    BY FS_Singleton, FS_AddElement
  <2>2. {"accept"} \cup {"stop"} = {"accept", "stop"}
    OBVIOUS
  <2> QED
    BY <2>1, <2>2
<1>3. IsFiniteSet(Ready) /\ n \in Nat /\ n # 0
  BY <1>1, <1>2, FS_Subset, FS_CardinalityType, FS_EmptySet
<1>4. events' \in [1..n -> Ready] /\ Ready = {events'[i] : i \in DOMAIN events'}
  BY DEF Wait
<1>5. IsFiniteSet(1..n) /\ Cardinality(1..n) = n
  BY <1>3, FS_Interval
<1> HIDE DEF n
<1>6. events' \in Surjection(1..n, Ready)
  BY <1>4 DEF Surjection
<1>7. events' \in Injection(1..n, Ready)
  BY <1>3, <1>5, <1>6, FS_Surjection DEF n
<1>8. events' \in Seq({"accept", "stop"}) /\ Len(events') = n
  <2>1. events' \in [1..n -> {"accept", "stop"}]
    BY <1>1, <1>4
  <2> QED
    BY <1>3, <2>1
<1>9. \A i, j \in 1..n : events'[i] = events'[j] => i = j
  BY <1>7 DEF Injection, IsInjective
<1> QED
  BY <1>1, <1>3, <1>4, <1>8, <1>9

(* The accept loop and the destructor.                                     *)
LEMMA LoopInvStep == ASSUME ServerInv, [Next]_vars PROVE LoopInv'
<1> USE DEF ServerInv
<1>1. ASSUME UNCHANGED serverVars PROVE LoopInv'
  <2>1. pipe' \in BOOLEAN
    BY <1>1 DEF LoopInv, serverVars
  <2> QED
    BY <1>1, <2>1 DEF LoopInv, serverVars
<1>2. ASSUME NEW c \in Conns, Connect(c) PROVE LoopInv'
  <2>1. backlog' = Append(backlog, c) /\ UNCHANGED <<pipe, loop, events, life>>
    BY <1>2 DEF Connect
  <2>2. backlog' \in Seq(Conns) /\ backlog' # <<>>
    BY <2>1, AppendProperties DEF LoopInv
  <2>3. pipe' \in BOOLEAN
    BY <2>1 DEF LoopInv
  <2> QED
    BY <2>1, <2>2, <2>3 DEF LoopInv
<1>3. ASSUME stop PROVE LoopInv'
  <2>1. pipe' \in BOOLEAN
    BY <1>3 DEF stop
  <2> QED
    BY <1>3, <2>1 DEF stop, LoopInv
<1>4. ASSUME run PROVE LoopInv'
  <2>1. pipe' \in BOOLEAN
    BY <1>4 DEF run, LoopInv
  <2> QED
    BY <1>4, <2>1 DEF run, LoopInv
<1>5. ASSUME Wait PROVE LoopInv'
  <2>1. pipe' \in BOOLEAN
    BY <1>5 DEF Wait, LoopInv
  <2>2. loop = "wait" /\ loop' = "batch" /\ UNCHANGED <<backlog, life>>
    BY <1>5 DEF Wait
  <2> QED
    BY <1>5, <2>1, <2>2, WaitStep DEF LoopInv
<1>6. ASSUME Accept PROVE LoopInv'
  <2>1. pipe' \in BOOLEAN
    BY <1>6 DEF Accept, LoopInv
  <2>2. /\ loop = "batch" /\ Head(events) = "accept" /\ NextEvent
        /\ backlog' = Tail(backlog) /\ life' = life
    BY <1>6 DEF Accept
  <2>3. events \in Seq({"accept", "stop"}) /\ events # <<>> /\ Head(events) = events[1]
    BY <2>2 DEF LoopInv
  <2>4. backlog # <<>> /\ backlog \in Seq(Conns)
    BY <2>2, <2>3 DEF LoopInv
  <2>5. backlog' \in Seq(Conns)
    BY <2>2, <2>4
  <2>6. life = "alive"
    BY <2>2 DEF LoopInv
  <2> QED
    BY <2>1, <2>2, <2>5, <2>6, NextEventStep DEF LoopInv
<1>7. ASSUME AcceptFails PROVE LoopInv'
  <2>1. pipe' \in BOOLEAN
    BY <1>7 DEF AcceptFails, LoopInv
  <2>2. loop = "batch" /\ NextEvent /\ UNCHANGED <<backlog, life>>
    BY <1>7 DEF AcceptFails
  <2> QED
    BY <2>1, <2>2, NextEventStep DEF LoopInv
<1>8. ASSUME StopSeen PROVE LoopInv'
  <2>1. pipe' \in BOOLEAN
    BY <1>8 DEF StopSeen, LoopInv
  <2> QED
    BY <1>8, <2>1 DEF StopSeen, LoopInv
<1>9. ASSUME CloseListener PROVE LoopInv'
  <2>1. pipe' \in BOOLEAN
    BY <1>9 DEF CloseListener
  <2>2. events = <<>>
    BY <1>9 DEF CloseListener, LoopInv
  <2> QED
    BY <1>9, <2>1, <2>2 DEF CloseListener, LoopInv
<1>10. ASSUME ShutDownPool \/ DestroyHandler PROVE LoopInv'
  <2>1. pipe' \in BOOLEAN
    BY <1>10 DEF ShutDownPool, DestroyHandler, LoopInv
  <2>2. /\ UNCHANGED <<backlog, loop, events>> /\ life # "alive"
        /\ life' \in {"alive", "closing", "joining", "dead"}
    BY <1>10 DEF ShutDownPool, DestroyHandler
  <2> QED
    BY <2>1, <2>2 DEF LoopInv
<1>11. ASSUME NEW c \in Conns, Serve(c) \/ Interrupted(c) PROVE LoopInv'
  <2>1. UNCHANGED serverVars
    BY <1>11 DEF Serve, Begin, ServerReceives, Handle, ServerSends, HandleOversized, ConnectionFails,
                 ReceiveTimesOut, Interrupted, EndConnection
  <2> QED
    BY <1>1, <2>1
<1>12. ASSUME NEW c \in Conns, ClientCall(c) \/ ClientStep(c) \/ ClientFails(c) \/ ClientClose(c)
       PROVE  LoopInv'
  <2>1. Connect(c) \/ UNCHANGED serverVars
    BY <1>12 DEF ClientCall, ClientStep, ClientSend, ClientResumes, ClientRecv, SendMalformed,
                 ClientSends, ClientReceives, ClientRecvReturns, ClientFails, ClientClose
  <2> QED
    BY <1>1, <1>2, <2>1
<1>13. ASSUME WorkersLeave \/ UNCHANGED vars PROVE LoopInv'
  BY <1>1, <1>13 DEF WorkersLeave, vars
<1> QED
  BY <1>3, <1>4, <1>5, <1>6, <1>7, <1>8, <1>9, <1>10, <1>11, <1>12, <1>13 DEF Next, AcceptLoop, Destroy

(* A connection is closed by its own task, and the pool's promise does the *)
(* rest: accepted connections are never forgotten.                         *)
LEMMA ServeInvStep == ASSUME ServerInv, [Next]_vars PROVE ServeInv'
<1> USE DEF ServerInv
<1>1. ASSUME UNCHANGED <<taskPoolVars, life>>, shut \subseteq shut' PROVE ServeInv'
  <2>1. closed' \in BOOLEAN /\ gone' \in BOOLEAN
    BY <1>1 DEF ServeInv, taskPoolVars
  <2> QED
    BY <1>1, <2>1 DEF ServeInv, taskPoolVars
<1>2. ASSUME Accept PROVE ServeInv'
  <2>1. closed' \in BOOLEAN /\ gone' \in BOOLEAN
    BY <1>2 DEF Accept, Submit, ServeInv
  <2>2. PICK t : t = Head(backlog)
    OBVIOUS
  <2>3. /\ submitted' = submitted \cup {t} /\ queue' = Append(queue, t)
        /\ UNCHANGED <<running, closed, gone, shut, life>> /\ loop = "batch" /\ Head(events) = "accept"
    BY <1>2, <2>2 DEF Accept, Submit, streamVars
  <2>4. life = "alive" /\ ~closed /\ ~gone
    BY <2>3 DEF LoopInv, ServeInv
  <2>5. events # <<>> /\ events \in Seq({"accept", "stop"})
    BY <2>3 DEF LoopInv
  <2>6. backlog # <<>> /\ backlog \in Seq(Conns)
    BY <2>3, <2>5 DEF LoopInv
  <2>7. t \in Conns
    BY <2>2, <2>6
  <2>8. /\ queue' \in Seq(Conns) /\ Len(queue') = Len(queue) + 1 /\ Len(queue) \in Nat
        /\ \A i \in 1..Len(queue) : queue'[i] = queue[i] /\ i \in 1..Len(queue')
        /\ queue'[Len(queue) + 1] = t /\ Len(queue) + 1 \in 1..Len(queue')
    BY <2>3, <2>7, AppendProperties DEF ServeInv
  <2>9. \A c \in submitted' :
          c \in running' \/ Server(c) \in shut' \/ \E i \in 1..Len(queue') : queue'[i] = c
    BY <2>3, <2>8 DEF ServeInv
  <2> QED
    BY <2>1, <2>3, <2>4, <2>7, <2>8, <2>9 DEF ServeInv
<1>3. ASSUME NEW c \in Conns, Begin(c) PROVE ServeInv'
  <2>1. closed' \in BOOLEAN /\ gone' \in BOOLEAN
    BY <1>3 DEF Begin, Take, ServeInv
  <2>2. /\ ~gone /\ queue # <<>> /\ c = Head(queue) /\ queue' = Tail(queue)
        /\ running' = running \cup {c} /\ UNCHANGED <<submitted, closed, gone, shut, life>>
    BY <1>3 DEF Begin, Take, streamVars, serverVars
  <2>3. /\ queue' \in Seq(Conns) /\ queue[1] = c
        /\ \A i \in 1..Len(queue) : i = 1 \/ (i - 1 \in 1..Len(queue') /\ queue'[i - 1] = queue[i])
    BY <2>2, HeadTailProperties DEF ServeInv
  <2>4. \A d \in submitted' :
          d \in running' \/ Server(d) \in shut' \/ \E i \in 1..Len(queue') : queue'[i] = d
    BY <2>2, <2>3 DEF ServeInv
  <2> QED
    BY <2>1, <2>2, <2>3, <2>4 DEF ServeInv
<1>4. ASSUME NEW c \in Conns,
             HandleOversized(c) \/ ConnectionFails(c) \/ ReceiveTimesOut(c) \/ Interrupted(c)
      PROVE  ServeInv'
  <2>1. CloseEnd(Server(c)) /\ Finish(c) /\ UNCHANGED serverVars
    BY <1>4 DEF HandleOversized, ConnectionFails, ReceiveTimesOut, Interrupted, EndConnection
  <2>2. /\ running' = running \ {c} /\ shut' = shut \cup {Server(c)}
        /\ UNCHANGED <<submitted, queue, closed, gone, life>>
    BY <2>1 DEF CloseEnd, Finish, serverVars
  <2>3. closed' \in BOOLEAN /\ gone' \in BOOLEAN
    BY <2>2 DEF ServeInv
  <2> QED
    BY <2>2, <2>3 DEF ServeInv
<1>5. ASSUME CloseListener PROVE ServeInv'
  <2>1. closed' \in BOOLEAN /\ gone' \in BOOLEAN
    BY <1>5 DEF CloseListener, taskPoolVars, ServeInv
  <2>2. UNCHANGED <<submitted, queue, running, closed, gone>> /\ shut \subseteq shut'
        /\ life = "alive" /\ life' = "closing"
    BY <1>5 DEF CloseListener, taskPoolVars
  <2> QED
    BY <2>1, <2>2 DEF ServeInv
<1>6. ASSUME ShutDownPool PROVE ServeInv'
  <2>1. closed' \in BOOLEAN /\ gone' \in BOOLEAN
    BY <1>6 DEF ShutDownPool, Close, ServeInv
  <2>2. UNCHANGED <<submitted, queue, running, gone, shut>> /\ closed' = TRUE
        /\ life = "closing" /\ life' = "joining"
    BY <1>6 DEF ShutDownPool, Close, streamVars
  <2> QED
    BY <2>1, <2>2 DEF ServeInv
<1>7. ASSUME WorkersLeave PROVE ServeInv'
  <2>1. closed' \in BOOLEAN /\ gone' \in BOOLEAN
    BY <1>7 DEF WorkersLeave, Leave, ServeInv
  <2>2. UNCHANGED <<submitted, queue, running, closed, shut, life>> /\ closed /\ gone' = TRUE
        /\ queue = <<>> /\ running = {}
    BY <1>7 DEF WorkersLeave, Leave, streamVars, serverVars
  <2> QED
    BY <2>1, <2>2 DEF ServeInv
<1>8. ASSUME DestroyHandler PROVE ServeInv'
  <2>1. closed' \in BOOLEAN /\ gone' \in BOOLEAN
    BY <1>8 DEF DestroyHandler, taskPoolVars, ServeInv
  <2>2. UNCHANGED <<submitted, queue, running, closed, gone, shut>> /\ gone /\ life' = "dead"
    BY <1>8 DEF DestroyHandler, JoinedFirst, taskPoolVars, streamVars
  <2> QED
    BY <2>1, <2>2 DEF ServeInv
<1>9. ASSUME stop \/ run \/ Wait \/ AcceptFails \/ StopSeen \/ UNCHANGED vars PROVE ServeInv'
  BY <1>1, <1>9 DEF stop, run, Wait, AcceptFails, StopSeen, vars, streamVars, serverVars
<1>10. ASSUME NEW c \in Conns, ServerReceives(c) \/ Handle(c) \/ ServerSends(c) PROVE ServeInv'
  BY <1>1, <1>10 DEF ServerReceives, Handle, ServerSends, Recv, Send, serverVars
<1>11. ASSUME NEW c \in Conns, ClientCall(c) PROVE ServeInv'
  BY <1>1, <1>11 DEF ClientCall, Connect, ClientSend, ClientResumes, ClientRecv, SendMalformed,
                     streamVars, serverVars
<1>12. ASSUME NEW c \in Conns, ClientStep(c) \/ ClientFails(c) \/ ClientClose(c) PROVE ServeInv'
  BY <1>1, <1>12 DEF ClientStep, ClientSends, ClientReceives, ClientRecvReturns, ClientFails, ClientClose,
                     Recv, Send, CloseEnd, streamVars, serverVars
<1> QED
  BY <1>2, <1>3, <1>4, <1>5, <1>6, <1>7, <1>8, <1>9, <1>10, <1>11, <1>12
  DEF Next, AcceptLoop, Destroy, Serve

(* The invariant of the server, along every behaviour.                     *)
THEOREM ServerInvariant == Spec => []ServerInv
<1>1. ServerInv /\ [Next]_vars => ServerInv'
  BY StreamStep, ClientInvStep, LoopInvStep, ServeInvStep DEF ServerInv
<1> QED
  BY ServerInit, <1>1, PTL DEF Spec

(* A reader never holds more than a frame of the largest payload.          *)
LEMMA FrameBound ==
  ASSUME NEW f \in Seq(Nat), WithinFrame(f)
  PROVE  Len(f) <= 3 + MaxPayload
<1>1. CASE f = <<>>
  BY <1>1, FramingAssumption
<1>2. CASE f # <<>>
  <2>1. f[1] \in Nat /\ Len(f) \in Nat /\ MaxPayload \in Nat
    BY <1>2, FramingAssumption
  <2>2. CASE LengthOK(f[1])
    <3>1. Len(f) <= f[1] - 2 /\ f[1] >= 5 /\ f[1] - 5 <= MaxPayload
      BY <1>2, <2>2 DEF WithinFrame, LengthOK
    <3> QED
      BY <2>1, <3>1
  <2>3. CASE ~LengthOK(f[1])
    <3>1. Len(f) = 1
      BY <1>2, <2>3, Zenon DEF WithinFrame
    <3> QED
      BY <2>1, <3>1
  <2> QED
    BY <2>2, <2>3
<1> QED
  BY <1>1, <1>2

(* No worker of the server outlives what it uses: when the destructor has  *)
(* destroyed handler_, every connection that was ever accepted is closed   *)
(* and no task is left, with any number of clients and workers and         *)
(* whatever the clients send (~TcpServer, accept_loop, handle_connection). *)
THEOREM ServerCorrect == Spec => []Inv
<1>1. ASSUME ServerInv PROVE Inv
  <2>1. StreamsOK
    BY <1>1, FrameBound DEF ServerInv, StreamInv, StreamsOK
  <2>2. pipe \in BOOLEAN /\ closed \in BOOLEAN /\ gone \in BOOLEAN
    BY <1>1 DEF ServerInv, LoopInv, ServeInv
  <2>3. \A c \in Conns : asked[c] \in 0..Requests[c]
    <3>1. Requests \in [Conns -> Nat]
      BY ServerAssumption
    <3>2. asked \in [Conns -> Nat] /\ \A c \in Conns : asked[c] <= Requests[c]
      BY <1>1 DEF ServerInv, ClientInv
    <3>3. ASSUME NEW c \in Conns PROVE asked[c] \in 0..Requests[c]
      <4>1. asked[c] \in Nat /\ Requests[c] \in Nat /\ asked[c] <= Requests[c]
        BY <3>1, <3>2
      <4> QED
        BY <4>1
    <3> QED
      BY <3>3
  <2>4. TypeOK
    BY <1>1, <2>1, <2>2, <2>3 DEF ServerInv, ClientInv, LoopInv, ServeInv, TypeOK
  <2>5. life = "dead" => running = {} /\ queue = <<>> /\ OpenFds = {}
    BY <1>1 DEF ServerInv, ServeInv, OpenFds
  <2> QED
    BY <2>4, <2>5 DEF Inv
<1> QED
  BY <1>1, ServerInvariant, PTL

-----------------------------------------------------------------------------
(***************************************************************************)
(* Framing keeps its place.                                                *)
(***************************************************************************)

(* The stream s holds the requests after lo, up to hi or to a length that  *)
(* no frame has: start[i] is where the i-th one ends.  If the stream is    *)
(* not whole, its end is missing.                                          *)
CutAt(s, lo, hi, whole, m, start) ==
  /\ start[lo] = 0
  /\ \A i, j \in lo..m : i <= j => start[i] <= start[j]
  /\ \A i \in lo..(m - 1) : start[i + 1] = start[i] + Len(Request(i + 1))
  /\ \A i \in lo..(m - 1) : \A k \in 1..Len(Request(i + 1)) :
       start[i] + k <= Len(s) => s[start[i] + k] = Request(i + 1)[k]
  /\ start[m] < Len(s) => ~LengthOK(s[start[m] + 1])
  /\ whole => start[m] < Len(s) \/ (m = hi /\ start[m] = Len(s))
Framed(s, lo, hi, whole) ==
  \E m \in lo..hi : \E start \in [lo..m -> Nat] : CutAt(s, lo, hi, whole, m, start)

(* What is on its way to one end: read of the current frame, held by the   *)
(* kernel, and left to be sent by the peer.                                *)
Coming(e) == got[e] \o wire[e] \o out[Peer(e)]

(* The requests of a connection between client and handler, and the        *)
(* answers on their way back, as long as somebody may read them.           *)
Counts(c) ==
  /\ Len(answered[c]) <= Len(handled[c]) /\ Len(handled[c]) <= asked[c]
  /\ \A i \in 1..Len(handled[c]) : handled[c][i] = Request(i)
  /\ \A i \in 1..Len(answered[c]) : answered[c][i] = Request(i)
ToServer(c) ==
  Server(c) \notin shut =>
    Framed(Coming(Server(c)), Len(handled[c]), asked[c], Client(c) \notin shut)
ToClient(c) ==
  Client(c) \notin shut =>
    Framed(Coming(Client(c)), Len(answered[c]), Len(handled[c]), Server(c) \notin shut)

(* A client has nothing left to send unless it is sending, and a worker    *)
(* reads the next request only when its answer has been sent.              *)
Turns(c) ==
  /\ client[c] \in {"new", "idle", "recv"} => out[Client(c)] = <<>>
  /\ client[c] = "closed" <=> Client(c) \in shut
  /\ out[Server(c)] # <<>> => got[Server(c)] = <<>>

ConnInv(c) == Counts(c) /\ ToServer(c) /\ ToClient(c) /\ Turns(c)

(* A connection is waiting to be accepted, waiting for a worker, served or *)
(* closed by the server: one of these, and in this order.                  *)
Stages ==
  /\ \A i, j \in 1..Len(backlog) : backlog[i] = backlog[j] => i = j
  /\ \A i, j \in 1..Len(queue) : queue[i] = queue[j] => i = j
  /\ \A i \in 1..Len(backlog) : /\ backlog[i] \notin submitted /\ client[backlog[i]] # "new"
                                /\ Server(backlog[i]) \notin shut
  /\ \A i \in 1..Len(queue) : /\ queue[i] \in submitted /\ queue[i] \notin running
                              /\ Server(queue[i]) \notin shut
  /\ \A c \in running : c \in submitted /\ Server(c) \notin shut
  /\ \A c \in Conns : client[c] = "new" => c \notin submitted /\ Server(c) \notin shut

(* The streams of a client that has gone on after a failed call are out of *)
(* step; all others are in order.                                          *)
FramesInv == ServerInv /\ Stages /\ \A c \in Conns \ reused : ConnInv(c)

(* What the concatenation of two sequences consists of.                    *)
LEMMA ConcatParts ==
  ASSUME NEW s \in Seq(Nat), NEW t \in Seq(Nat)
  PROVE  /\ s \o t \in Seq(Nat)
         /\ Len(s) \in Nat /\ Len(t) \in Nat /\ Len(s \o t) = Len(s) + Len(t)
         /\ \A i \in 1..Len(s) : (s \o t)[i] = s[i]
         /\ \A i \in 1..Len(t) : (s \o t)[Len(s) + i] = t[i]
<1>1. Len(s) \in Nat /\ Len(t) \in Nat
  OBVIOUS
<1>2. /\ s \o t \in Seq(Nat) /\ Len(s \o t) = Len(s) + Len(t)
      /\ \A i \in 1..(Len(s) + Len(t)) : (s \o t)[i] = IF i <= Len(s) THEN s[i] ELSE t[i - Len(s)]
  BY ConcatProperties
<1>3. \A i \in 1..Len(s) : i \in 1..(Len(s) + Len(t)) /\ i <= Len(s)
  BY <1>1
<1>4. \A i \in 1..Len(t) : /\ Len(s) + i \in 1..(Len(s) + Len(t)) /\ ~(Len(s) + i <= Len(s))
                            /\ Len(s) + i - Len(s) = i
  BY <1>1
<1> QED
  BY <1>1, <1>2, <1>3, <1>4

(* A request says how long it is.                                          *)
LEMMA RequestShape ==
  ASSUME NEW i \in Nat, i >= 1
  PROVE  /\ Request(i) \in Seq(Nat) /\ Request(i)[1] \in Nat /\ LengthOK(Request(i)[1])
         /\ Len(Request(i)) \in Nat /\ Len(Request(i)) >= 3
         /\ Len(Request(i)) = Request(i)[1] - 2
<1>1. PICK n \in Nat \ {0} : n = MaxPayload + 1
  BY FramingAssumption
<1>2. PICK size \in 0..(n - 1) : size = (i - 1) % n
  OBVIOUS
<1> DEFINE head == <<5 + size, 4 + i, 4 + i>>
           body == [j \in 1..size |-> 4 + i]
<1>3. Request(i) = head \o body
  BY <1>1, <1>2 DEF Request, Frame
<1>4. size \in Nat /\ size <= MaxPayload /\ MaxPayload \in Nat
  BY <1>1, <1>2, FramingAssumption
<1>5. head \in Seq(Nat) /\ Len(head) = 3 /\ head[1] = 5 + size
  BY <1>4
<1>6. body \in Seq(Nat) /\ Len(body) = size
  BY <1>4
<1> HIDE DEF head, body
<1>7. /\ head \o body \in Seq(Nat) /\ Len(head \o body) = 3 + size
      /\ (head \o body)[1] = 5 + size
  <2>1. 1 \in 1..Len(head) /\ Len(head) + Len(body) = 3 + size
    BY <1>5, <1>6
  <2>2. /\ head \o body \in Seq(Nat) /\ Len(head \o body) = Len(head) + Len(body)
        /\ \A j \in 1..Len(head) : (head \o body)[j] = head[j]
    BY <1>5, <1>6, ConcatParts
  <2> QED
    BY <1>5, <2>1, <2>2, Zenon
<1> QED
  BY <1>3, <1>4, <1>7 DEF LengthOK

(* The end of a stream may be cut off, and more may be asked for.          *)
LEMMA FramedCut ==
  ASSUME NEW s \in Seq(Nat), NEW t \in Seq(Nat), NEW lo \in Nat, NEW hi \in Nat, NEW hi2 \in Nat,
         hi <= hi2, NEW whole, Framed(s \o t, lo, hi, whole)
  PROVE  Framed(s, lo, hi2, FALSE)
<1>0. PICK m \in lo..hi : \E start \in [lo..m -> Nat] : CutAt(s \o t, lo, hi, whole, m, start)
  BY DEF Framed
<1>1. PICK start \in [lo..m -> Nat] : CutAt(s \o t, lo, hi, whole, m, start)
  BY <1>0
<1>2. m \in lo..hi2
  OBVIOUS
<1>3. /\ Len(s \o t) = Len(s) + Len(t) /\ Len(s) \in Nat /\ Len(t) \in Nat
      /\ \A i \in 1..Len(s) : (s \o t)[i] = s[i]
  BY ConcatParts
<1>4. \A i \in lo..(m - 1) : \A k \in 1..Len(Request(i + 1)) :
        start[i] + k <= Len(s) => s[start[i] + k] = Request(i + 1)[k]
  <2> SUFFICES ASSUME NEW i \in lo..(m - 1), NEW k \in 1..Len(Request(i + 1)), start[i] + k <= Len(s)
               PROVE  s[start[i] + k] = Request(i + 1)[k]
    OBVIOUS
  <2>1. i \in lo..m /\ i + 1 \in Nat /\ i + 1 >= 1
    OBVIOUS
  <2>2. start[i] \in Nat /\ k \in Nat /\ k >= 1
    BY <2>1, RequestShape
  <2>3. start[i] + k \in 1..Len(s) /\ start[i] + k <= Len(s) + Len(t)
    <3>1. PICK x \in Nat, l \in Nat, n \in Nat : x = start[i] + k /\ x >= 1 /\ l = Len(s) /\ n = Len(t)
      BY <1>3, <2>2, SMTT(30)
    <3>2. x <= l
      BY <3>1, Zenon
    <3>3. x \in 1..l /\ x <= l + n
      BY <3>1, <3>2
    <3> QED
      BY <3>1, <3>3, Zenon
  <2> QED
    BY <1>1, <1>3, <2>3 DEF CutAt
<1>5. start[m] < Len(s) => ~LengthOK(s[start[m] + 1])
  <2> SUFFICES ASSUME start[m] < Len(s) PROVE ~LengthOK(s[start[m] + 1])
    OBVIOUS
  <2>1. start[m] \in Nat
    OBVIOUS
  <2>2. start[m] + 1 \in 1..Len(s) /\ start[m] < Len(s) + Len(t)
    BY <1>3, <2>1
  <2> QED
    BY <1>1, <1>3, <2>2 DEF CutAt
<1>6. CutAt(s, lo, hi2, FALSE, m, start)
  BY <1>1, <1>4, <1>5 DEF CutAt
<1> QED
  BY <1>2, <1>6 DEF Framed

(* The frames found lie before the last cut.                               *)
LEMMA CutWithin ==
  ASSUME NEW s \in Seq(Nat), NEW lo \in Nat, NEW hi \in Nat, NEW whole, NEW m \in lo..hi,
         NEW start \in [lo..m -> Nat], CutAt(s, lo, hi, whole, m, start),
         NEW i \in lo..(m - 1), NEW k \in 1..Len(Request(i + 1))
  PROVE  start[i] \in Nat /\ k \in Nat /\ start[i] + k \in 1..start[m]
<1>1. i \in lo..m /\ i + 1 \in lo..m /\ m \in lo..m /\ i + 1 <= m /\ i + 1 \in Nat /\ i + 1 >= 1
  OBVIOUS
<1>2. /\ start[i] \in Nat /\ start[m] \in Nat /\ start[i + 1] \in Nat
      /\ start[i + 1] = start[i] + Len(Request(i + 1)) /\ start[i + 1] <= start[m]
  BY <1>1 DEF CutAt
<1>3. PICK n \in Nat : n = Len(Request(i + 1))
  BY <1>1, RequestShape
<1>4. k \in 1..n
  BY <1>3
<1> QED
  BY <1>2, <1>3, <1>4

(* Whatever follows a length that no frame has does not matter.            *)
LEMMA FramedBroken ==
  ASSUME NEW s \in Seq(Nat), NEW t \in Seq(Nat), NEW lo \in Nat, NEW hi \in Nat, NEW hi2 \in Nat,
         NEW m \in lo..hi, NEW start \in [lo..m -> Nat], CutAt(s, lo, hi, TRUE, m, start),
         start[m] < Len(s)
  PROVE  CutAt(s \o t, lo, hi2, TRUE, m, start)
<1>1. /\ Len(s \o t) = Len(s) + Len(t) /\ Len(s) \in Nat /\ Len(t) \in Nat
      /\ \A i \in 1..Len(s) : (s \o t)[i] = s[i]
  BY ConcatParts
<1>2. start[m] \in Nat /\ start[m] + 1 \in 1..Len(s) /\ start[m] < Len(s \o t)
  <2>1. m \in lo..m
    OBVIOUS
  <2>2. start[m] \in Nat
    BY <2>1
  <2> QED
    BY <1>1, <2>2
<1>3. ASSUME NEW i \in lo..(m - 1), NEW k \in 1..Len(Request(i + 1))
      PROVE  (s \o t)[start[i] + k] = Request(i + 1)[k]
  <2>1. start[i] \in Nat /\ k \in Nat /\ start[i] + k \in 1..start[m]
    BY CutWithin
  <2>2. start[i] + k \in 1..Len(s) /\ start[i] + k <= Len(s)
    BY <1>1, <1>2, <2>1, SMTT(30)
  <2> QED
    BY <1>1, <2>2 DEF CutAt
<1>4. ~LengthOK((s \o t)[start[m] + 1])
  BY <1>1, <1>2 DEF CutAt
<1> QED
  BY <1>2, <1>3, <1>4, ZenonT(60) DEF CutAt

(* The next request is sent after the others.                              *)
LEMMA FramedRequest ==
  ASSUME NEW s \in Seq(Nat), NEW lo \in Nat, NEW hi \in Nat, Framed(s, lo, hi, TRUE)
  PROVE  Framed(s \o Request(hi + 1), lo, hi + 1, TRUE)
<1>1. PICK m \in lo..hi : \E start \in [lo..m -> Nat] : CutAt(s, lo, hi, TRUE, m, start)
  BY DEF Framed
<1>2. PICK start \in [lo..m -> Nat] : CutAt(s, lo, hi, TRUE, m, start)
  BY <1>1
<1>3. PICK t \in Seq(Nat), n \in Nat : t = Request(hi + 1) /\ n = Len(t) /\ n >= 3
  <2>1. hi + 1 \in Nat /\ hi + 1 >= 1
    OBVIOUS
  <2> QED
    BY <2>1, RequestShape
<1>4. CASE start[m] < Len(s)
  <2>1. m \in lo..(hi + 1) /\ hi + 1 \in Nat
    OBVIOUS
  <2>2. CutAt(s \o t, lo, hi + 1, TRUE, m, start)
    BY <1>2, <1>4, <2>1, FramedBroken
  <2> QED
    BY <1>3, <2>1, <2>2 DEF Framed
<1>5. CASE ~(start[m] < Len(s))
  <2> DEFINE m2 == hi + 1
             start2 == [i \in lo..m2 |-> IF i = m2 THEN start[hi] + n ELSE start[i]]
  <2>1. m = hi /\ start[hi] = Len(s) /\ hi \in lo..hi /\ lo <= hi
    BY <1>2, <1>5 DEF CutAt
  <2>2. /\ \A i \in lo..m2 : i = m2 \/ (i \in lo..hi /\ i # m2)
        /\ \A i \in lo..hi : i \in lo..m2 /\ i # m2
        /\ m2 \in lo..m2 /\ m2 \in Nat
    BY <2>1
  <2>3. start \in [lo..hi -> Nat] /\ start[hi] \in Nat /\ start[hi] + n \in Nat
    BY <2>1
  <2>4. start2 \in [lo..m2 -> Nat]
    BY <2>2, <2>3
  <2>5. start2[m2] = start[hi] + n /\ \A i \in lo..hi : start2[i] = start[i]
    BY <2>2
  <2> HIDE DEF start2
  <2>6. start2[lo] = 0
    BY <1>2, <2>1, <2>5 DEF CutAt
  <2>7. ASSUME NEW i \in lo..m2, NEW j \in lo..m2, i <= j PROVE start2[i] <= start2[j]
    <3>1. CASE j = m2
      <4>1. i = m2 \/ (i \in lo..hi /\ start2[i] = start[i] /\ start[i] <= start[hi])
        BY <1>2, <2>1, <2>2, <2>5 DEF CutAt
      <4>2. i \in lo..hi => start[i] \in Nat
        BY <2>3
      <4> QED
        BY <2>3, <2>5, <3>1, <4>1, <4>2
    <3>2. CASE j # m2
      <4>1. j \in lo..hi /\ i \in lo..hi
        BY <2>1, <2>2, <2>7, <3>2
      <4> QED
        BY <1>2, <2>1, <2>5, <2>7, <4>1 DEF CutAt
    <3> QED
      BY <3>1, <3>2
  <2>8. ASSUME NEW i \in lo..(m2 - 1)
        PROVE  start2[i] = start[i] /\ start2[i + 1] = start[i] + Len(Request(i + 1))
    <3>1. i \in lo..hi
      BY <2>1
    <3>2. CASE i = hi
      BY <1>3, <2>5, <3>1, <3>2
    <3>3. CASE i # hi
      <4>1. i \in lo..(hi - 1) /\ i + 1 \in lo..hi
        BY <2>1, <3>3
      <4> QED
        BY <1>2, <2>1, <2>5, <3>1, <4>1 DEF CutAt
    <3> QED
      BY <3>2, <3>3
  <2>9. /\ Len(s \o t) = Len(s) + n /\ Len(s) \in Nat
        /\ \A i \in 1..Len(s) : (s \o t)[i] = s[i]
        /\ \A i \in 1..n : (s \o t)[Len(s) + i] = t[i]
    BY <1>3, ConcatParts
  <2>10. ASSUME NEW i \in lo..(m2 - 1), NEW k \in 1..Len(Request(i + 1))
         PROVE  (s \o t)[start2[i] + k] = Request(i + 1)[k]
    <3>1. start2[i] = start[i] /\ i \in lo..hi
      BY <2>1, <2>8
    <3>2. CASE i = hi
      BY <1>3, <2>1, <2>9, <3>1, <3>2
    <3>3. CASE i # hi
      <4>1. i \in lo..(m - 1)
        BY <2>1, <3>3
      <4>2. start[i] \in Nat /\ k \in Nat /\ start[i] + k \in 1..start[m]
        BY <1>2, <4>1, CutWithin
      <4>3. start[i] + k \in 1..Len(s) /\ start[i] + k <= Len(s)
        BY <2>1, <2>9, <4>2
      <4>4. s[start[i] + k] = Request(i + 1)[k]
        BY <1>2, <4>1, <4>3 DEF CutAt
      <4> QED
        BY <2>9, <3>1, <4>3, <4>4
    <3> QED
      BY <3>2, <3>3
  <2>11. start2[m2] = Len(s \o t) /\ Len(s \o t) \in Nat
    BY <2>1, <2>5, <2>9
  <2>12. CutAt(s \o t, lo, m2, TRUE, m2, start2)
    <3>1. ~(start2[m2] < Len(s \o t))
      BY <2>11
    <3>2. \A i \in lo..(m2 - 1) : start2[i + 1] = start2[i] + Len(Request(i + 1))
      BY <2>8, Zenon
    <3>3. \A i \in lo..(m2 - 1) : \A k \in 1..Len(Request(i + 1)) :
            start2[i] + k <= Len(s \o t) => (s \o t)[start2[i] + k] = Request(i + 1)[k]
      BY <2>10, Zenon
    <3>4. start2[m2] < Len(s \o t) \/ (m2 = m2 /\ start2[m2] = Len(s \o t))
      BY <2>11, Zenon
    <3>5. \A i, j \in lo..m2 : i <= j => start2[i] <= start2[j]
      BY <2>7, Zenon
    <3> QED
      BY <2>6, <3>1, <3>2, <3>3, <3>4, <3>5, ZenonT(60) DEF CutAt
  <2> QED
    BY <1>3, <2>2, <2>4, <2>12 DEF Framed
<1> QED
  BY <1>4, <1>5

(* So is a length that no frame has.                                       *)
LEMMA FramedMalformed ==
  ASSUME NEW s \in Seq(Nat), NEW lo \in Nat, NEW hi \in Nat, Framed(s, lo, hi, TRUE),
         NEW len \in Nat, ~LengthOK(len)
  PROVE  Framed(s \o <<len>>, lo, hi, TRUE)
<1>1. PICK m \in lo..hi : \E start \in [lo..m -> Nat] : CutAt(s, lo, hi, TRUE, m, start)
  BY DEF Framed
<1>2. PICK start \in [lo..m -> Nat] : CutAt(s, lo, hi, TRUE, m, start)
  BY <1>1
<1>3. PICK t \in Seq(Nat) : t = <<len>> /\ Len(t) = 1 /\ t[1] = len
  <2>1. <<len>> \in Seq(Nat) /\ Len(<<len>>) = 1 /\ <<len>>[1] = len
    OBVIOUS
  <2> QED
    BY <2>1
<1>4. CASE start[m] < Len(s)
  <2>1. CutAt(s \o t, lo, hi, TRUE, m, start)
    BY <1>2, <1>4, FramedBroken
  <2> QED
    BY <1>3, <2>1 DEF Framed
<1>5. CASE ~(start[m] < Len(s))
  <2>1. start[m] = Len(s)
    BY <1>2, <1>5 DEF CutAt
  <2>2. /\ Len(s \o t) = Len(s) + 1 /\ Len(s) \in Nat
        /\ \A i \in 1..Len(s) : (s \o t)[i] = s[i]
        /\ (s \o t)[Len(s) + 1] = len
    <3>1. 1 \in 1..Len(t)
      BY <1>3
    <3> QED
      BY <1>3, <3>1, ConcatParts
  <2>3. ASSUME NEW i \in lo..(m - 1), NEW k \in 1..Len(Request(i + 1))
        PROVE  (s \o t)[start[i] + k] = Request(i + 1)[k]
    <3>1. start[i] \in Nat /\ k \in Nat /\ start[i] + k \in 1..start[m]
      BY <1>2, CutWithin
    <3>2. start[i] + k \in 1..Len(s) /\ start[i] + k <= Len(s)
      BY <2>1, <2>2, <3>1
    <3> QED
      BY <1>2, <2>2, <3>2 DEF CutAt
  <2>4. start[m] < Len(s \o t) /\ ~LengthOK((s \o t)[start[m] + 1])
    BY <2>1, <2>2
  <2>5. CutAt(s \o t, lo, hi, TRUE, m, start)
    BY <1>2, <2>3, <2>4, ZenonT(60) DEF CutAt
  <2> QED
    BY <1>3, <2>5 DEF Framed
<1> QED
  BY <1>4, <1>5

(* How long a frame is; numbers that are counted from another place.       *)
LEMMA FrameLength == ASSUME NEW n \in Nat, NEW x \in Nat, n = 3 + (x - 5) PROVE n = x - 2
  OBVIOUS
(* Taking the same number away keeps the order.                            *)
LEMMA ShiftedOrder == ASSUME NEW n \in Nat, NEW a \in Nat, NEW b \in Nat, a <= b PROVE a - n <= b - n
  OBVIOUS

(* A whole frame at the front of the stream is the next request, and what  *)
(* follows are the ones after it.                                          *)
LEMMA FramedFirst ==
  ASSUME NEW f \in Seq(Nat), NEW t \in Seq(Nat), NEW lo \in Nat, NEW hi \in Nat,
         NEW whole, Framed(f \o t, lo, hi, whole), WithinFrame(f), Complete(f)
  PROVE  lo + 1 <= hi /\ f = Request(lo + 1) /\ Framed(t, lo + 1, hi, whole)
<1>1. PICK m \in lo..hi : \E start \in [lo..m -> Nat] : CutAt(f \o t, lo, hi, whole, m, start)
  BY DEF Framed
<1>2. PICK start \in [lo..m -> Nat] : CutAt(f \o t, lo, hi, whole, m, start)
  BY <1>1
<1>3. PICK s \in Seq(Nat) : s = f \o t
  BY ConcatParts
<1>4. CutAt(s, lo, hi, whole, m, start)
  BY <1>2, <1>3
<1>5. PICK n \in Nat, l \in Nat, all \in Nat :
        n = Len(f) /\ l = Len(t) /\ all = Len(s) /\ all = n + l
  BY <1>3, ConcatParts
<1>6. /\ \A i \in 1..n : s[i] = f[i]
      /\ \A i \in 1..l : s[n + i] = t[i]
  BY <1>3, <1>5, ConcatParts
<1>7. n >= 3 /\ f[1] \in Nat /\ n = f[1] - 2 /\ LengthOK(f[1]) /\ 1 \in 1..n
  <2>1. n >= 3 /\ 1 \in 1..n /\ f # <<>>
    BY <1>5, SMTT(30) DEF Complete
  <2>2. f[1] \in Nat
    BY <1>5, <2>1
  <2>3. n = f[1] - 2
    <3>1. n = 3 + (f[1] - 5)
      BY <1>5, Zenon DEF Complete
    <3> QED
      BY <2>2, <3>1, FrameLength
  <2>4. LengthOK(f[1])
    <3>1. n # 1
      BY <2>1
    <3> QED
      BY <1>5, <2>1, <3>1, Zenon DEF WithinFrame
  <2> QED
    BY <2>1, <2>2, <2>3, <2>4
<1>8. start[lo] = 0
  BY <1>4 DEF CutAt
<1>9. m # lo
  <2> SUFFICES ASSUME m = lo PROVE FALSE
    OBVIOUS
  <2>1. start[m] = 0 /\ 0 < Len(s) /\ 0 + 1 = 1
    BY <1>5, <1>7, <1>8, SMTT(30)
  <2>2. ~LengthOK(s[1])
    BY <1>4, <2>1 DEF CutAt
  <2> QED
    BY <1>6, <1>7, <2>2
<1>10. lo \in lo..(m - 1) /\ lo + 1 \in lo..m /\ lo + 1 <= hi /\ lo + 1 \in Nat /\ lo + 1 >= 1
  BY <1>9
<1>11. PICK r \in Seq(Nat) :
         /\ r = Request(lo + 1) /\ r[1] \in Nat /\ Len(r) \in Nat /\ Len(r) >= 3 /\ Len(r) = r[1] - 2
  BY <1>10, RequestShape
<1>12. \A k \in 1..Len(r) : k <= Len(s) => s[k] = r[k]
  <2> SUFFICES ASSUME NEW k \in 1..Len(r), k <= Len(s) PROVE s[k] = r[k]
    OBVIOUS
  <2>1. 0 + k = k
    OBVIOUS
  <2> QED
    BY <1>4, <1>8, <1>10, <1>11, <2>1 DEF CutAt
<1>13. Len(r) = n
  <2>0. 1 <= all
    <3>1. n \in Nat /\ l \in Nat /\ all = n + l /\ n >= 3
      BY <1>5, <1>7, Zenon
    <3> HIDE <1>5, <1>7
    <3> QED
      BY <3>1
  <2>1. 1 \in 1..Len(r) /\ 1 <= Len(s)
    BY <1>5, <1>11, <2>0
  <2>2. r[1] = f[1]
    BY <1>6, <1>7, <1>12, <2>1
  <2> QED
    BY <1>7, <1>11, <2>2
<1>14. f = r
  <2>1. ASSUME NEW k \in 1..n PROVE f[k] = r[k]
    <3>1. k <= Len(s)
      BY <1>5
    <3> QED
      BY <1>6, <1>12, <1>13, <3>1
  <2> QED
    BY <1>5, <1>13, <2>1, SeqEqual
<1>15. PICK lo2 \in Nat : lo2 = lo + 1
  BY <1>10
<1>16. start[lo2] = n
  BY <1>4, <1>8, <1>10, <1>11, <1>13, <1>15 DEF CutAt
<1> DEFINE start2 == [i \in lo2..m |-> start[i] - n]
<1>17. ASSUME NEW i \in lo2..m PROVE i \in lo..m /\ start[i] \in Nat /\ start[i] >= n
  <2>1. i \in lo..m /\ lo2 \in lo..m /\ lo2 <= i
    BY <1>10, <1>15
  <2>2. start[i] \in Nat /\ start[lo2] <= start[i]
    BY <1>4, <2>1 DEF CutAt
  <2> QED
    BY <1>16, <2>1, <2>2
<1>18. start2 \in [lo2..m -> Nat] /\ \A i \in lo2..m : start2[i] = start[i] - n
  BY <1>17
<1> HIDE DEF start2
<1>19. m \in lo2..hi /\ lo2 \in lo2..m /\ m \in lo2..m
  BY <1>10, <1>15
<1>20. start2[lo2] = 0
  BY <1>16, <1>18, <1>19
<1>21. ASSUME NEW i \in lo2..m, NEW j \in lo2..m, i <= j PROVE start2[i] <= start2[j]
  <2>1. start[i] <= start[j]
    BY <1>4, <1>17, <1>21 DEF CutAt
  <2>2. start[i] - n <= start[j] - n
    BY <1>17, <2>1, ShiftedOrder
  <2> QED
    BY <1>18, <2>2, Zenon
<1>22. ASSUME NEW i \in lo2..(m - 1)
       PROVE  /\ i \in lo..(m - 1) /\ i \in lo2..m
              /\ start2[i + 1] = start2[i] + Len(Request(i + 1))
  <2>1. i \in lo..(m - 1) /\ i \in lo2..m /\ i + 1 \in lo2..m /\ i + 1 \in Nat /\ i + 1 >= 1
    BY <1>10, <1>15
  <2>2. PICK d \in Nat : d = Len(Request(i + 1))
    BY <2>1, RequestShape
  <2>3. start[i + 1] = start[i] + d
    BY <1>4, <2>1, <2>2 DEF CutAt
  <2>4. start2[i + 1] = start[i + 1] - n /\ start2[i] = start[i] - n
    BY <1>18, <2>1
  <2> QED
    BY <1>17, <2>1, <2>2, <2>3, <2>4, SMTT(30)
<1>23. ASSUME NEW i \in lo2..(m - 1), NEW k \in 1..Len(Request(i + 1)), start2[i] + k <= l
       PROVE  t[start2[i] + k] = Request(i + 1)[k]
  <2>1. i \in lo..(m - 1) /\ i \in lo2..m
    BY <1>22
  <2>2. k \in Nat /\ k >= 1
    BY <1>4, <2>1, CutWithin
  <2>3. start2[i] = start[i] - n /\ start[i] \in Nat /\ start[i] >= n
    BY <1>17, <1>18, <2>1
  <2>4. /\ start2[i] + k \in 1..l /\ n + (start2[i] + k) = start[i] + k
        /\ start[i] + k <= all
    <3>1. start[i] - n + k <= l
      BY <1>23, <2>3, Zenon
    <3>2. /\ start[i] - n + k \in 1..l /\ n + (start[i] - n + k) = start[i] + k
          /\ start[i] + k <= all
      <4>1. all = n + l
        BY <1>5, Zenon
      <4>2. PICK a \in Nat : a = start[i]
        BY <2>3, Zenon
      <4>3. a >= n /\ a - n + k <= l
        BY <2>3, <3>1, <4>2, Zenon
      <4>4. k \in Nat /\ k >= 1
        BY <2>2, Zenon
      <4>5. a - n + k \in 1..l /\ n + (a - n + k) = a + k /\ a + k <= all
        BY <4>1, <4>3, <4>4
      <4> QED
        BY <4>2, <4>5, Zenon
    <3> QED
      BY <2>3, <3>2, Zenon
  <2>5. s[start[i] + k] = Request(i + 1)[k]
    BY <1>4, <1>5, <2>1, <2>4 DEF CutAt
  <2>6. s[n + (start2[i] + k)] = t[start2[i] + k]
    BY <1>6, <2>4
  <2> QED
    BY <2>4, <2>5, <2>6
<1>24. start2[m] = start[m] - n /\ start[m] \in Nat /\ start[m] >= n
  BY <1>17, <1>18, <1>19
<1>25. start2[m] < l => ~LengthOK(t[start2[m] + 1])
  <2> SUFFICES ASSUME start2[m] < l PROVE ~LengthOK(t[start2[m] + 1])
    OBVIOUS
  <2>1. start2[m] + 1 \in 1..l /\ n + (start2[m] + 1) = start[m] + 1 /\ start[m] < all
    BY <1>5, <1>24, SMTT(30)
  <2>2. s[n + (start2[m] + 1)] = t[start2[m] + 1]
    BY <1>6, <2>1
  <2>3. ~LengthOK(s[start[m] + 1])
    BY <1>4, <1>5, <2>1 DEF CutAt
  <2> QED
    BY <2>1, <2>2, <2>3
<1>26. whole => start2[m] < l \/ (m = hi /\ start2[m] = l)
  <2>1. whole => start[m] < Len(s) \/ (m = hi /\ start[m] = Len(s))
    BY <1>4 DEF CutAt
  <2>2. /\ start[m] < Len(s) => start2[m] < l
        /\ start[m] = Len(s) => start2[m] = l
    BY <1>5, <1>24
  <2> QED
    BY <2>1, <2>2
<1>27. CutAt(t, lo2, hi, whole, m, start2)
  BY <1>5, <1>20, <1>21, <1>22, <1>23, <1>25, <1>26 DEF CutAt
<1>28. Framed(t, lo2, hi, whole)
  BY <1>18, <1>19, <1>27 DEF Framed
<1> QED
  BY <1>10, <1>11, <1>14, <1>15, <1>28

(* An empty stream holds no request.                                       *)
LEMMA FramedNone == ASSUME NEW n \in Nat, NEW whole PROVE Framed(<<>>, n, n, whole)
<1> DEFINE start == [i \in n..n |-> 0]
<1>1. /\ start \in [n..n -> Nat] /\ n \in n..n /\ start[n] = 0 /\ n..(n - 1) = {} /\ Len(<<>>) = 0
      /\ \A i \in n..n : start[i] = 0
  OBVIOUS
<1> HIDE DEF start
<1>2. CutAt(<<>>, n, n, whole, n, start)
  BY <1>1 DEF CutAt
<1> QED
  BY <1>1, <1>2 DEF Framed

(* The first unit of a stream moves from one buffer to the next.           *)
LEMMA HeadMoves ==
  ASSUME NEW S, NEW g \in Seq(S), NEW w \in Seq(S), w # <<>>
  PROVE  /\ Append(g, Head(w)) \in Seq(S) /\ Tail(w) \in Seq(S)
         /\ Append(g, Head(w)) \o Tail(w) = g \o w
<1>1. Head(w) \in S /\ Tail(w) \in Seq(S) /\ <<Head(w)>> \in Seq(S)
  BY HeadTailProperties
<1>2. Append(g, Head(w)) \in Seq(S) /\ Append(g, Head(w)) = g \o <<Head(w)>>
  BY <1>1, AppendIsConcat
<1>3. w = <<Head(w)>> \o Tail(w)
  BY <1>1
<1>4. (g \o <<Head(w)>>) \o Tail(w) = g \o (<<Head(w)>> \o Tail(w))
  BY <1>1, ConcatAssociative
<1> QED
  BY <1>1, <1>2, <1>3, <1>4, Zenon

(* What is read or sent leaves the stream as a whole as it was.            *)
LEMMA ThreeParts ==
  ASSUME NEW g \in Seq(Nat), NEW w \in Seq(Nat), NEW o \in Seq(Nat)
  PROVE  (g \o w) \o o = g \o (w \o o)
<1> DEFINE S == Nat
<1>1. g \in Seq(S) /\ w \in Seq(S) /\ o \in Seq(S)
  OBVIOUS
<1> HIDE DEF S
<1> QED
  BY <1>1, ConcatAssociative, SMTT(30)

(* The same for streams of numbers.                                        *)
LEMMA UnitMoves ==
  ASSUME NEW g \in Seq(Nat), NEW w \in Seq(Nat), w # <<>>
  PROVE  /\ Append(g, Head(w)) \in Seq(Nat) /\ Tail(w) \in Seq(Nat)
         /\ Append(g, Head(w)) \o Tail(w) = g \o w
<1> DEFINE S == Nat
<1>1. g \in Seq(S) /\ w \in Seq(S)
  OBVIOUS
<1> HIDE DEF S
<1>2. /\ Append(g, Head(w)) \in Seq(S) /\ Tail(w) \in Seq(S)
      /\ Append(g, Head(w)) \o Tail(w) = g \o w
  BY <1>1, HeadMoves
<1> QED
  BY <1>2, Zenon DEF S

(* A unit that is sent stays where it is in the stream.                    *)
LEMMA SentKept ==
  ASSUME NEW g \in Seq(Nat), NEW w \in Seq(Nat), NEW o \in Seq(Nat), o # <<>>
  PROVE  (g \o Append(w, Head(o))) \o Tail(o) = (g \o w) \o o
<1>1. /\ Append(w, Head(o)) \in Seq(Nat) /\ Tail(o) \in Seq(Nat)
      /\ Append(w, Head(o)) \o Tail(o) = w \o o
  BY UnitMoves, Zenon
<1>2. PICK x \in Seq(Nat) : x = Append(w, Head(o))
  BY <1>1, Zenon
<1>3. PICK y \in Seq(Nat) : y = Tail(o)
  BY <1>1, Zenon
<1>4. (g \o x) \o y = g \o (x \o y)
  BY ThreeParts, ZenonT(60)
<1>5. (g \o w) \o o = g \o (w \o o)
  BY ThreeParts, ZenonT(60)
<1> QED
  BY <1>1, <1>2, <1>3, <1>4, <1>5, Zenon

(* The parts of a stream put together.                                     *)
LEMMA StreamKept ==
  ASSUME NEW g \in Seq(Nat), NEW w \in Seq(Nat), NEW o \in Seq(Nat)
  PROVE  /\ (g \o w) \o o \in Seq(Nat) /\ g \o w \in Seq(Nat) /\ w \o o \in Seq(Nat)
         /\ (g \o w) \o o = g \o (w \o o)
         /\ (g \o w) \o <<>> = g \o w /\ (<<>> \o w) \o o = w \o o
<1> DEFINE S == Nat
<1>0. g \in Seq(S) /\ w \in Seq(S) /\ o \in Seq(S)
  OBVIOUS
<1> HIDE DEF S
<1>1. g \o w \in Seq(S) /\ w \o o \in Seq(S) /\ (g \o w) \o o \in Seq(S)
  BY <1>0, ConcatProperties
<1>2. (g \o w) \o o = g \o (w \o o)
  BY <1>0, ConcatAssociative
<1>3. (g \o w) \o <<>> = g \o w /\ <<>> \o w = w
  BY <1>0, <1>1, ConcatEmptySeq
<1>4. S = Nat
  BY DEF S
<1> QED
  BY <1>1, <1>2, <1>3, <1>4, Zenon

(* A stream that is whole is as good as any.                               *)
LEMMA FramedWhole ==
  ASSUME NEW s \in Seq(Nat), NEW lo \in Nat, NEW hi \in Nat, NEW whole \in BOOLEAN,
         Framed(s, lo, hi, whole)
  PROVE  /\ whole => Framed(s, lo, hi, TRUE)
         /\ Framed(s, lo, hi, FALSE)
<1>1. whole => (whole = TRUE)
  OBVIOUS
<1>2. Framed(s, lo, hi, FALSE)
  BY DEF Framed, CutAt
<1> QED
  BY <1>1, <1>2, Zenon

-----------------------------------------------------------------------------
(***************************************************************************)
(* The frames of one connection, action by action.                         *)
(***************************************************************************)

(* The two ends of a connection, and the stream to each of them.           *)
LEMMA EndFacts ==
  ASSUME NEW c \in Conns
  PROVE  /\ Client(c) \in Ends /\ Server(c) \in Ends /\ Client(c) # Server(c)
         /\ Peer(Client(c)) = Server(c) /\ Peer(Server(c)) = Client(c)
         /\ \A d \in Conns : d # c => /\ Client(d) # Client(c) /\ Server(d) # Server(c)
                                      /\ Client(d) # Server(c) /\ Server(d) # Client(c)
  BY DEF Client, Server, Ends, Peer

(* The types of what belongs to a connection.                              *)
LEMMA ConnFacts ==
  ASSUME ServerInv, NEW c \in Conns
  PROVE  /\ got[Client(c)] \in Seq(Nat) /\ wire[Client(c)] \in Seq(Nat) /\ out[Client(c)] \in Seq(Nat)
         /\ got[Server(c)] \in Seq(Nat) /\ wire[Server(c)] \in Seq(Nat) /\ out[Server(c)] \in Seq(Nat)
         /\ WithinFrame(got[Client(c)]) /\ WithinFrame(got[Server(c)])
         /\ handled[c] \in Seq(Seq(Nat)) /\ answered[c] \in Seq(Seq(Nat)) /\ asked[c] \in Nat
         /\ Len(handled[c]) \in Nat /\ Len(answered[c]) \in Nat
         /\ Coming(Server(c)) = (got[Server(c)] \o wire[Server(c)]) \o out[Client(c)]
         /\ Coming(Client(c)) = (got[Client(c)] \o wire[Client(c)]) \o out[Server(c)]
         /\ Coming(Server(c)) \in Seq(Nat) /\ Coming(Client(c)) \in Seq(Nat)
<1>1. /\ got[Client(c)] \in Seq(Nat) /\ wire[Client(c)] \in Seq(Nat) /\ out[Client(c)] \in Seq(Nat)
      /\ got[Server(c)] \in Seq(Nat) /\ wire[Server(c)] \in Seq(Nat) /\ out[Server(c)] \in Seq(Nat)
      /\ WithinFrame(got[Client(c)]) /\ WithinFrame(got[Server(c)])
  BY EndFacts DEF ServerInv, StreamInv
<1>2. handled[c] \in Seq(Seq(Nat)) /\ answered[c] \in Seq(Seq(Nat)) /\ asked[c] \in Nat
  BY DEF ServerInv, ClientInv
<1>3. Len(handled[c]) \in Nat /\ Len(answered[c]) \in Nat
  BY <1>2, LenProperties
<1>4. /\ Coming(Server(c)) = (got[Server(c)] \o wire[Server(c)]) \o out[Client(c)]
      /\ Coming(Client(c)) = (got[Client(c)] \o wire[Client(c)]) \o out[Server(c)]
  BY EndFacts, Zenon DEF Coming
<1>5. Coming(Server(c)) \in Seq(Nat) /\ Coming(Client(c)) \in Seq(Nat)
  BY <1>1, <1>4, StreamKept
<1> QED
  BY <1>1, <1>2, <1>3, <1>4, <1>5

(* Nothing of the connection changes.                                      *)
Untouched(d) ==
  /\ \A e \in {Client(d), Server(d)} :
       wire'[e] = wire[e] /\ out'[e] = out[e] /\ got'[e] = got[e] /\ (e \in shut' <=> e \in shut)
  /\ client'[d] = client[d] /\ asked'[d] = asked[d]
  /\ handled'[d] = handled[d] /\ answered'[d] = answered[d]

(* Then its streams are as they were.                                      *)
LEMMA ConnUntouched ==
  ASSUME NEW d \in Conns, ConnInv(d), Untouched(d)
  PROVE  ConnInv(d)'
<1>1. /\ wire'[Client(d)] = wire[Client(d)] /\ wire'[Server(d)] = wire[Server(d)]
      /\ out'[Client(d)] = out[Client(d)] /\ out'[Server(d)] = out[Server(d)]
      /\ got'[Client(d)] = got[Client(d)] /\ got'[Server(d)] = got[Server(d)]
      /\ (Client(d) \in shut') = (Client(d) \in shut)
      /\ (Server(d) \in shut') = (Server(d) \in shut)
  BY DEF Untouched
<1>2. Coming(Client(d))' = Coming(Client(d)) /\ Coming(Server(d))' = Coming(Server(d))
  BY <1>1, EndFacts, Zenon DEF Coming
<1>3. /\ client'[d] = client[d] /\ asked'[d] = asked[d]
      /\ handled'[d] = handled[d] /\ answered'[d] = answered[d]
  BY DEF Untouched
<1>4. Counts(d)'
  BY <1>3, Zenon DEF ConnInv, Counts
<1>5. ToServer(d)'
  BY <1>1, <1>2, <1>3, Zenon DEF ConnInv, ToServer
<1>6. ToClient(d)'
  BY <1>1, <1>2, <1>3, Zenon DEF ConnInv, ToClient
<1>7. Turns(d)'
  BY <1>1, <1>3, Zenon DEF ConnInv, Turns
<1> QED
  BY <1>4, <1>5, <1>6, <1>7 DEF ConnInv

(* Only the client's place in its program changes.                         *)
LEMMA MovesFrames ==
  ASSUME ServerInv, NEW c \in Conns, ConnInv(c), NEW to, ClientMoves(c, to),
         client[c] # "closed", to # "closed",
         to \in {"new", "idle", "recv"} => out[Client(c)] = <<>>,
         UNCHANGED <<streamVars, logVars>>
  PROVE  ConnInv(c)'
<1>1. UNCHANGED <<wire, out, got, shut, asked, handled, answered>>
  BY DEF streamVars, logVars
<1>2. client'[c] = to
  BY DEF ServerInv, ClientInv, ClientMoves
<1>3. Counts(c)'
  BY <1>1, Zenon DEF ConnInv, Counts
<1>4. ToServer(c)'
  BY <1>1, Zenon DEF ConnInv, ToServer, Coming
<1>5. ToClient(c)'
  BY <1>1, Zenon DEF ConnInv, ToClient, Coming
<1>6. Turns(c)'
  BY <1>1, <1>2 DEF ConnInv, Turns
<1> QED
  BY <1>3, <1>4, <1>5, <1>6 DEF ConnInv

(* send(): the next request is put behind the others.                      *)
LEMMA ClientSendFrames ==
  ASSUME ServerInv, NEW c \in Conns, ConnInv(c), ClientSend(c)
  PROVE  ConnInv(c)'
<1>1. /\ client[c] = "idle" /\ client'[c] = "send" /\ asked'[c] = asked[c] + 1
      /\ UNCHANGED <<wire, got, shut, handled, answered>>
  BY DEF ClientSend, ClientMoves, ServerInv, ClientInv
<1>2. out' = [out EXCEPT ![Client(c)] = Request(asked'[c])]
  BY DEF ClientSend
<1>3. out'[Client(c)] = Request(asked[c] + 1) /\ out'[Server(c)] = out[Server(c)]
  BY <1>1, <1>2, EndFacts DEF ServerInv, StreamInv
<1>4. out[Client(c)] = <<>> /\ Client(c) \notin shut
  BY <1>1 DEF ConnInv, Turns
<1>5. Counts(c)'
  <2>1. Counts(c) /\ Len(handled[c]) \in Nat /\ asked[c] \in Nat
    BY ConnFacts DEF ConnInv
  <2>2. Len(handled[c]) <= asked[c] + 1
    BY <2>1 DEF Counts
  <2> QED
    BY <1>1, <2>1, <2>2, Zenon DEF Counts
<1>6. ToServer(c)'
  <2> SUFFICES ASSUME Server(c) \notin shut
               PROVE  Framed(Coming(Server(c))', Len(handled[c]), asked[c] + 1, Client(c) \notin shut)
    BY <1>1, Zenon DEF ToServer
  <2>1. PICK s \in Seq(Nat) : s = got[Server(c)] \o wire[Server(c)]
    BY ConnFacts, ConcatParts
  <2>2. Coming(Server(c)) = s
    <3>1. (got[Server(c)] \o wire[Server(c)]) \o <<>> = got[Server(c)] \o wire[Server(c)]
      BY ConnFacts, StreamKept
    <3> QED
      BY <1>4, <2>1, <3>1, ConnFacts, Zenon
  <2>3. Framed(s, Len(handled[c]), asked[c], Client(c) \notin shut)
    BY <2>2, Zenon DEF ConnInv, ToServer
  <2>4. (Client(c) \notin shut) = TRUE
    BY <1>4
  <2>5. Framed(s, Len(handled[c]), asked[c], TRUE)
    BY <2>3, <2>4, Zenon
  <2>6. Framed(s \o Request(asked[c] + 1), Len(handled[c]), asked[c] + 1, TRUE)
    BY <2>5, ConnFacts, FramedRequest
  <2>7. Coming(Server(c))' = s \o Request(asked[c] + 1)
    BY <1>1, <1>3, <2>1, EndFacts, Zenon DEF Coming
  <2> QED
    BY <2>4, <2>6, <2>7, Zenon
<1>7. ToClient(c)'
  BY <1>1, <1>3, EndFacts, Zenon DEF ConnInv, ToClient, Coming
<1>8. Turns(c)'
  BY <1>1, <1>3, <1>4 DEF ConnInv, Turns
<1> QED
  BY <1>5, <1>6, <1>7, <1>8 DEF ConnInv

(* So is a length that no frame has.                                       *)
LEMMA SendMalformedFrames ==
  ASSUME ServerInv, NEW c \in Conns, ConnInv(c), NEW len \in Nat, SendMalformed(c, len)
  PROVE  ConnInv(c)'
<1>1. /\ client[c] = "idle" /\ client'[c] = "send" /\ ~LengthOK(len)
      /\ UNCHANGED <<wire, got, shut, asked, handled, answered>>
  BY DEF SendMalformed, ClientMoves, ServerInv, ClientInv, logVars
<1>2. out' = [out EXCEPT ![Client(c)] = <<len>>]
  BY DEF SendMalformed
<1>3. out'[Client(c)] = <<len>> /\ out'[Server(c)] = out[Server(c)]
  BY <1>2, EndFacts DEF ServerInv, StreamInv
<1>4. out[Client(c)] = <<>> /\ Client(c) \notin shut
  BY <1>1 DEF ConnInv, Turns
<1>5. Counts(c)'
  BY <1>1, Zenon DEF ConnInv, Counts
<1>6. ToServer(c)'
  <2> SUFFICES ASSUME Server(c) \notin shut
               PROVE  Framed(Coming(Server(c))', Len(handled[c]), asked[c], Client(c) \notin shut)
    BY <1>1, Zenon DEF ToServer
  <2>1. PICK s \in Seq(Nat) : s = got[Server(c)] \o wire[Server(c)]
    BY ConnFacts, ConcatParts
  <2>2. Coming(Server(c)) = s
    <3>1. (got[Server(c)] \o wire[Server(c)]) \o <<>> = got[Server(c)] \o wire[Server(c)]
      BY ConnFacts, StreamKept
    <3> QED
      BY <1>4, <2>1, <3>1, ConnFacts, Zenon
  <2>3. Framed(s, Len(handled[c]), asked[c], Client(c) \notin shut)
    BY <2>2, Zenon DEF ConnInv, ToServer
  <2>4. (Client(c) \notin shut) = TRUE
    BY <1>4
  <2>5. Framed(s, Len(handled[c]), asked[c], TRUE)
    BY <2>3, <2>4, Zenon
  <2>6. Framed(s \o <<len>>, Len(handled[c]), asked[c], TRUE)
    BY <1>1, <2>5, ConnFacts, FramedMalformed
  <2>7. Coming(Server(c))' = s \o <<len>>
    BY <1>1, <1>3, <2>1, EndFacts, Zenon DEF Coming
  <2> QED
    BY <2>4, <2>6, <2>7, Zenon
<1>7. ToClient(c)'
  BY <1>1, <1>3, EndFacts, Zenon DEF ConnInv, ToClient, Coming
<1>8. Turns(c)'
  BY <1>1, <1>3, <1>4 DEF ConnInv, Turns
<1> QED
  BY <1>5, <1>6, <1>7, <1>8 DEF ConnInv

(* A unit goes from the client to the server's buffer, or nowhere.         *)
LEMMA ClientSendsFrames ==
  ASSUME ServerInv, NEW c \in Conns, ConnInv(c), ClientSends(c)
  PROVE  ConnInv(c)'
<1>1. Send(Client(c)) /\ UNCHANGED <<got, shut, asked, handled, answered>>
  BY DEF ClientSends, Send, logVars
<1>2. /\ out[Client(c)] # <<>> /\ out'[Client(c)] = Tail(out[Client(c)])
      /\ out'[Server(c)] = out[Server(c)]
      /\ wire'[Client(c)] = wire[Client(c)]
      /\ Server(c) \notin shut =>
           wire'[Server(c)] = Append(wire[Server(c)], Head(out[Client(c)]))
  BY <1>1, EndFacts DEF Send, ServerInv, StreamInv
<1>3. Counts(c)'
  BY <1>1, Zenon DEF ConnInv, Counts
<1>4. ToServer(c)'
  <2>1. ASSUME Server(c) \notin shut PROVE Coming(Server(c))' = Coming(Server(c))
    <3>1. PICK g \in Seq(Nat), w \in Seq(Nat), o \in Seq(Nat) :
            g = got[Server(c)] /\ w = wire[Server(c)] /\ o = out[Client(c)]
      BY ConnFacts
    <3>2. o # <<>>
      BY <1>2, <3>1, Zenon
    <3>3. (g \o Append(w, Head(o))) \o Tail(o) = (g \o w) \o o
      BY <3>2, SentKept, Zenon
    <3> QED
      BY <1>1, <1>2, <2>1, <3>1, <3>3, EndFacts, Zenon DEF Coming
  <2> QED
    BY <1>1, <2>1, Zenon DEF ConnInv, ToServer
<1>5. ToClient(c)'
  BY <1>1, <1>2, EndFacts, Zenon DEF ConnInv, ToClient, Coming
<1>6. Turns(c)'
  <2>1. /\ client[c] = "send"
        /\ client'[c] = IF out'[Client(c)] = <<>> THEN "idle" ELSE "send"
    BY DEF ClientSends, ClientMoves, ServerInv, ClientInv
  <2> QED
    BY <1>1, <1>2, <2>1 DEF ConnInv, Turns
<1> QED
  BY <1>3, <1>4, <1>5, <1>6 DEF ConnInv

(* A unit of an answer goes to the client's buffer, or nowhere.            *)
LEMMA ServerSendsFrames ==
  ASSUME ServerInv, NEW c \in Conns, ConnInv(c), ServerSends(c)
  PROVE  ConnInv(c)'
<1>1. Send(Server(c)) /\ UNCHANGED <<got, shut, asked, handled, answered>>
  BY DEF ServerSends, Send, logVars
<1>2. /\ out[Server(c)] # <<>> /\ out'[Server(c)] = Tail(out[Server(c)])
      /\ out'[Client(c)] = out[Client(c)]
      /\ wire'[Server(c)] = wire[Server(c)]
      /\ Client(c) \notin shut =>
           wire'[Client(c)] = Append(wire[Client(c)], Head(out[Server(c)]))
  BY <1>1, EndFacts DEF Send, ServerInv, StreamInv
<1>3. Counts(c)'
  BY <1>1, Zenon DEF ConnInv, Counts
<1>4. ToClient(c)'
  <2>1. ASSUME Client(c) \notin shut PROVE Coming(Client(c))' = Coming(Client(c))
    <3>1. PICK g \in Seq(Nat), w \in Seq(Nat), o \in Seq(Nat) :
            g = got[Client(c)] /\ w = wire[Client(c)] /\ o = out[Server(c)]
      BY ConnFacts
    <3>2. o # <<>>
      BY <1>2, <3>1, Zenon
    <3>3. (g \o Append(w, Head(o))) \o Tail(o) = (g \o w) \o o
      BY <3>2, SentKept, Zenon
    <3> QED
      BY <1>1, <1>2, <2>1, <3>1, <3>3, EndFacts, Zenon DEF Coming
  <2> QED
    BY <1>1, <2>1, Zenon DEF ConnInv, ToClient
<1>5. ToServer(c)'
  BY <1>1, <1>2, EndFacts, Zenon DEF ConnInv, ToServer, Coming
<1>6. Turns(c)'
  <2>1. client' = client
    BY DEF ServerSends
  <2> QED
    BY <1>1, <1>2, <2>1 DEF ConnInv, Turns
<1> QED
  BY <1>3, <1>4, <1>5, <1>6 DEF ConnInv

(* The client reads a unit of an answer.                                   *)
LEMMA ClientReceivesFrames ==
  ASSUME ServerInv, NEW c \in Conns, ConnInv(c), ClientReceives(c)
  PROVE  ConnInv(c)'
<1>1. Recv(Client(c)) /\ UNCHANGED <<client, out, shut, asked, handled, answered>>
  BY DEF ClientReceives, Recv, logVars
<1>2. /\ wire[Client(c)] # <<>> /\ wire'[Client(c)] = Tail(wire[Client(c)])
      /\ got'[Client(c)] = Append(got[Client(c)], Head(wire[Client(c)]))
      /\ wire'[Server(c)] = wire[Server(c)] /\ got'[Server(c)] = got[Server(c)]
  BY <1>1, EndFacts DEF Recv, ServerInv, StreamInv
<1>3. Counts(c)'
  BY <1>1, Zenon DEF ConnInv, Counts
<1>4. ToClient(c)'
  <2>1. Coming(Client(c))' = Coming(Client(c))
    <3>1. PICK g \in Seq(Nat), w \in Seq(Nat), o \in Seq(Nat) :
            g = got[Client(c)] /\ w = wire[Client(c)] /\ o = out[Server(c)]
      BY ConnFacts
    <3>2. w # <<>>
      BY <1>2, <3>1, Zenon
    <3>3. (Append(g, Head(w)) \o Tail(w)) \o o = (g \o w) \o o
      BY <3>2, UnitMoves, Zenon
    <3> QED
      BY <1>1, <1>2, <3>1, <3>3, EndFacts, Zenon DEF Coming
  <2> QED
    BY <1>1, <2>1, Zenon DEF ConnInv, ToClient
<1>5. ToServer(c)'
  BY <1>1, <1>2, EndFacts, Zenon DEF ConnInv, ToServer, Coming
<1>6. Turns(c)'
  BY <1>1, <1>2 DEF ConnInv, Turns
<1> QED
  BY <1>3, <1>4, <1>5, <1>6 DEF ConnInv

(* The worker reads a unit of a request; it has no answer to send.         *)
LEMMA ServerReceivesFrames ==
  ASSUME ServerInv, NEW c \in Conns, ConnInv(c), ServerReceives(c)
  PROVE  ConnInv(c)'
<1>1. Recv(Server(c)) /\ UNCHANGED <<client, out, shut, asked, handled, answered>>
  BY DEF ServerReceives, Recv, logVars
<1>2. /\ wire[Server(c)] # <<>> /\ wire'[Server(c)] = Tail(wire[Server(c)])
      /\ got'[Server(c)] = Append(got[Server(c)], Head(wire[Server(c)]))
      /\ wire'[Client(c)] = wire[Client(c)] /\ got'[Client(c)] = got[Client(c)]
  BY <1>1, EndFacts DEF Recv, ServerInv, StreamInv
<1>3. Counts(c)'
  BY <1>1, Zenon DEF ConnInv, Counts
<1>4. ToServer(c)'
  <2>1. Coming(Server(c))' = Coming(Server(c))
    <3>1. PICK g \in Seq(Nat), w \in Seq(Nat), o \in Seq(Nat) :
            g = got[Server(c)] /\ w = wire[Server(c)] /\ o = out[Client(c)]
      BY ConnFacts
    <3>2. w # <<>>
      BY <1>2, <3>1, Zenon
    <3>3. (Append(g, Head(w)) \o Tail(w)) \o o = (g \o w) \o o
      BY <3>2, UnitMoves, Zenon
    <3> QED
      BY <1>1, <1>2, <3>1, <3>3, EndFacts, Zenon DEF Coming
  <2> QED
    BY <1>1, <2>1, Zenon DEF ConnInv, ToServer
<1>5. ToClient(c)'
  BY <1>1, <1>2, EndFacts, Zenon DEF ConnInv, ToClient, Coming
<1>6. Turns(c)'
  <2>1. out[Server(c)] = <<>>
    BY DEF ServerReceives, Reading
  <2> QED
    BY <1>1, <1>2, <2>1 DEF ConnInv, Turns
<1> QED
  BY <1>3, <1>4, <1>5, <1>6 DEF ConnInv

(* A frame that has been read to its end is the next one expected.         *)
LEMMA FrameTaken ==
  ASSUME NEW g \in Seq(Nat), NEW w \in Seq(Nat), NEW o \in Seq(Nat), NEW lo \in Nat, NEW hi \in Nat,
         NEW whole, Framed((g \o w) \o o, lo, hi, whole), WithinFrame(g), Complete(g)
  PROVE  lo + 1 <= hi /\ g = Request(lo + 1) /\ Framed((<<>> \o w) \o o, lo + 1, hi, whole)
<1>1. PICK t \in Seq(Nat) : t = w \o o
  BY ConcatParts, Zenon
<1>2. (g \o w) \o o = g \o t
  BY <1>1, ThreeParts, ZenonT(60)
<1>3. Framed(g \o t, lo, hi, whole)
  BY <1>2, Zenon
<1>4. lo + 1 <= hi /\ g = Request(lo + 1) /\ Framed(t, lo + 1, hi, whole)
  BY <1>3, FramedFirst, Zenon
<1>5. (<<>> \o w) \o o = t
  BY <1>1, StreamKept
<1> QED
  BY <1>4, <1>5, Zenon

(* A log of requests goes on with the next one.                            *)
LEMMA LogNext ==
  ASSUME NEW log \in Seq(Seq(Nat)), \A i \in 1..Len(log) : log[i] = Request(i),
         NEW f \in Seq(Nat), f = Request(Len(log) + 1)
  PROVE  /\ Append(log, f) \in Seq(Seq(Nat)) /\ Len(log) \in Nat
         /\ Len(Append(log, f)) = Len(log) + 1
         /\ \A i \in 1..Len(Append(log, f)) : Append(log, f)[i] = Request(i)
<1>1. PICK n \in Nat : n = Len(log)
  BY LenProperties
<1> DEFINE S == Seq(Nat)
           a == Append(log, f)
<1>2. /\ a \in Seq(Seq(Nat)) /\ Len(a) = n + 1 /\ a[n + 1] = f
      /\ \A i \in 1..n : a[i] = log[i]
  <2>1. log \in Seq(S) /\ f \in S
    OBVIOUS
  <2> HIDE DEF S
  <2>2. /\ a \in Seq(S) /\ Len(a) = Len(log) + 1 /\ a[Len(log) + 1] = f
        /\ \A i \in 1..Len(log) : a[i] = log[i]
    BY <2>1, AppendProperties
  <2> QED
    BY <1>1, <2>2, Zenon DEF S
<1> HIDE DEF a
<1>3. ASSUME NEW i \in 1..(n + 1) PROVE a[i] = Request(i)
  <2>1. i \in 1..n \/ i = n + 1
    OBVIOUS
  <2> QED
    BY <1>1, <1>2, <2>1, Zenon
<1> QED
  BY <1>1, <1>2, <1>3, Zenon DEF a

(* recv() returns an answer.                                               *)
LEMMA ClientRecvReturnsFrames ==
  ASSUME ServerInv, NEW c \in Conns, ConnInv(c), ClientRecvReturns(c)
  PROVE  ConnInv(c)'
<1>1. /\ client[c] = "recv" /\ client'[c] = "idle" /\ Complete(got[Client(c)])
      /\ answered'[c] = Append(answered[c], got[Client(c)])
      /\ UNCHANGED <<wire, out, shut, asked, handled>>
  BY DEF ClientRecvReturns, ClientMoves, ServerInv, ClientInv
<1>2. got'[Client(c)] = <<>> /\ got'[Server(c)] = got[Server(c)]
  BY EndFacts DEF ClientRecvReturns, ServerInv, StreamInv
<1>3. out[Client(c)] = <<>> /\ Client(c) \notin shut
  BY <1>1 DEF ConnInv, Turns
<1>4. PICK n \in Nat : n = Len(answered[c])
  BY ConnFacts
<1>5. PICK g \in Seq(Nat), w \in Seq(Nat), o \in Seq(Nat), h \in Nat :
        g = got[Client(c)] /\ w = wire[Client(c)] /\ o = out[Server(c)] /\ h = Len(handled[c])
  BY ConnFacts
<1>6. /\ n + 1 <= h /\ g = Request(n + 1)
      /\ Framed((<<>> \o w) \o o, n + 1, h, Server(c) \notin shut)
  <2>1. Framed((g \o w) \o o, n, h, Server(c) \notin shut)
    BY <1>3, <1>4, <1>5, ConnFacts, Zenon DEF ConnInv, ToClient
  <2>2. WithinFrame(g) /\ Complete(g)
    BY <1>1, <1>5, ConnFacts, Zenon
  <2> QED
    BY <2>1, <2>2, FrameTaken, Zenon
<1>7. Len(answered'[c]) = n + 1 /\ \A i \in 1..Len(answered'[c]) : answered'[c][i] = Request(i)
  <2>1. PICK log \in Seq(Seq(Nat)) : log = answered[c] /\ \A i \in 1..Len(log) : log[i] = Request(i)
    BY ConnFacts DEF ConnInv, Counts
  <2>2. g = Request(Len(log) + 1) /\ Len(log) = n
    BY <1>1, <1>4, <1>5, <1>6, <2>1, Zenon
  <2>3. /\ Len(Append(log, g)) = Len(log) + 1
        /\ \A i \in 1..Len(Append(log, g)) : Append(log, g)[i] = Request(i)
    BY <2>1, <2>2, LogNext
  <2> QED
    BY <1>1, <1>4, <1>5, <2>1, <2>2, <2>3, Zenon
<1>8. Counts(c)'
  BY <1>1, <1>5, <1>6, <1>7, Zenon DEF ConnInv, Counts
<1>9. ToServer(c)'
  BY <1>1, <1>2, EndFacts, Zenon DEF ConnInv, ToServer, Coming
<1>10. ToClient(c)'
  <2>1. Coming(Client(c))' = (<<>> \o w) \o o
    BY <1>1, <1>2, <1>5, EndFacts, Zenon DEF Coming
  <2> QED
    BY <1>1, <1>5, <1>6, <1>7, <2>1, Zenon DEF ToClient
<1>11. Turns(c)'
  BY <1>1, <1>2, <1>3 DEF ConnInv, Turns
<1> QED
  BY <1>8, <1>9, <1>10, <1>11 DEF ConnInv

(* A request that has been read to its end is the next one, and the logs   *)
(* of the handler stay as they should be.                                  *)
LEMMA RequestTaken ==
  ASSUME ServerInv, Stages, NEW c \in Conns, ConnInv(c), c \in running, Complete(got[Server(c)]),
         handled'[c] = Append(handled[c], got[Server(c)]),
         UNCHANGED <<asked, answered>>
  PROVE  /\ Counts(c)' /\ Len(handled'[c]) = Len(handled[c]) + 1
         /\ Server(c) \notin shut /\ out[Server(c)] = <<>>
         /\ got[Server(c)] = Request(Len(handled[c]) + 1)
         /\ Framed((<<>> \o wire[Server(c)]) \o out[Client(c)], Len(handled[c]) + 1, asked[c],
                   Client(c) \notin shut)
<1>1. Server(c) \notin shut
  BY DEF Stages
<1>2. out[Server(c)] = <<>>
  <2>1. got[Server(c)] # <<>>
    BY ConnFacts DEF Complete
  <2> QED
    BY <2>1 DEF ConnInv, Turns
<1>3. PICK n \in Nat, m \in Nat : n = Len(handled[c]) /\ m = asked[c]
  BY ConnFacts
<1>4. PICK g \in Seq(Nat), w \in Seq(Nat), o \in Seq(Nat) :
        g = got[Server(c)] /\ w = wire[Server(c)] /\ o = out[Client(c)]
  BY ConnFacts
<1>5. /\ n + 1 <= m /\ g = Request(n + 1)
      /\ Framed((<<>> \o w) \o o, n + 1, m, Client(c) \notin shut)
  <2>1. Framed((g \o w) \o o, n, m, Client(c) \notin shut)
    BY <1>1, <1>3, <1>4, ConnFacts, Zenon DEF ConnInv, ToServer
  <2>2. WithinFrame(g) /\ Complete(g)
    BY <1>4, ConnFacts, Zenon
  <2> QED
    BY <2>1, <2>2, FrameTaken, Zenon
<1>6. Len(handled'[c]) = n + 1 /\ \A i \in 1..Len(handled'[c]) : handled'[c][i] = Request(i)
  <2>1. PICK log \in Seq(Seq(Nat)) : log = handled[c] /\ \A i \in 1..Len(log) : log[i] = Request(i)
    BY ConnFacts DEF ConnInv, Counts
  <2>2. g = Request(Len(log) + 1) /\ Len(log) = n
    BY <1>3, <1>4, <1>5, <2>1, Zenon
  <2>3. /\ Len(Append(log, g)) = Len(log) + 1
        /\ \A i \in 1..Len(Append(log, g)) : Append(log, g)[i] = Request(i)
    BY <2>1, <2>2, LogNext
  <2> QED
    BY <1>1, <1>4, <1>5, <2>1, <2>2, <2>3, Zenon
<1>7. Counts(c)'
  <2>1. Len(answered[c]) \in Nat /\ Len(answered[c]) <= n
    BY <1>3, ConnFacts DEF ConnInv, Counts
  <2>2. Len(answered[c]) <= n + 1
    BY <2>1
  <2> QED
    BY <1>3, <1>5, <1>6, <2>2, Zenon DEF ConnInv, Counts
<1> QED
  BY <1>1, <1>2, <1>3, <1>4, <1>5, <1>6, <1>7, Zenon

(* The handler gets a request; its answer is the next one to be sent.      *)
LEMMA HandleFrames ==
  ASSUME ServerInv, Stages, NEW c \in Conns, ConnInv(c), Handle(c)
  PROVE  ConnInv(c)'
<1>1. /\ c \in running /\ Complete(got[Server(c)])
      /\ handled'[c] = Append(handled[c], got[Server(c)])
      /\ UNCHANGED <<wire, shut, client, asked, answered>>
  BY DEF Handle, ServerInv, ClientInv
<1>2. /\ got'[Server(c)] = <<>> /\ got'[Client(c)] = got[Client(c)]
      /\ out'[Server(c)] = got[Server(c)] /\ out'[Client(c)] = out[Client(c)]
  BY EndFacts DEF Handle, ServerInv, StreamInv
<1>3. PICK n \in Nat, a \in Nat : n = Len(handled[c]) /\ a = Len(answered[c])
  BY ConnFacts
<1>4. /\ Counts(c)' /\ Len(handled'[c]) = n + 1
      /\ Server(c) \notin shut /\ out[Server(c)] = <<>>
      /\ got[Server(c)] = Request(n + 1)
      /\ Framed((<<>> \o wire[Server(c)]) \o out[Client(c)], n + 1, asked[c],
                Client(c) \notin shut)
  BY <1>1, <1>3, RequestTaken, Zenon
<1>5. ToServer(c)'
  <2>1. Coming(Server(c))' = (<<>> \o wire[Server(c)]) \o out[Client(c)]
    BY <1>1, <1>2, EndFacts, Zenon DEF Coming
  <2> QED
    BY <1>1, <1>4, <2>1, Zenon DEF ToServer
<1>6. ToClient(c)'
  <2> SUFFICES ASSUME Client(c) \notin shut
               PROVE  Framed(Coming(Client(c))', a, n + 1, Server(c) \notin shut)
    BY <1>1, <1>3, <1>4, Zenon DEF ToClient
  <2>1. PICK s \in Seq(Nat) : s = got[Client(c)] \o wire[Client(c)]
    BY ConnFacts, ConcatParts
  <2>2. Coming(Client(c)) = s
    <3>1. (got[Client(c)] \o wire[Client(c)]) \o <<>> = got[Client(c)] \o wire[Client(c)]
      BY ConnFacts, StreamKept
    <3> QED
      BY <1>4, <2>1, <3>1, ConnFacts, Zenon
  <2>3. Framed(s, a, n, Server(c) \notin shut)
    BY <1>3, <2>2, Zenon DEF ConnInv, ToClient
  <2>4. (Server(c) \notin shut) = TRUE
    BY <1>4
  <2>5. Framed(s, a, n, TRUE)
    BY <2>3, <2>4, Zenon
  <2>6. Framed(s \o Request(n + 1), a, n + 1, TRUE)
    BY <2>5, FramedRequest
  <2>7. Coming(Client(c))' = s \o Request(n + 1)
    BY <1>1, <1>2, <1>4, <2>1, EndFacts, Zenon DEF Coming
  <2> QED
    BY <2>4, <2>6, <2>7, Zenon
<1>7. Turns(c)'
  BY <1>1, <1>2, Zenon DEF ConnInv, Turns
<1> QED
  BY <1>4, <1>5, <1>6, <1>7 DEF ConnInv

(* When the sender has closed, the end of its stream may be missing.       *)
LEMMA StreamCut ==
  ASSUME NEW g \in Seq(Nat), NEW w \in Seq(Nat), NEW o \in Seq(Nat),
         NEW lo \in Nat, NEW hi \in Nat, NEW hi2 \in Nat, hi <= hi2, NEW whole,
         Framed((g \o w) \o o, lo, hi, whole)
  PROVE  Framed((g \o w) \o <<>>, lo, hi2, FALSE)
<1>1. PICK s \in Seq(Nat) : s = g \o w
  BY ConcatParts, Zenon
<1>2. Framed(s \o o, lo, hi, whole)
  BY <1>1, Zenon
<1>3. Framed(s, lo, hi2, FALSE)
  BY <1>2, FramedCut, Zenon
<1>4. s \o <<>> = s
  BY <1>1, StreamKept
<1> QED
  BY <1>1, <1>3, <1>4, Zenon

(* The worker closes the connection: nobody reads further requests, and    *)
(* the client may still read what is in its buffer.                        *)
LEMMA EndFrames ==
  ASSUME ServerInv, NEW c \in Conns, ConnInv(c), CloseEnd(Server(c)),
         UNCHANGED <<client, asked, answered>>, Counts(c)',
         Len(handled'[c]) \in Nat, Len(handled[c]) <= Len(handled'[c])
  PROVE  ConnInv(c)'
<1>1. /\ wire'[Client(c)] = wire[Client(c)] /\ got'[Client(c)] = got[Client(c)]
      /\ out'[Client(c)] = out[Client(c)] /\ out'[Server(c)] = <<>>
  BY EndFacts DEF CloseEnd, ServerInv, StreamInv
<1>2. Server(c) \in shut' /\ (Client(c) \in shut' <=> Client(c) \in shut)
  BY EndFacts DEF CloseEnd
<1>3. ToServer(c)'
  BY <1>2 DEF ToServer
<1>4. ToClient(c)'
  <2> SUFFICES ASSUME Client(c) \notin shut
               PROVE  Framed(Coming(Client(c))', Len(answered[c]), Len(handled'[c]), FALSE)
    <3>1. (Server(c) \notin shut') = FALSE
      BY <1>2
    <3> QED
      BY <1>2, <3>1, Zenon DEF ToClient
  <2>1. PICK n \in Nat, h \in Nat, h2 \in Nat :
          n = Len(answered[c]) /\ h = Len(handled[c]) /\ h2 = Len(handled'[c]) /\ h <= h2
    BY ConnFacts
  <2>2. PICK g \in Seq(Nat), w \in Seq(Nat), o \in Seq(Nat) :
          g = got[Client(c)] /\ w = wire[Client(c)] /\ o = out[Server(c)]
    BY ConnFacts
  <2>3. Framed((g \o w) \o o, n, h, Server(c) \notin shut)
    BY <2>1, <2>2, ConnFacts, Zenon DEF ConnInv, ToClient
  <2>4. Framed((g \o w) \o <<>>, n, h2, FALSE)
    BY <2>1, <2>3, StreamCut, Zenon
  <2>5. Coming(Client(c))' = (g \o w) \o <<>>
    BY <1>1, <2>2, EndFacts, Zenon DEF Coming
  <2> QED
    BY <2>1, <2>4, <2>5, Zenon
<1>5. Turns(c)'
  BY <1>1, <1>2, Zenon DEF ConnInv, Turns
<1> QED
  BY <1>3, <1>4, <1>5 DEF ConnInv

(* The client closes: nobody reads further answers, and the worker may     *)
(* still read what is in its buffer.                                       *)
LEMMA ClientCloseFrames ==
  ASSUME ServerInv, NEW c \in Conns, ConnInv(c), ClientClose(c)
  PROVE  ConnInv(c)'
<1>0. CloseEnd(Client(c)) /\ client'[c] = "closed" /\ UNCHANGED <<asked, handled, answered>>
  BY DEF ClientClose, ClientMoves, ServerInv, ClientInv, logVars
<1>1. /\ wire'[Server(c)] = wire[Server(c)] /\ got'[Server(c)] = got[Server(c)]
      /\ out'[Server(c)] = out[Server(c)] /\ out'[Client(c)] = <<>>
  BY <1>0, EndFacts DEF CloseEnd, ServerInv, StreamInv
<1>2. Client(c) \in shut' /\ (Server(c) \in shut' <=> Server(c) \in shut)
  BY <1>0, EndFacts DEF CloseEnd
<1>3. ToClient(c)'
  BY <1>2 DEF ToClient
<1>4. ToServer(c)'
  <2> SUFFICES ASSUME Server(c) \notin shut
               PROVE  Framed(Coming(Server(c))', Len(handled[c]), asked[c], FALSE)
    <3>1. (Client(c) \notin shut') = FALSE
      BY <1>2
    <3> QED
      BY <1>0, <1>2, <3>1, Zenon DEF ToServer
  <2>1. PICK n \in Nat, h \in Nat : n = Len(handled[c]) /\ h = asked[c]
    BY ConnFacts
  <2>2. PICK g \in Seq(Nat), w \in Seq(Nat), o \in Seq(Nat) :
          g = got[Server(c)] /\ w = wire[Server(c)] /\ o = out[Client(c)]
    BY ConnFacts
  <2>3. Framed((g \o w) \o o, n, h, Client(c) \notin shut) /\ h <= h
    <3>1. Framed((g \o w) \o o, n, h, Client(c) \notin shut)
      BY <2>1, <2>2, ConnFacts, Zenon DEF ConnInv, ToServer
    <3>2. h <= h
      OBVIOUS
    <3> QED
      BY <3>1, <3>2
  <2>4. Framed((g \o w) \o <<>>, n, h, FALSE)
    BY <2>3, StreamCut, Zenon
  <2>5. Coming(Server(c))' = (g \o w) \o <<>>
    BY <1>1, <2>2, EndFacts, Zenon DEF Coming
  <2> QED
    BY <2>1, <2>4, <2>5, Zenon
<1>5. Counts(c)'
  BY <1>0, Zenon DEF ConnInv, Counts
<1>6. Turns(c)'
  BY <1>0, <1>1, <1>2 DEF ConnInv, Turns
<1> QED
  BY <1>3, <1>4, <1>5, <1>6 DEF ConnInv

(* A connection nobody accepted is closed with the listening socket.       *)
LEMMA CloseListenerFrames ==
  ASSUME ServerInv, NEW d \in Conns, ConnInv(d), CloseListener
  PROVE  ConnInv(d)'
<1>1. /\ UNCHANGED <<wire, out, got, client, asked, handled, answered>>
      /\ Client(d) \in shut' <=> Client(d) \in shut
      /\ Server(d) \in shut => Server(d) \in shut'
  <2>1. shut' = shut \cup {Server(backlog[i]) : i \in DOMAIN backlog}
    BY DEF CloseListener
  <2>2. \A x : Client(d) # Server(x)
    BY DEF Client, Server
  <2> QED
    BY <2>1, <2>2 DEF CloseListener, logVars
<1>2. CASE Server(d) \in shut' <=> Server(d) \in shut
  <2>1. Untouched(d)
    BY <1>1, <1>2 DEF Untouched
  <2> QED
    BY <2>1, ConnUntouched
<1>3. CASE Server(d) \in shut' /\ Server(d) \notin shut
  <2>1. ToServer(d)'
    BY <1>3 DEF ToServer
  <2>2. ToClient(d)'
    <3> SUFFICES ASSUME Client(d) \notin shut
                 PROVE  Framed(Coming(Client(d)), Len(answered[d]), Len(handled[d]), FALSE)
      <4>1. (Server(d) \notin shut') = FALSE
        BY <1>3
      <4>2. Coming(Client(d))' = Coming(Client(d))
        BY <1>1, Zenon DEF Coming
      <4> QED
        BY <1>1, <4>1, <4>2, Zenon DEF ToClient
    <3>1. PICK n \in Nat, h \in Nat, s \in Seq(Nat), whole \in BOOLEAN :
            /\ n = Len(answered[d]) /\ h = Len(handled[d]) /\ s = Coming(Client(d))
            /\ whole = (Server(d) \notin shut)
      BY ConnFacts
    <3>2. Framed(s, n, h, whole)
      BY <3>1, Zenon DEF ConnInv, ToClient
    <3>3. Framed(s, n, h, FALSE)
      BY <3>2, FramedWhole, Zenon
    <3> QED
      BY <3>1, <3>3, Zenon
  <2>3. Counts(d)'
    BY <1>1, Zenon DEF ConnInv, Counts
  <2>4. Turns(d)'
    BY <1>1, Zenon DEF ConnInv, Turns
  <2> QED
    BY <2>1, <2>2, <2>3, <2>4 DEF ConnInv
<1> QED
  BY <1>1, <1>2, <1>3

(* The worker leaves its loop, with or without a request more.             *)
LEMMA EndConnectionFrames ==
  ASSUME ServerInv, Stages, NEW c \in Conns, ConnInv(c),
         ConnectionFails(c) \/ ReceiveTimesOut(c) \/ Interrupted(c) \/ HandleOversized(c)
  PROVE  ConnInv(c)'
<1>1. CASE ConnectionFails(c) \/ ReceiveTimesOut(c) \/ Interrupted(c)
  <2>1. CloseEnd(Server(c)) /\ UNCHANGED <<client, asked, handled, answered>>
    BY <1>1 DEF ConnectionFails, ReceiveTimesOut, Interrupted, EndConnection, logVars
  <2>2. Counts(c)'
    BY <2>1, Zenon DEF ConnInv, Counts
  <2>3. Len(handled'[c]) \in Nat /\ Len(handled[c]) <= Len(handled'[c])
    BY <2>1, ConnFacts
  <2> QED
    BY <2>1, <2>2, <2>3, EndFrames
<1>2. CASE HandleOversized(c)
  <2>1. /\ c \in running /\ Complete(got[Server(c)])
        /\ CloseEnd(Server(c)) /\ UNCHANGED <<client, asked, answered>>
        /\ handled'[c] = Append(handled[c], got[Server(c)])
    BY <1>2 DEF HandleOversized, EndConnection, ServerInv, ClientInv
  <2>2. Counts(c)' /\ Len(handled'[c]) = Len(handled[c]) + 1
    BY <2>1, RequestTaken, Zenon
  <2>3. Len(handled'[c]) \in Nat /\ Len(handled[c]) <= Len(handled'[c])
    BY <2>2, ConnFacts
  <2> QED
    BY <2>1, <2>2, <2>3, EndFrames
<1> QED
  BY <1>1, <1>2

(* Every step keeps every connection in order: the ones it is not about    *)
(* are not touched.                                                        *)
LEMMA ConnStep ==
  ASSUME FramesInv, [Next]_vars
  PROVE  \A d \in Conns \ reused' : ConnInv(d)'
<1> SUFFICES ASSUME NEW d \in Conns, d \notin reused' PROVE ConnInv(d)'
  OBVIOUS
<1>r. d \notin reused /\ \A c \in Conns : ClientResumes(c) => d # c
  BY DEF Next, stop, run, AcceptLoop, Wait, Accept, AcceptFails, StopSeen, CloseListener, Destroy,
         ShutDownPool, WorkersLeave, DestroyHandler, Serve, Begin, ServerReceives, Handle, ServerSends,
         HandleOversized, ConnectionFails, ReceiveTimesOut, Interrupted, EndConnection, ClientCall,
         Connect, ClientSend, ClientRecv, ClientResumes, SendMalformed, ClientStep, ClientSends,
         ClientReceives, ClientRecvReturns, ClientFails, ClientClose, logVars, vars
<1>0. ServerInv /\ Stages /\ ConnInv(d)
  BY <1>r DEF FramesInv
<1> DEFINE Streams == [Ends -> Seq(Nat)]
<1>1. /\ wire \in Streams /\ out \in Streams /\ got \in Streams
      /\ client \in [Conns -> {"new", "idle", "send", "recv", "failed", "closed"}]
      /\ asked \in [Conns -> Nat]
      /\ handled \in [Conns -> Seq(Seq(Nat))] /\ answered \in [Conns -> Seq(Seq(Nat))]
  BY <1>0 DEF ServerInv, StreamInv, ClientInv
<1> HIDE DEF Streams
<1>2. ASSUME UNCHANGED <<streamVars, client, logVars>> PROVE ConnInv(d)'
  BY <1>0, <1>2, ConnUntouched DEF Untouched, streamVars, logVars
<1>3. CASE UNCHANGED vars
  BY <1>2, <1>3 DEF vars
<1>4. CASE stop \/ run \/ AcceptLoop \/ Destroy
  <2>1. UNCHANGED <<streamVars, client, logVars>>
    BY <1>4 DEF stop, run, AcceptLoop, Wait, Accept, AcceptFails, StopSeen, Destroy, ShutDownPool,
                WorkersLeave, DestroyHandler, serverVars
  <2> QED
    BY <1>2, <2>1
<1>5. CASE CloseListener
  BY <1>0, <1>5, CloseListenerFrames
<1>6. ASSUME NEW c \in Conns, Begin(c) PROVE ConnInv(d)'
  BY <1>2, <1>6 DEF Begin
<1>7. ASSUME NEW c \in Conns,
             \/ ServerReceives(c) \/ Handle(c) \/ ServerSends(c) \/ HandleOversized(c)
             \/ ConnectionFails(c) \/ ReceiveTimesOut(c) \/ Interrupted(c)
      PROVE  ConnInv(d)'
  <2>1. CASE d = c
    BY <1>0, <1>7, <2>1, ServerReceivesFrames, HandleFrames, ServerSendsFrames, EndConnectionFrames
  <2>2. CASE d # c
    <3>1. /\ \A e \in {Client(d), Server(d)} : e \in Ends /\ e # Client(c) /\ e # Server(c)
          /\ Peer(Server(c)) = Client(c)
      BY <2>2, EndFacts
    <3>2. Untouched(d)
      <4>1. CASE ServerReceives(c)
        BY <1>1, <2>2, <3>1, <4>1 DEF ServerReceives, Recv, Untouched, logVars
      <4>2. CASE Handle(c)
        BY <1>1, <2>2, <3>1, <4>2 DEF Handle, Untouched
      <4>3. CASE ServerSends(c)
        BY <1>1, <2>2, <3>1, <4>3 DEF ServerSends, Send, Untouched, logVars
      <4>4. CASE HandleOversized(c)
        BY <1>1, <2>2, <3>1, <4>4 DEF HandleOversized, EndConnection, CloseEnd, Untouched
      <4>5. CASE ConnectionFails(c) \/ ReceiveTimesOut(c) \/ Interrupted(c)
        <5>1. CloseEnd(Server(c)) /\ UNCHANGED <<client, asked, handled, answered>>
          BY <4>5 DEF ConnectionFails, ReceiveTimesOut, Interrupted, EndConnection, logVars
        <5> QED
          BY <1>1, <3>1, <5>1 DEF CloseEnd, Untouched
      <4> QED
        BY <1>7, <4>1, <4>2, <4>3, <4>4, <4>5
    <3> QED
      BY <1>0, <3>2, ConnUntouched
  <2> QED
    BY <2>1, <2>2
<1>8. ASSUME NEW c \in Conns,
             Connect(c) \/ ClientRecv(c) \/ ClientFails(c)
      PROVE  ConnInv(d)'
  <2>1. UNCHANGED <<streamVars, logVars>>
    BY <1>8 DEF Connect, ClientRecv, ClientFails
  <2>2. CASE d = c
    <3>1. PICK to \in {"idle", "recv", "failed"} :
            /\ ClientMoves(c, to) /\ client[c] \in {"new", "idle", "send", "recv"}
            /\ to # "failed" => client[c] \in {"new", "idle"}
      BY <1>8 DEF Connect, ClientRecv, ClientFails
    <3>2. /\ client[c] # "closed" /\ to # "closed"
          /\ to \in {"new", "idle", "recv"} => out[Client(c)] = <<>>
      BY <1>0, <2>2, <3>1 DEF ConnInv, Turns
    <3> QED
      BY <1>0, <2>1, <2>2, <3>1, <3>2, MovesFrames
  <2>3. CASE d # c
    <3>1. client'[d] = client[d]
      BY <1>1, <1>8, <2>3 DEF Connect, ClientRecv, ClientFails, ClientMoves
    <3> QED
      BY <1>0, <2>1, <3>1, ConnUntouched DEF Untouched, streamVars, logVars
  <2> QED
    BY <2>2, <2>3
<1>9. ASSUME NEW c \in Conns,
             \/ ClientSend(c) \/ \E len \in {4, 6 + MaxPayload} : SendMalformed(c, len)
             \/ ClientSends(c) \/ ClientReceives(c) \/ ClientRecvReturns(c) \/ ClientClose(c)
      PROVE  ConnInv(d)'
  <2>1. CASE d = c
    <3>1. ASSUME NEW len \in {4, 6 + MaxPayload}, SendMalformed(c, len) PROVE ConnInv(d)'
      <4>1. len \in Nat
        BY FramingAssumption
      <4> QED
        BY <1>0, <2>1, <3>1, <4>1, SendMalformedFrames
    <3> QED
      BY <1>0, <1>9, <2>1, <3>1, ClientSendFrames, ClientSendsFrames, ClientReceivesFrames,
         ClientRecvReturnsFrames, ClientCloseFrames
  <2>2. CASE d # c
    <3>1. /\ \A e \in {Client(d), Server(d)} : e \in Ends /\ e # Client(c) /\ e # Server(c)
          /\ Peer(Client(c)) = Server(c)
      BY <2>2, EndFacts
    <3>2. Untouched(d)
      <4>1. CASE ClientSend(c)
        BY <1>1, <2>2, <3>1, <4>1 DEF ClientSend, ClientMoves, Untouched
      <4>2. ASSUME NEW len \in {4, 6 + MaxPayload}, SendMalformed(c, len) PROVE Untouched(d)
        BY <1>1, <2>2, <3>1, <4>2 DEF SendMalformed, ClientMoves, Untouched, logVars
      <4>3. CASE ClientSends(c)
        BY <1>1, <2>2, <3>1, <4>3 DEF ClientSends, Send, ClientMoves, Untouched, logVars
      <4>4. CASE ClientReceives(c)
        BY <1>1, <2>2, <3>1, <4>4 DEF ClientReceives, Recv, Untouched, logVars
      <4>5. CASE ClientRecvReturns(c)
        BY <1>1, <2>2, <3>1, <4>5 DEF ClientRecvReturns, ClientMoves, Untouched
      <4>6. CASE ClientClose(c)
        BY <1>1, <2>2, <3>1, <4>6 DEF ClientClose, CloseEnd, ClientMoves, Untouched, logVars
      <4> QED
        BY <1>9, <4>1, <4>2, <4>3, <4>4, <4>5, <4>6
    <3> QED
      BY <1>0, <3>2, ConnUntouched
  <2> QED
    BY <2>1, <2>2
<1>11. ASSUME NEW c \in Conns, ClientResumes(c) PROVE ConnInv(d)'
  <2>1. d # c
    BY <1>r, <1>11
  <2>2. \A e \in {Client(d), Server(d)} : e \in Ends /\ e # Client(c)
    BY <2>1, EndFacts
  <2>3. Untouched(d)
    BY <1>1, <1>11, <2>1, <2>2 DEF ClientResumes, ClientMoves, Untouched
  <2> QED
    BY <1>0, <2>3, ConnUntouched
<1>10. CASE Next
  BY <1>4, <1>5, <1>6, <1>7, <1>8, <1>9, <1>10, <1>11 DEF Next, Serve, ClientCall, ClientStep
<1> QED
  BY <1>3, <1>10

(* A step that accepts, takes and closes no connection keeps the stages.   *)
LEMMA StagesKept ==
  ASSUME ServerInv, Stages, UNCHANGED <<backlog, submitted, queue, running>>,
         \A c \in Conns : Server(c) \in shut' => Server(c) \in shut,
         \A c \in Conns : (client'[c] = "new") <=> (client[c] = "new")
  PROVE  Stages'
<1>1. /\ \A i \in 1..Len(backlog) : backlog[i] \in Conns
      /\ \A i \in 1..Len(queue) : queue[i] \in Conns
      /\ running \subseteq Conns
  BY DEF ServerInv, LoopInv, ServeInv
<1>2. /\ \A i, j \in 1..Len(backlog') : backlog'[i] = backlog'[j] => i = j
      /\ \A i, j \in 1..Len(queue') : queue'[i] = queue'[j] => i = j
  BY DEF Stages
<1>3. \A i \in 1..Len(backlog') : /\ backlog'[i] \notin submitted' /\ client'[backlog'[i]] # "new"
                                  /\ Server(backlog'[i]) \notin shut'
  BY <1>1 DEF Stages
<1>4. \A i \in 1..Len(queue') : /\ queue'[i] \in submitted' /\ queue'[i] \notin running'
                                /\ Server(queue'[i]) \notin shut'
  BY <1>1 DEF Stages
<1>5. \A c \in running' : c \in submitted' /\ Server(c) \notin shut'
  BY <1>1 DEF Stages
<1>6. \A c \in Conns : client'[c] = "new" => c \notin submitted' /\ Server(c) \notin shut'
  BY DEF Stages
<1> QED
  BY <1>2, <1>3, <1>4, <1>5, <1>6, Zenon DEF Stages

(* Sequences without repetition, and the two ends of a queue.              *)
LEMMA DistinctAppend ==
  ASSUME NEW S, NEW s \in Seq(S), NEW x \in S, \A i, j \in 1..Len(s) : s[i] = s[j] => i = j,
         \A i \in 1..Len(s) : s[i] # x
  PROVE  /\ \A i, j \in 1..Len(Append(s, x)) : Append(s, x)[i] = Append(s, x)[j] => i = j
         /\ \A i \in 1..Len(Append(s, x)) :
              Append(s, x)[i] = x \/ \E j \in 1..Len(s) : Append(s, x)[i] = s[j]
<1> DEFINE a == Append(s, x)
<1>1. PICK n \in Nat : n = Len(s)
  BY LenProperties
<1>2. /\ Len(a) = n + 1 /\ a[n + 1] = x
      /\ \A i \in 1..n : a[i] = s[i]
  BY <1>1, AppendProperties
<1> HIDE DEF a
<1>3. \A i \in 1..(n + 1) : i \in 1..n \/ i = n + 1
  OBVIOUS
<1>4. ASSUME NEW i \in 1..Len(a), NEW j \in 1..Len(a), a[i] = a[j] PROVE i = j
  BY <1>1, <1>2, <1>3, <1>4, ZenonT(60)
<1>5. ASSUME NEW i \in 1..Len(a) PROVE a[i] = x \/ \E j \in 1..Len(s) : a[i] = s[j]
  BY <1>1, <1>2, <1>3, Zenon
<1> QED
  BY <1>4, <1>5 DEF a

(* The first element of a queue leaves it, and is not in the rest.         *)
LEMMA DistinctTail ==
  ASSUME NEW S, NEW s \in Seq(S), s # <<>>, \A i, j \in 1..Len(s) : s[i] = s[j] => i = j
  PROVE  /\ Head(s) \in S /\ Tail(s) \in Seq(S) /\ \E i \in 1..Len(s) : s[i] = Head(s)
         /\ \A i, j \in 1..Len(Tail(s)) : Tail(s)[i] = Tail(s)[j] => i = j
         /\ \A i \in 1..Len(Tail(s)) : /\ Tail(s)[i] # Head(s)
                                        /\ \E j \in 1..Len(s) : Tail(s)[i] = s[j]
<1> DEFINE u == Tail(s)
<1>1. PICK n \in Nat : n = Len(s) /\ n >= 1
  <2>1. Len(s) \in Nat /\ Len(s) # 0
    OBVIOUS
  <2> QED
    BY <2>1
<1>2. Head(s) \in S /\ u \in Seq(S) /\ Head(s) = s[1]
  BY HeadTailProperties
<1>3. Len(u) = n - 1 /\ \A i \in 1..(n - 1) : u[i] = s[i + 1]
  <2>1. Len(u) = Len(s) - 1 /\ \A i \in 1..Len(u) : u[i] = s[i + 1]
    BY HeadTailProperties
  <2> QED
    BY <1>1, <2>1, Zenon
<1> HIDE DEF u
<1>4. 1 \in 1..n /\ \A i \in 1..(n - 1) : i + 1 \in 1..n /\ i + 1 # 1
  BY <1>1
<1>5. ASSUME NEW i \in 1..Len(u), NEW j \in 1..Len(u), u[i] = u[j] PROVE i = j
  <2>1. i \in 1..(n - 1) /\ j \in 1..(n - 1)
    BY <1>3, Zenon
  <2>2. s[i + 1] = s[j + 1] /\ i + 1 \in 1..Len(s) /\ j + 1 \in 1..Len(s)
    BY <1>1, <1>3, <1>4, <1>5, <2>1, Zenon
  <2>3. i + 1 = j + 1
    BY <2>2, Zenon
  <2> QED
    BY <2>1, <2>3
<1>6. ASSUME NEW i \in 1..Len(u) PROVE u[i] # Head(s) /\ \E j \in 1..Len(s) : u[i] = s[j]
  <2>1. i \in 1..(n - 1)
    BY <1>3, Zenon
  <2>2. u[i] = s[i + 1] /\ i + 1 \in 1..Len(s) /\ 1 \in 1..Len(s) /\ i + 1 # 1
    BY <1>1, <1>3, <1>4, <2>1, Zenon
  <2>3. s[i + 1] # s[1]
    BY <2>2, Zenon
  <2> QED
    BY <1>2, <2>2, <2>3, Zenon
<1>7. \E i \in 1..Len(s) : s[i] = Head(s)
  BY <1>1, <1>2, <1>4, Zenon
<1> QED
  BY <1>2, <1>5, <1>6, <1>7 DEF u

(* A client that connects was in no stage.                                 *)
LEMMA ConnectStages ==
  ASSUME ServerInv, Stages, NEW c \in Conns, Connect(c)
  PROVE  Stages'
<1>1. /\ client[c] = "new" /\ backlog' = Append(backlog, c)
      /\ client' = [client EXCEPT ![c] = "idle"]
      /\ UNCHANGED <<shut, submitted, queue, running>>
  BY DEF Connect, ClientMoves, streamVars, taskPoolVars
<1>2. /\ backlog \in Seq(Conns) /\ queue \in Seq(Conns) /\ running \subseteq Conns
      /\ \A i \in 1..Len(backlog) : backlog[i] \in Conns
  BY DEF ServerInv, LoopInv, ServeInv
<1>3. client'[c] = "idle" /\ \A d \in Conns : d # c => client'[d] = client[d]
  BY <1>1 DEF ServerInv, ClientInv
<1>4. \A i \in 1..Len(backlog) : backlog[i] # c
  BY <1>1 DEF Stages
<1>5. /\ \A i, j \in 1..Len(backlog') : backlog'[i] = backlog'[j] => i = j
      /\ \A i \in 1..Len(backlog') : backlog'[i] = c \/ \E j \in 1..Len(backlog) : backlog'[i] = backlog[j]
  <2>1. \A i, j \in 1..Len(backlog) : backlog[i] = backlog[j] => i = j
    BY DEF Stages
  <2> QED
    BY <1>1, <1>2, <1>4, <2>1, DistinctAppend
<1>6. c \notin submitted /\ Server(c) \notin shut
  BY <1>1 DEF Stages
<1>7. ASSUME NEW i \in 1..Len(backlog')
      PROVE  /\ backlog'[i] \notin submitted' /\ client'[backlog'[i]] # "new"
             /\ Server(backlog'[i]) \notin shut'
  <2>1. CASE backlog'[i] = c
    BY <1>1, <1>3, <1>6, <2>1
  <2>2. CASE \E j \in 1..Len(backlog) : backlog'[i] = backlog[j]
    BY <1>1, <1>2, <1>3, <1>4, <2>2 DEF Stages
  <2> QED
    BY <1>5, <2>1, <2>2, Zenon
<1>8. \A d \in Conns : client'[d] = "new" => d \notin submitted' /\ Server(d) \notin shut'
  BY <1>1, <1>3 DEF Stages
<1> QED
  BY <1>1, <1>5, <1>7, <1>8, ZenonT(60) DEF Stages

(* The oldest connection of the backlog becomes the last of the queue.     *)
LEMMA AcceptStages ==
  ASSUME ServerInv, Stages, Accept
  PROVE  Stages'
<1>1. backlog # <<>>
  <2>1. loop = "batch" /\ Head(events) = "accept" /\ events \in Seq({"accept", "stop"}) /\ events # <<>>
    BY DEF Accept, ServerInv, LoopInv
  <2>2. 1 \in 1..Len(events) /\ events[1] = "accept"
    BY <2>1
  <2> QED
    BY <2>2 DEF ServerInv, LoopInv
<1>2. PICK c : c = Head(backlog)
  OBVIOUS
<1>3. /\ backlog' = Tail(backlog) /\ queue' = Append(queue, c) /\ submitted' = submitted \cup {c}
      /\ c \notin submitted /\ UNCHANGED <<shut, client, running>>
  BY <1>2 DEF Accept, Submit, streamVars
<1>4. backlog \in Seq(Conns) /\ queue \in Seq(Conns) /\ running \subseteq Conns
  BY DEF ServerInv, LoopInv, ServeInv
<1>5. /\ c \in Conns /\ \E i \in 1..Len(backlog) : backlog[i] = c
      /\ \A i, j \in 1..Len(backlog') : backlog'[i] = backlog'[j] => i = j
      /\ \A i \in 1..Len(backlog') : backlog'[i] # c /\ \E j \in 1..Len(backlog) : backlog'[i] = backlog[j]
  <2>1. \A i, j \in 1..Len(backlog) : backlog[i] = backlog[j] => i = j
    BY DEF Stages
  <2> QED
    BY <1>1, <1>2, <1>3, <1>4, <2>1, DistinctTail
<1>6. client[c] # "new" /\ Server(c) \notin shut /\ c \notin running
  BY <1>3, <1>5 DEF Stages
<1>7. \A i \in 1..Len(queue) : queue[i] # c
  BY <1>3 DEF Stages
<1>8. /\ \A i, j \in 1..Len(queue') : queue'[i] = queue'[j] => i = j
      /\ \A i \in 1..Len(queue') : queue'[i] = c \/ \E j \in 1..Len(queue) : queue'[i] = queue[j]
  <2>1. \A i, j \in 1..Len(queue) : queue[i] = queue[j] => i = j
    BY DEF Stages
  <2> QED
    BY <1>3, <1>4, <1>5, <1>7, <2>1, DistinctAppend
<1>9. ASSUME NEW i \in 1..Len(backlog')
      PROVE  /\ backlog'[i] \notin submitted' /\ client'[backlog'[i]] # "new"
             /\ Server(backlog'[i]) \notin shut'
  <2>1. PICK j \in 1..Len(backlog) : backlog'[i] = backlog[j] /\ backlog[j] # c
    BY <1>5, Zenon
  <2> QED
    BY <1>3, <2>1 DEF Stages
<1>10. ASSUME NEW i \in 1..Len(queue')
       PROVE  /\ queue'[i] \in submitted' /\ queue'[i] \notin running'
              /\ Server(queue'[i]) \notin shut'
  <2>1. CASE queue'[i] = c
    BY <1>3, <1>6, <2>1
  <2>2. CASE \E j \in 1..Len(queue) : queue'[i] = queue[j]
    BY <1>3, <2>2 DEF Stages
  <2> QED
    BY <1>8, <2>1, <2>2, Zenon
<1>11. \A d \in running' : d \in submitted' /\ Server(d) \notin shut'
  BY <1>3 DEF Stages
<1>12. \A d \in Conns : client'[d] = "new" => d \notin submitted' /\ Server(d) \notin shut'
  BY <1>3, <1>6 DEF Stages
<1> QED
  BY <1>5, <1>8, <1>9, <1>10, <1>11, <1>12, Zenon DEF Stages

(* The first of the queue gets a worker.                                   *)
LEMMA BeginStages ==
  ASSUME ServerInv, Stages, NEW c \in Conns, Begin(c)
  PROVE  Stages'
<1>1. /\ queue # <<>> /\ c = Head(queue) /\ queue' = Tail(queue) /\ running' = running \cup {c}
      /\ UNCHANGED <<shut, client, backlog, submitted>>
  BY DEF Begin, Take, streamVars, serverVars
<1>2. queue \in Seq(Conns)
  BY DEF ServerInv, ServeInv
<1>3. /\ \E i \in 1..Len(queue) : queue[i] = c
      /\ \A i, j \in 1..Len(queue') : queue'[i] = queue'[j] => i = j
      /\ \A i \in 1..Len(queue') : queue'[i] # c /\ \E j \in 1..Len(queue) : queue'[i] = queue[j]
  <2>1. \A i, j \in 1..Len(queue) : queue[i] = queue[j] => i = j
    BY DEF Stages
  <2> QED
    BY <1>1, <1>2, <2>1, DistinctTail
<1>4. c \in submitted /\ Server(c) \notin shut
  BY <1>3 DEF Stages
<1>5. ASSUME NEW i \in 1..Len(queue')
      PROVE  /\ queue'[i] \in submitted' /\ queue'[i] \notin running'
             /\ Server(queue'[i]) \notin shut'
  <2>1. PICK j \in 1..Len(queue) : queue'[i] = queue[j] /\ queue[j] # c
    BY <1>3, Zenon
  <2> QED
    BY <1>1, <2>1 DEF Stages
<1>6. \A d \in running' : d \in submitted' /\ Server(d) \notin shut'
  BY <1>1, <1>4 DEF Stages
<1> QED
  BY <1>1, <1>3, <1>5, <1>6, ZenonT(60) DEF Stages

(* A connection that is served is closed and served no more.               *)
LEMMA EndStages ==
  ASSUME ServerInv, Stages, NEW c \in Conns, EndConnection(c)
  PROVE  Stages'
<1>1. /\ c \in running /\ running' = running \ {c} /\ shut' = shut \cup {Server(c)}
      /\ UNCHANGED <<client, backlog, submitted, queue>>
  BY DEF EndConnection, CloseEnd, Finish, serverVars
<1>2. c \in submitted
  BY <1>1 DEF Stages
<1>3. \A d : Server(d) = Server(c) => d = c
  BY DEF Server
<1>4. \A i \in 1..Len(backlog') : /\ backlog'[i] \notin submitted' /\ client'[backlog'[i]] # "new"
                                  /\ Server(backlog'[i]) \notin shut'
  BY <1>1, <1>2, <1>3 DEF Stages
<1>5. \A i \in 1..Len(queue') : /\ queue'[i] \in submitted' /\ queue'[i] \notin running'
                                /\ Server(queue'[i]) \notin shut'
  BY <1>1, <1>3 DEF Stages
<1>6. \A d \in running' : d \in submitted' /\ Server(d) \notin shut'
  BY <1>1, <1>3 DEF Stages
<1>7. \A d \in Conns : client'[d] = "new" => d \notin submitted' /\ Server(d) \notin shut'
  BY <1>1, <1>2, <1>3 DEF Stages
<1> QED
  BY <1>1, <1>4, <1>5, <1>6, <1>7, ZenonT(60) DEF Stages

(* With the listening socket the connections in its backlog are closed.    *)
LEMMA CloseListenerStages ==
  ASSUME ServerInv, Stages, CloseListener
  PROVE  Stages'
<1>1. /\ backlog' = <<>> /\ shut' = shut \cup {Server(backlog[i]) : i \in DOMAIN backlog}
      /\ UNCHANGED <<client, submitted, queue, running>>
  BY DEF CloseListener, taskPoolVars
<1>2. DOMAIN backlog = 1..Len(backlog) /\ 1..Len(backlog') = {}
  <2>1. backlog \in Seq(Conns)
    BY DEF ServerInv, LoopInv
  <2>2. Len(<<>>) = 0 /\ 1..0 = {}
    OBVIOUS
  <2> QED
    BY <1>1, <2>1, <2>2
<1>3. ASSUME NEW d, Server(d) \in shut', Server(d) \notin shut
      PROVE  d \notin submitted /\ client[d] # "new"
  <2>1. PICK i \in 1..Len(backlog) : Server(d) = Server(backlog[i])
    BY <1>1, <1>2, <1>3
  <2>2. d = backlog[i]
    BY <2>1 DEF Server
  <2> QED
    BY <2>2 DEF Stages
<1>4. \A i \in 1..Len(queue') : /\ queue'[i] \in submitted' /\ queue'[i] \notin running'
                                /\ Server(queue'[i]) \notin shut'
  BY <1>1, <1>3 DEF Stages
<1>5. \A d \in running' : d \in submitted' /\ Server(d) \notin shut'
  BY <1>1, <1>3 DEF Stages
<1>6. \A d \in Conns : client'[d] = "new" => d \notin submitted' /\ Server(d) \notin shut'
  BY <1>1, <1>3 DEF Stages
<1>7. /\ \A i, j \in 1..Len(backlog') : backlog'[i] = backlog'[j] => i = j
      /\ \A i \in 1..Len(backlog') : /\ backlog'[i] \notin submitted' /\ client'[backlog'[i]] # "new"
                                      /\ Server(backlog'[i]) \notin shut'
  BY <1>2
<1> QED
  BY <1>1, <1>4, <1>5, <1>6, <1>7, ZenonT(60) DEF Stages

(* Every step keeps the connections in their stages.                       *)
LEMMA StagesStep == ASSUME FramesInv, [Next]_vars PROVE Stages'
<1>0. ServerInv /\ Stages
  BY DEF FramesInv
<1>1. client \in [Conns -> {"new", "idle", "send", "recv", "failed", "closed"}]
  BY <1>0 DEF ServerInv, ClientInv
<1>2. \A c, d \in Conns : Server(d) # Client(c)
  BY EndFacts DEF Server, Client
<1>3. ASSUME UNCHANGED <<backlog, submitted, queue, running, shut, client>> PROVE Stages'
  BY <1>0, <1>3, StagesKept
<1>4. CASE UNCHANGED vars
  BY <1>3, <1>4 DEF vars, streamVars, taskPoolVars, serverVars
<1>5. CASE stop \/ run \/ Wait \/ AcceptFails \/ StopSeen \/ Destroy
  <2>1. UNCHANGED <<backlog, submitted, queue, running, shut, client>>
    BY <1>5 DEF stop, run, Wait, AcceptFails, StopSeen, Destroy, ShutDownPool, Close, WorkersLeave, Leave,
                DestroyHandler, serverVars, streamVars, taskPoolVars
  <2> QED
    BY <1>3, <2>1
<1>6. CASE Accept \/ CloseListener
  BY <1>0, <1>6, AcceptStages, CloseListenerStages
<1>7. ASSUME NEW c \in Conns, Begin(c) \/ Connect(c) PROVE Stages'
  BY <1>0, <1>7, BeginStages, ConnectStages
<1>8. ASSUME NEW c \in Conns,
             HandleOversized(c) \/ ConnectionFails(c) \/ ReceiveTimesOut(c) \/ Interrupted(c)
      PROVE  Stages'
  <2>1. EndConnection(c)
    BY <1>8 DEF HandleOversized, ConnectionFails, ReceiveTimesOut, Interrupted
  <2> QED
    BY <1>0, <2>1, EndStages
<1>9. ASSUME NEW c \in Conns, ServerReceives(c) \/ Handle(c) \/ ServerSends(c) \/ ClientReceives(c)
      PROVE  Stages'
  <2>1. UNCHANGED <<backlog, submitted, queue, running, shut, client>>
    BY <1>9 DEF ServerReceives, Handle, ServerSends, ClientReceives, Recv, Send, serverVars, taskPoolVars
  <2> QED
    BY <1>3, <2>1
<1>10. ASSUME NEW c \in Conns,
              \/ ClientSend(c) \/ ClientResumes(c) \/ ClientRecv(c) \/ ClientSends(c)
              \/ \E len \in {4, 6 + MaxPayload} : SendMalformed(c, len)
              \/ ClientRecvReturns(c) \/ ClientFails(c) \/ ClientClose(c)
       PROVE  Stages'
  <2>1. PICK to \in {"idle", "send", "recv", "failed", "closed"} :
          client' = [client EXCEPT ![c] = to] /\ client[c] # "new"
    BY <1>10 DEF ClientSend, ClientResumes, ClientRecv, ClientSends, SendMalformed,
                 ClientRecvReturns, ClientFails, ClientClose, ClientMoves
  <2>2. \A d \in Conns : (client'[d] = "new") <=> (client[d] = "new")
    BY <1>1, <2>1
  <2>3. UNCHANGED <<backlog, submitted, queue, running>> /\ shut' \subseteq shut \cup {Client(c)}
    BY <1>10 DEF ClientSend, ClientResumes, ClientRecv, ClientSends, Send, SendMalformed,
                 ClientRecvReturns, ClientFails, ClientClose, CloseEnd, streamVars, serverVars, taskPoolVars
  <2>4. \A d \in Conns : Server(d) \in shut' => Server(d) \in shut
    BY <1>2, <2>3
  <2> QED
    BY <1>0, <2>2, <2>3, <2>4, StagesKept
<1>11. CASE Next
  BY <1>5, <1>6, <1>7, <1>8, <1>9, <1>10, <1>11 DEF Next, AcceptLoop, Serve, ClientCall, ClientStep
<1> QED
  BY <1>4, <1>11

(* At first every stream is empty.                                         *)
LEMMA FramesInit == Init => FramesInv
<1> SUFFICES ASSUME Init PROVE FramesInv
  OBVIOUS
<1>1. Stages
  <2>1. /\ backlog = <<>> /\ queue = <<>> /\ running = {} /\ submitted = {} /\ shut = {}
    BY DEF Init, StreamInit, PoolInit
  <2>2. Len(<<>>) = 0 /\ 1..0 = {}
    OBVIOUS
  <2> QED
    BY <2>1, <2>2 DEF Stages
<1>2. ASSUME NEW c \in Conns PROVE ConnInv(c)
  <2>1. /\ \A e \in {Client(c), Server(c)} : wire[e] = <<>> /\ out[e] = <<>> /\ got[e] = <<>>
        /\ shut = {} /\ client[c] = "new" /\ asked[c] = 0 /\ handled[c] = <<>> /\ answered[c] = <<>>
    BY EndFacts DEF Init, StreamInit
  <2>2. Len(<<>>) = 0 /\ 1..0 = {} /\ (<<>> \o <<>>) \o <<>> = <<>> /\ 0 <= 0
    OBVIOUS
  <2>3. Counts(c)
    BY <2>1, <2>2 DEF Counts
  <2>4. Coming(Client(c)) = <<>> /\ Coming(Server(c)) = <<>>
    BY <2>1, <2>2, EndFacts, Zenon DEF Coming
  <2>5. \A whole : Framed(<<>>, 0, 0, whole)
    BY FramedNone
  <2>6. ToServer(c) /\ ToClient(c)
    BY <2>1, <2>2, <2>4, <2>5, Zenon DEF ToServer, ToClient
  <2>7. Turns(c)
    BY <2>1 DEF Turns
  <2> QED
    BY <2>3, <2>6, <2>7 DEF ConnInv
<1> QED
  BY <1>1, <1>2, ServerInit DEF FramesInv

(* In every reachable state the streams of every connection hold the       *)
(* frames still to be read, in their order, whatever was cut off, until    *)
(* its client goes on after a failed call.                                 *)
THEOREM FramesInvariant == Spec => []FramesInv
<1>1. FramesInv /\ [Next]_vars => FramesInv'
  <2> SUFFICES ASSUME FramesInv, [Next]_vars PROVE FramesInv'
    OBVIOUS
  <2>1. ServerInv
    BY DEF FramesInv
  <2>2. ServerInv'
    BY <2>1, StreamStep, ClientInvStep, LoopInvStep, ServeInvStep DEF ServerInv
  <2> QED
    BY <2>2, StagesStep, ConnStep DEF FramesInv
<1> QED
  BY <1>1, FramesInit, PTL DEF Spec

(* The handler gets each client's requests whole, in order and once each,  *)
(* and the client their answers in the same order (protocol.cpp:76-124,    *)
(* tcp_server.cpp:123-133), for any number of connections and requests,    *)
(* any payload limit and any socket buffer, however sends are cut up and   *)
(* wherever a malformed length, a timeout, a signal or a close falls, as   *)
(* long as the client does not go on after a call that has failed.         *)
THEOREM FramesStayIntact == Spec => []FramesIntact
<1>1. FramesInv => FramesIntact
  <2> SUFFICES ASSUME FramesInv, NEW c \in Conns, c \notin reused
               PROVE  /\ Prefix(handled[c], [i \in 1..asked[c] |-> Request(i)])
                      /\ Prefix(answered[c], handled[c])
    BY DEF FramesIntact
  <2>0. ServerInv /\ Counts(c)
    BY DEF FramesInv, ConnInv
  <2>1. PICK h \in Nat, a \in Nat, q \in Nat :
          h = Len(handled[c]) /\ a = Len(answered[c]) /\ q = asked[c]
    BY <2>0, ConnFacts
  <2>2. DOMAIN handled[c] = 1..h /\ DOMAIN answered[c] = 1..a
    BY <2>0, <2>1, ConnFacts, LenProperties
  <2>3. a <= h /\ h <= q
    BY <2>0, <2>1 DEF Counts
  <2>4. \A i \in 1..h : i \in 1..q
    BY <2>3
  <2>5. \A i \in 1..a : i \in 1..h
    BY <2>3
  <2>6. /\ \A i \in 1..h : handled[c][i] = Request(i)
        /\ \A i \in 1..a : answered[c][i] = Request(i)
    BY <2>0, <2>1 DEF Counts
  <2> DEFINE all == [i \in 1..q |-> Request(i)]
  <2>7. Len(all) = q /\ \A i \in 1..q : all[i] = Request(i)
    OBVIOUS
  <2> HIDE DEF all
  <2>8. Prefix(handled[c], all)
    BY <2>1, <2>2, <2>3, <2>4, <2>6, <2>7, Zenon DEF Prefix
  <2>9. Prefix(answered[c], handled[c])
    BY <2>1, <2>2, <2>3, <2>5, <2>6, Zenon DEF Prefix
  <2> QED
    BY <2>1, <2>8, <2>9, Zenon DEF all
<1> QED
  BY <1>1, FramesInvariant, PTL
=============================================================================
