----------------------------- MODULE TcpServer -----------------------------
(***************************************************************************)
(* TcpServer (tcp_server/src/tcp_server.cpp) with its clients: the accept  *)
(* loop on an epoll of the listening socket and the stop pipe, one task of *)
(* the thread pool per connection for the connection's whole life, and the *)
(* destructor.  The pool is its abstraction TaskPool, which ThreadPool     *)
(* implements; a task is the connection it handles.                        *)
(*                                                                         *)
(* Each client owns one TcpClient and calls send and recv as it likes, so  *)
(* also several sends before a recv, and also after a call has failed.  It *)
(* may die at any point.  The application destroys the server only while   *)
(* no thread is in run(), and its handler answers each request with the    *)
(* request's id.                                                           *)
(***************************************************************************)
EXTENDS Framing, TaskPool

CONSTANTS
  Requests,    (* bound: how many requests each client sends at most       *)
  RecvTimeout  (* recv_timeout_ms_ > 0                                     *)

ASSUME ServerAssumption ==
  /\ Tasks = Conns
  /\ Requests \in [Conns -> Nat] /\ RecvTimeout \in BOOLEAN

VARIABLES
  backlog,     (* connections the kernel has set up and nobody accepted    *)
  pipe,        (* a byte is in stop_pipe_                                  *)
  loop,        (* accept_loop: out (of run), wait (epoll_wait), batch      *)
  events,      (* the events of the batch still to be looked at            *)
  life,        (* the server: alive, closing (in its destructor), joining  *)
               (* (in the pool's), dead (handler_ destroyed)               *)
  client,      (* each client: new, idle, send, recv, failed, closed       *)
  asked,       (* how many requests each client has begun to send          *)
  handled,     (* the requests the handler has been given                  *)
  answered,    (* the responses the client's recv() has returned           *)
  reused       (* the clients that have gone on after a failed call        *)

serverVars == <<backlog, pipe, loop, events, life>>
logVars == <<asked, handled, answered, reused>>
vars == <<streamVars, taskPoolVars, serverVars, client, logVars>>

Init ==
  /\ StreamInit /\ PoolInit
  /\ backlog = <<>> /\ pipe = FALSE /\ loop = "out" /\ events = <<>> /\ life = "alive"
  /\ client = [c \in Conns |-> "new"]
  /\ asked = [c \in Conns |-> 0]
  /\ handled = [c \in Conns |-> <<>>] /\ answered = [c \in Conns |-> <<>>]
  /\ reused = {}

(* A client's i-th request.  Its id could be taken for a length.           *)
Request(i) == Frame(4 + i, (i - 1) % (MaxPayload + 1))

-----------------------------------------------------------------------------
(***************************************************************************)
(* TcpClient and the program that uses it.                                 *)
(***************************************************************************)
ClientMoves(c, to) == client' = [client EXCEPT ![c] = to]

(* The constructor: it throws if nobody listens.                           *)
Connect(c) ==
  /\ client[c] = "new" /\ life = "alive"
  /\ backlog' = Append(backlog, c)
  /\ ClientMoves(c, "idle")
  /\ UNCHANGED <<streamVars, taskPoolVars, pipe, loop, events, life, logVars>>

(* send_request has accepted the payload.  One that is too long it refuses *)
(* before it sends any of it, and nothing has changed.                     *)
ClientSend(c) ==
  /\ client[c] = "idle" /\ asked[c] < Requests[c]
  /\ asked' = [asked EXCEPT ![c] = @ + 1]
  /\ out' = [out EXCEPT ![Client(c)] = Request(asked'[c])]
  /\ ClientMoves(c, "send")
  /\ UNCHANGED <<wire, got, shut, taskPoolVars, serverVars, handled, answered, reused>>

ClientSends(c) ==
  /\ client[c] = "send"
  /\ Send(Client(c))
  /\ ClientMoves(c, IF out'[Client(c)] = <<>> THEN "idle" ELSE "send")
  /\ UNCHANGED <<taskPoolVars, serverVars, logVars>>

(* A peer that does not use TcpClient sends a length no frame has, as the  *)
(* tests MalformedLengthTooLarge and MalformedLengthTooSmall do.           *)
SendMalformed(c, len) ==
  /\ client[c] = "idle" /\ asked[c] < Requests[c]
  /\ ~LengthOK(len) /\ c \notin reused
  /\ out' = [out EXCEPT ![Client(c)] = <<len>>]
  /\ ClientMoves(c, "send")
  /\ UNCHANGED <<wire, got, shut, taskPoolVars, serverVars, logVars>>

ClientRecv(c) ==
  /\ client[c] = "idle"
  /\ ClientMoves(c, "recv")
  /\ UNCHANGED <<streamVars, taskPoolVars, serverVars, logVars>>

ClientReceives(c) ==
  /\ client[c] = "recv"
  /\ ~Malformed(got[Client(c)]) /\ ~Complete(got[Client(c)])
  /\ Recv(Client(c))
  /\ UNCHANGED <<client, taskPoolVars, serverVars, logVars>>

ClientRecvReturns(c) ==
  /\ client[c] = "recv" /\ Complete(got[Client(c)])
  /\ answered' = [answered EXCEPT ![c] = Append(@, got[Client(c)])]
  /\ got' = [got EXCEPT ![Client(c)] = <<>>]
  /\ ClientMoves(c, "idle")
  /\ UNCHANGED <<wire, out, shut, taskPoolVars, serverVars, asked, handled, reused>>

(* send() or recv() returns false; connected() still says true.            *)
ClientFails(c) ==
  /\ client[c] \in {"send", "recv"} /\ ~Complete(got[Client(c)])
  /\ PeerClosed(Client(c)) \/ Blocked(Client(c)) \/ Malformed(got[Client(c)])
  /\ ClientMoves(c, "failed")
  /\ UNCHANGED <<streamVars, taskPoolVars, serverVars, logVars>>

(* The program calls send or recv again.  What the failed call had read is *)
(* lost, and what it had not sent is never sent.  (Bound: while it has     *)
(* requests left.)                                                         *)
ClientResumes(c) ==
  /\ client[c] = "failed" /\ asked[c] < Requests[c]
  /\ ClientMoves(c, "idle")
  /\ reused' = reused \cup {c}
  /\ out' = [out EXCEPT ![Client(c)] = <<>>]
  /\ got' = [got EXCEPT ![Client(c)] = <<>>]
  /\ UNCHANGED <<wire, shut, taskPoolVars, serverVars, asked, handled, answered>>

(* ~TcpClient, or the death of the client's process.                       *)
ClientClose(c) ==
  /\ client[c] \in {"idle", "send", "recv", "failed"}
  /\ CloseEnd(Client(c))
  /\ ClientMoves(c, "closed")
  /\ UNCHANGED <<taskPoolVars, serverVars, logVars>>

-----------------------------------------------------------------------------
(***************************************************************************)
(* stop(), run() and accept_loop().                                        *)
(***************************************************************************)
stop ==
  /\ life = "alive"
  /\ pipe' = TRUE
  /\ UNCHANGED <<streamVars, taskPoolVars, backlog, loop, events, life, client, logVars>>

(* If epoll_create1 fails run() throws and has changed nothing.            *)
run ==
  /\ life = "alive" /\ loop = "out"
  /\ loop' = "wait"
  /\ UNCHANGED <<streamVars, taskPoolVars, backlog, pipe, events, life, client, logVars>>

(* epoll_wait, level-triggered on both descriptors, reports all that is    *)
(* ready, in any order.                                                    *)
Ready == {e \in {"accept", "stop"} : IF e = "stop" THEN pipe ELSE backlog # <<>>}

Wait ==
  /\ loop = "wait" /\ Ready # {}
  /\ loop' = "batch"
  /\ events' \in {f \in [1..Cardinality(Ready) -> Ready] : Ready = {f[i] : i \in DOMAIN f}}
  /\ UNCHANGED <<streamVars, taskPoolVars, backlog, pipe, life, client, logVars>>

NextEvent ==
  /\ events' = Tail(events)
  /\ loop' = IF Tail(events) = <<>> THEN "wait" ELSE "batch"

Accept ==
  /\ loop = "batch" /\ Head(events) = "accept"
  /\ Submit(Head(backlog))
  /\ backlog' = Tail(backlog)
  /\ NextEvent
  /\ UNCHANGED <<streamVars, pipe, life, client, logVars>>

(* accept4 fails, as it does while the process is out of descriptors; the  *)
(* connection stays where it is and epoll_wait reports it again at once.   *)
AcceptFails ==
  /\ loop = "batch" /\ Head(events) = "accept"
  /\ NextEvent
  /\ UNCHANGED <<streamVars, taskPoolVars, backlog, pipe, life, client, logVars>>

(* Mutant: the byte is taken out of the pipe.                              *)
StopSeenAndRead ==
  /\ loop = "batch" /\ Head(events) = "stop"
  /\ loop' = "out" /\ events' = <<>> /\ pipe' = FALSE
  /\ UNCHANGED <<streamVars, taskPoolVars, backlog, life, client, logVars>>

(* run() returns; nobody ever reads the pipe, so it stays readable.        *)
StopSeen ==
  /\ loop = "batch" /\ Head(events) = "stop"
  /\ loop' = "out" /\ events' = <<>>
  /\ UNCHANGED <<streamVars, taskPoolVars, backlog, pipe, life, client, logVars>>

-----------------------------------------------------------------------------
(***************************************************************************)
(* handle_connection(), as a task of the pool.                             *)
(***************************************************************************)
Begin(c) ==
  /\ Take(c)
  /\ UNCHANGED <<streamVars, serverVars, client, logVars>>

Sending(c) == c \in running /\ out[Server(c)] # <<>>
Reading(c) == c \in running /\ out[Server(c)] = <<>> /\ ~Complete(got[Server(c)])

(* recv_request                                                            *)
ServerReceives(c) ==
  /\ Reading(c) /\ ~Malformed(got[Server(c)])
  /\ Recv(Server(c))
  /\ UNCHANGED <<taskPoolVars, serverVars, client, logVars>>

(* handler_(req) and the start of send_response.                           *)
Handle(c) ==
  /\ c \in running /\ Complete(got[Server(c)])
  /\ handled' = [handled EXCEPT ![c] = Append(@, got[Server(c)])]
  /\ out' = [out EXCEPT ![Server(c)] = got[Server(c)]]
  /\ got' = [got EXCEPT ![Server(c)] = <<>>]
  /\ UNCHANGED <<wire, shut, taskPoolVars, serverVars, client, asked, answered, reused>>

ServerSends(c) ==
  /\ Sending(c)
  /\ Send(Server(c))
  /\ UNCHANGED <<taskPoolVars, serverVars, client, logVars>>

(* The loop is left, the descriptor closed and the task over.              *)
EndConnection(c) ==
  /\ CloseEnd(Server(c))
  /\ Finish(c)
  /\ UNCHANGED <<serverVars, client>>

(* The handler's response is too long: send_response refuses it.           *)
HandleOversized(c) ==
  /\ c \in running /\ Complete(got[Server(c)])
  /\ handled' = [handled EXCEPT ![c] = Append(@, got[Server(c)])]
  /\ EndConnection(c)
  /\ UNCHANGED <<asked, answered, reused>>

(* recv_request or send_response returns false.                            *)
ConnectionFails(c) ==
  /\ Reading(c) \/ Sending(c)
  /\ PeerClosed(Server(c)) \/ Malformed(got[Server(c)])
  /\ EndConnection(c)
  /\ UNCHANGED logVars

(* Mutant: the receive timeout is never set.                               *)
TimeoutSetNever == FALSE

(* SO_RCVTIMEO is set on the accepted socket.                              *)
TimeoutSet == RecvTimeout

(* recv() times out.  There is no timeout on send().                       *)
ReceiveTimesOut(c) ==
  /\ Reading(c) /\ wire[Server(c)] = <<>> /\ TimeoutSet
  /\ EndConnection(c)
  /\ UNCHANGED logVars

(* A signal interrupts recv() or send().                                   *)
Interrupted(c) ==
  /\ Reading(c) \/ Sending(c)
  /\ Blocked(Server(c))
  /\ EndConnection(c)
  /\ UNCHANGED logVars

-----------------------------------------------------------------------------
(***************************************************************************)
(* ~TcpServer: its body closes the descriptors, then the members go in     *)
(* reverse order of declaration, pool_ before handler_.                    *)
(***************************************************************************)
CloseListener ==
  /\ life = "alive" /\ loop = "out"
  /\ life' = "closing"
  /\ shut' = shut \cup {Server(backlog[i]) : i \in DOMAIN backlog}
  /\ backlog' = <<>> /\ pipe' = FALSE
  /\ UNCHANGED <<wire, out, got, taskPoolVars, loop, events, client, logVars>>

ShutDownPool ==
  /\ life = "closing" /\ life' = "joining"
  /\ Close
  /\ UNCHANGED <<streamVars, backlog, pipe, loop, events, client, logVars>>

WorkersLeave ==
  /\ Leave
  /\ UNCHANGED <<streamVars, serverVars, client, logVars>>

(* Mutant: the workers are not joined.                                     *)
DetachedFirst == TRUE

(* pool_ is destroyed before handler_: its destructor joins the workers.   *)
JoinedFirst == gone

DestroyHandler ==
  /\ life = "joining" /\ JoinedFirst
  /\ life' = "dead"
  /\ UNCHANGED <<streamVars, taskPoolVars, backlog, pipe, loop, events, client, logVars>>

-----------------------------------------------------------------------------
AcceptLoop == Wait \/ Accept \/ AcceptFails \/ StopSeen
Serve(c) ==
  \/ Begin(c) \/ ServerReceives(c) \/ Handle(c) \/ ServerSends(c)
  \/ HandleOversized(c) \/ ConnectionFails(c) \/ ReceiveTimesOut(c)
Destroy == ShutDownPool \/ WorkersLeave \/ DestroyHandler
ClientCall(c) ==
  \/ Connect(c) \/ ClientSend(c) \/ ClientRecv(c) \/ ClientResumes(c)
  \/ \E len \in {4, 6 + MaxPayload} : SendMalformed(c, len)
ClientStep(c) == ClientSends(c) \/ ClientReceives(c) \/ ClientRecvReturns(c)

Next ==
  \/ stop \/ run \/ AcceptLoop \/ CloseListener \/ Destroy
  \/ \E c \in Conns : Serve(c) \/ Interrupted(c)
  \/ \E c \in Conns : ClientCall(c) \/ ClientStep(c) \/ ClientFails(c) \/ ClientClose(c)

Spec == Init /\ [][Next]_vars

(* The server's threads run, its handler returns, accept4 does not fail    *)
(* for ever and a receive timeout expires.  Nothing is assumed of clients. *)
(* Nobody has to call stop(), run() or the destructor, and no signal has   *)
(* to come.                                                                *)
Fairness ==
  /\ WF_vars(AcceptLoop) /\ SF_vars(Accept) /\ WF_vars(Destroy)
  /\ \A c \in Conns : WF_vars(Serve(c))

FairSpec == Spec /\ Fairness

-----------------------------------------------------------------------------
OpenFds == {c \in submitted : Server(c) \notin shut}

TypeOK ==
  /\ StreamsOK
  /\ submitted \subseteq Conns /\ queue \in Seq(Conns) /\ running \subseteq Conns
  /\ closed \in BOOLEAN /\ gone \in BOOLEAN
  /\ backlog \in Seq(Conns) /\ pipe \in BOOLEAN
  /\ loop \in {"out", "wait", "batch"} /\ (events # <<>> <=> loop = "batch")
  /\ life \in {"alive", "closing", "joining", "dead"}
  /\ client \in [Conns -> {"new", "idle", "send", "recv", "failed", "closed"}]
  /\ \A c \in Conns : asked[c] \in 0..Requests[c]
  /\ handled \in [Conns -> Seq(Seq(Nat))] /\ answered \in [Conns -> Seq(Seq(Nat))]
  /\ reused \subseteq Conns

(* Every variable has its type, and no worker outlives what it uses: when  *)
(* handler_ is destroyed no task runs or waits, and each connection ever   *)
(* accepted has been closed (tcp_server.cpp:55-62, the order of the        *)
(* members in tcp_server.hpp:37-38, and ThreadPool's destructor).          *)
Inv == TypeOK /\ (life = "dead" => running = {} /\ queue = <<>> /\ OpenFds = {})

Prefix(s, t) == Len(s) <= Len(t) /\ \A i \in DOMAIN s : s[i] = t[i]

(* Framing never loses its place: whatever mixture of slow senders, partly *)
(* sent frames, malformed lengths, timeouts, signals and closed sockets,   *)
(* the handler gets a client's requests whole, in order and once each, and *)
(* the client gets the answers to them in the same order                   *)
(* (protocol.cpp:76-124, tcp_server.cpp:123-133).  A client that goes on   *)
(* after a failed call may have left part of a frame behind.               *)
FramesIntact ==
  \A c \in Conns \ reused :
    /\ Prefix(handled[c], [i \in 1..asked[c] |-> Request(i)])
    /\ Prefix(answered[c], handled[c])

(* A stop() is never lost, not even one made before run() or between two   *)
(* calls of it: from then on every run() returns (tcp_server.hpp:25-26,    *)
(* tcp_server.cpp:64-67, :97-100).                                         *)
StopIsForGood == [](pipe => []<>(loop = "out"))

(* The two ways for a client to keep the worker that serves it: not to     *)
(* read the answer send_response is blocked on (there is no timeout on     *)
(* send()), and to go on asking within every receive timeout.              *)
SendBlocked(c) == Sending(c) /\ Len(wire[Client(c)]) = SockBuf
Asks(c) == c \in running /\ Complete(got[Server(c)])

ClientsLetGo == \A c \in Conns : []<>~SendBlocked(c) /\ <>[]~Asks(c)

Waits(c) == c \in submitted \/ (loop # "out" /\ \E i \in DOMAIN backlog : backlog[i] = c)
Ended(c) == Server(c) \in shut \/ (c \notin submitted /\ (pipe \/ life # "alive"))

(* A connection is starved or kept for ever only by clients that do not    *)
(* let go of their workers, although each one holds a worker for its whole *)
(* life and descriptors may run out: if they do, it is accepted unless the *)
(* server is stopped, gets a worker, and is closed, however silent its own *)
(* client is and wherever in a frame it stops (tcp_server.cpp:102-133,     *)
(* protocol.cpp:28).                                                       *)
EveryConnectionEnds == ClientsLetGo => \A c \in Conns : Waits(c) ~> Ended(c)

(* The destructor returns although it joins workers that read from silent  *)
(* clients (tcp_server.hpp:18: "used for graceful shutdown"), again if the *)
(* clients let go of their workers: stop() does not end a connection that  *)
(* is being served.                                                        *)
DestructorReturns == ClientsLetGo => ((life = "closing") ~> (life = "dead"))
=============================================================================
