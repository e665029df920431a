------------------------------ MODULE Framing ------------------------------
(***************************************************************************)
(* The length-prefixed frames of tcp_server/src/protocol.cpp over the two  *)
(* byte streams of a connection.  The unit of a stream is a field: length, *)
(* id, type or status, and as many units of payload as the length says.  A *)
(* field cut in two by the end of a stream is a field that never came,     *)
(* since recv_exact hands out whole fields only.  All units are numbers: a *)
(* reader that has lost its place reads an id as a length.                 *)
(*                                                                         *)
(* recv_request and recv_response, and the two senders, differ only in the *)
(* meaning of the third field, and are one operator here.                  *)
(***************************************************************************)
EXTENDS Naturals, Sequences

CONSTANTS
  Conns,       (* the connections, each with a client and a server end     *)
  MaxPayload,  (* kMaxPayloadBytes                                         *)
  SockBuf      (* how many units the kernel holds for one end              *)

ASSUME FramingAssumption == MaxPayload \in Nat /\ SockBuf \in Nat \ {0}

VARIABLES
  wire,        (* wire[e]: what e's peer has sent and e has not read       *)
  out,         (* out[e]: what is left of the frame e is sending           *)
  got,         (* got[e]: what e has read of the current frame             *)
  shut         (* the ends that have closed their socket                   *)

streamVars == <<wire, out, got, shut>>

Client(c) == <<"client", c>>
Server(c) == <<"server", c>>
Ends == {"client", "server"} \X Conns
Peer(e) == IF e[1] = "client" THEN Server(e[2]) ELSE Client(e[2])

StreamInit ==
  /\ wire = [e \in Ends |-> <<>>] /\ out = [e \in Ends |-> <<>>]
  /\ got = [e \in Ends |-> <<>>]
  /\ shut = {}

Frame(id, size) == <<5 + size, id, id>> \o [i \in 1..size |-> id]

LengthOK(len) == len >= 5 /\ len - 5 <= MaxPayload

Malformed(f) == f # <<>> /\ ~LengthOK(f[1])

(* Mutant: the length is taken to count the type byte, not the id.         *)
CompleteOffByOne(f) == Len(f) >= 3 /\ Len(f) = f[1] - 1

(* A frame read to its end: three fields and length - 5 units of payload.  *)
Complete(f) == Len(f) >= 3 /\ Len(f) = 3 + (f[1] - 5)

-----------------------------------------------------------------------------
(* One send() of send_exact; it blocks while the peer's buffer is full.    *)
(* What is sent to an end that has closed goes nowhere.                    *)
Send(e) ==
  /\ out[e] # <<>>
  /\ Len(wire[Peer(e)]) < SockBuf
  /\ wire' = IF Peer(e) \in shut THEN wire
             ELSE [wire EXCEPT ![Peer(e)] = Append(@, Head(out[e]))]
  /\ out' = [out EXCEPT ![e] = Tail(@)]
  /\ UNCHANGED <<got, shut>>

(* One recv() of recv_exact.                                               *)
Recv(e) ==
  /\ wire[e] # <<>>
  /\ got' = [got EXCEPT ![e] = Append(@, Head(wire[e]))]
  /\ wire' = [wire EXCEPT ![e] = Tail(@)]
  /\ UNCHANGED <<out, shut>>

(* The call in progress returns 0 or an error because the peer has closed; *)
(* a reset may overtake data that are still on their way.                  *)
PeerClosed(e) == Peer(e) \in shut

(* A signal interrupts a call that blocks: EINTR counts as a failure.      *)
Blocked(e) == IF out[e] # <<>> THEN Len(wire[Peer(e)]) = SockBuf ELSE wire[e] = <<>>

(* close(): what was not read is dropped.                                  *)
CloseEnd(e) ==
  /\ shut' = shut \cup {e}
  /\ wire' = [wire EXCEPT ![e] = <<>>]
  /\ out' = [out EXCEPT ![e] = <<>>]
  /\ got' = [got EXCEPT ![e] = <<>>]

StreamsOK ==
  /\ wire \in [Ends -> Seq(Nat)] /\ \A e \in Ends : Len(wire[e]) <= SockBuf
  /\ out \in [Ends -> Seq(Nat)]
  /\ got \in [Ends -> Seq(Nat)] /\ \A e \in Ends : Len(got[e]) <= 3 + MaxPayload
  /\ shut \subseteq Ends
=============================================================================
