---------------------------- MODULE MCTcpServer ----------------------------
(***************************************************************************)
(* TcpServer for TLC: the first client sends two requests, so also both    *)
(* before it reads an answer; the second connects and stays silent.  When  *)
(* the first has all its answers the logs may be forgotten, and it may ask *)
(* again: so it may also go on asking for ever.                            *)
(***************************************************************************)
EXTENDS TcpServer

CONSTANTS c1, c2

MCRequests == [c \in Conns |-> IF c = c1 THEN 2 ELSE 0]

Forget(c) ==
  /\ client[c] = "idle" /\ c \notin reused
  /\ asked[c] > 0 /\ asked[c] = Requests[c] /\ Len(answered[c]) = asked[c]
  /\ asked' = [asked EXCEPT ![c] = 0]
  /\ handled' = [handled EXCEPT ![c] = <<>>]
  /\ answered' = [answered EXCEPT ![c] = <<>>]
  /\ UNCHANGED <<streamVars, taskPoolVars, serverVars, client, reused>>

MCNext == Next \/ \E c \in Conns : Forget(c)

MCSpec == Init /\ [][MCNext]_vars /\ Fairness
=============================================================================
