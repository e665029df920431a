------------------------------ MODULE TaskPool ------------------------------
(***************************************************************************)
(* What the thread pool promises its user: tasks are taken in the order in *)
(* which they were submitted, each one once and by one of NumWorkers       *)
(* workers; once the pool is closed the workers leave, and they leave an   *)
(* empty queue behind.  A task submitted after that waits for ever.        *)
(***************************************************************************)
EXTENDS Naturals, Sequences, FiniteSets

CONSTANTS Tasks, NumWorkers

VARIABLES
  submitted, (* the tasks submitted so far                                 *)
  queue,     (* those no worker has taken yet                              *)
  running,   (* those a worker has taken and not finished                  *)
  closed,    (* the pool has been told to stop                             *)
  gone       (* no worker is left                                          *)

taskPoolVars == <<submitted, queue, running, closed, gone>>

PoolInit ==
  /\ submitted = {} /\ queue = <<>> /\ running = {}
  /\ closed = FALSE /\ gone = FALSE

Submit(t) ==
  /\ t \notin submitted
  /\ submitted' = submitted \cup {t}
  /\ queue' = Append(queue, t)
  /\ UNCHANGED <<running, closed, gone>>

Take(t) ==
  /\ ~gone /\ Cardinality(running) < NumWorkers
  /\ queue # <<>> /\ t = Head(queue)
  /\ queue' = Tail(queue)
  /\ running' = running \cup {t}
  /\ UNCHANGED <<submitted, closed, gone>>

Finish(t) ==
  /\ t \in running
  /\ running' = running \ {t}
  /\ UNCHANGED <<submitted, queue, closed, gone>>

Close ==
  /\ closed' = TRUE
  /\ UNCHANGED <<submitted, queue, running, gone>>

Leave ==
  /\ closed /\ ~gone
  /\ queue = <<>> /\ running = {}
  /\ gone' = TRUE
  /\ UNCHANGED <<submitted, queue, running, closed>>

PoolNext == Close \/ Leave \/ \E t \in Tasks : Submit(t) \/ Take(t) \/ Finish(t)

PoolSpec == PoolInit /\ [][PoolNext]_taskPoolVars
=============================================================================
