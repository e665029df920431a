----------------------------- MODULE ThreadPool -----------------------------
(***************************************************************************)
(* The thread pool of tcp_server/src/thread_pool.hpp: a mutex-protected    *)
(* queue of tasks, a condition variable, workers, threads that submit, and *)
(* one thread that shuts the pool down (possibly again, as the destructor  *)
(* does).  A critical section is one step; what the code does outside the  *)
(* mutex (notify_one, notify_all, the task itself, join) are steps of      *)
(* their own, and cv_.wait may wake up spuriously.                         *)
(*                                                                         *)
(* A task may submit tasks itself.  Tasks do not throw (an exception ends  *)
(* the program) and do not call shutdown().                                *)
(***************************************************************************)
EXTENDS Integers, Sequences, FiniteSets

CONSTANTS
  Workers,   (* workers_                                                   *)
  Clients,   (* threads that call submit                                   *)
  Tasks,     (* the tasks of a behaviour, each submitted at most once      *)
  NoTask

ASSUME PoolAssumption ==
  /\ IsFiniteSet(Workers) /\ Workers # {}
  /\ NoTask \notin Tasks

VARIABLES
  tasks,     (* tasks_                                                     *)
  stop,      (* stop_                                                      *)
  wpc,       (* worker: check, sleep, run, notify (in a task's submit) or  *)
             (* exit                                                       *)
  wtask,     (* the task a worker runs                                     *)
  cpc,       (* client: idle, or between the unlock and notify_one         *)
  spc,       (* shutdown(): none, notify, join, done                       *)
  accepted,  (* tasks that were submitted                                  *)
  owed,      (* those submitted before stop_ was set, or by a task         *)
  done       (* tasks that have run                                        *)

poolVars == <<tasks, stop>>
logVars == <<accepted, owed, done>>
vars == <<poolVars, wpc, wtask, cpc, spc, logVars>>

Init ==
  /\ tasks = <<>> /\ stop = FALSE
  /\ wpc = [w \in Workers |-> "check"] /\ wtask = [w \in Workers |-> NoTask]
  /\ cpc = [c \in Clients |-> "idle"]
  /\ spc = "none"
  /\ accepted = {} /\ owed = {} /\ done = {}

At(pc) == {w \in Workers : wpc[w] = pc}

(* Mutant: the notification is forgotten.                                  *)
NotifyNobody(pcs) == {pcs}

(* cv_.notify_one(): the workers' control points pcs after one of the      *)
(* sleeping workers, if there is one, has been woken up.                   *)
NotifyOne(pcs) ==
  LET sleepers == {w \in Workers : pcs[w] = "sleep"} IN
    IF sleepers = {} THEN {pcs} ELSE {[pcs EXCEPT ![w] = "check"] : w \in sleepers}

(* Mutant: notify_one instead of notify_all.                               *)
NotifyOnlyOne(pcs) == NotifyOne(pcs)

(* cv_.notify_all()                                                        *)
NotifyAll(pcs) == {[w \in Workers |-> IF pcs[w] = "sleep" THEN "check" ELSE pcs[w]]}

(* Mutant: a worker leaves as soon as it sees stop_.                       *)
MayLeaveAtOnce == stop

(* The only condition on which a worker leaves its loop.                   *)
MayLeave == stop /\ tasks = <<>>

-----------------------------------------------------------------------------
(***************************************************************************)
(* submit(), by a client or inside a task.                                 *)
(***************************************************************************)
Enqueue(t) ==
  /\ t \notin accepted
  /\ tasks' = Append(tasks, t)
  /\ accepted' = accepted \cup {t}

submit(c, t) ==
  /\ cpc[c] = "idle"
  /\ Enqueue(t)
  /\ owed' = IF stop THEN owed ELSE owed \cup {t}
  /\ cpc' = [cpc EXCEPT ![c] = "notify"]
  /\ UNCHANGED <<stop, wpc, wtask, spc, done>>

SubmitNotify(c) ==
  /\ cpc[c] = "notify"
  /\ wpc' \in NotifyOne(wpc)
  /\ cpc' = [cpc EXCEPT ![c] = "idle"]
  /\ UNCHANGED <<poolVars, wtask, spc, logVars>>

TaskSubmit(w, t) ==
  /\ wpc[w] = "run"
  /\ Enqueue(t)
  /\ owed' = owed \cup {t}
  /\ wpc' = [wpc EXCEPT ![w] = "notify"]
  /\ UNCHANGED <<stop, wtask, cpc, spc, done>>

TaskNotify(w) ==
  /\ wpc[w] = "notify"
  /\ wpc' \in NotifyOne([wpc EXCEPT ![w] = "run"])
  /\ UNCHANGED <<poolVars, wtask, cpc, spc, logVars>>

-----------------------------------------------------------------------------
(***************************************************************************)
(* worker_loop()                                                           *)
(***************************************************************************)

(* The predicate is false: the mutex is released and the worker sleeps.    *)
WorkerSleep(w) ==
  /\ wpc[w] = "check"
  /\ ~stop /\ tasks = <<>>
  /\ wpc' = [wpc EXCEPT ![w] = "sleep"]
  /\ UNCHANGED <<poolVars, wtask, cpc, spc, logVars>>

SpuriousWakeup(w) ==
  /\ wpc[w] = "sleep"
  /\ wpc' = [wpc EXCEPT ![w] = "check"]
  /\ UNCHANGED <<poolVars, wtask, cpc, spc, logVars>>

WorkerTake(w) ==
  /\ wpc[w] = "check"
  /\ tasks # <<>>
  /\ wtask' = [wtask EXCEPT ![w] = Head(tasks)]
  /\ tasks' = Tail(tasks)
  /\ wpc' = [wpc EXCEPT ![w] = "run"]
  /\ UNCHANGED <<stop, cpc, spc, logVars>>

WorkerExit(w) ==
  /\ wpc[w] = "check"
  /\ MayLeave
  /\ wpc' = [wpc EXCEPT ![w] = "exit"]
  /\ UNCHANGED <<poolVars, wtask, cpc, spc, logVars>>

TaskEnds(w) ==
  /\ wpc[w] = "run"
  /\ done' = done \cup {wtask[w]}
  /\ wtask' = [wtask EXCEPT ![w] = NoTask]
  /\ wpc' = [wpc EXCEPT ![w] = "check"]
  /\ UNCHANGED <<poolVars, cpc, spc, accepted, owed>>

-----------------------------------------------------------------------------
(***************************************************************************)
(* shutdown()                                                              *)
(***************************************************************************)
shutdown ==
  /\ spc \in {"none", "done"}
  /\ stop' = TRUE
  /\ spc' = "notify"
  /\ UNCHANGED <<tasks, wpc, wtask, cpc, logVars>>

ShutdownNotifyAll ==
  /\ spc = "notify"
  /\ wpc' \in NotifyAll(wpc)
  /\ spc' = "join"
  /\ UNCHANGED <<poolVars, wtask, cpc, logVars>>

(* All workers are joined and workers_ is cleared.                         *)
ShutdownJoin ==
  /\ spc = "join"
  /\ At("exit") = Workers
  /\ spc' = "done"
  /\ UNCHANGED <<poolVars, wpc, wtask, cpc, logVars>>

-----------------------------------------------------------------------------
(* What a worker does by itself, in its loop and in its task.              *)
WorkerStep(w) == WorkerSleep(w) \/ WorkerTake(w) \/ WorkerExit(w) \/ TaskEnds(w) \/ TaskNotify(w)

Next ==
  \/ \E c \in Clients : SubmitNotify(c) \/ \E t \in Tasks : submit(c, t)
  \/ \E w \in Workers : WorkerStep(w) \/ SpuriousWakeup(w) \/ \E t \in Tasks : TaskSubmit(w, t)
  \/ shutdown \/ ShutdownNotifyAll \/ ShutdownJoin

Spec == Init /\ [][Next]_vars

(* Threads are scheduled and tasks end; nobody has to submit or shut down, *)
(* and nothing promises a spurious wake-up.                                *)
FairSpec ==
  /\ Spec
  /\ \A w \in Workers : WF_vars(WorkerStep(w))
  /\ \A c \in Clients : WF_vars(SubmitNotify(c))
  /\ WF_vars(ShutdownNotifyAll) /\ WF_vars(ShutdownJoin)

-----------------------------------------------------------------------------
TypeOK ==
  /\ tasks \in Seq(Tasks) /\ stop \in BOOLEAN
  /\ wpc \in [Workers -> {"check", "sleep", "run", "notify", "exit"}]
  /\ wtask \in [Workers -> Tasks \cup {NoTask}]
  /\ \A w \in Workers : wtask[w] = NoTask <=> wpc[w] \notin {"run", "notify"}
  /\ cpc \in [Clients -> {"idle", "notify"}]
  /\ spc \in {"none", "notify", "join", "done"}
  /\ owed \subseteq accepted /\ accepted \subseteq Tasks /\ done \subseteq accepted

(* No lost wake-up: while a worker sleeps, every task in the queue has a   *)
(* worker on its way to it or a notification about to be sent, although    *)
(* submit() notifies after it has released the mutex (thread_pool.hpp:30). *)
NoStrandedTask ==
  At("sleep") # {} =>
    Len(tasks) <= Cardinality(At("check")) + Cardinality(At("notify"))
                    + Cardinality({c \in Clients : cpc[c] = "notify"})

(* Every variable has its type, a worker holds a task exactly while it     *)
(* runs one, and no task is stranded behind a sleeping worker.             *)
Inv == TypeOK /\ NoStrandedTask

Pool == INSTANCE TaskPool WITH
  NumWorkers <- Cardinality(Workers), submitted <- accepted, queue <- tasks,
  running <- {wtask[w] : w \in At("run") \cup At("notify")},
  closed <- stop, gone <- At("exit") = Workers

(* The pool keeps the promise its users build on: tasks start in the order *)
(* of submission, no task is run twice or dropped although submit, the     *)
(* workers and shutdown interleave, and the last worker leaves no task     *)
(* behind that was queued when shutdown() began or was submitted by a task *)
(* since (thread_pool.hpp:25-57; test TasksCompleteBeforeShutdown).        *)
ImplementsPool == Pool!PoolSpec

(* shutdown() returns: every sleeping worker learns of stop_, and those    *)
(* that run finish what is queued (thread_pool.hpp:33-43).                 *)
ShutdownReturns == (spc = "notify") ~> (spc = "done")

(* A task submitted before stop_ is set, or by a task, runs in the end,    *)
(* without the help of a later submit or of shutdown().                    *)
OwedTasksRun == \A t \in Tasks : (t \in owed) ~> (t \in done)
=============================================================================
