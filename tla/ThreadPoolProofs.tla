-------------------------- MODULE ThreadPoolProofs --------------------------
(***************************************************************************)
(* Proofs about the thread pool, for every set of workers, clients and     *)
(* tasks: no task is stranded behind a sleeping worker, and the pool       *)
(* implements TaskPool.                                                    *)
(***************************************************************************)
EXTENDS ThreadPool, FiniteSetTheorems, SequenceTheorems, TLAPS

ControlPoints == {"check", "sleep", "run", "notify", "exit"}

(* The clients between the unlock of submit() and notify_one.              *)
Pending == {c \in Clients : cpc[c] = "notify"}

(* The workers at a control point, for any assignment of control points.   *)
Where(pcs, pc) == {w \in Workers : pcs[w] = pc}
Count(pcs, pc) == Cardinality(Where(pcs, pc))

(* Every task that was submitted and has not run is in one place: once in  *)
(* the queue or with one worker.  Only finitely many clients are inside    *)
(* submit(), and workers leave only after stop_.                           *)
OnePlace ==
  /\ IsFiniteSet(Pending)
  /\ \A i \in 1..Len(tasks) : tasks[i] \in accepted
  /\ \A i, j \in 1..Len(tasks) : tasks[i] = tasks[j] => i = j
  /\ \A w \in Workers : wtask[w] # NoTask =>
       wtask[w] \in accepted /\ \A i \in 1..Len(tasks) : tasks[i] # wtask[w]
  /\ \A v, w \in Workers : wtask[v] = wtask[w] /\ wtask[v] # NoTask => v = w
  /\ \A w \in Workers : wpc[w] = "exit" => stop

PoolInv == TypeOK /\ OnePlace /\ NoStrandedTask

-----------------------------------------------------------------------------
(* The control points of worker_loop().                                    *)
LEMMA Points ==
  /\ "check" \in ControlPoints /\ "sleep" \in ControlPoints /\ "run" \in ControlPoints
  /\ "notify" \in ControlPoints /\ "exit" \in ControlPoints
  BY DEF ControlPoints

(* A worker that moves is counted at its new control point.                *)
LEMMA Moved ==
  ASSUME NEW f \in [Workers -> ControlPoints], NEW g \in [Workers -> ControlPoints],
         NEW w \in Workers, f[w] # g[w], \A v \in Workers : v # w => g[v] = f[v]
  PROVE  /\ Count(g, g[w]) = Count(f, g[w]) + 1
         /\ Count(g, f[w]) = Count(f, f[w]) - 1
         /\ \A r : r # f[w] /\ r # g[w] =>
              Where(g, r) = Where(f, r) /\ Count(g, r) = Count(f, r)
<1>1. \A r : Where(f, r) \in SUBSET Workers
  BY DEF Where
<1>2. \A r : IsFiniteSet(Where(f, r))
  BY <1>1, FS_Subset, PoolAssumption
<1>3. /\ Where(g, g[w]) = Where(f, g[w]) \cup {w} /\ w \notin Where(f, g[w])
      /\ Where(g, f[w]) = Where(f, f[w]) \ {w} /\ w \in Where(f, f[w])
      /\ \A r : r # f[w] /\ r # g[w] => Where(g, r) = Where(f, r)
  BY DEF Where
<1>4. Count(g, g[w]) = Count(f, g[w]) + 1
  BY <1>2, <1>3, FS_AddElement DEF Count
<1>5. Count(g, f[w]) = Count(f, f[w]) - 1
  BY <1>2, <1>3, FS_RemoveElement DEF Count
<1> QED
  BY <1>3, <1>4, <1>5 DEF Count

(* Counts are natural numbers.                                             *)
LEMMA CountType == \A f, r : Count(f, r) \in Nat
<1>1. \A f, r : Where(f, r) \in SUBSET Workers
  BY DEF Where
<1> QED
  BY <1>1, FS_Subset, FS_CardinalityType, PoolAssumption DEF Count

(* notify_one either finds nobody asleep or moves one sleeper.             *)
LEMMA NotifyOneEffect ==
  ASSUME NEW f \in [Workers -> ControlPoints], NEW g \in NotifyOne(f)
  PROVE  \/ g = f /\ Where(f, "sleep") = {}
         \/ \E v \in Workers : f[v] = "sleep" /\ g = [f EXCEPT ![v] = "check"]
  BY DEF NotifyOne, Where

(* ... and so either nobody sleeps or one worker more is on its way.       *)
LEMMA NotifyOneCount ==
  ASSUME NEW f \in [Workers -> ControlPoints], NEW g \in NotifyOne(f)
  PROVE  /\ g \in [Workers -> ControlPoints]
         /\ \A w \in Workers : g[w] = f[w] \/ (f[w] = "sleep" /\ g[w] = "check")
         /\ \/ Where(g, "sleep") = {}
            \/ Count(g, "check") = Count(f, "check") + 1 /\ Count(g, "notify") = Count(f, "notify")
<1>1. CASE g = f /\ Where(f, "sleep") = {}
  BY <1>1
<1>2. CASE \E v \in Workers : f[v] = "sleep" /\ g = [f EXCEPT ![v] = "check"]
  <2>1. PICK v \in Workers : f[v] = "sleep" /\ g = [f EXCEPT ![v] = "check"]
    BY <1>2
  <2>2. g \in [Workers -> ControlPoints] /\ \A u \in Workers : g[u] = IF u = v THEN "check" ELSE f[u]
    BY <2>1, Points
  <2>3. /\ Count(g, "check") = Count(f, "check") + 1
        /\ Count(g, "notify") = Count(f, "notify")
    <3>1. f[v] # g[v] /\ \A u \in Workers : u # v => g[u] = f[u]
      BY <2>1, <2>2
    <3>2. /\ Count(g, g[v]) = Count(f, g[v]) + 1
          /\ \A r : r # f[v] /\ r # g[v] => Where(g, r) = Where(f, r) /\ Count(g, r) = Count(f, r)
      BY <2>2, <3>1, Moved
    <3> QED
      BY <2>1, <2>2, <3>2
  <2> QED
    BY <2>1, <2>2, <2>3
<1> QED
  BY <1>1, <1>2, NotifyOneEffect

(* A client that enters or leaves the gap between unlock and notify_one.   *)
LEMMA PendingMoved ==
  ASSUME TypeOK, IsFiniteSet(Pending), NEW c \in Clients
  PROVE  /\ cpc[c] = "idle" /\ cpc' = [cpc EXCEPT ![c] = "notify"] =>
              IsFiniteSet(Pending') /\ Cardinality(Pending') = Cardinality(Pending) + 1
         /\ cpc[c] = "notify" /\ cpc' = [cpc EXCEPT ![c] = "idle"] =>
              IsFiniteSet(Pending') /\ Cardinality(Pending') = Cardinality(Pending) - 1
<1>1. ASSUME cpc[c] = "idle", cpc' = [cpc EXCEPT ![c] = "notify"]
      PROVE  IsFiniteSet(Pending') /\ Cardinality(Pending') = Cardinality(Pending) + 1
  <2>1. Pending' = Pending \cup {c} /\ c \notin Pending
    BY <1>1 DEF Pending, TypeOK
  <2> QED
    BY <2>1, FS_AddElement
<1>2. ASSUME cpc[c] = "notify", cpc' = [cpc EXCEPT ![c] = "idle"]
      PROVE  IsFiniteSet(Pending') /\ Cardinality(Pending') = Cardinality(Pending) - 1
  <2>1. Pending' = Pending \ {c} /\ c \in Pending
    BY <1>2 DEF Pending, TypeOK
  <2> QED
    BY <2>1, FS_RemoveElement
<1> QED
  BY <1>1, <1>2

(* NoStrandedTask in terms of the counts.                                  *)
LEMMA Stranded ==
  /\ NoStrandedTask <=>
       (Where(wpc, "sleep") # {} =>
          Len(tasks) <= Count(wpc, "check") + Count(wpc, "notify") + Cardinality(Pending))
  /\ NoStrandedTask' <=>
       (Where(wpc', "sleep") # {} =>
          Len(tasks') <= Count(wpc', "check") + Count(wpc', "notify") + Cardinality(Pending'))
  BY DEF NoStrandedTask, At, Where, Count, Pending

-----------------------------------------------------------------------------
(* The pool starts with an empty queue and all workers at their check.     *)
LEMMA PoolInitInv == Init => PoolInv
<1> SUFFICES ASSUME Init PROVE PoolInv
  OBVIOUS
<1>1. stop \in BOOLEAN /\ tasks = <<>>
  BY DEF Init
<1>2. TypeOK
  BY <1>1, PoolAssumption DEF Init, TypeOK
<1>3. Pending = {} /\ At("sleep") = {}
  BY DEF Init, Pending, At
<1>4. OnePlace
  BY <1>1, <1>3, FS_EmptySet DEF Init, OnePlace
<1> QED
  BY <1>2, <1>3, <1>4 DEF PoolInv, NoStrandedTask

(* submit() puts a task that was nowhere before at the end of the queue.   *)
LEMMA EnqueueStep ==
  ASSUME TypeOK, OnePlace, NEW t \in Tasks, Enqueue(t), UNCHANGED <<wtask, stop>>
  PROVE  /\ tasks' \in Seq(Tasks) /\ Len(tasks') = Len(tasks) + 1
         /\ owed \cup {t} \subseteq accepted' /\ accepted' \subseteq Tasks /\ done \subseteq accepted'
         /\ \A i \in 1..Len(tasks') : tasks'[i] \in accepted'
         /\ \A i, j \in 1..Len(tasks') : tasks'[i] = tasks'[j] => i = j
         /\ \A w \in Workers : wtask'[w] # NoTask =>
              wtask'[w] \in accepted' /\ \A i \in 1..Len(tasks') : tasks'[i] # wtask'[w]
<1>1. /\ tasks \in Seq(Tasks) /\ tasks' = Append(tasks, t)
      /\ t \notin accepted /\ accepted' = accepted \cup {t}
  BY DEF TypeOK, Enqueue
<1>2. /\ tasks' \in Seq(Tasks) /\ Len(tasks') = Len(tasks) + 1
      /\ \A i \in 1..Len(tasks) : tasks'[i] = tasks[i]
      /\ tasks'[Len(tasks) + 1] = t
  BY <1>1, AppendProperties
<1>3. \A i \in 1..Len(tasks') : i \in 1..Len(tasks) \/ i = Len(tasks) + 1
  BY <1>1, <1>2
<1>4. owed \cup {t} \subseteq accepted' /\ accepted' \subseteq Tasks /\ done \subseteq accepted'
  BY <1>1 DEF TypeOK
<1>5. \A i \in 1..Len(tasks') : tasks'[i] \in accepted'
  BY <1>1, <1>2, <1>3 DEF OnePlace
<1>6. \A i, j \in 1..Len(tasks') : tasks'[i] = tasks'[j] => i = j
  BY <1>1, <1>2, <1>3 DEF OnePlace
<1>7. \A w \in Workers : wtask'[w] # NoTask =>
        wtask'[w] \in accepted' /\ \A i \in 1..Len(tasks') : tasks'[i] # wtask'[w]
  BY <1>1, <1>2, <1>3 DEF OnePlace
<1> QED
  BY <1>2, <1>4, <1>5, <1>6, <1>7

(* submit() by a client announces its own notification.                    *)
LEMMA SubmitStep == ASSUME PoolInv, NEW c \in Clients, NEW t \in Tasks, submit(c, t) PROVE PoolInv'
<1> USE DEF PoolInv
<1>1. /\ cpc[c] = "idle" /\ cpc' = [cpc EXCEPT ![c] = "notify"] /\ Enqueue(t)
      /\ owed' \in {owed, owed \cup {t}}
      /\ UNCHANGED <<stop, wpc, wtask, spc, done>>
  BY DEF submit
<1>2. IsFiniteSet(Pending') /\ Cardinality(Pending') = Cardinality(Pending) + 1
  BY <1>1, PendingMoved DEF OnePlace
<1>3. stop' \in BOOLEAN
  BY <1>1 DEF TypeOK
<1>4. cpc' \in [Clients -> {"idle", "notify"}]
  BY <1>1 DEF TypeOK
<1>5. TypeOK'
  BY <1>1, <1>3, <1>4, EnqueueStep DEF TypeOK
<1>6. OnePlace'
  BY <1>1, <1>2, EnqueueStep DEF OnePlace
<1>7. NoStrandedTask'
  <2>1. Cardinality(Pending) \in Nat /\ Len(tasks) \in Nat /\ Len(tasks') = Len(tasks) + 1
    BY <1>1, EnqueueStep, FS_CardinalityType DEF OnePlace, TypeOK
  <2> QED
    BY <1>1, <1>2, <2>1, Stranded, CountType
<1> QED
  BY <1>5, <1>6, <1>7

(* The same by a task: its worker is the one about to notify.              *)
LEMMA TaskSubmitStep ==
  ASSUME PoolInv, NEW w \in Workers, NEW t \in Tasks, TaskSubmit(w, t)
  PROVE  PoolInv'
<1> USE DEF PoolInv
<1>1. /\ wpc[w] = "run" /\ wpc' = [wpc EXCEPT ![w] = "notify"] /\ Enqueue(t)
      /\ owed' = owed \cup {t}
      /\ UNCHANGED <<stop, wtask, cpc, spc, done>>
  BY DEF TaskSubmit
<1>2. /\ wpc \in [Workers -> ControlPoints]
      /\ wpc' \in [Workers -> ControlPoints]
      /\ \A v \in Workers : wpc'[v] = IF v = w THEN "notify" ELSE wpc[v]
  BY <1>1 DEF TypeOK, ControlPoints
<1>3. stop' \in BOOLEAN
  BY <1>1 DEF TypeOK
<1>4. \A v \in Workers : wtask'[v] = NoTask <=> wpc'[v] \notin {"run", "notify"}
  BY <1>1, <1>2 DEF TypeOK
<1>5. TypeOK'
  BY <1>1, <1>2, <1>3, <1>4, EnqueueStep DEF TypeOK, ControlPoints
<1>6. Pending' = Pending
  BY <1>1 DEF Pending
<1>7. OnePlace'
  BY <1>1, <1>2, <1>6, EnqueueStep DEF OnePlace
<1>8. NoStrandedTask'
  <2>1. Cardinality(Pending) \in Nat /\ Len(tasks) \in Nat /\ Len(tasks') = Len(tasks) + 1
    BY <1>1, EnqueueStep, FS_CardinalityType DEF OnePlace, TypeOK
  <2>2. /\ Count(wpc', "notify") = Count(wpc, "notify") + 1
        /\ Count(wpc', "check") = Count(wpc, "check") /\ Where(wpc', "sleep") = Where(wpc, "sleep")
    <3>1. wpc[w] # wpc'[w] /\ \A v \in Workers : v # w => wpc'[v] = wpc[v]
      BY <1>1, <1>2
    <3>2. /\ Count(wpc', wpc'[w]) = Count(wpc, wpc'[w]) + 1
          /\ Count(wpc', wpc[w]) = Count(wpc, wpc[w]) - 1
          /\ \A r : r # wpc[w] /\ r # wpc'[w] =>
               Where(wpc', r) = Where(wpc, r) /\ Count(wpc', r) = Count(wpc, r)
      BY <1>2, <3>1, Moved
    <3> QED
      BY <1>1, <1>2, <3>2
  <2> QED
    BY <1>6, <2>1, <2>2, Stranded, CountType
<1> QED
  BY <1>5, <1>7, <1>8

(* Steps that move workers and clients and leave the tasks where they are. *)
LEMMA StayStep ==
  ASSUME PoolInv, UNCHANGED <<tasks, wtask, accepted, owed, done>>,
         stop' = stop \/ stop' = TRUE, spc' \in {"none", "notify", "join", "done"},
         cpc' \in [Clients -> {"idle", "notify"}], IsFiniteSet(Pending'),
         wpc' \in [Workers -> ControlPoints],
         \A w \in Workers : /\ wpc'[w] \in {"run", "notify"} <=> wpc[w] \in {"run", "notify"}
                            /\ wpc'[w] = "exit" => wpc[w] = "exit" \/ stop
  PROVE  TypeOK' /\ OnePlace'
<1> USE DEF PoolInv
<1>1. stop' \in BOOLEAN
  BY DEF TypeOK
<1>2. \A w \in Workers : wtask'[w] = NoTask <=> wpc'[w] \notin {"run", "notify"}
  BY DEF TypeOK
<1>3. TypeOK'
  BY <1>1, <1>2 DEF TypeOK, ControlPoints
<1>4. OnePlace'
  BY DEF OnePlace
<1> QED
  BY <1>3, <1>4

(* notify_one, after a submit() by a client ...                            *)
LEMMA SubmitNotifyStep == ASSUME PoolInv, NEW c \in Clients, SubmitNotify(c) PROVE PoolInv'
<1> USE DEF PoolInv
<1>1. /\ cpc[c] = "notify" /\ cpc' = [cpc EXCEPT ![c] = "idle"] /\ wpc' \in NotifyOne(wpc)
      /\ UNCHANGED <<tasks, stop, wtask, spc, accepted, owed, done>>
  BY DEF SubmitNotify, poolVars, logVars
<1>2. wpc \in [Workers -> ControlPoints] /\ Len(tasks) \in Nat /\ Cardinality(Pending) \in Nat
  BY FS_CardinalityType DEF TypeOK, ControlPoints, OnePlace
<1>3. /\ IsFiniteSet(Pending') /\ Cardinality(Pending') = Cardinality(Pending) - 1
      /\ cpc' \in [Clients -> {"idle", "notify"}]
  BY <1>1, PendingMoved DEF OnePlace, TypeOK
<1>4. /\ wpc' \in [Workers -> ControlPoints]
      /\ \A w \in Workers : wpc'[w] = wpc[w] \/ (wpc[w] = "sleep" /\ wpc'[w] = "check")
      /\ \/ Where(wpc', "sleep") = {}
         \/ Count(wpc', "check") = Count(wpc, "check") + 1 /\ Count(wpc', "notify") = Count(wpc, "notify")
  BY <1>1, <1>2, NotifyOneCount
<1>5. Where(wpc', "sleep") # {} => Where(wpc, "sleep") # {}
  BY <1>4 DEF Where
<1>6. NoStrandedTask'
  BY <1>1, <1>2, <1>3, <1>4, <1>5, Stranded, CountType
<1>7. TypeOK' /\ OnePlace'
  BY <1>1, <1>3, <1>4, StayStep DEF TypeOK
<1> QED
  BY <1>6, <1>7

(* ... and after one by a task.                                            *)
LEMMA TaskNotifyStep == ASSUME PoolInv, NEW w \in Workers, TaskNotify(w) PROVE PoolInv'
<1> USE DEF PoolInv
<1> DEFINE mid == [wpc EXCEPT ![w] = "run"]
<1>1. /\ wpc[w] = "notify" /\ wpc' \in NotifyOne(mid)
      /\ UNCHANGED <<tasks, stop, wtask, cpc, spc, accepted, owed, done>>
  BY DEF TaskNotify, poolVars, logVars
<1>2. wpc \in [Workers -> ControlPoints] /\ Len(tasks) \in Nat /\ Cardinality(Pending) \in Nat
  BY FS_CardinalityType DEF TypeOK, ControlPoints, OnePlace
<1>3. /\ mid \in [Workers -> ControlPoints]
      /\ \A v \in Workers : mid[v] = IF v = w THEN "run" ELSE wpc[v]
  BY <1>1, <1>2, Points
<1> HIDE DEF mid
<1>4. /\ wpc' \in [Workers -> ControlPoints]
      /\ \A v \in Workers : wpc'[v] = mid[v] \/ (mid[v] = "sleep" /\ wpc'[v] = "check")
      /\ \/ Where(wpc', "sleep") = {}
         \/ Count(wpc', "check") = Count(mid, "check") + 1 /\ Count(wpc', "notify") = Count(mid, "notify")
  BY <1>1, <1>3, NotifyOneCount
<1>5. /\ Count(mid, "notify") = Count(wpc, "notify") - 1
      /\ Count(mid, "check") = Count(wpc, "check") /\ Where(mid, "sleep") = Where(wpc, "sleep")
  BY <1>1, <1>2, <1>3, Moved
<1>6. Where(wpc', "sleep") # {} => Where(wpc, "sleep") # {}
  BY <1>3, <1>4 DEF Where
<1>7. Pending' = Pending
  BY <1>1 DEF Pending
<1>8. NoStrandedTask'
  BY <1>1, <1>2, <1>3, <1>4, <1>5, <1>6, <1>7, Stranded, CountType
<1>9. \A v \in Workers : /\ wpc'[v] \in {"run", "notify"} <=> wpc[v] \in {"run", "notify"}
                         /\ wpc'[v] = "exit" => wpc[v] = "exit" \/ stop
  BY <1>1, <1>3, <1>4
<1>10. TypeOK' /\ OnePlace'
  BY <1>1, <1>4, <1>7, <1>9, StayStep DEF TypeOK, OnePlace
<1> QED
  BY <1>8, <1>10

(* A worker that sleeps or leaves does so over an empty queue; one that    *)
(* wakes up by itself is on its way.                                       *)
LEMMA WorkerMoveStep ==
  ASSUME PoolInv, NEW w \in Workers, WorkerSleep(w) \/ WorkerExit(w) \/ SpuriousWakeup(w)
  PROVE  PoolInv'
<1> USE DEF PoolInv
<1>1. /\ UNCHANGED <<tasks, stop, wtask, cpc, spc, accepted, owed, done>>
      /\ \/ tasks = <<>> /\ wpc[w] = "check" /\ wpc' = [wpc EXCEPT ![w] = "sleep"]
         \/ tasks = <<>> /\ stop /\ wpc[w] = "check" /\ wpc' = [wpc EXCEPT ![w] = "exit"]
         \/ wpc[w] = "sleep" /\ wpc' = [wpc EXCEPT ![w] = "check"]
  BY DEF WorkerSleep, WorkerExit, MayLeave, SpuriousWakeup, poolVars, logVars
<1>2. wpc \in [Workers -> ControlPoints] /\ Len(tasks) \in Nat /\ Cardinality(Pending) \in Nat
  BY FS_CardinalityType DEF TypeOK, ControlPoints, OnePlace
<1>3. /\ wpc' \in [Workers -> ControlPoints]
      /\ \A v \in Workers : /\ wpc'[v] \in {"run", "notify"} <=> wpc[v] \in {"run", "notify"}
                            /\ wpc'[v] = "exit" => wpc[v] = "exit" \/ stop
  BY <1>1, <1>2 DEF ControlPoints
<1>4. Pending' = Pending
  BY <1>1 DEF Pending
<1>5. TypeOK' /\ OnePlace'
  BY <1>1, <1>3, <1>4, StayStep DEF TypeOK, OnePlace
<1>6. NoStrandedTask'
  <2>1. CASE tasks = <<>>
    <3>1. Len(tasks') = 0
      BY <1>1, <2>1
    <3> QED
      BY <1>2, <1>4, <3>1, Stranded, CountType
  <2>2. CASE wpc[w] = "sleep" /\ wpc' = [wpc EXCEPT ![w] = "check"]
    <3>1. wpc'[w] = "check" /\ \A v \in Workers : v # w => wpc'[v] = wpc[v]
      BY <1>2, <2>2
    <3>2. /\ Count(wpc', "check") = Count(wpc, "check") + 1
          /\ Count(wpc', "notify") = Count(wpc, "notify")
      <4>1. wpc[w] # wpc'[w] /\ \A v \in Workers : v # w => wpc'[v] = wpc[v]
        BY <1>2, <1>3, <2>2, <3>1
      <4>2. /\ Count(wpc', wpc'[w]) = Count(wpc, wpc'[w]) + 1
            /\ Count(wpc', wpc[w]) = Count(wpc, wpc[w]) - 1
            /\ \A r : r # wpc[w] /\ r # wpc'[w] =>
                 Where(wpc', r) = Where(wpc, r) /\ Count(wpc', r) = Count(wpc, r)
        BY <1>2, <1>3, <4>1, Moved
      <4> QED
        BY <1>2, <1>3, <2>2, <3>1, <4>2
    <3>3. Where(wpc, "sleep") # {}
      BY <2>2 DEF Where
    <3> QED
      BY <1>1, <1>2, <1>4, <3>2, <3>3, Stranded, CountType
  <2> QED
    BY <1>1, <2>1, <2>2
<1> QED
  BY <1>5, <1>6

(* A worker takes the head of the queue.                                   *)
LEMMA WorkerTakeStep == ASSUME PoolInv, NEW w \in Workers, WorkerTake(w) PROVE PoolInv'
<1> USE DEF PoolInv
<1>1. /\ wpc[w] = "check" /\ tasks # <<>> /\ tasks' = Tail(tasks)
      /\ wtask' = [wtask EXCEPT ![w] = Head(tasks)] /\ wpc' = [wpc EXCEPT ![w] = "run"]
      /\ UNCHANGED <<stop, cpc, spc, accepted, owed, done>>
  BY DEF WorkerTake, logVars
<1>2. /\ wpc \in [Workers -> ControlPoints] /\ Len(tasks) \in Nat
      /\ Cardinality(Pending) \in Nat /\ tasks \in Seq(Tasks)
  BY FS_CardinalityType DEF TypeOK, ControlPoints, OnePlace
<1>3. /\ Len(tasks) # 0 /\ Head(tasks) = tasks[1] /\ Head(tasks) \in Tasks
      /\ tasks' \in Seq(Tasks) /\ Len(tasks') = Len(tasks) - 1
      /\ \A i \in 1..Len(tasks') : tasks'[i] = tasks[i + 1] /\ i + 1 \in 1..Len(tasks)
      /\ 1 \in 1..Len(tasks)
  BY <1>1, <1>2, HeadTailProperties
<1>4. /\ \A v \in Workers : wtask'[v] = IF v = w THEN Head(tasks) ELSE wtask[v]
      /\ \A v \in Workers : wpc'[v] = IF v = w THEN "run" ELSE wpc[v]
      /\ wtask' \in [Workers -> Tasks \cup {NoTask}] /\ wpc' \in [Workers -> ControlPoints]
  BY <1>1, <1>2, <1>3 DEF TypeOK, ControlPoints
<1>5. TypeOK'
  <2>1. stop' \in BOOLEAN
    BY <1>1 DEF TypeOK
  <2>2. \A v \in Workers : wtask'[v] = NoTask <=> wpc'[v] \notin {"run", "notify"}
    BY <1>3, <1>4, PoolAssumption DEF TypeOK
  <2> QED
    BY <1>1, <1>3, <1>4, <2>1, <2>2 DEF TypeOK, ControlPoints
<1>6. Pending' = Pending
  BY <1>1 DEF Pending
<1>7. OnePlace'
  <2>1. \A i \in 1..Len(tasks') : tasks'[i] \in accepted'
    BY <1>1, <1>3 DEF OnePlace
  <2>2. \A i, j \in 1..Len(tasks') : tasks'[i] = tasks'[j] => i = j
    BY <1>2, <1>3 DEF OnePlace
  <2>3. \A v \in Workers : wtask'[v] # NoTask =>
          wtask'[v] \in accepted' /\ \A i \in 1..Len(tasks') : tasks'[i] # wtask'[v]
    <3>1. \A i \in 1..Len(tasks') : tasks'[i] # Head(tasks)
      BY <1>2, <1>3 DEF OnePlace
    <3> QED
      BY <1>1, <1>3, <1>4, <3>1 DEF OnePlace
  <2>4. \A v, u \in Workers : wtask'[v] = wtask'[u] /\ wtask'[v] # NoTask => v = u
    BY <1>3, <1>4 DEF OnePlace
  <2>5. \A v \in Workers : wpc'[v] = "exit" => stop'
    BY <1>1, <1>4 DEF OnePlace
  <2>6. IsFiniteSet(Pending')
    BY <1>6 DEF OnePlace
  <2> QED
    BY <2>1, <2>2, <2>3, <2>4, <2>5, <2>6 DEF OnePlace
<1>8. NoStrandedTask'
  <2>1. /\ Count(wpc', "check") = Count(wpc, "check") - 1
        /\ Count(wpc', "notify") = Count(wpc, "notify") /\ Where(wpc', "sleep") = Where(wpc, "sleep")
    <3>1. wpc[w] # wpc'[w] /\ \A v \in Workers : v # w => wpc'[v] = wpc[v]
      BY <1>1, <1>2, <1>4
    <3>2. /\ Count(wpc', wpc'[w]) = Count(wpc, wpc'[w]) + 1
          /\ Count(wpc', wpc[w]) = Count(wpc, wpc[w]) - 1
          /\ \A r : r # wpc[w] /\ r # wpc'[w] =>
               Where(wpc', r) = Where(wpc, r) /\ Count(wpc', r) = Count(wpc, r)
      BY <1>2, <1>4, <3>1, Moved
    <3> QED
      BY <1>1, <1>2, <1>4, <3>2
  <2> QED
    BY <1>2, <1>3, <1>6, <2>1, Stranded, CountType
<1> QED
  BY <1>5, <1>7, <1>8

(* A task ends and its worker goes back to the queue.                      *)
LEMMA TaskEndsStep == ASSUME PoolInv, NEW w \in Workers, TaskEnds(w) PROVE PoolInv'
<1> USE DEF PoolInv
<1>1. /\ wpc[w] = "run" /\ done' = done \cup {wtask[w]}
      /\ wtask' = [wtask EXCEPT ![w] = NoTask] /\ wpc' = [wpc EXCEPT ![w] = "check"]
      /\ UNCHANGED <<tasks, stop, cpc, spc, accepted, owed>>
  BY DEF TaskEnds, poolVars
<1>2. /\ wpc \in [Workers -> ControlPoints] /\ Len(tasks) \in Nat /\ Cardinality(Pending) \in Nat
  BY FS_CardinalityType DEF TypeOK, ControlPoints, OnePlace
<1>3. /\ \A v \in Workers : wtask'[v] = IF v = w THEN NoTask ELSE wtask[v]
      /\ \A v \in Workers : wpc'[v] = IF v = w THEN "check" ELSE wpc[v]
      /\ wtask' \in [Workers -> Tasks \cup {NoTask}] /\ wpc' \in [Workers -> ControlPoints]
  BY <1>1, <1>2 DEF TypeOK, ControlPoints
<1>4. wtask[w] # NoTask /\ wtask[w] \in accepted
  BY <1>1 DEF TypeOK, OnePlace
<1>5. TypeOK'
  <2>1. stop' \in BOOLEAN
    BY <1>1 DEF TypeOK
  <2>2. \A v \in Workers : wtask'[v] = NoTask <=> wpc'[v] \notin {"run", "notify"}
    BY <1>3 DEF TypeOK
  <2> QED
    BY <1>1, <1>3, <1>4, <2>1, <2>2 DEF TypeOK, ControlPoints
<1>6. Pending' = Pending
  BY <1>1 DEF Pending
<1>7. OnePlace'
  BY <1>1, <1>3, <1>6 DEF OnePlace
<1>8. NoStrandedTask'
  <2>1. /\ Count(wpc', "check") = Count(wpc, "check") + 1
        /\ Count(wpc', "notify") = Count(wpc, "notify") /\ Where(wpc', "sleep") = Where(wpc, "sleep")
    <3>1. wpc[w] # wpc'[w] /\ \A v \in Workers : v # w => wpc'[v] = wpc[v]
      BY <1>1, <1>2, <1>3
    <3>2. /\ Count(wpc', wpc'[w]) = Count(wpc, wpc'[w]) + 1
          /\ Count(wpc', wpc[w]) = Count(wpc, wpc[w]) - 1
          /\ \A r : r # wpc[w] /\ r # wpc'[w] =>
               Where(wpc', r) = Where(wpc, r) /\ Count(wpc', r) = Count(wpc, r)
      BY <1>2, <1>3, <3>1, Moved
    <3> QED
      BY <1>1, <1>2, <1>3, <3>2
  <2>2. Len(tasks') = Len(tasks)
    BY <1>1
  <2> QED
    BY <1>2, <1>6, <2>1, <2>2, Stranded, CountType
<1> QED
  BY <1>5, <1>7, <1>8

(* shutdown(): after notify_all nobody sleeps.                             *)
LEMMA ShutdownStep ==
  ASSUME PoolInv, shutdown \/ ShutdownNotifyAll \/ ShutdownJoin \/ UNCHANGED vars
  PROVE  PoolInv'
<1> USE DEF PoolInv
<1>1. /\ UNCHANGED <<tasks, wtask, cpc, accepted, owed, done>>
      /\ stop' = stop \/ stop' = TRUE
      /\ spc' \in {"none", "notify", "join", "done"}
      /\ wpc' = wpc \/ wpc' = [w \in Workers |-> IF wpc[w] = "sleep" THEN "check" ELSE wpc[w]]
  BY DEF shutdown, ShutdownNotifyAll, NotifyAll, ShutdownJoin, vars, poolVars, logVars, TypeOK
<1>2. wpc \in [Workers -> ControlPoints]
  BY DEF TypeOK, ControlPoints
<1>3. /\ wpc' \in [Workers -> ControlPoints]
      /\ \A w \in Workers : wpc'[w] = wpc[w] \/ (wpc[w] = "sleep" /\ wpc'[w] = "check")
  BY <1>1, <1>2 DEF ControlPoints
<1>4. Pending' = Pending
  BY <1>1 DEF Pending
<1>5. TypeOK' /\ OnePlace'
  <2>1. \A w \in Workers : /\ wpc'[w] \in {"run", "notify"} <=> wpc[w] \in {"run", "notify"}
                           /\ wpc'[w] = "exit" => wpc[w] = "exit" \/ stop
    BY <1>3
  <2> QED
    BY <1>1, <1>3, <1>4, <2>1, StayStep DEF TypeOK, OnePlace
<1>6. NoStrandedTask'
  <2>1. wpc' = wpc \/ Where(wpc', "sleep") = {}
    BY <1>1 DEF Where
  <2> QED
    BY <1>1, <1>4, <2>1, Stranded
<1> QED
  BY <1>5, <1>6

(* The three parts of the invariant are inductive together.                *)
LEMMA PoolInvStep == PoolInv /\ [Next]_vars => PoolInv'
  BY SubmitStep, SubmitNotifyStep, TaskSubmitStep, TaskNotifyStep, WorkerMoveStep, WorkerTakeStep,
     TaskEndsStep, ShutdownStep
  DEF Next, WorkerStep

(* The invariant of the pool, along every behaviour.                       *)
THEOREM PoolInvariant == Spec => []PoolInv
  BY PoolInitInv, PoolInvStep, PTL DEF Spec

(* No wake-up of the pool is lost: submit() may notify after it released   *)
(* the mutex, tasks may submit, and sleeping workers may wake up by        *)
(* themselves, with any number of workers and clients (submit,             *)
(* worker_loop, shutdown).                                                 *)
THEOREM PoolStrandsNoTask == Spec => []Inv
<1>1. PoolInv => Inv
  BY DEF PoolInv, Inv
<1> QED
  BY <1>1, PoolInvariant, PTL

-----------------------------------------------------------------------------
(***************************************************************************)
(* The pool implements TaskPool.                                           *)
(***************************************************************************)
Busy == At("run") \cup At("notify")
Running == {wtask[w] : w \in Busy}
Gone == At("exit") = Workers

(* A worker holds a task exactly while it runs one.                        *)
LEMMA RunningTasks ==
  /\ TypeOK => Running = {wtask[w] : w \in {v \in Workers : wtask[v] # NoTask}}
  /\ TypeOK' => Running' = {wtask'[w] : w \in {v \in Workers : wtask'[v] # NoTask}}
<1>1. TypeOK => Busy = {v \in Workers : wtask[v] # NoTask}
  BY DEF TypeOK, Busy, At
<1>2. TypeOK' => Busy' = {v \in Workers : wtask'[v] # NoTask}
  BY DEF TypeOK, Busy, At
<1> QED
  BY <1>1, <1>2 DEF Running

(* A worker that checks the queue leaves a worker's place among the        *)
(* running tasks.                                                          *)
LEMMA RoomForOne ==
  ASSUME TypeOK, NEW w \in Workers, wpc[w] = "check"
  PROVE  Cardinality(Running) < Cardinality(Workers)
<1>1. Busy \in SUBSET (Workers \ {w})
  BY DEF Busy, At
<1>2. /\ IsFiniteSet(Workers \ {w}) /\ Cardinality(Workers \ {w}) = Cardinality(Workers) - 1
      /\ Cardinality(Workers) \in Nat
  BY FS_RemoveElement, FS_CardinalityType, PoolAssumption
<1>3. IsFiniteSet(Busy) /\ Cardinality(Busy) <= Cardinality(Workers \ {w})
  BY <1>1, <1>2, FS_Subset
<1>4. [v \in Busy |-> wtask[v]] \in Surjection(Busy, Running)
  BY DEF Surjection, Running
<1>5. IsFiniteSet(Running) /\ Cardinality(Running) <= Cardinality(Busy)
  BY <1>3, <1>4, FS_Surjection
<1> QED
  BY <1>2, <1>3, <1>5, FS_CardinalityType

(* Workers that have left stay away.                                       *)
LEMMA StaysGone ==
  ASSUME TypeOK, TypeOK', \A w \in Workers : wpc'[w] = "exit" <=> wpc[w] = "exit"
  PROVE  Gone' = Gone
<1>1. At("exit")' = At("exit")
  BY DEF At
<1> QED
  BY <1>1 DEF Gone

(* Steps that are none of the abstract pool's.                             *)
LEMMA QuietRefines ==
  ASSUME TypeOK, TypeOK', UNCHANGED <<tasks, wtask, stop, accepted>>,
         \A w \in Workers : wpc'[w] = "exit" <=> wpc[w] = "exit"
  PROVE  UNCHANGED (Pool!taskPoolVars)
<1>1. Running' = Running
  BY RunningTasks
<1>2. Gone' = Gone
  BY StaysGone
<1> QED
  BY <1>1, <1>2 DEF Pool!taskPoolVars, Running, Busy, Gone

(* submit() is Submit, by a client or by a task.                           *)
LEMMA EnqueueRefines ==
  ASSUME TypeOK, TypeOK', NEW t \in Tasks, Enqueue(t), UNCHANGED <<wtask, stop>>,
         \A w \in Workers : wpc'[w] = "exit" <=> wpc[w] = "exit"
  PROVE  Pool!Submit(t)
<1>1. Running' = Running
  BY RunningTasks
<1>2. Gone' = Gone
  BY StaysGone
<1> QED
  BY <1>1, <1>2 DEF Pool!Submit, Enqueue, Running, Busy, Gone

(* The cardinality the abstract pool speaks of is the usual one.           *)
LEMMA SameCardinality == ASSUME NEW S PROVE Pool!Cardinality(S) = Cardinality(S)
  BY DEF Pool!Cardinality, Cardinality

(* A worker's take is Take.                                                *)
LEMMA TakeRefines ==
  ASSUME PoolInv, PoolInv', NEW w \in Workers, WorkerTake(w), NEW t, t = Head(tasks)
  PROVE  t \in Tasks /\ Pool!Take(t)
<1> USE DEF PoolInv
<1>1. /\ wpc[w] = "check" /\ tasks # <<>> /\ tasks' = Tail(tasks)
      /\ wtask' = [wtask EXCEPT ![w] = Head(tasks)] /\ wpc' = [wpc EXCEPT ![w] = "run"]
      /\ UNCHANGED <<stop, accepted>>
  BY DEF WorkerTake, logVars
<1>2. Head(tasks) \in Tasks
  BY <1>1, HeadTailProperties DEF TypeOK
<1>3. wtask[w] = NoTask /\ Head(tasks) # NoTask
  BY <1>1, <1>2, PoolAssumption DEF TypeOK
<1>4. Running' = Running \cup {Head(tasks)}
  <2>1. \A v \in Workers : wtask'[v] = IF v = w THEN Head(tasks) ELSE wtask[v]
    BY <1>1 DEF TypeOK
  <2> QED
    BY <1>3, <2>1, RunningTasks
<1>5. Gone' = Gone
  <2>1. \A v \in Workers : wpc'[v] = "exit" <=> wpc[v] = "exit"
    BY <1>1 DEF TypeOK
  <2> QED
    BY <2>1, StaysGone
<1>6. ~Gone
  BY <1>1 DEF Gone, At
<1>7. Cardinality(Running) < Cardinality(Workers)
  BY <1>1, RoomForOne
<1>8. Pool!Take(t)
  BY <1>1, <1>4, <1>5, <1>6, <1>7, SameCardinality DEF Pool!Take, Running, Busy, Gone
<1> QED
  BY <1>2, <1>8

(* The end of a task is Finish: no other worker runs the same task.        *)
LEMMA FinishRefines ==
  ASSUME PoolInv, PoolInv', NEW w \in Workers, TaskEnds(w), NEW t, t = wtask[w]
  PROVE  t \in Tasks /\ Pool!Finish(t)
<1> USE DEF PoolInv
<1>1. /\ wpc[w] = "run" /\ wtask' = [wtask EXCEPT ![w] = NoTask] /\ wpc' = [wpc EXCEPT ![w] = "check"]
      /\ UNCHANGED <<tasks, stop, accepted>>
  BY DEF TaskEnds, poolVars
<1>2. wtask[w] \in Tasks /\ wtask[w] # NoTask
  BY <1>1 DEF TypeOK
<1>3. Running' = Running \ {wtask[w]} /\ wtask[w] \in Running
  <2>1. \A v \in Workers : wtask'[v] = IF v = w THEN NoTask ELSE wtask[v]
    BY <1>1 DEF TypeOK
  <2>2. \A v \in Workers : v # w /\ wtask[v] # NoTask => wtask[v] # wtask[w]
    BY DEF OnePlace
  <2> QED
    BY <1>2, <2>1, <2>2, RunningTasks
<1>4. Gone' = Gone
  <2>1. \A v \in Workers : wpc'[v] = "exit" <=> wpc[v] = "exit"
    BY <1>1 DEF TypeOK
  <2> QED
    BY <2>1, StaysGone
<1>5. Pool!Finish(t)
  BY <1>1, <1>3, <1>4 DEF Pool!Finish, Running, Busy, Gone
<1> QED
  BY <1>2, <1>5

(* The last worker to leave is Leave: the queue is empty and nobody runs.  *)
LEMMA ExitRefines ==
  ASSUME PoolInv, PoolInv', NEW w \in Workers, WorkerExit(w)
  PROVE  Pool!Leave \/ UNCHANGED (Pool!taskPoolVars)
<1> USE DEF PoolInv
<1>1. /\ wpc[w] = "check" /\ stop /\ tasks = <<>> /\ wpc' = [wpc EXCEPT ![w] = "exit"]
      /\ UNCHANGED <<tasks, stop, wtask, accepted>>
  BY DEF WorkerExit, MayLeave, poolVars, logVars
<1>2. ~Gone
  BY <1>1 DEF Gone, At
<1>3. Running' = Running
  BY <1>1, RunningTasks
<1>4. CASE ~Gone'
  BY <1>1, <1>2, <1>3, <1>4 DEF Pool!taskPoolVars, Running, Busy, Gone
<1>5. CASE Gone'
  <2>1. \A v \in Workers : wpc'[v] = "exit"
    BY <1>5 DEF Gone, At
  <2>2. Running' = {}
    BY <2>1 DEF Running, Busy, At
  <2> QED
    BY <1>1, <1>2, <1>3, <1>5, <2>2 DEF Pool!Leave, Running, Busy, Gone
<1> QED
  BY <1>4, <1>5

(* shutdown() is Close, the first time and again.                          *)
LEMMA CloseRefines ==
  ASSUME TypeOK, TypeOK', shutdown
  PROVE  Pool!Close
<1>1. stop' = TRUE /\ UNCHANGED <<tasks, wpc, wtask, accepted>>
  BY DEF shutdown, logVars
<1>2. Running' = Running
  BY <1>1, RunningTasks
<1>3. Gone' = Gone
  BY <1>1, StaysGone
<1> QED
  BY <1>1, <1>2, <1>3 DEF Pool!Close, Running, Busy, Gone

(* Every step of the pool is one of the abstract pool, or none.            *)
LEMMA PoolStepRefines ==
  PoolInv /\ PoolInv' /\ [Next]_vars => [Pool!PoolNext]_(Pool!taskPoolVars)
<1> SUFFICES ASSUME PoolInv, PoolInv', [Next]_vars
             PROVE  [Pool!PoolNext]_(Pool!taskPoolVars)
  OBVIOUS
<1>0. TypeOK /\ TypeOK' /\ wpc \in [Workers -> ControlPoints]
  BY DEF PoolInv, TypeOK, ControlPoints
<1>1. ASSUME NEW c \in Clients, NEW t \in Tasks, submit(c, t) PROVE Pool!PoolNext
  BY <1>0, <1>1, EnqueueRefines DEF submit, Pool!PoolNext
<1>2. ASSUME NEW w \in Workers, NEW t \in Tasks, TaskSubmit(w, t) PROVE Pool!PoolNext
  <2>1. Enqueue(t) /\ UNCHANGED <<wtask, stop>> /\ wpc[w] = "run" /\ wpc' = [wpc EXCEPT ![w] = "notify"]
    BY <1>2 DEF TaskSubmit
  <2>2. \A v \in Workers : wpc'[v] = "exit" <=> wpc[v] = "exit"
    BY <1>0, <2>1
  <2> QED
    BY <1>0, <2>1, <2>2, EnqueueRefines DEF Pool!PoolNext
<1>3. ASSUME NEW w \in Workers, WorkerTake(w) PROVE Pool!PoolNext
  <2>1. PICK t : t = Head(tasks)
    OBVIOUS
  <2>2. t \in Tasks /\ Pool!Take(t)
    BY <1>3, <2>1, TakeRefines
  <2> QED
    BY <2>2 DEF Pool!PoolNext
<1>4. ASSUME NEW w \in Workers, TaskEnds(w) PROVE Pool!PoolNext
  <2>1. PICK t : t = wtask[w]
    OBVIOUS
  <2>2. t \in Tasks /\ Pool!Finish(t)
    BY <1>4, <2>1, FinishRefines
  <2> QED
    BY <2>2 DEF Pool!PoolNext
<1>5. ASSUME NEW w \in Workers, WorkerExit(w) PROVE [Pool!PoolNext]_(Pool!taskPoolVars)
  BY <1>5, ExitRefines DEF Pool!PoolNext
<1>6. ASSUME shutdown PROVE Pool!PoolNext
  BY <1>0, <1>6, CloseRefines DEF Pool!PoolNext
<1>7. ASSUME NEW c \in Clients, SubmitNotify(c) PROVE UNCHANGED (Pool!taskPoolVars)
  <2>1. UNCHANGED <<tasks, wtask, stop, accepted>> /\ wpc' \in NotifyOne(wpc)
    BY <1>7 DEF SubmitNotify, poolVars, logVars
  <2>2. \A v \in Workers : wpc'[v] = "exit" <=> wpc[v] = "exit"
    BY <1>0, <2>1, NotifyOneCount
  <2> QED
    BY <1>0, <2>1, <2>2, QuietRefines
<1>8. ASSUME NEW w \in Workers, TaskNotify(w) PROVE UNCHANGED (Pool!taskPoolVars)
  <2> DEFINE mid == [wpc EXCEPT ![w] = "run"]
  <2>1. UNCHANGED <<tasks, wtask, stop, accepted>> /\ wpc' \in NotifyOne(mid) /\ wpc[w] = "notify"
    BY <1>8 DEF TaskNotify, poolVars, logVars
  <2>2. mid \in [Workers -> ControlPoints] /\ \A v \in Workers : mid[v] = "exit" <=> wpc[v] = "exit"
    BY <1>0, <2>1, Points
  <2> HIDE DEF mid
  <2>3. \A v \in Workers : wpc'[v] = "exit" <=> wpc[v] = "exit"
    BY <2>1, <2>2, NotifyOneCount
  <2> QED
    BY <1>0, <2>1, <2>3, QuietRefines
<1>9. ASSUME NEW w \in Workers, WorkerSleep(w) \/ SpuriousWakeup(w) PROVE UNCHANGED (Pool!taskPoolVars)
  <2>1. /\ UNCHANGED <<tasks, wtask, stop, accepted>> /\ wpc[w] \in {"check", "sleep"}
        /\ wpc' = [wpc EXCEPT ![w] = "sleep"] \/ wpc' = [wpc EXCEPT ![w] = "check"]
    BY <1>9 DEF WorkerSleep, SpuriousWakeup, poolVars, logVars
  <2>2. \A v \in Workers : wpc'[v] = "exit" <=> wpc[v] = "exit"
    BY <1>0, <2>1
  <2> QED
    BY <1>0, <2>1, <2>2, QuietRefines
<1>10. ASSUME ShutdownNotifyAll \/ ShutdownJoin \/ UNCHANGED vars PROVE UNCHANGED (Pool!taskPoolVars)
  <2>1. /\ UNCHANGED <<tasks, wtask, stop, accepted>>
        /\ wpc' = wpc \/ wpc' = [w \in Workers |-> IF wpc[w] = "sleep" THEN "check" ELSE wpc[w]]
    BY <1>10 DEF ShutdownNotifyAll, NotifyAll, ShutdownJoin, vars, poolVars, logVars
  <2>2. \A v \in Workers : wpc'[v] = "exit" <=> wpc[v] = "exit"
    BY <1>0, <2>1
  <2> QED
    BY <1>0, <2>1, <2>2, QuietRefines
<1> QED
  BY <1>1, <1>2, <1>3, <1>4, <1>5, <1>6, <1>7, <1>8, <1>9, <1>10 DEF Next, WorkerStep

(* The pool starts as the abstract pool does.                              *)
LEMMA PoolInitRefines == Init => Pool!PoolInit
<1> SUFFICES ASSUME Init PROVE Pool!PoolInit
  OBVIOUS
<1>1. Running = {} /\ ~Gone
  BY PoolAssumption DEF Init, Running, Busy, At, Gone
<1> QED
  BY <1>1 DEF Init, Pool!PoolInit, Running, Busy, Gone

(* The thread pool keeps its promise with any number of workers, clients   *)
(* and tasks: tasks start in the order of submission, none is dropped or   *)
(* run twice, and the last worker to leave after shutdown() leaves neither *)
(* a queued nor a running task behind (ThreadPool of thread_pool.hpp).     *)
THEOREM PoolKeepsItsPromise == Spec => ImplementsPool
  BY PoolInitRefines, PoolStepRefines, PoolInvariant, PTL DEF Spec, ImplementsPool, Pool!PoolSpec
=============================================================================
