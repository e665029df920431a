-------------------------- MODULE EventLoopProofs ---------------------------
(***************************************************************************)
(* Proofs about the two components whose thread sleeps on a descriptor:    *)
(* the Notifier's eventfd, for every capacity, message set and number of   *)
(* pushes, and EpollTimer's timerfd, for every set of delays and any       *)
(* number of timers, calls and clock ticks.                                *)
(***************************************************************************)
EXTENDS Notifier, EpollTimer, TLAPS

-----------------------------------------------------------------------------
(***************************************************************************)
(* Notifier.                                                               *)
(***************************************************************************)

(* Every notification stands for a push: what is in the eventfd, and the   *)
(* notification under way, never exceed the messages pushed.               *)
CounterInv == Unseen <= pushed

(* The invariant holds initially, whatever the consumer's pattern.         *)
LEMMA NotifierInitially == NotifierInit => NotifierTypeOK /\ CounterInv
<1> SUFFICES ASSUME NotifierInit PROVE NotifierTypeOK /\ CounterInv
  OBVIOUS
<1>1. cut \in BOOLEAN
  BY DEF NotifierInit
<1> QED
  BY <1>1, NotifierAssumption DEF NotifierInit, FifoInit, NotifierTypeOK, CounterInv, Unseen

(* Types and the bound of the counter are preserved by every step.         *)
LEMMA NotifierStep ==
  NotifierTypeOK /\ CounterInv /\ [NotifierNext]_notifierVars => NotifierTypeOK' /\ CounterInv'
<1> SUFFICES ASSUME NotifierTypeOK, CounterInv, [NotifierNext]_notifierVars
             PROVE  NotifierTypeOK' /\ CounterInv'
  OBVIOUS
<1>c. cut' \in BOOLEAN
  BY DEF NotifierTypeOK, NotifierNext, ConsumerStep, PushMessage, notify, wait, PollReady, PollRead,
         Take, FoundEmpty, notifierVars
<1> USE NotifierAssumption, <1>c DEF NotifierTypeOK, CounterInv, Unseen, fifoVars
<1>1. CASE PushMessage
  <2>1. PICK m \in Message : Push(m)
    BY <1>1 DEF PushMessage
  <2>2. queue' \in Seq(Message) /\ Len(queue') = Len(queue) + 1
    BY <2>1 DEF Push
  <2> QED
    BY <1>1, <2>1, <2>2 DEF PushMessage, Push
<1>2. CASE notify
  BY <1>2 DEF notify
<1>3. CASE wait
  BY <1>3 DEF wait
<1>4. CASE PollReady
  BY <1>4 DEF PollReady
<1>5. CASE PollRead
  BY <1>5 DEF PollRead
<1>6. CASE Take
  <2>1. queue' \in Seq(Message) /\ Len(queue') = Len(queue) - 1 /\ popped' \in Message
    BY <1>6 DEF Take, Pop
  <2> QED
    BY <1>6, <2>1 DEF Take, Pop
<1>7. CASE FoundEmpty
  BY <1>7 DEF FoundEmpty
<1>8. CASE UNCHANGED notifierVars
  BY <1>8 DEF notifierVars
<1> QED
  BY <1>1, <1>2, <1>3, <1>4, <1>5, <1>6, <1>7, <1>8 DEF NotifierNext, ConsumerStep

(* The eventfd beside the ring keeps its type, with either pattern.        *)
THEOREM NotifierTypeCorrect == NotifierSpec => []NotifierTypeOK
<1>1. NotifierSpec => [](NotifierTypeOK /\ CounterInv)
  BY NotifierInitially, NotifierStep, PTL DEF NotifierSpec
<1> QED
  BY <1>1, PTL

(* A consumer that drains the ring after every wake-up never blocks over a *)
(* message that no notification announces (notify, wait and wait_for_ms),  *)
(* except after a drain that a message of size 0 has cut short.            *)
THEOREM DrainingLosesNoWakeup ==
  ASSUME Pattern = "drain"
  PROVE  NotifierSpec => []NoLostWakeup
<1>1. NotifierInit => NoLostWakeup
  BY DEF NotifierInit, FifoInit, NoLostWakeup
<1>2. NotifierTypeOK /\ NoLostWakeup /\ [NotifierNext]_notifierVars => NoLostWakeup'
  <2> SUFFICES ASSUME NotifierTypeOK, NoLostWakeup, [NotifierNext]_notifierVars
               PROVE  NoLostWakeup'
    OBVIOUS
  <2> USE NotifierAssumption DEF NotifierTypeOK, NoLostWakeup, fifoVars
  <2>1. CASE PushMessage
    BY <2>1 DEF PushMessage
  <2>2. CASE notify
    BY <2>2 DEF notify
  <2>3. CASE wait \/ PollRead
    BY <2>3 DEF wait, PollRead
  <2>4. CASE PollReady
    BY <2>4 DEF PollReady
  <2>5. CASE Take
    BY <2>5, Pattern = "drain" DEF Take
  <2>6. CASE FoundEmpty
    <3>1. queue # <<>> => Len(queue) > 0
      OBVIOUS
    <3> QED
      BY <2>6, <3>1 DEF FoundEmpty, Unseen
  <2>7. CASE UNCHANGED notifierVars
    BY <2>7 DEF notifierVars
  <2> QED
    BY <2>1, <2>2, <2>3, <2>4, <2>5, <2>6, <2>7 DEF NotifierNext, ConsumerStep
<1> QED
  BY <1>1, <1>2, NotifierTypeCorrect, PTL DEF NotifierSpec

-----------------------------------------------------------------------------
(***************************************************************************)
(* EpollTimer.                                                             *)
(***************************************************************************)

(* An id names one timer: it is in active_ once, or running its callback,  *)
(* and cancel() has not returned true for it.                              *)
IdsOK ==
  /\ \A a \in active : a.id < next_id /\ a.id \notin cancelled
  /\ \A a, b \in active : a.id = b.id => a = b
  /\ \A id \in cancelled : id < next_id
  /\ pc # "callback" => current = NoTimer
  /\ pc = "callback" =>
       /\ current \in Timer /\ current.id < next_id /\ current.id \notin cancelled
       /\ current.expiry <= drain_now
       /\ \A a \in active : a.id # current.id

(* While the loop may sleep, the timerfd is armed for no later than every  *)
(* heap entry, those of cancelled timers included: that is what schedule() *)
(* relies on when it compares with heap_.top().                            *)
HeapOK ==
  /\ \A a \in active : Key(a) \in heap
  /\ pc \in {"out", "enter", "loop", "wait"} =>
       \A e \in heap : armed # Off /\ armed <= e.expiry

EpollInv == TypeOK /\ IdsOK /\ HeapOK

-----------------------------------------------------------------------------
(* The catch-up formula of drain_expired yields the first time after d on  *)
(* the cadence that starts at x.                                           *)
LEMMA CatchUp ==
  ASSUME NEW x \in Nat, NEW i \in Nat, i > 0, NEW d \in Nat, x <= d
  PROVE  LET n == x + i * (1 + (d - x) \div i)
         IN n \in Nat /\ n > d /\ n - i <= d /\ (n - x) % i = 0
<1> DEFINE q == (d - x) \div i
           r == (d - x) % i
<1>1. /\ q \in Nat /\ r \in 0..(i - 1)
      /\ d - x = i * q + r
  OBVIOUS
<1> HIDE DEF q, r
<1>2. i * (1 + q) = i + i * q /\ i * q \in Nat
  BY <1>1
<1>3. x + i * (1 + q) \in Nat /\ x + i * (1 + q) > d /\ x + i * (1 + q) - i <= d
  BY <1>1, <1>2
<1>4. (i * (1 + q)) % i = 0
  BY <1>1
<1> QED
  BY <1>2, <1>3, <1>4 DEF q

(* The timer that is put back after its callback has the running timer's   *)
(* id and cadence.                                                         *)
LEMMA PutBack ==
  ASSUME TypeOK, IdsOK, pc = "callback", current.interval > 0,
         NEW e, e = [current EXCEPT !.expiry = NextExpiry(current)]
  PROVE  /\ e \in Timer /\ e.id = current.id /\ e.interval = current.interval
         /\ e.expiry > drain_now /\ e.expiry - e.interval <= drain_now
         /\ (e.expiry - current.expiry) % e.interval = 0
<1>1. /\ current \in Timer /\ current.expiry \in Nat /\ current.interval \in Nat
      /\ current.expiry <= drain_now /\ drain_now \in Nat
  BY EpollAssumption DEF IdsOK, TypeOK, Timer
<1>2. /\ NextExpiry(current) \in Nat /\ NextExpiry(current) > drain_now
      /\ NextExpiry(current) - current.interval <= drain_now
      /\ (NextExpiry(current) - current.expiry) % current.interval = 0
  BY <1>1, CatchUp DEF NextExpiry
<1> HIDE DEF NextExpiry
<1> QED
  BY <1>1, <1>2 DEF Timer

-----------------------------------------------------------------------------
(* Before the first schedule() there is nothing to be woken up for.        *)
LEMMA EpollInit == Init => EpollInv
<1> SUFFICES ASSUME Init PROVE EpollInv
  OBVIOUS
<1>1. running \in BOOLEAN /\ looping \in BOOLEAN
  BY DEF Init
<1>2. IdsOK /\ HeapOK
  BY DEF Init, IdsOK, HeapOK
<1>3. TypeOK
  BY <1>1, EpollAssumption DEF Init, TypeOK
<1> QED
  BY <1>2, <1>3 DEF EpollInv

(* The two flags of the loop are Booleans.                                 *)
LEMMA FlagsStep == TypeOK /\ [Next]_vars => running' \in BOOLEAN /\ looping' \in BOOLEAN
  BY DEF TypeOK, Next, LoopStep, vars, schedule, schedule_periodic, Create, cancel, stop, run,
         run_once, RunStart, LoopTest, WaitTimeout, WaitReady, DrainBegin, DropStale, FireBegin,
         FireEnd, DrainEnd, Rearm, TimePasses

(* schedule() and schedule_periodic(), from a callback or outside a drain: *)
(* the timerfd need only be moved when the new deadline is before all      *)
(* entries of the heap.                                                    *)
LEMMA CreateStep ==
  ASSUME EpollInv, NEW d \in Nat, NEW i \in Nat, Create(d, i)
  PROVE  EpollInv'
<1> DEFINE e == [id |-> next_id, expiry |-> now + d, interval |-> i]
<1> USE EpollAssumption DEF EpollInv
<1>1. /\ next_id \in Nat /\ next_id <= MaxTimers /\ next_id' = next_id + 1
      /\ active' = active \cup {e} /\ heap' = heap \cup {Key(e)}
      /\ armed' = (IF NeedRearm(e.expiry) THEN e.expiry ELSE armed)
      /\ UNCHANGED <<now, pc, drain_now, current, running, looping, stops, cancelled>>
  BY DEF Create, TypeOK
<1>2. now \in Nat /\ next_id \in 1..MaxTimers
  BY <1>1 DEF TypeOK
<1>3. e \in Timer /\ e.id = next_id /\ e.expiry = now + d /\ now + d \in Nat
  BY <1>2 DEF Timer
<1>4. Key(e) \in [id : 1..MaxTimers, expiry : Nat] /\ Key(e).expiry = e.expiry
  BY <1>2, <1>3 DEF Key
<1> HIDE DEF e
<1>5. TypeOK'
  <2>1. active' \subseteq Timer /\ heap' \subseteq [id : 1..MaxTimers, expiry : Nat]
    BY <1>1, <1>3, <1>4 DEF TypeOK
  <2>2. armed' \in Nat \cup {Off} /\ next_id' \in 1..(MaxTimers + 1)
    BY <1>1, <1>2, <1>3 DEF TypeOK
  <2>3. running' \in BOOLEAN /\ looping' \in BOOLEAN
    BY <1>1 DEF TypeOK
  <2> QED
    BY <1>1, <2>1, <2>2, <2>3 DEF TypeOK
<1>6. IdsOK'
  <2>1. \A a \in active : a.id \in Nat /\ a.id < next_id /\ a \in Timer
    BY DEF IdsOK, TypeOK, Timer
  <2>2. \A id \in cancelled : id \in Nat /\ id < next_id
    BY DEF IdsOK, TypeOK
  <2>3. \A a \in active' : a.id < next_id' /\ a.id \notin cancelled'
    BY <1>1, <1>3, <2>1, <2>2 DEF IdsOK
  <2>4. \A a, b \in active' : a.id = b.id => a = b
    BY <1>1, <1>3, <2>1 DEF IdsOK
  <2>5. pc = "callback" => current.id \in Nat /\ current.id < next_id
    BY DEF IdsOK, Timer
  <2>6. pc' = "callback" => \A a \in active' : a.id # current'.id
    BY <1>1, <1>3, <2>5 DEF IdsOK
  <2> QED
    BY <1>1, <2>2, <2>3, <2>4, <2>5, <2>6 DEF IdsOK
<1>7. HeapOK'
  <2>1. \A f \in heap : f.expiry \in Nat
    BY DEF TypeOK
  <2>2. armed \in Nat \cup {Off}
    BY DEF TypeOK
  <2>3. \A a \in active' : Key(a) \in heap'
    BY <1>1 DEF HeapOK
  <2>4. pc' \in {"out", "enter", "loop", "wait"} =>
          \A f \in heap' : armed' # Off /\ armed' <= f.expiry
    <3>1. CASE NeedRearm(e.expiry)
      BY <1>1, <1>3, <1>4, <2>1, <3>1 DEF NeedRearm, Off
    <3>2. CASE ~NeedRearm(e.expiry)
      BY <1>1, <1>3, <1>4, <2>1, <2>2, <3>2 DEF NeedRearm, HeapOK, Off
    <3> QED
      BY <3>1, <3>2
  <2> QED
    BY <2>3, <2>4 DEF HeapOK
<1> QED
  BY <1>5, <1>6, <1>7

(* cancel() leaves the entry in the heap, from a callback too.             *)
LEMMA CancelStep == ASSUME EpollInv, NEW id \in 1..MaxTimers, cancel(id) PROVE EpollInv'
<1> USE DEF EpollInv
<1>1. /\ active' = {e \in active : e.id # id} /\ cancelled' = cancelled \cup {id}
      /\ UNCHANGED <<now, next_id, heap, armed, pc, drain_now, current, running, looping, stops>>
      /\ \E e \in active : e.id = id
  BY DEF cancel
<1>2. TypeOK'
  <2>1. running' \in BOOLEAN /\ looping' \in BOOLEAN
    BY <1>1 DEF TypeOK
  <2> QED
    BY <1>1, <2>1 DEF TypeOK
<1>3. IdsOK'
  BY <1>1 DEF IdsOK
<1>4. HeapOK'
  BY <1>1 DEF HeapOK
<1> QED
  BY <1>2, <1>3, <1>4

(* The steps outside a drain leave timers, heap and timerfd alone.         *)
LEMMA OutsideStep ==
  ASSUME EpollInv,
         stop \/ run \/ run_once \/ RunStart \/ LoopTest \/ WaitTimeout \/ TimePasses
           \/ UNCHANGED vars
  PROVE  EpollInv'
<1> USE DEF EpollInv
<1>1. /\ UNCHANGED <<next_id, heap, active, armed, drain_now, current, cancelled>>
      /\ now' = now \/ (now < MaxTime /\ now' = now + 1)
      /\ stops' = stops \/ (stops < MaxStops /\ stops' = stops + 1)
      /\ pc' = pc \/ (pc \in {"out", "enter", "loop", "wait"} /\ pc' \in {"out", "enter", "loop", "wait"})
  BY DEF stop, run, run_once, RunStart, LoopTest, WaitTimeout, RunOnceReturns, TimePasses, vars, timerVars
<1>2. TypeOK'
  <2>1. running' \in BOOLEAN /\ looping' \in BOOLEAN
    BY FlagsStep DEF Next, LoopStep
  <2>2. now' \in 0..MaxTime /\ drain_now' \in 0..now' /\ stops' \in 0..MaxStops
    BY <1>1, EpollAssumption DEF TypeOK
  <2> QED
    BY <1>1, <2>1, <2>2 DEF TypeOK
<1>3. IdsOK'
  BY <1>1 DEF IdsOK
<1>4. HeapOK'
  BY <1>1 DEF HeapOK
<1> QED
  BY <1>2, <1>3, <1>4

(* Reading the timerfd, the clock, and leaving the first loop.             *)
LEMMA DrainControlStep ==
  ASSUME EpollInv, WaitReady \/ DrainBegin \/ DrainEnd PROVE EpollInv'
<1> USE EpollAssumption DEF EpollInv
<1>1. /\ UNCHANGED <<now, next_id, heap, active, current, running, looping, stops, cancelled>>
      /\ armed' \in {armed, Off} /\ drain_now' \in {drain_now, now}
      /\ pc # "callback" /\ pc' \in {"drain", "top", "rearm"}
  BY DEF WaitReady, DrainBegin, DrainTime, DrainEnd, timerVars
<1>2. TypeOK'
  <2>1. running' \in BOOLEAN /\ looping' \in BOOLEAN
    BY <1>1 DEF TypeOK
  <2>2. armed' \in Nat \cup {Off} /\ drain_now' \in 0..now'
    BY <1>1 DEF TypeOK
  <2> QED
    BY <1>1, <2>1, <2>2 DEF TypeOK
<1>3. IdsOK'
  BY <1>1 DEF IdsOK
<1>4. HeapOK'
  BY <1>1 DEF HeapOK
<1> QED
  BY <1>2, <1>3, <1>4

(* A stale entry belongs to no live timer.                                 *)
LEMMA DropStaleStep == ASSUME EpollInv, NEW e \in heap, DropStale(e) PROVE EpollInv'
<1> USE DEF EpollInv
<1>1. /\ heap' = heap \ {e} /\ pc \in {"top", "rearm"} /\ Stale(e)
      /\ UNCHANGED <<now, next_id, active, armed, pc, drain_now, current, running, looping, stops, cancelled>>
  BY DEF DropStale
<1>2. TypeOK'
  <2>1. running' \in BOOLEAN /\ looping' \in BOOLEAN
    BY <1>1 DEF TypeOK
  <2> QED
    BY <1>1, <2>1 DEF TypeOK
<1>3. IdsOK'
  BY <1>1 DEF IdsOK
<1>4. HeapOK'
  BY <1>1 DEF HeapOK, Stale
<1> QED
  BY <1>2, <1>3, <1>4

(* The fired timer leaves heap and map; no other timer shares its entry.   *)
LEMMA FireBeginStep == ASSUME EpollInv, NEW a \in active, FireBegin(a) PROVE EpollInv'
<1> USE DEF EpollInv
<1>1. /\ pc = "top" /\ pc' = "callback" /\ current' = a /\ a.expiry <= drain_now
      /\ heap' = heap \ {Key(a)} /\ active' = active \ {a}
      /\ UNCHANGED <<now, next_id, armed, drain_now, running, looping, stops, cancelled>>
  BY DEF FireBegin
<1>2. a \in Timer
  BY DEF TypeOK
<1>3. TypeOK'
  <2>1. running' \in BOOLEAN /\ looping' \in BOOLEAN
    BY <1>1 DEF TypeOK
  <2> QED
    BY <1>1, <1>2, <2>1 DEF TypeOK
<1>4. IdsOK'
  BY <1>1, <1>2 DEF IdsOK
<1>5. HeapOK'
  <2>1. \A b \in active' : Key(b) # Key(a)
    BY <1>1 DEF IdsOK, Key
  <2> QED
    BY <1>1, <2>1 DEF HeapOK
<1> QED
  BY <1>3, <1>4, <1>5

(* A one-shot timer is gone; a periodic one is put back under its id.      *)
LEMMA FireEndStep == ASSUME EpollInv, FireEnd PROVE EpollInv'
<1> USE DEF EpollInv
<1> DEFINE e == [current EXCEPT !.expiry = NextExpiry(current)]
<1>1. /\ pc = "callback" /\ pc' = "top" /\ current' = NoTimer
      /\ UNCHANGED <<now, next_id, armed, drain_now, running, looping, stops, cancelled>>
      /\ \/ current.interval > 0 /\ active' = active \cup {e} /\ heap' = heap \cup {Key(e)}
         \/ UNCHANGED <<active, heap>>
  BY DEF FireEnd
<1>2. running' \in BOOLEAN /\ looping' \in BOOLEAN
  BY <1>1 DEF TypeOK
<1>3. CASE UNCHANGED <<active, heap>>
  <2>1. TypeOK'
    BY <1>1, <1>2, <1>3 DEF TypeOK
  <2>2. IdsOK' /\ HeapOK'
    BY <1>1, <1>3 DEF IdsOK, HeapOK
  <2> QED
    BY <2>1, <2>2
<1>4. CASE current.interval > 0 /\ active' = active \cup {e} /\ heap' = heap \cup {Key(e)}
  <2>1. e \in Timer /\ e.id = current.id
    BY <1>1, <1>4, PutBack
  <2> HIDE DEF e
  <2>2. Key(e) \in [id : 1..MaxTimers, expiry : Nat]
    BY <2>1 DEF Timer, Key
  <2>3. TypeOK'
    BY <1>1, <1>2, <1>4, <2>1, <2>2 DEF TypeOK
  <2>4. IdsOK'
    BY <1>1, <1>4, <2>1 DEF IdsOK
  <2>5. HeapOK'
    BY <1>1, <1>4 DEF HeapOK
  <2> QED
    BY <2>3, <2>4, <2>5
<1> QED
  BY <1>1, <1>3, <1>4

(* After the drain the timerfd is armed for the earliest entry.            *)
LEMMA RearmStep == ASSUME EpollInv, Rearm PROVE EpollInv'
<1> USE DEF EpollInv
<1>1. /\ pc = "rearm" /\ pc' \in {"loop", "out"}
      /\ UNCHANGED <<now, next_id, heap, active, drain_now, current, running, looping, stops, cancelled>>
      /\ (heap = {} /\ UNCHANGED armed) \/ \E e \in heap : IsTop(e) /\ armed' = e.expiry
  BY DEF Rearm, RunOnceReturns, RearmTime
<1>2. \A e \in heap : e.expiry \in Nat
  BY DEF TypeOK
<1>3. TypeOK'
  <2>1. running' \in BOOLEAN /\ looping' \in BOOLEAN
    BY <1>1 DEF TypeOK
  <2> QED
    BY <1>1, <1>2, <2>1 DEF TypeOK
<1>4. IdsOK'
  BY <1>1 DEF IdsOK
<1>5. HeapOK'
  BY <1>1, <1>2 DEF HeapOK, IsTop, Off
<1> QED
  BY <1>3, <1>4, <1>5

(* The inductive invariant, along every behaviour.                         *)
THEOREM EpollInvariant == Spec => []EpollInv
<1>1. ASSUME EpollInv, [Next]_vars PROVE EpollInv'
  <2>1. CASE \E d \in Delays : schedule(d) \/ schedule_periodic(d)
    BY <1>1, <2>1, CreateStep, EpollAssumption DEF schedule, schedule_periodic
  <2>2. CASE \E id \in 1..MaxTimers : cancel(id)
    BY <1>1, <2>2, CancelStep
  <2>3. CASE LoopStep
    BY <1>1, <2>3, OutsideStep, DrainControlStep, DropStaleStep, FireBeginStep, FireEndStep, RearmStep
    DEF LoopStep
  <2>4. CASE run \/ run_once \/ stop \/ TimePasses \/ UNCHANGED vars
    BY <1>1, <2>4, OutsideStep
  <2> QED
    BY <1>1, <2>1, <2>2, <2>3, <2>4 DEF Next
<1> QED
  BY EpollInit, <1>1, PTL DEF Spec

(* Every live timer has its heap entry and the loop never sleeps past the  *)
(* earliest live deadline, however schedule(), cancel(), callbacks and the *)
(* clock are interleaved (schedule, drain_expired, rearm).                 *)
THEOREM EpollWakesInTime == Spec => []Inv
<1>1. EpollInv => Inv
  BY DEF EpollInv, Inv, HeapOK, WakesInTime, Key
<1> QED
  BY <1>1, EpollInvariant, PTL

(* No callback runs before its deadline nor after cancel() returned true   *)
(* (drain_expired).                                                        *)
THEOREM EpollFiresWhenDue == Spec => []FiresWhenDue
<1>1. EpollInv => FiresWhenDue
  BY EpollAssumption DEF EpollInv, FiresWhenDue, IdsOK, TypeOK, Timer
<1> QED
  BY <1>1, EpollInvariant, PTL

(* The catch-up of periodic timers (drain_expired): a timer that is put    *)
(* back is due at the first time of its cadence after the drain's clock,   *)
(* whatever its interval and however many intervals were missed.           *)
THEOREM EpollNoBurst == Spec => NoBurst
<1> DEFINE OnCadence(a) == /\ a.expiry > drain_now /\ a.expiry - a.interval <= drain_now
                           /\ (a.expiry - current.expiry) % a.interval = 0
<1>1. ASSUME EpollInv, [Next]_vars
      PROVE  [\A a \in active' : a.id = current.id => OnCadence(a)]_vars
  <2> SUFFICES ASSUME NEW a \in active', a.id = current.id, Next
               PROVE  OnCadence(a)
    BY <1>1
  <2> USE DEF EpollInv
  <2>1. pc # "callback" => current.id = 0
    BY <1>1 DEF IdsOK, NoTimer
  <2>2. \A b \in active : b.id # current.id
    BY <1>1, <2>1 DEF IdsOK, TypeOK, Timer
  <2>3. CASE FireEnd
    <3>1. a = [current EXCEPT !.expiry = NextExpiry(current)] /\ pc = "callback" /\ current.interval > 0
      BY <2>2, <2>3 DEF FireEnd
    <3> QED
      BY <1>1, <3>1, PutBack
  <2>4. CASE \E d \in Delays : schedule(d) \/ schedule_periodic(d)
    <3>1. a.id = next_id
      BY <2>2, <2>4 DEF schedule, schedule_periodic, Create
    <3>2. current.id < next_id
      BY <1>1, <2>1 DEF IdsOK, TypeOK
    <3> QED
      BY <1>1, <3>1, <3>2 DEF TypeOK
  <2>5. CASE ~FireEnd /\ ~(\E d \in Delays : schedule(d) \/ schedule_periodic(d))
    <3>1. active' \subseteq active
      BY <2>5 DEF Next, LoopStep, cancel, stop, run, run_once, RunStart, LoopTest, WaitTimeout,
                  WaitReady, DrainBegin, DropStale, FireBegin, DrainEnd, Rearm, TimePasses, timerVars
    <3> QED
      BY <2>2, <3>1
  <2> QED
    BY <2>3, <2>4, <2>5
<1> QED
  BY <1>1, EpollInvariant, PTL DEF Spec, NoBurst
=============================================================================
