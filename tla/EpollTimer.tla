----------------------------- MODULE EpollTimer -----------------------------
(***************************************************************************)
(* EpollTimer (timer/src/epoll_timer.cpp): a min-heap of deadlines with    *)
(* lazy deletion, one timerfd armed for the earliest deadline, and the     *)
(* loop run() that waits for it and drains what has expired.               *)
(*                                                                         *)
(* schedule() and cancel() are called on the loop's thread, from a         *)
(* callback or between two waits (the class is not thread-safe); stop()    *)
(* and the passing of time happen at any moment.  Time is a counter; a     *)
(* timerfd armed for a time that has passed is readable at once.  Failing  *)
(* system calls throw and are left out, and so are the counters of Stats   *)
(* and push_entry, which nothing calls.                                    *)
(***************************************************************************)
EXTENDS Integers, FiniteSets

CONSTANTS
  Delays,     (* the delays and intervals callers ask for                  *)
  MaxTimers,  (* bound: timers created in a behaviour                      *)
  MaxTime,    (* bound: value of the clock                                 *)
  MaxStops    (* bound: calls of stop()                                    *)

ASSUME EpollAssumption ==
  /\ Delays \subseteq Nat
  /\ MaxTimers \in Nat /\ MaxTime \in Nat /\ MaxStops \in Nat

VARIABLES
  now,        (* CLOCK_MONOTONIC                                           *)
  next_id,    (* next_id_                                                  *)
  heap,       (* heap_: the [id, expiry] pairs, also of cancelled timers   *)
  active,     (* active_: the live timers [id, expiry, interval]           *)
  armed,      (* the timerfd's expiration time, or Off                     *)
  pc,         (* the loop's control point                                  *)
  drain_now,  (* `now' of drain_expired                                    *)
  current,    (* `e' of drain_expired while its callback runs              *)
  running,    (* running_                                                  *)
  looping,    (* is run_once() called by run(), not by the application?    *)
  stops,      (* calls of stop() so far                                    *)
  cancelled   (* ids for which cancel() has returned true                  *)

timerVars == <<next_id, heap, active, armed>>
vars == <<now, timerVars, pc, drain_now, current, running, looping, stops, cancelled>>

Off == -1
NoTimer == [id |-> 0, expiry |-> 0, interval |-> 0]

Key(e) == [id |-> e.id, expiry |-> e.expiry]

(* heap_.top(): one of the entries with the smallest expiry.               *)
IsTop(e) == e \in heap /\ \A f \in heap : e.expiry <= f.expiry

(* A heap entry whose timer was cancelled (or set to another time).        *)
Stale(e) == \A a \in active : Key(a) # e

Readable == armed # Off /\ armed <= now

Init ==
  /\ now = 0
  /\ next_id = 1 /\ heap = {} /\ active = {} /\ armed = Off
  /\ pc = "out" /\ drain_now = 0 /\ current = NoTimer
  /\ running = FALSE /\ looping = FALSE /\ stops = 0
  /\ cancelled = {}

-----------------------------------------------------------------------------
(***************************************************************************)
(* The API.                                                                *)
(***************************************************************************)
OnLoopThread == pc \in {"out", "callback"}

(* Mutant: the timerfd is armed only when nothing is in the heap.          *)
NeedRearmEmpty(expiry) == heap = {}

NeedRearm(expiry) == heap = {} \/ \A e \in heap : expiry < e.expiry

Create(delay, interval) ==
  LET e == [id |-> next_id, expiry |-> now + delay, interval |-> interval]
  IN /\ OnLoopThread
     /\ next_id <= MaxTimers
     /\ next_id' = next_id + 1
     /\ active' = active \cup {e}
     /\ heap' = heap \cup {Key(e)}
     /\ armed' = IF NeedRearm(e.expiry) THEN e.expiry ELSE armed
     /\ UNCHANGED <<now, pc, drain_now, current, running, looping, stops, cancelled>>

schedule(delay) == Create(delay, 0)
schedule_periodic(interval) == Create(interval, interval)

(* cancel() of a live timer; of any other id it returns false.             *)
cancel(id) ==
  /\ OnLoopThread
  /\ \E e \in active : e.id = id
  /\ active' = {e \in active : e.id # id}
  /\ cancelled' = cancelled \cup {id}
  /\ UNCHANGED <<now, next_id, heap, armed, pc, drain_now, current, running, looping, stops>>

(* A relaxed store, from a signal handler or another thread.               *)
stop ==
  /\ stops < MaxStops
  /\ stops' = stops + 1
  /\ running' = FALSE
  /\ UNCHANGED <<now, timerVars, pc, drain_now, current, looping, cancelled>>

-----------------------------------------------------------------------------
(***************************************************************************)
(* run(), run_once() and drain_expired().                                  *)
(***************************************************************************)
run ==
  /\ pc = "out"
  /\ pc' = "enter"
  /\ looping' = TRUE
  /\ UNCHANGED <<now, timerVars, drain_now, current, running, stops, cancelled>>

(* The application may also poll without run().                            *)
run_once ==
  /\ pc = "out"
  /\ pc' = "wait"
  /\ looping' = FALSE
  /\ UNCHANGED <<now, timerVars, drain_now, current, running, stops, cancelled>>

(* run_once() returns to its caller.                                       *)
RunOnceReturns == pc' = IF looping THEN "loop" ELSE "out"

(* Mutant: the flag is set again on every turn of the loop.                *)
RunStartAgain ==
  /\ pc \in {"enter", "loop"}
  /\ running' = TRUE
  /\ pc' = "wait"
  /\ UNCHANGED <<now, timerVars, drain_now, current, looping, stops, cancelled>>

RunStart ==
  /\ pc = "enter"
  /\ running' = TRUE
  /\ pc' = "loop"
  /\ UNCHANGED <<now, timerVars, drain_now, current, looping, stops, cancelled>>

(* The loop's test; run() returns or enters epoll_wait.                    *)
LoopTest ==
  /\ pc = "loop"
  /\ pc' = IF running THEN "wait" ELSE "out"
  /\ UNCHANGED <<now, timerVars, drain_now, current, running, looping, stops, cancelled>>

(* epoll_wait times out (or EINTR) and run_once returns 0.                 *)
WaitTimeout ==
  /\ pc = "wait"
  /\ ~Readable
  /\ RunOnceReturns
  /\ UNCHANGED <<now, timerVars, drain_now, current, running, looping, stops, cancelled>>

(* The timerfd is readable: it is read, which ends its one expiration.     *)
WaitReady ==
  /\ pc = "wait"
  /\ Readable
  /\ armed' = Off
  /\ pc' = "drain"
  /\ UNCHANGED <<now, next_id, heap, active, drain_now, current, running, looping, stops, cancelled>>

(* Mutant: the clock is rounded up.                                        *)
DrainTimeRoundedUp == now + 1

(* Clock::now()                                                            *)
DrainTime == now

(* drain_expired: `now' is read once ...                                   *)
DrainBegin ==
  /\ pc = "drain"
  /\ drain_now' = DrainTime
  /\ pc' = "top"
  /\ UNCHANGED <<now, timerVars, current, running, looping, stops, cancelled>>

(* ... stale entries are popped (the first loop and the rearm loop alike), *)
DropStale(e) ==
  /\ pc \in {"top", "rearm"}
  /\ IsTop(e) /\ Stale(e)
  /\ heap' = heap \ {e}
  /\ UNCHANGED <<now, next_id, active, armed, pc, drain_now, current, running, looping, stops, cancelled>>

(* ... an expired timer leaves heap and map and its callback starts, ...   *)
FireBegin(a) ==
  /\ pc = "top"
  /\ a \in active
  /\ IsTop(Key(a))
  /\ a.expiry <= drain_now
  /\ heap' = heap \ {Key(a)}
  /\ active' = active \ {a}
  /\ current' = a
  /\ pc' = "callback"
  /\ UNCHANGED <<now, next_id, armed, drain_now, running, looping, stops, cancelled>>

(* Mutant: every missed interval is made up for.                           *)
NextExpiryBurst(a) == a.expiry + a.interval

(* The first time of the timer's cadence after drain_now.                  *)
NextExpiry(a) == a.expiry + a.interval * (1 + (drain_now - a.expiry) \div a.interval)

(* ... and a periodic timer is put back after its callback.                *)
FireEnd ==
  /\ pc = "callback"
  /\ pc' = "top"
  /\ current' = NoTimer
  /\ IF current.interval > 0
     THEN LET e == [current EXCEPT !.expiry = NextExpiry(current)]
          IN active' = active \cup {e} /\ heap' = heap \cup {Key(e)}
     ELSE UNCHANGED <<active, heap>>
  /\ UNCHANGED <<now, next_id, armed, drain_now, running, looping, stops, cancelled>>

(* The first loop ends at a live timer in the future or an empty heap.     *)
DrainEnd ==
  /\ pc = "top"
  /\ \/ heap = {}
     \/ \E e \in heap : IsTop(e) /\ ~Stale(e) /\ e.expiry > drain_now
  /\ pc' = "rearm"
  /\ UNCHANGED <<now, timerVars, drain_now, current, running, looping, stops, cancelled>>

(* Mutant: the timerfd stays off after a drain.                            *)
RearmTimeOff(e) == Off

RearmTime(e) == e.expiry

Rearm ==
  /\ pc = "rearm"
  /\ \/ heap = {} /\ UNCHANGED armed
     \/ \E e \in heap : IsTop(e) /\ ~Stale(e) /\ armed' = RearmTime(e)
  /\ RunOnceReturns
  /\ UNCHANGED <<now, next_id, heap, active, drain_now, current, running, looping, stops, cancelled>>

TimePasses ==
  /\ now < MaxTime
  /\ now' = now + 1
  /\ UNCHANGED <<timerVars, pc, drain_now, current, running, looping, stops, cancelled>>

LoopStep ==
  \/ RunStart \/ LoopTest \/ WaitTimeout \/ WaitReady \/ DrainBegin
  \/ \E e \in heap : DropStale(e)
  \/ \E a \in active : FireBegin(a)
  \/ FireEnd \/ DrainEnd \/ Rearm

Next ==
  \/ \E d \in Delays : schedule(d) \/ schedule_periodic(d)
  \/ \E id \in 1..MaxTimers : cancel(id)
  \/ run \/ run_once \/ stop \/ LoopStep \/ TimePasses

Spec == Init /\ [][Next]_vars

(* The loop's thread runs, callbacks return, and the clock advances; the   *)
(* application calls run() (or polls) again after it has returned.         *)
FairSpec == Spec /\ WF_vars(LoopStep) /\ WF_vars(TimePasses) /\ WF_vars(run \/ run_once)

-----------------------------------------------------------------------------
Timer == [id : 1..MaxTimers, expiry : Nat, interval : Nat]

TypeOK ==
  /\ now \in 0..MaxTime /\ drain_now \in 0..now
  /\ next_id \in 1..(MaxTimers + 1)
  /\ active \subseteq Timer
  /\ heap \subseteq [id : 1..MaxTimers, expiry : Nat]
  /\ armed \in Nat \cup {Off}
  /\ pc \in {"out", "enter", "loop", "wait", "drain", "top", "callback", "rearm"}
  /\ current \in Timer \cup {NoTimer}
  /\ running \in BOOLEAN /\ looping \in BOOLEAN /\ stops \in 0..MaxStops
  /\ cancelled \subseteq 1..MaxTimers

(* Every live timer is in the heap, and whenever the loop may sleep the    *)
(* timerfd wakes it no later than the earliest live deadline, although     *)
(* schedule() compares with a heap top that may be stale (epoll_timer.cpp  *)
(* :141, :117-127).                                                        *)
WakesInTime ==
  /\ \A a \in active : Key(a) \in heap
  /\ pc \in {"out", "enter", "loop", "wait"} => \A a \in active : armed # Off /\ armed <= a.expiry

(* Every variable has its type, the clock of a drain is never ahead, and   *)
(* the loop is always woken up in time.                                    *)
Inv == TypeOK /\ WakesInTime

(* No callback runs before its time, nor after cancel() returned true,     *)
(* also when the timer was cancelled between wake-up and drain.            *)
FiresWhenDue ==
  pc = "callback" => current.expiry <= now /\ current.id \notin cancelled

(* A periodic timer that missed intervals is put back for the first time   *)
(* of its cadence that is still to come: there is no burst of callbacks    *)
(* and no drift (DESIGN.md, Periodic timer catch-up).                      *)
NoBurst ==
  [][\A a \in active' :
       a.id = current.id =>
         /\ a.expiry > drain_now /\ a.expiry - a.interval <= drain_now
         /\ (a.expiry - current.expiry) % a.interval = 0]_vars

(* A one-shot timer due before the clock's bound fires or is cancelled:    *)
(* no timer is left behind with the timerfd off or armed too late          *)
(* (epoll_timer.cpp:117-127).                                              *)
EveryTimerServed ==
  \A id \in 1..MaxTimers :
    (\E a \in active : a.id = id /\ a.interval = 0 /\ a.expiry <= MaxTime)
      ~> (\A a \in active : a.id # id)

(* stop() ends a run() that is in its loop: the loop tests the flag again  *)
(* after at most one wait and drain, whatever timers fire (epoll_timer.cpp *)
(* :196).                                                                  *)
StopEndsRun == (looping /\ pc # "enter" /\ ~running) ~> (pc = "out")
=============================================================================
