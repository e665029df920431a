----------------------------- MODULE TimerWheel -----------------------------
(***************************************************************************)
(* The hierarchical timer wheel of timer/include/timer_wheel.hpp: four     *)
(* levels of slots, cascading on level boundaries, and callbacks that may  *)
(* schedule and cancel timers while a slot is being fired.                 *)
(*                                                                         *)
(* The numbers of slots are parameters (256, 64, 64, 64 in the code, where *)
(* the shifts 8, 14 and 20 are their binary logarithms), so that TLC can   *)
(* cross every level boundary in a few ticks.  tick() is one step for each *)
(* list that is swapped out and for each iteration of its loops; nothing   *)
(* else runs in between but what a callback calls.  Left out: the counters *)
(* of Stats, which are only reported, and the callback objects.            *)
(***************************************************************************)
EXTENDS Integers, Sequences

CONSTANTS
  kL0Slots, kL1Slots, kL2Slots, kL3Slots,
  Delays,      (* the delays and intervals, in ticks, callers ask for      *)
  MaxTimers,   (* bound: timers created in a behaviour                     *)
  MaxTick      (* bound: value of jiffies_                                 *)

ASSUME WheelAssumption ==
  /\ {kL0Slots, kL1Slots, kL2Slots, kL3Slots} \subseteq Nat \ {0}
  /\ Delays \subseteq Nat
  /\ MaxTimers \in Nat /\ MaxTick \in Nat

VARIABLES
  jiffies,    (* jiffies_                                                  *)
  next_id,    (* next_id_                                                  *)
  timers,     (* id -> Entry: expiry_tick and interval_ticks, while it     *)
              (* lives                                                     *)
  wheel,      (* l0_..l3_: the list of ids at each place <<level, slot>>   *)
  entries,    (* entries_: id -> its place; its domain is what pends       *)
  phase,      (* "idle"; in tick() "cascade" (deciding on a cascade),      *)
              (* "move" (in its loop), "fire" (in the loop of fire_slot)   *)
              (* and "callback"                                            *)
  cascading,  (* the level cascade() is at, 4 after the last one           *)
  local,      (* the list swapped out, without the nodes already visited   *)
  current,    (* the timer whose callback runs, or 0                       *)
  cancelled   (* ids for which cancel() has returned true                  *)

tickVars == <<phase, cascading, local, current>>
vars == <<jiffies, next_id, timers, wheel, entries, tickVars, cancelled>>

TimerId == 1..MaxTimers

Levels == 0..3
Slots(level) ==
  CASE level = 0 -> kL0Slots [] level = 1 -> kL1Slots [] level = 2 -> kL2Slots [] level = 3 -> kL3Slots
Place == UNION {{level} \X (0..(Slots(level) - 1)) : level \in Levels}

(* Ticks one slot of a level stands for.                                   *)
Span(level) ==
  CASE level = 0 -> 1
    [] level = 1 -> kL0Slots
    [] level = 2 -> kL0Slots * kL1Slots
    [] level = 3 -> kL0Slots * kL1Slots * kL2Slots

(* A function without (with) a key, for the maps keyed by timer id.        *)
Without(f, id) == [i \in DOMAIN f \ {id} |-> f[i]]
With(f, id, value) == [i \in DOMAIN f \cup {id} |-> IF i = id THEN value ELSE f[i]]

(* Is the timer in a list, and the list without its node.                  *)
In(id, list) == \E i \in DOMAIN list : list[i] = id
Erase(list, id) ==
  LET at == CHOOSE i \in DOMAIN list : list[i] = id
  IN IF In(id, list) THEN [i \in 1..(Len(list) - 1) |-> IF i < at THEN list[i] ELSE list[i + 1]] ELSE list

SlotOf(level, at) == (at \div Span(level)) % Slots(level)

(* Mutant: the last tick of a level's range is given to the level.         *)
LevelForInclusive(remaining) ==
  IF remaining <= Span(1) THEN 0
  ELSE IF remaining <= Span(2) THEN 1
  ELSE IF remaining <= Span(3) THEN 2 ELSE 3

(* The lowest level whose range holds the remaining ticks.                 *)
LevelFor(remaining) ==
  IF remaining < Span(1) THEN 0
  ELSE IF remaining < Span(2) THEN 1
  ELSE IF remaining < Span(3) THEN 2 ELSE 3

PlaceFor(expiry) ==
  LET level == LevelFor(expiry - jiffies) IN <<level, SlotOf(level, expiry)>>

(* insert(): at the end of a slot's list, and into the location map, of    *)
(* which `map' is what the caller has left.                                *)
insert(map, id, expiry) ==
  /\ wheel' = [wheel EXCEPT ![PlaceFor(expiry)] = Append(@, id)]
  /\ entries' = With(map, id, PlaceFor(expiry))

Init ==
  /\ jiffies = 0
  /\ next_id = 1
  /\ timers = [id \in {} |-> [expiry |-> 0, interval |-> 0]]
  /\ wheel = [p \in Place |-> <<>>]
  /\ entries = [id \in {} |-> <<0, 0>>]
  /\ phase = "idle" /\ cascading = 0 /\ local = <<>> /\ current = 0
  /\ cancelled = {}

-----------------------------------------------------------------------------
(* Calls come from outside or from a callback.                             *)
Callable == phase \in {"idle", "callback"}

(* The earliest possible tick is the next one.                             *)
Clamp(delay) == IF delay = 0 THEN 1 ELSE delay

(* schedule() and schedule_periodic().                                     *)
Create(delay, periodic) ==
  LET ticks == Clamp(delay)
      expiry == jiffies + ticks
  IN /\ Callable
     /\ next_id <= MaxTimers
     /\ next_id' = next_id + 1
     /\ timers' = With(timers, next_id, [expiry |-> expiry, interval |-> IF periodic THEN ticks ELSE 0])
     /\ insert(entries, next_id, expiry)
     /\ UNCHANGED <<jiffies, tickVars, cancelled>>

schedule(delay) == Create(delay, FALSE)
schedule_periodic(interval) == Create(interval, TRUE)

(* Mutant: the entry leaves the map but stays in its list.                 *)
cancelLazily(id) ==
  /\ Callable
  /\ id \in DOMAIN entries
  /\ entries' = Without(entries, id)
  /\ cancelled' = cancelled \cup {id}
  /\ UNCHANGED <<jiffies, next_id, timers, wheel, tickVars>>

(* cancel() of a pending timer.  Of any other it returns false and changes *)
(* nothing: so it does for the timer whose callback is running, which has  *)
(* left the map, and a periodic one goes on firing.                        *)
(* A timer of the slot being fired is still in the map, but its            *)
(* node is in the swapped-out list: erase() is called on another list than *)
(* the one the iterator points into, which the library leaves undefined;   *)
(* std::list of GCC and Clang unlinks the node all the same.               *)
cancel(id) ==
  /\ Callable
  /\ id \in DOMAIN entries
  /\ wheel' = [wheel EXCEPT ![entries[id]] = Erase(@, id)]
  /\ local' = Erase(local, id)
  /\ entries' = Without(entries, id)
  /\ timers' = Without(timers, id)
  /\ cancelled' = cancelled \cup {id}
  /\ UNCHANGED <<jiffies, next_id, phase, cascading, current>>

-----------------------------------------------------------------------------
(* tick(); advance(n) is n ticks.                                          *)
tick ==
  /\ phase = "idle"
  /\ jiffies < MaxTick
  /\ jiffies' = jiffies + 1
  /\ phase' = "cascade" /\ cascading' = 1
  /\ UNCHANGED <<next_id, timers, wheel, entries, local, current, cancelled>>

(* Has the tick crossed a boundary of the level?                           *)
Boundary(level) == jiffies % Span(level) = 0

(* local.swap(slot): the slot is left empty.                               *)
SwapOut(place) ==
  /\ local' = wheel[place]
  /\ wheel' = [wheel EXCEPT ![place] = <<>>]

(* cascade(level): the level's current slot is taken out ...               *)
Cascade ==
  /\ phase = "cascade" /\ cascading <= 3 /\ Boundary(cascading)
  /\ phase' = "move"
  /\ SwapOut(<<cascading, SlotOf(cascading, jiffies)>>)
  /\ UNCHANGED <<jiffies, next_id, timers, entries, cascading, current, cancelled>>

(* Mutant: only the slot's first timer moves down, the others are dropped. *)
MoveFirst ==
  LET id == Head(local)
  IN /\ phase = "move" /\ local # <<>>
     /\ local' = <<>>
     /\ insert(Without(entries, id), id, timers[id].expiry)
     /\ UNCHANGED <<jiffies, next_id, timers, phase, cascading, current, cancelled>>

(* ... and every timer of it is inserted again, in the order of the list.  *)
Move ==
  LET id == Head(local)
  IN /\ phase = "move" /\ local # <<>>
     /\ local' = Tail(local)
     /\ insert(Without(entries, id), id, timers[id].expiry)
     /\ UNCHANGED <<jiffies, next_id, timers, phase, cascading, current, cancelled>>

(* The next level is looked at only inside the condition of this one.      *)
CascadeEnd ==
  /\ phase = "move" /\ local = <<>>
  /\ phase' = "cascade" /\ cascading' = cascading + 1
  /\ UNCHANGED <<jiffies, next_id, timers, wheel, entries, local, current, cancelled>>

(* fire_slot() up to its loop.                                             *)
FireSlot ==
  /\ phase = "cascade" /\ (cascading <= 3 => ~Boundary(cascading))
  /\ phase' = "fire" /\ cascading' = 0
  /\ SwapOut(<<0, SlotOf(0, jiffies)>>)
  /\ UNCHANGED <<jiffies, next_id, timers, entries, current, cancelled>>

(* The next timer of the slot leaves the map and its callback starts.      *)
FireBegin ==
  /\ phase = "fire" /\ local # <<>>
  /\ phase' = "callback"
  /\ current' = Head(local) /\ local' = Tail(local)
  /\ entries' = Without(entries, Head(local))
  /\ UNCHANGED <<jiffies, next_id, timers, wheel, cascading, cancelled>>

(* The callback has returned; a periodic timer is inserted again.          *)
FireEnd ==
  LET expiry == jiffies + timers[current].interval
  IN /\ phase = "callback"
     /\ phase' = "fire" /\ current' = 0
     /\ IF timers[current].interval # 0
        THEN insert(entries, current, expiry) /\ timers' = [timers EXCEPT ![current].expiry = expiry]
        ELSE timers' = Without(timers, current) /\ UNCHANGED <<wheel, entries>>
     /\ UNCHANGED <<jiffies, next_id, cascading, local, cancelled>>

TickEnd ==
  /\ phase = "fire" /\ local = <<>>
  /\ phase' = "idle"
  /\ UNCHANGED <<jiffies, next_id, timers, wheel, entries, cascading, local, current, cancelled>>

Next ==
  \/ \E d \in Delays : schedule(d) \/ schedule_periodic(d)
  \/ \E id \in TimerId : cancel(id)
  \/ tick \/ Cascade \/ Move \/ CascadeEnd
  \/ FireSlot \/ FireBegin \/ FireEnd \/ TickEnd

Spec == Init /\ [][Next]_vars

-----------------------------------------------------------------------------
TypeOK ==
  /\ jiffies \in 0..MaxTick
  /\ next_id \in 1..(MaxTimers + 1)
  /\ DOMAIN timers \subseteq 1..(next_id - 1)
  /\ timers \in [DOMAIN timers -> [expiry : Nat, interval : Nat]]
  /\ wheel \in [Place -> Seq(TimerId)]
  /\ entries \in [DOMAIN entries -> Place]
  /\ DOMAIN entries \subseteq DOMAIN timers
  /\ phase \in {"idle", "cascade", "move", "fire", "callback"}
  /\ cascading \in 0..4
  /\ local \in Seq(TimerId)
  /\ current \in 0..MaxTimers
  /\ cancelled \subseteq 1..(next_id - 1)

(* A callback runs at exactly the tick its timer was set for, however many *)
(* levels the timer has cascaded through and also when it lies beyond the  *)
(* range of the top level; a periodic one at every multiple.  Between      *)
(* ticks none is overdue: none was lost in a slot that will only be        *)
(* visited after a turn of the wheel (insert, cascade, fire_slot).         *)
FiresOnTime ==
  /\ phase = "callback" => timers[current].expiry = jiffies
  /\ phase = "idle" => \A id \in DOMAIN entries : timers[id].expiry > jiffies

(* The location map is right: a pending timer is in the list the map names *)
(* (or in the list being visited), once, and in no other, so the iterator  *)
(* cancel() erases is valid (timer_wheel.hpp:92-98, :140-164).             *)
Distinct(list) == \A i, j \in DOMAIN list : list[i] = list[j] => i = j
Exact(lists, map, list) ==
  /\ \A p \in Place : Distinct(lists[p])
  /\ Distinct(list)
  /\ \A id \in TimerId : In(id, list) => id \in DOMAIN map
  /\ \A p \in Place, id \in TimerId :
        In(id, lists[p]) <=> id \in DOMAIN map /\ map[id] = p /\ ~In(id, list)
LocationsExact == Exact(wheel, entries, local)

(* Every variable has its type and the location map is right.              *)
Inv == TypeOK /\ LocationsExact

(* Once cancel() has returned true the callback does not run again, also   *)
(* when the timer is in the slot that is being fired at that moment.       *)
CancelIsFinal == phase = "callback" => current \notin cancelled
=============================================================================
