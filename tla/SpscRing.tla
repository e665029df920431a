------------------------------ MODULE SpscRing ------------------------------
(***************************************************************************)
(* The single-producer single-consumer ring of spsc_bus.hpp: classes       *)
(* Producer and Consumer over one initialised ControlBlock.  Every access  *)
(* to shared memory is a step of its own, so the two processes interleave  *)
(* as they do on two cores, and either process may die between any two of  *)
(* its steps and attach again by running its constructor.                  *)
(*                                                                         *)
(* An acquire load may return an older value than the current one, but     *)
(* never one older than the process has already seen: the loads of the     *)
(* remote position take any value in cached..current.                      *)
(*                                                                         *)
(* Positions are uint64_t in the code and never wrap in practice (2^64     *)
(* messages); here they are naturals.  The slot of a position is           *)
(* uint32_t(pos) & (capacity - 1), which for a power of two is             *)
(* pos % Capacity.                                                         *)
(***************************************************************************)
EXTENDS Integers, Sequences

CONSTANTS
  Capacity,    (* slots in the ring                                        *)
  MaxMsgSize,  (* max_msg_size, the payload bytes a slot can hold          *)
  Sizes,       (* the sizes the application passes to push                 *)
  Bodies,      (* the non-empty payloads it passes                         *)
  NoBody,      (* the empty payload                                        *)
  BufSize,     (* buf_size, the consumer's buffer                          *)
  CheckEvery,  (* check_every, failed attempts between liveness checks     *)
  MaxPushes,   (* bound: messages accepted in a behaviour                  *)
  MaxCrashes   (* bound: process deaths in a behaviour                     *)

ASSUME RingAssumption ==
  /\ Capacity \in Nat \ {0}
  /\ MaxMsgSize \in Nat \ {0}
  /\ Sizes \subseteq Nat
  /\ NoBody \notin Bodies
  /\ BufSize \in Nat
  /\ CheckEvery \in Nat \ {0}
  /\ MaxPushes \in Nat
  /\ MaxCrashes \in Nat

VARIABLES
  write_pos, read_pos,         (* ControlBlock: the two shared positions   *)
  slots,                       (* the ring: SlotHeader.size and payload    *)
  producer_pid, consumer_pid,  (* ControlBlock: 0 until the side registers *)
  ppc, p_op, p_msg, p_spins,   (* Producer: control point, call, argument  *)
  p_write_pos, read_cache,     (* Producer::write_pos_ and read_cache_     *)
  cpc, c_op, c_spins,          (* Consumer: control point and call         *)
  c_read_pos, write_cache,     (* Consumer::read_pos_ and write_cache_     *)
  c_size, c_copied, c_buf,     (* msg_sz, copy_sz and out_buf              *)
  popped,                      (* the message the last try_pop handed over *)
  crashes                      (* process deaths so far                    *)

ctrlVars == <<write_pos, read_pos, producer_pid, consumer_pid>>
callVars == <<p_op, p_msg, p_spins>>
prodVars == <<ppc, callVars, p_write_pos, read_cache>>
copyVars == <<c_size, c_copied, c_buf>>
consVars == <<cpc, c_op, c_spins, c_read_pos, write_cache, copyVars>>
vars == <<ctrlVars, slots, prodVars, consVars, popped, crashes>>

(* A message is its size and its payload, the first `size' bytes.          *)
NoMessage == [size |-> 0, body |-> NoBody]
SlotContent == [size : Nat, body : Bodies \cup {NoBody}]
Message ==
  {m \in [size : Sizes, body : Bodies \cup {NoBody}] : m.size = 0 <=> m.body = NoBody}

PushOps == {"try_push", "push", "push_checked"}
PopOps == {"try_pop", "pop", "pop_checked"}

(* Control points between the full (empty) check and the release store:    *)
(* the process owns the slot of its position.                              *)
Filling == {"size", "body", "publish"}
Draining == {"size", "copy", "release"}
Pushing == {"check", "reload", "status"} \cup Filling

SlotIndex(pos) == pos % Capacity

(* create(): the region is zeroed and nobody has attached yet.             *)
Init ==
  /\ write_pos = 0 /\ read_pos = 0
  /\ slots = [i \in 0..(Capacity - 1) |-> NoMessage]
  /\ producer_pid = 0 /\ consumer_pid = 0
  /\ ppc = "down" /\ p_op = "none" /\ p_msg = NoMessage /\ p_spins = 0
  /\ p_write_pos = 0 /\ read_cache = 0
  /\ cpc = "down" /\ c_op = "none" /\ c_spins = 0
  /\ c_read_pos = 0 /\ write_cache = 0
  /\ c_size = 0 /\ c_copied = 0 /\ c_buf = NoBody
  /\ popped = NoMessage
  /\ crashes = 0

(***************************************************************************)
(* Peer liveness: kill(pid, 0) on the registered pid.  A process that is   *)
(* still in its constructor has not registered: the pid on record is its   *)
(* predecessor's.  A registered pid is not reused by another process.      *)
(***************************************************************************)
Status(pid, pc) ==
  IF pid = 0 THEN "Unknown" ELSE IF pc \in {"down", "attach"} THEN "Dead" ELSE "Alive"

consumer_status == Status(consumer_pid, cpc)
producer_status == Status(producer_pid, ppc)

-----------------------------------------------------------------------------
(***************************************************************************)
(* Producer.                                                               *)
(***************************************************************************)

(* The call is over: its arguments and counters are gone.                  *)
PReturn(pc) == ppc' = pc /\ p_op' = "none" /\ p_msg' = NoMessage /\ p_spins' = 0

(* Mutant: a restarted producer starts from position 0.                    *)
PLoadFromScratch ==
  /\ ppc = "down"
  /\ ppc' = "attach"
  /\ p_write_pos' = 0
  /\ read_cache' = read_pos
  /\ UNCHANGED <<ctrlVars, slots, callVars, consVars, popped, crashes>>

(* Constructor: both positions are taken from the control block ...        *)
PLoad ==
  /\ ppc = "down"
  /\ ppc' = "attach"
  /\ p_write_pos' = write_pos
  /\ read_cache' = read_pos
  /\ UNCHANGED <<ctrlVars, slots, callVars, consVars, popped, crashes>>

(* ... and then the process registers for the peer's liveness check.       *)
PRegister ==
  /\ ppc = "attach"
  /\ ppc' = "idle"
  /\ producer_pid' = 1
  /\ UNCHANGED <<write_pos, read_pos, consumer_pid, slots, callVars, p_write_pos,
                 read_cache, consVars, popped, crashes>>

PushCall(op, m) ==
  /\ ppc = "idle"
  /\ write_pos < MaxPushes
  /\ ppc' = "check"
  /\ p_op' = op
  /\ p_msg' = m
  /\ UNCHANGED <<ctrlVars, slots, p_spins, p_write_pos, read_cache, consVars, popped, crashes>>

(* try_push returned false.  push() tries again at once; push_checked()    *)
(* looks at the consumer after every check_every failed attempts.          *)
PushRejected ==
  \/ p_op = "try_push" /\ PReturn("idle")
  \/ p_op = "push" /\ ppc' = "check" /\ UNCHANGED callVars
  \/ /\ p_op = "push_checked"
     /\ p_spins' = (p_spins + 1) % CheckEvery
     /\ ppc' = IF p_spins' = 0 THEN "status" ELSE "check"
     /\ UNCHANGED <<p_op, p_msg>>

(* Mutant: one message too many.                                           *)
FullOffByOne(cache) == p_write_pos - cache > Capacity

Full(cache) == p_write_pos - cache >= Capacity

(* try_push up to the cached full check.                                   *)
PushCheck ==
  /\ ppc = "check"
  /\ \/ p_msg.size > MaxMsgSize /\ PushRejected
     \/ /\ p_msg.size <= MaxMsgSize
        /\ ppc' = IF Full(read_cache) THEN "reload" ELSE "size"
        /\ UNCHANGED callVars
  /\ UNCHANGED <<ctrlVars, slots, p_write_pos, read_cache, consVars, popped, crashes>>

(* Mutant: the reloaded position is compared but not kept.                 *)
PushReloadForgets(seen) ==
  /\ ppc = "reload"
  /\ Full(read_cache) /\ PushRejected
  /\ UNCHANGED <<ctrlVars, slots, p_write_pos, read_cache, consVars, popped, crashes>>

PushReload(seen) ==
  /\ ppc = "reload"
  /\ read_cache' = seen
  /\ \/ Full(seen) /\ PushRejected
     \/ ~Full(seen) /\ ppc' = "size" /\ UNCHANGED callVars
  /\ UNCHANGED <<ctrlVars, slots, p_write_pos, consVars, popped, crashes>>

PushSize ==
  /\ ppc = "size"
  /\ ppc' = "body"
  /\ slots' = [slots EXCEPT ![SlotIndex(p_write_pos)].size = p_msg.size]
  /\ UNCHANGED <<ctrlVars, callVars, p_write_pos, read_cache, consVars, popped, crashes>>

PushBody ==
  /\ ppc = "body"
  /\ ppc' = "publish"
  /\ slots' = [slots EXCEPT ![SlotIndex(p_write_pos)].body = p_msg.body]
  /\ UNCHANGED <<ctrlVars, callVars, p_write_pos, read_cache, consVars, popped, crashes>>

(* Mutant: the position is published before the payload is copied.         *)
PushPublishFirst ==
  /\ ppc = "body"
  /\ write_pos' = p_write_pos + 1
  /\ p_write_pos' = p_write_pos + 1
  /\ slots' = [slots EXCEPT ![SlotIndex(p_write_pos)].size = p_msg.size]
  /\ PReturn("idle")
  /\ UNCHANGED <<read_pos, producer_pid, consumer_pid, read_cache, consVars, popped, crashes>>

(* The release store of write_pos makes the message visible.               *)
PushPublish ==
  /\ ppc = "publish"
  /\ write_pos' = p_write_pos + 1
  /\ p_write_pos' = p_write_pos + 1
  /\ PReturn("idle")
  /\ UNCHANGED <<read_pos, producer_pid, consumer_pid, slots, read_cache, consVars, popped, crashes>>

PushStatus ==
  /\ ppc = "status"
  /\ \/ consumer_status = "Dead" /\ PReturn("idle")
     \/ consumer_status # "Dead" /\ ppc' = "check" /\ UNCHANGED callVars
  /\ UNCHANGED <<ctrlVars, slots, p_write_pos, read_cache, consVars, popped, crashes>>

PCrash ==
  /\ ppc # "down"
  /\ crashes < MaxCrashes
  /\ crashes' = crashes + 1
  /\ PReturn("down")
  /\ UNCHANGED <<ctrlVars, slots, p_write_pos, read_cache, consVars, popped>>

-----------------------------------------------------------------------------
(***************************************************************************)
(* Consumer.                                                               *)
(***************************************************************************)

CReturn(pc) == cpc' = pc /\ c_op' = "none" /\ c_spins' = 0

ForgetCopy == c_size' = 0 /\ c_copied' = 0 /\ c_buf' = NoBody

CLoad ==
  /\ cpc = "down"
  /\ cpc' = "attach"
  /\ c_read_pos' = read_pos
  /\ write_cache' = write_pos
  /\ UNCHANGED <<ctrlVars, slots, prodVars, c_op, c_spins, copyVars, popped, crashes>>

CRegister ==
  /\ cpc = "attach"
  /\ cpc' = "idle"
  /\ consumer_pid' = 1
  /\ UNCHANGED <<write_pos, read_pos, producer_pid, slots, prodVars, c_op, c_spins,
                 c_read_pos, write_cache, copyVars, popped, crashes>>

PopCall(op) ==
  /\ cpc = "idle"
  /\ cpc' = "check"
  /\ c_op' = op
  /\ UNCHANGED <<ctrlVars, slots, prodVars, c_spins, c_read_pos, write_cache, copyVars,
                 popped, crashes>>

(* Mutant: pop_checked never looks at its peer.                            *)
PopReturnedZeroUnchecked ==
  \/ c_op = "try_pop" /\ CReturn("idle")
  \/ c_op # "try_pop" /\ cpc' = "check" /\ UNCHANGED <<c_op, c_spins>>

(* try_pop returned 0: pop() tries again, pop_checked() counts attempts.   *)
PopReturnedZero ==
  \/ c_op = "try_pop" /\ CReturn("idle")
  \/ c_op = "pop" /\ cpc' = "check" /\ UNCHANGED <<c_op, c_spins>>
  \/ /\ c_op = "pop_checked"
     /\ c_spins' = (c_spins + 1) % CheckEvery
     /\ cpc' = IF c_spins' = 0 THEN "status" ELSE "check"
     /\ UNCHANGED c_op

(* Mutant: the cached position is trusted, write_pos is never reloaded.    *)
PopCheckNoReload ==
  /\ cpc = "check"
  /\ \/ c_read_pos = write_cache /\ PopReturnedZero
     \/ c_read_pos # write_cache /\ cpc' = "size" /\ UNCHANGED <<c_op, c_spins>>
  /\ UNCHANGED <<ctrlVars, slots, prodVars, c_read_pos, write_cache, copyVars, popped, crashes>>

PopCheck ==
  /\ cpc = "check"
  /\ cpc' = IF c_read_pos = write_cache THEN "reload" ELSE "size"
  /\ UNCHANGED <<ctrlVars, slots, prodVars, c_op, c_spins, c_read_pos, write_cache, copyVars,
                 popped, crashes>>

PopReload(seen) ==
  /\ cpc = "reload"
  /\ write_cache' = seen
  /\ \/ c_read_pos = seen /\ PopReturnedZero
     \/ c_read_pos # seen /\ cpc' = "size" /\ UNCHANGED <<c_op, c_spins>>
  /\ UNCHANGED <<ctrlVars, slots, prodVars, c_read_pos, copyVars, popped, crashes>>

PopSize ==
  /\ cpc = "size"
  /\ cpc' = "copy"
  /\ c_size' = slots[SlotIndex(c_read_pos)].size
  /\ UNCHANGED <<ctrlVars, slots, prodVars, c_op, c_spins, c_read_pos, write_cache, c_copied,
                 c_buf, popped, crashes>>

(* Mutant: the whole message is copied, whatever the size of the buffer.   *)
PopCopyUnclamped ==
  /\ cpc = "copy"
  /\ cpc' = "release"
  /\ c_copied' = c_size
  /\ c_buf' = slots[SlotIndex(c_read_pos)].body
  /\ UNCHANGED <<ctrlVars, slots, prodVars, c_op, c_spins, c_read_pos, write_cache, c_size,
                 popped, crashes>>

PopCopy ==
  /\ cpc = "copy"
  /\ cpc' = "release"
  /\ c_copied' = IF c_size < BufSize THEN c_size ELSE BufSize
  /\ c_buf' = slots[SlotIndex(c_read_pos)].body
  /\ UNCHANGED <<ctrlVars, slots, prodVars, c_op, c_spins, c_read_pos, write_cache, c_size,
                 popped, crashes>>

(* The release store of read_pos gives the slot back.  try_pop returns     *)
(* msg_sz, so the callers take an empty message for an empty ring.         *)
PopRelease ==
  /\ cpc = "release"
  /\ read_pos' = c_read_pos + 1
  /\ c_read_pos' = c_read_pos + 1
  /\ popped' = [size |-> c_size, body |-> c_buf]
  /\ \/ c_size = 0 /\ PopReturnedZero
     \/ c_size # 0 /\ CReturn("idle")
  /\ ForgetCopy
  /\ UNCHANGED <<write_pos, producer_pid, consumer_pid, slots, prodVars, write_cache, crashes>>

PopStatus ==
  /\ cpc = "status"
  /\ \/ producer_status = "Dead" /\ CReturn("idle")
     \/ producer_status # "Dead" /\ cpc' = "check" /\ UNCHANGED <<c_op, c_spins>>
  /\ UNCHANGED <<ctrlVars, slots, prodVars, c_read_pos, write_cache, copyVars, popped, crashes>>

CCrash ==
  /\ cpc # "down"
  /\ crashes < MaxCrashes
  /\ crashes' = crashes + 1
  /\ CReturn("down")
  /\ ForgetCopy
  /\ UNCHANGED <<ctrlVars, slots, prodVars, c_read_pos, write_cache, popped>>

-----------------------------------------------------------------------------
(* The steps a process takes once it is inside a call or its constructor.  *)
ProducerStep ==
  \/ PRegister
  \/ PushCheck
  \/ \E seen \in read_cache..read_pos : PushReload(seen)
  \/ PushSize
  \/ PushBody
  \/ PushPublish
  \/ PushStatus

ConsumerStep ==
  \/ CRegister
  \/ PopCheck
  \/ \E seen \in write_cache..write_pos : PopReload(seen)
  \/ PopSize
  \/ PopCopy
  \/ PopRelease
  \/ PopStatus

Next ==
  \/ PLoad
  \/ \E op \in PushOps, m \in Message : PushCall(op, m)
  \/ ProducerStep
  \/ PCrash
  \/ CLoad
  \/ \E op \in PopOps : PopCall(op)
  \/ ConsumerStep
  \/ CCrash

Spec == Init /\ [][Next]_vars

(***************************************************************************)
(* Fairness.  A running process keeps executing its call (both sides are   *)
(* pinned, spinning threads), and a store becomes visible to the other     *)
(* core in finite time, so a load that is repeated for ever is not stale   *)
(* for ever.                                                               *)
(***************************************************************************)
CallsProgress ==
  /\ WF_vars(ProducerStep) /\ SF_vars(PushReload(read_pos))
  /\ WF_vars(ConsumerStep) /\ SF_vars(PopReload(write_pos))

FairSpec == Spec /\ CallsProgress

(* A consumer that is restarted when it dies and pops for ever: a premise  *)
(* of the properties that need one, not of the specification.              *)
ConsumerKeepsPopping == WF_vars(CLoad) /\ WF_vars(\E op \in PopOps : PopCall(op))

-----------------------------------------------------------------------------
(***************************************************************************)
(* Properties.                                                             *)
(***************************************************************************)

TypeOK ==
  /\ write_pos \in Nat /\ read_pos \in Nat
  /\ slots \in [0..(Capacity - 1) -> SlotContent]
  /\ producer_pid \in {0, 1} /\ consumer_pid \in {0, 1}
  /\ ppc \in {"down", "attach", "idle"} \cup Pushing
  /\ p_op \in PushOps \cup {"none"}
  /\ p_msg \in Message \cup {NoMessage}
  /\ p_spins \in 0..(CheckEvery - 1)
  /\ p_write_pos \in Nat /\ read_cache \in Nat
  /\ cpc \in {"down", "attach", "idle", "check", "reload", "status"} \cup Draining
  /\ c_op \in PopOps \cup {"none"}
  /\ c_spins \in 0..(CheckEvery - 1)
  /\ c_read_pos \in Nat /\ write_cache \in Nat
  /\ c_size \in Nat /\ c_copied \in 0..BufSize /\ c_buf \in Bodies \cup {NoBody}
  /\ popped \in SlotContent
  /\ crashes \in 0..MaxCrashes

(* The producer never writes the slot the consumer is reading: the two     *)
(* memcpy calls (spsc_bus.hpp:386-387 and :466-468) are free of data races *)
(* although each side decides on a cached copy of the other's position.    *)
NoSlotRace ==
  ppc \in Filling /\ cpc \in Draining => SlotIndex(p_write_pos) # SlotIndex(c_read_pos)

(* What makes the ring work: each side is the only writer of its position, *)
(* its private copy of that position is exact, its copy of the other one   *)
(* lags and never leads, and a side inside its critical region has seen    *)
(* with that lagging copy that its slot is free (or filled).               *)
ProducerInv ==
  ppc # "down" =>
    /\ p_write_pos = write_pos
    /\ read_cache <= read_pos
    /\ ppc \in Pushing => p_msg \in Message
    /\ ppc \in Filling \cup {"reload"} => p_msg.size <= MaxMsgSize
    /\ ppc \in Filling => ~Full(read_cache)
    /\ ppc \in {"body", "publish"} => slots[SlotIndex(write_pos)].size = p_msg.size
    /\ ppc = "publish" => slots[SlotIndex(write_pos)].body = p_msg.body

ConsumerInv ==
  cpc # "down" =>
    /\ c_read_pos = read_pos
    /\ read_pos <= write_cache /\ write_cache <= write_pos
    /\ cpc \in Draining => read_pos < write_cache
    /\ cpc \in {"copy", "release"} => c_size = slots[SlotIndex(read_pos)].size
    /\ cpc = "release" => c_buf = slots[SlotIndex(read_pos)].body

(* The ring holds between 0 and Capacity messages, and every one of them   *)
(* is a message some push was given: no half-written slot is ever visible. *)
RingInv ==
  /\ read_pos <= write_pos
  /\ write_pos <= read_pos + Capacity
  /\ \A pos \in read_pos..(write_pos - 1) :
        slots[SlotIndex(pos)] \in Message /\ slots[SlotIndex(pos)].size <= MaxMsgSize

Inv == TypeOK /\ ProducerInv /\ ConsumerInv /\ RingInv

(* The ring implements the bounded queue: push appends at the release of   *)
(* write_pos, pop takes at the release of read_pos, and no other step,     *)
(* crashes between a copy and its release included, changes the queue.     *)
Contents(ring, from, to) == [i \in 1..(to - from) |-> ring[SlotIndex(from + i - 1)]]
Queue == Contents(slots, read_pos, write_pos)
Fifo == INSTANCE BoundedFifo WITH queue <- Queue
ImplementsFifo == Fifo!FifoSpec

(* Every message that was published is consumed, whatever crashes happened *)
(* in between, as long as a consumer keeps calling pop.                    *)
EveryMessageConsumed == ConsumerKeepsPopping =>
  \A pos \in 1..MaxPushes : (write_pos >= pos) ~> (read_pos >= pos)

(* A blocking push of a message that fits returns if a consumer keeps      *)
(* popping.  (One that does not fit is tried again for ever.)              *)
PushReturns == ConsumerKeepsPopping =>
  (ppc = "check" /\ p_msg.size <= MaxMsgSize) ~> (ppc \in {"idle", "down"})

(* A checked call does not outlive its peer: once the registered peer is   *)
(* dead, push_checked (pop_checked) returns unless a new peer registers.   *)
CheckedCallsNoticeDeath ==
  /\ (p_op = "push_checked" /\ consumer_status = "Dead")
       ~> (p_op # "push_checked" \/ consumer_status = "Alive")
  /\ (c_op = "pop_checked" /\ producer_status = "Dead")
       ~> (c_op # "pop_checked" \/ producer_status = "Alive")
=============================================================================
