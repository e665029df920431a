------------------------------ MODULE Notifier ------------------------------
(***************************************************************************)
(* Notifier of spsc_bus.hpp, an eventfd beside the ring: the producer      *)
(* pushes and then notifies, the consumer waits and then pops.  The ring   *)
(* is the bounded queue it implements (BoundedFifo); notify() and wait()   *)
(* are the system calls on the eventfd's counter: write adds one, read     *)
(* blocks while it is zero and resets it.                                  *)
(*                                                                         *)
(* The producer and the consumer are the application's.  The consumer      *)
(* either drains the ring after every wake-up ("drain", what the comment   *)
(* on wait() asks for: try_pop until it returns 0) or calls pop() once per *)
(* wake-up ("one", what the usage example shows).  try_pop returns the     *)
(* size of the message, so a message of size 0 ends a drain as an empty    *)
(* ring does, and pop() takes it and spins on.  wait_for_ms that times out *)
(* changes nothing, and its caller waits again.                            *)
(***************************************************************************)
EXTENDS BoundedFifo

CONSTANTS
  ZeroSized,  (* the messages of size 0                                    *)
  Pattern,    (* "drain" or "one"                                          *)
  MaxPushes   (* bound: messages pushed in a behaviour                     *)

ASSUME NotifierAssumption ==
  /\ Capacity \in Nat
  /\ ZeroSized \subseteq Message
  /\ Pattern \in {"drain", "one"}
  /\ MaxPushes \in Nat

VARIABLES
  counter,    (* the eventfd                                               *)
  ppc,        (* producer: idle, or between push and notify                *)
  cpc,        (* consumer: wait, read (after poll), awake                  *)
  cut,        (* did a message of size 0 end the last drain?               *)
  pushed      (* messages pushed so far                                    *)

notifierVars == <<fifoVars, counter, ppc, cpc, cut, pushed>>

NotifierInit ==
  /\ FifoInit
  /\ counter = 0
  /\ ppc = "idle" /\ cpc = "wait"
  /\ cut = FALSE /\ pushed = 0

(* prod.push(): waits while the ring is full.                              *)
PushMessage ==
  /\ ppc = "idle"
  /\ pushed < MaxPushes
  /\ \E m \in Message : Push(m)
  /\ pushed' = pushed + 1
  /\ ppc' = "notify"
  /\ UNCHANGED <<counter, cpc, cut>>

(* Mutant: the write fails (a count other than 8 bytes) and is ignored.    *)
notifyIgnored ==
  /\ ppc = "notify"
  /\ ppc' = "idle"
  /\ UNCHANGED <<fifoVars, counter, cpc, cut, pushed>>

(* Mutant: the write is repeated although it has succeeded.                *)
notifyAgain ==
  /\ ppc = "notify"
  /\ counter' = counter + 1
  /\ UNCHANGED <<fifoVars, ppc, cpc, cut, pushed>>

notify ==
  /\ ppc = "notify"
  /\ counter' = counter + 1
  /\ ppc' = "idle"
  /\ UNCHANGED <<fifoVars, cpc, cut, pushed>>

wait ==
  /\ cpc = "wait"
  /\ counter > 0
  /\ counter' = 0
  /\ cpc' = "awake"
  /\ UNCHANGED <<fifoVars, ppc, cut, pushed>>

(* wait_for_ms: poll reports the counter, a read of its own resets it.     *)
PollReady ==
  /\ cpc = "wait"
  /\ counter > 0
  /\ cpc' = "read"
  /\ UNCHANGED <<fifoVars, counter, ppc, cut, pushed>>

(* Mutant: the call reports a timeout although it has reset the counter.   *)
PollReadForgets ==
  /\ cpc = "read"
  /\ counter' = 0
  /\ cpc' = "wait"
  /\ UNCHANGED <<fifoVars, ppc, cut, pushed>>

PollRead ==
  /\ cpc = "read"
  /\ counter' = 0
  /\ cpc' = "awake"
  /\ UNCHANGED <<fifoVars, ppc, cut, pushed>>

(* A pop after the wake-up: try_pop returns the size of what it took, ...  *)
Take ==
  /\ cpc = "awake"
  /\ Pop
  /\ cpc' = IF (Pattern = "drain") = (popped' \in ZeroSized) THEN "wait" ELSE "awake"
  /\ cut' = (Pattern = "drain" /\ popped' \in ZeroSized)
  /\ UNCHANGED <<counter, ppc, pushed>>

(* The messages the consumer's load of write_pos may still miss: those     *)
(* pushed or announced since its last read of the eventfd.                 *)
Unseen == counter + (IF ppc = "notify" THEN 1 ELSE 0)

(* ... and 0 when it finds the ring empty (pop() spins on).                *)
FoundEmpty ==
  /\ cpc = "awake"
  /\ Pattern = "drain"
  /\ Len(queue) <= Unseen
  /\ cpc' = "wait"
  /\ cut' = FALSE
  /\ UNCHANGED <<fifoVars, counter, ppc, pushed>>

ConsumerStep == wait \/ PollReady \/ PollRead \/ Take \/ FoundEmpty

NotifierNext == PushMessage \/ notify \/ ConsumerStep

NotifierSpec == NotifierInit /\ [][NotifierNext]_notifierVars

(* Both threads run; the producer may stop pushing, but not between push   *)
(* and notify.                                                             *)
NotifierFairSpec == NotifierSpec /\ WF_notifierVars(notify) /\ WF_notifierVars(ConsumerStep)

-----------------------------------------------------------------------------
NotifierTypeOK ==
  /\ queue \in Seq(Message) /\ Len(queue) <= Capacity
  /\ popped \in Message \cup {NoMessage}
  /\ counter \in 0..MaxPushes
  /\ ppc \in {"idle", "notify"}
  /\ cpc \in {"wait", "read", "awake"} /\ cut \in BOOLEAN
  /\ pushed \in 0..MaxPushes

(* No lost wake-up: the consumer never blocks on the eventfd over a ring   *)
(* that holds messages, unless the notification is on its way, however     *)
(* many notifications collapse into one wake-up (spsc_bus.hpp:681-695).    *)
(* This holds of drains that end at the empty ring; one that is cut short  *)
(* by a message of size 0 leaves what is behind it (spsc_bus.hpp:472).     *)
NoLostWakeup ==
  cpc \in {"wait", "read"} /\ ~cut /\ queue # <<>> => counter > 0 \/ ppc = "notify"

(* Asleep after a drain that was cut short, with no notification left.     *)
Overslept == cpc = "wait" /\ cut /\ counter = 0

(* Every message that was pushed is popped, also if no other follows,      *)
(* although notifications collapse (the comment on wait(), :688): the one  *)
(* way for it to stay behind is a drain cut short by a message of size 0   *)
(* and no notification ever after.                                         *)
EveryMessageTaken ==
  \A k \in 1..MaxPushes : (pushed >= k) ~> (pushed - Len(queue) >= k \/ []Overslept)
=============================================================================
