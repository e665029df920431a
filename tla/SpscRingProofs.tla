--------------------------- MODULE SpscRingProofs ---------------------------
(***************************************************************************)
(* Proofs about the ring for every capacity, message set and bound: the    *)
(* inductive invariant of SpscRing, freedom from slot races, and that the  *)
(* ring implements the bounded queue.                                      *)
(***************************************************************************)
EXTENDS SpscRing, SequenceTheorems, TLAPS

(* The arithmetic of the slot index: positions less than a ring apart have *)
(* different slots (slot_ptr, spsc_bus.hpp:152-159).                       *)
LEMMA MulGe ==
  ASSUME NEW c \in Nat \ {0}, NEW k \in Int, k >= 1
  PROVE  c * k >= c
  OBVIOUS

(* Quotient and remainder of a position by the number of slots.            *)
LEMMA DivMod ==
  ASSUME NEW c \in Nat \ {0}, NEW p \in Nat
  PROVE  /\ p % c \in 0..(c - 1)
         /\ p \div c \in Nat
         /\ p = c * (p \div c) + (p % c)
  OBVIOUS

(* Two positions less than c apart have different remainders by c.         *)
LEMMA DistinctMod ==
  ASSUME NEW c \in Nat \ {0}, NEW p \in Nat, NEW q \in Nat, p < q, q - p < c
  PROVE  p % c # q % c
<1> SUFFICES ASSUME p % c = q % c PROVE FALSE
  OBVIOUS
<1>1. /\ p = c * (p \div c) + (p % c) /\ p \div c \in Int
      /\ q = c * (q \div c) + (q % c) /\ q \div c \in Int
  BY DivMod
<1> DEFINE k == (q \div c) - (p \div c)
<1>2. k \in Int
  BY <1>1
<1>3. q - p = c * k
  BY <1>1
<1>4. k >= 1
  BY <1>2, <1>3
<1>5. c * k >= c
  BY <1>2, <1>4, MulGe
<1> QED
  BY <1>3, <1>5

(* slot_ptr never leaves the ring.                                         *)
LEMMA SlotIndexInRing ==
  ASSUME NEW pos \in Nat
  PROVE  SlotIndex(pos) \in 0..(Capacity - 1)
  BY DivMod, RingAssumption DEF SlotIndex

(* Two positions less than Capacity apart have different slots.            *)
LEMMA SlotIndexDistinct ==
  ASSUME NEW p \in Nat, NEW q \in Nat, p < q, q - p < Capacity
  PROVE  SlotIndex(p) # SlotIndex(q)
  BY DistinctMod, RingAssumption DEF SlotIndex

(* Every message fits the type of a slot's content, and so does a zeroed   *)
(* slot.                                                                   *)
LEMMA MessageContent == Message \subseteq SlotContent /\ NoMessage \in SlotContent
  BY RingAssumption DEF Message, SlotContent, NoMessage

(* A process inside its critical region has a free (a filled) slot.        *)
LEMMA FreeSlot ==
  ASSUME Inv, ppc \in Filling
  PROVE  p_write_pos = write_pos /\ write_pos - read_pos < Capacity
  BY RingAssumption DEF Inv, TypeOK, ProducerInv, RingInv, Full, Filling

(* The zeroed segment that create() leaves satisfies the invariant.        *)
LEMMA InitInv == Init => Inv
  <1> SUFFICES ASSUME Init PROVE Inv
    OBVIOUS
  <1>1. TypeOK
    BY RingAssumption, MessageContent DEF Init, TypeOK, Pushing, Filling, Draining
  <1>2. ProducerInv /\ ConsumerInv
    BY DEF Init, ProducerInv, ConsumerInv
  <1>3. RingInv
    BY RingAssumption DEF Init, RingInv
  <1> QED
    BY <1>1, <1>2, <1>3 DEF Inv

(* The slot being filled is none of the slots that hold a message.         *)
LEMMA FreeSlotNotRead ==
  ASSUME Inv, ppc \in Filling
  PROVE  /\ SlotIndex(write_pos) \in 0..(Capacity - 1)
         /\ \A pos \in read_pos..(write_pos - 1) :
               /\ SlotIndex(pos) \in 0..(Capacity - 1)
               /\ SlotIndex(pos) # SlotIndex(write_pos)
<1>1. write_pos \in Nat /\ read_pos \in Nat
  BY DEF Inv, TypeOK
<1>2. SlotIndex(write_pos) \in 0..(Capacity - 1)
  BY <1>1, SlotIndexInRing
<1>3. ASSUME NEW pos \in read_pos..(write_pos - 1)
      PROVE  SlotIndex(pos) \in 0..(Capacity - 1) /\ SlotIndex(pos) # SlotIndex(write_pos)
  <2>1. pos \in Nat /\ pos < write_pos /\ write_pos - pos < Capacity
    BY <1>1, FreeSlot, RingAssumption
  <2> QED
    BY <2>1, <1>1, SlotIndexInRing, SlotIndexDistinct
<1> QED
  BY <1>2, <1>3

(* A rejected push changes nothing but the control point of its caller.    *)
LEMMA RejectedPush ==
  ASSUME Inv, PushRejected, ppc \in Pushing
  PROVE  /\ ppc' \in {"idle", "check", "status"}
         /\ p_op' \in PushOps \cup {"none"}
         /\ p_spins' \in 0..(CheckEvery - 1)
         /\ p_msg' \in Message \cup {NoMessage}
         /\ ppc' # "idle" => p_msg' = p_msg
<1> USE RingAssumption DEF Inv, TypeOK
<1>1. (p_spins + 1) % CheckEvery \in 0..(CheckEvery - 1)
  BY DivMod
<1> QED
  BY <1>1 DEF PushRejected, PReturn, callVars, PushOps

(* A pop that found nothing changes nothing but the control point of its   *)
(* caller.                                                                 *)
LEMMA RejectedPop ==
  ASSUME Inv, PopReturnedZero
  PROVE  /\ cpc' \in {"idle", "check", "status"}
         /\ c_op' \in PopOps \cup {"none"}
         /\ c_spins' \in 0..(CheckEvery - 1)
<1> USE RingAssumption DEF Inv, TypeOK
<1>1. (c_spins + 1) % CheckEvery \in 0..(CheckEvery - 1)
  BY DivMod
<1> QED
  BY <1>1 DEF PopReturnedZero, CReturn, PopOps

(* A step of the producer that leaves the shared state alone keeps what    *)
(* the consumer and the ring rely on, and the other way round.             *)
LEMMA RingUnchanged ==
  ASSUME Inv, UNCHANGED <<write_pos, read_pos, slots>>
  PROVE  RingInv'
  BY DEF Inv, RingInv

(* The consumer's part survives a step that changes neither the consumer,  *)
(* the positions nor the slots.                                            *)
LEMMA ConsumerUnchanged ==
  ASSUME Inv, UNCHANGED <<write_pos, read_pos, slots, consVars>>
  PROVE  ConsumerInv'
  BY DEF Inv, ConsumerInv, consVars, copyVars, Draining

(* The producer's part survives a step that changes neither the producer,  *)
(* the positions nor the slots.                                            *)
LEMMA ProducerUnchanged ==
  ASSUME Inv, UNCHANGED <<write_pos, read_pos, slots, prodVars>>
  PROVE  ProducerInv'
  BY DEF Inv, ProducerInv, prodVars, callVars, Filling, Pushing, Full

(* Every step of the producer, its constructor and its crash included,     *)
(* preserves the invariant.                                                *)
LEMMA ProducerPreserves ==
  ASSUME Inv,
         \/ PLoad
         \/ \E op \in PushOps, m \in Message : PushCall(op, m)
         \/ ProducerStep
         \/ PCrash
  PROVE  Inv'
<1> USE RingAssumption
<1> USE DEF ctrlVars, prodVars, callVars, consVars, copyVars
<1>1. CASE PLoad
  <2>1. TypeOK'
    BY <1>1 DEF PLoad, Inv, TypeOK, Pushing, Filling
  <2>2. ProducerInv'
    BY <1>1 DEF PLoad, Inv, TypeOK, ProducerInv, Pushing, Filling
  <2> QED
    BY <1>1, <2>1, <2>2, RingUnchanged, ConsumerUnchanged DEF PLoad, Inv
<1>2. ASSUME NEW op \in PushOps, NEW m \in Message, PushCall(op, m)
      PROVE  Inv'
  <2>1. TypeOK'
    BY <1>2 DEF PushCall, Inv, TypeOK, Pushing, Filling
  <2>2. ProducerInv'
    BY <1>2 DEF PushCall, Inv, ProducerInv, Filling
  <2> QED
    BY <1>2, <2>1, <2>2, RingUnchanged, ConsumerUnchanged DEF PushCall, Inv
<1>3. CASE PRegister
  <2>1. TypeOK'
    BY <1>3 DEF PRegister, Inv, TypeOK, Pushing, Filling
  <2>2. ProducerInv'
    BY <1>3 DEF PRegister, Inv, ProducerInv, Pushing, Filling
  <2> QED
    BY <1>3, <2>1, <2>2, RingUnchanged, ConsumerUnchanged DEF PRegister, Inv
<1>4. CASE PushCheck
  <2>1. CASE p_msg.size > MaxMsgSize /\ PushRejected
    <3>1. /\ ppc \in Pushing /\ ppc # "down"
          /\ UNCHANGED <<ctrlVars, slots, p_write_pos, read_cache, consVars, popped, crashes>>
      BY <1>4 DEF PushCheck, Pushing
    <3>2. TypeOK'
      BY <2>1, <3>1, RejectedPush DEF Inv, TypeOK, Pushing
    <3>3. ProducerInv'
      BY <2>1, <3>1, RejectedPush DEF Inv, ProducerInv, Pushing, Filling
    <3> QED
      BY <3>1, <3>2, <3>3, RingUnchanged, ConsumerUnchanged DEF Inv
  <2>2. CASE /\ p_msg.size <= MaxMsgSize
             /\ ppc' = IF Full(read_cache) THEN "reload" ELSE "size"
             /\ UNCHANGED callVars
    <3>1. /\ ppc = "check"
          /\ UNCHANGED <<ctrlVars, slots, p_write_pos, read_cache, consVars, popped, crashes>>
      BY <1>4 DEF PushCheck
    <3>2. TypeOK'
      BY <2>2, <3>1 DEF Inv, TypeOK, Pushing, Filling
    <3>3. ProducerInv'
      BY <2>2, <3>1 DEF Inv, ProducerInv, Pushing, Filling, Full
    <3> QED
      BY <3>1, <3>2, <3>3, RingUnchanged, ConsumerUnchanged DEF Inv
  <2> QED
    BY <1>4, <2>1, <2>2 DEF PushCheck
<1>5. ASSUME NEW seen \in read_cache..read_pos, PushReload(seen)
      PROVE  Inv'
  <2>1. /\ ppc = "reload" /\ read_cache' = seen
        /\ UNCHANGED <<ctrlVars, slots, p_write_pos, consVars, popped, crashes>>
    BY <1>5 DEF PushReload
  <2>2. seen \in Nat /\ seen <= read_pos
    BY DEF Inv, TypeOK
  <2>3. CASE Full(seen) /\ PushRejected
    <3>1. ppc \in Pushing
      BY <2>1 DEF Pushing
    <3>2. TypeOK'
      BY <2>1, <2>2, <2>3, <3>1, RejectedPush DEF Inv, TypeOK, Pushing
    <3>3. ProducerInv'
      BY <2>1, <2>2, <2>3, <3>1, RejectedPush DEF Inv, ProducerInv, Pushing, Filling
    <3> QED
      BY <2>1, <3>2, <3>3, RingUnchanged, ConsumerUnchanged DEF Inv
  <2>4. CASE ~Full(seen) /\ ppc' = "size" /\ UNCHANGED callVars
    <3>1. TypeOK'
      BY <2>1, <2>2, <2>4 DEF Inv, TypeOK, Pushing, Filling
    <3>2. ProducerInv'
      BY <2>1, <2>2, <2>4 DEF Inv, ProducerInv, Pushing, Filling, Full
    <3> QED
      BY <2>1, <3>1, <3>2, RingUnchanged, ConsumerUnchanged DEF Inv
  <2> QED
    BY <1>5, <2>3, <2>4 DEF PushReload
<1>6. CASE PushSize
  <2>1. /\ ppc = "size" /\ ppc \in Filling /\ ppc' = "body"
        /\ UNCHANGED <<ctrlVars, callVars, p_write_pos, read_cache, consVars, popped, crashes>>
    BY <1>6 DEF PushSize, Filling
  <2>2. slots' = [slots EXCEPT ![SlotIndex(write_pos)].size = p_msg.size]
    BY <1>6, <2>1, FreeSlot DEF PushSize
  <2>3. p_msg \in Message /\ p_msg.size \in Nat
    BY <2>1 DEF Inv, ProducerInv, Message, Pushing
  <2>4. TypeOK'
    BY <2>1, <2>2, <2>3, FreeSlotNotRead DEF Inv, TypeOK, Pushing, Filling, SlotContent
  <2>5. /\ slots'[SlotIndex(write_pos)].size = p_msg.size
        /\ \A pos \in read_pos..(write_pos - 1) :
              slots'[SlotIndex(pos)] = slots[SlotIndex(pos)]
    BY <2>1, <2>2, FreeSlotNotRead DEF Inv, TypeOK, SlotContent
  <2>6. ProducerInv'
    BY <2>1, <2>5 DEF Inv, ProducerInv, Pushing, Filling, Full
  <2>7. ConsumerInv'
    BY <2>1, <2>5 DEF Inv, TypeOK, ConsumerInv, Draining
  <2>8. RingInv'
    BY <2>1, <2>5 DEF Inv, RingInv
  <2> QED
    BY <2>4, <2>6, <2>7, <2>8 DEF Inv
<1>7. CASE PushBody
  <2>1. /\ ppc = "body" /\ ppc \in Filling /\ ppc' = "publish"
        /\ UNCHANGED <<ctrlVars, callVars, p_write_pos, read_cache, consVars, popped, crashes>>
    BY <1>7 DEF PushBody, Filling
  <2>2. slots' = [slots EXCEPT ![SlotIndex(write_pos)].body = p_msg.body]
    BY <1>7, <2>1, FreeSlot DEF PushBody
  <2>3. p_msg \in Message /\ p_msg.body \in Bodies \cup {NoBody}
    BY <2>1 DEF Inv, ProducerInv, Message, Pushing
  <2>4. TypeOK'
    <3>1. slots' \in [0..(Capacity - 1) -> SlotContent]
      BY <2>1, <2>2, <2>3, FreeSlotNotRead DEF Inv, TypeOK, SlotContent
    <3> QED
      BY <2>1, <3>1 DEF Inv, TypeOK, Pushing, Filling
  <2>5. /\ slots'[SlotIndex(write_pos)].body = p_msg.body
        /\ slots'[SlotIndex(write_pos)].size = slots[SlotIndex(write_pos)].size
        /\ \A pos \in read_pos..(write_pos - 1) :
              slots'[SlotIndex(pos)] = slots[SlotIndex(pos)]
    BY <2>1, <2>2, FreeSlotNotRead DEF Inv, TypeOK, SlotContent
  <2>6. ProducerInv'
    BY <2>1, <2>5 DEF Inv, ProducerInv, Pushing, Filling, Full
  <2>7. ConsumerInv'
    BY <2>1, <2>5 DEF Inv, TypeOK, ConsumerInv, Draining
  <2>8. RingInv'
    BY <2>1, <2>5 DEF Inv, RingInv
  <2> QED
    BY <2>4, <2>6, <2>7, <2>8 DEF Inv
<1>8. CASE PushPublish
  <2>1. /\ ppc = "publish" /\ ppc \in Filling
        /\ write_pos' = write_pos + 1 /\ p_write_pos' = write_pos + 1
        /\ PReturn("idle")
        /\ UNCHANGED <<read_pos, producer_pid, consumer_pid, slots, read_cache, consVars,
                       popped, crashes>>
    BY <1>8, FreeSlot DEF PushPublish, Filling
  <2>2. TypeOK'
    BY <2>1 DEF PReturn, Inv, TypeOK, Pushing
  <2>3. ProducerInv'
    BY <2>1 DEF PReturn, Inv, ProducerInv, Pushing, Filling
  <2>4. ConsumerInv'
    BY <2>1 DEF Inv, TypeOK, ConsumerInv, Draining
  <2>5. slots[SlotIndex(write_pos)] \in Message /\ slots[SlotIndex(write_pos)].size <= MaxMsgSize
    <3>1. slots[SlotIndex(write_pos)] \in SlotContent
      BY <2>1, FreeSlotNotRead DEF Inv, TypeOK
    <3>2. /\ p_msg \in Message /\ p_msg.size <= MaxMsgSize
          /\ slots[SlotIndex(write_pos)].size = p_msg.size
          /\ slots[SlotIndex(write_pos)].body = p_msg.body
      BY <2>1 DEF Inv, ProducerInv, Pushing
    <3> QED
      BY <3>1, <3>2 DEF Message, SlotContent
  <2>6. RingInv'
    <3>1. read_pos <= write_pos' /\ write_pos' <= read_pos + Capacity
      BY <2>1, FreeSlot DEF Inv, TypeOK, RingInv
    <3>2. ASSUME NEW pos \in read_pos..(write_pos' - 1)
          PROVE  slots[SlotIndex(pos)] \in Message /\ slots[SlotIndex(pos)].size <= MaxMsgSize
      <4>1. pos = write_pos \/ pos \in read_pos..(write_pos - 1)
        BY <2>1 DEF Inv, TypeOK
      <4> QED
        BY <4>1, <2>5 DEF Inv, RingInv
    <3> QED
      BY <2>1, <3>1, <3>2 DEF RingInv
  <2> QED
    BY <2>2, <2>3, <2>4, <2>6 DEF Inv
<1>9. CASE PushStatus
  <2>1. /\ ppc = "status" /\ ppc' \in {"idle", "check"}
        /\ PReturn("idle") \/ (ppc' = "check" /\ UNCHANGED callVars)
        /\ UNCHANGED <<ctrlVars, slots, p_write_pos, read_cache, consVars, popped, crashes>>
    BY <1>9 DEF PushStatus, PReturn
  <2>2. TypeOK'
    BY <2>1 DEF PReturn, Inv, TypeOK, Pushing
  <2>3. ProducerInv'
    BY <2>1 DEF PReturn, Inv, ProducerInv, Pushing, Filling
  <2> QED
    BY <2>1, <2>2, <2>3, RingUnchanged, ConsumerUnchanged DEF Inv
<1>10. CASE PCrash
  <2>1. TypeOK'
    BY <1>10 DEF PCrash, PReturn, Inv, TypeOK, Pushing
  <2>2. ProducerInv'
    BY <1>10 DEF PCrash, PReturn, ProducerInv
  <2> QED
    BY <1>10, <2>1, <2>2, RingUnchanged, ConsumerUnchanged DEF PCrash, Inv
<1> QED
  BY <1>1, <1>2, <1>3, <1>4, <1>5, <1>6, <1>7, <1>8, <1>9, <1>10 DEF ProducerStep

(* Every step of the consumer, its constructor and its crash included,     *)
(* preserves the invariant.                                                *)
LEMMA ConsumerPreserves ==
  ASSUME Inv,
         \/ CLoad
         \/ \E op \in PopOps : PopCall(op)
         \/ ConsumerStep
         \/ CCrash
  PROVE  Inv'
<1> USE RingAssumption
<1> USE DEF ctrlVars, prodVars, callVars, consVars, copyVars
<1>1. CASE CLoad
  <2>1. TypeOK'
    BY <1>1 DEF CLoad, Inv, TypeOK, Draining
  <2>2. ConsumerInv'
    BY <1>1 DEF CLoad, Inv, TypeOK, ConsumerInv, RingInv, Draining
  <2> QED
    BY <1>1, <2>1, <2>2, RingUnchanged, ProducerUnchanged DEF CLoad, Inv
<1>2. ASSUME NEW op \in PopOps, PopCall(op)
      PROVE  Inv'
  <2>1. TypeOK'
    BY <1>2 DEF PopCall, Inv, TypeOK, Draining
  <2>2. ConsumerInv'
    BY <1>2 DEF PopCall, Inv, ConsumerInv, Draining
  <2> QED
    BY <1>2, <2>1, <2>2, RingUnchanged, ProducerUnchanged DEF PopCall, Inv
<1>3. CASE CRegister
  <2>1. TypeOK'
    BY <1>3 DEF CRegister, Inv, TypeOK, Draining
  <2>2. ConsumerInv'
    BY <1>3 DEF CRegister, Inv, ConsumerInv, Draining
  <2> QED
    BY <1>3, <2>1, <2>2, RingUnchanged, ProducerUnchanged DEF CRegister, Inv
<1>4. CASE PopCheck
  <2>1. TypeOK'
    BY <1>4 DEF PopCheck, Inv, TypeOK, Draining
  <2>2. ConsumerInv'
    BY <1>4 DEF PopCheck, Inv, TypeOK, ConsumerInv, Draining
  <2> QED
    BY <1>4, <2>1, <2>2, RingUnchanged, ProducerUnchanged DEF PopCheck, Inv
<1>5. ASSUME NEW seen \in write_cache..write_pos, PopReload(seen)
      PROVE  Inv'
  <2>1. /\ cpc = "reload" /\ write_cache' = seen
        /\ UNCHANGED <<ctrlVars, slots, prodVars, c_read_pos, copyVars, popped, crashes>>
    BY <1>5 DEF PopReload
  <2>2. seen \in Nat /\ write_cache <= seen /\ seen <= write_pos
    BY DEF Inv, TypeOK
  <2>3. CASE c_read_pos = seen /\ PopReturnedZero
    <3>1. TypeOK'
      BY <2>1, <2>2, <2>3, RejectedPop DEF Inv, TypeOK
    <3>2. ConsumerInv'
      BY <2>1, <2>2, <2>3, RejectedPop DEF Inv, TypeOK, ConsumerInv, Draining
    <3> QED
      BY <2>1, <3>1, <3>2, RingUnchanged, ProducerUnchanged DEF Inv
  <2>4. CASE c_read_pos # seen /\ cpc' = "size" /\ UNCHANGED <<c_op, c_spins>>
    <3>1. TypeOK'
      BY <2>1, <2>2, <2>4 DEF Inv, TypeOK, Draining
    <3>2. ConsumerInv'
      BY <2>1, <2>2, <2>4 DEF Inv, TypeOK, ConsumerInv, Draining
    <3> QED
      BY <2>1, <3>1, <3>2, RingUnchanged, ProducerUnchanged DEF Inv
  <2> QED
    BY <1>5, <2>3, <2>4 DEF PopReload
<1>6. CASE PopSize
  <2>1. slots[SlotIndex(c_read_pos)] \in SlotContent
    BY SlotIndexInRing DEF Inv, TypeOK
  <2>2. TypeOK'
    BY <1>6, <2>1 DEF PopSize, Inv, TypeOK, SlotContent, Draining
  <2>3. ConsumerInv'
    BY <1>6 DEF PopSize, Inv, ConsumerInv, Draining
  <2> QED
    BY <1>6, <2>2, <2>3, RingUnchanged, ProducerUnchanged DEF PopSize, Inv
<1>7. CASE PopCopy
  <2>1. slots[SlotIndex(c_read_pos)] \in SlotContent
    BY SlotIndexInRing DEF Inv, TypeOK
  <2>2. TypeOK'
    BY <1>7, <2>1 DEF PopCopy, Inv, TypeOK, SlotContent, Draining
  <2>3. ConsumerInv'
    BY <1>7 DEF PopCopy, Inv, ConsumerInv, Draining
  <2> QED
    BY <1>7, <2>2, <2>3, RingUnchanged, ProducerUnchanged DEF PopCopy, Inv
<1>8. CASE PopRelease
  <2>1. /\ cpc = "release" /\ read_pos' = read_pos + 1 /\ c_read_pos' = read_pos + 1
        /\ read_pos < write_cache /\ write_cache <= write_pos
        /\ popped' = [size |-> c_size, body |-> c_buf]
        /\ UNCHANGED <<write_pos, producer_pid, consumer_pid, slots, prodVars, write_cache, crashes>>
    BY <1>8 DEF PopRelease, Inv, ConsumerInv, Draining
  <2>2. /\ cpc' \in {"idle", "check", "status"}
        /\ c_op' \in PopOps \cup {"none"}
        /\ c_spins' \in 0..(CheckEvery - 1)
        /\ ForgetCopy
    BY <1>8, RejectedPop DEF PopRelease, CReturn
  <2>3. TypeOK'
    BY <2>1, <2>2 DEF ForgetCopy, Inv, TypeOK, SlotContent
  <2>4. ConsumerInv'
    BY <2>1, <2>2 DEF Inv, TypeOK, ConsumerInv, Draining
  <2>5. ProducerInv'
    BY <2>1 DEF Inv, TypeOK, ProducerInv, Pushing, Filling, Full
  <2>6. RingInv'
    BY <2>1 DEF Inv, TypeOK, RingInv
  <2> QED
    BY <2>3, <2>4, <2>5, <2>6 DEF Inv
<1>9. CASE PopStatus
  <2>1. TypeOK'
    BY <1>9 DEF PopStatus, CReturn, Inv, TypeOK
  <2>2. ConsumerInv'
    BY <1>9 DEF PopStatus, CReturn, Inv, ConsumerInv, Draining
  <2> QED
    BY <1>9, <2>1, <2>2, RingUnchanged, ProducerUnchanged DEF PopStatus, Inv
<1>10. CASE CCrash
  <2>1. TypeOK'
    BY <1>10 DEF CCrash, CReturn, ForgetCopy, Inv, TypeOK
  <2>2. ConsumerInv'
    BY <1>10 DEF CCrash, CReturn, ConsumerInv
  <2> QED
    BY <1>10, <2>1, <2>2, RingUnchanged, ProducerUnchanged DEF CCrash, Inv
<1> QED
  BY <1>1, <1>2, <1>3, <1>4, <1>5, <1>6, <1>7, <1>8, <1>9, <1>10 DEF ConsumerStep

(* The invariant is preserved by every step of either process.             *)
LEMMA NextInv == Inv /\ [Next]_vars => Inv'
<1> SUFFICES ASSUME Inv, [Next]_vars PROVE Inv'
  OBVIOUS
<1>1. CASE UNCHANGED vars
  <2>1. TypeOK'
    BY <1>1 DEF Inv, TypeOK, vars, ctrlVars, prodVars, callVars, consVars, copyVars
  <2> QED
    BY <1>1, <2>1, RingUnchanged, ConsumerUnchanged, ProducerUnchanged
       DEF Inv, vars, ctrlVars
<1> QED
  BY <1>1, ProducerPreserves, ConsumerPreserves DEF Next

(* Type correctness and the invariant of the ring (Producer::try_push and  *)
(* Consumer::try_pop with all their callers, constructors and crashes):    *)
(* each side's copy of its own position is exact, its copy of the other's  *)
(* lags, and every visible slot holds a whole message that was pushed.     *)
THEOREM InvHolds == Spec => []Inv
<1>1. Init => Inv
  BY InitInv
<1>2. Inv /\ [Next]_vars => Inv'
  BY NextInv
<1> QED
  BY <1>1, <1>2, PTL DEF Spec

(* Every variable keeps its type; in particular try_pop never copies more  *)
(* bytes than the caller's buffer holds (spsc_bus.hpp:467-468).            *)
THEOREM TypeCorrect == Spec => []TypeOK
<1>1. Inv => TypeOK
  BY DEF Inv
<1> QED
  BY <1>1, InvHolds, PTL

(* try_push and try_pop never touch the same slot at the same time.        *)
THEOREM SlotsAreRaceFree == Spec => []NoSlotRace
<1>1. Inv => NoSlotRace
  <2> SUFFICES ASSUME Inv, ppc \in Filling, cpc \in Draining
               PROVE  SlotIndex(p_write_pos) # SlotIndex(c_read_pos)
    BY DEF NoSlotRace
  <2>1. c_read_pos = read_pos /\ read_pos < write_pos /\ read_pos \in Nat /\ write_pos \in Nat
    BY DEF Inv, TypeOK, ConsumerInv, Draining
  <2>2. p_write_pos = write_pos /\ write_pos - read_pos < Capacity
    BY FreeSlot
  <2> QED
    BY <2>1, <2>2, SlotIndexDistinct
<1> QED
  BY <1>1, InvHolds, PTL

(***************************************************************************)
(* Refinement: Queue is the sequence of the messages in the ring.          *)
(***************************************************************************)
(* The contents of a ring that holds messages are a sequence of messages,  *)
(* as long as the distance of the two positions.                           *)
LEMMA ContentsIsSeq ==
  ASSUME NEW ring \in [0..(Capacity - 1) -> SlotContent],
         NEW from \in Nat, NEW to \in Nat, from <= to
  PROVE  /\ Contents(ring, from, to) \in Seq(SlotContent)
         /\ Len(Contents(ring, from, to)) = to - from
         /\ \A i \in 1..(to - from) :
               Contents(ring, from, to)[i] = ring[SlotIndex(from + i - 1)]
<1> DEFINE q == Contents(ring, from, to)
           n == to - from
<1>1. n \in Nat
  OBVIOUS
<1>2. \A i \in 1..n : ring[SlotIndex(from + i - 1)] \in SlotContent
  BY SlotIndexInRing
<1>3. q \in [1..n -> SlotContent]
  BY <1>2 DEF Contents
<1>4. q \in Seq(SlotContent)
  BY <1>1, <1>3, SeqDef
<1>5. Len(q) = n
  BY <1>1, <1>3, <1>4, LenProperties
<1>6. \A i \in 1..n : q[i] = ring[SlotIndex(from + i - 1)]
  BY DEF Contents
<1> QED
  BY <1>4, <1>5, <1>6

(* Writing the free slot does not change the contents.                     *)
LEMMA ContentsOutside ==
  ASSUME NEW r1 \in [0..(Capacity - 1) -> SlotContent],
         NEW r2 \in [0..(Capacity - 1) -> SlotContent],
         NEW from \in Nat, NEW to \in Nat, from <= to,
         \A pos \in from..(to - 1) : r2[SlotIndex(pos)] = r1[SlotIndex(pos)]
  PROVE  Contents(r2, from, to) = Contents(r1, from, to)
<1>1. \A i \in 1..(to - from) : from + i - 1 \in from..(to - 1)
  OBVIOUS
<1> QED
  BY <1>1 DEF Contents

(* Moving the end of the range by one appends the message of its slot.     *)
LEMMA ContentsAppend ==
  ASSUME NEW ring \in [0..(Capacity - 1) -> SlotContent],
         NEW from \in Nat, NEW to \in Nat, from <= to
  PROVE  Contents(ring, from, to + 1) = Append(Contents(ring, from, to), ring[SlotIndex(to)])
<1> DEFINE q == Contents(ring, from, to)
           r == Contents(ring, from, to + 1)
           e == ring[SlotIndex(to)]
<1>1. e \in SlotContent
  BY SlotIndexInRing
<1>2. /\ q \in Seq(SlotContent) /\ Len(q) = to - from
      /\ \A i \in 1..(to - from) : q[i] = ring[SlotIndex(from + i - 1)]
  BY ContentsIsSeq
<1>3. /\ r \in Seq(SlotContent) /\ Len(r) = to + 1 - from
      /\ \A i \in 1..(to + 1 - from) : r[i] = ring[SlotIndex(from + i - 1)]
  <2> DEFINE next == to + 1
  <2>1. next \in Nat /\ from <= next
    OBVIOUS
  <2> HIDE DEF next
  <2>2. /\ Contents(ring, from, next) \in Seq(SlotContent)
        /\ Len(Contents(ring, from, next)) = next - from
        /\ \A i \in 1..(next - from) :
              Contents(ring, from, next)[i] = ring[SlotIndex(from + i - 1)]
    BY <2>1, ContentsIsSeq
  <2> QED
    BY <2>2 DEF next
<1> HIDE DEF q, r, e
<1>4. /\ Append(q, e) \in Seq(SlotContent) /\ Len(Append(q, e)) = Len(q) + 1
      /\ \A i \in 1..Len(q) : Append(q, e)[i] = q[i]
      /\ Append(q, e)[Len(q) + 1] = e
  BY <1>1, <1>2, AppendProperties
<1>5. ASSUME NEW i \in 1..Len(r) PROVE r[i] = Append(q, e)[i]
  <2>1. CASE i <= to - from
    BY <2>1, <1>2, <1>3, <1>4
  <2>2. CASE i = to - from + 1
    <3>1. r[i] = ring[SlotIndex(from + i - 1)] /\ from + i - 1 = to /\ i = Len(q) + 1
      BY <2>2, <1>2, <1>3
    <3> QED
      BY <3>1, <1>4 DEF e
  <2>3. i <= to - from \/ i = to - from + 1
    BY <1>3
  <2> QED
    BY <2>1, <2>2, <2>3, Zenon
<1>6. Len(r) = Len(Append(q, e))
  BY <1>2, <1>3, <1>4
<1>7. r = Append(q, e)
  BY <1>3, <1>4, <1>5, <1>6, SeqEqual
<1> QED
  BY <1>7 DEF q, r, e

(* Moving the start of the range by one takes the oldest message off.      *)
LEMMA ContentsTake ==
  ASSUME NEW ring \in [0..(Capacity - 1) -> SlotContent],
         NEW from \in Nat, NEW to \in Nat, from < to
  PROVE  /\ Contents(ring, from, to) # <<>>
         /\ Head(Contents(ring, from, to)) = ring[SlotIndex(from)]
         /\ Tail(Contents(ring, from, to)) = Contents(ring, from + 1, to)
<1> DEFINE q == Contents(ring, from, to)
           r == Contents(ring, from + 1, to)
<1>1. /\ q \in Seq(SlotContent) /\ Len(q) = to - from
      /\ \A i \in 1..(to - from) : q[i] = ring[SlotIndex(from + i - 1)]
  <2>1. from <= to
    OBVIOUS
  <2> QED
    BY <2>1, ContentsIsSeq
<1>2. /\ r \in Seq(SlotContent) /\ Len(r) = to - (from + 1)
      /\ \A i \in 1..(to - (from + 1)) : r[i] = ring[SlotIndex(from + 1 + i - 1)]
  <2>1. from + 1 \in Nat /\ from + 1 <= to
    OBVIOUS
  <2> QED
    BY <2>1, ContentsIsSeq
<1> HIDE DEF q, r
<1>3. q # <<>>
  BY <1>1, EmptySeq
<1>4. Head(q) = ring[SlotIndex(from)]
  <2>1. q[1] = ring[SlotIndex(from + 1 - 1)] /\ from + 1 - 1 = from
    BY <1>1
  <2> QED
    BY <2>1, <1>1, <1>3
<1>5. /\ Tail(q) \in Seq(SlotContent) /\ Len(Tail(q)) = Len(q) - 1
      /\ \A i \in 1..Len(Tail(q)) : Tail(q)[i] = q[i + 1]
  BY <1>1, <1>3, HeadTailProperties
<1>6. ASSUME NEW i \in 1..Len(r) PROVE r[i] = Tail(q)[i]
  <2>1. /\ i \in 1..Len(Tail(q)) /\ i + 1 \in 1..(to - from)
        /\ from + 1 + i - 1 = from + (i + 1) - 1
    BY <1>1, <1>2, <1>5
  <2> QED
    BY <2>1, <1>1, <1>2, <1>5
<1>7. Tail(q) = r
  BY <1>1, <1>2, <1>5, <1>6, SeqEqual
<1> QED
  BY <1>3, <1>4, <1>7 DEF q, r

(* The steps that leave the ring's contents and the last pop alone.        *)
LEMMA QuietStep ==
  ASSUME UNCHANGED <<write_pos, read_pos, slots, popped>>
  PROVE  UNCHANGED <<Queue, popped>>
  BY DEF Queue, Contents

(* Writing size or payload of the free slot changes no visible message.    *)
LEMMA FillStep ==
  ASSUME Inv, Inv', ppc \in Filling, UNCHANGED <<write_pos, read_pos, popped>>,
         \A i \in 0..(Capacity - 1) : i # SlotIndex(write_pos) => slots'[i] = slots[i]
  PROVE  UNCHANGED <<Queue, popped>>
<1>1. /\ slots \in [0..(Capacity - 1) -> SlotContent]
      /\ slots' \in [0..(Capacity - 1) -> SlotContent]
      /\ read_pos \in Nat /\ write_pos \in Nat /\ read_pos <= write_pos
  BY DEF Inv, TypeOK, RingInv
<1>2. \A pos \in read_pos..(write_pos - 1) : slots'[SlotIndex(pos)] = slots[SlotIndex(pos)]
  BY FreeSlotNotRead
<1>3. Contents(slots', read_pos, write_pos) = Contents(slots, read_pos, write_pos)
  BY <1>1, <1>2, ContentsOutside
<1> QED
  BY <1>3 DEF Queue

(* Every step of the ring is a push, a pop or no step of the queue.        *)
LEMMA StepRefines ==
  ASSUME Inv, Inv', [Next]_vars
  PROVE  [Fifo!FifoNext]_(Fifo!fifoVars)
<1> USE DEF ctrlVars, prodVars, callVars, consVars, copyVars
<1>0. /\ slots \in [0..(Capacity - 1) -> SlotContent]
      /\ read_pos \in Nat /\ write_pos \in Nat /\ read_pos <= write_pos
  BY DEF Inv, TypeOK, RingInv
<1>1. CASE PushPublish
  <2>1. /\ ppc = "publish" /\ ppc \in Filling /\ p_write_pos = write_pos
        /\ write_pos' = write_pos + 1
        /\ UNCHANGED <<read_pos, slots, popped>>
    BY <1>1, FreeSlot DEF PushPublish, Filling
  <2> DEFINE m == slots[SlotIndex(write_pos)]
  <2>2. m \in Message
    <3>1. write_pos \in read_pos'..(write_pos' - 1)
      BY <1>0, <2>1
    <3> QED
      BY <3>1, <2>1 DEF Inv, RingInv
  <2>3. Queue' = Append(Queue, m)
    BY <1>0, <2>1, ContentsAppend DEF Queue
  <2>4. Len(Queue) < Capacity
    BY <1>0, <2>1, FreeSlot, ContentsIsSeq DEF Queue
  <2>5. Fifo!Push(m)
    BY <2>1, <2>3, <2>4 DEF Fifo!Push
  <2> QED
    BY <2>2, <2>5 DEF Fifo!FifoNext
<1>2. CASE PopRelease
  <2>1. /\ cpc = "release" /\ c_read_pos = read_pos /\ read_pos < write_pos
        /\ read_pos' = read_pos + 1
        /\ popped' = [size |-> c_size, body |-> c_buf]
        /\ c_size = slots[SlotIndex(read_pos)].size
        /\ c_buf = slots[SlotIndex(read_pos)].body
        /\ UNCHANGED <<write_pos, slots>>
    BY <1>0, <1>2 DEF PopRelease, Inv, TypeOK, ConsumerInv, Draining
  <2>2. slots[SlotIndex(read_pos)] \in SlotContent
    BY <1>0, SlotIndexInRing
  <2>3. popped' = slots[SlotIndex(read_pos)]
    BY <2>1, <2>2 DEF SlotContent
  <2>4. /\ Queue # <<>>
        /\ Head(Queue) = slots[SlotIndex(read_pos)]
        /\ Queue' = Tail(Queue)
    BY <1>0, <2>1, ContentsTake DEF Queue
  <2> QED
    BY <2>3, <2>4 DEF Fifo!Pop, Fifo!FifoNext
<1>3. CASE PushSize \/ PushBody
  <2>1. /\ ppc \in Filling /\ p_write_pos = write_pos
        /\ UNCHANGED <<write_pos, read_pos, popped>>
    BY <1>3, FreeSlot DEF PushSize, PushBody, Filling
  <2>2. \A i \in 0..(Capacity - 1) : i # SlotIndex(write_pos) => slots'[i] = slots[i]
    BY <1>0, <1>3, <2>1 DEF PushSize, PushBody
  <2> QED
    BY <2>1, <2>2, FillStep DEF Fifo!fifoVars
<1>4. CASE UNCHANGED <<write_pos, read_pos, slots, popped>>
  BY <1>4, QuietStep DEF Fifo!fifoVars
<1>5. \/ PushPublish \/ PopRelease \/ PushSize \/ PushBody
      \/ UNCHANGED <<write_pos, read_pos, slots, popped>>
  <2>1. CASE UNCHANGED vars
    BY <2>1 DEF vars
  <2>2. ASSUME NEW seen, PushReload(seen) \/ PopReload(seen)
        PROVE  UNCHANGED <<write_pos, read_pos, slots, popped>>
    BY <2>2 DEF PushReload, PopReload
  <2>3. ASSUME PushCheck \/ PushStatus \/ PRegister \/ PLoad \/ PCrash
        PROVE  UNCHANGED <<write_pos, read_pos, slots, popped>>
    BY <2>3 DEF PushCheck, PushStatus, PRegister, PLoad, PCrash
  <2>4. ASSUME PopCheck \/ PopStatus \/ CRegister \/ CLoad \/ CCrash \/ PopSize \/ PopCopy
        PROVE  UNCHANGED <<write_pos, read_pos, slots, popped>>
    BY <2>4 DEF PopCheck, PopStatus, CRegister, CLoad, CCrash, PopSize, PopCopy
  <2>5. ASSUME NEW op, NEW m, PushCall(op, m) \/ PopCall(op)
        PROVE  UNCHANGED <<write_pos, read_pos, slots, popped>>
    BY <2>5 DEF PushCall, PopCall
  <2> QED
    BY <2>1, <2>2, <2>3, <2>4, <2>5 DEF Next, ProducerStep, ConsumerStep
<1> QED
  BY <1>1, <1>2, <1>3, <1>4, <1>5

(* The zeroed ring is an empty queue.                                      *)
LEMMA InitRefines == Init => Fifo!FifoInit
<1> SUFFICES ASSUME Init PROVE Fifo!FifoInit
  OBVIOUS
<1>1. /\ slots \in [0..(Capacity - 1) -> SlotContent]
      /\ read_pos = 0 /\ write_pos = 0 /\ popped = NoMessage
  BY MessageContent, RingAssumption DEF Init
<1>2. Contents(slots, 0, 0) \in Seq(SlotContent) /\ Len(Contents(slots, 0, 0)) = 0
  BY <1>1, ContentsIsSeq
<1>3. Contents(slots, 0, 0) = <<>>
  BY <1>2, EmptySeq
<1> QED
  BY <1>1, <1>3 DEF Fifo!FifoInit, Queue

(* The ring of spsc_bus.hpp implements a bounded FIFO queue, whatever the  *)
(* interleaving, the staleness of the cached positions and the crashes.    *)
THEOREM RingImplementsFifo == Spec => ImplementsFifo
<1>1. Init => Fifo!FifoInit
  BY InitRefines
<1>2. Inv /\ Inv' /\ [Next]_vars => [Fifo!FifoNext]_(Fifo!fifoVars)
  BY StepRefines
<1> QED
  BY <1>1, <1>2, InvHolds, PTL DEF Spec, ImplementsFifo, Fifo!FifoSpec
=============================================================================
