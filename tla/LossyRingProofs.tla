--------------------------- MODULE LossyRingProofs ---------------------------
(***************************************************************************)
(* Proofs about the lossy mode for every capacity, generation width and    *)
(* bound: the consumer never goes back and never delivers an older message *)
(* than the one of its position, on both memory models and after any       *)
(* crash; and on a machine that keeps the stores in order a torn message   *)
(* takes a producer so far ahead that the generation has wrapped around.   *)
(***************************************************************************)
EXTENDS LossyRing, TLAPS

Fields == {"generation", "size", "body"}
Reading == {"gen1", "size", "copy", "gen2", "resync", "release"}
Slot(pos) == slots[SlotIndex(pos)]

(* The positions are in order, and a consumer that reads a slot reads one  *)
(* that was published.                                                     *)
Positions ==
  /\ read_pos <= write_cache /\ write_cache <= write_pos
  /\ ppc # "idle" => write_pos < MaxPushes
  /\ cpc = "forward" => Lapped(write_cache)
  /\ cpc \in Reading => read_pos < write_cache

(* The payload of a published position is that message or a later one that *)
(* belongs to the same slot; also when a producer died over it.            *)
Payloads ==
  /\ \A i \in 0..(Capacity - 1) :
       slots[i].body # Zeroed => SlotIndex(slots[i].body) = i /\ slots[i].body <= write_pos
  /\ \A pos \in 0..(write_pos - 1) : Slot(pos).body >= pos
  /\ ppc = "write" /\ "body" \notin p_todo => Slot(write_pos).body = write_pos
  /\ ppc = "publish" => Slot(write_pos).body = write_pos

(* A generation that changed under the consumer tells it that the producer *)
(* is a whole round ahead, which makes the position it resynchronises to   *)
(* one it has not passed.                                                  *)
Copied ==
  /\ cpc \in {"size", "copy", "gen2"} /\ Slot(read_pos).generation # gen1 =>
       write_pos - read_pos >= Capacity
  /\ cpc = "resync" => write_pos - read_pos >= Capacity
  /\ cpc \in {"gen2", "release"} => c_body >= read_pos /\ SlotIndex(c_body) = SlotIndex(read_pos)

LossyInv == Inv /\ Positions /\ Payloads /\ Copied

(* How often the ring has gone round before a position, and the generation *)
(* a slot has after the push of a message.                                 *)
Round(pos) == pos \div Capacity
Generation(body) == IF body = Zeroed THEN 0 ELSE (2 * Round(body) + 2) % GenModulus
Even(slot) == slot.generation % 2 = 0

(* The producer's half of the seqlock: an even slot holds one message and  *)
(* its generation, and only the slot of a push under way is odd.           *)
Seqlock ==
  /\ \A i \in 0..(Capacity - 1) :
       /\ Even(slots[i]) => /\ slots[i].size = slots[i].body
                            /\ slots[i].generation = Generation(slots[i].body)
       /\ ~Even(slots[i]) =>
            ppc = "write" /\ i = SlotIndex(write_pos) /\ "generation" \notin p_todo
       /\ ppc = "idle" => slots[i].body # write_pos
  /\ ppc = "write" =>
       /\ p_gen = (2 * Round(write_pos)) % GenModulus
       /\ "generation" \in p_todo =>
            /\ p_todo = Fields
            /\ Slot(write_pos).body # write_pos
            /\ Even(Slot(write_pos))
       /\ "generation" \notin p_todo => ~Even(Slot(write_pos))
       /\ "size" \notin p_todo => Slot(write_pos).size = write_pos

(* The consumer's half: gen1 is the generation of a round r of its slot;   *)
(* as long as the slot is still in that round, what it has read is what    *)
(* the slot holds.                                                         *)
CopyOfRound(r) ==
  /\ Round(read_pos) <= r /\ r <= Round(Slot(read_pos).body)
  /\ gen1 = (2 * r + 2) % GenModulus
  /\ ppc = "write" /\ SlotIndex(write_pos) = SlotIndex(read_pos) => r < Round(write_pos)
  /\ Even(Slot(read_pos)) /\ Round(Slot(read_pos).body) = r =>
       /\ cpc \in {"copy", "gen2"} => c_size = Slot(read_pos).size
       /\ cpc = "gen2" => c_body = Slot(read_pos).body

(* The producer is so many rounds ahead that a generation may have come    *)
(* back: 2^31 of them for a uint32_t.                                      *)
WrappedAround == write_pos - read_pos >= Capacity * (GenModulus \div 2)

CopyChecked ==
  /\ cpc \in {"size", "copy", "gen2"} => \E r \in Nat : CopyOfRound(r)
  /\ cpc = "release" => c_size = c_body \/ WrappedAround

SeqlockInv == tso /\ ~p_died => Seqlock /\ CopyChecked

(* On a machine that keeps the stores in order, with no producer dead in a *)
(* push, a message is delivered half old and half new only to a consumer   *)
(* that is half the range of the generation, in rounds, behind.            *)
TornOnlyAfterWrap ==
  [][tso /\ ~p_died /\ delivered' # delivered /\ ~WrappedAround =>
       delivered'.size = delivered'.body]_vars

-----------------------------------------------------------------------------
(***************************************************************************)
(* The slot index.                                                         *)
(***************************************************************************)

(* A positive multiple of c is at least c.                                 *)
LEMMA MulGe ==
  ASSUME NEW c \in Nat \ {0}, NEW k \in Int, k >= 1
  PROVE  c * k >= c
  OBVIOUS

(* Quotient and remainder of a position by the number of slots.            *)
LEMMA DivMod ==
  ASSUME NEW c \in Nat \ {0}, NEW p \in Nat
  PROVE  /\ p % c \in 0..(c - 1)
         /\ p \div c \in Nat
         /\ p = c * (p \div c) + (p % c)
  OBVIOUS

(* Of two positions with the same remainder by c one is at least c ahead.  *)
LEMMA SameMod ==
  ASSUME NEW c \in Nat \ {0}, NEW p \in Nat, NEW q \in Nat, p < q, p % c = q % c
  PROVE  q - p >= c
<1>1. /\ p = c * (p \div c) + (p % c) /\ p \div c \in Int
      /\ q = c * (q \div c) + (q % c) /\ q \div c \in Int
  BY DivMod
<1> DEFINE k == (q \div c) - (p \div c)
<1>2. k \in Int
  BY <1>1
<1>3. q - p = c * k
  BY <1>1
<1>4. k >= 1
  BY <1>2, <1>3
<1>5. c * k >= c
  BY <1>2, <1>4, MulGe
<1> QED
  BY <1>3, <1>5

(* slot_ptr never leaves the ring.                                         *)
LEMMA SlotIndexInRing ==
  ASSUME NEW pos \in Nat
  PROVE  SlotIndex(pos) \in 0..(Capacity - 1)
  BY DivMod, LossyAssumption DEF SlotIndex

(* The producer that writes the slot of an earlier position is a round     *)
(* ahead of it.                                                            *)
LEMMA SameSlot ==
  ASSUME NEW p \in Nat, NEW q \in Nat, p < q, SlotIndex(p) = SlotIndex(q)
  PROVE  q - p >= Capacity
  BY SameMod, LossyAssumption DEF SlotIndex

-----------------------------------------------------------------------------
(***************************************************************************)
(* The steps of the producer.                                              *)
(***************************************************************************)

(* The zeroed segment that create() leaves satisfies the invariant.        *)
LEMMA InitInv == Init => LossyInv
<1> SUFFICES ASSUME Init PROVE LossyInv
  OBVIOUS
<1> DEFINE tag == Zeroed..(MaxPushes - 1)
<1>a. Zeroed \in tag /\ 0 \in 0..(GenModulus - 1) /\ 0 \in 0..MaxPushes /\ 0 \in 0..MaxCrashes
  BY LossyAssumption DEF Zeroed
<1>b. overwritten \in BOOLEAN /\ tso \in BOOLEAN /\ p_died \in BOOLEAN
  BY DEF Init
<1>c. /\ slots \in [0..(Capacity - 1) -> [generation : 0..(GenModulus - 1), size : tag, body : tag]]
      /\ delivered \in [pos : tag, size : tag, body : tag]
  BY <1>a DEF Init
<1>1. TypeOK
  BY <1>a, <1>b, <1>c DEF Init, TypeOK
<1>2. NeverOlder
  BY DEF Init, NeverOlder, Zeroed
<1>3. Positions
  BY DEF Init, Positions, Reading
<1>4. Payloads
  BY DEF Init, Payloads
<1>5. Copied
  BY DEF Init, Copied
<1> QED
  BY <1>1, <1>2, <1>3, <1>4, <1>5 DEF LossyInv, Inv

(* What a store of a push does to the slots: only the slot of write_pos    *)
(* changes, and of it only the field.                                      *)
LEMMA StoreEffect ==
  ASSUME TypeOK, ppc = "write" => write_pos < MaxPushes, NEW field \in Fields, PushStore(field)
  PROVE  /\ slots' \in [0..(Capacity - 1) ->
                         [generation : 0..(GenModulus - 1), size : Zeroed..(MaxPushes - 1),
                          body : Zeroed..(MaxPushes - 1)]]
         /\ \A i \in 0..(Capacity - 1) : i # SlotIndex(write_pos) => slots'[i] = slots[i]
         /\ slots'[SlotIndex(write_pos)].generation =
              IF field = "generation" THEN (p_gen + 1) % GenModulus ELSE Slot(write_pos).generation
         /\ slots'[SlotIndex(write_pos)].size =
              IF field = "size" THEN write_pos ELSE Slot(write_pos).size
         /\ slots'[SlotIndex(write_pos)].body =
              IF field = "body" THEN write_pos ELSE Slot(write_pos).body
<1> DEFINE w == SlotIndex(write_pos)
<1>1. write_pos \in Nat /\ w \in 0..(Capacity - 1)
  BY SlotIndexInRing DEF TypeOK
<1>2. (p_gen + 1) % GenModulus \in 0..(GenModulus - 1)
  BY DivMod, LossyAssumption DEF TypeOK
<1>3. write_pos \in Zeroed..(MaxPushes - 1)
  BY <1>1, LossyAssumption DEF PushStore, Zeroed, TypeOK
<1>4. slots' = [slots EXCEPT ![w][field] =
                  IF field = "generation" THEN (p_gen + 1) % GenModulus ELSE write_pos]
  BY DEF PushStore
<1> HIDE DEF w
<1>5. CASE field = "generation"
  BY <1>1, <1>2, <1>4, <1>5 DEF TypeOK, Slot, w
<1>6. CASE field = "size"
  BY <1>1, <1>3, <1>4, <1>6 DEF TypeOK, Slot, w
<1>7. CASE field = "body"
  BY <1>1, <1>3, <1>4, <1>7 DEF TypeOK, Slot, w
<1> QED
  BY <1>5, <1>6, <1>7 DEF Fields

(* What the commit does: the generation of the slot and nothing else.      *)
LEMMA CommitEffect ==
  ASSUME TypeOK, PushCommit
  PROVE  /\ slots' \in [0..(Capacity - 1) ->
                         [generation : 0..(GenModulus - 1), size : Zeroed..(MaxPushes - 1),
                          body : Zeroed..(MaxPushes - 1)]]
         /\ \A i \in 0..(Capacity - 1) : i # SlotIndex(write_pos) => slots'[i] = slots[i]
         /\ slots'[SlotIndex(write_pos)].generation = (p_gen + 2) % GenModulus
         /\ slots'[SlotIndex(write_pos)].size = Slot(write_pos).size
         /\ slots'[SlotIndex(write_pos)].body = Slot(write_pos).body
<1> DEFINE w == SlotIndex(write_pos)
<1>1. write_pos \in Nat /\ w \in 0..(Capacity - 1)
  BY SlotIndexInRing DEF TypeOK
<1>2. (p_gen + 2) % GenModulus \in 0..(GenModulus - 1)
  BY DivMod, LossyAssumption DEF TypeOK
<1>3. slots' = [slots EXCEPT ![w].generation = (p_gen + 2) % GenModulus]
  BY DEF PushCommit
<1> HIDE DEF w
<1> QED
  BY <1>1, <1>2, <1>3 DEF TypeOK, Slot, w

(* A producer that rewrites the slot of write_pos, with that position as   *)
(* the payload or with the payload as it was, keeps what the ring and the  *)
(* consumer rely on.                                                       *)
LEMMA WriteKeeps ==
  ASSUME LossyInv, TypeOK', ppc = "write", ppc' \in {"write", "publish"},
         UNCHANGED <<write_pos, consVars>>,
         \A i \in 0..(Capacity - 1) : i # SlotIndex(write_pos) => slots'[i] = slots[i],
         slots'[SlotIndex(write_pos)].body \in {write_pos, Slot(write_pos).body},
         ppc' = "publish" \/ "body" \notin p_todo' =>
           slots'[SlotIndex(write_pos)].body = write_pos
  PROVE  LossyInv'
<1> USE DEF LossyInv
<1>0. /\ write_pos \in Nat /\ read_pos \in Nat /\ write_cache \in Nat /\ MaxPushes \in Nat
      /\ SlotIndex(write_pos) \in 0..(Capacity - 1)
  <2>1. write_pos \in Nat /\ read_pos \in Nat /\ write_cache \in Nat
    BY DEF Inv, TypeOK
  <2> QED
    BY <2>1, SlotIndexInRing, LossyAssumption
<1>1. /\ write_pos' = write_pos /\ read_pos' = read_pos /\ write_cache' = write_cache /\ cpc' = cpc
      /\ gen1' = gen1 /\ c_body' = c_body /\ delivered' = delivered
  BY DEF consVars, readVars
<1> USE <1>0
<1>2. SlotIndex(write_pos)' = SlotIndex(write_pos) /\ SlotIndex(read_pos)' = SlotIndex(read_pos)
  BY <1>1 DEF SlotIndex
<1>3. Inv'
  <2>1. NeverOlder'
    BY <1>1 DEF Inv, NeverOlder, SlotIndex
  <2> QED
    BY <2>1 DEF Inv
<1>4. Positions'
  BY <1>1 DEF Positions, Lapped, Reading
<1>5. Payloads'
  <2>1. ASSUME NEW i \in 0..(Capacity - 1), slots'[i].body # Zeroed
        PROVE  SlotIndex(slots'[i].body) = i /\ slots'[i].body <= write_pos
    <3>1. CASE i # SlotIndex(write_pos)
      BY <2>1, <3>1 DEF Payloads
    <3>2. CASE i = SlotIndex(write_pos) /\ slots'[i].body = write_pos
      BY <3>2, <1>1
    <3>3. CASE i = SlotIndex(write_pos) /\ slots'[i].body = slots[i].body
      BY <2>1, <3>3 DEF Payloads
    <3> QED
      BY <3>1, <3>2, <3>3 DEF Slot
  <2>2. ASSUME NEW pos \in 0..(write_pos - 1)
        PROVE  slots'[SlotIndex(pos)].body >= pos
    <3>1. pos \in Nat /\ pos < write_pos /\ SlotIndex(pos) \in 0..(Capacity - 1)
      BY <1>1, SlotIndexInRing
    <3>2. Slot(pos).body >= pos
      BY DEF Payloads
    <3>3. CASE SlotIndex(pos) # SlotIndex(write_pos)
      BY <3>1, <3>2, <3>3 DEF Slot
    <3>4. CASE SlotIndex(pos) = SlotIndex(write_pos) /\ slots'[SlotIndex(pos)].body = write_pos
      BY <3>1, <3>4, <1>1
    <3>5. CASE SlotIndex(pos) = SlotIndex(write_pos)
               /\ slots'[SlotIndex(pos)].body = Slot(pos).body
      BY <3>2, <3>5
    <3> QED
      BY <3>3, <3>4, <3>5 DEF Slot
  <2> QED
    BY <1>1, <1>2, <2>1, <2>2 DEF Payloads, Slot, SlotIndex
<1>6. Copied'
  <2>1. CASE SlotIndex(read_pos) = SlotIndex(write_pos) /\ cpc \in Reading
    <3>1. write_pos - read_pos >= Capacity
      BY <1>1, <2>1, SameSlot DEF Positions
    <3> QED
      BY <3>1, <1>1, <1>2 DEF Copied, SlotIndex
  <2>2. CASE SlotIndex(read_pos) # SlotIndex(write_pos) /\ cpc \in Reading
    <3>1. SlotIndex(read_pos) \in 0..(Capacity - 1)
      BY <1>1, SlotIndexInRing
    <3>2. Slot(read_pos)' = Slot(read_pos)
      BY <2>2, <3>1, <1>2 DEF Slot
    <3> QED
      BY <3>2, <1>1 DEF Copied, SlotIndex
  <2>3. CASE cpc \notin Reading
    BY <2>3, <1>1 DEF Copied, Reading
  <2> QED
    BY <2>1, <2>2, <2>3
<1> QED
  BY <1>3, <1>4, <1>5, <1>6

(* Every step of the producer, a death in a push included, preserves the   *)
(* invariant.                                                              *)
LEMMA ProducerKeeps ==
  ASSUME LossyInv, PushBegin \/ ProducerStep \/ PCrash
  PROVE  LossyInv'
<1> USE DEF LossyInv, Inv
<1>0. TypeOK /\ Positions
  OBVIOUS
<1>1. ASSUME PushBegin PROVE LossyInv'
  <2>1. /\ ppc = "idle" /\ ppc' = "write" /\ write_pos < MaxPushes
        /\ p_gen' = Slot(write_pos).generation /\ p_todo' = Fields
        /\ UNCHANGED <<write_pos, slots, tso, p_died, crashes>> /\ UNCHANGED consVars
    BY <1>1 DEF PushBegin, Slot, Fields
  <2>2. p_gen' \in 0..(GenModulus - 1)
    <3>1. SlotIndex(write_pos) \in 0..(Capacity - 1)
      BY SlotIndexInRing DEF TypeOK
    <3> QED
      BY <2>1, <3>1 DEF TypeOK, Slot
  <2>3. TypeOK'
    BY <2>1, <2>2 DEF TypeOK, Fields, consVars, readVars
  <2>4. NeverOlder'
    BY <2>1 DEF NeverOlder, SlotIndex, consVars
  <2>5. Positions'
    BY <2>1 DEF Positions, Lapped, consVars
  <2>6. Payloads'
    BY <2>1 DEF Payloads, Slot, SlotIndex, Fields
  <2>7. Copied'
    BY <2>1 DEF Copied, Slot, SlotIndex, consVars, readVars
  <2> QED
    BY <2>3, <2>4, <2>5, <2>6, <2>7
<1>2. ASSUME NEW field \in Fields, PushStore(field) PROVE LossyInv'
  <2>1. /\ ppc = "write" /\ ppc' = "write" /\ field \in p_todo /\ p_todo' = p_todo \ {field}
        /\ UNCHANGED <<write_pos, p_gen, tso, p_died, crashes>> /\ UNCHANGED consVars
    BY <1>2 DEF PushStore
  <2>2. ppc = "write" => write_pos < MaxPushes
    BY DEF Positions
  <2>3. /\ slots' \in [0..(Capacity - 1) ->
                         [generation : 0..(GenModulus - 1), size : Zeroed..(MaxPushes - 1),
                          body : Zeroed..(MaxPushes - 1)]]
        /\ \A i \in 0..(Capacity - 1) : i # SlotIndex(write_pos) => slots'[i] = slots[i]
        /\ slots'[SlotIndex(write_pos)].body =
             IF field = "body" THEN write_pos ELSE Slot(write_pos).body
    BY <1>2, <2>2, StoreEffect
  <2>4. TypeOK'
    BY <2>1, <2>3 DEF TypeOK, consVars, readVars
  <2>5. slots'[SlotIndex(write_pos)].body \in {write_pos, Slot(write_pos).body}
    BY <2>3
  <2>6. "body" \notin p_todo' => slots'[SlotIndex(write_pos)].body = write_pos
    <3>1. CASE field = "body"
      BY <3>1, <2>3
    <3>2. CASE field # "body"
      BY <3>2, <2>1, <2>3 DEF Payloads
    <3> QED
      BY <3>1, <3>2
  <2>7. ppc' \in {"write", "publish"} /\ UNCHANGED <<write_pos, consVars>> /\ ppc' # "publish"
    BY <2>1
  <2> QED
    BY <2>1, <2>3, <2>4, <2>5, <2>6, <2>7, WriteKeeps
<1>3. ASSUME PushCommit PROVE LossyInv'
  <2>1. /\ ppc = "write" /\ ppc' = "publish" /\ p_todo = {} /\ p_todo' = p_todo
        /\ UNCHANGED <<write_pos, p_gen, tso, p_died, crashes>> /\ UNCHANGED consVars
    BY <1>3 DEF PushCommit
  <2>2. /\ slots' \in [0..(Capacity - 1) ->
                         [generation : 0..(GenModulus - 1), size : Zeroed..(MaxPushes - 1),
                          body : Zeroed..(MaxPushes - 1)]]
        /\ \A i \in 0..(Capacity - 1) : i # SlotIndex(write_pos) => slots'[i] = slots[i]
        /\ slots'[SlotIndex(write_pos)].body = Slot(write_pos).body
    BY <1>3, CommitEffect
  <2>3. TypeOK'
    BY <2>1, <2>2 DEF TypeOK, consVars, readVars
  <2>4. slots'[SlotIndex(write_pos)].body = write_pos
    BY <2>1, <2>2 DEF Payloads
  <2>5. ppc' \in {"write", "publish"} /\ UNCHANGED <<write_pos, consVars>>
    BY <2>1
  <2> QED
    BY <2>1, <2>2, <2>3, <2>4, <2>5, WriteKeeps
<1>4. ASSUME PushPublish PROVE LossyInv'
  <2>1. /\ ppc = "publish" /\ ppc' = "idle" /\ write_pos' = write_pos + 1
        /\ UNCHANGED <<slots, p_gen, p_todo, tso, p_died, crashes>> /\ UNCHANGED consVars
    BY <1>4 DEF PushPublish
  <2>2. /\ write_pos \in Nat /\ write_pos < MaxPushes /\ MaxPushes \in Nat /\ Capacity \in Nat
        /\ read_pos \in Nat /\ write_cache \in Nat
    BY <2>1, LossyAssumption DEF Positions, TypeOK
  <2>3. TypeOK'
    BY <2>1, <2>2 DEF TypeOK, consVars, readVars
  <2>4. NeverOlder'
    BY <2>1 DEF NeverOlder, SlotIndex, consVars
  <2>5. Positions'
    BY <2>1, <2>2 DEF Positions, Lapped, consVars
  <2>6. Payloads'
    <3>1. ASSUME NEW i \in 0..(Capacity - 1), slots[i].body # Zeroed
          PROVE  SlotIndex(slots[i].body) = i /\ slots[i].body <= write_pos + 1
      <4>1. slots[i].body \in Int /\ slots[i].body <= write_pos /\ SlotIndex(slots[i].body) = i
        BY <3>1 DEF Payloads, TypeOK, Zeroed
      <4> QED
        BY <4>1, <2>2
    <3>2. ASSUME NEW pos \in 0..write_pos PROVE Slot(pos).body >= pos
      <4>1. CASE pos = write_pos
        BY <4>1, <2>1, <2>2 DEF Payloads
      <4>2. CASE pos # write_pos
        BY <4>2, <2>2 DEF Payloads
      <4> QED
        BY <4>1, <4>2
    <3>3. 0..(write_pos' - 1) = 0..write_pos
      BY <2>1, <2>2
    <3> QED
      BY <2>1, <3>1, <3>2, <3>3 DEF Payloads, Slot, SlotIndex
  <2>7. Copied'
    BY <2>1, <2>2 DEF Copied, Slot, SlotIndex, consVars, readVars
  <2> QED
    BY <2>3, <2>4, <2>5, <2>6, <2>7
<1>5. ASSUME PCrash PROVE LossyInv'
  <2>1. /\ ppc' = "idle" /\ p_todo' = {} /\ p_died' = TRUE
        /\ crashes' = crashes + 1 /\ crashes < MaxCrashes
        /\ UNCHANGED <<write_pos, slots, p_gen, tso>> /\ UNCHANGED consVars
    BY <1>5 DEF PCrash
  <2>2. crashes' \in 0..MaxCrashes
    BY <2>1, LossyAssumption DEF TypeOK
  <2>3. TypeOK'
    <3>1. p_died' \in BOOLEAN
      BY <2>1
    <3> QED
      BY <2>1, <2>2, <3>1 DEF TypeOK, consVars, readVars
  <2>4. NeverOlder'
    BY <2>1 DEF NeverOlder, SlotIndex, consVars
  <2>5. Positions'
    BY <2>1 DEF Positions, Lapped, consVars
  <2>6. Payloads'
    BY <2>1 DEF Payloads, Slot, SlotIndex
  <2>7. Copied'
    BY <2>1 DEF Copied, Slot, SlotIndex, consVars, readVars
  <2> QED
    BY <2>3, <2>4, <2>5, <2>6, <2>7
<1> QED
  BY <1>1, <1>2, <1>3, <1>4, <1>5 DEF ProducerStep, Fields

-----------------------------------------------------------------------------
(***************************************************************************)
(* The steps of the consumer.                                              *)
(***************************************************************************)

(* What the producer and the slots are relied on for survives a step that  *)
(* leaves both alone.                                                      *)
LEMMA PayloadsUnchanged ==
  ASSUME Payloads, UNCHANGED <<write_pos, slots, prodVars>>
  PROVE  Payloads'
  BY DEF Payloads, Slot, SlotIndex, prodVars

(* A step of the consumer is type-correct when its own variables are.      *)
LEMMA ConsumerTypes ==
  ASSUME TypeOK, UNCHANGED <<write_pos, slots, prodVars>>,
         cpc' \in {"idle", "reload", "forward", "gen1", "size", "copy", "gen2", "resync", "release"},
         read_pos' \in 0..MaxPushes, write_cache' \in 0..MaxPushes,
         gen1' \in 0..(GenModulus - 1),
         c_size' \in Zeroed..(MaxPushes - 1), c_body' \in Zeroed..(MaxPushes - 1),
         delivered' \in [pos : Zeroed..(MaxPushes - 1), size : Zeroed..(MaxPushes - 1),
                         body : Zeroed..(MaxPushes - 1)],
         overwritten' \in BOOLEAN, crashes' \in 0..MaxCrashes
  PROVE  TypeOK'
  BY DEF TypeOK, prodVars

(* The slot the consumer reads has its message or a later one.             *)
LEMMA ReadSlot ==
  ASSUME LossyInv, cpc \in Reading
  PROVE  /\ read_pos \in Nat /\ write_pos \in Nat /\ write_cache \in Nat
         /\ read_pos < write_cache /\ write_cache <= write_pos /\ write_pos <= MaxPushes
         /\ Slot(read_pos) \in [generation : 0..(GenModulus - 1), size : Zeroed..(MaxPushes - 1),
                                 body : Zeroed..(MaxPushes - 1)]
         /\ Slot(read_pos).body >= read_pos
         /\ SlotIndex(Slot(read_pos).body) = SlotIndex(read_pos)
         /\ Slot(read_pos).body <= write_pos
<1>1. /\ read_pos \in Nat /\ write_pos \in Nat /\ write_cache \in Nat
      /\ read_pos < write_cache /\ write_cache <= write_pos /\ write_pos <= MaxPushes
  BY DEF LossyInv, Inv, TypeOK, Positions
<1>2. SlotIndex(read_pos) \in 0..(Capacity - 1) /\ read_pos \in 0..(write_pos - 1)
  BY <1>1, SlotIndexInRing
<1>3. Slot(read_pos) \in [generation : 0..(GenModulus - 1), size : Zeroed..(MaxPushes - 1),
                          body : Zeroed..(MaxPushes - 1)]
  BY <1>2 DEF LossyInv, Inv, TypeOK, Slot
<1>4. Slot(read_pos).body >= read_pos
  BY <1>2 DEF LossyInv, Payloads
<1>5. Slot(read_pos).body # Zeroed
  BY <1>1, <1>3, <1>4 DEF Zeroed
<1> QED
  BY <1>1, <1>2, <1>3, <1>4, <1>5 DEF LossyInv, Payloads, Slot

(* Every step of the consumer, its restart included, preserves the         *)
(* invariant, and moves read_pos forward or leaves it.                     *)
LEMMA ConsumerKeeps ==
  ASSUME LossyInv, ConsumerStep \/ PopReadLate \/ CCrash
  PROVE  LossyInv' /\ read_pos' >= read_pos /\ read_pos' <= write_pos'
<1> DEFINE Goal == LossyInv' /\ read_pos' >= read_pos /\ read_pos' <= write_pos'
<1> USE DEF LossyInv, Inv
<1>0. TypeOK /\ Positions /\ Payloads /\ NeverOlder
  OBVIOUS
<1>t. /\ read_pos \in 0..MaxPushes /\ write_pos \in 0..MaxPushes /\ write_cache \in 0..MaxPushes
      /\ read_pos <= write_cache /\ write_cache <= write_pos
      /\ MaxPushes \in Nat /\ Capacity \in Nat /\ Capacity >= 1
  BY LossyAssumption DEF TypeOK, Positions
<1>u. /\ gen1 \in 0..(GenModulus - 1)
      /\ c_size \in Zeroed..(MaxPushes - 1) /\ c_body \in Zeroed..(MaxPushes - 1)
      /\ delivered \in [pos : Zeroed..(MaxPushes - 1), size : Zeroed..(MaxPushes - 1),
                        body : Zeroed..(MaxPushes - 1)]
      /\ crashes \in 0..MaxCrashes
  BY DEF TypeOK
<1>v. overwritten \in BOOLEAN
  BY DEF TypeOK
<1>1. ASSUME PopBegin \/ PopReload PROVE Goal
  <2>1. /\ UNCHANGED <<write_pos, slots, prodVars>>
        /\ UNCHANGED <<read_pos, gen1, c_size, c_body, delivered, overwritten, crashes>>
        /\ write_cache' \in {write_cache, write_pos}
        /\ \/ cpc' \in {"idle", "reload"}
           \/ cpc' = "gen1" /\ read_pos # write_cache'
           \/ cpc' = "forward" /\ write_cache' - read_pos > Capacity
    BY <1>1 DEF PopBegin, PopReload, Proceed, Lapped, readVars
  <2>2. TypeOK'
    BY <2>1, <1>0, <1>t, <1>u, <1>v, ConsumerTypes
  <2>3. Payloads'
    BY <2>1, <1>0, PayloadsUnchanged
  <2>4. NeverOlder'
    BY <2>1, <1>0 DEF NeverOlder, SlotIndex
  <2>5. Positions'
    <3>0. /\ write_cache' \in Int /\ read_pos <= write_cache' /\ write_cache' <= write_pos
          /\ read_pos' = read_pos /\ write_pos' = write_pos
      BY <2>1, <1>t
    <3>a. cpc' = "forward" => write_cache' - read_pos > Capacity
      BY <2>1
    <3>b. cpc' = "gen1" => read_pos # write_cache'
      BY <2>1
    <3>c. read_pos \in Int /\ (read_pos # write_cache' => read_pos < write_cache')
      BY <3>0, <1>t
    <3>1. /\ read_pos' <= write_cache' /\ write_cache' <= write_pos'
          /\ cpc' = "forward" => write_cache' - read_pos' > Capacity
          /\ cpc' = "gen1" => read_pos' < write_cache'
      BY <3>0, <3>a, <3>b, <3>c
    <3>2. ppc' # "idle" => write_pos' < MaxPushes
      BY <2>1, <1>0 DEF Positions, prodVars
    <3>3. cpc' \in Reading => cpc' = "gen1"
      BY <2>1 DEF Reading
    <3> QED
      BY <3>1, <3>2, <3>3 DEF Positions, Lapped
  <2>6. Copied'
    BY <2>1 DEF Copied
  <2> QED
    BY <2>1, <2>2, <2>3, <2>4, <2>5, <2>6, <1>t
<1>2. ASSUME PopForward PROVE Goal
  <2>1. /\ UNCHANGED <<write_pos, slots, prodVars>>
        /\ UNCHANGED <<write_cache, gen1, c_size, c_body, delivered, crashes>>
        /\ cpc = "forward" /\ cpc' = "idle"
        /\ read_pos' = write_cache - Capacity
    BY <1>2 DEF PopForward, readVars
  <2>a. overwritten' \in BOOLEAN
    BY <1>2 DEF PopForward
  <2>b. write_cache - read_pos > Capacity
    BY <2>1 DEF Positions, Lapped
  <2>c. read_pos' \in 0..MaxPushes /\ read_pos' <= write_cache /\ read_pos' >= read_pos
    BY <2>1, <2>b, <1>t
  <2>2. TypeOK'
    BY <2>1, <2>a, <2>c, <1>0, <1>t, <1>u, ConsumerTypes
  <2>3. Payloads'
    BY <2>1, <1>0, PayloadsUnchanged
  <2>4. NeverOlder'
    BY <2>1, <1>0 DEF NeverOlder, SlotIndex
  <2>5. Positions'
    BY <2>1, <2>c, <1>0, <1>t DEF Positions, Reading, prodVars
  <2>6. Copied'
    BY <2>1 DEF Copied
  <2> QED
    BY <2>1, <2>c, <2>2, <2>3, <2>4, <2>5, <2>6, <1>t
<1>3. ASSUME PopGen1 \/ PopSize \/ PopCopy \/ PopGen2 \/ PopReadLate PROVE Goal
  <2>0. cpc \in Reading
    BY <1>3 DEF PopGen1, PopSize, PopCopy, PopGen2, PopReadLate, Reading
  <2>1. /\ UNCHANGED <<write_pos, slots, prodVars>>
        /\ UNCHANGED <<read_pos, write_cache, delivered, overwritten, crashes>>
        /\ cpc' \in Reading \cup {"idle"} /\ cpc' # "gen1"
        /\ gen1' \in {gen1, Slot(read_pos).generation}
        /\ c_size' \in {c_size, Slot(read_pos).size}
        /\ c_body' \in {c_body, Slot(read_pos).body}
    BY <1>3 DEF PopGen1, PopSize, PopCopy, PopGen2, PopReadLate, readVars, Reading, Slot
  <2>2. TypeOK'
    <3>1. /\ gen1' \in 0..(GenModulus - 1)
          /\ c_size' \in Zeroed..(MaxPushes - 1) /\ c_body' \in Zeroed..(MaxPushes - 1)
      BY <2>0, <2>1, <1>u, ReadSlot
    <3>2. cpc' \in {"idle", "reload", "forward", "gen1", "size", "copy", "gen2", "resync", "release"}
      BY <2>1 DEF Reading
    <3> QED
      BY <2>1, <3>1, <3>2, <1>0, <1>t, <1>u, <1>v, ConsumerTypes
  <2>3. Payloads'
    BY <2>1, <1>0, PayloadsUnchanged
  <2>4. NeverOlder'
    BY <2>1, <1>0 DEF NeverOlder, SlotIndex
  <2>5. Positions'
    <3>1. read_pos < write_cache
      BY <2>0, ReadSlot
    <3> QED
      BY <2>1, <3>1, <1>0, <1>t DEF Positions, Reading, prodVars
  <2>6. Copied'
    <3>0. Slot(read_pos)' = Slot(read_pos) /\ SlotIndex(read_pos)' = SlotIndex(read_pos)
      BY <2>1 DEF Slot, SlotIndex
    <3>1. cpc' \in {"size", "copy", "gen2"} /\ Slot(read_pos).generation # gen1' =>
            write_pos - read_pos >= Capacity
      <4>1. CASE PopGen1
        BY <4>1 DEF PopGen1, Slot
      <4>2. CASE PopSize \/ PopCopy \/ PopGen2 \/ PopReadLate
        BY <4>2 DEF PopSize, PopCopy, PopGen2, PopReadLate, readVars, Copied
      <4> QED
        BY <1>3, <4>1, <4>2
    <3>2. cpc' = "resync" => write_pos - read_pos >= Capacity
      BY <1>3 DEF PopGen1, PopSize, PopCopy, PopGen2, PopReadLate, Copied, Slot
    <3>3. cpc' \in {"gen2", "release"} =>
            c_body' >= read_pos /\ SlotIndex(c_body') = SlotIndex(read_pos)
      <4>1. CASE PopGen1 \/ PopSize
        BY <4>1 DEF PopGen1, PopSize
      <4>2. CASE PopCopy
        BY <4>2, <2>0, ReadSlot DEF PopCopy, Slot
      <4>3. CASE PopGen2
        BY <4>3 DEF PopGen2, readVars, Copied
      <4>4. CASE PopReadLate
        <5>1. c_body' \in {c_body, Slot(read_pos).body} /\ cpc = "release"
          BY <4>4 DEF PopReadLate, Slot
        <5> QED
          BY <5>1, <2>0, ReadSlot DEF Copied
      <4> QED
        BY <1>3, <4>1, <4>2, <4>3, <4>4
    <3> QED
      BY <2>1, <3>0, <3>1, <3>2, <3>3 DEF Copied, SlotIndex
  <2> QED
    BY <2>1, <2>2, <2>3, <2>4, <2>5, <2>6, <1>t
<1>4. ASSUME PopResync PROVE Goal
  <2>1. /\ UNCHANGED <<write_pos, slots, prodVars>>
        /\ UNCHANGED <<gen1, c_size, c_body, delivered, crashes>>
        /\ cpc = "resync" /\ cpc' = "idle"
        /\ write_cache' = write_pos
        /\ read_pos' = IF write_pos > Capacity THEN write_pos - Capacity ELSE write_pos
    BY <1>4 DEF PopResync, ResyncPos, readVars
  <2>a. overwritten' \in BOOLEAN
    BY <1>4 DEF PopResync
  <2>b. write_pos - read_pos >= Capacity
    BY <2>1 DEF Copied
  <2>c. read_pos' \in 0..MaxPushes /\ read_pos' <= write_pos /\ read_pos' >= read_pos
    BY <2>1, <2>b, <1>t
  <2>2. TypeOK'
    BY <2>1, <2>a, <2>c, <1>0, <1>t, <1>u, ConsumerTypes
  <2>3. Payloads'
    BY <2>1, <1>0, PayloadsUnchanged
  <2>4. NeverOlder'
    BY <2>1, <1>0 DEF NeverOlder, SlotIndex
  <2>5. Positions'
    BY <2>1, <2>c, <1>0, <1>t DEF Positions, Reading, prodVars
  <2>6. Copied'
    BY <2>1 DEF Copied
  <2> QED
    BY <2>1, <2>c, <2>2, <2>3, <2>4, <2>5, <2>6, <1>t
<1>5. ASSUME PopRelease PROVE Goal
  <2>1. /\ UNCHANGED <<write_pos, slots, prodVars>>
        /\ UNCHANGED <<write_cache, gen1, c_size, c_body, crashes>>
        /\ cpc = "release" /\ cpc' = "idle"
        /\ read_pos' = read_pos + 1
        /\ delivered' = [pos |-> read_pos, size |-> c_size, body |-> c_body]
    BY <1>5 DEF PopRelease, readVars
  <2>a. overwritten' \in BOOLEAN
    BY <1>5 DEF PopRelease
  <2>b. read_pos < write_cache
    BY <2>1, ReadSlot DEF Reading
  <2>c. /\ read_pos' \in 0..MaxPushes /\ read_pos' <= write_cache /\ read_pos' >= read_pos
        /\ read_pos \in Zeroed..(MaxPushes - 1)
    BY <2>1, <2>b, <1>t DEF Zeroed
  <2>d. delivered' \in [pos : Zeroed..(MaxPushes - 1), size : Zeroed..(MaxPushes - 1),
                        body : Zeroed..(MaxPushes - 1)]
    BY <2>1, <2>c, <1>u
  <2>2. TypeOK'
    BY <2>1, <2>a, <2>c, <2>d, <1>0, <1>t, <1>u, ConsumerTypes
  <2>3. Payloads'
    BY <2>1, <1>0, PayloadsUnchanged
  <2>4. NeverOlder'
    <3>1. c_body >= read_pos /\ SlotIndex(c_body) = SlotIndex(read_pos)
      BY <2>1 DEF Copied
    <3> QED
      BY <2>1, <3>1 DEF NeverOlder, SlotIndex
  <2>5. Positions'
    BY <2>1, <2>c, <1>0, <1>t DEF Positions, Reading, prodVars
  <2>6. Copied'
    BY <2>1 DEF Copied
  <2> QED
    BY <2>1, <2>c, <2>2, <2>3, <2>4, <2>5, <2>6, <1>t
<1>6. ASSUME CCrash PROVE Goal
  <2>1. /\ UNCHANGED <<write_pos, slots, prodVars>>
        /\ UNCHANGED <<read_pos, gen1, c_size, c_body, delivered, overwritten>>
        /\ cpc' = "idle" /\ write_cache' = write_pos
        /\ crashes' = crashes + 1 /\ crashes < MaxCrashes
    BY <1>6 DEF CCrash, readVars
  <2>a. crashes' \in 0..MaxCrashes
    BY <2>1, <1>u, LossyAssumption
  <2>2. TypeOK'
    BY <2>1, <2>a, <1>0, <1>t, <1>u, <1>v, ConsumerTypes
  <2>3. Payloads'
    BY <2>1, <1>0, PayloadsUnchanged
  <2>4. NeverOlder'
    BY <2>1, <1>0 DEF NeverOlder, SlotIndex
  <2>5. Positions'
    BY <2>1, <1>0, <1>t DEF Positions, Reading, prodVars
  <2>6. Copied'
    BY <2>1 DEF Copied
  <2> QED
    BY <2>1, <2>2, <2>3, <2>4, <2>5, <2>6, <1>t
<1> QED
  BY <1>1, <1>2, <1>3, <1>4, <1>5, <1>6 DEF ConsumerStep

-----------------------------------------------------------------------------
(***************************************************************************)
(* The lossy ring never goes back.                                         *)
(***************************************************************************)

(* Steps of Next, and stuttering, preserve the invariant and move the      *)
(* consumer forward.                                                       *)
LEMMA NextKeeps ==
  ASSUME LossyInv, [Next]_vars
  PROVE  LossyInv' /\ (Next => read_pos' >= read_pos /\ read_pos' <= write_pos')
<1>1. CASE PushBegin \/ ProducerStep \/ PCrash
  <2>1. LossyInv'
    BY <1>1, ProducerKeeps
  <2>2. read_pos' = read_pos
    BY <1>1 DEF PushBegin, ProducerStep, PushStore, PushCommit, PushPublish, PCrash, consVars
  <2>3. read_pos' \in Int /\ read_pos' <= write_cache' /\ write_cache' <= write_pos'
        /\ write_cache' \in Int /\ write_pos' \in Int
    BY <2>1 DEF LossyInv, Inv, TypeOK, Positions
  <2> QED
    BY <2>1, <2>2, <2>3
<1>2. CASE ConsumerStep \/ PopReadLate \/ CCrash
  BY <1>2, ConsumerKeeps
<1>3. CASE UNCHANGED vars
  <2>1. UNCHANGED <<write_pos, slots, prodVars>> /\ UNCHANGED consVars /\ UNCHANGED crashes
    BY <1>3 DEF vars
  <2>2. TypeOK'
    BY <2>1 DEF LossyInv, Inv, TypeOK, prodVars, consVars, readVars
  <2>3. Payloads'
    BY <2>1, PayloadsUnchanged DEF LossyInv
  <2>4. NeverOlder'
    BY <2>1 DEF LossyInv, Inv, NeverOlder, consVars, SlotIndex
  <2>5. Positions'
    BY <2>1 DEF LossyInv, Positions, Lapped, consVars, prodVars
  <2>6. Copied'
    BY <2>1 DEF LossyInv, Copied, Slot, SlotIndex, consVars, readVars
  <2>7. LossyInv'
    BY <2>2, <2>3, <2>4, <2>5, <2>6 DEF LossyInv, Inv
  <2>8. read_pos' = read_pos /\ read_pos' \in Int /\ write_pos' \in Int /\ write_cache' \in Int
        /\ read_pos' <= write_cache' /\ write_cache' <= write_pos'
    BY <2>1, <2>7 DEF LossyInv, Inv, TypeOK, Positions, consVars
  <2> QED
    BY <2>7, <2>8
<1> QED
  BY <1>1, <1>2, <1>3 DEF Next

(* The invariant holds in every state of the lossy ring, whatever the      *)
(* order of the stores and whoever dies (spsc_bus.hpp:479-526, 601-623).   *)
THEOREM LossyInvariant == Spec => []LossyInv
<1>1. Init => LossyInv
  BY InitInv
<1>2. LossyInv /\ [Next]_vars => LossyInv'
  BY NextKeeps
<1> QED
  BY <1>1, <1>2, PTL DEF Spec

(* What try_pop_lossy delivers for a position is the message of that       *)
(* position or a later one of the same slot, never an older one.           *)
THEOREM LossyNeverOlder == Spec => []Inv
<1>1. LossyInv => Inv
  BY DEF LossyInv
<1> QED
  BY <1>1, LossyInvariant, PTL

(* Neither a fast-forward, a resynchronisation nor a restart takes the     *)
(* consumer back to positions it has passed or beyond the producer.        *)
THEOREM LossyNeverBack == Spec => NeverBack
<1>1. LossyInv /\ [Next]_vars => [read_pos' >= read_pos /\ read_pos' <= write_pos']_vars
  BY NextKeeps
<1> QED
  BY <1>1, LossyInvariant, PTL DEF Spec, NeverBack

-----------------------------------------------------------------------------
(***************************************************************************)
(* Rounds and generations.                                                 *)
(***************************************************************************)

(* Quotient and remainder are determined by their equation.                *)
LEMMA DivModUnique ==
  ASSUME NEW c \in Nat \ {0}, NEW p \in Nat, NEW k \in Int, NEW r \in 0..(c - 1), p = c * k + r
  PROVE  p \div c = k /\ p % c = r
<1>1. PICK j \in Nat, u \in 0..(c - 1) : j = p \div c /\ u = p % c /\ p = c * j + u
  <2>1. p % c \in 0..(c - 1) /\ p \div c \in Nat /\ p = c * (p \div c) + (p % c)
    BY DivMod, Zenon
  <2> QED
    BY <2>1, Zenon
<1> DEFINE d == k - j
<1>2. d \in Int /\ c * d = u - r
  BY <1>1
<1>3. ~(d >= 1)
  <2> SUFFICES ASSUME d >= 1 PROVE FALSE
    OBVIOUS
  <2>1. c * d >= c
    BY <1>2, MulGe
  <2> QED
    BY <1>1, <1>2, <2>1
<1>4. ~(d <= -1)
  <2> SUFFICES ASSUME d <= -1 PROVE FALSE
    OBVIOUS
  <2>1. -d \in Int /\ -d >= 1
    BY <1>2
  <2>2. c * (-d) >= c
    BY <2>1, MulGe
  <2>3. c * (-d) = -(c * d)
    BY <1>2
  <2> QED
    BY <1>1, <1>2, <2>2, <2>3
<1>5. d = 0
  BY <1>2, <1>3, <1>4
<1> QED
  BY <1>1, <1>2, <1>5

(* Rounds are counted from zero.                                           *)
LEMMA RoundNat ==
  ASSUME NEW p \in Nat
  PROVE  Round(p) \in Nat /\ p = Capacity * Round(p) + SlotIndex(p)
  BY DivMod, LossyAssumption DEF Round, SlotIndex

(* The first round.                                                        *)
LEMMA FirstRound ==
  ASSUME NEW p \in Nat, p < Capacity
  PROVE  Round(p) = 0
<1>1. p = Capacity * 0 + p /\ p \in 0..(Capacity - 1)
  BY LossyAssumption
<1> QED
  BY <1>1, DivModUnique, LossyAssumption DEF Round

(* A ring back is the same slot, a round earlier.                          *)
LEMMA RoundBefore ==
  ASSUME NEW p \in Nat, p >= Capacity
  PROVE  /\ p - Capacity \in Nat
         /\ SlotIndex(p - Capacity) = SlotIndex(p)
         /\ Round(p - Capacity) = Round(p) - 1
<1>1. Round(p) \in Nat /\ p = Capacity * Round(p) + SlotIndex(p)
  BY RoundNat
<1>2. SlotIndex(p) \in 0..(Capacity - 1)
  BY SlotIndexInRing
<1>3. Capacity \in Nat \ {0}
  BY LossyAssumption
<1>4. p - Capacity \in Nat /\ p - Capacity = Capacity * (Round(p) - 1) + SlotIndex(p)
  BY <1>1, <1>2, <1>3
<1>5. (p - Capacity) \div Capacity = Round(p) - 1 /\ (p - Capacity) % Capacity = SlotIndex(p)
  BY <1>1, <1>2, <1>3, <1>4, DivModUnique
<1> QED
  BY <1>4, <1>5 DEF Round, SlotIndex

(* Positions of one slot are ordered as their rounds are, and lie a whole  *)
(* number of rings apart.                                                  *)
LEMMA RoundsOfSlot ==
  ASSUME NEW p \in Nat, NEW q \in Nat, SlotIndex(p) = SlotIndex(q)
  PROVE  /\ q - p = Capacity * (Round(q) - Round(p))
         /\ p <= q => Round(p) <= Round(q)
         /\ p < q => Round(p) < Round(q)
<1>1. /\ Round(p) \in Nat /\ p = Capacity * Round(p) + SlotIndex(p)
      /\ Round(q) \in Nat /\ q = Capacity * Round(q) + SlotIndex(q)
      /\ SlotIndex(p) \in Int
  BY RoundNat, SlotIndexInRing
<1>2. Capacity \in Nat \ {0}
  BY LossyAssumption
<1> DEFINE d == Round(p) - Round(q)
<1>3. d \in Int /\ p - q = Capacity * d /\ q - p = Capacity * (Round(q) - Round(p))
  BY <1>1, <1>2
<1>4. d >= 1 => Capacity * d >= Capacity
  BY <1>2, <1>3, MulGe
<1>5. p <= q => Round(p) <= Round(q)
  BY <1>1, <1>2, <1>3, <1>4
<1>6. Round(p) = Round(q) => p = q
  BY <1>1
<1> QED
  BY <1>1, <1>3, <1>5, <1>6

(* The generation is counted modulo an even number.                        *)
LEMMA Halves ==
  /\ GenModulus \in Nat \ {0} /\ GenModulus \div 2 \in Nat \ {0}
  /\ GenModulus = 2 * (GenModulus \div 2)
<1>1. GenModulus \in Nat \ {0} /\ GenModulus % 2 = 0
  BY LossyAssumption
<1> QED
  BY <1>1

(* Twice a number, counted modulo 2 * h, is even and leaves room for one.  *)
LEMMA EvenRemainder ==
  ASSUME NEW h \in Nat \ {0}, NEW k \in Nat, NEW m \in Nat, NEW g \in 0..(2 * h - 1),
         2 * k = (2 * h) * m + g
  PROVE  g % 2 = 0 /\ (g + 1) % 2 # 0 /\ g + 2 <= 2 * h
<1> DEFINE e == k - h * m
<1>1. e \in Int
  OBVIOUS
<1>2. g = 2 * e
  OBVIOUS
<1> HIDE DEF e
<1> QED
  BY <1>1, <1>2

(* The generations of a push: even before, odd in between, even after, and *)
(* the last is the one of the next round.                                  *)
LEMMA Generations ==
  ASSUME NEW k \in Nat
  PROVE  /\ (2 * k) % GenModulus \in Nat /\ ((2 * k) % GenModulus) % 2 = 0
         /\ ((((2 * k) % GenModulus) + 1) % GenModulus) % 2 # 0
         /\ (((2 * k) % GenModulus) + 2) % GenModulus = (2 * k + 2) % GenModulus
<1>1. PICK h \in Nat \ {0} : GenModulus = 2 * h
  BY Halves
<1>2. PICK c \in Nat \ {0} : c = GenModulus
  BY Halves
<1>3. PICK n \in Nat : n = 2 * k
  OBVIOUS
<1>4. PICK g \in 0..(c - 1), m \in Nat : g = n % c /\ n = c * m + g
  <2>1. n % c \in 0..(c - 1) /\ n \div c \in Nat /\ n = c * (n \div c) + (n % c)
    BY DivMod, Zenon
  <2> QED
    BY <2>1, Zenon
<1>5. g % 2 = 0 /\ (g + 1) % 2 # 0 /\ g + 2 <= c
  <2>1. g \in 0..(2 * h - 1) /\ 2 * k = (2 * h) * m + g
    BY <1>1, <1>2, <1>3, <1>4
  <2>2. g % 2 = 0 /\ (g + 1) % 2 # 0 /\ g + 2 <= 2 * h
    BY <2>1, EvenRemainder
  <2> QED
    BY <1>1, <1>2, <2>2
<1>6. (g + 1) % c = g + 1
  <2>1. g + 1 \in Nat /\ g + 1 \in 0..(c - 1) /\ g + 1 = c * 0 + (g + 1)
    BY <1>4, <1>5
  <2> QED
    BY <2>1, DivModUnique
<1>7. (g + 2) % c = (n + 2) % c
  <2>1. CASE g + 2 < c
    <3>1. /\ g + 2 \in Nat /\ n + 2 \in Nat /\ g + 2 \in 0..(c - 1)
          /\ g + 2 = c * 0 + (g + 2) /\ n + 2 = c * m + (g + 2)
      BY <1>4, <2>1
    <3>2. (g + 2) % c = g + 2
      BY <3>1, DivModUnique
    <3>3. (n + 2) % c = g + 2
      <4>1. PICK q \in Nat, r \in 0..(c - 1), j \in Int :
              q = n + 2 /\ r = g + 2 /\ j = m /\ q = c * j + r
        BY <3>1
      <4>2. q % c = r
        BY <4>1, DivModUnique
      <4> QED
        BY <4>1, <4>2
    <3> QED
      BY <3>2, <3>3
  <2>2. CASE g + 2 = c
    <3>1. /\ g + 2 \in Nat /\ n + 2 \in Nat /\ 0 \in 0..(c - 1) /\ m + 1 \in Int
          /\ g + 2 = c * 1 + 0 /\ n + 2 = c * (m + 1) + 0
      BY <1>4, <2>2
    <3>2. (g + 2) % c = 0
      BY <3>1, DivModUnique
    <3>3. (n + 2) % c = 0
      BY <3>1, DivModUnique
    <3> QED
      BY <3>2, <3>3
  <2> QED
    BY <1>4, <1>5, <2>1, <2>2
<1>8. g \in Nat /\ g % 2 = 0 /\ ((g + 1) % c) % 2 # 0 /\ (g + 2) % c = (n + 2) % c
  BY <1>4, <1>5, <1>6, <1>7
<1> QED
  BY <1>2, <1>3, <1>4, <1>8, Zenon

(* Rounds less than half the range of the generation apart have different  *)
(* generations.                                                            *)
LEMMA GenerationsDiffer ==
  ASSUME NEW r \in Nat, NEW t \in Nat, r <= t, t - r < GenModulus \div 2,
         (2 * r + 2) % GenModulus = (2 * t + 2) % GenModulus
  PROVE  r = t
<1> SUFFICES ASSUME r < t PROVE FALSE
  OBVIOUS
<1>1. PICK c \in Nat \ {0} : c = GenModulus
  BY Halves
<1>2. GenModulus = 2 * (GenModulus \div 2) /\ GenModulus \div 2 \in Nat
  BY Halves
<1>3. 2 * r + 2 \in Nat /\ 2 * t + 2 \in Nat /\ 2 * r + 2 < 2 * t + 2
  OBVIOUS
<1>4. (2 * t + 2) - (2 * r + 2) >= GenModulus
  BY <1>1, <1>3, SameMod
<1> QED
  BY <1>2, <1>4

-----------------------------------------------------------------------------
(***************************************************************************)
(* The seqlock.                                                            *)
(***************************************************************************)

(* In the zeroed segment every slot is even and empty.                     *)
LEMMA InitSeqlock == Init => SeqlockInv
<1> SUFFICES ASSUME Init PROVE Seqlock /\ CopyChecked
  BY DEF SeqlockInv
<1>1. \A i \in 0..(Capacity - 1) :
        slots[i].generation = 0 /\ slots[i].size = Zeroed /\ slots[i].body = Zeroed
  BY DEF Init
<1>2. write_pos = 0 /\ ppc = "idle" /\ cpc = "idle" /\ 0 % 2 = 0
  BY DEF Init
<1>3. Seqlock
  BY <1>1, <1>2 DEF Seqlock, Even, Generation, Zeroed
<1> QED
  BY <1>2, <1>3 DEF CopyChecked

(* Before a push the slot of write_pos holds the message of the round      *)
(* before, or none in the first round; its generation follows.             *)
LEMMA SlotBeforePush ==
  ASSUME LossyInv, Seqlock, ppc = "idle"
  PROVE  /\ Even(Slot(write_pos)) /\ Slot(write_pos).body # write_pos
         /\ Slot(write_pos).generation = (2 * Round(write_pos)) % GenModulus
<1>0. write_pos \in Nat
  BY DEF LossyInv, Inv, TypeOK
<1>1. write_pos \in Nat /\ SlotIndex(write_pos) \in 0..(Capacity - 1) /\ Capacity \in Nat \ {0}
  BY <1>0, SlotIndexInRing, LossyAssumption
<1> DEFINE b == Slot(write_pos).body
<1>2. Even(Slot(write_pos)) /\ b # write_pos /\ Slot(write_pos).generation = Generation(b)
  BY <1>1 DEF Seqlock, Slot
<1>3. b \in Int /\ b >= Zeroed
  BY <1>1, LossyAssumption DEF LossyInv, Inv, TypeOK, Slot, Zeroed
<1>4. Generation(b) = (2 * Round(write_pos)) % GenModulus
  <2>1. CASE write_pos < Capacity
    <3>1. b = Zeroed
      <4> SUFFICES ASSUME b # Zeroed PROVE FALSE
        OBVIOUS
      <4>1. b \in Nat /\ SlotIndex(b) = SlotIndex(write_pos) /\ b <= write_pos
        BY <1>1, <1>3 DEF LossyInv, Payloads, Slot, Zeroed
      <4>2. write_pos - b >= Capacity
        BY <1>1, <1>2, <4>1, SameSlot
      <4> QED
        BY <1>1, <2>1, <4>1, <4>2
    <3>2. Round(write_pos) = 0
      BY <1>1, <2>1, FirstRound
    <3>3. (2 * 0) % GenModulus = 0
      BY Halves
    <3> QED
      BY <3>1, <3>2, <3>3 DEF Generation
  <2>2. CASE write_pos >= Capacity
    <3> DEFINE p == write_pos - Capacity
    <3>1. p \in Nat /\ SlotIndex(p) = SlotIndex(write_pos) /\ Round(p) = Round(write_pos) - 1
      BY <1>1, <2>2, RoundBefore
    <3>2. b >= p
      <4>1. p \in 0..(write_pos - 1)
        BY <1>1, <3>1
      <4>2. Slot(p).body >= p
        BY <4>1 DEF LossyInv, Payloads
      <4> QED
        BY <3>1, <4>2 DEF Slot
    <3>3. b \in Nat /\ SlotIndex(b) = SlotIndex(write_pos) /\ b <= write_pos
      BY <1>1, <1>3, <3>1, <3>2 DEF LossyInv, Payloads, Slot, Zeroed
    <3>4. write_pos - b >= Capacity
      BY <1>1, <1>2, <3>3, SameSlot
    <3>5. b = p
      BY <1>1, <3>2, <3>3, <3>4
    <3>6. b # Zeroed /\ Round(b) = Round(write_pos) - 1
      BY <3>1, <3>3, <3>5 DEF Zeroed
    <3>7. 2 * Round(b) + 2 = 2 * Round(write_pos)
      <4>1. Round(write_pos) \in Nat
        BY <1>1, RoundNat
      <4> QED
        BY <3>6, <4>1
    <3> QED
      BY <3>6, <3>7 DEF Generation
  <2> QED
    BY <1>1, <2>1, <2>2
<1> QED
  BY <1>2, <1>4

(* A step that leaves the producer and the slots alone keeps the           *)
(* producer's half.                                                        *)
LEMMA SeqlockUnchanged ==
  ASSUME Seqlock, UNCHANGED <<write_pos, slots, prodVars>>
  PROVE  Seqlock'
  BY DEF Seqlock, Even, Generation, Round, Slot, SlotIndex, prodVars

(* A step that leaves the consumer alone keeps the release state, since    *)
(* the producer only gets further ahead.                                   *)
LEMMA ReleaseKept ==
  ASSUME LossyInv, LossyInv', write_pos' >= write_pos, UNCHANGED consVars,
         cpc = "release" => c_size = c_body \/ WrappedAround
  PROVE  cpc' = "release" => c_size' = c_body' \/ WrappedAround'
<1>1. write_pos \in Int /\ write_pos' \in Int /\ read_pos \in Int
  BY DEF LossyInv, Inv, TypeOK
<1>2. PICK n \in Int : n = Capacity * (GenModulus \div 2)
  BY Halves, LossyAssumption
<1>3. cpc' = cpc /\ c_size' = c_size /\ c_body' = c_body /\ read_pos' = read_pos
  BY DEF consVars, readVars
<1> QED
  BY <1>1, <1>2, <1>3 DEF WrappedAround

(* The copy of a round survives a step of the producer elsewhere.          *)
LEMMA CopyKept ==
  ASSUME NEW r \in Nat, CopyOfRound(r), UNCHANGED consVars, Slot(read_pos)' = Slot(read_pos),
         ppc' = "write" /\ SlotIndex(write_pos') = SlotIndex(read_pos) => r < Round(write_pos')
  PROVE  CopyOfRound(r)'
<1>1. /\ cpc' = cpc /\ c_size' = c_size /\ c_body' = c_body /\ read_pos' = read_pos /\ gen1' = gen1
      /\ SlotIndex(read_pos)' = SlotIndex(read_pos) /\ Round(read_pos)' = Round(read_pos)
      /\ SlotIndex(write_pos)' = SlotIndex(write_pos') /\ Round(write_pos)' = Round(write_pos')
  BY DEF consVars, readVars, SlotIndex, Round
<1> QED
  BY <1>1 DEF CopyOfRound, Even, Round

(* Beginning a push: the slot is in the round before.                      *)
LEMMA BeginSeqlock ==
  ASSUME LossyInv, LossyInv', Seqlock, CopyChecked, PushBegin
  PROVE  Seqlock' /\ CopyChecked'
<1>1. /\ ppc = "idle" /\ ppc' = "write" /\ write_pos' = write_pos /\ slots' = slots
      /\ p_gen' = Slot(write_pos).generation /\ p_todo' = Fields /\ UNCHANGED consVars
  BY DEF PushBegin, Slot, Fields
<1>2. /\ Even(Slot(write_pos)) /\ Slot(write_pos).body # write_pos
      /\ Slot(write_pos).generation = (2 * Round(write_pos)) % GenModulus
  BY <1>1, SlotBeforePush
<1>3. Seqlock'
  <2>1. \A i \in 0..(Capacity - 1) :
          Even(slots[i]) /\ slots[i].size = slots[i].body
          /\ slots[i].generation = Generation(slots[i].body)
    BY <1>1 DEF Seqlock
  <2>2. "generation" \in p_todo' /\ "size" \in p_todo'
    BY <1>1 DEF Fields
  <2> QED
    BY <1>1, <1>2, <2>1, <2>2 DEF Seqlock, Even, Generation, Round, Slot, SlotIndex
<1>4. cpc \in {"size", "copy", "gen2"} => \E r \in Nat : CopyOfRound(r)'
  <2> SUFFICES ASSUME cpc \in {"size", "copy", "gen2"} PROVE \E r \in Nat : CopyOfRound(r)'
    OBVIOUS
  <2>1. PICK r \in Nat : CopyOfRound(r)
    BY DEF CopyChecked
  <2>2. Slot(read_pos)' = Slot(read_pos)
    BY <1>1 DEF Slot, SlotIndex, consVars
  <2>3. SlotIndex(write_pos) = SlotIndex(read_pos) => r < Round(write_pos)
    <3> SUFFICES ASSUME SlotIndex(write_pos) = SlotIndex(read_pos) PROVE r < Round(write_pos)
      OBVIOUS
    <3>1. PICK b \in Int : b = Slot(read_pos).body
      BY ReadSlot, LossyAssumption DEF Reading, Zeroed
    <3>2. /\ b >= read_pos /\ SlotIndex(b) = SlotIndex(read_pos) /\ b <= write_pos
          /\ read_pos \in Nat /\ write_pos \in Nat
      BY <3>1, ReadSlot DEF Reading
    <3>3. b # write_pos
      BY <1>2, <3>1 DEF Slot
    <3>4. Round(b) < Round(write_pos) /\ Round(b) \in Int /\ Round(write_pos) \in Int
      BY <3>2, <3>3, RoundsOfSlot, RoundNat
    <3> QED
      BY <2>1, <3>1, <3>4 DEF CopyOfRound
  <2> QED
    BY <1>1, <2>1, <2>2, <2>3, CopyKept
<1>5. write_pos' >= write_pos
  BY <1>1 DEF LossyInv, Inv, TypeOK
<1>6. cpc' = cpc
  BY <1>1 DEF consVars
<1>7. cpc' = "release" => c_size' = c_body' \/ WrappedAround'
  BY <1>1, <1>5, ReleaseKept DEF CopyChecked
<1> QED
  BY <1>3, <1>4, <1>6, <1>7 DEF CopyChecked

(* While a push writes its slot and after its commit the slot does not     *)
(* look like a round that a consumer has begun to copy.                    *)
LEMMA CopyOutlived ==
  ASSUME LossyInv, LossyInv', CopyChecked, ppc = "write", ppc' \in {"write", "publish"},
         UNCHANGED <<write_pos, consVars>>,
         \A i \in 0..(Capacity - 1) : i # SlotIndex(write_pos) => slots'[i] = slots[i],
         slots'[SlotIndex(write_pos)].body \in {write_pos, Slot(write_pos).body},
         \/ ~Even(slots'[SlotIndex(write_pos)])
         \/ ppc' = "publish" /\ slots'[SlotIndex(write_pos)].body = write_pos
  PROVE  CopyChecked'
<1>0. /\ write_pos' = write_pos /\ read_pos' = read_pos /\ cpc' = cpc /\ gen1' = gen1
      /\ UNCHANGED consVars
  BY DEF consVars, readVars
<1>1. cpc' = "release" => c_size' = c_body' \/ WrappedAround'
  <2>1. write_pos' >= write_pos
    BY DEF LossyInv, Inv, TypeOK
  <2> QED
    BY <2>1, ReleaseKept DEF CopyChecked
<1>2. ASSUME cpc \in {"size", "copy", "gen2"} PROVE \E r \in Nat : CopyOfRound(r)'
  <2>1. PICK r \in Nat : CopyOfRound(r)
    BY <1>2 DEF CopyChecked
  <2>2. read_pos \in Nat /\ SlotIndex(read_pos) \in 0..(Capacity - 1)
    BY <1>2, ReadSlot, SlotIndexInRing DEF Reading
  <2>3. SlotIndex(read_pos)' = SlotIndex(read_pos) /\ SlotIndex(write_pos') = SlotIndex(write_pos)
        /\ SlotIndex(write_pos)' = SlotIndex(write_pos) /\ Round(write_pos') = Round(write_pos)
        /\ Round(write_pos)' = Round(write_pos) /\ Round(read_pos)' = Round(read_pos)
    BY <1>0 DEF SlotIndex, Round
  <2>4. CASE SlotIndex(read_pos) # SlotIndex(write_pos)
    <3>1. Slot(read_pos)' = Slot(read_pos)
      BY <2>2, <2>3, <2>4 DEF Slot
    <3> QED
      BY <1>0, <2>1, <2>3, <2>4, <3>1, CopyKept
  <2>5. CASE SlotIndex(read_pos) = SlotIndex(write_pos)
    <3>1. r < Round(write_pos) /\ r <= Round(Slot(read_pos).body) /\ Round(read_pos) <= r
          /\ gen1 = (2 * r + 2) % GenModulus
      BY <2>1, <2>5 DEF CopyOfRound
    <3>2. Round(write_pos) \in Nat
      BY RoundNat DEF LossyInv, Inv, TypeOK
    <3>3. Slot(read_pos)' = slots'[SlotIndex(write_pos)]
      BY <2>3, <2>5 DEF Slot
    <3>4. Slot(read_pos)'.body \in {write_pos, Slot(read_pos).body}
      BY <2>5, <3>3 DEF Slot
    <3>5. r <= Round(Slot(read_pos)'.body)
      BY <3>1, <3>2, <3>4
    <3>6. ~(Even(Slot(read_pos)') /\ Round(Slot(read_pos)'.body) = r)
      BY <3>1, <3>2, <3>3
    <3> QED
      BY <1>0, <2>3, <3>1, <3>5, <3>6 DEF CopyOfRound, Even, Round
  <2> QED
    BY <2>4, <2>5
<1> QED
  BY <1>0, <1>1, <1>2 DEF CopyChecked

(* A store of a push leaves its slot odd.                                  *)
LEMMA StoreSeqlock ==
  ASSUME LossyInv, LossyInv', Seqlock, CopyChecked, tso, NEW field \in Fields, PushStore(field)
  PROVE  Seqlock' /\ CopyChecked'
<1> DEFINE w == SlotIndex(write_pos)
<1>1. /\ ppc = "write" /\ ppc' = "write" /\ field \in p_todo /\ p_todo' = p_todo \ {field}
      /\ ("generation" \in p_todo => field = "generation")
      /\ write_pos' = write_pos /\ p_gen' = p_gen /\ UNCHANGED consVars
  BY DEF PushStore
<1>2. /\ \A i \in 0..(Capacity - 1) : i # w => slots'[i] = slots[i]
      /\ slots'[w].generation =
           IF field = "generation" THEN (p_gen + 1) % GenModulus ELSE Slot(write_pos).generation
      /\ slots'[w].size = IF field = "size" THEN write_pos ELSE Slot(write_pos).size
      /\ slots'[w].body = IF field = "body" THEN write_pos ELSE Slot(write_pos).body
  BY <1>1, StoreEffect DEF LossyInv, Inv, Positions
<1>3. write_pos \in Nat
  BY DEF LossyInv, Inv, TypeOK
<1>4. p_gen = (2 * Round(write_pos)) % GenModulus /\ Round(write_pos) \in Nat
  BY <1>1, <1>3, RoundNat DEF Seqlock
<1>5. ~Even(slots'[w]) /\ "generation" \notin p_todo'
  <2>1. CASE field = "generation"
    <3>1. ((p_gen + 1) % GenModulus) % 2 # 0
      BY <1>4, Generations
    <3> QED
      BY <1>1, <1>2, <2>1, <3>1 DEF Even
  <2>2. CASE field # "generation"
    <3>1. "generation" \notin p_todo /\ ~Even(Slot(write_pos))
      BY <1>1, <2>2 DEF Seqlock
    <3> QED
      BY <1>1, <1>2, <2>2, <3>1 DEF Even
  <2> QED
    BY <2>1, <2>2
<1>6. "size" \notin p_todo' => slots'[w].size = write_pos
  <2>1. CASE field = "size"
    BY <1>2, <2>1
  <2>2. CASE field # "size"
    BY <1>1, <1>2, <2>2 DEF Seqlock
  <2> QED
    BY <2>1, <2>2
<1>7. Seqlock'
  <2>1. ASSUME NEW i \in 0..(Capacity - 1)
        PROVE  /\ Even(slots'[i]) => /\ slots'[i].size = slots'[i].body
                                      /\ slots'[i].generation = Generation(slots'[i].body)
               /\ ~Even(slots'[i]) => i = w
    <3>1. CASE i = w
      BY <1>5, <3>1
    <3>2. CASE i # w
      BY <1>2, <3>2 DEF Seqlock
    <3> QED
      BY <3>1, <3>2
  <2> QED
    BY <1>1, <1>4, <1>5, <1>6, <2>1 DEF Seqlock, Even, Generation, Round, Slot, SlotIndex
<1>8. CopyChecked'
  <2>1. slots'[w].body \in {write_pos, Slot(write_pos).body}
    BY <1>2
  <2>2. ppc' \in {"write", "publish"} /\ UNCHANGED <<write_pos, consVars>>
    BY <1>1
  <2> QED
    BY <1>1, <1>2, <1>5, <2>1, <2>2, CopyOutlived
<1> QED
  BY <1>7, <1>8

(* The commit leaves an even slot with one message and the generation of   *)
(* its round.                                                              *)
LEMMA CommitSeqlock ==
  ASSUME LossyInv, LossyInv', Seqlock, CopyChecked, PushCommit
  PROVE  Seqlock' /\ CopyChecked'
<1> DEFINE w == SlotIndex(write_pos)
<1>1. /\ ppc = "write" /\ ppc' = "publish" /\ p_todo = {}
      /\ write_pos' = write_pos /\ UNCHANGED consVars
  BY DEF PushCommit
<1>2. /\ \A i \in 0..(Capacity - 1) : i # w => slots'[i] = slots[i]
      /\ slots'[w].generation = (p_gen + 2) % GenModulus
      /\ slots'[w].size = Slot(write_pos).size
      /\ slots'[w].body = Slot(write_pos).body
  BY CommitEffect DEF LossyInv, Inv
<1>3. write_pos \in Nat
  BY DEF LossyInv, Inv, TypeOK
<1>4. slots'[w].size = write_pos /\ slots'[w].body = write_pos
  BY <1>1, <1>2 DEF Seqlock, LossyInv, Payloads
<1>5. slots'[w].generation = (2 * Round(write_pos) + 2) % GenModulus /\ Even(slots'[w])
  <2>1. p_gen = (2 * Round(write_pos)) % GenModulus /\ Round(write_pos) \in Nat
    BY <1>1, <1>3, RoundNat DEF Seqlock
  <2>2. slots'[w].generation = (2 * Round(write_pos) + 2) % GenModulus
    BY <1>2, <2>1, Generations
  <2>3. PICK k \in Nat : k = Round(write_pos) + 1
    BY <2>1
  <2>4. 2 * k = 2 * Round(write_pos) + 2
    BY <2>1, <2>3
  <2>5. ((2 * k) % GenModulus) % 2 = 0
    BY Generations
  <2> QED
    BY <2>2, <2>4, <2>5 DEF Even
<1>6. Seqlock'
  <2>1. ASSUME NEW i \in 0..(Capacity - 1)
        PROVE  Even(slots'[i]) /\ slots'[i].size = slots'[i].body
               /\ slots'[i].generation = Generation(slots'[i].body)
    <3>1. CASE i = w
      BY <1>3, <1>4, <1>5, <3>1 DEF Generation, Zeroed
    <3>2. CASE i # w
      BY <1>2, <3>2 DEF Seqlock
    <3> QED
      BY <3>1, <3>2
  <2> QED
    BY <1>1, <2>1 DEF Seqlock, Even, Generation, Round
<1>7. CopyChecked'
  <2>1. ppc' \in {"write", "publish"} /\ UNCHANGED <<write_pos, consVars>>
        /\ slots'[w].body \in {write_pos, Slot(write_pos).body}
    BY <1>1, <1>2
  <2> QED
    BY <1>1, <1>2, <1>4, <2>1, CopyOutlived
<1> QED
  BY <1>6, <1>7

(* Publishing the position changes no slot.                                *)
LEMMA PublishSeqlock ==
  ASSUME LossyInv, LossyInv', Seqlock, CopyChecked, PushPublish
  PROVE  Seqlock' /\ CopyChecked'
<1>1. /\ ppc = "publish" /\ ppc' = "idle" /\ write_pos' = write_pos + 1 /\ slots' = slots
      /\ UNCHANGED consVars
  BY DEF PushPublish
<1>2. write_pos \in Nat
  BY DEF LossyInv, Inv, TypeOK
<1>3. Seqlock'
  <2>1. ASSUME NEW i \in 0..(Capacity - 1)
        PROVE  /\ Even(slots[i]) /\ slots[i].size = slots[i].body
               /\ slots[i].generation = Generation(slots[i].body)
               /\ slots[i].body # write_pos + 1
    <3>1. Even(slots[i])
      BY <1>1 DEF Seqlock
    <3>2. slots[i].body # write_pos + 1
      BY <1>2 DEF LossyInv, Payloads, Zeroed
    <3> QED
      BY <3>1, <3>2 DEF Seqlock
  <2> QED
    BY <1>1, <2>1 DEF Seqlock, Even, Generation, Round
<1>4. ASSUME cpc \in {"size", "copy", "gen2"} PROVE \E r \in Nat : CopyOfRound(r)'
  <2>1. PICK r \in Nat : CopyOfRound(r)
    BY <1>4 DEF CopyChecked
  <2>2. Slot(read_pos)' = Slot(read_pos)
    BY <1>1 DEF Slot, SlotIndex, consVars
  <2> QED
    BY <1>1, <2>1, <2>2, CopyKept
<1>5. cpc' = "release" => c_size' = c_body' \/ WrappedAround'
  BY <1>1, <1>2, ReleaseKept DEF CopyChecked
<1>6. cpc' = cpc
  BY <1>1 DEF consVars
<1> QED
  BY <1>3, <1>4, <1>5, <1>6 DEF CopyChecked

(* The consumer takes the generation of an even slot, reads size and       *)
(* payload, and compares: the slot it has copied is still in its round, or *)
(* the generation has come back.                                           *)
LEMMA PopSeqlock ==
  ASSUME LossyInv, LossyInv', Seqlock, CopyChecked,
         PopGen1 \/ PopSize \/ PopCopy \/ PopGen2
  PROVE  CopyChecked'
<1>0. cpc \in Reading
  BY DEF PopGen1, PopSize, PopCopy, PopGen2, Reading
<1>1. write_pos' = write_pos /\ read_pos' = read_pos /\ slots' = slots /\ ppc' = ppc
  BY DEF PopGen1, PopSize, PopCopy, PopGen2, prodVars
<1>2. /\ Slot(read_pos)' = Slot(read_pos) /\ SlotIndex(read_pos)' = SlotIndex(read_pos)
      /\ SlotIndex(write_pos)' = SlotIndex(write_pos)
      /\ Round(read_pos)' = Round(read_pos) /\ Round(write_pos)' = Round(write_pos)
  BY <1>1 DEF Slot, SlotIndex, Round
<1>3. PICK b \in Nat : /\ b = Slot(read_pos).body /\ b >= read_pos /\ b <= write_pos
                       /\ SlotIndex(b) = SlotIndex(read_pos)
  BY <1>0, ReadSlot, LossyAssumption DEF Zeroed
<1>4. /\ read_pos \in Nat /\ write_pos \in Nat /\ SlotIndex(read_pos) \in 0..(Capacity - 1)
      /\ Round(b) \in Nat /\ Round(read_pos) \in Nat /\ Round(write_pos) \in Nat
      /\ Round(read_pos) <= Round(b)
      /\ b - read_pos = Capacity * (Round(b) - Round(read_pos))
  <2>1. read_pos \in Nat /\ write_pos \in Nat
    BY <1>0, ReadSlot
  <2> QED
    BY <2>1, <1>3, SlotIndexInRing, RoundNat, RoundsOfSlot
<1>5. Even(Slot(read_pos)) => /\ Slot(read_pos).size = b
                              /\ Slot(read_pos).generation = (2 * Round(b) + 2) % GenModulus
  BY <1>3, <1>4 DEF Seqlock, Slot, Generation, Zeroed
<1>6. CASE PopGen1
  <2>1. gen1' = Slot(read_pos).generation /\ cpc' = IF gen1' % 2 = 1 THEN "idle" ELSE "size"
    BY <1>6 DEF PopGen1, Slot
  <2>2. CASE cpc' = "idle"
    BY <2>2 DEF CopyChecked
  <2>3. CASE cpc' = "size"
    <3>1. Slot(read_pos).generation \in Nat
      BY <1>0, ReadSlot, Halves
    <3>2. Even(Slot(read_pos))
      BY <2>1, <2>3, <3>1 DEF Even
    <3>3. gen1' = (2 * Round(b) + 2) % GenModulus
      BY <1>5, <2>1, <3>2
    <3>4. ASSUME ppc = "write", SlotIndex(write_pos) = SlotIndex(read_pos)
          PROVE  Round(b) < Round(write_pos)
      <4>1. Slot(write_pos) = Slot(read_pos)
        BY <3>4 DEF Slot
      <4>2. b # write_pos
        BY <1>3, <3>2, <3>4, <4>1 DEF Seqlock
      <4>3. b < write_pos /\ SlotIndex(b) = SlotIndex(write_pos)
        BY <1>3, <1>4, <3>4, <4>2
      <4> QED
        BY <1>4, <4>3, RoundsOfSlot
    <3>5. CopyOfRound(Round(b))'
      BY <1>1, <1>2, <1>3, <1>4, <2>3, <3>3, <3>4 DEF CopyOfRound, Round
    <3> QED
      BY <1>4, <2>3, <3>5 DEF CopyChecked
  <2> QED
    BY <2>1, <2>2, <2>3
<1>7. CASE PopSize \/ PopCopy
  <2>1. PICK r \in Nat : CopyOfRound(r)
    BY <1>7 DEF CopyChecked, PopSize, PopCopy
  <2>2. CopyOfRound(r)'
    <3>1. CASE PopSize
      <4>1. cpc' = "copy" /\ gen1' = gen1 /\ c_size' = Slot(read_pos).size
        BY <3>1 DEF PopSize, Slot
      <4> QED
        BY <1>1, <1>2, <2>1, <4>1 DEF CopyOfRound, Round, Even
    <3>2. CASE PopCopy
      <4>1. cpc = "copy" /\ cpc' = "gen2" /\ gen1' = gen1 /\ c_size' = c_size
            /\ c_body' = Slot(read_pos).body
        BY <3>2 DEF PopCopy, Slot
      <4> QED
        BY <1>1, <1>2, <2>1, <4>1 DEF CopyOfRound, Round, Even
    <3> QED
      BY <1>7, <3>1, <3>2
  <2>3. cpc' # "release"
    BY <1>7 DEF PopSize, PopCopy
  <2> QED
    BY <2>2, <2>3 DEF CopyChecked
<1>8. CASE PopGen2
  <2>1. /\ cpc = "gen2" /\ cpc' = IF Slot(read_pos).generation # gen1 THEN "resync" ELSE "release"
        /\ c_size' = c_size /\ c_body' = c_body
    BY <1>8 DEF PopGen2, Slot, readVars
  <2>2. ASSUME Slot(read_pos).generation = gen1, ~WrappedAround PROVE c_size = c_body
    <3>1. PICK r \in Nat : CopyOfRound(r)
      BY <2>1 DEF CopyChecked
    <3>2. gen1 = (2 * r + 2) % GenModulus /\ Round(read_pos) <= r /\ r <= Round(b)
      BY <1>3, <3>1 DEF CopyOfRound
    <3>3. Even(Slot(read_pos))
      <4>1. PICK k \in Nat : 2 * k = 2 * r + 2
        <5>1. r + 1 \in Nat /\ 2 * (r + 1) = 2 * r + 2
          OBVIOUS
        <5> QED
          BY <5>1
      <4>2. ((2 * k) % GenModulus) % 2 = 0
        BY Generations
      <4> QED
        BY <2>2, <3>2, <4>1, <4>2 DEF Even
    <3>4. (2 * r + 2) % GenModulus = (2 * Round(b) + 2) % GenModulus
      BY <1>5, <2>2, <3>2, <3>3
    <3>5. Round(b) - Round(read_pos) < GenModulus \div 2
      <4>1. PICK h \in Nat : h = GenModulus \div 2
        BY Halves
      <4>2. PICK d \in Int : d = Round(b) - Round(read_pos)
        BY <1>4
      <4>3. Capacity * d < Capacity * h
        <5>1. PICK x \in Int, y \in Int : x = Capacity * d /\ y = Capacity * h
          BY LossyAssumption
        <5>2. b - read_pos = x /\ ~(write_pos - read_pos >= y)
          BY <1>4, <2>2, <4>1, <4>2, <5>1 DEF WrappedAround
        <5> QED
          BY <1>3, <1>4, <5>1, <5>2
      <4>4. d < h
        <5> SUFFICES ASSUME d - h >= 0 PROVE FALSE
          OBVIOUS
        <5>1. Capacity * (d - h) >= 0 /\ Capacity * (d - h) = Capacity * d - Capacity * h
          BY LossyAssumption
        <5> QED
          BY <4>3, <5>1, LossyAssumption
      <4> QED
        BY <4>1, <4>2, <4>4
    <3>6. Round(b) - r < GenModulus \div 2
      BY <1>4, <3>2, <3>5, Halves
    <3>7. r = Round(b)
      BY <1>4, <3>2, <3>4, <3>6, GenerationsDiffer
    <3>8. c_size = Slot(read_pos).size /\ c_body = Slot(read_pos).body
      BY <1>3, <2>1, <3>1, <3>3, <3>7 DEF CopyOfRound
    <3> QED
      BY <1>3, <1>5, <3>3, <3>8
  <2>3. WrappedAround' = WrappedAround
    BY <1>1 DEF WrappedAround
  <2> QED
    BY <2>1, <2>2, <2>3 DEF CopyChecked
<1> QED
  BY <1>6, <1>7, <1>8

(* The machine stays what it is, and a producer's death is remembered.     *)
LEMMA DeathIsRemembered ==
  ASSUME [Next]_vars, tso', ~p_died'
  PROVE  tso /\ ~p_died
<1>1. (tso' = tso /\ p_died' = p_died) \/ PCrash
  BY DEF Next, vars, PushBegin, ProducerStep, PushStore, PushCommit, PushPublish, prodVars,
         ConsumerStep, PopBegin, PopReload, PopForward, PopGen1, PopSize, PopCopy, PopGen2,
         PopResync, PopRelease, PopReadLate, CCrash
<1>2. CASE PCrash
  BY <1>2 DEF PCrash
<1>3. CASE tso' = tso /\ p_died' = p_died
  BY <1>3
<1> QED
  BY <1>1, <1>2, <1>3

(* The seqlock's invariant is kept by every step.                          *)
LEMMA SeqlockKeeps ==
  ASSUME LossyInv, LossyInv', SeqlockInv, [Next]_vars
  PROVE  SeqlockInv'
<1> SUFFICES ASSUME tso', ~p_died' PROVE Seqlock' /\ CopyChecked'
  BY DEF SeqlockInv
<1>1. tso /\ ~p_died
  BY DeathIsRemembered
<1>2. tso /\ ~p_died /\ Seqlock /\ CopyChecked
  BY <1>1 DEF SeqlockInv
<1>3. CASE PushBegin
  BY <1>2, <1>3, BeginSeqlock
<1>4. CASE ProducerStep
  BY <1>2, <1>4, StoreSeqlock, CommitSeqlock, PublishSeqlock DEF ProducerStep, Fields
<1>5. CASE PCrash
  BY <1>5 DEF PCrash
<1>6. CASE PopGen1 \/ PopSize \/ PopCopy \/ PopGen2
  <2>1. UNCHANGED <<write_pos, slots, prodVars>>
    BY <1>6 DEF PopGen1, PopSize, PopCopy, PopGen2
  <2> QED
    BY <1>2, <1>6, <2>1, PopSeqlock, SeqlockUnchanged
<1>7. CASE PopBegin \/ PopReload \/ PopForward \/ PopResync \/ PopRelease \/ CCrash
  <2>1. /\ UNCHANGED <<write_pos, slots, prodVars>>
        /\ cpc' \notin {"size", "copy", "gen2", "release"}
    BY <1>7 DEF PopBegin, PopReload, Proceed, PopForward, PopResync, PopRelease, CCrash
  <2> QED
    BY <1>2, <2>1, SeqlockUnchanged DEF CopyChecked
<1>8. CASE PopReadLate
  BY <1>2, <1>8 DEF PopReadLate
<1>9. CASE UNCHANGED vars
  <2>1. UNCHANGED <<write_pos, slots, prodVars>> /\ UNCHANGED consVars
    BY <1>9 DEF vars
  <2>2. Slot(read_pos)' = Slot(read_pos) /\ ppc' = ppc /\ write_pos' = write_pos /\ cpc' = cpc
    BY <2>1 DEF Slot, SlotIndex, consVars, prodVars
  <2>3. ASSUME NEW r \in Nat, CopyOfRound(r) PROVE CopyOfRound(r)'
    BY <2>1, <2>2, <2>3, CopyKept DEF CopyOfRound
  <2>4. cpc' = "release" => c_size' = c_body' \/ WrappedAround'
    BY <1>2, <2>1 DEF CopyChecked, WrappedAround, consVars, readVars
  <2> QED
    BY <1>2, <2>1, <2>2, <2>3, <2>4, SeqlockUnchanged DEF CopyChecked
<1> QED
  BY <1>3, <1>4, <1>5, <1>6, <1>7, <1>8, <1>9 DEF Next, ConsumerStep

(* The seqlock's invariant holds in every state.                           *)
THEOREM SeqlockInvariant == Spec => []SeqlockInv
<1>1. Init => SeqlockInv
  BY InitSeqlock
<1>2. LossyInv /\ LossyInv' /\ SeqlockInv /\ [Next]_vars => SeqlockInv'
  BY SeqlockKeeps
<1> QED
  BY <1>1, <1>2, LossyInvariant, PTL DEF Spec

(* A delivery is the only step that changes what was delivered, and it     *)
(* delivers one message unless the generation may have wrapped around.     *)
LEMMA Delivery ==
  ASSUME SeqlockInv, [Next]_vars, tso, ~p_died, ~WrappedAround
  PROVE  delivered' = delivered \/ delivered'.size = delivered'.body
<1>1. CASE PopRelease
  <2>1. delivered' = [pos |-> read_pos, size |-> c_size, body |-> c_body] /\ cpc = "release"
    BY <1>1 DEF PopRelease
  <2>2. c_size = c_body
    BY <2>1 DEF SeqlockInv, CopyChecked
  <2> QED
    BY <2>1, <2>2
<1>2. CASE ~PopRelease
  BY <1>2 DEF Next, vars, PushBegin, ProducerStep, PushStore, PushCommit, PushPublish, PCrash,
              consVars, ConsumerStep, PopBegin, PopReload, PopForward, PopGen1, PopSize, PopCopy,
              PopGen2, PopResync, PopReadLate, CCrash
<1> QED
  BY <1>1, <1>2

(* The seqlock of try_pop_lossy (spsc_bus.hpp:500-520) catches every       *)
(* overwrite during the copy, for behaviours of any length: a torn message *)
(* takes a producer that is GenModulus / 2 rounds ahead of the consumer.   *)
THEOREM SeqlockCatchesOverwrites == Spec => TornOnlyAfterWrap
<1>1. SeqlockInv /\ [Next]_vars =>
        [tso /\ ~p_died /\ delivered' # delivered /\ ~WrappedAround =>
           delivered'.size = delivered'.body]_vars
  BY Delivery
<1> QED
  BY <1>1, SeqlockInvariant, PTL DEF Spec, TornOnlyAfterWrap

(* With fewer pushes than it takes to bring a generation back, 2^31 rounds *)
(* of the ring, nothing torn is ever delivered.                            *)
THEOREM LossyNoTornRead ==
  ASSUME MaxPushes < Capacity * (GenModulus \div 2)
  PROVE  Spec => []NoTornRead
<1>1. Init => NoTornRead
  BY DEF Init, NoTornRead
<1>2. ASSUME LossyInv, SeqlockInv, NoTornRead, [Next]_vars PROVE NoTornRead'
  <2> SUFFICES ASSUME tso', ~p_died' PROVE delivered'.size = delivered'.body
    BY DEF NoTornRead
  <2>1. ~WrappedAround
    <3>1. PICK n \in Int : n = Capacity * (GenModulus \div 2)
      BY Halves, LossyAssumption
    <3>2. write_pos - read_pos <= MaxPushes /\ write_pos \in Int /\ read_pos \in Int
      BY <1>2, LossyAssumption DEF LossyInv, Inv, TypeOK
    <3>3. MaxPushes < n /\ MaxPushes \in Int
      BY <3>1, LossyAssumption
    <3> QED
      BY <3>1, <3>2, <3>3 DEF WrappedAround
  <2>2. tso /\ ~p_died
    BY <1>2, DeathIsRemembered
  <2>3. delivered.size = delivered.body
    BY <1>2, <2>2 DEF NoTornRead
  <2>4. delivered' = delivered \/ delivered'.size = delivered'.body
    BY <1>2, <2>1, <2>2, Delivery
  <2> QED
    BY <2>3, <2>4
<1> QED
  BY <1>1, <1>2, LossyInvariant, SeqlockInvariant, PTL DEF Spec

=============================================================================
