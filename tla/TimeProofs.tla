----------------------------- MODULE TimeProofs -----------------------------
(***************************************************************************)
(* Proofs about the two components that do arithmetic with time, TimerWheel*)
(* and TscClock, for every shape of the wheel, every set of delays, every  *)
(* modulus and any number of ticks, timers, snaps and NTP adjustments.     *)
(*                                                                         *)
(* Both rest on the same few facts about quotients, which come first; each *)
(* is then an invariant, the lemmas that say how one action keeps it, and  *)
(* the theorems.                                                           *)
(***************************************************************************)
EXTENDS TimerWheel, TscClock, TLAPS

-----------------------------------------------------------------------------
(***************************************************************************)
(* Division.                                                               *)
(***************************************************************************)

(* A positive multiple of c is at least c.                                 *)
LEMMA MulGe ==
  ASSUME NEW c \in Nat \ {0}, NEW k \in Int, k >= 1
  PROVE  c * k >= c
  OBVIOUS

(* A number that is at most another stays so when both are multiplied.     *)
LEMMA MulMonotone ==
  ASSUME NEW c \in Nat, NEW j \in Int, NEW k \in Int, j <= k
  PROVE  c * j <= c * k
  OBVIOUS

(* Quotient and remainder by a positive number.                            *)
LEMMA DivMod ==
  ASSUME NEW c \in Nat \ {0}, NEW p \in Int
  PROVE  /\ p % c \in 0..(c - 1)
         /\ p \div c \in Int
         /\ p = c * (p \div c) + (p % c)
  OBVIOUS

(* The same with plain numbers for quotient and remainder.                 *)
LEMMA DivModPick ==
  ASSUME NEW c \in Nat \ {0}, NEW p \in Int
  PROVE  \E k \in Int, r \in 0..(c - 1) : k = p \div c /\ r = p % c /\ p = c * k + r
<1>1. /\ p % c \in 0..(c - 1) /\ p \div c \in Int
      /\ p = c * (p \div c) + (p % c)
  BY DivMod, Zenon
<1> QED
  BY <1>1, Zenon

(* A multiple of c below a multiple of c is a whole c below it.            *)
LEMMA MulLess ==
  ASSUME NEW c \in Nat \ {0}, NEW j \in Int, NEW k \in Int, c * j < c * k
  PROVE  j < k
<1> SUFFICES ASSUME k <= j PROVE FALSE
  OBVIOUS
<1>1. c * k <= c * j
  BY MulMonotone
<1> QED
  BY <1>1

(* Quotient and remainder are determined by their equation.                *)
LEMMA DivModUnique ==
  ASSUME NEW c \in Nat \ {0}, NEW p \in Int, NEW k \in Int, NEW r \in 0..(c - 1), p = c * k + r
  PROVE  p \div c = k /\ p % c = r
<1>1. PICK j \in Int, u \in 0..(c - 1) : j = p \div c /\ u = p % c /\ p = c * j + u
  BY DivModPick
<1>2. j + 1 \in Int /\ k + 1 \in Int /\ c * (j + 1) = c * j + c /\ c * (k + 1) = c * k + c
  OBVIOUS
<1>3. k < j + 1
  <2>1. c * k < c * (j + 1)
    BY <1>1, <1>2
  <2> QED
    BY <1>2, <2>1, MulLess
<1>4. j < k + 1
  <2>1. c * j < c * (k + 1)
    BY <1>1, <1>2
  <2> QED
    BY <1>2, <2>1, MulLess
<1>5. k = j
  BY <1>3, <1>4
<1> QED
  BY <1>1, <1>5

-----------------------------------------------------------------------------
(***************************************************************************)
(* TimerWheel: the inductive invariant.                                    *)
(***************************************************************************)

(* Is the level's cascade of tick j still to come, at a phase of it?       *)
Due(j, ph, c, level) ==
  /\ j % Span(level) = 0
  /\ (ph = "cascade" /\ c <= level) \/ (ph = "move" /\ c < level)

(* A timer at a level is not late for the visit of its slot: at level 0    *)
(* the slot comes up within a turn, at a higher level the slot's first     *)
(* tick is still ahead, or is now and the cascade is still to come.        *)
OnTime(j, ph, c, level, x) ==
  IF level = 0
  THEN /\ j <= x /\ x < j + kL0Slots
       /\ ph \notin {"cascade", "move"} => j < x
  ELSE /\ j \div Span(level) <= x \div Span(level)
       /\ ~Due(j, ph, c, level) => j \div Span(level) < x \div Span(level)

(* A pending timer is in the slot that its expiry selects.                 *)
Placed(j, ph, c, p, x) == p[2] = SlotOf(p[1], x) /\ OnTime(j, ph, c, p[1], x)

TimingInv ==
  \A id \in DOMAIN entries :
    ~In(id, local) => Placed(jiffies, phase, cascading, entries[id], timers[id].expiry)

(* The list that was swapped out: what is fired is due now, what cascades  *)
(* is not overdue.                                                         *)
LocalInv ==
  /\ phase \in {"idle", "cascade"} => local = <<>>
  /\ \A id \in DOMAIN entries : In(id, local) =>
       IF phase = "move" THEN jiffies <= timers[id].expiry ELSE jiffies = timers[id].expiry

(* What each phase needs: the callback's timer lives, is out of the map    *)
(* and due now, and a cancelled timer is gone.                             *)
PhaseInv ==
  /\ phase = "callback" =>
       current \in DOMAIN timers /\ current \notin DOMAIN entries /\ timers[current].expiry = jiffies
  /\ phase = "cascade" => cascading \in 1..4
  /\ phase = "move" => cascading \in 1..3
  /\ \A id \in cancelled : id \notin DOMAIN timers

(* The invariant: the map alone, or the timing alone, is not preserved.    *)
WheelInv == TypeOK /\ LocationsExact /\ TimingInv /\ LocalInv /\ PhaseInv

-----------------------------------------------------------------------------
(***************************************************************************)
(* TimerWheel: ticks and slots.                                            *)
(***************************************************************************)

(* A tick moves the quotient by c at most by one, and only at a boundary.  *)
LEMMA NextQuotient ==
  ASSUME NEW c \in Nat \ {0}, NEW j \in Nat
  PROVE  /\ (j + 1) \div c <= j \div c + 1
         /\ (j + 1) % c # 0 => (j + 1) \div c = j \div c
<1>1. PICK k \in Int, r \in 0..(c - 1) : k = j \div c /\ r = j % c /\ j = c * k + r
  BY DivModPick
<1>2. CASE r + 1 = c
  <2>1. c * (k + 1) = c * k + c
    OBVIOUS
  <2>2. j + 1 = c * (k + 1) + 0 /\ 0 \in 0..(c - 1) /\ k + 1 \in Int /\ j + 1 \in Int
    BY <1>1, <1>2, <2>1
  <2>3. (j + 1) \div c = k + 1 /\ (j + 1) % c = 0
    BY <2>2, DivModUnique
  <2> QED
    BY <1>1, <2>3
<1>3. CASE r + 1 # c
  <2>1. j + 1 = c * k + (r + 1) /\ r + 1 \in 0..(c - 1) /\ j + 1 \in Int
    BY <1>1, <1>3
  <2>2. (j + 1) \div c = k
    BY <2>1, DivModUnique
  <2> QED
    BY <1>1, <2>2
<1> QED
  BY <1>2, <1>3

(* A timer that is a whole slot ahead is in a later slot.                  *)
LEMMA SlotAhead ==
  ASSUME NEW c \in Nat \ {0}, NEW j \in Nat, NEW x \in Nat, x - j >= c
  PROVE  j \div c < x \div c
<1>1. PICK k \in Int, r \in 0..(c - 1) : k = j \div c /\ r = j % c /\ j = c * k + r
  BY DivModPick
<1>2. PICK m \in Int, u \in 0..(c - 1) : m = x \div c /\ u = x % c /\ x = c * m + u
  BY DivModPick
<1>3. c * k < c * m
  BY <1>1, <1>2
<1>4. k < m
  BY <1>3, MulLess
<1> QED
  BY <1>1, <1>2, <1>4

(* A timer in a later slot is ahead.                                       *)
LEMMA LaterSlot ==
  ASSUME NEW c \in Nat \ {0}, NEW j \in Nat, NEW x \in Nat, j \div c < x \div c
  PROVE  j < x
<1>1. PICK k \in Int, r \in 0..(c - 1) : k = j \div c /\ r = j % c /\ j = c * k + r
  BY DivModPick
<1>2. PICK m \in Int, u \in 0..(c - 1) : m = x \div c /\ u = x % c /\ x = c * m + u
  BY DivModPick
<1>3. k + 1 <= m /\ k + 1 \in Int
  BY <1>1, <1>2
<1>4. c * (k + 1) <= c * m /\ c * (k + 1) = c * k + c
  BY <1>3, MulMonotone
<1> QED
  BY <1>1, <1>2, <1>4

(* At the first tick of a slot none of its timers is overdue.              *)
LEMMA SlotBegins ==
  ASSUME NEW c \in Nat \ {0}, NEW j \in Nat, NEW x \in Nat, j \div c <= x \div c, j % c = 0
  PROVE  j <= x
<1>1. PICK k \in Int, r \in 0..(c - 1) : k = j \div c /\ r = j % c /\ j = c * k + r
  BY DivModPick
<1>2. PICK m \in Int, u \in 0..(c - 1) : m = x \div c /\ u = x % c /\ x = c * m + u
  BY DivModPick
<1>3. c * k <= c * m
  BY <1>1, <1>2, MulMonotone
<1> QED
  BY <1>1, <1>2, <1>3

(* Within a turn of the fine wheel a slot stands for one tick.             *)
LEMMA SameSlot ==
  ASSUME NEW c \in Nat \ {0}, NEW j \in Nat, NEW x \in Nat, j <= x, x < j + c, j % c = x % c
  PROVE  j = x
<1>0. j \in Int /\ x \in Int
  OBVIOUS
<1>1. PICK k \in Int, r \in 0..(c - 1) : k = j \div c /\ r = j % c /\ j = c * k + r
  BY <1>0, DivModPick, Zenon
<1>2. PICK m \in Int, u \in 0..(c - 1) : m = x \div c /\ u = x % c /\ x = c * m + u
  BY <1>0, DivModPick, Zenon
<1>3. c * (k + 1) = c * k + c /\ k + 1 \in Int
  OBVIOUS
<1>4. m < k + 1
  <2>1. c * m < c * (k + 1)
    BY <1>1, <1>2, <1>3
  <2> QED
    BY <1>3, <2>1, MulLess
<1>5. k <= m
  <2> SUFFICES ASSUME m < k PROVE FALSE
    OBVIOUS
  <2>1. m + 1 <= k /\ m + 1 \in Int
    OBVIOUS
  <2>2. c * (m + 1) <= c * k /\ c * (m + 1) = c * m + c
    BY <2>1, MulMonotone
  <2> QED
    BY <1>1, <1>2, <2>2
<1>6. k = m
  BY <1>4, <1>5
<1> QED
  BY <1>1, <1>2, <1>6

(* A boundary of a level is one of every level below.                      *)
LEMMA BoundaryBelow ==
  ASSUME NEW c \in Nat \ {0}, NEW d \in Nat \ {0}, NEW j \in Nat, j % (c * d) = 0
  PROVE  j % c = 0
<1>1. PICK e \in Nat \ {0} : e = c * d
  OBVIOUS
<1>2. PICK k \in Int : j = e * k
  BY <1>1, DivMod
<1>3. PICK m \in Int : m = d * k
  OBVIOUS
<1>4. j = c * m + 0 /\ 0 \in 0..(c - 1) /\ j \in Int
  <2>1. (c * d) * k = c * (d * k)
    OBVIOUS
  <2> QED
    BY <1>1, <1>2, <1>3, <2>1
<1> QED
  BY <1>4, DivModUnique

(* The slots and spans of the four levels are positive.                    *)
LEMMA LevelSizes ==
  /\ Slots(0) = kL0Slots /\ Span(0) = 1 /\ Span(1) = kL0Slots
  /\ \A level \in Levels : Slots(level) \in Nat \ {0} /\ Span(level) \in Nat \ {0}
<1>1. kL0Slots \in Nat \ {0} /\ kL1Slots \in Nat \ {0} /\ kL2Slots \in Nat \ {0} /\ kL3Slots \in Nat \ {0}
  BY WheelAssumption
<1>2. Slots(0) = kL0Slots /\ Slots(1) = kL1Slots /\ Slots(2) = kL2Slots /\ Slots(3) = kL3Slots
  BY DEF Slots
<1>3. Span(0) = 1 /\ Span(1) = kL0Slots /\ Span(2) = kL0Slots * kL1Slots
      /\ Span(3) = kL0Slots * kL1Slots * kL2Slots
  BY DEF Span
<1>4. kL0Slots * kL1Slots \in Nat \ {0}
  BY <1>1
<1>5. PICK e \in Nat \ {0} : e = kL0Slots * kL1Slots
  BY <1>4
<1>6. e * kL2Slots \in Nat \ {0}
  BY <1>1
<1>7. \A level \in Levels : level = 0 \/ level = 1 \/ level = 2 \/ level = 3
  BY DEF Levels
<1> QED
  BY <1>1, <1>2, <1>3, <1>4, <1>5, <1>6, <1>7

(* A tick on the boundary of a level is on that of the levels below.       *)
LEMMA Boundaries ==
  ASSUME NEW j \in Nat, NEW k \in 1..3, NEW m \in 1..3, k <= m, j % Span(m) = 0
  PROVE  j % Span(k) = 0
<1>1. kL0Slots \in Nat \ {0} /\ kL1Slots \in Nat \ {0} /\ kL2Slots \in Nat \ {0}
  BY WheelAssumption
<1>2. Span(1) = kL0Slots /\ Span(2) = kL0Slots * kL1Slots /\ Span(3) = kL0Slots * kL1Slots * kL2Slots
  BY DEF Span
<1>3. PICK e \in Nat \ {0} : e = kL0Slots * kL1Slots
  BY LevelSizes, <1>2 DEF Levels
<1>4. j % (kL0Slots * kL1Slots) = 0 => j % kL0Slots = 0
  BY <1>1, BoundaryBelow
<1>5. j % (e * kL2Slots) = 0 => j % e = 0
  BY <1>1, BoundaryBelow
<1>6. (m = 2 /\ k = 1) \/ (m = 3 /\ k = 2) \/ (m = 3 /\ k = 1) \/ m = k
  OBVIOUS
<1> QED
  BY <1>2, <1>3, <1>4, <1>5, <1>6

-----------------------------------------------------------------------------
(***************************************************************************)
(* TimerWheel: lists.                                                      *)
(***************************************************************************)

(* A timer is in a list with one more at the end if it was or is that one. *)
LEMMA InAppend ==
  ASSUME NEW l \in Seq(TimerId), NEW id \in TimerId, NEW x \in TimerId
  PROVE  In(x, Append(l, id)) <=> In(x, l) \/ x = id
<1>1. PICK n \in Nat : n = Len(l) /\ DOMAIN l = 1..n
  OBVIOUS
<1>2. PICK m : m = Append(l, id)
  OBVIOUS
<1>3. DOMAIN m = 1..(n + 1) /\ m[n + 1] = id /\ \A i \in 1..n : m[i] = l[i]
  BY <1>1, <1>2
<1>4. In(x, m) <=> In(x, l) \/ x = id
  BY <1>1, <1>3 DEF In
<1> QED
  BY <1>2, <1>4

(* Appending a new timer keeps a list free of duplicates.                  *)
LEMMA DistinctAppend ==
  ASSUME NEW l \in Seq(TimerId), NEW id \in TimerId, Distinct(l), ~In(id, l)
  PROVE  Append(l, id) \in Seq(TimerId) /\ Distinct(Append(l, id))
<1>1. PICK n \in Nat : n = Len(l) /\ DOMAIN l = 1..n
  OBVIOUS
<1>2. PICK m : m = Append(l, id)
  OBVIOUS
<1>3. DOMAIN m = 1..(n + 1) /\ m[n + 1] = id /\ \A i \in 1..n : m[i] = l[i]
  BY <1>1, <1>2
<1>4. Distinct(m)
  <2> SUFFICES ASSUME NEW i \in 1..(n + 1), NEW j \in 1..(n + 1), m[i] = m[j]
               PROVE  i = j
    BY <1>3 DEF Distinct
  <2>1. CASE i \in 1..n /\ j \in 1..n
    BY <1>1, <1>3, <2>1 DEF Distinct
  <2>2. CASE i = n + 1 /\ j \in 1..n
    BY <1>1, <1>3, <2>2 DEF In
  <2>3. CASE i \in 1..n /\ j = n + 1
    BY <1>1, <1>3, <2>3 DEF In
  <2> QED
    BY <2>1, <2>2, <2>3
<1> QED
  BY <1>2, <1>4

(* The tail of a list without duplicates has all of it but the head.       *)
LEMMA TailOfDistinct ==
  ASSUME NEW l \in Seq(TimerId), l # <<>>, Distinct(l)
  PROVE  /\ Head(l) \in TimerId /\ In(Head(l), l)
         /\ Tail(l) \in Seq(TimerId) /\ Distinct(Tail(l))
         /\ \A x \in TimerId : In(x, Tail(l)) <=> In(x, l) /\ x # Head(l)
<1>1. PICK n \in Nat : n = Len(l) /\ DOMAIN l = 1..n /\ n >= 1
  OBVIOUS
<1>2. PICK h \in TimerId : h = Head(l) /\ h = l[1]
  BY <1>1
<1>3. PICK m \in Seq(TimerId) : m = Tail(l)
  <2>1. Tail(l) \in Seq(TimerId)
    OBVIOUS
  <2> QED
    BY <2>1, Zenon
<1>4. DOMAIN m = 1..(n - 1) /\ \A i \in 1..(n - 1) : m[i] = l[i + 1]
  BY <1>1, <1>3
<1>5. Distinct(m)
  <2> SUFFICES ASSUME NEW i \in 1..(n - 1), NEW j \in 1..(n - 1), m[i] = m[j]
               PROVE  i = j
    BY <1>4 DEF Distinct
  <2>1. i + 1 \in 1..n /\ j + 1 \in 1..n /\ l[i + 1] = l[j + 1]
    BY <1>4
  <2>2. i + 1 = j + 1
    BY <1>1, <2>1 DEF Distinct
  <2> QED
    BY <2>2
<1>6. ASSUME NEW x \in TimerId
      PROVE  In(x, m) <=> In(x, l) /\ x # h
  <2>1. ASSUME In(x, m) PROVE In(x, l) /\ x # h
    <3>1. PICK i \in 1..(n - 1) : m[i] = x
      BY <1>4, <2>1 DEF In
    <3>2. i + 1 \in 1..n /\ l[i + 1] = x /\ i + 1 # 1 /\ 1 \in 1..n
      BY <1>1, <1>4, <3>1
    <3> QED
      BY <1>1, <1>2, <3>2 DEF In, Distinct
  <2>2. ASSUME In(x, l), x # h PROVE In(x, m)
    <3>1. PICK i \in 1..n : l[i] = x
      BY <1>1, <2>2 DEF In
    <3>2. i - 1 \in 1..(n - 1)
      BY <1>2, <2>2, <3>1
    <3>3. m[i - 1] = x
      BY <1>4, <3>1, <3>2
    <3> QED
      BY <1>4, <3>2, <3>3 DEF In
  <2> QED
    BY <2>1, <2>2
<1>7. In(h, l)
  BY <1>1, <1>2 DEF In
<1> QED
  BY <1>2, <1>3, <1>5, <1>6, <1>7

(* Erasing the node of a timer takes out that timer and no other.          *)
LEMMA EraseDistinct ==
  ASSUME NEW l \in Seq(TimerId), NEW id \in TimerId, Distinct(l)
  PROVE  /\ Erase(l, id) \in Seq(TimerId) /\ Distinct(Erase(l, id))
         /\ \A x \in TimerId : In(x, Erase(l, id)) <=> In(x, l) /\ x # id
<1>1. PICK n \in Nat : n = Len(l) /\ DOMAIN l = 1..n
  OBVIOUS
<1>2. CASE ~In(id, l)
  <2>1. Erase(l, id) = l
    BY <1>2 DEF Erase
  <2> QED
    BY <1>2, <2>1
<1>3. CASE In(id, l)
  <2>1. PICK a \in 1..n : a = (CHOOSE i \in DOMAIN l : l[i] = id) /\ l[a] = id
    BY <1>1, <1>3 DEF In
  <2>2. PICK m : m = [i \in 1..(n - 1) |-> IF i < a THEN l[i] ELSE l[i + 1]]
    OBVIOUS
  <2>3. Erase(l, id) = m
    BY <1>1, <1>3, <2>1, <2>2 DEF Erase
  <2>4. ASSUME NEW i \in 1..(n - 1)
        PROVE  \E k \in 1..n : /\ k # a /\ m[i] = l[k]
                               /\ (i < a /\ k = i) \/ (i >= a /\ k = i + 1)
    <3>1. CASE i < a
      <4>1. i \in 1..n /\ i # a /\ m[i] = l[i]
        BY <2>2, <3>1
      <4> QED
        BY <3>1, <4>1
    <3>2. CASE i >= a
      <4>1. i + 1 \in 1..n /\ i + 1 # a /\ ~(i < a)
        BY <3>2
      <4>2. m[i] = l[i + 1]
        BY <2>2, <4>1
      <4> QED
        BY <3>2, <4>1, <4>2
    <3> QED
      BY <3>1, <3>2
  <2>5. m \in Seq(TimerId) /\ DOMAIN m = 1..(n - 1)
    <3>1. \A i \in 1..(n - 1) : m[i] \in TimerId
      BY <1>1, <2>4
    <3>2. n - 1 \in Nat /\ m \in [1..(n - 1) -> TimerId]
      BY <2>1, <2>2, <3>1
    <3> QED
      BY <3>2
  <2>6. Distinct(m)
    <3> SUFFICES ASSUME NEW i \in 1..(n - 1), NEW j \in 1..(n - 1), m[i] = m[j]
                 PROVE  i = j
      BY <2>5 DEF Distinct
    <3>1. PICK k \in 1..n : m[i] = l[k] /\ ((i < a /\ k = i) \/ (i >= a /\ k = i + 1))
      BY <2>4
    <3>2. PICK o \in 1..n : m[j] = l[o] /\ ((j < a /\ o = j) \/ (j >= a /\ o = j + 1))
      BY <2>4
    <3>3. k = o
      BY <1>1, <3>1, <3>2 DEF Distinct
    <3> QED
      BY <3>1, <3>2, <3>3
  <2>7. ASSUME NEW x \in TimerId
        PROVE  In(x, m) <=> In(x, l) /\ x # id
    <3>1. ASSUME In(x, m) PROVE In(x, l) /\ x # id
      <4>1. PICK i \in 1..(n - 1) : m[i] = x
        BY <2>5, <3>1 DEF In
      <4>2. PICK k \in 1..n : k # a /\ x = l[k]
        BY <2>4, <4>1
      <4> QED
        BY <1>1, <2>1, <4>2 DEF In, Distinct
    <3>2. ASSUME In(x, l), x # id PROVE In(x, m)
      <4>1. PICK k \in 1..n : l[k] = x
        BY <1>1, <3>2 DEF In
      <4>2. CASE k < a
        <5>1. k \in 1..(n - 1) /\ m[k] = x
          BY <2>2, <4>1, <4>2
        <5> QED
          BY <2>5, <5>1 DEF In
      <4>3. CASE k > a
        <5>1. k - 1 \in 1..(n - 1) /\ ~(k - 1 < a) /\ (k - 1) + 1 = k
          BY <2>1, <4>3
        <5>2. m[k - 1] = x
          BY <2>2, <4>1, <5>1
        <5> QED
          BY <2>5, <5>1, <5>2 DEF In
      <4> QED
        BY <2>1, <3>2, <4>1, <4>2, <4>3
    <3> QED
      BY <3>1, <3>2
  <2> QED
    BY <2>3, <2>5, <2>6, <2>7
<1> QED
  BY <1>2, <1>3

-----------------------------------------------------------------------------
(***************************************************************************)
(* TimerWheel: the location map.                                           *)
(***************************************************************************)

(* A place is a level and one of its slots.                                *)
LEMMA Places ==
  /\ \A p \in Place : p = <<p[1], p[2]>> /\ p[1] \in Levels /\ p[2] \in 0..(Slots(p[1]) - 1)
  /\ \A level \in Levels : \A slot \in 0..(Slots(level) - 1) : <<level, slot>> \in Place
  BY DEF Place

(* A slot is one of its level's.                                           *)
LEMMA SlotOfLevel ==
  ASSUME NEW level \in Levels, NEW x \in Nat
  PROVE  SlotOf(level, x) \in 0..(Slots(level) - 1) /\ <<level, SlotOf(level, x)>> \in Place
<1>1. PICK c \in Nat \ {0}, d \in Nat \ {0} : c = Slots(level) /\ d = Span(level)
  BY LevelSizes
<1>2. x \div d \in Int
  OBVIOUS
<1>3. (x \div d) % c \in 0..(c - 1)
  BY <1>2, DivMod
<1>4. SlotOf(level, x) \in 0..(Slots(level) - 1)
  BY <1>1, <1>3 DEF SlotOf
<1> QED
  BY <1>4, Places

(* The lists of timers, and the wheels of them.                            *)
Lists == Seq(TimerId)
Wheels == [Place -> Lists]

(* A list of a wheel.                                                      *)
LEMMA ListOfWheel ==
  ASSUME NEW w \in Wheels, NEW p \in Place
  PROVE  w[p] \in Lists
  BY DEF Wheels

(* The wheel with another list at a place.                                 *)
Put(w, p, list) == [w EXCEPT ![p] = list]

(* What Put changes.                                                       *)
LEMMA PutList ==
  ASSUME NEW wh \in Wheels, NEW at \in Place, NEW list \in Lists
  PROVE  /\ Put(wh, at, list) \in Wheels /\ Put(wh, at, list)[at] = list
         /\ \A q \in Place : q # at => Put(wh, at, list)[q] = wh[q]
  BY DEF Put, Wheels

(* A map without a timer, and with one at a place.                         *)
LEMMA MapWithout ==
  ASSUME NEW f, NEW id
  PROVE  /\ DOMAIN Without(f, id) = DOMAIN f \ {id}
         /\ \A i \in DOMAIN f \ {id} : Without(f, id)[i] = f[i]
  BY DEF Without

(* The map with a timer at a place.                                        *)
LEMMA MapWith ==
  ASSUME NEW f, NEW id, NEW v
  PROVE  /\ DOMAIN With(f, id, v) = DOMAIN f \cup {id}
         /\ With(f, id, v)[id] = v
         /\ \A i \in DOMAIN f : i # id => With(f, id, v)[i] = f[i]
  BY DEF With

(* insert() of a timer that does not pend keeps the map exact.             *)
LEMMA ExactInsert ==
  ASSUME NEW w \in Wheels, NEW e, NEW l \in Lists, Exact(w, e, l),
         NEW id \in TimerId, id \notin DOMAIN e, NEW p \in Place, NEW v, v = Put(w, p, Append(w[p], id))
  PROVE  v \in Wheels /\ Exact(v, With(e, id, p), l)
<1>1. ~In(id, w[p]) /\ ~In(id, l) /\ Distinct(w[p]) /\ w[p] \in Lists
  BY ListOfWheel DEF Exact
<1>2. PICK u \in Lists : u = Append(w[p], id) /\ Distinct(u)
  BY <1>1, DistinctAppend DEF Lists
<1>3. \A x \in TimerId : In(x, u) <=> In(x, w[p]) \/ x = id
  BY <1>1, <1>2, InAppend DEF Lists
<1>4. v = Put(w, p, u)
  BY <1>2
<1>5. v \in Wheels /\ v[p] = u /\ \A q \in Place : q # p => v[q] = w[q]
  BY <1>4, PutList
<1>6. PICK f : f = With(e, id, p)
  OBVIOUS
<1>7. DOMAIN f = DOMAIN e \cup {id} /\ f[id] = p /\ \A i \in DOMAIN e : i # id => f[i] = e[i]
  BY <1>6 DEF With
<1>8. \A q \in Place : Distinct(v[q])
  BY <1>2, <1>5 DEF Exact
<1>9. Distinct(l) /\ \A x \in TimerId : In(x, l) => x \in DOMAIN f
  BY <1>7 DEF Exact
<1>10. ASSUME NEW q \in Place, NEW x \in TimerId
       PROVE  In(x, v[q]) <=> x \in DOMAIN f /\ f[x] = q /\ ~In(x, l)
  <2>1. In(x, w[q]) <=> x \in DOMAIN e /\ e[x] = q /\ ~In(x, l)
    BY DEF Exact
  <2>2. CASE q = p
    BY <1>1, <1>3, <1>5, <1>7, <2>1, <2>2
  <2>3. CASE q # p
    BY <1>1, <1>5, <1>7, <2>1, <2>3
  <2> QED
    BY <2>2, <2>3
<1> QED
  BY <1>5, <1>6, <1>8, <1>9, <1>10 DEF Exact

(* The head of the list being visited leaves the list and the map.         *)
LEMMA ExactTake ==
  ASSUME NEW w \in Wheels, NEW e, NEW l \in Lists, Exact(w, e, l), l # <<>>
  PROVE  /\ Head(l) \in TimerId /\ In(Head(l), l) /\ Head(l) \in DOMAIN e
         /\ Tail(l) \in Lists
         /\ \A x \in TimerId : In(x, Tail(l)) <=> In(x, l) /\ x # Head(l)
         /\ Exact(w, Without(e, Head(l)), Tail(l))
<1>1. Distinct(l)
  BY DEF Exact
<1>2. PICK h \in TimerId : h = Head(l) /\ In(h, l)
  BY <1>1, TailOfDistinct DEF Lists
<1>3. PICK t \in Lists :
        t = Tail(l) /\ Distinct(t) /\ \A x \in TimerId : In(x, t) <=> In(x, l) /\ x # h
  BY <1>1, <1>2, TailOfDistinct DEF Lists
<1>4. PICK f : f = Without(e, h)
  OBVIOUS
<1>5. DOMAIN f = DOMAIN e \ {h} /\ \A i \in DOMAIN e \ {h} : f[i] = e[i]
  BY <1>4, MapWithout
<1>6. h \in DOMAIN e
  BY <1>2 DEF Exact
<1>7. Exact(w, f, t)
  <2>1. ASSUME NEW q \in Place, NEW x \in TimerId
        PROVE  In(x, w[q]) <=> x \in DOMAIN f /\ f[x] = q /\ ~In(x, t)
    <3>1. In(x, w[q]) <=> x \in DOMAIN e /\ e[x] = q /\ ~In(x, l)
      BY DEF Exact
    <3> QED
      BY <1>2, <1>3, <1>5, <3>1
  <2>2. \A x \in TimerId : In(x, t) => x \in DOMAIN f
    BY <1>3, <1>5 DEF Exact
  <2>3. \A q \in Place : Distinct(w[q])
    BY DEF Exact
  <2> QED
    BY <1>3, <2>1, <2>2, <2>3 DEF Exact
<1> QED
  BY <1>2, <1>3, <1>4, <1>6, <1>7

(* Swapping a slot out keeps the map exact, with the list in its place.    *)
LEMMA ExactSwap ==
  ASSUME NEW w \in Wheels, NEW e, Exact(w, e, <<>>), NEW p \in Place,
         NEW v, v = Put(w, p, <<>>)
  PROVE  /\ v \in Wheels /\ w[p] \in Lists /\ Exact(v, e, w[p])
         /\ \A x \in TimerId : In(x, w[p]) <=> x \in DOMAIN e /\ e[x] = p
<1>1. \A x \in TimerId : ~In(x, <<>>)
  BY DEF In
<1>2. \A q \in Place : Distinct(w[q])
  BY DEF Exact
<1>3. \A q \in Place, x \in TimerId : In(x, w[q]) <=> x \in DOMAIN e /\ e[x] = q
  BY <1>1 DEF Exact
<1>4. PICK l \in Lists : l = w[p]
  BY ListOfWheel
<1>5. PICK o \in Lists : o = <<>>
  <2>1. <<>> \in Lists
    BY DEF Lists
  <2> QED
    BY <2>1, Zenon
<1>6. Distinct(o) /\ \A x \in TimerId : ~In(x, o)
  BY <1>1, <1>5 DEF Distinct
<1>7. v \in Wheels /\ v[p] = o /\ \A q \in Place : q # p => v[q] = w[q]
  <2>1. v = Put(w, p, o)
    BY <1>5, Zenon
  <2>2. /\ Put(w, p, o) \in Wheels /\ Put(w, p, o)[p] = o
        /\ \A q \in Place : q # p => Put(w, p, o)[q] = w[q]
    BY PutList
  <2> QED
    BY <2>1, <2>2, Zenon
<1>8. \A q \in Place : Distinct(v[q])
  BY <1>2, <1>6, <1>7
<1>9. ASSUME NEW q \in Place, NEW x \in TimerId
      PROVE  In(x, v[q]) <=> x \in DOMAIN e /\ e[x] = q /\ ~In(x, l)
  <2>1. CASE q = p
    BY <1>3, <1>4, <1>6, <1>7, <2>1
  <2>2. CASE q # p
    BY <1>3, <1>4, <1>7, <2>2
  <2> QED
    BY <2>1, <2>2
<1>10. Exact(v, e, l)
  BY <1>2, <1>3, <1>4, <1>8, <1>9 DEF Exact
<1> QED
  BY <1>3, <1>4, <1>7, <1>10

(* cancel() takes the timer out of the one list it is in.                  *)
LEMMA ExactErase ==
  ASSUME NEW w \in Wheels, NEW e, NEW l \in Lists, Exact(w, e, l),
         NEW id \in TimerId, id \in DOMAIN e, NEW p \in Place, p = e[id], NEW v, v = Put(w, p, Erase(w[p], id))
  PROVE  /\ v \in Wheels /\ Erase(l, id) \in Lists
         /\ Exact(v, Without(e, id), Erase(l, id))
         /\ \A x \in TimerId : In(x, Erase(l, id)) <=> In(x, l) /\ x # id
<1>2. Distinct(l) /\ \A q \in Place : Distinct(w[q])
  BY DEF Exact
<1>3. PICK m \in Lists :
        m = Erase(l, id) /\ Distinct(m) /\ \A x \in TimerId : In(x, m) <=> In(x, l) /\ x # id
  BY <1>2, EraseDistinct DEF Lists
<1>4. PICK k \in Lists : k = w[p]
  BY ListOfWheel
<1>5. PICK u \in Lists :
        u = Erase(k, id) /\ Distinct(u) /\ \A x \in TimerId : In(x, u) <=> In(x, k) /\ x # id
  <2>1. Distinct(k)
    BY <1>2, <1>4
  <2> QED
    BY <2>1, EraseDistinct DEF Lists
<1>6. v = Put(w, p, u)
  BY <1>4, <1>5, Zenon
<1>7. v \in Wheels /\ v[p] = u /\ \A q \in Place : q # p => v[q] = w[q]
  <2>1. /\ Put(w, p, u) \in Wheels /\ Put(w, p, u)[p] = u
        /\ \A q \in Place : q # p => Put(w, p, u)[q] = w[q]
    BY PutList, Z3
  <2> QED
    BY <1>6, <2>1, Zenon
<1>8. PICK f : f = Without(e, id)
  OBVIOUS
<1>9. DOMAIN f = DOMAIN e \ {id} /\ \A i \in DOMAIN e \ {id} : f[i] = e[i]
  BY <1>8, MapWithout
<1>10. \A q \in Place : Distinct(v[q])
  BY <1>2, <1>5, <1>7
<1>11. \A x \in TimerId : In(x, m) => x \in DOMAIN f
  BY <1>3, <1>9 DEF Exact
<1>12. ASSUME NEW q \in Place, NEW x \in TimerId
       PROVE  In(x, v[q]) <=> x \in DOMAIN f /\ f[x] = q /\ ~In(x, m)
  <2>1. In(x, w[q]) <=> x \in DOMAIN e /\ e[x] = q /\ ~In(x, l)
    BY DEF Exact
  <2>2. CASE q = p
    BY <1>3, <1>4, <1>5, <1>7, <1>9, <2>1, <2>2
  <2>3. CASE q # p
    BY <1>3, <1>7, <1>9, <2>1, <2>3
  <2> QED
    BY <2>2, <2>3
<1>13. Exact(v, f, m)
  BY <1>3, <1>10, <1>11, <1>12 DEF Exact
<1> QED
  BY <1>3, <1>7, <1>8, <1>13

-----------------------------------------------------------------------------
(***************************************************************************)
(* TimerWheel: how timing survives the phases of a tick.                   *)
(***************************************************************************)

(* insert() picks level 0 for what comes up within a turn of it, and a     *)
(* higher level only for what is at least one of its slots ahead.          *)
LEMMA LevelForRange ==
  ASSUME NEW n \in Nat
  PROVE  /\ LevelFor(n) \in Levels
         /\ LevelFor(n) = 0 => n < kL0Slots
         /\ LevelFor(n) # 0 => n >= Span(LevelFor(n))
<1>1. Span(1) = kL0Slots /\ Span(1) \in Nat /\ Span(2) \in Nat /\ Span(3) \in Nat
  BY LevelSizes DEF Levels
<1>2. CASE n < Span(1)
  <2>1. LevelFor(n) = 0
    BY <1>2 DEF LevelFor
  <2> QED
    BY <1>1, <1>2, <2>1 DEF Levels
<1>3. CASE ~(n < Span(1)) /\ n < Span(2)
  <2>1. LevelFor(n) = 1
    BY <1>3 DEF LevelFor
  <2> QED
    BY <1>1, <1>3, <2>1 DEF Levels
<1>4. CASE ~(n < Span(1)) /\ ~(n < Span(2)) /\ n < Span(3)
  <2>1. LevelFor(n) = 2
    BY <1>4 DEF LevelFor
  <2> QED
    BY <1>1, <1>4, <2>1 DEF Levels
<1>5. CASE ~(n < Span(1)) /\ ~(n < Span(2)) /\ ~(n < Span(3))
  <2>1. LevelFor(n) = 3
    BY <1>5 DEF LevelFor
  <2> QED
    BY <1>1, <1>5, <2>1 DEF Levels
<1> QED
  BY <1>2, <1>3, <1>4, <1>5

(* What is inserted is placed right, whatever levels have cascaded.        *)
LEMMA PlacedInsert ==
  ASSUME NEW j \in Nat, NEW x \in Nat, j <= x, NEW ph, NEW c,
         ph \in {"cascade", "move"} \/ j < x, NEW p, p = <<LevelFor(x - j), SlotOf(LevelFor(x - j), x)>>
  PROVE  p \in Place /\ Placed(j, ph, c, p, x)
<1>1. PICK n \in Nat : n = x - j
  OBVIOUS
<1>2. PICK level \in Levels :
        level = LevelFor(n) /\ (level = 0 => n < kL0Slots) /\ (level # 0 => n >= Span(level))
  BY LevelForRange
<1>3. p = <<level, SlotOf(level, x)>>
  BY <1>1, <1>2
<1>4. p \in Place /\ p[1] = level /\ p[2] = SlotOf(level, x)
  BY <1>3, SlotOfLevel
<1>5. OnTime(j, ph, c, level, x)
  <2>1. CASE level = 0
    BY <1>1, <1>2, <2>1, LevelSizes DEF OnTime, Levels
  <2>2. CASE level # 0
    <3>1. PICK d \in Nat \ {0} : d = Span(level)
      BY LevelSizes
    <3>2. j \div d < x \div d /\ j \div d \in Int /\ x \div d \in Int
      BY <1>1, <1>2, <2>2, <3>1, SlotAhead
    <3> QED
      BY <2>2, <3>1, <3>2 DEF OnTime
  <2> QED
    BY <2>1, <2>2
<1> QED
  BY <1>4, <1>5 DEF Placed

(* Between the cascades of two ticks nothing depends on the phase.         *)
LEMMA PlacedOutside ==
  ASSUME NEW j, NEW x, NEW p, NEW c, NEW d,
         NEW ph \in {"idle", "fire", "callback"}, NEW qh \in {"idle", "fire", "callback"},
         Placed(j, ph, c, p, x)
  PROVE  Placed(j, qh, d, p, x)
  BY DEF Placed, OnTime, Due

(* The tick: a slot whose first tick it is, is due for its cascade.        *)
LEMMA PlacedTick ==
  ASSUME NEW j \in Nat, NEW x \in Nat, NEW p \in Place, NEW c, Placed(j, "idle", c, p, x)
  PROVE  Placed(j + 1, "cascade", 1, p, x)
<1>1. PICK level \in Levels : level = p[1]
  BY Places
<1>2. OnTime(j, "idle", c, level, x)
  BY <1>1 DEF Placed
<1>3. OnTime(j + 1, "cascade", 1, level, x)
  <2>1. CASE level = 0
    BY <1>2, <2>1, LevelSizes DEF OnTime, Levels
  <2>2. CASE level # 0
    <3>1. PICK d \in Nat \ {0} : d = Span(level)
      BY LevelSizes
    <3>2. PICK k \in Int, l \in Int, m \in Int : k = j \div d /\ l = (j + 1) \div d /\ m = x \div d
      <4>1. j \div d \in Int /\ (j + 1) \div d \in Int /\ x \div d \in Int
        OBVIOUS
      <4> QED
        BY <4>1, Zenon
    <3>3. k < m
      BY <1>2, <2>2, <3>1, <3>2 DEF OnTime, Due
    <3>4. l <= k + 1 /\ ((j + 1) % d # 0 => l = k)
      BY <3>2, NextQuotient
    <3>5. l <= m /\ ((j + 1) % d # 0 => l < m)
      BY <3>3, <3>4
    <3>6. level >= 1
      BY <2>2 DEF Levels
    <3>7. ~Due(j + 1, "cascade", 1, level) => (j + 1) % d # 0
      BY <3>1, <3>6 DEF Due
    <3> QED
      BY <2>2, <3>1, <3>2, <3>5, <3>7 DEF OnTime
  <2> QED
    BY <2>1, <2>2
<1> QED
  BY <1>1, <1>3 DEF Placed

(* cascade(c) takes out the timers for which the slot begins now; for the  *)
(* others at the level the slot is still ahead.                            *)
LEMMA PlacedCascade ==
  ASSUME NEW j \in Nat, NEW x \in Nat, NEW p \in Place, NEW c \in 1..3, Placed(j, "cascade", c, p, x),
         p # <<c, SlotOf(c, j)>>
  PROVE  Placed(j, "move", c, p, x)
<1>1. PICK level \in Levels : level = p[1] /\ p = <<level, SlotOf(level, x)>>
  BY Places DEF Placed
<1>2. OnTime(j, "cascade", c, level, x)
  BY <1>1 DEF Placed
<1>3. OnTime(j, "move", c, level, x)
  <2>1. CASE level = 0
    BY <1>2, <2>1 DEF OnTime
  <2>2. CASE level # 0 /\ level # c
    <3>1. level \in Int
      BY DEF Levels
    <3>2. Due(j, "cascade", c, level) <=> Due(j, "move", c, level)
      BY <2>2, <3>1 DEF Due
    <3> QED
      BY <1>2, <2>2, <3>2 DEF OnTime
  <2>3. CASE level # 0 /\ level = c
    <3>1. SlotOf(level, x) # SlotOf(level, j)
      BY <1>1, <2>3
    <3>2. PICK d \in Nat \ {0} : d = Span(level)
      BY LevelSizes
    <3>3. PICK k \in Int, m \in Int : k = j \div d /\ m = x \div d
      <4>1. j \div d \in Int /\ x \div d \in Int
        OBVIOUS
      <4> QED
        BY <4>1, Zenon
    <3>4. k # m
      BY <3>1, <3>2, <3>3 DEF SlotOf
    <3>5. k <= m
      BY <1>2, <2>3, <3>2, <3>3 DEF OnTime
    <3>6. k < m
      BY <3>4, <3>5
    <3> QED
      BY <2>3, <3>2, <3>3, <3>5, <3>6 DEF OnTime
  <2> QED
    BY <2>1, <2>2, <2>3
<1> QED
  BY <1>1, <1>3 DEF Placed

(* What a cascade takes out is not overdue.                                *)
LEMMA CascadeNotLate ==
  ASSUME NEW j \in Nat, NEW x \in Nat, NEW c \in 1..3, NEW p, p = <<c, SlotOf(c, j)>>,
         Placed(j, "cascade", c, p, x), j % Span(c) = 0
  PROVE  j <= x
<1>1. c \in Levels /\ c # 0
  BY DEF Levels
<1>2. PICK d \in Nat \ {0} : d = Span(c)
  BY <1>1, LevelSizes
<1>3. p[1] = c
  OBVIOUS
<1>4. OnTime(j, "cascade", c, c, x)
  BY <1>3 DEF Placed
<1>5. j \div d <= x \div d
  BY <1>1, <1>2, <1>4 DEF OnTime
<1> QED
  BY <1>2, <1>5, SlotBegins

(* When the loop of cascade(c) has ended the next level is due.            *)
LEMMA PlacedCascadeEnd ==
  ASSUME NEW j \in Nat, NEW x \in Nat, NEW p \in Place, NEW c \in 1..3, NEW d, d = c + 1,
         Placed(j, "move", c, p, x)
  PROVE  Placed(j, "cascade", d, p, x)
<1>1. PICK level \in Levels : level = p[1]
  BY Places
<1>2. level \in Int
  BY DEF Levels
<1>3. Due(j, "move", c, level) <=> Due(j, "cascade", d, level)
  BY <1>2 DEF Due
<1>4. OnTime(j, "move", c, level, x)
  BY <1>1 DEF Placed
<1>5. OnTime(j, "cascade", d, level, x)
  BY <1>3, <1>4 DEF OnTime
<1> QED
  BY <1>1, <1>5 DEF Placed

(* After the cascades no level is due, and fire_slot takes out exactly     *)
(* what expires now.                                                       *)
LEMMA PlacedFire ==
  ASSUME NEW j \in Nat, NEW x \in Nat, NEW p \in Place, NEW c \in 1..4, Placed(j, "cascade", c, p, x),
         c <= 3 => j % Span(c) # 0
  PROVE  IF p = <<0, SlotOf(0, j)>> THEN x = j ELSE Placed(j, "fire", 0, p, x)
<1>1. PICK level \in Levels : level = p[1] /\ p = <<level, SlotOf(level, x)>>
  BY Places DEF Placed
<1>2. OnTime(j, "cascade", c, level, x)
  BY <1>1 DEF Placed
<1>3. CASE level = 0
  <2>1. kL0Slots \in Nat \ {0} /\ Span(0) = 1 /\ Slots(0) = kL0Slots
    BY LevelSizes DEF Levels
  <2>2. \A y \in Nat : SlotOf(0, y) = y % kL0Slots
    BY <2>1 DEF SlotOf
  <2>3. j <= x /\ x < j + kL0Slots
    BY <1>2, <1>3 DEF OnTime
  <2>4. CASE p = <<0, SlotOf(0, j)>>
    <3>1. SlotOf(0, x) = SlotOf(0, j)
      BY <1>1, <1>3, <2>4
    <3>2. j % kL0Slots = x % kL0Slots
      BY <2>2, <3>1
    <3> QED
      BY <2>1, <2>3, <2>4, <3>2, SameSlot
  <2>5. CASE p # <<0, SlotOf(0, j)>>
    <3>1. x # j
      BY <1>1, <1>3, <2>5
    <3>2. OnTime(j, "fire", 0, level, x)
      BY <1>3, <2>3, <3>1 DEF OnTime
    <3> QED
      BY <1>1, <2>5, <3>2 DEF Placed
  <2> QED
    BY <2>4, <2>5
<1>4. CASE level # 0
  <2>1. p # <<0, SlotOf(0, j)>>
    BY <1>1, <1>4
  <2>2. ~Due(j, "cascade", c, level)
    <3> SUFFICES ASSUME Due(j, "cascade", c, level) PROVE FALSE
      OBVIOUS
    <3>1. j % Span(level) = 0 /\ c <= level
      BY DEF Due
    <3>2. level \in 1..3 /\ c \in 1..3
      BY <1>4, <3>1 DEF Levels
    <3>3. j % Span(c) = 0
      BY <3>1, <3>2, Boundaries
    <3> QED
      BY <3>2, <3>3
  <2>3. OnTime(j, "fire", 0, level, x)
    BY <1>2, <1>4, <2>2 DEF OnTime
  <2> QED
    BY <1>1, <2>1, <2>3 DEF Placed
<1> QED
  BY <1>3, <1>4

(* Between two ticks a pending timer is ahead.                             *)
LEMMA PlacedAhead ==
  ASSUME NEW j \in Nat, NEW x \in Nat, NEW p \in Place, NEW c, Placed(j, "idle", c, p, x)
  PROVE  j < x
<1>1. PICK level \in Levels : level = p[1]
  BY Places
<1>2. OnTime(j, "idle", c, level, x)
  BY <1>1 DEF Placed
<1>3. CASE level = 0
  BY <1>2, <1>3 DEF OnTime
<1>4. CASE level # 0
  <2>1. PICK d \in Nat \ {0} : d = Span(level)
    BY LevelSizes
  <2>2. j \div d < x \div d
    BY <1>2, <1>4, <2>1 DEF OnTime, Due
  <2> QED
    BY <2>1, <2>2, LaterSlot
<1> QED
  BY <1>3, <1>4

-----------------------------------------------------------------------------
(***************************************************************************)
(* TimerWheel: the invariant is inductive.                                 *)
(***************************************************************************)

(* What the types say of the timers.                                       *)
LEMMA WheelTypes ==
  ASSUME TypeOK
  PROVE  /\ jiffies \in Nat /\ MaxTimers \in Nat /\ next_id \in Nat
         /\ DOMAIN timers \subseteq TimerId /\ DOMAIN entries \subseteq TimerId
         /\ DOMAIN entries \subseteq DOMAIN timers
         /\ \A id \in DOMAIN timers :
              /\ timers[id] \in [expiry : Nat, interval : Nat]
              /\ timers[id].expiry \in Nat /\ timers[id].interval \in Nat
         /\ \A id \in DOMAIN entries : entries[id] \in Place
<1>1. jiffies \in Nat /\ MaxTimers \in Nat /\ next_id \in Nat
  BY WheelAssumption DEF TypeOK
<1>2. /\ DOMAIN timers \subseteq TimerId /\ DOMAIN entries \subseteq TimerId
      /\ DOMAIN entries \subseteq DOMAIN timers
  BY WheelAssumption, SMTT(30) DEF TypeOK, TimerId
<1>3. \A id \in DOMAIN timers :
        /\ timers[id] \in [expiry : Nat, interval : Nat]
        /\ timers[id].expiry \in Nat /\ timers[id].interval \in Nat
  BY DEF TypeOK
<1>4. \A id \in DOMAIN entries : entries[id] \in Place
  BY DEF TypeOK
<1> QED
  BY <1>1, <1>2, <1>3, <1>4

(* insert() takes the wheel w and the map to v and e.                      *)
Inserted(j, w, map, id, x, v, e) ==
  \E p : /\ p = <<LevelFor(x - j), SlotOf(LevelFor(x - j), x)>>
         /\ v = Put(w, p, Append(w[p], id)) /\ e = With(map, id, p)

(* A timer may be inserted at x: during the cascades also for now.         *)
InTime(j, ph, x) == j <= x /\ (ph \in {"cascade", "move"} \/ j < x)

(* insert() of a timer that is not in the map, with another list visited   *)
(* or none.                                                                *)
LEMMA InsertStep ==
  ASSUME NEW j \in Nat, NEW w \in Wheels, NEW map, NEW id \in TimerId, NEW x \in Nat,
         NEW l \in Lists, NEW v, NEW e, NEW ph, NEW c,
         Inserted(j, w, map, id, x, v, e), Exact(w, map, l), id \notin DOMAIN map, InTime(j, ph, x)
  PROVE  v \in Wheels /\ Exact(v, e, l) /\ e[id] \in Place /\ Placed(j, ph, c, e[id], x)
<1>1. PICK p : /\ p = <<LevelFor(x - j), SlotOf(LevelFor(x - j), x)>>
               /\ v = Put(w, p, Append(w[p], id)) /\ e = With(map, id, p)
  BY DEF Inserted
<1>2. j <= x /\ (ph \in {"cascade", "move"} \/ j < x)
  BY DEF InTime
<1>3. p \in Place /\ Placed(j, ph, c, p, x)
  BY <1>1, <1>2, PlacedInsert
<1>4. e[id] = p
  BY <1>1 DEF With
<1>5. v \in Wheels /\ Exact(v, e, l)
  BY <1>1, <1>3, ExactInsert
<1>6. e[id] \in Place /\ Placed(j, ph, c, e[id], x)
  BY <1>3, <1>4, Zenon
<1> QED
  BY <1>5, <1>6

(* The invariant holds initially.                                          *)
LEMMA WheelInvInit == Init => WheelInv
<1> SUFFICES ASSUME Init PROVE WheelInv
  OBVIOUS
<1>1. /\ jiffies = 0 /\ next_id = 1 /\ wheel = [p \in Place |-> <<>>] /\ phase = "idle" /\ cascading = 0
      /\ local = <<>> /\ current = 0 /\ cancelled = {}
  BY DEF Init
<1>2. DOMAIN timers = {} /\ timers \in [{} -> [expiry : Nat, interval : Nat]]
  BY DEF Init
<1>3. DOMAIN entries = {} /\ entries \in [{} -> Place]
  BY DEF Init
<1>4. TypeOK
  BY <1>1, <1>2, <1>3, WheelAssumption DEF TypeOK
<1>5. LocationsExact
  <2>1. PICK o \in Lists : o = <<>>
    <3>1. <<>> \in Lists
      BY DEF Lists
    <3> QED
      BY <3>1, Zenon
  <2>2. Distinct(o) /\ \A id \in TimerId : ~In(id, o)
    BY <2>1 DEF Distinct, In
  <2>3. local = o /\ \A p \in Place : wheel[p] = o
    BY <1>1, <2>1
  <2> QED
    BY <1>3, <2>2, <2>3 DEF LocationsExact, Exact
<1>6. TimingInv
  BY <1>3 DEF TimingInv
<1>7. LocalInv
  BY <1>1, <1>3 DEF LocalInv
<1>8. PhaseInv
  BY <1>1 DEF PhaseInv
<1> QED
  BY <1>4, <1>5, <1>6, <1>7, <1>8 DEF WheelInv

(* schedule() and schedule_periodic(): the new timer is ahead.             *)
LEMMA CreateKeeps ==
  ASSUME NEW d \in Delays, NEW periodic \in BOOLEAN, WheelInv, Create(d, periodic)
  PROVE  WheelInv'
<1>1. PICK n \in Nat : n = Clamp(d) /\ n >= 1
  BY WheelAssumption DEF Clamp
<1>2. PICK iv \in Nat : iv = IF periodic THEN n ELSE 0
  OBVIOUS
<1>3. TypeOK /\ jiffies \in Nat /\ next_id \in Nat /\ MaxTimers \in Nat
  BY WheelTypes DEF WheelInv
<1>4. PICK x \in Nat : x = jiffies + n /\ jiffies < x
  BY <1>1, <1>3
<1>5. PICK r \in [expiry : Nat, interval : Nat] : r = [expiry |-> x, interval |-> iv] /\ r.expiry = x
  <2>1. /\ [expiry |-> x, interval |-> iv] \in [expiry : Nat, interval : Nat]
        /\ [expiry |-> x, interval |-> iv].expiry = x
    OBVIOUS
  <2> QED
    BY <2>1, Zenon
<1>6. /\ phase \in {"idle", "callback"} /\ next_id <= MaxTimers /\ next_id' = next_id + 1
      /\ timers' = With(timers, next_id, r) /\ insert(entries, next_id, x)
      /\ UNCHANGED <<jiffies, phase, cascading, local, current, cancelled>>
  BY <1>1, <1>2, <1>4, <1>5 DEF Create, Callable, tickVars
<1>7. /\ next_id \in TimerId /\ next_id \notin DOMAIN timers
      /\ next_id \notin DOMAIN entries /\ next_id \notin cancelled
  BY <1>3, <1>6 DEF TypeOK, TimerId
<1>8. local \in Lists /\ Exact(wheel, entries, local)
  BY DEF WheelInv, TypeOK, LocationsExact, Lists
<1>9. /\ wheel' \in Wheels /\ Exact(wheel', entries', local)
      /\ DOMAIN entries' = DOMAIN entries \cup {next_id} /\ entries'[next_id] \in Place
      /\ \A i \in DOMAIN entries : entries'[i] = entries[i]
      /\ Placed(jiffies, phase, cascading, entries'[next_id], x)
      /\ entries' = [i \in DOMAIN entries' |-> entries'[i]]
  <2>1. InTime(jiffies, phase, x)
    BY <1>3, <1>4 DEF InTime
  <2>2. Inserted(jiffies, wheel, entries, next_id, x, wheel', entries')
    BY <1>6 DEF insert, PlaceFor, Put, Inserted
  <2>3. wheel \in Wheels
    BY <1>3 DEF TypeOK, Wheels, Lists
  <2>4. entries' = [i \in DOMAIN entries' |-> entries'[i]] /\ DOMAIN entries' = DOMAIN entries \cup {next_id}
    BY <1>6 DEF insert, With
  <2>5. \A i \in DOMAIN entries : entries'[i] = entries[i]
    BY <1>6, <1>7 DEF insert, With
  <2>6. wheel' \in Wheels /\ Exact(wheel', entries', local) /\ entries'[next_id] \in Place
        /\ Placed(jiffies, phase, cascading, entries'[next_id], x)
    BY <1>3, <1>7, <1>8, <2>1, <2>2, <2>3, InsertStep
  <2> QED
    BY <2>4, <2>5, <2>6
<1>10. /\ DOMAIN timers' = DOMAIN timers \cup {next_id} /\ timers'[next_id] = r
       /\ \A i \in DOMAIN timers : timers'[i] = timers[i]
       /\ timers' = [i \in DOMAIN timers \cup {next_id} |-> timers'[i]]
  BY <1>6, <1>7 DEF With
<1>11. TypeOK'
  <2>1. timers' \in [DOMAIN timers' -> [expiry : Nat, interval : Nat]]
    <3>1. \A i \in DOMAIN timers' : timers'[i] \in [expiry : Nat, interval : Nat]
      BY <1>3, <1>10, WheelTypes
    <3> QED
      BY <1>10, <3>1
  <2>2. entries' \in [DOMAIN entries' -> Place]
    <3>1. \A i \in DOMAIN entries' : entries'[i] \in Place
      BY <1>3, <1>9, WheelTypes
    <3> QED
      BY <1>9, <3>1
  <2>3. DOMAIN timers' \subseteq 1..(next_id' - 1) /\ cancelled' \subseteq 1..(next_id' - 1)
    BY <1>3, <1>6, <1>10, SMTT(30) DEF TypeOK
  <2>4. DOMAIN entries' \subseteq DOMAIN timers'
    BY <1>3, <1>9, <1>10, WheelTypes
  <2>5. next_id' \in 1..(MaxTimers + 1)
    BY <1>3, <1>6
  <2> QED
    BY <1>3, <1>6, <1>9, <2>1, <2>2, <2>3, <2>4, <2>5 DEF TypeOK, Wheels, Lists
<1>12. LocationsExact'
  BY <1>6, <1>9 DEF LocationsExact
<1>13. ~In(next_id, local)
  BY <1>7, <1>8 DEF Exact
<1>14. \A id \in DOMAIN entries : id \in DOMAIN timers /\ id # next_id
  BY <1>3, <1>7, WheelTypes
<1>15. TimingInv'
  <2> SUFFICES ASSUME NEW id \in DOMAIN entries', ~In(id, local)
               PROVE  Placed(jiffies, phase, cascading, entries'[id], timers'[id].expiry)
    BY <1>6 DEF TimingInv
  <2>1. CASE id = next_id
    BY <1>5, <1>9, <1>10, <2>1
  <2>2. CASE id \in DOMAIN entries
    BY <1>9, <1>10, <1>14, <2>2 DEF WheelInv, TimingInv
  <2> QED
    BY <1>9, <2>1, <2>2
<1>16. LocalInv'
  BY <1>6, <1>9, <1>10, <1>13, <1>14 DEF WheelInv, LocalInv
<1>17. PhaseInv'
  BY <1>6, <1>7, <1>9, <1>10 DEF WheelInv, PhaseInv
<1> QED
  BY <1>11, <1>12, <1>15, <1>16, <1>17 DEF WheelInv

(* cancel(): the timer leaves its list and the map, the others stay.       *)
LEMMA CancelKeeps ==
  ASSUME NEW id \in TimerId, WheelInv, cancel(id)
  PROVE  WheelInv'
<1>1. /\ phase \in {"idle", "callback"} /\ id \in DOMAIN entries
      /\ wheel' = [wheel EXCEPT ![entries[id]] = Erase(@, id)] /\ local' = Erase(local, id)
      /\ entries' = Without(entries, id) /\ timers' = Without(timers, id)
      /\ cancelled' = cancelled \cup {id}
      /\ UNCHANGED <<jiffies, next_id, phase, cascading, current>>
  BY DEF cancel, Callable
<1>2. TypeOK /\ local \in Lists /\ wheel \in Wheels /\ Exact(wheel, entries, local)
  BY DEF WheelInv, TypeOK, LocationsExact, Wheels, Lists
<1>3. entries[id] \in Place /\ id \in DOMAIN timers /\ id \in DOMAIN entries
  BY <1>1, <1>2, WheelTypes
<1>4. /\ wheel' \in Wheels /\ local' \in Lists /\ Exact(wheel', entries', local')
      /\ \A i \in TimerId : In(i, local') <=> In(i, local) /\ i # id
  <2>1. PICK v : v = [wheel EXCEPT ![entries[id]] = Erase(@, id)]
    OBVIOUS
  <2>2. /\ v \in Wheels /\ Erase(local, id) \in Lists
        /\ Exact(v, Without(entries, id), Erase(local, id))
        /\ \A i \in TimerId : In(i, Erase(local, id)) <=> In(i, local) /\ i # id
    <3>1. PICK p \in Place : p = entries[id]
      BY <1>3
    <3>2. v = Put(wheel, p, Erase(wheel[p], id))
      BY <2>1, <3>1 DEF Put
    <3> QED
      BY <1>2, <1>3, <3>1, <3>2, ExactErase
  <2> QED
    BY <1>1, <2>1, <2>2
<1>5. /\ DOMAIN entries' = DOMAIN entries \ {id} /\ \A i \in DOMAIN entries' : entries'[i] = entries[i]
      /\ entries' = [i \in DOMAIN entries \ {id} |-> entries'[i]]
  BY <1>1 DEF Without
<1>6. /\ DOMAIN timers' = DOMAIN timers \ {id} /\ \A i \in DOMAIN timers' : timers'[i] = timers[i]
      /\ timers' = [i \in DOMAIN timers \ {id} |-> timers'[i]]
  BY <1>1 DEF Without
<1>7. TypeOK'
  <2>1. timers' \in [DOMAIN timers' -> [expiry : Nat, interval : Nat]]
    <3>1. \A i \in DOMAIN timers' : timers'[i] \in [expiry : Nat, interval : Nat]
      BY <1>2, <1>6, WheelTypes
    <3> QED
      BY <1>6, <3>1
  <2>2. entries' \in [DOMAIN entries' -> Place]
    <3>1. \A i \in DOMAIN entries' : entries'[i] \in Place
      BY <1>2, <1>5, WheelTypes
    <3> QED
      BY <1>5, <3>1
  <2>3. DOMAIN timers' \subseteq 1..(next_id' - 1) /\ cancelled' \subseteq 1..(next_id' - 1)
    BY <1>1, <1>2, <1>3, <1>6 DEF TypeOK
  <2>4. DOMAIN entries' \subseteq DOMAIN timers'
    BY <1>2, <1>5, <1>6, WheelTypes
  <2> QED
    BY <1>1, <1>2, <1>4, <2>1, <2>2, <2>3, <2>4 DEF TypeOK, Wheels, Lists
<1>8. LocationsExact'
  BY <1>4 DEF LocationsExact
<1>9. \A i \in DOMAIN entries' : i \in DOMAIN entries /\ i \in DOMAIN timers' /\ i \in TimerId
                                 /\ i # id /\ timers'[i] = timers[i] /\ entries'[i] = entries[i]
                                 /\ (In(i, local') <=> In(i, local))
  BY <1>2, <1>4, <1>5, <1>6, WheelTypes
<1>10. TimingInv'
  BY <1>1, <1>9 DEF WheelInv, TimingInv
<1>11. LocalInv'
  <2>1. phase = "idle" => local' = <<>>
    <3>1. phase = "idle" => local = <<>>
      BY DEF WheelInv, LocalInv
    <3>2. local = <<>> => ~In(id, local)
      BY DEF In
    <3> QED
      BY <1>1, <3>1, <3>2 DEF Erase
  <2> QED
    BY <1>1, <1>9, <2>1 DEF WheelInv, LocalInv
<1>12. PhaseInv'
  <2>1. phase = "callback" => current # id
    BY <1>1 DEF WheelInv, PhaseInv
  <2>2. phase = "callback" => /\ current \in DOMAIN timers' /\ timers'[current] = timers[current]
                              /\ current \notin DOMAIN entries'
    BY <1>5, <1>6, <2>1 DEF WheelInv, PhaseInv
  <2> QED
    BY <1>1, <1>6, <2>2 DEF WheelInv, PhaseInv
<1> QED
  BY <1>7, <1>8, <1>10, <1>11, <1>12 DEF WheelInv

(* What the invariant says of a pending timer.                             *)
LEMMA Pending ==
  ASSUME WheelInv, NEW id \in DOMAIN entries
  PROVE  /\ id \in TimerId /\ id \in DOMAIN timers /\ entries[id] \in Place /\ timers[id].expiry \in Nat
         /\ jiffies \in Nat
         /\ ~In(id, local) => Placed(jiffies, phase, cascading, entries[id], timers[id].expiry)
         /\ In(id, local) =>
              IF phase = "move" THEN jiffies <= timers[id].expiry ELSE jiffies = timers[id].expiry
<1>1. TypeOK
  BY DEF WheelInv
<1>2. /\ id \in TimerId /\ id \in DOMAIN timers /\ entries[id] \in Place /\ timers[id].expiry \in Nat
      /\ jiffies \in Nat
  BY <1>1, WheelTypes
<1>3. ~In(id, local) => Placed(jiffies, phase, cascading, entries[id], timers[id].expiry)
  BY DEF WheelInv, TimingInv
<1>4. In(id, local) => IF phase = "move" THEN jiffies <= timers[id].expiry ELSE jiffies = timers[id].expiry
  BY DEF WheelInv, LocalInv
<1> QED
  BY <1>2, <1>3, <1>4

(* The lists of the invariant.                                             *)
LEMMA ListTypes ==
  ASSUME WheelInv
  PROVE  local \in Lists /\ wheel \in Wheels /\ Exact(wheel, entries, local)
  BY DEF WheelInv, TypeOK, LocationsExact, Wheels, Lists

(* tick(): the slots that begin now are due for their cascade.             *)
LEMMA TickKeeps ==
  ASSUME WheelInv, tick
  PROVE  WheelInv'
<1>1. /\ phase = "idle" /\ jiffies < MaxTick /\ jiffies' = jiffies + 1 /\ phase' = "cascade" /\ cascading' = 1
      /\ UNCHANGED <<next_id, timers, wheel, entries, local, current, cancelled>>
  BY DEF tick
<1>2. local = <<>>
  BY <1>1 DEF WheelInv, LocalInv
<1>3. \A id \in TimerId : ~In(id, local)
  BY <1>2 DEF In
<1>4. TypeOK'
  BY <1>1, WheelAssumption, SMTT(30) DEF WheelInv, TypeOK
<1>5. LocationsExact'
  BY <1>1 DEF WheelInv, LocationsExact
<1>6. TimingInv'
  <2> SUFFICES ASSUME NEW id \in DOMAIN entries
               PROVE  Placed(jiffies + 1, "cascade", 1, entries[id], timers[id].expiry)
    BY <1>1 DEF TimingInv
  <2>1. Placed(jiffies, "idle", cascading, entries[id], timers[id].expiry)
    BY <1>1, <1>3, Pending
  <2>2. entries[id] \in Place /\ timers[id].expiry \in Nat /\ jiffies \in Nat
    BY Pending
  <2> QED
    BY <2>1, <2>2, PlacedTick
<1>7. LocalInv'
  <2>1. \A id \in DOMAIN entries : ~In(id, local)
    BY <1>3, Pending
  <2> QED
    BY <1>1, <1>2, <2>1 DEF LocalInv
<1>8. PhaseInv'
  BY <1>1 DEF WheelInv, PhaseInv
<1> QED
  BY <1>4, <1>5, <1>6, <1>7, <1>8 DEF WheelInv

(* cascade() takes a slot out: its timers are not overdue, the others of   *)
(* the level are still ahead.                                              *)
LEMMA CascadeKeeps ==
  ASSUME WheelInv, Cascade
  PROVE  WheelInv'
<1>1. PICK p : p = <<cascading, SlotOf(cascading, jiffies)>>
  OBVIOUS
<1>2. /\ phase = "cascade" /\ cascading <= 3 /\ jiffies % Span(cascading) = 0 /\ phase' = "move"
      /\ local' = wheel[p] /\ wheel' = Put(wheel, p, <<>>)
      /\ UNCHANGED <<jiffies, next_id, timers, entries, cascading, current, cancelled>>
  BY <1>1 DEF Cascade, Boundary, SwapOut, Put
<1>3. local = <<>> /\ cascading \in 1..3
  BY <1>2 DEF WheelInv, LocalInv, PhaseInv
<1>4. jiffies \in Nat /\ p \in Place
  <2>1. jiffies \in Nat
    BY WheelTypes DEF WheelInv
  <2>2. cascading \in Levels
    BY <1>3 DEF Levels
  <2> QED
    BY <1>1, <2>1, <2>2, SlotOfLevel
<1>5. /\ wheel' \in Wheels /\ local' \in Lists /\ Exact(wheel', entries, local')
      /\ \A x \in TimerId : In(x, local') <=> x \in DOMAIN entries /\ entries[x] = p
  <2>1. wheel \in Wheels /\ Exact(wheel, entries, <<>>)
    BY <1>3, ListTypes
  <2> QED
    BY <1>2, <1>4, <2>1, ExactSwap
<1>6. TypeOK'
  BY <1>2, <1>5 DEF WheelInv, TypeOK, Wheels, Lists
<1>7. LocationsExact'
  BY <1>2, <1>5 DEF LocationsExact
<1>8. ASSUME NEW id \in DOMAIN entries
      PROVE  /\ Placed(jiffies, "cascade", cascading, entries[id], timers[id].expiry)
             /\ entries[id] \in Place /\ timers[id].expiry \in Nat
             /\ In(id, local') <=> entries[id] = p
  <2>1. ~In(id, local)
    BY <1>3 DEF In
  <2> QED
    BY <1>2, <1>5, <2>1, Pending
<1>9. TimingInv'
  <2> SUFFICES ASSUME NEW id \in DOMAIN entries, ~In(id, local')
               PROVE  Placed(jiffies, "move", cascading, entries[id], timers[id].expiry)
    BY <1>2 DEF TimingInv
  <2>1. entries[id] # <<cascading, SlotOf(cascading, jiffies)>>
    BY <1>1, <1>8
  <2> QED
    BY <1>3, <1>4, <1>8, <2>1, PlacedCascade
<1>10. LocalInv'
  <2> SUFFICES ASSUME NEW id \in DOMAIN entries, In(id, local')
               PROVE  jiffies <= timers[id].expiry
    BY <1>2 DEF LocalInv
  <2>1. entries[id] = p
    BY <1>8
  <2>2. Placed(jiffies, "cascade", cascading, p, timers[id].expiry) /\ timers[id].expiry \in Nat
    BY <1>8, <2>1
  <2> QED
    BY <1>1, <1>2, <1>3, <1>4, <2>2, CascadeNotLate
<1>11. PhaseInv'
  BY <1>2, <1>3 DEF WheelInv, PhaseInv
<1> QED
  BY <1>6, <1>7, <1>9, <1>10, <1>11 DEF WheelInv

(* The loop of cascade(): what it takes from the list it inserts again.    *)
LEMMA MoveKeeps ==
  ASSUME WheelInv, Move
  PROVE  WheelInv'
<1>1. PICK h, map : h = Head(local) /\ map = Without(entries, h)
  OBVIOUS
<1>2. /\ phase = "move" /\ local # <<>> /\ local' = Tail(local) /\ insert(map, h, timers[h].expiry)
      /\ UNCHANGED <<jiffies, next_id, timers, phase, cascading, current, cancelled>>
  BY <1>1 DEF Move
<1>3. /\ h \in TimerId /\ In(h, local) /\ h \in DOMAIN entries /\ local' \in Lists
      /\ \A x \in TimerId : In(x, local') <=> In(x, local) /\ x # h
      /\ Exact(wheel, map, local')
  BY <1>1, <1>2, ListTypes, ExactTake
<1>4. PICK x \in Nat : x = timers[h].expiry /\ jiffies \in Nat /\ jiffies <= x
  BY <1>2, <1>3, Pending
<1>5. DOMAIN map = DOMAIN entries \ {h} /\ \A i \in DOMAIN map : map[i] = entries[i]
  BY <1>1 DEF Without
<1>6. entries' = [i \in DOMAIN entries' |-> entries'[i]] /\ DOMAIN entries' = DOMAIN entries
  BY <1>2, <1>3, <1>5 DEF insert, With
<1>7. \A i \in DOMAIN entries : i # h => entries'[i] = entries[i]
  BY <1>2, <1>5 DEF insert, With
<1>8. /\ wheel' \in Wheels /\ Exact(wheel', entries', local') /\ entries'[h] \in Place
      /\ Placed(jiffies, phase, cascading, entries'[h], x)
  <2>1. InTime(jiffies, phase, x)
    BY <1>2, <1>4 DEF InTime
  <2>2. Inserted(jiffies, wheel, map, h, x, wheel', entries')
    BY <1>2, <1>4 DEF insert, PlaceFor, Put, Inserted
  <2>3. wheel \in Wheels /\ h \notin DOMAIN map
    BY <1>5, ListTypes
  <2> QED
    <3>1. PICK w, m, l, v, e, j, ph, c :
            /\ w = wheel /\ m = map /\ l = local' /\ v = wheel' /\ e = entries'
            /\ j = jiffies /\ ph = phase /\ c = cascading
      OBVIOUS
    <3>2. /\ j \in Nat /\ w \in Wheels /\ l \in Lists /\ Exact(w, m, l) /\ h \notin DOMAIN m
          /\ Inserted(j, w, m, h, x, v, e) /\ InTime(j, ph, x)
      BY <1>3, <1>4, <2>1, <2>2, <2>3, <3>1
    <3>3. v \in Wheels /\ Exact(v, e, l) /\ e[h] \in Place /\ Placed(j, ph, c, e[h], x)
      BY <1>3, <3>2, InsertStep
    <3> QED
      BY <3>1, <3>3
<1>9. TypeOK'
  <2>1. entries' \in [DOMAIN entries' -> Place]
    <3>1. \A i \in DOMAIN entries' : entries'[i] \in Place
      BY <1>6, <1>7, <1>8, Pending
    <3> QED
      BY <1>6, <3>1
  <2> QED
    BY <1>2, <1>3, <1>6, <1>8, <2>1 DEF WheelInv, TypeOK, Wheels, Lists
<1>10. LocationsExact'
  BY <1>8 DEF LocationsExact
<1>11. TimingInv'
  <2> SUFFICES ASSUME NEW id \in DOMAIN entries, ~In(id, local')
               PROVE  Placed(jiffies, phase, cascading, entries'[id], timers[id].expiry)
    BY <1>2, <1>6 DEF TimingInv
  <2>1. CASE id = h
    BY <1>4, <1>8, <2>1
  <2>2. CASE id # h
    <3>1. ~In(id, local)
      BY <1>3, <2>2, Pending
    <3> QED
      BY <1>7, <2>2, <3>1, Pending
  <2> QED
    BY <2>1, <2>2
<1>12. LocalInv'
  <2> SUFFICES ASSUME NEW id \in DOMAIN entries, In(id, local')
               PROVE  jiffies <= timers[id].expiry
    BY <1>2, <1>6 DEF LocalInv
  <2>1. In(id, local)
    BY <1>3, Pending
  <2> QED
    BY <1>2, <2>1, Pending
<1>13. PhaseInv'
  BY <1>2 DEF WheelInv, PhaseInv
<1> QED
  BY <1>9, <1>10, <1>11, <1>12, <1>13 DEF WheelInv

(* The end of that loop: the next level is looked at.                      *)
LEMMA CascadeEndKeeps ==
  ASSUME WheelInv, CascadeEnd
  PROVE  WheelInv'
<1>1. /\ phase = "move" /\ local = <<>> /\ phase' = "cascade" /\ cascading' = cascading + 1
      /\ UNCHANGED <<jiffies, next_id, timers, wheel, entries, local, current, cancelled>>
  BY DEF CascadeEnd
<1>2. cascading \in 1..3
  BY <1>1 DEF WheelInv, PhaseInv
<1>3. \A id \in DOMAIN entries : ~In(id, local)
  BY <1>1 DEF In
<1>4. TypeOK'
  BY <1>1, <1>2 DEF WheelInv, TypeOK
<1>5. LocationsExact'
  BY <1>1 DEF WheelInv, LocationsExact
<1>6. TimingInv'
  <2> SUFFICES ASSUME NEW id \in DOMAIN entries
               PROVE  Placed(jiffies, "cascade", cascading + 1, entries[id], timers[id].expiry)
    BY <1>1 DEF TimingInv
  <2>1. Placed(jiffies, "move", cascading, entries[id], timers[id].expiry)
    BY <1>1, <1>3, Pending
  <2>2. entries[id] \in Place /\ timers[id].expiry \in Nat /\ jiffies \in Nat
    BY Pending
  <2> QED
    BY <1>2, <2>1, <2>2, PlacedCascadeEnd
<1>7. LocalInv'
  BY <1>1, <1>3 DEF LocalInv
<1>8. PhaseInv'
  BY <1>1, <1>2 DEF WheelInv, PhaseInv
<1> QED
  BY <1>4, <1>5, <1>6, <1>7, <1>8 DEF WheelInv

(* fire_slot() takes out exactly what expires now.                         *)
LEMMA FireSlotKeeps ==
  ASSUME WheelInv, FireSlot
  PROVE  WheelInv'
<1>1. PICK p : p = <<0, SlotOf(0, jiffies)>>
  OBVIOUS
<1>2. /\ phase = "cascade" /\ (cascading <= 3 => jiffies % Span(cascading) # 0)
      /\ phase' = "fire" /\ cascading' = 0
      /\ local' = wheel[p] /\ wheel' = Put(wheel, p, <<>>)
      /\ UNCHANGED <<jiffies, next_id, timers, entries, current, cancelled>>
  BY <1>1 DEF FireSlot, Boundary, SwapOut, Put
<1>3. local = <<>> /\ cascading \in 1..4
  BY <1>2 DEF WheelInv, LocalInv, PhaseInv
<1>4. jiffies \in Nat /\ p \in Place
  <2>1. jiffies \in Nat
    BY WheelTypes DEF WheelInv
  <2>2. 0 \in Levels
    BY DEF Levels
  <2> QED
    BY <1>1, <2>1, <2>2, SlotOfLevel
<1>5. /\ wheel' \in Wheels /\ local' \in Lists /\ Exact(wheel', entries, local')
      /\ \A x \in TimerId : In(x, local') <=> x \in DOMAIN entries /\ entries[x] = p
  <2>1. wheel \in Wheels /\ Exact(wheel, entries, <<>>)
    BY <1>3, ListTypes
  <2> QED
    BY <1>2, <1>4, <2>1, ExactSwap
<1>6. TypeOK'
  BY <1>2, <1>5 DEF WheelInv, TypeOK, Wheels, Lists
<1>7. LocationsExact'
  BY <1>2, <1>5 DEF LocationsExact
<1>8. ASSUME NEW id \in DOMAIN entries
      PROVE  /\ In(id, local') <=> entries[id] = p
             /\ IF entries[id] = p THEN timers[id].expiry = jiffies
                ELSE Placed(jiffies, "fire", 0, entries[id], timers[id].expiry)
  <2>1. ~In(id, local)
    BY <1>3 DEF In
  <2>2. /\ Placed(jiffies, "cascade", cascading, entries[id], timers[id].expiry)
        /\ entries[id] \in Place /\ timers[id].expiry \in Nat /\ id \in TimerId
    BY <1>2, <2>1, Pending
  <2>3. IF entries[id] = <<0, SlotOf(0, jiffies)>> THEN timers[id].expiry = jiffies
        ELSE Placed(jiffies, "fire", 0, entries[id], timers[id].expiry)
    BY <1>2, <1>3, <1>4, <2>2, PlacedFire
  <2> QED
    BY <1>1, <1>5, <2>2, <2>3
<1>9. TimingInv'
  BY <1>2, <1>8 DEF TimingInv
<1>10. LocalInv'
  BY <1>2, <1>8 DEF LocalInv
<1>11. PhaseInv'
  BY <1>2 DEF WheelInv, PhaseInv
<1> QED
  BY <1>6, <1>7, <1>9, <1>10, <1>11 DEF WheelInv

(* A timer of the slot is fired: it is due now and leaves list and map.    *)
LEMMA FireBeginKeeps ==
  ASSUME WheelInv, FireBegin
  PROVE  WheelInv'
<1>1. PICK h : h = Head(local)
  OBVIOUS
<1>2. /\ phase = "fire" /\ local # <<>> /\ phase' = "callback" /\ current' = h
      /\ local' = Tail(local) /\ entries' = Without(entries, h)
      /\ UNCHANGED <<jiffies, next_id, timers, wheel, cascading, cancelled>>
  BY <1>1 DEF FireBegin
<1>3. /\ h \in TimerId /\ In(h, local) /\ h \in DOMAIN entries /\ local' \in Lists
      /\ \A x \in TimerId : In(x, local') <=> In(x, local) /\ x # h
      /\ Exact(wheel, entries', local')
  BY <1>1, <1>2, ListTypes, ExactTake
<1>4. timers[h].expiry = jiffies /\ h \in DOMAIN timers
  BY <1>2, <1>3, Pending
<1>5. /\ DOMAIN entries' = DOMAIN entries \ {h} /\ \A i \in DOMAIN entries' : entries'[i] = entries[i]
      /\ entries' = [i \in DOMAIN entries' |-> entries'[i]]
  BY <1>2 DEF Without
<1>6. TypeOK'
  <2>1. entries' \in [DOMAIN entries' -> Place]
    <3>1. \A i \in DOMAIN entries' : entries'[i] \in Place
      BY <1>5, Pending
    <3> QED
      BY <1>5, <3>1
  <2>2. DOMAIN entries' \subseteq DOMAIN timers /\ h \in 0..MaxTimers
    BY <1>3, <1>5, Pending, WheelAssumption DEF TimerId
  <2> QED
    BY <1>2, <1>3, <2>1, <2>2 DEF WheelInv, TypeOK, Lists
<1>7. LocationsExact'
  BY <1>2, <1>3 DEF LocationsExact
<1>8. ASSUME NEW id \in DOMAIN entries'
      PROVE  /\ id \in DOMAIN entries /\ entries'[id] = entries[id]
             /\ In(id, local') <=> In(id, local)
  BY <1>3, <1>5, Pending
<1>9. TimingInv'
  <2> SUFFICES ASSUME NEW id \in DOMAIN entries', ~In(id, local')
               PROVE  Placed(jiffies, "callback", cascading, entries'[id], timers[id].expiry)
    BY <1>2 DEF TimingInv
  <2>1. Placed(jiffies, "fire", cascading, entries[id], timers[id].expiry)
    BY <1>2, <1>8, Pending
  <2>2. Placed(jiffies, "callback", cascading, entries[id], timers[id].expiry)
    BY <2>1, PlacedOutside
  <2> QED
    BY <1>8, <2>2
<1>10. LocalInv'
  <2> SUFFICES ASSUME NEW id \in DOMAIN entries', In(id, local')
               PROVE  jiffies = timers[id].expiry
    BY <1>2 DEF LocalInv
  <2> QED
    BY <1>2, <1>8, Pending
<1>11. PhaseInv'
  BY <1>2, <1>4, <1>5 DEF WheelInv, PhaseInv
<1> QED
  BY <1>6, <1>7, <1>9, <1>10, <1>11 DEF WheelInv

(* The end of the slot's list: every pending timer is ahead.               *)
LEMMA TickEndKeeps ==
  ASSUME WheelInv, TickEnd
  PROVE  WheelInv'
<1>1. /\ phase = "fire" /\ local = <<>> /\ phase' = "idle"
      /\ UNCHANGED <<jiffies, next_id, timers, wheel, entries, cascading, local, current, cancelled>>
  BY DEF TickEnd
<1>2. \A id \in DOMAIN entries : ~In(id, local)
  BY <1>1 DEF In
<1>3. TypeOK'
  BY <1>1 DEF WheelInv, TypeOK
<1>4. LocationsExact'
  BY <1>1 DEF WheelInv, LocationsExact
<1>5. TimingInv'
  <2> SUFFICES ASSUME NEW id \in DOMAIN entries
               PROVE  Placed(jiffies, "idle", cascading, entries[id], timers[id].expiry)
    BY <1>1 DEF TimingInv
  <2>1. Placed(jiffies, "fire", cascading, entries[id], timers[id].expiry)
    BY <1>1, <1>2, Pending
  <2> QED
    BY <2>1, PlacedOutside
<1>6. LocalInv'
  BY <1>1, <1>2 DEF LocalInv
<1>7. PhaseInv'
  BY <1>1 DEF WheelInv, PhaseInv
<1> QED
  BY <1>3, <1>4, <1>5, <1>6, <1>7 DEF WheelInv

(* After the callback of a one-shot timer it is gone.                      *)
LEMMA FireOnceKeeps ==
  ASSUME WheelInv, FireEnd, timers[current].interval = 0
  PROVE  WheelInv'
<1>1. /\ phase = "callback" /\ phase' = "fire" /\ current' = 0 /\ timers' = Without(timers, current)
      /\ UNCHANGED <<jiffies, next_id, wheel, entries, cascading, local, cancelled>>
  BY DEF FireEnd
<1>2. current \notin DOMAIN entries
  BY <1>1 DEF WheelInv, PhaseInv
<1>3. /\ DOMAIN timers' = DOMAIN timers \ {current} /\ \A i \in DOMAIN timers' : timers'[i] = timers[i]
      /\ timers' = [i \in DOMAIN timers' |-> timers'[i]]
  BY <1>1 DEF Without
<1>4. ASSUME NEW id \in DOMAIN entries
      PROVE  /\ id \in DOMAIN timers' /\ timers'[id] = timers[id]
             /\ ~In(id, local) => Placed(jiffies, "fire", cascading, entries[id], timers[id].expiry)
             /\ In(id, local) => jiffies = timers[id].expiry
  <2>1. ~In(id, local) => Placed(jiffies, "callback", cascading, entries[id], timers[id].expiry)
    BY <1>1, Pending
  <2> QED
    BY <1>1, <1>2, <1>3, <2>1, Pending, PlacedOutside
<1>5. TypeOK'
  <2>1. timers' \in [DOMAIN timers' -> [expiry : Nat, interval : Nat]]
    <3>1. \A i \in DOMAIN timers' : timers'[i] \in [expiry : Nat, interval : Nat]
      BY <1>3, WheelTypes DEF WheelInv
    <3> QED
      BY <1>3, <3>1
  <2>2. DOMAIN timers' \subseteq 1..(next_id - 1) /\ DOMAIN entries \subseteq DOMAIN timers'
    BY <1>3, <1>4 DEF WheelInv, TypeOK
  <2> QED
    BY <1>1, <2>1, <2>2, WheelAssumption, SMTT(30) DEF WheelInv, TypeOK
<1>6. LocationsExact'
  BY <1>1 DEF WheelInv, LocationsExact
<1>7. TimingInv'
  BY <1>1, <1>4 DEF TimingInv
<1>8. LocalInv'
  BY <1>1, <1>4 DEF LocalInv
<1>9. PhaseInv'
  BY <1>1, <1>3 DEF WheelInv, PhaseInv
<1> QED
  BY <1>5, <1>6, <1>7, <1>8, <1>9 DEF WheelInv

(* A periodic one is inserted again, one interval ahead.                   *)
LEMMA FireAgainKeeps ==
  ASSUME WheelInv, FireEnd, timers[current].interval # 0
  PROVE  WheelInv'
<1>1. phase = "callback" /\ current \in DOMAIN timers /\ current \notin DOMAIN entries /\ current \in TimerId
  BY WheelTypes DEF FireEnd, WheelInv, PhaseInv
<1>2. PICK h \in TimerId, n \in Nat : h = current /\ n = timers[current].interval /\ n # 0
  BY <1>1, WheelTypes DEF WheelInv
<1>3. PICK x \in Nat : x = jiffies + n /\ jiffies < x /\ jiffies \in Nat
  <2>1. jiffies \in Nat
    BY WheelTypes DEF WheelInv
  <2> QED
    BY <1>2, <2>1
<1>4. /\ phase' = "fire" /\ current' = 0 /\ insert(entries, h, x) /\ timers' = [timers EXCEPT ![h].expiry = x]
      /\ UNCHANGED <<jiffies, next_id, cascading, local, cancelled>>
  BY <1>2, <1>3 DEF FireEnd
<1>5. ~In(h, local)
  BY <1>1, <1>2, ListTypes DEF Exact
<1>6. /\ DOMAIN timers' = DOMAIN timers /\ timers'[h].expiry = x
      /\ timers'[h] \in [expiry : Nat, interval : Nat]
      /\ \A i \in DOMAIN timers : i # h => timers'[i] = timers[i]
      /\ timers' = [i \in DOMAIN timers' |-> timers'[i]]
  <2>1. timers[h] \in [expiry : Nat, interval : Nat] /\ h \in DOMAIN timers
    BY <1>1, <1>2, WheelTypes DEF WheelInv
  <2> QED
    BY <1>4, <2>1
<1>7. entries' = [i \in DOMAIN entries' |-> entries'[i]] /\ DOMAIN entries' = DOMAIN entries \cup {h}
  BY <1>4 DEF insert, With
<1>8. \A i \in DOMAIN entries : i # h /\ entries'[i] = entries[i]
  BY <1>1, <1>2, <1>4 DEF insert, With
<1>9. /\ wheel' \in Wheels /\ Exact(wheel', entries', local) /\ entries'[h] \in Place
      /\ Placed(jiffies, "fire", cascading, entries'[h], x)
  <2>1. InTime(jiffies, "fire", x)
    BY <1>3 DEF InTime
  <2>2. Inserted(jiffies, wheel, entries, h, x, wheel', entries')
    BY <1>4 DEF insert, PlaceFor, Put, Inserted
  <2>3. PICK w, m, l, v, e, j, ph, c :
          /\ w = wheel /\ m = entries /\ l = local /\ v = wheel' /\ e = entries'
          /\ j = jiffies /\ ph = "fire" /\ c = cascading
    OBVIOUS
  <2>4. /\ j \in Nat /\ w \in Wheels /\ l \in Lists /\ Exact(w, m, l) /\ h \notin DOMAIN m
        /\ Inserted(j, w, m, h, x, v, e) /\ InTime(j, ph, x)
    BY <1>1, <1>2, <1>3, <2>1, <2>2, <2>3, ListTypes
  <2>5. v \in Wheels /\ Exact(v, e, l) /\ e[h] \in Place /\ Placed(j, ph, c, e[h], x)
    BY <1>3, <2>4, InsertStep
  <2> QED
    BY <2>3, <2>5
<1>10. TypeOK'
  <2>1. timers' \in [DOMAIN timers' -> [expiry : Nat, interval : Nat]]
    <3>1. \A i \in DOMAIN timers' : timers'[i] \in [expiry : Nat, interval : Nat]
      BY <1>6, WheelTypes DEF WheelInv
    <3> QED
      BY <1>6, <3>1
  <2>2. entries' \in [DOMAIN entries' -> Place]
    <3>1. \A i \in DOMAIN entries' : entries'[i] \in Place
      BY <1>7, <1>8, <1>9, Pending
    <3> QED
      BY <1>7, <3>1
  <2>3. DOMAIN entries' \subseteq DOMAIN timers'
    BY <1>1, <1>2, <1>6, <1>7, Pending
  <2>4. DOMAIN timers' \subseteq 1..(next_id - 1) /\ cancelled \subseteq 1..(next_id - 1)
    BY <1>6 DEF WheelInv, TypeOK
  <2>5. wheel' \in [Place -> Seq(TimerId)] /\ local \in Seq(TimerId)
    BY <1>9, ListTypes DEF Wheels, Lists
  <2>6. /\ jiffies \in 0..MaxTick /\ next_id \in 1..(MaxTimers + 1) /\ cascading \in 0..4 /\ 0 \in 0..MaxTimers
    BY WheelAssumption DEF WheelInv, TypeOK
  <2> QED
    BY <1>4, <2>1, <2>2, <2>3, <2>4, <2>5, <2>6 DEF TypeOK
<1>11. LocationsExact'
  BY <1>4, <1>9 DEF LocationsExact
<1>12. ASSUME NEW id \in DOMAIN entries
       PROVE  /\ timers'[id] = timers[id] /\ entries'[id] = entries[id]
              /\ ~In(id, local) => Placed(jiffies, "fire", cascading, entries[id], timers[id].expiry)
              /\ In(id, local) => jiffies = timers[id].expiry
  <2>1. ~In(id, local) => Placed(jiffies, "callback", cascading, entries[id], timers[id].expiry)
    BY <1>1, Pending
  <2> QED
    BY <1>1, <1>6, <1>8, <2>1, Pending, PlacedOutside
<1>13. TimingInv'
  <2> SUFFICES ASSUME NEW id \in DOMAIN entries', ~In(id, local)
               PROVE  Placed(jiffies, "fire", cascading, entries'[id], timers'[id].expiry)
    BY <1>4 DEF TimingInv
  <2>1. CASE id = h
    BY <1>6, <1>9, <2>1
  <2>2. CASE id \in DOMAIN entries
    BY <1>12, <2>2
  <2> QED
    BY <1>7, <2>1, <2>2
<1>14. LocalInv'
  <2> SUFFICES ASSUME NEW id \in DOMAIN entries', In(id, local)
               PROVE  jiffies = timers'[id].expiry
    BY <1>4 DEF LocalInv
  <2>1. id \in DOMAIN entries
    BY <1>5, <1>7
  <2> QED
    BY <1>12, <2>1
<1>15. PhaseInv'
  BY <1>4, <1>6 DEF WheelInv, PhaseInv
<1> QED
  BY <1>10, <1>11, <1>13, <1>14, <1>15 DEF WheelInv

(* Every step keeps the invariant.                                         *)
LEMMA WheelInvStep == WheelInv /\ [Next]_vars => WheelInv'
<1> SUFFICES ASSUME WheelInv, [Next]_vars PROVE WheelInv'
  OBVIOUS
<1>1. CASE \E d \in Delays : schedule(d) \/ schedule_periodic(d)
  BY <1>1, CreateKeeps DEF schedule, schedule_periodic
<1>2. CASE \E id \in TimerId : cancel(id)
  BY <1>2, CancelKeeps
<1>3. CASE tick
  BY <1>3, TickKeeps
<1>4. CASE Cascade
  BY <1>4, CascadeKeeps
<1>5. CASE Move
  BY <1>5, MoveKeeps
<1>6. CASE CascadeEnd
  BY <1>6, CascadeEndKeeps
<1>7. CASE FireSlot
  BY <1>7, FireSlotKeeps
<1>8. CASE FireBegin
  BY <1>8, FireBeginKeeps
<1>9. CASE FireEnd
  BY <1>9, FireOnceKeeps, FireAgainKeeps
<1>10. CASE TickEnd
  BY <1>10, TickEndKeeps
<1>11. CASE UNCHANGED vars
  BY <1>11 DEF vars, tickVars, WheelInv, TypeOK, LocationsExact, TimingInv, LocalInv, PhaseInv
<1> QED
  BY <1>1, <1>2, <1>3, <1>4, <1>5, <1>6, <1>7, <1>8, <1>9, <1>10, <1>11 DEF Next

(* The invariant of the wheel, for every shape of it.                      *)
THEOREM WheelInvariant == Spec => []WheelInv
<1>1. Init => WheelInv
  BY WheelInvInit
<1>2. WheelInv /\ [Next]_vars => WheelInv'
  BY WheelInvStep
<1> QED
  BY <1>1, <1>2, PTL DEF Spec

(* The location map is right: the iterator cancel() erases is valid, in    *)
(* every phase of a tick (timer_wheel.hpp:140-164, :166-192).              *)
THEOREM LocationsRight == Spec => []Inv
<1>1. WheelInv => Inv
  BY DEF WheelInv, Inv
<1> QED
  BY <1>1, WheelInvariant, PTL

(* No callback runs early or late and no timer is left behind, however     *)
(* many levels it cascades through (timer_wheel.hpp:166-271).              *)
THEOREM FiringOnTime == Spec => []FiresOnTime
<1>1. WheelInv => FiresOnTime
  <2> SUFFICES ASSUME WheelInv PROVE FiresOnTime
    OBVIOUS
  <2>1. phase = "callback" => timers[current].expiry = jiffies
    BY DEF WheelInv, PhaseInv
  <2>2. ASSUME phase = "idle", NEW id \in DOMAIN entries
        PROVE  timers[id].expiry > jiffies
    <3>1. ~In(id, local)
      BY <2>2 DEF In, WheelInv, LocalInv
    <3>2. Placed(jiffies, "idle", cascading, entries[id], timers[id].expiry)
      BY <2>2, <3>1, Pending
    <3>3. entries[id] \in Place /\ timers[id].expiry \in Nat /\ jiffies \in Nat
      BY Pending
    <3>4. jiffies < timers[id].expiry
      BY <3>2, <3>3, PlacedAhead
    <3> QED
      BY <3>3, <3>4
  <2> QED
    BY <2>1, <2>2 DEF FiresOnTime
<1> QED
  BY <1>1, WheelInvariant, PTL

(* A cancelled timer does not fire again, not even when it was cancelled   *)
(* by a callback of its own slot (timer_wheel.hpp:140-164, :194-211).      *)
THEOREM CancelFinal == Spec => []CancelIsFinal
<1>1. WheelInv => CancelIsFinal
  BY DEF WheelInv, PhaseInv, CancelIsFinal
<1> QED
  BY <1>1, WheelInvariant, PTL

-----------------------------------------------------------------------------
(***************************************************************************)
(* TscClock: the inductive invariant.                                      *)
(***************************************************************************)
Correlation == [tsc : Nat, wall : Int, width : Nat, adjusted : Nat, moved : Nat]

ClockTypeOK ==
  /\ time \in Nat /\ time < Modulus
  /\ offset \in Int /\ adjusted \in Nat
  /\ pc \in {"raw0", "tsc0", "spin", "tsc1", "snap0", "snaptsc", "snap1", "store1", "store2", "idle"}
  /\ t0 \in Int /\ tsc0 \in Nat /\ elapsed \in Nat /\ ticks \in Nat
  /\ snaps \in Seq(Correlation)
  /\ tsc_ver \in Nat /\ wall_ver \in Nat /\ behind \in Seq(Nat)
  /\ rpc \in {"idle", "stamped", "loaded", "converted"}
  /\ stamp \in Nat /\ wall \in Int /\ stamp_adjusted \in Nat /\ rtsc \in Nat /\ rwall \in Nat

Calibrating == pc \in {"raw0", "tsc0", "spin", "tsc1"}
Snapping == pc \in {"snaptsc", "snap1"}

(* How many correlations are complete.                                     *)
Done == IF Snapping THEN Len(snaps) - 1 ELSE Len(snaps)

(* What calibrate_ghz has read.                                            *)
CalInv ==
  /\ pc \in {"tsc0", "spin", "tsc1"} => t0 \in Nat /\ t0 <= time
  /\ pc \in {"spin", "tsc1"} => tsc0 <= time
  /\ Calibrating => rpc = "idle"

(* Which versions are stored at each point of the constructor and          *)
(* recalibrate().                                                          *)
VersionInv ==
  /\ Calibrating => Len(snaps) = 0
  /\ Calibrating \/ pc = "snap0" => tsc_ver = Len(snaps) /\ wall_ver = Len(snaps)
  /\ Snapping \/ pc = "store1" => Len(snaps) > 0 /\ tsc_ver = Len(snaps) - 1 /\ wall_ver = Len(snaps) - 1
  /\ pc = "store2" =>
       /\ Len(snaps) > 0
       /\ IF Len(snaps) > 1 THEN wall_ver = Len(snaps) /\ tsc_ver = Len(snaps) - 1
                            ELSE wall_ver = Len(snaps) - 1 /\ tsc_ver = Len(snaps)
  /\ pc = "idle" => Len(snaps) > 0 /\ tsc_ver = Len(snaps) /\ wall_ver = Len(snaps)
  /\ Len(behind) = tsc_ver
  /\ \A v \in 2..tsc_ver : behind[v] >= v

(* The correlations, and the one that is being read.                       *)
SnapInv ==
  /\ \A i \in 1..Done : snaps[i].tsc <= time
  /\ \A i, j \in 1..Done : i <= j => snaps[i].tsc <= snaps[j].tsc
  /\ Snapping =>
       /\ tsc0 <= time
       /\ \A i \in 1..Done : snaps[i].tsc <= tsc0
       /\ snaps[Len(snaps)].adjusted <= adjusted
       /\ Abs(t0 - tsc0 - offset) <= adjusted - snaps[Len(snaps)].adjusted
  /\ pc = "snap1" => tsc0 <= snaps[Len(snaps)].tsc /\ snaps[Len(snaps)].tsc <= time

(* A correlation s is off an offset o, when NTP had moved the clock by a,  *)
(* by at most half of what happened during the snap and all that happened  *)
(* between.                                                                *)
Near(s, o, a) ==
  Abs(2 * (s.wall - s.tsc - o)) <= s.width + s.moved + 1 + 2 * Abs(a - s.adjusted)

NearInv ==
  /\ \A i \in 1..Done : snaps[i].adjusted <= adjusted /\ Near(snaps[i], offset, adjusted)
  /\ rpc # "idle" =>
       /\ stamp <= time /\ stamp_adjusted <= adjusted
       /\ Abs(wall - stamp - offset) <= adjusted - stamp_adjusted
       /\ \A i \in 1..Done : Near(snaps[i], wall - stamp, stamp_adjusted)
       /\ Snapping => Abs(t0 - tsc0 - (wall - stamp)) <= Abs(stamp_adjusted - snaps[Len(snaps)].adjusted)

(* The versions a conversion has loaded.                                   *)
LoadInv ==
  /\ rpc \in {"loaded", "converted"} => rtsc \in 1..tsc_ver
  /\ rpc = "converted" => rwall \in 1..wall_ver /\ rwall >= rtsc

ClockInv == ClockTypeOK /\ CalInv /\ CalibrationSpans /\ VersionInv /\ SnapInv /\ NearInv /\ LoadInv

-----------------------------------------------------------------------------
(***************************************************************************)
(* TscClock: the arithmetic of calibrate_ghz and to_wall_ns.               *)
(***************************************************************************)

(* Dividing d ticks by the measured frequency t / e is off by no more than *)
(* a unit and what the error of the frequency makes of d.                  *)
LEMMA QuotientError ==
  ASSUME NEW d \in Nat, NEW e \in Nat, NEW t \in Nat, t > 0
  PROVE  Abs((d * e) \div t - d) <= 1 + (d * Abs(t - e)) \div t
<1> DEFINE a == Abs(t - e)
<1>1. a \in Nat /\ (a = t - e \/ a = e - t)
  BY DEF Abs
<1> HIDE DEF a
<1>2. PICK P \in Int : P = d * e
  OBVIOUS
<1>3. PICK R \in Int : R = d * a
  BY <1>1
<1>4. PICK q \in Int, u \in 0..(t - 1) : q = P \div t /\ P = t * q + u
  BY DivModPick
<1>5. PICK r \in Int, v \in 0..(t - 1) : r = R \div t /\ R = t * r + v
  BY DivModPick
<1>6. PICK D \in Int : D = t * d
  OBVIOUS
<1>7. R = D - P \/ R = P - D
  <2>1. CASE a = t - e
    <3>1. d * (t - e) = t * d - d * e
      OBVIOUS
    <3> QED
      BY <2>1, <3>1, <1>2, <1>3, <1>6
  <2>2. CASE a = e - t
    <3>1. d * (e - t) = d * e - t * d
      OBVIOUS
    <3> QED
      BY <2>2, <3>1, <1>2, <1>3, <1>6
  <2> QED
    BY <1>1, <2>1, <2>2
<1>8. Abs(q - d) <= 1 + r
  <2>1. CASE R = D - P
    <3>1. q + r + 2 \in Int /\ t * (q + r + 2) = t * q + t * r + t + t
      OBVIOUS
    <3>2. t * d < t * (q + r + 2)
      BY <2>1, <3>1, <1>4, <1>5, <1>6
    <3>3. d < q + r + 2
      BY <3>1, <3>2, MulLess
    <3>4. q + r - 1 \in Int /\ t * (q + r - 1) = t * q + t * r - t
      OBVIOUS
    <3>5. t * (q + r - 1) < t * d
      BY <2>1, <3>4, <1>4, <1>5, <1>6
    <3>6. q + r - 1 < d
      BY <3>4, <3>5, MulLess
    <3>7. r >= 0
      <4>1. R >= 0
        BY <1>1, <1>3
      <4>2. t * (-1) < t * (r + 0) /\ -1 \in Int /\ r + 0 \in Int
        BY <1>5, <4>1
      <4>3. -1 < r + 0
        BY <4>2, MulLess
      <4> QED
        BY <4>3
    <3> QED
      BY <3>3, <3>6, <3>7 DEF Abs
  <2>2. CASE R = P - D
    <3>1. q - r + 1 \in Int /\ t * (q - r + 1) = t * q - t * r + t
      OBVIOUS
    <3>2. t * d < t * (q - r + 1)
      BY <2>2, <3>1, <1>4, <1>5, <1>6
    <3>3. d < q - r + 1
      BY <3>1, <3>2, MulLess
    <3>4. q - r - 1 \in Int /\ t * (q - r - 1) = t * q - t * r - t
      OBVIOUS
    <3>5. t * (q - r - 1) < t * d
      BY <2>2, <3>4, <1>4, <1>5, <1>6
    <3>6. q - r - 1 < d
      BY <3>4, <3>5, MulLess
    <3>7. r >= 0
      <4>1. R >= 0
        BY <1>1, <1>3
      <4>2. t * (-1) < t * (r + 0) /\ -1 \in Int /\ r + 0 \in Int
        BY <1>5, <4>1
      <4>3. -1 < r + 0
        BY <4>2, MulLess
      <4> QED
        BY <4>3
    <3> QED
      BY <3>3, <3>6, <3>7 DEF Abs
  <2> QED
    BY <1>7, <2>1, <2>2
<1> QED
  BY <1>2, <1>3, <1>4, <1>5, <1>8 DEF a

(* A reading as seconds and nanoseconds is the reading.                    *)
LEMMA Timespec ==
  ASSUME NEW t \in Nat
  PROVE  /\ Sec(t) \in Int /\ Nsec(t) \in 0..(PerSecond - 1)
         /\ t = PerSecond * Sec(t) + Nsec(t)
  BY ClockAssumption, DivMod DEF Sec, Nsec

(* The arithmetic of the target with the carry.                            *)
LEMMA TargetCarried ==
  ASSUME NEW b \in Nat, NEW sb \in Int, NEW nb \in 0..(PerSecond - 1), b = PerSecond * sb + nb,
         NEW tn \in Int, tn = (nb + SpinTime) - PerSecond, nb + SpinTime >= PerSecond
  PROVE  tn \in 0..(PerSecond - 1) /\ PerSecond * (sb + 1) + tn = b + SpinTime
<1>1. PerSecond \in Nat \ {0} /\ SpinTime \in 1..PerSecond
  BY ClockAssumption
<1>2. PerSecond * (sb + 1) = PerSecond * sb + PerSecond
  BY <1>1
<1> QED
  BY <1>1, <1>2

(* Without the carry.                                                      *)
LEMMA TargetNotCarried ==
  ASSUME NEW b \in Nat, NEW sb \in Int, NEW nb \in 0..(PerSecond - 1), b = PerSecond * sb + nb,
         NEW tn \in Int, tn = nb + SpinTime, ~(nb + SpinTime >= PerSecond)
  PROVE  tn \in 0..(PerSecond - 1) /\ PerSecond * sb + tn = b + SpinTime
<1>1. PerSecond \in Nat \ {0} /\ SpinTime \in 1..PerSecond
  BY ClockAssumption
<1> QED
  BY <1>1

(* The target is SpinTime after the start, whether or not its nanoseconds  *)
(* are carried.                                                            *)
LEMMA TargetReading ==
  ASSUME NEW b \in Nat, b = t0
  PROVE  \E ts \in Int, tn \in 0..(PerSecond - 1) :
            Target = <<ts, tn>> /\ PerSecond * ts + tn = b + SpinTime
<1>1. PerSecond \in Nat \ {0} /\ SpinTime \in 1..PerSecond
  BY ClockAssumption
<1>2. PICK sb \in Int, nb \in 0..(PerSecond - 1) :
        sb = Sec(b) /\ nb = Nsec(b) /\ b = PerSecond * sb + nb
  BY Timespec
<1>3. Target = IF nb + SpinTime >= PerSecond THEN <<sb + 1, (nb + SpinTime) - PerSecond>>
                                             ELSE <<sb, nb + SpinTime>>
  BY <1>2, Zenon DEF Target
<1>4. b = PerSecond * sb + nb
  BY <1>2
<1>5. CASE nb + SpinTime >= PerSecond
  <2>1. PICK tn \in Int : tn = (nb + SpinTime) - PerSecond
    BY <1>1
  <2>2. Target = <<sb + 1, tn>>
    BY <1>3, <1>5, <2>1
  <2>3. tn \in 0..(PerSecond - 1) /\ PerSecond * (sb + 1) + tn = b + SpinTime
    BY <1>4, <1>5, <2>1, TargetCarried, ZenonT(60)
  <2>4. sb + 1 \in Int
    OBVIOUS
  <2> QED
    BY <2>2, <2>3, <2>4, Zenon
<1>6. CASE ~(nb + SpinTime >= PerSecond)
  <2>1. PICK tn \in Int : tn = nb + SpinTime
    BY <1>1
  <2>2. Target = <<sb, tn>>
    BY <1>3, <1>6, <2>1
  <2>3. tn \in 0..(PerSecond - 1) /\ PerSecond * sb + tn = b + SpinTime
    BY <1>4, <1>6, <2>1, TargetNotCarried, ZenonT(60)
  <2> QED
    BY <2>2, <2>3, Zenon
<1> QED
  BY <1>5, <1>6

(* A reading that is not before the target is SpinTime after the start.    *)
LEMMA SpinArithmetic ==
  ASSUME NEW b \in Nat, NEW t \in Nat,
         NEW st \in Int, NEW nt \in 0..(PerSecond - 1), t = PerSecond * st + nt,
         NEW ts \in Int, NEW tn \in 0..(PerSecond - 1), PerSecond * ts + tn = b + SpinTime,
         ~(st < ts \/ (st = ts /\ nt < tn))
  PROVE  t >= b + SpinTime
<1>1. PerSecond \in Nat \ {0} /\ SpinTime \in 1..PerSecond
  BY ClockAssumption
<1>2. CASE st = ts
  <2>1. PerSecond * st = PerSecond * ts
    BY <1>2
  <2> QED
    BY <1>1, <1>2, <2>1
<1>3. CASE st >= ts + 1
  <2>1. PerSecond * (ts + 1) <= PerSecond * st
    BY <1>1, <1>3, MulMonotone
  <2>2. PerSecond * (ts + 1) = PerSecond * ts + PerSecond
    BY <1>1
  <2> QED
    BY <1>1, <2>1, <2>2
<1> QED
  BY <1>2, <1>3

-----------------------------------------------------------------------------
(***************************************************************************)
(* TscClock: the invariant is inductive.                                   *)
(***************************************************************************)

(* The invariant holds initially.                                          *)
LEMMA ClockInvInit == ClockInit => ClockInv
<1> SUFFICES ASSUME ClockInit PROVE ClockInv
  OBVIOUS
<1> USE ClockAssumption DEF ClockInit
<1>1. ClockTypeOK
  BY DEF ClockTypeOK
<1>2. CalInv /\ CalibrationSpans
  BY DEF CalInv, CalibrationSpans, Calibrating
<1>3. VersionInv
  BY DEF VersionInv, Calibrating, Snapping
<1>4. Done = 0
  BY DEF Done, Snapping
<1>5. SnapInv /\ NearInv /\ LoadInv
  BY <1>4 DEF SnapInv, NearInv, LoadInv, Snapping
<1> QED
  BY <1>1, <1>2, <1>3, <1>5 DEF ClockInv

(* The fields of the correlations are numbers.                             *)
LEMMA SnapTypes ==
  ASSUME ClockTypeOK
  PROVE  /\ Len(snaps) \in Nat /\ Done \in Int /\ Done <= Len(snaps)
         /\ \A i \in 1..Len(snaps) :
              /\ snaps[i] \in Correlation
              /\ snaps[i].tsc \in Nat /\ snaps[i].wall \in Int /\ snaps[i].width \in Nat
              /\ snaps[i].adjusted \in Nat /\ snaps[i].moved \in Nat
<1>1. snaps \in Seq(Correlation)
  BY DEF ClockTypeOK
<1>2. Len(snaps) \in Nat /\ \A i \in 1..Len(snaps) : snaps[i] \in Correlation
  BY <1>1
<1>3. \A c \in Correlation : /\ c.tsc \in Nat /\ c.wall \in Int /\ c.width \in Nat
                            /\ c.adjusted \in Nat /\ c.moved \in Nat
  BY DEF Correlation
<1>4. Done \in Int /\ Done <= Len(snaps)
  BY <1>2 DEF Done
<1> QED
  BY <1>2, <1>3, <1>4

(* Time passes: every reading stays in the past.                           *)
LEMMA TimePassesKeeps == ClockInv /\ TimePasses => ClockInv'
<1> SUFFICES ASSUME ClockInv, TimePasses PROVE ClockInv'
  OBVIOUS
<1> USE ClockAssumption DEF ClockInv, TimePasses, calVars, baseVars, readVars
<1>1. ClockTypeOK'
  BY DEF ClockTypeOK
<1>2. (CalInv /\ CalibrationSpans)'
  BY DEF CalInv, CalibrationSpans, Calibrating, ClockTypeOK
<1>3. VersionInv'
  BY DEF VersionInv, Calibrating, Snapping
<1>4. Done' = Done
  BY DEF Done, Snapping
<1>5. \A i \in 1..Done : snaps[i].tsc \in Nat
  BY SnapTypes
<1>6. SnapInv'
  <2>1. /\ \A i \in 1..Done : snaps[i].tsc <= time'
        /\ tsc0 <= time => tsc0 <= time'
    BY <1>5 DEF SnapInv, ClockTypeOK
  <2>2. pc = "snap1" => snaps[Len(snaps)].tsc <= time'
    BY SnapTypes DEF SnapInv, ClockTypeOK, VersionInv, Snapping
  <2> QED
    BY <1>4, <2>1, <2>2 DEF SnapInv, Snapping
<1>7. NearInv'
  BY <1>4 DEF NearInv, Snapping, ClockTypeOK
<1>8. LoadInv'
  BY DEF LoadInv
<1> QED
  BY <1>1, <1>2, <1>3, <1>6, <1>7, <1>8

(* A correlation is still near when NTP has moved the clock by one more.   *)
LEMMA NearAdjusted ==
  ASSUME NEW c \in Correlation, NEW o \in Int, NEW a \in Nat, NEW p \in {o - 1, o + 1},
         c.adjusted <= a, Near(c, o, a)
  PROVE  Near(c, p, a + 1)
<1>1. PICK w \in Int, t \in Int, d \in Nat, m \in Nat, b \in Nat :
        w = c.wall /\ t = c.tsc /\ d = c.width /\ m = c.moved /\ b = c.adjusted
  BY DEF Correlation
<1>2. Abs(2 * (w - t - o)) <= d + m + 1 + 2 * Abs(a - b)
  BY <1>1 DEF Near
<1>3. Abs(2 * (w - t - p)) <= d + m + 1 + 2 * Abs(a + 1 - b)
  BY <1>1, <1>2 DEF Abs
<1> QED
  BY <1>1, <1>3 DEF Near

(* So is an offset that was read.                                          *)
LEMMA AbsAdjusted ==
  ASSUME NEW x \in Int, NEW o \in Int, NEW a \in Nat, NEW b \in Nat, NEW p \in Int, NEW c \in Nat,
         p \in {o - 1, o + 1}, c = a + 1, Abs(x - o) <= a - b
  PROVE  Abs(x - p) <= c - b
  BY DEF Abs

(* NTP moves the clock: what was read before may be off by one more.       *)
LEMMA NtpAdjustsKeeps == ClockInv /\ NtpAdjusts => ClockInv'
<1> SUFFICES ASSUME ClockInv, NtpAdjusts PROVE ClockInv'
  OBVIOUS
<1> USE DEF ClockInv, NtpAdjusts, calVars, baseVars, readVars
<1>1. ClockTypeOK'
  BY DEF ClockTypeOK
<1>2. (CalInv /\ CalibrationSpans)'
  BY DEF CalInv, CalibrationSpans, Calibrating
<1>3. VersionInv'
  BY DEF VersionInv, Calibrating, Snapping
<1>4. Done' = Done
  BY DEF Done, Snapping
<1>5. offset \in Int /\ adjusted \in Nat /\ adjusted' = adjusted + 1 /\ offset' \in {offset - 1, offset + 1}
      /\ t0 \in Int /\ tsc0 \in Int /\ wall \in Int /\ stamp \in Int /\ stamp_adjusted \in Nat
  BY DEF ClockTypeOK
<1>6. Snapping => snaps[Len(snaps)].adjusted \in Nat
  BY SnapTypes DEF VersionInv
<1>7. SnapInv'
  <2>1. Snapping => /\ snaps[Len(snaps)].adjusted <= adjusted'
                    /\ Abs(t0 - tsc0 - offset') <= adjusted' - snaps[Len(snaps)].adjusted
    <3> SUFFICES ASSUME Snapping
                 PROVE  /\ snaps[Len(snaps)].adjusted <= adjusted'
                        /\ Abs((t0 - tsc0) - offset') <= adjusted' - snaps[Len(snaps)].adjusted
      OBVIOUS
    <3>1. PICK x \in Int, b \in Nat : x = t0 - tsc0 /\ b = snaps[Len(snaps)].adjusted
      BY <1>5, <1>6
    <3>2. b <= adjusted /\ Abs(x - offset) <= adjusted - b
      BY <3>1 DEF SnapInv
    <3>3. Abs(x - offset') <= adjusted' - b
      BY <1>5, <3>2, AbsAdjusted
    <3> QED
      BY <1>5, <3>1, <3>2, <3>3
  <2> QED
    BY <1>4, <2>1 DEF SnapInv, Snapping
<1>8. NearInv'
  <2>1. ASSUME NEW i \in 1..Done
        PROVE  snaps[i].adjusted <= adjusted' /\ Near(snaps[i], offset', adjusted')
    <3>1. snaps[i] \in Correlation /\ snaps[i].adjusted \in Nat
      BY SnapTypes
    <3>2. snaps[i].adjusted <= adjusted /\ Near(snaps[i], offset, adjusted)
      BY DEF NearInv
    <3>3. Near(snaps[i], offset', adjusted + 1)
      BY <1>5, <3>1, <3>2, NearAdjusted
    <3> QED
      BY <1>5, <3>1, <3>2, <3>3
  <2>2. rpc # "idle" => /\ stamp_adjusted <= adjusted'
                        /\ Abs(wall - stamp - offset') <= adjusted' - stamp_adjusted
    <3> SUFFICES ASSUME rpc # "idle"
                 PROVE  /\ stamp_adjusted <= adjusted'
                        /\ Abs((wall - stamp) - offset') <= adjusted' - stamp_adjusted
      OBVIOUS
    <3>1. PICK x \in Int : x = wall - stamp
      BY <1>5
    <3>2. stamp_adjusted <= adjusted /\ Abs(x - offset) <= adjusted - stamp_adjusted
      BY <3>1 DEF NearInv
    <3>3. Abs(x - offset') <= adjusted' - stamp_adjusted
      BY <1>5, <3>2, AbsAdjusted
    <3> QED
      BY <1>5, <3>1, <3>2, <3>3
  <2> QED
    BY <1>4, <2>1, <2>2 DEF NearInv, Snapping
<1>9. LoadInv'
  BY DEF LoadInv
<1> QED
  BY <1>1, <1>2, <1>3, <1>7, <1>8, <1>9

(* The steps of calibrate_ghz: the spin ends when SpinTime has passed, and *)
(* what it divides by is the time that really passed.                      *)
LEMMA CalibrationKeeps == ClockInv /\ (Raw0 \/ Tsc0 \/ Spun \/ Tsc1) => ClockInv'
<1> SUFFICES ASSUME ClockInv, Raw0 \/ Tsc0 \/ Spun \/ Tsc1 PROVE ClockInv'
  OBVIOUS
<1>1. /\ pc \in {"raw0", "tsc0", "spin", "tsc1"} /\ pc' \in {"tsc0", "spin", "tsc1", "snap0"}
      /\ UNCHANGED <<clockVars, baseVars, readVars>>
  BY DEF Raw0, Tsc0, Spun, Tsc1
<1>2. Len(snaps) = 0 /\ rpc = "idle" /\ tsc_ver = 0 /\ wall_ver = 0
  BY <1>1 DEF ClockInv, CalInv, VersionInv, Calibrating
<1>3. time \in Nat /\ t0 \in Int /\ tsc0 \in Nat
  BY DEF ClockInv, ClockTypeOK
<1>4. ASSUME Spun
      PROVE  elapsed' = time - t0 /\ elapsed' \in Nat /\ elapsed' >= SpinTime
  <2>1. t0 \in Nat /\ t0 <= time /\ time < Modulus
    BY <1>4 DEF Spun, ClockInv, CalInv, ClockTypeOK
  <2>2. PICK sb \in Int, nb \in 0..(PerSecond - 1) :
          sb = Sec(t0) /\ nb = Nsec(t0) /\ t0 = PerSecond * sb + nb
    BY <2>1, Timespec
  <2>3. PICK st \in Int, nt \in 0..(PerSecond - 1) :
          st = Sec(time) /\ nt = Nsec(time) /\ time = PerSecond * st + nt
    BY <1>3, Timespec
  <2>4. elapsed' = ((st - sb) * PerSecond + nt - nb) % Modulus
    BY <1>4, <2>2, <2>3 DEF Spun
  <2>5. PICK ts \in Int, tn \in 0..(PerSecond - 1) :
          Target = <<ts, tn>> /\ PerSecond * ts + tn = t0 + SpinTime
    BY <2>1, TargetReading
  <2>6. ~(st < ts \/ (st = ts /\ nt < tn))
    BY <1>4, <2>3, <2>5 DEF Spun
  <2>7. elapsed' = time - t0
    <3>1. PerSecond \in Nat /\ Modulus \in Nat
      BY ClockAssumption
    <3>2. (st - sb) * PerSecond + nt - nb = time - t0
      <4>1. (st - sb) * PerSecond = PerSecond * st - PerSecond * sb
        BY <3>1
      <4> QED
        BY <1>3, <2>1, <2>2, <2>3, <3>1, <4>1
    <3>3. (time - t0) % Modulus = time - t0
      BY <1>3, <2>1, <3>1
    <3> QED
      BY <2>4, <3>2, <3>3
  <2>8. time >= t0 + SpinTime
    BY <1>3, <2>1, <2>3, <2>5, <2>6, SpinArithmetic, ZenonT(30)
  <2> QED
    BY <1>3, <2>1, <2>7, <2>8, ClockAssumption
<1>5. ASSUME Tsc1 PROVE ticks' \in Nat
  BY <1>3, <1>5 DEF Tsc1, ClockInv, CalInv
<1>6. ClockTypeOK'
  BY <1>1, <1>4, <1>5 DEF Raw0, Tsc0, Spun, Tsc1, ClockInv, ClockTypeOK, clockVars, baseVars, readVars
<1>7. (CalInv /\ CalibrationSpans)'
  BY <1>1, <1>2, <1>3, <1>4 DEF Raw0, Tsc0, Spun, Tsc1, ClockInv, CalInv, CalibrationSpans,
       Calibrating, clockVars, readVars
<1>8. Snapping' = FALSE /\ Done' = 0
  BY <1>1, <1>2 DEF Done, Snapping, baseVars
<1>9. VersionInv'
  BY <1>1, <1>2 DEF ClockInv, VersionInv, Calibrating, Snapping, baseVars
<1>10. SnapInv' /\ NearInv' /\ LoadInv'
  BY <1>1, <1>2, <1>8 DEF SnapInv, NearInv, LoadInv, readVars
<1> QED
  BY <1>6, <1>7, <1>9, <1>10 DEF ClockInv

(* recalibrate() is called.                                                *)
LEMMA RecalibrateKeeps == ClockInv /\ recalibrate => ClockInv'
<1> SUFFICES ASSUME ClockInv, recalibrate PROVE ClockInv'
  OBVIOUS
<1> USE DEF ClockInv, recalibrate, clockVars, calVars, baseVars, readVars
<1>1. ClockTypeOK'
  BY DEF ClockTypeOK
<1>2. (CalInv /\ CalibrationSpans)'
  BY DEF CalInv, CalibrationSpans, Calibrating
<1>3. VersionInv'
  BY DEF VersionInv, Calibrating, Snapping
<1>4. Snapping = FALSE /\ Snapping' = FALSE /\ Done' = Done
  BY DEF Done, Snapping
<1>5. SnapInv' /\ NearInv' /\ LoadInv'
  BY <1>4 DEF SnapInv, NearInv, LoadInv
<1> QED
  BY <1>1, <1>2, <1>3, <1>5

(* snap_correlation begins: a new correlation, the others are untouched.   *)
LEMMA Snap0Keeps == ClockInv /\ Snap0 => ClockInv'
<1> SUFFICES ASSUME ClockInv, Snap0 PROVE ClockInv'
  OBVIOUS
<1> DEFINE n == Len(snaps)
           c == [tsc |-> 0, wall |-> 0, width |-> 0, adjusted |-> adjusted, moved |-> 0]
<1>1. /\ pc = "snap0" /\ pc' = "snaptsc" /\ t0' = time + offset /\ tsc0' = time
      /\ UNCHANGED <<time, offset, adjusted, elapsed, ticks, tsc_ver, wall_ver, behind>>
      /\ UNCHANGED <<rpc, stamp, wall, stamp_adjusted, rtsc, rwall>>
      /\ snaps' = Append(snaps, c)
  BY DEF Snap0, RealTime, clockVars, readVars
<1>2. ClockTypeOK
  BY DEF ClockInv
<1>3. /\ time \in Nat /\ offset \in Int /\ adjusted \in Nat
      /\ wall \in Int /\ stamp \in Int /\ stamp_adjusted \in Nat
  BY <1>2 DEF ClockTypeOK
<1>4. c \in Correlation /\ c.adjusted = adjusted
  BY <1>3 DEF Correlation
<1>5. n \in Nat /\ snaps \in Seq(Correlation)
  BY <1>2 DEF ClockTypeOK
<1> HIDE DEF c
<1>6. /\ snaps' \in Seq(Correlation) /\ Len(snaps') = n + 1 /\ snaps'[n + 1] = c
      /\ \A i \in 1..n : snaps'[i] = snaps[i]
  BY <1>1, <1>4, <1>5
<1>7. Done = n /\ Done' = n /\ Snapping' /\ ~Snapping /\ ~Calibrating'
  BY <1>1, <1>5, <1>6 DEF Done, Snapping, Calibrating
<1>8. ClockTypeOK'
  BY <1>1, <1>2, <1>6 DEF ClockTypeOK
<1>9. (CalInv /\ CalibrationSpans)'
  BY <1>1 DEF CalInv, CalibrationSpans, Calibrating
<1>10. VersionInv'
  <2>1. tsc_ver = n /\ wall_ver = n /\ Len(behind) = tsc_ver /\ \A v \in 2..tsc_ver : behind[v] >= v
    BY <1>1 DEF ClockInv, VersionInv
  <2> QED
    BY <1>1, <1>5, <1>6, <1>7, <2>1 DEF VersionInv
<1>11. SnapInv'
  <2>1. \A i \in 1..n : snaps[i].tsc <= time
    BY <1>7 DEF ClockInv, SnapInv
  <2>2. \A i, j \in 1..n : i <= j => snaps[i].tsc <= snaps[j].tsc
    BY <1>7 DEF ClockInv, SnapInv
  <2>3. Abs(t0' - tsc0' - offset') <= adjusted' - adjusted /\ adjusted <= adjusted'
    BY <1>1, <1>3 DEF Abs
  <2> QED
    BY <1>1, <1>3, <1>4, <1>6, <1>7, <2>1, <2>2, <2>3 DEF SnapInv
<1>12. NearInv'
  <2>1. \A i \in 1..n : snaps[i].adjusted <= adjusted /\ Near(snaps[i], offset, adjusted)
    BY <1>7 DEF ClockInv, NearInv
  <2>2. rpc # "idle" => Abs(t0' - tsc0' - (wall - stamp)) <= Abs(stamp_adjusted - adjusted)
    <3>1. rpc # "idle" => Abs(wall - stamp - offset) <= adjusted - stamp_adjusted
      BY DEF ClockInv, NearInv
    <3> QED
      BY <1>1, <1>3, <3>1 DEF Abs
  <2> QED
    BY <1>1, <1>4, <1>6, <1>7, <2>1, <2>2 DEF ClockInv, NearInv
<1>13. LoadInv'
  BY <1>1 DEF ClockInv, LoadInv
<1> QED
  BY <1>8, <1>9, <1>10, <1>11, <1>12, <1>13 DEF ClockInv

(* The TSC is read between the two readings of the wall clock.             *)
LEMMA SnapTscKeeps == ClockInv /\ SnapTsc => ClockInv'
<1> SUFFICES ASSUME ClockInv, SnapTsc PROVE ClockInv'
  OBVIOUS
<1> DEFINE n == Len(snaps)
<1>1. /\ pc = "snaptsc" /\ pc' = "snap1"
      /\ UNCHANGED <<time, offset, adjusted, t0, tsc0, elapsed, ticks, tsc_ver, wall_ver, behind>>
      /\ UNCHANGED <<rpc, stamp, wall, stamp_adjusted, rtsc, rwall>>
      /\ snaps' = [snaps EXCEPT ![n].tsc = time]
  BY DEF SnapTsc, clockVars, calVars, readVars
<1>2. ClockTypeOK
  BY DEF ClockInv
<1>3. time \in Nat /\ tsc0 \in Nat /\ snaps \in Seq(Correlation)
  BY <1>2 DEF ClockTypeOK
<1>4. n \in Nat /\ n > 0
  BY <1>1, <1>3 DEF ClockInv, VersionInv, Snapping
<1>5. PICK c \in Correlation : c = snaps[n]
  BY <1>3, <1>4
<1>6. PICK d : d = [c EXCEPT !.tsc = time]
  OBVIOUS
<1>7. d \in Correlation /\ d.tsc = time /\ d.adjusted = c.adjusted
  BY <1>3, <1>6 DEF Correlation
<1>8. snaps' = [snaps EXCEPT ![n] = d]
  BY <1>1, <1>5, <1>6
<1>9. /\ snaps' \in Seq(Correlation) /\ Len(snaps') = n /\ snaps'[n] = d
      /\ \A i \in 1..(n - 1) : snaps'[i] = snaps[i]
  BY <1>3, <1>4, <1>7, <1>8
<1>10. Done = n - 1 /\ Done' = n - 1 /\ Snapping' /\ Snapping /\ ~Calibrating'
  BY <1>1, <1>9 DEF Done, Snapping, Calibrating
<1>11. ClockTypeOK'
  BY <1>1, <1>2, <1>9 DEF ClockTypeOK
<1>12. (CalInv /\ CalibrationSpans)'
  BY <1>1, SMTT(30) DEF CalInv, CalibrationSpans, Calibrating
<1>13. VersionInv'
  BY <1>1, <1>9, <1>10, Zenon DEF ClockInv, VersionInv
<1>14. SnapInv'
  <2>1. /\ \A i \in 1..(n - 1) : snaps[i].tsc <= time /\ snaps[i].tsc <= tsc0
        /\ \A i, j \in 1..(n - 1) : i <= j => snaps[i].tsc <= snaps[j].tsc
        /\ tsc0 <= time /\ c.adjusted <= adjusted
        /\ Abs(t0 - tsc0 - offset) <= adjusted - c.adjusted
    BY <1>5, <1>10 DEF ClockInv, SnapInv
  <2>2. \A i \in 1..Done' : snaps'[i].tsc <= time' /\ snaps'[i].tsc <= tsc0'
    BY <1>1, <1>9, <1>10, <2>1
  <2>3. \A i, j \in 1..Done' : i <= j => snaps'[i].tsc <= snaps'[j].tsc
    BY <1>9, <1>10, <2>1
  <2>4. snaps'[Len(snaps')].adjusted = c.adjusted /\ snaps'[Len(snaps')].tsc = time
    BY <1>7, <1>9
  <2> QED
    BY <1>1, <1>3, <2>1, <2>2, <2>3, <2>4 DEF SnapInv
<1>15. NearInv'
  <2>1. /\ \A i \in 1..(n - 1) : snaps[i].adjusted <= adjusted /\ Near(snaps[i], offset, adjusted)
        /\ rpc # "idle" =>
             /\ stamp <= time /\ stamp_adjusted <= adjusted
             /\ Abs(wall - stamp - offset) <= adjusted - stamp_adjusted
             /\ \A i \in 1..(n - 1) : Near(snaps[i], wall - stamp, stamp_adjusted)
             /\ Abs(t0 - tsc0 - (wall - stamp)) <= Abs(stamp_adjusted - c.adjusted)
    BY <1>5, <1>10 DEF ClockInv, NearInv
  <2> QED
    BY <1>1, <1>7, <1>9, <1>10, <2>1 DEF NearInv
<1>16. LoadInv'
  BY <1>1 DEF ClockInv, LoadInv
<1> QED
  BY <1>11, <1>12, <1>13, <1>14, <1>15, <1>16 DEF ClockInv

(* The midpoint of the two readings is near the offset at the TSC's        *)
(* reading, and near every other offset that was read.                     *)
LEMMA Midpoint ==
  ASSUME NEW b \in Int, NEW t \in Int, NEW e \in Int, b <= t, t <= e,
         NEW w \in Int, NEW o1 \in Int, NEW a0 \in Int, NEW a1 \in Int,
         NEW o \in Int, NEW a \in Int,
         Abs(w - b - o1) <= a1 - a0, Abs(w - b - o) <= Abs(a - a0)
  PROVE  Abs(2 * ((w + (e + o1)) \div 2 - t - o)) <= (e - b) + (a1 - a0) + 1 + 2 * Abs(a - a0)
<1>1. PICK m \in Int : m = (w + (e + o1)) \div 2 /\ 2 * m <= w + (e + o1) /\ w + (e + o1) <= 2 * m + 1
  OBVIOUS
<1>2. PICK x \in Int : x = Abs(a - a0) /\ x >= 0
  BY DEF Abs
<1>3. w - b - o <= x /\ -(w - b - o) <= x /\ w - b - o1 <= a1 - a0 /\ -(w - b - o1) <= a1 - a0
  BY <1>2 DEF Abs
<1>4. Abs(2 * (m - t - o)) <= (e - b) + (a1 - a0) + 1 + 2 * x
  BY <1>1, <1>2, <1>3 DEF Abs
<1> QED
  BY <1>1, <1>2, <1>4

(* The second reading of the wall clock completes the correlation.         *)
LEMMA Snap1Keeps == ClockInv /\ Snap1 => ClockInv'
<1> SUFFICES ASSUME ClockInv, Snap1 PROVE ClockInv'
  OBVIOUS
<1> DEFINE n == Len(snaps)
<1>1. /\ pc = "snap1" /\ pc' = "store1" /\ t0' = 0 /\ tsc0' = 0
      /\ UNCHANGED <<time, offset, adjusted, elapsed, ticks, tsc_ver, wall_ver, behind>>
      /\ UNCHANGED <<rpc, stamp, wall, stamp_adjusted, rtsc, rwall>>
      /\ snaps' = [snaps EXCEPT ![n].wall = (t0 + (time + offset)) \div 2, ![n].width = time - tsc0,
                                ![n].moved = adjusted - snaps[n].adjusted]
  BY DEF Snap1, RealTime, clockVars, readVars
<1>2. ClockTypeOK
  BY DEF ClockInv
<1>3. /\ time \in Nat /\ tsc0 \in Nat /\ snaps \in Seq(Correlation) /\ t0 \in Int /\ offset \in Int
      /\ adjusted \in Nat /\ wall \in Int /\ stamp \in Nat /\ stamp_adjusted \in Nat
  BY <1>2 DEF ClockTypeOK
<1>4. n \in Nat /\ n > 0
  BY <1>1, <1>3 DEF ClockInv, VersionInv, Snapping
<1>5. PICK c \in Correlation : c = snaps[n]
  BY <1>3, <1>4
<1>6. PICK t \in Nat, a0 \in Nat : t = c.tsc /\ a0 = c.adjusted
  BY DEF Correlation
<1>7. Done = n - 1 /\ Snapping
  BY <1>1 DEF Done, Snapping
<1>8. /\ \A i \in 1..(n - 1) : snaps[i].tsc <= time /\ snaps[i].tsc <= tsc0
      /\ \A i, j \in 1..(n - 1) : i <= j => snaps[i].tsc <= snaps[j].tsc
      /\ tsc0 <= t /\ t <= time /\ a0 <= adjusted
      /\ Abs(t0 - tsc0 - offset) <= adjusted - a0
  BY <1>1, <1>5, <1>6, <1>7 DEF ClockInv, SnapInv
<1>9. PICK w \in Int, dw \in Nat, m \in Nat :
        /\ w = (t0 + (time + offset)) \div 2 /\ dw = time - tsc0 /\ m = adjusted - a0
        /\ time \in Int /\ tsc0 \in Int /\ t \in Int /\ t0 \in Int /\ offset \in Int
        /\ adjusted \in Int /\ a0 \in Int /\ stamp_adjusted \in Int
  <2>1. (t0 + (time + offset)) \div 2 \in Int
    BY <1>3
  <2>2. time - tsc0 \in Nat
    BY <1>3, <1>6, <1>8
  <2>3. adjusted - a0 \in Nat
    BY <1>3, <1>6, <1>8
  <2>4. /\ time \in Int /\ tsc0 \in Int /\ t \in Int /\ t0 \in Int /\ offset \in Int
        /\ adjusted \in Int /\ a0 \in Int /\ stamp_adjusted \in Int
    BY <1>3, <1>6
  <2> QED
    BY <2>1, <2>2, <2>3, <2>4, Zenon
<1>10. PICK d : d = [c EXCEPT !.wall = w, !.width = dw, !.moved = m]
  OBVIOUS
<1>11. d \in Correlation /\ d.tsc = t /\ d.adjusted = a0 /\ d.wall = w /\ d.width = dw /\ d.moved = m
  BY <1>6, <1>10 DEF Correlation
<1>12. snaps' = [snaps EXCEPT ![n] = d]
  <2>1. snaps' = [snaps EXCEPT ![n].wall = w, ![n].width = dw, ![n].moved = m]
    BY <1>1, <1>5, <1>6, <1>9
  <2>2. n \in DOMAIN snaps
    BY <1>3, <1>4
  <2> QED
    BY <1>5, <1>10, <2>1, <2>2
<1>13. /\ snaps' \in Seq(Correlation) /\ Len(snaps') = n /\ snaps'[n] = d
       /\ \A i \in 1..(n - 1) : snaps'[i] = snaps[i]
  BY <1>3, <1>4, <1>11, <1>12
<1>14. Done' = n /\ ~Snapping' /\ ~Calibrating'
  BY <1>1, <1>13 DEF Done, Snapping, Calibrating
<1>15. Near(d, offset, adjusted)
  <2>1. Abs(t0 - tsc0 - offset) <= Abs(adjusted - a0)
    BY <1>3, <1>6, <1>8 DEF Abs
  <2>2. Abs(2 * (w - t - offset)) <= dw + m + 1 + 2 * Abs(adjusted - a0)
    <3>1. Abs(2 * ((t0 + (time + offset)) \div 2 - t - offset))
            <= (time - tsc0) + (adjusted - a0) + 1 + 2 * Abs(adjusted - a0)
      BY <1>8, <1>9, <2>1, Midpoint, Zenon
    <3> QED
      BY <1>9, <3>1
  <2> QED
    BY <1>11, <2>2 DEF Near
<1>16. rpc # "idle" => Near(d, wall - stamp, stamp_adjusted)
  <2> SUFFICES ASSUME rpc # "idle" PROVE Near(d, wall - stamp, stamp_adjusted)
    OBVIOUS
  <2>1. PICK o \in Int : o = wall - stamp
    BY <1>3
  <2>2. Abs(t0 - tsc0 - o) <= Abs(stamp_adjusted - a0)
    BY <1>5, <1>6, <1>7, <2>1 DEF ClockInv, NearInv
  <2>3. Abs(2 * (w - t - o)) <= dw + m + 1 + 2 * Abs(stamp_adjusted - a0)
    <3>1. Abs(2 * ((t0 + (time + offset)) \div 2 - t - o))
            <= (time - tsc0) + (adjusted - a0) + 1 + 2 * Abs(stamp_adjusted - a0)
      BY <1>8, <1>9, <2>1, <2>2, Midpoint, Zenon
    <3> QED
      BY <1>9, <3>1
  <2> QED
    BY <1>11, <2>1, <2>3 DEF Near
<1>17. ClockTypeOK'
  BY <1>1, <1>2, <1>13 DEF ClockTypeOK
<1>18. (CalInv /\ CalibrationSpans)'
  BY <1>1, SMTT(30) DEF CalInv, CalibrationSpans, Calibrating
<1>19. VersionInv'
  BY <1>1, <1>7, <1>13, <1>14, Zenon DEF ClockInv, VersionInv
<1>20. SnapInv'
  <2>1. ASSUME NEW i \in 1..n PROVE snaps'[i].tsc <= time
    BY <1>8, <1>11, <1>13, <1>4
  <2>2. ASSUME NEW i \in 1..n, NEW j \in 1..n, i <= j PROVE snaps'[i].tsc <= snaps'[j].tsc
    <3>1. CASE j = n
      <4>1. CASE i = n
        BY <3>1, <4>1, <1>6, <1>11, <1>13
      <4>2. CASE i \in 1..(n - 1)
        <5>1. snaps[i].tsc \in Nat /\ snaps[i].tsc <= tsc0
          BY <1>2, <1>4, <1>8, <4>2, SnapTypes
        <5> QED
          BY <3>1, <4>2, <5>1, <1>3, <1>8, <1>11, <1>13
      <4> QED
        BY <4>1, <4>2, <1>4
    <3>2. CASE j # n
      <4>1. i \in 1..(n - 1) /\ j \in 1..(n - 1)
        BY <2>2, <3>2, <1>4
      <4> QED
        BY <2>2, <4>1, <1>8, <1>13
    <3> QED
      BY <3>1, <3>2
  <2> QED
    BY <1>1, <1>14, <2>1, <2>2 DEF SnapInv, Snapping
<1>21. NearInv'
  <2>1. /\ \A i \in 1..(n - 1) : snaps[i].adjusted <= adjusted /\ Near(snaps[i], offset, adjusted)
        /\ rpc # "idle" =>
             /\ stamp <= time /\ stamp_adjusted <= adjusted
             /\ Abs(wall - stamp - offset) <= adjusted - stamp_adjusted
             /\ \A i \in 1..(n - 1) : Near(snaps[i], wall - stamp, stamp_adjusted)
    BY <1>7 DEF ClockInv, NearInv
  <2>2. ASSUME NEW i \in 1..n
        PROVE  /\ snaps'[i].adjusted <= adjusted /\ Near(snaps'[i], offset, adjusted)
               /\ rpc # "idle" => Near(snaps'[i], wall - stamp, stamp_adjusted)
    <3>1. CASE i = n
      BY <3>1, <1>8, <1>11, <1>13, <1>15, <1>16
    <3>2. CASE i \in 1..(n - 1)
      BY <3>2, <2>1, <1>13
    <3> QED
      BY <3>1, <3>2, <1>4
  <2> QED
    BY <1>1, <1>14, <2>1, <2>2 DEF NearInv
<1>22. LoadInv'
  BY <1>1 DEF ClockInv, LoadInv
<1> QED
  BY <1>17, <1>18, <1>19, <1>20, <1>21, <1>22 DEF ClockInv

(* The two stores keep the versions in step with the control point, and    *)
(* recalibrate() never lets tsc_base_ get ahead of wall_base_ns_.          *)
LEMMA StoreKeeps == ClockInv /\ (Store1 \/ Store2) => ClockInv'
<1> SUFFICES ASSUME ClockInv, Store1 \/ Store2 PROVE ClockInv'
  OBVIOUS
<1> DEFINE n == Len(snaps)
<1>1. /\ pc \in {"store1", "store2"} /\ pc' \in {"store2", "idle"}
      /\ UNCHANGED <<time, offset, adjusted, t0, tsc0, elapsed, ticks, snaps>>
      /\ UNCHANGED <<rpc, stamp, wall, stamp_adjusted, rtsc, rwall>>
  BY DEF Store1, Store2, clockVars, calVars, readVars
<1>2. ClockTypeOK
  BY DEF ClockInv
<1>3. n \in Nat /\ n > 0 /\ tsc_ver \in Nat /\ wall_ver \in Nat /\ behind \in Seq(Nat)
  BY <1>1, <1>2 DEF ClockTypeOK, ClockInv, VersionInv
<1>4. /\ Len(behind) = tsc_ver
      /\ \A v \in 2..tsc_ver : behind[v] >= v
  BY DEF ClockInv, VersionInv
<1>5. \/ /\ pc = "store1" /\ pc' = "store2" /\ tsc_ver = n - 1 /\ wall_ver = n - 1
         /\ IF n > 1 THEN StoreWall ELSE StoreTsc
      \/ /\ pc = "store2" /\ pc' = "idle"
         /\ IF n > 1 THEN wall_ver = n /\ tsc_ver = n - 1 /\ StoreTsc
                     ELSE wall_ver = n - 1 /\ tsc_ver = n /\ StoreWall
  BY DEF Store1, Store2, WallFirst, ClockInv, VersionInv
<1>6. ASSUME StoreTsc, tsc_ver = n - 1, n > 1 => wall_ver = n
      PROVE  /\ tsc_ver' = n /\ wall_ver' = wall_ver /\ behind' \in Seq(Nat) /\ Len(behind') = n
             /\ \A v \in 2..n : behind'[v] >= v
  <2>1. tsc_ver' = n /\ wall_ver' = wall_ver /\ behind' = Append(behind, wall_ver)
    BY <1>6 DEF StoreTsc
  <2>2. /\ behind' \in Seq(Nat) /\ Len(behind') = n /\ behind'[n] = wall_ver
        /\ \A v \in 1..(n - 1) : behind'[v] = behind[v]
    BY <1>3, <1>4, <1>6, <2>1
  <2>3. ASSUME NEW v \in 2..n PROVE behind'[v] >= v
    <3>1. CASE v = n
      BY <1>3, <1>6, <2>2, <3>1
    <3>2. CASE v # n
      <4>1. v \in 2..tsc_ver /\ v \in 1..(n - 1)
        BY <1>3, <1>6, <3>2
      <4> QED
        BY <1>4, <2>2, <4>1
    <3> QED
      BY <3>1, <3>2
  <2> QED
    BY <2>1, <2>2, <2>3
<1>7. StoreWall => wall_ver' = n /\ tsc_ver' = tsc_ver /\ behind' = behind
  BY DEF StoreWall
<1>8. /\ tsc_ver' \in Nat /\ wall_ver' \in Nat /\ behind' \in Seq(Nat)
      /\ tsc_ver' >= tsc_ver /\ wall_ver' >= wall_ver
  BY <1>3, <1>5, <1>6, <1>7
<1>9. Done = n /\ Done' = n /\ ~Snapping /\ ~Snapping' /\ ~Calibrating'
  BY <1>1 DEF Done, Snapping, Calibrating
<1>10. ClockTypeOK'
  BY <1>1, <1>2, <1>8 DEF ClockTypeOK
<1>11. (CalInv /\ CalibrationSpans)'
  BY <1>1 DEF CalInv, CalibrationSpans, Calibrating
<1>12. VersionInv'
  <2>1. CASE pc = "store1"
    BY <1>1, <1>3, <1>4, <1>5, <1>6, <1>7, <1>9, <2>1 DEF VersionInv
  <2>2. CASE pc = "store2"
    BY <1>1, <1>3, <1>4, <1>5, <1>6, <1>7, <1>9, <2>2 DEF VersionInv
  <2> QED
    BY <1>1, <2>1, <2>2
<1>13. SnapInv'
  BY <1>1, <1>9 DEF ClockInv, SnapInv, Snapping
<1>14. NearInv'
  BY <1>1, <1>9 DEF ClockInv, NearInv
<1>15. LoadInv'
  BY <1>1, <1>2, <1>3, <1>8 DEF ClockInv, LoadInv, ClockTypeOK
<1> QED
  BY <1>10, <1>11, <1>12, <1>13, <1>14, <1>15 DEF ClockInv

(* An event is stamped: every correlation is near the offset at the stamp. *)
LEMMA NowTscKeeps == ClockInv /\ now_tsc => ClockInv'
<1> SUFFICES ASSUME ClockInv, now_tsc PROVE ClockInv'
  OBVIOUS
<1>1. /\ rpc = "idle" /\ rpc' = "stamped" /\ Constructed
      /\ stamp' = time /\ wall' = time + offset /\ stamp_adjusted' = adjusted
      /\ UNCHANGED <<time, offset, adjusted, pc, t0, tsc0, elapsed, ticks, rtsc, rwall>>
      /\ UNCHANGED <<snaps, tsc_ver, wall_ver, behind>>
  BY DEF now_tsc, RealTime, clockVars, calVars, baseVars
<1>2. ClockTypeOK /\ time \in Nat /\ offset \in Int /\ adjusted \in Nat
  BY DEF ClockInv, ClockTypeOK
<1>3. Done' = Done /\ Snapping' = Snapping
  BY <1>1 DEF Done, Snapping
<1>4. ClockTypeOK'
  BY <1>1, <1>2 DEF ClockTypeOK
<1>5. (CalInv /\ CalibrationSpans)'
  <2>1. ~Calibrating
    BY <1>1 DEF Constructed, Calibrating, ClockInv, VersionInv
  <2> QED
    BY <1>1, <2>1 DEF ClockInv, CalInv, CalibrationSpans, Calibrating
<1>6. VersionInv'
  BY <1>1, <1>3 DEF ClockInv, VersionInv, Calibrating
<1>7. SnapInv'
  BY <1>1, <1>3 DEF ClockInv, SnapInv
<1>8. NearInv'
  <2>1. wall' - stamp' = offset
    BY <1>1, <1>2
  <2>2. \A i \in 1..Done : snaps[i].adjusted <= adjusted /\ Near(snaps[i], offset, adjusted)
    BY DEF ClockInv, NearInv
  <2>3. stamp' <= time /\ stamp_adjusted' <= adjusted /\ Abs(offset - offset) <= adjusted - stamp_adjusted'
    BY <1>1, <1>2 DEF Abs
  <2>4. Snapping => Abs(t0 - tsc0 - offset) <= Abs(adjusted - snaps[Len(snaps)].adjusted)
    <3>1. Snapping => /\ snaps[Len(snaps)].adjusted \in Nat
                      /\ Abs(t0 - tsc0 - offset) <= adjusted - snaps[Len(snaps)].adjusted
      BY <1>2, SnapTypes DEF ClockInv, SnapInv, VersionInv
    <3>2. t0 - tsc0 - offset \in Int
      BY <1>2 DEF ClockTypeOK
    <3> QED
      BY <1>2, <3>1, <3>2 DEF Abs
  <2> QED
    BY <1>1, <1>3, <2>1, <2>2, <2>3, <2>4 DEF NearInv
<1>9. LoadInv'
  BY <1>1 DEF LoadInv
<1> QED
  BY <1>4, <1>5, <1>6, <1>7, <1>8, <1>9 DEF ClockInv

(* The loads of to_wall_ns: the wall time loaded is not older than the     *)
(* base loaded before it.                                                  *)
LEMMA LoadKeeps ==
  ASSUME NEW v \in 1..MaxSnaps, ClockInv, LoadTsc(v) \/ LoadWall(v)
  PROVE  ClockInv'
<1>1. /\ rpc # "idle" /\ rpc' \in {"loaded", "converted"}
      /\ UNCHANGED <<time, offset, adjusted, pc, t0, tsc0, elapsed, ticks>>
      /\ UNCHANGED <<snaps, tsc_ver, wall_ver, behind, stamp, wall, stamp_adjusted>>
  BY DEF LoadTsc, LoadWall, clockVars, calVars, baseVars
<1>2. ClockTypeOK /\ v \in Nat /\ v >= 1
  BY DEF ClockInv
<1>3. Done' = Done /\ Snapping' = Snapping
  BY <1>1 DEF Done, Snapping
<1>4. ClockTypeOK'
  BY <1>1, <1>2 DEF ClockTypeOK, LoadTsc, LoadWall
<1>5. (CalInv /\ CalibrationSpans)'
  BY <1>1 DEF ClockInv, CalInv, CalibrationSpans, Calibrating
<1>6. VersionInv'
  BY <1>1, <1>3 DEF ClockInv, VersionInv, Calibrating
<1>7. SnapInv'
  BY <1>1, <1>3 DEF ClockInv, SnapInv
<1>8. NearInv'
  BY <1>1, <1>3 DEF ClockInv, NearInv
<1>9. LoadInv'
  <2>1. CASE LoadTsc(v)
    BY <1>1, <2>1 DEF LoadTsc, LoadInv
  <2>2. CASE LoadWall(v)
    <3>1. /\ rpc = "loaded" /\ rpc' = "converted" /\ v \in 1..wall_ver /\ v >= behind[rtsc] /\ rwall' = v
          /\ rtsc' = rtsc
      BY <2>2 DEF LoadWall
    <3>2. rtsc \in 1..tsc_ver /\ tsc_ver \in Nat
      BY <3>1 DEF ClockInv, LoadInv, ClockTypeOK
    <3>3. v >= rtsc
      <4>1. CASE rtsc = 1
        BY <1>2, <4>1
      <4>2. CASE rtsc # 1
        <5>1. rtsc \in 2..tsc_ver
          BY <3>2, <4>2
        <5>2. behind[rtsc] >= rtsc
          BY <5>1 DEF ClockInv, VersionInv
        <5>3. behind[rtsc] \in Nat
          <6>1. behind \in Seq(Nat) /\ Len(behind) = tsc_ver
            BY DEF ClockInv, ClockTypeOK, VersionInv
          <6> QED
            BY <3>2, <6>1
        <5> QED
          BY <1>2, <3>1, <3>2, <5>2, <5>3
      <4> QED
        BY <4>1, <4>2
    <3> QED
      BY <1>1, <3>1, <3>2, <3>3 DEF LoadInv
  <2> QED
    BY <2>1, <2>2
<1> QED
  BY <1>4, <1>5, <1>6, <1>7, <1>8, <1>9 DEF ClockInv

(* The invariant is inductive.                                             *)
LEMMA ClockInvStep == ClockInv /\ [ClockNext]_allVars => ClockInv'
<1> SUFFICES ASSUME ClockInv, [ClockNext]_allVars PROVE ClockInv'
  OBVIOUS
<1>1. CASE UNCHANGED allVars
  <2>1. /\ UNCHANGED <<time, offset, adjusted, pc, t0, tsc0, elapsed, ticks>>
        /\ UNCHANGED <<snaps, tsc_ver, wall_ver, behind>>
        /\ UNCHANGED <<rpc, stamp, wall, stamp_adjusted, rtsc, rwall>>
    BY <1>1 DEF allVars, clockVars, calVars, baseVars, readVars
  <2>2. Done' = Done /\ Snapping' = Snapping /\ Calibrating' = Calibrating
    BY <2>1 DEF Done, Snapping, Calibrating
  <2> QED
    BY <2>1, <2>2 DEF ClockInv, ClockTypeOK, CalInv, CalibrationSpans, VersionInv, SnapInv, NearInv, LoadInv
<1>2. CASE ClockNext
  BY <1>2, TimePassesKeeps, NtpAdjustsKeeps, CalibrationKeeps, RecalibrateKeeps, Snap0Keeps, SnapTscKeeps,
     Snap1Keeps, StoreKeeps, NowTscKeeps, LoadKeeps DEF ClockNext
<1> QED
  BY <1>1, <1>2

(* The invariant holds in every state.                                     *)
THEOREM ClockInvariant == ClockSpec => []ClockInv
  BY ClockInvInit, ClockInvStep, PTL DEF ClockSpec

(* The frequency is measured over at least SpinTime and divided by the     *)
(* time that really passed, wherever in a second the spin starts           *)
(* (calibrate_ghz).                                                        *)
THEOREM CalibrationRight == ClockSpec => []CalibrationSpans
<1>1. ClockInv => CalibrationSpans
  BY DEF ClockInv
<1> QED
  BY <1>1, ClockInvariant, PTL

(* What a conversion is off, from the three parts of its error.            *)
LEMMA ErrorArithmetic ==
  ASSUME NEW w \in Int, NEW t \in Int, NEW o \in Int, NEW x \in Int, NEW a \in Int,
         NEW b \in Int, NEW s \in Int, NEW q \in Int, NEW r \in Int, x >= 0, a >= 0, b <= t,
         Abs(2 * (w - t - o)) <= x + 1 + 2 * a,
         Abs(q - (s - b)) <= 1 + r
  PROVE  /\ -((x + 1) \div 2 + a + 1 + r) <= (w + q) - (s + o)
         /\ (w + q) - (s + o) <= (t - b) + ((x + 1) \div 2 + a + 1 + r)
<1>1. PICK h \in Int : h = (x + 1) \div 2 /\ 2 * h <= x + 1 /\ x + 1 <= 2 * h + 1
  OBVIOUS
<1>2. w - t - o <= h + a /\ -(w - t - o) <= h + a
  BY <1>1 DEF Abs
<1>3. q - (s - b) <= 1 + r /\ -(q - (s - b)) <= 1 + r
  BY DEF Abs
<1> QED
  BY <1>1, <1>2, <1>3

(* A conversion beside recalibrate() is never before the event, and ahead  *)
(* of it by no more than the time between the correlations it mixed        *)
(* (to_wall_ns, recalibrate).                                              *)
THEOREM ConversionRight == ClockSpec => []ConversionBounded
<1>1. ClockInv => ConversionBounded
  <2> SUFFICES ASSUME ClockInv, rpc = "converted", stamp >= snaps[rtsc].tsc, ticks > 0
               PROVE  LET error == Converted - wall
                          mixed == snaps[rwall].tsc - snaps[rtsc].tsc
                      IN -Tolerance <= error /\ error <= mixed + Tolerance
    BY DEF ConversionBounded
  <2>1. /\ ClockTypeOK /\ elapsed \in Nat /\ ticks \in Nat /\ stamp \in Nat /\ wall \in Int
        /\ stamp_adjusted \in Nat /\ time \in Nat /\ time < Modulus /\ Modulus \in Nat
    BY ClockAssumption DEF ClockInv, ClockTypeOK
  <2>2. tsc_ver \in Nat /\ wall_ver \in Nat /\ tsc_ver <= Done /\ wall_ver <= Done /\ Done \in Int
    BY <2>1, SnapTypes DEF ClockInv, ClockTypeOK, VersionInv, Done, Calibrating, Snapping
  <2>3. rtsc \in 1..Done /\ rwall \in 1..Done /\ rwall >= rtsc
    BY <2>2 DEF ClockInv, LoadInv
  <2>4. rtsc \in 1..Len(snaps) /\ rwall \in 1..Len(snaps)
    BY <2>1, <2>3, SnapTypes
  <2>5. PICK b \in Nat : b = snaps[rtsc].tsc
    BY <2>1, <2>4, SnapTypes
  <2>6. PICK w \in Int, t \in Nat, d \in Nat, a0 \in Nat, m \in Nat :
          /\ w = snaps[rwall].wall /\ t = snaps[rwall].tsc /\ d = snaps[rwall].width
          /\ a0 = snaps[rwall].adjusted /\ m = snaps[rwall].moved
    BY <2>1, <2>4, SnapTypes
  <2>7. b <= t
    BY <2>3, <2>5, <2>6 DEF ClockInv, SnapInv
  <2>8. stamp <= time
    BY DEF ClockInv, NearInv
  <2>9. (stamp - b) % Modulus = stamp - b /\ stamp - b \in Nat
    BY <2>1, <2>5, <2>8
  <2>10. PICK o \in Int : o = wall - stamp
    BY <2>1
  <2>11. PICK a \in Nat : a = Abs(stamp_adjusted - a0)
    <3>1. PICK x \in Int : x = stamp_adjusted - a0
      BY <2>1
    <3>2. Abs(x) \in Nat
      BY DEF Abs
    <3> QED
      BY <3>1, <3>2
  <2>12. Near(snaps[rwall], o, stamp_adjusted)
    BY <2>3, <2>10 DEF ClockInv, NearInv
  <2>13. Abs(2 * (w - t - o)) <= d + m + 1 + 2 * a
    BY <2>6, <2>11, <2>12 DEF Near
  <2>14. PICK q \in Int, r \in Int :
           /\ q = ((stamp - b) * elapsed) \div ticks
           /\ r = ((stamp - b) * Abs(ticks - elapsed)) \div ticks
           /\ Abs(q - (stamp - b)) <= 1 + r
    <3>1. Abs(((stamp - b) * elapsed) \div ticks - (stamp - b))
            <= 1 + ((stamp - b) * Abs(ticks - elapsed)) \div ticks
      BY <2>1, <2>9, QuotientError
    <3>2. ((stamp - b) * elapsed) \div ticks \in Int
      BY <2>1, <2>9
    <3>3. Abs(ticks - elapsed) \in Nat
      BY <2>1 DEF Abs
    <3>4. ((stamp - b) * Abs(ticks - elapsed)) \div ticks \in Int
      BY <2>1, <2>9, <3>3
    <3> QED
      BY <3>1, <3>2, <3>4, Zenon
  <2>15. Converted = w + q
    BY <2>5, <2>6, <2>9, <2>14 DEF Converted
  <2>16. Tolerance = (d + m + 1) \div 2 + a + 1 + r
    BY <2>5, <2>6, <2>11, <2>14 DEF Tolerance
  <2>17. /\ -((d + m + 1) \div 2 + a + 1 + r) <= (w + q) - (stamp + o)
         /\ (w + q) - (stamp + o) <= (t - b) + ((d + m + 1) \div 2 + a + 1 + r)
    <3>1. PICK x \in Int : x = d + m /\ x >= 0
      OBVIOUS
    <3>2. stamp \in Int /\ t \in Int /\ a \in Int /\ b \in Int /\ a >= 0
      BY <2>1
    <3>3. Abs(2 * (w - t - o)) <= x + 1 + 2 * a
      BY <2>13, <3>1
    <3>4. /\ -((x + 1) \div 2 + a + 1 + r) <= (w + q) - (stamp + o)
          /\ (w + q) - (stamp + o) <= (t - b) + ((x + 1) \div 2 + a + 1 + r)
      BY <2>7, <2>14, <3>1, <3>2, <3>3, ErrorArithmetic, ZenonT(60)
    <3> QED
      BY <3>1, <3>4
  <2>18. stamp + o = wall
    BY <2>1, <2>10
  <2>19. -Tolerance <= Converted - wall /\ Converted - wall <= (t - b) + Tolerance
    BY <2>15, <2>16, <2>17, <2>18, Zenon
  <2> QED
    BY <2>5, <2>6, <2>19, Zenon
<1> QED
  BY <1>1, ClockInvariant, PTL
=============================================================================
