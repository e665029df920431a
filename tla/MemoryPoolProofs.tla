-------------------------- MODULE MemoryPoolProofs --------------------------
(***************************************************************************)
(* Proofs about the memory pool for every number of blocks, cache size and *)
(* bound: no block is lost or handed out twice, free() never finds the     *)
(* list full whichever value of rp_ its load returns, and the counters are *)
(* exact.                                                                  *)
(***************************************************************************)
EXTENDS MemoryPool, FiniteSetTheorems, TLAPS

(* The block at a position of the free list.                               *)
At(pos) == slots[pos % NumBlocks]

InList(b) == \E pos \in rp..(wp - 1) : At(pos) = b
InStack(b) == \E i \in DOMAIN stack : stack[i] = b
InChannel(b) == \E c \in channel : c.block = b
InAlloc(b) == apc = "count" /\ a_block = b

Place == {"list", "stack", "channel", "held", "alloc", "free"}

(* The block is at that place and at no other.                             *)
IsAt(b, place) ==
  /\ InList(b) <=> place = "list"
  /\ InStack(b) <=> place = "stack"
  /\ InChannel(b) <=> place = "channel"
  /\ b \in held <=> place = "held"
  /\ InAlloc(b) <=> place = "alloc"
  /\ f_block = b <=> place = "free"
Partition == \A b \in Blocks : \E place \in Place : IsAt(b, place)

(* The oldest position the freeing thread may take for occupied.           *)
Oldest == IF usage = "pipeline" THEN f_seen ELSE rp

(* No block is twice in the list, not even among the positions that were   *)
(* taken since the freeing thread last saw rp_; nor on the stack, nor in   *)
(* the channel.                                                            *)
NoDuplicates ==
  /\ \A p, q \in Oldest..(wp - 1) : At(p) = At(q) => p = q
  /\ \A i, j \in DOMAIN stack : stack[i] = stack[j] => i = j
  /\ \A c, d \in channel : c.block = d.block => c = d

(* A block on its way to free() was taken before the rp_ it carries; when  *)
(* free() has it the freeing thread knows that position as taken.          *)
Freshness ==
  /\ \A c \in channel : /\ c.rp <= rp
                        /\ \A pos \in Oldest..(wp - 1) : pos >= c.rp => At(pos) # c.block
  /\ f_block # NoBlock => \A pos \in Oldest..(wp - 1) : At(pos) # f_block

(* What the control points of the two threads say about the list.          *)
Threads ==
  /\ rp <= wp
  /\ usage = "pipeline" => stack = <<>> /\ f_seen <= rp /\ rp <= a_seen /\ a_seen <= wp
  /\ usage = "cached" => apc = "idle" /\ fpc = "idle" /\ channel = {}
  /\ apc \in {"read", "release"} => rp < a_seen
  /\ apc = "release" => a_block = At(rp)
  /\ apc = "count" => a_block # NoBlock
  /\ fpc \in {"check", "write", "publish"} <=> f_block # NoBlock
  /\ fpc \in {"write", "publish"} => ~Overflow(wp, f_seen)
  /\ fpc = "publish" => At(wp) = f_block

Counters ==
  allocs - frees = NumBlocks - (wp - rp) - (IF apc = "count" THEN 1 ELSE 0)
                                         + (IF fpc = "count" THEN 1 ELSE 0)

PoolInv == TypeOK /\ Partition /\ NoDuplicates /\ Freshness /\ Threads /\ Counters

-----------------------------------------------------------------------------
(***************************************************************************)
(* Positions of the free list.                                             *)
(***************************************************************************)

(* A positive multiple of c is at least c.                                 *)
LEMMA MulGe ==
  ASSUME NEW c \in Nat \ {0}, NEW k \in Int, k >= 1
  PROVE  c * k >= c
  OBVIOUS

(* Quotient and remainder by a positive number.                            *)
LEMMA DivMod ==
  ASSUME NEW c \in Nat \ {0}, NEW p \in Int
  PROVE  /\ p % c \in 0..(c - 1)
         /\ p \div c \in Int
         /\ p = c * (p \div c) + (p % c)
  OBVIOUS

(* Multiples of c that differ by less than c are equal.                    *)
LEMMA SmallMultiple ==
  ASSUME NEW c \in Nat \ {0}, NEW d \in Int, c * d < c, c * d > -c
  PROVE  d = 0
<1>1. ~(d >= 1)
  BY MulGe
<1>2. ~(-d >= 1)
  <2>1. -d \in Int /\ c * (-d) = -(c * d)
    OBVIOUS
  <2> QED
    BY <2>1, MulGe
<1> QED
  BY <1>1, <1>2

(* The remainder is determined by its equation.                            *)
LEMMA ModUnique ==
  ASSUME NEW c \in Nat \ {0}, NEW p \in Int, NEW k \in Int, NEW r \in 0..(c - 1), p = c * k + r
  PROVE  p % c = r
<1>1. PICK j \in Int, u \in 0..(c - 1) : j = p \div c /\ u = p % c /\ p = c * j + u
  <2>1. p % c \in 0..(c - 1) /\ p \div c \in Int /\ p = c * (p \div c) + (p % c)
    BY DivMod, Zenon
  <2> QED
    BY <2>1, Zenon
<1> DEFINE d == k - j
<1>2. d \in Int /\ c * d = u - r
  BY <1>1
<1>3. d = 0
  <2>1. c * d < c /\ c * d > -c
    BY <1>1, <1>2
  <2> HIDE DEF d
  <2> QED
    BY <1>2, <2>1, SmallMultiple
<1> QED
  BY <1>1, <1>2, <1>3

(* Two positions less than a list apart have different slots.              *)
LEMMA DistinctMod ==
  ASSUME NEW c \in Nat \ {0}, NEW p \in Nat, NEW q \in Nat, p < q, q - p < c
  PROVE  p % c # q % c
<1> SUFFICES ASSUME p % c = q % c PROVE FALSE
  OBVIOUS
<1>0. p \in Int /\ q \in Int
  OBVIOUS
<1>1. PICK j \in Int, u \in 0..(c - 1) : u = p % c /\ p = c * j + u
  BY <1>0, DivMod, Zenon
<1>2. PICK k \in Int, v \in 0..(c - 1) : v = q % c /\ q = c * k + v
  BY <1>0, DivMod, Zenon
<1> DEFINE d == k - j
<1>3. d \in Int /\ c * d = q - p
  BY <1>1, <1>2
<1>4. d = 0
  <2>1. c * d < c /\ c * d > -c
    BY <1>3
  <2> HIDE DEF d
  <2> QED
    BY <1>3, <2>1, SmallMultiple
<1> QED
  BY <1>3, <1>4

(* The distance between two slots, counted round the list, is the distance *)
(* of their positions.                                                     *)
LEMMA ModDistance ==
  ASSUME NEW c \in Nat \ {0}, NEW p \in Nat, NEW k \in 0..(c - 1)
  PROVE  (((p + k) % c) - p) % c = k
<1>1. PICK j \in Int, u \in 0..(c - 1) : u = (p + k) % c /\ p + k = c * j + u
  <2>1. p + k \in Int
    OBVIOUS
  <2> QED
    BY <2>1, DivMod, Zenon
<1>2. u - p \in Int /\ -j \in Int /\ u - p = c * (-j) + k
  BY <1>1
<1>3. (u - p) % c = k
  BY <1>2, ModUnique
<1> QED
  BY <1>1, <1>3

(* The same for a position behind.                                         *)
LEMMA ModDistanceBehind ==
  ASSUME NEW c \in Nat \ {0}, NEW p \in Nat, NEW q \in Nat, q < p, p - q <= c
  PROVE  ((q % c) - p) % c = c - (p - q)
<1>0. q \in Int
  OBVIOUS
<1>1. PICK j \in Int, u \in 0..(c - 1) : u = q % c /\ q = c * j + u
  BY <1>0, DivMod, Zenon
<1>2. PICK r \in 0..(c - 1) : r = c - (p - q)
  OBVIOUS
<1>3. u - p \in Int /\ -j - 1 \in Int /\ u - p = c * (-j - 1) + r
  BY <1>1, <1>2
<1>4. (u - p) % c = r
  BY <1>3, ModUnique
<1> QED
  BY <1>1, <1>2, <1>4

(* The number of blocks does not change.                                   *)
LEMMA NumBlocksNat == NumBlocks \in Nat \ {0, 1}
<1>1. PipelineBlocks \in Nat \ {0, 1} /\ CacheBlocks \in Nat \ {0, 1}
  BY PoolSizes
<1> QED
  BY <1>1 DEF NumBlocks

(* Every position has a slot, and a slot has a block.                      *)
LEMMA AtBlock ==
  ASSUME TypeOK, NEW pos \in Nat
  PROVE  pos % NumBlocks \in Blocks /\ At(pos) \in Blocks
<1>1. PICK n \in Nat \ {0} : n = NumBlocks
  BY NumBlocksNat
<1>2. pos % n \in 0..(n - 1)
  BY DivMod
<1>3. pos % NumBlocks \in Blocks
  BY <1>1, <1>2 DEF Blocks
<1> QED
  BY <1>3 DEF TypeOK, At

(* No injection into a smaller set.                                        *)
LEMMA NoInjection ==
  ASSUME NEW S, NEW T, IsFiniteSet(S), IsFiniteSet(T), Cardinality(T) < Cardinality(S),
         NEW f \in [S -> T], \A x, y \in S : f[x] = f[y] => x = y
  PROVE  FALSE
<1>1. \E x, y \in S : x # y /\ f[x] = f[y]
  BY FS_PigeonHole
<1> QED
  BY <1>1

(* As many different things as fit into n are at most n.                   *)
LEMMA AtMost ==
  ASSUME NEW m \in Nat, NEW n \in Nat, NEW f \in [0..(m - 1) -> 0..(n - 1)],
         \A x, y \in 0..(m - 1) : f[x] = f[y] => x = y
  PROVE  m <= n
<1> SUFFICES ASSUME m > n PROVE FALSE
  OBVIOUS
<1>1. 0 \in Int /\ m - 1 \in Int /\ n - 1 \in Int
  OBVIOUS
<1>2. /\ IsFiniteSet(0..(m - 1)) /\ Cardinality(0..(m - 1)) = m
      /\ IsFiniteSet(0..(n - 1)) /\ Cardinality(0..(n - 1)) = n
  BY <1>1, FS_Interval
<1>3. Cardinality(0..(n - 1)) < Cardinality(0..(m - 1))
  BY <1>2
<1>4. PICK S, T : S = 0..(m - 1) /\ T = 0..(n - 1)
  OBVIOUS
<1>5. /\ IsFiniteSet(S) /\ IsFiniteSet(T) /\ Cardinality(T) < Cardinality(S)
      /\ f \in [S -> T] /\ \A x, y \in S : f[x] = f[y] => x = y
  BY <1>2, <1>3, <1>4
<1> QED
  BY <1>5, NoInjection

(* The blocks of a part of the list that has no duplicates, and others     *)
(* that are not in it, are together no more than there are.                *)
LEMMA Room ==
  ASSUME TypeOK, NEW lo \in Nat, lo <= wp,
         \A p, q \in lo..(wp - 1) : At(p) = At(q) => p = q,
         NEW m \in Nat, NEW e \in [1..m -> Blocks],
         \A i, j \in 1..m : e[i] = e[j] => i = j,
         \A i \in 1..m, pos \in lo..(wp - 1) : At(pos) # e[i]
  PROVE  wp - lo + m <= NumBlocks
<1> DEFINE size == wp - lo
           f == [k \in 0..(size + m - 1) |-> IF k < size THEN At(lo + k) ELSE e[k - size + 1]]
<1>1. wp \in Nat /\ size \in Nat /\ NumBlocks \in Nat /\ size + m \in Nat
  BY NumBlocksNat DEF TypeOK
<1>2. ASSUME NEW k \in 0..(size + m - 1)
      PROVE  /\ k < size => lo + k \in lo..(wp - 1)
             /\ ~(k < size) => k - size + 1 \in 1..m
             /\ f[k] \in Blocks
  <2>1. k < size => lo + k \in lo..(wp - 1) /\ lo + k \in Nat
    BY <1>1
  <2>2. ~(k < size) => k - size + 1 \in 1..m
    BY <1>1
  <2> QED
    BY <2>1, <2>2, AtBlock
<1>3. f \in [0..(size + m - 1) -> 0..(NumBlocks - 1)]
  BY <1>2 DEF Blocks
<1>4. ASSUME NEW x \in 0..(size + m - 1), NEW y \in 0..(size + m - 1), f[x] = f[y]
      PROVE  x = y
  <2>1. CASE x < size /\ y < size
    <3>1. At(lo + x) = At(lo + y) /\ lo + x \in lo..(wp - 1) /\ lo + y \in lo..(wp - 1)
      BY <1>2, <1>4, <2>1
    <3>2. lo + x = lo + y
      BY <3>1
    <3> QED
      BY <3>2
  <2>2. CASE ~(x < size) /\ ~(y < size)
    <3>1. e[x - size + 1] = e[y - size + 1] /\ x - size + 1 \in 1..m /\ y - size + 1 \in 1..m
      BY <1>2, <1>4, <2>2
    <3>2. x - size + 1 = y - size + 1
      BY <3>1
    <3> QED
      BY <1>1, <3>2
  <2>3. CASE x < size /\ ~(y < size)
    <3>1. At(lo + x) = e[y - size + 1] /\ lo + x \in lo..(wp - 1) /\ y - size + 1 \in 1..m
      BY <1>2, <1>4, <2>3
    <3> QED
      BY <3>1
  <2>4. CASE ~(x < size) /\ y < size
    <3>1. At(lo + y) = e[x - size + 1] /\ lo + y \in lo..(wp - 1) /\ x - size + 1 \in 1..m
      BY <1>2, <1>4, <2>4
    <3> QED
      BY <3>1
  <2> QED
    BY <2>1, <2>2, <2>3, <2>4
<1> HIDE DEF f, size
<1>5. size + m <= NumBlocks
  <2>1. PICK s \in Nat, n \in Nat : s = size + m /\ n = NumBlocks
    BY <1>1
  <2>a. 0..(s - 1) = 0..(size + m - 1) /\ 0..(n - 1) = 0..(NumBlocks - 1)
    <3>1. s - 1 = size + m - 1 /\ n - 1 = NumBlocks - 1
      BY <1>1, <2>1
    <3> QED
      BY <3>1
  <2>2. f \in [0..(s - 1) -> 0..(n - 1)]
    BY <1>3, <2>a, Zenon
  <2>3. \A x, y \in 0..(s - 1) : f[x] = f[y] => x = y
    BY <1>4, <2>a, Zenon
  <2>4. s <= n
    BY <2>2, <2>3, AtMost
  <2> QED
    BY <2>1, <2>4
<1> QED
  BY <1>5 DEF size

-----------------------------------------------------------------------------
(***************************************************************************)
(* What the invariant says about the room in the list.                     *)
(***************************************************************************)

(* The list may be looked at from rp on, whatever the freeing thread knows *)
(* of.                                                                     *)
LEMMA ListPart ==
  ASSUME PoolInv
  PROVE  /\ Oldest \in Nat /\ Oldest <= rp /\ rp \in Nat /\ wp \in Nat /\ rp <= wp
         /\ \A p, q \in rp..(wp - 1) : At(p) = At(q) => p = q
<1>1. rp \in Nat /\ wp \in Nat /\ f_seen \in Nat /\ rp <= wp /\ usage \in {"pipeline", "cached"}
  BY DEF PoolInv, TypeOK, Threads
<1>2. Oldest \in Nat /\ Oldest <= rp
  BY <1>1 DEF PoolInv, Threads, Oldest
<1>3. \A p \in rp..(wp - 1) : p \in Oldest..(wp - 1)
  BY <1>1, <1>2
<1> QED
  BY <1>1, <1>2, <1>3 DEF PoolInv, NoDuplicates

(* While free() has a block, the list has a slot for it, also as far as    *)
(* the freeing thread knows.                                               *)
LEMMA FreeHasRoom ==
  ASSUME PoolInv, f_block # NoBlock
  PROVE  usage = "pipeline" /\ wp - f_seen < NumBlocks
<1>1. usage = "pipeline" /\ TypeOK /\ f_block \in Blocks
  BY DEF PoolInv, Threads, TypeOK
<1>2. Oldest = f_seen /\ f_seen \in Nat /\ wp \in Nat /\ f_seen <= wp
  BY <1>1, ListPart DEF Oldest
<1> DEFINE e == [i \in 1..1 |-> f_block]
<1>3. \A p, q \in f_seen..(wp - 1) : At(p) = At(q) => p = q
  BY <1>2 DEF PoolInv, NoDuplicates
<1>4. \A pos \in f_seen..(wp - 1) : At(pos) # f_block
  BY <1>2 DEF PoolInv, Freshness
<1>5. /\ e \in [1..1 -> Blocks]
      /\ \A i, j \in 1..1 : e[i] = e[j] => i = j
      /\ \A i \in 1..1, pos \in f_seen..(wp - 1) : At(pos) # e[i]
  BY <1>1, <1>4
<1> HIDE DEF e
<1>6. wp - f_seen + 1 <= NumBlocks
  BY <1>1, <1>2, <1>3, <1>5, Room
<1>7. NumBlocks \in Nat
  BY NumBlocksNat
<1> QED
  BY <1>1, <1>2, <1>6, <1>7

(* The list and the cache's stack together have at most all blocks.        *)
LEMMA StackHasRoom ==
  ASSUME PoolInv
  PROVE  wp - rp + Len(stack) <= NumBlocks
<1>1. TypeOK /\ rp \in Nat /\ wp \in Nat /\ rp <= wp /\ Len(stack) \in Nat
      /\ stack \in [1..Len(stack) -> Blocks] /\ DOMAIN stack = 1..Len(stack)
  BY ListPart DEF PoolInv, TypeOK
<1>2. \A i, j \in 1..Len(stack) : stack[i] = stack[j] => i = j
  BY <1>1 DEF PoolInv, NoDuplicates
<1>3. ASSUME NEW i \in 1..Len(stack), NEW pos \in rp..(wp - 1), At(pos) = stack[i] PROVE FALSE
  <2>1. stack[i] \in Blocks /\ InList(stack[i]) /\ InStack(stack[i])
    BY <1>1, <1>3 DEF InList, InStack
  <2> QED
    BY <2>1 DEF PoolInv, Partition, IsAt
<1> QED
  BY <1>1, <1>2, <1>3, ListPart, Room

(* While alloc() has a block that it has not counted, the list is not      *)
(* full.                                                                   *)
LEMMA AllocLeavesRoom ==
  ASSUME PoolInv, apc = "count"
  PROVE  wp - rp < NumBlocks
<1>1. TypeOK /\ a_block \in Blocks /\ rp \in Nat /\ wp \in Nat /\ rp <= wp
  BY ListPart DEF PoolInv, Threads, TypeOK
<1> DEFINE e == [i \in 1..1 |-> a_block]
<1>2. \A pos \in rp..(wp - 1) : At(pos) # a_block
  <2> SUFFICES ASSUME NEW pos \in rp..(wp - 1), At(pos) = a_block PROVE FALSE
    OBVIOUS
  <2>1. InList(a_block) /\ InAlloc(a_block)
    BY DEF InList, InAlloc
  <2> QED
    BY <1>1, <2>1 DEF PoolInv, Partition, IsAt
<1>3. /\ e \in [1..1 -> Blocks]
      /\ \A i, j \in 1..1 : e[i] = e[j] => i = j
      /\ \A i \in 1..1, pos \in rp..(wp - 1) : At(pos) # e[i]
  BY <1>1, <1>2
<1> HIDE DEF e
<1>4. wp - rp + 1 <= NumBlocks
  BY <1>1, <1>3, ListPart, Room
<1>5. NumBlocks \in Nat
  BY NumBlocksNat
<1> QED
  BY <1>1, <1>4, <1>5

-----------------------------------------------------------------------------
(***************************************************************************)
(* The initial state, and the frames of the steps.                         *)
(***************************************************************************)

(* The constructor leaves every block in the list.                         *)
LEMMA InitPool == Init => PoolInv
<1> SUFFICES ASSUME Init PROVE PoolInv
  OBVIOUS
<1>1. PICK n \in Nat \ {0, 1} : n = NumBlocks
  BY NumBlocksNat
<1>2. /\ usage \in {"pipeline", "cached"} /\ wp = n /\ rp = 0 /\ slots = [i \in 0..(n - 1) |-> i]
      /\ Blocks = 0..(n - 1)
      /\ allocs = 0 /\ frees = 0 /\ apc = "idle" /\ a_block = NoBlock /\ a_seen = n
      /\ fpc = "idle" /\ f_block = NoBlock /\ f_seen = 0
      /\ held = {} /\ channel = {} /\ stack = <<>>
  BY <1>1 DEF Init, Blocks
<1>3. \A pos \in 0..(n - 1) : At(pos) = pos
  <2> SUFFICES ASSUME NEW pos \in 0..(n - 1) PROVE At(pos) = pos
    OBVIOUS
  <2>1. pos \in Int /\ pos = n * 0 + pos
    OBVIOUS
  <2>2. pos % n = pos
    BY <2>1, ModUnique
  <2> QED
    BY <1>1, <1>2, <2>2 DEF At
<1>4. TypeOK
  <2>1. LocalCapacity \in Nat
    BY PoolSizes
  <2> QED
    BY <1>2, <2>1 DEF TypeOK
<1>5. Partition
  <2>1. ASSUME NEW b \in Blocks PROVE IsAt(b, "list")
    <3>1. b \in rp..(wp - 1) /\ At(b) = b
      BY <1>2, <1>3
    <3>2. InList(b)
      BY <3>1 DEF InList
    <3>3. ~InStack(b) /\ ~InChannel(b) /\ b \notin held /\ ~InAlloc(b)
      BY <1>2 DEF InStack, InChannel, InAlloc
    <3>4. f_block # b
      BY <1>2 DEF NoBlock
    <3> QED
      BY <3>2, <3>3, <3>4 DEF IsAt
  <2> QED
    BY <2>1 DEF Partition, Place
<1>6. Oldest = 0
  BY <1>2 DEF Oldest
<1>7. NoDuplicates
  BY <1>2, <1>3, <1>6 DEF NoDuplicates
<1>8. Freshness
  BY <1>2 DEF Freshness
<1>9. Threads
  BY <1>2 DEF Threads
<1>10. Counters
  BY <1>1, <1>2 DEF Counters
<1> QED
  BY <1>4, <1>5, <1>7, <1>8, <1>9, <1>10 DEF PoolInv

(* The number of blocks stays.                                             *)
LEMMA SameBlocks ==
  ASSUME usage' = usage
  PROVE  NumBlocks' = NumBlocks /\ Blocks' = Blocks
  BY DEF NumBlocks, Blocks

(* A step that does not touch the list leaves what is in it.               *)
LEMMA ListFrame ==
  ASSUME UNCHANGED <<usage, listVars>>
  PROVE  /\ NumBlocks' = NumBlocks /\ Blocks' = Blocks
         /\ \A pos : At(pos)' = At(pos)
         /\ \A b : InList(b)' <=> InList(b)
<1>1. usage' = usage /\ wp' = wp /\ rp' = rp /\ slots' = slots
  BY DEF listVars
<1>2. NumBlocks' = NumBlocks /\ Blocks' = Blocks
  BY <1>1, SameBlocks
<1> QED
  BY <1>1, <1>2 DEF At, InList

(* A step that moves one block, and leaves the others where they are,      *)
(* leaves every block in one place.                                        *)
LEMMA MoveOne ==
  ASSUME Partition, Blocks' = Blocks, NEW b, NEW to \in Place, b \in Blocks => IsAt(b, to)',
         \A x \in Blocks : x # b =>
           /\ InList(x)' <=> InList(x)
           /\ InStack(x)' <=> InStack(x)
           /\ InChannel(x)' <=> InChannel(x)
           /\ x \in held' <=> x \in held
           /\ InAlloc(x)' <=> InAlloc(x)
           /\ f_block' = x <=> f_block = x
  PROVE  Partition'
<1>1. ASSUME NEW x \in Blocks, x # b PROVE \E place \in Place : IsAt(x, place)'
  BY <1>1 DEF Partition, IsAt
<1> QED
  BY <1>1 DEF Partition

(* A step that moves no block leaves every block in one place.             *)
LEMMA MoveNone ==
  ASSUME Partition, Blocks' = Blocks,
         \A x \in Blocks :
           /\ InList(x)' <=> InList(x)
           /\ InStack(x)' <=> InStack(x)
           /\ InChannel(x)' <=> InChannel(x)
           /\ x \in held' <=> x \in held
           /\ InAlloc(x)' <=> InAlloc(x)
           /\ f_block' = x <=> f_block = x
  PROVE  Partition'
  BY DEF Partition, IsAt

-----------------------------------------------------------------------------
(***************************************************************************)
(* alloc() on the allocating thread.                                       *)
(***************************************************************************)

(* The check and the read move no block.                                   *)
LEMMA AllocLooks ==
  ASSUME PoolInv, (\E seen \in a_seen..wp : AllocCheck(seen)) \/ AllocRead
  PROVE  PoolInv'
<1> USE DEF PoolInv
<1>1. /\ UNCHANGED <<usage, listVars>> /\ UNCHANGED freeVars
      /\ UNCHANGED <<allocs, frees, held, channel, stack>>
      /\ apc # "count" /\ apc' # "count"
  BY DEF AllocCheck, AllocRead
<1>2. wp' = wp /\ rp' = rp /\ slots' = slots /\ usage' = usage
      /\ fpc' = fpc /\ f_block' = f_block /\ f_seen' = f_seen
  BY <1>1 DEF listVars, freeVars
<1>3. /\ NumBlocks' = NumBlocks /\ Blocks' = Blocks
      /\ \A pos : At(pos)' = At(pos)
      /\ \A b : InList(b)' <=> InList(b)
  BY <1>1, ListFrame
<1>4. Oldest' = Oldest
  BY <1>1, <1>2 DEF Oldest
<1>5. /\ rp \in Nat /\ wp \in Nat /\ a_seen \in Nat /\ rp <= wp
      /\ (usage = "pipeline" => rp <= a_seen /\ a_seen <= wp)
  BY DEF TypeOK, Threads
<1>6. /\ usage = "pipeline"
      /\ apc' \in {"idle", "read", "release"}
      /\ a_seen' \in a_seen..wp /\ a_block' \in Blocks \cup {NoBlock}
      /\ apc' \in {"read", "release"} => rp < a_seen'
      /\ apc' = "release" => a_block' = At(rp)
  <2>1. CASE \E seen \in a_seen..wp : AllocCheck(seen)
    <3>1. PICK seen \in a_seen..wp : AllocCheck(seen)
      BY <2>1
    <3>2. /\ usage = "pipeline" /\ a_seen' = seen /\ apc' = (IF rp = seen THEN "idle" ELSE "read")
          /\ a_block' = a_block
      BY <3>1 DEF AllocCheck
    <3> QED
      BY <3>2, <1>5 DEF TypeOK
  <2>2. CASE AllocRead
    <3>1. apc = "read" /\ apc' = "release" /\ a_block' = At(rp) /\ a_seen' = a_seen
      BY <2>2 DEF AllocRead, At
    <3>2. usage = "pipeline" /\ rp < a_seen
      BY <3>1 DEF Threads, TypeOK
    <3>3. At(rp) \in Blocks
      BY <1>5, AtBlock
    <3> QED
      BY <3>1, <3>2, <3>3, <1>5
  <2> QED
    BY <2>1, <2>2
<1>7. TypeOK'
  BY <1>1, <1>2, <1>3, <1>5, <1>6 DEF TypeOK
<1>8. Partition'
  <2>1. \A x \in Blocks : /\ (InStack(x)' <=> InStack(x)) /\ (InChannel(x)' <=> InChannel(x))
                          /\ (InAlloc(x)' <=> InAlloc(x))
    BY <1>1 DEF InStack, InChannel, InAlloc
  <2>2. \A x \in Blocks :
           /\ InList(x)' <=> InList(x)
           /\ InStack(x)' <=> InStack(x)
           /\ InChannel(x)' <=> InChannel(x)
           /\ x \in held' <=> x \in held
           /\ InAlloc(x)' <=> InAlloc(x)
           /\ f_block' = x <=> f_block = x
    BY <1>1, <1>2, <1>3, <2>1
  <2> QED
    BY <1>3, <2>2, MoveNone
<1>9. NoDuplicates' /\ Freshness'
  BY <1>1, <1>2, <1>3, <1>4 DEF NoDuplicates, Freshness
<1>10. Threads'
  <2>1. apc' # "count" /\ a_seen' >= a_seen /\ a_seen' <= wp
    BY <1>1, <1>5, <1>6
  <2>2. rp <= a_seen'
    BY <1>5, <1>6, <2>1
  <2>3. At(rp)' = At(rp) /\ At(wp)' = At(wp) /\ Overflow(wp, f_seen)' = Overflow(wp, f_seen)
    BY <1>2, <1>3 DEF Overflow, At
  <2> QED
    BY <1>1, <1>2, <1>5, <1>6, <2>1, <2>2, <2>3 DEF Threads
<1>11. Counters'
  BY <1>1, <1>2, <1>3 DEF Counters
<1> QED
  BY <1>7, <1>8, <1>9, <1>10, <1>11

(* The release of the slot takes the oldest block off the list.            *)
LEMMA AllocTakes ==
  ASSUME PoolInv, AllocRelease
  PROVE  PoolInv'
<1> USE DEF PoolInv
<1>1. /\ apc = "release" /\ apc' = "count" /\ rp' = rp + 1
      /\ UNCHANGED <<usage, wp, slots, allocs, frees, a_block, a_seen, held, channel, stack>>
      /\ fpc' = fpc /\ f_block' = f_block /\ f_seen' = f_seen
  BY DEF AllocRelease, freeVars
<1>2. NumBlocks' = NumBlocks /\ Blocks' = Blocks
  BY <1>1, SameBlocks
<1>3. \A pos : At(pos)' = At(pos)
  BY <1>1, <1>2 DEF At
<1>4. /\ usage = "pipeline" /\ a_block = At(rp) /\ rp \in Nat /\ wp \in Nat /\ a_seen \in Nat
      /\ f_seen \in Nat /\ f_seen <= rp /\ rp < a_seen /\ a_seen <= wp /\ stack = <<>>
  BY <1>1 DEF Threads, TypeOK
<1>5. Oldest = f_seen /\ Oldest' = f_seen
  BY <1>1, <1>4 DEF Oldest
<1>6. At(rp) \in Blocks /\ NumBlocks \in Nat /\ At(rp) # NoBlock
  BY <1>4, AtBlock, NumBlocksNat DEF Blocks, NoBlock
<1>7. \A x : InList(x)' <=> InList(x) /\ x # At(rp)
  <2>1. \A p \in rp..(wp - 1) : At(p) = At(rp) => p = rp
    <3>1. rp \in rp..(wp - 1)
      BY <1>4
    <3> QED
      BY <3>1, ListPart
  <2>2. \A p : p \in (rp + 1)..(wp - 1) <=> p \in rp..(wp - 1) /\ p # rp
    BY <1>4
  <2>3. ASSUME NEW x PROVE (\E p \in (rp + 1)..(wp - 1) : At(p) = x) <=> InList(x) /\ x # At(rp)
    BY <2>1, <2>2 DEF InList
  <2> QED
    BY <1>1, <1>3, <2>3 DEF InList
<1>8. TypeOK'
  BY <1>1, <1>2, <1>4 DEF TypeOK
<1>9. Partition'
  <2>1. IsAt(At(rp), "list")
    <3>1. InList(At(rp))
      BY <1>4 DEF InList
    <3> QED
      BY <1>6, <3>1 DEF Partition, IsAt
  <2>2. \A x : /\ (InStack(x)' <=> InStack(x)) /\ (InChannel(x)' <=> InChannel(x))
               /\ (InAlloc(x)' <=> x = At(rp)) /\ ~InAlloc(x)
    BY <1>1, <1>4 DEF InStack, InChannel, InAlloc
  <2>3. PICK b \in Blocks : b = At(rp)
    BY <1>6
  <2>4. IsAt(b, "alloc")'
    <3>1. IsAt(b, "list")
      BY <2>1, <2>3
    <3>2. /\ ~InList(b)' /\ InAlloc(b)' /\ ~InStack(b)' /\ ~InChannel(b)'
          /\ b \notin held' /\ f_block' # b
      BY <1>1, <1>7, <2>2, <2>3, <3>1 DEF IsAt
    <3> QED
      BY <3>2 DEF IsAt
  <2>5. \A x \in Blocks : x # b =>
           /\ InList(x)' <=> InList(x)
           /\ InStack(x)' <=> InStack(x)
           /\ InChannel(x)' <=> InChannel(x)
           /\ x \in held' <=> x \in held
           /\ InAlloc(x)' <=> InAlloc(x)
           /\ f_block' = x <=> f_block = x
    BY <1>1, <1>7, <2>2, <2>3
  <2> QED
    BY <1>2, <2>4, <2>5, MoveOne DEF Place
<1>10. NoDuplicates'
  BY <1>1, <1>3, <1>5 DEF NoDuplicates
<1>11. Freshness'
  <2>1. \A c \in channel : c.rp \in Nat
    BY DEF TypeOK
  <2> QED
    BY <1>1, <1>3, <1>4, <1>5, <2>1 DEF Freshness
<1>12. Threads'
  <2>1. At(wp)' = At(wp) /\ Overflow(wp, f_seen)' = Overflow(wp, f_seen)
    BY <1>1, <1>2, <1>3 DEF Overflow, At
  <2>2. rp' <= wp' /\ f_seen' <= rp' /\ rp' <= a_seen' /\ a_seen' <= wp'
    BY <1>1, <1>4
  <2> QED
    BY <1>1, <1>4, <1>6, <2>1, <2>2 DEF Threads
<1>13. Counters'
  BY <1>1, <1>2, <1>4, <1>6 DEF Counters, TypeOK
<1> QED
  BY <1>8, <1>9, <1>10, <1>11, <1>12, <1>13

(* The counter is raised and the caller has the block.                     *)
LEMMA AllocReturns ==
  ASSUME PoolInv, AllocCount
  PROVE  PoolInv'
<1> USE DEF PoolInv
<1>1. /\ apc = "count" /\ apc' = "idle" /\ allocs' = allocs + 1 /\ held' = held \cup {a_block}
      /\ a_block' = NoBlock
      /\ UNCHANGED <<usage, listVars>> /\ UNCHANGED <<frees, a_seen, channel, stack>>
      /\ fpc' = fpc /\ f_block' = f_block /\ f_seen' = f_seen
  BY DEF AllocCount, freeVars
<1>2. wp' = wp /\ rp' = rp /\ slots' = slots /\ usage' = usage
  BY <1>1 DEF listVars
<1>3. /\ NumBlocks' = NumBlocks /\ Blocks' = Blocks
      /\ \A pos : At(pos)' = At(pos)
      /\ \A b : InList(b)' <=> InList(b)
  BY <1>1, ListFrame
<1>4. Oldest' = Oldest
  BY <1>1, <1>2 DEF Oldest
<1>5. PICK b \in Blocks : b = a_block
  BY <1>1 DEF TypeOK, Threads
<1>6. TypeOK'
  BY <1>1, <1>2, <1>3, <1>5 DEF TypeOK
<1>7. Partition'
  <2>1. IsAt(b, "alloc")
    <3>1. InAlloc(b)
      BY <1>1, <1>5 DEF InAlloc
    <3> QED
      BY <3>1 DEF Partition, IsAt
  <2>2. \A x : /\ (InStack(x)' <=> InStack(x)) /\ (InChannel(x)' <=> InChannel(x)) /\ ~InAlloc(x)'
               /\ (x # b => ~InAlloc(x))
    BY <1>1, <1>5 DEF InStack, InChannel, InAlloc
  <2>3. IsAt(b, "held")'
    <3>1. /\ ~InList(b)' /\ ~InAlloc(b)' /\ ~InStack(b)' /\ ~InChannel(b)'
          /\ b \in held' /\ f_block' # b
      BY <1>1, <1>3, <1>5, <2>1, <2>2 DEF IsAt
    <3> QED
      BY <3>1 DEF IsAt
  <2>4. \A x \in Blocks : x # b =>
           /\ InList(x)' <=> InList(x)
           /\ InStack(x)' <=> InStack(x)
           /\ InChannel(x)' <=> InChannel(x)
           /\ x \in held' <=> x \in held
           /\ InAlloc(x)' <=> InAlloc(x)
           /\ f_block' = x <=> f_block = x
    BY <1>1, <1>3, <1>5, <2>2
  <2> QED
    BY <1>3, <2>3, <2>4, MoveOne DEF Place
<1>8. NoDuplicates' /\ Freshness'
  BY <1>1, <1>2, <1>3, <1>4 DEF NoDuplicates, Freshness
<1>9. Threads'
  <2>1. At(rp)' = At(rp) /\ At(wp)' = At(wp) /\ Overflow(wp, f_seen)' = Overflow(wp, f_seen)
    BY <1>1, <1>2, <1>3 DEF Overflow, At
  <2> QED
    BY <1>1, <1>2, <2>1 DEF Threads
<1>10. Counters'
  <2>1. NumBlocks \in Nat
    BY NumBlocksNat
  <2> QED
    BY <1>1, <1>2, <1>3, <2>1 DEF Counters, TypeOK
<1> QED
  BY <1>6, <1>7, <1>8, <1>9, <1>10

(* A block that is passed on carries the rp after its own position.        *)
LEMMA SendMoves ==
  ASSUME PoolInv, NEW b \in held, Send(b)
  PROVE  PoolInv'
<1> USE DEF PoolInv
<1>1. /\ usage = "pipeline" /\ held' = held \ {b}
      /\ channel' = channel \cup {[block |-> b, rp |-> rp]}
      /\ UNCHANGED <<usage, listVars>> /\ UNCHANGED <<allocs, frees, stack>>
      /\ apc' = apc /\ a_block' = a_block /\ a_seen' = a_seen
      /\ fpc' = fpc /\ f_block' = f_block /\ f_seen' = f_seen
  BY DEF Send, freeVars, allocVars
<1>2. wp' = wp /\ rp' = rp /\ slots' = slots /\ usage' = usage
  BY <1>1 DEF listVars
<1>3. /\ NumBlocks' = NumBlocks /\ Blocks' = Blocks
      /\ \A pos : At(pos)' = At(pos)
      /\ \A x : InList(x)' <=> InList(x)
  BY <1>1, ListFrame
<1>4. Oldest' = Oldest
  BY <1>1, <1>2 DEF Oldest
<1>5. b \in Blocks /\ rp \in Nat /\ wp \in Nat
  BY DEF TypeOK
<1>6. TypeOK'
  BY <1>1, <1>2, <1>3, <1>5 DEF TypeOK
<1>7. IsAt(b, "held")
  BY <1>5 DEF Partition, IsAt
<1>8. \A x : /\ (InStack(x)' <=> InStack(x)) /\ (InAlloc(x)' <=> InAlloc(x))
             /\ InChannel(x)' <=> (InChannel(x) \/ x = b)
  <2>1. \A x : (InStack(x)' <=> InStack(x)) /\ (InAlloc(x)' <=> InAlloc(x))
    BY <1>1 DEF InStack, InAlloc
  <2>2. ASSUME NEW x PROVE InChannel(x)' <=> (InChannel(x) \/ x = b)
    <3> DEFINE c == [block |-> b, rp |-> rp]
    <3>1. c \in channel' /\ c.block = b
      BY <1>1
    <3>2. \A d : d \in channel' <=> d \in channel \/ d = c
      BY <1>1
    <3> HIDE DEF c
    <3> QED
      BY <3>1, <3>2 DEF InChannel
  <2> QED
    BY <2>1, <2>2
<1>9. Partition'
  <2>1. IsAt(b, "channel")'
    <3>1. /\ ~InList(b)' /\ ~InAlloc(b)' /\ ~InStack(b)' /\ InChannel(b)'
          /\ b \notin held' /\ f_block' # b
      BY <1>1, <1>3, <1>7, <1>8 DEF IsAt
    <3> QED
      BY <3>1 DEF IsAt
  <2>2. \A x \in Blocks : x # b =>
           /\ InList(x)' <=> InList(x)
           /\ InStack(x)' <=> InStack(x)
           /\ InChannel(x)' <=> InChannel(x)
           /\ x \in held' <=> x \in held
           /\ InAlloc(x)' <=> InAlloc(x)
           /\ f_block' = x <=> f_block = x
    BY <1>1, <1>3, <1>8
  <2> QED
    BY <1>3, <1>5, <2>1, <2>2, MoveOne DEF Place
<1>10. NoDuplicates'
  <2>1. \A c \in channel : c.block # b
    BY <1>7 DEF IsAt, InChannel
  <2>2. \A c, d \in channel' : c.block = d.block => c = d
    BY <1>1, <2>1 DEF NoDuplicates
  <2> QED
    BY <1>1, <1>2, <1>3, <1>4, <2>2 DEF NoDuplicates
<1>11. Freshness'
  <2>1. \A pos \in Oldest..(wp - 1) : pos >= rp => At(pos) # b
    <3>1. \A pos \in Oldest..(wp - 1) : pos >= rp => pos \in rp..(wp - 1)
      BY <1>5, ListPart
    <3> QED
      BY <3>1, <1>7 DEF IsAt, InList
  <2>2. ASSUME NEW c \in channel'
        PROVE  c.rp <= rp /\ \A pos \in Oldest..(wp - 1) : pos >= c.rp => At(pos) # c.block
    <3>1. CASE c \in channel
      BY <3>1 DEF Freshness
    <3>2. CASE c = [block |-> b, rp |-> rp]
      BY <1>5, <2>1, <3>2
    <3> QED
      BY <1>1, <3>1, <3>2
  <2> QED
    BY <1>1, <1>2, <1>3, <1>4, <2>2 DEF Freshness
<1>12. Threads'
  <2>1. At(rp)' = At(rp) /\ At(wp)' = At(wp) /\ Overflow(wp, f_seen)' = Overflow(wp, f_seen)
    BY <1>1, <1>2, <1>3 DEF Overflow, At
  <2> QED
    BY <1>1, <1>2, <2>1 DEF Threads
<1>13. Counters'
  BY <1>1, <1>2, <1>3 DEF Counters
<1> QED
  BY <1>6, <1>9, <1>10, <1>11, <1>12, <1>13

-----------------------------------------------------------------------------
(***************************************************************************)
(* free(p) on the freeing thread.                                          *)
(***************************************************************************)

(* The thread that receives a block knows the rp it carries, so that it    *)
(* takes the position the block came from for free.                        *)
LEMMA FreeReceives ==
  ASSUME PoolInv, NEW c \in channel, FreeCall(c)
  PROVE  PoolInv'
<1> USE DEF PoolInv
<1>1. /\ fpc = "idle" /\ fpc' = "check" /\ channel' = channel \ {c} /\ f_block' = c.block
      /\ f_seen' = (IF c.rp > f_seen THEN c.rp ELSE f_seen)
      /\ UNCHANGED <<usage, listVars>> /\ UNCHANGED <<allocs, frees, held, stack>>
      /\ apc' = apc /\ a_block' = a_block /\ a_seen' = a_seen
  BY DEF FreeCall, allocVars
<1>2. wp' = wp /\ rp' = rp /\ slots' = slots /\ usage' = usage
  BY <1>1 DEF listVars
<1>3. /\ NumBlocks' = NumBlocks /\ Blocks' = Blocks
      /\ \A pos : At(pos)' = At(pos)
      /\ \A x : InList(x)' <=> InList(x)
  BY <1>1, ListFrame
<1>4. /\ rp \in Nat /\ wp \in Nat /\ f_seen \in Nat /\ c.rp \in Nat /\ c.block \in Blocks
      /\ c.rp <= rp /\ usage = "pipeline" /\ f_seen <= rp /\ f_block = NoBlock
  BY <1>1 DEF TypeOK, Threads, Freshness
<1>5. f_seen' \in Nat /\ f_seen' <= rp /\ f_seen' >= f_seen /\ f_seen' >= c.rp
  BY <1>1, <1>4
<1>6. Oldest = f_seen /\ Oldest' = f_seen'
  BY <1>2, <1>4 DEF Oldest
<1>7. \A pos \in f_seen'..(wp - 1) : pos \in f_seen..(wp - 1) /\ pos >= c.rp
  BY <1>4, <1>5
<1>8. PICK b \in Blocks : b = c.block /\ b # NoBlock
  <2>1. NoBlock \notin Blocks
    BY DEF NoBlock, Blocks
  <2> QED
    BY <1>4, <2>1
<1>9. TypeOK'
  BY <1>1, <1>2, <1>3, <1>5, <1>8 DEF TypeOK
<1>10. Partition'
  <2>1. IsAt(b, "channel")
    <3>1. InChannel(b)
      BY <1>8 DEF InChannel
    <3> QED
      BY <3>1 DEF Partition, IsAt
  <2>2. \A x : (InStack(x)' <=> InStack(x)) /\ (InAlloc(x)' <=> InAlloc(x))
    BY <1>1 DEF InStack, InAlloc
  <2>3. \A x : InChannel(x)' <=> InChannel(x) /\ x # b
    BY <1>1, <1>8 DEF InChannel, NoDuplicates
  <2>4. IsAt(b, "free")'
    <3>1. /\ ~InList(b)' /\ ~InAlloc(b)' /\ ~InStack(b)' /\ ~InChannel(b)'
          /\ b \notin held' /\ f_block' = b
      BY <1>1, <1>3, <1>8, <2>1, <2>2, <2>3 DEF IsAt
    <3> QED
      BY <3>1 DEF IsAt
  <2>5. \A x \in Blocks : x # b =>
           /\ InList(x)' <=> InList(x)
           /\ InStack(x)' <=> InStack(x)
           /\ InChannel(x)' <=> InChannel(x)
           /\ x \in held' <=> x \in held
           /\ InAlloc(x)' <=> InAlloc(x)
           /\ f_block' = x <=> f_block = x
    <3>1. \A x \in Blocks : x # NoBlock
      BY DEF NoBlock, Blocks
    <3> QED
      BY <1>1, <1>3, <1>4, <1>8, <2>2, <2>3, <3>1
  <2> QED
    BY <1>3, <2>4, <2>5, MoveOne DEF Place
<1>11. NoDuplicates'
  BY <1>1, <1>2, <1>3, <1>6, <1>7 DEF NoDuplicates
<1>12. Freshness'
  <2>1. \A pos \in f_seen'..(wp - 1) : At(pos) # c.block
    BY <1>6, <1>7 DEF Freshness
  <2>2. \A d \in channel : /\ d.rp <= rp
                            /\ \A pos \in f_seen'..(wp - 1) : pos >= d.rp => At(pos) # d.block
    BY <1>6, <1>7 DEF Freshness
  <2> QED
    BY <1>1, <1>2, <1>3, <1>6, <2>1, <2>2 DEF Freshness
<1>13. Threads'
  <2>1. At(rp)' = At(rp)
    BY <1>2, <1>3 DEF At
  <2> QED
    BY <1>1, <1>2, <1>4, <1>5, <1>8, <2>1 DEF Threads
<1>14. Counters'
  BY <1>1, <1>2, <1>3 DEF Counters
<1> QED
  BY <1>9, <1>10, <1>11, <1>12, <1>13, <1>14

(* Whichever value of rp_ the load returns, the list is not full.          *)
LEMMA FreeSucceeds ==
  ASSUME PoolInv, NEW seen \in f_seen..rp, FreeCheck(seen)
  PROVE  PoolInv'
<1> USE DEF PoolInv
<1>1. fpc = "check" /\ f_seen' = seen /\ f_block # NoBlock
  BY DEF FreeCheck, Threads
<1>2. usage = "pipeline" /\ wp - f_seen < NumBlocks /\ NumBlocks \in Nat
  BY <1>1, FreeHasRoom, NumBlocksNat
<1>3. rp \in Nat /\ wp \in Nat /\ f_seen \in Nat /\ seen \in Nat /\ seen <= rp /\ f_seen <= seen
  BY DEF TypeOK
<1>4. ~Overflow(wp, seen)
  BY <1>2, <1>3 DEF Overflow
<1>5. /\ fpc' = "write" /\ f_block' = f_block
      /\ UNCHANGED <<usage, listVars>> /\ UNCHANGED <<allocs, frees, held, channel, stack>>
      /\ apc' = apc /\ a_block' = a_block /\ a_seen' = a_seen
  BY <1>4 DEF FreeCheck, allocVars
<1>6. wp' = wp /\ rp' = rp /\ slots' = slots /\ usage' = usage
  BY <1>5 DEF listVars
<1>7. /\ NumBlocks' = NumBlocks /\ Blocks' = Blocks
      /\ \A pos : At(pos)' = At(pos)
      /\ \A x : InList(x)' <=> InList(x)
  BY <1>5, ListFrame
<1>8. Oldest = f_seen /\ Oldest' = seen
  BY <1>1, <1>2, <1>6 DEF Oldest
<1>9. \A pos \in seen..(wp - 1) : pos \in f_seen..(wp - 1)
  BY <1>3
<1>10. TypeOK'
  BY <1>1, <1>3, <1>5, <1>6, <1>7 DEF TypeOK
<1>11. Partition'
  <2>1. \A x \in Blocks : /\ (InStack(x)' <=> InStack(x)) /\ (InChannel(x)' <=> InChannel(x))
                          /\ (InAlloc(x)' <=> InAlloc(x))
    BY <1>5 DEF InStack, InChannel, InAlloc
  <2>2. \A x \in Blocks :
           /\ InList(x)' <=> InList(x)
           /\ InStack(x)' <=> InStack(x)
           /\ InChannel(x)' <=> InChannel(x)
           /\ x \in held' <=> x \in held
           /\ InAlloc(x)' <=> InAlloc(x)
           /\ f_block' = x <=> f_block = x
    BY <1>5, <1>7, <2>1
  <2> QED
    BY <1>7, <2>2, MoveNone
<1>12. NoDuplicates'
  BY <1>5, <1>6, <1>7, <1>8, <1>9 DEF NoDuplicates
<1>13. Freshness'
  <2>1. f_block # NoBlock => \A pos \in seen..(wp - 1) : At(pos) # f_block
    BY <1>8, <1>9 DEF Freshness
  <2>2. \A d \in channel : /\ d.rp <= rp
                            /\ \A pos \in seen..(wp - 1) : pos >= d.rp => At(pos) # d.block
    BY <1>8, <1>9 DEF Freshness
  <2> QED
    BY <1>5, <1>6, <1>7, <1>8, <2>1, <2>2 DEF Freshness
<1>14. Threads'
  <2>1. At(rp)' = At(rp) /\ ~Overflow(wp, f_seen)'
    BY <1>1, <1>4, <1>6, <1>7 DEF At, Overflow
  <2> QED
    BY <1>1, <1>2, <1>3, <1>5, <1>6, <2>1 DEF Threads
<1>15. Counters'
  BY <1>1, <1>5, <1>6, <1>7 DEF Counters
<1> QED
  BY <1>10, <1>11, <1>12, <1>13, <1>14, <1>15

(* The slot that free() writes belongs to no position the list is known to *)
(* have.                                                                   *)
LEMMA FreeWrites ==
  ASSUME PoolInv, FreeWrite
  PROVE  PoolInv'
<1> USE DEF PoolInv
<1>1. /\ fpc = "write" /\ fpc' = "publish" /\ slots' = [slots EXCEPT ![wp % NumBlocks] = f_block]
      /\ UNCHANGED <<usage, wp, rp, allocs, frees, f_block, f_seen, held, channel, stack>>
      /\ apc' = apc /\ a_block' = a_block /\ a_seen' = a_seen
  BY DEF FreeWrite, allocVars
<1>2. /\ f_block # NoBlock /\ f_block \in Blocks /\ usage = "pipeline" /\ ~Overflow(wp, f_seen)
      /\ rp \in Nat /\ wp \in Nat /\ f_seen \in Nat /\ f_seen <= rp /\ rp <= wp
      /\ (apc = "release" => rp < wp)
  BY <1>1 DEF Threads, TypeOK
<1>3. NumBlocks' = NumBlocks /\ Blocks' = Blocks /\ wp % NumBlocks \in Blocks
  BY <1>1, <1>2, SameBlocks, AtBlock
<1>4. PICK n \in Nat \ {0} : n = NumBlocks /\ wp - f_seen < n
  BY <1>2, NumBlocksNat DEF Overflow
<1>5. \A pos \in f_seen..(wp - 1) : At(pos)' = At(pos)
  <2> SUFFICES ASSUME NEW pos \in f_seen..(wp - 1) PROVE At(pos)' = At(pos)
    OBVIOUS
  <2>1. pos \in Nat /\ pos < wp /\ wp - pos < n
    BY <1>2, <1>4
  <2>2. pos % n # wp % n
    BY <1>2, <2>1, DistinctMod
  <2>3. pos % NumBlocks # wp % NumBlocks /\ pos % NumBlocks \in Blocks
    BY <1>4, <2>1, <2>2, AtBlock
  <2> QED
    BY <1>1, <1>3, <2>3 DEF At, TypeOK
<1>6. At(wp)' = f_block
  BY <1>1, <1>3 DEF At, TypeOK
<1>7. Oldest = f_seen /\ Oldest' = f_seen
  BY <1>1, <1>2 DEF Oldest
<1>8. \A x : InList(x)' <=> InList(x)
  <2>1. \A pos \in rp..(wp - 1) : pos \in f_seen..(wp - 1)
    BY <1>2
  <2> QED
    BY <1>1, <1>5, <2>1 DEF InList
<1>9. TypeOK'
  BY <1>1, <1>2, <1>3 DEF TypeOK
<1>10. Partition'
  <2>1. \A x \in Blocks : /\ (InStack(x)' <=> InStack(x)) /\ (InChannel(x)' <=> InChannel(x))
                          /\ (InAlloc(x)' <=> InAlloc(x))
    BY <1>1 DEF InStack, InChannel, InAlloc
  <2>2. \A x \in Blocks :
           /\ InList(x)' <=> InList(x)
           /\ InStack(x)' <=> InStack(x)
           /\ InChannel(x)' <=> InChannel(x)
           /\ x \in held' <=> x \in held
           /\ InAlloc(x)' <=> InAlloc(x)
           /\ f_block' = x <=> f_block = x
    BY <1>1, <1>8, <2>1
  <2> QED
    BY <1>3, <2>2, MoveNone
<1>11. NoDuplicates'
  BY <1>1, <1>5, <1>7 DEF NoDuplicates
<1>12. Freshness'
  BY <1>1, <1>5, <1>7 DEF Freshness
<1>13. Threads'
  <2>1. apc = "release" => rp \in f_seen..(wp - 1)
    BY <1>2
  <2>2. apc = "release" => At(rp)' = At(rp)
    <3>1. At(rp)' = slots'[rp % NumBlocks']
      BY <1>1 DEF At
    <3> QED
      BY <1>1, <1>5, <2>1, <3>1 DEF At
  <2>3. ~Overflow(wp, f_seen)'
    BY <1>1, <1>2, <1>3 DEF Overflow
  <2> QED
    BY <1>1, <1>2, <1>6, <2>2, <2>3 DEF Threads
<1>14. Counters'
  BY <1>1, <1>3 DEF Counters
<1> QED
  BY <1>9, <1>10, <1>11, <1>12, <1>13, <1>14

(* Publishing wp_ puts the block into the list.                            *)
LEMMA FreePublishes ==
  ASSUME PoolInv, FreePublish
  PROVE  PoolInv'
<1> USE DEF PoolInv
<1>1. /\ fpc = "publish" /\ fpc' = "count" /\ wp' = wp + 1 /\ f_block' = NoBlock
      /\ UNCHANGED <<usage, rp, slots, allocs, frees, f_seen, held, channel, stack>>
      /\ apc' = apc /\ a_block' = a_block /\ a_seen' = a_seen
  BY DEF FreePublish, allocVars
<1>2. /\ f_block # NoBlock /\ usage = "pipeline" /\ At(wp) = f_block
      /\ rp \in Nat /\ wp \in Nat /\ f_seen \in Nat /\ f_seen <= rp /\ rp <= wp
      /\ a_seen \in Nat /\ rp <= a_seen /\ a_seen <= wp /\ NumBlocks \in Nat
  BY <1>1, NumBlocksNat DEF Threads, TypeOK
<1>3. NumBlocks' = NumBlocks /\ Blocks' = Blocks
  BY <1>1, SameBlocks
<1>4. \A pos : At(pos)' = At(pos)
  BY <1>1, <1>3 DEF At
<1>5. Oldest = f_seen /\ Oldest' = f_seen
  BY <1>1, <1>2 DEF Oldest
<1>6. PICK b \in Blocks : b = f_block /\ b # NoBlock
  BY <1>2 DEF TypeOK
<1>7. \A lo \in {rp, f_seen} : \A pos : pos \in lo..(wp' - 1) <=> pos \in lo..(wp - 1) \/ pos = wp
  BY <1>1, <1>2
<1>8. \A x : InList(x)' <=> InList(x) \/ x = b
  BY <1>1, <1>2, <1>4, <1>6, <1>7 DEF InList
<1>9. TypeOK'
  BY <1>1, <1>2, <1>3 DEF TypeOK
<1>10. IsAt(b, "free")
  BY <1>6 DEF Partition, IsAt
<1>11. Partition'
  <2>1. \A x \in Blocks : /\ (InStack(x)' <=> InStack(x)) /\ (InChannel(x)' <=> InChannel(x))
                          /\ (InAlloc(x)' <=> InAlloc(x)) /\ x # NoBlock
    BY <1>1 DEF InStack, InChannel, InAlloc, Blocks, NoBlock
  <2>2. IsAt(b, "list")'
    <3>1. /\ InList(b)' /\ ~InAlloc(b)' /\ ~InStack(b)' /\ ~InChannel(b)'
          /\ b \notin held' /\ f_block' # b
      BY <1>1, <1>6, <1>8, <1>10, <2>1 DEF IsAt
    <3> QED
      BY <3>1 DEF IsAt
  <2>3. \A x \in Blocks : x # b =>
           /\ InList(x)' <=> InList(x)
           /\ InStack(x)' <=> InStack(x)
           /\ InChannel(x)' <=> InChannel(x)
           /\ x \in held' <=> x \in held
           /\ InAlloc(x)' <=> InAlloc(x)
           /\ f_block' = x <=> f_block = x
    BY <1>1, <1>6, <1>8, <2>1
  <2> QED
    BY <1>3, <2>2, <2>3, MoveOne DEF Place
<1>12. NoDuplicates'
  <2>1. \A pos \in f_seen..(wp - 1) : At(pos) # At(wp)
    BY <1>2, <1>5 DEF Freshness
  <2>2. \A p, q \in f_seen..(wp' - 1) : At(p) = At(q) => p = q
    BY <1>5, <1>7, <2>1 DEF NoDuplicates
  <2> QED
    BY <1>1, <1>4, <1>5, <2>2 DEF NoDuplicates
<1>13. Freshness'
  <2>1. \A c \in channel : c.block # At(wp)
    BY <1>2, <1>6, <1>10 DEF IsAt, InChannel
  <2>2. \A c \in channel : /\ c.rp <= rp
                            /\ \A pos \in f_seen..(wp' - 1) : pos >= c.rp => At(pos) # c.block
    BY <1>5, <1>7, <2>1 DEF Freshness
  <2> QED
    BY <1>1, <1>4, <1>5, <2>2 DEF Freshness
<1>14. Threads'
  <2>1. At(rp)' = At(rp) /\ rp' <= wp' /\ a_seen' <= wp'
    BY <1>1, <1>2, <1>3 DEF At
  <2> QED
    BY <1>1, <1>2, <2>1 DEF Threads
<1>15. Counters'
  BY <1>1, <1>2, <1>3 DEF Counters, TypeOK
<1> QED
  BY <1>9, <1>11, <1>12, <1>13, <1>14, <1>15

(* The counter of free().                                                  *)
LEMMA FreeReturns ==
  ASSUME PoolInv, FreeCount
  PROVE  PoolInv'
<1> USE DEF PoolInv
<1>1. /\ fpc = "count" /\ fpc' = "idle" /\ frees' = frees + 1
      /\ UNCHANGED <<usage, listVars>>
      /\ UNCHANGED <<allocs, f_block, f_seen, held, channel, stack>>
      /\ apc' = apc /\ a_block' = a_block /\ a_seen' = a_seen
  BY DEF FreeCount, allocVars
<1>2. wp' = wp /\ rp' = rp /\ slots' = slots /\ usage' = usage
  BY <1>1 DEF listVars
<1>3. /\ NumBlocks' = NumBlocks /\ Blocks' = Blocks /\ NumBlocks \in Nat
      /\ \A pos : At(pos)' = At(pos)
      /\ \A x : InList(x)' <=> InList(x)
  BY <1>1, ListFrame, NumBlocksNat
<1>4. Oldest' = Oldest
  BY <1>1, <1>2 DEF Oldest
<1>5. TypeOK'
  BY <1>1, <1>2, <1>3 DEF TypeOK
<1>6. Partition'
  <2>1. \A x \in Blocks : /\ (InStack(x)' <=> InStack(x)) /\ (InChannel(x)' <=> InChannel(x))
                          /\ (InAlloc(x)' <=> InAlloc(x))
    BY <1>1 DEF InStack, InChannel, InAlloc
  <2>2. \A x \in Blocks :
           /\ InList(x)' <=> InList(x)
           /\ InStack(x)' <=> InStack(x)
           /\ InChannel(x)' <=> InChannel(x)
           /\ x \in held' <=> x \in held
           /\ InAlloc(x)' <=> InAlloc(x)
           /\ f_block' = x <=> f_block = x
    BY <1>1, <1>3, <2>1
  <2> QED
    BY <1>3, <2>2, MoveNone
<1>7. NoDuplicates' /\ Freshness'
  BY <1>1, <1>2, <1>3, <1>4 DEF NoDuplicates, Freshness
<1>8. Threads'
  <2>1. At(rp)' = At(rp)
    BY <1>2, <1>3 DEF At
  <2> QED
    BY <1>1, <1>2, <2>1 DEF Threads
<1>9. Counters'
  BY <1>1, <1>2, <1>3 DEF Counters, TypeOK
<1> QED
  BY <1>5, <1>6, <1>7, <1>8, <1>9

-----------------------------------------------------------------------------
(***************************************************************************)
(* The cache.                                                              *)
(***************************************************************************)

(* A prefix of a sequence.                                                 *)
LEMMA Prefix ==
  ASSUME NEW S, NEW s \in Seq(S), NEW k \in 0..Len(s)
  PROVE  /\ SubSeq(s, 1, k) \in Seq(S) /\ Len(SubSeq(s, 1, k)) = k
         /\ DOMAIN SubSeq(s, 1, k) = 1..k
         /\ \A i \in 1..k : SubSeq(s, 1, k)[i] = s[i]
  OBVIOUS

(* An element put on top.                                                  *)
LEMMA OnTop ==
  ASSUME NEW S, NEW s \in Seq(S), NEW e \in S
  PROVE  /\ Append(s, e) \in Seq(S) /\ Len(Append(s, e)) = Len(s) + 1
         /\ DOMAIN Append(s, e) = 1..(Len(s) + 1)
         /\ \A i \in 1..Len(s) : Append(s, e)[i] = s[i]
         /\ Append(s, e)[Len(s) + 1] = e
  OBVIOUS

(* Under the cache a block is in the list, on the stack or with the        *)
(* application, and everything else is idle.                               *)
LEMMA CachedPlaces ==
  ASSUME PoolInv, usage = "cached"
  PROVE  /\ apc = "idle" /\ fpc = "idle" /\ f_block = NoBlock /\ channel = {}
         /\ Oldest = rp /\ rp \in Nat /\ wp \in Nat /\ rp <= wp
         /\ NumBlocks \in Nat \ {0} /\ allocs \in Nat /\ frees \in Nat
         /\ allocs - frees = NumBlocks - (wp - rp)
         /\ stack \in Seq(Blocks) /\ Len(stack) \in Nat /\ Len(stack) <= LocalCapacity
         /\ DOMAIN stack = 1..Len(stack)
         /\ held \subseteq Blocks /\ slots \in [Blocks -> Blocks]
         /\ \A p, q \in rp..(wp - 1) : At(p) = At(q) => p = q
         /\ \A i, j \in 1..Len(stack) : stack[i] = stack[j] => i = j
         /\ \A x \in Blocks : \E place \in {"list", "stack", "held"} :
              /\ InList(x) <=> place = "list"
              /\ InStack(x) <=> place = "stack"
              /\ x \in held <=> place = "held"
<1> USE DEF PoolInv
<1>1. /\ apc = "idle" /\ fpc = "idle" /\ f_block = NoBlock /\ channel = {} /\ Oldest = rp
      /\ rp <= wp
  BY DEF Threads, Oldest
<1>2. /\ rp \in Nat /\ wp \in Nat /\ allocs \in Nat /\ frees \in Nat
      /\ held \subseteq Blocks /\ slots \in [Blocks -> Blocks]
      /\ stack \in Seq(Blocks) /\ Len(stack) <= LocalCapacity
  BY DEF TypeOK
<1>3. NumBlocks \in Nat \ {0}
  BY NumBlocksNat
<1>4. allocs - frees = NumBlocks - (wp - rp)
  BY <1>1, <1>2, <1>3 DEF Counters
<1>5. Len(stack) \in Nat /\ DOMAIN stack = 1..Len(stack)
  BY <1>2
<1>6. /\ \A p, q \in rp..(wp - 1) : At(p) = At(q) => p = q
      /\ \A i, j \in 1..Len(stack) : stack[i] = stack[j] => i = j
  BY <1>1, <1>5 DEF NoDuplicates
<1>7. ASSUME NEW x \in Blocks
      PROVE  \E place \in {"list", "stack", "held"} :
              /\ InList(x) <=> place = "list"
              /\ InStack(x) <=> place = "stack"
              /\ x \in held <=> place = "held"
  <2>1. ~InChannel(x) /\ ~InAlloc(x) /\ f_block # x
    BY <1>1 DEF InChannel, InAlloc, Blocks, NoBlock
  <2> QED
    BY <2>1 DEF Partition, IsAt, Place
<1> QED
  BY <1>1, <1>2, <1>3, <1>4, <1>5, <1>6, <1>7

(* What a call on the cache has to leave.                                  *)
LEMMA CachedKeeps ==
  ASSUME PoolInv, usage = "cached", usage' = usage,
         UNCHANGED allocVars, UNCHANGED freeVars, UNCHANGED channel,
         rp' \in Nat, wp' \in Nat, rp' <= wp', slots' \in [Blocks -> Blocks],
         allocs' \in Nat, frees' \in Nat, allocs' - frees' = NumBlocks - (wp' - rp'),
         held' \subseteq Blocks, stack' \in Seq(Blocks), Len(stack') <= LocalCapacity,
         \A p, q \in rp'..(wp' - 1) : At(p)' = At(q)' => p = q,
         \A i, j \in DOMAIN stack' : stack'[i] = stack'[j] => i = j,
         \A x \in Blocks : \E place \in {"list", "stack", "held"} :
           /\ InList(x)' <=> place = "list"
           /\ InStack(x)' <=> place = "stack"
           /\ x \in held' <=> place = "held"
  PROVE  PoolInv'
<1>1. /\ apc' = "idle" /\ fpc' = "idle" /\ f_block' = NoBlock /\ channel' = {}
      /\ a_block' = a_block /\ a_seen' = a_seen /\ f_seen' = f_seen
      /\ NumBlocks' = NumBlocks /\ Blocks' = Blocks /\ NumBlocks \in Nat
  BY CachedPlaces, SameBlocks DEF allocVars, freeVars
<1>2. Oldest' = rp'
  BY DEF Oldest
<1>3. TypeOK'
  BY <1>1 DEF PoolInv, TypeOK
<1>4. Partition'
  <2>1. ASSUME NEW x \in Blocks PROVE \E place \in Place : IsAt(x, place)'
    <3>1. ~InChannel(x)' /\ ~InAlloc(x)' /\ f_block' # x
      BY <1>1 DEF InChannel, InAlloc, Blocks, NoBlock
    <3> QED
      BY <3>1 DEF IsAt, Place
  <2> QED
    BY <1>1, <2>1 DEF Partition
<1>5. NoDuplicates'
  BY <1>1, <1>2 DEF NoDuplicates
<1>6. Freshness'
  BY <1>1 DEF Freshness
<1>7. Threads'
  BY <1>1 DEF Threads
<1>8. Counters'
  BY <1>1 DEF Counters
<1> QED
  BY <1>3, <1>4, <1>5, <1>6, <1>7, <1>8 DEF PoolInv

(* alloc() takes the top of the stack.                                     *)
LEMMA HitMoves ==
  ASSUME PoolInv, CacheHit
  PROVE  PoolInv'
<1> DEFINE m == Len(stack)
           b == stack[m]
<1>1. /\ usage = "cached" /\ usage' = usage /\ stack # <<>>
      /\ stack' = SubSeq(stack, 1, m - 1) /\ held' = held \cup {b}
      /\ UNCHANGED <<usage, listVars>> /\ UNCHANGED <<allocs, frees>>
      /\ UNCHANGED allocVars /\ UNCHANGED freeVars /\ UNCHANGED channel
  BY DEF CacheHit, Last, Front
<1>2. /\ NumBlocks' = NumBlocks /\ Blocks' = Blocks
      /\ \A pos : At(pos)' = At(pos)
      /\ \A x : InList(x)' <=> InList(x)
      /\ wp' = wp /\ rp' = rp /\ slots' = slots
  BY <1>1, ListFrame DEF listVars
<1>3. /\ stack \in Seq(Blocks) /\ m \in Nat /\ m <= LocalCapacity /\ DOMAIN stack = 1..m
      /\ \A i, j \in 1..m : stack[i] = stack[j] => i = j
  BY <1>1, CachedPlaces
<1>4. m - 1 \in 0..m /\ m \in 1..m /\ b \in Blocks
  BY <1>1, <1>3
<1>5. /\ stack' \in Seq(Blocks) /\ Len(stack') = m - 1 /\ DOMAIN stack' = 1..(m - 1)
      /\ \A i \in 1..(m - 1) : stack'[i] = stack[i]
  BY <1>1, <1>3, <1>4, Prefix
<1>6. \A i : i \in 1..(m - 1) <=> i \in 1..m /\ i # m
  BY <1>3
<1>7. \A x : InStack(x)' <=> InStack(x) /\ x # b
  BY <1>3, <1>4, <1>5, <1>6 DEF InStack
<1>8. \A i, j \in DOMAIN stack' : stack'[i] = stack'[j] => i = j
  BY <1>3, <1>5, <1>6
<1>9. ASSUME NEW x \in Blocks
      PROVE  \E place \in {"list", "stack", "held"} :
              /\ InList(x)' <=> place = "list"
              /\ InStack(x)' <=> place = "stack"
              /\ x \in held' <=> place = "held"
  <2>1. PICK place \in {"list", "stack", "held"} :
              /\ InList(x) <=> place = "list"
              /\ InStack(x) <=> place = "stack"
              /\ x \in held <=> place = "held"
    BY <1>1, CachedPlaces
  <2>2. CASE x = b
    <3>1. InStack(x)
      BY <1>3, <1>4, <2>2 DEF InStack
    <3>2. ~InList(x)' /\ ~InStack(x)' /\ x \in held'
      BY <1>1, <1>2, <1>7, <2>1, <2>2, <3>1
    <3> QED
      BY <3>2
  <2>3. CASE x # b
    BY <1>1, <1>2, <1>7, <2>1, <2>3
  <2> QED
    BY <2>2, <2>3
<1>10. Len(stack') <= LocalCapacity
  <2>1. LocalCapacity \in Nat
    BY PoolSizes
  <2> QED
    BY <1>3, <1>5, <2>1
<1>11. held' \subseteq Blocks
  BY <1>1, <1>4, CachedPlaces
<1> HIDE DEF m, b
<1>12. /\ rp' \in Nat /\ wp' \in Nat /\ rp' <= wp' /\ slots' \in [Blocks -> Blocks]
       /\ allocs' \in Nat /\ frees' \in Nat /\ allocs' - frees' = NumBlocks - (wp' - rp')
  BY <1>1, <1>2, CachedPlaces
<1>13. \A p, q \in rp'..(wp' - 1) : At(p)' = At(q)' => p = q
  BY <1>1, <1>2, CachedPlaces
<1> QED
  BY <1>1, <1>5, <1>8, <1>9, <1>10, <1>11, <1>12, <1>13, CachedKeeps

(* free() puts the block on top of the stack.                              *)
LEMMA CacheFreeMoves ==
  ASSUME PoolInv, NEW b, CacheFree(b)
  PROVE  PoolInv'
<1> DEFINE m == Len(stack)
<1>1. /\ usage = "cached" /\ usage' = usage /\ b \in held /\ m < LocalCapacity
      /\ stack' = Append(stack, b) /\ held' = held \ {b}
      /\ UNCHANGED <<usage, listVars>> /\ UNCHANGED <<allocs, frees>>
      /\ UNCHANGED allocVars /\ UNCHANGED freeVars /\ UNCHANGED channel
  BY DEF CacheFree
<1>2. /\ NumBlocks' = NumBlocks /\ Blocks' = Blocks
      /\ \A pos : At(pos)' = At(pos)
      /\ \A x : InList(x)' <=> InList(x)
      /\ wp' = wp /\ rp' = rp /\ slots' = slots
  BY <1>1, ListFrame DEF listVars
<1>3. /\ stack \in Seq(Blocks) /\ m \in Nat /\ DOMAIN stack = 1..m
      /\ \A i, j \in 1..m : stack[i] = stack[j] => i = j
      /\ held \subseteq Blocks /\ b \in Blocks
  BY <1>1, CachedPlaces
<1>4. /\ stack' \in Seq(Blocks) /\ Len(stack') = m + 1 /\ DOMAIN stack' = 1..(m + 1)
      /\ \A i \in 1..m : stack'[i] = stack[i]
      /\ stack'[m + 1] = b
  BY <1>1, <1>3, OnTop
<1>5. \A i : i \in 1..(m + 1) <=> i \in 1..m \/ i = m + 1
  BY <1>3
<1>6. \A x : InStack(x)' <=> InStack(x) \/ x = b
  BY <1>3, <1>4, <1>5 DEF InStack
<1>7. ~InStack(b) /\ ~InList(b)
  BY <1>1, <1>3, CachedPlaces
<1>8. \A i, j \in DOMAIN stack' : stack'[i] = stack'[j] => i = j
  <2>1. \A i \in 1..m : stack[i] # b
    BY <1>3, <1>7 DEF InStack
  <2> QED
    BY <1>3, <1>4, <1>5, <2>1
<1>9. ASSUME NEW x \in Blocks
      PROVE  \E place \in {"list", "stack", "held"} :
              /\ InList(x)' <=> place = "list"
              /\ InStack(x)' <=> place = "stack"
              /\ x \in held' <=> place = "held"
  <2>1. PICK place \in {"list", "stack", "held"} :
              /\ InList(x) <=> place = "list"
              /\ InStack(x) <=> place = "stack"
              /\ x \in held <=> place = "held"
    BY <1>1, CachedPlaces
  <2>2. CASE x = b
    <3>1. ~InList(x)' /\ InStack(x)' /\ x \notin held'
      BY <1>1, <1>2, <1>6, <1>7, <2>2
    <3> QED
      BY <3>1
  <2>3. CASE x # b
    BY <1>1, <1>2, <1>6, <2>1, <2>3
  <2> QED
    BY <2>2, <2>3
<1>10. Len(stack') <= LocalCapacity
  <2>1. LocalCapacity \in Nat
    BY PoolSizes
  <2> QED
    BY <1>1, <1>3, <1>4, <2>1
<1>11. held' \subseteq Blocks
  BY <1>1, <1>3
<1> HIDE DEF m
<1>12. /\ rp' \in Nat /\ wp' \in Nat /\ rp' <= wp' /\ slots' \in [Blocks -> Blocks]
       /\ allocs' \in Nat /\ frees' \in Nat /\ allocs' - frees' = NumBlocks - (wp' - rp')
  BY <1>1, <1>2, CachedPlaces
<1>13. \A p, q \in rp'..(wp' - 1) : At(p)' = At(q)' => p = q
  BY <1>1, <1>2, CachedPlaces
<1> QED
  BY <1>1, <1>4, <1>8, <1>9, <1>10, <1>11, <1>12, <1>13, CachedKeeps

(* alloc() with an empty stack takes the oldest n blocks off the list: the *)
(* last of them for the caller, the others onto the stack.                 *)
LEMMA MissMoves ==
  ASSUME PoolInv, CacheMiss
  PROVE  PoolInv'
<1>1. PICK n : n = RefillSize
  OBVIOUS
<1> DEFINE r == [i \in 1..n |-> At(rp + i - 1)]
<1>2. /\ usage = "cached" /\ usage' = usage /\ stack = <<>> /\ n > 0
      /\ rp' = rp + n /\ allocs' = allocs + n
      /\ stack' = Front(Refilled(n)) /\ held' = held \cup {Last(Refilled(n))}
      /\ UNCHANGED <<wp, slots, frees>>
      /\ UNCHANGED allocVars /\ UNCHANGED freeVars /\ UNCHANGED channel
  BY <1>1 DEF CacheMiss
<1>3. /\ rp \in Nat /\ wp \in Nat /\ rp <= wp /\ NumBlocks \in Nat /\ allocs \in Nat /\ frees \in Nat
      /\ allocs - frees = NumBlocks - (wp - rp) /\ held \subseteq Blocks
      /\ slots \in [Blocks -> Blocks]
      /\ \A p, q \in rp..(wp - 1) : At(p) = At(q) => p = q
  BY <1>2, CachedPlaces
<1>4. n \in Nat /\ n >= 1 /\ n <= wp - rp /\ n <= LocalCapacity /\ LocalCapacity \in Nat
  <2>1. BatchSize \in Nat \ {0} /\ LocalCapacity \in Nat /\ 2 * BatchSize <= LocalCapacity
    BY PoolSizes
  <2> QED
    BY <1>1, <1>2, <1>3, <2>1 DEF RefillSize
<1>5. NumBlocks' = NumBlocks /\ Blocks' = Blocks
  BY <1>2, SameBlocks
<1>6. \A pos : At(pos)' = At(pos)
  BY <1>2, <1>5 DEF At
<1>7. \A i \in 1..n : At(rp + i - 1) \in Blocks
  <2> SUFFICES ASSUME NEW i \in 1..n PROVE At(rp + i - 1) \in Blocks
    OBVIOUS
  <2>1. rp + i - 1 \in Nat
    BY <1>3, <1>4
  <2> QED
    BY <2>1, AtBlock DEF PoolInv
<1>8. /\ r \in Seq(Blocks) /\ Len(r) = n /\ \A i \in 1..n : r[i] = At(rp + i - 1)
  BY <1>4, <1>7
<1>9. Refilled(n) = r
  <2>1. Refilled(n) = stack \o r
    BY DEF Refilled, At
  <2> HIDE DEF r
  <2> QED
    BY <1>2, <1>8, <2>1
<1> HIDE DEF r
<1>10. PICK b \in Blocks : b = At(rp + n - 1) /\ b = Last(Refilled(n))
  BY <1>4, <1>7, <1>8, <1>9 DEF Last
<1>11. /\ stack' \in Seq(Blocks) /\ Len(stack') = n - 1 /\ DOMAIN stack' = 1..(n - 1)
       /\ \A i \in 1..(n - 1) : stack'[i] = At(rp + i - 1)
  <2>1. stack' = SubSeq(r, 1, n - 1) /\ n - 1 \in 0..Len(r)
    BY <1>2, <1>4, <1>8, <1>9 DEF Front
  <2>2. /\ stack' \in Seq(Blocks) /\ Len(stack') = n - 1 /\ DOMAIN stack' = 1..(n - 1)
        /\ \A i \in 1..(n - 1) : stack'[i] = r[i]
    BY <1>8, <2>1, Prefix
  <2>3. \A i \in 1..(n - 1) : i \in 1..n
    BY <1>4
  <2> QED
    BY <1>8, <2>2, <2>3
<1>12. ASSUME NEW i \in 1..(n - 1)
       PROVE  rp + i - 1 \in rp..(wp - 1) /\ rp + i - 1 < rp + n - 1
  BY <1>3, <1>4
<1>13. rp + n - 1 \in rp..(wp - 1)
  BY <1>3, <1>4
<1>14. \A i, j \in DOMAIN stack' : stack'[i] = stack'[j] => i = j
  <2> SUFFICES ASSUME NEW i \in 1..(n - 1), NEW j \in 1..(n - 1), stack'[i] = stack'[j] PROVE i = j
    BY <1>11
  <2>1. rp + i - 1 = rp + j - 1
    BY <1>3, <1>11, <1>12
  <2> QED
    BY <1>3, <2>1
<1>15. ASSUME NEW x \in Blocks
       PROVE  \E place \in {"list", "stack", "held"} :
              /\ InList(x)' <=> place = "list"
              /\ InStack(x)' <=> place = "stack"
              /\ x \in held' <=> place = "held"
  <2>1. InList(x)' <=> \E pos \in (rp + n)..(wp - 1) : At(pos) = x
    BY <1>2, <1>6 DEF InList
  <2>2. InStack(x)' <=> \E i \in 1..(n - 1) : At(rp + i - 1) = x
    BY <1>11 DEF InStack
  <2>3. x \in held' <=> x \in held \/ x = b
    BY <1>2, <1>10
  <2>4. PICK place \in {"list", "stack", "held"} :
              /\ InList(x) <=> place = "list"
              /\ InStack(x) <=> place = "stack"
              /\ x \in held <=> place = "held"
    BY <1>2, CachedPlaces
  <2>5. \A pos \in (rp + n)..(wp - 1) : pos \in rp..(wp - 1) /\ pos > rp + n - 1
    BY <1>3, <1>4
  <2>6. CASE ~InList(x)
    <3>1. ~InList(x)'
      BY <2>1, <2>5, <2>6 DEF InList
    <3>2. ~InStack(x)'
      BY <1>12, <2>2, <2>6 DEF InList
    <3>3. x # b
      BY <1>10, <1>13, <2>6 DEF InList
    <3>4. ~InStack(x)
      BY <1>2 DEF InStack
    <3>5. x \in held'
      BY <2>3, <2>4, <2>6, <3>4
    <3> QED
      BY <3>1, <3>2, <3>5
  <2>7. CASE InList(x)
    <3>1. PICK pos \in rp..(wp - 1) : At(pos) = x
      BY <2>7 DEF InList
    <3>2. x \notin held /\ pos \in Nat
      BY <1>3, <2>4, <2>7
    <3>3. \A p \in rp..(wp - 1) : At(p) = x => p = pos
      BY <1>3, <3>1
    <3>4. CASE pos >= rp + n
      <4>1. InList(x)'
        BY <1>3, <1>4, <2>1, <3>1, <3>4
      <4>2. ~InStack(x)'
        <5>1. \A i \in 1..(n - 1) : rp + i - 1 # pos
          BY <1>3, <1>4, <3>4
        <5> QED
          BY <1>12, <2>2, <3>3, <5>1
      <4>3. x # b
        <5>1. rp + n - 1 # pos
          BY <1>3, <1>4, <3>4
        <5> QED
          BY <1>10, <1>13, <3>3, <5>1
      <4> QED
        BY <2>3, <3>2, <4>1, <4>2, <4>3
    <3>5. CASE pos = rp + n - 1
      <4>1. ~InList(x)'
        BY <2>1, <2>5, <3>3, <3>5, <1>3, <1>4
      <4>2. ~InStack(x)'
        <5>1. \A i \in 1..(n - 1) : rp + i - 1 # pos
          BY <1>3, <1>4, <3>5
        <5> QED
          BY <1>12, <2>2, <3>3, <5>1
      <4>3. x = b
        BY <1>10, <3>1, <3>5
      <4> QED
        BY <2>3, <4>1, <4>2, <4>3
    <3>6. CASE pos < rp + n - 1
      <4>1. ~InList(x)'
        <5>1. \A p \in (rp + n)..(wp - 1) : p # pos
          BY <1>3, <1>4, <3>2, <3>6
        <5> QED
          BY <2>1, <2>5, <3>3, <5>1
      <4>2. InStack(x)'
        <5>1. pos - rp + 1 \in 1..(n - 1) /\ rp + (pos - rp + 1) - 1 = pos
          BY <1>3, <1>4, <3>1, <3>2, <3>6
        <5> QED
          BY <2>2, <3>1, <5>1
      <4>3. x # b
        <5>1. rp + n - 1 # pos
          BY <1>3, <1>4, <3>2, <3>6
        <5> QED
          BY <1>10, <1>13, <3>3, <5>1
      <4> QED
        BY <2>3, <3>2, <4>1, <4>2, <4>3
    <3> QED
      BY <1>3, <1>4, <3>2, <3>4, <3>5, <3>6
  <2> QED
    BY <2>6, <2>7
<1>16. Len(stack') <= LocalCapacity
  BY <1>4, <1>11
<1>17. held' \subseteq Blocks
  BY <1>2, <1>3, <1>10
<1>18. /\ rp' \in Nat /\ wp' \in Nat /\ rp' <= wp' /\ slots' \in [Blocks -> Blocks]
       /\ allocs' \in Nat /\ frees' \in Nat /\ allocs' - frees' = NumBlocks - (wp' - rp')
  BY <1>2, <1>3, <1>4
<1>19. \A p, q \in rp'..(wp' - 1) : At(p)' = At(q)' => p = q
  <2>1. \A p \in rp'..(wp' - 1) : p \in rp..(wp - 1)
    BY <1>2, <1>3, <1>4
  <2> QED
    BY <1>3, <1>6, <2>1
<1> QED
  BY <1>2, <1>11, <1>14, <1>15, <1>16, <1>17, <1>18, <1>19, CachedKeeps

(* The n topmost blocks of the stack are put behind the others in the      *)
(* list, and overwrite none: the list has room for them.                   *)
LEMMA GivesBack ==
  ASSUME PoolInv, usage = "cached", NEW n \in 0..Len(stack), GiveBack(n)
  PROVE  /\ usage' = usage /\ UNCHANGED allocVars /\ UNCHANGED freeVars /\ UNCHANGED channel
         /\ rp' \in Nat /\ wp' \in Nat /\ rp' <= wp' /\ slots' \in [Blocks -> Blocks]
         /\ allocs' \in Nat /\ frees' \in Nat /\ allocs' - frees' = NumBlocks - (wp' - rp')
         /\ \A p, q \in rp'..(wp' - 1) : At(p)' = At(q)' => p = q
         /\ \A x : InList(x)' <=> \/ InList(x)
                                  \/ \E i \in (Len(stack) - n + 1)..Len(stack) : stack[i] = x
<1>1. /\ usage' = usage /\ UNCHANGED allocVars /\ UNCHANGED freeVars /\ UNCHANGED channel
      /\ rp' = rp /\ wp' = wp + n /\ allocs' = allocs /\ frees' = frees + n
      /\ slots' = Flushed(n)
  BY DEF GiveBack
<1>2. /\ rp \in Nat /\ wp \in Nat /\ rp <= wp /\ NumBlocks \in Nat \ {0}
      /\ allocs \in Nat /\ frees \in Nat /\ allocs - frees = NumBlocks - (wp - rp)
      /\ stack \in Seq(Blocks) /\ Len(stack) \in Nat /\ DOMAIN stack = 1..Len(stack)
      /\ slots \in [Blocks -> Blocks]
      /\ \A p, q \in rp..(wp - 1) : At(p) = At(q) => p = q
      /\ \A i, j \in 1..Len(stack) : stack[i] = stack[j] => i = j
  BY CachedPlaces
<1>3. PICK c \in Nat \ {0}, m \in Nat : c = NumBlocks /\ m = Len(stack)
  BY <1>2
<1>4. n \in Nat /\ n <= m /\ wp - rp + m <= c
  BY <1>2, <1>3, StackHasRoom
<1>5. NumBlocks' = c /\ Blocks' = Blocks /\ Blocks = 0..(c - 1)
  BY <1>1, <1>3, SameBlocks DEF Blocks
<1>6. slots' = [i \in Blocks |-> IF (i - wp) % c < n THEN stack[m - ((i - wp) % c)] ELSE slots[i]]
  BY <1>1, <1>3 DEF Flushed
<1>7. ASSUME NEW i \in Blocks, (i - wp) % c < n
      PROVE  m - ((i - wp) % c) \in 1..m
  <2>1. i - wp \in Int
    BY <1>2, <1>5
  <2>2. (i - wp) % c \in 0..(c - 1)
    BY <2>1, DivMod
  <2> QED
    BY <1>4, <1>7, <2>2
<1>8. slots' \in [Blocks -> Blocks]
  <2>1. \A i \in 1..m : stack[i] \in Blocks
    BY <1>2, <1>3
  <2> QED
    BY <1>2, <1>6, <1>7, <2>1
<1>9. ASSUME NEW pos \in rp..(wp - 1)
      PROVE  At(pos)' = At(pos)
  <2>1. pos \in Nat /\ pos < wp /\ wp - pos <= c
    BY <1>2, <1>4
  <2>2. ((pos % c) - wp) % c = c - (wp - pos)
    BY <1>2, <2>1, ModDistanceBehind
  <2>3. ~(((pos % c) - wp) % c < n)
    BY <1>2, <1>4, <2>1, <2>2
  <2>4. pos % c \in Blocks
    BY <1>3, <2>1, AtBlock DEF PoolInv
  <2>5. slots'[pos % c] = slots[pos % c]
    BY <1>6, <2>3, <2>4
  <2> QED
    BY <1>3, <1>5, <2>5 DEF At
<1>10. ASSUME NEW k \in 0..(n - 1)
       PROVE  slots'[(wp + k) % c] = stack[m - k]
  <2>1. k \in 0..(c - 1) /\ wp + k \in Nat
    BY <1>2, <1>4
  <2>2. (((wp + k) % c) - wp) % c = k
    BY <1>2, <2>1, ModDistance
  <2>3. (wp + k) % c \in Blocks
    BY <1>3, <2>1, AtBlock DEF PoolInv
  <2>4. k < n
    BY <1>4
  <2> QED
    BY <1>6, <2>2, <2>3, <2>4
<1>11. ASSUME NEW pos \in rp..(wp + n - 1)
       PROVE  \/ pos \in rp..(wp - 1) /\ At(pos)' = At(pos)
              \/ /\ ~(pos < wp) /\ pos - wp \in 0..(n - 1)
                 /\ m - (pos - wp) \in 1..m /\ m - (pos - wp) >= m - n + 1
                 /\ At(pos)' = stack[m - (pos - wp)]
  <2>1. CASE pos < wp
    <3>1. pos \in rp..(wp - 1)
      BY <1>2, <2>1
    <3> QED
      BY <1>9, <3>1
  <2>2. CASE ~(pos < wp)
    <3>1. /\ pos - wp \in 0..(n - 1) /\ wp + (pos - wp) = pos
          /\ m - (pos - wp) \in 1..m /\ m - (pos - wp) >= m - n + 1
      BY <1>2, <1>4, <2>2
    <3>2. slots'[(wp + (pos - wp)) % c] = stack[m - (pos - wp)]
      BY <1>10, <3>1
    <3>3. At(pos)' = stack[m - (pos - wp)]
      BY <1>5, <3>1, <3>2 DEF At
    <3> QED
      BY <2>2, <3>1, <3>3
  <2> QED
    BY <2>1, <2>2
<1>12. ASSUME NEW pos \in rp..(wp - 1), NEW i \in 1..m
       PROVE  At(pos) # stack[i]
  <2>1. stack[i] \in Blocks /\ InStack(stack[i])
    BY <1>2, <1>3 DEF InStack
  <2>2. ~InList(stack[i])
    BY <2>1 DEF PoolInv, Partition, IsAt
  <2> QED
    BY <2>2 DEF InList
<1>13. ASSUME NEW p \in rp..(wp + n - 1), NEW q \in rp..(wp + n - 1), At(p)' = At(q)'
       PROVE  p = q
  <2>1. p \in Int /\ q \in Int
    BY <1>2, <1>4
  <2>2. CASE p < wp /\ q < wp
    BY <1>2, <1>11, <1>13, <2>2
  <2>3. CASE ~(p < wp) /\ ~(q < wp)
    <3>1. /\ m - (p - wp) \in 1..m /\ m - (q - wp) \in 1..m
          /\ stack[m - (p - wp)] = stack[m - (q - wp)]
      BY <1>2, <1>11, <1>13, <2>3
    <3>2. m - (p - wp) = m - (q - wp)
      BY <1>2, <1>3, <3>1
    <3> QED
      BY <1>2, <2>1, <3>2
  <2>4. CASE p < wp /\ ~(q < wp)
    BY <1>2, <1>11, <1>12, <1>13, <2>4
  <2>5. CASE ~(p < wp) /\ q < wp
    BY <1>2, <1>11, <1>12, <1>13, <2>5
  <2> QED
    BY <2>2, <2>3, <2>4, <2>5
<1>14. PICK new : new = rp..(wp + n - 1) /\ new = rp'..(wp' - 1)
  <2>1. wp + n - 1 = wp' - 1 /\ rp = rp'
    BY <1>1, <1>2, <1>4
  <2> QED
    BY <2>1, Zenon
<1>15. ASSUME NEW x
       PROVE  InList(x)' <=> \/ InList(x)
                             \/ \E i \in (m - n + 1)..m : stack[i] = x
  <2>1. InList(x)' <=> \E pos \in rp..(wp + n - 1) : At(pos)' = x
    <3>1. InList(x)' <=> \E pos \in rp'..(wp' - 1) : At(pos)' = x
      BY DEF InList
    <3> QED
      BY <1>14, <3>1, Zenon
  <2>2. ASSUME InList(x)' PROVE InList(x) \/ \E i \in (m - n + 1)..m : stack[i] = x
    <3>1. PICK pos \in rp..(wp + n - 1) : At(pos)' = x
      BY <2>1, <2>2
    <3>2. CASE pos \in rp..(wp - 1) /\ At(pos)' = At(pos)
      BY <3>1, <3>2 DEF InList
    <3>3. CASE /\ m - (pos - wp) \in 1..m /\ m - (pos - wp) >= m - n + 1
               /\ At(pos)' = stack[m - (pos - wp)]
      <4>1. m - (pos - wp) \in (m - n + 1)..m
        BY <1>4, <3>3
      <4> QED
        BY <3>1, <3>3, <4>1
    <3> QED
      BY <1>11, <3>2, <3>3
  <2>3. ASSUME InList(x) PROVE InList(x)'
    <3>1. PICK pos \in rp..(wp - 1) : At(pos) = x
      BY <2>3 DEF InList
    <3>2. pos \in rp..(wp + n - 1)
      BY <1>2, <1>4
    <3> QED
      BY <1>9, <2>1, <3>1, <3>2
  <2>4. ASSUME NEW i \in (m - n + 1)..m, stack[i] = x PROVE InList(x)'
    <3>1. m - i \in 0..(n - 1) /\ m - (m - i) = i /\ wp + (m - i) \in rp..(wp + n - 1)
      BY <1>2, <1>4
    <3>2. PICK pos \in rp..(wp + n - 1) : pos = wp + (m - i)
      BY <3>1
    <3>3. slots'[(wp + (m - i)) % c] = x
      BY <1>10, <2>4, <3>1
    <3>4. At(pos)' = x
      BY <1>5, <3>2, <3>3 DEF At
    <3> QED
      BY <2>1, <3>4
  <2> QED
    BY <2>2, <2>3, <2>4
<1>16. /\ rp' \in Nat /\ wp' \in Nat /\ rp' <= wp' /\ allocs' \in Nat /\ frees' \in Nat
       /\ allocs' - frees' = NumBlocks - (wp' - rp')
  BY <1>1, <1>2, <1>4
<1>17. \A p, q \in rp'..(wp' - 1) : At(p)' = At(q)' => p = q
  <2>1. ASSUME NEW p \in new, NEW q \in new, At(p)' = At(q)' PROVE p = q
    BY <1>13, <1>14, <2>1
  <2> QED
    BY <1>14, <2>1
<1> QED
  BY <1>1, <1>3, <1>8, <1>15, <1>16, <1>17

(* free() with a full stack: a batch goes back to the list, and the block  *)
(* is put on top of the rest.                                              *)
LEMMA FlushMoves ==
  ASSUME PoolInv, NEW b, CacheFlush(b)
  PROVE  PoolInv'
<1>1. /\ BatchSize \in Nat \ {0} /\ LocalCapacity \in Nat /\ 2 * BatchSize <= LocalCapacity
  BY PoolSizes
<1>2. PICK n \in Nat, m \in Nat : n = BatchSize /\ m = Len(stack) /\ m = LocalCapacity
  BY <1>1 DEF CacheFlush
<1>3. /\ usage = "cached" /\ b \in held /\ held' = held \ {b} /\ GiveBack(n)
      /\ stack' = Append(SubSeq(stack, 1, m - n), b)
  BY <1>2 DEF CacheFlush
<1>4. n >= 1 /\ n \in 0..Len(stack) /\ m - n \in 0..Len(stack)
  BY <1>1, <1>2
<1>5. /\ stack \in Seq(Blocks) /\ DOMAIN stack = 1..m
      /\ \A i, j \in 1..m : stack[i] = stack[j] => i = j
      /\ held \subseteq Blocks /\ b \in Blocks
  BY <1>2, <1>3, CachedPlaces
<1>6. PICK rest \in Seq(Blocks) :
        /\ rest = SubSeq(stack, 1, m - n) /\ Len(rest) = m - n
        /\ \A i \in 1..(m - n) : rest[i] = stack[i]
  <2>1. /\ SubSeq(stack, 1, m - n) \in Seq(Blocks) /\ Len(SubSeq(stack, 1, m - n)) = m - n
        /\ \A i \in 1..(m - n) : SubSeq(stack, 1, m - n)[i] = stack[i]
    BY <1>4, <1>5, Prefix
  <2> QED
    BY <2>1, Zenon
<1>7. PICK k \in Nat : k = m - n
  BY <1>2, <1>4
<1>8. /\ stack' \in Seq(Blocks) /\ Len(stack') = k + 1 /\ DOMAIN stack' = 1..(k + 1)
      /\ \A i \in 1..k : stack'[i] = stack[i]
      /\ stack'[k + 1] = b
  <2>1. /\ Append(rest, b) \in Seq(Blocks) /\ Len(Append(rest, b)) = Len(rest) + 1
        /\ DOMAIN Append(rest, b) = 1..(Len(rest) + 1)
        /\ \A i \in 1..Len(rest) : Append(rest, b)[i] = rest[i]
        /\ Append(rest, b)[Len(rest) + 1] = b
    BY <1>5, OnTop
  <2>2. stack' = Append(rest, b) /\ Len(rest) = k /\ \A i \in 1..k : rest[i] = stack[i]
    BY <1>3, <1>6, <1>7
  <2> QED
    BY <2>1, <2>2
<1>9. /\ \A i : i \in 1..(k + 1) <=> i \in 1..k \/ i = k + 1
      /\ \A i : i \in 1..m <=> i \in 1..k \/ i \in (m - n + 1)..m
      /\ \A i : ~(i \in 1..k /\ i \in (m - n + 1)..m)
  BY <1>2, <1>4, <1>7
<1>10. \A x : InStack(x)' <=> x = b \/ \E i \in 1..k : stack[i] = x
  BY <1>8, <1>9 DEF InStack
<1>11. \A x : InStack(x) <=> \/ \E i \in 1..k : stack[i] = x
                             \/ \E i \in (m - n + 1)..m : stack[i] = x
  BY <1>5, <1>9 DEF InStack
<1>12. \A x : InList(x)' <=> InList(x) \/ \E i \in (m - n + 1)..m : stack[i] = x
  BY <1>2, <1>3, <1>4, GivesBack
<1>13. ~InStack(b) /\ ~InList(b)
  BY <1>3, <1>5, CachedPlaces
<1>14. \A i, j \in DOMAIN stack' : stack'[i] = stack'[j] => i = j
  <2>1. \A i \in 1..k : stack[i] # b
    BY <1>11, <1>13
  <2> QED
    BY <1>5, <1>8, <1>9, <2>1
<1>15. ASSUME NEW x \in Blocks
       PROVE  \E place \in {"list", "stack", "held"} :
              /\ InList(x)' <=> place = "list"
              /\ InStack(x)' <=> place = "stack"
              /\ x \in held' <=> place = "held"
  <2>1. PICK place \in {"list", "stack", "held"} :
              /\ InList(x) <=> place = "list"
              /\ InStack(x) <=> place = "stack"
              /\ x \in held <=> place = "held"
    BY <1>3, CachedPlaces
  <2>2. CASE x = b
    <3>1. ~InList(x)' /\ InStack(x)' /\ x \notin held'
      BY <1>3, <1>10, <1>11, <1>12, <1>13, <2>2
    <3> QED
      BY <3>1
  <2>3. CASE x # b /\ ~InStack(x)
    <3>1. (InList(x)' <=> InList(x)) /\ ~InStack(x)' /\ (x \in held' <=> x \in held)
      BY <1>3, <1>10, <1>11, <1>12, <2>3
    <3> QED
      BY <2>1, <2>3, <3>1
  <2>4. CASE x # b /\ InStack(x)
    <3>1. x \notin held' /\ ~InList(x)
      BY <1>3, <2>1, <2>4
    <3>2. InStack(x)' <=> ~(\E i \in (m - n + 1)..m : stack[i] = x)
      BY <1>5, <1>9, <1>10, <1>11, <2>4
    <3>3. InStack(x)' <=> ~InList(x)'
      BY <1>12, <3>1, <3>2
    <3> QED
      BY <3>1, <3>3
  <2> QED
    BY <2>2, <2>3, <2>4
<1>16. Len(stack') <= LocalCapacity
  BY <1>2, <1>4, <1>7, <1>8
<1>17. held' \subseteq Blocks
  BY <1>3, <1>5
<1>18. /\ usage' = usage /\ UNCHANGED allocVars /\ UNCHANGED freeVars /\ UNCHANGED channel
       /\ rp' \in Nat /\ wp' \in Nat /\ rp' <= wp' /\ slots' \in [Blocks -> Blocks]
       /\ allocs' \in Nat /\ frees' \in Nat /\ allocs' - frees' = NumBlocks - (wp' - rp')
       /\ \A p, q \in rp'..(wp' - 1) : At(p)' = At(q)' => p = q
  BY <1>3, <1>4, GivesBack
<1> QED
  BY <1>3, <1>8, <1>14, <1>15, <1>16, <1>17, <1>18, CachedKeeps

(* flush_all() puts the whole stack back.                                  *)
LEMMA FlushAllMoves ==
  ASSUME PoolInv, flush_all
  PROVE  PoolInv'
<1>1. PICK m : m = Len(stack)
  OBVIOUS
<1>2. usage = "cached" /\ held' = held /\ GiveBack(m) /\ stack' = <<>>
  BY <1>1 DEF flush_all
<1>3. /\ m \in Nat /\ m \in 0..Len(stack) /\ m - m + 1 = 1 /\ DOMAIN stack = 1..m
      /\ held \subseteq Blocks
  BY <1>1, <1>2, CachedPlaces
<1>4. \A x : InList(x)' <=> InList(x) \/ \E i \in (Len(stack) - m + 1)..Len(stack) : stack[i] = x
  BY <1>2, <1>3, GivesBack
<1>5. \A x : InList(x)' <=> InList(x) \/ InStack(x)
  BY <1>1, <1>3, <1>4 DEF InStack
<1>6. \A x : ~InStack(x)'
  BY <1>2 DEF InStack
<1>7. ASSUME NEW x \in Blocks
      PROVE  \E place \in {"list", "stack", "held"} :
              /\ InList(x)' <=> place = "list"
              /\ InStack(x)' <=> place = "stack"
              /\ x \in held' <=> place = "held"
  <2>1. InList(x)' <=> x \notin held'
    BY <1>2, <1>5, CachedPlaces
  <2> QED
    BY <1>6, <2>1
<1>8. /\ usage' = usage /\ UNCHANGED allocVars /\ UNCHANGED freeVars /\ UNCHANGED channel
      /\ rp' \in Nat /\ wp' \in Nat /\ rp' <= wp' /\ slots' \in [Blocks -> Blocks]
      /\ allocs' \in Nat /\ frees' \in Nat /\ allocs' - frees' = NumBlocks - (wp' - rp')
      /\ \A p, q \in rp'..(wp' - 1) : At(p)' = At(q)' => p = q
  BY <1>2, <1>3, GivesBack
<1>9. /\ stack' \in Seq(Blocks) /\ Len(stack') <= LocalCapacity /\ held' \subseteq Blocks
      /\ \A i, j \in DOMAIN stack' : stack'[i] = stack'[j] => i = j
  <2>1. LocalCapacity \in Nat
    BY PoolSizes
  <2> QED
    BY <1>2, <1>3, <2>1
<1> QED
  BY <1>2, <1>7, <1>8, <1>9, CachedKeeps

-----------------------------------------------------------------------------
(***************************************************************************)
(* The theorems.                                                           *)
(***************************************************************************)

(* Every step of either thread, and every call on the cache, keeps the     *)
(* invariant.                                                              *)
LEMMA NextPool == PoolInv /\ [Next]_vars => PoolInv'
<1> SUFFICES ASSUME PoolInv, [Next]_vars PROVE PoolInv'
  OBVIOUS
<1>1. CASE (\E seen \in a_seen..wp : AllocCheck(seen)) \/ AllocRead
  BY <1>1, AllocLooks
<1>2. CASE AllocRelease
  BY <1>2, AllocTakes
<1>3. CASE AllocCount
  BY <1>3, AllocReturns
<1>4. CASE \E b \in held : Send(b)
  BY <1>4, SendMoves
<1>5. CASE \E c \in channel : FreeCall(c)
  BY <1>5, FreeReceives
<1>6. CASE \E seen \in f_seen..rp : FreeCheck(seen)
  BY <1>6, FreeSucceeds
<1>7. CASE FreeWrite
  BY <1>7, FreeWrites
<1>8. CASE FreePublish
  BY <1>8, FreePublishes
<1>9. CASE FreeCount
  BY <1>9, FreeReturns
<1>10. CASE CacheHit
  BY <1>10, HitMoves
<1>11. CASE CacheMiss
  BY <1>11, MissMoves
<1>12. CASE \E b \in FreedNext : CacheFree(b) \/ CacheFlush(b)
  BY <1>12, CacheFreeMoves, FlushMoves
<1>13. CASE flush_all
  BY <1>13, FlushAllMoves
<1>14. CASE UNCHANGED vars
  <2>1. /\ UNCHANGED <<usage, listVars>> /\ UNCHANGED <<allocs, frees>>
        /\ apc' = apc /\ a_block' = a_block /\ a_seen' = a_seen
        /\ fpc' = fpc /\ f_block' = f_block /\ f_seen' = f_seen
        /\ held' = held /\ channel' = channel /\ stack' = stack
    BY <1>14 DEF vars, allocVars, freeVars
  <2>2. /\ usage' = usage /\ wp' = wp /\ rp' = rp /\ slots' = slots
        /\ allocs' = allocs /\ frees' = frees
    BY <2>1 DEF listVars
  <2> QED
    BY <2>1, <2>2 DEF PoolInv, TypeOK, Partition, IsAt, InList, InStack, InChannel, InAlloc,
       NoDuplicates, Freshness, Threads, Counters, Oldest, At, Overflow, Blocks, NumBlocks
<1> QED
  BY <1>1, <1>2, <1>3, <1>4, <1>5, <1>6, <1>7, <1>8, <1>9, <1>10, <1>11, <1>12, <1>13, <1>14
  DEF Next

(* The inductive invariant holds in every reachable state.                 *)
THEOREM BlocksInvariant == Spec => []PoolInv
<1> QED
  BY InitPool, NextPool, PTL DEF Spec

(* A set of which all members are equal counts one or none.                *)
LEMMA CountOne ==
  ASSUME NEW S, \A x, y \in S : x = y
  PROVE  Cardinality(S) = IF S = {} THEN 0 ELSE 1
<1>1. CASE S = {}
  BY <1>1, FS_EmptySet
<1>2. CASE S # {}
  <2>1. PICK x : S = {x}
    BY <1>2
  <2> QED
    BY <1>2, <2>1, FS_Singleton
<1> QED
  BY <1>1, <1>2

(* The invariant puts a block into exactly one place.                      *)
LEMMA OneOfAll ==
  ASSUME PoolInv
  PROVE  OnePlace
<1> SUFFICES ASSUME NEW b \in Blocks PROVE Places(b) = 1
  BY DEF OnePlace
<1> DEFINE L == {pos \in rp..(wp - 1) : slots[pos % NumBlocks] = b}
           K == {i \in DOMAIN stack : stack[i] = b}
           C == {c \in channel : c.block = b}
<1>1. Cardinality(L) = IF InList(b) THEN 1 ELSE 0
  <2>1. \A p, q \in L : p = q
    BY ListPart DEF At
  <2>2. InList(b) <=> L # {}
    BY DEF InList, At
  <2> HIDE DEF L
  <2> QED
    BY <2>1, <2>2, CountOne
<1>2. Cardinality(K) = IF InStack(b) THEN 1 ELSE 0
  <2>1. \A p, q \in K : p = q
    BY DEF PoolInv, NoDuplicates
  <2>2. InStack(b) <=> K # {}
    BY DEF InStack
  <2> HIDE DEF K
  <2> QED
    BY <2>1, <2>2, CountOne
<1>3. Cardinality(C) = IF InChannel(b) THEN 1 ELSE 0
  <2>1. \A p, q \in C : p = q
    BY DEF PoolInv, NoDuplicates
  <2>2. InChannel(b) <=> C # {}
    BY DEF InChannel
  <2> HIDE DEF C
  <2> QED
    BY <2>1, <2>2, CountOne
<1>4. PICK place \in Place : IsAt(b, place)
  BY DEF PoolInv, Partition
<1>5. Places(b) = Cardinality(L) + Cardinality(K) + Cardinality(C)
                    + (IF b \in held THEN 1 ELSE 0)
                    + (IF InAlloc(b) THEN 1 ELSE 0)
                    + (IF f_block = b THEN 1 ELSE 0)
  BY DEF Places, InAlloc
<1> HIDE DEF L, K, C
<1> QED
  BY <1>1, <1>2, <1>3, <1>4, <1>5 DEF IsAt, Place

(* For any number of blocks and any cache, every variable has its type,    *)
(* the cache's stack does not overflow and every block is in exactly one   *)
(* place: none is lost and none is handed out twice.                       *)
THEOREM BlocksHaveOnePlace == Spec => []Inv
<1>1. PoolInv => Inv
  BY OneOfAll DEF Inv, PoolInv
<1> QED
  BY <1>1, BlocksInvariant, PTL

(* The assertion of free() holds, whichever value of rp_ its load returns. *)
THEOREM FreeAlwaysFits == Spec => []FreeNeverFails
<1>1. PoolInv => FreeNeverFails
  <2> SUFFICES ASSUME PoolInv, fpc = "check" PROVE ~Overflow(wp, f_seen)
    BY DEF FreeNeverFails
  <2>1. f_block # NoBlock
    BY DEF PoolInv, Threads
  <2>2. wp - f_seen < NumBlocks /\ NumBlocks \in Nat /\ wp \in Nat /\ f_seen \in Nat
    BY <2>1, FreeHasRoom, NumBlocksNat DEF PoolInv, TypeOK
  <2> QED
    BY <2>2 DEF Overflow
<1> QED
  BY <1>1, BlocksInvariant, PTL

(* The counters agree with the list, and frees is never ahead of allocs.   *)
THEOREM CountersAgree == Spec => []CountersExact
<1>1. PoolInv => CountersExact
  <2> SUFFICES ASSUME PoolInv PROVE CountersExact
    OBVIOUS
  <2>1. /\ wp \in Nat /\ rp \in Nat /\ allocs \in Nat /\ frees \in Nat /\ NumBlocks \in Nat
        /\ Len(stack) \in Nat
    BY NumBlocksNat DEF PoolInv, TypeOK
  <2>2. wp - rp <= NumBlocks
    BY <2>1, StackHasRoom
  <2>3. apc = "count" => wp - rp < NumBlocks
    BY AllocLeavesRoom
  <2>4. Counters
    BY DEF PoolInv
  <2> QED
    BY <2>1, <2>2, <2>3, <2>4 DEF Counters, CountersExact
<1> QED
  BY <1>1, BlocksInvariant, PTL

=============================================================================
