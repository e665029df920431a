------------------------------- MODULE Sizes -------------------------------
(***************************************************************************)
(* The size arithmetic of memory_pool.hpp and the layout of the bus's      *)
(* segment (spsc_bus.hpp), with the code's bit operations on words of Bits *)
(* bits in the place of 64 and 32, and definitions to compare them with.   *)
(* For TLC only: the bit operators are recursive.                          *)
(***************************************************************************)
EXTENDS Integers, Bitwise

Bits == 12
Word == 2^Bits
kCacheLine == 64
HeaderBytes == 8                     \* sizeof(SlotHeader)
ControlBytes == 4 * kCacheLine       \* sizeof(ControlBlock)

Powers == {2^i : i \in 0..(Bits - 1)}

-----------------------------------------------------------------------------
(* Mutant: a whole line is added to a multiple of the line.                *)
align_up_next(n, a) == ((n + a) % Word) & (Word - a)

align_up(n, a) == ((n + a - 1) % Word) & (Word - a)

Smear(n, k) == n | (n \div 2^k)

(* The shifts by 1, 2, 4 and 8 fill a word of up to 16 bits.               *)
next_pow2(n) ==
  IF n <= 1 THEN 1 ELSE (Smear(Smear(Smear(Smear(n - 1, 1), 2), 4), 8) + 1) % Word

(* The bounds of the if-chain, and the table of block sizes.               *)
ClassLimits == <<64, 128, 256, 512, 1024, 2048, 4096, 8192>>
kSizeClassBytes == [i \in 0..7 |-> 64 * 2^i]

size_to_class(n) ==
  IF n > ClassLimits[8] THEN -1
  ELSE (CHOOSE i \in 1..8 : n <= ClassLimits[i] /\ \A j \in 1..(i - 1) : n > ClassLimits[j]) - 1

(* MemoryPool's constructor.                                               *)
BlockSize(n) == align_up(IF n < kCacheLine THEN kCacheLine ELSE n, kCacheLine)
BlockCount(n) == next_pow2(IF n < 2 THEN 2 ELSE n)

(* SlabPool::alloc: the size of the block the caller gets, 0 for none.     *)
SlabBlock(n) == IF size_to_class(n) < 0 THEN 0 ELSE kSizeClassBytes[size_to_class(n)]

(* The layout of the segment; create() keeps the stride in 32 bits.        *)
compute_slot_stride(max) == (HeaderBytes + max + kCacheLine - 1) & (2 * Word - kCacheLine)
compute_shm_size(capacity, max) == ControlBytes + capacity * compute_slot_stride(max)
SlotOffset(capacity, max, pos) ==
  ControlBytes + ((pos % Word) & (capacity - 1)) * (compute_slot_stride(max) % Word)

-----------------------------------------------------------------------------
IsLeast(n, S) == n \in S /\ \A m \in S : n <= m

(* The first classes in full, and both sides of every later boundary.      *)
SomeSizes ==
  (0..130) \cup (254..258) \cup (500..520) \cup (1022..1026) \cup (2040..2056)
    \cup {Word - 65, Word - 64}

(* The largest message for which the stride still fits into its field.     *)
MaxMessage == Word - kCacheLine - HeaderBytes

(* align_up and next_pow2 return the least multiple of the line, and the   *)
(* least power of two, that is not below their argument                    *)
(* (memory_pool.hpp:47-62; next_pow2 is 0 when there is none), so that a   *)
(* pool's blocks are whole cache lines and the capacity of its free list   *)
(* is a power of two (:97, :153-156).                                      *)
RoundingRight ==
  \A n \in SomeSizes :
    /\ IsLeast(align_up(n, kCacheLine), {m \in {k * kCacheLine : k \in 0..(Word \div kCacheLine)} : m >= n})
    /\ BlockSize(n) >= n /\ BlockSize(n) >= kCacheLine /\ BlockSize(n) % kCacheLine = 0
    /\ IF n > Word \div 2 THEN next_pow2(n) = 0 ELSE IsLeast(next_pow2(n), {m \in Powers : m >= n})
    /\ n <= Word \div 2 => BlockCount(n) \in Powers \ {1} /\ BlockCount(n) & (BlockCount(n) - 1) = 0

(* SlabPool routes a request to the smallest class that holds it, and to   *)
(* none above the largest (memory_pool.hpp:325-343, :347-350).             *)
RoutingRight ==
  \A n \in SomeSizes \cup (4094..4098) \cup (8190..8194) :
    IF n > 8192 THEN SlabBlock(n) = 0
    ELSE IsLeast(SlabBlock(n), {m \in {kSizeClassBytes[i] : i \in 0..7} : m >= n})

(* The slots of two positions less than a ring apart do not overlap, each  *)
(* begins on a cache line, and the last one ends inside the segment        *)
(* (spsc_bus.hpp:141-159), also for positions beyond 32 bits.              *)
LayoutRight ==
  \A capacity \in {1, 2, 8}, max \in {1, 56, 57, 120, MaxMessage}, pos \in {0, 3, Word - 1, Word} :
    LET Bytes(p) == SlotOffset(capacity, max, p)
        End(p) == Bytes(p) + HeaderBytes + max
    IN \A d \in 0..(capacity - 1) :
         /\ Bytes(pos + d) % kCacheLine = 0
         /\ End(pos + d) <= compute_shm_size(capacity, max)
         /\ d > 0 => End(pos) <= Bytes(pos + d) \/ End(pos + d) <= Bytes(pos)
=============================================================================
