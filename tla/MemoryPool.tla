----------------------------- MODULE MemoryPool -----------------------------
(***************************************************************************)
(* memory_pool.hpp: the fixed-size block allocator MemoryPool over the     *)
(* free list SPSCFreeList, in the two ways its comments describe.          *)
(*                                                                         *)
(*  - "pipeline": one thread allocates, passes the block to another one    *)
(*    through some synchronising channel, and that thread frees it.  Every *)
(*    access to the free list is a step.  (One thread that does both is a  *)
(*    special case.)                                                       *)
(*  - "cached": one thread allocates and frees through a ThreadLocalCache. *)
(*    Nothing runs beside it, so a call is one step.                       *)
(*                                                                         *)
(* An acquire load may return an old value of the other thread's position, *)
(* but not one older than the thread has seen, or has been told of by the  *)
(* channel: a block carries the value of rp_ at the time it was sent.      *)
(*                                                                         *)
(* Callers keep the contract: they free what they allocated, once.  Left   *)
(* out: the backing memory (a block is its number) and alloc_failures,     *)
(* which is only reported.                                                 *)
(***************************************************************************)
EXTENDS Integers, Sequences, FiniteSets, FiniteSetsExt

CONSTANTS
  PipelineBlocks, CacheBlocks,  (* num_blocks_ in the two uses             *)
  LocalCapacity, BatchSize,     (* of the cache                            *)
  MaxAllocs, MaxCacheAllocs     (* bounds: blocks taken off the free list  *)

ASSUME PoolSizes ==
  /\ {PipelineBlocks, CacheBlocks} \subseteq Nat \ {0, 1}
  /\ LocalCapacity \in Nat /\ BatchSize \in Nat \ {0} /\ 2 * BatchSize <= LocalCapacity
  /\ MaxAllocs \in Nat /\ MaxCacheAllocs \in Nat

VARIABLES
  usage,            (* chosen once                                         *)
  wp, rp, slots,    (* SPSCFreeList: wp_, rp_ and slots_                   *)
  allocs, frees,    (* PoolStats                                           *)
  apc, a_block,     (* alloc(): control point, and p                       *)
  a_seen,           (* the latest wp_ the allocating thread has seen       *)
  fpc, f_block,     (* free(p): control point, and p                       *)
  f_seen,           (* the latest rp_ the freeing thread has seen          *)
  held,             (* blocks the allocating thread owns                   *)
  channel,          (* [block, rp]: on their way to the freeing thread     *)
  stack             (* ThreadLocalCache: stack_[0..top_)                   *)

listVars == <<wp, rp, slots>>
allocVars == <<apc, a_block, a_seen>>
freeVars == <<fpc, f_block, f_seen>>
vars == <<usage, listVars, allocs, frees, allocVars, freeVars, held, channel, stack>>

NumBlocks == IF usage = "pipeline" THEN PipelineBlocks ELSE CacheBlocks
Blocks == 0..(NumBlocks - 1)
NoBlock == -1

(* Mutant: a ring that always keeps one slot empty.                        *)
OverflowKeepsOne(w, r) == w - r >= NumBlocks - 1

(* push() returns false: the list was made for exactly num_blocks_ blocks. *)
Overflow(w, r) == w - r >= NumBlocks

(* The constructor has put every block into the list.                      *)
Init ==
  /\ usage \in {"pipeline", "cached"}
  /\ wp = NumBlocks /\ rp = 0 /\ slots = [i \in Blocks |-> i]
  /\ allocs = 0 /\ frees = 0
  /\ apc = "idle" /\ a_block = NoBlock /\ a_seen = NumBlocks
  /\ fpc = "idle" /\ f_block = NoBlock /\ f_seen = 0
  /\ held = {} /\ channel = {} /\ stack = <<>>

-----------------------------------------------------------------------------
(***************************************************************************)
(* MemoryPool::alloc() on the allocating thread.                           *)
(***************************************************************************)

(* An empty list makes alloc() return nullptr.                             *)
AllocCheck(seen) ==
  /\ usage = "pipeline"
  /\ apc = "idle"
  /\ rp < MaxAllocs
  /\ a_seen' = seen
  /\ apc' = IF rp = seen THEN "idle" ELSE "read"
  /\ UNCHANGED <<usage, listVars, allocs, frees, a_block, freeVars, held, channel, stack>>

AllocRead ==
  /\ apc = "read"
  /\ apc' = "release"
  /\ a_block' = slots[rp % NumBlocks]
  /\ UNCHANGED <<usage, listVars, allocs, frees, a_seen, freeVars, held, channel, stack>>

AllocRelease ==
  /\ apc = "release"
  /\ apc' = "count"
  /\ rp' = rp + 1
  /\ UNCHANGED <<usage, wp, slots, allocs, frees, a_block, a_seen, freeVars, held, channel, stack>>

(* The counter, and alloc() returns the block.                             *)
AllocCount ==
  /\ apc = "count"
  /\ apc' = "idle"
  /\ allocs' = allocs + 1
  /\ held' = held \cup {a_block}
  /\ a_block' = NoBlock
  /\ UNCHANGED <<usage, listVars, frees, a_seen, freeVars, channel, stack>>

(* The application passes a block on.                                      *)
Send(b) ==
  /\ usage = "pipeline"
  /\ apc = "idle"
  /\ b \in held
  /\ held' = held \ {b}
  /\ channel' = channel \cup {[block |-> b, rp |-> rp]}
  /\ UNCHANGED <<usage, listVars, allocs, frees, allocVars, freeVars, stack>>

-----------------------------------------------------------------------------
(***************************************************************************)
(* MemoryPool::free(p) on the freeing thread.                              *)
(***************************************************************************)

(* The application receives a block and frees it.                          *)
FreeCall(c) ==
  /\ fpc = "idle"
  /\ c \in channel
  /\ channel' = channel \ {c}
  /\ fpc' = "check"
  /\ f_block' = c.block
  /\ f_seen' = IF c.rp > f_seen THEN c.rp ELSE f_seen
  /\ UNCHANGED <<usage, listVars, allocs, frees, allocVars, held, stack>>

(* If push() fails the block is dropped (with assertions: the program      *)
(* stops).                                                                 *)
FreeCheck(seen) ==
  /\ fpc = "check"
  /\ f_seen' = seen
  /\ fpc' = IF Overflow(wp, seen) THEN "count" ELSE "write"
  /\ f_block' = IF Overflow(wp, seen) THEN NoBlock ELSE f_block
  /\ UNCHANGED <<usage, listVars, allocs, frees, allocVars, held, channel, stack>>

FreeWrite ==
  /\ fpc = "write"
  /\ fpc' = "publish"
  /\ slots' = [slots EXCEPT ![wp % NumBlocks] = f_block]
  /\ UNCHANGED <<usage, wp, rp, allocs, frees, allocVars, f_block, f_seen, held, channel, stack>>

FreePublish ==
  /\ fpc = "publish"
  /\ fpc' = "count"
  /\ wp' = wp + 1
  /\ f_block' = NoBlock
  /\ UNCHANGED <<usage, rp, slots, allocs, frees, allocVars, f_seen, held, channel, stack>>

FreeCount ==
  /\ fpc = "count"
  /\ fpc' = "idle"
  /\ frees' = frees + 1
  /\ UNCHANGED <<usage, listVars, allocs, allocVars, f_block, f_seen, held, channel, stack>>

-----------------------------------------------------------------------------
(***************************************************************************)
(* ThreadLocalCache: calls of one thread, with the calls of pool_.alloc()  *)
(* and pool_.free() they make.                                             *)
(***************************************************************************)
Last(s) == s[Len(s)]
Front(s) == SubSeq(s, 1, Len(s) - 1)

(* n blocks from the pool onto the stack, oldest first.                    *)
Refilled(n) == stack \o [i \in 1..n |-> slots[(rp + i - 1) % NumBlocks]]

(* The list after pool_.free() of the n topmost blocks, the top first.     *)
Flushed(n) ==
  [i \in Blocks |->
     LET k == (i - wp) % NumBlocks IN IF k < n THEN stack[Len(stack) - k] ELSE slots[i]]

(* alloc() with a block on the stack.                                      *)
CacheHit ==
  /\ usage = "cached"
  /\ stack # <<>>
  /\ stack' = Front(stack)
  /\ held' = held \cup {Last(stack)}
  /\ UNCHANGED <<usage, listVars, allocs, frees, allocVars, freeVars, channel>>

(* Mutant: the end of the pool is not noticed.                             *)
RefillBlindly == BatchSize

(* The loop ends early when the pool is exhausted.                         *)
RefillSize == IF wp - rp < BatchSize THEN wp - rp ELSE BatchSize

(* alloc() with an empty stack: a batch from the pool, nullptr if it has   *)
(* none.                                                                   *)
CacheMiss ==
  /\ usage = "cached"
  /\ stack = <<>>
  /\ RefillSize > 0
  /\ rp + RefillSize <= MaxCacheAllocs
  /\ rp' = rp + RefillSize
  /\ allocs' = allocs + RefillSize
  /\ stack' = Front(Refilled(RefillSize))
  /\ held' = held \cup {Last(Refilled(RefillSize))}
  /\ UNCHANGED <<usage, wp, slots, frees, allocVars, freeVars, channel>>

CacheFree(b) ==
  /\ usage = "cached"
  /\ b \in held
  /\ Len(stack) < LocalCapacity
  /\ held' = held \ {b}
  /\ stack' = Append(stack, b)
  /\ UNCHANGED <<usage, listVars, allocs, frees, allocVars, freeVars, channel>>

(* Mutant: a batch is counted as one block.                                *)
GiveBackCountsOne(n) ==
  /\ wp' = wp + n
  /\ slots' = Flushed(n)
  /\ frees' = frees + (IF n = 0 THEN 0 ELSE 1)
  /\ UNCHANGED <<usage, rp, allocs, allocVars, freeVars, channel>>

(* The n topmost blocks go back to the pool.                               *)
GiveBack(n) ==
  /\ wp' = wp + n
  /\ slots' = Flushed(n)
  /\ frees' = frees + n
  /\ UNCHANGED <<usage, rp, allocs, allocVars, freeVars, channel>>

(* free() with a full stack: room is made by a batch.                      *)
CacheFlush(b) ==
  /\ usage = "cached"
  /\ b \in held
  /\ Len(stack) = LocalCapacity
  /\ GiveBack(BatchSize)
  /\ held' = held \ {b}
  /\ stack' = Append(SubSeq(stack, 1, Len(stack) - BatchSize), b)

(* flush_all(), also called by the destructor.                             *)
flush_all ==
  /\ usage = "cached"
  /\ GiveBack(Len(stack))
  /\ stack' = <<>>
  /\ UNCHANGED held

-----------------------------------------------------------------------------
(* Bound: of the blocks it holds, the cached application frees the one     *)
(* with the lowest number.  The cache never looks at the number.           *)
FreedNext == IF held = {} THEN {} ELSE {Min(held)}

Next ==
  \/ \E seen \in a_seen..wp : AllocCheck(seen)
  \/ AllocRead \/ AllocRelease \/ AllocCount
  \/ \E b \in held : Send(b)
  \/ \E c \in channel : FreeCall(c)
  \/ \E seen \in f_seen..rp : FreeCheck(seen)
  \/ FreeWrite \/ FreePublish \/ FreeCount
  \/ CacheHit \/ CacheMiss
  \/ \E b \in FreedNext : CacheFree(b) \/ CacheFlush(b)
  \/ flush_all

Spec == Init /\ [][Next]_vars

-----------------------------------------------------------------------------
TypeOK ==
  /\ usage \in {"pipeline", "cached"}
  /\ wp \in Nat /\ rp \in Nat /\ slots \in [Blocks -> Blocks]
  /\ allocs \in Nat /\ frees \in Nat
  /\ apc \in {"idle", "read", "release", "count"} /\ a_block \in Blocks \cup {NoBlock}
  /\ a_seen \in Nat
  /\ fpc \in {"idle", "check", "write", "publish", "count"} /\ f_block \in Blocks \cup {NoBlock}
  /\ f_seen \in Nat
  /\ held \subseteq Blocks
  /\ channel \subseteq [block : Blocks, rp : Nat]
  /\ stack \in Seq(Blocks) /\ Len(stack) <= LocalCapacity

(* Every block is in exactly one place at any time: in the free list once, *)
(* in the hands of alloc() or free(), with the application or on the       *)
(* cache's stack.  None is lost, and none is handed out twice although the *)
(* two threads move blocks without a lock (memory_pool.hpp:104-121) and    *)
(* the cache moves them in batches (:280-308).                             *)
Places(b) ==
  Cardinality({pos \in rp..(wp - 1) : slots[pos % NumBlocks] = b})
    + Cardinality({i \in DOMAIN stack : stack[i] = b})
    + Cardinality({c \in channel : c.block = b})
    + (IF b \in held THEN 1 ELSE 0)
    + (IF apc = "count" /\ a_block = b THEN 1 ELSE 0)
    + (IF f_block = b THEN 1 ELSE 0)
OnePlace == \A b \in Blocks : Places(b) = 1

(* Every variable has its type, the cache's stack does not overflow, and   *)
(* every block is in one place.                                            *)
Inv == TypeOK /\ OnePlace

(* free() of an allocated block never finds the list full, whichever value *)
(* of rp_ its load returns: the assertion at memory_pool.hpp:190 holds,    *)
(* because the channel orders it after the release store of alloc().       *)
FreeNeverFails == fpc = "check" => ~Overflow(wp, f_seen)

(* The counters agree with the list up to the calls that are about to      *)
(* count, so that allocs is never behind frees and outstanding()           *)
(* (memory_pool.hpp:79) is the number of blocks outside the list whenever  *)
(* no call is under way.                                                   *)
CountersExact ==
  /\ frees <= allocs
  /\ allocs - frees = NumBlocks - (wp - rp) - (IF apc = "count" THEN 1 ELSE 0)
                                            + (IF fpc = "count" THEN 1 ELSE 0)
=============================================================================
