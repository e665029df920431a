---------------------------- MODULE MCMemoryPool ----------------------------
(***************************************************************************)
(* MemoryPool for TLC, together with the size arithmetic its constructor   *)
(* and SlabPool use.                                                       *)
(***************************************************************************)
EXTENDS MemoryPool, Sizes

(* All of the size arithmetic agrees with its definitions, and the free    *)
(* list's mask (memory_pool.hpp:96, :108, :118) picks the slots that       *)
(* MemoryPool picks by a remainder, also if the application asked for one  *)
(* block less: the constructor rounds up to a power of two.                *)
SizesRight ==
  /\ \A pos \in {rp, wp} :
       pos & (BlockCount(NumBlocks - 1) - 1) = pos % NumBlocks
  /\ RoundingRight /\ RoutingRight /\ LayoutRight
=============================================================================
