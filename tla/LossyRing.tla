----------------------------- MODULE LossyRing -----------------------------
(***************************************************************************)
(* The lossy mode of spsc_bus.hpp: OverwriteProducer::push, which never    *)
(* waits and overwrites the oldest slot of a full ring, against            *)
(* Consumer::try_pop_lossy, which detects overwritten slots with a seqlock *)
(* on SlotHeader.generation.                                               *)
(*                                                                         *)
(* A message is the position it was pushed at; a slot remembers for its    *)
(* size word and for its payload which message wrote them, so that torn    *)
(* reads, losses, duplicates and reorderings show.  Oversized messages are *)
(* rejected before any access and are left out.  The loads of write_pos    *)
(* return its current value (the stale copy is write_cache); the shared    *)
(* read_pos is stored together with Consumer::read_pos_ and read by        *)
(* nobody but the constructors.                                            *)
(*                                                                         *)
(* A crash is a process that dies and attaches again by its constructor.   *)
(***************************************************************************)
EXTENDS Integers

CONSTANTS
  Capacity,    (* slots in the ring                                        *)
  GenModulus,  (* 2^32 in the code: generation is a uint32_t               *)
  MaxPushes,   (* bound: messages pushed in a behaviour                    *)
  MaxCrashes   (* bound: process deaths in a behaviour                     *)

ASSUME LossyAssumption ==
  /\ Capacity \in Nat \ {0}
  /\ GenModulus \in Nat \ {0} /\ GenModulus % 2 = 0
  /\ MaxPushes \in Nat /\ MaxCrashes \in Nat

VARIABLES
  write_pos,              (* ControlBlock                                  *)
  slots,                  (* generation, and who wrote size and payload    *)
  ppc, p_gen, p_todo,     (* OverwriteProducer: control point, g, and the  *)
                          (* stores of this push that are not visible yet  *)
  cpc, read_pos, write_cache,
  gen1, c_size, c_body,   (* what the consumer has read of the slot        *)
  delivered,              (* the last message try_pop_lossy returned       *)
  overwritten,            (* has *overwritten been set since then?         *)
  tso,                    (* the machine, chosen once: do the payload      *)
                          (* stores stay behind the odd generation?  They  *)
                          (* do on x86; the release store of :609 does not *)
                          (* order later stores, so on ARM they need not;  *)
                          (* nor does :511 keep earlier loads before it    *)
  crashes, p_died         (* process deaths, and of a producer in a push   *)

prodVars == <<ppc, p_gen, p_todo, tso, p_died>>
readVars == <<gen1, c_size, c_body>>
consVars == <<cpc, read_pos, write_cache, readVars, delivered, overwritten>>
vars == <<write_pos, slots, prodVars, consVars, crashes>>

Zeroed == -1   (* nobody has written here *)

SlotIndex(pos) == pos % Capacity

Init ==
  /\ write_pos = 0
  /\ slots = [i \in 0..(Capacity - 1) |-> [generation |-> 0, size |-> Zeroed, body |-> Zeroed]]
  /\ ppc = "idle" /\ p_gen = 0 /\ p_todo = {}
  /\ cpc = "idle" /\ read_pos = 0 /\ write_cache = 0
  /\ gen1 = 0 /\ c_size = Zeroed /\ c_body = Zeroed
  /\ delivered = [pos |-> Zeroed, size |-> Zeroed, body |-> Zeroed]
  /\ overwritten = FALSE
  /\ tso \in BOOLEAN
  /\ crashes = 0 /\ p_died = FALSE

-----------------------------------------------------------------------------
(***************************************************************************)
(* OverwriteProducer::push                                                 *)
(***************************************************************************)
PushBegin ==
  /\ ppc = "idle"
  /\ write_pos < MaxPushes
  /\ ppc' = "write"
  /\ p_gen' = slots[SlotIndex(write_pos)].generation
  /\ p_todo' = {"generation", "size", "body"}
  /\ UNCHANGED <<write_pos, slots, tso, p_died, consVars, crashes>>

(* One of the stores of odd generation, size and payload becomes visible.  *)
PushStore(field) ==
  /\ ppc = "write"
  /\ field \in p_todo
  /\ tso => ("generation" \in p_todo => field = "generation")
  /\ slots' = [slots EXCEPT ![SlotIndex(write_pos)][field] =
                 IF field = "generation" THEN (p_gen + 1) % GenModulus ELSE write_pos]
  /\ p_todo' = p_todo \ {field}
  /\ UNCHANGED <<write_pos, ppc, p_gen, tso, p_died, consVars, crashes>>

(* The release fence, then the even generation.                            *)
PushCommit ==
  /\ ppc = "write"
  /\ p_todo = {}
  /\ ppc' = "publish"
  /\ slots' = [slots EXCEPT ![SlotIndex(write_pos)].generation = (p_gen + 2) % GenModulus]
  /\ UNCHANGED <<write_pos, p_gen, p_todo, tso, p_died, consVars, crashes>>

(* Mutant: the position is published while the slot is being written.      *)
PushPublishEarly ==
  /\ ppc = "write"
  /\ p_todo = {"size", "body"}
  /\ ppc' = "idle"
  /\ write_pos' = write_pos + 1
  /\ slots' = [slots EXCEPT ![SlotIndex(write_pos)].generation = (p_gen + 2) % GenModulus]
  /\ UNCHANGED <<p_gen, p_todo, tso, p_died, consVars, crashes>>

PushPublish ==
  /\ ppc = "publish"
  /\ ppc' = "idle"
  /\ write_pos' = write_pos + 1
  /\ UNCHANGED <<slots, p_gen, p_todo, tso, p_died, consVars, crashes>>

PCrash ==
  /\ ppc # "idle"
  /\ crashes < MaxCrashes
  /\ crashes' = crashes + 1
  /\ ppc' = "idle"
  /\ p_todo' = {}
  /\ p_died' = TRUE
  /\ UNCHANGED <<write_pos, slots, p_gen, tso, consVars>>

-----------------------------------------------------------------------------
(***************************************************************************)
(* Consumer::try_pop_lossy                                                 *)
(***************************************************************************)

Lapped(seen) == seen - read_pos > Capacity

(* There is something to read as far as the consumer knows.                *)
Proceed(seen) == cpc' = IF Lapped(seen) THEN "forward" ELSE "gen1"

PopBegin ==
  /\ cpc = "idle"
  /\ \/ read_pos = write_cache /\ cpc' = "reload"
     \/ read_pos # write_cache /\ Proceed(write_cache)
  /\ UNCHANGED <<write_pos, slots, prodVars, read_pos, write_cache, readVars, delivered,
                 overwritten, crashes>>

(* Mutant: the new position is not kept.                                   *)
PopReloadForgets ==
  /\ cpc = "reload"
  /\ cpc' = "idle"
  /\ UNCHANGED <<write_pos, slots, prodVars, read_pos, write_cache, readVars, delivered,
                 overwritten, crashes>>

PopReload ==
  /\ cpc = "reload"
  /\ write_cache' = write_pos
  /\ \/ read_pos = write_pos /\ cpc' = "idle"
     \/ read_pos # write_pos /\ Proceed(write_pos)
  /\ UNCHANGED <<write_pos, slots, prodVars, read_pos, readVars, delivered, overwritten, crashes>>

(* Lapped: go to the oldest slot that is still there.                      *)
PopForward ==
  /\ cpc = "forward"
  /\ cpc' = "idle"
  /\ read_pos' = write_cache - Capacity
  /\ overwritten' = TRUE
  /\ UNCHANGED <<write_pos, slots, prodVars, write_cache, readVars, delivered, crashes>>

PopGen1 ==
  /\ cpc = "gen1"
  /\ gen1' = slots[SlotIndex(read_pos)].generation
  /\ cpc' = IF gen1' % 2 = 1 THEN "idle" ELSE "size"
  /\ UNCHANGED <<write_pos, slots, prodVars, read_pos, write_cache, c_size, c_body, delivered,
                 overwritten, crashes>>

PopSize ==
  /\ cpc = "size"
  /\ cpc' = "copy"
  /\ c_size' = slots[SlotIndex(read_pos)].size
  /\ UNCHANGED <<write_pos, slots, prodVars, read_pos, write_cache, gen1, c_body, delivered,
                 overwritten, crashes>>

PopCopy ==
  /\ cpc = "copy"
  /\ cpc' = "gen2"
  /\ c_body' = slots[SlotIndex(read_pos)].body
  /\ UNCHANGED <<write_pos, slots, prodVars, read_pos, write_cache, gen1, c_size, delivered,
                 overwritten, crashes>>

(* Mutant: the generation is not read again after the copy.                *)
PopGen2Skipped ==
  /\ cpc = "gen2"
  /\ cpc' = "release"
  /\ UNCHANGED <<write_pos, slots, prodVars, read_pos, write_cache, readVars, delivered,
                 overwritten, crashes>>

PopGen2 ==
  /\ cpc = "gen2"
  /\ cpc' = IF slots[SlotIndex(read_pos)].generation # gen1 THEN "resync" ELSE "release"
  /\ UNCHANGED <<write_pos, slots, prodVars, read_pos, write_cache, readVars, delivered,
                 overwritten, crashes>>

(* The acquire load of the second generation does not keep the earlier     *)
(* reads of the slot before it: on a weakly ordered machine they may be    *)
(* satisfied as late as the release store of read_pos.                     *)
PopReadLate ==
  /\ cpc = "release" /\ ~tso
  /\ c_size' \in {c_size, slots[SlotIndex(read_pos)].size}
  /\ c_body' \in {c_body, slots[SlotIndex(read_pos)].body}
  /\ UNCHANGED <<write_pos, slots, prodVars, cpc, read_pos, write_cache, gen1, delivered,
                 overwritten, crashes>>

ResyncPos(w) == IF w > Capacity THEN w - Capacity ELSE w

(* The slot changed while it was copied.                                   *)
PopResync ==
  /\ cpc = "resync"
  /\ cpc' = "idle"
  /\ write_cache' = write_pos
  /\ read_pos' = ResyncPos(write_pos)
  /\ overwritten' = TRUE
  /\ UNCHANGED <<write_pos, slots, prodVars, readVars, delivered, crashes>>

PopRelease ==
  /\ cpc = "release"
  /\ cpc' = "idle"
  /\ read_pos' = read_pos + 1
  /\ delivered' = [pos |-> read_pos, size |-> c_size, body |-> c_body]
  /\ overwritten' = FALSE
  /\ UNCHANGED <<write_pos, slots, prodVars, write_cache, readVars, crashes>>

(* Mutant: a restarted consumer reads from the start.                      *)
CCrashFromScratch ==
  /\ cpc # "idle"
  /\ crashes < MaxCrashes
  /\ crashes' = crashes + 1
  /\ cpc' = "idle"
  /\ read_pos' = 0
  /\ write_cache' = write_pos
  /\ UNCHANGED <<write_pos, slots, prodVars, readVars, delivered, overwritten>>

CCrash ==
  /\ cpc # "idle"
  /\ crashes < MaxCrashes
  /\ crashes' = crashes + 1
  /\ cpc' = "idle"
  /\ write_cache' = write_pos
  /\ UNCHANGED <<write_pos, slots, prodVars, read_pos, readVars, delivered, overwritten>>

-----------------------------------------------------------------------------
ProducerStep ==
  \/ \E field \in {"generation", "size", "body"} : PushStore(field)
  \/ PushCommit
  \/ PushPublish

ConsumerStep ==
  \/ PopBegin \/ PopReload \/ PopForward \/ PopGen1 \/ PopSize \/ PopCopy
  \/ PopGen2 \/ PopResync \/ PopRelease

Next == PushBegin \/ ProducerStep \/ PCrash \/ ConsumerStep \/ PopReadLate \/ CCrash

Spec == Init /\ [][Next]_vars

(* A push that has begun ends (there is nothing to wait for), and the      *)
(* consumer keeps polling.  The application may stop pushing.              *)
FairSpec == Spec /\ WF_vars(ProducerStep) /\ WF_vars(ConsumerStep)

-----------------------------------------------------------------------------
TypeOK ==
  LET tag == Zeroed..(MaxPushes - 1) IN
  /\ write_pos \in 0..MaxPushes
  /\ slots \in [0..(Capacity - 1) -> [generation : 0..(GenModulus - 1), size : tag, body : tag]]
  /\ ppc \in {"idle", "write", "publish"}
  /\ p_gen \in 0..(GenModulus - 1)
  /\ p_todo \subseteq {"generation", "size", "body"}
  /\ cpc \in {"idle", "reload", "forward", "gen1", "size", "copy", "gen2", "resync", "release"}
  /\ read_pos \in 0..MaxPushes /\ write_cache \in 0..MaxPushes
  /\ gen1 \in 0..(GenModulus - 1) /\ c_size \in tag /\ c_body \in tag
  /\ delivered \in [pos : tag, size : tag, body : tag]
  /\ overwritten \in BOOLEAN
  /\ tso \in BOOLEAN /\ crashes \in 0..MaxCrashes /\ p_died \in BOOLEAN

(* A message is never delivered half old and half new: the seqlock catches *)
(* every overwrite during the copy (spsc_bus.hpp:475-476), on a machine    *)
(* that keeps the stores in order and as long as no producer has died in a *)
(* push.  Both conditions are needed: a producer that dies in a push       *)
(* leaves an odd generation, and its successor's writes then look          *)
(* committed while they are under way.                                     *)
NoTornRead == tso /\ ~p_died => delivered.size = delivered.body

(* What is delivered for a position is the message of that position or a   *)
(* later one that overwrote its slot, never an older one, although the     *)
(* consumer reads slots the producer may be writing, whatever the order of *)
(* the stores and after any crash.                                         *)
NeverOlder ==
  /\ delivered.body >= delivered.pos
  /\ SlotIndex(delivered.body) = SlotIndex(delivered.pos)

(* Every variable has its type, and nothing delivered is older than its    *)
(* position.                                                               *)
Inv == TypeOK /\ NeverOlder

(* A fast-forward never takes the consumer back to positions it has passed *)
(* nor beyond the producer, also after crashes.                            *)
NeverBack == [][read_pos' >= read_pos /\ read_pos' <= write_pos']_vars

(* The consumer gets past every published position: neither a slot that is *)
(* being overwritten nor a fast-forward keeps it from making progress.  (A *)
(* producer that died in a push may leave an odd slot in its way.)         *)
CatchesUp == \A pos \in 1..MaxPushes : (write_pos >= pos) ~> (read_pos >= pos \/ p_died)
=============================================================================
