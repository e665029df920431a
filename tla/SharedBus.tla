----------------------------- MODULE SharedBus -----------------------------
(***************************************************************************)
(* The life of a bus segment (class SharedBus of spsc_bus.hpp): one        *)
(* process runs create(), possibly several times after crashes or normal   *)
(* exits, another runs open() and uses the mapping, and either may remove  *)
(* the name.  Every system call and every group of stores another process  *)
(* can tell apart is a step.                                               *)
(*                                                                         *)
(* shm_open, ftruncate, mmap and shm_unlink are modelled by what POSIX     *)
(* says of them: a name refers to a segment, O_TRUNC empties the segment   *)
(* for everyone who has it mapped, and a segment that lost its name lives  *)
(* on for its users.  The configuration fields of the control block are    *)
(* one value, the session that wrote them (0: zeroed).  mlock and huge     *)
(* pages have no effect on this state.                                     *)
(***************************************************************************)
EXTENDS Integers

CONSTANTS
  MaxCreates,    (* bound: calls of create()                               *)
  MaxOpens,      (* bound: calls of open()                                 *)
  MaxUnlinks,    (* bound: calls of unlink() on an existing name           *)
  MaxFailures,   (* bound: crashes of the creator and failing system calls *)
  Modes          (* timeout_ms: "none" is 0, "forever" -1, "limit" > 0     *)

ASSUME BusAssumption ==
  /\ {MaxCreates, MaxOpens, MaxUnlinks, MaxFailures} \subseteq Nat
  /\ Modes \subseteq {"none", "forever", "limit"}

VARIABLES
  name,       (* the segment the name refers to, 0 if there is none        *)
  segments,   (* segment -> [sized, magic, session], and how many create() *)
              (* calls have opened it                                      *)
  cpc, c_seg, (* create(): control point and the segment it works on       *)
  creates,    (* calls so far; also the session id of the last one         *)
  opc, o_seg, mode, expired, o_session,  (* open(), and the session seen   *)
  opens, unlinks, failures

segVars == <<name, segments>>
createVars == <<cpc, c_seg, creates>>
openVars == <<opc, o_seg, mode, expired, o_session, opens>>
vars == <<segVars, createVars, openVars, unlinks, failures>>

Segments == 1..MaxCreates
Segment == [sized : BOOLEAN, magic : BOOLEAN, session : 0..MaxCreates, creators : 0..MaxCreates]
Blank == [sized |-> FALSE, magic |-> FALSE, session |-> 0, creators |-> 0]

Init ==
  /\ name = 0
  /\ segments = [s \in Segments |-> Blank]
  /\ cpc = "idle" /\ c_seg = 0 /\ creates = 0
  /\ opc = "idle" /\ o_seg = 0 /\ mode = "none" /\ expired = FALSE /\ o_session = 0
  /\ opens = 0 /\ unlinks = 0 /\ failures = 0

Fail == failures < MaxFailures /\ failures' = failures + 1

-----------------------------------------------------------------------------
(***************************************************************************)
(* create()                                                                *)
(***************************************************************************)

(* shm_open(O_CREAT | O_TRUNC): an existing segment is emptied.            *)
CreateOpen ==
  /\ cpc = "idle"
  /\ creates < MaxCreates
  /\ creates' = creates + 1
  /\ c_seg' = IF name = 0 THEN creates + 1 ELSE name
  /\ name' = c_seg'
  /\ segments' = [segments EXCEPT ![c_seg'] = [Blank EXCEPT !.creators = segments[c_seg'].creators + 1]]
  /\ cpc' = "truncate"
  /\ UNCHANGED <<openVars, unlinks, failures>>

(* ftruncate; if it fails the name is removed and create() throws.         *)
CreateTruncate ==
  /\ cpc = "truncate"
  /\ \/ /\ segments' = [segments EXCEPT ![c_seg].sized = TRUE]
        /\ cpc' = "map"
        /\ UNCHANGED <<name, failures>>
     \/ /\ Fail
        /\ name' = 0
        /\ cpc' = "idle"
        /\ UNCHANGED segments
  /\ UNCHANGED <<c_seg, creates, openVars, unlinks>>

(* mmap; if it fails create() throws and leaves the segment behind.        *)
CreateMap ==
  /\ cpc = "map"
  /\ \/ cpc' = "clear" /\ UNCHANGED failures
     \/ Fail /\ cpc' = "idle"
  /\ UNCHANGED <<segVars, c_seg, creates, openVars, unlinks>>

CreateClear ==
  /\ cpc = "clear"
  /\ segments' = [segments EXCEPT ![c_seg].magic = FALSE, ![c_seg].session = 0]
  /\ cpc' = "config"
  /\ UNCHANGED <<name, c_seg, creates, openVars, unlinks, failures>>

(* Mutant: the magic word is written with the other fields, in any order.  *)
CreateConfigMagicFirst ==
  /\ cpc = "config"
  /\ segments' = [segments EXCEPT ![c_seg].magic = TRUE]
  /\ cpc' = "magic"
  /\ UNCHANGED <<name, c_seg, creates, openVars, unlinks, failures>>

CreateConfig ==
  /\ cpc = "config"
  /\ segments' = [segments EXCEPT ![c_seg].session = creates]
  /\ cpc' = "magic"
  /\ UNCHANGED <<name, c_seg, creates, openVars, unlinks, failures>>

(* The release fence and the magic word; create() returns.                 *)
CreateMagic ==
  /\ cpc = "magic"
  /\ segments' = [segments EXCEPT ![c_seg].magic = TRUE]
  /\ cpc' = "ready"
  /\ UNCHANGED <<name, c_seg, creates, openVars, unlinks, failures>>

(* The bus is closed by munmap only: the segment and its name stay.        *)
CreatorExit ==
  /\ cpc = "ready"
  /\ cpc' = "idle"
  /\ UNCHANGED <<segVars, c_seg, creates, openVars, unlinks, failures>>

CreatorCrash ==
  /\ cpc \notin {"idle", "ready"}
  /\ Fail
  /\ cpc' = "idle"
  /\ UNCHANGED <<segVars, c_seg, creates, openVars, unlinks>>

unlink ==
  /\ name # 0
  /\ unlinks < MaxUnlinks
  /\ unlinks' = unlinks + 1
  /\ name' = 0
  /\ UNCHANGED <<segments, createVars, openVars, failures>>

-----------------------------------------------------------------------------
(***************************************************************************)
(* open()                                                                  *)
(***************************************************************************)
Ended == {"failed", "attached", "faulted"}

Open(m) ==
  /\ opc \in {"idle"} \cup Ended
  /\ opens < MaxOpens
  /\ opens' = opens + 1
  /\ opc' = "open"
  /\ mode' = m
  /\ expired' = FALSE
  /\ o_seg' = 0 /\ o_session' = 0
  /\ UNCHANGED <<segVars, createVars, unlinks, failures>>

Deadline ==
  /\ opc \notin {"idle"} \cup Ended
  /\ mode = "limit"
  /\ ~expired
  /\ expired' = TRUE
  /\ UNCHANGED <<segVars, createVars, opc, o_seg, mode, o_session, opens, unlinks, failures>>

(* Mutant: the deadline is not looked at.                                  *)
RetryAlways == opc' = "open"

(* Throw, or sleep for 1 ms and start again.                               *)
RetryOrThrow == opc' = IF mode = "none" \/ (mode = "limit" /\ expired) THEN "failed" ELSE "open"

(* shm_open: ENOENT if the name is unused.                                 *)
OpenName ==
  /\ opc = "open"
  /\ \/ name = 0 /\ RetryOrThrow /\ UNCHANGED o_seg
     \/ name # 0 /\ opc' = "stat" /\ o_seg' = name
  /\ UNCHANGED <<segVars, createVars, mode, expired, o_session, opens, unlinks, failures>>

(* Mutant: the size is not checked.                                        *)
OpenStatUnchecked ==
  /\ opc = "stat"
  /\ opc' = "map"
  /\ UNCHANGED <<segVars, createVars, o_seg, mode, expired, o_session, opens, unlinks, failures>>

(* fstat: the segment may not have its size yet.                           *)
OpenStat ==
  /\ opc = "stat"
  /\ \/ ~segments[o_seg].sized /\ RetryOrThrow
     \/ segments[o_seg].sized /\ opc' = "map"
  /\ UNCHANGED <<segVars, createVars, o_seg, mode, expired, o_session, opens, unlinks, failures>>

OpenMap ==
  /\ opc = "map"
  /\ \/ opc' = "spin" /\ UNCHANGED failures
     \/ Fail /\ opc' = "failed"
  /\ UNCHANGED <<segVars, createVars, o_seg, mode, expired, o_session, opens, unlinks>>

(* The spin on the magic word ends and open() returns.                     *)
OpenMagic ==
  /\ opc = "spin"
  /\ segments[o_seg].magic
  /\ opc' = "attached"
  /\ o_session' = segments[o_seg].session
  /\ UNCHANGED <<segVars, createVars, o_seg, mode, expired, opens, unlinks, failures>>

(* Another create() of the name has emptied the segment under the mapping  *)
(* (O_TRUNC) and not given it its size again: the read of the magic word   *)
(* is past its end and SIGBUS ends the process.                            *)
OpenFaults ==
  /\ opc = "spin"
  /\ ~segments[o_seg].sized
  /\ opc' = "faulted"
  /\ UNCHANGED <<segVars, createVars, o_seg, mode, expired, o_session, opens, unlinks, failures>>

-----------------------------------------------------------------------------
CreateStep == CreateTruncate \/ CreateMap \/ CreateClear \/ CreateConfig \/ CreateMagic
OpenStep == OpenName \/ OpenStat \/ OpenMap \/ OpenMagic \/ OpenFaults

Next ==
  \/ CreateOpen \/ CreateStep \/ CreatorExit \/ CreatorCrash
  \/ unlink
  \/ \E m \in Modes : Open(m)
  \/ OpenStep
  \/ Deadline

Spec == Init /\ [][Next]_vars

(* Both calls run to their end unless they crash or wait, and time passes. *)
FairSpec == Spec /\ WF_vars(CreateStep) /\ WF_vars(OpenStep) /\ WF_vars(Deadline)

-----------------------------------------------------------------------------
TypeOK ==
  /\ name \in Segments \cup {0}
  /\ segments \in [Segments -> Segment]
  /\ cpc \in {"idle", "truncate", "map", "clear", "config", "magic", "ready"}
  /\ c_seg \in Segments \cup {0} /\ creates \in 0..MaxCreates
  /\ opc \in {"idle", "open", "stat", "map", "spin", "attached", "failed", "faulted"}
  /\ o_seg \in Segments \cup {0} /\ mode \in {"none", "forever", "limit"}
  /\ expired \in BOOLEAN /\ o_session \in 0..MaxCreates
  /\ opens \in 0..MaxOpens /\ unlinks \in 0..MaxUnlinks /\ failures \in 0..MaxFailures

(* "the consumer never sees a partially-initialised control block"         *)
(* (DESIGN.md, Magic word as an init fence): all fields are those the      *)
(* creator wrote before the magic word, for as long as the consumer has    *)
(* the segment open.  This holds of segments that were created once; a     *)
(* second create() under the same name (O_TRUNC) clears the block under    *)
(* the attached consumer.                                                  *)
NeverPartial ==
  opc = "attached" /\ segments[o_seg].creators = 1 =>
    segments[o_seg].sized /\ segments[o_seg].magic /\ segments[o_seg].session # 0

(* The spin on the magic word reads mapped memory: a segment that was      *)
(* created once has its size before open() maps it, so the access cannot   *)
(* fault; the process is killed there only where a second create() has     *)
(* emptied the segment it spins on.                                        *)
SpinsInBounds ==
  /\ opc = "spin" /\ segments[o_seg].creators = 1 => segments[o_seg].sized
  /\ opc = "faulted" => segments[o_seg].creators > 1

(* Every variable has its type, and open() spins on mapped memory only.    *)
Inv == TypeOK /\ SpinsInBounds

Opening == opc \in {"open", "stat", "map", "spin"} /\ mode = "limit"

(* open() spins on a segment no create() is going to write a magic word    *)
(* into: the creator has died or thrown on the way.                        *)
Abandoned ==
  /\ opc = "spin" /\ ~segments[o_seg].magic
  /\ cpc \in {"idle", "ready"} \/ c_seg # o_seg

(* The one way for an open() with a limit not to end is to spin for ever   *)
(* on an abandoned segment (spsc_bus.hpp:309): no sequence of creations,   *)
(* failures and removals of the name keeps it retrying beyond its limit.   *)
(* A create() of the same name may kill it there instead.                  *)
OpenEnds == Opening ~> (opc \in Ended \/ []Abandoned)

(* open(timeout_ms > 0): "retry for up to timeout_ms milliseconds, then    *)
(* throw" (spsc_bus.hpp:255), whatever happens to the creator.             *)
OpenIsBounded == Opening ~> (opc \in Ended)
=============================================================================
