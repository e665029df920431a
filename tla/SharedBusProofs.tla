-------------------------- MODULE SharedBusProofs --------------------------
(***************************************************************************)
(* Proofs about the life of a bus segment, for any number of create(),     *)
(* open() and unlink() calls, crashes and failing system calls.            *)
(***************************************************************************)
EXTENDS SharedBus, TLAPS

(* Segments are numbered in the order in which they are created: the ones  *)
(* in use have been opened by a create(), the others are untouched.        *)
Numbering ==
  /\ name <= creates /\ c_seg <= creates /\ o_seg <= creates
  /\ \A s \in Segments : /\ s > creates => segments[s] = Blank
                         /\ segments[s].creators <= creates
  /\ \A s \in Segments : s \in {name, c_seg, o_seg} => segments[s].creators >= 1
  /\ cpc # "idle" => c_seg # 0
  /\ opc \in {"stat", "map", "spin", "attached", "faulted"} => o_seg # 0

(* How far create() has brought its segment at each of its control points. *)
(* The magic word of a segment created once is not set before the end.     *)
CreateProgress ==
  /\ cpc \in {"map", "clear", "config", "magic"} => segments[c_seg].sized
  /\ cpc = "magic" => segments[c_seg].session # 0
  /\ cpc \notin {"idle", "ready"} /\ segments[c_seg].creators = 1 => ~segments[c_seg].magic

(* The magic word of a segment created once tells that the rest is there.  *)
MagicIsLast ==
  \A s \in Segments : segments[s].creators = 1 /\ segments[s].magic =>
    segments[s].sized /\ segments[s].session # 0

(* What open() has found of a segment created once does not go away.       *)
OpenProgress ==
  opc # "idle" /\ o_seg # 0 /\ segments[o_seg].creators = 1 =>
    /\ opc \in {"map", "spin", "attached"} => segments[o_seg].sized
    /\ opc = "attached" => segments[o_seg].magic
    /\ opc # "faulted"

BusInv == TypeOK /\ Numbering /\ CreateProgress /\ MagicIsLast /\ OpenProgress

(* The bounds are natural numbers.                                         *)
LEMMA Bounds == MaxCreates \in Nat /\ MaxOpens \in Nat /\ MaxUnlinks \in Nat /\ MaxFailures \in Nat
  BY BusAssumption

(* Before the first create() there is no segment.                          *)
LEMMA BusInit == Init => BusInv
<1> SUFFICES ASSUME Init PROVE BusInv
  OBVIOUS
<1>1. /\ Blank \in Segment
      /\ Blank.creators = 0 /\ Blank.magic = FALSE
  BY Bounds DEF Blank, Segment
<1>2. \A s \in Segments : segments[s] = Blank /\ s \in Nat /\ s > 0
  BY Bounds DEF Init, Segments
<1>3. TypeOK
  <2>1. segments \in [Segments -> Segment]
    BY <1>1 DEF Init
  <2>2. expired \in BOOLEAN
    BY DEF Init
  <2>3. /\ name \in Segments \cup {0} /\ c_seg \in Segments \cup {0} /\ o_seg \in Segments \cup {0}
        /\ cpc = "idle" /\ opc = "idle" /\ mode = "none"
        /\ creates \in 0..MaxCreates /\ o_session \in 0..MaxCreates
        /\ opens \in 0..MaxOpens /\ unlinks \in 0..MaxUnlinks /\ failures \in 0..MaxFailures
    BY Bounds DEF Init
  <2> QED
    BY <2>1, <2>2, <2>3 DEF TypeOK
<1>4. Numbering
  BY <1>1, <1>2 DEF Init, Numbering
<1>5. CreateProgress /\ MagicIsLast /\ OpenProgress
  BY <1>1, <1>2 DEF Init, CreateProgress, MagicIsLast, OpenProgress
<1> QED
  BY <1>3, <1>4, <1>5 DEF BusInv

(* An emptied segment remembers only how often it has been created.        *)
LEMMA Reopened ==
  ASSUME NEW k \in 0..MaxCreates, k < MaxCreates
  PROVE  /\ [Blank EXCEPT !.creators = k + 1] \in Segment
         /\ [Blank EXCEPT !.creators = k + 1].creators = k + 1
         /\ [Blank EXCEPT !.creators = k + 1].sized = FALSE
         /\ [Blank EXCEPT !.creators = k + 1].magic = FALSE
         /\ [Blank EXCEPT !.creators = k + 1].session = 0
<1>1. k + 1 \in 0..MaxCreates /\ 0 \in 0..MaxCreates
  BY Bounds
<1> QED
  BY <1>1 DEF Blank, Segment

(* Clearing the control block leaves the segment its size.                 *)
LEMMA Cleared ==
  ASSUME NEW r \in Segment
  PROVE  /\ [r EXCEPT !.magic = FALSE, !.session = 0] \in Segment
         /\ [r EXCEPT !.magic = FALSE, !.session = 0].creators = r.creators
         /\ [r EXCEPT !.magic = FALSE, !.session = 0].sized = r.sized
         /\ [r EXCEPT !.magic = FALSE, !.session = 0].magic = FALSE
<1>1. 0 \in 0..MaxCreates
  BY Bounds
<1> QED
  BY <1>1 DEF Segment

(* shm_open in create(): a new segment is one nobody has open, and an      *)
(* existing one is from now on created more than once.                     *)
LEMMA CreateOpenStep == BusInv /\ CreateOpen => BusInv'
<1> SUFFICES ASSUME BusInv, CreateOpen PROVE BusInv'
  OBVIOUS
<1> USE DEF BusInv
<1> DEFINE new == [Blank EXCEPT !.creators = segments[c_seg'].creators + 1]
<1>1. /\ creates < MaxCreates /\ creates \in 0..MaxCreates
      /\ c_seg' = (IF name = 0 THEN creates + 1 ELSE name)
      /\ name \in Segments \cup {0} /\ name <= creates
  BY DEF CreateOpen, TypeOK, Numbering
<1>2. c_seg' \in Segments /\ c_seg' <= creates + 1 /\ (c_seg' # creates + 1 => c_seg' = name)
  BY <1>1, Bounds DEF Segments
<1>3. /\ segments[c_seg'].creators \in 0..MaxCreates
      /\ segments[c_seg'].creators <= creates /\ segments[c_seg'].creators < MaxCreates
  BY <1>1, <1>2, Bounds DEF TypeOK, Numbering, Segment
<1>4. /\ new.creators = segments[c_seg'].creators + 1
      /\ new.sized = FALSE /\ new.magic = FALSE /\ new.session = 0
      /\ new \in Segment
  BY <1>3, Reopened
<1>5. /\ segments' = [segments EXCEPT ![c_seg'] = new]
      /\ creates' = creates + 1 /\ name' = c_seg' /\ cpc' = "truncate"
      /\ UNCHANGED <<opc, o_seg, mode, expired, o_session, opens, unlinks, failures>>
  BY DEF CreateOpen, openVars
<1> HIDE DEF new
<1>6. TypeOK'
  <2>1. segments' \in [Segments -> Segment]
    BY <1>2, <1>4, <1>5 DEF TypeOK
  <2>2. expired' \in BOOLEAN
    BY <1>5 DEF TypeOK
  <2>3. creates' \in 0..MaxCreates
    BY <1>1, <1>5, Bounds
  <2> QED
    BY <1>2, <1>5, <2>1, <2>2, <2>3 DEF TypeOK
<1>7. \A s \in Segments : segments'[s] = IF s = c_seg' THEN new ELSE segments[s]
  BY <1>2, <1>5 DEF TypeOK
<1>8. o_seg <= creates /\ o_seg \in Segments \cup {0} /\ c_seg' # 0
      /\ (o_seg # 0 => segments[o_seg].creators >= 1)
  BY <1>2, Bounds DEF Numbering, TypeOK, Segments
<1>9. Numbering'
  <2>1. name' <= creates' /\ c_seg' <= creates' /\ o_seg' <= creates'
    BY <1>1, <1>2, <1>5, <1>8, Bounds DEF Segments
  <2>2. ASSUME NEW s \in Segments
        PROVE  /\ s > creates' => segments'[s] = Blank
               /\ segments'[s].creators <= creates'
               /\ s \in {name', c_seg', o_seg'} => segments'[s].creators >= 1
    <3>1. CASE s = c_seg'
      BY <1>1, <1>2, <1>3, <1>4, <1>5, <1>7, <3>1, Bounds DEF Segments
    <3>2. CASE s # c_seg'
      BY <1>1, <1>5, <1>7, <3>2, Bounds DEF Numbering, Segments, TypeOK, Segment
    <3> QED
      BY <3>1, <3>2
  <2>3. (cpc' # "idle" => c_seg' # 0)
        /\ (opc' \in {"stat", "map", "spin", "attached", "faulted"} => o_seg' # 0)
    BY <1>5, <1>8 DEF Numbering
  <2> QED
    BY <2>1, <2>2, <2>3 DEF Numbering
<1>10. CreateProgress' /\ MagicIsLast'
  BY <1>2, <1>4, <1>5, <1>7 DEF CreateProgress, MagicIsLast
<1>11. OpenProgress'
  <2>1. CASE o_seg = c_seg'
    <3>1. segments'[o_seg].creators # 1
      BY <1>2, <1>3, <1>4, <1>7, <1>8, <2>1
    <3> QED
      BY <1>5, <3>1 DEF OpenProgress
  <2>2. CASE o_seg # c_seg'
    BY <1>5, <1>7, <1>8, <2>2 DEF OpenProgress
  <2> QED
    BY <2>1, <2>2
<1> QED
  BY <1>6, <1>9, <1>10, <1>11

(* The invariant but for the type of the variables create() does not write *)
(* carries over when its own segment only gains, or has no magic word.     *)
LEMMA WriteOwn ==
  ASSUME BusInv, cpc \notin {"idle", "ready"},
         NEW x \in Segment, segments' = [segments EXCEPT ![c_seg] = x],
         x.creators = segments[c_seg].creators,
         segments[c_seg].sized => x.sized,
         x.creators = 1 /\ x.magic => x.sized /\ x.session # 0,
         UNCHANGED <<name, c_seg, creates, openVars, unlinks, failures>>
  PROVE  /\ c_seg \in Segments /\ segments' \in [Segments -> Segment] /\ segments'[c_seg] = x
         /\ Numbering' /\ MagicIsLast' /\ OpenProgress'
<1> USE DEF BusInv, openVars
<1>1. c_seg \in Segments /\ c_seg <= creates /\ creates \in Nat
  BY Bounds DEF Numbering, TypeOK, Segments
<1>2. /\ segments' \in [Segments -> Segment]
      /\ \A s \in Segments : segments'[s] = IF s = c_seg THEN x ELSE segments[s]
  BY <1>1 DEF TypeOK
<1>3. Numbering'
  <2>1. cpc' # "idle" => c_seg' # 0
    BY <1>1, Bounds DEF Segments
  <2>2. ASSUME NEW s \in Segments
        PROVE  /\ s > creates' => segments'[s] = Blank
               /\ segments'[s].creators <= creates'
               /\ s \in {name', c_seg', o_seg'} => segments'[s].creators >= 1
    <3>1. s > creates => s # c_seg
      BY <1>1, Bounds DEF Segments
    <3> QED
      BY <1>1, <1>2, <3>1 DEF Numbering
  <2> QED
    BY <2>1, <2>2 DEF Numbering
<1>4. MagicIsLast'
  BY <1>2 DEF MagicIsLast
<1>5. OpenProgress'
  <2>1. CASE o_seg = c_seg
    <3>1. x.creators = 1 => opc # "attached"
      BY <2>1, <1>1, Bounds DEF OpenProgress, CreateProgress, Segments
    <3> QED
      BY <1>1, <1>2, <2>1, <3>1 DEF OpenProgress
  <2>2. CASE o_seg # c_seg
    BY <1>2, <2>2 DEF OpenProgress, TypeOK
  <2> QED
    BY <2>1, <2>2
<1> QED
  BY <1>1, <1>2, <1>3, <1>4, <1>5

(* The four stores of create() after shm_open: the size, the cleared       *)
(* block, its fields and at last the magic word.                           *)
LEMMA CreateWriteStep ==
  ASSUME BusInv, (CreateTruncate /\ cpc' = "map") \/ CreateClear \/ CreateConfig \/ CreateMagic
  PROVE  BusInv'
<1> DEFINE old == segments[c_seg]
<1>1. cpc \notin {"idle", "ready"} /\ UNCHANGED <<name, c_seg, creates, openVars, unlinks, failures>>
  BY DEF CreateTruncate, CreateClear, CreateConfig, CreateMagic
<1>2. c_seg \in Segments /\ old \in Segment /\ segments \in [Segments -> Segment]
  BY <1>1, Bounds DEF BusInv, TypeOK, Numbering
<1>3. SUFFICES segments' \in [Segments -> Segment]
               /\ cpc' \in {"idle", "truncate", "map", "clear", "config", "magic", "ready"}
               /\ Numbering' /\ CreateProgress' /\ MagicIsLast' /\ OpenProgress'
  <2>1. expired' \in BOOLEAN
    BY <1>1 DEF BusInv, TypeOK, openVars
  <2> QED
    BY <1>1, <1>3, <2>1 DEF BusInv, TypeOK, openVars
<1>4. CASE CreateTruncate /\ cpc' = "map"
  <2> DEFINE x == [old EXCEPT !.sized = TRUE]
  <2>1. segments' = [segments EXCEPT ![c_seg] = x] /\ cpc = "truncate" /\ cpc' = "map"
    BY <1>2, <1>4 DEF CreateTruncate
  <2>2. /\ x \in Segment /\ x.creators = old.creators /\ x.sized = TRUE
        /\ x.magic = old.magic /\ x.session = old.session
    BY <1>2 DEF Segment
  <2>3. old.creators = 1 => ~old.magic
    BY <2>1 DEF BusInv, CreateProgress
  <2> HIDE DEF x
  <2>4. segments' \in [Segments -> Segment] /\ segments'[c_seg] = x
        /\ Numbering' /\ MagicIsLast' /\ OpenProgress'
    BY <1>1, <2>1, <2>2, <2>3, WriteOwn
  <2> QED
    BY <1>1, <2>1, <2>2, <2>3, <2>4 DEF CreateProgress
<1>5. CASE CreateClear
  <2> DEFINE x == [old EXCEPT !.magic = FALSE, !.session = 0]
  <2>1. segments' = [segments EXCEPT ![c_seg] = x] /\ cpc = "clear" /\ cpc' = "config"
    BY <1>2, <1>5 DEF CreateClear
  <2>2. /\ x \in Segment /\ x.creators = old.creators /\ x.sized = old.sized
        /\ x.magic = FALSE
    BY <1>2, Cleared
  <2>3. old.sized
    BY <2>1 DEF BusInv, CreateProgress
  <2> HIDE DEF x
  <2>4. segments' \in [Segments -> Segment] /\ segments'[c_seg] = x
        /\ Numbering' /\ MagicIsLast' /\ OpenProgress'
    BY <1>1, <2>1, <2>2, WriteOwn
  <2> QED
    BY <1>1, <2>1, <2>2, <2>3, <2>4 DEF CreateProgress
<1>6. CASE CreateConfig
  <2> DEFINE x == [old EXCEPT !.session = creates]
  <2>1. segments' = [segments EXCEPT ![c_seg] = x] /\ cpc = "config" /\ cpc' = "magic"
    BY <1>2, <1>6 DEF CreateConfig
  <2>2. /\ x \in Segment /\ x.creators = old.creators /\ x.sized = old.sized
        /\ x.magic = old.magic /\ x.session = creates
    BY <1>2 DEF Segment, BusInv, TypeOK
  <2>3. old.sized /\ (old.creators = 1 => ~old.magic)
    BY <2>1 DEF BusInv, CreateProgress
  <2>4. creates # 0
    BY <1>2, Bounds DEF BusInv, Numbering, Segments, TypeOK
  <2> HIDE DEF x
  <2>5. segments' \in [Segments -> Segment] /\ segments'[c_seg] = x
        /\ Numbering' /\ MagicIsLast' /\ OpenProgress'
    BY <1>1, <2>1, <2>2, <2>3, WriteOwn
  <2> QED
    BY <1>1, <2>1, <2>2, <2>3, <2>4, <2>5 DEF CreateProgress
<1>7. CASE CreateMagic
  <2> DEFINE x == [old EXCEPT !.magic = TRUE]
  <2>1. segments' = [segments EXCEPT ![c_seg] = x] /\ cpc = "magic" /\ cpc' = "ready"
    BY <1>2, <1>7 DEF CreateMagic
  <2>2. /\ x \in Segment /\ x.creators = old.creators /\ x.sized = old.sized
        /\ x.session = old.session
    BY <1>2 DEF Segment
  <2>3. old.sized /\ old.session # 0
    BY <2>1 DEF BusInv, CreateProgress
  <2> HIDE DEF x
  <2>4. segments' \in [Segments -> Segment]
        /\ Numbering' /\ MagicIsLast' /\ OpenProgress'
    BY <1>1, <2>1, <2>2, <2>3, WriteOwn
  <2> QED
    BY <2>1, <2>4 DEF CreateProgress
<1> QED
  BY <1>4, <1>5, <1>6, <1>7

(* What leaves the segments as they are and moves create() only to its end *)
(* or past its mmap: failing calls, a crash, the return and unlink().      *)
LEMMA CreateLeaveStep ==
  ASSUME BusInv,
         (CreateTruncate /\ cpc' = "idle") \/ CreateMap \/ CreatorExit \/ CreatorCrash \/ unlink
  PROVE  BusInv'
<1>1. /\ UNCHANGED <<segments, c_seg, creates, opc, o_seg, mode, expired, o_session, opens>>
      /\ name' \in {name, 0}
  BY DEF CreateTruncate, CreateMap, CreatorExit,
         CreatorCrash, unlink, segVars, createVars, openVars
<1>2. unlinks' \in 0..MaxUnlinks
  BY Bounds DEF BusInv, TypeOK, CreateTruncate, CreateMap, CreatorExit, CreatorCrash, unlink
<1>3. failures' \in 0..MaxFailures
  BY Bounds DEF BusInv, TypeOK, CreateTruncate, CreateMap, CreatorExit, CreatorCrash, unlink, Fail
<1>4. /\ cpc' \in {"idle", "truncate", "map", "clear", "config", "magic", "ready"}
      /\ cpc = "idle" => cpc' = "idle"
  BY DEF BusInv, TypeOK, CreateTruncate, CreateMap, CreatorExit, CreatorCrash, unlink, createVars
<1>5. TypeOK'
  <2>1. expired' \in BOOLEAN
    BY <1>1 DEF BusInv, TypeOK
  <2> QED
    BY <1>1, <1>2, <1>3, <1>4, <2>1 DEF BusInv, TypeOK
<1>6. Numbering' /\ MagicIsLast' /\ OpenProgress'
  <2>1. name' <= creates
    BY <1>1, Bounds DEF BusInv, Numbering, TypeOK
  <2>2. \A s \in Segments : s # 0
    BY Bounds DEF Segments
  <2> QED
    BY <1>1, <1>4, <2>1, <2>2 DEF BusInv, Numbering, MagicIsLast, OpenProgress
<1>7. CreateProgress'
  <2>1. CASE UNCHANGED cpc \/ cpc' \in {"idle", "ready"}
    BY <1>1, <2>1 DEF BusInv, CreateProgress
  <2>2. CASE CreateMap
    BY <1>1, <2>2 DEF BusInv, CreateProgress, CreateMap
  <2>3. CASE CreatorExit \/ CreatorCrash \/ unlink
    BY <2>1, <2>3 DEF CreatorExit, CreatorCrash, unlink, createVars
  <2> QED
    BY <2>1, <2>2, <2>3
<1> QED
  BY <1>5, <1>6, <1>7 DEF BusInv

(* open() reads the segment and writes only its own variables.             *)
LEMMA OpenCallStep ==
  BusInv /\ ((\E m \in Modes : Open(m)) \/ OpenStep \/ Deadline) => BusInv'
<1> SUFFICES ASSUME BusInv, (\E m \in Modes : Open(m)) \/ OpenStep \/ Deadline PROVE BusInv'
  OBVIOUS
<1> USE DEF OpenStep, Open, OpenName, OpenStat, OpenMap, OpenMagic, OpenFaults, Deadline,
            RetryOrThrow, Ended
<1>1. UNCHANGED <<name, segments, cpc, c_seg, creates, unlinks>>
  BY DEF segVars, createVars
<1>2. expired' \in BOOLEAN
  BY DEF BusInv, TypeOK
<1>3. mode' \in {"none", "forever", "limit"} /\ opens' \in 0..MaxOpens /\ failures' \in 0..MaxFailures
  BY BusAssumption, Bounds DEF BusInv, TypeOK, Fail
<1>4. /\ o_seg' \in {0, o_seg, name}
      /\ o_session' \in {0, o_session} \/ (opc = "spin" /\ o_session' = segments[o_seg].session)
  BY DEF BusInv, TypeOK
<1>5. opc' \in {"idle", "open", "stat", "map", "spin", "attached", "failed", "faulted"}
  BY DEF BusInv, TypeOK
<1>6. \/ opc' \in {"idle", "open", "failed"}
      \/ o_seg' = name /\ name # 0 /\ opc' = "stat"
      \/ o_seg' = o_seg /\ opc' = opc
      \/ o_seg' = o_seg /\ opc = "stat" /\ opc' = "map" /\ segments[o_seg].sized
      \/ o_seg' = o_seg /\ opc = "map" /\ opc' = "spin"
      \/ o_seg' = o_seg /\ opc = "spin" /\ opc' = "attached" /\ segments[o_seg].magic
      \/ o_seg' = o_seg /\ opc = "spin" /\ opc' = "faulted" /\ ~segments[o_seg].sized
  <2>1. CASE OpenName
    BY <2>1
  <2>2. CASE OpenStat
    BY <2>2
  <2>3. CASE OpenMap \/ OpenMagic \/ OpenFaults
    BY <2>3
  <2>4. CASE Deadline \/ \E m \in Modes : Open(m)
    BY <2>4
  <2> QED
    BY <2>1, <2>2, <2>3, <2>4
<1> HIDE DEF OpenStep, Open, OpenName, OpenStat, OpenMap, OpenMagic, OpenFaults, Deadline,
             RetryOrThrow, Ended
<1>7. o_seg' \in Segments \cup {0} /\ o_seg' <= creates
  BY <1>4, Bounds DEF BusInv, TypeOK, Numbering
<1>8. o_session' \in 0..MaxCreates
  BY <1>4, Bounds DEF BusInv, TypeOK, Numbering, Segment
<1>9. TypeOK'
  BY <1>1, <1>2, <1>3, <1>5, <1>7, <1>8 DEF BusInv, TypeOK
<1>10. Numbering'
  <2>1. \A s \in Segments : s # 0
    BY Bounds DEF Segments
  <2> QED
    BY <1>1, <1>4, <1>5, <1>6, <1>7, <2>1 DEF BusInv, Numbering
<1>11. CreateProgress' /\ MagicIsLast'
  BY <1>1 DEF BusInv, CreateProgress, MagicIsLast
<1>12. OpenProgress'
  BY <1>1, <1>5, <1>6 DEF BusInv, OpenProgress
<1> QED
  BY <1>9, <1>10, <1>11, <1>12 DEF BusInv

(* The invariant the two theorems below rest on, along every behaviour.    *)
THEOREM BusInvariant == Spec => []BusInv
<1>1. BusInv /\ [Next]_vars => BusInv'
  <2>1. ASSUME BusInv, UNCHANGED vars PROVE BusInv'
    <3>1. TypeOK'
      BY <2>1 DEF BusInv, TypeOK, vars, segVars, createVars, openVars
    <3>2. Numbering'
      BY <2>1 DEF BusInv, Numbering, vars, segVars, createVars, openVars
    <3>3. CreateProgress' /\ MagicIsLast' /\ OpenProgress'
      BY <2>1 DEF BusInv, CreateProgress, MagicIsLast, OpenProgress, vars, segVars, createVars, openVars
    <3> QED
      BY <3>1, <3>2, <3>3 DEF BusInv
  <2> QED
    BY <2>1, CreateOpenStep, CreateWriteStep, CreateLeaveStep, OpenCallStep
    DEF Next, CreateStep, CreateTruncate
<1> QED
  BY BusInit, <1>1, PTL DEF Spec

(* open() spins on the magic word of a segment created once only after the *)
(* segment has its size, and faults there only on one that a second        *)
(* create() has emptied; every variable has its type (SharedBus::create    *)
(* and SharedBus::open).                                                   *)
THEOREM BusCorrect == Spec => []Inv
<1>1. BusInv => Inv
  <2> SUFFICES ASSUME BusInv PROVE Inv
    OBVIOUS
  <2>1. opc \in {"spin", "faulted"} => o_seg \in Segments /\ segments[o_seg].creators >= 1
    BY DEF BusInv, Numbering, TypeOK
  <2>2. o_seg \in Segments => segments[o_seg].creators \in Int
    BY Bounds DEF BusInv, TypeOK, Segment
  <2>3. o_seg \in Segments => o_seg # 0
    BY Bounds DEF Segments
  <2> QED
    BY <2>1, <2>2, <2>3 DEF BusInv, Inv, SpinsInBounds, OpenProgress
<1> QED
  BY <1>1, BusInvariant, PTL

(* A consumer whose open() has returned sees a fully initialised control   *)
(* block for as long as it stays attached, unless a second create() under  *)
(* the same name truncates the segment: crashes of the creator between any *)
(* two of its steps, failing calls and unlink() do not change that.        *)
THEOREM ControlBlockNeverPartial == Spec => []NeverPartial
<1>1. BusInv => NeverPartial
  BY DEF BusInv, NeverPartial, OpenProgress, MagicIsLast, Numbering, TypeOK
<1> QED
  BY <1>1, BusInvariant, PTL
=============================================================================
