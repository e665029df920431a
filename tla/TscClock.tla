------------------------------ MODULE TscClock ------------------------------
(***************************************************************************)
(* TscClock (common/tsc_clock.hpp): one thread constructs the clock and    *)
(* recalibrates it, another stamps events with the TSC and converts the    *)
(* stamps later.  `time' is real time in units of which the TSC counts     *)
(* exactly one, so ghz_ should come out as 1; CLOCK_REALTIME is time plus  *)
(* an offset that NTP moves.  Any time may pass between two steps.         *)
(*                                                                         *)
(* The two atomics are kept as versions: a load returns some version that  *)
(* is not older than what the reader has learnt through an acquire load of *)
(* the other one.  Floating-point quotients are rounded down to whole      *)
(* units.                                                                  *)
(***************************************************************************)
EXTENDS Integers, Sequences

CONSTANTS
  PerSecond,   (* units in a second: 10^9 ns in the code                   *)
  SpinTime,    (* how long calibrate_ghz spins: 50 ms                      *)
  Modulus,     (* 2^64                                                     *)
  MaxTime, MaxAdjust, MaxSnaps  (* bounds                                  *)

ASSUME ClockAssumption ==
  /\ PerSecond \in Nat /\ SpinTime \in 1..PerSecond
  /\ Modulus \in Nat /\ MaxTime \in Nat /\ PerSecond < Modulus /\ MaxTime < Modulus
  /\ MaxAdjust \in Nat /\ MaxSnaps \in Nat \ {0}

VARIABLES
  time,
  offset, adjusted,  (* CLOCK_REALTIME - time, and how much NTP moved it   *)
  pc,                (* the constructing and recalibrating thread          *)
  t0, tsc0,          (* the first two readings of calibrate_ghz; in        *)
                     (* snap_correlation w0 and the time it was read       *)
  elapsed, ticks,    (* ghz_ = ticks / elapsed                             *)
  snaps,             (* the correlations so far: tsc and wall, and for the *)
                     (* properties how long the snap took, `adjusted' at   *)
                     (* its start and by how much that moved during it     *)
  tsc_ver, wall_ver, (* versions of tsc_base_ and wall_base_ns_            *)
  behind,            (* behind[v]: wall_ver when tsc_base_ got version v   *)
  rpc, stamp, wall,  (* the reader, its stamp and the wall time of it      *)
  stamp_adjusted,    (* `adjusted' at the stamp                            *)
  rtsc, rwall        (* the versions its loads returned                    *)

clockVars == <<time, offset, adjusted>>
calVars == <<t0, tsc0, elapsed, ticks>>
baseVars == <<snaps, tsc_ver, wall_ver, behind>>
readVars == <<rpc, stamp, wall, stamp_adjusted, rtsc, rwall>>
allVars == <<clockVars, pc, calVars, baseVars, readVars>>

ClockInit ==
  /\ time \in 1..PerSecond /\ offset = PerSecond /\ adjusted = 0
  /\ pc = "raw0"
  /\ t0 = 0 /\ tsc0 = 0 /\ elapsed = 0 /\ ticks = 0
  /\ snaps = <<>> /\ tsc_ver = 0 /\ wall_ver = 0 /\ behind = <<>>
  /\ rpc = "idle" /\ stamp = 0 /\ wall = 0 /\ stamp_adjusted = 0 /\ rtsc = 0 /\ rwall = 0

(* A timespec.                                                             *)
Sec(t) == t \div PerSecond
Nsec(t) == t % PerSecond

TimePasses ==
  /\ time < MaxTime /\ time' = time + 1
  /\ UNCHANGED <<offset, adjusted, pc, calVars, baseVars, readVars>>

NtpAdjusts ==
  /\ adjusted < MaxAdjust /\ adjusted' = adjusted + 1
  /\ offset' \in {offset - 1, offset + 1}
  /\ UNCHANGED <<time, pc, calVars, baseVars, readVars>>

-----------------------------------------------------------------------------
(***************************************************************************)
(* calibrate_ghz()                                                         *)
(***************************************************************************)
Raw0 ==
  /\ pc = "raw0" /\ pc' = "tsc0"
  /\ t0' = time
  /\ UNCHANGED <<clockVars, tsc0, elapsed, ticks, baseVars, readVars>>

Tsc0 ==
  /\ pc = "tsc0" /\ pc' = "spin"
  /\ tsc0' = time
  /\ UNCHANGED <<clockVars, t0, elapsed, ticks, baseVars, readVars>>

(* Mutant: the nanoseconds of the target are not carried.                  *)
TargetUncarried == <<Sec(t0), Nsec(t0) + SpinTime>>

(* target                                                                  *)
Target ==
  LET nsec == Nsec(t0) + SpinTime IN
    IF nsec >= PerSecond THEN <<Sec(t0) + 1, nsec - PerSecond>> ELSE <<Sec(t0), nsec>>

(* t1 is the last reading of the loop.  The arithmetic is unsigned.        *)
Spun ==
  /\ pc = "spin" /\ pc' = "tsc1"
  /\ ~(Sec(time) < Target[1] \/ (Sec(time) = Target[1] /\ Nsec(time) < Target[2]))
  /\ elapsed' = ((Sec(time) - Sec(t0)) * PerSecond + Nsec(time) - Nsec(t0)) % Modulus
  /\ UNCHANGED <<clockVars, t0, tsc0, ticks, baseVars, readVars>>

Tsc1 ==
  /\ pc = "tsc1" /\ pc' = "snap0"
  /\ ticks' = time - tsc0 /\ t0' = 0 /\ tsc0' = 0
  /\ UNCHANGED <<clockVars, elapsed, baseVars, readVars>>

-----------------------------------------------------------------------------
(***************************************************************************)
(* snap_correlation(), the constructor and recalibrate().                  *)
(***************************************************************************)
RealTime == time + offset

recalibrate ==
  /\ pc = "idle" /\ pc' = "snap0" /\ Len(snaps) < MaxSnaps
  /\ UNCHANGED <<clockVars, calVars, baseVars, readVars>>

Snap0 ==
  /\ pc = "snap0" /\ pc' = "snaptsc"
  /\ t0' = RealTime /\ tsc0' = time
  /\ snaps' = Append(snaps, [tsc |-> 0, wall |-> 0, width |-> 0,
                             adjusted |-> adjusted, moved |-> 0])
  /\ UNCHANGED <<clockVars, elapsed, ticks, tsc_ver, wall_ver, behind, readVars>>

SnapTsc ==
  /\ pc = "snaptsc" /\ pc' = "snap1"
  /\ snaps' = [snaps EXCEPT ![Len(snaps)].tsc = time]
  /\ UNCHANGED <<clockVars, calVars, tsc_ver, wall_ver, behind, readVars>>

Snap1 ==
  /\ pc = "snap1" /\ pc' = "store1"
  /\ snaps' = [snaps EXCEPT ![Len(snaps)].wall = (t0 + RealTime) \div 2,
                            ![Len(snaps)].width = time - tsc0,
                            ![Len(snaps)].moved = adjusted - snaps[Len(snaps)].adjusted]
  /\ t0' = 0 /\ tsc0' = 0
  /\ UNCHANGED <<clockVars, elapsed, ticks, tsc_ver, wall_ver, behind, readVars>>

StoreTsc ==
  /\ tsc_ver' = Len(snaps) /\ behind' = Append(behind, wall_ver)
  /\ UNCHANGED wall_ver
StoreWall ==
  /\ wall_ver' = Len(snaps)
  /\ UNCHANGED <<tsc_ver, behind>>

(* Mutant: recalibrate() stores in the order of the constructor.           *)
WallFirstNever == FALSE

(* recalibrate() stores wall_base_ns_ first, the constructor tsc_base_.    *)
WallFirst == Len(snaps) > 1

Store1 ==
  /\ pc = "store1" /\ pc' = "store2"
  /\ IF WallFirst THEN StoreWall ELSE StoreTsc
  /\ UNCHANGED <<clockVars, calVars, snaps, readVars>>

Store2 ==
  /\ pc = "store2" /\ pc' = "idle"
  /\ IF WallFirst THEN StoreTsc ELSE StoreWall
  /\ UNCHANGED <<clockVars, calVars, snaps, readVars>>

-----------------------------------------------------------------------------
(***************************************************************************)
(* now_tsc() and to_wall_ns() by a thread that has the constructed clock.  *)
(* One stamp is followed; earlier ones would only make its loads fresher.  *)
(***************************************************************************)
Constructed == Len(snaps) > 1 \/ pc = "idle"

now_tsc ==
  /\ rpc = "idle" /\ rpc' = "stamped" /\ Constructed
  /\ stamp' = time /\ wall' = RealTime /\ stamp_adjusted' = adjusted
  /\ UNCHANGED <<clockVars, pc, calVars, baseVars, rtsc, rwall>>

LoadTsc(v) ==
  /\ rpc = "stamped" /\ rpc' = "loaded"
  /\ v \in 1..tsc_ver
  /\ rtsc' = v
  /\ UNCHANGED <<clockVars, pc, calVars, baseVars, stamp, wall, stamp_adjusted, rwall>>

LoadWall(v) ==
  /\ rpc = "loaded" /\ rpc' = "converted"
  /\ v \in 1..wall_ver /\ v >= behind[rtsc]
  /\ rwall' = v
  /\ UNCHANGED <<clockVars, pc, calVars, baseVars, stamp, wall, stamp_adjusted, rtsc>>

(* What to_wall_ns returns: the difference of two uint64_t, divided by     *)
(* ghz_, added to the wall time.                                           *)
Converted ==
  snaps[rwall].wall + (((stamp - snaps[rtsc].tsc) % Modulus) * elapsed) \div ticks

-----------------------------------------------------------------------------
ClockNext ==
  \/ TimePasses \/ NtpAdjusts
  \/ Raw0 \/ Tsc0 \/ Spun \/ Tsc1
  \/ recalibrate \/ Snap0 \/ SnapTsc \/ Snap1 \/ Store1 \/ Store2
  \/ now_tsc \/ \E v \in 1..MaxSnaps : LoadTsc(v) \/ LoadWall(v)

ClockSpec == ClockInit /\ [][ClockNext]_allVars

-----------------------------------------------------------------------------
Abs(n) == IF n < 0 THEN -n ELSE n

(* The frequency is measured over the whole 50 ms and divided by the time  *)
(* that really passed, also when the spin crosses the end of a second      *)
(* (tsc_clock.hpp:124-142).                                                *)
CalibrationSpans ==
  pc = "tsc1" => elapsed >= SpinTime /\ elapsed <= time - t0

(* How far a conversion may be off: half the duration of the snap and what *)
(* NTP did meanwhile, what NTP did between the snap and the stamp, and the *)
(* error of ghz_ over the time from the base to the stamp.                 *)
Tolerance ==
  (snaps[rwall].width + snaps[rwall].moved + 1) \div 2 + Abs(stamp_adjusted - snaps[rwall].adjusted)
    + 1 + ((stamp - snaps[rtsc].tsc) * Abs(ticks - elapsed)) \div ticks

(* A conversion that runs while the clock is recalibrated never yields a   *)
(* time before the event's, and is ahead of it by at most the time between *)
(* the two correlations it has mixed: 0 if it has seen a whole pair        *)
(* (tsc_clock.hpp:67-72, :86-94).  Stated for stamps not older than the    *)
(* base they are converted with, and a ghz_ that is not 0, as it is if the *)
(* thread was suspended for the whole spin between its first two readings. *)
ConversionBounded ==
  rpc = "converted" /\ stamp >= snaps[rtsc].tsc /\ ticks > 0 =>
    LET error == Converted - wall
        mixed == snaps[rwall].tsc - snaps[rtsc].tsc
    IN -Tolerance <= error /\ error <= mixed + Tolerance

(* recalibrate() says of a reader that mixes two correlations that it adds *)
(* "a tiny offset (<< 1us)" (tsc_clock.hpp:88-90): with an exact ghz_ a    *)
(* conversion is off by at most a microsecond more than the tolerance of a *)
(* whole pair.                                                             *)
MixingIsHarmless ==
  rpc = "converted" /\ stamp >= snaps[rtsc].tsc /\ ticks > 0 /\ ticks = elapsed =>
    Abs(Converted - wall) <= Tolerance + PerSecond \div 1000000
=============================================================================
