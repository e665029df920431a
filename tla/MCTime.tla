------------------------------- MODULE MCTime -------------------------------
(***************************************************************************)
(* The two components that do arithmetic with time, TimerWheel and         *)
(* TscClock, for TLC.  They share no state: a behaviour is one of the      *)
(* wheel or one of the clock, chosen at its start, and leaves the other as *)
(* it was created.                                                         *)
(***************************************************************************)
EXTENDS TimerWheel, TscClock

VARIABLE subject

timeVars == <<vars, allVars, subject>>

MCInit ==
  /\ Init /\ ClockInit
  /\ subject \in {"wheel", "clock"} /\ (subject = "wheel" => time = 1)

MCNext ==
  /\ UNCHANGED subject
  /\ \/ subject = "wheel" /\ Next /\ UNCHANGED allVars
     \/ subject = "clock" /\ ClockNext /\ UNCHANGED vars

MCSpec == MCInit /\ [][MCNext]_timeVars
=============================================================================
