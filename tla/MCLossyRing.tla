---------------------------- MODULE MCLossyRing ----------------------------
(***************************************************************************)
(* The lossy ring on a machine that keeps stores and loads in order, with  *)
(* a history variable: had published messages already lapped the consumer  *)
(* when its call of try_pop_lossy began?                                   *)
(***************************************************************************)
EXTENDS LossyRing

VARIABLE lapped

CallBegins == cpc = "idle" /\ cpc' # "idle"

MCInit == Init /\ tso /\ lapped = FALSE

MCNext ==
  /\ Next
  /\ lapped' = IF CallBegins THEN Lapped(write_pos) ELSE lapped

MCSpec == MCInit /\ [][MCNext]_<<vars, lapped>>

(* try_pop_lossy "Sets *overwritten = true if message loss is detected",   *)
(* and the seqlock is there "so the Consumer can detect loss": a call that *)
(* begins when the ring has already overwritten the consumer's position    *)
(* raises the flag before it delivers anything but the successor of the    *)
(* last message.                                                           *)
LossIsDetected ==
  [][delivered' # delivered /\ lapped =>
       overwritten \/ delivered'.body = delivered.body + 1]_<<vars, lapped>>
=============================================================================
