---------------------------- MODULE BoundedFifo ----------------------------
(***************************************************************************)
(* What the message bus promises its two users: a first-in first-out queue *)
(* of at most Capacity messages.  push() appends one message, pop() takes  *)
(* the oldest one, and nothing else, a crash of either process included,   *)
(* changes the queue.                                                      *)
(***************************************************************************)
EXTENDS Naturals, Sequences

CONSTANTS Message,   (* the messages the bus can carry                     *)
          NoMessage, (* the value of `popped' before the first pop         *)
          Capacity   (* the number of messages that fit                    *)

VARIABLES queue,     (* the messages pushed and not popped yet             *)
          popped     (* the message the last pop returned                  *)

fifoVars == <<queue, popped>>

FifoInit ==
  /\ queue = <<>>
  /\ popped = NoMessage

Push(m) ==
  /\ Len(queue) < Capacity
  /\ queue' = Append(queue, m)
  /\ UNCHANGED popped

Pop ==
  /\ queue # <<>>
  /\ popped' = Head(queue)
  /\ queue' = Tail(queue)

FifoNext == Pop \/ \E m \in Message : Push(m)

FifoSpec == FifoInit /\ [][FifoNext]_fifoVars
=============================================================================
