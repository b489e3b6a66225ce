---------------------------- MODULE BoundedFifo ----------------------------
(***************************************************************************)
(* What include/ring_buffer.hpp promises its two users: a first-in         *)
(* first-out queue of bounded length.  There are no indices, no slots and  *)
(* no threads here; SpscRing is the implementation, and SpscRing maps its  *)
(* indices and slots to these variables.                                   *)
(***************************************************************************)
EXTENDS Naturals, Sequences

CONSTANTS Items,    \* what can be queued
          Room      \* the most items the queue may hold at once

VARIABLES queue,      \* the items accepted and not yet handed out, oldest first
          delivered   \* the items handed out, in the order they were handed out

fifoVars == <<queue, delivered>>

FifoInit ==
  /\ queue = << >>
  /\ delivered = << >>

Put(item) ==
  /\ Len(queue) < Room
  /\ queue' = Append(queue, item)
  /\ UNCHANGED delivered

Get ==
  /\ queue # << >>
  /\ delivered' = Append(delivered, Head(queue))
  /\ queue' = Tail(queue)

FifoNext == Get \/ \E item \in Items : Put(item)

FifoSpec == FifoInit /\ [][FifoNext]_fifoVars
=============================================================================
