------------------------------ MODULE SpscRing ------------------------------
(***************************************************************************)
(* SpscRingBuffer (include/ring_buffer.hpp), one step per shared access:   *)
(* push() and pop() are each a load of the other side's index, a copy of   *)
(* the slot, and a release store of the own index; size_approx() is two    *)
(* loads.  The producer is the dispatcher thread, the consumer is a shard  *)
(* worker, and the observer is Normalizer::drain_and_stop, which polls     *)
(* size_approx() once the dispatcher is done.                              *)
(*                                                                         *)
(* A release store need not be seen at once by the other thread.  headVis  *)
(* and tailVis are the values the acquire loads return; they follow head   *)
(* and tail in Propagate steps.  Everything a thread did before its store  *)
(* is visible to whoever has seen the store (acquire / release), so the    *)
(* slots themselves need no second copy.                                   *)
(***************************************************************************)
EXTENDS Integers, Sequences

CONSTANTS Capacity,   \* the template parameter, kQueueCapacity in the program
          MaxItems    \* how many items the producer is given; bounds the run

\* The source asks for a power of two (its static_assert); the mask is then
\* the remainder, and the algorithm needs no more than two slots.
ASSUME CapacityAssumption == Capacity \in Nat /\ Capacity >= 2
ASSUME MaxItemsAssumption == MaxItems \in Nat

VARIABLES head,       \* head_: the next slot to fill
          tail,       \* tail_: the next slot to empty
          headVis,    \* head_ as the consumer's acquire load returns it
          tailVis,    \* tail_ as the producer's acquire load returns it
          buffer,     \* buffer_
          ppc,        \* where the producer is in push()
          cpc,        \* where the consumer is in pop()
          opc,        \* where the observer is in its drain loop
          next,       \* the item the producer will push next
          out,        \* the consumer's copy of the slot
          sizeHead,   \* the observer's local h in size_approx()
          pushed,     \* history: items whose push() returned true
          delivered   \* history: items whose pop() returned true

producerVars == <<ppc, next, pushed>>
consumerVars == <<cpc, out, delivered>>
observerVars == <<opc, sizeHead>>
vars == <<head, tail, headVis, tailVis, buffer, producerVars, consumerVars,
          observerVars>>

Slots == 0 .. Capacity - 1
Item == 1 .. MaxItems
NoItem == 0             \* a default-constructed slot

\* Variant: the mask forgotten.
SuccUnmasked(i) == i + 1

\* (i + 1) & kMask
Succ(i) == (i + 1) % Capacity

\* Variant: the mask one too small.
DistanceShortMask(t, h) == (h - t) % (Capacity - 1)

\* (h - t) & kMask, the subtraction being the one of size_t
Distance(t, h) == (h - t) % Capacity

Init ==
  /\ head = 0 /\ tail = 0 /\ headVis = 0 /\ tailVis = 0
  /\ buffer = [i \in Slots |-> NoItem]
  /\ ppc = "idle" /\ cpc = "idle" /\ opc = "waiting"
  /\ next = 1
  /\ out = NoItem
  /\ sizeHead = 0
  /\ pushed = << >> /\ delivered = << >>

(***************************************************************************)
(* push()                                                                  *)
(***************************************************************************)
\* Variant: push() without its full check.
IsFullUnchecked == FALSE

IsFull == Succ(head) = tailVis

PushCheck ==
  /\ ppc = "idle" /\ next \in Item
  /\ ~IsFull
  /\ ppc' = "write"
  /\ UNCHANGED <<head, tail, headVis, tailVis, buffer, next, pushed,
                 consumerVars, observerVars>>

\* push() returns false.  OfflineBooks and the tests call again with the same
\* item; the live receiver goes on with the next one.
PushFull ==
  /\ ppc = "idle" /\ next \in Item
  /\ IsFull
  /\ next' \in {next, next + 1}
  /\ UNCHANGED <<head, tail, headVis, tailVis, buffer, ppc, pushed,
                 consumerVars, observerVars>>

\* Variant: the slot written is the one after head.
PushWriteNextSlot ==
  /\ ppc = "write"
  /\ buffer' = [buffer EXCEPT ![Succ(head)] = next]
  /\ ppc' = "publish"
  /\ UNCHANGED <<head, tail, headVis, tailVis, next, pushed,
                 consumerVars, observerVars>>

PushWrite ==
  /\ ppc = "write"
  /\ buffer' = [buffer EXCEPT ![head] = next]
  /\ ppc' = "publish"
  /\ UNCHANGED <<head, tail, headVis, tailVis, next, pushed,
                 consumerVars, observerVars>>

PushPublish ==
  /\ ppc = "publish"
  /\ head' = Succ(head)
  /\ pushed' = Append(pushed, next)
  /\ next' = next + 1
  /\ ppc' = "idle"
  /\ UNCHANGED <<tail, headVis, tailVis, buffer, consumerVars, observerVars>>

(***************************************************************************)
(* pop()                                                                   *)
(***************************************************************************)
\* Variant: a queue of one item taken for an empty one.
PopCheckLeavesOne ==
  /\ cpc = "idle"
  /\ tail # headVis /\ Succ(tail) # headVis
  /\ cpc' = "read"
  /\ UNCHANGED <<head, tail, headVis, tailVis, buffer, out, delivered,
                 producerVars, observerVars>>

PopCheck ==
  /\ cpc = "idle"
  /\ tail # headVis
  /\ cpc' = "read"
  /\ UNCHANGED <<head, tail, headVis, tailVis, buffer, out, delivered,
                 producerVars, observerVars>>

PopRead ==
  /\ cpc = "read"
  /\ out' = buffer[tail]
  /\ cpc' = "release"
  /\ UNCHANGED <<head, tail, headVis, tailVis, buffer, delivered,
                 producerVars, observerVars>>

\* Variant: all that is visible released after one item was copied.
PopReleaseAll ==
  /\ cpc = "release"
  /\ tail' = headVis
  /\ delivered' = Append(delivered, out)
  /\ cpc' = "idle"
  /\ UNCHANGED <<head, headVis, tailVis, buffer, out, producerVars, observerVars>>

PopRelease ==
  /\ cpc = "release"
  /\ tail' = Succ(tail)
  /\ delivered' = Append(delivered, out)
  /\ cpc' = "idle"
  /\ UNCHANGED <<head, headVis, tailVis, buffer, out, producerVars, observerVars>>

(***************************************************************************)
(* Visibility of the two release stores.                                   *)
(***************************************************************************)
PropagateHead ==
  /\ headVis # head
  /\ headVis' = Succ(headVis)
  /\ UNCHANGED <<head, tail, tailVis, buffer, producerVars, consumerVars,
                 observerVars>>

PropagateTail ==
  /\ tailVis # tail
  /\ tailVis' = Succ(tailVis)
  /\ UNCHANGED <<head, tail, headVis, buffer, producerVars, consumerVars,
                 observerVars>>

(***************************************************************************)
(* drain_and_stop()'s loop over size_approx().  It runs in the producer's  *)
(* thread, or in one that joined it, after the last dispatch: it sees head *)
(* as it is, and a tail at least as new as the one the producer has seen.  *)
(***************************************************************************)
ProducerDone == ppc = "idle" /\ next \notin Item

SizeLoadHead ==
  /\ opc = "waiting" /\ ProducerDone
  /\ sizeHead' = head
  /\ opc' = "loadTail"
  /\ UNCHANGED <<head, tail, headVis, tailVis, buffer, producerVars, consumerVars>>

SizeLoadTail ==
  /\ opc = "loadTail"
  /\ opc' = IF Distance(tailVis, sizeHead) > 0 THEN "waiting" ELSE "drained"
  /\ UNCHANGED <<head, tail, headVis, tailVis, buffer, sizeHead,
                 producerVars, consumerVars>>

\* The drain loop is over; the worker goes on polling an empty queue.
Quiescent ==
  /\ opc = "drained" /\ cpc = "idle" /\ tail = headVis
  /\ UNCHANGED vars

Producer == PushCheck \/ PushFull \/ PushWrite \/ PushPublish
Consumer == PopCheck \/ PopRead \/ PopRelease
Observer == SizeLoadHead \/ SizeLoadTail

Next == Producer \/ Consumer \/ Observer \/ PropagateHead \/ PropagateTail
        \/ Quiescent

Spec == Init /\ [][Next]_vars

\* Each thread keeps running, and a store to an atomic becomes visible to
\* other threads in a finite time.
FairSpec ==
  /\ Spec
  /\ WF_vars(Producer) /\ WF_vars(Consumer) /\ WF_vars(Observer)
  /\ WF_vars(PropagateHead) /\ WF_vars(PropagateTail)

-----------------------------------------------------------------------------
\* Every index stays a slot number, every slot holds an item, and the
\* program counters are the ones push(), pop() and the drain loop have.
TypeOK ==
  /\ head \in Slots /\ tail \in Slots /\ headVis \in Slots /\ tailVis \in Slots
  /\ buffer \in [Slots -> Nat]
  /\ ppc \in {"idle", "write", "publish"}
  /\ cpc \in {"idle", "read", "release"}
  /\ opc \in {"waiting", "loadTail", "drained"}
  /\ next \in Nat /\ out \in Nat /\ sizeHead \in Slots
  /\ pushed \in Seq(Nat) /\ delivered \in Seq(Nat)

\* The copies `buffer_[head] = item` and `out = buffer_[tail]` are plain memory
\* accesses: a race on one slot would be undefined behaviour.  While the
\* producer may write a slot, the consumer may not be reading that slot.
NoSlotRace ==
  ppc \in {"write", "publish"} /\ cpc \in {"read", "release"} => head # tail

\* What push() accepted is handed out by pop() in the order it was accepted,
\* nothing invented, repeated, skipped or overwritten before it was read.
FifoOrder ==
  /\ Len(delivered) <= Len(pushed)
  /\ \A i \in 1 .. Len(delivered) : delivered[i] = pushed[i]

\* "drain_and_stop ... once all messages have been dispatched": when the drain
\* loop ends, every accepted item has been copied out of the queue, even though
\* size_approx() loads the two indices one after the other, works modulo the
\* capacity and may see a tail that is behind.
DrainComplete == opc = "drained" => delivered = pushed

\* The drain loop ends: no accepted item is stuck in the queue and neither
\* thread waits for the other for ever, whichever way push() answers.
DrainTerminates == <>(opc = "drained")

\* The abstract queue: the items between tail and head, oldest first.
Abstract == INSTANCE BoundedFifo WITH
  Items <- Item,
  Room  <- Capacity - 1,
  queue <- [k \in 1 .. Distance(tail, head) |-> buffer[(tail + k - 1) % Capacity]]

\* Slots, indices and delayed visibility implement the bounded queue.
ImplementsFifo == Abstract!FifoSpec
=============================================================================
