--------------------------- MODULE SpscRingProofs ---------------------------
(***************************************************************************)
(* The safety of SpscRing for every capacity and every number of items.    *)
(***************************************************************************)
EXTENDS SpscRing, SequenceTheorems, TLAPS

\* Distance without the remainder: how far h is ahead of t, going round.
Gap(t, h) == IF h >= t THEN h - t ELSE h - t + Capacity

\* The index arithmetic under the mask: the successor wraps at the end.
LEMMA SuccWraps ==
  ASSUME NEW i \in Slots
  PROVE  Succ(i) = IF i = Capacity - 1 THEN 0 ELSE i + 1
BY CapacityAssumption DEF Succ, Slots

\* The masked difference of two indices is the gap between them.
LEMMA DistanceIsGap ==
  ASSUME NEW t \in Slots, NEW h \in Slots
  PROVE  Distance(t, h) = Gap(t, h)
BY CapacityAssumption DEF Distance, Gap, Slots

\* A gap is below the capacity, and zero only between equal indices.
LEMMA GapBounds ==
  ASSUME NEW a \in Slots, NEW b \in Slots
  PROVE  Gap(a, b) \in Slots /\ (Gap(a, b) = 0 <=> a = b)
BY CapacityAssumption DEF Gap, Slots

\* Advancing the near end closes the gap by one: what a pop does.
LEMMA GapShrinks ==
  ASSUME NEW a \in Slots, NEW b \in Slots, a # b
  PROVE  Gap(Succ(a), b) = Gap(a, b) - 1
BY SuccWraps, CapacityAssumption DEF Gap, Slots

\* Advancing the far end opens the gap by one, unless it is as wide as it can
\* be: what a push does, and what its full check finds.
LEMMA GapGrows ==
  ASSUME NEW a \in Slots, NEW b \in Slots
  PROVE  /\ Succ(b) # a <=> Gap(a, b) < Capacity - 1
         /\ Succ(b) # a => Gap(a, Succ(b)) = Gap(a, b) + 1
BY SuccWraps, CapacityAssumption DEF Gap, Slots

\* Going backwards is going almost all the way round.
LEMMA GapBack ==
  ASSUME NEW a \in Slots
  PROVE  Gap(Succ(a), a) = Capacity - 1
BY SuccWraps, CapacityAssumption DEF Gap, Slots

\* If b, c and d come in this order after a, the gaps from b add up too.
LEMMA GapTriangle ==
  ASSUME NEW a \in Slots, NEW b \in Slots, NEW c \in Slots, NEW d \in Slots,
         Gap(a, b) + Gap(b, c) + Gap(c, d) = Gap(a, d)
  PROVE  Gap(b, d) = Gap(b, c) + Gap(c, d)
BY CapacityAssumption DEF Gap, Slots

-----------------------------------------------------------------------------
(***************************************************************************)
(* The inductive invariant.  Going round the ring from the tail the        *)
(* producer has seen one meets, in this order, the tail, the head the      *)
(* consumer has seen and the head; the slots from tail to head hold what   *)
(* was pushed and not yet delivered.  NoSlotRace alone is not inductive:   *)
(* it needs to know that the producer's view of tail is behind tail and    *)
(* not past it, and DrainComplete needs the contents.                      *)
(***************************************************************************)
IndexOrder ==
  Gap(tailVis, tail) + Gap(tail, headVis) + Gap(headVis, head)
    = Gap(tailVis, head)

ProducerHasRoom ==
  ppc \in {"write", "publish"} => Succ(head) # tailVis

ConsumerHasItem ==
  cpc \in {"read", "release"} => tail # headVis

ObserverAfterProducer ==
  /\ next >= 1
  /\ opc \in {"loadTail", "drained"} => ProducerDone /\ sizeHead = head
  /\ opc = "drained" => tailVis = head

Contents ==
  /\ Len(pushed) = Len(delivered) + Gap(tail, head)
  /\ \A s \in Slots : Gap(tail, s) < Gap(tail, head)
        => buffer[s] = pushed[Len(delivered) + Gap(tail, s) + 1]
  /\ ppc = "publish" => buffer[head] = next
  /\ cpc = "release" => out = buffer[tail]

IndexInv == TypeOK /\ IndexOrder /\ ProducerHasRoom /\ ConsumerHasItem
            /\ ObserverAfterProducer

\* Every index, counter, slot and history keeps its type under every step.
LEMMA TypeStep ==
  ASSUME TypeOK, [Next]_vars
  PROVE  TypeOK'
<1>1. \A i \in Slots : Succ(i) \in Slots
  BY SuccWraps, CapacityAssumption DEF Slots
<1> USE <1>1 DEF TypeOK
<1>2. CASE PushCheck BY <1>2 DEF PushCheck, consumerVars, observerVars
<1>3. CASE PushFull
  BY <1>3 DEF PushFull, Item, consumerVars, observerVars
<1>4. CASE PushWrite BY <1>4 DEF PushWrite, consumerVars, observerVars
<1>5. CASE PushPublish BY <1>5 DEF PushPublish, consumerVars, observerVars
<1>6. CASE PopCheck BY <1>6 DEF PopCheck, producerVars, observerVars
<1>7. CASE PopRead BY <1>7 DEF PopRead, producerVars, observerVars
<1>8. CASE PopRelease BY <1>8 DEF PopRelease, producerVars, observerVars
<1>9. CASE PropagateHead
  BY <1>9 DEF PropagateHead, producerVars, consumerVars, observerVars
<1>10. CASE PropagateTail
  BY <1>10 DEF PropagateTail, producerVars, consumerVars, observerVars
<1>11. CASE SizeLoadHead BY <1>11 DEF SizeLoadHead, producerVars, consumerVars
<1>12. CASE SizeLoadTail BY <1>12 DEF SizeLoadTail, producerVars, consumerVars
<1>13. CASE UNCHANGED vars
  BY <1>13 DEF vars, producerVars, consumerVars, observerVars
<1> QED
  BY <1>2, <1>3, <1>4, <1>5, <1>6, <1>7, <1>8, <1>9, <1>10, <1>11, <1>12,
     <1>13 DEF Next, Producer, Consumer, Observer, Quiescent

\* TypeOK holds in every state of every behaviour.
THEOREM TypeCorrect == Spec => []TypeOK
<1>1. Init => TypeOK
  BY CapacityAssumption DEF Init, TypeOK, Slots, NoItem
<1>2. TypeOK /\ [Next]_vars => TypeOK'
  BY TypeStep
<1> QED BY <1>1, <1>2, PTL DEF Spec

\* The order of the four indices, the room the producer reserved and the item
\* the consumer found are preserved by every step.
LEMMA IndexInvStep ==
  ASSUME IndexInv, [Next]_vars
  PROVE  IndexInv'
<1>1. TypeOK'
  BY TypeStep DEF IndexInv
<1>2. \A i \in Slots : Succ(i) \in Slots
  BY SuccWraps, CapacityAssumption DEF Slots
<1>3. /\ Gap(tailVis, tail) \in 0 .. Capacity - 1 /\ (Gap(tailVis, tail) = 0 <=> tailVis = tail)
      /\ Gap(tail, headVis) \in 0 .. Capacity - 1 /\ (Gap(tail, headVis) = 0 <=> tail = headVis)
      /\ Gap(headVis, head) \in 0 .. Capacity - 1 /\ (Gap(headVis, head) = 0 <=> headVis = head)
      /\ Gap(tailVis, head) \in 0 .. Capacity - 1 /\ (Gap(tailVis, head) = 0 <=> tailVis = head)
  BY GapBounds DEF IndexInv, TypeOK, Slots
<1>4. \A a, b \in Slots : a # b => Gap(Succ(a), b) = Gap(a, b) - 1
  BY GapShrinks
<1>5. \A a, b \in Slots :
        /\ Succ(b) # a <=> Gap(a, b) < Capacity - 1
        /\ Succ(b) # a => Gap(a, Succ(b)) = Gap(a, b) + 1
  BY GapGrows
<1>6. Capacity \in Nat
  BY CapacityAssumption
<1> SUFFICES (IndexOrder /\ ProducerHasRoom /\ ConsumerHasItem
              /\ ObserverAfterProducer)'
  BY <1>1 DEF IndexInv
<1> USE <1>2, <1>3, <1>6 DEF IndexInv, TypeOK, IndexOrder, ProducerHasRoom,
        ConsumerHasItem, ObserverAfterProducer
<1>7. CASE PushCheck
  BY <1>7 DEF PushCheck, consumerVars, observerVars, IsFull, Item, ProducerDone
<1>8. CASE PushFull
  BY <1>8 DEF PushFull, consumerVars, observerVars, Item, ProducerDone
<1>9. CASE PushWrite
  BY <1>9 DEF PushWrite, consumerVars, observerVars, ProducerDone
<1>10. CASE PushPublish
  <2> USE <1>10 DEF PushPublish, consumerVars, observerVars
  <2>1. Gap(tailVis, Succ(head)) = Gap(tailVis, head) + 1
    BY <1>5
  <2>2. Gap(headVis, head) < Capacity - 1
    BY <1>5
  <2>3. Gap(headVis, Succ(head)) = Gap(headVis, head) + 1
    BY <1>5, <2>2
  <2>4. IndexOrder'
    BY <2>1, <2>3
  <2>5. (ProducerHasRoom /\ ConsumerHasItem /\ ObserverAfterProducer)'
    BY DEF ProducerDone
  <2> QED BY <2>4, <2>5
<1>11. CASE PopCheck
  BY <1>11 DEF PopCheck, producerVars, observerVars, ProducerDone
<1>12. CASE PopRead
  BY <1>12 DEF PopRead, producerVars, observerVars, ProducerDone
<1>13. CASE PopRelease
  <2> USE <1>13 DEF PopRelease, producerVars, observerVars
  <2>1. Gap(Succ(tail), headVis) = Gap(tail, headVis) - 1
    BY <1>4
  <2>2. Gap(tailVis, tail) < Capacity - 1
    BY SMTT(30)
  <2>3. Gap(tailVis, Succ(tail)) = Gap(tailVis, tail) + 1
    BY <1>5, <2>2
  <2>4. IndexOrder'
    BY <2>1, <2>3
  <2>5. (ProducerHasRoom /\ ConsumerHasItem /\ ObserverAfterProducer)'
    BY DEF ProducerDone
  <2> QED BY <2>4, <2>5
<1>14. CASE PropagateHead
  <2> USE <1>14 DEF PropagateHead, producerVars, consumerVars, observerVars
  <2>1. Gap(Succ(headVis), head) = Gap(headVis, head) - 1
    BY <1>4
  <2>2. Gap(tail, headVis) < Capacity - 1
    BY SMTT(30)
  <2>3. Gap(tail, Succ(headVis)) = Gap(tail, headVis) + 1 /\ Succ(headVis) # tail
    BY <1>5, <2>2
  <2>4. IndexOrder'
    BY <2>1, <2>3
  <2>5. (ProducerHasRoom /\ ConsumerHasItem /\ ObserverAfterProducer)'
    BY <2>3 DEF ProducerDone
  <2> QED BY <2>4, <2>5
<1>15. CASE PropagateTail
  <2> USE <1>15 DEF PropagateTail, producerVars, consumerVars, observerVars
  <2>1. tailVis # head
    OBVIOUS
  <2>2. /\ Gap(Succ(tailVis), tail) = Gap(tailVis, tail) - 1
        /\ Gap(Succ(tailVis), head) = Gap(tailVis, head) - 1
    BY <1>4, <2>1
  <2>3. IndexOrder'
    BY <2>2
  <2>4. ProducerHasRoom'
    BY <1>5, <2>2, SMTT(30)
  <2>5. (ConsumerHasItem /\ ObserverAfterProducer)'
    BY <2>1 DEF ProducerDone
  <2> QED BY <2>3, <2>4, <2>5
<1>16. CASE SizeLoadHead
  BY <1>16 DEF SizeLoadHead, producerVars, consumerVars, Item, ProducerDone
<1>17. CASE SizeLoadTail
  <2> USE <1>17 DEF SizeLoadTail, producerVars, consumerVars
  <2>1. (IndexOrder /\ ProducerHasRoom /\ ConsumerHasItem)'
    OBVIOUS
  <2>2. ~(Distance(tailVis, sizeHead) > 0) => tailVis = sizeHead
    BY DistanceIsGap
  <2>3. ObserverAfterProducer'
    BY <2>2 DEF ProducerDone
  <2> QED BY <2>1, <2>3
<1>18. CASE UNCHANGED vars
  BY <1>18 DEF vars, producerVars, consumerVars, observerVars, ProducerDone
<1> QED
  BY <1>7, <1>8, <1>9, <1>10, <1>11, <1>12, <1>13, <1>14, <1>15, <1>16, <1>17, <1>18
     DEF Next, Producer, Consumer, Observer, Quiescent

\* No step loses, repeats or reorders what is between tail and head.
LEMMA ContentsStep ==
  ASSUME IndexInv, IndexInv', Contents, FifoOrder, [Next]_vars
  PROVE  Contents' /\ FifoOrder'
<1>1. \A a, b \in Slots : /\ Gap(a, b) \in 0 .. Capacity - 1
                          /\ (Gap(a, b) = 0 <=> a = b)
  BY GapBounds DEF Slots
<1>2. /\ Capacity \in Nat
      /\ pushed \in Seq(Nat) /\ Len(pushed) \in Nat
      /\ delivered \in Seq(Nat) /\ Len(delivered) \in Nat
      /\ head \in Slots /\ tail \in Slots /\ headVis \in Slots
      /\ tailVis \in Slots /\ next \in Nat /\ out \in Nat
  BY CapacityAssumption, LenProperties DEF IndexInv, TypeOK
<1>3. \A a, b, c \in Slots : Gap(a, b) = Gap(a, c) => b = c
  BY CapacityAssumption DEF Gap, Slots
<1>4. \A i \in Slots : Succ(i) \in Slots
  BY SuccWraps, CapacityAssumption DEF Slots
<1>5. /\ Gap(tailVis, tail) \in 0 .. Capacity - 1
      /\ Gap(tail, headVis) \in 0 .. Capacity - 1
      /\ Gap(headVis, head) \in 0 .. Capacity - 1
      /\ Gap(tailVis, head) \in 0 .. Capacity - 1
      /\ Gap(tail, head) \in 0 .. Capacity - 1
  BY <1>1, <1>2
<1>6. /\ Gap(tailVis, tail) + Gap(tail, headVis) + Gap(headVis, head)
            = Gap(tailVis, head)
      /\ Gap(tail, head) = Gap(tail, headVis) + Gap(headVis, head)
  <2>1. Gap(tailVis, tail) + Gap(tail, headVis) + Gap(headVis, head)
            = Gap(tailVis, head)
    BY DEF IndexInv, IndexOrder
  <2> QED BY <2>1, <1>2, GapTriangle
<1>7. cpc \in {"read", "release"} => tail # head /\ Gap(tail, head) > 0
  <2> SUFFICES ASSUME cpc \in {"read", "release"}
               PROVE  tail # head /\ Gap(tail, head) > 0
    OBVIOUS
  <2>1. tail # headVis
    BY DEF IndexInv, ConsumerHasItem
  <2>2. Gap(tail, headVis) # 0
    BY <2>1, <1>1, <1>2
  <2>3. Gap(tail, head) > 0
    BY <2>2, <1>2, <1>5, <1>6
  <2> QED BY <2>3, <1>1, <1>2
<1>8. CASE PushPublish
  <2>0. /\ ppc = "publish"
        /\ head' = Succ(head) /\ tail' = tail /\ buffer' = buffer
        /\ pushed' = Append(pushed, next) /\ ppc' = "idle"
        /\ cpc' = cpc /\ out' = out /\ delivered' = delivered
    BY <1>8 DEF PushPublish, consumerVars
  <2>1. Gap(tail, Succ(head)) = Gap(tail, head) + 1
    <3>1. Gap(tailVis, head) < Capacity - 1
      BY <1>2, <2>0, GapGrows DEF IndexInv, ProducerHasRoom
    <3>2. Gap(tail, head) < Capacity - 1
      BY <3>1, <1>2, <1>5, <1>6
    <3> QED BY <3>2, <1>2, GapGrows
  <2>2. /\ Len(pushed') = Len(pushed) + 1
        /\ \A i \in 1 .. Len(pushed) : pushed'[i] = pushed[i]
        /\ pushed'[Len(pushed) + 1] = next
    BY <2>0, <1>2, AppendProperties
  <2>3. Len(pushed') = Len(delivered') + Gap(tail', head')
    BY <2>0, <2>1, <2>2, <1>2, <1>5 DEF Contents
  <2>4. ASSUME NEW s \in Slots, Gap(tail, s) < Gap(tail, Succ(head))
        PROVE  buffer[s] = pushed'[Len(delivered) + Gap(tail, s) + 1]
    <3>1. Gap(tail, s) \in 0 .. Capacity - 1
      BY <1>1, <1>2
    <3>2. CASE s = head
      <4>1. Len(delivered) + Gap(tail, s) + 1 = Len(pushed) + 1
        BY <3>2 DEF Contents
      <4> QED BY <4>1, <3>2, <2>0, <2>2 DEF Contents
    <3>3. CASE s # head
      <4>1. Gap(tail, s) # Gap(tail, head)
        BY <3>3, <1>2, <1>3
      <4>2. Gap(tail, s) < Gap(tail, head)
        BY <2>1, <2>4, <3>1, <4>1, <1>2, <1>5
      <4>3. buffer[s] = pushed[Len(delivered) + Gap(tail, s) + 1]
        BY <4>2 DEF Contents
      <4>4. Len(pushed) = Len(delivered) + Gap(tail, head)
        BY DEF Contents
      <4>5. Len(delivered) + Gap(tail, s) + 1 \in 1 .. Len(pushed)
        BY <4>2, <4>4, <3>1, <1>2, <1>5, SMTT(30)
      <4> QED BY <4>3, <4>5, <2>2
    <3> QED BY <3>2, <3>3
  <2>5. Contents'
    BY <2>0, <2>3, <2>4 DEF Contents
  <2>6. FifoOrder'
    BY <2>0, <2>2, <1>2 DEF FifoOrder
  <2> QED BY <2>5, <2>6
<1>9. CASE PushWrite
  <2>0. /\ buffer' = [buffer EXCEPT ![head] = next] /\ buffer \in [Slots -> Nat]
        /\ head' = head /\ tail' = tail /\ next' = next /\ pushed' = pushed
        /\ cpc' = cpc /\ out' = out /\ delivered' = delivered
    BY <1>9 DEF PushWrite, consumerVars, IndexInv, TypeOK
  <2>1. ASSUME NEW s \in Slots, Gap(tail, s) < Gap(tail, head)
        PROVE  buffer'[s] = buffer[s]
    <3>1. s # head
      BY <2>1, <1>5
    <3> QED BY <3>1, <2>0
  <2>2. cpc = "release" => buffer'[tail] = buffer[tail]
    BY <1>7, <1>2, <2>0
  <2>3. buffer'[head] = next
    BY <1>2, <2>0
  <2>4. Contents'
    BY <2>0, <2>1, <2>2, <2>3 DEF Contents
  <2> QED BY <2>0, <2>4 DEF FifoOrder
<1>10. CASE PopRelease
  <2>0. /\ cpc = "release" /\ cpc' = "idle"
        /\ tail' = Succ(tail) /\ head' = head /\ buffer' = buffer
        /\ delivered' = Append(delivered, out)
        /\ ppc' = ppc /\ next' = next /\ pushed' = pushed
    BY <1>10 DEF PopRelease, producerVars
  <2>1. tail # head /\ Gap(tail, head) > 0
    BY <1>7, <2>0
  <2>2. \A s \in Slots : s # tail => Gap(Succ(tail), s) = Gap(tail, s) - 1
    BY GapShrinks, <1>2
  <2>3. /\ Len(delivered') = Len(delivered) + 1
        /\ \A i \in 1 .. Len(delivered) : delivered'[i] = delivered[i]
        /\ delivered'[Len(delivered) + 1] = out
    BY <2>0, <1>2, AppendProperties
  <2>4. Gap(Succ(tail), head) = Gap(tail, head) - 1
    BY <2>1, <2>2, <1>2
  <2>5. Len(pushed) = Len(delivered) + Gap(tail, head)
    BY DEF Contents
  <2>6. Len(pushed') = Len(delivered') + Gap(tail', head')
    BY <2>0, <2>3, <2>4, <2>5, <1>2, <1>5
  <2>7. ASSUME NEW s \in Slots, Gap(Succ(tail), s) < Gap(Succ(tail), head)
        PROVE  buffer[s] = pushed[Len(delivered') + Gap(Succ(tail), s) + 1]
    <3>1. Gap(Succ(tail), tail) = Capacity - 1
      BY GapBack, <1>2
    <3>2. s # tail
      BY <3>1, <2>4, <2>7, <1>2, <1>5
    <3>3. Gap(tail, s) \in 0 .. Capacity - 1
      BY <1>1, <1>2
    <3>4. Gap(Succ(tail), s) = Gap(tail, s) - 1
      BY <3>2, <2>2
    <3>5. Gap(tail, s) < Gap(tail, head)
      BY <3>3, <3>4, <2>4, <2>7, <1>2, <1>5
    <3>6. Len(delivered') + Gap(Succ(tail), s) + 1
            = Len(delivered) + Gap(tail, s) + 1
      BY <3>3, <3>4, <2>3, <1>2
    <3> QED BY <3>5, <3>6 DEF Contents
  <2>8. Contents'
    BY <2>0, <2>6, <2>7 DEF Contents
  <2>9. out = pushed[Len(delivered) + 1]
    <3>1. Gap(tail, tail) = 0
      BY <1>1, <1>2
    <3>2. buffer[tail] = pushed[Len(delivered) + Gap(tail, tail) + 1]
      BY <3>1, <2>1, <1>2 DEF Contents
    <3>3. Len(delivered) + Gap(tail, tail) + 1 = Len(delivered) + 1
      BY <3>1, <1>2
    <3> QED BY <3>2, <3>3, <2>0 DEF Contents
  <2>10. Len(delivered) + 1 <= Len(pushed)
    BY <2>1, <2>5, <1>2, <1>5
  <2>11. FifoOrder'
    BY <2>0, <2>3, <2>9, <2>10, <1>2 DEF FifoOrder
  <2> QED BY <2>8, <2>11
<1>11. CASE PopRead
  BY <1>11 DEF PopRead, producerVars, observerVars, Contents, FifoOrder
<1>12. CASE PushCheck \/ PushFull \/ PopCheck \/ PropagateHead
            \/ PropagateTail \/ Observer \/ UNCHANGED vars
  BY <1>12 DEF PushCheck, PushFull, PopCheck, PropagateHead, PropagateTail,
     Observer, SizeLoadHead, SizeLoadTail, vars, producerVars, consumerVars,
     observerVars, Contents, FifoOrder
<1> QED
  BY <1>8, <1>9, <1>10, <1>11, <1>12 DEF Next, Producer, Consumer, Quiescent

-----------------------------------------------------------------------------
\* Both halves of the invariant and the order of delivery, which only together
\* are inductive.
RingInv == IndexInv /\ Contents /\ FifoOrder

\* The invariant holds from the first state on.
LEMMA RingInvHolds == Spec => []RingInv
<1>1. Init => RingInv
  <2> SUFFICES ASSUME Init PROVE RingInv
    OBVIOUS
  <2> USE CapacityAssumption DEF Init, Slots, NoItem
  <2>1. TypeOK BY DEF TypeOK
  <2>2. Gap(0, 0) = 0 BY DEF Gap
  <2>3. \A s \in Slots : ~(Gap(0, s) < 0) BY DEF Gap
  <2>4. IndexInv
    BY <2>1, <2>2 DEF IndexInv, IndexOrder, ProducerHasRoom, ConsumerHasItem,
       ObserverAfterProducer
  <2>5. Contents /\ FifoOrder
    BY <2>2, <2>3 DEF Contents, FifoOrder
  <2> QED BY <2>4, <2>5 DEF RingInv
<1>2. RingInv /\ [Next]_vars => RingInv'
  BY IndexInvStep, ContentsStep DEF RingInv
<1> QED BY <1>1, <1>2, PTL DEF Spec

\* push() and pop() never touch the same slot at the same time.
THEOREM RaceFree == Spec => []NoSlotRace
<1>1. RingInv => NoSlotRace
  <2> SUFFICES ASSUME RingInv, ppc \in {"write", "publish"},
                      cpc \in {"read", "release"}
               PROVE  head # tail
    BY DEF NoSlotRace
  <2> USE CapacityAssumption DEF RingInv, IndexInv, IndexOrder, ConsumerHasItem,
          TypeOK, Gap, Slots
  <2> QED OBVIOUS
<1> QED BY <1>1, RingInvHolds, PTL

\* pop() hands out exactly what push() accepted, in that order.
THEOREM InOrder == Spec => []FifoOrder
<1>1. RingInv => FifoOrder
  BY DEF RingInv
<1> QED BY <1>1, RingInvHolds, PTL

\* When the drain loop sees size_approx() = 0, everything accepted has been
\* handed out.
THEOREM DrainIsComplete == Spec => []DrainComplete
<1>1. RingInv => DrainComplete
  <2> SUFFICES ASSUME RingInv, opc = "drained"
               PROVE  delivered = pushed
    BY DEF DrainComplete
  <2> USE DEF RingInv, IndexInv, TypeOK
  <2>1. tail = head
    BY CapacityAssumption DEF IndexOrder, ObserverAfterProducer, Gap, Slots
  <2>2. Gap(tail, head) = 0
    BY <2>1, GapBounds
  <2>3. Len(delivered) = Len(pushed)
    BY <2>2, LenProperties DEF Contents
  <2>4. \A i \in 1 .. Len(delivered) : delivered[i] = pushed[i]
    BY DEF FifoOrder
  <2> HIDE DEF RingInv, IndexInv
  <2> QED BY <2>3, <2>4, SeqEqual DEF RingInv, IndexInv
<1> QED BY <1>1, RingInvHolds, PTL

-----------------------------------------------------------------------------
(***************************************************************************)
(* The refinement.  The abstract queue is read off the slots from tail to  *)
(* head; by Contents it is what was pushed and not yet delivered, and of   *)
(* two histories it is plain what a push and a pop do to it.               *)
(***************************************************************************)
Queued == [k \in 1 .. Distance(tail, head) |-> buffer[(tail + k - 1) % Capacity]]

Undelivered ==
  [k \in 1 .. Len(pushed) - Len(delivered) |-> pushed[Len(delivered) + k]]

QueueAgrees == Queued = Undelivered

\* Once push() has made its check, the item it carries is one it was given.
ItemInHand == ppc # "idle" => next \in Item

LEMMA ItemInHandHolds == Spec => []ItemInHand
<1>1. Init => ItemInHand
  BY DEF Init, ItemInHand
<1>2. ItemInHand /\ [Next]_vars => ItemInHand'
  BY DEF ItemInHand, Next, Producer, Consumer, Observer, Quiescent, vars,
     producerVars, consumerVars, observerVars, PushCheck, PushFull, PushWrite,
     PushPublish, PopCheck, PopRead, PopRelease, PropagateHead, PropagateTail,
     SizeLoadHead, SizeLoadTail
<1> QED BY <1>1, <1>2, PTL DEF Spec

\* The slot k places after a is at distance k from it: the mask loses nothing
\* as long as k stays below the capacity.
LEMMA SlotAhead ==
  ASSUME NEW a \in Slots, NEW k \in Slots
  PROVE  (a + k) % Capacity \in Slots /\ Gap(a, (a + k) % Capacity) = k
<1>1. Capacity \in Nat /\ Capacity >= 2 /\ a \in Nat /\ k \in Nat
      /\ a < Capacity /\ k < Capacity
  BY CapacityAssumption DEF Slots
<1>2. (a + k) % Capacity = IF a + k < Capacity THEN a + k ELSE a + k - Capacity
  BY <1>1
<1> QED BY <1>1, <1>2 DEF Gap, Slots

\* The slots between tail and head hold the undelivered items in their order.
LEMMA QueuedIsUndelivered ==
  ASSUME RingInv
  PROVE  QueueAgrees
<1>1. /\ tail \in Slots /\ head \in Slots /\ Capacity \in Nat
      /\ Len(pushed) \in Nat /\ Len(delivered) \in Nat
  BY CapacityAssumption, LenProperties DEF RingInv, IndexInv, TypeOK
<1>2. Distance(tail, head) = Gap(tail, head) /\ Gap(tail, head) \in Slots
  BY <1>1, DistanceIsGap, GapBounds
<1>3. Len(pushed) - Len(delivered) = Gap(tail, head)
  BY <1>1, <1>2 DEF RingInv, Contents, Slots
<1>4. ASSUME NEW k \in 1 .. Gap(tail, head)
      PROVE  buffer[(tail + k - 1) % Capacity] = pushed[Len(delivered) + k]
  <2>1. k - 1 \in Slots /\ k - 1 < Gap(tail, head)
    BY <1>1, <1>2 DEF Slots
  <2>2. PICK s : s = (tail + (k - 1)) % Capacity
    OBVIOUS
  <2>3. s \in Slots /\ Gap(tail, s) = k - 1
    BY <1>1, <2>1, <2>2, SlotAhead
  <2>4. buffer[s] = pushed[Len(delivered) + Gap(tail, s) + 1]
    BY <2>1, <2>3 DEF RingInv, Contents
  <2>5. Len(delivered) + Gap(tail, s) + 1 = Len(delivered) + k
    BY <1>1, <1>2, <2>3 DEF Slots
  <2>6. tail + (k - 1) = tail + k - 1
    BY <1>1, <1>2 DEF Slots
  <2> QED BY <2>2, <2>4, <2>5, <2>6
<1> QED BY <1>2, <1>3, <1>4 DEF QueueAgrees, Queued, Undelivered

\* The types of the two histories, as the steps below use them.
LEMMA Histories ==
  ASSUME RingInv
  PROVE  /\ pushed \in Seq(Nat) /\ Len(pushed) \in Nat
         /\ delivered \in Seq(Nat) /\ Len(delivered) \in Nat
         /\ Len(delivered) <= Len(pushed)
         /\ Undelivered \in Seq(Nat)
         /\ Len(Undelivered) = Len(pushed) - Len(delivered)
<1>1. /\ pushed \in Seq(Nat) /\ Len(pushed) \in Nat
      /\ delivered \in Seq(Nat) /\ Len(delivered) \in Nat
      /\ Len(delivered) <= Len(pushed)
  BY LenProperties DEF RingInv, IndexInv, TypeOK, FifoOrder
<1>2. PICK n \in Nat : n = Len(pushed) - Len(delivered)
  BY <1>1
<1>3. \A k \in 1 .. n : pushed[Len(delivered) + k] \in Nat
  <2>1. \A i \in 1 .. Len(pushed) : pushed[i] \in Nat
    BY <1>1, ElementOfSeq
  <2>2. \A k \in 1 .. n : Len(delivered) + k \in 1 .. Len(pushed)
    BY <1>1, <1>2
  <2> QED BY <2>1, <2>2
<1>4. Undelivered \in [1 .. n -> Nat]
  BY <1>2, <1>3 DEF Undelivered
<1>5. Undelivered \in Seq(Nat) /\ Len(Undelivered) = n
  BY <1>4, <1>2, SeqDef, LenProperties
<1> QED BY <1>1, <1>2, <1>5

\* A completed push() puts its item at the end, and there was room for it.
LEMMA PublishPuts ==
  ASSUME RingInv, RingInv', PushPublish
  PROVE  /\ Len(Undelivered) < Capacity - 1
         /\ Undelivered' = Append(Undelivered, next)
<1>1. /\ pushed' = Append(pushed, next) /\ delivered' = delivered
      /\ ppc = "publish" /\ head' = Succ(head) /\ tail' = tail /\ next \in Nat
  BY DEF PushPublish, consumerVars, RingInv, IndexInv, TypeOK
<1>2. /\ pushed \in Seq(Nat) /\ Len(pushed) \in Nat /\ Len(delivered) \in Nat
      /\ Len(delivered) <= Len(pushed) /\ Undelivered \in Seq(Nat)
      /\ Len(Undelivered) = Len(pushed) - Len(delivered)
  BY Histories
<1>3. /\ tail \in Slots /\ head \in Slots /\ Succ(head) \in Slots
      /\ Capacity \in Nat /\ Gap(tail, head) \in Slots
      /\ Gap(tail, Succ(head)) \in Slots
  BY <1>1, GapBounds, CapacityAssumption DEF RingInv, IndexInv, TypeOK
<1>4. PICK longer \in Seq(Nat) : longer = Append(pushed, next)
  BY <1>1, <1>2, AppendProperties
<1>5. /\ Len(longer) = Len(pushed) + 1
      /\ \A i \in 1 .. Len(pushed) : longer[i] = pushed[i]
      /\ longer[Len(pushed) + 1] = next
  BY <1>1, <1>2, <1>4, AppendProperties
<1>6. Len(Undelivered) < Capacity - 1
  <2>1. Len(pushed) = Len(delivered) + Gap(tail, head)
    BY DEF RingInv, Contents
  <2>2. Len(longer) = Len(delivered) + Gap(tail, Succ(head))
    BY <1>1, <1>4 DEF RingInv, Contents
  <2>3. PICK now \in Nat, then \in Nat :
           now = Gap(tail, head) /\ then = Gap(tail, Succ(head))
    BY <1>3 DEF Slots
  <2>4. then < Capacity
    BY <1>3, <2>3 DEF Slots
  <2>5. then = now + 1 /\ Len(pushed) - Len(delivered) = now
    <3>1. PICK p \in Nat, d \in Nat : p = Len(pushed) /\ d = Len(delivered)
      BY <1>2
    <3>2. p = d + now /\ p + 1 = d + then
      BY <2>1, <2>2, <2>3, <3>1, <1>5
    <3>3. then = now + 1 /\ p - d = now
      BY <3>2
    <3> QED BY <3>1, <3>3
  <2> QED BY <2>4, <2>5, <1>2, <1>3
<1>7. PICK n \in Nat : n = Len(pushed) - Len(delivered)
  BY <1>2, SMTT(30)
<1>8. Undelivered' = [k \in 1 .. n + 1 |-> longer[Len(delivered) + k]]
  <2>1. Undelivered' = [k \in 1 .. Len(longer) - Len(delivered)
                          |-> longer[Len(delivered) + k]]
    BY <1>1, <1>4 DEF Undelivered
  <2>2. Len(longer) - Len(delivered) = n + 1
    BY <1>2, <1>5, <1>7
  <2> QED BY <2>1, <2>2
<1>9. Append(Undelivered, next)
        = [k \in 1 .. n + 1 |-> IF k = n + 1 THEN next ELSE Undelivered[k]]
  <2>1. PICK u \in Seq(Nat) : u = Undelivered
    BY <1>2
  <2>2. PICK app \in Seq(Nat) : app = Append(u, next)
    BY <1>1, <2>1, AppendProperties
  <2>3. /\ Len(app) = Len(u) + 1
        /\ \A i \in 1 .. Len(u) : app[i] = u[i]
        /\ app[Len(u) + 1] = next
    BY <1>1, <2>1, <2>2, AppendProperties
  <2>4. Len(u) = n
    BY <2>1, <1>2, <1>7
  <2>5. app \in [1 .. n + 1 -> Nat]
    BY <2>3, <2>4, LenProperties
  <2>6. \A k \in 1 .. n + 1 : app[k] = IF k = n + 1 THEN next ELSE u[k]
    BY <2>3, <2>4
  <2>7. app = [k \in 1 .. n + 1 |-> IF k = n + 1 THEN next ELSE u[k]]
    BY <2>5, <2>6
  <2> QED BY <2>1, <2>2, <2>7
<1>10. ASSUME NEW k \in 1 .. n + 1
       PROVE  longer[Len(delivered) + k]
                = IF k = n + 1 THEN next ELSE Undelivered[k]
  <2>1. CASE k = n + 1
    BY <2>1, <1>2, <1>5, <1>7
  <2>2. CASE k # n + 1
    <3>1. k \in 1 .. n /\ Len(delivered) + k \in 1 .. Len(pushed)
      BY <2>2, <1>2, <1>7
    <3>2. Undelivered[k] = pushed[Len(delivered) + k]
      BY <3>1, <1>7 DEF Undelivered
    <3> QED BY <3>1, <3>2, <2>2, <1>5
  <2> QED BY <2>1, <2>2
<1> QED BY <1>6, <1>8, <1>9, <1>10

\* A completed pop() takes the oldest item and leaves the others.
LEMMA ReleaseGets ==
  ASSUME RingInv, RingInv', PopRelease
  PROVE  /\ Undelivered # << >>
         /\ out = Head(Undelivered)
         /\ Undelivered' = Tail(Undelivered)
<1>1. /\ pushed' = pushed /\ delivered' = Append(delivered, out) /\ out \in Nat
  BY DEF PopRelease, producerVars, RingInv, IndexInv, TypeOK
<1>2. /\ pushed \in Seq(Nat) /\ Len(pushed) \in Nat
      /\ delivered \in Seq(Nat) /\ Len(delivered) \in Nat
      /\ Undelivered \in Seq(Nat)
      /\ Len(Undelivered) = Len(pushed) - Len(delivered)
  BY Histories
<1>3. PICK longer \in Seq(Nat) : longer = Append(delivered, out)
  BY <1>1, <1>2, AppendProperties
<1>4. Len(longer) = Len(delivered) + 1 /\ longer[Len(delivered) + 1] = out
  BY <1>1, <1>2, <1>3, AppendProperties
<1>5. Len(longer) <= Len(pushed) /\ \A i \in 1 .. Len(longer) : longer[i] = pushed[i]
  BY <1>1, <1>3 DEF RingInv, FifoOrder
<1>6. PICK n \in Nat : n = Len(pushed) - Len(delivered)
  BY <1>2, <1>4, <1>5
<1>7. n >= 1
  BY <1>2, <1>4, <1>5, <1>6
<1>8. PICK u \in Seq(Nat) : u = Undelivered
  BY <1>2
<1>9. Len(u) = n /\ u # << >>
  BY <1>2, <1>6, <1>7, <1>8, EmptySeq
<1>10. \A k \in 1 .. n : u[k] = pushed[Len(delivered) + k]
  BY <1>6, <1>8 DEF Undelivered
<1>11. Head(u) = u[1] /\ u[1] = out
  <2>1. u[1] = pushed[Len(delivered) + 1]
    <3>1. 1 \in 1 .. n
      BY <1>7
    <3> QED BY <3>1, <1>10
  <2>2. pushed[Len(delivered) + 1] = out
    <3>1. Len(delivered) + 1 \in 1 .. Len(longer)
      BY <1>2, <1>4
    <3> QED BY <3>1, <1>4, <1>5
  <2> QED BY <2>1, <2>2, <1>9, HeadTailProperties
<1>12. Undelivered' = [k \in 1 .. n - 1 |-> pushed[Len(delivered) + 1 + k]]
  <2>1. Undelivered' = [k \in 1 .. Len(pushed) - Len(longer)
                          |-> pushed[Len(longer) + k]]
    BY <1>1, <1>3 DEF Undelivered
  <2>2. Len(pushed) - Len(longer) = n - 1
    BY <1>2, <1>4, <1>6
  <2> QED BY <2>1, <2>2, <1>4
<1>13. Tail(u) = [k \in 1 .. n - 1 |-> u[k + 1]]
  <2>1. PICK rest \in Seq(Nat) : rest = Tail(u)
    BY <1>9, HeadTailProperties
  <2>2. /\ Len(rest) = n - 1
        /\ \A i \in 1 .. Len(rest) : rest[i] = u[i + 1]
    BY <2>1, <1>9, HeadTailProperties
  <2>3. rest \in [1 .. n - 1 -> Nat]
    BY <2>2, LenProperties
  <2> QED BY <2>1, <2>2, <2>3
<1>14. ASSUME NEW k \in 1 .. n - 1
       PROVE  u[k + 1] = pushed[Len(delivered) + 1 + k]
  <2>1. k + 1 \in 1 .. n /\ Len(delivered) + (k + 1) = Len(delivered) + 1 + k
    BY <1>2, <1>6
  <2> QED BY <2>1, <1>10
<1>15. Undelivered' = Tail(u)
  BY <1>12, <1>13, <1>14
<1> QED BY <1>8, <1>9, <1>11, <1>15

\* Every step of the ring is a put, a get or no step at all of the queue.
LEMMA StepIsQueueStep ==
  ASSUME RingInv, RingInv', QueueAgrees, QueueAgrees', ItemInHand, [Next]_vars
  PROVE  Abstract!FifoNext \/ UNCHANGED Abstract!fifoVars
<1>1. Queued = Undelivered /\ Queued' = Undelivered'
  BY DEF QueueAgrees
<1>2. CASE PushPublish
  <2>1. PICK item \in Item : item = next
    BY <1>2 DEF ItemInHand, PushPublish
  <2>2. /\ Len(Queued) < Capacity - 1 /\ Queued' = Append(Queued, item)
        /\ delivered' = delivered
    BY <1>1, <1>2, <2>1, PublishPuts DEF PushPublish, consumerVars
  <2>3. Abstract!Put(item)
    BY <2>2 DEF Abstract!Put, Queued
  <2> QED BY <2>1, <2>3 DEF Abstract!FifoNext
<1>3. CASE PopRelease
  <2>1. delivered' = Append(delivered, out)
    BY <1>3 DEF PopRelease
  <2>2. Queued # << >> /\ out = Head(Queued) /\ Queued' = Tail(Queued)
    BY <1>1, <1>3, ReleaseGets
  <2>3. Abstract!Get
    BY <2>1, <2>2 DEF Abstract!Get, Queued
  <2> QED BY <2>3 DEF Abstract!FifoNext
<1>4. CASE pushed' = pushed /\ delivered' = delivered
  <2>1. Queued' = Queued
    BY <1>1, <1>4 DEF Undelivered
  <2> QED BY <1>4, <2>1 DEF Abstract!fifoVars, Queued
<1> QED
  BY <1>2, <1>3, <1>4 DEF Next, Producer, Consumer, Observer, Quiescent, vars,
     producerVars, consumerVars, observerVars, PushCheck, PushFull, PushWrite,
     PopCheck, PopRead, PropagateHead, PropagateTail, SizeLoadHead, SizeLoadTail

\* Slots, masked indices and delayed visibility implement the bounded
\* first-in first-out queue.
THEOREM RingImplementsFifo == Spec => ImplementsFifo
<1>1. Init => Abstract!FifoInit
  <2> SUFFICES ASSUME Init PROVE Abstract!FifoInit
    OBVIOUS
  <2>1. Distance(0, 0) = 0
    BY CapacityAssumption DEF Distance
  <2>2. Queued = << >>
    BY <2>1 DEF Init, Queued
  <2> QED BY <2>2 DEF Init, Abstract!FifoInit, Queued
<1>2. RingInv => QueueAgrees
  BY QueuedIsUndelivered
<1>3. RingInv /\ RingInv' /\ QueueAgrees /\ QueueAgrees' /\ ItemInHand
        /\ [Next]_vars => [Abstract!FifoNext]_Abstract!fifoVars
  BY StepIsQueueStep
<1> QED
  BY <1>1, <1>2, <1>3, RingInvHolds, ItemInHandHolds, PTL
     DEF Spec, ImplementsFifo, Abstract!FifoSpec
=============================================================================
