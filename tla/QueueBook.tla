------------------------------ MODULE QueueBook ------------------------------
(***************************************************************************)
(* QueuePositionBook and FastAheadTracker (include/queue_book.hpp): the    *)
(* arrival order of the orders resting at each level, and the position of  *)
(* one hypothetical order among them kept up to date message by message.   *)
(*                                                                         *)
(* A list per level is kept in the order of seq, because entries are only  *)
(* appended and seq only grows; so the levels are one set of entries here, *)
(* and an iterator into a list is the seq of the entry it points to.       *)
(***************************************************************************)
EXTENDS Protocol, Functions

LevelKey == [instrument : Instrument, side : Side, price : Int]
QEntry == [id : OrderId, qty : WireQuantity, seq : Nat, level : LevelKey]

NoEntry == -1

\* levels_, orders_ and next_seq_
QueueBookInit ==
  [entries |-> {}, orders |-> [id \in OrderId |-> NoEntry], nextSeq |-> 0]

EntryOf(q, id) == CHOOSE e \in q.entries : e.seq = q.orders[id]

\* ReductionEvent; the levels touched are only used by the tests.
NoReduction == [seq |-> NoEntry]

Enqueue(q, id, level, qty) ==
  [entries |-> q.entries \cup
                 {[id |-> id, qty |-> qty, seq |-> q.nextSeq, level |-> level]},
   orders  |-> [q.orders EXCEPT ![id] = q.nextSeq],
   nextSeq |-> q.nextSeq + 1]

\* reduce_by(): what it does to the book and what it reports.
ReduceBy(q, id, qty, isExecute) ==
  LET e      == EntryOf(q, id)
      actual == SmallerOf(qty, e.qty)
      left   == IF actual = e.qty THEN {} ELSE {[e EXCEPT !.qty = @ - actual]}
  IN  IF q.orders[id] = NoEntry
      THEN [book |-> q, reduction |-> NoReduction]
      ELSE [book |-> [q EXCEPT !.entries = (@ \ {e}) \cup left,
                               !.orders[id] = IF left = {} THEN NoEntry ELSE @],
            reduction |-> [level |-> e.level, seq |-> e.seq, qty |-> actual,
                           isExecute |-> isExecute]]

RemoveAll(q, id) == ReduceBy(q, id, EntryOf(q, id).qty, FALSE)

\* Variant: the replacement queues at the level of the order it replaces.
QueueReplaceOldLevel(q, m) ==
  LET removed == RemoveAll(q, m.id)
  IN  IF q.orders[m.id] = NoEntry
      THEN [book |-> q, reduction |-> NoReduction]
      ELSE [removed EXCEPT !.book = Enqueue(@, m.newId, EntryOf(q, m.id).level, m.qty)]

\* A Replace leaves its level and queues at the end of the new one.
QueueReplace(q, m) ==
  LET removed == RemoveAll(q, m.id)
      level   == [instrument |-> m.instrument, side |-> EntryOf(q, m.id).level.side,
                  price |-> m.price]
  IN  IF q.orders[m.id] = NoEntry
      THEN [book |-> q, reduction |-> NoReduction]
      ELSE [removed EXCEPT !.book = Enqueue(@, m.newId, level, m.qty)]

\* apply()
QueueApply(q, m) ==
  CASE m.type = "Add" ->
         [book |-> Enqueue(q, m.id, [instrument |-> m.instrument, side |-> m.side,
                                     price |-> m.price], m.qty),
          reduction |-> NoReduction]
    [] m.type = "Execute" -> ReduceBy(q, m.id, m.qty, TRUE)
    [] m.type = "Cancel" -> ReduceBy(q, m.id, m.qty, FALSE)
    [] m.type = "Delete" -> IF q.orders[m.id] = NoEntry
                            THEN [book |-> q, reduction |-> NoReduction]
                            ELSE RemoveAll(q, m.id)
    [] m.type = "Replace" -> QueueReplace(q, m)

\* qty_ahead_of_seq(), the oracle: it sums in 64 bits.
QtyAhead(q, level, seq) ==
  LET ahead == {e \in q.entries : e.level = level /\ e.seq < seq}
  IN  SumFunction([e \in ahead |-> e.qty])

\* level_total_qty(): the sum of the level, which is returned as a uint32_t.
LevelTotal(q, level) == QtyAhead(q, level, q.nextSeq) % IntRange

(***************************************************************************)
(* FastAheadTracker                                                        *)
(***************************************************************************)
NewTracker(level, seq, ahead) ==
  [level |-> level, seq |-> seq, ahead |-> ahead, front |-> ahead = 0]

Concerns(t, reduction) == reduction # NoReduction /\ reduction.level = t.level

\* Variant: an entry that arrived later counts as ahead too.
ConsumeAny(t, reduction) ==
  LET left == Minus(t.ahead, reduction.qty)
  IN  IF Concerns(t, reduction)
      THEN [t EXCEPT !.ahead = left, !.front = @ \/ left = 0]
      ELSE t

\* consume(): the tracker afterwards, and whether the message fills the order.
\* Only what arrived earlier is ahead.
Consume(t, reduction) ==
  LET left == Minus(t.ahead, reduction.qty)
  IN  IF Concerns(t, reduction) /\ reduction.seq < t.seq
      THEN [t EXCEPT !.ahead = left, !.front = @ \/ left = 0]
      ELSE t

\* Variant: the message that clears the way also fills.
FillsAtOnce(t, reduction) ==
  /\ Concerns(t, reduction) /\ reduction.isExecute
  /\ Consume(t, reduction).front

Fills(t, reduction) ==
  Concerns(t, reduction) /\ t.front /\ reduction.isExecute
=============================================================================
