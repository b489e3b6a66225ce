------------------------------ MODULE Protocol ------------------------------
(***************************************************************************)
(* The messages of include/protocol.hpp and what applying one does to the  *)
(* resting orders and the book of its instrument.  Normalizer::apply and   *)
(* VenueFeed::apply are this function; they differ in where the orders and *)
(* the book live.                                                          *)
(***************************************************************************)
EXTENDS OrderBook

CONSTANTS NumInstruments,   \* NUM_INSTRUMENTS
          MaxOrderId        \* order ids go from 1 to this; bounds the run

ASSUME InstrumentsAssumption == NumInstruments \in Nat \ {0}
ASSUME OrderIdAssumption == MaxOrderId \in Nat

Instrument == 0 .. NumInstruments - 1
OrderId == 1 .. MaxOrderId

\* Every quantity on the wire is at least 1: the simulator draws it from
\* [1, 500], or from [1, what is left of the order].
WireQuantity == Nat \ {0}

AddOrderMsg ==
  [type : {"Add"}, instrument : Instrument, id : OrderId, side : Side,
   price : Int, qty : WireQuantity]

\* ExecuteMsg and CancelMsg
TakeMsg ==
  [type : {"Execute", "Cancel"}, instrument : Instrument, id : OrderId,
   qty : WireQuantity]

DeleteMsg == [type : {"Delete"}, instrument : Instrument, id : OrderId]

ReplaceMsg ==
  [type : {"Replace"}, instrument : Instrument, id : OrderId, newId : OrderId,
   price : Int, qty : WireQuantity]

Message == AddOrderMsg \cup TakeMsg \cup DeleteMsg \cup ReplaceMsg

NoMessage == [type |-> "none"]

\* OrderLocation; its local_idx is the instrument within the shard.
Location == [instrument : Instrument, side : Side, price : Int, qty : WireQuantity]
NoOrder == [side |-> "none"]

OrderMap == [OrderId -> Location \cup {NoOrder}]
NoOrders == [id \in OrderId |-> NoOrder]

\* What apply() works on: the map of resting orders and one book.
View == [orders : OrderMap, book : Book]

SmallerOf(a, b) == IF a < b THEN a ELSE b

\* Variant: an executed order is erased whatever is left of it.
ApplyTakeErases(view, m) ==
  LET order == view.orders[m.id]
      taken == SmallerOf(m.qty, order.qty)
  IN  IF order = NoOrder THEN view
      ELSE [orders |-> [view.orders EXCEPT ![m.id] = NoOrder],
            book   |-> BookReduce(view.book, order.side, order.price, taken)]

\* Variant: an order with nothing left stays in the map.
ApplyTakeKeepsEmpty(view, m) ==
  LET order == view.orders[m.id]
      taken == SmallerOf(m.qty, order.qty)
  IN  IF order = NoOrder THEN view
      ELSE [orders |-> [view.orders EXCEPT ![m.id].qty = @ - taken],
            book   |-> BookReduce(view.book, order.side, order.price, taken)]

\* Variant: a Replace takes the new quantity out of the old level.
ApplyReplaceReducesNew(view, m) ==
  LET old     == view.orders[m.id]
      reduced == BookReduce(view.book, old.side, old.price, m.qty)
      erased  == [view.orders EXCEPT ![m.id] = NoOrder]
      new     == [instrument |-> m.instrument, side |-> old.side,
                  price |-> m.price, qty |-> m.qty]
  IN  IF old = NoOrder THEN view
      ELSE [orders |-> [erased EXCEPT ![m.newId] = new],
            book   |-> BookAdd(reduced, old.side, m.price, m.qty)]

\* Variant: the old order of a Replace stays in the map.
ApplyReplaceKeepsOld(view, m) ==
  LET old     == view.orders[m.id]
      reduced == BookReduce(view.book, old.side, old.price, old.qty)
      new     == [instrument |-> m.instrument, side |-> old.side,
                  price |-> m.price, qty |-> m.qty]
  IN  IF old = NoOrder THEN view
      ELSE [orders |-> [view.orders EXCEPT ![m.newId] = new],
            book   |-> BookAdd(reduced, old.side, m.price, m.qty)]

\* An Add overwrites whatever order had its id, and is remembered even when
\* the book drops it.
ApplyAdd(view, m) ==
  LET order == [instrument |-> m.instrument, side |-> m.side,
                price |-> m.price, qty |-> m.qty]
  IN  [orders |-> [view.orders EXCEPT ![m.id] = order],
       book   |-> BookAdd(view.book, m.side, m.price, m.qty)]

\* Execute and Cancel: never more than the order has; an order that has
\* nothing left is erased; an unknown order is ignored.
ApplyTake(view, m) ==
  LET order == view.orders[m.id]
      taken == SmallerOf(m.qty, order.qty)
      left  == IF taken = order.qty THEN NoOrder
               ELSE [order EXCEPT !.qty = @ - taken]
  IN  IF order = NoOrder THEN view
      ELSE [orders |-> [view.orders EXCEPT ![m.id] = left],
            book   |-> BookReduce(view.book, order.side, order.price, taken)]

ApplyDelete(view, m) ==
  LET order == view.orders[m.id]
  IN  IF order = NoOrder THEN view
      ELSE [orders |-> [view.orders EXCEPT ![m.id] = NoOrder],
            book   |-> BookReduce(view.book, order.side, order.price, order.qty)]

\* A Replace keeps the side of the old order.
ApplyReplace(view, m) ==
  LET old     == view.orders[m.id]
      reduced == BookReduce(view.book, old.side, old.price, old.qty)
      erased  == [view.orders EXCEPT ![m.id] = NoOrder]
      new     == [instrument |-> m.instrument, side |-> old.side,
                  price |-> m.price, qty |-> m.qty]
  IN  IF old = NoOrder THEN view
      ELSE [orders |-> [erased EXCEPT ![m.newId] = new],
            book   |-> BookAdd(reduced, old.side, m.price, m.qty)]

\* The switch over header.type
Apply(view, m) ==
  CASE m.type = "Add" -> ApplyAdd(view, m)
    [] m.type \in {"Execute", "Cancel"} -> ApplyTake(view, m)
    [] m.type = "Delete" -> ApplyDelete(view, m)
    [] m.type = "Replace" -> ApplyReplace(view, m)
=============================================================================
