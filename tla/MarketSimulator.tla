--------------------------- MODULE MarketSimulator ---------------------------
(***************************************************************************)
(* MarketSimulator (include/market_simulator.hpp): the generator of the    *)
(* synthetic feed.  Per instrument it keeps a reference price that drifts  *)
(* and the orders it believes to be resting; every call of next_message()  *)
(* picks an instrument and either adds an order or changes one of those.   *)
(* The draws of its random generator are the choices of the model; which   *)
(* seed makes which draw, and how likely each is, is left out.             *)
(***************************************************************************)
EXTENDS Protocol

CONSTANTS MaxDrift,     \* 3: ticks the reference price moves at most
          MaxOffset,    \* 200: ticks between an order and the reference price
          MaxQty,       \* 500: the largest quantity of a new order
          StartPrices,  \* what the constructor's draw of a reference price may be
          MaxMessages   \* num_messages: how many messages are generated

ASSUME SimulatorAssumption ==
  /\ MaxDrift \in Nat /\ MaxMessages \in Nat
  /\ MaxOffset \in Nat \ {0} /\ MaxQty \in Nat \ {0}
  /\ StartPrices \subseteq Int

VARIABLES refPrice,      \* ref_price_
          liveOrders,    \* live_orders_; its order is never used but to draw from
          nextOrderId,   \* next_order_id_
          generated      \* how many messages were generated

simVars == <<refPrice, liveOrders, nextOrderId, generated>>

LiveOrder == [id : OrderId, side : Side, price : Int, qty : WireQuantity]

SimInit ==
  /\ refPrice \in [Instrument -> StartPrices]
  /\ liveOrders = [i \in Instrument |-> {}]
  /\ nextOrderId = 1
  /\ generated = 0

Drift == - MaxDrift .. MaxDrift
Offset == 1 .. MaxOffset
Qty == 1 .. MaxQty

\* A bid goes below the reference price and an offer above it.
PriceAt(side, price, off) == IF side = "Buy" THEN price - off ELSE price + off

\* The state after one call: the instrument's drifted price and its orders.
Generate(i, price, live, next) ==
  /\ generated < MaxMessages
  /\ generated' = generated + 1
  /\ refPrice' = [refPrice EXCEPT ![i] = price]
  /\ liveOrders' = [liveOrders EXCEPT ![i] = live]
  /\ nextOrderId' = next

SimAdd(i, price, m) ==
  \E side \in Side, off \in Offset, qty \in Qty :
    LET new == [id |-> nextOrderId, side |-> side,
                price |-> PriceAt(side, price, off), qty |-> qty]
    IN  /\ nextOrderId \in OrderId
        /\ m = [type |-> "Add", instrument |-> i, id |-> nextOrderId,
                side |-> side, price |-> new.price, qty |-> qty]
        /\ Generate(i, price, liveOrders[i] \cup {new}, nextOrderId + 1)

\* Execute and Cancel: between one and all of what is left of the order.
SimTake(i, price, m) ==
  \E order \in liveOrders[i], type \in {"Execute", "Cancel"} :
    \E qty \in 1 .. order.qty :
      LET left == IF qty = order.qty THEN {}
                  ELSE {[order EXCEPT !.qty = @ - qty]}
      IN  /\ m = [type |-> type, instrument |-> i, id |-> order.id, qty |-> qty]
          /\ Generate(i, price, (liveOrders[i] \ {order}) \cup left, nextOrderId)

SimDelete(i, price, m) ==
  \E order \in liveOrders[i] :
    /\ m = [type |-> "Delete", instrument |-> i, id |-> order.id]
    /\ Generate(i, price, liveOrders[i] \ {order}, nextOrderId)

SimReplace(i, price, m) ==
  \E order \in liveOrders[i], off \in Offset, qty \in Qty :
    LET new == [id |-> nextOrderId, side |-> order.side,
                price |-> PriceAt(order.side, price, off), qty |-> qty]
    IN  /\ nextOrderId \in OrderId
        /\ m = [type |-> "Replace", instrument |-> i, id |-> order.id,
                newId |-> nextOrderId, price |-> new.price, qty |-> qty]
        /\ Generate(i, price, (liveOrders[i] \ {order}) \cup {new},
                    nextOrderId + 1)

\* next_message() for instrument i with the drift it drew.  The message is the
\* parameter: it holds of exactly the messages that can come next.
NextMessage(i, drift, m) ==
  LET price == refPrice[i] + drift
  IN  \/ SimAdd(i, price, m)
      \/ SimTake(i, price, m)
      \/ SimDelete(i, price, m)
      \/ SimReplace(i, price, m)
=============================================================================
