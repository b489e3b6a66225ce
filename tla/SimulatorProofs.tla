-------------------------- MODULE SimulatorProofs --------------------------
(***************************************************************************)
(* What next_message() guarantees to whoever applies its messages: they    *)
(* are well formed, they name orders that rest, and a map of orders that   *)
(* applies them all holds the orders the simulator believes to rest.       *)
(***************************************************************************)
EXTENDS MarketSimulator, ProtocolProofs

SimTypeOK ==
  /\ refPrice \in [Instrument -> Int]
  /\ liveOrders \in [Instrument -> SUBSET LiveOrder]
  /\ nextOrderId \in Nat
  /\ generated \in Nat

\* An id is given to one order only, and the next one is new.
IdsAreFresh ==
  \A i \in Instrument : \A a \in liveOrders[i] :
    /\ a.id < nextOrderId
    /\ \A b \in liveOrders[i] : a.id = b.id => a = b

SimInv == SimTypeOK /\ IdsAreFresh

\* The simulator starts without orders, and its first id is new.
LEMMA SimInitOK == SimInit => SimInv
<1> SUFFICES ASSUME SimInit PROVE SimInv
  OBVIOUS
<1>1. refPrice \in [Instrument -> Int]
  BY SimulatorAssumption DEF SimInit
<1>2. \A i \in Instrument : liveOrders[i] = {}
  BY DEF SimInit
<1>3. liveOrders \in [Instrument -> SUBSET LiveOrder]
  BY DEF SimInit
<1> QED BY <1>1, <1>2, <1>3 DEF SimInit, SimInv, SimTypeOK, IdsAreFresh

\* A set of orders the simulator may go on with.
FreshOrders(live, next) ==
  /\ live \subseteq LiveOrder
  /\ \A a \in live : a.id < next /\ \A b \in live : a.id = b.id => a = b

\* The state after a call is as good as the orders of the instrument are.
LEMMA GenerateKeeps ==
  ASSUME SimInv, NEW i \in Instrument, NEW price \in Int, NEW live, NEW next \in Nat,
         next >= nextOrderId, FreshOrders(live, next), Generate(i, price, live, next)
  PROVE  SimInv' /\ liveOrders'[i] = live /\ \A j \in Instrument \ {i} :
                                               liveOrders'[j] = liveOrders[j]
<1>1. SimTypeOK'
  BY DEF SimInv, SimTypeOK, Generate, FreshOrders
<1>2. /\ liveOrders'[i] = live
      /\ \A j \in Instrument \ {i} : liveOrders'[j] = liveOrders[j]
  BY DEF SimInv, SimTypeOK, Generate
<1>3. ASSUME NEW j \in Instrument, NEW a \in liveOrders'[j]
      PROVE  a.id < nextOrderId' /\ \A b \in liveOrders'[j] : a.id = b.id => a = b
  <2>1. CASE j = i
    BY <1>2, <2>1, <1>3 DEF FreshOrders, Generate
  <2>2. CASE j # i
    <3>1. a.id \in Nat /\ a.id < nextOrderId
      BY <1>2, <1>3, <2>2 DEF SimInv, SimTypeOK, IdsAreFresh, LiveOrder, OrderId
    <3>2. a.id < nextOrderId'
      BY <3>1 DEF Generate, SimInv, SimTypeOK
    <3> QED BY <1>2, <1>3, <2>2, <3>2 DEF SimInv, IdsAreFresh
  <2> QED BY <2>1, <2>2
<1> QED BY <1>1, <1>2, <1>3 DEF SimInv, IdsAreFresh

-----------------------------------------------------------------------------
(***************************************************************************)
(* A map of orders mirrors the simulator: it holds its orders, each under  *)
(* its id, and no others.                                                  *)
(***************************************************************************)
LocationOf(order, i) ==
  [instrument |-> i, side |-> order.side, price |-> order.price, qty |-> order.qty]

Mirrors(map, live, i) ==
  /\ \A order \in live : map[order.id] = LocationOf(order, i)
  /\ \A id \in OrderId : map[id] # NoOrder => \E order \in live : order.id = id

\* What a message about a resting order finds in a map that mirrors them.
LEMMA FoundInMap ==
  ASSUME SimInv, NEW i \in Instrument, NEW order \in liveOrders[i],
         NEW map \in OrderMap, Mirrors(map, liveOrders[i], i)
  PROVE  /\ order \in LiveOrder /\ order.id \in OrderId
         /\ map[order.id] = LocationOf(order, i) /\ map[order.id] # NoOrder
<1>1. order \in LiveOrder
  BY DEF SimInv, SimTypeOK
<1>2. LocationOf(order, i) \in Location
  BY <1>1 DEF LocationOf, Location, LiveOrder
<1> QED BY <1>1, <1>2, NothingIsNotSomething DEF Mirrors, LiveOrder

\* Without one of its orders, a mirror without that id is a mirror.
LEMMA MirrorsWithout ==
  ASSUME SimInv, NEW i \in Instrument, NEW order \in liveOrders[i],
         NEW map \in OrderMap, Mirrors(map, liveOrders[i], i)
  PROVE  Mirrors([map EXCEPT ![order.id] = NoOrder], liveOrders[i] \ {order}, i)
<1> DEFINE after == [map EXCEPT ![order.id] = NoOrder]
<1>1. order.id \in OrderId /\ DOMAIN map = OrderId
  BY FoundInMap DEF OrderMap
<1>2. \A a \in liveOrders[i] \ {order} : a.id # order.id
  BY DEF SimInv, IdsAreFresh
<1>3. \A a \in liveOrders[i] \ {order} : after[a.id] = LocationOf(a, i)
  BY <1>1, <1>2 DEF Mirrors
<1>4. ASSUME NEW id \in OrderId, after[id] # NoOrder
      PROVE  \E a \in liveOrders[i] \ {order} : a.id = id
  <2>1. id # order.id /\ map[id] # NoOrder
    BY <1>1, <1>4
  <2> QED BY <2>1 DEF Mirrors
<1> QED BY <1>3, <1>4 DEF Mirrors

\* With one more order under an id of its own, the mirror that holds it too.
LEMMA MirrorsWith ==
  ASSUME NEW i \in Instrument, NEW live, NEW new, new.id \in OrderId,
         \A a \in live : a.id # new.id, NEW map, DOMAIN map = OrderId,
         Mirrors(map, live, i)
  PROVE  Mirrors([map EXCEPT ![new.id] = LocationOf(new, i)], live \cup {new}, i)
<1> DEFINE after == [map EXCEPT ![new.id] = LocationOf(new, i)]
<1>1. after[new.id] = LocationOf(new, i)
  OBVIOUS
<1>2. \A a \in live : after[a.id] = LocationOf(a, i)
  BY DEF Mirrors
<1>3. \A id \in OrderId : after[id] # NoOrder => \E a \in live \cup {new} : a.id = id
  BY DEF Mirrors
<1> QED BY <1>1, <1>2, <1>3 DEF Mirrors

\* What is to be shown of every kind of message.
Follows(i, m) ==
  /\ m \in Message /\ m.instrument = i
  /\ SimInv'
  /\ \A j \in Instrument \ {i} : liveOrders'[j] = liveOrders[j]
  /\ \A map \in OrderMap : \A book : Mirrors(map, liveOrders[i], i) =>
       Mirrors(Apply([orders |-> map, book |-> book], m).orders, liveOrders'[i], i)

\* A price is an integer, whichever side it is on.
LEMMA PriceIsInt ==
  ASSUME NEW side \in Side, NEW price \in Int, NEW off \in Offset
  PROVE  PriceAt(side, price, off) \in Int
BY SimulatorAssumption DEF PriceAt, Offset

LEMMA NewOrderType ==
  ASSUME NEW side \in Side, NEW price \in Int, NEW off \in Offset, NEW qty \in Qty,
         NEW id \in OrderId
  PROVE  /\ [id |-> id, side |-> side, price |-> PriceAt(side, price, off),
            qty |-> qty] \in LiveOrder
         /\ qty \in WireQuantity
BY PriceIsInt, SimulatorAssumption DEF LiveOrder, Qty, WireQuantity

\* An Add with the next id.
LEMMA SimAddFollows ==
  ASSUME SimInv, NEW i \in Instrument, NEW price \in Int, NEW m, SimAdd(i, price, m)
  PROVE  Follows(i, m)
<1>1. PICK side \in Side, off \in Offset, qty \in Qty :
        LET new == [id |-> nextOrderId, side |-> side,
                    price |-> PriceAt(side, price, off), qty |-> qty]
        IN  /\ nextOrderId \in OrderId
            /\ m = [type |-> "Add", instrument |-> i, id |-> nextOrderId,
                    side |-> side, price |-> new.price, qty |-> qty]
            /\ Generate(i, price, liveOrders[i] \cup {new}, nextOrderId + 1)
  BY DEF SimAdd
<1> DEFINE new == [id |-> nextOrderId, side |-> side,
                   price |-> PriceAt(side, price, off), qty |-> qty]
           live == liveOrders[i] \cup {new}
<1>2. new \in LiveOrder /\ qty \in WireQuantity /\ nextOrderId \in Nat
  BY <1>1, NewOrderType DEF SimInv, SimTypeOK
<1>3. liveOrders[i] \subseteq LiveOrder
  BY DEF SimInv, SimTypeOK
<1>4. FreshOrders(live, nextOrderId + 1)
  <2>1. \A a \in liveOrders[i] : a.id \in Nat /\ a.id < nextOrderId
    BY <1>3 DEF SimInv, IdsAreFresh, LiveOrder, OrderId
  <2>2. new.id = nextOrderId
    OBVIOUS
  <2>3. \A a \in live : a.id < nextOrderId + 1
    BY <1>2, <2>1, <2>2
  <2>4. \A a, b \in live : a.id = b.id => a = b
    BY <1>2, <2>1, <2>2 DEF SimInv, IdsAreFresh
  <2> QED BY <1>2, <1>3, <2>3, <2>4 DEF FreshOrders
<1>5. /\ SimInv' /\ liveOrders'[i] = live
      /\ \A j \in Instrument \ {i} : liveOrders'[j] = liveOrders[j]
  BY <1>1, <1>2, <1>4, GenerateKeeps
<1>6. m \in Message /\ m.instrument = i
  BY <1>1, <1>2 DEF Message, AddOrderMsg, LiveOrder
<1>7. ASSUME NEW map \in OrderMap, NEW book, Mirrors(map, liveOrders[i], i)
      PROVE  Mirrors(Apply([orders |-> map, book |-> book], m).orders, live, i)
  <2>1. Apply([orders |-> map, book |-> book], m).orders
          = [map EXCEPT ![nextOrderId] = LocationOf(new, i)]
    BY <1>1 DEF Apply, ApplyAdd, LocationOf
  <2>2. \A a \in liveOrders[i] : a.id \in OrderId /\ a.id # nextOrderId
    BY <1>3 DEF SimInv, IdsAreFresh, LiveOrder, OrderId
  <2>3. new.id = nextOrderId /\ DOMAIN map = OrderId
    BY DEF OrderMap
  <2>4. Mirrors([map EXCEPT ![new.id] = LocationOf(new, i)], live, i)
    BY <1>1, <1>7, <2>2, <2>3, MirrorsWith
  <2> QED BY <2>1, <2>3, <2>4
<1> QED BY <1>5, <1>6, <1>7 DEF Follows

\* An Execute or a Cancel of at most what is left.
LEMMA SimTakeFollows ==
  ASSUME SimInv, NEW i \in Instrument, NEW price \in Int, NEW m, SimTake(i, price, m)
  PROVE  Follows(i, m)
<1>1. PICK order \in liveOrders[i], type \in {"Execute", "Cancel"} :
        \E qty \in 1 .. order.qty :
          LET left == IF qty = order.qty THEN {}
                      ELSE {[order EXCEPT !.qty = @ - qty]}
          IN  /\ m = [type |-> type, instrument |-> i, id |-> order.id, qty |-> qty]
              /\ Generate(i, price, (liveOrders[i] \ {order}) \cup left, nextOrderId)
  BY DEF SimTake
<1>2. PICK qty \in 1 .. order.qty :
        LET left == IF qty = order.qty THEN {}
                    ELSE {[order EXCEPT !.qty = @ - qty]}
        IN  /\ m = [type |-> type, instrument |-> i, id |-> order.id, qty |-> qty]
            /\ Generate(i, price, (liveOrders[i] \ {order}) \cup left, nextOrderId)
  BY <1>1
<1> DEFINE less == [order EXCEPT !.qty = @ - qty]
           left == IF qty = order.qty THEN {} ELSE {less}
           rest == liveOrders[i] \ {order}
           live == rest \cup left
<1>3. /\ order \in LiveOrder /\ order.id \in OrderId /\ order.qty \in WireQuantity
      /\ liveOrders[i] \subseteq LiveOrder /\ nextOrderId \in Nat
  BY <1>1 DEF SimInv, SimTypeOK, LiveOrder
<1>4. qty \in WireQuantity /\ qty <= order.qty
  BY <1>2, <1>3 DEF WireQuantity
<1>5. \A a \in rest : a.id # order.id
  BY <1>1 DEF SimInv, IdsAreFresh
<1>6. left \subseteq LiveOrder /\ \A a \in left : a = less /\ a.id = order.id
  <2>1. qty # order.qty => order.qty - qty \in WireQuantity
    BY <1>3, <1>4 DEF WireQuantity
  <2>2. qty # order.qty => less \in LiveOrder /\ less.id = order.id
    BY <1>3, <2>1 DEF LiveOrder
  <2> QED BY <2>2
<1>7. FreshOrders(live, nextOrderId)
  BY <1>1, <1>3, <1>5, <1>6 DEF FreshOrders, SimInv, IdsAreFresh
<1>8. /\ SimInv' /\ liveOrders'[i] = live
      /\ \A j \in Instrument \ {i} : liveOrders'[j] = liveOrders[j]
  BY <1>2, <1>3, <1>7, GenerateKeeps
<1>9. m \in Message /\ m.instrument = i /\ m.id = order.id /\ m.qty = qty
      /\ m.type \in {"Execute", "Cancel"}
  BY <1>2, <1>3, <1>4 DEF Message, TakeMsg
<1>10. ASSUME NEW map \in OrderMap, NEW book, Mirrors(map, liveOrders[i], i)
       PROVE  Mirrors(Apply([orders |-> map, book |-> book], m).orders, live, i)
  <2>1. /\ map[order.id] = LocationOf(order, i) /\ map[order.id] # NoOrder
        /\ DOMAIN map = OrderId
    BY <1>10, FoundInMap DEF OrderMap
  <2>2. SmallerOf(qty, map[order.id].qty) = qty /\ map[order.id].qty = order.qty
    BY <1>3, <1>4, <2>1 DEF SmallerOf, LocationOf, WireQuantity
  <2> DEFINE kept == IF qty = order.qty THEN NoOrder
                     ELSE [map[order.id] EXCEPT !.qty = @ - qty]
  <2>3. Apply([orders |-> map, book |-> book], m).orders
          = [map EXCEPT ![order.id] = kept]
    BY <1>9, <2>1, <2>2, ZenonT(60) DEF Apply, ApplyTake
  <2>4. CASE qty = order.qty
    BY <2>3, <2>4, <1>10, MirrorsWithout
  <2>5. CASE qty # order.qty
    <3>1. kept = LocationOf(less, i) /\ less.id = order.id
      BY <1>3, <2>1, <2>5 DEF LocationOf, LiveOrder
    <3> DEFINE erased == [map EXCEPT ![order.id] = NoOrder]
    <3>2. Mirrors(erased, rest, i) /\ DOMAIN erased = OrderId
      BY <1>10, <2>1, MirrorsWithout
    <3>3. Mirrors([erased EXCEPT ![less.id] = LocationOf(less, i)], rest \cup {less}, i)
      BY <1>3, <1>5, <3>1, <3>2, MirrorsWith
    <3>4. [erased EXCEPT ![less.id] = LocationOf(less, i)] = [map EXCEPT ![order.id] = kept]
      BY <2>1, <3>1
    <3> QED BY <2>3, <2>5, <3>3, <3>4
  <2> QED BY <2>4, <2>5
<1>11. \A map \in OrderMap : \A book : Mirrors(map, liveOrders[i], i) =>
        Mirrors(Apply([orders |-> map, book |-> book], m).orders, liveOrders'[i], i)
  <2> HIDE DEF live
  <2> QED BY <1>8, <1>10, Zenon
<1> QED BY <1>8, <1>9, <1>11 DEF Follows

\* A Delete of a resting order.
LEMMA SimDeleteFollows ==
  ASSUME SimInv, NEW i \in Instrument, NEW price \in Int, NEW m, SimDelete(i, price, m)
  PROVE  Follows(i, m)
<1>1. PICK order \in liveOrders[i] :
        /\ m = [type |-> "Delete", instrument |-> i, id |-> order.id]
        /\ Generate(i, price, liveOrders[i] \ {order}, nextOrderId)
  BY DEF SimDelete
<1> DEFINE rest == liveOrders[i] \ {order}
<1>2. /\ order.id \in OrderId /\ nextOrderId \in Nat
      /\ liveOrders[i] \subseteq LiveOrder
  BY <1>1 DEF SimInv, SimTypeOK, LiveOrder
<1>3. FreshOrders(rest, nextOrderId)
  BY <1>2 DEF FreshOrders, SimInv, IdsAreFresh
<1>4. /\ SimInv' /\ liveOrders'[i] = rest
      /\ \A j \in Instrument \ {i} : liveOrders'[j] = liveOrders[j]
  BY <1>1, <1>2, <1>3, GenerateKeeps
<1>5. m \in Message /\ m.instrument = i
  BY <1>1, <1>2 DEF Message, DeleteMsg
<1>6. ASSUME NEW map \in OrderMap, NEW book, Mirrors(map, liveOrders[i], i)
      PROVE  Mirrors(Apply([orders |-> map, book |-> book], m).orders, rest, i)
  <2>1. map[order.id] # NoOrder
    BY <1>6, FoundInMap
  <2>2. Apply([orders |-> map, book |-> book], m).orders
          = [map EXCEPT ![order.id] = NoOrder]
    BY <1>1, <2>1 DEF Apply, ApplyDelete
  <2>3. Mirrors([map EXCEPT ![order.id] = NoOrder], rest, i)
    BY <1>6, MirrorsWithout
  <2> QED BY <2>2, <2>3
<1>7. \A map \in OrderMap : \A book : Mirrors(map, liveOrders[i], i) =>
        Mirrors(Apply([orders |-> map, book |-> book], m).orders, liveOrders'[i], i)
  <2> HIDE DEF rest
  <2> QED BY <1>4, <1>6, Zenon
<1> QED BY <1>4, <1>5, <1>7 DEF Follows

\* A Replace of a resting order by one with the next id.
LEMMA SimReplaceFollows ==
  ASSUME SimInv, NEW i \in Instrument, NEW price \in Int, NEW m, SimReplace(i, price, m)
  PROVE  Follows(i, m)
<1>1. PICK order \in liveOrders[i], off \in Offset, qty \in Qty :
        LET new == [id |-> nextOrderId, side |-> order.side,
                    price |-> PriceAt(order.side, price, off), qty |-> qty]
        IN  /\ nextOrderId \in OrderId
            /\ m = [type |-> "Replace", instrument |-> i, id |-> order.id,
                    newId |-> nextOrderId, price |-> new.price, qty |-> qty]
            /\ Generate(i, price, (liveOrders[i] \ {order}) \cup {new}, nextOrderId + 1)
  BY DEF SimReplace
<1> DEFINE new == [id |-> nextOrderId, side |-> order.side,
                   price |-> PriceAt(order.side, price, off), qty |-> qty]
           rest == liveOrders[i] \ {order}
           live == rest \cup {new}
<1>2. /\ order \in LiveOrder /\ order.side \in Side /\ order.id \in OrderId
      /\ liveOrders[i] \subseteq LiveOrder
  BY <1>1 DEF SimInv, SimTypeOK, LiveOrder
<1>3. new \in LiveOrder /\ qty \in WireQuantity /\ nextOrderId \in Nat
  BY <1>1, <1>2, NewOrderType DEF SimInv, SimTypeOK
<1>4. \A a \in liveOrders[i] : a.id \in Nat /\ a.id < nextOrderId
  BY <1>2 DEF SimInv, IdsAreFresh, LiveOrder, OrderId
<1>5. FreshOrders(live, nextOrderId + 1)
  <2>1. new.id = nextOrderId
    OBVIOUS
  <2>2. \A a \in live : a.id < nextOrderId + 1
    BY <1>3, <1>4, <2>1
  <2>3. \A a, b \in live : a.id = b.id => a = b
    BY <1>3, <1>4, <2>1 DEF SimInv, IdsAreFresh
  <2> QED BY <1>2, <1>3, <2>2, <2>3 DEF FreshOrders
<1>6. /\ SimInv' /\ liveOrders'[i] = live
      /\ \A j \in Instrument \ {i} : liveOrders'[j] = liveOrders[j]
  BY <1>1, <1>3, <1>5, GenerateKeeps
<1>7. m \in Message /\ m.instrument = i
  BY <1>1, <1>2, <1>3 DEF Message, ReplaceMsg, LiveOrder
<1>8. ASSUME NEW map \in OrderMap, NEW book, Mirrors(map, liveOrders[i], i)
      PROVE  Mirrors(Apply([orders |-> map, book |-> book], m).orders, live, i)
  <2>1. /\ map[order.id] = LocationOf(order, i) /\ map[order.id] # NoOrder
        /\ DOMAIN map = OrderId
    BY <1>8, FoundInMap DEF OrderMap
  <2> DEFINE erased == [map EXCEPT ![order.id] = NoOrder]
  <2>2. map[order.id].side = order.side
    BY <2>1 DEF LocationOf
  <2>3. Apply([orders |-> map, book |-> book], m).orders
          = [erased EXCEPT ![nextOrderId] =
               [instrument |-> i, side |-> order.side, price |-> new.price, qty |-> qty]]
    BY <1>1, <2>1, <2>2 DEF Apply, ApplyReplace
  <2>4. new.id = nextOrderId /\ LocationOf(new, i) =
          [instrument |-> i, side |-> order.side, price |-> new.price, qty |-> qty]
    BY DEF LocationOf
  <2>5. Mirrors(erased, rest, i) /\ DOMAIN erased = OrderId
    BY <1>8, <2>1, MirrorsWithout
  <2>6. new.id \in OrderId /\ \A a \in rest : a.id # new.id
    BY <1>1, <1>3, <1>4
  <2>7. Mirrors([erased EXCEPT ![new.id] = LocationOf(new, i)], live, i)
    BY <2>5, <2>6, MirrorsWith
  <2> QED BY <2>3, <2>4, <2>7
<1>9. \A map \in OrderMap : \A book : Mirrors(map, liveOrders[i], i) =>
        Mirrors(Apply([orders |-> map, book |-> book], m).orders, liveOrders'[i], i)
  <2> HIDE DEF live
  <2> QED BY <1>6, <1>8, Zenon
<1> QED BY <1>6, <1>7, <1>9 DEF Follows

\* next_message(), whichever kind it draws.
LEMMA NextMessageFollows ==
  ASSUME SimInv, NEW i \in Instrument, NEW drift \in Drift, NEW m,
         NextMessage(i, drift, m)
  PROVE  Follows(i, m)
<1>1. refPrice[i] + drift \in Int
  BY SimulatorAssumption DEF SimInv, SimTypeOK, Drift
<1> QED BY <1>1, SimAddFollows, SimTakeFollows, SimDeleteFollows, SimReplaceFollows
        DEF NextMessage

-----------------------------------------------------------------------------
(***************************************************************************)
(* The ids of a message: an Add and a Replace take the next one, which is  *)
(* new to everybody, and whatever else is named is an order that rests.    *)
(***************************************************************************)
NamesResting(i, m) ==
  /\ nextOrderId' \in {nextOrderId, nextOrderId + 1}
  /\ m.type # "Add" => \E order \in liveOrders[i] : m.id = order.id
  /\ m.type \in {"Add", "Replace"} =>
       NewId(m) = nextOrderId /\ nextOrderId \in OrderId /\ nextOrderId' = nextOrderId + 1
  /\ \A order \in liveOrders'[i] :
       \/ \E a \in liveOrders[i] : a.id = order.id
       \/ order.id = nextOrderId /\ nextOrderId' = nextOrderId + 1
  /\ generated < MaxMessages /\ generated' = generated + 1

LEMMA NextMessageNames ==
  ASSUME SimInv, NEW i \in Instrument, NEW drift \in Drift, NEW m,
         NextMessage(i, drift, m)
  PROVE  NamesResting(i, m)
<1> DEFINE price == refPrice[i] + drift
<1>1. DOMAIN liveOrders = Instrument /\ liveOrders[i] \subseteq LiveOrder
  BY DEF SimInv, SimTypeOK
<1>2. CASE SimAdd(i, price, m)
  BY <1>1, <1>2 DEF SimAdd, Generate, NamesResting, NewId
<1>3. CASE SimTake(i, price, m)
  <2>1. PICK order \in liveOrders[i], type \in {"Execute", "Cancel"} :
          \E qty \in 1 .. order.qty :
            LET left == IF qty = order.qty THEN {}
                        ELSE {[order EXCEPT !.qty = @ - qty]}
            IN  /\ m = [type |-> type, instrument |-> i, id |-> order.id, qty |-> qty]
                /\ Generate(i, price, (liveOrders[i] \ {order}) \cup left, nextOrderId)
    BY <1>3 DEF SimTake
  <2>2. PICK qty \in 1 .. order.qty :
          LET left == IF qty = order.qty THEN {}
                      ELSE {[order EXCEPT !.qty = @ - qty]}
          IN  /\ m = [type |-> type, instrument |-> i, id |-> order.id, qty |-> qty]
              /\ Generate(i, price, (liveOrders[i] \ {order}) \cup left, nextOrderId)
    BY <2>1
  <2> DEFINE less == [order EXCEPT !.qty = @ - qty]
  <2>3. less.id = order.id
    BY <1>1 DEF LiveOrder
  <2>4. \A a \in liveOrders'[i] : a \in liveOrders[i] \/ a = less
    BY <1>1, <2>2 DEF Generate
  <2>5. \A a \in liveOrders'[i] : \E b \in liveOrders[i] : b.id = a.id
    BY <2>3, <2>4
  <2> QED BY <1>1, <2>2, <2>5 DEF Generate, NamesResting
<1>4. CASE SimDelete(i, price, m)
  BY <1>1, <1>4 DEF SimDelete, Generate, NamesResting
<1>5. CASE SimReplace(i, price, m)
  BY <1>1, <1>5 DEF SimReplace, Generate, NamesResting, NewId
<1> QED BY <1>2, <1>3, <1>4, <1>5 DEF NextMessage

\* It finds what it needs in a map that mirrors the simulator's orders.
LEMMA NextMessageFits ==
  ASSUME SimInv, NEW i \in Instrument, NEW drift \in Drift, NEW m,
         NextMessage(i, drift, m),
         NEW map \in OrderMap, Mirrors(map, liveOrders[i], i)
  PROVE  FitsMap(map, m)
<1>1. NamesResting(i, m) /\ m \in Message /\ m.instrument = i
  BY NextMessageNames, NextMessageFollows DEF Follows
<1>2. nextOrderId \in OrderId => map[nextOrderId] = NoOrder
  <2>1. \A order \in liveOrders[i] : order.id # nextOrderId
    BY DEF SimInv, SimTypeOK, IdsAreFresh, LiveOrder, OrderId
  <2> QED BY <2>1 DEF Mirrors
<1>3. m.type # "Add" => map[m.id].instrument = i
  <2> SUFFICES ASSUME m.type # "Add" PROVE map[m.id].instrument = i
    OBVIOUS
  <2>1. PICK order \in liveOrders[i] : m.id = order.id
    BY <1>1 DEF NamesResting
  <2>2. map[order.id] = LocationOf(order, i)
    BY DEF Mirrors
  <2> QED BY <2>1, <2>2 DEF LocationOf
<1>4. m.type \in {"Add", "Replace"} => NewId(m) = nextOrderId /\ nextOrderId \in OrderId
  BY <1>1 DEF NamesResting
<1>5. m.type = "Add" => m.id = nextOrderId
  BY <1>4 DEF NewId
<1>6. m.type = "Replace" => m.newId = nextOrderId
  BY <1>4 DEF NewId
<1> QED BY <1>1, <1>2, <1>3, <1>4, <1>5, <1>6 DEF FitsMap

\* In a map that mirrors the simulator's orders, the depth is theirs.
LEMMA DepthOfLive ==
  ASSUME SimInv, NEW i \in Instrument, NEW map \in OrderMap, Mirrors(map, liveOrders[i], i),
         NEW book, NEW side, NEW index
  PROVE  LET at == {order \in liveOrders[i] :
                      order.side = side /\ IndexOf(book, order.price) = index}
         IN  DepthOf(map, book, i, side, index) = SumFunctionOnSet([order \in at |-> order.qty], at)
<1> DEFINE at == {order \in liveOrders[i] :
                    order.side = side /\ IndexOf(book, order.price) = index}
           e == [order \in at |-> order.qty]
           f == Shares(map, book, i, side, index)
           ids == {id \in OrderId : f[id] # 0}
           orderOf == [id \in ids |-> CHOOSE order \in at : order.id = id]
<1>1. IsFiniteSet(OrderId)
  BY OrderIdAssumption, FS_Interval DEF OrderId
<1>2. \A id \in OrderId : f[id] \in Int /\ f[id] = Share(map[id], book, i, side, index)
  <2>1. \A id \in OrderId : f[id] = Share(map[id], book, i, side, index)
    BY DEF Shares
  <2> HIDE DEF f
  <2> QED BY <2>1, DepthIsNat
<1>3. ASSUME NEW order \in liveOrders[i]
      PROVE  /\ order.id \in OrderId /\ order.qty \in Nat /\ order.qty > 0
             /\ map[order.id] = LocationOf(order, i) /\ map[order.id] # NoOrder
             /\ f[order.id] = IF order \in at THEN order.qty ELSE 0
  <2>1. /\ order \in LiveOrder /\ order.id \in OrderId
        /\ map[order.id] = LocationOf(order, i) /\ map[order.id] # NoOrder
    BY FoundInMap
  <2>2. order.qty \in Nat /\ order.qty > 0
    BY <2>1 DEF LiveOrder, WireQuantity
  <2>3. /\ LocationOf(order, i).instrument = i /\ LocationOf(order, i).side = order.side
        /\ LocationOf(order, i).price = order.price /\ LocationOf(order, i).qty = order.qty
    BY DEF LocationOf
  <2>4. f[order.id] = IF order.side = side /\ IndexOf(book, order.price) = index
                      THEN order.qty ELSE 0
    <3> HIDE DEF f, at
    <3> QED BY <1>2, <2>1, <2>3 DEF Share
  <2>5. order \in at <=> order.side = side /\ IndexOf(book, order.price) = index
    OBVIOUS
  <2> HIDE DEF f, at
  <2> QED BY <2>1, <2>2, <2>4, <2>5
<1>4. ASSUME NEW id \in ids
      PROVE  orderOf[id] \in at /\ orderOf[id].id = id /\ e[orderOf[id]] = f[id]
  <2>1. id \in OrderId /\ f[id] # 0
    OBVIOUS
  <2>2. map[id] # NoOrder
    <3> HIDE DEF f
    <3> QED BY <1>2, <2>1 DEF Share
  <2>3. PICK order \in liveOrders[i] : order.id = id
    BY <2>1, <2>2 DEF Mirrors
  <2>4. order \in at
    <3> HIDE DEF f, at
    <3> QED BY <1>3, <2>1, <2>3
  <2>5. \E o \in at : o.id = id
    BY <2>3, <2>4
  <2>6. orderOf[id] = CHOOSE o \in at : o.id = id
    OBVIOUS
  <2>7. orderOf[id] \in at /\ orderOf[id].id = id
    <3> HIDE DEF at, orderOf, ids
    <3> QED BY <2>5, <2>6
  <2>8. orderOf[id] \in liveOrders[i] /\ e[orderOf[id]] = orderOf[id].qty
    <3> HIDE DEF orderOf
    <3> QED BY <2>7
  <2> HIDE DEF f, at, e, orderOf
  <2> QED BY <1>3, <2>7, <2>8
<1>5. at = {orderOf[id] : id \in ids}
  <2>1. ASSUME NEW order \in at PROVE order.id \in ids /\ orderOf[order.id] = order
    <3>1. order \in liveOrders[i]
      OBVIOUS
    <3>2. order.id \in ids
      <4> HIDE DEF f, at
      <4> QED BY <1>3, <3>1
    <3>3. orderOf[order.id] \in liveOrders[i] /\ orderOf[order.id].id = order.id
      <4> HIDE DEF orderOf, ids
      <4> QED BY <1>4, <3>2
    <3> HIDE DEF orderOf, at, ids
    <3> QED BY <3>1, <3>2, <3>3 DEF SimInv, IdsAreFresh
  <2> HIDE DEF at, orderOf, ids
  <2> QED BY <1>4, <2>1
<1>6. SumFunctionOnSet(f, OrderId) = SumFunctionOnSet(f, ids)
  <2>1. ids \subseteq OrderId /\ \A id \in OrderId \ ids : f[id] = 0
    OBVIOUS
  <2> HIDE DEF f, ids
  <2> QED BY <1>1, <1>2, <2>1, SumOfSupport
<1>7. SumFunctionOnSet(f, ids) = SumFunctionOnSet(e, {orderOf[id] : id \in ids})
  <2>1. IsFiniteSet(ids) /\ \A id \in ids : f[id] \in Int
    <3> HIDE DEF f
    <3> QED BY <1>1, <1>2, FS_Subset
  <2>2. \A x, y \in ids : orderOf[x] = orderOf[y] => x = y
    <3> HIDE DEF ids, orderOf, at, e, f
    <3> QED BY <1>4
  <2>3. \A x \in ids : e[orderOf[x]] = f[x]
    BY <1>4
  <2> HIDE DEF ids, orderOf, at, e, f
  <2> QED BY <2>1, <2>2, <2>3, SumOfImages
<1> HIDE DEF f, e, at, ids, orderOf
<1>8. DepthOf(map, book, i, side, index) = SumFunctionOnSet(e, at)
  BY <1>5, <1>6, <1>7 DEF DepthOf, f
<1> QED BY <1>8 DEF e, at

-----------------------------------------------------------------------------
(***************************************************************************)
(* How far the walk goes: a reference price is as many drifts from the one *)
(* it started at as there were messages, and an order an offset further.   *)
(***************************************************************************)
Walked(n) == n * MaxDrift

Within(price, origin, distance) == origin - distance <= price /\ price <= origin + distance

PricesAreNear ==
  /\ generated <= MaxMessages
  /\ \A i \in Instrument : \E origin \in StartPrices :
       /\ Within(refPrice[i], origin, Walked(generated))
       /\ \A order \in liveOrders[i] :
            Within(order.price, origin, Walked(generated) + MaxOffset)

LEMMA PricesStartNear == SimInit => PricesAreNear
<1> SUFFICES ASSUME SimInit PROVE PricesAreNear
  OBVIOUS
<1>1. ASSUME NEW i \in Instrument
      PROVE  \E origin \in StartPrices :
               /\ Within(refPrice[i], origin, Walked(generated))
               /\ \A order \in liveOrders[i] :
                    Within(order.price, origin, Walked(generated) + MaxOffset)
  <2>1. refPrice[i] \in StartPrices /\ refPrice[i] \in Int /\ liveOrders[i] = {}
    BY SimulatorAssumption DEF SimInit
  <2>2. Walked(generated) = 0
    BY SimulatorAssumption DEF SimInit, Walked
  <2> QED BY <2>1, <2>2 DEF Within
<1> QED BY <1>1, SimulatorAssumption DEF SimInit, PricesAreNear

\* One call moves the price of its instrument by its drift, and adds orders an
\* offset from it.
LEMMA NextMessagePrices ==
  ASSUME SimInv, NEW i \in Instrument, NEW drift \in Drift, NEW m,
         NextMessage(i, drift, m)
  PROVE  /\ generated < MaxMessages /\ generated' = generated + 1
         /\ refPrice' = [refPrice EXCEPT ![i] = refPrice[i] + drift]
         /\ \A order \in liveOrders'[i] :
              \/ \E a \in liveOrders[i] : a.price = order.price
              \/ Within(order.price, refPrice[i] + drift, MaxOffset)
<1> DEFINE price == refPrice[i] + drift
           Fine(live) == \A order \in live :
                           \/ \E a \in liveOrders[i] : a.price = order.price
                           \/ Within(order.price, price, MaxOffset)
<1>0. price \in Int /\ MaxOffset \in Nat
  BY SimulatorAssumption DEF SimInv, SimTypeOK, Drift
<1>1. \A side \in Side, off \in Offset : Within(PriceAt(side, price, off), price, MaxOffset)
  <2> HIDE DEF price
  <2> QED BY <1>0 DEF PriceAt, Offset, Within
<1>2. SUFFICES \E live, next : Generate(i, price, live, next) /\ Fine(live)
  BY DEF Generate, SimInv, SimTypeOK
<1>3. CASE SimAdd(i, price, m)
  <2>1. PICK side \in Side, off \in Offset, qty \in Qty :
          Generate(i, price, liveOrders[i] \cup
                     {[id |-> nextOrderId, side |-> side,
                       price |-> PriceAt(side, price, off), qty |-> qty]}, nextOrderId + 1)
    BY <1>3 DEF SimAdd
  <2>2. Fine(liveOrders[i] \cup
                     {[id |-> nextOrderId, side |-> side,
                       price |-> PriceAt(side, price, off), qty |-> qty]})
    <3> HIDE DEF price
    <3> QED BY <1>1
  <2> HIDE DEF Fine
  <2> QED BY <2>1, <2>2
<1>4. CASE SimTake(i, price, m)
  <2>1. PICK order \in liveOrders[i] : \E qty \in 1 .. order.qty :
          Generate(i, price, (liveOrders[i] \ {order}) \cup
                      (IF qty = order.qty THEN {} ELSE {[order EXCEPT !.qty = @ - qty]}),
                   nextOrderId)
    BY <1>4 DEF SimTake
  <2>4. PICK qty \in 1 .. order.qty :
          Generate(i, price, (liveOrders[i] \ {order}) \cup
                      (IF qty = order.qty THEN {} ELSE {[order EXCEPT !.qty = @ - qty]}),
                   nextOrderId)
    BY <2>1
  <2>2. [order EXCEPT !.qty = @ - qty].price = order.price
    BY DEF SimInv, SimTypeOK, LiveOrder
  <2>3. Fine((liveOrders[i] \ {order}) \cup
                      (IF qty = order.qty THEN {} ELSE {[order EXCEPT !.qty = @ - qty]}))
    BY <2>2
  <2> HIDE DEF Fine
  <2> QED BY <2>4, <2>3
<1>5. CASE SimDelete(i, price, m)
  <2>1. PICK order \in liveOrders[i] :
          Generate(i, price, liveOrders[i] \ {order}, nextOrderId)
    BY <1>5 DEF SimDelete
  <2>2. Fine(liveOrders[i] \ {order})
    OBVIOUS
  <2> HIDE DEF Fine
  <2> QED BY <2>1, <2>2
<1>6. CASE SimReplace(i, price, m)
  <2>1. PICK order \in liveOrders[i], off \in Offset, qty \in Qty :
          Generate(i, price, (liveOrders[i] \ {order}) \cup
                     {[id |-> nextOrderId, side |-> order.side,
                       price |-> PriceAt(order.side, price, off), qty |-> qty]},
                   nextOrderId + 1)
    BY <1>6 DEF SimReplace
  <2>2. order.side \in Side
    BY DEF SimInv, SimTypeOK, LiveOrder
  <2>3. Fine((liveOrders[i] \ {order}) \cup
                     {[id |-> nextOrderId, side |-> order.side,
                       price |-> PriceAt(order.side, price, off), qty |-> qty]})
    <3> HIDE DEF price
    <3> QED BY <1>1, <2>2
  <2> HIDE DEF Fine
  <2> QED BY <2>1, <2>3
<1> QED BY <1>3, <1>4, <1>5, <1>6 DEF NextMessage

\* No order is larger than the simulator makes them.
OrdersAreSmall(live) == \A order \in live : order.qty <= MaxQty

LEMMA OrdersStaySmall ==
  ASSUME SimInv, NEW i \in Instrument, OrdersAreSmall(liveOrders[i]),
         NEW drift \in Drift, NEW m, NextMessage(i, drift, m)
  PROVE  OrdersAreSmall(liveOrders'[i])
<1> DEFINE price == refPrice[i] + drift
<1>1. SUFFICES \E live, next : Generate(i, price, live, next) /\ OrdersAreSmall(live)
  BY DEF Generate, SimInv, SimTypeOK
<1>2. \A qty \in Qty : qty <= MaxQty
  BY DEF Qty
<1>3. CASE SimAdd(i, price, m)
  <2>1. PICK side \in Side, off \in Offset, qty \in Qty :
          Generate(i, price, liveOrders[i] \cup
                     {[id |-> nextOrderId, side |-> side,
                       price |-> PriceAt(side, price, off), qty |-> qty]}, nextOrderId + 1)
    BY <1>3 DEF SimAdd
  <2>2. OrdersAreSmall(liveOrders[i] \cup
                     {[id |-> nextOrderId, side |-> side,
                       price |-> PriceAt(side, price, off), qty |-> qty]})
    BY <1>2 DEF OrdersAreSmall
  <2> QED BY <2>1, <2>2
<1>4. CASE SimTake(i, price, m)
  <2>1. PICK order \in liveOrders[i] : \E qty \in 1 .. order.qty :
          Generate(i, price, (liveOrders[i] \ {order}) \cup
                      (IF qty = order.qty THEN {} ELSE {[order EXCEPT !.qty = @ - qty]}),
                   nextOrderId)
    BY <1>4 DEF SimTake
  <2>2. PICK qty \in 1 .. order.qty :
          Generate(i, price, (liveOrders[i] \ {order}) \cup
                      (IF qty = order.qty THEN {} ELSE {[order EXCEPT !.qty = @ - qty]}),
                   nextOrderId)
    BY <2>1
  <2>3. [order EXCEPT !.qty = @ - qty].qty = order.qty - qty /\ order.qty \in Nat
    BY DEF SimInv, SimTypeOK, LiveOrder, WireQuantity
  <2>4. order.qty - qty <= MaxQty
    BY <2>3, SimulatorAssumption DEF OrdersAreSmall
  <2>5. OrdersAreSmall((liveOrders[i] \ {order}) \cup
                      (IF qty = order.qty THEN {} ELSE {[order EXCEPT !.qty = @ - qty]}))
    BY <2>3, <2>4 DEF OrdersAreSmall
  <2> QED BY <2>2, <2>5
<1>5. CASE SimDelete(i, price, m)
  <2>1. PICK order \in liveOrders[i] :
          Generate(i, price, liveOrders[i] \ {order}, nextOrderId)
    BY <1>5 DEF SimDelete
  <2>2. OrdersAreSmall(liveOrders[i] \ {order})
    BY DEF OrdersAreSmall
  <2> QED BY <2>1, <2>2
<1>6. CASE SimReplace(i, price, m)
  <2>1. PICK order \in liveOrders[i], off \in Offset, qty \in Qty :
          Generate(i, price, (liveOrders[i] \ {order}) \cup
                     {[id |-> nextOrderId, side |-> order.side,
                       price |-> PriceAt(order.side, price, off), qty |-> qty]},
                   nextOrderId + 1)
    BY <1>6 DEF SimReplace
  <2>2. OrdersAreSmall((liveOrders[i] \ {order}) \cup
                     {[id |-> nextOrderId, side |-> order.side,
                       price |-> PriceAt(order.side, price, off), qty |-> qty]})
    BY <1>2 DEF OrdersAreSmall
  <2> QED BY <2>1, <2>2
<1> QED BY <1>3, <1>4, <1>5, <1>6 DEF NextMessage

LEMMA PricesStayNear ==
  ASSUME SimInv, PricesAreNear, NEW i \in Instrument, NEW drift \in Drift, NEW m,
         NextMessage(i, drift, m)
  PROVE  PricesAreNear'
<1>1. /\ generated < MaxMessages /\ generated' = generated + 1
      /\ refPrice' = [refPrice EXCEPT ![i] = refPrice[i] + drift]
      /\ \A order \in liveOrders'[i] :
           \/ \E a \in liveOrders[i] : a.price = order.price
           \/ Within(order.price, refPrice[i] + drift, MaxOffset)
  BY NextMessagePrices
<1>2. /\ \A j \in Instrument \ {i} : liveOrders'[j] = liveOrders[j]
      /\ SimInv'
  BY NextMessageFollows DEF Follows
<1>3. /\ Walked(generated') = Walked(generated) + MaxDrift
      /\ Walked(generated) \in Nat /\ MaxDrift \in Nat /\ MaxOffset \in Nat
  BY <1>1, SimulatorAssumption DEF SimInv, SimTypeOK, Walked
<1>4. ASSUME NEW j \in Instrument
      PROVE  \E origin \in StartPrices :
               /\ Within(refPrice'[j], origin, Walked(generated'))
               /\ \A order \in liveOrders'[j] :
                    Within(order.price, origin, Walked(generated') + MaxOffset)
  <2>1. PICK origin \in StartPrices :
               /\ Within(refPrice[j], origin, Walked(generated))
               /\ \A order \in liveOrders[j] :
                    Within(order.price, origin, Walked(generated) + MaxOffset)
    BY DEF PricesAreNear
  <2>2. /\ origin \in Int /\ refPrice[j] \in Int
        /\ \A order \in liveOrders[j] : order.price \in Int
        /\ \A order \in liveOrders'[j] : order.price \in Int
    BY <1>2, SimulatorAssumption DEF SimInv, SimTypeOK, LiveOrder
  <2>3. CASE j = i
    <3>1. refPrice'[j] = refPrice[j] + drift /\ drift \in Int /\ -MaxDrift <= drift
          /\ drift <= MaxDrift
      BY <1>1, <1>3, <2>3 DEF SimInv, SimTypeOK, Drift
    <3>2. Within(refPrice'[j], origin, Walked(generated'))
      BY <1>3, <2>1, <2>2, <3>1 DEF Within
    <3>3. ASSUME NEW order \in liveOrders'[j]
          PROVE  Within(order.price, origin, Walked(generated') + MaxOffset)
      <4>1. CASE \E a \in liveOrders[j] : a.price = order.price
        BY <1>3, <2>1, <2>2, <4>1 DEF Within
      <4>2. CASE Within(order.price, refPrice[j] + drift, MaxOffset)
        <5>1. Within(refPrice[j] + drift, origin, Walked(generated'))
          BY <3>1, <3>2
        <5> QED BY <1>3, <2>2, <3>1, <4>2, <5>1 DEF Within
      <4> QED BY <1>1, <2>3, <4>1, <4>2
    <3> QED BY <3>2, <3>3
  <2>4. CASE j # i
    <3>1. refPrice'[j] = refPrice[j] /\ liveOrders'[j] = liveOrders[j]
      BY <1>1, <1>2, <2>4 DEF SimInv, SimTypeOK
    <3> QED BY <1>3, <2>1, <2>2, <3>1 DEF Within
  <2> QED BY <2>3, <2>4
<1>5. generated' <= MaxMessages
  BY <1>1, SimulatorAssumption DEF SimInv, SimTypeOK
<1> QED BY <1>4, <1>5 DEF PricesAreNear, Walked
=============================================================================
