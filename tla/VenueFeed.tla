------------------------------ MODULE VenueFeed ------------------------------
(***************************************************************************)
(* VenueFeed (include/venue_feed.hpp): a venue is a simulator of one       *)
(* instrument, an order map and a book, and step() pulls one message and   *)
(* applies it in the same thread.  There are as many venues as the program *)
(* builds; the simulator of venue v is instrument v of MarketSimulator,    *)
(* with a reference price and orders of its own.  The venues draw their    *)
(* order ids from one counter here and from one each in the program; an id *)
(* is only ever looked up in the map of its own venue.                     *)
(***************************************************************************)
EXTENDS MarketSimulator, FiniteSetsExt

CONSTANT VenueReference   \* reference_price_ticks of the constructors

ASSUME VenueReferenceAssumption == VenueReference \in Int

VARIABLES venueOrders,   \* orders_ of each venue
          venueBooks,    \* book_ of each venue
          last           \* the message step() returned

venueVars == <<venueOrders, venueBooks, last, simVars>>

Venue == Instrument

VenueInit ==
  /\ SimInit
  /\ venueOrders = [v \in Venue |-> NoOrders]
  /\ venueBooks = [v \in Venue |-> BookInit(VenueReference)]
  /\ last = NoMessage

Step(v) ==
  /\ \E drift \in Drift : NextMessage(v, drift, last')
  /\ LET after == Apply([orders |-> venueOrders[v], book |-> venueBooks[v]], last')
     IN  /\ venueOrders' = [venueOrders EXCEPT ![v] = after.orders]
         /\ venueBooks' = [venueBooks EXCEPT ![v] = after.book]

VenueNext == \E v \in Venue : Step(v)

VenueSpec == VenueInit /\ [][VenueNext]_venueVars

-----------------------------------------------------------------------------
\* The maps and the books have the types the class declares.
VenueTypeOK ==
  \A v \in Venue : [orders |-> venueOrders[v], book |-> venueBooks[v]] \in View

Resting(v) == {id \in OrderId : venueOrders[v][id] # NoOrder}

\* Every order a venue holds is one its simulator believes to be resting, at
\* the same price and with the same quantity left, and the other way round.
OrdersAreLive ==
  \A v \in Venue :
    liveOrders[v] =
      {[id |-> id, side |-> venueOrders[v][id].side,
        price |-> venueOrders[v][id].price, qty |-> venueOrders[v][id].qty] :
       id \in Resting(v)}

LiveQty(v, side, index) ==
  LET at == {order \in liveOrders[v] :
               /\ order.side = side
               /\ IndexOf(venueBooks[v], order.price) = index}
  IN  SumFunction([order \in at |-> order.qty])

\* The depth of a book is the depth of the simulated market, level by level:
\* nothing is clamped away, counted twice or left behind, whichever partial
\* executions, cancels and replaces lie in between.
DepthIsLive ==
  \A v \in Venue, index \in Index :
    /\ venueBooks[v].bid[index] = LiveQty(v, "Buy", index)
    /\ venueBooks[v].ask[index] = LiveQty(v, "Sell", index)

\* oracle_best_bid() and oracle_best_ask() (include/nbbo.hpp): a scan of all
\* levels, as an index.
OracleBid(book) ==
  LET occupied == {i \in Index : book.bid[i] > 0}
  IN  IF occupied = {} THEN -1 ELSE Max(occupied)

OracleAsk(book) ==
  LET occupied == {i \in Index : book.ask[i] > 0}
  IN  IF occupied = {} THEN Levels ELSE Min(occupied)

\* tests/nbbo_reference_test.cpp: the indices maintained incrementally are the
\* ones the scan finds.
OracleAgrees ==
  \A v \in Venue : /\ venueBooks[v].bestBid = OracleBid(venueBooks[v])
                   /\ venueBooks[v].bestAsk = OracleAsk(venueBooks[v])

Distance(a, b) == IF a < b THEN b - a ELSE a - b

\* The README's NBBO section: the venues are "independent random walks around
\* one shared reference price", the one their constructors are given.
WalksAroundVenueReference ==
  \A v \in Venue : \A order \in liveOrders[v] :
    Distance(order.price, VenueReference) <= MaxOffset + generated * MaxDrift
=============================================================================
