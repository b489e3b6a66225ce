-------------------------------- MODULE Nbbo --------------------------------
(***************************************************************************)
(* NbboAggregator (include/nbbo.hpp) and TradeThroughGuard                 *)
(* (include/trade_through_guard.hpp): pure functions of the books of all   *)
(* venues, evaluated between two steps of the venues.  The operators take  *)
(* the books as a parameter; the invariants ask them about the books the   *)
(* venues really have.                                                     *)
(***************************************************************************)
EXTENDS VenueFeed

NoQuote == [venue |-> -1]

\* Quote of a venue's own touch.  The quantity is narrowed to 32 bits in the
\* program and left out here: nothing decides on it.
BidQuote(books, v) == [venue |-> v, price |-> BestBid(books[v])]
OfferQuote(books, v) == [venue |-> v, price |-> BestAsk(books[v])]

\* Variant: the last of several equal bids is taken.
NationalBidLast(books) ==
  LET quoting == {v \in Venue : HasBid(books[v])}
  IN  IF quoting = {} THEN NoQuote
      ELSE BidQuote(books, CHOOSE v \in quoting : \A w \in quoting :
             \/ BestBid(books[w]) < BestBid(books[v])
             \/ BestBid(books[w]) = BestBid(books[v]) /\ w <= v)

\* NbboAggregator::best_bid(): a later venue replaces an earlier one only when
\* it is strictly better.
NationalBid(books) ==
  LET quoting == {v \in Venue : HasBid(books[v])}
  IN  IF quoting = {} THEN NoQuote
      ELSE BidQuote(books, CHOOSE v \in quoting : \A w \in quoting :
             \/ BestBid(books[w]) < BestBid(books[v])
             \/ BestBid(books[w]) = BestBid(books[v]) /\ v <= w)

\* NbboAggregator::best_offer()
NationalOffer(books) ==
  LET quoting == {v \in Venue : HasAsk(books[v])}
  IN  IF quoting = {} THEN NoQuote
      ELSE OfferQuote(books, CHOOSE v \in quoting : \A w \in quoting :
             \/ BestAsk(books[w]) > BestAsk(books[v])
             \/ BestAsk(books[w]) = BestAsk(books[v]) /\ v <= w)

\* Variant: each pair of venues is looked at one way round.
InvertedOneWay(books) ==
  {p \in Venue \X Venue : /\ p[1] < p[2]
                          /\ HasBid(books[p[1]]) /\ HasAsk(books[p[2]])
                          /\ BestBid(books[p[1]]) >= BestAsk(books[p[2]])}

\* Distinct venues with the bid of the first at or above the offer of the
\* second.
Inverted(books) ==
  {p \in Venue \X Venue : /\ p[1] # p[2]
                          /\ HasBid(books[p[1]]) /\ HasAsk(books[p[2]])
                          /\ BestBid(books[p[1]]) >= BestAsk(books[p[2]])}

\* NbboAggregator::classify()
Classify(books) ==
  {[bidVenue |-> p[1], offerVenue |-> p[2],
    relation |-> IF BestBid(books[p[1]]) = BestAsk(books[p[2]])
                 THEN "Locked" ELSE "Crossed"] : p \in Inverted(books)}

\* An order is sent to one venue: its limit is a price in ticks.
OutboundOrder == [side : Side, limit : Int, venue : Venue]

TouchOf(side, book) == IF side = "Buy" THEN BestAsk(book) ELSE BestBid(book)
HasTouch(side, book) == IF side = "Buy" THEN HasAsk(book) ELSE HasBid(book)

\* Whether price a is better than b for an order of this side.
BetterFor(side, a, b) == IF side = "Buy" THEN a < b ELSE a > b

\* Variant: an order at the touch is taken to rest.
MarketableBeyondTouch(order, books) ==
  /\ HasTouch(order.side, books[order.venue])
  /\ BetterFor(order.side, TouchOf(order.side, books[order.venue]), order.limit)

\* The order crosses the touch of its own venue, where it would execute.
Marketable(order, books) ==
  /\ HasTouch(order.side, books[order.venue])
  /\ ~BetterFor(order.side, order.limit, TouchOf(order.side, books[order.venue]))

\* Variant: only the limit is compared with the other venues' prices.
EvaluateByLimit(order, books) ==
  LET own   == books[order.venue]
      quote == IF order.side = "Buy" THEN NationalOffer(books) ELSE NationalBid(books)
  IN  IF ~HasTouch(order.side, own) THEN "RejectedNoLiquidity"
      ELSE IF ~Marketable(order, books) THEN "Accepted"
      ELSE IF quote # NoQuote /\ quote.venue # order.venue
              /\ BetterFor(order.side, quote.price, order.limit)
      THEN "RejectedTradeThrough"
      ELSE "Accepted"

\* TradeThroughGuard::evaluate()
Evaluate(order, books) ==
  LET own   == books[order.venue]
      quote == IF order.side = "Buy" THEN NationalOffer(books) ELSE NationalBid(books)
  IN  IF ~HasTouch(order.side, own) THEN "RejectedNoLiquidity"
      ELSE IF ~Marketable(order, books) THEN "Accepted"
      ELSE IF quote # NoQuote /\ quote.venue # order.venue
              /\ BetterFor(order.side, quote.price, TouchOf(order.side, own))
      THEN "RejectedTradeThrough"
      ELSE "Accepted"

-----------------------------------------------------------------------------
\* The orders of the simulated markets that the books could hold.
Rests(side) ==
  UNION {{[venue |-> v, price |-> o.price] :
            o \in {o \in liveOrders[v] :
                     o.side = side /\ InBand(venueBooks[v], o.price)}} : v \in Venue}

\* A published quote is where an order rests, and no other is at a better price
\* or at the same price at an earlier venue.  The better bid is the one better
\* for a seller.
Published(quote, resting, taker) ==
  IF resting = {} THEN quote = NoQuote
  ELSE /\ quote \in resting
       /\ \A r \in resting : \/ BetterFor(taker, quote.price, r.price)
                             \/ r.price = quote.price /\ quote.venue <= r.venue

\* The NBBO is the best price at which any order rests at any venue, and names
\* the first venue that has one there, however the venues got there.
NbboIsBestResting ==
  /\ Published(NationalBid(venueBooks), Rests("Buy"), "Sell")
  /\ Published(NationalOffer(venueBooks), Rests("Sell"), "Buy")

\* An inverted market is always explained: if the best bid is not below the
\* best offer, classify() reports a pair, or one venue is at both ends.
InversionIsReported ==
  LET nbb == NationalBid(venueBooks)
      nbo == NationalOffer(venueBooks)
  IN  nbb # NoQuote /\ nbo # NoQuote /\ nbb.price >= nbo.price =>
        \/ nbb.venue = nbo.venue
        \/ \E p \in Classify(venueBooks) :
             /\ p.bidVenue = nbb.venue /\ p.offerVenue = nbo.venue
             /\ p.relation = IF nbb.price = nbo.price THEN "Locked" ELSE "Crossed"

\* What the guard is for: an order that is let through and would execute does
\* not execute at a price worse than any other venue quotes.
AcceptedIsBest(order, books) ==
  Evaluate(order, books) = "Accepted" /\ Marketable(order, books) =>
    \A v \in Venue : HasTouch(order.side, books[v]) =>
      ~BetterFor(order.side, TouchOf(order.side, books[v]),
                 TouchOf(order.side, books[order.venue]))

\* An order is refused for one of two reasons.  Another venue's price is better
\* than the one of its own venue and within the limit of the order; or its own
\* venue has nothing to execute it against, where it could only have rested.
RefusedForReason(order, books) ==
  LET decision == Evaluate(order, books)
  IN  /\ decision = "RejectedTradeThrough" =>
           \E v \in Venue \ {order.venue} :
             /\ HasTouch(order.side, books[v])
             /\ BetterFor(order.side, TouchOf(order.side, books[v]),
                          TouchOf(order.side, books[order.venue]))
             /\ ~BetterFor(order.side, order.limit, TouchOf(order.side, books[v]))
      /\ decision \notin {"Accepted", "RejectedTradeThrough"} =>
           ~HasTouch(order.side, books[order.venue])

\* The prices of the band and one beyond each end.
BandPrice == VenueReference - Levels \div 2 - 1 .. VenueReference + Levels \div 2
BandOrder == [side : Side, limit : BandPrice, venue : Venue]

\* Both, for every order around the band and the books the venues have: of the
\* orders that would execute, the guard refuses exactly those that would do so
\* at a worse price than another venue's, and of the others only those whose
\* venue has no quote for them.
GuardIsExact ==
  \A order \in BandOrder : /\ AcceptedIsBest(order, venueBooks)
                           /\ RefusedForReason(order, venueBooks)

\* README.md:623: "a buy above the NBBO offer or a sell below the NBBO bid is a
\* trade-through and is rejected".
BeyondNbboIsRejected(order, books) ==
  LET quote == IF order.side = "Buy" THEN NationalOffer(books) ELSE NationalBid(books)
  IN  quote # NoQuote /\ BetterFor(order.side, quote.price, order.limit) =>
        Evaluate(order, books) # "Accepted"

\* trade_through_guard.hpp:12: an order "that is not marketable at its own venue"
\* is "accepted and left resting".
UnmarketableIsAccepted(order, books) ==
  ~Marketable(order, books) => Evaluate(order, books) = "Accepted"

=============================================================================
