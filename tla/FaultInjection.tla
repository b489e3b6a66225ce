--------------------------- MODULE FaultInjection ---------------------------
(***************************************************************************)
(* The fault-injection harness of the guard (src/nbbo_fault_injection.cpp) *)
(* run against the venues.  Its first part waits for a venue whose touch   *)
(* is worse than another's and sends it an order at that touch, which the  *)
(* guard must reject; its second part sends orders that it must not.  The  *)
(* program steps its venues in rounds; here they step one at a time, which *)
(* includes the rounds, and a warm-up may be of any length.                *)
(***************************************************************************)
EXTENDS Nbbo

CONSTANTS Scenarios,   \* target_scenarios, at most
          Orders       \* orders_per_session

ASSUME HarnessAssumption == Scenarios \in Nat /\ Orders \in Nat

VARIABLES part,           \* 1 or 2
          constructed,    \* scenarios of part 1; also its loop counter n
          caught,         \* those the guard rejected
          k,              \* the next order of a session of part 2
          falsePositives  \* orders of part 2 the guard rejected

countVars == <<part, constructed, caught, k, falsePositives>>
harnessVars == <<venueVars, countVars>>

HarnessInit ==
  /\ VenueInit
  /\ part = 1 /\ constructed = 0 /\ caught = 0
  /\ k = 0 /\ falsePositives = 0

StepVenues == VenueNext /\ UNCHANGED countVars

\* find_buy_violation() and find_sell_violation(): the pairs of a victim and a
\* rival with a strictly better touch, and the first of them in the order of the
\* two loops.
Throughs(side, books) ==
  {p \in Venue \X Venue :
     /\ HasTouch(side, books[p[1]]) /\ HasTouch(side, books[p[2]])
     /\ BetterFor(side, TouchOf(side, books[p[2]]), TouchOf(side, books[p[1]]))}

FirstPair(pairs) ==
  CHOOSE p \in pairs :
    \A q \in pairs : p[1] < q[1] \/ (p[1] = q[1] /\ p[2] <= q[2])

OrderAtTouch(side, v) ==
  [side |-> side, limit |-> TouchOf(side, venueBooks[v]), venue |-> v]

\* A buy and a sell in turn.
Inject ==
  LET side == IF constructed % 2 = 0 THEN "Buy" ELSE "Sell"
      pairs == Throughs(side, venueBooks)
  IN  /\ part = 1 /\ constructed < Scenarios
      /\ pairs # {}
      /\ LET order == OrderAtTouch(side, FirstPair(pairs)[1])
         IN  caught' = IF Evaluate(order, venueBooks) = "RejectedTradeThrough"
                       THEN caught + 1 ELSE caught
      /\ constructed' = constructed + 1
      /\ UNCHANGED <<venueVars, part, k, falsePositives>>

\* All scenarios were constructed, or the next is not found within the step
\* budget; then, and after each session, the harness builds new venues.
NewSession ==
  /\ venueOrders' = [v \in Venue |-> NoOrders]
  /\ venueBooks' = [v \in Venue |-> BookInit(VenueReference)]
  /\ last' = NoMessage
  /\ refPrice' \in [Instrument -> StartPrices]
  /\ liveOrders' = [i \in Instrument |-> {}]
  /\ nextOrderId' = 1 /\ generated' = 0
  /\ part' = 2 /\ k' = 0
  /\ UNCHANGED <<constructed, caught, falsePositives>>

\* The next order of a session: to the venue that has the best price, at that
\* price or, every third one, far away from it; none if no venue quotes.
CleanOrder ==
  LET side  == IF k % 2 = 0 THEN "Buy" ELSE "Sell"
      best  == IF side = "Buy" THEN NationalOffer(venueBooks) ELSE NationalBid(venueBooks)
      away  == IF k % 3 # 0 THEN 0 ELSE IF side = "Buy" THEN -500 ELSE 500
      order == [side |-> side, limit |-> best.price + away, venue |-> best.venue]
  IN  /\ part = 2 /\ k < Orders
      /\ falsePositives' =
           IF best # NoQuote /\ Evaluate(order, venueBooks) = "RejectedTradeThrough"
           THEN falsePositives + 1 ELSE falsePositives
      /\ k' = k + 1
      /\ UNCHANGED <<venueVars, part, constructed, caught>>

HarnessNext == StepVenues \/ Inject \/ NewSession \/ CleanOrder

HarnessSpec == HarnessInit /\ [][HarnessNext]_harnessVars

-----------------------------------------------------------------------------
\* "PASS: all fault-injection checks passed." (nbbo_fault_injection.cpp:193): the
\* guard catches every scenario the harness constructs and nothing of its clean
\* sessions, whatever its venues did before; that the harness finds its 2,000
\* scenarios within the budget is a matter of probabilities and left out.
HarnessPasses == caught = constructed /\ falsePositives = 0
=============================================================================
