------------------------------ MODULE OrderBook ------------------------------
(***************************************************************************)
(* OrderBook (include/order_book.hpp): one instrument's aggregated         *)
(* quantity per price level in a band of kLevels ticks around a reference  *)
(* price, and the index of the best level of each side.  A book is a       *)
(* record, and the member functions that change it are operators from      *)
(* books to books: the class has no threads of its own, and the modules    *)
(* that own books (Normalizer, VenueFeed) apply them.                      *)
(***************************************************************************)
EXTENDS Integers, FiniteSets

CONSTANTS Levels,    \* kLevels: levels per side
          IntRange   \* 2^32 in the program: how many values an int has, and a uint32_t

\* The band is halved around the reference price, and an int can hold every
\* index from -1 to kLevels.
ASSUME LevelsAssumption == Levels \in Nat /\ Levels >= 2
ASSUME IntAssumption == IntRange \in Nat /\ IntRange >= 2 * Levels + 2

Side == {"Buy", "Sell"}
Index == 0 .. Levels - 1
Quantity == Nat

Book == [base    : Int,
         bid     : [Index -> Quantity],     \* bid_qty_
         ask     : [Index -> Quantity],     \* ask_qty_
         bestBid : -1 .. Levels - 1,        \* best_bid_idx_
         bestAsk : 0 .. Levels,             \* best_ask_idx_
         dropped : Nat]                     \* dropped_

\* init(): an empty book whose band is centred on the reference price.  The
\* program calls it once per book, on a book that has dropped nothing yet.
BookInit(referencePrice) ==
  [base |-> referencePrice - Levels \div 2,
   bid |-> [i \in Index |-> 0], ask |-> [i \in Index |-> 0],
   bestBid |-> -1, bestAsk |-> Levels, dropped |-> 0]

\* index_of(): the 64-bit difference narrowed to an int.
IndexOf(book, price) ==
  LET low == (price - book.base) % IntRange
  IN  IF low < IntRange \div 2 THEN low ELSE low - IntRange

InBand(book, price) == IndexOf(book, price) \in Index

\* The loops that look for the next occupied level, downwards and upwards.
WalkDown(levels, from) ==
  CHOOSE j \in -1 .. from :
    /\ j = -1 \/ levels[j] # 0
    /\ \A k \in j + 1 .. from : levels[k] = 0

\* Variant: the next level is taken, occupied or not.
WalkUpOneStep(levels, from) == IF from = Levels THEN from ELSE from + 1

WalkUp(levels, from) ==
  CHOOSE j \in from .. Levels :
    /\ j = Levels \/ levels[j] # 0
    /\ \A k \in from .. j - 1 : levels[k] = 0

\* q -= qty; if (q < 0) q = 0
Minus(q, qty) == IF qty > q THEN 0 ELSE q - qty

DropUpdate(book) == [book EXCEPT !.dropped = @ + 1]

\* add()
BookAdd(book, side, price, qty) ==
  LET i == IndexOf(book, price)
  IN  IF ~InBand(book, price)
      THEN DropUpdate(book)
      ELSE IF side = "Buy"
      THEN [book EXCEPT !.bid[i] = @ + qty,
                        !.bestBid = IF i > @ THEN i ELSE @]
      ELSE [book EXCEPT !.ask[i] = @ + qty,
                        !.bestAsk = IF i < @ THEN i ELSE @]

\* Variant: the best index is left where it was.
BookReduceKeepsBest(book, side, price, qty) ==
  LET i == IndexOf(book, price)
  IN  IF ~InBand(book, price)
      THEN DropUpdate(book)
      ELSE IF side = "Buy"
      THEN [book EXCEPT !.bid[i] = Minus(@, qty)]
      ELSE [book EXCEPT !.ask[i] = Minus(@, qty)]

\* reduce(): the best index moves only when the best level has become empty.
BookReduce(book, side, price, qty) ==
  LET i   == IndexOf(book, price)
      bid == [book.bid EXCEPT ![i] = Minus(@, qty)]
      ask == [book.ask EXCEPT ![i] = Minus(@, qty)]
  IN  IF ~InBand(book, price)
      THEN DropUpdate(book)
      ELSE IF side = "Buy"
      THEN [book EXCEPT
             !.bid = bid,
             !.bestBid = IF i = @ /\ bid[i] = 0 THEN WalkDown(bid, @) ELSE @]
      ELSE [book EXCEPT
             !.ask = ask,
             !.bestAsk = IF i = @ /\ ask[i] = 0 THEN WalkUp(ask, @) ELSE @]

\* has_bid(), has_ask(), best_bid_ticks(), best_ask_ticks()
HasBid(book) == book.bestBid >= 0
HasAsk(book) == book.bestAsk < Levels
BestBid(book) == book.base + book.bestBid
BestAsk(book) == book.base + book.bestAsk

\* qty_at()
QtyAt(book, side, price) ==
  IF ~InBand(book, price) THEN 0
  ELSE IF side = "Buy" THEN book.bid[IndexOf(book, price)]
  ELSE book.ask[IndexOf(book, price)]

-----------------------------------------------------------------------------
\* "Top of book": nothing is quoted above the best bid or below the best ask.
\* An order of quantity 0 makes an empty level the best one, so the converse,
\* that the best level is not empty, is a property of its own.
NothingBetter(book) ==
  /\ \A i \in Index : i > book.bestBid => book.bid[i] = 0
  /\ \A i \in Index : i < book.bestAsk => book.ask[i] = 0

BestIsOccupied(book) ==
  /\ HasBid(book) => book.bid[book.bestBid] > 0
  /\ HasAsk(book) => book.ask[book.bestAsk] > 0
=============================================================================
