-------------------------- MODULE BookReaderProofs --------------------------
(***************************************************************************)
(* A book read while it is written, for every number of levels, orders and *)
(* messages.                                                               *)
(***************************************************************************)
EXTENDS BookReader, SimulatorProofs, SequenceTheorems

(***************************************************************************)
(* The stores of one add() or reduce(): every book on the way has each     *)
(* level as it was or as it will be, and its best index on the way from    *)
(* the old one to the new one.                                             *)
(***************************************************************************)
Amid(x, a, b) == (a <= x /\ x <= b) \/ (b <= x /\ x <= a)

Between(book, from, to) ==
  /\ book.base = from.base /\ from.base = to.base
  /\ \A side \in Side :
       /\ BestOf(book, side) \in Int
       /\ Amid(BestOf(book, side), BestOf(from, side), BestOf(to, side))
       /\ \A i \in Index : Depth(book, side)[i] \in {Depth(from, side)[i], Depth(to, side)[i]}

\* A list of stores that leads from one book to another.
Leads(list, from, to) ==
  /\ list \in Seq(Book)
  /\ \A k \in 1 .. Len(list) : Between(list[k], from, to)
  /\ list # << >> => list[Len(list)] = to
  /\ list = << >> => from = to

\* What a book holds has the types of its fields.
LEMMA BookFields ==
  ASSUME NEW book \in Book, NEW side \in Side
  PROVE  /\ Depth(book, side) \in [Index -> Nat]
         /\ BestOf(book, side) \in Int
         /\ side = "Buy" => BestOf(book, side) \in -1 .. Levels - 1
         /\ side = "Sell" => BestOf(book, side) \in 0 .. Levels
         /\ book.base \in Int
BY LevelsAssumption DEF Book, Quantity, Depth, BestOf, Side

\* Books are between themselves.
LEMMA EndsAreBetween ==
  ASSUME NEW from \in Book, NEW to \in Book, from.base = to.base
  PROVE  Between(from, from, to) /\ Between(to, from, to)
BY BookFields DEF Between, Amid

\* A store of a quantity, and one of a best index.
LEMMA Stored ==
  ASSUME NEW book \in Book, NEW side \in Side, NEW i \in Index, NEW qty \in Nat,
         NEW best \in Int,
         side = "Buy" => best \in -1 .. Levels - 1,
         side = "Sell" => best \in 0 .. Levels
  PROVE  /\ StoreQty(book, side, i, qty) \in Book
         /\ StoreQty(book, side, i, qty).base = book.base
         /\ Depth(StoreQty(book, side, i, qty), side)
              = [Depth(book, side) EXCEPT ![i] = qty]
         /\ \A s \in Side \ {side} : Depth(StoreQty(book, side, i, qty), s) = Depth(book, s)
         /\ \A s \in Side : BestOf(StoreQty(book, side, i, qty), s) = BestOf(book, s)
         /\ StoreBest(book, side, best) \in Book
         /\ StoreBest(book, side, best).base = book.base
         /\ \A s \in Side : Depth(StoreBest(book, side, best), s) = Depth(book, s)
         /\ BestOf(StoreBest(book, side, best), side) = best
         /\ \A s \in Side \ {side} : BestOf(StoreBest(book, side, best), s) = BestOf(book, s)
<1>1. CASE side = "Buy"
  BY <1>1 DEF Book, Quantity, StoreQty, StoreBest, Depth, BestOf, Side
<1>2. CASE side = "Sell"
  BY <1>2 DEF Book, Quantity, StoreQty, StoreBest, Depth, BestOf, Side
<1> QED BY <1>1, <1>2 DEF Side

\* The stores of add() lead to the book that add() makes.
LEMMA AddStoresLead ==
  ASSUME NEW book \in Book, NEW side \in Side, NEW price \in Int, NEW qty \in Nat
  PROVE  /\ Leads(AddStores(book, side, price, qty), book, BookAdd(book, side, price, qty))
         /\ AddStores(book, side, price, qty) # << >>
<1> DEFINE i == IndexOf(book, price)
           new == BookAdd(book, side, price, qty)
           filled == StoreQty(book, side, i, Depth(book, side)[i] + qty)
           list == AddStores(book, side, price, qty)
<1>1. CASE ~InBand(book, price)
  <2>1. list = <<DropUpdate(book)>> /\ new = DropUpdate(book)
    BY <1>1 DEF AddStores, BookAdd
  <2>2. new \in Book /\ new.base = book.base
    BY <2>1 DEF DropUpdate, Book
  <2>3. Between(new, book, new)
    BY <2>2, EndsAreBetween
  <2> HIDE DEF new, list
  <2>4. Len(list) = 1 /\ list[1] = new /\ list \in Seq(Book)
    BY <2>1, <2>2
  <2> QED BY <2>3, <2>4, <2>1 DEF Leads, new, list
<1>2. CASE InBand(book, price)
  <2>1. i \in Index /\ Depth(book, side)[i] + qty \in Nat /\ i \in Int
    <3>1. i \in Index /\ i \in Int
      BY <1>2, LevelsAssumption DEF InBand, Index
    <3>2. Depth(book, side)[i] \in Nat
      <4> HIDE DEF i
      <4> QED BY <3>1, BookFields
    <3> QED BY <3>1, <3>2
  <2>2. /\ side = "Buy" => i \in -1 .. Levels - 1
        /\ side = "Sell" => i \in 0 .. Levels
    BY <2>1, LevelsAssumption DEF Index
  <2>3. PICK q \in Nat : q = Depth(book, side)[i] + qty
    BY <2>1
  <2>4. filled = StoreQty(book, side, i, q)
    BY <2>3
  <2>5. /\ filled \in Book /\ filled.base = book.base
        /\ Depth(filled, side) = [Depth(book, side) EXCEPT ![i] = q]
        /\ \A s \in Side \ {side} : Depth(filled, s) = Depth(book, s)
        /\ \A s \in Side : BestOf(filled, s) = BestOf(book, s)
    BY <2>1, <2>2, <2>4, Stored
  <2>6. new = IF Beats(side, i, BestOf(book, side)) THEN StoreBest(filled, side, i) ELSE filled
    <3>1. CASE side = "Buy"
      BY <1>2, <2>1, <3>1 DEF BookAdd, Beats, BestOf, StoreBest, StoreQty, Depth, Book
    <3>2. CASE side = "Sell"
      BY <1>2, <2>1, <3>2 DEF BookAdd, Beats, BestOf, StoreBest, StoreQty, Depth, Book
    <3> QED BY <3>1, <3>2 DEF Side
  <2>7. CASE Beats(side, i, BestOf(book, side))
    <3>1. new = StoreBest(filled, side, i)
      BY <2>6, <2>7
    <3>2. list = <<filled, new>>
      BY <1>2, <2>7, <3>1 DEF AddStores
    <3>3. /\ new \in Book /\ new.base = book.base
          /\ \A s \in Side : Depth(new, s) = Depth(filled, s)
          /\ BestOf(new, side) = i
          /\ \A s \in Side \ {side} : BestOf(new, s) = BestOf(filled, s)
      <4> HIDE DEF new, filled
      <4> QED BY <2>1, <2>2, <2>5, <3>1, Stored
    <3> HIDE DEF new, filled, list
    <3>4. Between(new, book, new)
      BY <3>3, EndsAreBetween
    <3>5. Between(filled, book, new)
      <4>1. \A s \in Side : BestOf(filled, s) = BestOf(book, s) /\ BestOf(book, s) \in Int
                            /\ BestOf(new, s) \in Int
        BY <2>5, <3>3, BookFields
      <4>2. \A s \in Side : Depth(filled, s) = Depth(new, s)
        BY <3>3
      <4> QED BY <4>1, <4>2, <2>5, <3>3 DEF Between, Amid
    <3>6. Len(list) = 2 /\ list[1] = filled /\ list[2] = new /\ list \in Seq(Book)
      BY <2>5, <3>2, <3>3
    <3> QED BY <3>2, <3>4, <3>5, <3>6 DEF Leads, list, new
  <2>8. CASE ~Beats(side, i, BestOf(book, side))
    <3>1. new = filled /\ list = <<new>>
      BY <1>2, <2>6, <2>8 DEF AddStores
    <3> HIDE DEF new, filled, list
    <3>2. Between(new, book, new)
      BY <2>5, <3>1, EndsAreBetween
    <3>3. Len(list) = 1 /\ list[1] = new /\ list \in Seq(Book)
      BY <2>5, <3>1
    <3> QED BY <3>1, <3>2, <3>3 DEF Leads, list, new
  <2> QED BY <2>7, <2>8
<1> QED BY <1>1, <1>2

\* Where the loop that looks for the next best level ends.
WalkedTo(book, side) ==
  IF side = "Buy" THEN WalkDown(book.bid, book.bestBid)
  ELSE WalkUp(book.ask, book.bestAsk)

\* The stores of that loop, when it starts at an empty level.
LEMMA WalkStoresLead ==
  ASSUME NEW book \in Book, NEW side \in Side, BestOf(book, side) \in Index,
         Depth(book, side)[BestOf(book, side)] = 0
  PROVE  LET to == WalkedTo(book, side)
         IN  /\ side = "Buy" => to \in -1 .. Levels - 1
             /\ side = "Sell" => to \in 0 .. Levels
             /\ StoreBest(book, side, to) \in Book
             /\ Leads(WalkStores(book, side), book, StoreBest(book, side, to))
             /\ WalkStores(book, side) # << >>
<1> DEFINE to == WalkedTo(book, side)
           end == StoreBest(book, side, to)
           list == WalkStores(book, side)
<1>0. Levels \in Nat
  BY LevelsAssumption
<1>1. PICK from \in Index : from = BestOf(book, side)
  OBVIOUS
<1>2. CASE side = "Buy"
  <2>1. book.bid \in [Index -> Quantity] /\ book.bestBid = from /\ book.bid[from] = 0
        /\ from \in -1 .. Levels - 1
    BY <1>0, <1>1, <1>2 DEF Depth, BestOf, Book, Index
  <2>2. to \in -1 .. from /\ (to # -1 => book.bid[to] # 0)
    BY <1>2, <2>1, WalkDownStops DEF WalkedTo
  <2>3. PICK n \in Nat \ {0} : n = from - to
    BY <1>0, <2>1, <2>2 DEF Index
  <2>4. list = [k \in 1 .. n |-> StoreBest(book, side, from - k)]
    BY <1>2, <2>1, <2>3 DEF WalkStores, BestOf, WalkedTo
  <2>5. to \in -1 .. Levels - 1
    BY <1>0, <2>1, <2>2
  <2> HIDE DEF to, list
  <2>6. ASSUME NEW best \in -1 .. Levels - 1, to <= best, best <= from
        PROVE  StoreBest(book, side, best) \in Book
               /\ Between(StoreBest(book, side, best), book, StoreBest(book, side, to))
    <3>0. 0 \in Index /\ 0 \in Nat /\ best \in Int /\ to \in Int
      BY <1>0, <2>5, LevelsAssumption DEF Index
    <3>1. PICK x : x = StoreBest(book, side, best)
      OBVIOUS
    <3>2. PICK y : y = StoreBest(book, side, to)
      OBVIOUS
    <3>3. /\ x \in Book /\ x.base = book.base /\ BestOf(x, side) = best
          /\ \A s \in Side : Depth(x, s) = Depth(book, s)
          /\ \A s \in Side \ {side} : BestOf(x, s) = BestOf(book, s)
      BY <3>0, <3>1, <1>2, <2>6, Stored
    <3>4. /\ y \in Book /\ y.base = book.base /\ BestOf(y, side) = to
          /\ \A s \in Side : Depth(y, s) = Depth(book, s)
          /\ \A s \in Side \ {side} : BestOf(y, s) = BestOf(book, s)
      BY <3>0, <3>2, <1>2, <2>5, Stored
    <3>5. \A s \in Side : BestOf(book, s) \in Int
      BY BookFields
    <3> QED BY <3>0, <3>1, <3>2, <3>3, <3>4, <3>5, <1>1, <2>6 DEF Between, Amid
  <2>7. \A k \in 1 .. n : from - k \in -1 .. Levels - 1 /\ to <= from - k /\ from - k <= from
    BY <1>0, <2>1, <2>2, <2>3, <2>5
  <2>8. list \in Seq(Book) /\ Len(list) = n
        /\ \A k \in 1 .. n : list[k] = StoreBest(book, side, from - k)
    <3>1. list \in [1 .. n -> Book]
      BY <2>4, <2>6, <2>7
    <3> QED BY <2>4, <3>1
  <2>9. list[n] = StoreBest(book, side, to)
    <3>1. from - n = to /\ n \in 1 .. n
      BY <2>1, <2>3, <2>5
    <3> QED BY <2>8, <3>1
  <2>10. StoreBest(book, side, to) \in Book
    BY <2>2, <2>5, <2>6, <1>0, <2>1
  <2>11. \A k \in 1 .. n : Between(list[k], book, StoreBest(book, side, to))
    BY <2>6, <2>7, <2>8
  <2>12. list # << >>
    BY <2>8
  <2> QED BY <1>2, <2>5, <2>8, <2>9, <2>10, <2>11, <2>12 DEF Leads, to, list, Side
<1>3. CASE side = "Sell"
  <2>1. book.ask \in [Index -> Quantity] /\ book.bestAsk = from /\ book.ask[from] = 0
        /\ from \in 0 .. Levels
    BY <1>0, <1>1, <1>3 DEF Depth, BestOf, Book, Index
  <2>2. to \in from .. Levels /\ (to # Levels => book.ask[to] # 0)
    BY <1>3, <2>1, WalkUpStops DEF WalkedTo
  <2>3. PICK n \in Nat \ {0} : n = to - from
    BY <1>0, <1>1, <2>1, <2>2 DEF Index
  <2>4. list = [k \in 1 .. n |-> StoreBest(book, side, from + k)]
    BY <1>3, <2>1, <2>3 DEF WalkStores, BestOf, WalkedTo
  <2>5. to \in 0 .. Levels
    BY <1>0, <2>1, <2>2
  <2> HIDE DEF to, list
  <2>6. ASSUME NEW best \in 0 .. Levels, best <= to, from <= best
        PROVE  StoreBest(book, side, best) \in Book
               /\ Between(StoreBest(book, side, best), book, StoreBest(book, side, to))
    <3>0. 0 \in Index /\ 0 \in Nat /\ best \in Int /\ to \in Int
      BY <1>0, <2>5, LevelsAssumption DEF Index
    <3>1. PICK x : x = StoreBest(book, side, best)
      OBVIOUS
    <3>2. PICK y : y = StoreBest(book, side, to)
      OBVIOUS
    <3>3. /\ x \in Book /\ x.base = book.base /\ BestOf(x, side) = best
          /\ \A s \in Side : Depth(x, s) = Depth(book, s)
          /\ \A s \in Side \ {side} : BestOf(x, s) = BestOf(book, s)
      BY <3>0, <3>1, <1>3, <2>6, Stored
    <3>4. /\ y \in Book /\ y.base = book.base /\ BestOf(y, side) = to
          /\ \A s \in Side : Depth(y, s) = Depth(book, s)
          /\ \A s \in Side \ {side} : BestOf(y, s) = BestOf(book, s)
      BY <3>0, <3>2, <1>3, <2>5, Stored
    <3>5. \A s \in Side : BestOf(book, s) \in Int
      BY BookFields
    <3> QED BY <3>0, <3>1, <3>2, <3>3, <3>4, <3>5, <1>1, <2>6 DEF Between, Amid
  <2>7. \A k \in 1 .. n : from + k \in 0 .. Levels /\ from + k <= to /\ from <= from + k
    BY <1>0, <2>1, <2>2, <2>3, <2>5
  <2>8. list \in Seq(Book) /\ Len(list) = n
        /\ \A k \in 1 .. n : list[k] = StoreBest(book, side, from + k)
    <3>1. list \in [1 .. n -> Book]
      BY <2>4, <2>6, <2>7
    <3> QED BY <2>4, <3>1
  <2>9. list[n] = StoreBest(book, side, to)
    <3>1. from + n = to /\ n \in 1 .. n
      BY <2>1, <2>3, <2>5
    <3> QED BY <2>8, <3>1
  <2>10. StoreBest(book, side, to) \in Book
    BY <2>2, <2>5, <2>6, <1>0, <2>1
  <2>11. \A k \in 1 .. n : Between(list[k], book, StoreBest(book, side, to))
    BY <2>6, <2>7, <2>8
  <2>12. list # << >>
    BY <2>8
  <2> QED BY <1>3, <2>5, <2>8, <2>9, <2>10, <2>11, <2>12 DEF Leads, to, list, Side
<1> QED BY <1>2, <1>3 DEF Side

\* The stores of reduce() lead to the book that reduce() makes, when the level
\* has the quantity that is taken out of it.
LEMMA ReduceStoresLead ==
  ASSUME NEW book \in Book, NothingBetter(book), NEW side \in Side, NEW price \in Int,
         NEW qty \in Nat,
         InBand(book, price) => qty <= Depth(book, side)[IndexOf(book, price)]
  PROVE  /\ Leads(ReduceStores(book, side, price, qty), book,
                  BookReduce(book, side, price, qty))
         /\ ReduceStores(book, side, price, qty) # << >>
<1> DEFINE i == IndexOf(book, price)
           new == BookReduce(book, side, price, qty)
           left == Depth(book, side)[i] - qty
           reduced == StoreQty(book, side, i, left)
           list == ReduceStores(book, side, price, qty)
<1>1. CASE ~InBand(book, price)
  <2>1. list = <<DropUpdate(book)>> /\ new = DropUpdate(book)
    BY <1>1 DEF ReduceStores, BookReduce
  <2>2. new \in Book /\ new.base = book.base
    BY <2>1 DEF DropUpdate, Book
  <2>3. Between(new, book, new)
    BY <2>2, EndsAreBetween
  <2> HIDE DEF new, list
  <2>4. Len(list) = 1 /\ list[1] = new /\ list \in Seq(Book)
    BY <2>1, <2>2
  <2> QED BY <2>3, <2>4, <2>1 DEF Leads, new, list
<1>2. CASE InBand(book, price)
  <2>1. i \in Index /\ i \in Int
    BY <1>2, LevelsAssumption DEF InBand, Index
  <2>2. PICK was \in Nat : was = Depth(book, side)[i]
    <3> HIDE DEF i
    <3> QED BY <2>1, BookFields
  <2>3. PICK q \in Nat : q = left
    BY <1>2, <2>2
  <2>4. ~(left < 0) /\ (left <= 0 <=> q = 0) /\ Minus(was, qty) = q /\ q = was - qty
    BY <2>2, <2>3 DEF Minus
  <2>5. 0 \in Int /\ -1 \in -1 .. Levels - 1 /\ 0 \in 0 .. Levels
    BY LevelsAssumption
  <2>6. /\ reduced \in Book /\ reduced.base = book.base
        /\ Depth(reduced, side) = [Depth(book, side) EXCEPT ![i] = q]
        /\ \A s \in Side \ {side} : Depth(reduced, s) = Depth(book, s)
        /\ \A s \in Side : BestOf(reduced, s) = BestOf(book, s)
    <3>1. reduced = StoreQty(book, side, i, q)
      BY <2>3
    <3>2. /\ side = "Buy" => i \in -1 .. Levels - 1
          /\ side = "Sell" => i \in 0 .. Levels
      BY <2>1, LevelsAssumption DEF Index
    <3> HIDE DEF reduced, i
    <3> QED BY <2>1, <3>1, <3>2, Stored
  <2>7. PICK end : end = reduced
    OBVIOUS
  <2>8. list = <<end>> \o << >> \o (IF i = BestOf(book, side) /\ q = 0
                                     THEN WalkStores(end, side) ELSE << >>)
    <3>1. ~(left < 0) => list = <<reduced>> \o << >> \o
            (IF i = BestOf(book, side) /\ left <= 0
             THEN WalkStores(reduced, side) ELSE << >>)
      BY <1>2 DEF ReduceStores
    <3> HIDE DEF list, reduced, i, left
    <3> QED BY <2>4, <2>7, <3>1
  <2>9. new = IF i = BestOf(book, side) /\ q = 0
              THEN StoreBest(end, side, WalkedTo(end, side)) ELSE end
    <3>1. CASE side = "Buy"
      <4>1. /\ book.bid[i] = was /\ BestOf(book, side) = book.bestBid
            /\ end = [book EXCEPT !.bid[i] = q]
        BY <2>2, <2>3, <2>7, <3>1 DEF Depth, BestOf, StoreQty
      <4>2. PICK bid : bid = [book.bid EXCEPT ![i] = Minus(@, qty)]
        OBVIOUS
      <4>3. bid = [book.bid EXCEPT ![i] = q] /\ bid[i] = q
        BY <4>1, <4>2, <2>1, <2>4 DEF Book
      <4>4. new = [book EXCEPT
                    !.bid = bid,
                    !.bestBid = IF i = @ /\ bid[i] = 0 THEN WalkDown(bid, @) ELSE @]
        BY <1>2, <3>1, <4>2 DEF BookReduce
      <4>5. end.bid = bid /\ end.bestBid = book.bestBid /\ end = [book EXCEPT !.bid = bid]
        BY <4>1, <4>3 DEF Book
      <4>6. WalkedTo(end, side) = WalkDown(bid, book.bestBid)
        BY <3>1, <4>5 DEF WalkedTo
      <4> HIDE DEF new, i
      <4> QED BY <3>1, <4>1, <4>3, <4>4, <4>5, <4>6 DEF StoreBest, Book
    <3>2. CASE side = "Sell"
      <4>0. side # "Buy"
        BY <3>2
      <4>1. /\ book.ask[i] = was /\ BestOf(book, side) = book.bestAsk
            /\ end = [book EXCEPT !.ask[i] = q]
        BY <2>2, <2>3, <2>7, <3>2 DEF Depth, BestOf, StoreQty
      <4>2. PICK ask : ask = [book.ask EXCEPT ![i] = Minus(@, qty)]
        OBVIOUS
      <4>3. ask = [book.ask EXCEPT ![i] = q] /\ ask[i] = q
        BY <4>1, <4>2, <2>1, <2>4 DEF Book
      <4>4. new = [book EXCEPT
                    !.ask = ask,
                    !.bestAsk = IF i = @ /\ ask[i] = 0 THEN WalkUp(ask, @) ELSE @]
        BY <1>2, <3>2, <4>2 DEF BookReduce
      <4>5. end.ask = ask /\ end.bestAsk = book.bestAsk /\ end = [book EXCEPT !.ask = ask]
        BY <4>1, <4>3 DEF Book
      <4>6. WalkedTo(end, side) = WalkUp(ask, book.bestAsk)
        BY <3>2, <4>5 DEF WalkedTo
      <4> HIDE DEF new, i
      <4> QED BY <4>0, <4>1, <4>3, <4>4, <4>5, <4>6 DEF StoreBest, Book
    <3> QED BY <3>1, <3>2 DEF Side
  <2> HIDE DEF new, list, reduced, left
  <2>10. CASE ~(i = BestOf(book, side) /\ q = 0)
    <3>1. new = end /\ list = <<end>> \o << >> \o << >>
      BY <2>8, <2>9, <2>10
    <3>2. end \in Book /\ <<end>> \in Seq(Book) /\ << >> \in Seq(Book)
      BY <2>6, <2>7
    <3>3. list = <<end>>
      BY <3>1, <3>2, ConcatEmptySeq
    <3>4. Between(end, book, end)
      BY <2>6, <2>7, EndsAreBetween
    <3>5. Len(list) = 1 /\ list[1] = end /\ list \in Seq(Book)
      BY <3>2, <3>3
    <3> QED BY <3>1, <3>3, <3>4, <3>5 DEF Leads, new, list
  <2>11. CASE i = BestOf(book, side) /\ q = 0
    <3>1. /\ end \in Book /\ BestOf(end, side) \in Index
          /\ Depth(end, side)[BestOf(end, side)] = 0
      <4>1. Depth(book, side) \in [Index -> Nat]
        BY BookFields
      <4>2. BestOf(end, side) = i
        BY <2>6, <2>7, <2>11
      <4>3. Depth(end, side)[i] = 0
        BY <2>1, <2>6, <2>7, <2>11, <4>1
      <4> QED BY <2>1, <2>6, <2>7, <4>2, <4>3
    <3>2. PICK to : to = WalkedTo(end, side)
      OBVIOUS
    <3>3. PICK walk : walk = WalkStores(end, side)
      OBVIOUS
    <3>4. new = StoreBest(end, side, to) /\ list = <<end>> \o << >> \o walk
      BY <2>8, <2>9, <2>11, <3>2, <3>3
    <3>5. /\ side = "Buy" => to \in -1 .. Levels - 1
          /\ side = "Sell" => to \in 0 .. Levels
          /\ new \in Book /\ Leads(walk, end, new) /\ walk # << >>
      BY <3>1, <3>2, <3>3, <3>4, WalkStoresLead
    <3>6. walk \in Seq(Book) /\ <<end>> \in Seq(Book) /\ << >> \in Seq(Book)
          /\ Len(<<end>>) = 1 /\ <<end>>[1] = end
      BY <3>1, <3>5 DEF Leads
    <3>7. list = <<end>> \o walk
      BY <3>4, <3>6, ConcatEmptySeq
    <3>8. PICK n \in Nat : n = Len(walk)
      BY <3>6, LenProperties
    <3>9. n >= 1
      BY <3>5, <3>6, <3>8, EmptySeq
    <3>10. /\ list \in Seq(Book) /\ Len(list) = 1 + n
           /\ \A k \in 1 .. 1 + n : list[k] = IF k <= 1 THEN end ELSE walk[k - 1]
      BY <3>6, <3>7, <3>8, ConcatProperties
    <3>11. new.base = end.base /\ \A s \in Side : Depth(new, s) = Depth(end, s)
      <4>1. to \in Int
        BY <3>5, LevelsAssumption DEF Side
      <4>2. 0 \in Index /\ 0 \in Nat
        BY LevelsAssumption DEF Index
      <4> QED BY <3>1, <3>4, <3>5, <4>1, <4>2, Stored
    <3>12. \A x : Between(x, end, new) => Between(x, book, new)
      BY <2>6, <2>7, <3>11 DEF Between
    <3>13. Between(end, end, new)
      BY <3>1, <3>5, <3>11, EndsAreBetween
    <3>14. \A k \in 1 .. 1 + n : Between(list[k], book, new)
      <4> SUFFICES ASSUME NEW k \in 1 .. 1 + n PROVE Between(list[k], book, new)
        OBVIOUS
      <4>1. CASE k = 1
        BY <3>10, <3>12, <3>13, <4>1
      <4>2. CASE k # 1
        <5>1. k - 1 \in 1 .. Len(walk) /\ ~(k <= 1)
          BY <3>8, <4>2
        <5>2. Between(walk[k - 1], end, new)
          BY <3>5, <5>1 DEF Leads
        <5> QED BY <3>10, <3>12, <5>1, <5>2
      <4> QED BY <4>1, <4>2
    <3>15. list[1 + n] = new /\ list # << >>
      <4>1. walk[n] = new
        BY <3>5, <3>8 DEF Leads
      <4>2. 1 + n \in 1 .. 1 + n /\ ~(1 + n <= 1) /\ (1 + n) - 1 = n
        BY <3>9
      <4> QED BY <3>9, <3>10, <4>1, <4>2
    <3> QED BY <3>10, <3>14, <3>15 DEF Leads, new, list
  <2> QED BY <2>10, <2>11
<1> QED BY <1>1, <1>2

-----------------------------------------------------------------------------
(***************************************************************************)
(* The stores of a message.  A Replace is a Delete followed by an Add: the *)
(* book in the middle is a whole one too.                                  *)
(***************************************************************************)
DeleteOf(m) == [type |-> "Delete", instrument |-> m.instrument, id |-> m.id]

AddOf(m, side) ==
  [type |-> "Add", instrument |-> m.instrument, id |-> m.newId, side |-> side,
   price |-> m.price, qty |-> m.qty]

Halfway(map, book, m) ==
  IF m.type = "Replace" /\ map[m.id] # NoOrder
  THEN Apply([orders |-> map, book |-> book], DeleteOf(m))
  ELSE Apply([orders |-> map, book |-> book], m)

\* Orders and a book that belong together: all orders are of instrument i, and
\* every level is the sum of its orders.
Whole(map, book, i) ==
  /\ map \in OrderMap /\ GoodBook(book) /\ DepthMatches(map, book, i)
  /\ \A id \in OrderId : map[id] # NoOrder => map[id].instrument = i

\* An order of the band is part of its level.
LEMMA OrderIsInLevel ==
  ASSUME NEW map \in OrderMap, NEW book \in Book, NEW i, DepthMatches(map, book, i),
         NEW id \in OrderId, map[id] # NoOrder, map[id].instrument = i,
         InBand(book, map[id].price)
  PROVE  map[id].qty <= Depth(book, map[id].side)[IndexOf(book, map[id].price)]
<1>1. map[id] \in Location /\ IndexOf(book, map[id].price) \in Index /\ map[id].side \in Side
  BY DEF OrderMap, InBand, Location
<1>2. PICK side \in Side, index \in Index :
        side = map[id].side /\ index = IndexOf(book, map[id].price)
  BY <1>1
<1>3. LevelOf(book, side, index) = DepthOf(map, book, i, side, index)
  BY DEF DepthMatches
<1>4. Share(map[id], book, i, side, index) = map[id].qty
  BY <1>1, <1>2 DEF Share
<1>5. Share(map[id], book, i, side, index) <= DepthOf(map, book, i, side, index)
  BY DepthIsNat
<1>6. LevelOf(book, side, index) = Depth(book, side)[index]
  BY DEF LevelOf, Depth
<1> QED BY <1>2, <1>3, <1>4, <1>5, <1>6

\* Applying a message that fits leaves a whole view.
LEMMA ApplyKeepsWhole ==
  ASSUME NEW m \in Message, NEW map, NEW book, Whole(map, book, m.instrument), FitsMap(map, m)
  PROVE  LET after == Apply([orders |-> map, book |-> book], m)
         IN  Whole(after.orders, after.book, m.instrument) /\ after.book.base = book.base
<1> DEFINE view == [orders |-> map, book |-> book]
           after == Apply(view, m)
<1>1. map \in OrderMap /\ GoodBook(book) /\ book \in Book
      /\ DepthMatches(map, book, m.instrument)
      /\ \A id \in OrderId : map[id] # NoOrder => map[id].instrument = m.instrument
  BY DEF Whole, GoodBook
<1>2. GoodView(view)
  BY <1>1 DEF GoodView
<1>3. GoodView(after) /\ after.book.base = view.book.base
  <2> HIDE DEF view
  <2> QED BY <1>2, ApplyKeeps, ApplyKeepsBase
<1>4. DepthMatches(after.orders, after.book, m.instrument)
  BY <1>1, ApplyKeepsDepth
<1>5. \A id \in OrderId : after.orders[id] # NoOrder => after.orders[id].instrument = m.instrument
  BY <1>1, ApplyWrites
<1> HIDE DEF after
<1> QED BY <1>3, <1>4, <1>5 DEF Whole, GoodView, after

\* A Replace of an order there is takes its Delete, which fits, and then its Add,
\* which fits what the Delete leaves.
LEMMA ReplaceIsTwo ==
  ASSUME NEW m \in Message, NEW map, NEW book, Whole(map, book, m.instrument),
         FitsMap(map, m), m.type = "Replace", map[m.id] # NoOrder
  PROVE  LET half == Apply([orders |-> map, book |-> book], DeleteOf(m))
             add  == AddOf(m, map[m.id].side)
         IN  /\ DeleteOf(m) \in Message /\ FitsMap(map, DeleteOf(m))
             /\ add \in Message /\ FitsMap(half.orders, add)
             /\ half.orders = [map EXCEPT ![m.id] = NoOrder]
             /\ half.book = BookReduce(book, map[m.id].side, map[m.id].price, map[m.id].qty)
             /\ half = [orders |-> half.orders, book |-> half.book]
             /\ Apply([orders |-> map, book |-> book], m) = Apply(half, add)
             /\ Apply(half, add).orders[m.id] = NoOrder
             /\ Apply(half, add).book
                  = BookAdd(half.book, map[m.id].side, m.price, m.qty)
             /\ m.newId # m.id /\ m.newId \in OrderId
<1> DEFINE half == Apply([orders |-> map, book |-> book], DeleteOf(m))
           old == map[m.id]
           add == AddOf(m, old.side)
<1>1. /\ m \in ReplaceMsg /\ m.id \in OrderId /\ map \in OrderMap /\ old \in Location
      /\ map[m.newId] = NoOrder /\ old.instrument = m.instrument
  BY MessageKinds DEF Whole, FitsMap, OrderMap
<1>2. DeleteOf(m) \in DeleteMsg /\ add \in AddOrderMsg
  BY <1>1 DEF DeleteOf, AddOf, DeleteMsg, AddOrderMsg, ReplaceMsg, Location
<1>3. half = [orders |-> [map EXCEPT ![m.id] = NoOrder],
              book |-> BookReduce(book, old.side, old.price, old.qty)]
  BY DEF Apply, ApplyDelete, DeleteOf
<1>4. m.newId # m.id /\ m.newId \in OrderId
  BY <1>1 DEF ReplaceMsg
<1>5. FitsMap(map, DeleteOf(m)) /\ FitsMap(half.orders, add)
  BY <1>1, <1>3, <1>4 DEF FitsMap, DeleteOf, AddOf, OrderMap
<1> DEFINE new == [instrument |-> m.instrument, side |-> old.side,
                   price |-> m.price, qty |-> m.qty]
           end == [orders |-> [[map EXCEPT ![m.id] = NoOrder] EXCEPT ![m.newId] = new],
                   book |-> BookAdd(BookReduce(book, old.side, old.price, old.qty),
                                    old.side, m.price, m.qty)]
<1>6. Apply([orders |-> map, book |-> book], m) = end
  BY DEF Apply, ApplyReplace
<1>7. Apply(half, add) = end
  <2>1. PICK h : h = half
    OBVIOUS
  <2>2. Apply(h, add) = [orders |-> [h.orders EXCEPT ![m.newId] = new],
                         book |-> BookAdd(h.book, old.side, m.price, m.qty)]
    BY DEF Apply, ApplyAdd, AddOf
  <2> HIDE DEF half, new
  <2> QED BY <1>3, <2>1, <2>2
<1>8. end.orders[m.id] = NoOrder
  BY <1>1, <1>4 DEF OrderMap
<1>9. end.book = BookAdd(half.book, old.side, m.price, m.qty)
  BY <1>3
<1>10. DeleteOf(m) \in Message /\ add \in Message
  BY <1>2 DEF Message
<1>11. /\ half.orders = [map EXCEPT ![m.id] = NoOrder]
       /\ half.book = BookReduce(book, old.side, old.price, old.qty)
       /\ half = [orders |-> half.orders, book |-> half.book]
  <2>1. PICK o : o = [map EXCEPT ![m.id] = NoOrder]
    OBVIOUS
  <2>2. PICK b : b = BookReduce(book, old.side, old.price, old.qty)
    OBVIOUS
  <2>3. half = [orders |-> o, book |-> b]
    BY <1>3, <2>1, <2>2
  <2> HIDE DEF half
  <2> QED BY <2>1, <2>2, <2>3
<1>12. /\ Apply(half, add).orders[m.id] = NoOrder
       /\ Apply(half, add).book = BookAdd(half.book, old.side, m.price, m.qty)
       /\ Apply([orders |-> map, book |-> book], m) = Apply(half, add)
  <2> HIDE DEF half, add, end
  <2> QED BY <1>6, <1>7, <1>8, <1>9
<1> QED BY <1>4, <1>5, <1>10, <1>11, <1>12

\* The view halfway is whole too, and what rests before and after rests there.
LEMMA HalfwayIsWhole ==
  ASSUME NEW m \in Message, NEW map, NEW book, Whole(map, book, m.instrument), FitsMap(map, m)
  PROVE  LET half  == Halfway(map, book, m)
             after == Apply([orders |-> map, book |-> book], m)
         IN  /\ Whole(half.orders, half.book, m.instrument) /\ half.book.base = book.base
             /\ \A o : o.id \in OrderId /\ Rests(o, map) /\ Rests(o, after.orders)
                        => Rests(o, half.orders)
             /\ Rested(half.orders) \subseteq Rested(map) \cup Rested(after.orders)
<1> DEFINE half  == Halfway(map, book, m)
           after == Apply([orders |-> map, book |-> book], m)
<1>1. CASE ~(m.type = "Replace" /\ map[m.id] # NoOrder)
  BY <1>1, ApplyKeepsWhole DEF Halfway
<1>2. CASE m.type = "Replace" /\ map[m.id] # NoOrder
  <2> DEFINE add == AddOf(m, map[m.id].side)
  <2>1. half = Apply([orders |-> map, book |-> book], DeleteOf(m))
    BY <1>2 DEF Halfway
  <2>2. /\ DeleteOf(m) \in Message /\ FitsMap(map, DeleteOf(m))
        /\ DeleteOf(m).instrument = m.instrument
        /\ half.orders = [map EXCEPT ![m.id] = NoOrder]
        /\ half = [orders |-> half.orders, book |-> half.book]
        /\ after.orders[m.id] = NoOrder
    <3>1. DeleteOf(m).instrument = m.instrument
      BY DEF DeleteOf
    <3> HIDE DEF half, after
    <3> QED BY <1>2, <2>1, <3>1, ReplaceIsTwo DEF after
  <2>3. Whole(half.orders, half.book, m.instrument) /\ half.book.base = book.base
    <3>1. PICK d \in Message : d = DeleteOf(m)
      BY <2>2
    <3>2. Whole(map, book, d.instrument) /\ FitsMap(map, d) /\ d.instrument = m.instrument
      BY <2>2, <3>1
    <3> HIDE DEF half
    <3> QED BY <2>1, <3>1, <3>2, ApplyKeepsWhole
  <2>4. m.id \in OrderId /\ DOMAIN map = OrderId
    BY MessageKinds DEF Whole, OrderMap
  <2>5. after.orders[m.id] = NoOrder
    BY <2>2
  <2>6. \A id \in OrderId : half.orders[id] = IF id = m.id THEN NoOrder ELSE map[id]
    BY <2>2, <2>4
  <2> HIDE DEF half, after
  <2>7. ASSUME NEW o, o.id \in OrderId, Rests(o, map), Rests(o, after.orders)
        PROVE  Rests(o, half.orders)
    <3>1. o.id # m.id
      BY <2>5, <2>7 DEF Rests
    <3>2. half.orders[o.id] = map[o.id]
      BY <2>6, <2>7, <3>1
    <3> QED BY <2>7, <3>2 DEF Rests
  <2>8. Rested(half.orders) \subseteq Rested(map)
    BY <2>6 DEF Rested
  <2> QED BY <2>3, <2>7, <2>8 DEF half, after
<1> QED BY <1>1, <1>2

-----------------------------------------------------------------------------
(***************************************************************************)
(* The stores of a whole message, from one book by way of the one in the   *)
(* middle to the last.                                                     *)
(***************************************************************************)
OnTheWay(book, from, half, to) == Between(book, from, half) \/ Between(book, half, to)

Path(list, from, half, to) ==
  /\ list \in Seq(Book)
  /\ \A k \in 1 .. Len(list) : OnTheWay(list[k], from, half, to)
  /\ list # << >> => list[Len(list)] = to
  /\ list = << >> => from = to

\* One list of stores after the other.
LEMMA LeadsOn ==
  ASSUME NEW a, NEW b, NEW from, NEW half, NEW to,
         Leads(a, from, half), Leads(b, half, to), b # << >>
  PROVE  Path(a \o b, from, half, to)
<1>1. a \in Seq(Book) /\ b \in Seq(Book)
  BY DEF Leads
<1>2. PICK m \in Nat, n \in Nat : m = Len(a) /\ n = Len(b)
  BY <1>1, LenProperties
<1>3. n >= 1
  BY <1>1, <1>2, EmptySeq
<1> DEFINE c == a \o b
<1>4. /\ c \in Seq(Book) /\ Len(c) = m + n
      /\ \A k \in 1 .. m + n : c[k] = IF k <= m THEN a[k] ELSE b[k - m]
  BY <1>1, <1>2, ConcatProperties
<1> HIDE DEF c
<1>5. ASSUME NEW k \in 1 .. m + n PROVE OnTheWay(c[k], from, half, to)
  <2>1. CASE k <= m
    BY <1>2, <1>4, <2>1 DEF Leads, OnTheWay
  <2>2. CASE ~(k <= m)
    <3>1. k - m \in 1 .. n
      BY <2>2
    <3> QED BY <1>2, <1>4, <2>2, <3>1 DEF Leads, OnTheWay
  <2> QED BY <2>1, <2>2
<1>6. c[m + n] = to
  <2>1. m + n \in 1 .. m + n /\ ~(m + n <= m) /\ (m + n) - m = n
    BY <1>3
  <2>2. b[n] = to
    BY <1>2 DEF Leads
  <2> QED BY <1>4, <2>1, <2>2
<1>7. c # << >>
  BY <1>3, <1>4
<1> QED BY <1>4, <1>5, <1>6, <1>7 DEF Path, c

\* A list that goes half the way and no further.
LEMMA LeadsAlong ==
  ASSUME NEW list, NEW from, NEW to, Leads(list, from, to)
  PROVE  Path(list, from, to, to)
BY DEF Leads, Path, OnTheWay

\* The stores of a message that fits.
LEMMA ApplyStoresLead ==
  ASSUME NEW m \in Message, Whole(orders, memory, m.instrument), FitsMap(orders, m)
  PROVE  Path(ApplyStores(m), memory, Halfway(orders, memory, m).book,
              Apply([orders |-> orders, book |-> memory], m).book)
<1> DEFINE view == [orders |-> orders, book |-> memory]
           order == orders[m.id]
<1>0. /\ orders \in OrderMap /\ memory \in Book /\ NothingBetter(memory)
      /\ DepthMatches(orders, memory, m.instrument) /\ m.id \in OrderId
      /\ order \in Location \cup {NoOrder}
  BY MessageKinds DEF Whole, GoodBook, OrderMap
<1>1. CASE m.type = "Add"
  <2>1. m.side \in Side /\ m.price \in Int /\ m.qty \in Nat
    BY <1>1, MessageKinds DEF AddOrderMsg, WireQuantity
  <2>2. Apply(view, m).book = BookAdd(memory, m.side, m.price, m.qty)
    BY <1>1 DEF Apply, ApplyAdd
  <2>3. Halfway(orders, memory, m) = Apply(view, m)
    BY <1>1 DEF Halfway
  <2>4. ApplyStores(m) = AddStores(memory, m.side, m.price, m.qty)
    BY <1>1 DEF ApplyStores
  <2>5. Leads(AddStores(memory, m.side, m.price, m.qty), memory,
              BookAdd(memory, m.side, m.price, m.qty))
    BY <1>0, <2>1, AddStoresLead
  <2> HIDE DEF view
  <2> QED BY <2>2, <2>3, <2>4, <2>5, LeadsAlong DEF view
<1>2. CASE m.type # "Add" /\ order = NoOrder
  <2>1. Apply(view, m) = view
    BY <1>2, MessageKinds DEF Apply, ApplyTake, ApplyDelete, ApplyReplace
  <2>2. Halfway(orders, memory, m) = Apply(view, m)
    BY <1>2 DEF Halfway
  <2>3. ApplyStores(m) = << >>
    BY <1>2 DEF ApplyStores
  <2> QED BY <2>1, <2>2, <2>3 DEF Path
<1>3. ASSUME order # NoOrder, m.type # "Add"
      PROVE  /\ order.side \in Side /\ order.price \in Int
             /\ order.qty \in Nat /\ order.qty > 0
             /\ InBand(memory, order.price) =>
                  /\ order.qty <= Depth(memory, order.side)[IndexOf(memory, order.price)]
                  /\ Depth(memory, order.side)[IndexOf(memory, order.price)] \in Nat
  <2>1. order \in Location /\ order.instrument = m.instrument
    BY <1>0, <1>3 DEF Whole
  <2>2. order.side \in Side /\ order.price \in Int /\ order.qty \in Nat /\ order.qty > 0
    BY <2>1 DEF Location, WireQuantity
  <2>3. InBand(memory, order.price) =>
          Depth(memory, order.side)[IndexOf(memory, order.price)] \in Nat
    <3> SUFFICES ASSUME InBand(memory, order.price)
                 PROVE  Depth(memory, order.side)[IndexOf(memory, order.price)] \in Nat
      OBVIOUS
    <3>1. PICK i \in Index : i = IndexOf(memory, order.price)
      BY DEF InBand
    <3>2. PICK side \in Side : side = order.side
      BY <2>2
    <3>3. Depth(memory, side) \in [Index -> Nat]
      BY <1>0, BookFields
    <3> HIDE DEF order
    <3> QED BY <3>1, <3>2, <3>3
  <2> QED BY <1>0, <1>3, <2>1, <2>2, <2>3, OrderIsInLevel
<1>4. CASE m.type \in {"Execute", "Cancel"} /\ order # NoOrder
  <2>1. PICK taken \in Nat : taken = SmallerOf(m.qty, order.qty) /\ taken <= order.qty
    <3>1. m.qty \in Nat /\ order.qty \in Nat
      BY <1>3, <1>4, MessageKinds DEF TakeMsg, WireQuantity
    <3> QED BY <3>1 DEF SmallerOf
  <2>2. Apply(view, m).book = BookReduce(memory, order.side, order.price, taken)
    BY <1>4, <2>1 DEF Apply, ApplyTake
  <2>3. Halfway(orders, memory, m) = Apply(view, m)
    BY <1>4 DEF Halfway
  <2>4. ApplyStores(m) = ReduceStores(memory, order.side, order.price, taken)
    BY <1>4, <2>1 DEF ApplyStores
  <2>5. Leads(ReduceStores(memory, order.side, order.price, taken), memory,
              BookReduce(memory, order.side, order.price, taken))
    <3> HIDE DEF order
    <3>1. InBand(memory, order.price) =>
            taken <= Depth(memory, order.side)[IndexOf(memory, order.price)]
      BY <1>3, <1>4, <2>1
    <3> QED BY <1>0, <1>3, <1>4, <3>1, ReduceStoresLead
  <2> HIDE DEF view
  <2> QED BY <2>2, <2>3, <2>4, <2>5, LeadsAlong DEF view
<1>5. CASE m.type = "Delete" /\ order # NoOrder
  <2>2. Apply(view, m).book = BookReduce(memory, order.side, order.price, order.qty)
    BY <1>5 DEF Apply, ApplyDelete
  <2>3. Halfway(orders, memory, m) = Apply(view, m)
    BY <1>5 DEF Halfway
  <2>4. ApplyStores(m) = ReduceStores(memory, order.side, order.price, order.qty)
    BY <1>5 DEF ApplyStores
  <2>5. Leads(ReduceStores(memory, order.side, order.price, order.qty), memory,
              BookReduce(memory, order.side, order.price, order.qty))
    <3> HIDE DEF order
    <3> QED BY <1>0, <1>3, <1>5, ReduceStoresLead
  <2> HIDE DEF view
  <2> QED BY <2>2, <2>3, <2>4, <2>5, LeadsAlong DEF view
<1>6. CASE m.type = "Replace" /\ order # NoOrder
  <2> DEFINE half == Apply(view, DeleteOf(m))
  <2>1. PICK reduce : reduce = ReduceStores(memory, order.side, order.price, order.qty)
    OBVIOUS
  <2>2. PICK middle : middle = BookReduce(memory, order.side, order.price, order.qty)
    OBVIOUS
  <2>3. middle \in Book
    <3>1. order.qty \in Quantity
      BY <1>3, <1>6 DEF Quantity
    <3> HIDE DEF order
    <3> QED BY <1>0, <1>3, <1>6, <2>2, <3>1, BookReduceKeeps
  <2>4. Leads(reduce, memory, middle) /\ reduce # << >>
    <3> HIDE DEF order
    <3> QED BY <1>0, <1>3, <1>6, <2>1, <2>2, ReduceStoresLead
  <2>5. Last(reduce) = middle
    BY <2>4 DEF Leads, Last
  <2>6. m.price \in Int /\ m.qty \in Nat
    BY <1>6, MessageKinds DEF ReplaceMsg, WireQuantity
  <2>7. PICK add : add = AddStores(middle, order.side, m.price, m.qty)
    OBVIOUS
  <2>8. Leads(add, middle, BookAdd(middle, order.side, m.price, m.qty)) /\ add # << >>
    <3> HIDE DEF order
    <3> QED BY <1>3, <1>6, <2>3, <2>6, <2>7, AddStoresLead
  <2>9. ApplyStores(m) = reduce \o add
    <3>1. ApplyStores(m) = ReplaceStores(memory, order, m)
      BY <1>6 DEF ApplyStores
    <3> HIDE DEF order
    <3> QED BY <2>1, <2>5, <2>7, <3>1 DEF ReplaceStores
  <2>10. /\ half.book = middle
         /\ Apply(view, m).book = BookAdd(middle, order.side, m.price, m.qty)
    <3>1. half.book = BookReduce(memory, order.side, order.price, order.qty)
      BY <1>6 DEF Apply, ApplyDelete, DeleteOf
    <3>2. Apply(view, m).book
            = BookAdd(BookReduce(memory, order.side, order.price, order.qty),
                      order.side, m.price, m.qty)
      BY <1>6 DEF Apply, ApplyReplace
    <3> HIDE DEF half, view
    <3> QED BY <2>2, <3>1, <3>2
  <2>11. Halfway(orders, memory, m) = half
    BY <1>6 DEF Halfway
  <2> HIDE DEF view, half
  <2> QED BY <2>4, <2>8, <2>9, <2>10, <2>11, LeadsOn DEF view
<1> QED BY <1>1, <1>2, <1>4, <1>5, <1>6, MessageKinds

-----------------------------------------------------------------------------
(***************************************************************************)
(* What the worker keeps, between messages and between stores.             *)
(***************************************************************************)
\* The views halfway through the message and after it.
Half == Halfway(orders, before, message)
After == Apply([orders |-> orders, book |-> before], message)

\* A message that was received: it fits the orders, and its new id is taken.
Received ==
  /\ message \in Message /\ message.instrument = TheInstrument
  /\ FitsMap(orders, message) /\ NewId(message) < nextOrderId

\* The book as stored, and as it will be stored, is on the way to the last one.
Going ==
  /\ stores \in Seq(Book)
  /\ OnTheWay(memory, before, Half.book, After.book)
  /\ \A k \in 1 .. Len(stores) : OnTheWay(stores[k], before, Half.book, After.book)
  /\ IF stores = << >> THEN memory = After.book ELSE stores[Len(stores)] = After.book

WriterInv ==
  /\ SimInv
  /\ Whole(orders, before, TheInstrument)
  /\ \A id \in OrderId : orders[id] # NoOrder => id < nextOrderId
  /\ worker \in {"waiting", "holding", "applying"}
  /\ worker # "waiting" => Received
  /\ worker = "applying" => Going
  /\ worker # "applying" => stores = << >> /\ memory = before

LEMMA TheInstrumentIs == TheInstrument \in Instrument
BY InstrumentsAssumption DEF TheInstrument, Instrument

LEMMA WriterStarts == ReaderInit => WriterInv
<1> SUFFICES ASSUME ReaderInit PROVE WriterInv
  OBVIOUS
<1>1. ReferencePrice[TheInstrument] \in Int
  BY ReferencePriceAssumption, TheInstrumentIs
<1>2. Whole(orders, before, TheInstrument)
  <2>1. orders = NoOrders /\ before = BookInit(ReferencePrice[TheInstrument])
    BY DEF ReaderInit
  <2> QED BY <1>1, <2>1, EmptyBookIsGood, EmptyBookDepth DEF Whole, NoOrders
<1>3. \A id \in OrderId : orders[id] = NoOrder
  BY DEF ReaderInit, NoOrders
<1> QED BY <1>2, <1>3, SimInitOK DEF ReaderInit, WriterInv

\* Both views are whole, in the same band, and the orders that a message leaves
\* have ids the simulator has given out.
LEMMA ReceivedViews ==
  ASSUME WriterInv, worker # "waiting"
  PROVE  /\ Whole(Half.orders, Half.book, TheInstrument) /\ Half.book.base = before.base
         /\ Whole(After.orders, After.book, TheInstrument) /\ After.book.base = before.base
         /\ \A o : o.id \in OrderId /\ Rests(o, orders) /\ Rests(o, After.orders)
                    => Rests(o, Half.orders)
         /\ Rested(Half.orders) \subseteq Rested(orders) \cup Rested(After.orders)
         /\ before \in Book /\ Half.book \in Book /\ After.book \in Book
         /\ OrdersAfter(message) = After.orders
         /\ \A id \in OrderId : After.orders[id] # NoOrder => id < nextOrderId
<1>1. /\ message \in Message /\ message.instrument = TheInstrument
      /\ FitsMap(orders, message) /\ NewId(message) < nextOrderId
      /\ Whole(orders, before, message.instrument)
  BY DEF WriterInv, Received
<1>2. PICK m \in Message : m = message
  BY <1>1
<1>3. PICK half : half = Halfway(orders, before, m)
  OBVIOUS
<1>4. PICK after : after = Apply([orders |-> orders, book |-> before], m)
  OBVIOUS
<1>5. /\ Whole(half.orders, half.book, m.instrument) /\ half.book.base = before.base
      /\ \A o : o.id \in OrderId /\ Rests(o, orders) /\ Rests(o, after.orders)
                 => Rests(o, half.orders)
      /\ Rested(half.orders) \subseteq Rested(orders) \cup Rested(after.orders)
  BY <1>1, <1>2, <1>3, <1>4, HalfwayIsWhole
<1>6. Whole(after.orders, after.book, m.instrument) /\ after.book.base = before.base
  BY <1>1, <1>2, <1>4, ApplyKeepsWhole
<1>7. \A id \in OrderId : after.orders[id] # NoOrder => id < nextOrderId
  <2>1. orders \in OrderMap
    BY <1>1 DEF Whole
  <2>2. \A id \in OrderId : after.orders[id] # NoOrder => orders[id] # NoOrder \/ id = NewId(m)
    BY <1>2, <1>4, <2>1, ApplyWrites
  <2> QED BY <1>1, <1>2, <2>2 DEF WriterInv
<1>8. half = Half /\ after = After /\ OrdersAfter(message) = After.orders
  BY <1>2, <1>3, <1>4 DEF Half, After, OrdersAfter
<1>9. before \in Book /\ half.book \in Book /\ after.book \in Book
  BY <1>1, <1>5, <1>6 DEF Whole, GoodBook
<1> QED BY <1>1, <1>2, <1>5, <1>6, <1>7, <1>8, <1>9

\* The message that arrives fits the orders.
LEMMA ArriveKeeps ==
  ASSUME WriterInv, Arrive
  PROVE  WriterInv'
<1>1. PICK drift \in Drift : NextMessage(TheInstrument, drift, message')
  BY DEF Arrive
<1>2. PICK m : m = message'
  OBVIOUS
<1>3. NextMessage(TheInstrument, drift, m) /\ SimInv
  BY <1>1, <1>2 DEF WriterInv
<1>4. Follows(TheInstrument, m) /\ NamesResting(TheInstrument, m)
  BY <1>3, TheInstrumentIs, NextMessageFollows, NextMessageNames
<1>5. /\ m \in Message /\ m.instrument = TheInstrument /\ SimInv'
  BY <1>4 DEF Follows
<1>6. /\ nextOrderId \in Nat /\ nextOrderId' \in {nextOrderId, nextOrderId + 1}
      /\ m.type \in {"Add", "Replace"} =>
           NewId(m) = nextOrderId /\ nextOrderId' = nextOrderId + 1
  BY <1>3, <1>4 DEF NamesResting, SimInv, SimTypeOK
<1>7. \A id \in OrderId : orders[id] # NoOrder =>
        id < nextOrderId /\ orders[id].instrument = TheInstrument
  BY DEF WriterInv, Whole
<1>8. m.type \in {"Add", "Replace"} /\ NewId(m) \in OrderId => orders[NewId(m)] = NoOrder
  BY <1>6, <1>7
<1>9. FitsMap(orders, m)
  <2>1. m.type = "Add" => m.id \in OrderId /\ NewId(m) = m.id
    BY <1>5, MessageKinds DEF NewId
  <2>2. m.type = "Replace" => m.newId \in OrderId /\ NewId(m) = m.newId
    BY <1>5, MessageKinds DEF NewId, ReplaceMsg
  <2>3. m.id \in OrderId
    BY <1>5, MessageKinds
  <2> QED BY <1>5, <1>7, <1>8, <2>1, <2>2, <2>3 DEF FitsMap
<1>10. NewId(m) < nextOrderId'
  <2>1. CASE m.type \in {"Add", "Replace"}
    BY <1>6, <2>1
  <2>2. CASE m.type \notin {"Add", "Replace"}
    <3>1. NewId(m) = 0
      BY <2>2 DEF NewId
    <3>2. m.type # "Add" => \E order \in liveOrders[TheInstrument] : m.id = order.id
      BY <1>4 DEF NamesResting
    <3>3. PICK order \in liveOrders[TheInstrument] : m.id = order.id
      BY <2>2, <3>2
    <3>4. order.id < nextOrderId /\ order.id \in OrderId
      BY <1>3, TheInstrumentIs DEF SimInv, SimTypeOK, IdsAreFresh, LiveOrder
    <3>5. 0 < nextOrderId
      BY <1>6, <3>4 DEF OrderId
    <3> QED BY <1>6, <3>1, <3>5
  <2> QED BY <2>1, <2>2
<1>11. \A id \in OrderId : orders[id] # NoOrder => id < nextOrderId'
  BY <1>6, <1>7 DEF OrderId
<1>12. Received'
  BY <1>2, <1>5, <1>9, <1>10 DEF Received, Arrive
<1> QED BY <1>5, <1>11, <1>12 DEF WriterInv, Arrive

\* The stores of the message lead from the book it finds to the one it leaves.
LEMMA BeginApplyKeeps ==
  ASSUME WriterInv, BeginApply
  PROVE  WriterInv'
<1>1. worker = "holding" /\ memory = before /\ Received
  BY DEF BeginApply, WriterInv
<1>2. PICK m \in Message : m = message
  BY <1>1 DEF Received
<1>3. Whole(orders, memory, m.instrument) /\ FitsMap(orders, m)
  BY <1>1, <1>2 DEF WriterInv, Received
<1>4. PICK half, after : half = Half.book /\ after = After.book
  OBVIOUS
<1>5. Path(stores', before, half, after)
  <2>1. /\ stores' = ApplyStores(m)
        /\ half = Halfway(orders, memory, m).book
        /\ after = Apply([orders |-> orders, book |-> memory], m).book
    BY <1>1, <1>2, <1>4 DEF BeginApply, Half, After
  <2> QED BY <1>1, <1>3, <2>1, ApplyStoresLead
<1>6. OnTheWay(before, before, half, after)
  BY <1>1, <1>4, ReceivedViews, EndsAreBetween DEF OnTheWay
<1>7. /\ UNCHANGED <<simVars, message, orders, memory, before>> /\ worker' = "applying"
      /\ Half' = Half /\ After' = After
  BY DEF BeginApply, Half, After
<1>8. Going'
  BY <1>1, <1>4, <1>5, <1>6, <1>7 DEF Going, Path
<1>9. Received'
  BY <1>1, <1>7 DEF Received, simVars
<1>10. SimInv'
  BY <1>7 DEF WriterInv, SimInv, SimTypeOK, IdsAreFresh, simVars
<1> QED BY <1>7, <1>8, <1>9, <1>10 DEF WriterInv, simVars

LEMMA StoreKeeps ==
  ASSUME WriterInv, Store
  PROVE  WriterInv'
<1>1. worker = "applying" /\ Going /\ Received
  BY DEF Store, WriterInv
<1>2. PICK half, after : half = Half.book /\ after = After.book
  OBVIOUS
<1>3. /\ UNCHANGED <<simVars, worker, message, orders, before>>
      /\ Half' = Half /\ After' = After
  BY DEF Store, Half, After
<1>4. PICK list \in Seq(Book) : list = stores /\ list # << >>
  BY <1>1 DEF Going, Store
<1>5. /\ Len(list) \in Nat /\ Len(list) >= 1 /\ Head(list) = list[1]
      /\ Tail(list) \in Seq(Book) /\ Len(Tail(list)) = Len(list) - 1
      /\ \A k \in 1 .. Len(list) - 1 : Tail(list)[k] = list[k + 1]
  BY <1>4
<1>6. memory' = list[1] /\ stores' = Tail(list)
  BY <1>4, <1>5 DEF Store
<1>7. /\ \A k \in 1 .. Len(list) : OnTheWay(list[k], before, half, after)
      /\ list[Len(list)] = after
  BY <1>1, <1>2, <1>4 DEF Going
<1>8. OnTheWay(memory', before, half, after)
  BY <1>5, <1>6, <1>7
<1>9. \A k \in 1 .. Len(stores') : OnTheWay(stores'[k], before, half, after)
  <2> SUFFICES ASSUME NEW k \in 1 .. Len(stores')
               PROVE  OnTheWay(stores'[k], before, half, after)
    OBVIOUS
  <2>1. k + 1 \in 1 .. Len(list) /\ k \in 1 .. Len(list) - 1
    BY <1>5, <1>6
  <2> QED BY <1>5, <1>6, <1>7, <2>1
<1>10. IF stores' = << >> THEN memory' = after ELSE stores'[Len(stores')] = after
  <2>1. CASE Len(list) = 1
    <3>1. stores' = << >>
      BY <1>5, <1>6, <2>1
    <3> QED BY <1>6, <1>7, <2>1, <3>1
  <2>2. CASE Len(list) # 1
    <3>1. Len(list) - 1 \in 1 .. Len(list) - 1 /\ (Len(list) - 1) + 1 = Len(list)
      BY <1>5, <2>2
    <3>2. stores' # << >> /\ Len(stores') = Len(list) - 1
      <4>1. PICK rest \in Seq(Book) : rest = Tail(list)
        BY <1>5
      <4>2. Len(rest) = Len(list) - 1 /\ Len(rest) # 0
        BY <1>5, <2>2, <4>1
      <4>3. rest # << >>
        BY <4>2
      <4> QED BY <1>6, <4>1, <4>2, <4>3
    <3> QED BY <1>5, <1>6, <1>7, <3>1, <3>2
  <2> QED BY <2>1, <2>2
<1>11. Going'
  BY <1>2, <1>3, <1>5, <1>6, <1>8, <1>9, <1>10 DEF Going
<1>12. Received' /\ SimInv'
  BY <1>1, <1>3 DEF Received, simVars, WriterInv, SimInv, SimTypeOK, IdsAreFresh
<1> QED BY <1>1, <1>3, <1>11, <1>12 DEF WriterInv, simVars

LEMMA EndApplyKeeps ==
  ASSUME WriterInv, EndApply
  PROVE  WriterInv'
<1>1. worker = "applying" /\ stores = << >> /\ Going
  BY DEF EndApply, WriterInv
<1>2. memory = After.book
  BY <1>1 DEF Going
<1>3. /\ orders' = After.orders /\ before' = After.book /\ memory' = before'
      /\ stores' = << >> /\ worker' = "waiting" /\ UNCHANGED simVars
  BY <1>1, <1>2, ReceivedViews DEF EndApply
<1>4. /\ Whole(After.orders, After.book, TheInstrument)
      /\ \A id \in OrderId : After.orders[id] # NoOrder => id < nextOrderId
  BY <1>1, ReceivedViews
<1>5. SimInv'
  BY <1>3 DEF simVars, WriterInv, SimInv, SimTypeOK, IdsAreFresh
<1> QED BY <1>3, <1>4, <1>5 DEF WriterInv, simVars

LEMMA WriterInvStep == WriterInv /\ [ReaderNext]_readerVars => WriterInv'
<1> SUFFICES ASSUME WriterInv, [ReaderNext]_readerVars PROVE WriterInv'
  OBVIOUS
<1>1. CASE UNCHANGED writerVars
  <2>1. SimInv'
    BY <1>1 DEF writerVars, simVars, WriterInv, SimInv, SimTypeOK, IdsAreFresh
  <2>2. /\ UNCHANGED <<worker, message, orders, memory, stores, before, nextOrderId>>
        /\ Half' = Half /\ After' = After
    BY <1>1 DEF writerVars, simVars, Half, After
  <2>3. (Received => Received') /\ (Going => Going')
    BY <2>2 DEF Received, Going
  <2> QED BY <2>1, <2>2, <2>3 DEF WriterInv
<1>2. CASE Lose
  <2>1. SimInv'
    BY <1>2 DEF Lose, simVars, WriterInv, SimInv, SimTypeOK, IdsAreFresh
  <2> QED BY <1>2, <2>1 DEF Lose, simVars, WriterInv
<1>3. CASE ReaderStep \/ UNCHANGED readerVars
  BY <1>1, <1>3 DEF ReaderStep, ReadTouch, LoadTouch, LoadLevel, Return, readerVars
<1> QED BY <1>2, <1>3, ArriveKeeps, BeginApplyKeeps, StoreKeeps, EndApplyKeeps
        DEF ReaderNext, WriterStep

-----------------------------------------------------------------------------
(***************************************************************************)
(* The book the stores leave is the one of a replay that applies every     *)
(* message at once.                                                        *)
(***************************************************************************)
\* apply() is the same function for both, and so is what it calls.
LEMMA SameIndex ==
  ASSUME NEW book, NEW price
  PROVE  /\ Replay!IndexOf(book, price) = IndexOf(book, price)
         /\ Replay!InBand(book, price) <=> InBand(book, price)
         /\ Replay!DropUpdate(book) = DropUpdate(book)
<1>1. Replay!IndexOf(book, price) = IndexOf(book, price)
  BY DEF Replay!IndexOf, IndexOf
<1>2. Replay!InBand(book, price) <=> InBand(book, price)
  BY <1>1 DEF Replay!InBand, InBand, Replay!Index, Index
<1>3. Replay!DropUpdate(book) = DropUpdate(book)
  BY DEF Replay!DropUpdate, DropUpdate
<1> QED BY <1>1, <1>2, <1>3

LEMMA SameAdd ==
  ASSUME NEW book, NEW side, NEW price, NEW qty
  PROVE  Replay!BookAdd(book, side, price, qty) = BookAdd(book, side, price, qty)
<1> DEFINE i == IndexOf(book, price)
<1>1. /\ Replay!IndexOf(book, price) = i /\ (Replay!InBand(book, price) <=> InBand(book, price))
      /\ Replay!DropUpdate(book) = DropUpdate(book)
  BY SameIndex
<1> HIDE DEF i
<1> QED BY <1>1 DEF Replay!BookAdd, BookAdd, i

LEMMA SameReduce ==
  ASSUME NEW book, NEW side, NEW price, NEW qty
  PROVE  Replay!BookReduce(book, side, price, qty) = BookReduce(book, side, price, qty)
<1> DEFINE i == IndexOf(book, price)
<1>1. /\ Replay!IndexOf(book, price) = i /\ (Replay!InBand(book, price) <=> InBand(book, price))
      /\ Replay!DropUpdate(book) = DropUpdate(book)
  BY SameIndex
<1>2. \A q : Replay!Minus(q, qty) = Minus(q, qty)
  BY DEF Replay!Minus, Minus
<1>3. \A levels, from : /\ Replay!WalkDown(levels, from) = WalkDown(levels, from)
                        /\ Replay!WalkUp(levels, from) = WalkUp(levels, from)
  BY DEF Replay!WalkDown, WalkDown, Replay!WalkUp, WalkUp
<1> HIDE DEF i
<1> QED BY <1>1, <1>2, <1>3 DEF Replay!BookReduce, BookReduce, i

LEMMA SameApply ==
  ASSUME NEW v, NEW m
  PROVE  Replay!Apply(v, m) = Apply(v, m)
<1>1. Replay!NoOrder = NoOrder
  BY DEF Replay!NoOrder, NoOrder
<1>2. \A book, side, price, qty :
        Replay!BookAdd(book, side, price, qty) = BookAdd(book, side, price, qty)
  BY SameAdd
<1>3. \A book, side, price, qty :
        Replay!BookReduce(book, side, price, qty) = BookReduce(book, side, price, qty)
  BY SameReduce
<1>4. \A a, b : Replay!SmallerOf(a, b) = SmallerOf(a, b)
  BY DEF Replay!SmallerOf, SmallerOf
<1>5. Replay!ApplyAdd(v, m) = ApplyAdd(v, m)
  BY <1>2 DEF Replay!ApplyAdd, ApplyAdd
<1>6. Replay!ApplyTake(v, m) = ApplyTake(v, m)
  BY <1>1, <1>3, <1>4 DEF Replay!ApplyTake, ApplyTake
<1>7. Replay!ApplyDelete(v, m) = ApplyDelete(v, m)
  BY <1>1, <1>3 DEF Replay!ApplyDelete, ApplyDelete
<1>8. Replay!ApplyReplace(v, m) = ApplyReplace(v, m)
  BY <1>1, <1>2, <1>3 DEF Replay!ApplyReplace, ApplyReplace
<1> QED BY <1>5, <1>6, <1>7, <1>8 DEF Replay!Apply, Apply

\* apply() makes a view of an order map and a book.
LEMMA ApplyIsView ==
  ASSUME NEW map, NEW book, NEW m \in Message
  PROVE  LET after == Apply([orders |-> map, book |-> book], m)
         IN  after = [orders |-> after.orders, book |-> after.book]
<1> DEFINE v == [orders |-> map, book |-> book]
           IsView(x) == x = [orders |-> x.orders, book |-> x.book]
<1>1. \A a, b : IsView([orders |-> a, book |-> b])
  OBVIOUS
<1>2. IsView(v)
  OBVIOUS
<1> HIDE DEF IsView, v
<1>3. IsView(ApplyAdd(v, m))
  BY <1>1 DEF ApplyAdd
<1>4. IsView(ApplyTake(v, m))
  BY <1>1, <1>2 DEF ApplyTake
<1>5. IsView(ApplyDelete(v, m))
  BY <1>1, <1>2 DEF ApplyDelete
<1>6. IsView(ApplyReplace(v, m))
  BY <1>1, <1>2 DEF ApplyReplace
<1>7. IsView(Apply(v, m))
  BY <1>3, <1>4, <1>5, <1>6, MessageKinds DEF Apply
<1> QED BY <1>7 DEF IsView, v

LEMMA ReplayStarts ==
  ASSUME ReaderInit
  PROVE  Replay!ReplayInit
<1>1. /\ worker # "applying" /\ orders = NoOrders
      /\ before = BookInit(ReferencePrice[TheInstrument])
  BY DEF ReaderInit
<1>2. Replay!NoOrders = NoOrders /\ \A price : Replay!BookInit(price) = BookInit(price)
  BY DEF Replay!NoOrders, NoOrders, Replay!NoOrder, NoOrder, Replay!OrderId, OrderId,
     Replay!BookInit, BookInit, Replay!Index, Index
<1>3. Replay!Instrument = Instrument
  BY DEF Replay!Instrument, Instrument
<1> QED BY <1>1, <1>2, <1>3 DEF Replay!ReplayInit, Backlog, Views

\* The worker accepts a message when it begins to apply it.
LEMMA ReplayAccepts ==
  ASSUME WriterInv, BeginApply
  PROVE  Replay!ReplayNext
<1> DEFINE i == TheInstrument
<1>1. /\ worker = "holding" /\ worker' = "applying" /\ message' = message
      /\ orders' = orders /\ before' = before
      /\ message.instrument = i /\ i \in Instrument
  BY TheInstrumentIs DEF BeginApply, WriterInv, Received
<1>2. Backlog[i] = << >> /\ Backlog'[i] = <<message>>
  BY <1>1 DEF Backlog
<1>3. Append(Backlog[i], message) = <<message>>
      /\ Backlog'[i] # << >> /\ Backlog'[i][Len(Backlog'[i])] = message
  <2>1. PICK q : q = <<message>>
    OBVIOUS
  <2>2. Len(q) = 1 /\ q[1] = message /\ q # << >> /\ Append(<< >>, message) = q
    BY <2>1
  <2> QED BY <1>2, <2>1, <2>2
<1>4. Backlog' = [Backlog EXCEPT ![i] = Append(@, message)]
  <2>1. \A j \in Instrument : Backlog'[j] = IF j = i THEN <<message>> ELSE Backlog[j]
    BY <1>1 DEF Backlog
  <2>2. Backlog' = [j \in Instrument |-> Backlog'[j]] /\ Backlog = [j \in Instrument |-> Backlog[j]]
    BY DEF Backlog
  <2> HIDE DEF i
  <2> QED BY <1>1, <1>3, <2>1, <2>2
<1>5. Views' = Views
  BY <1>1 DEF Views
<1>6. Replay!Instrument = Instrument
  BY DEF Replay!Instrument, Instrument
<1>7. LET q == Backlog'[i] IN
        /\ q # << >> /\ q[Len(q)].instrument = i
        /\ Backlog' = [Backlog EXCEPT ![i] = Append(@, q[Len(q)])]
  BY <1>1, <1>3, <1>4
<1>8. /\ Backlog'[i] # << >>
      /\ Replay!Accept(i, Backlog'[i][Len(Backlog'[i])])
  BY <1>5, <1>7 DEF Replay!Accept
<1> QED BY <1>1, <1>6, <1>8 DEF Replay!ReplayNext

\* It has done its work when the last store is made.
LEMMA ReplayWorks ==
  ASSUME WriterInv, EndApply
  PROVE  Replay!ReplayNext
<1> DEFINE i == TheInstrument
<1>1. /\ worker = "applying" /\ worker' = "waiting" /\ stores = << >>
      /\ Going /\ message \in Message /\ i \in Instrument
  BY TheInstrumentIs DEF EndApply, WriterInv, Received
<1>2. PICK after : after = After
  OBVIOUS
<1>3. orders' = after.orders /\ before' = after.book
  BY <1>1, <1>2, ReceivedViews DEF EndApply, Going
<1>4. after = [orders |-> after.orders, book |-> after.book]
  BY <1>1, <1>2, ApplyIsView DEF After
<1>5. Backlog[i] = <<message>> /\ Backlog'[i] = << >>
  BY <1>1 DEF Backlog
<1>6. Backlog[i] # << >> /\ Head(Backlog[i]) = message /\ Tail(Backlog[i]) = << >>
  <2>1. PICK q : q = <<message>>
    OBVIOUS
  <2>2. q # << >> /\ Head(q) = message /\ Tail(q) = << >>
    BY <2>1
  <2> QED BY <1>5, <2>1, <2>2
<1>7. Backlog' = [Backlog EXCEPT ![i] = Tail(@)]
  <2>1. \A j \in Instrument : Backlog'[j] = IF j = i THEN << >> ELSE Backlog[j]
    BY <1>1 DEF Backlog
  <2>2. Backlog' = [j \in Instrument |-> Backlog'[j]] /\ Backlog = [j \in Instrument |-> Backlog[j]]
    BY DEF Backlog
  <2> HIDE DEF i
  <2> QED BY <1>1, <1>6, <2>1, <2>2
<1>8. Views[i] = [orders |-> orders, book |-> before]
  BY <1>1 DEF Views
<1>9. Apply(Views[i], message) = after
  BY <1>2, <1>8 DEF After
<1>10. Views' = [Views EXCEPT ![i] = Apply(@, Head(Backlog[i]))]
  <2>1. \A j \in Instrument : Views'[j] = IF j = i THEN after ELSE Views[j]
    BY <1>1, <1>3, <1>4 DEF Views
  <2>2. Views' = [j \in Instrument |-> Views'[j]] /\ Views = [j \in Instrument |-> Views[j]]
    BY DEF Views
  <2> HIDE DEF i
  <2> QED BY <1>1, <1>6, <1>9, <2>1, <2>2
<1>11. Views' = [Views EXCEPT ![i] = Replay!Apply(@, Head(Backlog[i]))]
  BY <1>10, SameApply
<1>12. Replay!Instrument = Instrument
  BY DEF Replay!Instrument, Instrument
<1>13. Replay!Work(i)
  BY <1>6, <1>7, <1>11 DEF Replay!Work
<1> QED BY <1>1, <1>12, <1>13 DEF Replay!ReplayNext

LEMMA ReplayStep ==
  ASSUME WriterInv, [ReaderNext]_readerVars
  PROVE  [Replay!ReplayNext]_Replay!replayVars
<1>1. ASSUME UNCHANGED <<worker, message, orders, before>>
      PROVE  UNCHANGED Replay!replayVars
  <2>1. Backlog' = Backlog /\ Views' = Views
    BY <1>1 DEF Backlog, Views
  <2> QED BY <2>1 DEF Replay!replayVars
<1>2. CASE Arrive \/ Lose
  <2>1. worker # "applying" /\ worker' # "applying" /\ UNCHANGED <<orders, before>>
    BY <1>2 DEF Arrive, Lose
  <2>2. Backlog' = Backlog /\ Views' = Views
    BY <2>1 DEF Backlog, Views
  <2> QED BY <2>2 DEF Replay!replayVars
<1>3. CASE Store \/ ReaderStep \/ UNCHANGED readerVars
  BY <1>1, <1>3
  DEF Store, ReaderStep, ReadTouch, LoadTouch, LoadLevel, Return, readerVars, writerVars
<1> QED BY <1>2, <1>3, ReplayAccepts, ReplayWorks DEF ReaderNext, WriterStep

LEMMA WriterInvHolds == ReaderSpec => []WriterInv
BY WriterStarts, WriterInvStep, PTL DEF ReaderSpec

\* A message applied store by store, with a reader in between, is a message applied
\* at once: every behaviour of the worker's book, seen between messages, is a
\* behaviour of InstrumentReplay.
THEOREM ImplementsReplayHolds == ReaderSpec => ImplementsReplay
<1>1. ReaderInit => Replay!ReplayInit
  BY ReplayStarts
<1>2. WriterInv /\ [ReaderNext]_readerVars => [Replay!ReplayNext]_Replay!replayVars
  BY ReplayStep
<1> QED
  BY <1>1, <1>2, WriterInvHolds, PTL DEF ReaderSpec, ImplementsReplay, Replay!ReplaySpec

-----------------------------------------------------------------------------
(***************************************************************************)
(* What a reader finds in the book that is being written.  Every book on   *)
(* the way lies between two whole ones.                                    *)
(***************************************************************************)
\* The index of a price depends on the band only.
LEMMA SameBand ==
  ASSUME NEW book, memory.base = book.base, NEW price
  PROVE  /\ IndexOf(memory, price) = IndexOf(book, price)
         /\ InBand(memory, price) <=> InBand(book, price)
BY DEF IndexOf, InBand

\* The orders of a set rest in a map.
AllRest(low, map) == \A o \in low : o.id \in OrderId /\ Rests(o, map)

\* In a whole book no order is better than the best level, and one rests there.
LEMMA WholeTouch ==
  ASSUME NEW map, NEW book, Whole(map, book, TheInstrument), memory.base = book.base,
         NEW side \in Side
  PROVE  /\ \A low : AllRest(low, map) => \A o \in Banded(low, side) :
              /\ IndexOf(memory, o.price) \in Index
              /\ ~Beats(side, IndexOf(memory, o.price), BestOf(book, side))
         /\ HasBest(book, side) => \E o \in Banded(Rested(map), side) :
              IndexOf(memory, o.price) = BestOf(book, side)
<1>1. /\ map \in OrderMap /\ book \in Book /\ NothingBetter(book) /\ BestIsOccupied(book)
      /\ DepthMatches(map, book, TheInstrument)
      /\ \A id \in OrderId : map[id] # NoOrder => map[id].instrument = TheInstrument
  BY DEF Whole, GoodBook
<1>2. /\ \A index \in Index : LevelOf(book, side, index) > 0 => ~Beats(side, index, BestOf(book, side))
      /\ HasBest(book, side) => BestOf(book, side) \in Index
                                /\ LevelOf(book, side, BestOf(book, side)) > 0
  <2>1. /\ book.bestBid \in -1 .. Levels - 1 /\ book.bestAsk \in 0 .. Levels
        /\ Levels \in Nat
    BY <1>1, LevelsAssumption DEF Book
  <2>2. CASE side = "Buy"
    BY <1>1, <2>1, <2>2 DEF NothingBetter, BestIsOccupied, LevelOf, BestOf, HasBest, Beats,
       HasBid, HasAsk, Index
  <2>3. CASE side = "Sell"
    BY <1>1, <2>1, <2>3 DEF NothingBetter, BestIsOccupied, LevelOf, BestOf, HasBest, Beats,
       HasBid, HasAsk, Index
  <2> QED BY <2>2, <2>3 DEF Side
<1>3. ASSUME NEW low, AllRest(low, map), NEW o \in Banded(low, side)
      PROVE  /\ IndexOf(memory, o.price) \in Index
             /\ ~Beats(side, IndexOf(memory, o.price), BestOf(book, side))
  <2>1. PICK id \in OrderId : id = o.id /\ map[id] # NoOrder
                             /\ map[id].side = o.side /\ map[id].price = o.price
    BY <1>3 DEF Banded, AllRest, Rests
  <2>2. PICK index \in Index : index = IndexOf(memory, o.price)
    BY DEF Banded, InBand
  <2>3. map[id].side = side /\ IndexOf(book, map[id].price) = index
    BY <2>1, <2>2, SameBand DEF Banded
  <2>4. LevelOf(book, side, index) > 0
    BY <1>1, <2>1, <2>3, OccupiedByOrder
  <2> QED BY <1>2, <2>2, <2>4
<1>4. ASSUME HasBest(book, side)
      PROVE  \E o \in Banded(Rested(map), side) : IndexOf(memory, o.price) = BestOf(book, side)
  <2>1. PICK best \in Index : best = BestOf(book, side) /\ LevelOf(book, side, best) > 0
    BY <1>2, <1>4
  <2>2. PICK id \in OrderId :
          /\ map[id] # NoOrder /\ map[id].side = side /\ IndexOf(book, map[id].price) = best
    BY <1>1, <2>1, OccupiedByOrder
  <2> DEFINE o == [id |-> id, side |-> map[id].side, price |-> map[id].price,
                   qty |-> map[id].qty]
  <2>3. o \in Rested(map) /\ o.side = side /\ o.price = map[id].price
    BY <2>2 DEF Rested
  <2>4. IndexOf(memory, o.price) = best
    BY <2>2, <2>3, SameBand
  <2>5. InBand(memory, o.price)
    BY <2>1, <2>4 DEF InBand
  <2> HIDE DEF o
  <2> QED BY <2>1, <2>3, <2>4, <2>5 DEF Banded
<1> QED BY <1>3, <1>4

\* Between two whole books: no order that rests in both is better than the best
\* index, and some order that rests in one of them is as good.
TouchBounds(low, high, side) ==
  /\ \A o \in Banded(low, side) :
       /\ IndexOf(memory, o.price) \in Index
       /\ ~Beats(side, IndexOf(memory, o.price), BestOf(memory, side))
  /\ HasBest(memory, side) => \E o \in Banded(high, side) :
       ~Beats(side, BestOf(memory, side), IndexOf(memory, o.price))

LEMMA BetweenTouch ==
  ASSUME NEW a, NEW x, Whole(a, x, TheInstrument), NEW b, NEW y, Whole(b, y, TheInstrument),
         Between(memory, x, y), NEW low, AllRest(low, a), AllRest(low, b),
         NEW high, Rested(a) \cup Rested(b) \subseteq high, NEW side \in Side
  PROVE  TouchBounds(low, high, side)
<1>1. memory.base = x.base /\ memory.base = y.base
  BY DEF Between
<1>2. PICK best \in Int : best = BestOf(memory, side)
  BY DEF Between
<1>3. PICK bx \in Int : bx = BestOf(x, side)
  BY BookFields DEF Whole, GoodBook
<1>4. PICK by \in Int : by = BestOf(y, side)
  BY BookFields DEF Whole, GoodBook
<1>5. (bx <= best /\ best <= by) \/ (by <= best /\ best <= bx)
  BY <1>2, <1>3, <1>4 DEF Between, Amid
<1>6. ASSUME NEW o \in Banded(low, side)
      PROVE  /\ IndexOf(memory, o.price) \in Index
             /\ ~Beats(side, IndexOf(memory, o.price), best)
  <2>1. PICK index \in Index : index = IndexOf(memory, o.price)
    BY <1>1, WholeTouch
  <2>2. ~Beats(side, index, bx) /\ ~Beats(side, index, by)
    BY <1>1, <1>3, <1>4, <2>1, WholeTouch
  <2>3. index \in Int
    BY DEF Index
  <2> QED BY <1>5, <2>1, <2>2, <2>3 DEF Beats
<1>7. ASSUME HasBest(memory, side)
      PROVE  \E o \in Banded(high, side) : ~Beats(side, best, IndexOf(memory, o.price))
  <2>1. \/ HasBest(x, side) /\ ~Beats(side, best, bx)
        \/ HasBest(y, side) /\ ~Beats(side, best, by)
    <3>1. CASE side = "Buy"
      BY <1>2, <1>3, <1>4, <1>5, <1>7, <3>1 DEF HasBest, HasBid, BestOf, Beats
    <3>2. CASE side = "Sell"
      BY <1>2, <1>3, <1>4, <1>5, <1>7, <3>2, LevelsAssumption
      DEF HasBest, HasAsk, BestOf, Beats
    <3> QED BY <3>1, <3>2 DEF Side
  <2>2. CASE HasBest(x, side) /\ ~Beats(side, best, bx)
    <3>1. PICK o \in Banded(Rested(a), side) : IndexOf(memory, o.price) = bx
      BY <1>1, <1>3, <2>2, WholeTouch
    <3>2. o \in Banded(high, side)
      BY <3>1 DEF Banded
    <3> QED BY <2>2, <3>1, <3>2
  <2>3. CASE HasBest(y, side) /\ ~Beats(side, best, by)
    <3>1. PICK o \in Banded(Rested(b), side) : IndexOf(memory, o.price) = by
      BY <1>1, <1>4, <2>3, WholeTouch
    <3>2. o \in Banded(high, side)
      BY <3>1 DEF Banded
    <3> QED BY <2>3, <3>1, <3>2
  <2> QED BY <2>1, <2>2, <2>3
<1> QED BY <1>2, <1>6, <1>7 DEF TouchBounds

\* The book is always between two whole ones, whose orders are not less than the
\* staying ones and not more than those present.
LEMMA MemoryIsBetween ==
  ASSUME WriterInv
  PROVE  \E a, x, b, y :
           /\ Whole(a, x, TheInstrument) /\ Whole(b, y, TheInstrument)
           /\ Between(memory, x, y) /\ AllRest(Staying, a) /\ AllRest(Staying, b)
           /\ Rested(a) \cup Rested(b) \subseteq Present
           /\ memory.base = before.base
<1>0. Whole(orders, before, TheInstrument) /\ before \in Book
  BY DEF WriterInv, Whole, GoodBook
<1>a. AllRest(Staying, orders)
  <2> SUFFICES ASSUME NEW o \in Staying PROVE o.id \in OrderId
    BY DEF AllRest, Staying
  <2> QED BY DEF Staying, Present, Rested
<1>1. CASE worker # "applying"
  <2>1. memory = before /\ Present = Rested(orders)
    BY <1>1 DEF WriterInv, Present
  <2>2. Between(memory, before, before)
    BY <1>0, <2>1, EndsAreBetween
  <2> QED BY <1>0, <1>a, <2>1, <2>2
<1>2. CASE worker = "applying"
  <2>1. /\ Whole(Half.orders, Half.book, TheInstrument) /\ Half.book.base = before.base
        /\ Whole(After.orders, After.book, TheInstrument) /\ After.book.base = before.base
        /\ \A o : o.id \in OrderId /\ Rests(o, orders) /\ Rests(o, After.orders)
                   => Rests(o, Half.orders)
        /\ Rested(Half.orders) \subseteq Rested(orders) \cup Rested(After.orders)
        /\ OrdersAfter(message) = After.orders
    BY <1>2, ReceivedViews
  <2>2. /\ AllRest(Staying, Half.orders) /\ AllRest(Staying, After.orders)
        /\ Present = Rested(orders) \cup Rested(After.orders)
    <3>1. AllRest(Staying, After.orders)
      BY <1>a, <1>2, <2>1 DEF AllRest, Staying
    <3> QED BY <1>a, <1>2, <2>1, <3>1 DEF AllRest, Present
  <2>3. Between(memory, before, Half.book) \/ Between(memory, Half.book, After.book)
    BY <1>2 DEF WriterInv, Going, OnTheWay
  <2>4. CASE Between(memory, before, Half.book)
    <3>1. memory.base = before.base
      BY <2>4 DEF Between
    <3> QED BY <1>0, <1>a, <2>1, <2>2, <2>4, <3>1
  <2>5. CASE Between(memory, Half.book, After.book)
    <3>1. memory.base = before.base
      BY <2>1, <2>5 DEF Between
    <3> QED BY <2>1, <2>2, <2>5, <3>1
  <2> QED BY <2>3, <2>4, <2>5
<1> QED BY <1>1, <1>2

LEMMA MemoryTouch ==
  ASSUME WriterInv, NEW side \in Side
  PROVE  TouchBounds(Staying, Present, side) /\ memory.base = before.base
<1>1. PICK a, x, b, y :
        /\ Whole(a, x, TheInstrument) /\ Whole(b, y, TheInstrument)
        /\ Between(memory, x, y) /\ AllRest(Staying, a) /\ AllRest(Staying, b)
        /\ Rested(a) \cup Rested(b) \subseteq Present
        /\ memory.base = before.base
  BY MemoryIsBetween
<1> QED BY <1>1, BetweenTouch

-----------------------------------------------------------------------------
(***************************************************************************)
(* What a call of best_bid_ticks() or best_ask_ticks() returns.            *)
(***************************************************************************)
\* Between its two loads a call has seen an order, and knows the orders that were
\* there all the time.
TouchInv ==
  /\ reader = [at |-> reader.at, side |-> reader.side, got |-> reader.got]
  /\ Reading => /\ reader.side \in Side
                /\ steady \subseteq Staying /\ Present \subseteq seen
                /\ Banded(seen, reader.side) # {}
  /\ TouchIsRecent

\* What got answers is right about what the sets low and high say.
Answers(got, low, high, side) ==
  IF got = << >> THEN Banded(low, side) = {}
  ELSE /\ \A o \in Banded(low, side) : ~Beats(side, IndexOf(memory, o.price), got[1])
       /\ \E o \in Banded(high, side) : ~Beats(side, got[1], IndexOf(memory, o.price))

\* The best index as it is loaded is such an answer, and so is None if there is no
\* best level.
LEMMA LoadedTouch ==
  ASSUME WriterInv, NEW side \in Side, NEW low, low \subseteq Staying,
         NEW high, Present \subseteq high
  PROVE  /\ ~HasBest(memory, side) => Answers(<< >>, low, high, side)
         /\ HasBest(memory, side) \/ Banded(high, side) # {} =>
              Answers(<<BestOf(memory, side)>>, low, high, side)
         /\ HasBest(memory, side) => Banded(high, side) # {}
<1>1. TouchBounds(Staying, Present, side)
  BY MemoryTouch
<1>2. /\ \A o \in Banded(low, side) :
           /\ IndexOf(memory, o.price) \in Index
           /\ ~Beats(side, IndexOf(memory, o.price), BestOf(memory, side))
      /\ HasBest(memory, side) => \E o \in Banded(high, side) :
           ~Beats(side, BestOf(memory, side), IndexOf(memory, o.price))
  BY <1>1 DEF TouchBounds, Banded
<1>3. BestOf(memory, side) \in Int
  BY MemoryIsBetween DEF Between
<1>4. ASSUME ~HasBest(memory, side), NEW index \in Index
      PROVE  /\ Beats(side, index, BestOf(memory, side))
             /\ ~Beats(side, BestOf(memory, side), index)
  <2>1. CASE side = "Buy"
    BY <1>3, <1>4, <2>1 DEF HasBest, HasBid, BestOf, Beats, Index
  <2>2. CASE side = "Sell"
    BY <1>3, <1>4, <2>2, LevelsAssumption DEF HasBest, HasAsk, BestOf, Beats, Index
  <2> QED BY <2>1, <2>2 DEF Side
<1>5. ~HasBest(memory, side) => Answers(<< >>, low, high, side)
  BY <1>2, <1>4 DEF Answers
<1>6. PICK best : best = BestOf(memory, side)
  OBVIOUS
<1>7. <<best>> # << >> /\ <<best>>[1] = best
  OBVIOUS
<1>8. ASSUME HasBest(memory, side) \/ Banded(high, side) # {}
      PROVE  Answers(<<best>>, low, high, side)
  <2>1. \E o \in Banded(high, side) : ~Beats(side, best, IndexOf(memory, o.price))
    <3>1. CASE HasBest(memory, side)
      BY <1>2, <1>6, <3>1
    <3>2. CASE ~HasBest(memory, side)
      <4>1. PICK o \in Banded(high, side) : TRUE
        BY <1>8, <3>2
      <4>2. IndexOf(memory, o.price) \in Index
        BY <4>1 DEF Banded, InBand
      <4> QED BY <1>4, <1>6, <3>2, <4>1, <4>2
    <3> QED BY <3>1, <3>2
  <2> QED BY <1>2, <1>6, <1>7, <2>1 DEF Answers
<1> QED BY <1>2, <1>5, <1>6, <1>8

\* The band stands still while the worker stores.
LEMMA BandStays ==
  ASSUME WriterInv, WriterStep
  PROVE  memory'.base = memory.base
<1>1. CASE Store
  <2>1. worker = "applying" /\ Going
    BY <1>1 DEF Store, WriterInv
  <2>2. PICK list \in Seq(Book) : list = stores /\ list # << >>
    BY <1>1, <2>1 DEF Going, Store
  <2>3. 1 \in 1 .. Len(list) /\ Head(list) = list[1]
    BY <2>2
  <2>4. memory' = list[1]
    BY <1>1, <2>2, <2>3 DEF Store
  <2>5. OnTheWay(memory', before, Half.book, After.book)
    BY <2>1, <2>2, <2>3, <2>4 DEF Going
  <2>6. memory'.base = before.base
    BY <2>1, <2>5, ReceivedViews DEF OnTheWay, Between
  <2> QED BY <2>6, MemoryIsBetween
<1>2. CASE Arrive \/ Lose \/ BeginApply \/ EndApply
  BY <1>2 DEF Arrive, Lose, BeginApply, EndApply
<1> QED BY <1>1, <1>2 DEF WriterStep

\* While the worker takes a step, a call that has checked goes on watching.
LEMMA TouchAfterWriter ==
  ASSUME WriterInv, TouchInv, WriterStep, ~Returning
  PROVE  TouchInv'
<1>1. reader' = reader
  BY DEF WriterStep, Arrive, Lose, BeginApply, Store, EndApply
<1>2. TouchIsRecent'
  BY <1>1 DEF TouchIsRecent, Returning
<1>3. ASSUME Reading
      PROVE  /\ steady' \subseteq Staying' /\ Present' \subseteq seen' /\ seen \subseteq seen'
  <2>1. steady \subseteq Staying /\ Present \subseteq seen
    BY <1>3 DEF TouchInv
  <2>2. CASE BeginApply \/ EndApply
    <3>1. Watch
      BY <2>2 DEF BeginApply, EndApply
    <3>2. steady' \subseteq Staying' /\ seen' = seen \cup Present'
      BY <1>3, <3>1 DEF Watch
    <3> QED BY <3>2
  <2>3. CASE Arrive \/ Lose
    <3>1. worker # "applying" /\ worker' # "applying" /\ orders' = orders
          /\ steady' = steady /\ seen' = seen
      BY <2>3 DEF Arrive, Lose, historyVars
    <3>2. Staying' = Staying /\ Present' = Present
      BY <3>1 DEF Staying, Present
    <3> QED BY <2>1, <3>1, <3>2
  <2>4. CASE Store
    <3>1. UNCHANGED <<worker, message, orders, before, steady, seen>>
      BY <2>4 DEF Store, historyVars
    <3>2. Staying' = Staying /\ Present' = Present
      BY <3>1 DEF Staying, Present, OrdersAfter
    <3> QED BY <2>1, <3>1, <3>2
  <2> QED BY <2>2, <2>3, <2>4 DEF WriterStep
<1>4. ASSUME NEW side, NEW low, NEW high, low \subseteq high, Banded(low, side) # {}
      PROVE  {o \in high : o.side = side /\ InBand(memory', o.price)} # {}
  <2>1. PICK o \in low : o.side = side /\ InBand(memory, o.price)
    BY <1>4 DEF Banded
  <2>2. InBand(memory', o.price)
    BY <2>1, BandStays DEF InBand, IndexOf
  <2> QED BY <1>4, <2>1, <2>2
<1>5. Reading => Banded(seen, reader.side)' # {}
  <2> SUFFICES ASSUME Reading PROVE Banded(seen, reader.side)' # {}
    OBVIOUS
  <2>1. seen \subseteq seen' /\ Banded(seen, reader.side) # {}
    BY <1>3 DEF TouchInv
  <2>2. {o \in seen' : o.side = reader.side /\ InBand(memory', o.price)} # {}
    BY <1>4, <2>1
  <2> QED BY <1>1, <2>2 DEF Banded
<1> QED BY <1>1, <1>2, <1>3, <1>5 DEF TouchInv, Reading, Banded

\* has_bid() or has_ask(), with or without the second load.
LEMMA TouchAfterRead ==
  ASSUME WriterInv, NEW side \in Side, ReadTouch(side)
  PROVE  TouchInv'
<1>1. /\ UNCHANGED writerVars /\ steady' = Staying /\ seen' = Present
      /\ Staying' = Staying /\ Present' = Present /\ memory' = memory
  BY DEF ReadTouch, writerVars, Staying, Present, OrdersAfter
<1>2. PICK best : best = BestOf(memory, side)
  OBVIOUS
<1>3. /\ ~HasBest(memory, side) => Answers(<< >>, Staying, Present, side)
      /\ HasBest(memory, side) => Answers(<<best>>, Staying, Present, side)
      /\ HasBest(memory, side) => Banded(Present, side) # {}
  BY <1>2, LoadedTouch
<1>4. CASE ~HasBest(memory, side) /\ reader' = [at |-> "touch", side |-> side, got |-> << >>]
  <2>1. Answers(<< >>, Staying, Present, side)
    BY <1>3, <1>4
  <2> QED BY <1>1, <1>4, <2>1 DEF TouchInv, Reading, TouchIsRecent, Answers, Banded
<1>5. CASE HasBest(memory, side) /\ reader' = [at |-> "checked", side |-> side, got |-> << >>]
  <2>1. Banded(Present, side) # {}
    BY <1>3, <1>5
  <2> QED BY <1>1, <1>5, <2>1 DEF TouchInv, Reading, TouchIsRecent, Banded
<1>6. CASE HasBest(memory, side) /\ reader' = [at |-> "touch", side |-> side, got |-> <<best>>]
  <2>1. Answers(<<best>>, Staying, Present, side)
    BY <1>3, <1>6
  <2> QED BY <1>1, <1>6, <2>1 DEF TouchInv, Reading, TouchIsRecent, Answers, Banded
<1> QED BY <1>2, <1>4, <1>5, <1>6 DEF ReadTouch

\* The second load.
LEMMA TouchAfterLoad ==
  ASSUME WriterInv, TouchInv, LoadTouch
  PROVE  TouchInv'
<1>1. PICK side \in Side : side = reader.side
  BY DEF LoadTouch, TouchInv, Reading
<1>2. PICK best : best = BestOf(memory, side)
  OBVIOUS
<1>3. /\ UNCHANGED <<memory, steady, seen>>
      /\ reader' = [at |-> "touch", side |-> side, got |-> <<best>>]
  BY <1>1, <1>2 DEF LoadTouch, TouchInv, writerVars, historyVars
<1>4. Answers(<<best>>, steady, seen, side)
  BY <1>1, <1>2, LoadedTouch DEF LoadTouch, TouchInv, Reading
<1> QED BY <1>3, <1>4 DEF TouchInv, Reading, TouchIsRecent, Answers, Banded

LEMMA TouchStep ==
  ASSUME WriterInv, TouchInv, [ReaderNext]_readerVars
  PROVE  TouchInv'
<1>1. CASE WriterStep /\ ~Returning
  BY <1>1, TouchAfterWriter
<1>2. ASSUME NEW side \in Side, ReadTouch(side) PROVE TouchInv'
  BY <1>2, TouchAfterRead
<1>3. CASE LoadTouch
  BY <1>3, TouchAfterLoad
<1>4. ASSUME NEW side \in Side, NEW i \in Index, LoadLevel(side, i) PROVE TouchInv'
  <2>1. PICK got : got = <<i, Depth(memory, side)[i]>>
    OBVIOUS
  <2>2. reader' = [at |-> "level", side |-> side, got |-> got]
    BY <1>4, <2>1 DEF LoadLevel
  <2> QED BY <2>2 DEF TouchInv, Reading, TouchIsRecent
<1>5. CASE Return
  BY <1>5 DEF Return, Idle, TouchInv, Reading, TouchIsRecent
<1>6. CASE UNCHANGED readerVars
  <2>1. UNCHANGED <<memory, reader, steady, seen>> /\ Staying' = Staying /\ Present' = Present
    BY <1>6 DEF readerVars, writerVars, historyVars, Staying, Present, OrdersAfter
  <2> QED BY <2>1 DEF TouchInv, Reading, TouchIsRecent, Banded
<1> QED BY <1>1, <1>2, <1>3, <1>4, <1>5, <1>6 DEF ReaderNext, ReaderStep

\* A call that no message overlaps returns the best price; one that is overlapped
\* never returns less than an order that rested all through it, nor more than some
\* order it could have seen, and None only if nothing rested all through it.
THEOREM TouchIsRecentHolds == ReaderSpec => []TouchIsRecent
<1>1. ReaderInit => TouchInv
  BY DEF ReaderInit, Idle, TouchInv, Reading, TouchIsRecent
<1>2. WriterInv /\ TouchInv /\ [ReaderNext]_readerVars => TouchInv'
  BY TouchStep
<1>3. TouchInv => TouchIsRecent
  BY DEF TouchInv
<1> QED BY <1>1, <1>2, <1>3, WriterInvHolds, PTL DEF ReaderSpec

-----------------------------------------------------------------------------
(***************************************************************************)
(* What a load of a level returns.                                         *)
(***************************************************************************)
\* The records of a map at a level, and the shares of their ids.
LEMMA RestedShares ==
  ASSUME NEW map, NEW book, Whole(map, book, TheInstrument), memory.base = book.base,
         NEW side \in Side, NEW index \in Index
  PROVE  LET f == Shares(map, book, TheInstrument, side, index)
         IN  /\ IsFiniteSet(OrderId)
             /\ \A id \in OrderId : f[id] \in Nat
             /\ Depth(book, side)[index] = SumFunctionOnSet(f, OrderId)
             /\ \A o \in Banded(Rested(map), side) :
                  /\ o.id \in OrderId /\ map[o.id] # NoOrder
                  /\ o.qty = map[o.id].qty /\ o.qty \in Nat
                  /\ IndexOf(memory, o.price) = index => f[o.id] = o.qty
             /\ \A id \in OrderId : f[id] # 0 =>
                  \E o \in Banded(Rested(map), side) :
                    o.id = id /\ o.qty = f[id] /\ IndexOf(memory, o.price) = index
<1> DEFINE f == Shares(map, book, TheInstrument, side, index)
<1>1. /\ map \in OrderMap /\ DepthMatches(map, book, TheInstrument)
      /\ \A id \in OrderId : map[id] # NoOrder => map[id].instrument = TheInstrument
  BY DEF Whole
<1>2. IsFiniteSet(OrderId)
  BY OrderIdAssumption, FS_Interval DEF OrderId
<1>3. \A id \in OrderId : f[id] = Share(map[id], book, TheInstrument, side, index)
  BY DEF Shares
<1>4. \A id \in OrderId : f[id] \in Nat
  <2> HIDE DEF f
  <2> QED BY <1>1, <1>3, DepthIsNat
<1>5. Depth(book, side)[index] = SumFunctionOnSet(f, OrderId)
  <2>1. LevelOf(book, side, index) = DepthOf(map, book, TheInstrument, side, index)
    BY <1>1 DEF DepthMatches
  <2> QED BY <2>1 DEF LevelOf, Depth, DepthOf
<1> HIDE DEF f
<1>6. ASSUME NEW o \in Banded(Rested(map), side)
      PROVE  /\ o.id \in OrderId /\ map[o.id] # NoOrder
             /\ o.qty = map[o.id].qty /\ o.qty \in Nat
             /\ IndexOf(memory, o.price) = index => f[o.id] = o.qty
  <2>1. PICK id \in OrderId : map[id] # NoOrder /\
          o = [id |-> id, side |-> map[id].side, price |-> map[id].price, qty |-> map[id].qty]
    BY DEF Banded, Rested
  <2>2. o.id = id /\ o.side = side /\ map[id].side = side /\ o.qty = map[id].qty
        /\ map[id].price = o.price /\ map[id].instrument = TheInstrument
    BY <1>1, <2>1 DEF Banded
  <2>3. map[id].qty \in Nat
    BY <1>1, <2>1 DEF OrderMap, Location, WireQuantity
  <2>4. IndexOf(memory, o.price) = index => f[id] = map[id].qty
    BY <1>3, <2>1, <2>2, SameBand DEF Share
  <2> QED BY <2>1, <2>2, <2>3, <2>4
<1>7. ASSUME NEW id \in OrderId, f[id] # 0
      PROVE  \E o \in Banded(Rested(map), side) :
               o.id = id /\ o.qty = f[id] /\ IndexOf(memory, o.price) = index
  <2>1. /\ map[id] # NoOrder /\ map[id].side = side
        /\ IndexOf(book, map[id].price) = index /\ f[id] = map[id].qty
    BY <1>3, <1>7 DEF Share
  <2> DEFINE o == [id |-> id, side |-> map[id].side, price |-> map[id].price,
                   qty |-> map[id].qty]
  <2>2. /\ o \in Rested(map) /\ o.side = side /\ o.price = map[id].price
        /\ o.id = id /\ o.qty = f[id]
    BY <2>1 DEF Rested
  <2>3. IndexOf(memory, o.price) = index
    BY <2>1, <2>2, SameBand
  <2>4. InBand(memory, o.price)
    BY <2>3 DEF InBand
  <2> HIDE DEF o
  <2> QED BY <2>2, <2>3, <2>4 DEF Banded
<1> QED BY <1>2, <1>4, <1>5, <1>6, <1>7 DEF f

\* The orders of a set at a level.
AtLevel(set, side, index) == {o \in Banded(set, side) : IndexOf(memory, o.price) = index}

\* Orders that rest in a whole book, of different ids, account for no more than its
\* level holds.
LEMMA LeastOfLevel ==
  ASSUME NEW map, NEW book, Whole(map, book, TheInstrument), memory.base = book.base,
         NEW side \in Side, NEW index \in Index, NEW low, AllRest(low, map),
         \A o \in low : o.qty \in Nat, \A o, p \in low : o.id = p.id => o = p
  PROVE  /\ QtyOf(AtLevel(low, side, index)) \in Nat
         /\ QtyOf(AtLevel(low, side, index)) <= Depth(book, side)[index]
<1> DEFINE at == AtLevel(low, side, index)
           f == Shares(map, book, TheInstrument, side, index)
           qty == [o \in at |-> o.qty]
           idOf == [o \in at |-> o.id]
           ids == {idOf[o] : o \in at}
           least == [id \in ids |-> (CHOOSE o \in at : o.id = id).qty]
<1>1. /\ IsFiniteSet(OrderId) /\ \A id \in OrderId : f[id] \in Nat
      /\ Depth(book, side)[index] = SumFunctionOnSet(f, OrderId)
  BY RestedShares
<1>2. ASSUME NEW o \in at
      PROVE  /\ o.id \in OrderId /\ o.qty \in Nat /\ o.qty <= f[o.id]
             /\ idOf[o] = o.id /\ qty[o] = o.qty
  <2>1. o \in low /\ o.side = side /\ IndexOf(memory, o.price) = index
    BY DEF AtLevel, Banded
  <2>2. PICK id \in OrderId : id = o.id /\ map[id] # NoOrder /\ map[id].side = side
                             /\ map[id].price = o.price /\ o.qty <= map[id].qty
    BY <2>1 DEF AllRest, Rests
  <2>3. map[id].instrument = TheInstrument
    BY <2>2 DEF Whole
  <2>4. f[id] = map[id].qty
    BY <2>1, <2>2, <2>3, SameBand DEF Shares, Share
  <2> QED BY <2>1, <2>2, <2>4
<1>3. \A o, p \in at : o.id = p.id => o = p
  BY DEF AtLevel, Banded
<1>4. ids \subseteq OrderId /\ IsFiniteSet(ids)
  <2>1. ids \subseteq OrderId
    BY <1>2
  <2> QED BY <1>1, <2>1, FS_Subset
<1>5. \A o, p \in at : idOf[o] = idOf[p] => o = p
  BY <1>2, <1>3
<1>6. IsFiniteSet(at)
  <2>1. idOf \in Injection(at, OrderId)
    BY <1>2, <1>5 DEF Injection, IsInjective
  <2> HIDE DEF at, idOf
  <2> QED BY <1>1, <2>1, FS_Injection
<1>7. ASSUME NEW o \in at PROVE o.id \in ids /\ least[o.id] = o.qty
  <2>1. o.id \in ids
    BY <1>2
  <2>2. (CHOOSE p \in at : p.id = o.id) = o
    BY <1>3
  <2> QED BY <2>1, <2>2
<1>8. QtyOf(at) = SumFunctionOnSet(qty, at)
  BY DEF QtyOf, SumFunction
<1>9. SumFunctionOnSet(qty, at) = SumFunctionOnSet(least, ids)
  <2>1. \A o \in at : qty[o] \in Int /\ least[idOf[o]] = qty[o]
    BY <1>2, <1>7
  <2> HIDE DEF at, least, qty, idOf
  <2> QED BY <1>5, <1>6, <2>1, SumOfImages
<1>10. ASSUME NEW id \in ids
       PROVE  least[id] \in Nat /\ f[id] \in Nat /\ least[id] <= f[id]
  <2>1. PICK o \in at : id = o.id
    BY <1>2
  <2> HIDE DEF at, f, least, ids
  <2> QED BY <1>1, <1>2, <1>7, <2>1
<1> HIDE DEF at, f, qty, idOf, ids, least
<1>11. SumFunctionOnSet(least, ids) <= SumFunctionOnSet(f, ids)
  BY <1>4, <1>10, SumGrows
<1>12. SumFunctionOnSet(f, ids) <= SumFunctionOnSet(f, OrderId)
  BY <1>1, <1>4, SumOfPart
<1>13. /\ SumFunctionOnSet(least, ids) \in Nat /\ SumFunctionOnSet(f, ids) \in Nat
       /\ SumFunctionOnSet(f, OrderId) \in Nat
  BY <1>1, <1>4, <1>10, SumOfNaturals
<1> QED BY <1>1, <1>8, <1>9, <1>11, <1>12, <1>13 DEF at

\* What an order of two maps has at most.
MostOf(set, id) == Max({o.qty : o \in {o \in set : o.id = id}})

LEMMA MostIsMost ==
  ASSUME NEW a \in OrderMap, NEW b \in OrderMap, NEW set, set \subseteq Rested(a) \cup Rested(b),
         NEW id, id \in {o.id : o \in set}
  PROVE  MostOf(set, id) \in Nat /\ \A o \in set : o.id = id => o.qty <= MostOf(set, id)
<1> DEFINE quantities == {o.qty : o \in {o \in set : o.id = id}}
<1>1. ASSUME NEW o \in set, o.id = id
      PROVE  o.qty \in Nat /\ (o.qty = a[id].qty \/ o.qty = b[id].qty)
  <2>1. CASE o \in Rested(a)
    <3>1. PICK k \in OrderId : a[k] # NoOrder /\
            o = [id |-> k, side |-> a[k].side, price |-> a[k].price, qty |-> a[k].qty]
      BY <2>1 DEF Rested
    <3> QED BY <1>1, <3>1 DEF OrderMap, Location, WireQuantity
  <2>2. CASE o \in Rested(b)
    <3>1. PICK k \in OrderId : b[k] # NoOrder /\
            o = [id |-> k, side |-> b[k].side, price |-> b[k].price, qty |-> b[k].qty]
      BY <2>2 DEF Rested
    <3> QED BY <1>1, <3>1 DEF OrderMap, Location, WireQuantity
  <2> QED BY <2>1, <2>2
<1>2. /\ quantities # {} /\ \A q \in quantities : q \in Nat /\ (q = a[id].qty \/ q = b[id].qty)
      /\ \A o \in set : o.id = id => o.qty \in quantities
  BY <1>1
<1> HIDE DEF quantities
<1>3. \E x \in quantities : \A y \in quantities : x >= y
  <2>1. PICK q \in quantities : TRUE
    BY <1>2
  <2>2. CASE \A y \in quantities : q >= y
    BY <2>2
  <2>3. CASE \E y \in quantities : ~(q >= y)
    <3>1. PICK y \in quantities : ~(q >= y)
      BY <2>3
    <3> QED BY <1>2, <3>1
  <2> QED BY <2>2, <2>3
<1>4. Max(quantities) \in quantities /\ \A y \in quantities : Max(quantities) >= y
  BY <1>3 DEF Max
<1>5. MostOf(set, id) = Max(quantities)
  BY DEF MostOf, quantities
<1> QED BY <1>2, <1>4, <1>5

\* A level of a whole book holds no more than the most that orders account for, its
\* own among them.
LEMMA MostOfLevel ==
  ASSUME NEW map, NEW book, Whole(map, book, TheInstrument), memory.base = book.base,
         NEW side \in Side, NEW index \in Index,
         NEW a \in OrderMap, NEW b \in OrderMap,
         NEW high, Rested(map) \subseteq high, high \subseteq Rested(a) \cup Rested(b)
  PROVE  /\ MostQtyOf(AtLevel(high, side, index)) \in Nat
         /\ Depth(book, side)[index] <= MostQtyOf(AtLevel(high, side, index))
<1> DEFINE at == AtLevel(high, side, index)
           f == Shares(map, book, TheInstrument, side, index)
           ids == {o.id : o \in at}
           most == [id \in ids |-> MostOf(at, id)]
<1>1. /\ IsFiniteSet(OrderId) /\ \A id \in OrderId : f[id] \in Nat
      /\ Depth(book, side)[index] = SumFunctionOnSet(f, OrderId)
  BY RestedShares
<1>2. at \subseteq Rested(a) \cup Rested(b)
  BY DEF AtLevel, Banded
<1>3. ids \subseteq OrderId /\ IsFiniteSet(ids)
  <2>1. \A o \in at : o.id \in OrderId
    BY <1>2 DEF Rested
  <2>2. ids \subseteq OrderId
    BY <2>1
  <2> QED BY <1>1, <2>2, FS_Subset
<1>4. ASSUME NEW id \in ids
      PROVE  most[id] \in Nat /\ \A o \in at : o.id = id => o.qty <= most[id]
  <2>1. most[id] = MostOf(at, id)
    OBVIOUS
  <2>2. id \in {o.id : o \in at}
    OBVIOUS
  <2> HIDE DEF at, most, ids
  <2> QED BY <1>2, <2>1, <2>2, MostIsMost
<1>5. ASSUME NEW id \in OrderId, f[id] # 0
      PROVE  \E o \in at : o.id = id /\ o.qty = f[id]
  <2>1. PICK o \in Banded(Rested(map), side) :
          o.id = id /\ o.qty = f[id] /\ IndexOf(memory, o.price) = index
    <3> HIDE DEF at
    <3> QED BY <1>5, RestedShares
  <2>2. o \in at
    BY <2>1 DEF AtLevel, Banded
  <2> QED BY <2>1, <2>2
<1>6. \A id \in OrderId : f[id] # 0 => id \in ids
  BY <1>5
<1> HIDE DEF at, f, most
<1>7. \A id \in ids : f[id] \in Int /\ most[id] \in Int /\ f[id] <= most[id]
  <2> SUFFICES ASSUME NEW id \in ids
               PROVE  f[id] \in Int /\ most[id] \in Int /\ f[id] <= most[id]
    OBVIOUS
  <2>1. f[id] \in Nat /\ most[id] \in Nat
    BY <1>1, <1>3, <1>4
  <2>2. CASE f[id] = 0
    BY <2>1, <2>2
  <2>3. CASE f[id] # 0
    <3>1. PICK o \in at : o.id = id /\ o.qty = f[id]
      BY <1>3, <1>5, <2>3
    <3>2. o.qty <= most[id]
      BY <1>4, <3>1
    <3> QED BY <2>1, <3>1, <3>2
  <2> QED BY <2>2, <2>3
<1>8. MostQtyOf(at) = SumFunctionOnSet(most, ids)
  BY DEF MostQtyOf, SumFunction, MostOf, most
<1> HIDE DEF ids
<1>9. SumFunctionOnSet(f, OrderId) = SumFunctionOnSet(f, ids)
  <2>1. \A id \in OrderId : f[id] \in Int
    BY <1>1
  <2> QED BY <1>1, <1>3, <1>6, <2>1, SumOfSupport
<1>10. SumFunctionOnSet(f, ids) <= SumFunctionOnSet(most, ids)
  BY <1>3, <1>7, SumGrows
<1>11. SumFunctionOnSet(most, ids) \in Nat
  BY <1>3, <1>4, SumOfNaturals
<1> QED BY <1>1, <1>8, <1>9, <1>10, <1>11 DEF at

\* The orders present are those of two maps, which may be the same.
LEMMA PresentIsTwo ==
  ASSUME WriterInv
  PROVE  \E a, b \in OrderMap : /\ Present = Rested(a) \cup Rested(b)
                                 /\ AllRest(Staying, a) /\ AllRest(Staying, b)
<1>1. orders \in OrderMap /\ AllRest(Staying, orders)
  <2>1. \A o \in Staying : o.id \in OrderId
    BY DEF Staying, Present, Rested
  <2> QED BY <2>1 DEF WriterInv, Whole, AllRest, Staying
<1>2. CASE worker # "applying"
  <2>1. Present = Rested(orders) \cup Rested(orders)
    BY <1>2 DEF Present
  <2> QED BY <1>1, <2>1
<1>3. CASE worker = "applying"
  <2>1. After.orders \in OrderMap /\ OrdersAfter(message) = After.orders
    BY <1>3, ReceivedViews DEF Whole
  <2>2. Present = Rested(orders) \cup Rested(After.orders)
    BY <1>3, <2>1 DEF Present
  <2>3. AllRest(Staying, After.orders)
    BY <1>1, <1>3, <2>1 DEF AllRest, Staying
  <2> QED BY <1>1, <2>1, <2>2, <2>3
<1> QED BY <1>2, <1>3

\* The staying orders have different ids.
LEMMA StayingIsOneEach ==
  ASSUME WriterInv
  PROVE  /\ \A o \in Staying : o.qty \in Nat
         /\ \A o, p \in Staying : o.id = p.id => o = p
<1>1. PICK a \in OrderMap, b \in OrderMap : /\ Present = Rested(a) \cup Rested(b)
                                            /\ AllRest(Staying, a) /\ AllRest(Staying, b)
  BY PresentIsTwo
<1>2. ASSUME NEW map \in OrderMap, NEW o \in Rested(map)
      PROVE  /\ o.id \in OrderId /\ map[o.id] # NoOrder /\ o.qty \in Nat
             /\ o = [id |-> o.id, side |-> map[o.id].side, price |-> map[o.id].price,
                     qty |-> map[o.id].qty]
  BY DEF Rested, OrderMap, Location, WireQuantity
<1>3. ASSUME NEW o \in Staying, NEW p \in Staying, o.id = p.id,
             NEW map \in OrderMap, o \in Rested(map), AllRest(Staying, map)
      PROVE  /\ p.qty <= o.qty /\ p.side = o.side /\ p.price = o.price
             /\ o = [id |-> o.id, side |-> o.side, price |-> o.price, qty |-> o.qty]
  BY <1>2, <1>3 DEF AllRest, Rests
<1>4. \A o \in Staying : \E map \in {a, b} : o \in Rested(map)
  BY <1>1 DEF Staying
<1>5. \A o \in Staying : o.qty \in Nat
  BY <1>2, <1>4
<1>6. ASSUME NEW o \in Staying, NEW p \in Staying, o.id = p.id PROVE o = p
  <2>1. /\ p.qty <= o.qty /\ p.side = o.side /\ p.price = o.price
        /\ o = [id |-> o.id, side |-> o.side, price |-> o.price, qty |-> o.qty]
    BY <1>1, <1>3, <1>4, <1>6
  <2>2. /\ o.qty <= p.qty
        /\ p = [id |-> p.id, side |-> p.side, price |-> p.price, qty |-> p.qty]
    BY <1>1, <1>3, <1>4, <1>6
  <2>3. o.qty = p.qty
    BY <1>5, <2>1, <2>2
  <2> QED BY <1>6, <2>1, <2>2, <2>3
<1> QED BY <1>5, <1>6

\* A level as it is loaded holds no less than the staying orders and no more than
\* those present.
LEMMA LoadedLevel ==
  ASSUME WriterInv, NEW side \in Side, NEW index \in Index
  PROVE  Depth(memory, side)[index]
           \in QtyOf(AtLevel(Staying, side, index)) .. MostQtyOf(AtLevel(Present, side, index))
<1>1. PICK a, x, b, y :
        /\ Whole(a, x, TheInstrument) /\ Whole(b, y, TheInstrument)
        /\ Between(memory, x, y) /\ AllRest(Staying, a) /\ AllRest(Staying, b)
        /\ Rested(a) \cup Rested(b) \subseteq Present
        /\ memory.base = before.base
  BY MemoryIsBetween
<1>2. PICK p \in OrderMap, q \in OrderMap : Present = Rested(p) \cup Rested(q)
  BY PresentIsTwo
<1>3. memory.base = x.base /\ memory.base = y.base
  BY <1>1 DEF Between
<1>4. ASSUME NEW map, NEW book, Whole(map, book, TheInstrument), memory.base = book.base,
             AllRest(Staying, map), Rested(map) \subseteq Present
      PROVE  Depth(book, side)[index]
               \in QtyOf(AtLevel(Staying, side, index))
                     .. MostQtyOf(AtLevel(Present, side, index))
  <2>1. PICK least \in Nat : /\ least = QtyOf(AtLevel(Staying, side, index))
                             /\ least <= Depth(book, side)[index]
    BY <1>4, StayingIsOneEach, LeastOfLevel
  <2>2. PICK most \in Nat : /\ most = MostQtyOf(AtLevel(Present, side, index))
                            /\ Depth(book, side)[index] <= most
    BY <1>2, <1>4, MostOfLevel
  <2>3. PICK depth \in Nat : depth = Depth(book, side)[index]
    <3>1. Depth(book, side) \in [Index -> Nat]
      BY <1>4, BookFields DEF Whole, GoodBook
    <3> QED BY <3>1
  <2> QED BY <2>1, <2>2, <2>3
<1>5. Depth(memory, side)[index] \in {Depth(x, side)[index], Depth(y, side)[index]}
  BY <1>1 DEF Between
<1> QED BY <1>1, <1>3, <1>4, <1>5

\* No load of a level is garbage: it returns no less than what rests there before
\* and after the message being applied, and no more than what does before or after.
THEOREM DepthIsRecentHolds == ReaderSpec => []DepthIsRecent
<1>1. ReaderInit => DepthIsRecent
  BY DEF ReaderInit, Idle, DepthIsRecent
<1>2. ASSUME WriterInv, DepthIsRecent, [ReaderNext]_readerVars
      PROVE  DepthIsRecent'
  <2>1. ASSUME NEW side \in Side, NEW i \in Index, LoadLevel(side, i)
        PROVE  DepthIsRecent'
    <3>1. PICK q : q = Depth(memory, side)[i]
      OBVIOUS
    <3>2. PICK got : got = <<i, q>>
      OBVIOUS
    <3>3. got[1] = i /\ got[2] = q
      BY <3>2
    <3>4. q \in QtyOf(AtLevel(Staying, side, i)) .. MostQtyOf(AtLevel(Present, side, i))
      BY <1>2, <3>1, LoadedLevel
    <3>5. /\ reader' = [at |-> "level", side |-> side, got |-> got]
          /\ steady' = Staying /\ seen' = Present /\ memory' = memory
      BY <2>1, <3>1, <3>2 DEF LoadLevel, writerVars
    <3>6. /\ AtLevel(steady, reader.side, reader.got[1])' = AtLevel(Staying, side, i)
          /\ AtLevel(seen, reader.side, reader.got[1])' = AtLevel(Present, side, i)
          /\ reader'.got[2] = q
      BY <3>3, <3>5 DEF AtLevel, Banded
    <3> QED BY <3>4, <3>6 DEF DepthIsRecent, AtLevel
  <2>2. CASE UNCHANGED readerVars
    BY <1>2, <2>2 DEF readerVars, writerVars, historyVars, DepthIsRecent, Banded
  <2>3. ASSUME reader'.at # "level" PROVE DepthIsRecent'
    BY <2>3 DEF DepthIsRecent
  <2>4. CASE WriterStep /\ ~Returning
    <3>1. reader' = reader
      BY <2>4 DEF WriterStep, Arrive, Lose, BeginApply, Store, EndApply
    <3> QED BY <2>3, <2>4, <3>1 DEF Returning
  <2>5. ASSUME NEW side \in Side, ReadTouch(side) PROVE reader'.at # "level"
    BY <2>5 DEF ReadTouch
  <2>6. CASE Return
    BY <2>3, <2>6 DEF Return, Idle
  <2>7. CASE LoadTouch
    BY <2>3, <2>7 DEF LoadTouch
  <2> QED BY <1>2, <2>1, <2>2, <2>3, <2>4, <2>5, <2>6, <2>7 DEF ReaderNext, ReaderStep
<1> QED BY <1>1, <1>2, WriterInvHolds, PTL DEF ReaderSpec
=============================================================================
