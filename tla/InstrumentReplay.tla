-------------------------- MODULE InstrumentReplay --------------------------
(***************************************************************************)
(* What the sharded normalizer promises: every instrument looks as if it   *)
(* had a thread, an order map and a book of its own, and its messages were *)
(* applied one after the other in the order they were accepted.  There are *)
(* no shards, no shared order maps and no queues shared by instruments.    *)
(***************************************************************************)
EXTENDS Protocol, Sequences

CONSTANT ReferencePrice   \* the price each instrument's book is centred on

VARIABLES backlog,   \* per instrument: messages accepted and not yet applied
          view       \* per instrument: its own orders and its book

replayVars == <<backlog, view>>

ReplayInit ==
  /\ backlog = [i \in Instrument |-> << >>]
  /\ view = [i \in Instrument |->
              [orders |-> NoOrders, book |-> BookInit(ReferencePrice[i])]]

Accept(i, m) ==
  /\ m.instrument = i
  /\ backlog' = [backlog EXCEPT ![i] = Append(@, m)]
  /\ UNCHANGED view

Work(i) ==
  /\ backlog[i] # << >>
  /\ view' = [view EXCEPT ![i] = Apply(@, Head(backlog[i]))]
  /\ backlog' = [backlog EXCEPT ![i] = Tail(@)]

\* The message accepted is the last one of the new backlog, so that no set of
\* all messages has to be enumerated to recognise the step.
ReplayNext ==
  \E i \in Instrument :
    Work(i) \/ /\ backlog'[i] # << >>
               /\ Accept(i, backlog'[i][Len(backlog'[i])])

ReplaySpec == ReplayInit /\ [][ReplayNext]_replayVars
=============================================================================
