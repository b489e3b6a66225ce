------------------------------ MODULE LiveFeed ------------------------------
(***************************************************************************)
(* LiveFeed (include/live_feed.hpp): start() spawns a publisher thread     *)
(* that packs the simulated messages into datagrams and a receiver thread  *)
(* that unpacks and dispatches them; wait() joins both, drains the         *)
(* normalizer and publishes the statistics; the destructor does what is    *)
(* left of that.  In between the owner may poll received_so_far, as the    *)
(* README's Python example does, in the thread that calls wait() later.    *)
(***************************************************************************)
EXTENDS Normalizer, MarketSimulator, Udp

CONSTANTS Capacity,     \* expected_msgs_
          MaxPayload,   \* kMaxPayloadBytes
          MaxStarts     \* calls of start(); bounds the run

\* A datagram has room for its header and the longest message.
ASSUME LiveAssumption ==
  MaxPayload \in Nat /\ MaxPayload >= 41 /\ Capacity \in Nat /\ MaxStarts \in Nat

VARIABLES user,           \* where the owner's thread is: in wait(), ~LiveFeed(), polling
          destroying,     \* whether that is inside the destructor
          starts,         \* how many times start() was called
          toSend,         \* num_messages_
          target,         \* how many messages the owner polls for
          running,        \* running_
          drained,        \* drained_
          stats,          \* stats_.sent and stats_.received, as wait() left them
          publisher,      \* where the publisher thread is in publish_loop()
          message,        \* its m: the message generated last
          packet,         \* its packet: the messages since the last flush
          publisherDone,  \* publisher_done_
          sent,           \* sent_
          receiver,       \* where the receiver thread is in receive_loop()
          unread,         \* what is left to unpack of its datagram
          received,       \* received_
          snapshot,       \* received_snapshot_
          latencyRoom     \* capacity of latency_ns_

userVars == <<user, destroying, starts, toSend, target, running, drained, stats>>
publisherVars == <<publisher, message, packet, publisherDone, sent>>
receiverVars == <<receiver, unread, received, snapshot, latencyRoom>>
threadVars == <<publisherVars, socketVars, receiverVars>>
liveVars == <<vars, simVars, userVars, threadVars>>

NoStats == [sent |-> 0, received |-> 0]

LiveInit ==
  /\ Init /\ SimInit /\ refPrice = ReferencePrice
  /\ user = "constructing" /\ destroying = FALSE /\ starts = 0
  /\ toSend = 0 /\ target = 0
  /\ running = FALSE /\ drained = FALSE /\ stats = NoStats
  /\ publisher = "none" /\ message = NoMessage /\ packet = << >>
  /\ publisherDone = FALSE /\ sent = 0
  /\ SocketInit
  /\ receiver = "none" /\ unread = << >> /\ received = 0 /\ snapshot = 0
  /\ latencyRoom = 0

\* The constructor joins the multicast group, starts the shard workers and
\* reserves the latency samples.
Construct ==
  /\ user = "constructing"
  /\ Start
  /\ user' = "idle"
  /\ latencyRoom' = Capacity
  /\ UNCHANGED <<simVars, destroying, starts, toSend, target, running, drained, stats,
                 publisherVars, socketVars, receiver, unread, received, snapshot>>

\* The receiving socket cannot be opened or bound: the constructor throws before
\* it has started a thread, and there is no object.  (That the samples cannot be
\* reserved, after the workers have started, is not modelled.)
ConstructFails ==
  /\ user = "constructing"
  /\ user' = "destroyed"
  /\ UNCHANGED <<vars, simVars, destroying, starts, toSend, target, running, drained,
                 stats, threadVars>>

(***************************************************************************)
(* publish_loop(), with a simulator of its own                             *)
(***************************************************************************)
HeaderBytes == 2   \* sizeof(PacketHeader)

\* msg_size() of the packed structs
MsgSize(m) ==
  CASE m.type = "Add" -> 32
    [] m.type \in {"Execute", "Cancel"} -> 23
    [] m.type = "Delete" -> 19
    [] m.type = "Replace" -> 39

PacketBytes ==
  HeaderBytes + SumFunction([k \in DOMAIN packet |-> MsgSize(packet[k])])

\* Variant: the size check forgets the message that is about to be added.
PublishChecksPacketOnly ==
  /\ publisher = "publishing" /\ generated < toSend
  /\ \E i \in Instrument, drift \in Drift : NextMessage(i, drift, message')
  /\ sent' = sent + 1
  /\ IF PacketBytes > MaxPayload /\ packet # << >>
     THEN Send(packet) /\ packet' = <<message'>>
     ELSE packet' = Append(packet, message') /\ UNCHANGED socketVars
  /\ UNCHANGED <<vars, userVars, publisher, publisherDone, receiverVars>>

\* One turn of the loop: a message that no longer fits goes into the next
\* datagram.
PublishMessage ==
  /\ publisher = "publishing" /\ generated < toSend
  /\ \E i \in Instrument, drift \in Drift : NextMessage(i, drift, message')
  /\ sent' = sent + 1
  /\ IF PacketBytes + MsgSize(message') > MaxPayload /\ packet # << >>
     THEN Send(packet) /\ packet' = <<message'>>
     ELSE packet' = Append(packet, message') /\ UNCHANGED socketVars
  /\ UNCHANGED <<vars, userVars, publisher, publisherDone, receiverVars>>

\* Variant: what is left in the packet at the end is not sent.
PublishEndWithoutFlush ==
  /\ publisher = "publishing" /\ generated = toSend
  /\ packet' = << >>
  /\ publisher' = "flushed"
  /\ UNCHANGED <<vars, simVars, userVars, message, publisherDone, sent,
                 socketVars, receiverVars>>

\* flush() after the loop sends nothing if there is nothing.
PublishEnd ==
  /\ publisher = "publishing" /\ generated = toSend
  /\ IF packet = << >> THEN UNCHANGED socketVars ELSE Send(packet)
  /\ packet' = << >>
  /\ publisher' = "flushed"
  /\ UNCHANGED <<vars, simVars, userVars, message, publisherDone, sent,
                 receiverVars>>

PublisherExit ==
  /\ publisher = "flushed"
  /\ publisherDone' = TRUE
  /\ publisher' = "exited"
  /\ UNCHANGED <<vars, simVars, userVars, message, packet, sent, socketVars,
                 receiverVars>>

(***************************************************************************)
(* receive_loop()                                                          *)
(***************************************************************************)
Receive ==
  /\ receiver = "receiving"
  /\ Recv(unread')
  /\ receiver' = "unpacking"
  /\ UNCHANGED <<vars, simVars, userVars, publisherVars, received, snapshot, latencyRoom>>

\* recv() gives up on an empty socket; publisher_done_ is looked at afterwards.
ReceiveTimesOut ==
  /\ receiver = "receiving" /\ RecvTimesOut
  /\ receiver' = "timedOut"
  /\ UNCHANGED <<vars, simVars, userVars, publisherVars, socketVars, unread, received,
                 snapshot, latencyRoom>>

\* Variant: the receiver stops only once it has received something.
ReceiverWaitsForTraffic ==
  /\ receiver = "timedOut"
  /\ receiver' = IF publisherDone /\ received > 0 THEN "exited" ELSE "receiving"
  /\ UNCHANGED <<vars, simVars, userVars, publisherVars, socketVars, unread, received,
                 snapshot, latencyRoom>>

ReceiverChecksDone ==
  /\ receiver = "timedOut"
  /\ receiver' = IF publisherDone THEN "exited" ELSE "receiving"
  /\ UNCHANGED <<vars, simVars, userVars, publisherVars, socketVars, unread, received,
                 snapshot, latencyRoom>>

\* latency_ns_ has a sample of every message received and of the one in hand.
Samples == received + IF pending = NoMessage THEN 0 ELSE 1

\* The next message of the datagram: push_back() of its latency moves the samples
\* to a larger buffer if they fill the one they have.
Unpack ==
  /\ receiver = "unpacking" /\ unread # << >> /\ pending = NoMessage
  /\ pending' = Head(unread)
  /\ unread' = Tail(unread)
  /\ latencyRoom' = IF Samples = latencyRoom THEN 2 * latencyRoom + 1 ELSE latencyRoom
  /\ UNCHANGED <<shardVars, workerVars, ownerVars, dispatchVars, simVars, userVars,
                 publisherVars, socketVars, receiver, received, snapshot>>

\* The message is dispatched and counted; the count does not depend on what
\* dispatch() returns.
Dispatch ==
  /\ DispatchAccepted \/ (DispatchRefused /\ pending' = NoMessage)
  /\ received' = received + 1
  /\ UNCHANGED <<simVars, userVars, publisherVars, socketVars, receiver, unread,
                 snapshot, latencyRoom>>

\* Variant: the snapshot of the last datagrams is not taken.
EndDatagramWhileRunning ==
  /\ receiver = "unpacking" /\ unread = << >> /\ pending = NoMessage
  /\ snapshot' = IF publisherDone THEN snapshot ELSE received
  /\ receiver' = "receiving"
  /\ UNCHANGED <<vars, simVars, userVars, publisherVars, socketVars, unread, received,
                 latencyRoom>>

EndDatagram ==
  /\ receiver = "unpacking" /\ unread = << >> /\ pending = NoMessage
  /\ snapshot' = received
  /\ receiver' = "receiving"
  /\ UNCHANGED <<vars, simVars, userVars, publisherVars, socketVars, unread, received,
                 latencyRoom>>

(***************************************************************************)
(* The owner's thread                                                      *)
(***************************************************************************)
\* Variant: any number of messages is taken on.
StartFeedUnchecked ==
  /\ user = "idle" /\ ~running /\ starts < MaxStarts
  /\ toSend' \in 0 .. MaxMessages
  /\ starts' = starts + 1
  /\ running' = TRUE
  /\ publisher' = "publishing" /\ message' = NoMessage /\ packet' = << >>
  /\ receiver' = "receiving" /\ unread' = << >>
  /\ refPrice' = ReferencePrice
  /\ liveOrders' = [i \in Instrument |-> {}]
  /\ nextOrderId' = 1 /\ generated' = 0
  /\ UNCHANGED <<vars, user, destroying, target, drained, stats, publisherDone, sent,
                 socketVars, received, snapshot, latencyRoom>>

\* start(): a call while running, or for more messages than the feed was sized
\* for, throws and changes nothing.  The threads are new, and so is the
\* publisher's simulator; publisher_done_, the counters and drained_ are as the
\* last run left them.
StartFeed ==
  /\ user = "idle" /\ ~running /\ starts < MaxStarts
  /\ toSend' \in {n \in 0 .. MaxMessages : n <= Capacity}
  /\ starts' = starts + 1
  /\ running' = TRUE
  /\ publisher' = "publishing" /\ message' = NoMessage /\ packet' = << >>
  /\ receiver' = "receiving" /\ unread' = << >>
  /\ refPrice' = ReferencePrice
  /\ liveOrders' = [i \in Instrument |-> {}]
  /\ nextOrderId' = 1 /\ generated' = 0
  /\ UNCHANGED <<vars, user, destroying, target, drained, stats, publisherDone, sent,
                 socketVars, received, snapshot, latencyRoom>>

\* while feed.running and feed.received_so_far < target: pass
Poll ==
  /\ user = "idle" /\ running
  /\ user' = "polling"
  /\ target' \in 1 .. toSend
  /\ UNCHANGED <<vars, simVars, destroying, starts, toSend, running, drained, stats,
                 threadVars>>

PollEnds ==
  /\ user = "polling"
  /\ ~running \/ snapshot >= target
  /\ user' = "idle" /\ target' = 0
  /\ UNCHANGED <<vars, simVars, destroying, starts, toSend, running, drained, stats,
                 threadVars>>

Wait ==
  /\ user = "idle" /\ running
  /\ user' = "joinPublisher"
  /\ UNCHANGED <<vars, simVars, destroying, starts, toSend, target, running, drained,
                 stats, threadVars>>

\* Variant: a feed that was never started is destroyed without draining.
DestroyUndrained ==
  /\ user = "idle"
  /\ destroying' = TRUE
  /\ user' = IF running THEN "joinPublisher" ELSE "destroyed"
  /\ UNCHANGED <<vars, simVars, starts, toSend, target, running, drained, stats,
                 threadVars>>

\* ~LiveFeed()
Destroy ==
  /\ user = "idle"
  /\ destroying' = TRUE
  /\ user' = IF running THEN "joinPublisher"
             ELSE IF drained THEN "destroyed" ELSE "drain"
  /\ UNCHANGED <<vars, simVars, starts, toSend, target, running, drained, stats,
                 threadVars>>

JoinPublisher ==
  /\ user = "joinPublisher" /\ publisher = "exited"
  /\ user' = "joinReceiver"
  /\ UNCHANGED <<vars, simVars, destroying, starts, toSend, target, running, drained,
                 stats, threadVars>>

JoinReceiver ==
  /\ user = "joinReceiver" /\ receiver = "exited"
  /\ user' = "drain"
  /\ UNCHANGED <<vars, simVars, destroying, starts, toSend, target, running, drained,
                 stats, threadVars>>

Drain ==
  /\ user = "drain" /\ ~drained
  /\ DrainBegin \/ DrainStep
  /\ UNCHANGED <<simVars, userVars, threadVars>>

\* Variant: wait() returns without draining the normalizer.
WaitReturnsUndrained ==
  /\ user = "drain"
  /\ drained' = TRUE
  /\ running' = FALSE
  /\ stats' = IF running THEN [sent |-> sent, received |-> received] ELSE stats
  /\ user' = IF destroying THEN "destroyed" ELSE "idle"
  /\ UNCHANGED <<vars, simVars, destroying, starts, toSend, target, threadVars>>

\* The rest of wait(), or of the destructor of a feed that was never started.
WaitReturns ==
  /\ user = "drain" /\ (drained \/ mpc = "stopped")
  /\ drained' = TRUE
  /\ running' = FALSE
  /\ stats' = IF running THEN [sent |-> sent, received |-> received] ELSE stats
  /\ user' = IF destroying THEN "destroyed" ELSE "idle"
  /\ UNCHANGED <<vars, simVars, destroying, starts, toSend, target, threadVars>>

Worker(s) == WorkerStep(s) /\ UNCHANGED <<simVars, userVars, threadVars>>
Publisher == PublishMessage \/ PublishEnd \/ PublisherExit
Receiver ==
  \/ Receive \/ Unpack \/ Dispatch \/ EndDatagram
  \/ ReceiveTimesOut \/ ReceiverChecksDone
InsideCall == JoinPublisher \/ JoinReceiver \/ Drain \/ WaitReturns \/ PollEnds
Owner ==
  \/ Construct \/ ConstructFails \/ StartFeed \/ Poll \/ Wait \/ Destroy \/ InsideCall

LiveNext == Publisher \/ Receiver \/ Owner \/ \E s \in Shard : Worker(s)

\* Every thread keeps running.  Nobody has to call start(), poll or call wait(),
\* but a call or a loop, once begun, goes on.
LiveSpec ==
  /\ LiveInit /\ [][LiveNext]_liveVars
  /\ WF_liveVars(Publisher) /\ WF_liveVars(Receiver) /\ WF_liveVars(InsideCall)
  /\ \A s \in Shard : WF_liveVars(Worker(s))

-----------------------------------------------------------------------------
\* A run has ended: running reads FALSE after a start().
Returned == ~running /\ starts > 0

\* The types; a packet is one that fits its buffer and, sent, stays below the MTU
\* (live_feed.hpp:148), whichever mix of messages is in it.
LiveTypeOK ==
  /\ TypeOK
  /\ user \in {"constructing", "idle", "polling", "joinPublisher", "joinReceiver",
              "drain", "destroyed"}
  /\ destroying \in BOOLEAN /\ running \in BOOLEAN /\ drained \in BOOLEAN
  /\ publisherDone \in BOOLEAN
  /\ starts \in 0 .. MaxStarts
  /\ toSend \in Nat /\ target \in Nat
  /\ stats \in [sent : Nat, received : Nat]
  /\ publisher \in {"none", "publishing", "flushed", "exited"}
  /\ receiver \in {"none", "receiving", "unpacking", "timedOut", "exited"}
  /\ message \in Message \cup {NoMessage}
  /\ packet \in Seq(Message) /\ PacketBytes <= MaxPayload
  /\ unread \in Seq(Message)
  /\ socket \in Seq(Seq(Message))
  /\ sent \in Nat /\ lost \in Nat /\ received \in Nat /\ snapshot \in Nat
  /\ latencyRoom \in Nat

\* Every message published is in exactly one place: the publisher's packet, the
\* socket's buffer, lost on the way, in the receiver's hands, or counted as
\* received; and every one counted was accepted by a shard or refused by a full
\* one.
NothingUnaccounted ==
  /\ sent = Len(packet) + MessagesIn(socket) + lost + Len(unread) + Samples
  /\ received = SumFunction([s \in Shard |-> accepted[s] + droppedFull[s]])

\* What a run reports is final: the statistics and received_so_far agree with what
\* was dispatched, and what they do not count was lost or left in the socket.
StatsAddUp ==
  Returned =>
    /\ stats = [sent |-> sent, received |-> received]
    /\ snapshot = stats.received
    /\ stats.sent = stats.received + lost + MessagesIn(socket)

\* In the first run the receiver stays within the samples the constructor
\* reserved, whatever is lost, refused or left in the socket, so that an array
\* that Python holds on them stays valid: the check of start()
\* (live_feed.hpp:94) bounds what one run can append.
LatencyStaysInFirstRun ==
  [][user # "constructing" /\ starts' <= 1 => latencyRoom' = latencyRoom]_liveVars

\* "so the receive path never reallocates mid-run" (mdfeed_ext.cpp:93), in any
\* run.  A second run appends to the samples of the first (live_feed.hpp:190),
\* and start() compares with its own messages only.
LatencyNeverMoves ==
  [][user # "constructing" => latencyRoom' = latencyRoom]_liveVars

\* "every shard queue drains. After this returns the books are quiescent and
\* reads are exact" (mdfeed_ext.cpp:101, live_feed.hpp:104): no message is
\* queued or being applied, and every book is the replay of what was accepted.
WaitQuiesces ==
  Returned =>
    /\ \A s \in Shard : queue[s] = << >> /\ item[s] = NoMessage
    /\ \A i \in Instrument : books[ShardOf(i)][i] = reference.books[i]

\* Neither the destructor nor a constructor that throws for its socket leaves a
\* thread behind: destroying a joinable std::thread would terminate the program
\* (live_feed.hpp:73).  A constructor that throws for the memory of the samples,
\* with the workers started, is not modelled.
DestroyedIsJoined ==
  user = "destroyed" =>
    /\ \A s \in Shard : worker[s] \in {"unstarted", "exited"}
    /\ publisher \in {"none", "exited"} /\ receiver \in {"none", "exited"}

\* wait() and the destructor return, whether the feed was started or not: the
\* publisher ends, the receiver notices, and the drain loop and the joins end.
WaitTerminates ==
  user \in {"joinPublisher", "joinReceiver", "drain"} ~> user \in {"idle", "destroyed"}

\* "while feed.running and feed.received_so_far < 1_000_000: pass" and then
\* "feed.wait()" (README.md:384): the loop ends, because the messages arrive or
\* because the feed has stopped running.  That UDP may lose a datagram is not
\* held against it; without a loss everything sent should be received, as the
\* receiver exits on "a quiet socket" only (live_feed.hpp:104).
PollTerminates == user = "polling" ~> user # "polling" \/ lost > 0
=============================================================================
