--------------------------- MODULE LiveFeedProofs ---------------------------
(***************************************************************************)
(* Theorems about LiveFeed, for any number of shards and messages, any     *)
(* socket and any queues.  Whatever the owner does, in whatever order and  *)
(* however often: a feed that is gone has left no thread behind, packets   *)
(* fit their buffer, every message is in one place and the statistics add  *)
(* up.  And if it starts the feed once, which is what the feed is made     *)
(* for: wait() leaves books that are the replay of what was accepted, and  *)
(* the latency samples stay where they are.                                *)
(***************************************************************************)
EXTENDS LiveFeed, NormalizerProofs

AtRest == publisher \in {"none", "exited"} /\ receiver \in {"none", "exited"}

\* What start(), drain_and_stop() and the workers know of each other.
WorkersInv ==
  /\ worker \in [Shard -> {"unstarted", "polling", "applying", "checking", "exited"}]
  /\ drainAt \in 0 .. NumShards
  /\ mpc = "constructed" => \A s \in Shard : worker[s] = "unstarted"
  /\ mpc = "joining" => \A s \in Shard : s < drainAt => worker[s] = "exited"
  /\ mpc = "stopped" => \A s \in Shard : worker[s] = "exited"

\* What the owner's calls know of the threads.  The two flags carry the knowledge
\* from one call to the next: a feed that is not running has no thread of its own
\* at work, and a drained one no worker.
OwnerInv ==
  /\ user = "constructing" => mpc = "constructed" /\ AtRest
  /\ ~running => AtRest
  /\ drained => mpc = "stopped"
  /\ user = "joinReceiver" => publisher = "exited"
  /\ user = "drain" => AtRest
  /\ user = "destroyed" => AtRest /\ mpc \in {"constructed", "stopped"}

ThreadsInv == WorkersInv /\ OwnerInv

ThreadsUnchanged == UNCHANGED <<worker, mpc, drainAt>>

\* Before the constructor there is no thread.
LEMMA ThreadsInit == LiveInit => ThreadsInv
<1> SUFFICES ASSUME LiveInit PROVE ThreadsInv
  OBVIOUS
<1>1. WorkersInv
  BY ShardsAssumption DEF LiveInit, Init, WorkersInv
<1>2. OwnerInv
  BY DEF LiveInit, Init, OwnerInv, AtRest
<1> QED BY <1>1, <1>2 DEF ThreadsInv

\* A worker that has not begun or has exited stays so.
LEMMA WorkerKeeps ==
  ASSUME ThreadsInv, NEW s \in Shard, Worker(s)
  PROVE  ThreadsInv'
<1>1. /\ worker[s] \in {"polling", "applying", "checking"}
      /\ \E w \in {"polling", "applying", "checking", "exited"} :
           worker' = [worker EXCEPT ![s] = w]
      /\ UNCHANGED <<mpc, drainAt>>
  BY DEF Worker, WorkerStep, WorkerPop, WorkerApply, WorkerFindsEmpty,
     WorkerChecksStop, ownerVars
<1>2. \A t \in Shard : worker[t] \in {"unstarted", "exited"} => worker'[t] = worker[t]
  BY <1>1 DEF ThreadsInv, WorkersInv
<1>3. WorkersInv'
  BY <1>1, <1>2 DEF ThreadsInv, WorkersInv
<1>4. UNCHANGED <<user, running, drained, publisher, receiver>>
  BY DEF Worker, userVars, threadVars, publisherVars, receiverVars
<1> QED BY <1>1, <1>3, <1>4 DEF ThreadsInv, OwnerInv, AtRest

\* The two threads of a run: while one is at work the owner is in none of the
\* states that count on it having ended.
LEMMA FeedThreadsKeep ==
  ASSUME ThreadsInv, Publisher \/ Receiver
  PROVE  ThreadsInv'
<1>1. ThreadsUnchanged /\ UNCHANGED <<user, running, drained>>
  BY DEF Publisher, PublishMessage, PublishEnd, PublisherExit, Receiver, Receive,
     Unpack, Dispatch, DispatchAccepted, DispatchRefused, EndDatagram,
     ReceiveTimesOut, ReceiverChecksDone, ThreadsUnchanged, vars, workerVars,
     ownerVars, userVars
<1>2. publisher \in {"none", "exited"} => publisher' = publisher
  BY DEF Publisher, PublishMessage, PublishEnd, PublisherExit, Receiver, Receive,
     Unpack, Dispatch, EndDatagram, ReceiveTimesOut, ReceiverChecksDone,
     publisherVars
<1>3. receiver \in {"none", "exited"} => receiver' = receiver
  BY DEF Publisher, PublishMessage, PublishEnd, PublisherExit, Receiver, Receive,
     Unpack, Dispatch, EndDatagram, ReceiveTimesOut, ReceiverChecksDone,
     receiverVars
<1>4. WorkersInv'
  BY <1>1 DEF ThreadsInv, WorkersInv, ThreadsUnchanged
<1>5. OwnerInv'
  BY <1>1, <1>2, <1>3 DEF ThreadsInv, OwnerInv, AtRest, ThreadsUnchanged
<1> QED BY <1>4, <1>5 DEF ThreadsInv

\* drain_and_stop() joins the workers one after the other and has joined them all
\* when it returns.
LEMMA DrainKeeps ==
  ASSUME ThreadsInv, Drain
  PROVE  ThreadsInv'
<1>1. UNCHANGED <<user, running, drained, publisher, receiver, worker>>
  BY DEF Drain, DrainBegin, DrainStep, DrainShard, RaiseStop, Join, workerVars,
     userVars, threadVars, publisherVars, receiverVars
<1>2. user = "drain" /\ ~drained
  BY DEF Drain
<1>3. WorkersInv'
  <2>1. CASE DrainBegin
    BY <1>1, <2>1, ShardsAssumption DEF ThreadsInv, WorkersInv, DrainBegin
  <2>2. CASE DrainShard
    BY <1>1, <2>2, ShardsAssumption DEF ThreadsInv, WorkersInv, DrainShard
  <2>3. CASE RaiseStop
    BY <1>1, <2>3, ShardsAssumption DEF ThreadsInv, WorkersInv, RaiseStop, Shard
  <2>4. CASE Join
    BY <1>1, <2>4, ShardsAssumption DEF ThreadsInv, WorkersInv, Join, Shard
  <2> QED BY <2>1, <2>2, <2>3, <2>4 DEF Drain, DrainStep
<1>4. OwnerInv'
  BY <1>1, <1>2 DEF ThreadsInv, OwnerInv, AtRest
<1> QED BY <1>3, <1>4 DEF ThreadsInv

\* The owner's other steps.
LEMMA OwnerKeeps ==
  ASSUME ThreadsInv, Owner
  PROVE  ThreadsInv'
<1>1. CASE Construct
  <2>1. WorkersInv'
    BY <1>1 DEF Construct, Start, ThreadsInv, WorkersInv
  <2>2. OwnerInv'
    BY <1>1 DEF Construct, Start, ThreadsInv, OwnerInv, AtRest, publisherVars
  <2> QED BY <2>1, <2>2 DEF ThreadsInv
<1>2. ASSUME ConstructFails \/ StartFeed \/ Poll \/ PollEnds \/ Wait \/ Destroy
               \/ JoinPublisher \/ JoinReceiver \/ WaitReturns
      PROVE  ThreadsInv'
  <2>1. ThreadsUnchanged
    BY <1>2 DEF ConstructFails, StartFeed, Poll, PollEnds, Wait, Destroy, JoinPublisher,
       JoinReceiver, WaitReturns, ThreadsUnchanged, vars, workerVars, ownerVars
  <2>2. WorkersInv'
    BY <2>1 DEF ThreadsInv, WorkersInv, ThreadsUnchanged
  <2>3. OwnerInv'
    <3>1. CASE StartFeed
      BY <2>1, <3>1 DEF StartFeed, ThreadsInv, OwnerInv, ThreadsUnchanged
    <3>2. CASE ConstructFails
      BY <2>1, <3>2 DEF ConstructFails, ThreadsInv, OwnerInv, AtRest, ThreadsUnchanged,
         threadVars, publisherVars, receiverVars
    <3>3. CASE Poll \/ PollEnds \/ Wait
      BY <2>1, <3>3 DEF Poll, PollEnds, Wait, ThreadsInv, OwnerInv, AtRest,
         ThreadsUnchanged, threadVars, publisherVars, receiverVars
    <3>4. CASE Destroy
      BY <2>1, <3>4 DEF Destroy, ThreadsInv, OwnerInv, AtRest, ThreadsUnchanged,
         threadVars, publisherVars, receiverVars
    <3>5. CASE JoinPublisher \/ JoinReceiver
      BY <2>1, <3>5 DEF JoinPublisher, JoinReceiver, ThreadsInv, OwnerInv, AtRest,
         ThreadsUnchanged, threadVars, publisherVars, receiverVars
    <3>6. CASE WaitReturns
      BY <2>1, <3>6 DEF WaitReturns, ThreadsInv, OwnerInv, AtRest, ThreadsUnchanged,
         threadVars, publisherVars, receiverVars
    <3> QED BY <1>2, <3>1, <3>2, <3>3, <3>4, <3>5, <3>6
  <2> QED BY <2>2, <2>3 DEF ThreadsInv
<1> QED BY <1>1, <1>2, DrainKeeps DEF Owner, InsideCall

\* Every step keeps the invariant.
LEMMA ThreadsStep == ThreadsInv /\ [LiveNext]_liveVars => ThreadsInv'
<1> SUFFICES ASSUME ThreadsInv, [LiveNext]_liveVars PROVE ThreadsInv'
  OBVIOUS
<1>1. CASE UNCHANGED liveVars
  BY <1>1 DEF liveVars, vars, workerVars, ownerVars, userVars, threadVars,
     publisherVars, receiverVars, ThreadsInv, WorkersInv, OwnerInv, AtRest
<1> QED BY <1>1, WorkerKeeps, FeedThreadsKeep, OwnerKeeps DEF LiveNext

\* The destructor returns, and a constructor that throws leaves, with every
\* std::thread joined or never started, after any sequence of start(), polling and
\* wait().
THEOREM DestroyedIsJoinedHolds == LiveSpec => []DestroyedIsJoined
<1>1. ThreadsInv => DestroyedIsJoined
  BY DEF ThreadsInv, WorkersInv, OwnerInv, AtRest, DestroyedIsJoined
<1> QED BY <1>1, ThreadsInit, ThreadsStep, PTL DEF LiveSpec
-----------------------------------------------------------------------------
(***************************************************************************)
(* Types, and packets that fit their buffer.                               *)
(***************************************************************************)
\* The receiver takes up a message, whatever the owner of the normalizer is doing:
\* after a second start() that is no longer the Fetch of Normalizer.
Takes(m) ==
  /\ pending = NoMessage /\ pending' = m
  /\ UNCHANGED <<shardVars, workerVars, ownerVars, dispatchVars>>

\* What the steps of the feed are to the normalizer.
LEMMA StepOfNormalizer ==
  ASSUME [LiveNext]_liveVars
  PROVE  NormalizerStep \/ UNCHANGED vars \/ (Unpack /\ Takes(Head(unread)))
<1>1. CASE Publisher
  BY <1>1 DEF Publisher, PublishMessage, PublishEnd, PublisherExit
<1>2. CASE Receiver
  BY <1>2 DEF Receiver, Receive, Unpack, Dispatch, EndDatagram, ReceiveTimesOut,
     ReceiverChecksDone, NormalizerStep, Takes
<1>3. CASE Owner
  BY <1>3 DEF Owner, Construct, ConstructFails, StartFeed, Poll, Wait, Destroy, InsideCall,
     JoinPublisher, JoinReceiver, Drain, WaitReturns, PollEnds, NormalizerStep
<1>4. CASE \E s \in Shard : Worker(s)
  BY <1>4 DEF Worker, NormalizerStep
<1>5. CASE UNCHANGED liveVars
  BY <1>5 DEF liveVars
<1> QED BY <1>1, <1>2, <1>3, <1>4, <1>5 DEF LiveNext

\* The types and the books of the normalizer do not depend on when messages come.
LEMMA TakesKeepsTypes ==
  ASSUME TypedBooks, NEW m \in Message, Takes(m)
  PROVE  TypedBooks'
<1>1. UNCHANGED <<queue, orders, books, processed, droppedFull, worker, item, stop, mpc,
                  drainAt, accepted, reference>> /\ pending' \in Message
  BY DEF Takes, shardVars, workerVars, ownerVars, dispatchVars
<1>2. TypeOK' /\ Unstarted'
  BY <1>1 DEF TypedBooks, TypeOK, Unstarted
<1> QED BY <1>1, <1>2, UntouchedBooks DEF TypedBooks

\* The bytes of the messages of a packet.
BytesOf(q) == SumFunction([k \in DOMAIN q |-> MsgSize(q[k])])

LEMMA SizeOfMessage ==
  \A m \in Message : MsgSize(m) \in Int /\ 0 <= MsgSize(m) /\ MsgSize(m) <= 39
<1> SUFFICES ASSUME NEW m \in Message
             PROVE  MsgSize(m) \in Int /\ 0 <= MsgSize(m) /\ MsgSize(m) <= 39
  OBVIOUS
<1>1. m.type \in {"Add", "Execute", "Cancel", "Delete", "Replace"}
  BY MessageKinds
<1> QED BY <1>1 DEF MsgSize

LEMMA BytesOfLonger ==
  ASSUME NEW q \in Seq(Message), NEW longer \in Seq(Message), Len(longer) = Len(q) + 1,
         \A k \in 1 .. Len(q) : longer[k] = q[k]
  PROVE  BytesOf(longer) = BytesOf(q) + MsgSize(longer[Len(q) + 1])
<1> DEFINE n == Len(q)
           e == [k \in DOMAIN longer |-> MsgSize(longer[k])]
           f == [k \in DOMAIN q |-> MsgSize(q[k])]
<1>1. n \in Nat /\ DOMAIN q = 1 .. n /\ DOMAIN longer = 1 .. n + 1
  OBVIOUS
<1>2. \A k \in 1 .. n + 1 : MsgSize(longer[k]) \in Int
  <2>1. \A k \in 1 .. n + 1 : longer[k] \in Message
    BY <1>1
  <2> QED BY <2>1, SizeOfMessage, Zenon
<1>3. \A k \in 1 .. n + 1 : e[k] \in Int /\ e[k] = MsgSize(longer[k])
  BY <1>1, <1>2
<1>4. \A k \in 1 .. n : f[k] = e[k]
  BY <1>1
<1>5. DOMAIN e = 1 .. n + 1 /\ DOMAIN f = 1 .. n /\ e[n + 1] = MsgSize(longer[n + 1])
  BY <1>1, <1>3
<1>6. BytesOf(longer) = SumFunction(e) /\ BytesOf(q) = SumFunction(f)
  BY DEF BytesOf
<1> HIDE DEF e, f, n
<1>7. SumFunctionOnSet(e, 1 .. n + 1) = SumFunctionOnSet(f, 1 .. n) + e[n + 1]
  BY <1>1, <1>3, <1>4, SumLonger
<1> QED BY <1>5, <1>6, <1>7 DEF SumFunction, n

LEMMA BytesOfAppend ==
  ASSUME NEW q \in Seq(Message), NEW m \in Message
  PROVE  BytesOf(Append(q, m)) = BytesOf(q) + MsgSize(m)
<1>1. PICK longer : longer = Append(q, m)
  OBVIOUS
<1>2. /\ longer \in Seq(Message) /\ Len(longer) = Len(q) + 1
      /\ \A k \in 1 .. Len(q) : longer[k] = q[k]
      /\ longer[Len(q) + 1] = m
  BY <1>1
<1>3. BytesOf(longer) = BytesOf(q) + MsgSize(longer[Len(q) + 1])
  BY <1>2, BytesOfLonger
<1> QED BY <1>1, <1>2, <1>3, Zenon

LEMMA BytesOfNone == BytesOf(<< >>) = 0
BY SumOfNone DEF BytesOf, SumFunction

LEMMA BytesOfOne == \A m \in Message : BytesOf(<<m>>) = MsgSize(m)
<1> SUFFICES ASSUME NEW m \in Message PROVE BytesOf(<<m>>) = MsgSize(m)
  OBVIOUS
<1>1. PICK none, one : none = << >> /\ one = <<m>>
  OBVIOUS
<1>2. /\ none \in Seq(Message) /\ one \in Seq(Message)
      /\ Len(none) = 0 /\ Len(one) = 1 /\ one[Len(none) + 1] = m
      /\ Len(one) = Len(none) + 1 /\ \A k \in 1 .. Len(none) : one[k] = none[k]
  BY <1>1
<1>3. BytesOf(one) = BytesOf(none) + MsgSize(one[Len(none) + 1])
  BY <1>2, BytesOfLonger
<1>4. BytesOf(one) = 0 + MsgSize(m)
  BY <1>1, <1>2, <1>3, BytesOfNone, Zenon
<1>5. MsgSize(m) \in Int
  BY SizeOfMessage
<1> QED BY <1>1, <1>4, <1>5

TypedLive == TypedBooks /\ SimInv /\ LiveTypeOK

LEMMA TypedLiveInit == LiveInit => TypedLive
<1> SUFFICES ASSUME LiveInit PROVE TypedLive
  OBVIOUS
<1>1. TypedBooks /\ SimInv
  BY TypedBooksInit, SimInitOK DEF LiveInit
<1>2. PacketBytes <= MaxPayload
  <2>1. PacketBytes = HeaderBytes + BytesOf(packet) /\ packet = << >>
    BY DEF LiveInit, PacketBytes, BytesOf
  <2> QED BY <2>1, BytesOfNone, LiveAssumption DEF HeaderBytes
<1>3. << >> \in Seq(Message) /\ << >> \in Seq(Seq(Message)) /\ 0 \in 0 .. MaxStarts
  BY LiveAssumption
<1>4. NoStats \in [sent : Nat, received : Nat]
  BY DEF NoStats
<1>5. TypeOK
  BY <1>1 DEF TypedBooks
<1>6. stats = NoStats /\ socket = << >> /\ lost = 0 /\ packet = << >> /\ unread = << >>
  BY DEF LiveInit, SocketInit
<1>7. LiveTypeOK
  BY <1>2, <1>3, <1>4, <1>5, <1>6 DEF LiveTypeOK, LiveInit
<1> QED BY <1>1, <1>7 DEF TypedLive

\* The publisher's next message is one of the simulator's.
LEMMA PublishedMessage ==
  ASSUME SimInv, PublishMessage
  PROVE  \E i \in Instrument : Follows(i, message') /\ NamesResting(i, message')
<1>1. PICK i \in Instrument : \E drift \in Drift : NextMessage(i, drift, message')
  BY DEF PublishMessage
<1>2. PICK drift \in Drift : NextMessage(i, drift, message')
  BY <1>1
<1> QED BY <1>2, NextMessageFollows, NextMessageNames

\* A datagram is in the socket's buffer or lost.
LEMMA SentKeepsTypes ==
  ASSUME socket \in Seq(Seq(Message)), lost \in Nat, packet \in Seq(Message), Send(packet)
  PROVE  socket' \in Seq(Seq(Message)) /\ lost' \in Nat
<1>1. Len(packet) \in Nat
  OBVIOUS
<1>2. CASE socket' = Append(socket, packet) /\ UNCHANGED lost
  BY <1>2
<1>3. CASE lost' = lost + Len(packet) /\ UNCHANGED socket
  BY <1>1, <1>3
<1> QED BY <1>2, <1>3 DEF Send

\* A message goes into the packet if it fits, or into one of its own.
LEMMA PacketFits ==
  ASSUME TypedLive, PublishMessage
  PROVE  /\ packet' \in Seq(Message) /\ PacketBytes' <= MaxPayload /\ socket' \in Seq(Seq(Message))
         /\ lost' \in Nat /\ message' \in Message
<1>1. packet \in Seq(Message) /\ PacketBytes = HeaderBytes + BytesOf(packet)
  BY DEF TypedLive, LiveTypeOK, PacketBytes, BytesOf
<1>2. message' \in Message
  <2>1. PICK i \in Instrument : Follows(i, message')
    BY PublishedMessage DEF TypedLive
  <2> QED BY <2>1 DEF Follows
<1>3. PacketBytes' = HeaderBytes + BytesOf(packet')
  BY DEF PacketBytes, BytesOf
<1>4. /\ MsgSize(message') \in Int /\ 0 <= MsgSize(message') /\ MsgSize(message') <= 39
      /\ MaxPayload \in Nat /\ MaxPayload >= 41
      /\ HeaderBytes = 2
  BY <1>2, SizeOfMessage, LiveAssumption DEF HeaderBytes
<1>5. CASE Send(packet) /\ packet' = <<message'>>
  <2>1. PacketBytes' = 2 + MsgSize(message') /\ packet' \in Seq(Message)
    BY <1>2, <1>3, <1>4, <1>5, BytesOfOne
  <2>2. socket' \in Seq(Seq(Message)) /\ lost' \in Nat
    <3>1. socket \in Seq(Seq(Message)) /\ lost \in Nat
      BY DEF TypedLive, LiveTypeOK
    <3> QED BY <1>1, <1>5, <3>1, SentKeepsTypes
  <2> QED BY <1>2, <1>4, <2>1, <2>2
<1>6. CASE /\ packet' = Append(packet, message') /\ UNCHANGED socketVars
           /\ ~(PacketBytes + MsgSize(message') > MaxPayload /\ packet # << >>)
  <2>1. PacketBytes' = HeaderBytes + (BytesOf(packet) + MsgSize(message'))
    BY <1>1, <1>2, <1>3, <1>6, BytesOfAppend, Zenon
  <2>2. BytesOf(packet) \in Int
    <3>1. \A k \in 1 .. Len(packet) : MsgSize(packet[k]) \in Int
      BY <1>1, SizeOfMessage
    <3>2. DOMAIN packet = 1 .. Len(packet) /\ IsFiniteSet(1 .. Len(packet))
      BY <1>1, FS_Interval
    <3>3. SumFunctionOnSet([k \in DOMAIN packet |-> MsgSize(packet[k])], 1 .. Len(packet)) \in Int
      BY <3>1, <3>2, SumSplits
    <3> QED BY <3>2, <3>3 DEF BytesOf, SumFunction
  <2>3. PacketBytes' <= MaxPayload
    <3>1. CASE packet = << >>
      <4>1. PacketBytes' = 2 + (0 + MsgSize(message'))
        BY <1>4, <2>1, <3>1, BytesOfNone
      <4> QED BY <1>4, <4>1
    <3>2. CASE packet # << >>
      BY <1>1, <1>4, <1>6, <2>1, <2>2, <3>2
    <3> QED BY <3>1, <3>2
  <2>4. packet' \in Seq(Message) /\ socket' \in Seq(Seq(Message)) /\ lost' \in Nat
    BY <1>1, <1>2, <1>6 DEF socketVars, TypedLive, LiveTypeOK
  <2> QED BY <1>2, <2>3, <2>4
<1> QED BY <1>5, <1>6 DEF PublishMessage

\* Every step keeps the types.
LEMMA TypedLiveStep ==
  ASSUME TypedLive, [LiveNext]_liveVars
  PROVE  TypedLive'
<1>1. /\ unread \in Seq(Message) /\ socket \in Seq(Seq(Message)) /\ packet \in Seq(Message)
      /\ lost \in Nat /\ sent \in Nat /\ received \in Nat /\ snapshot \in Nat
      /\ latencyRoom \in Nat /\ starts \in 0 .. MaxStarts /\ toSend \in Nat /\ target \in Nat
      /\ PacketBytes <= MaxPayload /\ message \in Message \cup {NoMessage}
      /\ TypedBooks /\ TypeOK /\ SimInv
  BY DEF TypedLive, LiveTypeOK, TypedBooks
<1>2. TypedBooks' /\ TypeOK'
  <2>1. CASE NormalizerStep \/ UNCHANGED vars
    BY <1>1, <2>1, TypedBooksStep DEF Next, TypedBooks
  <2>2. CASE Unpack /\ Takes(Head(unread))
    <3>1. Head(unread) \in Message
      BY <1>1, <2>2 DEF Unpack
    <3> QED BY <1>1, <2>2, <3>1, TakesKeepsTypes DEF TypedBooks
  <2> QED BY <2>1, <2>2, StepOfNormalizer
<1> DEFINE Owned ==
             /\ user \in {"constructing", "idle", "polling", "joinPublisher", "joinReceiver",
                         "drain", "destroyed"}
             /\ destroying \in BOOLEAN /\ running \in BOOLEAN /\ drained \in BOOLEAN
             /\ starts \in 0 .. MaxStarts /\ toSend \in Nat /\ target \in Nat
             /\ stats \in [sent : Nat, received : Nat]
           Published ==
             /\ publisher \in {"none", "publishing", "flushed", "exited"}
             /\ publisherDone \in BOOLEAN /\ message \in Message \cup {NoMessage}
             /\ packet \in Seq(Message) /\ PacketBytes <= MaxPayload /\ sent \in Nat
           Socketed == socket \in Seq(Seq(Message)) /\ lost \in Nat
           Unpacked ==
             /\ receiver \in {"none", "receiving", "unpacking", "timedOut", "exited"}
             /\ unread \in Seq(Message) /\ received \in Nat /\ snapshot \in Nat
             /\ latencyRoom \in Nat
<1>3. Owned /\ Published /\ Socketed /\ Unpacked
  BY DEF TypedLive, LiveTypeOK
<1>4. UNCHANGED userVars => Owned'
  BY <1>3 DEF userVars
<1>5. UNCHANGED publisherVars => Published'
  BY <1>3 DEF publisherVars, PacketBytes
<1>6. UNCHANGED socketVars => Socketed'
  BY <1>3 DEF socketVars
<1>7. UNCHANGED receiverVars => Unpacked'
  BY <1>3 DEF receiverVars
<1>8. UNCHANGED simVars => SimInv'
  BY <1>1 DEF simVars, SimInv, SimTypeOK, IdsAreFresh
<1>9. ASSUME Owned', Published', Socketed', Unpacked', SimInv' PROVE TypedLive'
  BY <1>2, <1>9 DEF TypedLive, LiveTypeOK
<1>10. ASSUME packet' = << >> PROVE packet' \in Seq(Message) /\ PacketBytes' <= MaxPayload
  <2>1. PacketBytes' = HeaderBytes + BytesOf(packet')
    BY DEF PacketBytes, BytesOf
  <2> QED BY <1>10, <2>1, BytesOfNone, LiveAssumption DEF HeaderBytes
<1>11. CASE PublishMessage
  <2>1. Published' /\ Socketed'
    BY <1>1, <1>3, <1>11, PacketFits DEF PublishMessage
  <2>2. SimInv'
    <3>1. PICK i \in Instrument : Follows(i, message')
      BY <1>1, <1>11, PublishedMessage
    <3> QED BY <3>1 DEF Follows
  <2> QED BY <1>4, <1>7, <1>9, <1>11, <2>1, <2>2 DEF PublishMessage
<1>12. CASE PublishEnd \/ PublisherExit
  <2>1. Socketed'
    <3>1. CASE PublisherExit
      BY <1>6, <3>1 DEF PublisherExit
    <3>2. CASE PublishEnd
      BY <1>1, <1>6, <3>2, SentKeepsTypes DEF PublishEnd
    <3> QED BY <1>12, <3>1, <3>2
  <2>2. Published'
    <3>1. CASE PublisherExit
      <4>1. packet' = packet
        BY <3>1 DEF PublisherExit
      <4> QED BY <1>3, <3>1, <4>1 DEF PublisherExit, PacketBytes
    <3>2. CASE PublishEnd
      BY <1>3, <1>10, <3>2 DEF PublishEnd
    <3> QED BY <1>12, <3>1, <3>2
  <2> QED BY <1>4, <1>7, <1>8, <1>9, <1>12, <2>1, <2>2 DEF PublishEnd, PublisherExit
<1>13. CASE Receiver
  <2>1. Socketed'
    <3>1. CASE Receive
      BY <1>1, <3>1 DEF Receive, Recv
    <3>2. CASE ~Receive
      BY <1>6, <1>13, <3>2 DEF Receiver, Unpack, Dispatch, EndDatagram, ReceiveTimesOut,
         ReceiverChecksDone
    <3> QED BY <3>1, <3>2
  <2>2. Unpacked'
    <3>1. CASE Receive
      BY <1>1, <1>3, <3>1 DEF Receive, Recv
    <3>2. CASE Unpack
      <4>1. latencyRoom' \in Nat /\ unread' \in Seq(Message)
        BY <1>1, <3>2 DEF Unpack
      <4> QED BY <1>3, <3>2, <4>1 DEF Unpack
    <3>3. CASE Dispatch \/ EndDatagram \/ ReceiveTimesOut \/ ReceiverChecksDone
      BY <1>3, <3>3 DEF Dispatch, EndDatagram, ReceiveTimesOut, ReceiverChecksDone
    <3> QED BY <1>13, <3>1, <3>2, <3>3 DEF Receiver
  <2>3. UNCHANGED <<simVars, userVars, publisherVars>>
    BY <1>13 DEF Receiver, Receive, Unpack, Dispatch, EndDatagram, ReceiveTimesOut,
       ReceiverChecksDone
  <2> QED BY <1>4, <1>5, <1>8, <1>9, <2>1, <2>2, <2>3
<1>14. CASE Construct
  BY <1>3, <1>5, <1>6, <1>8, <1>9, <1>14, LiveAssumption DEF Construct
<1>15. CASE StartFeed
  <2>1. SimInv'
    <3>1. /\ refPrice' = ReferencePrice /\ liveOrders' = [i \in Instrument |-> {}]
          /\ nextOrderId' = 1 /\ generated' = 0
      BY <1>15 DEF StartFeed
    <3> QED BY <3>1, ReferencePriceAssumption DEF SimInv, SimTypeOK, IdsAreFresh
  <2>2. Published'
    BY <1>3, <1>10, <1>15 DEF StartFeed
  <2>3. Owned' /\ Unpacked'
    <3>1. starts' \in 0 .. MaxStarts /\ toSend' \in Nat
      <4>1. /\ starts < MaxStarts /\ starts' = starts + 1 /\ toSend' \in 0 .. MaxMessages
            /\ MaxStarts \in Nat /\ MaxMessages \in Nat
        BY <1>15, LiveAssumption, SimulatorAssumption DEF StartFeed
      <4> QED BY <1>1, <4>1
    <3> QED BY <1>3, <1>15, <3>1 DEF StartFeed
  <2> QED BY <1>6, <1>9, <1>15, <2>1, <2>2, <2>3 DEF StartFeed
<1>16. CASE \/ ConstructFails \/ Poll \/ Wait \/ Destroy \/ JoinPublisher \/ JoinReceiver
            \/ PollEnds \/ WaitReturns
  <2>1. UNCHANGED <<simVars, threadVars>>
    BY <1>16 DEF ConstructFails, Poll, Wait, Destroy, JoinPublisher, JoinReceiver, PollEnds,
       WaitReturns
  <2>2. Owned'
    <3>1. CASE Poll
      BY <1>1, <1>3, <3>1 DEF Poll
    <3>2. CASE ConstructFails \/ Wait \/ JoinPublisher \/ JoinReceiver \/ PollEnds
      <4>1. /\ user' \in {"destroyed", "joinPublisher", "joinReceiver", "drain", "idle"}
            /\ target' \in {target, 0}
            /\ UNCHANGED <<destroying, starts, toSend, running, drained, stats>>
        BY <3>2 DEF ConstructFails, Wait, JoinPublisher, JoinReceiver, PollEnds
      <4> QED BY <1>3, <4>1
    <3>4. CASE Destroy
      <4>1. /\ user' \in {"joinPublisher", "destroyed", "drain"} /\ destroying' = TRUE
            /\ UNCHANGED <<starts, toSend, target, running, drained, stats>>
        BY <3>4 DEF Destroy
      <4> QED BY <1>3, <4>1
    <3>3. CASE WaitReturns
      BY <1>1, <1>3, <3>3 DEF WaitReturns
    <3> QED BY <1>16, <3>1, <3>2, <3>3, <3>4
  <2> QED BY <1>5, <1>6, <1>7, <1>8, <1>9, <2>1, <2>2 DEF threadVars
<1>17. CASE Drain \/ (\E s \in Shard : Worker(s)) \/ UNCHANGED liveVars
  BY <1>4, <1>5, <1>6, <1>7, <1>8, <1>9, <1>17 DEF Drain, Worker, liveVars, threadVars
<1> QED BY <1>11, <1>12, <1>13, <1>14, <1>15, <1>16, <1>17
        DEF LiveNext, Publisher, Owner, InsideCall

\* Every variable keeps its type, and every packet fits its buffer of
\* kMaxPayloadBytes, whichever mix of messages the publisher puts into it.
THEOREM LiveTypesHold == LiveSpec => []LiveTypeOK
<1>1. TypedLive => LiveTypeOK
  BY DEF TypedLive
<1>2. TypedLive /\ [LiveNext]_liveVars => TypedLive'
  BY TypedLiveStep
<1> QED BY <1>1, <1>2, TypedLiveInit, PTL DEF LiveSpec

\* The best indices of every book are right at all times, whatever the socket loses,
\* the queues refuse and the owner calls, in a second run too.
THEOREM LiveTopOfBook == LiveSpec => []TopOfBook
<1>1. TypedLive => TopOfBook
  BY DEF TypedLive, TypedBooks, BooksAreGood
<1>2. TypedLive /\ [LiveNext]_liveVars => TypedLive'
  BY TypedLiveStep
<1> QED BY <1>1, <1>2, TypedLiveInit, PTL DEF LiveSpec

-----------------------------------------------------------------------------
(***************************************************************************)
(* Where every message is, and what a run reports in the end.              *)
(***************************************************************************)
\* The datagrams in the buffer, with another behind them, and without the first.
LEMMA MessagesInNone == MessagesIn(<< >>) = 0
BY SumOfNone DEF MessagesIn, SumFunction

LEMMA MessagesInLonger ==
  ASSUME NEW d \in Seq(Seq(Message)), NEW longer \in Seq(Seq(Message)),
         Len(longer) = Len(d) + 1, \A k \in 1 .. Len(d) : longer[k] = d[k]
  PROVE  MessagesIn(longer) = MessagesIn(d) + Len(longer[Len(d) + 1])
<1> DEFINE n == Len(d)
           e == [k \in DOMAIN longer |-> Len(longer[k])]
           f == [k \in DOMAIN d |-> Len(d[k])]
<1>1. n \in Nat /\ DOMAIN d = 1 .. n /\ DOMAIN longer = 1 .. n + 1
  OBVIOUS
<1>2. \A k \in 1 .. n + 1 : Len(longer[k]) \in Int
  OBVIOUS
<1>3. \A k \in 1 .. n + 1 : e[k] \in Int /\ e[k] = Len(longer[k])
  BY <1>1, <1>2
<1>4. \A k \in 1 .. n : f[k] = e[k]
  BY <1>1
<1>5. DOMAIN e = 1 .. n + 1 /\ DOMAIN f = 1 .. n /\ e[n + 1] = Len(longer[n + 1])
  BY <1>1, <1>3
<1>6. MessagesIn(longer) = SumFunction(e) /\ MessagesIn(d) = SumFunction(f)
  BY DEF MessagesIn
<1> HIDE DEF e, f, n
<1>7. SumFunctionOnSet(e, 1 .. n + 1) = SumFunctionOnSet(f, 1 .. n) + e[n + 1]
  BY <1>1, <1>3, <1>4, SumLonger
<1> QED BY <1>5, <1>6, <1>7 DEF SumFunction, n

LEMMA MessagesInTail ==
  ASSUME NEW d \in Seq(Seq(Message)), NEW rest \in Seq(Seq(Message)),
         Len(d) = Len(rest) + 1, \A k \in 1 .. Len(rest) : rest[k] = d[k + 1]
  PROVE  MessagesIn(d) = Len(d[1]) + MessagesIn(rest)
<1> DEFINE n == Len(rest)
           e == [k \in DOMAIN d |-> Len(d[k])]
           f == [k \in DOMAIN rest |-> Len(rest[k])]
<1>1. n \in Nat /\ DOMAIN rest = 1 .. n /\ DOMAIN d = 1 .. n + 1
  OBVIOUS
<1>2. \A k \in 1 .. n + 1 : Len(d[k]) \in Int
  OBVIOUS
<1>3. \A k \in 1 .. n + 1 : e[k] \in Int /\ e[k] = Len(d[k])
  BY <1>1, <1>2
<1>4. \A k \in 1 .. n : f[k] = e[k + 1]
  <2> SUFFICES ASSUME NEW k \in 1 .. n PROVE f[k] = e[k + 1]
    OBVIOUS
  <2>1. k + 1 \in 1 .. n + 1 /\ f[k] = Len(rest[k]) /\ rest[k] = d[k + 1]
    BY <1>1
  <2> QED BY <1>3, <2>1
<1>5. DOMAIN e = 1 .. n + 1 /\ DOMAIN f = 1 .. n /\ e[1] = Len(d[1])
  BY <1>1, <1>3
<1>6. MessagesIn(d) = SumFunction(e) /\ MessagesIn(rest) = SumFunction(f)
  BY DEF MessagesIn
<1> HIDE DEF e, f, n
<1>7. SumFunctionOnSet(e, 1 .. n + 1) = e[1] + SumFunctionOnSet(f, 1 .. n)
  BY <1>1, <1>3, <1>4, SumShifted
<1> QED BY <1>5, <1>6, <1>7 DEF SumFunction

LEMMA MessagesInIsNat == ASSUME NEW d \in Seq(Seq(Message)) PROVE MessagesIn(d) \in Nat
<1> DEFINE f == [k \in DOMAIN d |-> Len(d[k])]
<1>1. DOMAIN d = 1 .. Len(d) /\ IsFiniteSet(DOMAIN d) /\ DOMAIN f = DOMAIN d
  BY FS_Interval
<1>2. \A k \in DOMAIN d : f[k] \in Nat
  OBVIOUS
<1>3. MessagesIn(d) = SumFunctionOnSet(f, DOMAIN f)
  BY DEF MessagesIn, SumFunction
<1> HIDE DEF f
<1> QED BY <1>1, <1>2, <1>3, SumOfNaturals

\* sendto() and recv(): what leaves the packet is in the socket or lost, and what
\* leaves the socket is in the receiver's hands.
LEMMA SentIsCounted ==
  ASSUME TypedLive, Send(packet)
  PROVE  MessagesIn(socket') + lost' = MessagesIn(socket) + lost + Len(packet)
<1>1. /\ socket \in Seq(Seq(Message)) /\ packet \in Seq(Message) /\ lost \in Nat
      /\ MessagesIn(socket) \in Int /\ Len(packet) \in Nat
  BY MessagesInIsNat DEF TypedLive, LiveTypeOK
<1>2. CASE socket' = Append(socket, packet) /\ UNCHANGED lost
  <2>1. PICK longer : longer = socket'
    OBVIOUS
  <2>2. /\ longer \in Seq(Seq(Message)) /\ Len(longer) = Len(socket) + 1
        /\ \A k \in 1 .. Len(socket) : longer[k] = socket[k]
        /\ longer[Len(socket) + 1] = packet
    BY <1>1, <1>2, <2>1
  <2>3. MessagesIn(longer) = MessagesIn(socket) + Len(longer[Len(socket) + 1])
    BY <1>1, <2>2, MessagesInLonger
  <2>4. MessagesIn(socket') = MessagesIn(socket) + Len(packet)
    BY <2>1, <2>2, <2>3, Zenon
  <2> QED BY <1>1, <1>2, <2>4
<1>3. CASE lost' = lost + Len(packet) /\ UNCHANGED socket
  BY <1>1, <1>3
<1> QED BY <1>2, <1>3 DEF Send

LEMMA ReceivedIsCounted ==
  ASSUME TypedLive, Recv(unread')
  PROVE  MessagesIn(socket) + lost = Len(unread') + MessagesIn(socket') + lost'
<1>1. /\ socket \in Seq(Seq(Message)) /\ socket # << >> /\ lost \in Nat /\ lost' = lost
      /\ unread' = Head(socket) /\ socket' = Tail(socket)
  BY DEF TypedLive, LiveTypeOK, Recv
<1>2. PICK rest : rest = socket'
  OBVIOUS
<1>3. /\ rest \in Seq(Seq(Message)) /\ Len(socket) = Len(rest) + 1
      /\ \A k \in 1 .. Len(rest) : rest[k] = socket[k + 1]
      /\ socket[1] = unread' /\ unread' \in Seq(Message)
  BY <1>1, <1>2
<1>4. MessagesIn(socket) = Len(socket[1]) + MessagesIn(rest)
  BY <1>1, <1>3, MessagesInTail
<1>5. MessagesIn(rest) \in Int /\ Len(unread') \in Nat
  BY <1>3, MessagesInIsNat
<1>6. MessagesIn(socket) = Len(unread') + MessagesIn(socket')
  BY <1>2, <1>3, <1>4, Zenon
<1> QED BY <1>1, <1>2, <1>5, <1>6

\* A thread that is not in its loop holds no message, and the snapshot is late
\* only within a datagram.
AtWork ==
  /\ publisher # "publishing" => packet = << >>
  /\ receiver # "unpacking" => unread = << >> /\ pending = NoMessage /\ snapshot = received

Reported == Returned => stats = [sent |-> sent, received |-> received]

CountedInv == TypedLive /\ ThreadsInv /\ AtWork /\ Reported /\ NothingUnaccounted

LEMMA CountedInit == LiveInit => CountedInv
<1> SUFFICES ASSUME LiveInit PROVE CountedInv
  OBVIOUS
<1>1. /\ sent = 0 /\ received = 0 /\ lost = 0 /\ packet = << >> /\ unread = << >>
      /\ socket = << >> /\ pending = NoMessage /\ snapshot = received /\ starts = 0
      /\ accepted = [s \in Shard |-> 0] /\ droppedFull = [s \in Shard |-> 0]
  BY DEF LiveInit, Init, SocketInit
<1>2. MessagesIn(socket) = 0 /\ Len(<< >>) = 0 /\ Samples = 0
  BY <1>1, MessagesInNone DEF Samples
<1>3. SumFunction([s \in Shard |-> accepted[s] + droppedFull[s]]) = 0
  <2> DEFINE f == [s \in Shard |-> accepted[s] + droppedFull[s]]
  <2>1. IsFiniteSet(Shard)
    BY ShardsAssumption, FS_Interval DEF Shard
  <2>2. \A s \in Shard : f[s] = 0
    BY <1>1
  <2>3. DOMAIN f = Shard
    OBVIOUS
  <2> HIDE DEF f
  <2>5. SumFunctionOnSet(f, Shard) = SumFunctionOnSet(f, {})
    BY <2>1, <2>2, SumOfSupport
  <2>6. SumFunctionOnSet(f, Shard) = 0
    BY <2>5, SumOfNone
  <2> QED BY <2>3, <2>6 DEF f, SumFunction
<1>4. NothingUnaccounted
  BY <1>1, <1>2, <1>3 DEF NothingUnaccounted
<1> QED BY <1>1, <1>4, TypedLiveInit, ThreadsInit DEF CountedInv, AtWork, Reported, Returned

\* dispatch() counts the message with the shard it is for, one way or the other.
LEMMA DispatchIsCounted ==
  ASSUME CountedInv, Dispatch
  PROVE  received' = SumFunction([s \in Shard |-> accepted'[s] + droppedFull'[s]])
<1> DEFINE e == [s \in Shard |-> accepted'[s] + droppedFull'[s]]
           f == [s \in Shard |-> accepted[s] + droppedFull[s]]
<1>1. /\ pending \in Message /\ accepted \in [Shard -> Nat] /\ droppedFull \in [Shard -> Nat]
      /\ received = SumFunction(f) /\ received' = received + 1
  <2>1. pending \in Message \cup {NoMessage} /\ pending # NoMessage
    BY DEF Dispatch, DispatchAccepted, DispatchRefused, CountedInv, TypedLive, TypedBooks,
       TypeOK
  <2> QED BY <2>1 DEF Dispatch, CountedInv, TypedLive, TypedBooks, TypeOK, NothingUnaccounted
<1>2. PICK s \in Shard : s = ShardOf(pending.instrument)
  BY <1>1, MessageKinds, ShardOfInstrument
<1>3. \/ accepted' = [accepted EXCEPT ![s] = @ + 1] /\ UNCHANGED droppedFull
      \/ droppedFull' = [droppedFull EXCEPT ![s] = @ + 1] /\ UNCHANGED accepted
  BY <1>2 DEF Dispatch, DispatchAccepted, DispatchRefused
<1>4. /\ DOMAIN e = Shard /\ DOMAIN f = Shard
      /\ f[s] \in Int /\ e[s] = f[s] + 1
      /\ \A t \in Shard \ {s} : f[t] \in Int /\ f[t] = e[t]
  <2>1. CASE accepted' = [accepted EXCEPT ![s] = @ + 1] /\ UNCHANGED droppedFull
    BY <1>1, <2>1
  <2>2. CASE droppedFull' = [droppedFull EXCEPT ![s] = @ + 1] /\ UNCHANGED accepted
    BY <1>1, <2>2
  <2> QED BY <1>3, <2>1, <2>2
<1>5. IsFiniteSet(Shard)
  BY ShardsAssumption, FS_Interval DEF Shard
<1>6. \A t \in Shard : f[t] \in Int
  BY <1>4
<1> HIDE DEF e, f
<1>7. SumFunctionOnSet(e, Shard) = SumFunctionOnSet(f, Shard) - f[s] + e[s]
  BY <1>4, <1>5, SumChanged
<1>8. SumFunctionOnSet(f, Shard) \in Int
  BY <1>5, <1>6, SumSplits
<1>9. SumFunctionOnSet(e, Shard) = SumFunctionOnSet(f, Shard) + 1
  BY <1>4, <1>7, <1>8
<1>10. SumFunction(e) = SumFunctionOnSet(e, Shard) /\ SumFunction(f) = SumFunctionOnSet(f, Shard)
  BY <1>4 DEF SumFunction
<1>11. received' = SumFunction(e)
  BY <1>1, <1>9, <1>10
<1> QED BY <1>11 DEF e

\* The other steps leave the shards' counts alone.
LEMMA CountsUntouched ==
  ASSUME [LiveNext]_liveVars, ~Dispatch
  PROVE  UNCHANGED <<accepted, droppedFull, received>>
<1>1. CASE Publisher
  BY <1>1 DEF Publisher, PublishMessage, PublishEnd, PublisherExit, vars, dispatchVars,
     receiverVars
<1>2. CASE Receiver
  BY <1>2 DEF Receiver, Receive, Unpack, EndDatagram, ReceiveTimesOut, ReceiverChecksDone,
     vars, dispatchVars
<1>3. CASE Owner
  BY <1>3 DEF Owner, Construct, ConstructFails, StartFeed, Poll, Wait, Destroy, InsideCall,
     JoinPublisher, JoinReceiver, Drain, WaitReturns, PollEnds, Start, DrainBegin, DrainStep,
     DrainShard, RaiseStop, Join, vars, dispatchVars, threadVars, receiverVars
<1>4. CASE \E s \in Shard : Worker(s)
  BY <1>4 DEF Worker, WorkerStep, WorkerPop, WorkerApply, WorkerFindsEmpty, WorkerChecksStop,
     dispatchVars, threadVars, receiverVars
<1>5. CASE UNCHANGED liveVars
  BY <1>5 DEF liveVars, vars, dispatchVars, threadVars, receiverVars
<1> QED BY <1>1, <1>2, <1>3, <1>4, <1>5 DEF LiveNext

\* Every step moves messages from one place to the next.
LEMMA CountedStep ==
  ASSUME CountedInv, [LiveNext]_liveVars
  PROVE  CountedInv'
<1>1. TypedLive /\ ThreadsInv /\ AtWork /\ Reported /\ NothingUnaccounted
  BY DEF CountedInv
<1>2. /\ packet \in Seq(Message) /\ unread \in Seq(Message) /\ Len(packet) \in Nat
      /\ Len(unread) \in Nat /\ MessagesIn(socket) \in Int /\ lost \in Nat /\ sent \in Nat
      /\ received \in Nat
      /\ sent = Len(packet) + MessagesIn(socket) + lost + Len(unread) + Samples
  <2>1. /\ packet \in Seq(Message) /\ unread \in Seq(Message) /\ socket \in Seq(Seq(Message))
        /\ lost \in Nat /\ sent \in Nat /\ received \in Nat
    BY <1>1 DEF TypedLive, LiveTypeOK
  <2>2. Len(packet) \in Nat /\ Len(unread) \in Nat
    BY <2>1, LenProperties
  <2>3. MessagesIn(socket) \in Int
    BY <2>1, MessagesInIsNat
  <2>4. sent = Len(packet) + MessagesIn(socket) + lost + Len(unread) + Samples
    BY <1>1 DEF NothingUnaccounted
  <2> QED BY <2>1, <2>2, <2>3, <2>4
<1>3. TypedLive' /\ ThreadsInv'
  BY <1>1, TypedLiveStep, ThreadsStep
<1>4. /\ MessagesIn(socket') \in Int /\ lost' \in Nat /\ Len(unread') \in Nat
      /\ Len(packet') \in Nat
  <2>1. /\ packet' \in Seq(Message) /\ unread' \in Seq(Message)
        /\ socket' \in Seq(Seq(Message)) /\ lost' \in Nat
    BY <1>3 DEF TypedLive, LiveTypeOK
  <2>2. Len(packet') \in Nat /\ Len(unread') \in Nat
    BY <2>1, LenProperties
  <2> QED BY <2>1, <2>2, MessagesInIsNat
<1>5. received' = SumFunction([s \in Shard |-> accepted'[s] + droppedFull'[s]])
  <2>1. CASE Dispatch
    BY <2>1, DispatchIsCounted
  <2>2. CASE ~Dispatch
    BY <1>1, <2>2, CountsUntouched DEF NothingUnaccounted
  <2> QED BY <2>1, <2>2
<1> DEFINE Placed == sent = Len(packet) + MessagesIn(socket) + lost + Len(unread) + Samples
           Kept == Placed /\ AtWork /\ Reported
<1>6. ASSUME Kept' PROVE CountedInv'
  BY <1>3, <1>5, <1>6 DEF CountedInv, NothingUnaccounted
<1>7. UNCHANGED <<publisher, packet, sent, socketVars, receiver, unread, received, snapshot,
                  pending, running, starts, stats>> => Kept'
  BY <1>1, <1>2 DEF AtWork, Reported, Returned, Samples, socketVars
<1>8. AtRest => packet = << >> /\ unread = << >> /\ pending = NoMessage /\ snapshot = received
  BY <1>1 DEF AtWork, AtRest
<1>9. Returned => AtRest
  BY <1>1 DEF ThreadsInv, OwnerInv, Returned
<1>10. CASE PublishMessage
  <2>1. /\ publisher = "publishing" /\ publisher' = publisher /\ sent' = sent + 1
        /\ UNCHANGED <<receiver, unread, received, snapshot, pending, running, starts, stats>>
    BY <1>10 DEF PublishMessage, vars, userVars, receiverVars
  <2>2. Samples' = Samples /\ Samples \in Int
    BY <1>2, <2>1 DEF Samples
  <2>3. Len(packet') + MessagesIn(socket') + lost' = Len(packet) + MessagesIn(socket) + lost + 1
    <3>1. CASE Send(packet) /\ packet' = <<message'>>
      <4>1. MessagesIn(socket') + lost' = MessagesIn(socket) + lost + Len(packet)
        BY <1>1, <3>1, SentIsCounted
      <4>2. Len(packet') = 1
        BY <3>1
      <4> QED BY <1>2, <1>4, <4>1, <4>2
    <3>2. CASE packet' = Append(packet, message') /\ UNCHANGED socketVars
      <4>1. Len(packet') = Len(packet) + 1 /\ MessagesIn(socket') = MessagesIn(socket)
            /\ lost' = lost
        BY <1>2, <3>2 DEF socketVars
      <4> QED BY <1>2, <4>1
    <3> QED BY <1>10, <3>1, <3>2 DEF PublishMessage
  <2>4. Placed'
    <3>1. PICK before \in Int, after \in Int :
            /\ before = Len(packet) + MessagesIn(socket) + lost
            /\ after = Len(packet') + MessagesIn(socket') + lost'
      <4>1. Len(packet) + MessagesIn(socket) + lost \in Int
        BY <1>2
      <4>2. Len(packet') + MessagesIn(socket') + lost' \in Int
        BY <1>4
      <4> QED BY <4>1, <4>2
    <3>2. PICK u \in Int, x \in Int : u = Len(unread) /\ x = Samples
      BY <1>2, <2>2
    <3>3. after = before + 1 /\ sent = before + u + x
      BY <1>2, <2>3, <3>1, <3>2
    <3>4. sent' = after + u + x
      BY <2>1, <3>2, <3>3
    <3> QED BY <2>1, <2>2, <3>1, <3>2, <3>4
  <2>5. AtWork' /\ Reported'
    BY <1>1, <1>9, <2>1 DEF AtWork, AtRest, Reported, Returned
  <2> QED BY <1>6, <2>4, <2>5
<1>11. CASE PublishEnd
  <2>1. /\ publisher = "publishing" /\ publisher' = "flushed" /\ packet' = << >>
        /\ UNCHANGED <<receiver, unread, received, snapshot, pending, running, starts, stats,
                       sent>>
    BY <1>11 DEF PublishEnd, vars, userVars, receiverVars
  <2>2. Samples' = Samples /\ Samples \in Int /\ Len(packet') = 0
    BY <1>2, <2>1 DEF Samples
  <2>3. MessagesIn(socket') + lost' = MessagesIn(socket) + lost + Len(packet)
    <3>1. CASE packet = << >> /\ UNCHANGED socketVars
      BY <1>2, <3>1 DEF socketVars
    <3>2. CASE Send(packet)
      BY <1>1, <3>2, SentIsCounted
    <3> QED BY <1>11, <3>1, <3>2 DEF PublishEnd
  <2>4. Placed'
    BY <1>2, <1>4, <2>1, <2>2, <2>3
  <2>5. AtWork' /\ Reported'
    BY <1>1, <2>1 DEF AtWork, Reported, Returned
  <2> QED BY <1>6, <2>4, <2>5
<1>12. CASE PublisherExit
  <2>1. /\ publisher = "flushed"
        /\ UNCHANGED <<packet, sent, socketVars, receiver, unread, received, snapshot,
                       pending, running, starts, stats>>
    BY <1>12 DEF PublisherExit, vars, userVars, receiverVars
  <2> QED BY <1>1, <1>2, <1>6, <2>1 DEF AtWork, Reported, Returned, Samples, socketVars
<1>13. CASE Receive
  <2>1. /\ receiver = "receiving" /\ receiver' = "unpacking" /\ Recv(unread')
        /\ UNCHANGED <<publisher, packet, sent, received, snapshot, pending, running, starts,
                       stats>>
    BY <1>13 DEF Receive, vars, userVars, publisherVars
  <2>2. unread = << >> /\ Samples' = Samples /\ Samples \in Int /\ Len(unread) = 0
    BY <1>1, <1>2, <2>1 DEF AtWork, Samples
  <2>3. MessagesIn(socket) + lost = Len(unread') + MessagesIn(socket') + lost'
    BY <1>1, <2>1, ReceivedIsCounted
  <2>4. Placed'
    <3>1. sent = Len(packet) + MessagesIn(socket) + lost + 0 + Samples
      BY <1>2, <2>2
    <3>2. sent = Len(packet) + MessagesIn(socket') + lost' + Len(unread') + Samples
      <4>1. PICK before \in Int, after \in Int, gone \in Int, still \in Int, taken \in Int,
                 held \in Int, counted \in Int :
              /\ before = MessagesIn(socket) /\ after = MessagesIn(socket')
              /\ gone = lost /\ still = lost' /\ taken = Len(unread')
              /\ held = Len(packet) /\ counted = Samples
        BY <1>2, <1>4, <2>2
      <4>2. sent = held + before + gone + 0 + counted /\ before + gone = taken + after + still
        BY <2>3, <3>1, <4>1
      <4>3. sent = held + after + still + taken + counted
        BY <4>2
      <4> QED BY <4>1, <4>3
    <3>3. sent' = sent /\ Len(packet') = Len(packet)
      BY <2>1
    <3> QED BY <2>2, <3>2, <3>3
  <2>5. AtWork' /\ Reported'
    BY <1>1, <2>1 DEF AtWork, Reported, Returned
  <2> QED BY <1>6, <2>4, <2>5
<1>14. CASE Unpack
  <2>1. /\ receiver = "unpacking" /\ unread # << >> /\ unread' = Tail(unread)
        /\ pending = NoMessage /\ pending' = Head(unread)
        /\ UNCHANGED <<publisher, packet, sent, socketVars, receiver, received, snapshot,
                       running, starts, stats>>
    BY <1>14 DEF Unpack, userVars, publisherVars
  <2>2. pending' # NoMessage /\ Len(unread') = Len(unread) - 1
    BY <1>2, <2>1, NothingIsNotSomething
  <2>3. Samples = received /\ Samples' = received + 1
    BY <1>2, <2>1, <2>2 DEF Samples
  <2>4. Placed'
    <3>1. PICK p \in Int, k \in Int, l \in Int, u \in Int, r \in Int :
            /\ p = Len(packet) /\ k = MessagesIn(socket) /\ l = lost
            /\ u = Len(unread) /\ r = received
      BY <1>2
    <3>2. sent = p + k + l + u + r
      BY <1>2, <2>3, <3>1
    <3>3. sent = p + k + l + (u - 1) + (r + 1)
      BY <3>2
    <3>4. /\ Len(packet') = p /\ MessagesIn(socket') = k /\ lost' = l
          /\ Len(unread') = u - 1 /\ Samples' = r + 1 /\ sent' = sent
      BY <2>1, <2>2, <2>3, <3>1 DEF socketVars
    <3> QED BY <3>3, <3>4
  <2>5. AtWork' /\ Reported'
    BY <1>1, <2>1 DEF AtWork, Reported, Returned
  <2> QED BY <1>6, <2>4, <2>5
<1>15. CASE Dispatch
  <2>1. /\ pending # NoMessage /\ pending' = NoMessage /\ received' = received + 1
        /\ UNCHANGED <<publisher, packet, sent, socketVars, receiver, unread, snapshot,
                       running, starts, stats>>
    BY <1>15 DEF Dispatch, DispatchAccepted, DispatchRefused, userVars, publisherVars
  <2>2. receiver = "unpacking"
    BY <1>1, <2>1 DEF AtWork
  <2>3. Samples = received + 1 /\ Samples' = received + 1
    BY <1>2, <2>1 DEF Samples
  <2>4. Placed'
    BY <1>2, <2>1, <2>3 DEF socketVars
  <2>5. ~Returned
    BY <1>9, <2>2 DEF AtRest
  <2>6. AtWork' /\ Reported'
    BY <1>1, <2>1, <2>2, <2>5 DEF AtWork, Reported, Returned
  <2> QED BY <1>6, <2>4, <2>6
<1>16. CASE EndDatagram
  <2>1. /\ unread = << >> /\ pending = NoMessage /\ snapshot' = received
        /\ UNCHANGED <<publisher, packet, sent, socketVars, unread, received, pending,
                       running, starts, stats>>
    BY <1>16 DEF EndDatagram, vars, userVars, publisherVars
  <2> QED BY <1>1, <1>2, <1>6, <2>1 DEF AtWork, Reported, Returned, Samples, socketVars
<1>17. CASE ReceiveTimesOut \/ ReceiverChecksDone
  <2>1. /\ receiver # "unpacking" /\ receiver' # "unpacking"
        /\ UNCHANGED <<publisher, packet, sent, socketVars, unread, received, snapshot,
                       pending, running, starts, stats>>
    BY <1>17 DEF ReceiveTimesOut, ReceiverChecksDone, vars, userVars, publisherVars
  <2> QED BY <1>1, <1>2, <1>6, <2>1 DEF AtWork, Reported, Returned, Samples, socketVars
<1>18. CASE StartFeed
  <2>1. /\ ~running /\ running' = TRUE
        /\ packet' = << >> /\ unread' = << >> /\ receiver' = "receiving"
        /\ publisher' = "publishing"
        /\ UNCHANGED <<sent, socketVars, received, snapshot, pending>>
    BY <1>18 DEF StartFeed, vars
  <2>2. packet = << >> /\ unread = << >> /\ pending = NoMessage /\ snapshot = received
    BY <1>1, <1>8, <2>1 DEF ThreadsInv, OwnerInv
  <2> QED BY <1>1, <1>2, <1>6, <2>1, <2>2 DEF AtWork, Reported, Returned, Samples, socketVars
<1>19. CASE WaitReturns
  <2>1. /\ running' = FALSE
        /\ stats' = IF running THEN [sent |-> sent, received |-> received] ELSE stats
        /\ UNCHANGED <<publisher, packet, sent, socketVars, receiver, unread, received,
                       snapshot, pending, starts>>
    BY <1>19 DEF WaitReturns, vars, threadVars, publisherVars, receiverVars
  <2> QED BY <1>1, <1>2, <1>6, <2>1 DEF AtWork, Reported, Returned, Samples, socketVars
<1>20. CASE \/ Construct \/ ConstructFails \/ Poll \/ Wait \/ Destroy \/ JoinPublisher
            \/ JoinReceiver \/ PollEnds \/ Drain \/ \E s \in Shard : Worker(s)
            \/ UNCHANGED liveVars
  <2>1. UNCHANGED <<publisher, packet, sent, socketVars, receiver, unread, received, snapshot,
                    pending, running, starts, stats>>
    <3>1. CASE Construct
      BY <3>1 DEF Construct, Start, publisherVars
    <3>2. CASE Drain
      BY <3>2 DEF Drain, DrainBegin, DrainStep, DrainShard, RaiseStop, Join, userVars,
         threadVars, publisherVars, receiverVars
    <3>3. CASE \E s \in Shard : Worker(s)
      BY <3>3 DEF Worker, WorkerStep, WorkerPop, WorkerApply, WorkerFindsEmpty,
         WorkerChecksStop, userVars, threadVars, publisherVars, receiverVars
    <3>4. CASE \/ ConstructFails \/ Poll \/ Wait \/ Destroy \/ JoinPublisher \/ JoinReceiver
               \/ PollEnds
      BY <3>4 DEF ConstructFails, Poll, Wait, Destroy, JoinPublisher, JoinReceiver, PollEnds,
         vars, threadVars, publisherVars, receiverVars
    <3>5. CASE UNCHANGED liveVars
      BY <3>5 DEF liveVars, vars, userVars, threadVars, publisherVars, receiverVars
    <3> QED BY <1>20, <3>1, <3>2, <3>3, <3>4, <3>5
  <2> QED BY <1>6, <1>7, <2>1
<1> QED BY <1>10, <1>11, <1>12, <1>13, <1>14, <1>15, <1>16, <1>17, <1>18, <1>19, <1>20
        DEF LiveNext, Publisher, Receiver, Owner, InsideCall

LEMMA CountedInvHolds == LiveSpec => []CountedInv
<1>1. CountedInv /\ [LiveNext]_liveVars => CountedInv'
  BY CountedStep
<1> QED BY <1>1, CountedInit, PTL DEF LiveSpec

\* Every message published is in exactly one place, and every one received was
\* accepted by a shard or refused by a full one, over any number of runs.
THEOREM NothingUnaccountedHolds == LiveSpec => []NothingUnaccounted
<1>1. CountedInv => NothingUnaccounted
  BY DEF CountedInv
<1> QED BY <1>1, CountedInvHolds, PTL

\* When a run has ended its statistics agree with received_so_far, and what they
\* do not count was lost or is still in the socket.
THEOREM StatsAddUpHolds == LiveSpec => []StatsAddUp
<1>1. ASSUME CountedInv PROVE StatsAddUp
  <2> SUFFICES ASSUME Returned
               PROVE  /\ stats = [sent |-> sent, received |-> received]
                      /\ snapshot = stats.received
                      /\ stats.sent = stats.received + lost + MessagesIn(socket)
    BY DEF StatsAddUp
  <2>1. AtRest /\ stats = [sent |-> sent, received |-> received]
    BY <1>1 DEF CountedInv, ThreadsInv, OwnerInv, Returned, Reported
  <2>2. packet = << >> /\ unread = << >> /\ pending = NoMessage /\ snapshot = received
    BY <1>1, <2>1 DEF CountedInv, AtWork, AtRest
  <2>3. Samples = received /\ Len(packet) = 0 /\ Len(unread) = 0
    BY <1>1, <2>2 DEF Samples, CountedInv, TypedLive, LiveTypeOK
  <2>4. lost \in Nat /\ received \in Nat /\ MessagesIn(socket) \in Int
    BY <1>1, MessagesInIsNat DEF CountedInv, TypedLive, LiveTypeOK
  <2>5. sent = 0 + MessagesIn(socket) + lost + 0 + received
    BY <1>1, <2>3 DEF CountedInv, NothingUnaccounted
  <2> QED BY <2>1, <2>2, <2>4, <2>5
<1> QED BY <1>1, CountedInvHolds, PTL

-----------------------------------------------------------------------------
(***************************************************************************)
(* A feed that is started once.  While its threads are at work the         *)
(* normalizer is running, so that the receiver's dispatches come before    *)
(* the drain, as Normalizer wants them; and nothing was sent before, so    *)
(* that the samples reserved by the constructor are enough.                *)
(***************************************************************************)
NotYetStarted ==
  /\ user \in {"constructing", "idle", "drain", "destroyed"}
  /\ user = "idle" => mpc = "running"
  /\ user = "drain" => destroying
  /\ publisher = "none" /\ receiver = "none" /\ ~running /\ sent = 0
  /\ nextOrderId = 1 /\ liveOrders = [i \in Instrument |-> {}]

FirstRun ==
  /\ starts = 0 => NotYetStarted
  /\ ~AtRest => mpc = "running" /\ latencyRoom = Capacity
  /\ user \notin {"constructing", "destroyed"} => latencyRoom = Capacity
  /\ sent <= toSend /\ toSend <= Capacity
  /\ publisher = "publishing" => sent = generated
  /\ Returned => drained

\* To the instrument that owns them belong the ids of all messages on their way.
AllOwned(owner, next, q) == \A k \in 1 .. Len(q) : Owns(owner, next, q[k])

InFlightOwned(owner, next) ==
  /\ AllOwned(owner, next, packet) /\ AllOwned(owner, next, unread)
  /\ \A k \in 1 .. Len(socket) : AllOwned(owner, next, socket[k])

OwnedInv ==
  \E owner : /\ Routed(owner, nextOrderId) /\ LiveAreOwned(owner)
             /\ InFlightOwned(owner, nextOrderId)

LiveInv == CountedInv /\ (starts <= 1 => FirstRun /\ Drained /\ OwnedInv)

LEMMA LiveInvInit == LiveInit => LiveInv
<1> SUFFICES ASSUME LiveInit PROVE LiveInv
  OBVIOUS
<1>1. FirstRun
  BY LiveAssumption DEF LiveInit, Init, SimInit, FirstRun, NotYetStarted, AtRest, Returned
<1>2. OwnedInv
  <2>1. Routed(0, nextOrderId)
    BY RoutedInit DEF LiveInit
  <2>2. LiveAreOwned(0)
    BY DEF LiveInit, SimInit, LiveAreOwned
  <2>3. packet = << >> /\ unread = << >> /\ socket = << >>
    BY DEF LiveInit, SocketInit
  <2>4. InFlightOwned(0, nextOrderId)
    BY <2>3 DEF InFlightOwned, AllOwned
  <2> QED BY <2>1, <2>2, <2>4 DEF OwnedInv
<1> QED BY <1>1, <1>2, CountedInit, DrainedInit DEF LiveInv, LiveInit

\* Only start() counts a start, and only it and the publisher's turns, its own
\* simulator's, touch the simulator.
LEMMA StartsAndSimulator ==
  ASSUME [LiveNext]_liveVars
  PROVE  /\ StartFeed \/ starts' = starts
         /\ StartFeed \/ PublishMessage \/ UNCHANGED simVars
<1>1. CASE Publisher
  BY <1>1 DEF Publisher, PublishMessage, PublishEnd, PublisherExit, userVars
<1>2. CASE Receiver
  BY <1>2 DEF Receiver, Receive, Unpack, Dispatch, EndDatagram, ReceiveTimesOut,
     ReceiverChecksDone, userVars
<1>3. CASE Owner
  BY <1>3 DEF Owner, Construct, ConstructFails, Poll, Wait, Destroy, InsideCall,
     JoinPublisher, JoinReceiver, Drain, WaitReturns, PollEnds, userVars
<1>4. CASE \E s \in Shard : Worker(s)
  BY <1>4 DEF Worker, userVars
<1>5. CASE UNCHANGED liveVars
  BY <1>5 DEF liveVars, userVars
<1> QED BY <1>1, <1>2, <1>3, <1>4, <1>5 DEF LiveNext

\* What is still to be unpacked was sent and has no sample yet.
LEMMA UnreadIsUnsampled ==
  ASSUME CountedInv, unread # << >>
  PROVE  Samples < sent
<1>1. PICK held \in Nat, still \in Nat, gone \in Nat, rest \in Nat, counted \in Nat :
        /\ held = Len(packet) /\ still = MessagesIn(socket) /\ gone = lost
        /\ rest = Len(unread) /\ counted = Samples
  <2>1. /\ packet \in Seq(Message) /\ unread \in Seq(Message) /\ socket \in Seq(Seq(Message))
        /\ lost \in Nat /\ received \in Nat
    BY DEF CountedInv, TypedLive, LiveTypeOK
  <2>2. /\ Len(packet) \in Nat /\ Len(unread) \in Nat /\ MessagesIn(socket) \in Nat
        /\ Samples \in Nat
    BY <2>1, MessagesInIsNat DEF Samples
  <2> QED BY <2>1, <2>2
<1>2. rest > 0
  BY <1>1 DEF CountedInv, TypedLive, LiveTypeOK
<1>3. sent = held + still + gone + rest + counted
  BY <1>1 DEF CountedInv, NothingUnaccounted
<1>4. counted < sent
  BY <1>2, <1>3
<1> QED BY <1>1, <1>4

\* The control of a feed that is started once.
LEMMA FirstRunStep ==
  ASSUME CountedInv, starts <= 1 => FirstRun, [LiveNext]_liveVars, starts' <= 1
  PROVE  FirstRun'
<1>1. /\ starts \in Nat /\ sent \in Nat /\ received \in Nat /\ toSend \in Nat
      /\ Capacity \in Nat /\ ThreadsInv /\ AtWork
  <2>1. starts \in 0 .. MaxStarts /\ MaxStarts \in Nat
    BY LiveAssumption DEF CountedInv, TypedLive, LiveTypeOK
  <2> QED BY <2>1, LiveAssumption DEF CountedInv, TypedLive, LiveTypeOK
<1>2. FirstRun /\ starts <= 1
  <2>1. starts' = starts \/ starts' = starts + 1
    BY StartsAndSimulator DEF StartFeed
  <2> QED BY <1>1, <2>1
<1> DEFINE Untouched == UNCHANGED <<publisher, receiver, sent, nextOrderId, liveOrders, starts,
                                    toSend, generated>>
<1>3. CASE PublishMessage
  <2>1. /\ publisher = "publishing" /\ generated < toSend /\ sent' = sent + 1
        /\ UNCHANGED <<publisher, receiver, starts, toSend, user, running, drained, mpc,
                       latencyRoom>>
    BY <1>3 DEF PublishMessage, vars, ownerVars, userVars, receiverVars
  <2>2. generated' = generated + 1
    <3>1. PICK i \in Instrument : NamesResting(i, message')
      BY <1>3, PublishedMessage DEF CountedInv, TypedLive
    <3> QED BY <3>1 DEF NamesResting
  <2>3. generated \in Nat
    BY DEF CountedInv, TypedLive, SimInv, SimTypeOK
  <2> QED BY <1>1, <1>2, <2>1, <2>2, <2>3 DEF FirstRun, NotYetStarted, AtRest, Returned
<1>4. CASE StartFeed
  <2>1. /\ user = "idle" /\ starts' = starts + 1 /\ toSend' \in Nat /\ toSend' <= Capacity
        /\ publisher' = "publishing" /\ generated' = 0 /\ running' = TRUE
        /\ UNCHANGED <<user, sent, mpc, latencyRoom>>
    BY <1>4, SimulatorAssumption DEF StartFeed, vars, ownerVars
  <2>2. starts = 0
    BY <1>1, <2>1
  <2> QED BY <1>1, <1>2, <2>1, <2>2 DEF FirstRun, NotYetStarted, AtRest, Returned
<1>5. CASE Unpack
  <2>1. /\ receiver = "unpacking" /\ unread # << >>
        /\ latencyRoom' = IF Samples = latencyRoom THEN 2 * latencyRoom + 1 ELSE latencyRoom
        /\ UNCHANGED <<user, running, drained, mpc, destroying>> /\ Untouched
    BY <1>5 DEF Unpack, ownerVars, userVars, publisherVars, simVars
  <2>2. latencyRoom = Capacity /\ mpc = "running" /\ starts # 0
    BY <1>2, <2>1 DEF FirstRun, NotYetStarted, AtRest
  <2>3. Samples < sent
    BY <1>5, UnreadIsUnsampled DEF Unpack
  <2>4. sent <= Capacity /\ Samples \in Nat
    BY <1>1, <1>2 DEF FirstRun, Samples
  <2>5. latencyRoom' = latencyRoom
    BY <1>1, <2>1, <2>2, <2>3, <2>4
  <2> QED BY <1>2, <2>1, <2>2, <2>5 DEF FirstRun, AtRest, Returned
<1>6. CASE PublishEnd \/ PublisherExit
  <2>1. /\ publisher \in {"publishing", "flushed"} /\ publisher' \in {"flushed", "exited"}
        /\ UNCHANGED <<user, running, drained, mpc, latencyRoom, receiver, sent, starts, toSend>>
    BY <1>6 DEF PublishEnd, PublisherExit, vars, ownerVars, userVars, receiverVars
  <2> QED BY <1>2, <2>1 DEF FirstRun, NotYetStarted, AtRest, Returned
<1>7. CASE Receive \/ Dispatch \/ EndDatagram \/ ReceiveTimesOut \/ ReceiverChecksDone
  <2>1. /\ receiver \notin {"none", "exited"}
        /\ UNCHANGED <<user, running, drained, mpc, latencyRoom, publisher, sent, starts,
                       toSend, generated>>
    <3>1. CASE Dispatch
      <4>1. receiver = "unpacking"
        BY <1>1, <3>1 DEF Dispatch, DispatchAccepted, DispatchRefused, AtWork
      <4>2. UNCHANGED <<mpc, simVars, userVars, publisherVars, receiver, latencyRoom>>
        BY <3>1 DEF Dispatch, DispatchAccepted, DispatchRefused, ownerVars
      <4> QED BY <4>1, <4>2 DEF userVars, publisherVars, simVars
    <3>2. CASE Receive \/ EndDatagram \/ ReceiveTimesOut \/ ReceiverChecksDone
      BY <3>2 DEF Receive, EndDatagram, ReceiveTimesOut, ReceiverChecksDone, vars, ownerVars,
         userVars, publisherVars, simVars
    <3> QED BY <1>7, <3>1, <3>2
  <2> QED BY <1>2, <2>1 DEF FirstRun, NotYetStarted, AtRest, Returned
<1>8. CASE Construct
  <2>1. /\ user = "constructing" /\ user' = "idle" /\ mpc' = "running"
        /\ latencyRoom' = Capacity /\ UNCHANGED <<running, drained, destroying>> /\ Untouched
    BY <1>8 DEF Construct, Start, publisherVars, simVars
  <2>2. AtRest
    BY <1>1, <2>1 DEF ThreadsInv, OwnerInv
  <2> QED BY <1>2, <2>1, <2>2 DEF FirstRun, NotYetStarted, AtRest, Returned
<1>9. CASE WaitReturns
  <2>1. /\ user = "drain" /\ drained' = TRUE /\ running' = FALSE
        /\ user' \in {"destroyed", "idle"}
        /\ destroying => user' = "destroyed"
    BY <1>9 DEF WaitReturns
  <2>2. UNCHANGED <<vars, simVars, destroying, starts, toSend, threadVars>>
    BY <1>9 DEF WaitReturns
  <2>3. UNCHANGED <<mpc, latencyRoom, destroying>> /\ Untouched
    BY <2>2 DEF vars, ownerVars, threadVars, publisherVars, receiverVars, simVars
  <2>4. AtRest' <=> AtRest
    BY <2>3 DEF AtRest
  <2>5. (starts = 0 => NotYetStarted)'
    BY <1>2, <2>1, <2>3 DEF FirstRun, NotYetStarted
  <2> QED BY <1>2, <2>1, <2>3, <2>4, <2>5 DEF FirstRun, Returned
<1>10. CASE Destroy
  <2>1. /\ user = "idle" /\ destroying' = TRUE
        /\ user' = IF running THEN "joinPublisher" ELSE IF drained THEN "destroyed" ELSE "drain"
        /\ UNCHANGED <<mpc, latencyRoom, running, drained>> /\ Untouched
    BY <1>10 DEF Destroy, vars, ownerVars, threadVars, publisherVars, receiverVars, simVars
  <2> QED BY <1>2, <2>1 DEF FirstRun, NotYetStarted, AtRest, Returned
<1>11. CASE ConstructFails
  <2>1. /\ user' = "destroyed"
        /\ UNCHANGED <<mpc, latencyRoom, running, drained, destroying>> /\ Untouched
    BY <1>11 DEF ConstructFails, vars, ownerVars, threadVars, publisherVars, receiverVars,
       simVars
  <2> QED BY <1>2, <2>1 DEF FirstRun, NotYetStarted, AtRest, Returned
<1>12. CASE Poll \/ PollEnds \/ Wait \/ JoinPublisher \/ JoinReceiver
  <2>1. /\ user \notin {"constructing", "destroyed", "drain"}
        /\ user' \in {"idle", "polling", "joinPublisher", "joinReceiver", "drain"}
        /\ user = "idle" => running
        /\ UNCHANGED <<mpc, latencyRoom, running, drained, destroying>> /\ Untouched
    BY <1>12 DEF Poll, PollEnds, Wait, JoinPublisher, JoinReceiver, vars, ownerVars, threadVars,
       publisherVars, receiverVars, simVars
  <2>2. starts # 0
    BY <1>2, <2>1 DEF FirstRun, NotYetStarted
  <2> QED BY <1>2, <2>1, <2>2 DEF FirstRun, AtRest, Returned
<1>13. CASE Drain
  <2>1. /\ user = "drain" /\ UNCHANGED <<user, latencyRoom, running, drained, destroying>>
        /\ Untouched
    BY <1>13 DEF Drain, userVars, threadVars, publisherVars, receiverVars, simVars
  <2>2. AtRest
    BY <1>1, <2>1 DEF ThreadsInv, OwnerInv
  <2> QED BY <1>2, <2>1, <2>2 DEF FirstRun, NotYetStarted, AtRest, Returned
<1>14. CASE (\E s \in Shard : Worker(s)) \/ UNCHANGED liveVars
  <2>1. /\ UNCHANGED <<user, latencyRoom, running, drained, destroying, mpc>> /\ Untouched
    <3>1. CASE \E s \in Shard : Worker(s)
      BY <3>1 DEF Worker, WorkerStep, WorkerPop, WorkerApply, WorkerFindsEmpty,
         WorkerChecksStop, userVars, threadVars, publisherVars, receiverVars, simVars, ownerVars
    <3>2. CASE UNCHANGED liveVars
      BY <3>2 DEF liveVars, vars, userVars, threadVars, publisherVars, receiverVars, simVars,
         ownerVars
    <3> QED BY <1>14, <3>1, <3>2
  <2> QED BY <1>2, <2>1 DEF FirstRun, NotYetStarted, AtRest, Returned
<1> QED BY <1>3, <1>4, <1>5, <1>6, <1>7, <1>8, <1>9, <1>10, <1>11, <1>12, <1>13, <1>14
        DEF LiveNext, Publisher, Receiver, Owner, InsideCall

\* While a feed is started once, the normalizer sees a caller like any other.
LEMMA FirstRunIsNext ==
  ASSUME TypedLive, AtWork, FirstRun, [LiveNext]_liveVars
  PROVE  [Next]_vars
<1>1. CASE Unpack /\ Takes(Head(unread))
  <2>1. Head(unread) \in Message /\ receiver = "unpacking"
    BY <1>1 DEF Unpack, TypedLive, LiveTypeOK
  <2>2. mpc = "running"
    BY <2>1 DEF FirstRun, AtRest
  <2>3. Fetch(Head(unread))
    BY <1>1, <2>2 DEF Takes, Fetch
  <2> QED BY <2>1, <2>3 DEF Next
<1> QED BY <1>1, StepOfNormalizer DEF Next

\* With more ids given away, messages keep their owners.
LEMMA OwnersStay ==
  ASSUME NEW owner, NEW next, NEW newer, NEW after,
         \A id \in OrderId : id < next => id < after /\ newer[id] = owner[id]
  PROVE  /\ \A m \in Message : Owns(owner, next, m) => Owns(newer, after, m)
         /\ \A q \in Seq(Message) : AllOwned(owner, next, q) => AllOwned(newer, after, q)
<1>1. ASSUME NEW m \in Message, Owns(owner, next, m) PROVE Owns(newer, after, m)
  <2>1. m # NoMessage /\ m.id \in OrderId /\ (m.type = "Replace" => m.newId \in OrderId)
    BY MessageKinds, NothingIsNotSomething DEF ReplaceMsg
  <2> QED BY <1>1, <2>1 DEF Owns
<1>2. ASSUME NEW q \in Seq(Message), AllOwned(owner, next, q) PROVE AllOwned(newer, after, q)
  BY <1>1, <1>2 DEF AllOwned
<1> QED BY <1>1, <1>2

\* sendto() keeps them too.
LEMMA SentStaysOwned ==
  ASSUME TypedLive, NEW owner, NEW next, AllOwned(owner, next, packet),
         \A k \in 1 .. Len(socket) : AllOwned(owner, next, socket[k]), Send(packet)
  PROVE  \A k \in 1 .. Len(socket') : AllOwned(owner, next, socket'[k])
<1>1. socket \in Seq(Seq(Message)) /\ packet \in Seq(Message)
  BY DEF TypedLive, LiveTypeOK
<1>2. CASE socket' = Append(socket, packet)
  BY <1>1, <1>2
<1>3. CASE UNCHANGED socket
  BY <1>3
<1> QED BY <1>2, <1>3 DEF Send

\* The publisher's turn: the instrument of the message owns its new id.
LEMMA PublishKeepsOwned ==
  ASSUME TypedLive, OwnedInv, PublishMessage
  PROVE  OwnedInv'
<1>1. PICK owner : /\ Routed(owner, nextOrderId) /\ LiveAreOwned(owner)
                   /\ InFlightOwned(owner, nextOrderId)
  BY DEF OwnedInv
<1>2. /\ SimInv /\ TypedBooks /\ packet \in Seq(Message) /\ unread \in Seq(Message)
      /\ socket \in Seq(Seq(Message)) /\ pending \in Message \cup {NoMessage}
  BY DEF TypedLive, LiveTypeOK, TypedBooks, TypeOK
<1>3. PICK i \in Instrument : Follows(i, message') /\ NamesResting(i, message')
  BY <1>2, PublishedMessage
<1>4. message' \in Message
  BY <1>3 DEF Follows
<1>5. PICK newer : /\ \A id \in OrderId :
                        id < nextOrderId => id < nextOrderId' /\ newer[id] = owner[id]
                   /\ Owns(newer, nextOrderId', message')
                   /\ \A j \in Instrument : \A order \in liveOrders'[j] :
                        newer[order.id] = j
  BY <1>1, <1>2, <1>3, OwnerOfNext
<1>6. PICK next : next = nextOrderId
  OBVIOUS
<1>7. PICK after : after = nextOrderId'
  OBVIOUS
<1>8. /\ \A id \in OrderId : id < next => id < after /\ newer[id] = owner[id]
      /\ Owns(newer, after, message')
      /\ Routed(owner, next) /\ InFlightOwned(owner, next)
  BY <1>1, <1>5, <1>6, <1>7
<1>9. UNCHANGED <<orders, books, item, queue, reference, pending, unread>>
  BY DEF PublishMessage, vars, shardVars, workerVars, dispatchVars, receiverVars
<1>9a. /\ \A m \in Message : Owns(owner, next, m) => Owns(newer, after, m)
       /\ \A q \in Seq(Message) : AllOwned(owner, next, q) => AllOwned(newer, after, q)
  BY <1>8, OwnersStay
<1>10. Routed(newer, after)'
  <2>1. Owns(owner, next, pending)
    BY <1>8 DEF Routed
  <2>2. Owns(newer, after, pending')
    BY <1>2, <1>9, <1>9a, <2>1 DEF Owns
  <2> QED BY <1>2, <1>8, <1>9, <2>2, RoutedFetch
<1>11. /\ AllOwned(newer, after, packet) /\ AllOwned(newer, after, unread)
       /\ \A k \in 1 .. Len(socket) : AllOwned(newer, after, socket[k])
  <2>1. /\ AllOwned(owner, next, packet) /\ AllOwned(owner, next, unread)
        /\ \A k \in 1 .. Len(socket) : AllOwned(owner, next, socket[k])
    BY <1>8 DEF InFlightOwned
  <2>2. \A k \in 1 .. Len(socket) : socket[k] \in Seq(Message)
    BY <1>2
  <2> QED BY <1>2, <1>9a, <2>1, <2>2
<1>12. /\ AllOwned(newer, after, packet')
       /\ \A k \in 1 .. Len(socket') : AllOwned(newer, after, socket'[k])
  <2>1. CASE Send(packet) /\ packet' = <<message'>>
    <3>1. AllOwned(newer, after, packet')
      BY <1>8, <2>1 DEF AllOwned
    <3> QED BY <1>11, <2>1, <3>1, SentStaysOwned
  <2>2. CASE packet' = Append(packet, message') /\ UNCHANGED socketVars
    <3>1. /\ Len(packet') = Len(packet) + 1 /\ Len(packet) \in Nat
          /\ \A k \in 1 .. Len(packet) + 1 :
               packet'[k] = IF k = Len(packet) + 1 THEN message' ELSE packet[k]
      BY <1>2, <2>2
    <3>2. AllOwned(newer, after, packet')
      BY <1>8, <1>11, <3>1 DEF AllOwned
    <3> QED BY <1>11, <2>2, <3>2 DEF socketVars
  <2> QED BY <2>1, <2>2 DEF PublishMessage
<1>13. InFlightOwned(newer, after)'
  BY <1>9, <1>11, <1>12 DEF InFlightOwned, AllOwned
<1>14. LiveAreOwned(newer)'
  BY <1>5 DEF LiveAreOwned
<1>15. Routed(newer, nextOrderId)' /\ InFlightOwned(newer, nextOrderId)'
  BY <1>7, <1>10, <1>13
<1> QED BY <1>14, <1>15 DEF OwnedInv

\* From the packet to the socket, from there to the receiver, from there to dispatch().
LEMMA MovesKeepOwned ==
  ASSUME TypedLive, OwnedInv, PublishEnd \/ Receive \/ Unpack
  PROVE  OwnedInv'
<1>1. PICK owner : /\ Routed(owner, nextOrderId) /\ LiveAreOwned(owner)
                   /\ InFlightOwned(owner, nextOrderId)
  BY DEF OwnedInv
<1>2. PICK next : next = nextOrderId
  OBVIOUS
<1>3. /\ packet \in Seq(Message) /\ unread \in Seq(Message) /\ socket \in Seq(Seq(Message))
      /\ TypedBooks
      /\ Routed(owner, next) /\ AllOwned(owner, next, packet) /\ AllOwned(owner, next, unread)
      /\ \A k \in 1 .. Len(socket) : AllOwned(owner, next, socket[k])
  BY <1>1, <1>2 DEF TypedLive, LiveTypeOK, InFlightOwned
<1>4. UNCHANGED <<orders, books, item, queue, reference, nextOrderId, liveOrders>>
  BY DEF PublishEnd, Receive, Unpack, vars, shardVars, workerVars, dispatchVars, simVars
<1>5. /\ AllOwned(owner, next, packet') /\ AllOwned(owner, next, unread')
      /\ \A k \in 1 .. Len(socket') : AllOwned(owner, next, socket'[k])
      /\ Owns(owner, next, pending')
  <2>1. Owns(owner, next, pending)
    BY <1>3 DEF Routed
  <2>2. CASE PublishEnd
    <3>1. packet' = << >> /\ UNCHANGED <<unread, pending>>
      BY <2>2 DEF PublishEnd, vars, receiverVars
    <3>2. \A k \in 1 .. Len(socket') : AllOwned(owner, next, socket'[k])
      <4>1. CASE UNCHANGED socketVars
        BY <1>3, <4>1 DEF socketVars
      <4>2. CASE Send(packet)
        BY <1>3, <4>2, SentStaysOwned
      <4> QED BY <2>2, <4>1, <4>2 DEF PublishEnd
    <3> QED BY <1>3, <2>1, <3>1, <3>2 DEF AllOwned
  <2>3. CASE Receive
    <3>1. /\ socket # << >> /\ unread' = Head(socket) /\ socket' = Tail(socket)
          /\ UNCHANGED <<packet, pending>>
      BY <2>3 DEF Receive, Recv, vars, publisherVars
    <3>2. /\ Len(socket) \in Nat /\ Len(socket) >= 1 /\ unread' = socket[1]
          /\ Len(socket') = Len(socket) - 1
          /\ \A k \in 1 .. Len(socket) - 1 : socket'[k] = socket[k + 1]
      BY <1>3, <3>1
    <3>3. AllOwned(owner, next, unread')
      BY <1>3, <3>2
    <3>4. \A k \in 1 .. Len(socket') : AllOwned(owner, next, socket'[k])
      <4> SUFFICES ASSUME NEW k \in 1 .. Len(socket') PROVE AllOwned(owner, next, socket'[k])
        OBVIOUS
      <4>1. socket'[k] = socket[k + 1] /\ k + 1 \in 1 .. Len(socket)
        BY <3>2
      <4> QED BY <1>3, <4>1
    <3> QED BY <1>3, <2>1, <3>1, <3>3, <3>4
  <2>4. CASE Unpack
    <3>1. /\ unread # << >> /\ unread' = Tail(unread) /\ pending' = Head(unread)
          /\ UNCHANGED <<packet, socket>>
      BY <2>4 DEF Unpack, publisherVars, socketVars
    <3>2. /\ Len(unread) \in Nat /\ Len(unread) >= 1 /\ pending' = unread[1]
          /\ Len(unread') = Len(unread) - 1
          /\ \A k \in 1 .. Len(unread) - 1 : unread'[k] = unread[k + 1]
      BY <1>3, <3>1
    <3>3. Owns(owner, next, pending')
      BY <1>3, <3>2 DEF AllOwned
    <3>4. AllOwned(owner, next, unread')
      <4> SUFFICES ASSUME NEW k \in 1 .. Len(unread') PROVE Owns(owner, next, unread'[k])
        BY DEF AllOwned
      <4>1. unread'[k] = unread[k + 1] /\ k + 1 \in 1 .. Len(unread)
        BY <3>2
      <4> QED BY <1>3, <4>1 DEF AllOwned
    <3> QED BY <1>3, <3>1, <3>3, <3>4
  <2> QED BY <2>2, <2>3, <2>4
<1>6. Routed(owner, next)'
  BY <1>3, <1>4, <1>5, RoutedFetch
<1>7. InFlightOwned(owner, next)'
  BY <1>5 DEF InFlightOwned, AllOwned
<1>8. LiveAreOwned(owner)'
  BY <1>1, <1>4 DEF LiveAreOwned
<1>9. next = nextOrderId'
  BY <1>2, <1>4
<1>10. Routed(owner, nextOrderId)' /\ InFlightOwned(owner, nextOrderId)'
  BY <1>6, <1>7, <1>9
<1> QED BY <1>8, <1>10 DEF OwnedInv

\* The steps that move no message, and those of the normalizer's threads.
LEMMA OthersKeepOwned ==
  ASSUME TypedLive, OwnedInv, NormalizerStep \/ UNCHANGED vars, [LiveNext]_liveVars,
         ~PublishMessage, ~PublishEnd, ~Receive, ~Unpack, ~StartFeed
  PROVE  OwnedInv'
<1>1. PICK owner : /\ Routed(owner, nextOrderId) /\ LiveAreOwned(owner)
                   /\ InFlightOwned(owner, nextOrderId)
  BY DEF OwnedInv
<1>2. PICK next : next = nextOrderId
  OBVIOUS
<1>3. Routed(owner, next) /\ InFlightOwned(owner, next) /\ TypedBooks
  BY <1>1, <1>2 DEF TypedLive
<1>4. UNCHANGED simVars
  BY StartsAndSimulator
<1>5. UNCHANGED <<packet, unread, socket>>
  <2>2. CASE Publisher
    BY <2>2 DEF Publisher, PublisherExit, socketVars, receiverVars
  <2>3. CASE Receiver
    BY <2>3 DEF Receiver, Dispatch, EndDatagram, ReceiveTimesOut, ReceiverChecksDone,
       publisherVars, socketVars
  <2>4. CASE Owner
    BY <2>4 DEF Owner, Construct, ConstructFails, Poll, Wait, Destroy, InsideCall,
       JoinPublisher, JoinReceiver, Drain, WaitReturns, PollEnds, threadVars, publisherVars,
       socketVars, receiverVars
  <2>5. CASE \E s \in Shard : Worker(s)
    BY <2>5 DEF Worker, threadVars, publisherVars, socketVars, receiverVars
  <2>6. CASE UNCHANGED liveVars
    BY <2>6 DEF liveVars, threadVars, publisherVars, socketVars, receiverVars
  <2> QED BY <2>2, <2>3, <2>4, <2>5, <2>6 DEF LiveNext
<1>6. Routed(owner, next)'
  <2>1. CASE NormalizerStep
    BY <1>3, <2>1, RoutedStep
  <2>2. CASE UNCHANGED vars
    <3>1. UNCHANGED <<orders, books, item, queue, reference, pending>>
      BY <2>2 DEF vars, shardVars, workerVars, dispatchVars
    <3>2. Owns(owner, next, pending')
      BY <1>3, <3>1 DEF Routed
    <3> QED BY <1>3, <3>1, <3>2, RoutedFetch
  <2> QED BY <2>1, <2>2
<1>7. InFlightOwned(owner, next)'
  BY <1>3, <1>5 DEF InFlightOwned, AllOwned
<1>8. LiveAreOwned(owner)' /\ next = nextOrderId'
  BY <1>1, <1>2, <1>4 DEF LiveAreOwned, simVars
<1>9. Routed(owner, nextOrderId)' /\ InFlightOwned(owner, nextOrderId)'
  BY <1>6, <1>7, <1>8
<1> QED BY <1>8, <1>9 DEF OwnedInv

\* The first start(): the simulator is as new as the constructor's.
LEMMA StartKeepsOwned ==
  ASSUME TypedLive, OwnedInv, NotYetStarted, StartFeed
  PROVE  OwnedInv'
<1>1. PICK owner : /\ Routed(owner, nextOrderId) /\ LiveAreOwned(owner)
                   /\ InFlightOwned(owner, nextOrderId)
  BY DEF OwnedInv
<1>2. PICK next : next = nextOrderId
  OBVIOUS
<1>3. Routed(owner, next) /\ InFlightOwned(owner, next) /\ TypedBooks
  BY <1>1, <1>2 DEF TypedLive
<1>4. /\ nextOrderId' = 1 /\ liveOrders' = [i \in Instrument |-> {}]
      /\ packet' = << >> /\ unread' = << >> /\ UNCHANGED <<vars, socketVars>>
  BY DEF StartFeed
<1>5. UNCHANGED <<orders, books, item, queue, reference, pending, socket>>
  BY <1>4 DEF vars, shardVars, workerVars, dispatchVars, socketVars
<1>6. Owns(owner, next, pending')
  BY <1>3, <1>5 DEF Routed
<1>7. Routed(owner, next)'
  BY <1>3, <1>5, <1>6, RoutedFetch
<1>8. InFlightOwned(owner, next)'
  BY <1>3, <1>4, <1>5 DEF InFlightOwned, AllOwned
<1>9. LiveAreOwned(owner)' /\ next = nextOrderId'
  BY <1>2, <1>4 DEF LiveAreOwned, NotYetStarted
<1>10. Routed(owner, nextOrderId)' /\ InFlightOwned(owner, nextOrderId)'
  BY <1>7, <1>8, <1>9
<1> QED BY <1>9, <1>10 DEF OwnedInv

\* Every step keeps what is known of a feed that is started once.
LEMMA LiveInvStep ==
  ASSUME LiveInv, [LiveNext]_liveVars
  PROVE  LiveInv'
<1>1. CountedInv /\ (starts <= 1 => FirstRun /\ Drained /\ OwnedInv)
  BY DEF LiveInv
<1>2. CountedInv'
  BY <1>1, CountedStep
<1>3. TypedLive /\ AtWork /\ TypedBooks /\ TypeOK /\ starts \in Nat
  <2>1. starts \in 0 .. MaxStarts /\ MaxStarts \in Nat
    BY <1>1, LiveAssumption DEF CountedInv, TypedLive, LiveTypeOK
  <2> QED BY <1>1, <2>1 DEF CountedInv, TypedLive, TypedBooks
<1>4. ASSUME starts' <= 1 PROVE FirstRun' /\ Drained' /\ OwnedInv'
  <2>1. starts <= 1 /\ FirstRun /\ Drained /\ OwnedInv
    <3>1. starts' = starts \/ starts' = starts + 1
      BY StartsAndSimulator DEF StartFeed
    <3>2. starts <= 1
      BY <1>3, <1>4, <3>1
    <3> QED BY <1>1, <3>2
  <2>2. FirstRun'
    BY <1>1, <1>4, FirstRunStep
  <2>3. [Next]_vars
    BY <1>3, <2>1, FirstRunIsNext
  <2>4. Drained'
    BY <1>3, <2>1, <2>3, DrainedStep
  <2>5. OwnedInv'
    <3>1. CASE PublishMessage
      BY <1>3, <2>1, <3>1, PublishKeepsOwned
    <3>2. CASE PublishEnd \/ Receive \/ Unpack
      BY <1>3, <2>1, <3>2, MovesKeepOwned
    <3>3. CASE StartFeed
      <4>1. starts = 0
        BY <1>3, <1>4, <3>3 DEF StartFeed
      <4>2. NotYetStarted
        BY <2>1, <4>1 DEF FirstRun
      <4> QED BY <1>3, <2>1, <3>3, <4>2, StartKeepsOwned
    <3>4. CASE ~PublishMessage /\ ~PublishEnd /\ ~Receive /\ ~Unpack /\ ~StartFeed
      BY <1>3, <2>1, <3>4, StepOfNormalizer, OthersKeepOwned
    <3> QED BY <3>1, <3>2, <3>3, <3>4
  <2> QED BY <2>2, <2>4, <2>5
<1> QED BY <1>2, <1>4 DEF LiveInv

LEMMA LiveInvHolds == LiveSpec => []LiveInv
<1>1. LiveInv /\ [LiveNext]_liveVars => LiveInv'
  BY LiveInvStep
<1> QED BY <1>1, LiveInvInit, PTL DEF LiveSpec

\* When the wait() of a feed that was started once returns, nothing is queued or
\* being applied and every book is the replay of what was accepted, for any number
\* of shards and messages, any queues and socket.  A second run breaks it.
THEOREM WaitQuiescesOnce == LiveSpec => [](starts <= 1 => WaitQuiesces)
<1>1. ASSUME LiveInv, starts <= 1 PROVE WaitQuiesces
  <2> SUFFICES ASSUME Returned
               PROVE  /\ \A s \in Shard : queue[s] = << >> /\ item[s] = NoMessage
                      /\ \A i \in Instrument : books[ShardOf(i)][i] = reference.books[i]
    BY DEF WaitQuiesces
  <2>1. Drained /\ OwnedInv /\ mpc = "stopped" /\ TypeOK
    BY <1>1 DEF LiveInv, FirstRun, CountedInv, ThreadsInv, OwnerInv, TypedLive, TypedBooks
  <2>2. \A s \in Shard : queue[s] = << >> /\ item[s] = NoMessage
    <3> SUFFICES ASSUME NEW s \in Shard PROVE queue[s] = << >> /\ item[s] = NoMessage
      OBVIOUS
    <3>1. queue[s] = << >> /\ worker[s] = "exited"
      BY <2>1 DEF Drained, QueuesDrained, WorkersJoined
    <3> QED BY <2>1, <3>1 DEF TypeOK
  <2>3. ASSUME NEW i \in Instrument PROVE books[ShardOf(i)][i] = reference.books[i]
    <3>1. PICK owner : Routed(owner, nextOrderId)
      BY <2>1 DEF OwnedInv
    <3>2. queue[ShardOf(i)] = << >> /\ item[ShardOf(i)] = NoMessage
      BY <2>2, ShardOfInstrument
    <3> QED BY <3>1, <3>2, QuiescentMatches
  <2> QED BY <2>2, <2>3
<1> QED BY <1>1, LiveInvHolds, PTL

\* The first run of a feed never moves the latency samples, for any socket, shards
\* and queues: no more messages arrive than the constructor reserved room for, so an
\* array that Python holds on the samples stays valid until start() is called again.
THEOREM LatencyStaysHolds == LiveSpec => LatencyStaysInFirstRun
<1>1. ASSUME LiveInv, [LiveNext]_liveVars, starts' <= 1, user # "constructing"
      PROVE  latencyRoom' = latencyRoom
  <2>1. LiveInv' /\ CountedInv
    BY <1>1, LiveInvStep DEF LiveInv
  <2>2. starts <= 1 /\ FirstRun
    <3>1. starts' = starts \/ starts' = starts + 1
      BY <1>1, StartsAndSimulator DEF StartFeed
    <3>2. starts \in 0 .. MaxStarts /\ MaxStarts \in Nat
      BY <2>1, LiveAssumption DEF CountedInv, TypedLive, LiveTypeOK
    <3>3. starts <= 1
      BY <1>1, <3>1, <3>2
    <3> QED BY <1>1, <3>3 DEF LiveInv
  <2>3. CASE Unpack
    <3>1. receiver = "unpacking" /\ unread # << >>
          /\ latencyRoom' = IF Samples = latencyRoom THEN 2 * latencyRoom + 1 ELSE latencyRoom
      BY <2>3 DEF Unpack
    <3>2. latencyRoom = Capacity /\ Samples < sent
      BY <2>1, <2>2, <3>1, UnreadIsUnsampled DEF FirstRun, AtRest
    <3>3. /\ sent <= toSend /\ toSend <= Capacity /\ sent \in Nat /\ toSend \in Nat
          /\ Capacity \in Nat /\ Samples \in Nat
      BY <2>1, <2>2, LiveAssumption DEF FirstRun, CountedInv, TypedLive, LiveTypeOK, Samples
    <3> QED BY <3>1, <3>2, <3>3
  <2>4. CASE ~Unpack
    <3>1. CASE Receiver
      BY <2>4, <3>1 DEF Receiver, Receive, Dispatch, EndDatagram, ReceiveTimesOut,
         ReceiverChecksDone
    <3>2. CASE Publisher
      BY <3>2 DEF Publisher, PublishMessage, PublishEnd, PublisherExit, receiverVars
    <3>3. CASE Owner
      BY <1>1, <3>3 DEF Owner, Construct, ConstructFails, StartFeed, Poll, Wait, Destroy,
         InsideCall, JoinPublisher, JoinReceiver, Drain, WaitReturns, PollEnds, threadVars,
         receiverVars
    <3>4. CASE \E s \in Shard : Worker(s)
      BY <3>4 DEF Worker, threadVars, receiverVars
    <3>5. CASE UNCHANGED liveVars
      BY <3>5 DEF liveVars, threadVars, receiverVars
    <3> QED BY <1>1, <3>1, <3>2, <3>3, <3>4, <3>5 DEF LiveNext
  <2> QED BY <2>3, <2>4
<1>2. LiveInv /\ [LiveNext]_liveVars =>
        [user # "constructing" /\ starts' <= 1 => latencyRoom' = latencyRoom]_liveVars
  BY <1>1
<1> QED BY <1>2, LiveInvHolds, PTL DEF LiveSpec, LatencyStaysInFirstRun
=============================================================================
