----------------------------- MODULE MCLiveFeed -----------------------------
\* One instrument on one shard; a datagram takes two Add messages exactly, the
\* socket one datagram and the shard queue one message, so that the publisher
\* overruns the socket and the receiver the queue.
EXTENDS LiveFeed

MCReferencePrice == [i \in Instrument |-> 10]
MCStartPrices == {10}
=============================================================================
