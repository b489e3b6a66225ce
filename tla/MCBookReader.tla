---------------------------- MODULE MCBookReader ----------------------------
\* One book in a band so narrow that orders are placed beyond both its ends, small
\* enough for a read to be interleaved with every store.
EXTENDS BookReader

MCStartPrices == {10}
MCReferencePrice == [i \in Instrument |-> 10]
=============================================================================
