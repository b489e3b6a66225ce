---------------------------- MODULE MCVenueFeed ----------------------------
\* A venue whose simulator draws another price than the venue is given.
EXTENDS VenueFeed

MCStartPrices == {10}
=============================================================================
