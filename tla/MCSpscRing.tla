----------------------------- MODULE MCSpscRing -----------------------------
\* A ring small enough to wrap twice: four slots, nine items.
EXTENDS SpscRing
=============================================================================
