----------------------------- MODULE MCBacktest -----------------------------
\* A pair is placed after every second message and lives for three.  An int has
\* ten values: the prices and the totals of the run, of at most six, just fit.
EXTENDS Backtest

MCStartPrices == {10}
=============================================================================
