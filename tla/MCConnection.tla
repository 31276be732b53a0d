---------------------------- MODULE MCConnection ----------------------------
\* Instances of Connection; goroutines are interchangeable.
EXTENDS Connection, TLC

Interchangeable == Permutations(Loops)
=============================================================================
