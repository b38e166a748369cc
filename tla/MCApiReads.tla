---------------------------- MODULE MCApiReads ------------------------------
EXTENDS ApiReads, TLC

CONSTANTS g1, s1, s2

TwoQueues == <<"default", "dead-letter">>

Symmetric == Permutations(Scrapes)
=============================================================================
