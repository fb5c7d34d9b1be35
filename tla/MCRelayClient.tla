---------------------------- MODULE MCRelayClient ----------------------------
EXTENDS RelayClient, TLC

\* Call slots and lease names are interchangeable model values.
MCSymmetry == Permutations(Calls) \cup Permutations(Names)
=============================================================================
