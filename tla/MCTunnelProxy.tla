--------------------------- MODULE MCTunnelProxy ---------------------------
EXTENDS TunnelProxy, TLC

\* Calls and tunnel ids are interchangeable model values.
MCSymmetry == Permutations(Calls) \cup Permutations(TunnelIds)
=============================================================================
