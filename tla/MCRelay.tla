------------------------------- MODULE MCRelay ------------------------------
EXTENDS Relay, TLC
\* Used by the run without temporal properties of fairness.
Symmetry == Permutations(Tokens) \cup Permutations(Conns) \cup Permutations(UdpIds)
=============================================================================
