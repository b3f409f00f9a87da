--------------------------- MODULE MCWslcDiscovery ---------------------------
(* Instances of WslcDiscovery for TLC.                                       *)
EXTENDS WslcDiscovery, TLC

\* Daemon processes are interchangeable; clients differ by their build.
Symmetry == Permutations(Daemon)
=============================================================================
