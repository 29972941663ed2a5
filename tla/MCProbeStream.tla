--------------------------- MODULE MCProbeStream ---------------------------
\* The requests are interchangeable (not used with liveness properties).
EXTENDS ProbeStream, TLC

Symmetry == Permutations(Stream)
=============================================================================
