----------------------------- MODULE MCWebShell -----------------------------
\* Three calls of connect, which overlap, and two pages.
EXTENDS WebShell, TLC

CONSTANTS a1, a2, a3, p1, p2

Symmetric == Permutations({a1, a2, a3}) \cup Permutations({p1, p2})
=============================================================================
