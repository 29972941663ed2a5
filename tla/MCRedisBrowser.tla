--------------------------- MODULE MCRedisBrowser ---------------------------
\* Two connections with two databases each; clicks overlap two calls.
EXTENDS RedisBrowser, TLC

CONSTANTS r1, r2, d0, d1, a, b, s1, s2

Symmetric ==
    Permutations({r1, r2}) \cup Permutations({d0, d1}) \cup Permutations({a, b})
        \cup Permutations({s1, s2})
=============================================================================
