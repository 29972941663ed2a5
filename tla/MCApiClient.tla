---------------------------- MODULE MCApiClient ----------------------------
\* Two calls for the same data and one for other data.
EXTENDS ApiClient, TLC

CONSTANTS c1, c2, c3, k1, k2

Keys == c1 :> k1 @@ c2 :> k1 @@ c3 :> k2
=============================================================================
