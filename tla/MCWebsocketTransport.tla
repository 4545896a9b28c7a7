------------------------- MODULE MCWebsocketTransport -------------------------
EXTENDS WebsocketTransport, TLC
CONSTANTS d1, d2
Symmetry == Permutations({d1, d2})
=============================================================================
