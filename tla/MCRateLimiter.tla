--------------------------- MODULE MCRateLimiter ---------------------------
(* The limiter with small sets of clients and threads as model values. *)
EXTENDS RateLimiter

CONSTANTS c1, c2, c3, t1, t2

OneClient == {c1}
TwoClients == {c1, c2}
ThreeClients == {c1, c2, c3}
OneThread == {t1}
TwoThreads == {t1, t2}

Symmetry == Permutations(Clients) \cup Permutations(Threads)

=============================================================================
