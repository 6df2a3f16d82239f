---- MODULE MCLruCache ----
(* LruCache for TLC: three keys, two of which a pattern matches, and values of *)
(* sizes 1, 2 and 4 in a cache of 3: making room takes no, one or all entries, *)
(* and one value is larger than the cache.                                     *)
EXTENDS LruCache

CONSTANTS k1, k2, k3, small, medium, large

MCSize == [v \in Values |-> CASE v = small -> 1 [] v = medium -> 2 [] v = large -> 4]
MCTTLs == {-1, 0}
MCPatterns == {{}, {k1}, {k1, k2}, {k1, k2, k3}}
====
