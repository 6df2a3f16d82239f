---- MODULE MCItemStream ----
(* ItemStream for TLC: bodies of up to four lines and batches of two. *)
EXTENDS ItemStream

MCSources == UNION {[1 .. n -> Line] : n \in 0 .. 4}
====
