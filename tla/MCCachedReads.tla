---- MODULE MCCachedReads ----
(* CachedReads for TLC: a reader and a waiter, one path on the client's own host *)
(* and on another one, and a task that stops while they look on.                 *)
EXTENDS CachedReads

CONSTANTS r1, w1, base, node, path, all

MCTaskUrl == [host |-> base, path |-> path]
====
