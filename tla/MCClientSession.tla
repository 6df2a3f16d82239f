---- MODULE MCClientSession ----
(* ClientSession for TLC. Requests are interchangeable, so their permutations *)
(* are a symmetry of every state predicate checked.                           *)
EXTENDS ClientSession, TLC

Symmetry == Permutations(Requests)
====
