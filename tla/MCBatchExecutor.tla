---- MODULE MCBatchExecutor ----
(* BatchExecutor for TLC: a batch of up to three unnamed requests, then one    *)
(* whose only request is offered again and again; two slots, one retry, a      *)
(* status that is retried and one that is not.                                 *)
EXTENDS BatchExecutor

CONSTANTS a, none

MCOffers == {<<1, none>>, <<2, a>>}
====
