---- MODULE MCRequestPipeline ----
(* RequestPipeline for TLC: every combination of call parameters with up to *)
(* MaxRetries retries.                                                      *)
EXTENDS RequestPipeline
====
