---- MODULE MCEventDispatch ----
(* EventDispatch for TLC: two handlers of any kind on any two topics, and two   *)
(* events, one more than there are slots and one more than a stream's channel   *)
(* holds.                                                                       *)
EXTENDS EventDispatch

CONSTANTS task, node, any
====
