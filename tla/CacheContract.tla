---- MODULE CacheContract ----
(*****************************************************************************)
(* What a cache promises its user. It may forget anything at any time, so a  *)
(* lookup may always miss; but what it still holds for a key is the value    *)
(* stored last, and after an invalidation or a clear nothing that was to go  *)
(* is left.                                                                  *)
(*****************************************************************************)
CONSTANTS
    Keys,
    Values,
    Miss     \* what a lookup answers when it finds nothing

VARIABLES
    memory,  \* the values a lookup may find now, by key
    event    \* the last operation, with its arguments and its result

vars == <<memory, event>>

NoMemory == [k \in {} |-> Miss]

Init ==
    /\ memory = NoMemory
    /\ event = [op |-> "none"]

\* What may be left of m after some of it is forgotten.
Remains(m) == \E S \in SUBSET DOMAIN m : memory' = [k \in S |-> m[k]]

Without(m, S) == [k \in DOMAIN m \ S |-> m[k]]

Lookup(k) ==
    /\ \E found \in {Miss} \union {memory[j] : j \in DOMAIN memory \intersect {k}} :
        event' = [op |-> "get", key |-> k, found |-> found]
    /\ Remains(memory)

Store(k, v) ==
    /\ event' = [op |-> "set", key |-> k, value |-> v]
    /\ Remains([j \in DOMAIN memory \union {k} |-> IF j = k THEN v ELSE memory[j]])

Withdraw(S) ==
    /\ event' = [op |-> "invalidate", keys |-> S]
    /\ Remains(Without(memory, S))

WithdrawAll ==
    /\ event' = [op |-> "clear"]
    /\ memory' = NoMemory

Forget ==
    /\ Remains(memory)
    /\ UNCHANGED event

Next ==
    \/ \E k \in Keys : Lookup(k) \/ \E v \in Values : Store(k, v)
    \/ \E S \in SUBSET Keys : Withdraw(S)
    \/ WithdrawAll
    \/ Forget

Spec == Init /\ [][Next]_vars
====
