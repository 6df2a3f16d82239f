---- MODULE MCFingerprintTrust ----
(* FingerprintTrust for TLC: clients of two hosts, one of which asks by either *)
(* callback, and two certificates, one of them preconfigured in one client.    *)
EXTENDS FingerprintTrust

CONSTANTS c1, c2, h1, h2, f1, f2

MCHostOf == [c \in Clients |-> IF c = c1 THEN h1 ELSE h2]
MCSeeded == [c \in Clients |-> IF c = c1 THEN {} ELSE {f2}]
MCModesOf == [c \in Clients |-> IF c = c1 THEN {"manual"} ELSE {"manual", "generic"}]
====
