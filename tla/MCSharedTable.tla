---- MODULE MCSharedTable ----
(* Two connections, made by the same process or one by each. *)
EXTENDS SharedTable

CONSTANTS k1, k2

BothFromP == [k \in {k1, k2} |-> "P"]

OneFromEach == [k \in {k1, k2} |-> IF k = k1 THEN "P" ELSE "Q"]
====
