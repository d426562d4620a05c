------------------------------ MODULE MCStores ------------------------------
(* Two clients and two paths in a primary and one mirror.  The first path   *)
(* has a value at the start, of the second one Vault keeps one version.     *)
EXTENDS Stores, TLC

CONSTANTS p1, p2, a, b, c1, c2

MCKeep == [p \in Path |-> IF p = p2 THEN 1 ELSE 2]

MCOffered == {[p \in Path |-> IF p = p1 THEN a ELSE None], [p \in Path |-> IF p = p1 THEN b ELSE a]}

MCStart == [p \in Path |-> IF p = p1 THEN a ELSE None]

Symmetry == Permutations({c1, c2})

=============================================================================
