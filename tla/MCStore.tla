------------------------------ MODULE MCStore ------------------------------
(* Store with two sources, one of which uses the other.                    *)
EXTENDS Store, TLC

CONSTANTS f, g

MCUses == [x \in Sources |-> IF x = f THEN Sources \ {f} ELSE {}]

Symmetry == Permutations(Inodes) \union Permutations(Writers)
=============================================================================
