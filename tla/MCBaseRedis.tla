------------------------------ MODULE MCBaseRedis ------------------------------
(* Three nodes, three items and a list of capacity two.                    *)
EXTENDS BaseRedis, TLC

Symmetric == Permutations(Item) \cup Permutations(Node)
=============================================================================
