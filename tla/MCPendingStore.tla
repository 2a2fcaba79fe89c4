--------------------------- MODULE MCPendingStore ---------------------------
\* Two keys of one approval scope (two windows of one browser), and a third of
\* another, so that joins, sibling sweeps and both limits all happen.
EXTENDS PendingStore, TLC
CONSTANTS p1, p2, p3, p4, k1, k2, k3, s1, s2, alice, bob, root

MCKeyOf == k1 :> k1 @@ k2 :> k2 @@ k3 :> k3
MCScopeOf == k1 :> s1 @@ k2 :> s1 @@ k3 :> s2
MCOwnerOfKey == k1 :> alice @@ k2 :> alice @@ k3 :> bob
PermSymmetry == Permutations(Perm)
=============================================================================
