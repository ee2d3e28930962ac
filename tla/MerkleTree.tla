----------------------------- MODULE MerkleTree -----------------------------
(***************************************************************************)
(* A MerkleTree object under an arbitrary sequence of calls: leaves pushed *)
(* before and after compute_root, repeated compute_root, and reuse after   *)
(* clear with the levels of an earlier, larger batch still allocated.      *)
(***************************************************************************)
EXTENDS Merkle

CONSTANTS Data,        \* values that can be pushed as leaves
          MaxLeaves,   \* bound on the nodes at level 0, padding included
          Pad          \* marks a padding node in the history `leaves`

ASSUME MerkleAssumption == MaxLeaves \in Nat \ {0} /\ Pad \notin Data

VARIABLES levels,      \* MerkleTree.levels
          reserved,    \* argument of the one reserve call at construction
          root,        \* value returned by the last call, if it was compute_root
          leaves       \* history: what stands at level 0, as data

vars == <<levels, reserved, root, leaves>>

NoRoot == <<>>

Init ==
  /\ reserved \in 0..MaxLeaves
  /\ levels = reserve(new, reserved)
  /\ root = NoRoot
  /\ leaves = <<>>

PushLeaf(d) ==
  /\ Len(leaves) < MaxLeaves
  /\ levels' = push_leaf(levels, d)
  /\ leaves' = Append(leaves, d)
  /\ root' = NoRoot
  /\ UNCHANGED reserved

ComputeRoot ==
  /\ levels[1] # <<>>
  /\ LET r == compute_root(levels) IN levels' = r.levels /\ root' = r.root
  /\ leaves' = IF Len(leaves) > 1 /\ Len(leaves) % 2 = 1 THEN Append(leaves, Pad) ELSE leaves
  /\ UNCHANGED reserved

Clear ==
  /\ levels' = clear(levels)
  /\ leaves' = <<>>
  /\ root' = NoRoot
  /\ UNCHANGED reserved

Next == (\E d \in Data : PushLeaf(d)) \/ ComputeRoot \/ Clear

Spec == Init /\ [][Next]_vars

-----------------------------------------------------------------------------
\* The first of the leaves that stand under node i of level lvl, i * 2^lvl.
FirstLeaf(lvl, i) ==
  LET first[l \in Nat] == IF l = 0 THEN i ELSE 2 * first[l - 1]
  IN  first[lvl]

\* The height of a tree over n leaves: the least k with 2^k >= n.
Height(n) == CHOOSE k \in 0..n : FirstLeaf(k, 1) >= n /\ \A j \in 0..(k - 1) : FirstLeaf(j, 1) < n

\* Reference: the node at (lvl, i) of the padded tree over a leaf vector, top
\* down.  A node none of whose leaves exist is padding; no levels are involved.
LeafHash(d) == IF d = Pad THEN Zero ELSE hash_leaf(d)

RefNode(ls, depth) ==
  LET row[lvl \in 0..depth] ==
        [i \in Nat |->
          IF FirstLeaf(lvl, i) >= Len(ls) THEN Zero
          ELSE IF lvl = 0 THEN LeafHash(ls[i + 1])
          ELSE hash_nodes(row[lvl - 1][2*i], row[lvl - 1][2*i + 1])]
  IN  row[depth][0]

RefRoot(ls) == RefNode(ls, Height(Len(ls)))

Computed == root # NoRoot

Positions == 0..(Len(leaves) - 1)

\* compute_root returns the root of the padded tree over exactly the leaves
\* pushed since the last clear, whatever earlier batches and earlier
\* compute_root calls left in the levels it reuses.
RootIsReference == Computed => root = RefRoot(leaves)

\* After compute_root, get_paths_to gives every pushed leaf a path that
\* root_from_paths (the client's check) folds back to that root.
PathsVerify ==
  Computed => \A i \in Positions :
    leaves[i + 1] # Pad => root_from_paths(i, leaves[i + 1], get_paths_to(levels, i)) = root

\* A path handed out for one leaf proves nothing else: if it verifies for some
\* data at some position of the tree, that data was pushed at that position.
\* In particular a padding node is never provable as a request.
PathsBind ==
  Computed => \A i \in Positions : leaves[i + 1] # Pad =>
    LET path == get_paths_to(levels, i)
    IN  \A j \in 0..(FirstLeaf(Len(path), 1) - 1), d \in Data :
          root_from_paths(j, d, path) = root => j \in Positions /\ leaves[j + 1] = d
=============================================================================
