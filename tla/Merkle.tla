------------------------------- MODULE Merkle -------------------------------
(***************************************************************************)
(* The Merkle tree of crates/roughenough-merkle/src/lib.rs as operators on *)
(* the vector of levels that the Rust struct keeps.  levels[1] is the      *)
(* code's levels[0]: TLA+ sequences start at 1, leaf indices at 0 as in    *)
(* the code.  SHA-512 is symbolic: a hash is the term that was hashed, so  *)
(* two hashes are equal exactly when their inputs are.                     *)
(***************************************************************************)
EXTENDS Naturals, Sequences

\* The padding node [0; OUTPUT_LEN], which is not the hash of anything.
Zero == <<"zero">>

hash_leaf(data) == <<"leaf", data>>

hash_nodes(first, second) == <<"node", first, second>>

\* MerkleTree::new: one empty level.
new == << <<>> >>

push_leaf(levels, data) == [levels EXCEPT ![1] = Append(@, hash_leaf(data))]

\* ilog2: how often a positive number can be halved before it is 1.
ilog2(n) ==
  LET log[k \in 0..n] == IF k <= 1 THEN 0 ELSE 1 + log[k \div 2]
  IN  log[n]

\* reserve: how many levels a tree over n leaves has.
max_levels(n) == IF n = 2^ilog2(n) THEN ilog2(n) + 1 ELSE ilog2(n - 1) + 2

\* reserve(n) only pre-allocates; what stays visible is that the levels exist.
reserve(levels, num_leaves) ==
  LET missing == IF num_leaves = 0 \/ Len(levels) >= max_levels(num_leaves)
                 THEN 0 ELSE max_levels(num_leaves) - Len(levels)
  IN  levels \o [i \in 1..missing |-> <<>>]

\* Mutants: padding in front; with a copy of the last node.
padded_Front(nodes, count) == IF count % 2 = 1 THEN <<Zero>> \o nodes ELSE nodes
padded_Copy(nodes, count) == IF count % 2 = 1 THEN Append(nodes, nodes[count]) ELSE nodes

\* A level with an odd number of nodes gets one padding node.
padded(nodes, count) == IF count % 2 = 1 THEN Append(nodes, Zero) ELSE nodes

\* One round of compute_root's while loop.  s.lvl is the code's `level` before
\* the round; an odd level is padded IN PLACE, and the level above is cleared
\* before it is refilled.
HashOneLevel(s) ==
  LET grown == IF Len(s.levels) < s.lvl + 2 THEN Append(s.levels, <<>>) ELSE s.levels
      below == padded(grown[s.lvl + 1], s.count)
      half  == (s.count + 1) \div 2
      above == [i \in 1..half |-> hash_nodes(below[2*i - 1], below[2*i])]
  IN  [levels |-> [grown EXCEPT ![s.lvl + 1] = below, ![s.lvl + 2] = above],
       lvl    |-> s.lvl + 1,
       count  |-> half]

\* compute_root: the levels it leaves behind and the root it returns.  The loop
\* halves node_count, so node_count rounds are more than enough.
compute_root(levels) ==
  LET n == Len(levels[1])
      loop[k \in 0..n] ==
        IF k = 0 THEN [levels |-> levels, lvl |-> 0, count |-> n]
        ELSE LET s == loop[k - 1] IN IF s.count > 1 THEN HashOneLevel(s) ELSE s
      end == loop[n]
  IN  [levels |-> end.levels, root |-> end.levels[end.lvl + 1][1]]

clear(levels) == [l \in DOMAIN levels |-> <<>>]

Sibling(index) == IF index % 2 = 0 THEN index + 1 ELSE index - 1

\* `index /= 2`, or `index >>= 1`, once for each of k levels.
Shift(index, k) ==
  LET shift[j \in Nat] == IF j = 0 THEN index ELSE shift[j - 1] \div 2
  IN  shift[k]

\* Where the loop of get_paths_to ends: at an empty level or one without sibling.
Ends(levels, index, lvl) ==
  \/ levels[lvl + 1] = <<>>
  \/ Sibling(Shift(index, lvl)) >= Len(levels[lvl + 1])

\* get_paths_to: siblings from the leaf upwards, until a level has none.  Going
\* beyond the last level is the code's out-of-bounds panic, and an error here.
get_paths_to(levels, index) ==
  LET depth == CHOOSE lvl \in 0..(Len(levels) - 1) :
                 /\ Ends(levels, index, lvl)
                 /\ \A l \in 0..(lvl - 1) : ~Ends(levels, index, l)
  IN  [k \in 1..depth |-> levels[k][Sibling(Shift(index, k - 1)) + 1]]

\* Mutant: the index is not shifted.
root_from_paths_Stuck(index, init_data, path) ==
  LET fold[k \in 0..Len(path)] ==
        IF k = 0 THEN hash_leaf(init_data)
        ELSE IF index % 2 = 0 THEN hash_nodes(fold[k - 1], path[k])
                              ELSE hash_nodes(path[k], fold[k - 1])
  IN  fold[Len(path)]

\* root_from_paths: fold the path over the leaf, consuming one index bit each;
\* bits of the index beyond the path are never looked at.
root_from_paths(index, init_data, path) ==
  LET fold[k \in 0..Len(path)] ==
        IF k = 0 THEN hash_leaf(init_data)
        ELSE IF Shift(index, k - 1) % 2 = 0
             THEN hash_nodes(fold[k - 1], path[k])
             ELSE hash_nodes(path[k], fold[k - 1])
  IN  fold[Len(path)]
=============================================================================
