------------------------------- MODULE Merkle -------------------------------
(***************************************************************************)
(* The Merkle trees of sealed segments: roots, inclusion proofs and their  *)
(* verification (domain/merkle.py).  A hash is the tuple of what was       *)
(* hashed, the prefix first, so that distinct inputs have distinct hashes  *)
(* (SHA-256 without collisions).                                           *)
(***************************************************************************)
EXTENDS Integers, Sequences, SequencesExt

LeafHash(leaf) == <<0, leaf>>
NodeHash(left, right) == <<1, left, right>>
EmptyRoot == << >>

\* _largest_power_of_two_below, for counts a segment of the models can have.
LargestPowerOfTwoBelow(count) ==
  CHOOSE p \in {1, 2, 4, 8, 16} : p < count /\ count <= 2 * p

RECURSIVE RootOfHashes(_)
RootOfHashes(hashes) ==
  IF hashes = << >> THEN EmptyRoot
  ELSE IF Len(hashes) = 1 THEN hashes[1]
  ELSE LET split == LargestPowerOfTwoBelow(Len(hashes))
       IN  NodeHash(RootOfHashes(SubSeq(hashes, 1, split)),
                    RootOfHashes(SubSeq(hashes, split + 1, Len(hashes))))

Hashes(leaves) == [i \in DOMAIN leaves |-> LeafHash(leaves[i])]

MerkleRoot(leaves) == RootOfHashes(Hashes(leaves))

\* The siblings from the root down to the leaf at index (from 0), each with whether it
\* sits on the left.
RECURSIVE Descend(_, _)
Descend(subtree, target) ==
  IF Len(subtree) <= 1 THEN << >>
  ELSE LET split == LargestPowerOfTwoBelow(Len(subtree))
           left == SubSeq(subtree, 1, split)
           right == SubSeq(subtree, split + 1, Len(subtree))
       IN  IF target < split
           THEN << [sibling |-> RootOfHashes(right), left |-> FALSE] >> \o Descend(left, target)
           ELSE << [sibling |-> RootOfHashes(left), left |-> TRUE] >> \o Descend(right, target - split)

\* Mutant: the path stays in the order it was recorded in.
ProofTopDown(leaves, index) ==
  [index |-> index, size |-> Len(leaves), path |-> Descend(Hashes(leaves), index)]

\* build_inclusion_proof: recorded top-down, kept leaf-upwards.
BuildInclusionProof(leaves, index) ==
  [index |-> index, size |-> Len(leaves), path |-> Reverse(Descend(Hashes(leaves), index))]

\* MerkleProof.__post_init__
WellFormedProof(proof) == proof.size >= 1 /\ proof.index \in 0 .. proof.size - 1

\* SegmentSealer.prove_inclusion, over leaves with consecutive sequence numbers from
\* first: the position of a record is its number less the first one.
ProveInclusion(leaves, first, seq) == BuildInclusionProof(leaves, seq - first)

\* MerkleProof.verify: neither the index nor the size of the tree takes part.
ProofVerifies(proof, leaf, root) ==
  root = FoldLeft(LAMBDA hash, step : IF step.left THEN NodeHash(step.sibling, hash)
                                      ELSE NodeHash(hash, step.sibling),
                  LeafHash(leaf), proof.path)
=============================================================================
