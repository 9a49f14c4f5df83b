------------------------------ MODULE MerkleAnchor -----------------------------
(***************************************************************************)
(* The daily anchor of packages/ariada-haes/src/anchor.ts: a Merkle root   *)
(* over the entry hashes of a day, inclusion proofs, and the manifest.     *)
(* A day's leaves arrive one by one; an anchor may be taken at any time.   *)
(*                                                                         *)
(* A hash is taken to be the tuple of what was hashed: the entry hash of   *)
(* one pre-image, a node of its two children.  So hashes do not collide,   *)
(* and no entry hash is the hash of two others.                            *)
(***************************************************************************)
EXTENDS Integers, Sequences

CONSTANTS
  Preimage,     \* what the entry hashes are taken of
  MaxLeaves,    \* bound on the leaves of a day
  NoRoot        \* buildMerkleRoot of no leaves (null)

VARIABLES
  leaves,       \* entry hashes of the day so far, in the caller's order
  anchored      \* the leaves the last manifest was built over

dayVars == <<leaves, anchored>>

Leaf == {<<p>> : p \in Preimage}

hashPair(left, right) == <<left, right>>

(* Mutant: the lone node is dropped. *)
Level_DropsOdd(level) ==
  [k \in 1 .. Len(level) \div 2 |-> hashPair(level[2 * k - 1], level[2 * k])]

(* One level up: neighbours are paired, a lone right-most node is promoted.*)
Level(level) ==
  [k \in 1 .. (Len(level) + 1) \div 2 |->
     IF 2 * k <= Len(level) THEN hashPair(level[2 * k - 1], level[2 * k])
                            ELSE level[2 * k - 1]]

(* The level the loop of buildMerkleRoot is at after k rounds; it stays at *)
(* one of a single node, which as many rounds as leaves always reach.      *)
NextLevel(level) == IF Len(level) = 1 THEN level ELSE Level(level)

Levels(ls) ==
  LET up[k \in 0 .. Len(ls)] == IF k = 0 THEN ls ELSE NextLevel(up[k - 1])
  IN  up

buildMerkleRoot(ls) == IF ls = <<>> THEN NoRoot ELSE Levels(ls)[Len(ls)][1]

(* The loop of buildInclusionProof: a level, the place in it (counted from *)
(* 0) of the node above the leaf, and the siblings on the way there.       *)
SiblingOf(level, idx) ==
  IF idx % 2 = 0 THEN [sibling |-> level[idx + 2], direction |-> "R"]
                 ELSE [sibling |-> level[idx],     direction |-> "L"]

ClimbOnce(loop) ==
  IF Len(loop.level) = 1 THEN loop
  ELSE [level |-> Level(loop.level),
        idx   |-> loop.idx \div 2,
        path  |-> IF loop.idx % 2 = 0 /\ loop.idx + 1 = Len(loop.level) THEN loop.path
                  ELSE Append(loop.path, SiblingOf(loop.level, loop.idx))]

Climb(ls, leafIndex) ==
  LET climb[k \in 0 .. Len(ls)] ==
        IF k = 0 THEN [level |-> ls, idx |-> leafIndex, path |-> <<>>]
        ELSE ClimbOnce(climb[k - 1])
  IN  climb

(* Mutant: a promoted node is paired with itself in the proof. *)
buildInclusionProof_SelfPair(ls, leafIndex) ==
  LET top == Climb(ls, leafIndex)[Len(ls)]
  IN  [leaf |-> ls[leafIndex + 1],
       path |-> IF Len(ls) % 2 = 1 /\ leafIndex = Len(ls) - 1 /\ leafIndex > 0
                THEN <<[sibling |-> ls[leafIndex + 1], direction |-> "R"]>> \o top.path
                ELSE top.path,
       root |-> top.level[1]]

buildInclusionProof(ls, leafIndex) ==
  LET top == Climb(ls, leafIndex)[Len(ls)]
  IN  [leaf |-> ls[leafIndex + 1], path |-> top.path, root |-> top.level[1]]

(* What the steps of a path make of a leaf.                                *)
WalkUp(leaf, path) ==
  LET current[k \in 0 .. Len(path)] ==
        IF k = 0 THEN leaf
        ELSE IF path[k].direction = "R" THEN hashPair(current[k - 1], path[k].sibling)
                                        ELSE hashPair(path[k].sibling, current[k - 1])
  IN  current[Len(path)]

(* Mutant: the verdict compares the roots and forgets the walk. *)
verifyInclusionProof_RootOnly(proof, expectedRoot) == proof.root = expectedRoot

(* Mutant: the proof's own root is not compared with the expected one and  *)
(* the walk is checked against it. *)
verifyInclusionProof_OwnRoot(proof, expectedRoot) ==
  proof.root = WalkUp(proof.leaf, proof.path)

verifyInclusionProof(proof, expectedRoot) ==
  /\ proof.root = expectedRoot
  /\ WalkUp(proof.leaf, proof.path) = expectedRoot

buildAnchorManifest(ls) ==
  [root |-> buildMerkleRoot(ls), leaf_count |-> Len(ls)]

--------------------------------------------------------------------------------
DayInit ==
  /\ leaves = <<>>
  /\ anchored = <<>>

(* An entry of the day is stored.                                          *)
Store(l) ==
  /\ Len(leaves) < MaxLeaves
  /\ leaves' = Append(leaves, l)
  /\ UNCHANGED anchored

(* A manifest is built and proofs are handed out; an empty day has none.   *)
Anchor ==
  /\ leaves # <<>>
  /\ anchored' = leaves
  /\ UNCHANGED leaves

DayNext ==
  \/ \E l \in Leaf : Store(l)
  \/ Anchor

DaySpec == DayInit /\ [][DayNext]_dayVars

--------------------------------------------------------------------------------
(* For every number of leaves, odd levels included, the proof built for    *)
(* each position verifies against the root built over the same leaves:     *)
(* the two loops of anchor.ts promote the same nodes.                      *)
EveryLeafIsProvable ==
  \A i \in DOMAIN leaves :
    verifyInclusionProof(buildInclusionProof(leaves, i - 1), buildMerkleRoot(leaves))

(* A proof speaks for its own leaf only: with another leaf in its place it *)
(* is refused (verifyInclusionProof walks the path, anchor.ts:97-104).     *)
ProofBindsItsLeaf ==
  \A i \in DOMAIN leaves, l \in Leaf :
    l # leaves[i] =>
      ~ verifyInclusionProof([buildInclusionProof(leaves, i - 1) EXCEPT !.leaf = l],
                             buildMerkleRoot(leaves))

(* A proof handed out with an earlier anchor is refused against the root   *)
(* of the leaves as they are after more entries came in (anchor.ts:97).    *)
OldProofsAreRefused ==
  \A i \in DOMAIN anchored :
    anchored # leaves =>
      ~ verifyInclusionProof(buildInclusionProof(anchored, i - 1), buildMerkleRoot(leaves))

(* A manifest determines the leaves it was built over and their order: no  *)
(* other list of leaves of any length has the same root and count.  There  *)
(* is none of an empty day.                                                *)
ManifestBindsLeaves ==
  leaves # <<>> => \A ls \in UNION {[1 .. n -> Leaf] : n \in 1 .. MaxLeaves} :
    buildAnchorManifest(ls) = buildAnchorManifest(leaves) => ls = leaves
================================================================================
