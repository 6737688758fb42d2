------------------------------- MODULE Forest -------------------------------
(***************************************************************************)
(* What the accumulator stands for, independently of how any of its        *)
(* implementations stores it.                                              *)
(*                                                                         *)
(* The n-th leaf ever added owns slot n for good.  n leaves make one       *)
(* perfect tree for every bit of n, bigger trees first.  A forest is       *)
(* given by the number of leaves ever added and the set of slots that are  *)
(* still live: a node with nothing live on one side is not hashed, it is   *)
(* its other side.  Everything a full node knows (hashes, positions,       *)
(* proofs) is defined here from those two values by looking at slots,      *)
(* with none of the position arithmetic of the code.                       *)
(***************************************************************************)
EXTENDS ProofOps

Join(l, r) ==
  CASE l = empty              -> r
    [] l # empty /\ r = empty -> l
    [] OTHER                  -> parentHash(l, r)

(***************************************************************************)
(* The hash over the slots first .. first + 2^row - 1 when lab[s] is the   *)
(* hash in slot s; a slot that lab does not name is empty.                 *)
(***************************************************************************)
LabelAt(lab, slot) == IF slot \in DOMAIN lab THEN lab[slot] ELSE empty

LabelHash(row, first, lab) ==
  LET hash[h \in 0..row] ==
        [i \in 0..(2^(row - h) - 1) |->
           IF h = 0 THEN LabelAt(lab, first + i)
           ELSE Join(hash[h - 1][2 * i], hash[h - 1][2 * i + 1])]
  IN  hash[row][0]

SlotsHash(row, first, live) == LabelHash(row, first, [s \in live |-> LeafHash(s)])

(***************************************************************************)
(* The tree on a row, and the row of the tree that a slot is in.           *)
(***************************************************************************)
FirstSlot(n, row) == (n \div 2^(row + 1)) * 2^(row + 1)

TreeRow(n, slot) ==
  CHOOSE t \in 0..n : /\ Bit(n, t) = 1
                      /\ slot \in FirstSlot(n, t)..(FirstSlot(n, t) + 2^t - 1)

TreeHash(n, row, live) == SlotsHash(row, FirstSlot(n, row), live)

ForestRoots(n, live) ==
  LET rows == RootRows(n)
  IN  [i \in DOMAIN rows |-> TreeHash(n, rows[i], live)]

(***************************************************************************)
(* The nodes from the root of a live leaf's tree down to the leaf, after   *)
(* every level.  A level is a turn to the side the leaf is on, unless the  *)
(* other side has no live leaf: such a level has collapsed.                *)
(***************************************************************************)
OtherSide(slot, h) ==
  LET b == sibling(slot \div 2^h) IN (b * 2^h)..((b + 1) * 2^h - 1)

Descent(n, live, slot) ==
  LET t == TreeRow(n, slot)
      turn(node, h) == [row |-> node.row - 1, index |-> 2 * node.index + Bit(slot, h)]
      down[k \in 0..t] ==
        IF k = 0 THEN [row |-> t, index |-> FirstSlot(n, t) \div 2^t]
        ELSE IF OtherSide(slot, t - k) \cap live = {} THEN down[k - 1]
        ELSE turn(down[k - 1], t - k)
  IN  down

PositionOf(n, node) == 2^(treeRows(n) + 1) - 2^(treeRows(n) + 1 - node.row) + node.index

LeafPosition(n, live, slot) == PositionOf(n, Descent(n, live, slot)[TreeRow(n, slot)])

(***************************************************************************)
(* The positions from the root of a leaf's tree down to the leaf.          *)
(***************************************************************************)
Way(n, live, slot) ==
  LET down == Descent(n, live, slot) IN {PositionOf(n, down[k]) : k \in DOMAIN down}

(***************************************************************************)
(* The live leaves at or below a position, and the hash at the position.   *)
(* A position with no live leaf does not exist, or is an empty root.       *)
(***************************************************************************)
LeavesUnder(n, live, pos) == {s \in live : pos \in Way(n, live, s)}

NodeHash(n, live, pos) ==
  LET over(under) == IF under = {} THEN empty
                     ELSE TreeHash(n, TreeRow(n, CHOOSE s \in under : TRUE), under)
  IN  over(LeavesUnder(n, live, pos))

----------------------------------------------------------------------------
(***************************************************************************)
(* The full node's proof of a list of leaves: the positions in the order   *)
(* asked for, and the hash of every proof position.  With a single leaf    *)
(* ever added there is only the root, position 0.                          *)
(***************************************************************************)
Prove(n, live, slots) ==
  LET nodeHashes(ps) == [i \in DOMAIN ps |-> NodeHash(n, live, ps[i])]
      from(targets)  ==
        [targets |-> targets,
         proof   |-> nodeHashes(proofPositions(Sorted(targets), n, treeRows(n)).proof)]
  IN  CASE slots = << >> \/ n = 0 -> EmptyProof
        [] slots # << >> /\ n = 1 -> [targets |-> <<0>>, proof |-> << >>]
        [] OTHER -> from([i \in DOMAIN slots |-> LeafPosition(n, live, slots[i])])

LeafHashes(slots) == [i \in DOMAIN slots |-> LeafHash(slots[i])]

=============================================================================
