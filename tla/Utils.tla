------------------------------- MODULE Utils -------------------------------
(***************************************************************************)
(* The position arithmetic of the accumulator (utils.go).                  *)
(*                                                                         *)
(* A forest of rows+1 rows numbers its nodes from the leaves up: row 0 has *)
(* positions 0 .. 2^rows-1, row 1 the next 2^(rows-1), and so on; the      *)
(* single position of the top row is 2^(rows+1)-2.  The code works on the  *)
(* bits of a position.  A shift is written here as a multiplication or a   *)
(* division by a power of two, a mask as a remainder, and an OR of bits    *)
(* that are known to be clear as an addition; positions stay below         *)
(* 2^(rows+1), so 64 bits never overflow.                                  *)
(***************************************************************************)
EXTENDS Integers, Sequences, FiniteSets, FiniteSetsExt

Bit(v, i) == (v \div 2^i) % 2

(***************************************************************************)
(* What ^ does for the exponents of a forest: 2^(k + 1), a shift by one    *)
(* bit more, is twice 2^k.  The provers do not know it of a variable k.    *)
(***************************************************************************)
Powers(N) == \A k \in 0..N : 2^k \in Nat /\ 2^(k + 1) = 2 * 2^k

(***************************************************************************)
(* The sets of positions in the order the sorted slices of the code have.  *)
(***************************************************************************)
Ascending(S) ==
  [i \in 1..Cardinality(S) |->
     CHOOSE x \in S : Cardinality({y \in S : y < x}) = i - 1]

(***************************************************************************)
(* A loop of the code: body is applied while cond holds.  No loop runs     *)
(* more than bound times.                                                  *)
(***************************************************************************)
While(init, cond(_), body(_), bound) ==
  LET after[k \in 0..bound] ==
        IF k = 0 THEN init
        ELSE LET s == after[k - 1] IN IF cond(s) THEN body(s) ELSE s
  IN  after[bound]

----------------------------------------------------------------------------
(***************************************************************************)
(* Moving between a node, its family and its roots.                        *)
(***************************************************************************)
treeRows(n) == IF n = 0 THEN 0 ELSE Min({r \in 0..n : 2^r >= n})

leftChild(position, forestRows) == (2 * position) % 2^(forestRows + 1)

rightChild(position, forestRows) == leftChild(position, forestRows) + 1

isLeftNiece(position) == position % 2 = 0

sibling(position) == IF isLeftNiece(position) THEN position + 1 ELSE position - 1

leftSib(position) == position - (position % 2)

rightSib(position) == leftSib(position) + 1

parent(position, forestRows) == position \div 2 + 2^forestRows

(***************************************************************************)
(* The ancestor `rise' rows above a position.  Rising more than forestRows *)
(* rows is an error that leaves the value 0.                               *)
(***************************************************************************)
parentMany(position, rise, forestRows) ==
  CASE rise = 0                        -> position
    [] rise > forestRows               -> 0
    [] rise > 0 /\ rise <= forestRows  ->
         position \div 2^rise + 2^(forestRows + 1) - 2^(forestRows + 1 - rise)

childMany(position, drop, forestRows) ==
  (position * 2^drop) % 2^(forestRows + 1)

(***************************************************************************)
(* The row of a position: the number of ones its bits start with, read     *)
(* from bit forestRows down.                                               *)
(***************************************************************************)
detectRow(position, forestRows) ==
  Cardinality({h \in 0..forestRows :
                 \A j \in 0..h : Bit(position, forestRows - j) = 1})

rootExistsOnRow(numLeaves, row) == Bit(numLeaves, row) = 1

rootPosition(leaves, h, forestRows) ==
  2 * (leaves \div 2^(h + 1)) + 2^(forestRows + 1) - 2^(forestRows + 1 - h)

(***************************************************************************)
(* The rows that hold a root, highest first: the order of every root slice.*)
(***************************************************************************)
RootRows(numLeaves) ==
  LET up == Ascending({h \in 0..treeRows(numLeaves) : rootExistsOnRow(numLeaves, h)})
  IN  [i \in 1..Len(up) |-> up[Len(up) + 1 - i]]

RootPositions(numLeaves, totalRows) ==
  [i \in 1..Len(RootRows(numLeaves)) |->
     rootPosition(numLeaves, RootRows(numLeaves)[i], totalRows)]

isRootPositionOnRow(position, numLeaves, row) ==
  /\ rootExistsOnRow(numLeaves, row)
  /\ rootPosition(numLeaves, row, treeRows(numLeaves)) = position

isRootPosition(position, numLeaves) ==
  isRootPositionOnRow(position, numLeaves, detectRow(position, treeRows(numLeaves)))

(***************************************************************************)
(* The smallest position of a row.  A row above the forest shifts by the   *)
(* wrapped difference of two uint8, which leaves 0.                        *)
(***************************************************************************)
startPositionAtRow(row, forestRows) ==
  2^(forestRows + 1) - (IF row > forestRows THEN 0 ELSE 2^(forestRows + 1 - row))

(***************************************************************************)
(* Mutant of translatePos: the start of the row in the other forest is     *)
(* forgotten.                                                              *)
(***************************************************************************)
translatePosToIndex(pos, fromTotalRow, toTotalRow) ==
  pos - startPositionAtRow(detectRow(pos, fromTotalRow), fromTotalRow)

(***************************************************************************)
(* The position that the same node has in a forest of another height.      *)
(***************************************************************************)
translatePos(pos, fromTotalRow, toTotalRow) ==
  LET row == detectRow(pos, fromTotalRow)
  IN  IF row = 0 THEN pos
      ELSE pos - startPositionAtRow(row, fromTotalRow)
               + startPositionAtRow(row, toTotalRow)

translatePositions(positions, fromTotalRow, toTotalRow) ==
  [i \in DOMAIN positions |-> translatePos(positions[i], fromTotalRow, toTotalRow)]

(***************************************************************************)
(* Mutant of isRootPositionOnRowTotalRows: the position is not translated. *)
(***************************************************************************)
isRootPositionOnRowUntranslated(position, numLeaves, row, forestRows) ==
  isRootPositionOnRow(position, numLeaves, row)

isRootPositionOnRowTotalRows(position, numLeaves, row, forestRows) ==
  isRootPositionOnRow(
    IF treeRows(numLeaves) = forestRows THEN position
    ELSE translatePos(position, forestRows, treeRows(numLeaves)),
    numLeaves, row)

isRootPositionTotalRows(position, numLeaves, totalRows) ==
  isRootPosition(
    IF treeRows(numLeaves) = totalRows THEN position
    ELSE translatePos(position, totalRows, treeRows(numLeaves)),
    numLeaves)

(***************************************************************************)
(* Mutant of isAncestor: a position is its own ancestor.                   *)
(***************************************************************************)
isAncestorOrSelf(higherPos, lowerPos, forestRows) ==
  LET rise == detectRow(higherPos, forestRows) - detectRow(lowerPos, forestRows)
  IN  rise \in 0..forestRows /\ parentMany(lowerPos, rise, forestRows) = higherPos

(***************************************************************************)
(* No position is an ancestor of itself.                                   *)
(***************************************************************************)
isAncestor(higherPos, lowerPos, forestRows) ==
  LET rise == detectRow(higherPos, forestRows) - detectRow(lowerPos, forestRows)
  IN  /\ higherPos # lowerPos
      /\ rise \in 0..forestRows
      /\ parentMany(lowerPos, rise, forestRows) = higherPos

maxPossiblePosAtRow(row, totalRows) == 2^(totalRows + 1) - 2^(totalRows - row) - 1

(***************************************************************************)
(* The biggest position in use on a row.                                   *)
(***************************************************************************)
maxPositionAtRow(row, forestRows, numLeaves) ==
  LET max == parentMany(numLeaves, row, forestRows)
  IN  IF max # 0 THEN max - 1 ELSE max

inForest(pos, numLeaves, forestRows) ==
  LET row == detectRow(pos, forestRows)
  IN  \/ pos < numLeaves
      \/ /\ pos < 2^(forestRows + 1) - 1
         /\ (((pos + 1) * 2^row) - 1) % 2^(forestRows + 1) < numLeaves

----------------------------------------------------------------------------
(***************************************************************************)
(* Mutant of removeBit: the bit above is removed.                          *)
(***************************************************************************)
removeBitAbove(val, bit) == (val \div 2^(bit + 2)) * 2^(bit + 1) + (val % 2^(bit + 1))

(***************************************************************************)
(* Where a node goes when another one is deleted, and where it was before. *)
(***************************************************************************)
removeBit(val, bit) == (val \div 2^(bit + 1)) * 2^bit + (val % 2^bit)

(***************************************************************************)
(* A place that wrapped below 0 is a shift by more than 63 bits: the value *)
(* is unchanged.                                                           *)
(***************************************************************************)
addBit(val, place, bit) ==
  IF place < 0 THEN val
  ELSE (val \div 2^place) * 2^(place + 1)
         + (IF bit THEN 2^place ELSE 0) + (val % 2^place)

(***************************************************************************)
(* The new position of a node when delPos, the sibling of the node or of   *)
(* an ancestor of it, is deleted.  A delPos below the node is an error,    *)
(* which every caller excludes by asking isAncestor first.                 *)
(***************************************************************************)
calcNextPosition(position, delPos, forestRows) ==
  LET delRow == detectRow(delPos, forestRows)
      posRow == detectRow(position, forestRows)
  IN  IF delRow < posRow THEN 0
      ELSE removeBit(position, delRow - posRow)
             + (IF posRow < forestRows THEN 2^forestRows ELSE 0)

calcPrevPosition(position, delPos, forestRows) ==
  LET delRow == detectRow(delPos, forestRows)
      posRow == detectRow(position, forestRows)
  IN  addBit(position % 2^forestRows, delRow - (posRow - 1), isLeftNiece(delPos))

(***************************************************************************)
(* Mutant of detectOffset: a tree is taken to have one leaf more.          *)
(***************************************************************************)
detectOffsetOneMore(position, numLeaves) ==
  LET rows  == treeRows(numLeaves)
      nr    == detectRow(position, rows)
      trees == {t \in 0..rows : /\ rootExistsOnRow(numLeaves, t)
                                /\ (position * 2^nr) % 2^(t + 1) <= 2^t}
      t     == Max(trees)
  IN  [tree      |-> Cardinality({u \in (t + 1)..rows : rootExistsOnRow(numLeaves, u)}),
       branchLen |-> t - nr]

(***************************************************************************)
(* The tree of a position: the first one, from the biggest down, that the  *)
(* position's leftmost leaf falls into.  tree counts the bigger trees and  *)
(* branchLen the rows from the position up to the tree's root.  A position *)
(* in no tree is an error that leaves zeroes.                              *)
(***************************************************************************)
detectOffset(position, numLeaves) ==
  LET rows == treeRows(numLeaves)
      offset(nr, t) ==
        [tree      |-> Cardinality({u \in (t + 1)..rows : rootExistsOnRow(numLeaves, u)}),
         branchLen |-> t - nr]
      within(nr, trees) ==
        IF trees = {} THEN [tree |-> 0, branchLen |-> 0] ELSE offset(nr, Max(trees))
      from(nr) == within(nr, {t \in 0..rows : /\ rootExistsOnRow(numLeaves, t)
                                              /\ (position * 2^nr) % 2^(t + 1) < 2^t})
  IN  from(detectRow(position, rows))

(***************************************************************************)
(* The way down to a position, h rows above it: nodes point to their       *)
(* nieces, so every turn but the last is the opposite one.                 *)
(***************************************************************************)
offsetBit(position, h) == IF h = 0 THEN Bit(position, 0) ELSE 1 - Bit(position, h)

maxPosition(forestRows) == 2^(forestRows + 1) - 1

getLowestRoot(numLeaves, totalRows) ==
  Min({row \in 0..totalRows : rootExistsOnRow(numLeaves, row)} \cup {totalRows + 1})

----------------------------------------------------------------------------
(***************************************************************************)
(* Mutant of insertInOrder: the element goes to the end.                   *)
(***************************************************************************)
insertLast(dels, el) == Append(dels, el)

(***************************************************************************)
(* Sorted slices of positions.                                             *)
(***************************************************************************)
insertInOrder(dels, el) ==
  SelectSeq(dels, LAMBDA d : d <= el) \o <<el>> \o SelectSeq(dels, LAMBDA d : d > el)

(***************************************************************************)
(* Two deleted siblings are the deletion of their parent.                  *)
(***************************************************************************)
deTwin(sorted, forestRows) ==
  LET twins(s) == s.i < Len(s.dels) /\ rightSib(s.dels[s.i]) = s.dels[s.i + 1]
      step(s)  ==
        IF twins(s)
        THEN [s EXCEPT !.dels = insertInOrder(
                         SubSeq(@, 1, s.i - 1) \o SubSeq(@, s.i + 2, Len(@)),
                         parent(@[s.i], forestRows))]
        ELSE [s EXCEPT !.i = @ + 1]
  IN  While([dels |-> sorted, i |-> 1], LAMBDA s : s.i <= Len(s.dels), step,
            2 * Len(sorted)).dels

(***************************************************************************)
(* Of two sorted slices read from the given indexes: which one (0 or 1)    *)
(* holds the lesser element, or -1 when both are used up.                  *)
(***************************************************************************)
nextLeastSlice(slice1, slice2, idx1, idx2) ==
  CASE idx1 > Len(slice1) /\ idx2 > Len(slice2)   -> -1
    [] idx1 <= Len(slice1) /\ idx2 > Len(slice2)  -> 0
    [] idx1 > Len(slice1) /\ idx2 <= Len(slice2)  -> 1
    [] idx1 <= Len(slice1) /\ idx2 <= Len(slice2) ->
         IF slice1[idx1] < slice2[idx2] THEN 0 ELSE 1

(***************************************************************************)
(* The next position, the slice it is taken from and the slice its right   *)
(* sibling heads (-1: none).                                               *)
(***************************************************************************)
getNextPos(slice1, slice2, idx1, idx2) ==
  LET sibAt(next, pos, i, j) ==
        IF next # -1 /\ (IF next = 0 THEN slice1[i] ELSE slice2[j]) = rightSib(pos)
        THEN next ELSE -1
      take(idx, pos, i, j) ==
        [pos |-> pos, idx |-> idx,
         sibIdx |-> sibAt(nextLeastSlice(slice1, slice2, i, j), pos, i, j)]
      from(idx) == CASE idx = 0  -> take(0, slice1[idx1], idx1 + 1, idx2)
                     [] idx = 1  -> take(1, slice2[idx2], idx1, idx2 + 1)
                     [] idx = -1 -> [pos |-> 0, idx |-> -1, sibIdx |-> -1]
  IN  from(nextLeastSlice(slice1, slice2, idx1, idx2))

(***************************************************************************)
(* The positions whose hashes prove one position.                          *)
(***************************************************************************)
proofPosition(target, numLeaves, totalRows) ==
  LET step(s) == [pos    |-> parent(s.pos, totalRows),
                  proofs |-> Append(s.proofs, sibling(s.pos)),
                  h      |-> s.h + 1]
  IN  While([pos |-> target, proofs |-> << >>, h |-> detectRow(target, totalRows)],
            LAMBDA s : /\ s.h <= totalRows
                       /\ ~isRootPositionTotalRows(s.pos, numLeaves, totalRows),
            step, totalRows + 1).proofs

(***************************************************************************)
(* The positions whose hashes prove all of the targets (proof), and the    *)
(* ones that are computed on the way to the roots (computed).  The sorted  *)
(* targets and the computed positions are read together, least first; a    *)
(* target above the top row ends the loop.  The result is the state the    *)
(* loop ends in; callers read proof and computed.                          *)
(***************************************************************************)
proofPositions(targets, numLeaves, totalRows) ==
  LET rowOf(pos, row) ==
        Min({r \in row..totalRows : pos <= maxPossiblePosAtRow(r, totalRows)}
              \cup {totalRows + 1})
      rise(s, next) ==
        CASE s.row > totalRows
               \/ isRootPositionOnRowTotalRows(next.pos, numLeaves, s.row, totalRows) -> s
          [] OTHER ->
               [s EXCEPT !.ti = @ + (IF next.sibIdx = 0 THEN 1 ELSE 0),
                         !.ci = @ + (IF next.sibIdx = 1 THEN 1 ELSE 0),
                         !.proof = IF next.sibIdx = -1
                                   THEN Append(@, sibling(next.pos)) ELSE @,
                         !.computed = Append(@, parent(next.pos, totalRows))]
      take(s, next) ==
        IF next.idx = -1 THEN [s EXCEPT !.row = totalRows + 1]
        ELSE rise([s EXCEPT !.row = rowOf(next.pos, @),
                            !.ti = @ + (IF next.idx = 0 THEN 1 ELSE 0),
                            !.ci = @ + (IF next.idx = 1 THEN 1 ELSE 0)], next)
  IN  While([row |-> 0, ti |-> 1, ci |-> 1, proof |-> << >>, computed |-> << >>],
            LAMBDA s : s.row <= totalRows,
            LAMBDA s : take(s, getNextPos(targets, s.computed, s.ti, s.ci)),
            Len(targets) * (totalRows + 1) + 1)

=============================================================================
