----------------------------- MODULE Positions -----------------------------
(***************************************************************************)
(* The position arithmetic of utils.go against the tree it stands for.     *)
(* A node is a row and an index on that row.                               *)
(***************************************************************************)
EXTENDS Utils

----------------------------------------------------------------------------
(***************************************************************************)
(* The reference: rows of 2^(rows - r) nodes, numbered one row after the   *)
(* other; a node is in the forest when the leaves below it all are.        *)
(***************************************************************************)
Node(r, i) == [row |-> r, index |-> i]

Number(nd, height) ==
  LET before[r \in 0..(height + 1)] == IF r = 0 THEN 0 ELSE before[r - 1] + 2^(height - r + 1)
  IN  before[nd.row] + nd.index

Nodes(leaves) ==
  {nd \in [row : 0..treeRows(leaves), index : 0..(leaves - 1)] :
     (nd.index + 1) * 2^nd.row <= leaves}

Above(nd) == Node(nd.row + 1, nd.index \div 2)

Beside(nd) == Node(nd.row, IF nd.index % 2 = 0 THEN nd.index + 1 ELSE nd.index - 1)

IsBelow(low, high) ==
  low.row < high.row /\ low.index \div 2^(high.row - low.row) = high.index

IsRoot(nd, leaves) == nd \in Nodes(leaves) /\ Above(nd) \notin Nodes(leaves)

(***************************************************************************)
(* The node a position is the number of.                                   *)
(***************************************************************************)
NodeOf(pos, leaves) == CHOOSE nd \in Nodes(leaves) : Number(nd, treeRows(leaves)) = pos

Numbers(leaves) == {Number(nd, treeRows(leaves)) : nd \in Nodes(leaves)}

----------------------------------------------------------------------------
(***************************************************************************)
(* What the arithmetic should say of the position pos in a forest of n     *)
(* leaves, and of two positions.                                           *)
(***************************************************************************)
FamilyIsOfTree(n, pos) ==
  LET rows == treeRows(n)
      node == NodeOf(pos, n)
  IN  /\ detectRow(pos, rows) = node.row
      /\ isRootPosition(pos, n) <=> IsRoot(node, n)
      /\ ~IsRoot(node, n) =>
           /\ parent(pos, rows) = Number(Above(node), rows)
           /\ sibling(pos) = Number(Beside(node), rows)
           /\ pos \in {leftChild(parent(pos, rows), rows), rightChild(parent(pos, rows), rows)}
           /\ {pos, sibling(pos)} = {leftSib(pos), rightSib(pos)}
      /\ \A rise \in 0..(rows - node.row) :
           childMany(parentMany(pos, rise, rows), rise, rows)
             = Number(Node(node.row, (node.index \div 2^rise) * 2^rise), rows)

AncestorIsOfTree(n, pos, other) ==
  isAncestor(other, pos, treeRows(n)) <=> IsBelow(NodeOf(pos, n), NodeOf(other, n))

MoveIsUndone(n, pos, other) ==
  LET rows  == treeRows(n)
      node  == NodeOf(pos, n)
      node2 == NodeOf(other, n)
      sib   == Beside(node2)
      level == node2.row - node.row
      moved == Node(node.row + 1,
                    (node.index \div 2^(level + 1)) * 2^level + (node.index % 2^level))
  IN  ~IsRoot(node2, n) /\ (node = sib \/ IsBelow(node, sib)) =>
        /\ isAncestor(parent(other, rows), pos, rows)
        /\ calcNextPosition(pos, other, rows) = Number(moved, rows)
        /\ calcPrevPosition(Number(moved, rows), other, rows) = pos

OffsetIsOfTree(n, pos) ==
  LET node == NodeOf(pos, n)
      root == CHOOSE r \in Nodes(n) : IsRoot(r, n) /\ (r = node \/ IsBelow(node, r))
  IN  detectOffset(pos, n)
        = [tree      |-> Cardinality({r \in Nodes(n) : IsRoot(r, n) /\ r.row > root.row}),
           branchLen |-> root.row - node.row]

TranslationIsOfTree(n, pos, total) ==
  LET rows == treeRows(n)
      node == NodeOf(pos, n)
      taller == translatePos(pos, rows, total)
  IN  /\ taller = Number(node, total)
      /\ translatePos(taller, total, rows) = pos
      /\ isRootPositionTotalRows(taller, n, total) <=> IsRoot(node, n)
      /\ isRootPositionOnRowTotalRows(taller, n, node.row, total) <=> IsRoot(node, n)

=============================================================================
