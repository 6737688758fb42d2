------------------------------ MODULE Pollard ------------------------------
(***************************************************************************)
(* The Pollard (pollard.go and its methods in polnode.go and prove.go): a  *)
(* forest of nodes linked by pointers, with a map from the hashes of the   *)
(* remembered leaves to their nodes.                                       *)
(*                                                                         *)
(* The Pollard is one value p.  Its operations run to their end without    *)
(* interleaving, so that Modify and Undo are one action each; an operator  *)
(* named after a method is the method's effect on p.  ok turns FALSE when  *)
(* a method returns an error or dereferences nil.                          *)
(***************************************************************************)
EXTENDS PolNode, Forest

LOCAL INSTANCE SequencesExt

CONSTANTS
  MaxLeaves,    \* bound: leaves ever added
  MaxFull,      \* bound: leaves ever added to a full Pollard
  MaxAdds,      \* bound: leaves added by one block
  MaxUndo       \* bound: blocks that can be undone

ASSUME PollardAssumption ==
  /\ MaxLeaves \in Nat /\ MaxFull \in 0..MaxLeaves
  /\ MaxAdds \in Nat /\ MaxUndo \in Nat

VARIABLES
  p,            \* the Pollard and the heap of its nodes
  live,         \* history: the slots of the leaves that are in it
  undoable      \* what the caller keeps to undo the last blocks, latest last

vars == <<p, live, undoable>>

NewAccumulator(full) ==
  [h |-> << >>, Roots |-> << >>, NodeMap |-> << >>, NumLeaves |-> 0, NumDels |-> 0, Full |-> full,
   ok |-> TRUE]

fail(q) == [q EXCEPT !.ok = FALSE]

without(map, keys) == [k \in DOMAIN map \ keys |-> map[k]]

Rows(q) == treeRows(q.NumLeaves)

(***************************************************************************)
(* op for every element of seq, from the first to the last, until it fails.*)
(***************************************************************************)
ForEach(q, seq, op(_, _)) ==
  LET after[i \in 0..Len(seq)] ==
        IF i = 0 THEN q
        ELSE LET r == after[i - 1] IN IF r.ok THEN op(r, seq[i]) ELSE r
  IN  after[Len(seq)]

----------------------------------------------------------------------------
(***************************************************************************)
(* The node at a position and its sibling: nil where the path ends early,  *)
(* bad for a position outside of the forest.                               *)
(***************************************************************************)
getNode(q, pos) ==
  LET niece(n, bit) == CASE n = nil -> nil
                         [] n # nil /\ bit = 0 -> q.h[n].lNiece
                         [] n # nil /\ bit = 1 -> q.h[n].rNiece
      down(s) == [n       |-> niece(s.n, offsetBit(pos, s.h)),
                  sibling |-> niece(s.n, 1 - offsetBit(pos, s.h)),
                  h       |-> s.h - 1]
      from(off) ==
        IF off.tree >= Len(q.Roots) THEN [n |-> bad, sibling |-> bad, h |-> 0]
        ELSE While([n |-> q.Roots[off.tree + 1], sibling |-> q.Roots[off.tree + 1],
                    h |-> off.branchLen - 1],
                   LAMBDA s : s.h >= 0 /\ s.n # nil, down, off.branchLen)
  IN  IF pos >= maxPosition(Rows(q)) THEN [n |-> bad, sibling |-> bad, h |-> 0]
      ELSE from(detectOffset(pos, q.NumLeaves))

getHash(q, pos) ==
  LET data(n) == IF n \in {nil, bad} THEN empty ELSE q.h[n].data
  IN  data(getNode(q, pos).n)

(***************************************************************************)
(* The position of a node: the turns from its root down to it (1: the node *)
(* is a right niece), then the same way down in positions.  The root is    *)
(* recognised by its hash, lowest root first; for a row that was not found *)
(* rootPosition returns 0.                                                 *)
(***************************************************************************)
RECURSIVE climb(_, _)
climb(h, n) ==
  IF h[n].aunt = nil THEN [root |-> n, turns |-> << >>]
  ELSE LET above == climb(h, h[n].aunt)
       IN  [above EXCEPT !.turns = Append(@, IF h[h[n].aunt].lNiece = n THEN 0 ELSE 1)]

calculatePosition(q, node) ==
  LET rows == RootRows(q.NumLeaves)
      found(root) == {i \in DOMAIN rows : q.h[q.Roots[i]].data = q.h[root].data}
      rootPos(root) == IF found(root) = {} THEN 0
                       ELSE rootPosition(q.NumLeaves, rows[Max(found(root))], Rows(q))
      turn(turns, i) == IF i = Len(turns) THEN turns[i] ELSE 1 - turns[i]
      down(way) ==
        LET pos[i \in 0..Len(way.turns)] ==
              IF i = 0 THEN rootPos(way.root)
              ELSE IF turn(way.turns, i) = 1 THEN rightChild(pos[i - 1], Rows(q))
                                             ELSE leftChild(pos[i - 1], Rows(q))
        IN  pos[Len(way.turns)]
  IN  down(climb(q.h, node))

----------------------------------------------------------------------------
(***************************************************************************)
(* Adding.  The new node is hashed with the roots of the rows 0, 1, ...    *)
(* for as long as there is one; where that root is empty it just moves up. *)
(***************************************************************************)
calculateNewRoot(q, node) ==
  LET joined(h, root, n) ==
        new(h, [polNode(parentHash(h[root].data, h[n].data), q.Full)
                  EXCEPT !.lNiece = root, !.rNiece = n])
      hashWith(s, root, newRoot) ==
        [s EXCEPT !.h = prune(updateAunt(joined(swapNieces(@, root, s.node), root, s.node),
                                         newRoot), newRoot),
                  !.node = newRoot]
      step(s, root) == IF s.h[root].data = empty THEN s ELSE hashWith(s, root, fresh(s.h))
      next(s) == [step(s, Last(s.Roots)) EXCEPT !.Roots = Front(@), !.row = @ + 1]
  IN  While([h |-> q.h, Roots |-> q.Roots, node |-> node, row |-> 0],
            LAMBDA s : Bit(q.NumLeaves, s.row) = 1, next, Rows(q) + 1)

addOne(q, leaf) ==
  LET remember == q.Full \/ leaf.remember
      placed(n) == [q EXCEPT !.h = new(@, polNode(leaf.hash, remember)),
                             !.NodeMap = IF remember THEN (leaf.hash :> n) @@ @ ELSE @]
      grown(r, s) == [r EXCEPT !.h = s.h, !.Roots = Append(s.Roots, s.node), !.NumLeaves = @ + 1]
      from(r, n) == grown(r, calculateNewRoot(r, n))
  IN  from(placed(fresh(q.h)), fresh(q.h))

add(q, adds) == ForEach(q, adds, addOne)

----------------------------------------------------------------------------
(***************************************************************************)
(* Deleting.  deleteFirstFromMap is a mutant of deleteFromMap: only the    *)
(* first leaf goes.                                                        *)
(***************************************************************************)
deleteFirstFromMap(q, delHashes) ==
  [q EXCEPT !.NodeMap = IF delHashes = << >> THEN @ ELSE without(@, {delHashes[1]})]

deleteFromMap(q, delHashes) == [q EXCEPT !.NodeMap = without(@, Range(delHashes))]

deleteRoot(q, del) ==
  LET at(root) ==
        [q EXCEPT !.NodeMap = without(@, {q.h[root].data}),
                  !.h = [chop(orphaned(orphaned(@, @[root].lNiece), @[root].rNiece), root)
                           EXCEPT ![root].aunt = nil, ![root].data = empty]]
      from(tree) == IF tree > Len(q.Roots) - 1 THEN fail(q) ELSE at(q.Roots[tree + 1])
  IN  from(detectOffset(del, q.NumLeaves).tree)

(***************************************************************************)
(* The sibling of the deleted node, fromNode, takes the place of their     *)
(* parent, toNode.  The deleted node fromNodeSib points to the children of *)
(* fromNode, its aunt toSib to fromNode and to itself.                     *)
(***************************************************************************)
moveUp(h, fromNode, fromNodeSib, toNode, toSib) ==
  LET up(g) == transferNiece(transferNiece(transferAunt(g, fromNode, toNode),
                                           fromNode, toNode),
                             toSib, fromNodeSib)
      rest(g) == updateAunt(g, g[toNode].aunt)
  IN  rest(up(h))

(***************************************************************************)
(* toNode is a root: it takes over what fromNode is, and the children that *)
(* fromNodeSib pointed to.                                                 *)
(***************************************************************************)
becomeRoot(h, fromNode, fromNodeSib, toNode) ==
  delNode(updateAunt(transferNiece([h EXCEPT ![toNode] = h[fromNode]], toNode, fromNodeSib),
                     toNode),
          fromNode)

(***************************************************************************)
(* Mutant of linkAndHash: the node is linked and nothing is rehashed.      *)
(***************************************************************************)
linkOnly(q, n) ==
  LET link(par, sib) == [q EXCEPT !.h[n].aunt = IF sib = nil THEN par ELSE sib]
      under(par) == link(par, getSibling(q.h, par))
  IN  under(getParent(q.h, n))

(***************************************************************************)
(* The new aunt of the moved node: the sibling of its parent or, when the  *)
(* parent is a root, the parent.  Then everything above is rehashed.       *)
(***************************************************************************)
linkAndHash(q, n) ==
  LET hashed(r) == [q EXCEPT !.h = r.h, !.ok = r.ok]
      link(par, sib) ==
        IF bad \in {par, sib} THEN fail(q)
        ELSE hashed(hashToRoot([q.h EXCEPT ![n].aunt = IF sib = nil THEN par ELSE sib], par))
      under(par) == link(par, IF par \in {nil, bad} THEN bad ELSE getSibling(q.h, par))
  IN  under(getParent(q.h, n))

(***************************************************************************)
(* Mutant of mapToRoot: the map keeps the node that was moved.             *)
(***************************************************************************)
mapToMoved(q, n) == q

(***************************************************************************)
(* A leaf whose node was replaced by n is mapped to n.                     *)
(***************************************************************************)
mapToRoot(q, n) ==
  [q EXCEPT !.NodeMap = IF q.h[n].data \in DOMAIN @ THEN (q.h[n].data :> n) @@ @ ELSE @]

deleteSingle(q, del) ==
  LET drop(r, sib) == [r EXCEPT !.NodeMap = without(@, {r.h[sib].data}), !.h = delNode(@, sib)]
      finish(r, n) == IF isRootPosition(parent(del, Rows(r)), r.NumLeaves)
                      THEN [r EXCEPT !.h[n].aunt = nil]
                      ELSE linkAndHash(r, n)
      move(from, sib, to) ==
        IF q.h[to].aunt # nil
        THEN finish(drop([q EXCEPT !.h = moveUp(@, from, sib, to, q.h[sib].aunt)], sib), to)
        ELSE finish(drop(mapToRoot([q EXCEPT !.h = becomeRoot(@, from, sib, to)], to), sib), to)
      fetched(at) == IF {at.n, at.sibling} \cap {nil, bad} # {} THEN fail(q)
                     ELSE LET go(to) == IF to \in {nil, bad} THEN fail(q)
                                        ELSE move(at.n, at.sibling, to)
                          IN  go(getParent(q.h, at.sibling))
  IN  fetched(getNode(q, sibling(del)))

remove(q, dels) ==
  ForEach(q, deTwin(Sorted(dels), Rows(q)),
          LAMBDA r, del : IF isRootPosition(del, r.NumLeaves) THEN deleteRoot(r, del)
                                                              ELSE deleteSingle(r, del))

----------------------------------------------------------------------------
(***************************************************************************)
(* Undoing.  The last leaf is taken out again by splitting the lowest root *)
(* down its right side; an empty root that the leaf had moved past is not  *)
(* put back here.                                                          *)
(***************************************************************************)
undoSingleAdd(q) ==
  LET split(s, l, r) == [s EXCEPT !.h = [swapNieces(@, l, r) EXCEPT ![l].aunt = nil, ![r].aunt = nil],
                                  !.Roots = Front(@) \o <<l, r>>, !.row = @ - 1]
      popped(s) == [s EXCEPT !.Roots = Front(@), !.row = -1]
      opened(s, l) == IF l # nil THEN split(s, l, s.h[Last(s.Roots)].rNiece) ELSE popped(s)
      gone(s, root) == [s EXCEPT !.NodeMap = without(@, {s.h[root].data}), !.h = delNode(@, root)]
      step(s) == gone(opened(s, s.h[Last(s.Roots)].lNiece), Last(s.Roots))
      shrunk(s) == [q EXCEPT !.h = s.h, !.Roots = s.Roots, !.NodeMap = s.NodeMap, !.NumLeaves = @ - 1]
      from(row) == While([h |-> q.h, Roots |-> q.Roots, NodeMap |-> q.NodeMap, row |-> row],
                         LAMBDA s : s.row >= 0, step, row + 1)
  IN  shrunk(from(getLowestRoot(q.NumLeaves, Rows(q))))

(***************************************************************************)
(* The empty roots that were there before the block, and those that its    *)
(* deletions made, are put back at their index.                            *)
(***************************************************************************)
undoEmptyRoots(q, dels, prevRoots) ==
  LET deleted == {detectOffset(d, q.NumLeaves).tree + 1 :
                    d \in {e \in Range(deTwin(Sorted(dels), Rows(q))) :
                             isRootPosition(e, q.NumLeaves)}}
      wasEmpty(i) == prevRoots[i] = empty \/ i \in deleted
      fill(r, i) == While(r, LAMBDA s : i > Len(s.Roots),
                          LAMBDA s : [s EXCEPT !.Roots = Append(@, fresh(s.h)),
                                               !.h = new(@, polNode(empty, q.Full))],
                          i)
      insert(r, i) == IF r.h[r.Roots[i]].data = empty THEN r
                      ELSE [r EXCEPT !.Roots = SubSeq(@, 1, i - 1) \o <<fresh(r.h)>>
                                                 \o SubSeq(@, i, Len(@)),
                                     !.h = new(@, polNode(empty, q.Full))]
      place(r, i) == IF wasEmpty(i) THEN insert(fill(r, i), i) ELSE r
  IN  IF Len(q.Roots) >= Len(RootRows(q.NumLeaves)) THEN q
      ELSE ForEach(q, [i \in DOMAIN prevRoots |-> i], place)

(***************************************************************************)
(* A deleted node comes back at pos.  Its sibling has moved up to the      *)
(* position of their parent, and goes down again next to it.               *)
(***************************************************************************)
undoBelowAunt(h, node, pos, sib, aunt, par) ==
  LET lifted(g) == updateAunt(transferNiece(transferAunt(g, par, sib), par, sib), par)
      hung(g) == updateAunt(IF isLeftNiece(pos)
                            THEN [g EXCEPT ![aunt].lNiece = node, ![aunt].rNiece = sib]
                            ELSE [g EXCEPT ![aunt].lNiece = sib, ![aunt].rNiece = node], aunt)
      given(g, l, r) == updateAunt([transferNiece(hung(g), sib, node)
                                      EXCEPT ![node].lNiece = l, ![node].rNiece = r], node)
      from(g) == given(g, g[aunt].lNiece, g[aunt].rNiece)
  IN  from(lifted(h))

(***************************************************************************)
(* The sibling had become a root.  The root node turns into the parent,    *)
(* and a new node takes over what the root was.                            *)
(***************************************************************************)
undoBelowRoot(h, node, pos, root, moved) ==
  LET swapped == [h EXCEPT ![root] = h[moved], ![moved] = h[root]]
      hung == IF isLeftNiece(pos)
              THEN [swapped EXCEPT ![root].lNiece = node, ![root].rNiece = moved]
              ELSE [swapped EXCEPT ![root].lNiece = moved, ![root].rNiece = node]
      linked(g) == swapNieces(g, g[root].lNiece, g[root].rNiece)
  IN  linked(updateAunt(updateAunt(hung, root), moved))

undoSingleDel(q, node, pos) ==
  LET par == fresh(q.h)
      withParent(sib) == new(q.h, polNode(calculateParentHash(q.h, pos, node, sib), q.Full))
      hashed(r) == [q EXCEPT !.h = r.h, !.ok = r.ok]
      at(sib, aunt) ==
        IF sib \in {nil, bad} THEN fail(q)
        ELSE IF q.h[sib].aunt # nil
             THEN hashed(hashToRoot(undoBelowAunt(withParent(sib), node, pos, sib, aunt, par), par))
             ELSE mapToRoot([q EXCEPT !.h = undoBelowRoot(withParent(sib), node, pos, sib, par)], par)
      from(found) == at(found.n, found.sibling)
  IN  from(getNode(q, parent(pos, Rows(q))))

undoDels(q, dels, delHashes) ==
  LET base == Max(DOMAIN q.h \cup {0})
      node(i) == base + i
      back == [q EXCEPT !.h = [n \in {node(i) : i \in DOMAIN dels} |->
                                 polNode(delHashes[n - base], q.Full)] @@ @,
                        !.NodeMap = [hash \in Range(delHashes) |->
                                       node(Max({i \in DOMAIN dels : delHashes[i] = hash}))] @@ @]
      pnps == byPos([i \in DOMAIN dels |-> [node |-> node(i), pos |-> dels[i]]])
      putBack(r, pnp) ==
        IF isRootPosition(pnp.pos, r.NumLeaves)
        THEN [r EXCEPT !.Roots[detectOffset(pnp.pos, r.NumLeaves).tree + 1] = pnp.node]
        ELSE undoSingleDel(r, pnp.node, pnp.pos)
      all(t) == ForEach([back EXCEPT !.h = t.h],
                        [i \in DOMAIN t.nodes |-> t.nodes[Len(t.nodes) + 1 - i]], putBack)
      counted(r) == IF r.ok THEN [r EXCEPT !.NumDels = @ - Len(delHashes)] ELSE r
  IN  IF Len(dels) # Len(delHashes) THEN fail(q)
      ELSE counted(all(deTwinPolNode(back.h, pnps, Rows(q))))

----------------------------------------------------------------------------
(***************************************************************************)
(* Mutant of ProveHashes: the proof positions are those of the targets in  *)
(* the order they were asked for.                                          *)
(***************************************************************************)
ProveUnsorted(q, delHashes) ==
  LET read(targets, ps) == [ok |-> TRUE, targets |-> targets,
                            proof |-> [i \in DOMAIN ps |-> getHash(q, ps[i])]]
      from(targets) == read(targets, proofPositions(targets, q.NumLeaves, Rows(q)).proof)
  IN  IF q.NumLeaves = 1 /\ delHashes # << >>
      THEN [ok |-> TRUE, targets |-> <<0>>, proof |-> << >>]
      ELSE from([i \in DOMAIN delHashes |-> calculatePosition(q, q.NodeMap[delHashes[i]])])

(***************************************************************************)
(* Proving.  ok is FALSE for an error.                                     *)
(***************************************************************************)
ProveHashes(q, delHashes) ==
  LET result(targets, hs) == [ok      |-> ~InSlice(hs, empty),
                              targets |-> targets, proof |-> hs]
      read(targets, ps) == result(targets, [i \in DOMAIN ps |-> getHash(q, ps[i])])
      from(targets) == read(targets, proofPositions(Sorted(targets), q.NumLeaves, Rows(q)).proof)
  IN  CASE delHashes = << >> \/ q.NumLeaves = 0 -> [ok |-> TRUE, targets |-> << >>, proof |-> << >>]
        [] delHashes # << >> /\ q.NumLeaves = 1 -> [ok |-> TRUE, targets |-> <<0>>, proof |-> << >>]
        [] OTHER ->
             IF Range(delHashes) \subseteq DOMAIN q.NodeMap
             THEN from([i \in DOMAIN delHashes |-> calculatePosition(q, q.NodeMap[delHashes[i]])])
             ELSE [ok |-> FALSE, targets |-> << >>, proof |-> << >>]

GetRoots(q) == [i \in DOMAIN q.Roots |-> q.h[q.Roots[i]].data]

(***************************************************************************)
(* Verify accepts no deletions with any proof, and otherwise what the      *)
(* stateless Verify accepts and computes at least one root.  It changes    *)
(* nothing, with remember or without.                                      *)
(***************************************************************************)
VerifyHashes(q, delHashes, proof) ==
  \/ delHashes = << >>
  \/ /\ Len(delHashes) = Len(proof.targets)
     /\ calculateHashes(q.NumLeaves, delHashes, proof).roots # << >>
     /\ Verify(q.NumLeaves, GetRoots(q), delHashes, proof).ok

----------------------------------------------------------------------------
(***************************************************************************)
(* The file of a Pollard: NumLeaves, NumDels, then for every root, in      *)
(* preorder, the hash of a node, whether it is a leaf, and whether its     *)
(* nieces follow.                                                          *)
(***************************************************************************)
RECURSIVE writeOne(_, _)
writeOne(h, n) ==
  LET nieces == h[n].lNiece # nil /\ h[n].rNiece # nil
  IN  <<h[n].data, getChildren(h, n) = <<nil, nil>>, nieces>>
        \o (IF nieces THEN writeOne(h, h[n].lNiece) \o writeOne(h, h[n].rNiece) ELSE << >>)

WriteTo(q) == <<q.NumLeaves, q.NumDels>> \o FlattenSeq([i \in DOMAIN q.Roots |-> writeOne(q.h, q.Roots[i])])

(***************************************************************************)
(* Read a node and its nieces into the new node n.  A file that ends where *)
(* a node should begin is taken to be complete; one that ends inside of a  *)
(* node is an error.                                                       *)
(***************************************************************************)
RECURSIVE readOne(_, _)
readOne(q, n) ==
  LET child == [polNode(empty, FALSE) EXCEPT !.aunt = n]
      left(r, c)  == readOne([r EXCEPT !.h = [new(@, child) EXCEPT ![n].lNiece = c]], c)
      right(r, c) == IF r.ok
                     THEN readOne([r EXCEPT !.h = [new(@, child) EXCEPT ![n].rNiece = c]], c)
                     ELSE r
      lower(r)    == right(r, fresh(r.h))
      filled(data, leaf) ==
        [q EXCEPT !.h[n].data = data, !.file = SubSeq(@, 4, Len(@)),
                  !.NodeMap = IF leaf /\ data # empty THEN (data :> n) @@ @ ELSE @]
  IN  CASE q.file = << >>     -> q
        [] Len(q.file) \in 1..2 -> fail(q)
        [] Len(q.file) >= 3   ->
             IF q.file[3] THEN lower(left(filled(q.file[1], q.file[2]), fresh(q.h)))
             ELSE filled(q.file[1], q.file[2])

(***************************************************************************)
(* Restore a Pollard, which is full, from a file.                          *)
(***************************************************************************)
RestorePollardFrom(file) ==
  LET readRoot(q, i) == readOne([q EXCEPT !.h = new(@, polNode(empty, FALSE)),
                                          !.Roots = Append(@, fresh(q.h))], fresh(q.h))
      checked(q) == [h |-> q.h, Roots |-> q.Roots, NodeMap |-> q.NodeMap,
                     NumLeaves |-> q.NumLeaves, NumDels |-> q.NumDels, Full |-> TRUE,
                     ok |-> q.ok /\ Cardinality(DOMAIN q.NodeMap) = q.NumLeaves - q.NumDels]
      start == [h |-> << >>, Roots |-> << >>, NodeMap |-> << >>, NumLeaves |-> file[1],
                NumDels |-> file[2], ok |-> TRUE, file |-> SubSeq(file, 3, Len(file))]
  IN  IF Len(file) < 2 THEN fail(NewAccumulator(TRUE))
      ELSE checked(ForEach(start, RootRows(file[1]), readRoot))

----------------------------------------------------------------------------
(***************************************************************************)
(* The nodes that can still be reached: the others are garbage.  What is   *)
(* left is renumbered, from the roots down (rows bounds the way down), as  *)
(* nothing depends on an address but whether two pointers are equal.       *)
(***************************************************************************)
Reachable(q) ==
  LET next(S) == S \cup (UNION {{q.h[n].lNiece, q.h[n].rNiece, q.h[n].aunt} : n \in S} \ {nil})
  IN  While(Range(q.Roots) \cup {q.NodeMap[k] : k \in DOMAIN q.NodeMap},
            LAMBDA S : next(S) # S, next, Cardinality(DOMAIN q.h))

RECURSIVE Preorder(_, _, _)
Preorder(h, n, rows) ==
  IF n = nil \/ rows < 0 THEN << >>
  ELSE <<n>> \o Preorder(h, h[n].lNiece, rows - 1) \o Preorder(h, h[n].rNiece, rows - 1)

collected(q) ==
  LET linked == FlattenSeq([i \in DOMAIN q.Roots |-> Preorder(q.h, q.Roots[i], Rows(q))])
      order(seq) == seq \o Ascending(Reachable(q) \ Range(seq))
      renumbered(seq) ==
        LET address == [n \in Range(seq) |-> Min({i \in DOMAIN seq : seq[i] = n})]
            at(n) == IF n = nil THEN nil ELSE address[n]
            node(n) == [n EXCEPT !.lNiece = at(@), !.rNiece = at(@), !.aunt = at(@)]
        IN  [q EXCEPT !.h = [a \in Range(address) |-> node(q.h[seq[a]])],
                      !.Roots = [i \in DOMAIN @ |-> at(@[i])],
                      !.NodeMap = [k \in DOMAIN @ |-> at(@[k])]]
  IN  IF q.ok THEN renumbered(order(linked)) ELSE q

LeavesToAdd(q, remembers) ==
  [i \in DOMAIN remembers |-> [hash |-> LeafHash(q.NumLeaves + i - 1), remember |-> remembers[i]]]

(***************************************************************************)
(* Mutant of modified: the deletions are not counted.                      *)
(***************************************************************************)
modifiedUncounted(q, adds, delHashes, targets) ==
  LET counted(r) == IF r.ok THEN add(r, adds) ELSE r
  IN  counted(remove(deleteFromMap(q, delHashes), targets))

(***************************************************************************)
(* Modify and Undo.                                                        *)
(***************************************************************************)
modified(q, adds, delHashes, targets) ==
  LET counted(r) == IF r.ok THEN add([r EXCEPT !.NumDels = @ + Len(targets)], adds) ELSE r
  IN  counted(remove(deleteFromMap(q, delHashes), targets))

undone(q, numAdds, targets, delHashes, prevRoots) ==
  LET emptied(r) == IF r.ok THEN undoDels(r, targets, delHashes) ELSE r
  IN  emptied(undoEmptyRoots(ForEach(q, [i \in 1..numAdds |-> i], LAMBDA r, i : undoSingleAdd(r)),
                             targets, prevRoots))

Init ==
  /\ \E full \in BOOLEAN : p = NewAccumulator(full)
  /\ live = {} /\ undoable = << >>

LastOf(s, k) == SubSeq(s, Len(s) - (IF k < Len(s) THEN k ELSE Len(s)) + 1, Len(s))

(***************************************************************************)
(* A block deletes leaves, with another full node's proof, and adds some.  *)
(***************************************************************************)
Modify(slots, remembers) ==
  LET targets == Prove(p.NumLeaves, live, slots).targets
  IN  /\ p.ok
      /\ p.NumLeaves + Len(remembers) <= (IF p.Full THEN MaxFull ELSE MaxLeaves)
      /\ p' = collected(modified(p, LeavesToAdd(p, remembers), LeafHashes(slots), targets))
      /\ live' = (live \ Range(slots)) \cup {p.NumLeaves + i - 1 : i \in DOMAIN remembers}
      /\ undoable' = LastOf(Append(undoable, [numAdds |-> Len(remembers), targets |-> targets,
                                              delHashes |-> LeafHashes(slots),
                                              prevRoots |-> GetRoots(p),
                                              numLeaves |-> p.NumLeaves, live |-> live]), MaxUndo)

Undo ==
  LET last == Last(undoable)
  IN  /\ p.ok
      /\ undoable # << >>
      /\ p' = collected(undone(p, last.numAdds, last.targets, last.delHashes, last.prevRoots))
      /\ live' = last.live
      /\ undoable' = Front(undoable)

(***************************************************************************)
(* The Pollard is written to a file and the program starts again from it.  *)
(***************************************************************************)
Restart ==
  /\ p.ok
  /\ p' = collected(RestorePollardFrom(WriteTo(p)))
  /\ UNCHANGED <<live, undoable>>

(***************************************************************************)
(* A full Pollard remembers every leaf; for another one the caller says    *)
(* which.                                                                  *)
(***************************************************************************)
Remembers == UNION {[1..k -> IF p.Full THEN {TRUE} ELSE BOOLEAN] : k \in 0..MaxAdds}

RememberedLeaves == {s \in live : LeafHash(s) \in DOMAIN p.NodeMap}

(***************************************************************************)
(* A Pollard that is not full and only grows.                              *)
(***************************************************************************)
Grow == ~p.Full /\ \E r \in Remembers : Modify(<< >>, r)

Next ==
  \/ p.Full /\ \E D \in SUBSET live : \E r \in Remembers : Modify(Ascending(D), r)
  \/ p.Full /\ Undo
  \/ p.Full /\ Restart
  \/ Grow

Spec == Init /\ [][Next]_vars

(***************************************************************************)
(* One that also deletes leaves that it remembers.                         *)
(***************************************************************************)
Shrink == ~p.Full /\ \E D \in SUBSET RememberedLeaves \ {{}} : Modify(Ascending(D), << >>)

SparseSpec == Init /\ ~p.Full /\ [][Grow \/ Shrink]_vars

----------------------------------------------------------------------------
(***************************************************************************)
(* No operation fails: every node that Modify, Undo or a restart looks for *)
(* is there.                                                               *)
(***************************************************************************)
OperationsSucceed == p.ok

(***************************************************************************)
(* Every node of a full Pollard has its hash, read by its position: roots  *)
(* are those every other node computes, and nothing above a deleted, added *)
(* or restored leaf was left unhashed.                                     *)
(***************************************************************************)
HashesMatchForest == p.Full =>
  /\ GetRoots(p) = ForestRoots(p.NumLeaves, live)
  /\ \A pos \in 0..(maxPosition(Rows(p)) - 1) :
       inForest(pos, p.NumLeaves, Rows(p)) => getHash(p, pos) = NodeHash(p.NumLeaves, live, pos)

(***************************************************************************)
(* The map has only leaves that are in the Pollard, all of them if it is   *)
(* full; each one leads to a node with that hash, and the position         *)
(* computed from the node is the one the leaf has in the forest.           *)
(***************************************************************************)
MapFindsLeaves ==
  /\ p.NumLeaves - p.NumDels = Cardinality(live)
  /\ DOMAIN p.NodeMap \subseteq {LeafHash(s) : s \in live}
  /\ p.Full => RememberedLeaves = live
  /\ \A s \in RememberedLeaves :
       LET found(n) == /\ p.h[n].data = LeafHash(s)
                       /\ calculatePosition(p, n) = LeafPosition(p.NumLeaves, live, s)
       IN  found(p.NodeMap[LeafHash(s)])

(***************************************************************************)
(* A niece and its aunt point to each other, a root has no aunt, and the   *)
(* nodes that can be reached are those of the trees: updateAunt's early    *)
(* return skips no niece, and no pointer to a removed node is left.        *)
(***************************************************************************)
PointersAgree ==
  /\ \A n \in DOMAIN p.h : \A m \in {p.h[n].lNiece, p.h[n].rNiece} \ {nil} : p.h[m].aunt = n
  /\ \A i \in DOMAIN p.Roots : p.h[p.Roots[i]].aunt = nil
  /\ Cardinality(DOMAIN p.h) =
       FoldFunction(LAMBDA n, count : getCount(p.h, n) + count, 0, p.Roots)

(***************************************************************************)
(* The proof a full Pollard gives of any set of leaves is the one of the   *)
(* forest, and Verify accepts it.                                          *)
(***************************************************************************)
ProvesEveryLeaf == p.Full =>
  \A D \in SUBSET live :
    LET checked(result, proof) ==
          /\ result.ok /\ result.targets = proof.targets /\ result.proof = proof.proof
          /\ VerifyHashes(p, LeafHashes(Ascending(D)), proof)
    IN  checked(ProveHashes(p, LeafHashes(Ascending(D))),
                Prove(p.NumLeaves, live, Ascending(D)))

(***************************************************************************)
(* A Pollard that is not full has forgotten nothing it needs: the leaves   *)
(* it was told to remember, and only those, are proved as the forest       *)
(* proves them.                                                            *)
(***************************************************************************)
ProvesRememberedLeaves == ~p.Full =>
  /\ GetRoots(p) = ForestRoots(p.NumLeaves, live)
  /\ \A D \in SUBSET RememberedLeaves :
       LET same(result, proof) ==
             result.ok /\ result.targets = proof.targets /\ result.proof = proof.proof
       IN  same(ProveHashes(p, LeafHashes(Ascending(D))), Prove(p.NumLeaves, live, Ascending(D)))

(***************************************************************************)
(* And it keeps no node for nothing: each one is a root, a remembered leaf *)
(* or on the way from one to its root, or in the proof of one.             *)
(***************************************************************************)
KeepsOnlyNeededNodes == ~p.Full =>
  LET targets == {LeafPosition(p.NumLeaves, live, s) : s \in RememberedLeaves}
      needed(ps) == targets \cup Range(ps.proof) \cup Range(ps.computed)
                      \cup Range(RootPositions(p.NumLeaves, Rows(p)))
  IN  {pos \in 0..(maxPosition(Rows(p)) - 1) :
         inForest(pos, p.NumLeaves, Rows(p)) /\ getHash(p, pos) # empty}
        \subseteq needed(proofPositions(Ascending(targets), p.NumLeaves, Rows(p)))

(***************************************************************************)
(* A file that was cut short is refused, unless nothing but empty roots is *)
(* missing: readOne says of the end of the file that the Pollard has been  *)
(* restored, and RestorePollardFrom counts the leaves.                     *)
(***************************************************************************)
TruncatedFileIsRefused ==
  LET file == WriteTo(p)
      same(q) == \A pos \in 0..(maxPosition(Rows(p)) - 1) :
                   inForest(pos, p.NumLeaves, Rows(p)) => getHash(q, pos) = getHash(p, pos)
      accepted(q) == q.ok => same(q)
  IN  \A k \in 0..Len(file) : accepted(RestorePollardFrom(SubSeq(file, 1, k)))

----------------------------------------------------------------------------
(***************************************************************************)
(* A Pollard is an accumulator whose cached leaves are those of the map,   *)
(* which are all its leaves if it is full.                                 *)
(***************************************************************************)
MappedLeaves == {s \in 0..(p.NumLeaves - 1) : LeafHash(s) \in DOMAIN p.NodeMap}

A == INSTANCE Accumulator
       WITH numLeaves <- p.NumLeaves,
            live      <- IF p.Full THEN MappedLeaves ELSE live,
            kept      <- MappedLeaves,
            log       <- [i \in DOMAIN undoable |-> [numLeaves |-> undoable[i].numLeaves,
                                                     live      |-> undoable[i].live]]

(***************************************************************************)
(* Modify and Undo do to the map what the accumulator does to its leaves,  *)
(* and a restart from a file does nothing to it.                           *)
(***************************************************************************)
ImplementsAccumulator == A!Spec

=============================================================================
