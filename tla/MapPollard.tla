----------------------------- MODULE MapPollard -----------------------------
(***************************************************************************)
(* The MapPollard (mappollard.go): a sparse forest kept in two maps, from  *)
(* positions to nodes and from the hashes of the cached leaves to their    *)
(* positions.  Nodes that no cached leaf needs are pruned.                 *)
(*                                                                         *)
(* The MapPollard is one value m; an operator named after a method is the  *)
(* method's effect on it, and ok turns FALSE when the method returns an    *)
(* error.  A map is a function; a lookup that finds nothing returns the    *)
(* zero Leaf.  Positions are those of a forest with TotalRows rows, which  *)
(* may be taller than the leaves need: proofs from and to other nodes are  *)
(* translated.                                                             *)
(***************************************************************************)
EXTENDS Forest

CONSTANTS
  InitialRows,  \* the TotalRows that a new MapPollard may have
  MaxLeaves,    \* bound: leaves ever added
  MaxAdds,      \* bound: leaves added by one block
  MaxUndo,      \* bound: blocks that can be undone
  MaxWritten    \* bound: leaves ever added to a MapPollard that is written to a file

ASSUME MapPollardAssumption ==
  /\ InitialRows \subseteq Nat /\ InitialRows # {}
  /\ MaxLeaves \in Nat /\ MaxAdds \in Nat /\ MaxUndo \in Nat /\ MaxWritten \in Nat

VARIABLES
  m,            \* the MapPollard
  live,         \* history: the slots of the leaves that are in the forest
  wanted,       \* history: the slots of the leaves that should be cached
  undoable,     \* what the caller keeps to undo the last blocks, latest last
  stray         \* history: a node that is no cached leaf was read back as remembered

vars == <<m, live, wanted, undoable, stray>>

NewMapPollard(rows) ==
  [Nodes |-> << >>, CachedLeaves |-> << >>, NumLeaves |-> 0, TotalRows |-> rows, ok |-> TRUE]

Leaf(hash, remember) == [hash |-> hash, remember |-> remember]

fail(q) == [q EXCEPT !.ok = FALSE]

----------------------------------------------------------------------------
(***************************************************************************)
(* The maps.                                                               *)
(***************************************************************************)
put(map, key, value) == (key :> value) @@ map

without(map, keys) == [k \in DOMAIN map \ keys |-> map[k]]

node(q, pos) == IF pos \in DOMAIN q.Nodes THEN q.Nodes[pos] ELSE Leaf(empty, FALSE)

cached(q, hs) == Range(hs) \subseteq DOMAIN q.CachedLeaves

(***************************************************************************)
(* The nodes at the keys of move go to the positions it gives, all at      *)
(* once, and a cached leaf among them is cached there.                     *)
(***************************************************************************)
moved(q, move) ==
  LET from(pos) == CHOOSE c \in DOMAIN move : move[c] = pos
      cachedAt(hash) == {c \in DOMAIN move : q.Nodes[c].hash = hash}
  IN  [q EXCEPT !.Nodes = [pos \in Range(move) |-> q.Nodes[from(pos)]] @@ without(@, DOMAIN move),
                !.CachedLeaves = [hash \in DOMAIN @ |->
                                    IF cachedAt(hash) = {} THEN @[hash]
                                    ELSE move[CHOOSE c \in cachedAt(hash) : TRUE]]]

(***************************************************************************)
(* Roots are looked for in the taller forest.                              *)
(***************************************************************************)
isRoot(q, pos) == isRootPositionTotalRows(pos, q.NumLeaves, q.TotalRows)

Below(q, position) == {c \in DOMAIN q.Nodes : isAncestor(position, c, q.TotalRows)}

(***************************************************************************)
(* Mutant of fromOthers: the positions are taken as given.                 *)
(***************************************************************************)
fromOthersAsGiven(q, ps) == ps

fromOthers(q, ps) ==
  IF q.TotalRows = treeRows(q.NumLeaves) THEN ps
  ELSE translatePositions(ps, treeRows(q.NumLeaves), q.TotalRows)

----------------------------------------------------------------------------
(***************************************************************************)
(* Pruning.  The nieces of a position are the children of its sibling.     *)
(***************************************************************************)
niecesPresent(q, pos) ==
  /\ detectRow(pos, q.TotalRows) # 0
  /\ \/ leftChild(sibling(pos), q.TotalRows) \in DOMAIN q.Nodes
     \/ rightChild(sibling(pos), q.TotalRows) \in DOMAIN q.Nodes

(***************************************************************************)
(* Mutant of prunePosition: both nodes have to be remembered to stay.      *)
(***************************************************************************)
prunePositionEither(q, pos) ==
  IF node(q, pos).remember /\ node(q, sibling(pos)).remember THEN q
  ELSE [q EXCEPT !.Nodes = without(@, {x \in {pos, sibling(pos)} : ~niecesPresent(q, x)})]

prunePosition(q, pos) ==
  IF node(q, pos).remember \/ node(q, sibling(pos)).remember THEN q
  ELSE [q EXCEPT !.Nodes = without(@, {x \in {pos, sibling(pos)} : ~niecesPresent(q, x)})]

pruneNieces(q, pos) ==
  IF detectRow(pos, q.TotalRows) = 0 THEN q ELSE prunePosition(q, leftChild(pos, q.TotalRows))

(***************************************************************************)
(* Mutants of forgetUnneededDel: nothing is pruned; the root is pruned     *)
(* too.                                                                    *)
(***************************************************************************)
forgetNothing(q, del) == q

forgetUnneededRoot(q, del) ==
  LET step(s) ==
        LET up(pos) == [m |-> prunePosition(s.m, pos), pos |-> pos, row |-> s.row + 1]
        IN  up(parent(s.pos, q.TotalRows))
  IN  While([m |-> q, pos |-> del, row |-> detectRow(del, q.TotalRows)],
            LAMBDA s : s.row <= q.TotalRows, step, q.TotalRows + 1).m

(***************************************************************************)
(* Everything from the parent of the deleted position up to the root.      *)
(***************************************************************************)
forgetUnneededDel(q, del) ==
  LET step(s) ==
        LET up(pos) == IF isRoot(q, pos) THEN [s EXCEPT !.row = q.TotalRows + 1]
                       ELSE [m |-> prunePosition(s.m, pos), pos |-> pos, row |-> s.row + 1]
        IN  up(parent(s.pos, q.TotalRows))
  IN  IF isRoot(q, del) THEN q
      ELSE While([m |-> q, pos |-> del, row |-> detectRow(del, q.TotalRows)],
                 LAMBDA s : s.row <= q.TotalRows, step, q.TotalRows + 1).m

forgetBelow(q, position) == [q EXCEPT !.Nodes = without(@, Below(q, position))]

(***************************************************************************)
(* The descendants of a position and of its sibling move to where the      *)
(* deletion of delPos brings them.  The code moves them row by row from    *)
(* the top, so that no node meets one that has still to move.              *)
(***************************************************************************)
moveUpDescendants(q, position, delPos) ==
  moved(q, [c \in Below(q, position) \cup Below(q, sibling(position)) |->
              calcNextPosition(c, delPos, q.TotalRows)])

----------------------------------------------------------------------------
(***************************************************************************)
(* Adding.  When the next leaf needs another row, the nodes above row 0    *)
(* are renumbered first.                                                   *)
(***************************************************************************)
remap(q) ==
  LET nextRows == treeRows(q.NumLeaves + 1)
      row(pos) == detectRow(pos, q.TotalRows)
      used == {pos \in DOMAIN q.Nodes :
                 row(pos) >= 1 /\ pos <= maxPositionAtRow(row(pos), q.TotalRows, q.NumLeaves)}
      next(pos) == translatePos(pos, q.TotalRows, nextRows)
      renumbered == [n \in {next(pos) : pos \in used} |-> q.Nodes[CHOOSE pos \in used : next(pos) = n]]
  IN  IF nextRows <= q.TotalRows THEN q
      ELSE [q EXCEPT !.Nodes = renumbered @@ without(@, used),
                     !.CachedLeaves = [hash \in DOMAIN @ |-> next(@[hash])],
                     !.TotalRows = nextRows]

(***************************************************************************)
(* The new leaf moves up past an empty root, and is hashed with another.   *)
(***************************************************************************)
addSingle(q, leaf) ==
  LET rootPos(s) == rootPosition(s.m.NumLeaves, s.row, s.m.TotalRows)
      place(r, pos, n) == pruneNieces([r EXCEPT !.Nodes = put(@, pos, n)], pos)
      up(s) == parent(s.pos, s.m.TotalRows)
      vacated(s) ==
        [s.m EXCEPT !.Nodes = without(@, {s.pos}),
                    !.CachedLeaves = IF /\ leaf.remember /\ s.node.hash = leaf.hash
                                        /\ leaf.hash \in DOMAIN @
                                     THEN put(@, leaf.hash, up(s)) ELSE @]
      past(s) == [s EXCEPT !.m = place(moveUpDescendants(vacated(s), s.pos, rootPos(s)),
                                       up(s), s.node)]
      hashed(s, n) == [s EXCEPT !.m = place(@, up(s), n), !.node = n]
      onto(s, root) == IF root.hash = empty THEN past(s)
                       ELSE hashed(s, Leaf(parentHash(root.hash, s.node.hash), FALSE))
      step(s) == IF rootPos(s) \notin DOMAIN s.m.Nodes
                 THEN [s EXCEPT !.m = fail(@)]
                 ELSE [onto(s, node(s.m, rootPos(s))) EXCEPT !.row = @ + 1, !.pos = up(s)]
      placed(r) == [r EXCEPT !.Nodes = put(@, r.NumLeaves, leaf),
                             !.CachedLeaves = IF leaf.remember THEN put(@, leaf.hash, r.NumLeaves)
                                                               ELSE @]
      counted(r) == IF r.ok THEN [r EXCEPT !.NumLeaves = @ + 1] ELSE r
      from(r) == While([m |-> placed(r), pos |-> r.NumLeaves, node |-> leaf, row |-> 0],
                       LAMBDA s : s.m.ok /\ Bit(r.NumLeaves, s.row) = 1, step, r.TotalRows + 1).m
  IN  counted(from(remap(q)))

(***************************************************************************)
(* op for every element of seq, from the first to the last, until it fails.*)
(***************************************************************************)
ForEach(q, seq, op(_, _)) ==
  LET after[i \in 0..Len(seq)] ==
        IF i = 0 THEN q
        ELSE LET r == after[i - 1] IN IF r.ok THEN op(r, seq[i]) ELSE r
  IN  after[Len(seq)]

add(q, adds) == ForEach(q, adds, addSingle)

----------------------------------------------------------------------------
(***************************************************************************)
(* Deleting.  The hashes above a deleted position are computed again, and  *)
(* stored where there is a node.  The loop does not stop at a parent that  *)
(* is a root; above a root it finds no node.                               *)
(***************************************************************************)
updateHashes(q, position, hash) ==
  LET up(s) == parent(s.pos, q.TotalRows)
      next(s) == IF isLeftNiece(s.pos) THEN parentHash(s.hash, node(s.m, sibling(s.pos)).hash)
                 ELSE parentHash(node(s.m, sibling(s.pos)).hash, s.hash)
      stored(r, pos, h) == IF pos \in DOMAIN r.Nodes
                           THEN [r EXCEPT !.Nodes[pos] = Leaf(h, FALSE)] ELSE r
      step(s) == [m |-> stored(s.m, up(s), next(s)), pos |-> up(s), hash |-> next(s),
                  row |-> IF isRoot(q, up(s)) THEN q.TotalRows + 1 ELSE s.row + 1]
      from(pos) == [m |-> q, pos |-> pos, hash |-> hash, row |-> detectRow(pos, q.TotalRows)]
  IN  While(from(parent(position, q.TotalRows)), LAMBDA s : s.row <= q.TotalRows, step,
            q.TotalRows + 1).m

removeSingle(q, del) ==
  LET sib == sibling(del)
      risen(r) == IF sib \in DOMAIN r.Nodes
                  THEN moveUpDescendants(moved(r, sib :> parent(del, q.TotalRows)), sib, del)
                  ELSE r
      from(r) == forgetUnneededDel(updateHashes(risen(r), del, node(r, sib).hash), del)
      below(r) == IF isRoot(q, del) THEN [r EXCEPT !.Nodes = put(@, del, Leaf(empty, FALSE))]
                  ELSE from([r EXCEPT !.Nodes = without(@, {del})])
  IN  below(forgetBelow(q, del))

(***************************************************************************)
(* Mutant of uncacheLeaves: the deleted leaves stay cached.                *)
(***************************************************************************)
uncacheNothing(q, dels) == q

uncacheLeaves(q, dels) == [q EXCEPT !.CachedLeaves = without(@, Range(dels))]

remove(q, proof, delHashes) ==
  IF ~cached(q, delHashes) THEN fail(q)
  ELSE ForEach(uncacheLeaves(q, delHashes),
               deTwin(fromOthers(q, Sorted(proof.targets)), q.TotalRows), removeSingle)

Modified(q, adds, delHashes, proof) ==
  LET added(r) == IF r.ok THEN add(r, adds) ELSE r
  IN  added(remove(q, proof, delHashes))

----------------------------------------------------------------------------
(***************************************************************************)
(* Undoing.  remembered marks the nodes at ps that are cached leaves.      *)
(***************************************************************************)
remembered(q, ps) ==
  [q EXCEPT !.Nodes = [pos \in DOMAIN @ |->
                         IF pos \in ps /\ @[pos].hash \in DOMAIN q.CachedLeaves
                         THEN Leaf(@[pos].hash, TRUE) ELSE @[pos]]]

(***************************************************************************)
(* The nodes that moved up when prevRootPos went away move down again,     *)
(* the lowest ones first.                                                  *)
(***************************************************************************)
placeEmptyRoot(q, prevRootPos) ==
  LET curPos(pos) == calcNextPosition(pos, prevRootPos, q.TotalRows)
      lowered == {pos \in 0..(maxPosition(q.TotalRows) - 1) :
                    /\ isAncestor(sibling(prevRootPos), pos, q.TotalRows)
                    /\ node(q, curPos(pos)).hash # empty}
      down(move) == remembered(moved(q, move), Range(move))
  IN  down([c \in {curPos(pos) : pos \in lowered} |-> CHOOSE pos \in lowered : curPos(pos) = c])

(***************************************************************************)
(* Take out the last leaf: the nodes from its root down to the right go,   *)
(* and the empty roots that the leaf moved past are put back.              *)
(***************************************************************************)
undoSingleAdd(s) ==
  LET rows == s.m.TotalRows
      removed(r, pos) == [r EXCEPT !.Nodes = without(@, {pos}),
                                   !.CachedLeaves = without(@, {node(r, pos).hash})]
      emptied(r, lChild) == [placeEmptyRoot(r, lChild)
                               EXCEPT !.Nodes = put(@, lChild, Leaf(empty, TRUE))]
      below(t, r, lChild) ==
        IF t.h # 0 /\ t.emptyRoots # << >> /\ t.emptyRoots[1] = lChild
        THEN [m |-> emptied(r, lChild), emptyRoots |-> Tail(t.emptyRoots)]
        ELSE [m |-> r, emptyRoots |-> t.emptyRoots]
      step(t) == LET next(b) == [m |-> b.m, emptyRoots |-> b.emptyRoots, h |-> t.h - 1,
                                 pos |-> rightChild(t.pos, rows)]
                 IN  next(below(t, removed(t.m, t.pos), leftChild(t.pos, rows)))
      from(row) == [m |-> s.m, emptyRoots |-> s.emptyRoots, h |-> row,
                    pos |-> rootPosition(s.m.NumLeaves - 1, row, rows)]
      counted(t) == [m |-> [t.m EXCEPT !.NumLeaves = @ - 1], emptyRoots |-> t.emptyRoots,
                     ok |-> TRUE]
  IN  counted(While(from(getLowestRoot(s.m.NumLeaves, rows)), LAMBDA t : t.h >= 0, step, rows + 1))

(***************************************************************************)
(* The roots between the deletions and the additions of the undone block.  *)
(***************************************************************************)
getRootsAfterDel(q, numAdds, targets, prevRootPos, origPrevRoots) ==
  LET detwined == deTwin(translatePositions(Sorted(targets), treeRows(q.NumLeaves - numAdds),
                                            q.TotalRows), q.TotalRows)
  IN  [j \in DOMAIN origPrevRoots |->
         IF InSlice(detwined, prevRootPos[j]) THEN empty ELSE origPrevRoots[j]]

getWrittenOverEmptyRoots(q, numAdds, origTargets, origPrevRoots) ==
  LET n == q.NumLeaves - numAdds
      over(rootPos, prevRoots, destroyed) ==
        SelectSeq(rootPos, LAMBDA pos : /\ InSlice(destroyed, pos)
                                        /\ \E i \in DOMAIN rootPos :
                                             rootPos[i] = pos /\ prevRoots[i] = empty)
      from(rootPos, prevRoots) ==
        over(rootPos, prevRoots, fromOthers(q, rootsToDestory(numAdds, n, prevRoots)))
      of(rootPos) == from(rootPos, getRootsAfterDel(q, numAdds, origTargets, rootPos, origPrevRoots))
  IN  of(RootPositions(n, q.TotalRows))

undoAdd(q, numAdds, origTargets, origPrevRoots) ==
  ForEach([m |-> q, ok |-> TRUE,
           emptyRoots |-> getWrittenOverEmptyRoots(q, numAdds, origTargets, origPrevRoots)],
          [i \in 1..numAdds |-> i], LAMBDA s, i : undoSingleAdd(s)).m

----------------------------------------------------------------------------
(***************************************************************************)
(* Store the hashes of a proof where no node is, and what they hash to     *)
(* with the targets' hashes everywhere.  The targets become cached.        *)
(***************************************************************************)
placeProof(q, proofPos, proof) ==
  [q EXCEPT !.Nodes = @ @@ [pos \in Range(proofPos) |->
                              Leaf(proof.proof[CHOOSE i \in DOMAIN proofPos : proofPos[i] = pos],
                                   FALSE)]]

placeComputed(q, delHashes, proof) ==
  LET targets == Range(fromOthers(q, proof.targets))
      place(ps, hs) ==
        [q EXCEPT !.Nodes = [pos \in Range(ps) |->
                               Leaf(hs[CHOOSE i \in DOMAIN ps : ps[i] = pos], pos \in targets)] @@ @,
                  !.CachedLeaves = [hash \in {hs[i] : i \in {j \in DOMAIN ps : ps[j] \in targets}} |->
                                      ps[CHOOSE i \in DOMAIN ps : hs[i] = hash /\ ps[i] \in targets]] @@ @]
      from(nodes) == place(fromOthers(q, positions(nodes)), hashes(nodes))
  IN  from(calculateHashes(q.NumLeaves, delHashes, proof).nodes)

(***************************************************************************)
(* The proof positions up to the first that is not in the forest.          *)
(***************************************************************************)
trimProofPos(proofPos, numLeaves) ==
  LET out == {i \in DOMAIN proofPos : ~inForest(proofPos[i], numLeaves, treeRows(numLeaves))}
  IN  IF out = {} THEN proofPos ELSE SubSeq(proofPos, 1, Min(out) - 1)

(***************************************************************************)
(* The deleted nodes come back.  From the highest on, what had moved up    *)
(* moves down again; the proof of the deletion has the other hashes.       *)
(***************************************************************************)
undoDeletion(q, proof, delHashes) ==
  LET dels == deTwin(Sorted(fromOthers(q, proof.targets)), q.TotalRows)
      descending == [i \in DOMAIN dels |-> dels[Len(dels) + 1 - i]]
      below(r, del) == IF inForest(sibling(del), r.NumLeaves, r.TotalRows)
                       THEN placeEmptyRoot(r, del) ELSE r
      lowered(r, sib, prevPos) ==
        IF sib \in DOMAIN r.Nodes THEN remembered(moved(r, sib :> prevPos), {prevPos}) ELSE r
      back(r, del) == LET sib == parent(del, r.TotalRows)
                      IN  lowered(below(r, del), sib, calcPrevPosition(sib, del, r.TotalRows))
      needed == proofPositions(Sorted(proof.targets), q.NumLeaves, treeRows(q.NumLeaves)).proof
      proofPos == IF q.TotalRows = treeRows(q.NumLeaves) THEN needed
                  ELSE fromOthers(q, trimProofPos(needed, q.NumLeaves))
  IN  placeComputed(placeProof(ForEach(q, descending, back), proofPos, proof), delHashes, proof)

Undone(q, numAdds, proof, delHashes, origPrevRoots) ==
  LET rooted(r, rootPos) ==
        [r EXCEPT !.Nodes = [pos \in Range(rootPos) |->
                               LET root == origPrevRoots[CHOOSE i \in DOMAIN rootPos : rootPos[i] = pos]
                               IN  Leaf(root, root \in DOMAIN r.CachedLeaves)] @@ @]
      from(r) == rooted(r, RootPositions(r.NumLeaves, r.TotalRows))
      deleted(r) == from(undoDeletion(r, proof, delHashes))
  IN  deleted(undoAdd(q, numAdds, proof.targets, origPrevRoots))

----------------------------------------------------------------------------
(***************************************************************************)
(* Proving and verifying.                                                  *)
(***************************************************************************)
GetRoots(q) ==
  LET hashesAt(ps) == [i \in DOMAIN ps |-> node(q, ps[i]).hash]
  IN  hashesAt(RootPositions(q.NumLeaves, q.TotalRows))

ProveHashes(q, proveHashes) ==
  LET none == [ok |-> FALSE, targets |-> << >>, proof |-> << >>]
      toOthers(ps) == IF q.TotalRows = treeRows(q.NumLeaves) THEN ps
                      ELSE translatePositions(ps, q.TotalRows, treeRows(q.NumLeaves))
      with(targets, needed) ==
        IF Range(needed) \subseteq DOMAIN q.Nodes
        THEN [ok |-> TRUE, targets |-> toOthers(targets),
              proof |-> [i \in DOMAIN needed |-> q.Nodes[needed[i]].hash]]
        ELSE none
      from(targets) ==
        with(targets, proofPositions(Sorted(targets), q.NumLeaves, q.TotalRows).proof)
  IN  IF ~cached(q, proveHashes) THEN none
      ELSE from([i \in DOMAIN proveHashes |-> q.CachedLeaves[proveHashes[i]]])

Ingest(q, delHashes, proof) ==
  LET targets == Sorted(fromOthers(q, proof.targets))
  IN  placeComputed(placeProof(q, proofPositions(targets, q.NumLeaves, q.TotalRows).proof, proof),
                    delHashes, proof)

(***************************************************************************)
(* Verify first takes the targets for positions of its own forest; the     *)
(* positions of the lower one are all on row 0 there and stay as they are. *)
(***************************************************************************)
Verified(q, delHashes, proof) ==
  LET given == IF q.TotalRows = treeRows(q.NumLeaves) THEN proof
               ELSE [proof EXCEPT !.targets =
                       translatePositions(@, q.TotalRows, treeRows(q.NumLeaves))]
  IN  IF Verify(q.NumLeaves, GetRoots(q), delHashes, given).ok
      THEN Ingest(q, delHashes, given) ELSE fail(q)

(***************************************************************************)
(* Mutant of Write: the byte is set for no node.                           *)
(***************************************************************************)
WriteUnmarked(q, marked) == [q EXCEPT !.Nodes = [pos \in DOMAIN @ |-> Leaf(@[pos].hash, FALSE)]]

(***************************************************************************)
(* The file.  Write has one buffer for all the nodes and never clears the  *)
(* byte that says whether to remember one: a node written after a          *)
(* remembered node is marked too.  The order is that of a range over a     *)
(* map, so that any set of the other nodes may be.                         *)
(***************************************************************************)
Write(q, marked) ==
  [q EXCEPT !.Nodes = [pos \in DOMAIN @ |-> Leaf(@[pos].hash, @[pos].remember \/ pos \in marked)]]

Markable(q) ==
  LET rest == {pos \in DOMAIN q.Nodes : ~q.Nodes[pos].remember}
  IN  IF rest = DOMAIN q.Nodes THEN {{}} ELSE SUBSET rest

Read(file) ==
  IF \A hash \in DOMAIN file.CachedLeaves :
       /\ file.CachedLeaves[hash] \in DOMAIN file.Nodes
       /\ file.Nodes[file.CachedLeaves[hash]].hash = hash
  THEN file ELSE fail(file)

----------------------------------------------------------------------------
LeavesToAdd(q, remembers) ==
  [i \in DOMAIN remembers |-> Leaf(LeafHash(q.NumLeaves + i - 1), remembers[i])]

LastOf(s, k) == SubSeq(s, Len(s) - (IF k < Len(s) THEN k ELSE Len(s)) + 1, Len(s))

Init ==
  /\ \E rows \in InitialRows : m = NewMapPollard(rows)
  /\ live = {} /\ wanted = {} /\ undoable = << >> /\ stray = FALSE

(***************************************************************************)
(* A block deletes cached leaves, with a full node's proof, and adds some. *)
(***************************************************************************)
Modify(slots, remembers) ==
  LET proof == Prove(m.NumLeaves, live, slots)
      added(choice) == {m.NumLeaves + i - 1 : i \in {j \in DOMAIN remembers : remembers[j] \in choice}}
  IN  /\ m.ok
      /\ m.NumLeaves + Len(remembers) <= MaxLeaves
      /\ m' = Modified(m, LeavesToAdd(m, remembers), LeafHashes(slots), proof)
      /\ live' = (live \ Range(slots)) \cup added(BOOLEAN)
      /\ wanted' = (wanted \ Range(slots)) \cup added({TRUE})
      /\ undoable' = LastOf(Append(undoable, [numAdds |-> Len(remembers), proof |-> proof,
                                              slots |-> slots, prevRoots |-> GetRoots(m),
                                              numLeaves |-> m.NumLeaves, live |-> live]), MaxUndo)
      /\ UNCHANGED stray

(***************************************************************************)
(* Someone's proof of leaves is verified and remembered.                   *)
(***************************************************************************)
VerifyAndRemember(slots) ==
  /\ m.ok
  /\ m' = Verified(m, LeafHashes(slots), Prove(m.NumLeaves, live, slots))
  /\ wanted' = wanted \cup Range(slots)
  /\ UNCHANGED <<live, undoable, stray>>

(***************************************************************************)
(* Undoing a block takes its leaves out of the cache, and puts the leaves  *)
(* that it deleted back into it.                                           *)
(***************************************************************************)
Undo ==
  LET last == undoable[Len(undoable)]
  IN  /\ m.ok
      /\ undoable # << >>
      /\ m' = Undone(m, last.numAdds, last.proof, LeafHashes(last.slots), last.prevRoots)
      /\ live' = last.live
      /\ wanted' = (wanted \cap last.live) \cup Range(last.slots)
      /\ undoable' = SubSeq(undoable, 1, Len(undoable) - 1)
      /\ UNCHANGED stray

(***************************************************************************)
(* The MapPollard is written to a file and the program starts again.       *)
(***************************************************************************)
Restart(marked) ==
  /\ m.ok
  /\ m.NumLeaves <= MaxWritten
  /\ m' = Read(Write(m, marked))
  /\ stray' = (stray \/ marked # {})
  /\ UNCHANGED <<live, wanted, undoable>>

Remembers == UNION {[1..k -> BOOLEAN] : k \in 0..MaxAdds}

Next ==
  \/ \E D \in SUBSET wanted : \E r \in Remembers : Modify(Ascending(D), r)
  \/ \E D \in SUBSET live \ {{}} : VerifyAndRemember(Ascending(D))
  \/ Undo
  \/ \E marked \in Markable(m) : Restart(marked)

Spec == Init /\ [][Next]_vars

----------------------------------------------------------------------------
(***************************************************************************)
(* No operation that a caller may ask for is refused.                      *)
(***************************************************************************)
OperationsSucceed == m.ok

own(pos) == translatePos(pos, treeRows(m.NumLeaves), m.TotalRows)

(***************************************************************************)
(* The roots are those of the forest, and so is the hash of every node     *)
(* that is kept, at its position in the forest of TotalRows rows.          *)
(***************************************************************************)
NodesMatchForest ==
  /\ GetRoots(m) = ForestRoots(m.NumLeaves, live)
  /\ \A pos \in DOMAIN m.Nodes :
       \E other \in 0..(maxPosition(treeRows(m.NumLeaves)) - 1) :
         own(other) = pos /\ m.Nodes[pos].hash = NodeHash(m.NumLeaves, live, other)

(***************************************************************************)
(* The leaves that should be cached are, no other is, each at its position *)
(* and marked there as remembered, so that it is not pruned.               *)
(***************************************************************************)
CachedLeavesAreRemembered ==
  /\ DOMAIN m.CachedLeaves = {LeafHash(s) : s \in wanted}
  /\ \A s \in wanted :
       LET pos == own(LeafPosition(m.NumLeaves, live, s))
       IN  m.CachedLeaves[LeafHash(s)] = pos /\ node(m, pos) = Leaf(LeafHash(s), TRUE)

(***************************************************************************)
(* Any set of cached leaves is proved, as a full node proves it.           *)
(***************************************************************************)
ProvesCachedLeaves ==
  \A D \in SUBSET wanted :
    LET same(result, proof) ==
          result.ok /\ result.targets = proof.targets /\ result.proof = proof.proof
    IN  same(ProveHashes(m, LeafHashes(Ascending(D))), Prove(m.NumLeaves, live, Ascending(D)))

Needed ==
  LET needs(pos, ps) == {pos} \cup Range(ps.proof) \cup Range(ps.computed)
      neededBy(pos) == needs(pos, proofPositions(<<pos>>, m.NumLeaves, m.TotalRows))
  IN  Range(RootPositions(m.NumLeaves, m.TotalRows))
        \cup UNION {neededBy(m.CachedLeaves[hash]) : hash \in DOMAIN m.CachedLeaves}

(***************************************************************************)
(* Nothing is kept that no cached leaf needs: a node is a root, a cached   *)
(* leaf, in the proof of one or on the way from one to its root; for as    *)
(* long as only cached leaves are marked as remembered.                    *)
(***************************************************************************)
UnneededNodesArePruned == stray \/ DOMAIN m.Nodes \subseteq Needed

(***************************************************************************)
(* The same whatever file the MapPollard was read from: "Write writes the  *)
(* entire pollard" (mappollard.go:925), and "Unneeded nodes aren't cached" *)
(* (mappollard_test.go:33).                                                *)
(***************************************************************************)
PrunesAfterRestart == DOMAIN m.Nodes \subseteq Needed

----------------------------------------------------------------------------
(***************************************************************************)
(* A MapPollard is an accumulator whose cached leaves are those of the     *)
(* map.  The other leaves are known to its users only.                     *)
(***************************************************************************)
A == INSTANCE Accumulator
       WITH numLeaves <- m.NumLeaves,
            kept      <- {s \in 0..(m.NumLeaves - 1) : LeafHash(s) \in DOMAIN m.CachedLeaves},
            log       <- [i \in DOMAIN undoable |-> [numLeaves |-> undoable[i].numLeaves,
                                                     live      |-> undoable[i].live]]

(***************************************************************************)
(* Modify, Verify with remember and Undo change what is cached exactly as  *)
(* the accumulator does, and nothing else changes it.                      *)
(***************************************************************************)
ImplementsAccumulator == A!Spec

=============================================================================
