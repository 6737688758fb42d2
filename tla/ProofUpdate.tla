---------------------------- MODULE ProofUpdate ----------------------------
(***************************************************************************)
(* Keeping a cached proof current when a block of deletions and additions  *)
(* is applied (Proof.Update) and when it is taken back (Proof.Undo).       *)
(***************************************************************************)
EXTENDS ProofOps

(***************************************************************************)
(* The new position of one node after the given deletions, on a row the    *)
(* caller worked out.                                                      *)
(***************************************************************************)
movedPosition(pos, row, blockTargets, numLeaves) ==
  LET totalRows == treeRows(numLeaves)
      step(s) ==
        LET target == blockTargets[s.k]
        IN  IF isRootPositionOnRow(s.pos, numLeaves, row)
            THEN [s EXCEPT !.k = Len(blockTargets) + 1]
            ELSE [k   |-> s.k + 1,
                  pos |-> IF /\ detectOffset(target, numLeaves).tree
                                  = detectOffset(s.pos, numLeaves).tree
                             /\ isAncestor(parent(target, totalRows), s.pos, totalRows)
                          THEN calcNextPosition(s.pos, target, totalRows) ELSE s.pos]
  IN  While([k |-> 1, pos |-> pos], LAMBDA s : s.k <= Len(blockTargets), step,
            Len(blockTargets)).pos

(***************************************************************************)
(* Move every node of the slice; a node with an empty hash is dropped, and *)
(* so is a node that became a root unless appendRoots.  The row is carried *)
(* from one element to the next and never shrinks.                         *)
(***************************************************************************)
getNewPositions(blockTargets, slice, numLeaves, appendRoots) ==
  LET totalRows == treeRows(numLeaves)
      rowOf(pos, row) ==
        Min({r \in row..totalRows : pos <= maxPossiblePosAtRow(r, totalRows)}
              \cup {totalRows + 1})
      place(s, next, hash, row) ==
        [k   |-> s.k + 1, row |-> row,
         new |-> IF appendRoots \/ ~isRootPositionOnRow(next, numLeaves, row)
                 THEN Append(s.new, [pos |-> next, hash |-> hash]) ELSE s.new]
      move(s, e, row) ==
        CASE e.hash = empty -> [s EXCEPT !.k = @ + 1]
          [] e.hash # empty /\ row > totalRows -> [s EXCEPT !.k = Len(slice) + 1]
          [] OTHER -> place(s, movedPosition(e.pos, row, blockTargets, numLeaves), e.hash, row)
      step(s) == move(s, slice[s.k], rowOf(slice[s.k].pos, s.row))
  IN  byPos(While([k |-> 1, row |-> 0, new |-> << >>], LAMBDA s : s.k <= Len(slice),
                  step, Len(slice)).new)

(***************************************************************************)
(* A cached proof, and the hashes of its targets, from targets and proof   *)
(* hashes with their positions.                                            *)
(***************************************************************************)
cachedProof(targets, proofs) ==
  [hashes |-> hashes(targets),
   proof  |-> [targets |-> positions(targets), proof |-> hashes(proofs)]]

(***************************************************************************)
(* The nodes of a slice at the given positions, those it has.              *)
(***************************************************************************)
nodesAt(hnp, ps) ==
  LET node(pos) == [pos |-> pos, hash |-> HashAt(hnp, pos)]
      nodes(had) == [i \in DOMAIN had |-> node(had[i])]
  IN  nodes(SelectSeq(ps, LAMBDA p : HasPos(hnp, p)))

(***************************************************************************)
(* The nodes of a slice with the hashes that another has for them.         *)
(***************************************************************************)
withHashesOf(hnp, updated) ==
  [i \in DOMAIN hnp |->
     IF HasPos(updated, hnp[i].pos)
     THEN [hnp[i] EXCEPT !.hash = HashAt(updated, hnp[i].pos)] ELSE hnp[i]]

(***************************************************************************)
(* Drop the deleted targets, replace the proof hashes that the deletion    *)
(* changed (updated), add the ones that are no longer computable, and move *)
(* everything to its new position.                                         *)
(***************************************************************************)
updateProofRemove(proof, blockTargets, cachedHashes, updated, numLeaves) ==
  LET rows == treeRows(numLeaves)
      kept(oldProofs, extraPos) ==
        withHashesOf(
          SelectSeq(oldProofs,
            LAMBDA e : /\ ~InSlice(extraPos, e.pos)
                       /\ HasPos(updated, e.pos) => HashAt(updated, e.pos) # empty),
          updated)
      missing(oldPos, neededPos, dels) ==
        nodesAt(updated, subtractSortedSlice(subtractSortedSlice(neededPos, oldPos), dels))
      newProofs(oldProofs, neededPos, dels) ==
        kept(oldProofs, subtractSortedSlice(positions(oldProofs), neededPos))
          \o missing(positions(oldProofs), neededPos, dels)
      moved(targets, proofs, moves) ==
        cachedProof(getNewPositions(moves, targets, numLeaves, TRUE),
                    getNewPositions(moves, proofs, numLeaves, FALSE))
      remove(targets, dels) ==
        moved(targets,
              newProofs(proofWithPositions(proof, numLeaves),
                        proofPositions(positions(targets), numLeaves, rows).proof, dels),
              deTwin(dels, rows))
      from(dels) ==
        remove(subtractSortedHashAndPos(toHashAndPos(proof.targets, cachedHashes), dels), dels)
  IN  from(Sorted(blockTargets))

(***************************************************************************)
(* Mutant of maybeRemap: the positions of the old forest are kept.         *)
(***************************************************************************)
neverRemap(numLeaves, numAdds, hnp) == hnp

(***************************************************************************)
(* The positions of a taller forest, when the additions need one.          *)
(***************************************************************************)
maybeRemap(numLeaves, numAdds, hnp) ==
  LET new == treeRows(numLeaves + numAdds)
      old == treeRows(numLeaves)
      remapped(pos) == LET row == detectRow(pos, old)
                       IN  pos - startPositionAtRow(row, old) + startPositionAtRow(row, new)
  IN  IF new > old THEN [i \in DOMAIN hnp |-> [hnp[i] EXCEPT !.pos = remapped(@)]] ELSE hnp

(***************************************************************************)
(* Cache the remembered additions (0-based, ascending) and take from the   *)
(* new nodes the proof hashes that are needed from now on.                 *)
(***************************************************************************)
updateProofAdd(proof, adds, cachedHashes, remembers, addedNodes, beforeNumLeaves, toDestroy) ==
  LET numLeaves == beforeNumLeaves + Len(adds)
      moveOver(hnp) ==
        While([k |-> 1, hnp |-> maybeRemap(beforeNumLeaves, Len(adds), hnp)],
              LAMBDA s : s.k <= Len(toDestroy),
              LAMBDA s : [k   |-> s.k + 1,
                          hnp |-> getNewPositions(<<toDestroy[s.k]>>, s.hnp, numLeaves, TRUE)],
              Len(toDestroy)).hnp
      addHashes == [k \in DOMAIN remembers |-> adds[remembers[k] + 1]]
      prove(targets, newNodes) ==
        cachedProof(targets,
          byPos(nodesAt(newNodes, proofPositions(positions(targets), numLeaves,
                                                 treeRows(numLeaves)).proof)))
      add(targets, newNodes) ==
        prove(mergeSortedHashAndPos(getHashAndPosHashSubset(newNodes, addHashes), targets),
              newNodes)
  IN  add(moveOver(toHashAndPos(proof.targets, cachedHashes)),
          mergeSortedHashAndPos(addedNodes,
                                moveOver(proofWithPositions(proof, beforeNumLeaves))))

Update(proof, cachedHashes, addHashes, blockTargets, remembers, updateData) ==
  LET add(removed) ==
        updateProofAdd(removed.proof, addHashes, removed.hashes, remembers,
                       updateData.newAdd, updateData.prevNumLeaves, updateData.toDestroy)
  IN  add(updateProofRemove(proof, blockTargets, cachedHashes,
                            updateData.newDel, updateData.prevNumLeaves))

----------------------------------------------------------------------------
(***************************************************************************)
(* Taking a block back (Proof.Undo): first the additions.                  *)
(***************************************************************************)

(***************************************************************************)
(* Keep the positions that can exist in the previous, smaller forest.      *)
(***************************************************************************)
pruneEdges(hnp, prevNumLeaves, forestRows, prevForestRows) ==
  SelectSeq(hnp, LAMBDA e :
    LET row == detectRow(e.pos, forestRows)
    IN  /\ row <= prevForestRows
        /\ startPositionAtRow(row, prevForestRows) + e.pos - startPositionAtRow(row, forestRows)
             <= maxPositionAtRow(row, prevForestRows, prevNumLeaves))

(***************************************************************************)
(* Move the nodes below a destroyed empty root back to where they were.    *)
(***************************************************************************)
moveBack(hnp, toDestroy, numLeaves, prevNumLeaves) ==
  LET rows == treeRows(numLeaves)
      back(pos, destroyed) ==
        IF /\ destroyed > pos
           /\ detectOffset(pos, numLeaves).tree = detectOffset(destroyed, prevNumLeaves).tree
           /\ isAncestor(parent(destroyed, rows), pos, rows)
        THEN calcPrevPosition(pos, destroyed, rows) ELSE pos
  IN  While([k |-> 1, hnp |-> hnp], LAMBDA s : s.k <= Len(toDestroy),
            LAMBDA s : [k   |-> s.k + 1,
                        hnp |-> [i \in DOMAIN hnp |->
                                   [s.hnp[i] EXCEPT !.pos = back(@, toDestroy[s.k])]]],
            Len(toDestroy)).hnp

(***************************************************************************)
(* Remove the nodes in the tree of a destroyed root.  The element after a  *)
(* removed one is skipped.                                                 *)
(***************************************************************************)
prunePass(hnp, destroyed, numLeaves) ==
  LET under(pos) ==
        \/ detectOffset(destroyed, numLeaves).tree = detectOffset(pos, numLeaves).tree
        \/ pos = destroyed
  IN  While([i |-> 1, s |-> hnp], LAMBDA w : w.i <= Len(w.s),
            LAMBDA w : [i |-> w.i + 1,
                        s |-> IF under(w.s[w.i].pos)
                              THEN SubSeq(w.s, 1, w.i - 1) \o SubSeq(w.s, w.i + 1, Len(w.s))
                              ELSE w.s],
            Len(hnp)).s

(***************************************************************************)
(* Mutant of pruneUnder: nothing is pruned.                                *)
(***************************************************************************)
pruneNothing(hnp, toDestroy, numLeaves, prevForestRows) == hnp

(***************************************************************************)
(* Every destroyed root is gone through once for each row of the previous  *)
(* forest.                                                                 *)
(***************************************************************************)
pruneUnder(hnp, toDestroy, numLeaves, prevForestRows) ==
  LET n      == Len(toDestroy)
      passes == (prevForestRows + 1) * n
  IN  While([k |-> 0, s |-> hnp], LAMBDA w : w.k < passes,
            LAMBDA w : [k |-> w.k + 1,
                        s |-> prunePass(w.s, toDestroy[(w.k % n) + 1], numLeaves)],
            passes).s

undoAdd(proof, numAdds, numLeaves, cachedHashes, toDestroy) ==
  LET rows     == treeRows(numLeaves)
      prev     == numLeaves - numAdds
      prevRows == treeRows(prev)
      remapped(pos) == LET row == detectRow(pos, rows)
                       IN  pos - startPositionAtRow(row, rows) + startPositionAtRow(row, prevRows)
      remap(hnp) ==
        IF prevRows < rows
        THEN [i \in DOMAIN hnp |-> [hnp[i] EXCEPT !.pos = remapped(@)]] ELSE hnp
      undone(hnp) ==
        remap(pruneUnder(pruneEdges(moveBack(hnp, toDestroy, numLeaves, prev),
                                    prev, rows, prevRows),
                         toDestroy, numLeaves, prevRows))
      from(targets, proofs) ==
        cachedProof(targets,
          getHashAndPosSubset(proofs, proofPositions(positions(targets), prev, prevRows).proof))
  IN  from(undone(toHashAndPos(proof.targets, cachedHashes)),
           undone(proofWithPositions(proof, numLeaves)))

(***************************************************************************)
(* Then the deletions.  deTwin of targets with their hashes.               *)
(***************************************************************************)
deTwinHashAndPos(sorted, forestRows) ==
  LET twins(s) == s.i < Len(s.hnp) /\ rightSib(s.hnp[s.i].pos) = s.hnp[s.i + 1].pos
      step(s)  ==
        IF twins(s)
        THEN [s EXCEPT !.hnp = mergeSortedHashAndPos(
                         SubSeq(@, 1, s.i - 1) \o SubSeq(@, s.i + 2, Len(@)),
                         <<[pos  |-> parent(@[s.i].pos, forestRows),
                            hash |-> parentHash(@[s.i].hash, @[s.i + 1].hash)]>>)]
        ELSE [s EXCEPT !.i = @ + 1]
  IN  While([hnp |-> sorted, i |-> 1], LAMBDA s : s.i <= Len(s.hnp), step,
            2 * Len(sorted)).hnp

(***************************************************************************)
(* A node below the place where the deleted node's sibling moved to.       *)
(***************************************************************************)
movedUpBy(pos, blockTarget, numLeaves) ==
  LET rows   == treeRows(numLeaves)
      sibPos == parent(blockTarget, rows)
  IN  /\ detectOffset(pos, numLeaves).tree = detectOffset(blockTarget, numLeaves).tree
      /\ isAncestor(sibPos, pos, rows) \/ sibPos = pos

(***************************************************************************)
(* Move the cached targets down again for one deletion.  The slice is      *)
(* sorted while it is walked.  news collects the deleted node as a proof   *)
(* hash, once for every target that moves.                                 *)
(***************************************************************************)
undoDelTargets(targets, news, del, numLeaves) ==
  LET step(s) ==
        LET t == s.hnp[s.i]
        IN  IF movedUpBy(t.pos, del.pos, numLeaves)
            THEN [i    |-> s.i + 1,
                  news |-> byPos(Append(s.news, del)),
                  hnp  |-> byPos([s.hnp EXCEPT ![s.i].pos =
                                    calcPrevPosition(@, del.pos, treeRows(numLeaves))])]
            ELSE [s EXCEPT !.i = @ + 1]
  IN  While([i |-> 1, hnp |-> targets, news |-> news], LAMBDA s : s.i <= Len(s.hnp),
            step, Len(targets))

(***************************************************************************)
(* Move the proof hashes down again for one deletion, and add the parent   *)
(* of the deleted node.  The loop goes over the positions the slice had    *)
(* when it started; they are the slice's own (shared) until the first      *)
(* parent is merged in, which makes a new slice.                           *)
(***************************************************************************)
undoDelProofs(proofs, del, numLeaves) ==
  LET rows == treeRows(numLeaves)
      above(sib) ==
        [pos  |-> parent(del.pos, rows),
         hash |-> IF isLeftNiece(del.pos) THEN parentHash(del.hash, sib)
                  ELSE parentHash(sib, del.hash)]
      moved(s, pos) == byPos([s.hnp EXCEPT ![s.i].pos = calcPrevPosition(pos, del.pos, rows)])
      next(s, slice) ==
        [i      |-> s.i + 1,
         range  |-> IF s.shared THEN slice ELSE s.range,
         shared |-> FALSE,
         hnp    |-> mergeSortedHashAndPos(slice, <<above(s.hnp[s.i].hash)>>)]
      step(s) == IF movedUpBy(s.range[s.i].pos, del.pos, numLeaves)
                 THEN next(s, moved(s, s.range[s.i].pos)) ELSE [s EXCEPT !.i = @ + 1]
  IN  While([i |-> 1, range |-> proofs, shared |-> TRUE, hnp |-> proofs],
            LAMBDA s : s.i <= Len(s.range), step, Len(proofs)).hnp

undoDel(proof, blockTargets, blockHashes, cachedHashes, blockProof, numLeaves) ==
  LET rows == treeRows(numLeaves)
      next(s, t, del) ==
        [k       |-> s.k - 1,
         targets |-> t.hnp,
         news    |-> t.news,
         proofs  |-> undoDelProofs(s.proofs, del, numLeaves)]
      moveDown(dels) ==
        While([k       |-> Len(dels),
               targets |-> toHashAndPos(proof.targets, cachedHashes),
               news    |-> << >>,
               proofs  |-> proofWithPositions(proof, numLeaves)],
              LAMBDA s : s.k >= 1,
              LAMBDA s : next(s, undoDelTargets(s.targets, s.news, dels[s.k], numLeaves),
                              dels[s.k]),
              Len(dels))
      pile(merged, before) == mergeSortedHashAndPos(withHashesOf(merged, before), before)
      from(end) ==
        cachedProof(end.targets,
          getHashAndPosSubset(
            pile(mergeSortedHashAndPos(end.proofs, end.news),
                 calculateHashes(numLeaves, blockHashes, blockProof).nodes),
            proofPositions(positions(end.targets), numLeaves, rows).proof))
  IN  IF blockTargets = << >> THEN [hashes |-> cachedHashes, proof |-> proof]
      ELSE from(moveDown(deTwinHashAndPos(toHashAndPos(blockTargets, blockHashes), rows)))

Undo(proof, numAdds, numLeaves, dels, delHashes, cachedHashes, toDestroy, blockProof) ==
  LET undoDels(added) == undoDel(added.proof, dels, delHashes, added.hashes, blockProof,
                                 numLeaves - numAdds)
  IN  undoDels(undoAdd(proof, numAdds, numLeaves, cachedHashes, toDestroy))

=============================================================================
