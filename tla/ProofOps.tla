------------------------------ MODULE ProofOps ------------------------------
(***************************************************************************)
(* What prove.go computes from proofs.  A proof is a record: the targets,  *)
(* and the hashes (proof) of the other positions needed to reach the       *)
(* roots, in the order proofPositions lists them.                          *)
(***************************************************************************)
EXTENDS HashAndPos

EmptyProof == [targets |-> << >>, proof |-> << >>]

(***************************************************************************)
(* Hash the targets up to the roots.  nodes: every position whose hash was *)
(* known or computed on the way.  roots: the root hashes, lowest root      *)
(* first.  The row only grows; targets outside of the forest are not       *)
(* modelled (the code would not leave the loop that looks for their row).  *)
(***************************************************************************)
calculateHashes(numLeaves, delHashes, proof) ==
  LET totalRows == treeRows(numLeaves)
      toProve   == toHashAndPos(proof.targets, delHashes)
      rowOf(pos, row) ==
        Min({r \in row..totalRows : pos <= maxPositionAtRow(r, totalRows, numLeaves)})
      sibHash(s, sibIdx) == CASE sibIdx = 0  -> toProve[s.ti].hash
                              [] sibIdx = 1  -> s.nodes[s.ni].hash
                              [] sibIdx = -1 -> proof.proof[s.pi]
      rise(s, next, hash) ==
        IF isRootPositionOnRow(next.pos, numLeaves, s.row)
        THEN [s EXCEPT !.roots = Append(@, hash)]
        ELSE [s EXCEPT !.ti = @ + (IF next.sibIdx = 0 THEN 1 ELSE 0),
                       !.ni = @ + (IF next.sibIdx = 1 THEN 1 ELSE 0),
                       !.pi = @ + (IF next.sibIdx = -1 THEN 1 ELSE 0),
                       !.nodes = Append(@, [pos  |-> parent(next.pos, totalRows),
                                            hash |-> getNextHash(next.pos, hash,
                                                       sibHash(s, next.sibIdx))])]
      take(s, next) ==
        CASE next.idx = -1 -> [s EXCEPT !.row = totalRows + 1]
          [] next.idx = 0  -> rise([s EXCEPT !.row = rowOf(next.pos, @), !.ti = @ + 1],
                                   next, toProve[s.ti].hash)
          [] next.idx = 1  -> rise([s EXCEPT !.row = rowOf(next.pos, @), !.ni = @ + 1],
                                   next, s.nodes[s.ni].hash)
      result(end) == [nodes |-> mergeSortedHashAndPos(end.nodes, toProve),
                      roots |-> end.roots]
  IN  result(While([row |-> 0, ti |-> 1, ni |-> 1, pi |-> 1, roots |-> << >>, nodes |-> << >>],
                   LAMBDA s : s.row <= totalRows,
                   LAMBDA s : take(s, getNextPos(positions(toProve), positions(s.nodes),
                                                 s.ti, s.ni)),
                   Len(proof.targets) * (totalRows + 1) + 1))

(***************************************************************************)
(* Mutant of hashesAfterDeletion: the targets are left out of the nodes.   *)
(***************************************************************************)
hashesAboveDeletion(numLeaves, proof) ==
  LET after == calculateHashes(numLeaves, [i \in DOMAIN proof.targets |-> empty], proof)
  IN  [after EXCEPT !.nodes = subtractSortedHashAndPos(@, Sorted(proof.targets))]

(***************************************************************************)
(* calculateHashes with nil hashes: the targets are deleted.               *)
(***************************************************************************)
hashesAfterDeletion(numLeaves, proof) ==
  calculateHashes(numLeaves, [i \in DOMAIN proof.targets |-> empty], proof)

(***************************************************************************)
(* Verify a proof against root hashes, highest root first.  The computed   *)
(* roots are matched in order against the roots read from the last to the  *)
(* first.  indexes: the matched roots.                                     *)
(***************************************************************************)
Verify(numLeaves, roots, delHashes, proof) ==
  LET match(candidates) ==
        LET matched[i \in 0..Len(roots)] ==
              IF i = 0 THEN << >>
              ELSE LET idx == Len(roots) + 1 - i
                       m   == matched[i - 1]
                   IN  IF Len(m) < Len(candidates) /\ roots[idx] = candidates[Len(m) + 1]
                       THEN Append(m, idx) ELSE m
        IN  matched[Len(roots)]
      verdict(candidates, indexes) ==
        IF Len(indexes) # Len(candidates) THEN [ok |-> FALSE, indexes |-> << >>]
        ELSE [ok |-> TRUE, indexes |-> indexes]
      against(candidates) == verdict(candidates, match(candidates))
  IN  IF Len(delHashes) # Len(proof.targets) THEN [ok |-> FALSE, indexes |-> << >>]
      ELSE against(calculateHashes(numLeaves, delHashes, proof).roots)

(***************************************************************************)
(* The proof hashes with the positions they belong to.                     *)
(***************************************************************************)
proofWithPositions(proof, numLeaves) ==
  toHashAndPos(proofPositions(Sorted(proof.targets), numLeaves, treeRows(numLeaves)).proof,
               proof.proof)

----------------------------------------------------------------------------
(***************************************************************************)
(* Mutant of GetMissingPositions: what can be computed is asked for.       *)
(***************************************************************************)
GetUnprovenPositions(numLeaves, proofTargets, desiredTargets) ==
  LET rows    == treeRows(numLeaves)
      targets == Sorted(proofTargets)
      desired == subtractSortedSlice(Sorted(desiredTargets), targets)
      have    == proofPositions(targets, numLeaves, rows)
  IN  subtractSortedSlice(proofPositions(desired, numLeaves, rows).proof,
                          Sorted(have.proof \o targets))

(***************************************************************************)
(* The positions still missing to prove the desired targets when a proof   *)
(* of proofTargets is at hand.                                             *)
(***************************************************************************)
GetMissingPositions(numLeaves, proofTargets, desiredTargets) ==
  LET rows    == treeRows(numLeaves)
      targets == Sorted(proofTargets)
      desired == subtractSortedSlice(Sorted(desiredTargets), targets)
      have    == proofPositions(targets, numLeaves, rows)
  IN  IF desired = << >> THEN << >>
      ELSE subtractSortedSlice(proofPositions(desired, numLeaves, rows).proof,
                               Sorted(have.proof \o targets \o have.computed))

(***************************************************************************)
(* Merge two proofs, leaving out the hashes that became computable and     *)
(* those of targets.  Returns the target hashes and the proof.             *)
(***************************************************************************)
AddProof(proofA, proofB, targetHashesA, targetHashesB, numLeaves) ==
  LET rows     == treeRows(numLeaves)
      targetsA == Sorted(proofA.targets)
      targetsB == Sorted(proofB.targets)
      posA     == proofPositions(targetsA, numLeaves, rows)
      posB     == proofPositions(targetsB, numLeaves, rows)
      attach(pos, hs) == [i \in DOMAIN pos |-> [pos |-> pos[i], hash |-> hs[i]]]
      merged   == mergeSortedHashAndPos(attach(posA.proof, proofA.proof),
                                        attach(posB.proof, proofB.proof))
      needed   == subtractSortedHashAndPos(merged,
                    mergeSortedSlices(posA.computed, posB.computed))
      targets  == mergeSortedSlices(targetsA, targetsB)
  IN  [hashes |-> hashes(mergeSortedHashAndPos(toHashAndPos(proofA.targets, targetHashesA),
                                               toHashAndPos(proofB.targets, targetHashesB))),
       proof  |-> [targets |-> targets,
                   proof   |-> hashes(subtractSortedHashAndPos(needed, targets))]]

(***************************************************************************)
(* Mutant of hashesInOrder: the order of the positions is kept.            *)
(***************************************************************************)
hashesByPosition(hnp, wants) == hashes(hnp)

(***************************************************************************)
(* The hashes of the wanted positions, in the order they are wanted.       *)
(***************************************************************************)
hashesInOrder(hnp, wants) == [i \in DOMAIN wants |-> HashAt(hnp, wants[i])]

(***************************************************************************)
(* The proof of some of a proof's targets.  ok is FALSE for an error.      *)
(* The hashes are attached to a sorted copy of the targets.                *)
(***************************************************************************)
GetProofSubset(proof, hs, wants, numLeaves) ==
  LET rows     == treeRows(numLeaves)
      targets  == Sorted(proof.targets)
      known    == toHashAndPos(targets, hs)
      computed == byPos(calculateHashes(numLeaves, hs, proof).nodes)
      pile     == mergeSortedHashAndPos(computed, proofWithPositions(proof, numLeaves))
      wanted   == getHashAndPosSubset(known, Sorted(wants))
      wantPos  == proofPositions(positions(wanted), numLeaves, rows).proof
      found    == getHashAndPosSubset(pile, wantPos)
  IN  IF subtractSortedSlice(Sorted(wants), targets) # << >> \/ Len(found) # Len(wantPos)
      THEN [ok |-> FALSE, hashes |-> << >>, proof |-> EmptyProof]
      ELSE [ok     |-> TRUE,
            hashes |-> hashesInOrder(wanted, wants),
            proof  |-> [targets |-> wants, proof |-> hashes(found)]]

----------------------------------------------------------------------------
(***************************************************************************)
(* Mutant of rootsToDestory: every empty root, written over or not.        *)
(***************************************************************************)
everyEmptyRoot(numAdds, numLeaves, origRoots) ==
  LET root == RootPositions(numLeaves, treeRows(numLeaves + numAdds))
  IN  Ascending({root[i] : i \in {j \in DOMAIN origRoots : origRoots[j] = empty}})

(***************************************************************************)
(* The positions, in the forest after the additions, of the empty roots    *)
(* that numAdds more leaves write over, in the order they are met.         *)
(***************************************************************************)
rootsToDestory(numAdds, numLeaves, origRoots) ==
  LET rows == treeRows(numLeaves + numAdds)
      step(s) ==
        IF rootExistsOnRow(s.n, s.h)
        THEN [s EXCEPT !.h = @ + 1,
                       !.roots = SubSeq(@, 1, Len(@) - 1),
                       !.deleted = IF s.roots[Len(s.roots)] = empty
                                   THEN Append(@, rootPosition(s.n, s.h, rows)) ELSE @]
        ELSE [s EXCEPT !.n = @ + 1, !.h = 0, !.roots = Append(@, LeafHash(0))]
  IN  While([n |-> numLeaves, h |-> 0, roots |-> origRoots, deleted |-> << >>],
            LAMBDA s : s.n < numLeaves + numAdds, step,
            Len(origRoots) + 2 * numAdds).deleted

=============================================================================
