------------------------------- MODULE Stump -------------------------------
(***************************************************************************)
(* The smallest accumulator (stump.go): the number of leaves ever added    *)
(* and the roots, highest first.  Update verifies a proof of the leaves to *)
(* delete, replaces the roots it touches, and adds leaves one after the    *)
(* other, hashing each with the roots below the lowest 0 bit of NumLeaves. *)
(*                                                                         *)
(* One call of Update runs from "ready" to "done"; pc is the point the     *)
(* call has reached and every turn of the two loops of add is a step of    *)
(* its own, which is what makes the loop's invariant expressible.  Nothing *)
(* else runs in between: the code has no concurrency.                      *)
(*                                                                         *)
(* live is the history of the calls, not state of the code: the leaves     *)
(* added and not deleted by accepted calls.  A full node that knows them   *)
(* makes the proofs (Forest!Prove).                                        *)
(***************************************************************************)
EXTENDS Forest

CONSTANTS
  MaxLeaves,    \* bound: leaves ever added
  MaxAdds,      \* bound: leaves added by one call
  OnesCount64   \* math/bits: the number of one bits, for 0..MaxLeaves

ASSUME BoundsAssumption == MaxLeaves \in Nat /\ MaxAdds \in Nat

ASSUME OnesCount64Assumption ==
  /\ DOMAIN OnesCount64 = 0..MaxLeaves
  /\ OnesCount64[0] = 0
  /\ \A n \in 0..MaxLeaves : OnesCount64[n] \in Nat
  /\ \A n \in 1..MaxLeaves : OnesCount64[n] = OnesCount64[n \div 2] + (n % 2)

VARIABLES
  NumLeaves,    \* Stump.NumLeaves
  Roots,        \* Stump.Roots
  live,         \* history: the slots of the leaves that are not deleted
  pc,           \* "ready", "add" (between two leaves), "hash", "done"
  block,        \* the arguments of the call: delHashes, proof, adds
  toAdd,        \* add: the leaves not added yet
  newRoot,      \* add: the root under construction ...
  pos,          \* ... its position ...
  rest,         \* ... and NumLeaves >> h, which the inner loop looks at
  subTree,      \* add: subTreeUpdated
  subTrees,     \* add: subTrees
  updateData    \* what Update returns

loop  == <<toAdd, newRoot, pos, rest, subTree, subTrees>>
vars  == <<NumLeaves, Roots, live, pc, block, toAdd, newRoot, pos, rest, subTree,
           subTrees, updateData>>

numRoots(numLeaves) == OnesCount64[numLeaves]

NoBlock == [delHashes |-> << >>, proof |-> EmptyProof, adds |-> << >>]

NoData == [toDestroy |-> << >>, prevNumLeaves |-> 0, newDel |-> << >>, newAdd |-> << >>]

----------------------------------------------------------------------------
(***************************************************************************)
(* Mutant of addPosition: empty roots are not taken into account.          *)
(***************************************************************************)
addPositionAtSlot(numAdds, numLeaves, roots) == numLeaves

(***************************************************************************)
(* The position of a leaf that is added now: its slot, moved up for every  *)
(* empty root it will be placed over.                                      *)
(***************************************************************************)
addPosition(numAdds, numLeaves, roots) ==
  LET rows    == treeRows(numLeaves + numAdds)
      deleted == rootsToDestory(numAdds, numLeaves, roots)
  IN  While([k |-> 1, pos |-> numLeaves], LAMBDA s : s.k <= Len(deleted),
            LAMBDA s : [k   |-> s.k + 1,
                        pos |-> IF isAncestor(parent(deleted[s.k], rows), s.pos, rows)
                                THEN calcNextPosition(s.pos, deleted[s.k], rows)
                                ELSE s.pos],
            Len(deleted)).pos

(***************************************************************************)
(* The nodes of all the additions: a subtree that shares a hash with the   *)
(* next one is left out, the next one has its nodes.                       *)
(***************************************************************************)
mergeSubTrees(trees) ==
  LET step(s) ==
        [k |-> s.k + 1,
         updated |-> IF /\ s.k < Len(trees)
                        /\ getHashAndPosHashSubset(trees[s.k], hashes(trees[s.k + 1])) # << >>
                     THEN s.updated ELSE mergeSortedHashAndPos(s.updated, trees[s.k])]
  IN  While([k |-> 1, updated |-> << >>], LAMBDA s : s.k <= Len(trees), step,
            Len(trees)).updated

replaceRoots(roots, indexes, modified) ==
  [i \in DOMAIN roots |->
     IF \E k \in DOMAIN indexes : indexes[k] = i
     THEN modified[CHOOSE k \in DOMAIN indexes : indexes[k] = i] ELSE roots[i]]

----------------------------------------------------------------------------
Init ==
  /\ NumLeaves = 0
  /\ Roots = << >>
  /\ live = {}
  /\ pc = "ready"
  /\ block = NoBlock
  /\ toAdd = << >> /\ newRoot = empty /\ pos = 0 /\ rest = 0
  /\ subTree = << >> /\ subTrees = << >>
  /\ updateData = NoData

(***************************************************************************)
(* The call of Update, up to the loop of add.  A proof that does not       *)
(* verify, or that yields another number of roots once its targets are     *)
(* deleted, is an error and changes nothing.                               *)
(***************************************************************************)
Accepts(delHashes, proof) ==
  LET verified == Verify(NumLeaves, Roots, delHashes, proof)
  IN  /\ verified.ok
      /\ Len(hashesAfterDeletion(NumLeaves, proof).roots) = Len(verified.indexes)

Reject(delHashes, adds, proof) ==
  /\ pc = "ready"
  /\ ~Accepts(delHashes, proof)
  /\ UNCHANGED vars

del(delHashes, adds, proof) ==
  /\ pc = "ready"
  /\ Accepts(delHashes, proof)
  /\ LET after == hashesAfterDeletion(NumLeaves, proof)
     IN  /\ Roots' = replaceRoots(Roots, Verify(NumLeaves, Roots, delHashes, proof).indexes,
                                  after.roots)
         /\ updateData' = [toDestroy     |-> rootsToDestory(Len(adds), NumLeaves, Roots'),
                           prevNumLeaves |-> NumLeaves,
                           newDel        |-> after.nodes,
                           newAdd        |-> << >>]
  /\ block' = [delHashes |-> delHashes, proof |-> proof, adds |-> adds]
  /\ live' = {s \in live : ~InSlice(delHashes, LeafHash(s))}
              \cup {NumLeaves + i - 1 : i \in DOMAIN adds}
  /\ toAdd' = adds
  /\ pc' = "add"
  /\ UNCHANGED <<NumLeaves, newRoot, pos, rest, subTree, subTrees>>

(***************************************************************************)
(* Mutant of addNext: the leaf is counted before it is added.              *)
(***************************************************************************)
addNextCounted ==
  /\ pc = "add"
  /\ toAdd # << >>
  /\ pos' = addPosition(Len(toAdd), NumLeaves, Roots)
  /\ newRoot' = Head(toAdd)
  /\ subTree' = << >>
  /\ rest' = NumLeaves + 1
  /\ pc' = "hash"
  /\ UNCHANGED <<NumLeaves, Roots, live, block, toAdd, subTrees, updateData>>

(***************************************************************************)
(* The start of the outer loop: the next leaf.                             *)
(***************************************************************************)
addNext ==
  /\ pc = "add"
  /\ toAdd # << >>
  /\ pos' = addPosition(Len(toAdd), NumLeaves, Roots)
  /\ newRoot' = Head(toAdd)
  /\ subTree' = << >>
  /\ rest' = NumLeaves
  /\ pc' = "hash"
  /\ UNCHANGED <<NumLeaves, Roots, live, block, toAdd, subTrees, updateData>>

(***************************************************************************)
(* Mutant of hashWithRoot: an empty root stays on the slice.               *)
(***************************************************************************)
hashWithRootKeepingEmpty ==
  /\ pc = "hash"
  /\ rest % 2 = 1
  /\ LET root == Roots[Len(Roots)]
     IN  IF root = empty THEN UNCHANGED <<subTree, newRoot, pos, Roots>>
         ELSE /\ subTree' = subTree \o <<[pos |-> leftSib(pos), hash |-> root],
                                          [pos |-> pos, hash |-> newRoot]>>
              /\ newRoot' = parentHash(root, newRoot)
              /\ pos' = parent(pos, treeRows(NumLeaves + Len(toAdd)))
              /\ Roots' = SubSeq(Roots, 1, Len(Roots) - 1)
  /\ rest' = rest \div 2
  /\ UNCHANGED <<NumLeaves, live, pc, block, toAdd, subTrees, updateData>>

(***************************************************************************)
(* A turn of the inner loop: there is a root on this row.  It is taken off *)
(* the slice and, unless it is empty, hashed with the new one.             *)
(***************************************************************************)
hashWithRoot ==
  /\ pc = "hash"
  /\ rest % 2 = 1
  /\ LET root == Roots[Len(Roots)]
     IN  IF root = empty THEN UNCHANGED <<subTree, newRoot, pos>>
         ELSE /\ subTree' = subTree \o <<[pos |-> leftSib(pos), hash |-> root],
                                          [pos |-> pos, hash |-> newRoot]>>
              /\ newRoot' = parentHash(root, newRoot)
              /\ pos' = parent(pos, treeRows(NumLeaves + Len(toAdd)))
  /\ Roots' = SubSeq(Roots, 1, Len(Roots) - 1)
  /\ rest' = rest \div 2
  /\ UNCHANGED <<NumLeaves, live, pc, block, toAdd, subTrees, updateData>>

(***************************************************************************)
(* Mutant of pushRoot: the leaf is not done with.                          *)
(***************************************************************************)
pushRootAgain ==
  /\ pc = "hash"
  /\ rest % 2 = 0
  /\ subTrees' = Append(subTrees, Append(subTree, [pos |-> pos, hash |-> newRoot]))
  /\ Roots' = Append(Roots, newRoot)
  /\ NumLeaves' = NumLeaves + 1
  /\ pc' = "add"
  /\ UNCHANGED <<live, block, toAdd, newRoot, pos, rest, subTree, updateData>>

(***************************************************************************)
(* The end of the outer loop's body: no root on this row.                  *)
(***************************************************************************)
pushRoot ==
  /\ pc = "hash"
  /\ rest % 2 = 0
  /\ subTrees' = Append(subTrees, Append(subTree, [pos |-> pos, hash |-> newRoot]))
  /\ Roots' = Append(Roots, newRoot)
  /\ NumLeaves' = NumLeaves + 1
  /\ toAdd' = Tail(toAdd)
  /\ pc' = "add"
  /\ UNCHANGED <<live, block, newRoot, pos, rest, subTree, updateData>>

(***************************************************************************)
(* The end of the outer loop: the nodes of the new trees are merged.       *)
(***************************************************************************)
addDone ==
  /\ pc = "add"
  /\ toAdd = << >>
  /\ updateData' = [updateData EXCEPT !.newAdd = mergeSubTrees(subTrees)]
  /\ pc' = "done"
  /\ UNCHANGED <<NumLeaves, Roots, live, block, loop>>

(***************************************************************************)
(* The caller has taken what Update returned; its local variables are gone.*)
(***************************************************************************)
return ==
  /\ pc = "done"
  /\ pc' = "ready"
  /\ block' = NoBlock
  /\ updateData' = NoData
  /\ toAdd' = << >> /\ newRoot' = empty /\ pos' = 0 /\ rest' = 0
  /\ subTree' = << >> /\ subTrees' = << >>
  /\ UNCHANGED <<NumLeaves, Roots, live>>

----------------------------------------------------------------------------
(***************************************************************************)
(* The calls.  The leaves to delete come in ascending or descending order, *)
(* with a proof made by a full node in the same state.  Besides the true   *)
(* hashes: one hash too few, a hash that was never added in the place of   *)
(* one of them, and the true hashes in reversed order.                     *)
(***************************************************************************)
Orders(S) ==
  LET up == Ascending(S) IN {up, [i \in DOMAIN up |-> up[Len(up) + 1 - i]]}

Claims(slots) ==
  LET hs == LeafHashes(slots)
  IN  {hs, SubSeq(hs, 1, Len(hs) - 1), [i \in DOMAIN hs |-> hs[Len(hs) + 1 - i]]}
        \cup {[hs EXCEPT ![i] = LeafHash(MaxLeaves)] : i \in DOMAIN hs}

NewLeaves(k) == [i \in 1..k |-> LeafHash(NumLeaves + i - 1)]

AddCounts == {k \in 0..MaxAdds : NumLeaves + k <= MaxLeaves}

Call(delHashes, adds, proof) == Reject(delHashes, adds, proof) \/ del(delHashes, adds, proof)

addStep == addNext \/ hashWithRoot \/ pushRoot \/ addDone

Next ==
  \/ \E D \in SUBSET live : \E slots \in Orders(D) : \E delHashes \in Claims(slots) :
       \E k \in AddCounts : Call(delHashes, NewLeaves(k), Prove(NumLeaves, live, slots))
  \/ addStep
  \/ return

Spec == Init /\ [][Next]_vars

----------------------------------------------------------------------------
(***************************************************************************)
(* The variables have the types of the code's.                             *)
(***************************************************************************)
TypeOK ==
  /\ NumLeaves \in 0..MaxLeaves
  /\ Roots \in Seq(Range(Roots))
  /\ live \subseteq 0..(MaxLeaves - 1)
  /\ pc \in {"ready", "add", "hash", "done"}
  /\ toAdd \in Seq(Range(toAdd))
  /\ NumLeaves + Len(toAdd) <= MaxLeaves
  /\ pc = "hash" => toAdd # << >>
  /\ rest \in 0..MaxLeaves
  /\ DOMAIN updateData = {"toDestroy", "prevNumLeaves", "newDel", "newAdd"}

(***************************************************************************)
(* There are as many roots as NumLeaves has one bits whenever add is       *)
(* between two leaves, and the inner loop of add, which takes the last     *)
(* root off the slice without looking at its length, never meets an empty  *)
(* slice.                                                                  *)
(***************************************************************************)
RootCount ==
  /\ pc # "hash" => Len(Roots) = numRoots(NumLeaves)
  /\ pc = "hash" /\ rest % 2 = 1 => Roots # << >>

(***************************************************************************)
(* The invariant of the loops of add that RootCount rests on: the roots    *)
(* left are those of the bits of NumLeaves not looked at yet, carrying the *)
(* new leaf into those bits gives as many roots as NumLeaves + 1 has ones, *)
(* and no leaf of the call is lost or added twice: when it returns every   *)
(* one of them has a slot.                                                 *)
(***************************************************************************)
LoopInv ==
  /\ pc # "hash" => Len(Roots) = numRoots(NumLeaves)
  /\ pc = "hash" => /\ rest <= NumLeaves
                    /\ Len(Roots) = numRoots(rest)
                    /\ numRoots(NumLeaves + 1) = numRoots(rest + 1)
  /\ pc # "ready" => NumLeaves + Len(toAdd) = updateData.prevNumLeaves + Len(block.adds)
  /\ pc = "done" => toAdd = << >>

(***************************************************************************)
(* The roots that del replaced and add hashed are the roots of the forest  *)
(* of the live leaves, after every leaf.                                   *)
(***************************************************************************)
RootsMatchForest ==
  pc # "hash" => Roots = ForestRoots(NumLeaves, {s \in live : s < NumLeaves})

(***************************************************************************)
(* Verify accepts a proof of leaves exactly when every hash is that of     *)
(* the leaf at its target.                                                 *)
(***************************************************************************)
AcceptsTrueClaims ==
  pc = "ready" =>
    \A D \in SUBSET live : \A slots \in Orders(D) : \A delHashes \in Claims(slots) :
      Accepts(delHashes, Prove(NumLeaves, live, slots)) <=> delHashes = LeafHashes(slots)

(***************************************************************************)
(* What Update returns about the additions is what a full node has after   *)
(* the call: every new node is at its position with its hash, every added  *)
(* leaf is among them, and they are sorted, as Proof.Update relies on.     *)
(***************************************************************************)
NewNodesMatchForest ==
  pc = "done" =>
    /\ \A i \in DOMAIN updateData.newAdd :
         LET e == updateData.newAdd[i] IN e.hash = NodeHash(NumLeaves, live, e.pos)
    /\ \A i \in DOMAIN block.adds : InSlice(hashes(updateData.newAdd), block.adds[i])
    /\ positions(updateData.newAdd) = Ascending(Range(positions(updateData.newAdd)))

(***************************************************************************)
(* What Update returns about the deletions: every node on the way from a   *)
(* target to its root, at its position before the call, with the hash over *)
(* the leaves below it that are left; sorted, as Proof.Update relies on.   *)
(***************************************************************************)
DeletedNodesMatchForest ==
  pc = "done" =>
    LET n      == updateData.prevNumLeaves
        kept   == {s \in live : s < n}
        before == kept \cup {s \in 0..(n - 1) : InSlice(block.delHashes, LeafHash(s))}
        left(p) == LET under == LeavesUnder(n, before, p)
                   IN  TreeHash(n, TreeRow(n, CHOOSE s \in under : TRUE), under \cap kept)
    IN  /\ \A i \in DOMAIN updateData.newDel :
             LET e == updateData.newDel[i] IN e.hash = left(e.pos)
        /\ positions(updateData.newDel)
             = Ascending({p \in 0..(2^(treeRows(n) + 1) - 1) :
                            LeavesUnder(n, before, p) \ kept # {}})

(***************************************************************************)
(* ToDestroy names exactly the empty roots that are no longer roots after  *)
(* the call, where the nodes of the taller forest have them, lowest first. *)
(***************************************************************************)
DestroyedRootsAreEmptyRoots ==
  pc = "done" =>
    LET n    == updateData.prevNumLeaves
        rows == treeRows(NumLeaves)
        gone == {t \in 0..rows :
                   /\ Bit(n, t) = 1
                   /\ TreeHash(n, t, live) = empty
                   /\ ~(Bit(NumLeaves, t) = 1 /\ FirstSlot(NumLeaves, t) = FirstSlot(n, t))}
    IN  updateData.toDestroy
          = Ascending({2^(rows + 1) - 2^(rows + 1 - t) + FirstSlot(n, t) \div 2^t : t \in gone})

----------------------------------------------------------------------------
(***************************************************************************)
(* A Stump is an accumulator that caches nothing and cannot go back.  A    *)
(* call of Update is several of its steps: the deletions, then each leaf.  *)
(***************************************************************************)
A == INSTANCE Accumulator
       WITH MaxUndo   <- 0,
            numLeaves <- NumLeaves,
            live      <- {s \in live : s < NumLeaves},
            kept      <- {},
            log       <- << >>

(***************************************************************************)
(* Update implements the abstract Modify: every turn of its loops either   *)
(* is a step of the accumulator or leaves it as it is.                     *)
(***************************************************************************)
ImplementsAccumulator == A!Spec

=============================================================================
