# A TLA+ model of the utreexo accumulator

The repository is a Go library for a dynamic hash accumulator: a forest of perfect
Merkle trees that holds a set of leaves, supports adding and deleting them, and lets a
party that keeps only the roots verify proofs of membership. This directory models it
in TLA+, checks the models with TLC on small instances and proves some of the results
with TLAPS for every instance.

The code is sequential. There is one actor, no callback, no message and no lock; what
is hard is a *long sequence of legal calls*. Every deletion moves other nodes to
other positions, every addition can write over empty roots and make the forest taller,
hashes are paired with positions only by their order in a slice, and everything can be
undone, or written to a file and read back. The properties are therefore about sequences
of blocks, checked against a reference that does none of the position arithmetic.

## The system

| Part | State | Operations | What makes it correct |
|---|---|---|---|
| Position arithmetic (`utils.go`) | none | parents, children, rows, roots, moving up and back, translation, `deTwin`, `proofPositions` | agrees with a tree of rows and indexes, at the edges of every tree |
| `hashAndPos` slices (`prove.go`) | sorted positions with hashes | sort, merge, subtract, intersect | the set operation, *if* the arguments are sorted |
| Proof operations (`prove.go`, `stump.go`) | none | `calculateHashes`, `Verify`, `GetMissingPositions`, `AddProof`, `GetProofSubset` | a proof has exactly the hashes that are needed, in the order they are used |
| `Stump` (`stump.go`) | `NumLeaves`, `Roots` | `Update` (`del`, then `add`) | roots are those of the live leaves; what it returns is what a full node has |
| Cached proof (`prove.go`) | a `Proof`, the hashes of its targets | `Proof.Update`, `Proof.Undo` | stays the proof a full node would make, block after block |
| `Pollard` (`pollard.go`, `polnode.go`) | nodes with aunt and niece pointers, `NodeMap`, `Roots`, `NumLeaves`, `NumDels` | `Modify`, `Undo`, `Prove`, `Verify` | pointers stay consistent while nodes are moved; every leaf stays findable |
| `MapPollard` (`mappollard.go`) | `Nodes`, `CachedLeaves`, `NumLeaves`, `TotalRows` | `Modify`, `Undo`, `Prove`, `Verify`, `Ingest` | the nodes needed to prove what is remembered are kept; positions follow `TotalRows` |
| Serialization | a file | `WriteTo`/`RestorePollardFrom`, `Write`/`Read` | what is read is what was written, and a file that is not whole is refused |
| `Utreexo` interface (`accumulator_interface.go`) | | the operations `Pollard` and `MapPollard` share | both do the same to the set of leaves |

How they interact: a full node (`Pollard` or `MapPollard`) makes a proof of the leaves
a block deletes. A light client verifies it and applies the block with `Stump.Update`;
the `UpdateData` this returns is all that `Proof.Update` gets to bring the client's
cached proof up to date. `AddProof` and `GetProofSubset` add leaves to the cached
proof and drop them, and `Proof.Undo` takes a block back. The models meet at the
reference forest: `Pollard` and `MapPollard` are shown to make exactly the proofs that
`Stump` and `CachedProof` are given.

## The modules

| Module | Models | How |
|---|---|---|
| `Utils` | `utils.go`, `getNextPos` | one operator per function. A shift is a product or quotient by a power of two, a mask a remainder. Where a `uint8` difference wraps, what the wrapped shift yields is written out. |
| `HashAndPos` | `hashAndPos` and the functions on sorted slices | two parallel slices are one sequence of records. A hash is a term, so equal hashes have equal preimages. |
| `ProofOps` | `calculateHashes`, `Verify`, `GetMissingPositions`, `AddProof`, `GetProofSubset` | loops over two indexes, as in the code |
| `ProofUpdate` | `Proof.Update`, `Proof.Undo` and everything they call | the slices that are sorted or shortened while they are ranged over are modelled with what the range sees |
| `Forest` | the reference, and what a full node's `Prove` returns | the forest is given by the number of leaves and the set of live slots. Hashes and positions are defined from the slots. |
| `Stump` | the `Stump` | state machine; see below |
| `CachedProof` | a light client: `Stump` and cached proof | `Stump` composed with `ProofUpdate` and the proof operations |
| `PolNode` | `polnode.go`: a node and the functions that move pointers | a heap from addresses to nodes; a function that changes nodes is an operator on heaps |
| `Pollard` | `pollard.go`, `Pollard.Prove`, `Pollard.Verify`, its file | state machine; see below |
| `MapPollard` | `mappollard.go`, its file | state machine; see below |
| `Accumulator` | the `Utreexo` interface | the abstract specification the three accumulators implement |
| `Positions` | nothing of its own | a tree of rows and indexes, and what each function on positions should say of it |
| `ProofSets` | nothing of its own | goes through all small inputs of the functions on positions and proofs, and compares each with a reference definition |
| `UtilsProofs`, `PositionProofs`, `ProofSetsProofs` | | lemmas about numbers, bits and sorted slices; about the functions on positions; and the theorems that follow for the forests of `ProofSets` |
| `StumpProofs`, `StumpRefinement`, `AccumulatorProofs` | | the theorems about `Stump`, about `Stump` as an `Accumulator`, and about `Accumulator` |
| `MCStump`, `MCCachedProof`, `MCPollard`, `MCMapPollard`, `MCAccumulator` | | the instances TLC checks; the first two give `OnesCount64` its value |

Some definitions carry a neighbour marked *Mutant of*. These are plausible mistakes
in the code; putting one in the place of its original makes a property fail, which
shows that the property depends on that code.

### Stump

`NumLeaves` and `Roots` are the fields. A call of `Update` is cut into steps at the
turns of the two loops of `add`, so that the loop invariant can be stated; `pc` says
where the call is and `toAdd`, `newRoot`, `pos`, `rest` (`NumLeaves >> h`), `subTree`
and `subTrees` are the local variables.

| Action | Code |
|---|---|
| `Reject` | `Update` returns an error, nothing has changed |
| `del` | `Verify`, the roots after deletion, the writes to `Roots`, and `allDeleted` at the top of `add` |
| `addNext` | a turn of the outer loop starts: the position of the new leaf |
| `hashWithRoot` | a turn of the inner loop: the last root is popped, and hashed unless empty |
| `pushRoot` | the new root is pushed, the leaf counted |
| `addDone` | the subtrees are merged |
| `return` | the caller has the `UpdateData` |

`live`, the set of leaves that are in the forest, is a history variable: no action
reads it except to choose arguments of calls. Calls are made with the proof a full node
in the same state gives, for any set of live leaves in ascending or descending order,
with the true hashes, a hash too few, a hash of no leaf, or the hashes reversed.

### CachedProof

`StartBlock` and `StumpStep` run `Stump.Update`, `UpdateProof` ends the block with
`Proof.Update` and any choice of new leaves to remember, `CacheMore` is `AddProof` with
a full node's proof of any live leaves, `CacheFewer` is `GetProofSubset`, and
`UndoProof` is `Proof.Undo` with the copy of the Stump taken before the block.
`wanted` is a history variable: the leaves a user of the cache expects in it. Of a block
that is undone three kinds are told apart. `UndoFirst` takes back the very first leaves,
`UndoOverEmptyRoots` a block whose additions wrote over empty roots, `UndoOther` any other
block. In the second kind Undo may lose older leaves. `UndoKeeping` expects them all the same,
which is refuted (see the disagreements); `UndoDropping` goes on with those that are left, so
that everything else about such an Undo, and what follows it, is still checked.

### Accumulator

`numLeaves` counts the slots ever given, `live` are the slots of the leaves that are in the
accumulator, `kept` those that are cached, and `log` is what the last blocks can be taken back
to. `Modify` deletes leaves and adds some, `Remember` is `Verify` with the remember flag,
`Undo` takes the last block back. There are no hashes and no positions. An implementation maps
its own state to these variables:

| | `live` | `kept` | `log` |
|---|---|---|---|
| `Stump` | the leaves added so far and not deleted | none: it caches nothing | empty: it cannot undo |
| `Pollard` | the leaves in `NodeMap`; if it is not full, a history variable | the leaves in `NodeMap` | the blocks its caller can undo |
| `MapPollard` | a history variable: the map does not know them all | the leaves in `CachedLeaves` | the blocks its caller can undo |

For the `Stump` the deletions of a call and each added leaf are a `Modify` of their own; the
turns of its inner loop change nothing. For the others one call is one step, and a restart
from a file is none.

### Pollard

`p` is the Pollard: the heap `h`, `Roots`, `NodeMap`, `NumLeaves`, `NumDels`, and `ok`, which
turns `FALSE` when a call returns an error or follows a nil pointer. `Init` has a Pollard that is
full and one that is not; the latter only grows in `Spec` and also deletes in `SparseSpec`. An
operator named after a method maps the Pollard before to the Pollard after it, with every
pointer assignment of the code in its order.

| Action | Code |
|---|---|
| `Modify`, `Grow` | `Modify`: the map, the deletions in detwinned order, the additions |
| `Undo` | `Undo`: `undoSingleAdd` for every added leaf, `undoEmptyRoots`, `undoDels` |
| `Restart` | `WriteTo`, then `RestorePollardFrom` |

Every action ends with `collected`: nodes that no pointer leads to are dropped, as the garbage
collector does, and the others renumbered, so that two heaps that differ in addresses only are
one state. A hash is a term, so the shortened `miniHash` keys of the map never collide.

### MapPollard

`m` has the fields of the struct and `ok`. `InitialRows` are the `TotalRows` it may start with:
`NewMapPollard` starts with 0, and its tests with more (`mappollard_test.go:241`). The row by row moves of
`moveUpDescendants` and `placeEmptyRoot` are one move of all nodes at once; the order of the
code makes sure that no node meets another. `wanted` and `stray` are history variables: the leaves that
should be cached, and whether a file marked a node that is no cached leaf as remembered.

| Action | Code |
|---|---|
| `Modify` | `Modify`: `remove` with pruning, then `add` |
| `VerifyAndRemember` | `Verify` with remember, which is `Ingest`; without it nothing changes |
| `Undo` | `Undo`: `undoAdd`, `undoDeletion`, the previous roots |
| `Restart` | `Write`, then `Read`, for every order in which Go may walk the map |

## What the runs check

| Run | Bounds | Shows |
|---|---|---|
| `stump` | 7 leaves, 3 per call | `TypeOK`, `RootCount`, `LoopInv`; `RootsMatchForest`: after every leaf the roots are those of the live leaves; `AcceptsTrueClaims`: a proof is accepted exactly when its hashes are the true ones; `NewNodesMatchForest`, `DeletedNodesMatchForest`, `DestroyedRootsAreEmptyRoots`: all of `UpdateData` is what a full node has; `ImplementsAccumulator` |
| `cached_proof` | 6 leaves, 3 per block, 1 undo up to 5 leaves | `CachedProofIsCurrent`, `CachesWantedLeaves` over any mix of blocks, `AddProof`, `GetProofSubset`, and `Proof.Undo` of any block but the first; after an Undo over empty roots older leaves may be missing, and nothing else may be there |
| `proof_sets` | 16 leaves, 2 more rows | `FamilyMatchesTree`, `MovingUpIsUndone`, `OffsetFindsTree`, `TranslationKeepsNodes`: every function on positions, for every pair of nodes of every forest |
| | 8 leaves, 2 more rows | `ProofPositionsAreNeeded`, `DeTwinIsMaximal` for every set of targets in every forest |
| | 6 leaves, 2 held | `MissingIsNeededAndUnknown`, `AddProofProvesBoth`, `SubsetOfSortedProof` for every two held and any wanted leaves |
| `pollard` | 5 leaves, 3 per block, 1 undo | a full Pollard, with restarts: `OperationsSucceed`, `HashesMatchForest`, `MapFindsLeaves`, `PointersAgree`, `ProvesEveryLeaf`, `ImplementsAccumulator` |
| | 7 leaves, 3 per block | a Pollard that remembers some leaves and grows: `ProvesRememberedLeaves`, `KeepsOnlyNeededNodes`, and `OperationsSucceed`, `MapFindsLeaves`, `PointersAgree`, `ImplementsAccumulator` |
| `map_pollard` | 5 leaves, 3 per block, 1 undo, 0 or 3 rows from the start, files of up to 3 leaves | `OperationsSucceed`, `NodesMatchForest`, `CachedLeavesAreRemembered`, `ProvesCachedLeaves`, `ImplementsAccumulator`, with restarts in between; `UnneededNodesArePruned`, until a file marks too many nodes |
| `accumulator` | 4 leaves, 2 per block, 2 undos | `CachedLeavesAreLive`, `LogIsAHistory` of the abstract specification |
| `undo_first_block`, `undo_over_empty_root`, `subset_of_unsorted_proof`, `pollard_sparse_delete`, `pollard_truncated`, `map_pollard_written_marks` | 2 to 5 leaves | six disagreements, below |

Bounds. `MaxLeaves` bounds the leaves ever added and `MaxAdds` those of one call; `MaxUndo`
bounds the blocks kept for undoing and `MaxUndoLeaves` the size of a forest whose last block is
kept. `MaxFull` is `MaxLeaves` for a full Pollard, `MaxWritten` bounds the leaves of a MapPollard
that is written to a file. In `ProofSets`, forests of up to `MaxWhole` leaves are visited whole,
those of up to `MaxLeaves` with any leaves deleted and wanted, and those of up to `MaxHeldIn` with
a proof of up to `MaxHeld` leaves held; `ExtraRows` bounds the rows by which a numbering is taller
than it needs to be. Seven leaves give three trees at once and three changes of height. Three
additions are enough to write over two empty roots in one call, to carry over two rows and to make
the forest taller by two rows at once (from 1 leaf to 4). Six leaves let a cached leaf move up
twice and be remapped. Undo of a cached proof was explored beyond its run with 6 leaves and 1 undo
(489076 states), and with 5 leaves, 3 per block and 2 undos (378550 states), with the same result.
Five leaves in a Pollard or a MapPollard give two trees, a tree of three rows with a deletion
below, beside and above another, an addition over one and over two empty roots, and a block that
adds a row. MapPollard was explored beyond its run without files, from 0 rows, with 6 leaves, 3 per
block and 1 undo (13672 states) and with 5 leaves and 2 undos (22365 states), and with files of up
to 4 leaves in an instance of 4 leaves, 2 per block and 1 undo (5581 states), with the same result.

Deadlock is checked in every run; a call with nothing to delete or add is always
possible.

Fairness. None is assumed, and no liveness is claimed. The loops of the code range over a slice or
halve a number, so that they end whatever the rest of the code does, and callers are not assumed to
call.

## What is proved

For all values of the constants. The bounds are naturals. Two assumptions are about
arithmetic, and TLC evaluates both on the values the runs use. `OnesCount64`, in `Stump`, satisfies
the equations of a population count (0 has none, `n` has those of `n \div 2` plus its lowest bit).
`Powers`, in `ProofSets`, says that `2^k` is a natural number and `2^(k + 1)` twice as much, for `k`
up to the bounds: the provers know nothing of exponents, and no more is needed.

`StumpProofs`:

- `TypeCorrect`: `Spec => []TypeOK`.
- `RootCountHolds`: `Spec => []RootCount`. There are as many roots as `NumLeaves` has
  ones whenever `add` is between two leaves, and the inner loop never pops an empty
  slice (`stump.go:162` indexes without a check).
- `LoopInvHolds`: `Spec => []LoopInv`. In every turn of the loops the roots left are those
  of the bits not looked at yet, and no leaf of the call is lost or added twice.
- `Invariance`: `Spec => []IInv`, types and `LoopInv`, which the three follow from.

`RootCount` is not inductive: it says nothing about the length of `Roots` inside the
inner loop. `LoopInv` adds that the roots left are as many as `rest` has ones and that
carrying a one into `rest` gives as many ones as `NumLeaves + 1` has. A turn of the loop
keeps this because an odd number has one more one than its half (`OnesOfOdd`); the push
ends it because an even number gains one (`OnesOfEven`). Deletion keeps the number of
roots, whatever the proof was (`ReplaceKeepsLength`). The proofs do not depend on what
the hash functions and position functions return.

`StumpRefinement`: `StumpImplementsAccumulator`, `Spec => ImplementsAccumulator`. The deletions
of a call are a `Modify` that adds nothing (`DelImplements`), `pushRoot` is one that adds a leaf
(`PushRootImplements`), every other step changes neither the number of leaves nor which of them
are live. What makes it work is `SlotsInv`: the leaves that a call still
has to add have the next slots, which are already in the history variable `live`, and they are at
most `MaxAdds`; the mapping takes the slots below `NumLeaves`. It needs `IInv`, since the number of
leaves still to add is what relates the two.

`AccumulatorProofs`: `CachedLeavesAreLiveHolds` and `LogIsAHistoryHolds`, from `Invariance`.
`CachedLeavesAreLive` alone is not inductive: `Undo` brings back a state of the log, so the
invariant says of every state of the log that its leaves are below its number of leaves and
that no later state has a leaf that it lacks (`LogIsAHistory`), and `StepKeeps` shows that
a step that appends to the log, cuts it at the front or drops its end keeps this.

`ProofSetsProofs`: the arithmetic on positions is right in a forest of any number of leaves.

- `FamilyMatchesTreeHolds`: `detectRow`, `parent`, `sibling`, the children, `isAncestor`,
  `isRootPosition` and `inForest` agree with the tree.
- `MovingUpIsUndoneHolds`: `calcNextPosition` moves a node as the deletion of its sibling, or of an
  ancestor's sibling, does, and `calcPrevPosition` undoes it.
- `OffsetFindsTreeHolds`: `detectOffset` finds the tree of a position and the rows down to it.
- `TranslationKeepsNodesHolds`: `translatePos` keeps the node of a position in any taller numbering.

The argument is in `PositionProofs`. A position on row `r` of a numbering of height `h` is
`2^(h+1) - 2^(h+1-r)` plus the index of the node (`NumberIs`, `Place`), so that the row can be read off
the leading ones (`RowFound`). From there each function is a statement about a row and an index:
halving an index is going to the parent (`ParentManyIs`), and removing or inserting a bit of it is moving
up or back (`MoveOfPlace`). Which tree a node is in is decided by the binary digits of the number of
leaves (`RootIs`, `TreeOfNode`), and the loop of `detectOffset` goes through them. `UtilsProofs` has what this
takes of powers and quotients, and the form that inductions have here: a least number for which a
claim fails (`Least`), since the library's induction theorems cannot be applied.

Only model-checked: everything about hashes, proofs and pointers (`RootsMatchForest`,
`AcceptsTrueClaims`, `CachedProofIsCurrent` and the like), and with it that `Pollard` and `MapPollard`
implement `Accumulator`. What a loop over a slice computes takes an induction over
the slice, which the provers cannot be given as such, and these loops are nested.

## Disagreements between the code and its documentation

- **Undo over an empty root** (`undo_over_empty_root`). `prove.go:970-973` says Undo
  "reverts the proof back to the previous state before the Update", except for leaves the
  block deleted. `undoAdd` removes every cached target in the tree that a destroyed empty
  root became part of (`prove.go:1086-1094`), older leaves included. With three leaves and
  leaf 2 cached, a block that deletes leaves 0 and 1 and adds leaf 3, once undone, leaves
  the cache empty.
- **Undo of the first block** (`undo_first_block`). `prove.go:1018-1019` says positions
  "that could not have existed before the add" are pruned. `maxPositionAtRow` is 0 for one
  leaf and for none, so leaf 0 stays cached in the empty forest.
- **Subset of an unsorted proof** (`subset_of_unsorted_proof`). `prove.go:1253` says hashes
  and targets come "in the same permutation as the given wants". The hashes are attached
  to a sorted copy of the targets (`prove.go:1268`); for a proof of positions `[1, 0]` and
  wants `[0]` the hash of position 1 is returned.
- **Deleting from a Pollard that is not full** (`pollard_sparse_delete`). `pollard.go:14-15` says
  of a Pollard that it "may or may not contain the entire set", and `Modify` asks only that the
  positions were verified (`pollard.go:69-70`). `prune` forgets nodes on the path from a
  remembered leaf to its root, and `deleteSingle` follows them: with four leaves of which the
  last is remembered, deleting it meets a nil pointer at `pollard.go:247`.
- **A file that was cut short** (`pollard_truncated`). `pollard.go:708-709` takes the end of the
  file for the end of the Pollard, wherever it is; only leaves are counted afterwards, so a file
  whose missing nodes are inner ones is restored without them.
- **Marks that stay in the buffer** (`map_pollard_written_marks`). `mappollard.go:925` says that
  `Write` "writes the entire pollard". The byte that marks a remembered node is never cleared
  (`mappollard.go:991`): nodes written after one are read back as remembered and are not pruned
  any more, against `mappollard_test.go:33`, "Unneeded nodes aren't cached". Nothing that is
  needed is lost (`map_pollard`).

`cached_proof` never undoes the first block, expects of an Undo over empty roots only those older
leaves that it kept (`UndoDropping`), and keeps its targets ascending, as `Update` and `AddProof` do; in `pollard`, a Pollard that is not full deletes
nothing. One more difference is not a run: `accumulator_interface.go:14-15` says that the remember
flag of `Verify` "will tell the accumulator to cache the proof if it is valid", and
`Pollard.Verify` (`prove.go:398`) does not read it. `VerifyHashes` has no such argument, and a
Pollard takes no `Remember` step of the abstract accumulator.

## What is not modelled

- Proofs with targets outside of the forest or with too few hashes: every modelled proof
  is made by a full node for live leaves, only the claimed hashes vary.
- Sharing of the `Roots` array between copies of a `Stump`: copies are deep.
- Overflow of 64-bit positions: a position is below `2^(rows + 1)`, far from the width.
- Bytes. A file is a sequence of fields; a reader that returns part of a field, and
  `SerializeSize`, are left out.
- Two leaves with the same hash, and hashes that collide in the 12 bytes of a `miniHash`: a
  leaf's hash is a term made of its slot. So two roots are equal only if both are empty, and how
  `Verify` matches equal roots of two trees with the same leaves is not covered.
- A Pollard and a MapPollard used by two goroutines: the code has no lock and expects one caller.
- A chain in which full and light nodes run side by side. They share no state: what the one
  sends, the proof of a block, is shown to be `Forest!Prove` (`ProvesEveryLeaf`,
  `ProvesCachedLeaves`), which is what the other's model receives.
- Undo of a Pollard that is not full, and its file: `RestorePollardFrom` makes a full Pollard.
- Functions that no other code or only tests call (`removeHashes`, `removeHashesFromHashAndPos`, `swapPlaces`,
  `removeDuplicateUint64Func`), and printing.
