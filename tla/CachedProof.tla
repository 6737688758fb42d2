---------------------------- MODULE CachedProof ----------------------------
(***************************************************************************)
(* A light client: a Stump and one cached proof of the leaves it cares     *)
(* about (Proof.Update, Proof.Undo, AddProof, GetProofSubset).  With every *)
(* block the Stump is updated first; what its Update returns is then used  *)
(* to update the proof.  Leaves are added to the cache with a full node's  *)
(* proof and dropped from it at any time.  A block is undone with the      *)
(* copy of the Stump taken before it, as the Stump has no undo.            *)
(***************************************************************************)
EXTENDS Stump, ProofUpdate

CONSTANTS
  MaxUndo,      \* bound: blocks that can be undone
  MaxUndoLeaves \* bound: leaves ever added by the end of a block that can be undone

ASSUME UndoAssumption == MaxUndo \in Nat /\ MaxUndoLeaves \in Nat

VARIABLES
  cached,       \* the Proof
  cachedHashes, \* the hashes of its targets
  wanted,       \* history: the slots of the leaves that should be cached
  before,       \* the Stump before the call of Update (and live, a history)
  undoable      \* what is kept to undo the last blocks, latest last

cacheVars == <<cached, cachedHashes, wanted, undoable>>
allVars   == <<vars, cached, cachedHashes, wanted, before, undoable>>

CInit ==
  /\ Init
  /\ cached = EmptyProof /\ cachedHashes = << >> /\ wanted = {}
  /\ before = [NumLeaves |-> 0, Roots |-> << >>, live |-> {}]
  /\ undoable = << >>

(***************************************************************************)
(* A block: leaves to delete, with their proof, and leaves to add.         *)
(***************************************************************************)
StartBlock(slots, k) ==
  /\ del(LeafHashes(slots), NewLeaves(k), Prove(NumLeaves, live, slots))
  /\ before' = [NumLeaves |-> NumLeaves, Roots |-> Roots, live |-> live]
  /\ UNCHANGED cacheVars

StumpStep ==
  /\ addStep
  /\ UNCHANGED <<cacheVars, before>>

(***************************************************************************)
(* The proof and the hashes that an operation on proofs returned.          *)
(***************************************************************************)
Cache(result) == cached' = result.proof /\ cachedHashes' = result.hashes

LastOf(s, k) == SubSeq(s, Len(s) - (IF k < Len(s) THEN k ELSE Len(s)) + 1, Len(s))

(***************************************************************************)
(* The end of a block: the proof is updated, and the new leaves with the   *)
(* given (0-based) indexes are remembered.                                 *)
(***************************************************************************)
UpdateProof(remembers) ==
  /\ return
  /\ Cache(Update(cached, cachedHashes, block.adds, block.proof.targets,
                  Ascending(remembers), updateData))
  /\ wanted' = {s \in wanted : ~InSlice(block.delHashes, LeafHash(s))}
               \cup {updateData.prevNumLeaves + i : i \in remembers}
  /\ undoable' = IF NumLeaves > MaxUndoLeaves THEN << >>
                  ELSE LastOf(Append(undoable, [before |-> before, block |-> block,
                                                toDestroy |-> updateData.toDestroy]), MaxUndo)
  /\ before' = [NumLeaves |-> 0, Roots |-> << >>, live |-> {}]

(***************************************************************************)
(* The latest block is undone.  Leaves that the block deleted are not      *)
(* cached again; the leaves it added are gone.                             *)
(***************************************************************************)
LastUndoable == undoable[Len(undoable)]

OlderLeaves == {s \in wanted : s < LastUndoable.before.NumLeaves}

UndoProof ==
  LET last == LastUndoable
  IN  /\ pc = "ready"
      /\ undoable # << >>
      /\ NumLeaves' = last.before.NumLeaves
      /\ Roots' = last.before.Roots
      /\ live' = last.before.live
      /\ Cache(Undo(cached, Len(last.block.adds), NumLeaves, last.block.proof.targets,
                    last.block.delHashes, cachedHashes, last.toDestroy, last.block.proof))
      /\ undoable' = SubSeq(undoable, 1, Len(undoable) - 1)
      /\ UNCHANGED <<pc, block, loop, updateData, before>>

(***************************************************************************)
(* Cache more leaves, or fewer.                                            *)
(***************************************************************************)
CacheMore(slots) ==
  /\ pc = "ready"
  /\ Cache(AddProof(cached, Prove(NumLeaves, live, slots), cachedHashes,
                    LeafHashes(slots), NumLeaves))
  /\ wanted' = wanted \cup Range(slots)
  /\ UNCHANGED <<vars, before, undoable>>

CacheFewer(slots) ==
  LET wants == [i \in DOMAIN slots |-> LeafPosition(NumLeaves, live, slots[i])]
      keep(subset) == subset.ok /\ Cache(subset)
  IN  /\ pc = "ready"
      /\ keep(GetProofSubset(cached, cachedHashes, wants, NumLeaves))
      /\ wanted' = Range(slots)
      /\ UNCHANGED <<vars, before, undoable>>

(***************************************************************************)
(* The slots in the order of their positions.                              *)
(***************************************************************************)
ByPosition(S) ==
  SortSeq(Ascending(S), LAMBDA a, b : LeafPosition(NumLeaves, live, a)
                                        < LeafPosition(NumLeaves, live, b))

CNext ==
  \/ \E D \in SUBSET live : \E k \in AddCounts : StartBlock(Ascending(D), k)
  \/ StumpStep
  \/ \E R \in SUBSET {i - 1 : i \in DOMAIN block.adds} : UpdateProof(R)
  \/ \E S \in SUBSET live \ {{}} : CacheMore(Ascending(S))
  \/ \E S \in SUBSET wanted : CacheFewer(ByPosition(S))

(***************************************************************************)
(* Three kinds of blocks to undo: the one that added the first leaves, one *)
(* that wrote over empty roots, and the others.  The older leaves that are *)
(* cached should stay.  Where Undo takes some of them away the client goes *)
(* on with those that are left (UndoDropping).                             *)
(***************************************************************************)
UndoFirst == UndoProof /\ LastUndoable.before.NumLeaves = 0 /\ wanted' = OlderLeaves

UndoOther ==
  /\ UndoProof
  /\ LastUndoable.before.NumLeaves > 0 /\ LastUndoable.toDestroy = << >>
  /\ wanted' = OlderLeaves

UndoOverEmptyRoots ==
  /\ UndoProof
  /\ LastUndoable.before.NumLeaves > 0 /\ LastUndoable.toDestroy # << >>

UndoKeeping == UndoOverEmptyRoots /\ wanted' = OlderLeaves

UndoDropping ==
  /\ UndoOverEmptyRoots
  /\ wanted' = {s \in OlderLeaves : InSlice(cachedHashes', LeafHash(s))}

USpec == CInit /\ [][CNext \/ UndoOther \/ UndoDropping]_allVars

UFirstSpec == CInit /\ [][CNext \/ UndoFirst]_allVars

UEmptyRootsSpec == CInit /\ [][CNext \/ UndoKeeping]_allVars

----------------------------------------------------------------------------
(***************************************************************************)
(* The cache holds exactly the leaves that were asked for and are live:    *)
(* none is lost in a block, none that a block deleted or an undone block   *)
(* had added stays, whatever the slices lose while they are walked.        *)
(***************************************************************************)
CachesWantedLeaves ==
  pc = "ready" => Range(cachedHashes) = {LeafHash(s) : s \in wanted}

(***************************************************************************)
(* The cached proof is the proof a full node would make for the cached     *)
(* leaves: each at its current position, and all the hashes needed to      *)
(* reach the roots with no hash too many.                                  *)
(***************************************************************************)
CachedProofIsCurrent ==
  LET current(slots) == /\ cachedHashes = LeafHashes(slots)
                        /\ cached = Prove(NumLeaves, live, slots)
  IN  pc = "ready" =>
        current(ByPosition({s \in live : InSlice(cachedHashes, LeafHash(s))}))

(***************************************************************************)
(* Undo leaves no leaf in the cache that the forest it went back to does   *)
(* not have.                                                               *)
(***************************************************************************)
UndoForgetsAddedLeaves ==
  pc = "ready" => Range(cachedHashes) \subseteq {LeafHash(s) : s \in live}

(***************************************************************************)
(* Undo keeps every cached leaf that was there before the block.           *)
(***************************************************************************)
UndoKeepsOlderLeaves ==
  pc = "ready" => {LeafHash(s) : s \in wanted} \subseteq Range(cachedHashes)

=============================================================================
