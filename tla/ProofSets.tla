----------------------------- MODULE ProofSets -----------------------------
(***************************************************************************)
(* The functions of utils.go and prove.go on positions against the tree,   *)
(* and those that work out which hashes a proof needs against the leaves   *)
(* each node stands over.                                                  *)
(*                                                                         *)
(* A state is a forest with two sets of its live leaves: those a proof is  *)
(* held for and those that are wanted.  The steps build up every such      *)
(* state: add a leaf, delete one, hold a proof of one more, want one more. *)
(* Bigger forests are whole: nothing is deleted, held or wanted in them.   *)
(***************************************************************************)
EXTENDS Forest, Positions

CONSTANTS
  MaxWhole,     \* bound: leaves of a whole forest
  MaxLeaves,    \* bound: leaves of another forest
  MaxHeldIn,    \* bound: leaves of a forest in which a proof is held
  MaxHeld,      \* bound: leaves a proof is held for
  ExtraRows     \* bound: rows of a taller numbering of the same forest

ASSUME ProofSetsAssumption ==
  /\ MaxWhole \in Nat /\ MaxLeaves \in 0..MaxWhole /\ MaxHeldIn \in 0..MaxLeaves
  /\ MaxHeld \in Nat /\ ExtraRows \in Nat

ASSUME PowersAssumption == Powers(MaxWhole + ExtraRows)

VARIABLES n, live, held, want

vars == <<n, live, held, want>>

Init == n = 0 /\ live = {} /\ held = {} /\ want = {}

(***************************************************************************)
(* The forest is whole; a proof may be held in it.                         *)
(***************************************************************************)
Whole == live = 0..(n - 1) /\ held = {} /\ want = {}

MayHold == n <= MaxHeldIn

AddLeaf ==
  /\ n < MaxLeaves \/ (n < MaxWhole /\ Whole)
  /\ n < MaxHeldIn \/ held = {}
  /\ n' = n + 1
  /\ live' = live \cup {n}
  /\ UNCHANGED <<held, want>>

DeleteLeaf(s) ==
  /\ n <= MaxLeaves
  /\ live' = live \ {s}
  /\ held' = held \ {s}
  /\ want' = want \ {s}
  /\ UNCHANGED n

HoldLeaf(s) ==
  /\ MayHold
  /\ Cardinality(held) < MaxHeld
  /\ held' = held \cup {s}
  /\ UNCHANGED <<n, live, want>>

WantLeaf(s) ==
  /\ n <= MaxLeaves
  /\ want' = want \cup {s}
  /\ UNCHANGED <<n, live, held>>

Forget == held' = {} /\ want' = {} /\ UNCHANGED <<n, live>>

Next ==
  \/ AddLeaf
  \/ Forget
  \/ \E s \in live : DeleteLeaf(s)
  \/ \E s \in live : HoldLeaf(s)
  \/ \E s \in live : WantLeaf(s)

Spec == Init /\ [][Next]_vars

----------------------------------------------------------------------------
(***************************************************************************)
(* Rows, parents, siblings, ancestors and roots computed on the bits of a  *)
(* position are those of the tree, and inForest tells which positions are. *)
(***************************************************************************)
FamilyMatchesTree == Whole =>
  /\ \A pos \in Numbers(n) : FamilyIsOfTree(n, pos)
  /\ \A pos, other \in Numbers(n) : AncestorIsOfTree(n, pos, other)
  /\ \A pos \in 0..(2^(treeRows(n) + 1)) : inForest(pos, n, treeRows(n)) <=> pos \in Numbers(n)

(***************************************************************************)
(* A node at or below the sibling of a deleted node moves up by one row,   *)
(* losing the turn at the deleted node's parent, and calcPrevPosition      *)
(* takes it back to where it was.                                          *)
(***************************************************************************)
MovingUpIsUndone == Whole => \A pos, other \in Numbers(n) : MoveIsUndone(n, pos, other)

(***************************************************************************)
(* detectOffset finds the tree of a position and the way up to its root.   *)
(***************************************************************************)
OffsetFindsTree == Whole => \A pos \in Numbers(n) : OffsetIsOfTree(n, pos)

(***************************************************************************)
(* A taller numbering names the same nodes: translating a position keeps   *)
(* its node, comes back, and keeps whether it is a root; the roots of the  *)
(* taller numbering are the translated roots, highest first.               *)
(***************************************************************************)
TranslationKeepsNodes == Whole =>
  \A total \in treeRows(n)..(treeRows(n) + ExtraRows) :
    /\ \A pos \in Numbers(n) : TranslationIsOfTree(n, pos, total)
    /\ RootPositions(n, total) = translatePositions(RootPositions(n, treeRows(n)), treeRows(n), total)
    /\ Range(RootPositions(n, total)) = {Number(r, total) : r \in {x \in Nodes(n) : IsRoot(x, n)}}

----------------------------------------------------------------------------
(***************************************************************************)
(* The reference: what a position is needed for, or known from, told by    *)
(* the leaves below it (under).                                            *)
(***************************************************************************)
Under ==
  LET under(way) == [p \in 0..(2^(treeRows(n) + 1) - 2) |-> {s \in live : p \in way[s]}]
  IN  under([s \in live |-> Way(n, live, s)])

Roots == Range(RootPositions(n, treeRows(n)))

BesideOf(p) == IF p % 2 = 0 THEN p + 1 ELSE p - 1

NeededFor(S, under) ==
  {p \in DOMAIN under \ Roots :
     under[p] # {} /\ under[p] \cap S = {} /\ under[BesideOf(p)] \cap S # {}}

ComputedFrom(S, under) == {p \in DOMAIN under : under[p] \cap S # {}}

PositionsOf(S) == {LeafPosition(n, live, s) : s \in S}

(***************************************************************************)
(* Leaves in the order of their positions.                                 *)
(***************************************************************************)
ByPosition(S) ==
  SortSeq(Ascending(S), LAMBDA a, b : LeafPosition(n, live, a) < LeafPosition(n, live, b))

Wanted == Ascending(PositionsOf(want))

Rows == treeRows(n)

----------------------------------------------------------------------------
(***************************************************************************)
(* proofPositions lists, in ascending order, the nodes beside the ways     *)
(* from the targets to their roots that are on none of the ways, and the   *)
(* nodes on the ways above the targets; proofPosition does for one target. *)
(* In a taller numbering of the forest they are the same nodes.            *)
(***************************************************************************)
ProofPositionsAreNeeded ==
  LET found == proofPositions(Wanted, n, Rows)
      under == Under
  IN  /\ found.proof = Ascending(NeededFor(want, under))
      /\ found.computed = Ascending(ComputedFrom(want, under) \ PositionsOf(want))
      /\ \A s \in want : proofPosition(LeafPosition(n, live, s), n, Rows)
                           = proofPositions(<<LeafPosition(n, live, s)>>, n, Rows).proof
      /\ \A total \in Rows..(Rows + ExtraRows) :
           proofPositions(translatePositions(Wanted, Rows, total), n, total).proof
             = translatePositions(found.proof, Rows, total)

(***************************************************************************)
(* deTwin turns the deleted leaves into the highest nodes that have only   *)
(* deleted leaves below them, in ascending order.                          *)
(***************************************************************************)
DeTwinIsMaximal ==
  LET under   == Under
      deleted == {p \in ComputedFrom(want, under) : under[p] \subseteq want}
  IN  deTwin(Wanted, Rows)
        = Ascending({p \in deleted : ~\E q \in deleted : under[p] \subseteq under[q] /\ p < q})

(***************************************************************************)
(* GetMissingPositions asks for exactly the hashes that are needed to      *)
(* prove the wanted leaves and that the held proof neither contains nor    *)
(* lets one compute.                                                       *)
(***************************************************************************)
MissingIsNeededAndUnknown == MayHold =>
  LET under == Under
      known == NeededFor(held, under) \cup ComputedFrom(held, under)
  IN  GetMissingPositions(n, Ascending(PositionsOf(held)), Wanted)
        = Ascending(NeededFor(want \ held, under) \ known)

(***************************************************************************)
(* Two proofs merged with AddProof are the proof of the leaves of both.    *)
(***************************************************************************)
AddProofProvesBoth == MayHold =>
  LET both == AddProof(Prove(n, live, Ascending(held)), Prove(n, live, Ascending(want)),
                       LeafHashes(Ascending(held)), LeafHashes(Ascending(want)), n)
      slots == ByPosition(held \cup want)
  IN  both = [hashes |-> LeafHashes(slots), proof |-> Prove(n, live, slots)]

(***************************************************************************)
(* GetProofSubset of a proof of some leaves is the proof a full node makes *)
(* for the wanted ones; a target outside of the proof is an error.         *)
(***************************************************************************)
SubsetInOrder(heldSlots, wantSlots) ==
  LET subset == GetProofSubset(Prove(n, live, heldSlots), LeafHashes(heldSlots),
                  [i \in DOMAIN wantSlots |-> LeafPosition(n, live, wantSlots[i])], n)
  IN  IF Range(wantSlots) \subseteq Range(heldSlots)
      THEN subset = [ok |-> TRUE, hashes |-> LeafHashes(wantSlots),
                     proof |-> Prove(n, live, wantSlots)]
      ELSE ~subset.ok

Backwards(s) == [i \in DOMAIN s |-> s[Len(s) + 1 - i]]

(***************************************************************************)
(* GetProofSubset of a proof whose targets are in ascending order is the   *)
(* proof a full node makes for the wanted targets, in the order of the     *)
(* wants, ascending or descending.                                         *)
(***************************************************************************)
SubsetOfSortedProof == MayHold =>
  /\ SubsetInOrder(ByPosition(held), ByPosition(want))
  /\ SubsetInOrder(ByPosition(held), Backwards(ByPosition(want)))

(***************************************************************************)
(* The same of a proof whose targets are in another order, as Prove makes  *)
(* it for leaves asked for in that order: "The returned hashes and proof   *)
(* targets are in the same permutation as the given wants" (prove.go:1253).*)
(***************************************************************************)
SubsetOfUnsortedProof ==
  SubsetInOrder(Backwards(ByPosition(held)), ByPosition(want))

=============================================================================
