-------------------------- MODULE ProofSetsProofs --------------------------
(***************************************************************************)
(* The position arithmetic is right in every forest that ProofSets builds, *)
(* whatever the bounds are.                                                *)
(***************************************************************************)
EXTENDS ProofSets, PositionProofs

(***************************************************************************)
(* What the lemmas on positions need of a state: the forest is no bigger   *)
(* than the bound on its leaves.                                           *)
(***************************************************************************)
Bounded == n \in 0..MaxWhole

(***************************************************************************)
(* Leaves are only added below the bound.                                  *)
(***************************************************************************)
LEMMA BoundedHolds == Spec => []Bounded
<1>1. Init => Bounded
  BY ProofSetsAssumption DEF Init, Bounded
<1>2. Bounded /\ [Next]_vars => Bounded'
  BY ProofSetsAssumption
  DEF Bounded, Next, vars, AddLeaf, DeleteLeaf, HoldLeaf, WantLeaf, Forget
<1> QED
  BY <1>1, <1>2, PTL DEF Spec

(***************************************************************************)
(* A state within the bound is one the lemmas on positions speak about.    *)
(***************************************************************************)
LEMMA Reach ==
  ASSUME Bounded
  PROVE  /\ MaxWhole + ExtraRows \in Nat /\ Powers(MaxWhole + ExtraRows)
         /\ n \in 0..(MaxWhole + ExtraRows)
         /\ \A total \in treeRows(n)..(treeRows(n) + ExtraRows) :
              total \in treeRows(n)..(MaxWhole + ExtraRows)
<1> DEFINE N == MaxWhole + ExtraRows
<1>1. N \in Nat /\ Powers(N) /\ n \in 0..N /\ n \in 0..(N + 1)
  BY ProofSetsAssumption, PowersAssumption DEF Bounded
<1> HIDE DEF N
<1>2. treeRows(n) \in 0..n
  BY <1>1, TreeRows
<1> QED
  BY <1>1, <1>2, ProofSetsAssumption DEF Bounded, N

(***************************************************************************)
(* Rows, parents, siblings, children, ancestors and roots computed on the  *)
(* bits of a position are those of the tree in every forest, and inForest  *)
(* accepts the forest's positions and no other: detectRow, parent,         *)
(* sibling, isAncestor, isRootPosition and inForest of utils.go.           *)
(***************************************************************************)
THEOREM FamilyMatchesTreeHolds == Spec => []FamilyMatchesTree
<1>1. Bounded => FamilyMatchesTree
  BY Reach, FamilyOfNode, AncestorOfNode, InForest DEF FamilyMatchesTree
<1> QED
  BY <1>1, BoundedHolds, PTL

(***************************************************************************)
(* In every forest calcPrevPosition undoes calcNextPosition, which moves   *)
(* the nodes at or below the sibling of a deleted node up by one row: what *)
(* a deletion does to positions, undoing a block takes back.               *)
(***************************************************************************)
THEOREM MovingUpIsUndoneHolds == Spec => []MovingUpIsUndone
<1>1. Bounded => MovingUpIsUndone
  BY Reach, MoveOfNode DEF MovingUpIsUndone
<1> QED
  BY <1>1, BoundedHolds, PTL

(***************************************************************************)
(* In every forest detectOffset finds the tree that a position is in and   *)
(* the number of rows from its root down to it: what getNode of the        *)
(* pointer-based pollard descends by.                                      *)
(***************************************************************************)
THEOREM OffsetFindsTreeHolds == Spec => []OffsetFindsTree
<1>1. Bounded => OffsetFindsTree
  BY Reach, OffsetOfNode DEF OffsetFindsTree
<1> QED
  BY <1>1, BoundedHolds, PTL

(***************************************************************************)
(* In every forest translatePos, which the map-based pollard relies on to  *)
(* keep nodes where a forest of TotalRows rows has them, keeps the node of *)
(* a position in any taller numbering; the roots are the translated roots. *)
(***************************************************************************)
THEOREM TranslationKeepsNodesHolds == Spec => []TranslationKeepsNodes
<1>1. ASSUME Bounded PROVE TranslationKeepsNodes
  <2> SUFFICES ASSUME NEW total \in treeRows(n)..(treeRows(n) + ExtraRows)
               PROVE  /\ \A pos \in Numbers(n) : TranslationIsOfTree(n, pos, total)
                      /\ RootPositions(n, total)
                           = translatePositions(RootPositions(n, treeRows(n)), treeRows(n), total)
                      /\ Range(RootPositions(n, total))
                           = {Number(r, total) : r \in {x \in Nodes(n) : IsRoot(x, n)}}
    BY DEF TranslationKeepsNodes
  <2>1. total \in treeRows(n)..(MaxWhole + ExtraRows)
    BY <1>1, Reach
  <2> QED
    BY <1>1, <2>1, Reach, TranslationOfNode, RootsTranslated
<1> QED
  BY <1>1, BoundedHolds, PTL

=============================================================================
