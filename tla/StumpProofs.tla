---------------------------- MODULE StumpProofs ----------------------------
(***************************************************************************)
(* Proofs about the Stump, for any bounds and any contents of the calls.   *)
(* What Verify, calculateHashes and rootsToDestory compute plays no part   *)
(* in them; that del keeps the number of roots and that the loop of add    *)
(* takes off and pushes the right number of them does.                     *)
(***************************************************************************)
EXTENDS Stump, SequenceTheorems, TLAPS

(***************************************************************************)
(* A function on 1..n is a sequence of length n.                           *)
(***************************************************************************)
LEMMA FunctionIsSlice ==
  ASSUME NEW n \in Nat, NEW f, f = [i \in 1..n |-> f[i]]
  PROVE  f \in Seq(Range(f)) /\ Len(f) = n
<1>1. \A i \in 1..n : f[i] \in Range(f)
  BY DEF Range
<1>2. f \in [1..n -> Range(f)]
  BY <1>1
<1>3. f \in Seq(Range(f))
  BY <1>2, SeqDef
<1> QED
  BY <1>3, <1>2

(***************************************************************************)
(* Taking off the last element makes a slice one shorter.                  *)
(***************************************************************************)
LEMMA PopSlice ==
  ASSUME NEW S, NEW s \in Seq(S), s # << >>
  PROVE  LET t == SubSeq(s, 1, Len(s) - 1)
         IN  t \in Seq(Range(t)) /\ Len(t) = Len(s) - 1
<1> DEFINE t == SubSeq(s, 1, Len(s) - 1)
           last == <<s[Len(s)]>>
<1>1. Len(s) \in Nat /\ Len(s) >= 1
  BY EmptySeq
<1>2. t \in Seq(S)
  BY <1>1, ElementOfSeq
<1>3. last \in Seq(S) /\ Len(last) = 1
  BY <1>1, ElementOfSeq
<1>4. s = t \o last
  BY <1>1, SubSeqFull, SubSeqRecursiveSecond
<1>5. Len(t) = Len(s) - 1
  <2> HIDE DEF t, last
  <2>1. Len(t \o last) = Len(t) + Len(last)
    BY <1>2, <1>3, ConcatProperties
  <2>2. Len(t) \in Nat
    BY <1>2
  <2> QED
    BY <1>3, <1>4, <2>1, <2>2
<1>6. t \in Seq(Range(t))
  <2> HIDE DEF t
  <2> QED
    BY <1>2, SeqOfRange
<1> QED
  BY <1>5, <1>6

(***************************************************************************)
(* Pushing an element makes a slice one longer.                            *)
(***************************************************************************)
LEMMA PushSlice ==
  ASSUME NEW S, NEW s \in Seq(S), NEW e
  PROVE  LET t == Append(s, e)
         IN  t \in Seq(Range(t)) /\ Len(t) = Len(s) + 1
<1> DEFINE t == Append(s, e)
<1>1. s \in Seq(S \cup {e})
  BY SeqDef
<1>2. t \in Seq(S \cup {e}) /\ Len(t) = Len(s) + 1
  BY <1>1
<1> QED
  BY <1>2, SeqOfRange

(***************************************************************************)
(* So does taking off the first.                                           *)
(***************************************************************************)
LEMMA TailSlice ==
  ASSUME NEW S, NEW s \in Seq(S), s # << >>
  PROVE  LET t == Tail(s)
         IN  t \in Seq(Range(t)) /\ Len(t) = Len(s) - 1
<1> DEFINE t == Tail(s)
<1>1. t \in Seq(S) /\ Len(t) = Len(s) - 1
  BY EmptySeq
<1> QED
  BY <1>1, SeqOfRange

(***************************************************************************)
(* del writes new hashes over some of the roots and keeps their number.    *)
(***************************************************************************)
LEMMA ReplaceKeepsLength ==
  ASSUME NEW S, NEW roots \in Seq(S), NEW indexes, NEW modified
  PROVE  LET new == replaceRoots(roots, indexes, modified)
         IN  new \in Seq(Range(new)) /\ Len(new) = Len(roots)
<1> DEFINE new == replaceRoots(roots, indexes, modified)
<1>1. Len(roots) \in Nat /\ DOMAIN roots = 1..Len(roots)
  OBVIOUS
<1>2. new = [i \in 1..Len(roots) |-> new[i]]
  BY <1>1 DEF replaceRoots
<1>3. new \in Seq(Range(new)) /\ Len(new) = Len(roots)
  <2> HIDE DEF new
  <2> QED
    BY <1>1, <1>2, FunctionIsSlice
<1> QED
  BY <1>3

----------------------------------------------------------------------------
(***************************************************************************)
(* The ones of an odd n: one more than n \div 2 has, and the carry of n + 1 *)
(* goes on in n \div 2.                                                    *)
(***************************************************************************)
LEMMA OnesOfOdd ==
  ASSUME NEW n \in 0..MaxLeaves, n % 2 = 1
  PROVE  /\ numRoots(n) = numRoots(n \div 2) + 1
         /\ n \div 2 \in 0..MaxLeaves
         /\ numRoots(n \div 2) \in Nat
         /\ n + 1 <= MaxLeaves => numRoots(n + 1) = numRoots((n \div 2) + 1)
<1>1. n \in 1..MaxLeaves /\ n \div 2 \in 0..MaxLeaves
  BY BoundsAssumption
<1>2. (n + 1) \div 2 = (n \div 2) + 1 /\ (n + 1) % 2 = 0
  BY BoundsAssumption
<1>3. (n \div 2) + 1 \in 0..MaxLeaves
  BY BoundsAssumption
<1>4. numRoots((n \div 2) + 1) \in Nat /\ numRoots(n \div 2) \in Nat
  BY <1>1, <1>3, OnesCount64Assumption DEF numRoots
<1>5. ASSUME n + 1 <= MaxLeaves
      PROVE  numRoots(n + 1) = numRoots((n \div 2) + 1)
  <2>1. n + 1 \in 1..MaxLeaves
    BY <1>5, BoundsAssumption
  <2>2. OnesCount64[n + 1] = OnesCount64[(n + 1) \div 2] + ((n + 1) % 2)
    BY <2>1, OnesCount64Assumption
  <2> QED
    BY <2>2, <1>2, <1>4 DEF numRoots
<1> QED
  BY <1>1, <1>4, <1>5, OnesCount64Assumption DEF numRoots

(***************************************************************************)
(* The ones of an even n: n + 1 has one more.                              *)
(***************************************************************************)
LEMMA OnesOfEven ==
  ASSUME NEW n \in 0..MaxLeaves, n % 2 = 0, n + 1 <= MaxLeaves
  PROVE  numRoots(n + 1) = numRoots(n) + 1
<1>1. (n + 1) \div 2 = n \div 2 /\ (n + 1) % 2 = 1 /\ n + 1 \in 1..MaxLeaves
  BY BoundsAssumption
<1>2. OnesCount64[n + 1] = OnesCount64[n \div 2] + 1
  BY <1>1, OnesCount64Assumption
<1>3. OnesCount64[n] = OnesCount64[n \div 2]
  <2>1. CASE n = 0
    BY <2>1
  <2>2. CASE n # 0
    <3>1. n \in 1..MaxLeaves /\ n \div 2 \in 0..MaxLeaves
      BY <2>2, BoundsAssumption
    <3>2. OnesCount64[n] = OnesCount64[n \div 2] + 0 /\ OnesCount64[n \div 2] \in Nat
      BY <3>1, OnesCount64Assumption
    <3> QED
      BY <3>2
  <2> QED
    BY <2>1, <2>2
<1> QED
  BY <1>2, <1>3 DEF numRoots

----------------------------------------------------------------------------
(***************************************************************************)
(* The inductive invariant.                                                *)
(***************************************************************************)
IInv == TypeOK /\ LoopInv

(***************************************************************************)
(* A new Stump satisfies it.                                               *)
(***************************************************************************)
LEMMA InitEstablishes == Init => IInv
<1> SUFFICES ASSUME Init PROVE IInv
  OBVIOUS
<1>1. TypeOK
  <2>1. << >> \in Seq(Range(<< >>)) /\ Len(<< >>) = 0
    BY EmptySeq
  <2> QED
    BY <2>1, BoundsAssumption DEF Init, TypeOK, NoData
<1>2. LoopInv
  BY OnesCount64Assumption DEF Init, LoopInv, numRoots
<1> QED
  BY <1>1, <1>2 DEF IInv

(***************************************************************************)
(* del: an accepted proof.  The roots keep their number, and the leaves of *)
(* the call are still to be added.                                         *)
(***************************************************************************)
LEMMA DelKeeps ==
  ASSUME IInv, NEW delHashes, NEW k \in AddCounts, NEW proof,
         del(delHashes, NewLeaves(k), proof)
  PROVE  IInv'
<1> DEFINE adds == NewLeaves(k)
<1> USE DEF IInv
<1>1. k \in Nat /\ NumLeaves + k <= MaxLeaves /\ NumLeaves \in Nat
  BY BoundsAssumption DEF AddCounts, TypeOK
<1>2. adds \in Seq(Range(adds)) /\ Len(adds) = k
  <2>1. adds = [i \in 1..k |-> adds[i]]
    BY DEF NewLeaves
  <2> HIDE DEF adds
  <2> QED
    BY <1>1, <2>1, FunctionIsSlice
<1>3. Roots' \in Seq(Range(Roots')) /\ Len(Roots') = Len(Roots)
  <2>1. Roots \in Seq(Range(Roots))
    BY DEF TypeOK
  <2>2. PICK indexes, modified : Roots' = replaceRoots(Roots, indexes, modified)
    BY DEF del
  <2> QED
    BY <2>1, <2>2, ReplaceKeepsLength
<1>4. /\ toAdd' = adds /\ pc' = "add" /\ NumLeaves' = NumLeaves /\ rest' = rest
      /\ block'.adds = adds /\ updateData'.prevNumLeaves = NumLeaves
      /\ DOMAIN updateData' = {"toDestroy", "prevNumLeaves", "newDel", "newAdd"}
  BY DEF del
<1>5. live' \subseteq 0..(MaxLeaves - 1)
  <2>1. live' = {s \in live : ~InSlice(delHashes, LeafHash(s))}
                  \cup {NumLeaves + i - 1 : i \in DOMAIN adds}
    BY DEF del
  <2>2. \A i \in DOMAIN adds : NumLeaves + i - 1 \in 0..(MaxLeaves - 1)
    BY <1>1, BoundsAssumption DEF NewLeaves
  <2> HIDE DEF adds
  <2> QED
    BY <2>1, <2>2 DEF TypeOK
<1> HIDE DEF adds
<1>6. TypeOK'
  BY <1>1, <1>2, <1>3, <1>4, <1>5 DEF TypeOK
<1>7. LoopInv'
  <2>1. pc = "ready"
    BY DEF del
  <2> QED
    BY <2>1, <1>1, <1>2, <1>3, <1>4 DEF LoopInv, numRoots
<1> QED
  BY <1>6, <1>7

(***************************************************************************)
(* addNext: the inner loop starts with all the bits of NumLeaves.          *)
(***************************************************************************)
LEMMA AddNextKeeps == IInv /\ addNext => IInv'
<1> SUFFICES ASSUME IInv, addNext PROVE IInv'
  OBVIOUS
<1> USE DEF IInv
<1>1. /\ pc = "add" /\ toAdd # << >> /\ pc' = "hash" /\ rest' = NumLeaves
      /\ UNCHANGED <<NumLeaves, Roots, live, block, toAdd, updateData>>
  BY DEF addNext
<1>2. TypeOK'
  BY <1>1 DEF TypeOK
<1>3. LoopInv'
  BY <1>1, BoundsAssumption DEF TypeOK, LoopInv, numRoots
<1> QED
  BY <1>2, <1>3

(***************************************************************************)
(* hashWithRoot: an odd rest has one more 1 than rest \div 2, so there is  *)
(* a root to take off.                                                     *)
(***************************************************************************)
LEMMA HashWithRootKeeps == IInv /\ hashWithRoot => IInv'
<1> SUFFICES ASSUME IInv, hashWithRoot PROVE IInv'
  OBVIOUS
<1> USE DEF IInv
<1>1. /\ pc = "hash" /\ rest % 2 = 1 /\ rest' = rest \div 2
      /\ Roots' = SubSeq(Roots, 1, Len(Roots) - 1)
      /\ UNCHANGED <<NumLeaves, live, pc, block, toAdd, updateData>>
  BY DEF hashWithRoot
<1>2. /\ NumLeaves \in 0..MaxLeaves /\ rest \in 0..MaxLeaves /\ rest <= NumLeaves
      /\ Len(toAdd) \in Nat /\ Len(toAdd) # 0 /\ NumLeaves + Len(toAdd) <= MaxLeaves
      /\ Roots \in Seq(Range(Roots))
  BY <1>1, EmptySeq DEF TypeOK, LoopInv
<1>3. rest + 1 <= MaxLeaves
  BY <1>2, BoundsAssumption
<1>4. /\ rest' \in 0..MaxLeaves /\ rest' <= NumLeaves
      /\ numRoots(rest) = numRoots(rest') + 1 /\ numRoots(rest') \in Nat
      /\ numRoots(rest + 1) = numRoots(rest' + 1)
  <2>1. rest \div 2 <= NumLeaves
    BY <1>2, BoundsAssumption
  <2> QED
    BY <1>1, <1>2, <1>3, <2>1, OnesOfOdd
<1>5. Len(Roots) = numRoots(rest)
  BY <1>1 DEF LoopInv
<1>6. Roots # << >>
  BY <1>4, <1>5, EmptySeq
<1>7. Roots' \in Seq(Range(Roots')) /\ Len(Roots') = Len(Roots) - 1
  BY <1>1, <1>2, <1>6, PopSlice
<1>8. TypeOK'
  BY <1>1, <1>4, <1>7 DEF TypeOK
<1>9. LoopInv'
  BY <1>1, <1>4, <1>5, <1>7 DEF LoopInv, numRoots
<1> QED
  BY <1>8, <1>9

(***************************************************************************)
(* pushRoot: the carry stops at an even rest, and pushing the new root     *)
(* makes as many as NumLeaves + 1 has ones.                                *)
(***************************************************************************)
LEMMA PushRootKeeps == IInv /\ pushRoot => IInv'
<1> SUFFICES ASSUME IInv, pushRoot PROVE IInv'
  OBVIOUS
<1> USE DEF IInv
<1>1. /\ pc = "hash" /\ rest % 2 = 0 /\ pc' = "add" /\ NumLeaves' = NumLeaves + 1
      /\ Roots' = Append(Roots, newRoot) /\ toAdd' = Tail(toAdd)
      /\ UNCHANGED <<live, block, rest, updateData>>
  BY DEF pushRoot
<1>2. /\ NumLeaves \in 0..MaxLeaves /\ rest \in 0..MaxLeaves /\ rest <= NumLeaves
      /\ toAdd # << >> /\ toAdd \in Seq(Range(toAdd)) /\ NumLeaves + Len(toAdd) <= MaxLeaves
      /\ Roots \in Seq(Range(Roots))
  BY <1>1 DEF TypeOK, LoopInv
<1>3. toAdd' \in Seq(Range(toAdd')) /\ Len(toAdd') = Len(toAdd) - 1
  BY <1>1, <1>2, TailSlice
<1>4. Len(toAdd) \in Nat /\ Len(toAdd) # 0
  BY <1>2, EmptySeq
<1>5. Roots' \in Seq(Range(Roots')) /\ Len(Roots') = Len(Roots) + 1
  BY <1>1, <1>2, PushSlice
<1>6. numRoots(NumLeaves') = Len(Roots')
  <2>1. rest + 1 <= MaxLeaves
    BY <1>2, <1>4, BoundsAssumption
  <2>2. numRoots(rest + 1) = numRoots(rest) + 1
    BY <1>1, <1>2, <2>1, OnesOfEven
  <2> QED
    BY <1>1, <1>5, <2>2 DEF LoopInv, numRoots
<1>7. TypeOK'
  BY <1>1, <1>2, <1>3, <1>4, <1>5, BoundsAssumption DEF TypeOK
<1>8. LoopInv'
  <2>1. NumLeaves' + Len(toAdd') = NumLeaves + Len(toAdd)
    BY <1>1, <1>2, <1>3, <1>4, BoundsAssumption
  <2> QED
    BY <1>1, <1>6, <2>1 DEF LoopInv, numRoots
<1> QED
  BY <1>7, <1>8

(***************************************************************************)
(* addDone: nothing is left to add, only the returned nodes change.        *)
(***************************************************************************)
LEMMA AddDoneKeeps == IInv /\ addDone => IInv'
<1> SUFFICES ASSUME IInv, addDone PROVE IInv'
  OBVIOUS
<1>1. /\ pc = "add" /\ toAdd = << >> /\ pc' = "done"
      /\ UNCHANGED <<NumLeaves, Roots, live, block, toAdd, rest>>
      /\ DOMAIN updateData' = DOMAIN updateData
      /\ updateData'.prevNumLeaves = updateData.prevNumLeaves
  BY DEF addDone, loop, IInv, TypeOK
<1> QED
  BY <1>1 DEF IInv, TypeOK, LoopInv, numRoots

(***************************************************************************)
(* return: the local variables are gone, the Stump stays.                  *)
(***************************************************************************)
LEMMA ReturnKeeps == IInv /\ return => IInv'
<1> SUFFICES ASSUME IInv, return PROVE IInv'
  OBVIOUS
<1>1. << >> \in Seq(Range(<< >>)) /\ Len(<< >>) = 0
  BY EmptySeq
<1>2. /\ pc = "done" /\ pc' = "ready" /\ toAdd' = << >> /\ rest' = 0
      /\ DOMAIN updateData' = {"toDestroy", "prevNumLeaves", "newDel", "newAdd"}
      /\ UNCHANGED <<NumLeaves, Roots, live>>
  BY DEF return, NoData
<1>3. TypeOK'
  BY <1>1, <1>2, BoundsAssumption DEF IInv, TypeOK
<1>4. LoopInv'
  BY <1>2 DEF IInv, LoopInv, numRoots
<1> QED
  BY <1>3, <1>4 DEF IInv

----------------------------------------------------------------------------
(***************************************************************************)
(* Every step of a call of Update keeps the invariant.                     *)
(***************************************************************************)
LEMMA StepKeeps == IInv /\ [Next]_vars => IInv'
<1> SUFFICES ASSUME IInv, [Next]_vars PROVE IInv'
  OBVIOUS
<1>1. CASE \E D \in SUBSET live : \E slots \in Orders(D) : \E delHashes \in Claims(slots) :
             \E k \in AddCounts : Call(delHashes, NewLeaves(k), Prove(NumLeaves, live, slots))
  <2>1. PICK slots, delHashes, k : k \in AddCounts
               /\ Call(delHashes, NewLeaves(k), Prove(NumLeaves, live, slots))
    BY <1>1, Zenon
  <2>2. CASE Reject(delHashes, NewLeaves(k), Prove(NumLeaves, live, slots))
    BY <2>2 DEF Reject, vars, IInv, TypeOK, LoopInv, numRoots
  <2>3. CASE del(delHashes, NewLeaves(k), Prove(NumLeaves, live, slots))
    BY <2>1, <2>3, DelKeeps
  <2> QED
    BY <2>1, <2>2, <2>3 DEF Call
<1>2. CASE addStep
  BY <1>2, AddNextKeeps, HashWithRootKeeps, PushRootKeeps, AddDoneKeeps DEF addStep
<1>3. CASE return
  BY <1>3, ReturnKeeps
<1>4. CASE UNCHANGED vars
  BY <1>4 DEF vars, IInv, TypeOK, LoopInv, numRoots
<1> QED
  BY <1>1, <1>2, <1>3, <1>4 DEF Next

(***************************************************************************)
(* The invariant holds of every sequence of calls of Update, for any       *)
(* bounds.                                                                 *)
(***************************************************************************)
THEOREM Invariance == Spec => []IInv
<1> QED
  BY InitEstablishes, StepKeeps, PTL DEF Spec

(***************************************************************************)
(* The variables of Stump.Update and add keep their types; in particular   *)
(* the slices stay slices and a leaf is at hand whenever the inner loop    *)
(* of add runs.                                                            *)
(***************************************************************************)
THEOREM TypeCorrect == Spec => []TypeOK
<1>1. IInv => TypeOK
  BY DEF IInv
<1> QED
  BY <1>1, Invariance, PTL

(***************************************************************************)
(* The loops of Stump.add: in every turn of the inner one the roots left   *)
(* are those of the bits not looked at yet, and carrying the leaf into     *)
(* those bits gives as many roots as one leaf more has.                    *)
(***************************************************************************)
THEOREM LoopInvHolds == Spec => []LoopInv
<1>1. IInv => LoopInv
  BY DEF IInv
<1> QED
  BY <1>1, Invariance, PTL

(***************************************************************************)
(* Stump.add keeps as many roots as NumLeaves has ones and never takes a   *)
(* root off an empty slice, whatever roots are empty and whatever is       *)
(* deleted in between.                                                     *)
(***************************************************************************)
THEOREM RootCountHolds == Spec => []RootCount
<1>1. IInv => RootCount
  <2> SUFFICES ASSUME IInv PROVE RootCount
    OBVIOUS
  <2>1. pc = "hash" /\ rest % 2 = 1 => Roots # << >>
    <3> SUFFICES ASSUME pc = "hash", rest % 2 = 1 PROVE Len(Roots) # 0
      BY EmptySeq
    <3>1. rest \in 0..MaxLeaves /\ Len(Roots) = numRoots(rest)
      BY DEF IInv, TypeOK, LoopInv
    <3> QED
      BY <3>1, OnesOfOdd
  <2> QED
    BY <2>1 DEF IInv, LoopInv, RootCount
<1> QED
  BY <1>1, Invariance, PTL

=============================================================================
