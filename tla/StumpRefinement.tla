-------------------------- MODULE StumpRefinement --------------------------
(***************************************************************************)
(* The proof that the Stump implements the accumulator.  The deletions of  *)
(* a call are one step of the accumulator and every root that is pushed is *)
(* another; the turns of the loops in between leave it as it is.           *)
(***************************************************************************)
EXTENDS StumpProofs

(***************************************************************************)
(* The leaves still to be added have the next slots, and they are not more *)
(* than a call may add.                                                    *)
(***************************************************************************)
SlotsInv ==
  /\ Len(toAdd) <= MaxAdds
  /\ NumLeaves..(NumLeaves + Len(toAdd) - 1) \subseteq live

(***************************************************************************)
(* Nothing is kept of a log of length 0.                                   *)
(***************************************************************************)
LEMMA EmptyLog == ASSUME NEW x PROVE A!LastOf(Append(<< >>, x), 0) = << >>
<1> DEFINE s == Append(<< >>, x)
<1>1. s \in Seq({x}) /\ Len(s) = 1
  OBVIOUS
<1>2. A!LastOf(s, 0) = SubSeq(s, 2, 1)
  BY <1>1 DEF A!LastOf
<1>3. SubSeq(s, 2, 1) = << >>
  BY <1>1
<1> QED
  BY <1>2, <1>3

(***************************************************************************)
(* del deletes, and adds nothing yet: the new slots are not below          *)
(* NumLeaves.                                                              *)
(***************************************************************************)
LEMMA DelImplements ==
  ASSUME IInv, NEW delHashes, NEW k \in AddCounts, NEW proof,
         del(delHashes, NewLeaves(k), proof)
  PROVE  SlotsInv' /\ A!Next
<1>1. /\ k \in Nat /\ k <= MaxAdds /\ NumLeaves + k <= MaxLeaves /\ NumLeaves \in Nat
      /\ live \subseteq 0..(MaxLeaves - 1)
  BY BoundsAssumption DEF AddCounts, IInv, TypeOK
<1>2. DOMAIN NewLeaves(k) = 1..k /\ Len(NewLeaves(k)) = k
  BY <1>1 DEF NewLeaves
<1>3. /\ toAdd' = NewLeaves(k) /\ NumLeaves' = NumLeaves
      /\ live' = {s \in live : ~InSlice(delHashes, LeafHash(s))}
                   \cup {NumLeaves + i - 1 : i \in 1..k}
  BY <1>2 DEF del
<1>4. SlotsInv'
  <2> SUFFICES ASSUME NEW s \in NumLeaves..(NumLeaves + k - 1) PROVE s \in live'
    BY <1>1, <1>2, <1>3 DEF SlotsInv
  <2>1. s - NumLeaves + 1 \in 1..k /\ NumLeaves + (s - NumLeaves + 1) - 1 = s
    BY <1>1
  <2> QED
    BY <1>3, <2>1
<1>5. A!Next
  <2> DEFINE D == {s \in live : s < NumLeaves /\ InSlice(delHashes, LeafHash(s))}
             before == {s \in live : s < NumLeaves}
  <2>1. {s \in live' : s < NumLeaves'} = (before \ D) \cup (NumLeaves..(NumLeaves + 0 - 1))
    <3>1. \A i \in 1..k : ~(NumLeaves + i - 1 < NumLeaves)
      BY <1>1
    <3>2. NumLeaves..(NumLeaves + 0 - 1) = {}
      BY <1>1
    <3> QED
      BY <1>3, <3>1, <3>2
  <2>2. A!Modify(D, 0, {})
    <3>1. NumLeaves + 0 <= MaxLeaves /\ NumLeaves' = NumLeaves + 0
      BY <1>1, <1>3, BoundsAssumption
    <3> HIDE DEF D
    <3> QED
      BY <2>1, <3>1, EmptyLog DEF A!Modify, A!NewSlots
  <2>3. D \in SUBSET before /\ 0 \in 0..MaxAdds /\ {} \in SUBSET A!NewSlots(0)
    BY <1>1, BoundsAssumption
  <2> QED
    BY <2>2, <2>3 DEF A!Next
<1> QED
  BY <1>4, <1>5

(***************************************************************************)
(* pushRoot adds the leaf of the next slot.                                *)
(***************************************************************************)
LEMMA PushRootImplements ==
  ASSUME IInv, SlotsInv, pushRoot
  PROVE  SlotsInv' /\ A!Next
<1>1. /\ pc = "hash" /\ NumLeaves' = NumLeaves + 1 /\ toAdd' = Tail(toAdd) /\ live' = live
  BY DEF pushRoot
<1>2. /\ NumLeaves \in Nat /\ toAdd # << >> /\ toAdd \in Seq(Range(toAdd))
      /\ NumLeaves + Len(toAdd) <= MaxLeaves /\ live \subseteq 0..(MaxLeaves - 1)
  BY <1>1, BoundsAssumption DEF IInv, TypeOK
<1>3. Len(toAdd') = Len(toAdd) - 1
  BY <1>1, <1>2, TailSlice
<1>4. Len(toAdd) \in Nat /\ Len(toAdd) # 0
  BY <1>2, EmptySeq
<1>5. Len(toAdd) <= MaxAdds /\ NumLeaves..(NumLeaves + Len(toAdd) - 1) \subseteq live
  BY DEF SlotsInv
<1>6. SlotsInv'
  BY <1>1, <1>2, <1>3, <1>4, <1>5, BoundsAssumption DEF SlotsInv
<1>7. A!Next
  <2> DEFINE before == {s \in live : s < NumLeaves}
  <2>1. NumLeaves \in live
    BY <1>2, <1>4, <1>5
  <2>2. {s \in live' : s < NumLeaves'} = (before \ {}) \cup (NumLeaves..(NumLeaves + 1 - 1))
    <3>1. \A s \in live : s < NumLeaves + 1 <=> s < NumLeaves \/ s = NumLeaves
      BY <1>2, BoundsAssumption
    <3>2. NumLeaves..(NumLeaves + 1 - 1) = {NumLeaves}
      BY <1>2
    <3> QED
      BY <1>1, <2>1, <3>1, <3>2
  <2>3. NumLeaves + 1 <= MaxLeaves /\ 1 \in 0..MaxAdds
    BY <1>2, <1>4, <1>5, BoundsAssumption
  <2>4. A!Modify({}, 1, {})
    BY <1>1, <2>2, <2>3, EmptyLog DEF A!Modify, A!NewSlots
  <2> QED
    BY <2>3, <2>4 DEF A!Next
<1> QED
  BY <1>6, <1>7

(***************************************************************************)
(* A step of Update is a step of the accumulator or none.                  *)
(***************************************************************************)
LEMMA StepImplements == IInv /\ SlotsInv /\ [Next]_vars => SlotsInv' /\ [A!Next]_(A!vars)
<1> SUFFICES ASSUME IInv, SlotsInv, [Next]_vars PROVE SlotsInv' /\ [A!Next]_(A!vars)
  OBVIOUS
<1>0. ASSUME NumLeaves' = NumLeaves, live' = live, Len(toAdd') = Len(toAdd)
      PROVE  SlotsInv' /\ UNCHANGED A!vars
  BY <1>0 DEF SlotsInv, A!vars
<1>1. CASE \E D \in SUBSET live : \E slots \in Orders(D) : \E delHashes \in Claims(slots) :
             \E k \in AddCounts : Call(delHashes, NewLeaves(k), Prove(NumLeaves, live, slots))
  <2>1. PICK slots, delHashes, k : k \in AddCounts
               /\ Call(delHashes, NewLeaves(k), Prove(NumLeaves, live, slots))
    BY <1>1, Zenon
  <2>2. CASE Reject(delHashes, NewLeaves(k), Prove(NumLeaves, live, slots))
    BY <1>0, <2>2 DEF Reject, vars
  <2>3. CASE del(delHashes, NewLeaves(k), Prove(NumLeaves, live, slots))
    BY <2>1, <2>3, DelImplements
  <2> QED
    BY <2>1, <2>2, <2>3 DEF Call
<1>2. CASE addNext
  BY <1>0, <1>2 DEF addNext
<1>3. CASE hashWithRoot
  BY <1>0, <1>3 DEF hashWithRoot
<1>4. CASE pushRoot
  BY <1>4, PushRootImplements
<1>5. CASE addDone
  BY <1>0, <1>5 DEF addDone, loop
<1>6. CASE return
  <2>1. toAdd = << >> /\ toAdd' = << >> /\ NumLeaves' = NumLeaves /\ live' = live
    BY <1>6 DEF return, IInv, LoopInv
  <2> QED
    BY <1>0, <2>1
<1>7. CASE UNCHANGED vars
  BY <1>0, <1>7 DEF vars
<1> QED
  BY <1>1, <1>2, <1>3, <1>4, <1>5, <1>6, <1>7 DEF Next, addStep

(***************************************************************************)
(* Every behaviour of a Stump is one of the abstract accumulator: Update   *)
(* deletes and adds exactly the leaves that Modify promises to, in slots   *)
(* that are never given twice, for any bounds.                             *)
(***************************************************************************)
THEOREM StumpImplementsAccumulator == Spec => ImplementsAccumulator
<1>1. Init => SlotsInv /\ A!Init
  <2> SUFFICES ASSUME Init PROVE SlotsInv /\ A!Init
    OBVIOUS
  <2>1. NumLeaves = 0 /\ live = {} /\ Len(toAdd) = 0
    BY EmptySeq DEF Init
  <2> QED
    BY <2>1, BoundsAssumption DEF SlotsInv, A!Init
<1> QED
  BY <1>1, StepImplements, Invariance, PTL DEF Spec, ImplementsAccumulator, A!Spec

=============================================================================
