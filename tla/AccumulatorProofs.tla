------------------------- MODULE AccumulatorProofs -------------------------
(***************************************************************************)
(* The invariants of the abstract accumulator, for every bound.            *)
(***************************************************************************)
EXTENDS Accumulator, TLAPS

State == [numLeaves : 0..MaxLeaves, live : SUBSET (0..(MaxLeaves - 1))]

(***************************************************************************)
(* What the invariants below need to know of the types.                    *)
(***************************************************************************)
TypeInv == numLeaves \in 0..MaxLeaves /\ log \in Seq(State)

(***************************************************************************)
(* What a step has to be given to keep the two invariants: undoing needs   *)
(* the log, and the log needs the leaves to be slots below the count.      *)
(***************************************************************************)
IInv == TypeInv /\ CachedLeavesAreLive /\ LogIsAHistory

(***************************************************************************)
(* The end of a sequence is a sequence, with the elements of the end.      *)
(***************************************************************************)
LEMMA LastOfElements ==
  ASSUME NEW S, NEW s \in Seq(S), NEW k \in Nat
  PROVE  LET t == LastOf(s, k) IN
         /\ t \in Seq(S)
         /\ Len(t) <= k /\ Len(t) <= Len(s)
         /\ \A i \in 1..Len(t) : t[i] = s[Len(s) - Len(t) + i]
<1> DEFINE t == LastOf(s, k)
<1>0. Len(s) \in Nat
  OBVIOUS
<1>1. CASE Len(s) <= k
  BY <1>0, <1>1 DEF LastOf
<1>2. CASE ~(Len(s) <= k)
  <2>1. t = SubSeq(s, Len(s) - k + 1, Len(s))
    BY <1>2 DEF LastOf
  <2>2. t \in Seq(S) /\ Len(t) = k /\ \A i \in 1..k : t[i] = s[Len(s) - k + i]
    <3> HIDE DEF t
    <3> QED
      BY <1>0, <1>2, <2>1
  <2> HIDE DEF t
  <2>3. /\ t \in Seq(S)
        /\ Len(t) <= k /\ Len(t) <= Len(s)
        /\ \A i \in 1..Len(t) : t[i] = s[Len(s) - Len(t) + i]
    BY <1>0, <1>2, <2>2
  <2> QED
    BY <2>3 DEF t
<1> QED
  BY <1>0, <1>1, <1>2

(***************************************************************************)
(* The log after a step: the present state is its last element, and the    *)
(* others keep their successors.                                           *)
(***************************************************************************)
LEMMA LogAfterStep ==
  ASSUME NEW l \in Seq(State), NEW x \in State, NEW k \in Nat,
         \A i \in 1..Len(l) : Precedes(l[i], IF i = Len(l) THEN x ELSE l[i + 1])
  PROVE  LET t == LastOf(Append(l, x), k) IN
         /\ t \in Seq(State)
         /\ Len(t) <= k
         /\ \A i \in 1..Len(t) : i = Len(t) => t[i] = x
         /\ \A i \in 1..Len(t) : i # Len(t) => Precedes(t[i], t[i + 1])
<1> DEFINE a == Append(l, x)
           t == LastOf(a, k)
<1>1. /\ a \in Seq(State) /\ Len(l) \in Nat /\ Len(a) = Len(l) + 1
      /\ a[Len(l) + 1] = x /\ \A i \in 1..Len(l) : a[i] = l[i]
  OBVIOUS
<1>2. \A i \in 1..Len(l) : Precedes(a[i], a[i + 1])
  <2> SUFFICES ASSUME NEW i \in 1..Len(l) PROVE Precedes(a[i], a[i + 1])
    OBVIOUS
  <2>1. a[i] = l[i] /\ a[i + 1] = (IF i = Len(l) THEN x ELSE l[i + 1])
    <3> HIDE DEF a
    <3> QED BY <1>1
  <2> QED
    BY <2>1
<1> HIDE DEF a
<1>3. /\ t \in Seq(State) /\ Len(t) <= k /\ Len(t) <= Len(a) /\ Len(t) \in Nat
      /\ \A i \in 1..Len(t) : t[i] = a[Len(a) - Len(t) + i]
  <2>1. a \in Seq(State)
    BY <1>1
  <2>2. /\ t \in Seq(State) /\ Len(t) <= k /\ Len(t) <= Len(a)
        /\ \A i \in 1..Len(t) : t[i] = a[Len(a) - Len(t) + i]
    BY <2>1, LastOfElements, Zenon
  <2> HIDE DEF t
  <2>3. Len(t) \in Nat
    BY <2>2
  <2> QED
    BY <2>2, <2>3
<1> HIDE DEF t
<1>4. \A i \in 1..Len(t) : i = Len(t) => t[i] = x
  BY <1>1, <1>3
<1>5. \A i \in 1..Len(t) : i # Len(t) => Precedes(t[i], t[i + 1])
  <2> SUFFICES ASSUME NEW i \in 1..Len(t), i # Len(t) PROVE Precedes(t[i], t[i + 1])
    OBVIOUS
  <2> DEFINE j == Len(a) - Len(t) + i
  <2>1. j \in 1..Len(l) /\ i + 1 \in 1..Len(t) /\ Len(a) - Len(t) + (i + 1) = j + 1
    BY <1>1, <1>3
  <2>2. t[i] = a[j] /\ t[i + 1] = a[j + 1]
    BY <1>3, <2>1
  <2> QED
    BY <1>2, <2>1, <2>2
<1> QED
  BY <1>3, <1>4, <1>5 DEF t, a

(***************************************************************************)
(* Every step keeps the invariant.  Modify gives fresh slots and logs the  *)
(* state before it; Undo takes the last state of the log, which the log    *)
(* says the present one can have come from.                                *)
(***************************************************************************)
LEMMA StepKeeps == IInv /\ [Next]_vars => IInv'
<1> SUFFICES ASSUME IInv, [Next]_vars PROVE IInv'
  OBVIOUS
<1> USE AccumulatorAssumption
<1>0. /\ numLeaves \in 0..MaxLeaves /\ log \in Seq(State) /\ Len(log) \in Nat
      /\ kept \subseteq live /\ live \subseteq 0..(numLeaves - 1)
      /\ \A i \in 1..Len(log) : Precedes(log[i], IF i = Len(log) THEN Present ELSE log[i + 1])
  BY DEF IInv, TypeInv, State, CachedLeavesAreLive, LogIsAHistory
<1>1. Present \in State
  BY <1>0 DEF Present, State
<1>2. ASSUME NEW D \in SUBSET live, NEW k \in 0..MaxAdds, NEW R \in SUBSET NewSlots(k),
             Modify(D, k, R)
      PROVE  IInv'
  <2>1. /\ numLeaves' = numLeaves + k /\ numLeaves' \in 0..MaxLeaves
        /\ live' = (live \ D) \cup (numLeaves..(numLeaves + k - 1))
        /\ kept' = (kept \ D) \cup R
        /\ log' = LastOf(Append(log, Present), MaxUndo)
    BY <1>0, <1>2 DEF Modify, NewSlots, Present
  <2>2. /\ log' \in Seq(State)
        /\ \A i \in 1..Len(log') : i = Len(log') => log'[i] = Present
        /\ \A i \in 1..Len(log') : i # Len(log') => Precedes(log'[i], log'[i + 1])
    BY <1>0, <1>1, <2>1, LogAfterStep, Zenon
  <2>3. CachedLeavesAreLive'
    <3>1. R \subseteq numLeaves..(numLeaves + k - 1)
      BY <1>2 DEF NewSlots
    <3> QED
      BY <1>0, <2>1, <3>1 DEF CachedLeavesAreLive
  <2>4. Precedes(Present, Present')
    BY <1>0, <2>1 DEF Precedes, Present
  <2>5. LogIsAHistory'
    BY <2>2, <2>4 DEF LogIsAHistory
  <2> QED
    BY <2>1, <2>2, <2>3, <2>5 DEF IInv, TypeInv, State
<1>3. ASSUME NEW S \in SUBSET live, Remember(S)
      PROVE  IInv'
  <2>1. kept' = kept \cup S /\ numLeaves' = numLeaves /\ live' = live /\ log' = log
    BY <1>3 DEF Remember
  <2>2. Present' = Present
    BY <2>1 DEF Present
  <2> QED
    BY <1>0, <2>1, <2>2 DEF IInv, TypeInv, State, CachedLeavesAreLive, LogIsAHistory
<1>4. CASE Undo
  <2> DEFINE n == Len(log)
             last == log[n]
  <2>1. n \in 1..n /\ last \in State /\ Precedes(last, Present)
    <3>1. n # 0
      BY <1>0, <1>4 DEF Undo
    <3> QED
      BY <1>0, <3>1
  <2>2. /\ numLeaves' = last.numLeaves /\ live' = last.live
        /\ kept' = (kept \cap last.live) \cup (last.live \ live)
        /\ log' = SubSeq(log, 1, n - 1)
    BY <1>4 DEF Undo
  <2>3. /\ log' \in Seq(State) /\ Len(log') = n - 1
        /\ \A i \in 1..(n - 1) : log'[i] = log[i]
    <3> HIDE DEF n
    <3>1. n \in Nat /\ n >= 1 /\ n = Len(log)
      BY <1>0, <2>1 DEF n
    <3> QED
      BY <1>0, <2>2, <3>1
  <2>4. Present' = last
    BY <2>1, <2>2 DEF Present, State
  <2>5. CachedLeavesAreLive'
    BY <2>1, <2>2 DEF CachedLeavesAreLive, Precedes
  <2>6. LogIsAHistory'
    <3> SUFFICES ASSUME NEW i \in 1..(n - 1)
                 PROVE  Precedes(log'[i], IF i = n - 1 THEN last ELSE log'[i + 1])
      BY <2>3, <2>4 DEF LogIsAHistory
    <3>1. i \in 1..n /\ i # n /\ Precedes(log[i], log[i + 1])
      BY <1>0
    <3>2. log'[i] = log[i] /\ (i # n - 1 => log'[i + 1] = log[i + 1])
      BY <1>0, <2>3
    <3> QED
      BY <3>1, <3>2
  <2> QED
    BY <1>0, <2>1, <2>2, <2>3, <2>5, <2>6 DEF IInv, TypeInv, State
<1>5. CASE UNCHANGED vars
  BY <1>5 DEF vars, IInv, TypeInv, CachedLeavesAreLive, LogIsAHistory, Present
<1> QED
  BY <1>2, <1>3, <1>4, <1>5 DEF Next

(***************************************************************************)
(* The invariant holds of every behaviour.                                 *)
(***************************************************************************)
THEOREM Invariance == Spec => []IInv
<1>1. Init => IInv
  BY AccumulatorAssumption
  DEF Init, IInv, TypeInv, State, CachedLeavesAreLive, LogIsAHistory
<1> QED
  BY <1>1, StepKeeps, PTL DEF Spec

(***************************************************************************)
(* No cached leaf outlives the block that added it, and no deleted one is  *)
(* still cached, however blocks, caching and undoing follow each other:    *)
(* what Modify, Verify and Undo of every implementation are to ensure.     *)
(***************************************************************************)
THEOREM CachedLeavesAreLiveHolds == Spec => []CachedLeavesAreLive
<1>1. IInv => CachedLeavesAreLive
  BY DEF IInv
<1> QED
  BY <1>1, Invariance, PTL

(***************************************************************************)
(* Undo always has a state to go back to that the present one can have     *)
(* come from.                                                              *)
(***************************************************************************)
THEOREM LogIsAHistoryHolds == Spec => []LogIsAHistory
<1>1. IInv => LogIsAHistory
  BY DEF IInv
<1> QED
  BY <1>1, Invariance, PTL

=============================================================================
