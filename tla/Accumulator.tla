---------------------------- MODULE Accumulator ----------------------------
(***************************************************************************)
(* What every implementation of the accumulator promises                   *)
(* (accumulator_interface.go), whatever it stores: a set of leaves that    *)
(* blocks delete from and add to, some of them cached, and a way back over *)
(* the last blocks.  A leaf is the slot it was given when it was added,    *)
(* and slots are given in order.                                           *)
(*                                                                         *)
(* One step may do a part of a block: an implementation that works leaf by *)
(* leaf takes several.                                                     *)
(***************************************************************************)
EXTENDS Integers, Sequences

CONSTANTS
  MaxLeaves,    \* bound: leaves ever added
  MaxAdds,      \* bound: leaves added by one step
  MaxUndo       \* bound: steps that can be undone

ASSUME AccumulatorAssumption == MaxLeaves \in Nat /\ MaxAdds \in Nat /\ MaxUndo \in Nat

VARIABLES
  numLeaves,    \* leaves ever added
  live,         \* the leaves that are in the accumulator
  kept,         \* the leaves that it can prove by itself
  log           \* the states that can be gone back to, latest last

vars == <<numLeaves, live, kept, log>>

Init == numLeaves = 0 /\ live = {} /\ kept = {} /\ log = << >>

NewSlots(k) == numLeaves..(numLeaves + k - 1)

(***************************************************************************)
(* The last k elements of a sequence.                                      *)
(***************************************************************************)
LastOf(s, k) == IF Len(s) <= k THEN s ELSE SubSeq(s, Len(s) - k + 1, Len(s))

(***************************************************************************)
(* Mutant of Modify: the last slot is given again.                         *)
(***************************************************************************)
ModifyReusingSlot(D, k, R) ==
  /\ numLeaves + k <= MaxLeaves
  /\ numLeaves' = numLeaves + k
  /\ live' = (live \ D) \cup NewSlots(k) \cup {s \in {numLeaves - 1} : s >= 0 /\ k > 0}
  /\ kept' = (kept \ D) \cup R
  /\ log' = LastOf(Append(log, [numLeaves |-> numLeaves, live |-> live]), MaxUndo)

(***************************************************************************)
(* Delete the leaves D and add k, of which the leaves R are to be cached.  *)
(***************************************************************************)
Modify(D, k, R) ==
  /\ numLeaves + k <= MaxLeaves
  /\ numLeaves' = numLeaves + k
  /\ live' = (live \ D) \cup NewSlots(k)
  /\ kept' = (kept \ D) \cup R
  /\ log' = LastOf(Append(log, [numLeaves |-> numLeaves, live |-> live]), MaxUndo)

(***************************************************************************)
(* Mutant of Undo: what was cached stays cached.                           *)
(***************************************************************************)
UndoKeepingCache ==
  /\ log # << >>
  /\ numLeaves' = log[Len(log)].numLeaves
  /\ live' = log[Len(log)].live
  /\ kept' = kept \cup (log[Len(log)].live \ live)
  /\ log' = SubSeq(log, 1, Len(log) - 1)

(***************************************************************************)
(* Go back to the state before the last step.  Its deleted leaves are back *)
(* and cached; its added leaves are gone.                                  *)
(***************************************************************************)
Undo ==
  /\ log # << >>
  /\ numLeaves' = log[Len(log)].numLeaves
  /\ live' = log[Len(log)].live
  /\ kept' = (kept \cap log[Len(log)].live) \cup (log[Len(log)].live \ live)
  /\ log' = SubSeq(log, 1, Len(log) - 1)

(***************************************************************************)
(* Verify a proof of the leaves S and cache it.                            *)
(***************************************************************************)
Remember(S) == kept' = kept \cup S /\ UNCHANGED <<numLeaves, live, log>>

Next ==
  \/ \E D \in SUBSET live : \E k \in 0..MaxAdds : \E R \in SUBSET NewSlots(k) : Modify(D, k, R)
  \/ \E S \in SUBSET live : Remember(S)
  \/ Undo

Spec == Init /\ [][Next]_vars

----------------------------------------------------------------------------
(***************************************************************************)
(* Only leaves that are in the accumulator are cached, and only slots that *)
(* were given are leaves, whatever was modified, remembered and undone, in *)
(* whatever order: no cached leaf outlives the block that added it.        *)
(***************************************************************************)
CachedLeavesAreLive == kept \subseteq live /\ live \subseteq 0..(numLeaves - 1)

(***************************************************************************)
(* One state can have come from another: no slot was taken back, and of    *)
(* the slots that were given by then no deleted leaf has come back.        *)
(***************************************************************************)
Precedes(a, b) ==
  /\ a.live \subseteq 0..(a.numLeaves - 1)
  /\ a.numLeaves <= b.numLeaves
  /\ b.live \cap 0..(a.numLeaves - 1) \subseteq a.live

Present == [numLeaves |-> numLeaves, live |-> live]

(***************************************************************************)
(* Every state that Undo can go back to is one that the next one in the    *)
(* log (the present one, for the last) can have come from by Modify.       *)
(***************************************************************************)
LogIsAHistory ==
  \A i \in 1..Len(log) : Precedes(log[i], IF i = Len(log) THEN Present ELSE log[i + 1])

=============================================================================
