----------------------------- MODULE HashAndPos -----------------------------
(***************************************************************************)
(* Hashes, and the sorted slices of positions and hashes of prove.go.      *)
(*                                                                         *)
(* A hash is a term: empty, the hash of a leaf (written <<i>> for the leaf *)
(* added i-th), or the hash of two hashes.  Equal hashes have equal        *)
(* preimages, which is the collision resistance the accumulator rests on.  *)
(*                                                                         *)
(* The code keeps a hashAndPos as two parallel slices; here it is one      *)
(* sequence of records.  The two agree because every operation moves the   *)
(* two slices together.                                                    *)
(***************************************************************************)
EXTENDS Utils, TLC

empty == << >>

LeafHash(i) == <<i>>

parentHash(l, r) == <<l, r>>

(***************************************************************************)
(* Mutants of getNextHash: the side of the position is ignored; an empty   *)
(* hash is hashed like any other.                                          *)
(***************************************************************************)
getNextHashUnordered(pos, hash, sibHash) ==
  CASE hash = empty                        -> sibHash
    [] hash # empty /\ sibHash = empty     -> hash
    [] hash # empty /\ sibHash # empty     -> parentHash(hash, sibHash)

getNextHashOfEmpty(pos, hash, sibHash) ==
  IF isLeftNiece(pos) THEN parentHash(hash, sibHash) ELSE parentHash(sibHash, hash)

(***************************************************************************)
(* The hash of the parent of a position: an empty hash lets the other move *)
(* up unhashed.                                                            *)
(***************************************************************************)
getNextHash(pos, hash, sibHash) ==
  CASE hash = empty                        -> sibHash
    [] hash # empty /\ sibHash = empty     -> hash
    [] hash # empty /\ sibHash # empty     ->
         IF isLeftNiece(pos) THEN parentHash(hash, sibHash) ELSE parentHash(sibHash, hash)

----------------------------------------------------------------------------
positions(hnp) == [i \in DOMAIN hnp |-> hnp[i].pos]

hashes(hnp) == [i \in DOMAIN hnp |-> hnp[i].hash]

(***************************************************************************)
(* A slice sorted by its keys: one after the other, the element with the   *)
(* least key that is left.  Of two equal keys the first goes first.        *)
(***************************************************************************)
SortedBy(s, keys) ==
  LET least(left) ==
        CHOOSE e \in left : \A f \in left : e.key < f.key \/ (e.key = f.key /\ e.at <= f.at)
      take(q, e) == [out |-> Append(q.out, s[e.at]), left |-> q.left \ {e}]
  IN  While([out |-> << >>, left |-> {[key |-> keys[i], at |-> i] : i \in DOMAIN s}],
            LAMBDA q : q.left # {}, LAMBDA q : take(q, least(q.left)), Len(s)).out

Sorted(s) == SortedBy(s, s)

byPos(hnp) == SortedBy(hnp, positions(hnp))

(***************************************************************************)
(* The hash a slice has for a position; the caller checks that it has one. *)
(***************************************************************************)
HasPos(hnp, pos) == \E i \in DOMAIN hnp : hnp[i].pos = pos

HashAt(hnp, pos) == hnp[CHOOSE i \in DOMAIN hnp : hnp[i].pos = pos].hash

(***************************************************************************)
(* The two slices must be equally long.                                    *)
(***************************************************************************)
toHashAndPos(targets, hs) ==
  byPos([i \in DOMAIN targets |-> [pos |-> targets[i], hash |-> hs[i]]])

(***************************************************************************)
(* The merge of two slices sorted by key; of two elements with the same    *)
(* key the one of a is kept.                                               *)
(***************************************************************************)
mergeSorted(a, b, key(_)) ==
  LET step(s) ==
        CASE s.i > Len(a) -> [s EXCEPT !.c = Append(@, b[s.j]), !.j = @ + 1]
          [] s.j > Len(b) -> [s EXCEPT !.c = Append(@, a[s.i]), !.i = @ + 1]
          [] OTHER ->
               IF key(a[s.i]) <= key(b[s.j])
               THEN [c |-> Append(s.c, a[s.i]), i |-> s.i + 1,
                     j |-> IF key(a[s.i]) = key(b[s.j]) THEN s.j + 1 ELSE s.j]
               ELSE [s EXCEPT !.c = Append(@, b[s.j]), !.j = @ + 1]
  IN  While([c |-> << >>, i |-> 1, j |-> 1],
            LAMBDA s : s.i <= Len(a) \/ s.j <= Len(b), step, Len(a) + Len(b)).c

mergeSortedHashAndPos(a, b) == mergeSorted(a, b, LAMBDA e : e.pos)

(***************************************************************************)
(* Mutant of mergeSortedSlices: what is in both slices is kept twice.      *)
(***************************************************************************)
mergeKeepingBoth(a, b) == Sorted(a \o b)

mergeSortedSlices(a, b) == mergeSorted(a, b, LAMBDA e : e)

(***************************************************************************)
(* Both slices are walked once, from the front: an element of a is kept    *)
(* when it turns out to be in b (common) or not (subtracted).  The result  *)
(* is the intersection, or the difference, only of sorted slices.          *)
(***************************************************************************)
walkSorted(a, b, key(_)) ==
  LET step(s) ==
        CASE s.j > Len(b) \/ key(a[s.i]) < b[s.j] ->
               [s EXCEPT !.rest = Append(@, a[s.i]), !.i = @ + 1]
          [] s.j <= Len(b) /\ key(a[s.i]) = b[s.j] ->
               [s EXCEPT !.common = Append(@, a[s.i]), !.i = @ + 1, !.j = @ + 1]
          [] s.j <= Len(b) /\ key(a[s.i]) > b[s.j] -> [s EXCEPT !.j = @ + 1]
  IN  While([common |-> << >>, rest |-> << >>, i |-> 1, j |-> 1],
            LAMBDA s : s.i <= Len(a), step, Len(a) + Len(b))

subtractSortedHashAndPos(a, b) == walkSorted(a, b, LAMBDA e : e.pos).rest

subtractSortedSlice(a, b) == walkSorted(a, b, LAMBDA e : e).rest

getHashAndPosSubset(a, b) == walkSorted(a, b, LAMBDA e : e.pos).common

InSlice(s, x) == \E i \in DOMAIN s : s[i] = x

(***************************************************************************)
(* The elements of a whose hash is in hs.                                  *)
(***************************************************************************)
getHashAndPosHashSubset(a, hs) == SelectSeq(a, LAMBDA e : InSlice(hs, e.hash))

=============================================================================
