------------------------------ MODULE PolNode ------------------------------
(***************************************************************************)
(* The nodes of a Pollard (polnode.go).                                    *)
(*                                                                         *)
(* A node points to its nieces, the children of its sibling, and to its    *)
(* aunt, the node that points to it.  A root has no sibling and points to  *)
(* its children.  The nodes in memory are a heap h: a function from        *)
(* addresses to nodes.  An operation that changes nodes through pointers   *)
(* is an operator from the heap before it to the heap after it.            *)
(*                                                                         *)
(* nil is no address.  A function of the code that returns an error        *)
(* instead of a node returns bad.                                          *)
(***************************************************************************)
EXTENDS HashAndPos

nil == 0

bad == -1

polNode(data, remember) ==
  [lNiece |-> nil, rNiece |-> nil, aunt |-> nil, data |-> data, remember |-> remember]

(***************************************************************************)
(* A new node goes to the first free address.                              *)
(***************************************************************************)
fresh(h) == Min(1..(Cardinality(DOMAIN h) + 1) \ DOMAIN h)

new(h, node) == h @@ (fresh(h) :> node)

----------------------------------------------------------------------------
(***************************************************************************)
(* The family of a node.  An aunt that does not point back is an error.    *)
(***************************************************************************)
getSibling(h, n) ==
  LET among(aunt) == CASE aunt = nil -> nil
                       [] aunt # nil /\ h[aunt].lNiece = n -> h[aunt].rNiece
                       [] aunt # nil /\ h[aunt].lNiece # n /\ h[aunt].rNiece = n -> h[aunt].lNiece
                       [] OTHER -> bad
  IN  among(h[n].aunt)

getParent(h, n) ==
  LET under(aunt) == IF aunt = nil \/ h[aunt].aunt = nil THEN aunt ELSE getSibling(h, aunt)
  IN  under(h[n].aunt)

(***************************************************************************)
(* The children, left first; << >> stands for the error.                   *)
(***************************************************************************)
getChildren(h, n) ==
  LET niecesOf(m) == IF m \in {nil, bad} THEN << >> ELSE <<h[m].lNiece, h[m].rNiece>>
  IN  niecesOf(IF h[n].aunt = nil THEN n ELSE getSibling(h, n))

deadEnd(h, n) == h[n].lNiece = nil /\ h[n].rNiece = nil

----------------------------------------------------------------------------
(***************************************************************************)
(* Mutant of updateAunt: the left niece is enough.                         *)
(***************************************************************************)
updateLeftAunt(h, n) ==
  IF h[n].lNiece = nil THEN h ELSE [h EXCEPT ![h[n].lNiece].aunt = n]

(***************************************************************************)
(* Make the nieces of n point to it, and their nieces to them, down to the *)
(* first niece that is right already.  When the left niece is right the    *)
(* right one is not looked at.                                             *)
(***************************************************************************)
RECURSIVE updateAunt(_, _)
updateAunt(h, n) ==
  LET visit(g, niece) == updateAunt([g EXCEPT ![niece].aunt = n], niece)
      right(g, niece) == IF niece = nil \/ g[niece].aunt = n THEN g ELSE visit(g, niece)
      left(niece) == CASE niece = nil -> right(h, h[n].rNiece)
                       [] niece # nil /\ h[niece].aunt = n -> h
                       [] OTHER -> right(visit(h, niece), h[n].rNiece)
  IN  left(h[n].lNiece)

orphaned(h, n) == IF n = nil THEN h ELSE [h EXCEPT ![n].aunt = nil]

(***************************************************************************)
(* Cut a node off: its aunt and its nieces stop pointing to it, and it to  *)
(* them.  An aunt that no longer points to the node is left alone.         *)
(***************************************************************************)
delNode(h, n) ==
  LET unhooked(g, aunt) ==
        CASE aunt # nil /\ g[aunt].rNiece = n -> [g EXCEPT ![aunt].rNiece = nil]
          [] aunt # nil /\ g[aunt].rNiece # n /\ g[aunt].lNiece = n ->
               [g EXCEPT ![aunt].lNiece = nil]
          [] OTHER -> g
      alone(g) == [g EXCEPT ![n].aunt = nil, ![n].lNiece = nil, ![n].rNiece = nil]
  IN  IF n = nil THEN h
      ELSE alone(orphaned(orphaned(unhooked(h, h[n].aunt), h[n].lNiece), h[n].rNiece))

chop(h, n) ==
  [delNode(delNode(h, h[n].lNiece), h[n].rNiece) EXCEPT ![n].lNiece = nil, ![n].rNiece = nil]

(***************************************************************************)
(* Mutants of prune: remember is ignored; nothing is forgotten.            *)
(***************************************************************************)
pruneDeadEnds(h, n) ==
  LET left(g)  == IF deadEnd(g, g[n].lNiece) THEN delNode(g, g[n].lNiece) ELSE g
      right(g) == IF deadEnd(g, g[n].rNiece) THEN delNode(g, g[n].rNiece) ELSE g
  IN  right(left(h))

pruneNothing(h, n) == h

(***************************************************************************)
(* Forget the nieces that lead nowhere, unless one is to be remembered.    *)
(* Both nieces are there when it is called.                                *)
(***************************************************************************)
prune(h, n) ==
  LET remember == h[h[n].lNiece].remember \/ h[h[n].rNiece].remember
      left(g)  == IF deadEnd(g, g[n].lNiece)
                  THEN [delNode(g, g[n].lNiece) EXCEPT ![n].lNiece = nil] ELSE g
      right(g) == IF deadEnd(g, g[n].rNiece)
                  THEN [delNode(g, g[n].rNiece) EXCEPT ![n].rNiece = nil] ELSE g
  IN  IF remember THEN h ELSE right(left(h))

swapNieces(h, a, b) ==
  updateAunt(updateAunt([h EXCEPT ![a].lNiece = h[b].lNiece, ![a].rNiece = h[b].rNiece,
                                  ![b].lNiece = h[a].lNiece, ![b].rNiece = h[a].rNiece],
                        a), b)

(***************************************************************************)
(* The nieces, or the aunt, of b become those of a.                        *)
(***************************************************************************)
transferNiece(h, a, b) ==
  updateAunt([h EXCEPT ![a].lNiece = h[b].lNiece, ![a].rNiece = h[b].rNiece,
                       ![b].lNiece = nil, ![b].rNiece = nil],
             a)

transferAunt(h, a, b) ==
  LET repoint(g, n, to) ==
        [g EXCEPT ![g[n].aunt] = IF @.lNiece = n THEN [@ EXCEPT !.lNiece = to]
                                                 ELSE [@ EXCEPT !.rNiece = to]]
      knows(g, n) == g[n].aunt # nil => n \in {g[g[n].aunt].lNiece, g[g[n].aunt].rNiece}
      adopt(g) == IF g[a].aunt = nil THEN g ELSE updateAunt(g, g[a].aunt)
      give(g) == IF ~knows(g, b) THEN g
                 ELSE adopt([(IF g[b].aunt = nil THEN g ELSE repoint(g, b, a))
                               EXCEPT ![a].aunt = g[b].aunt])
  IN  IF ~knows(h, a) THEN h
      ELSE give(IF h[a].aunt = nil THEN h ELSE repoint(h, a, nil))

(***************************************************************************)
(* Rehash a node and all of its ancestors.  ok is FALSE for an error.      *)
(***************************************************************************)
calculateParentHash(h, nodePos, node, sib) ==
  IF isLeftNiece(nodePos) THEN parentHash(h[node].data, h[sib].data)
                          ELSE parentHash(h[sib].data, h[node].data)

RECURSIVE hashToRoot(_, _)
hashToRoot(h, n) ==
  LET hashed(children) ==
        IF children = << >> THEN [h |-> h, ok |-> FALSE]
        ELSE hashToRoot([h EXCEPT ![n].data = parentHash(h[children[1]].data,
                                                         h[children[2]].data)],
                        getParent(h, n))
  IN  CASE n = nil -> [h |-> h, ok |-> TRUE]
        [] n = bad -> [h |-> h, ok |-> FALSE]
        [] OTHER   -> hashed(getChildren(h, n))

(***************************************************************************)
(* Twins among the nodes that are put back get their parent back first.    *)
(* nodes is a sequence of nodes with their positions, sorted.              *)
(***************************************************************************)
insertSortNodeAndPos(nodes, el) ==
  SelectSeq(nodes, LAMBDA e : e.pos <= el.pos) \o <<el>>
    \o SelectSeq(nodes, LAMBDA e : e.pos > el.pos)

deTwinPolNode(h, polNodes, forestRows) ==
  LET joined(g, l, r) == new(g, [polNode(parentHash(g[l].data, g[r].data), FALSE)
                                   EXCEPT !.lNiece = l, !.rNiece = r])
      twins(s) == s.i < Len(s.nodes) /\ rightSib(s.nodes[s.i].pos) = s.nodes[s.i + 1].pos
      join(s, g, n) ==
        [h     |-> updateAunt(joined(g, s.nodes[s.i].node, s.nodes[s.i + 1].node), n),
         i     |-> s.i,
         nodes |-> insertSortNodeAndPos(
                     SubSeq(s.nodes, 1, s.i - 1) \o SubSeq(s.nodes, s.i + 2, Len(s.nodes)),
                     [node |-> n, pos |-> parent(s.nodes[s.i].pos, forestRows)])]
      step(s) ==
        IF twins(s)
        THEN join(s, swapNieces(s.h, s.nodes[s.i].node, s.nodes[s.i + 1].node), fresh(s.h))
        ELSE [s EXCEPT !.i = @ + 1]
  IN  While([h |-> h, nodes |-> polNodes, i |-> 1], LAMBDA s : s.i <= Len(s.nodes), step,
            2 * Len(polNodes))

RECURSIVE getCount(_, _)
getCount(h, n) ==
  IF n = nil THEN 0 ELSE getCount(h, h[n].lNiece) + 1 + getCount(h, h[n].rNiece)

=============================================================================
