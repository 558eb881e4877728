----------------------------- MODULE FlowGraph -----------------------------
(***************************************************************************)
(* Reference definitions on the control-flow graph of an ir::Function.     *)
(* A graph is a function succ from blocks to the set of blocks their        *)
(* terminator can branch to.  Reachability and dominance are defined by     *)
(* closed sets of blocks instead of paths: no recursion is needed, TLC      *)
(* evaluates them on small graphs and TLAPS reasons about them by giving or *)
(* taking a witness set.                                                    *)
(***************************************************************************)

Preds(succ, b) == {p \in DOMAIN succ : b \in succ[p]}

\* S contains everything that control can reach from S.
Closed(succ, S) == \A x \in S : succ[x] \subseteq S

\* Control can reach b from e: every closed set that has e has b.
ClosedSets(succ, e) == {S \in SUBSET DOMAIN succ : e \in S /\ Closed(succ, S)}

Reachable(succ, e) ==
  LET closed == ClosedSets(succ, e)
  IN  {b \in DOMAIN succ : \A S \in closed : b \in S}

\* S has the entry e and everything control can reach without leaving d, and
\* it misses b (or b is d itself): every path from e to b visits d.
Separates(succ, e, d, b, S) ==
  /\ e \in S
  /\ \A x \in S : x = d \/ succ[x] \subseteq S
  /\ b \notin S \/ b = d

Dominates(succ, e, d, b) ==
  \E S \in SUBSET DOMAIN succ : Separates(succ, e, d, b, S)

Dominators(succ, e, b) == {d \in DOMAIN succ : Dominates(succ, e, d, b)}

DomSets(succ, e) == [b \in DOMAIN succ |-> Dominators(succ, e, b)]

\* d is the closest strict dominator of b: the others all dominate it.
\* dom is DomSets.
IsImmDom(dom, d, b) ==
  /\ d \in dom[b] \ {b}
  /\ dom[b] \ {b} \subseteq dom[d]

\* Where the dominance of x ends: x dominates a predecessor of the block and
\* does not strictly dominate the block itself.
Frontier(succ, dom, x) ==
  {y \in DOMAIN succ : /\ \E p \in Preds(succ, y) : x \in dom[p]
                       /\ x \notin dom[y] \ {y}}
=============================================================================
