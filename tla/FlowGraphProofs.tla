-------------------------- MODULE FlowGraphProofs --------------------------
(***************************************************************************)
(* Facts that the proofs about the passes share: about reachability and     *)
(* dominance, and about going through the instructions of a block.          *)
(***************************************************************************)
EXTENDS FlowGraph, FiniteSetTheorems, WellFoundedInduction, TLAPS

\* The reachable blocks are closed under branches and contain the entry.
LEMMA ReachableClosed ==
  ASSUME NEW succ, NEW e \in DOMAIN succ,
         \A x \in DOMAIN succ : succ[x] \subseteq DOMAIN succ
  PROVE  /\ e \in Reachable(succ, e)
         /\ Closed(succ, Reachable(succ, e))
         /\ Reachable(succ, e) \subseteq DOMAIN succ
BY DEF Reachable, ClosedSets, Closed

\* Dropping branches leaves no block reachable that was not.
LEMMA ReachableMonotone ==
  ASSUME NEW succ, NEW less, NEW e, DOMAIN less = DOMAIN succ,
         \A S \in ClosedSets(succ, e) : Closed(less, S)
  PROVE  Reachable(less, e) \subseteq Reachable(succ, e)
BY DEF Reachable, ClosedSets

\* Dropping branches keeps every dominance.
LEMMA DominatesMonotone ==
  ASSUME NEW succ, NEW less, NEW e, NEW d, NEW b,
         DOMAIN less = DOMAIN succ,
         \A x \in DOMAIN succ : less[x] \subseteq succ[x],
         Dominates(succ, e, d, b)
  PROVE  Dominates(less, e, d, b)
BY DEF Dominates, Separates

(***************************************************************************)
(* A block that dominates each of its predecessors cannot be reached: the   *)
(* first arrival would have to come from a block that only it leads to.     *)
(***************************************************************************)
LEMMA SelfDominatedUnreachable ==
  ASSUME NEW succ, NEW e \in DOMAIN succ, NEW b \in DOMAIN succ, b # e,
         \A x \in DOMAIN succ : succ[x] \subseteq DOMAIN succ,
         \A p \in Preds(succ, b) : Dominates(succ, e, b, p)
  PROVE  b \notin Reachable(succ, e)
<1> DEFINE T == {x \in DOMAIN succ \ {b} :
                   \A p \in Preds(succ, b) : \A S \in SUBSET DOMAIN succ :
                     Separates(succ, e, b, p, S) => x \in S}
<1>1. e \in T
  BY DEF Separates
<1>2. \A x \in T : succ[x] \subseteq T
  <2> SUFFICES ASSUME NEW x \in T, NEW y \in succ[x] PROVE y \in T
    OBVIOUS
  <2>1. y # b
    <3> SUFFICES ASSUME y = b PROVE FALSE
      OBVIOUS
    <3>1. x \in Preds(succ, b)
      BY DEF Preds
    <3>2. PICK S \in SUBSET DOMAIN succ : Separates(succ, e, b, x, S)
      BY <3>1 DEF Dominates
    <3> QED
      BY <3>1, <3>2 DEF Separates
  <2>2. \A p \in Preds(succ, b) : \A S \in SUBSET DOMAIN succ :
          Separates(succ, e, b, p, S) => y \in S
    BY DEF Separates
  <2> QED
    BY <2>1, <2>2
<1>3. T \in ClosedSets(succ, e) /\ b \notin T
  BY <1>1, <1>2 DEF ClosedSets, Closed
<1> QED
  BY <1>3 DEF Reachable

-----------------------------------------------------------------------------
(***************************************************************************)
(* Dominance as an order.  Avoiding d are the sets that hold the entry and  *)
(* what control reaches from them without passing through d; the smallest   *)
(* of them, Region, is where control gets without passing through d.        *)
(***************************************************************************)
Avoiding(succ, e, d) ==
  {S \in SUBSET DOMAIN succ : e \in S /\ \A x \in S : x = d \/ succ[x] \subseteq S}

Region(succ, e, d) ==
  {x \in DOMAIN succ : \A S \in Avoiding(succ, e, d) : x \in S}

LEMMA RegionAvoids ==
  ASSUME NEW succ, NEW e \in DOMAIN succ, NEW d,
         \A x \in DOMAIN succ : succ[x] \subseteq DOMAIN succ
  PROVE  Region(succ, e, d) \in Avoiding(succ, e, d)
BY DEF Region, Avoiding

LEMMA DominatesRegion ==
  ASSUME NEW succ, NEW e \in DOMAIN succ, NEW d, NEW b \in DOMAIN succ,
         \A x \in DOMAIN succ : succ[x] \subseteq DOMAIN succ
  PROVE  Dominates(succ, e, d, b) <=> b \notin Region(succ, e, d) \/ b = d
<1>1. ASSUME Dominates(succ, e, d, b), b # d PROVE b \notin Region(succ, e, d)
  BY <1>1 DEF Dominates, Separates, Region, Avoiding
<1>2. ASSUME b \notin Region(succ, e, d) \/ b = d PROVE Dominates(succ, e, d, b)
  <2>1. Region(succ, e, d) \in Avoiding(succ, e, d)
    BY RegionAvoids
  <2> QED
    BY <1>2, <2>1 DEF Dominates, Separates, Avoiding
<1> QED
  BY <1>1, <1>2

(***************************************************************************)
(* dom, the dominators of each block of B, orders the blocks as a tree with *)
(* the entry e at its root: those of one block form a chain.                *)
(***************************************************************************)
DomOrder(B, e, dom) ==
  /\ dom \in [B -> SUBSET B] /\ e \in B
  /\ \A b \in B : b \in dom[b] /\ e \in dom[b]
  /\ dom[e] = {e}
  /\ \A b \in B : \A d \in dom[b] : dom[d] \subseteq dom[b]
  /\ \A b \in B : \A d \in dom[b] : b \in dom[d] => b = d
  /\ \A b \in B : \A c, d \in dom[b] : c \in dom[d] \/ d \in dom[c]

(***************************************************************************)
(* Where the entry reaches every block, dominance is such an order.         *)
(***************************************************************************)
LEMMA DominatorsOrdered ==
  ASSUME NEW succ, NEW e \in DOMAIN succ,
         \A x \in DOMAIN succ : succ[x] \subseteq DOMAIN succ,
         Reachable(succ, e) = DOMAIN succ
  PROVE  DomOrder(DOMAIN succ, e, DomSets(succ, e))
<1> DEFINE B == DOMAIN succ
           A(d) == Region(succ, e, d)
           dom == DomSets(succ, e)
<1>1. /\ dom \in [B -> SUBSET B]
      /\ \A b \in B : \A d : d \in dom[b] <=> d \in B /\ (b \notin A(d) \/ b = d)
  <2>1. dom = [b \in B |-> Dominators(succ, e, b)]
    BY DEF DomSets
  <2>2. \A b \in B : \A d : d \in Dominators(succ, e, b) <=> d \in B /\ Dominates(succ, e, d, b)
    BY DEF Dominators
  <2>3. \A b \in B : \A d : Dominates(succ, e, d, b) <=> b \notin A(d) \/ b = d
    BY DominatesRegion
  <2> HIDE DEF dom, A, B
  <2>4. \A b \in B : dom[b] = Dominators(succ, e, b)
    BY <2>1
  <2>5. \A b \in B : \A d : d \in dom[b] <=> d \in B /\ (b \notin A(d) \/ b = d)
    BY <2>2, <2>3, <2>4
  <2>6. \A b \in B : Dominators(succ, e, b) \in SUBSET B
    BY <2>2
  <2> QED
    BY <2>1, <2>5, <2>6
<1>2. \A d : /\ e \in A(d) /\ A(d) \subseteq B
             /\ \A x \in A(d) : x = d \/ succ[x] \subseteq A(d)
             /\ \A S \in SUBSET B : (e \in S /\ \A x \in S : x = d \/ succ[x] \subseteq S) => A(d) \subseteq S
  <2> TAKE d
  <2>1. A(d) \in Avoiding(succ, e, d)
    BY RegionAvoids
  <2>2. \A S \in Avoiding(succ, e, d) : A(d) \subseteq S
    BY DEF Region
  <2> HIDE DEF A
  <2> QED
    BY <2>1, <2>2 DEF Avoiding
<1>3. ASSUME NEW S \in SUBSET B, e \in S, \A x \in S : succ[x] \subseteq S
      PROVE  S = B
  <2>1. S \in ClosedSets(succ, e)
    BY <1>3 DEF ClosedSets, Closed
  <2> QED
    BY <2>1 DEF Reachable
<1> HIDE DEF A, dom
<1>4. \A b \in B : b \in dom[b] /\ e \in dom[b]
  <2> SUFFICES ASSUME NEW b \in B PROVE e \in dom[b]
    BY <1>1
  <2> DEFINE S == {e}
  <2>1. S \in SUBSET B /\ e \in S /\ \A x \in S : x = e \/ succ[x] \subseteq S
    OBVIOUS
  <2>2. A(e) \subseteq S
    BY <1>2, <2>1
  <2> QED
    BY <1>1, <2>2
<1>5. dom[e] = {e}
  BY <1>1, <1>2
<1>6. ASSUME NEW b \in B, NEW c \in dom[b], NEW d \in dom[c] PROVE d \in dom[b]
  <2>1. CASE b = d \/ b = c \/ c = d
    <3>1. c \in B /\ d \in B /\ c \in dom[b] /\ d \in dom[c]
      BY <1>1, <1>6
    <3> QED
      BY <1>1, <1>6, <2>1, <3>1
  <2>2. CASE b # d /\ b # c /\ c # d
    <3>1. c \in B /\ d \in B /\ b \notin A(c) /\ c \notin A(d)
      BY <1>1, <1>6, <2>2
    <3> DEFINE S == A(c) \cap A(d)
    <3>2. S \in SUBSET B /\ e \in S /\ \A x \in S : x = d \/ succ[x] \subseteq S
      BY <1>2, <3>1
    <3>3. A(d) \subseteq S
      BY <1>2, <3>2
    <3> QED
      BY <1>1, <3>1, <3>3
  <2> QED
    BY <2>1, <2>2
<1>7. ASSUME NEW b \in B, NEW d \in dom[b], b \in dom[d], b # d PROVE FALSE
  <2>1. d \in B /\ b \notin A(d) /\ d \notin A(b)
    BY <1>1, <1>7
  <2> DEFINE S == A(b) \cap A(d)
  <2>2. S \in SUBSET B /\ e \in S /\ \A x \in S : succ[x] \subseteq S
    BY <1>2, <2>1
  <2>3. S = B
    BY <1>3, <2>2
  <2> QED
    BY <2>1, <2>3
<1>8. ASSUME NEW b \in B, NEW c \in dom[b], NEW d \in dom[b], c \notin dom[d], d \notin dom[c]
      PROVE  FALSE
  <2>1. c \in B /\ d \in B /\ c # d /\ c \in A(d) /\ d \in A(c) /\ b # c /\ b # d
    BY <1>1, <1>8
  <2>2. b \notin A(c) /\ b \notin A(d)
    BY <1>1, <1>8, <2>1
  <2> DEFINE S == A(c) \cup A(d)
  <2>3. S \in SUBSET B /\ e \in S /\ \A x \in S : succ[x] \subseteq S
    BY <1>2, <2>1
  <2>4. S = B
    BY <1>3, <2>3
  <2> QED
    BY <2>2, <2>4
<1>9. DomOrder(B, e, dom)
  <2> HIDE DEF B
  <2>1. e \in B
    BY DEF B
  <2> QED
    BY <1>1, <1>4, <1>5, <1>6, <1>7, <1>8, <2>1 DEF DomOrder
<1> QED
  BY <1>9 DEF dom

-----------------------------------------------------------------------------
(***************************************************************************)
(* The depth of a block in that tree, and its parent.                       *)
(***************************************************************************)
Depth(dom, b) == Cardinality(dom[b] \ {b})

LEMMA LeastExists ==
  ASSUME NEW S, S \subseteq Nat, S # {}
  PROVE  \E x \in S : \A y \in S : x <= y
<1> DEFINE R == OpToRel(<, Nat)
<1>1. IsWellFoundedOn(R, Nat)
  BY NatLessThanWellFounded
<1> HIDE DEF R
<1>2. \E x \in S : \A y \in S : ~(<<y, x>> \in R)
  BY <1>1, WFMin
<1>3. \A x, y \in Nat : y < x => <<y, x>> \in R
  BY DEF R, OpToRel
<1>4. PICK x \in S : \A y \in S : ~(<<y, x>> \in R)
  BY <1>2
<1>5. \A y \in S : ~(y < x)
  BY <1>3, <1>4
<1>6. \A y \in S : x <= y
  BY <1>5
<1> QED
  BY <1>6

\* The element of a set that a numbering puts first.
LEMMA LeastBy ==
  ASSUME NEW S, S # {}, NEW f, \A x \in S : f[x] \in Nat
  PROVE  \E x \in S : \A y \in S : f[x] <= f[y]
<1> DEFINE V == {f[x] : x \in S}
<1>1. V \subseteq Nat /\ V # {}
  OBVIOUS
<1>2. PICK v \in V : \A w \in V : v <= w
  BY <1>1, LeastExists
<1> QED
  BY <1>2

LEMMA DepthLess ==
  ASSUME NEW B, IsFiniteSet(B), NEW e, NEW dom, DomOrder(B, e, dom), NEW b \in B
  PROVE  /\ Depth(dom, b) \in Nat
         /\ \A d \in dom[b] \ {b} : d \in B /\ Depth(dom, d) \in Nat /\ Depth(dom, d) < Depth(dom, b)
<1>1. ASSUME NEW x \in B PROVE IsFiniteSet(dom[x] \ {x})
  <2>1. dom[x] \ {x} \in SUBSET B
    BY DEF DomOrder
  <2> QED
    BY <2>1, FS_Subset
<1>2. \A x \in B : Depth(dom, x) \in Nat
  BY <1>1, FS_CardinalityType DEF Depth
<1>3. ASSUME NEW d \in dom[b] \ {b} PROVE d \in B /\ Depth(dom, d) < Depth(dom, b)
  <2>1. d \in B /\ dom[d] \subseteq dom[b] /\ b \notin dom[d] /\ d \in dom[d]
    BY DEF DomOrder
  <2>2. dom[d] \ {d} \subseteq dom[b] \ {b} /\ dom[d] \ {d} # dom[b] \ {b}
    BY <2>1
  <2>3. Cardinality(dom[d] \ {d}) <= Cardinality(dom[b] \ {b})
        /\ (Cardinality(dom[d] \ {d}) = Cardinality(dom[b] \ {b}) => dom[d] \ {d} = dom[b] \ {b})
    BY <1>1, <2>2, FS_Subset
  <2> QED
    BY <1>2, <2>1, <2>2, <2>3 DEF Depth
<1> QED
  BY <1>2, <1>3

(***************************************************************************)
(* Every block but the entry has one closest strict dominator, whose        *)
(* dominators are the block's strict dominators.                            *)
(***************************************************************************)
LEMMA ImmDomExists ==
  ASSUME NEW B, IsFiniteSet(B), NEW e, NEW dom, DomOrder(B, e, dom), NEW b \in B, b # e
  PROVE  \E d \in B : IsImmDom(dom, d, b)
<1> DEFINE S == dom[b] \ {b}
           far == [x \in S |-> Depth(dom, b) - Depth(dom, x)]
<1>1. S # {} /\ S \subseteq B
  BY DEF DomOrder
<1>2. Depth(dom, b) \in Nat /\ \A x \in S : Depth(dom, x) \in Nat /\ Depth(dom, x) < Depth(dom, b)
  BY DepthLess
<1>3. \A x \in S : far[x] = Depth(dom, b) - Depth(dom, x) /\ far[x] \in Nat
  BY <1>2
<1> HIDE DEF far
<1>4. PICK d \in S : \A y \in S : far[d] <= far[y]
  BY <1>1, <1>3, LeastBy
<1>5. ASSUME NEW c \in S PROVE c \in dom[d]
  <2>1. c \in dom[d] \/ d \in dom[c]
    BY DEF DomOrder
  <2>2. CASE d \in dom[c] /\ d # c
    <3>1. Depth(dom, d) < Depth(dom, c)
      BY <1>1, <2>2, DepthLess
    <3>2. Depth(dom, c) <= Depth(dom, d)
      BY <1>2, <1>3, <1>4
    <3> QED
      BY <1>2, <3>1, <3>2
  <2>3. CASE c = d
    BY <1>1, <2>3 DEF DomOrder
  <2> QED
    BY <2>1, <2>2, <2>3
<1> QED
  BY <1>1, <1>4, <1>5 DEF IsImmDom

LEMMA ImmDomFacts ==
  ASSUME NEW B, IsFiniteSet(B), NEW e, NEW dom, DomOrder(B, e, dom), NEW b \in B,
         NEW d, IsImmDom(dom, d, b)
  PROVE  /\ d \in B /\ b # e /\ d # b /\ dom[b] \ {b} = dom[d]
         /\ Depth(dom, b) = Depth(dom, d) + 1
         /\ \A c : IsImmDom(dom, c, b) => c = d
<1>1. d \in B /\ b # e /\ d # b /\ d \in dom[b]
  BY DEF IsImmDom, DomOrder
<1>2. dom[b] \ {b} = dom[d]
  BY <1>1 DEF IsImmDom, DomOrder
<1>3. dom[d] = (dom[d] \ {d}) \cup {d} /\ dom[d] \in SUBSET B
  BY <1>1 DEF DomOrder
<1>4. IsFiniteSet(dom[d] \ {d})
  BY <1>3, FS_Subset
<1>5. Cardinality(dom[d]) = Cardinality(dom[d] \ {d}) + 1
  BY <1>3, <1>4, FS_AddElement
<1>6. ASSUME NEW c, IsImmDom(dom, c, b) PROVE c = d
  <2>1. c \in dom[b] \ {b} /\ d \in dom[b] \ {b} /\ c \in dom[d] /\ d \in dom[c] /\ c \in B
    BY <1>1, <1>6 DEF IsImmDom, DomOrder
  <2> QED
    BY <1>1, <2>1 DEF DomOrder
<1> QED
  BY <1>1, <1>2, <1>5, <1>6 DEF Depth

(***************************************************************************)
(* Between a block and a dominator that is not its closest there is a       *)
(* dominator whose closest that is: the chain has no gap.                   *)
(***************************************************************************)
LEMMA NoGap ==
  ASSUME NEW B, IsFiniteSet(B), NEW e, NEW dom, DomOrder(B, e, dom), NEW b \in B,
         NEW d \in dom[b] \ {b}, ~IsImmDom(dom, d, b)
  PROVE  \E c \in dom[b] \ {b} : IsImmDom(dom, d, c)
<1> DEFINE S == {c \in dom[b] \ {b} : d \in dom[c] /\ d # c}
           far == [c \in S |-> Depth(dom, c)]
<1>1. d \in B /\ S \subseteq B
  BY DEF DomOrder
<1>2. PICK i \in dom[b] \ {b} : i \notin dom[d]
  BY DEF IsImmDom
<1>3. i \in S
  BY <1>1, <1>2 DEF DomOrder
<1>4. \A c \in S : far[c] = Depth(dom, c) /\ far[c] \in Nat
  BY <1>1, DepthLess
<1> HIDE DEF far
<1>5. PICK c \in S : \A x \in S : far[c] <= far[x]
  BY <1>3, <1>4, LeastBy
<1>6. ASSUME NEW x \in dom[c] \ {c} PROVE x \in dom[d]
  <2>1. x \in B /\ x \in dom[b] /\ x # b
    BY <1>1, <1>5, <1>6 DEF DomOrder
  <2>2. x \in dom[d] \/ d \in dom[x]
    BY <1>5, <1>6, <1>1 DEF DomOrder
  <2>3. CASE d \in dom[x] /\ x # d
    <3>1. x \in S
      BY <2>1, <2>3
    <3>2. Depth(dom, x) < Depth(dom, c) /\ Depth(dom, c) \in Nat /\ Depth(dom, x) \in Nat
      BY <1>1, <1>5, <1>6, DepthLess
    <3> QED
      BY <1>4, <1>5, <3>1, <3>2
  <2>4. CASE x = d
    BY <1>1, <2>4 DEF DomOrder
  <2> QED
    BY <2>2, <2>3, <2>4
<1> QED
  BY <1>5, <1>6 DEF IsImmDom
-----------------------------------------------------------------------------
(* Going through a block, from its first instruction to its last. *)

LEMMA UpTo ==
  ASSUME NEW n \in Nat, NEW S, 1 \in S, \A i \in 1..n : i \in S => i + 1 \in S
  PROVE  \A i \in 1..(n + 1) : i \in S
<1> DEFINE T == {i \in 1..(n + 1) : i \notin S}
<1>1. T \subseteq Nat
  OBVIOUS
<1>2. ASSUME T # {} PROVE FALSE
  <2>1. PICK t \in T : \A u \in T : t <= u
    BY <1>1, <1>2, LeastExists
  <2>2. t \in 1..(n + 1) /\ t # 1
    BY <2>1
  <2>3. t - 1 \in 1..n /\ t - 1 \in 1..(n + 1) /\ t - 1 < t
    BY <2>2
  <2>4. t - 1 \in S
    BY <2>1, <2>3
  <2>5. (t - 1) + 1 \in S
    BY <2>3, <2>4
  <2>6. (t - 1) + 1 = t
    BY <2>2
  <2> QED
    BY <2>1, <2>5, <2>6
<1> QED
  BY <1>2

Computes(m, n, M, first, step) ==
  /\ m \in [1..(n + 1) -> M] /\ m[1] = first
  /\ \A i \in 1..n : m[i + 1] = step[<<i, m[i]>>]

\* What is computed instruction after instruction is defined after each.
LEMMA StepByStep ==
  ASSUME NEW n \in Nat, NEW M, NEW first \in M, NEW step \in [(1..n) \X M -> M]
  PROVE  \E m : Computes(m, n, M, first, step)
<1> DEFINE Run(k, m) == /\ m \in [1..k -> M] /\ m[1] = first
                        /\ \A i \in 1..(k - 1) : m[i + 1] = step[<<i, m[i]>>]
           S == {k \in 1..(n + 1) : \E m : Run(k, m)}
<1>1. 1 \in S
  <2> DEFINE g == [i \in 1..1 |-> first]
  <2>1. Run(1, g)
    OBVIOUS
  <2> HIDE DEF g, Run
  <2>2. 1 \in 1..(n + 1)
    OBVIOUS
  <2> QED
    BY <2>1, <2>2
<1>2. ASSUME NEW k \in 1..n, k \in S PROVE k + 1 \in S
  <2>1. PICK m : Run(k, m)
    BY <1>2
  <2> DEFINE g == [i \in 1..(k + 1) |-> IF i = k + 1 THEN step[<<k, m[k]>>] ELSE m[i]]
  <2>2. m \in [1..k -> M] /\ m[1] = first /\ \A i \in 1..(k - 1) : m[i + 1] = step[<<i, m[i]>>]
    BY <2>1
  <2>3. \A i \in 1..k : i \in 1..(k + 1) /\ i # k + 1 /\ g[i] = m[i]
    OBVIOUS
  <2>4. m[k] \in M /\ step[<<k, m[k]>>] \in M
    BY <2>2
  <2>5. g \in [1..(k + 1) -> M]
    BY <2>2, <2>4
  <2>6. g[1] = first
    BY <2>2, <2>3
  <2>7. ASSUME NEW i \in 1..((k + 1) - 1) PROVE g[i + 1] = step[<<i, g[i]>>]
    <3>1. CASE i = k
      <4>1. g[k + 1] = step[<<k, m[k]>>] /\ g[k] = m[k]
        BY <2>3
      <4> QED
        BY <3>1, <4>1
    <3>2. CASE i # k
      <4>1. i \in 1..(k - 1) /\ i \in 1..k /\ i + 1 \in 1..k
        BY <3>2
      <4>2. g[i] = m[i] /\ g[i + 1] = m[i + 1]
        BY <2>3, <4>1
      <4> QED
        BY <2>2, <4>1, <4>2
    <3> QED
      BY <3>1, <3>2
  <2> HIDE DEF g
  <2>8. Run(k + 1, g)
    BY <2>5, <2>6, <2>7
  <2>9. k + 1 \in 1..(n + 1)
    OBVIOUS
  <2> QED
    BY <2>8, <2>9
<1> HIDE DEF S
<1>3. \A i \in 1..(n + 1) : i \in S
  BY <1>1, <1>2, UpTo
<1>4. n + 1 \in S
  BY <1>3
<1>5. PICK m : Run(n + 1, m)
  BY <1>4 DEF S
<1>6. (n + 1) - 1 = n
  OBVIOUS
<1> QED
  BY <1>5, <1>6 DEF Computes
=============================================================================
