--------------------------- MODULE DomTreeProofs ---------------------------
(***************************************************************************)
(* DomTree::analyzeDom computes the dominators, for every function.  Two    *)
(* bounds meet: a sweep never loses a dominator (DomNeverLost), and once a  *)
(* sweep changes nothing the sets solve the data-flow equations, and a      *)
(* solution holds dominators only.  Where the entry reaches every block     *)
(* they form a tree, and the stripping of analyzeImmDom, the runners of     *)
(* analyzeDomFrontier and analyzeDomTree compute what they should of it.    *)
(***************************************************************************)
EXTENDS DomTree, FlowGraphProofs

Swept == pc \in {"immDom", "frontier", "done"}

DomInv ==
  /\ succ \in Graphs
  /\ pc \in {"pred", "dom", "immDom", "frontier", "done"}
  /\ cur \in 1..(N + 1) /\ changed \in BOOLEAN
  /\ pc = "pred" => cur = 1
  /\ pc # "pred" =>
       /\ predMap = [b \in Block |-> Preds(succ, b)]
       /\ domMap \in [Block -> SUBSET Block]
       /\ \A b \in Block : InterSet(b) \subseteq domMap[b]
       /\ \A b \in Block : Dominators(succ, Entry, b) \subseteq domMap[b]
  /\ pc = "dom" /\ ~changed => \A b \in Block : b < cur => domMap[b] = InterSet(b)
  /\ Swept => \A b \in Block : domMap[b] = InterSet(b)

LEMMA EntryInBlock == Entry \in Block
BY NAssumption DEF Entry, Block

LEMMA GraphFacts ==
  ASSUME NEW g \in Graphs
  PROVE  /\ g \in [Block -> SUBSET Block] /\ DOMAIN g = Block
         /\ Preds(g, Entry) = {}
         /\ \A b \in Block \ {Entry} : Preds(g, b) # {}
         /\ \A b \in Block : Preds(g, b) \subseteq Block
BY GraphsAssumption DEF Preds

(***************************************************************************)
(* One sweep step cannot strike out a dominator: it dominates each          *)
(* predecessor as well.                                                     *)
(***************************************************************************)
LEMMA InterSetKeeps ==
  ASSUME DomInv, pc = "dom", NEW b \in Block
  PROVE  Dominators(succ, Entry, b) \subseteq InterSet(b)
<1> SUFFICES ASSUME NEW d \in Dominators(succ, Entry, b), d # b
             PROVE  d \in InterSet(b)
  BY DEF InterSet
<1>1. succ \in Graphs /\ predMap[b] = Preds(succ, b)
  BY DEF DomInv
<1>2. d \in Block /\ Dominates(succ, Entry, d, b)
  BY <1>1, GraphFacts DEF Dominators
<1>3. PICK S \in SUBSET Block : Separates(succ, Entry, d, b, S)
  BY <1>1, <1>2, GraphFacts DEF Dominates
<1>4. b \notin S /\ b # Entry
  BY <1>3 DEF Separates
<1>5. ASSUME NEW p \in Preds(succ, b) PROVE d \in domMap[p]
  <2>1. p \in Block /\ b \in succ[p]
    BY <1>1, GraphFacts DEF Preds
  <2>2. p \notin S \/ p = d
    BY <1>3, <1>4, <2>1 DEF Separates
  <2>3. Separates(succ, Entry, d, p, S)
    BY <1>3, <2>2 DEF Separates
  <2>4. d \in Dominators(succ, Entry, p)
    BY <1>1, <1>2, <2>3, GraphFacts DEF Dominators, Dominates
  <2> QED
    BY <2>1, <2>4 DEF DomInv
<1>6. Preds(succ, b) # {}
  BY <1>1, <1>4, GraphFacts
<1> QED
  BY <1>1, <1>2, <1>5, <1>6 DEF InterSet

(***************************************************************************)
(* A solution of the equations holds dominators only: the blocks that do    *)
(* not list d are closed except through d.                                  *)
(***************************************************************************)
LEMMA SolutionIsSound ==
  ASSUME DomInv, pc # "pred", \A x \in Block : domMap[x] = InterSet(x), NEW b \in Block
  PROVE  domMap[b] \subseteq Dominators(succ, Entry, b)
<1> SUFFICES ASSUME NEW d \in domMap[b] PROVE d \in Dominators(succ, Entry, b)
  OBVIOUS
<1>1. /\ succ \in Graphs
      /\ \A x \in Block : predMap[x] = Preds(succ, x)
      /\ \A x \in Block : domMap[x] = InterSet(x)
      /\ domMap \in [Block -> SUBSET Block]
  BY DEF DomInv
<1>2. d \in Block
  BY <1>1
<1> DEFINE S == {x \in Block : x = d \/ d \notin domMap[x]}
<1>3. Entry \in S
  BY <1>1, EntryInBlock, GraphFacts DEF InterSet
<1>4. ASSUME NEW x \in S, x # d, NEW y \in succ[x] PROVE y \in S
  <2>1. y \in Block /\ x \in Preds(succ, y)
    BY <1>1, <1>4, GraphFacts DEF Preds
  <2>2. d \notin domMap[x]
    BY <1>4
  <2> QED
    BY <1>1, <2>1, <2>2 DEF InterSet
<1>5. Separates(succ, Entry, d, b, S)
  BY <1>3, <1>4 DEF Separates
<1> QED
  BY <1>1, <1>2, <1>5, GraphFacts DEF Dominators, Dominates

LEMMA DomInit == Init => DomInv
<1> SUFFICES ASSUME Init PROVE DomInv
  OBVIOUS
<1>1. 1 \in 1..(N + 1)
  BY NAssumption
<1>2. succ \in Graphs /\ pc = "pred" /\ cur = 1 /\ changed = FALSE
  BY DEF Init
<1> QED
  BY <1>1, <1>2 DEF DomInv, Swept

\* Shrinking one set shrinks every intersection it takes part in.
LEMMA InterSetMonotone ==
  ASSUME \A p \in Block : domMap'[p] \subseteq domMap[p], predMap' = predMap,
         \A b \in Block : predMap[b] \subseteq Block,
         NEW b \in Block
  PROVE  InterSet(b)' \subseteq InterSet(b)
BY DEF InterSet

LEMMA DomSweepStep ==
  ASSUME DomInv, AnalyzeDomBlock
  PROVE  DomInv'
<1> USE DEF AnalyzeDomBlock
<1>1. /\ cur \in Block /\ cur' = cur + 1 /\ pc = "dom" /\ pc' = "dom"
      /\ succ' = succ /\ predMap' = predMap
  BY NAssumption DEF DomInv, Block
<1>2. /\ predMap = [b \in Block |-> Preds(succ, b)]
      /\ domMap \in [Block -> SUBSET Block] /\ succ \in Graphs
      /\ \A b \in Block : InterSet(b) \subseteq domMap[b]
      /\ \A b \in Block : Dominators(succ, Entry, b) \subseteq domMap[b]
  BY <1>1 DEF DomInv
<1>3. InterSet(cur) \subseteq Block
  BY <1>1 DEF InterSet
<1>4. /\ domMap' \in [Block -> SUBSET Block]
      /\ domMap'[cur] = InterSet(cur)
      /\ \A b \in Block \ {cur} : domMap'[b] = domMap[b]
  BY <1>1, <1>2, <1>3
<1>5. \A b \in Block : domMap'[b] \subseteq domMap[b]
  BY <1>1, <1>2, <1>4
<1>6. \A b \in Block : InterSet(b)' \subseteq InterSet(b)
  <2>1. \A b \in Block : predMap[b] \subseteq Block
    BY <1>2, GraphFacts
  <2> QED
    BY <1>1, <1>5, <2>1, InterSetMonotone
<1>7. \A b \in Block : InterSet(b)' \subseteq domMap'[b]
  BY <1>1, <1>2, <1>4, <1>6
<1>8. \A b \in Block : Dominators(succ, Entry, b) \subseteq domMap'[b]
  BY <1>1, <1>2, <1>4, InterSetKeeps
<1>9. ~changed' => \A b \in Block : b < cur' => domMap'[b] = InterSet(b)'
  <2> SUFFICES ASSUME ~changed', NEW b \in Block, b < cur'
               PROVE  domMap'[b] = InterSet(b)'
    OBVIOUS
  <2>1. ~changed /\ InterSet(cur) = domMap[cur]
    BY DEF DomInv
  <2>2. domMap' = domMap
    BY <1>1, <1>2, <2>1
  <2>3. InterSet(b)' = InterSet(b)
    BY <1>1, <2>2 DEF InterSet
  <2>4. b < cur \/ b = cur
    BY <1>1 DEF Block, DomInv
  <2> QED
    BY <1>1, <2>1, <2>2, <2>3, <2>4 DEF DomInv
<1>10. cur' \in 1..(N + 1) /\ changed' \in BOOLEAN
  BY <1>1, NAssumption DEF Block, DomInv
<1> QED
  BY <1>1, <1>2, <1>4, <1>7, <1>8, <1>9, <1>10 DEF DomInv, Swept

\* After the last sweep the sets solve the equations.
Settled == Swept \/ (pc = "dom" /\ cur > N /\ ~changed)

LEMMA SettledSets ==
  ASSUME DomInv, Settled
  PROVE  pc # "pred" /\ \A b \in Block : domMap[b] = InterSet(b)
<1>1. CASE Swept
  BY <1>1 DEF DomInv, Swept
<1>2. CASE pc = "dom" /\ cur > N /\ ~changed
  <2>1. \A b \in Block : b < cur
    BY <1>2, NAssumption DEF Block, DomInv
  <2> QED
    BY <1>2, <2>1 DEF DomInv
<1> QED
  BY <1>1, <1>2 DEF Settled

\* The first sweep starts with every set full.
LEMMA DomPredStep ==
  ASSUME DomInv, AnalyzePred
  PROVE  DomInv'
<1>1. /\ pc' = "dom" /\ succ' = succ /\ cur' = cur /\ changed' = changed
      /\ predMap' = [b \in Block |-> Preds(succ, b)]
      /\ domMap' = [b \in Block |-> Block]
      /\ succ \in Graphs /\ cur = 1 /\ changed \in BOOLEAN
  BY DEF AnalyzePred, DomInv
<1>2. predMap' = [b \in Block |-> Preds(succ', b)]
  BY <1>1
<1>3. domMap' \in [Block -> SUBSET Block] /\ \A b \in Block : domMap'[b] = Block
  BY <1>1
<1>4. \A b \in Block : InterSet(b)' \subseteq domMap'[b]
  BY <1>3 DEF InterSet
<1>5. \A b \in Block : Dominators(succ', Entry, b) \subseteq domMap'[b]
  BY <1>1, <1>3, GraphFacts DEF Dominators
<1>6. \A b \in Block : ~(b < cur')
  BY <1>1 DEF Block
<1> QED
  BY <1>1, <1>2, <1>3, <1>4, <1>5, <1>6, NAssumption DEF DomInv, Swept

\* The steps that leave the graph and the dominator sets alone.
LEMMA DomKept ==
  ASSUME DomInv, pc # "pred",
         UNCHANGED <<succ, predMap, domMap>>,
         \/ UNCHANGED <<pc, cur, changed>>
         \/ pc' = "dom" /\ cur' = 1 /\ changed' = FALSE
         \/ pc' \in {"immDom", "frontier", "done"} /\ Swept /\ UNCHANGED <<cur, changed>>
         \/ /\ pc = "dom" /\ pc' = "immDom" /\ cur > N /\ ~changed
            /\ UNCHANGED <<cur, changed>>
  PROVE  DomInv'
<1>1. /\ predMap' = predMap /\ domMap' = domMap /\ succ' = succ
      /\ predMap = [b \in Block |-> Preds(succ, b)]
      /\ domMap \in [Block -> SUBSET Block] /\ succ \in Graphs
      /\ \A b \in Block : InterSet(b) \subseteq domMap[b]
      /\ \A b \in Block : Dominators(succ, Entry, b) \subseteq domMap[b]
      /\ cur \in 1..(N + 1) /\ changed \in BOOLEAN
  BY DEF DomInv
<1>2. \A b \in Block : InterSet(b)' = InterSet(b)
  BY <1>1 DEF InterSet
<1>3. /\ \A b \in Block : InterSet(b)' \subseteq domMap'[b]
      /\ \A b \in Block : Dominators(succ', Entry, b) \subseteq domMap'[b]
      /\ predMap' = [b \in Block |-> Preds(succ', b)]
      /\ domMap' \in [Block -> SUBSET Block]
  BY <1>1, <1>2
<1>4. pc' \in {"pred", "dom", "immDom", "frontier", "done"} /\ pc' # "pred"
  BY DEF DomInv
<1>5. cur' \in 1..(N + 1) /\ changed' \in BOOLEAN
  <2>1. (cur' = cur \/ cur' = 1) /\ (changed' = changed \/ changed' = FALSE)
    OBVIOUS
  <2>2. 1 \in 1..(N + 1)
    BY NAssumption
  <2> QED
    BY <1>1, <2>1, <2>2
<1>6. pc' = "dom" /\ ~changed' => \A b \in Block : b < cur' => domMap'[b] = InterSet(b)'
  <2>1. ASSUME UNCHANGED <<pc, cur, changed>>, pc' = "dom", ~changed',
               NEW b \in Block, b < cur'
        PROVE  domMap'[b] = InterSet(b)'
    BY <1>1, <1>2, <2>1 DEF DomInv
  <2>2. ASSUME cur' = 1, NEW b \in Block PROVE ~(b < cur')
    BY <2>2 DEF Block
  <2>3. UNCHANGED <<pc, cur, changed>> \/ pc' # "dom" \/ cur' = 1
    OBVIOUS
  <2> QED
    BY <2>1, <2>2, <2>3
<1>7. Swept' => \A b \in Block : domMap'[b] = InterSet(b)'
  <2>1. ASSUME Settled PROVE \A b \in Block : domMap[b] = InterSet(b)
    BY <2>1, SettledSets
  <2>2. Swept' => Settled
    BY DEF Swept, Settled
  <2> QED
    BY <1>1, <1>2, <2>1, <2>2
<1> QED
  BY <1>1, <1>3, <1>4, <1>5, <1>6, <1>7 DEF DomInv

LEMMA DomStep == DomInv /\ [Next]_vars => DomInv'
<1> SUFFICES ASSUME DomInv, [Next]_vars PROVE DomInv'
  OBVIOUS
<1> USE DEF immVars, lateVars
<1>1. CASE AnalyzePred
  BY <1>1, DomPredStep
<1>2. CASE AnalyzeDomBlock
  BY <1>2, DomSweepStep
<1>3. CASE AnalyzeDomAgain
  BY <1>3, DomKept DEF AnalyzeDomAgain
<1>4. CASE StartImmDom
  BY <1>4, DomKept DEF StartImmDom
<1>5. CASE \E b \in Block : VisitImmDom(b)
  <2>1. pc = "immDom" /\ UNCHANGED <<succ, pc, predMap, domMap, cur, changed>>
    BY <1>5 DEF VisitImmDom
  <2> QED
    BY <2>1, DomKept
<1>6. CASE NextImmDomRound
  BY <1>6, DomKept DEF NextImmDomRound
<1>7. CASE StartFrontier
  BY <1>7, DomKept DEF StartFrontier, Swept
<1>8. CASE \E b, p \in Block : StartRunner(b, p)
  BY <1>8, DomKept DEF StartRunner
<1>9. CASE RunnerStep
  BY <1>9, DomKept DEF RunnerStep
<1>10. CASE AnalyzeDomTree
  BY <1>10, DomKept DEF AnalyzeDomTree, Swept
<1>11. CASE UNCHANGED vars
  <2>1. UNCHANGED <<succ, pc, predMap, domMap, cur, changed>>
    BY <1>11 DEF vars
  <2>2. \A b \in Block : InterSet(b)' = InterSet(b)
    BY <2>1 DEF InterSet
  <2> QED
    BY <2>1, <2>2 DEF DomInv, Swept
<1>12. CASE Done
  BY <1>11, <1>12 DEF Done
<1> QED
  BY <1>1, <1>2, <1>3, <1>4, <1>5, <1>6, <1>7, <1>8, <1>9, <1>10, <1>11, <1>12 DEF Next

LEMMA DomInvariant == Spec => []DomInv
BY DomInit, DomStep, PTL DEF Spec

-----------------------------------------------------------------------------
(***************************************************************************)
(* No sweep ever strikes out a dominator.                                   *)
(***************************************************************************)
THEOREM DominatorsKept == Spec => []DomNeverLost
<1>1. DomInv => DomNeverLost
  BY DEF DomInv, DomNeverLost
<1> QED
  BY <1>1, DomInvariant, PTL

(***************************************************************************)
(* When analyzeDom ends, _domMap holds exactly the dominators of every      *)
(* block, for every function and every layout, blocks out of the entry's    *)
(* reach included.                                                          *)
(***************************************************************************)
THEOREM DominatorsExact == Spec => []DomCorrect
<1>1. DomInv => DomCorrect
  <2> SUFFICES ASSUME DomInv, DomComputed, NEW b \in Block
               PROVE  domMap[b] = Dominators(succ, Entry, b)
    BY DEF DomCorrect
  <2>1. Swept /\ pc # "pred"
    BY DEF DomComputed, Swept
  <2>2. Dominators(succ, Entry, b) \subseteq domMap[b]
    BY <2>1 DEF DomInv
  <2> QED
    BY <2>1, <2>2, SettledSets, SolutionIsSound DEF Settled
<1> QED
  BY <1>1, DomInvariant, PTL

(***************************************************************************)
(* A sweep only strikes blocks off, so analyzeDom's loop cannot oscillate.  *)
(***************************************************************************)
THEOREM SweepsShrink == Spec => DomOnlyShrinks
<1>1. DomInv /\ [Next]_vars =>
        [pc = "dom" => \A b \in Block : domMap'[b] \subseteq domMap[b]]_vars
  <2> SUFFICES ASSUME DomInv, Next, pc = "dom", NEW b \in Block
               PROVE  domMap'[b] \subseteq domMap[b]
    OBVIOUS
  <2>1. CASE AnalyzeDomBlock
    <3>1. InterSet(cur) \subseteq domMap[cur] /\ domMap \in [Block -> SUBSET Block]
      BY <2>1, NAssumption DEF AnalyzeDomBlock, DomInv, Block
    <3> QED
      BY <2>1, <3>1 DEF AnalyzeDomBlock
  <2>2. ~AnalyzeDomBlock => domMap' = domMap
    BY DEF Next, AnalyzePred, AnalyzeDomAgain, StartImmDom, VisitImmDom,
           NextImmDomRound, StartFrontier, StartRunner, RunnerStep,
           AnalyzeDomTree, Done, vars
  <2> QED
    BY <2>1, <2>2
<1> QED
  BY <1>1, DomInvariant, PTL DEF Spec, DomOnlyShrinks

-----------------------------------------------------------------------------
(***************************************************************************)
(* The functions of which the entry reaches every block: branchOpti leaves  *)
(* them unless a loop that control cannot enter survives it.  A block of    *)
(* such a loop has every block as a dominator: dominance is no tree there.  *)
(***************************************************************************)
AllReached == \A g \in Graphs : Reachable(g, Entry) = Block

LEMMA BlockFinite == IsFiniteSet(Block)
BY NAssumption, FS_Interval DEF Block

\* The computed sets are the dominators, a tree with the entry at its root.
LEMMA Ordered ==
  ASSUME AllReached, DomInv, Settled
  PROVE  /\ succ \in Graphs
         /\ domMap = DomSets(succ, Entry)
         /\ DomOrder(Block, Entry, domMap)
         /\ predMap = [b \in Block |-> Preds(succ, b)]
<1>1. /\ succ \in Graphs /\ pc # "pred"
      /\ \A b \in Block : domMap[b] = InterSet(b)
      /\ domMap \in [Block -> SUBSET Block]
      /\ \A b \in Block : Dominators(succ, Entry, b) \subseteq domMap[b]
      /\ predMap = [b \in Block |-> Preds(succ, b)]
  BY SettledSets DEF DomInv
<1>2. \A b \in Block : domMap[b] = Dominators(succ, Entry, b)
  BY <1>1, SolutionIsSound
<1>3. DOMAIN succ = Block /\ \A x \in Block : succ[x] \subseteq Block
  BY <1>1, GraphFacts
<1>4. domMap = DomSets(succ, Entry)
  BY <1>1, <1>2, <1>3 DEF DomSets
<1>5. Reachable(succ, Entry) = DOMAIN succ
  BY <1>1, <1>3 DEF AllReached
<1>6. DomOrder(DOMAIN succ, Entry, DomSets(succ, Entry))
  BY <1>3, <1>5, EntryInBlock, DominatorsOrdered
<1> QED
  BY <1>1, <1>3, <1>4, <1>6

(***************************************************************************)
(* Stripping.  In round n + 1 a block still has the strict dominators of    *)
(* depth n (those toRemove is about to take) or, once visited, n + 1 and    *)
(* deeper; it is decided when that leaves one.                              *)
(***************************************************************************)
ImmRight ==
  \A b \in DOMAIN immDomMap :
    IF b = Entry THEN immDomMap[b] = Null ELSE IsImmDom(domMap, immDomMap[b], b)

Deeper(b, n) == {d \in domMap[b] \ {b} : Depth(domMap, d) >= n}

\* The parents of the blocks of S at depth n.
Parents(S, n) == {d \in Block : \E c \in S : IsImmDom(domMap, d, c) /\ Depth(domMap, c) = n}

Round(n) ==
  /\ DOMAIN immDomMap \cup DOMAIN remainDom = Block
  /\ DOMAIN immDomMap \cap DOMAIN remainDom = {}
  /\ pending \subseteq DOMAIN remainDom
  /\ \A b \in DOMAIN immDomMap : Depth(domMap, b) <= n + 2
  /\ \A b \in pending : Depth(domMap, b) >= n + 2 /\ remainDom[b] = Deeper(b, n)
  /\ \A b \in DOMAIN remainDom \ pending :
       Depth(domMap, b) >= n + 3 /\ remainDom[b] = Deeper(b, n + 1)
  /\ toRemove = Parents(Block, n + 1)
  /\ nextToRemove = Parents(DOMAIN immDomMap, n + 2)

ImmInv ==
  /\ DomInv
  /\ ~Swept => DOMAIN immDomMap = {}
  /\ Swept => ImmRight
  /\ pc = "immDom" => \E n \in Nat : Round(n)
  /\ pc \in {"frontier", "done"} => DOMAIN immDomMap = Block

\* The only strict dominator of a block that has just one is the entry.
LEMMA OneStrict ==
  ASSUME DomOrder(Block, Entry, domMap), NEW b \in Block, b # Entry, Depth(domMap, b) <= 1
  PROVE  domMap[b] \ {b} = {Entry} /\ IsImmDom(domMap, Entry, b) /\ Depth(domMap, b) = 1
<1>1. PICK d \in Block : IsImmDom(domMap, d, b)
  BY BlockFinite, ImmDomExists
<1>2. domMap[b] \ {b} = domMap[d] /\ Depth(domMap, b) = Depth(domMap, d) + 1
  BY <1>1, BlockFinite, ImmDomFacts
<1>3. Entry \in domMap[d] /\ d \in domMap[d] /\ domMap[Entry] = {Entry}
  BY <1>1 DEF DomOrder
<1>4. Depth(domMap, d) \in Nat /\ (Entry # d => Depth(domMap, Entry) < Depth(domMap, d))
  BY <1>1, <1>3, BlockFinite, DepthLess
<1>5. Depth(domMap, Entry) \in Nat
  BY EntryInBlock, BlockFinite, DepthLess
<1>6. d = Entry
  BY <1>2, <1>4, <1>5
<1>7. Depth(domMap, Entry) = 0
  <2>1. domMap[Entry] \ {Entry} = {}
    BY <1>3
  <2> QED
    BY <2>1, FS_EmptySet DEF Depth
<1> QED
  BY <1>1, <1>2, <1>3, <1>6, <1>7

LEMMA ImmStart ==
  ASSUME AllReached, ImmInv, StartImmDom
  PROVE  ImmRight' /\ Round(0)'
<1> DEFINE X == {x \in Block : Cardinality(Strict(x)) <= 1}
           Y == {x \in Block : Cardinality(Strict(x)) > 1}
<1>1. DomOrder(Block, Entry, domMap)
  BY Ordered DEF ImmInv, StartImmDom, Settled
<1>2. /\ domMap' = domMap
      /\ DOMAIN immDomMap' = X
      /\ \A b \in X : immDomMap'[b] = IF Strict(b) = {} THEN Null ELSE CHOOSE d \in Strict(b) : TRUE
      /\ DOMAIN remainDom' = Y /\ \A b \in Y : remainDom'[b] = Strict(b)
      /\ toRemove' = UNION {Strict(b) : b \in {x \in Block : Cardinality(Strict(x)) = 1}}
      /\ nextToRemove' = {} /\ pending' = Y
  BY DEF StartImmDom
<1>3. \A b \in Block : Strict(b) = domMap[b] \ {b} /\ Cardinality(Strict(b)) = Depth(domMap, b)
  BY DEF Strict, Depth
<1>4. \A b \in Block : Depth(domMap, b) \in Nat
  BY <1>1, BlockFinite, DepthLess
<1>5. ASSUME NEW b \in X
      PROVE  IF b = Entry THEN immDomMap'[b] = Null ELSE IsImmDom(domMap, immDomMap'[b], b)
  <2>1. CASE b = Entry
    <3>1. Strict(b) = {}
      BY <1>1, <2>1 DEF Strict, DomOrder
    <3> QED
      BY <1>2, <2>1, <3>1
  <2>2. CASE b # Entry
    <3>1. Strict(b) = {Entry} /\ IsImmDom(domMap, Entry, b)
      BY <1>1, <1>3, <2>2, OneStrict
    <3>2. immDomMap'[b] = Entry
      BY <1>2, <3>1
    <3> QED
      BY <2>2, <3>1, <3>2
  <2> QED
    BY <2>1, <2>2
<1>6. X \cup Y = Block /\ X \cap Y = {}
  BY <1>3, <1>4
<1>7. \A b \in X : Depth(domMap, b) <= 0 + 2
  BY <1>3, <1>4
<1>8. ASSUME NEW b \in Y PROVE Depth(domMap, b) >= 0 + 2 /\ remainDom'[b] = Deeper(b, 0)
  <2>1. b \in Block
    OBVIOUS
  <2>2. Depth(domMap, b) >= 0 + 2
    BY <1>3, <1>4
  <2>3. \A d \in domMap[b] \ {b} : Depth(domMap, d) >= 0
    BY <1>1, <2>1, BlockFinite, DepthLess
  <2>4. Deeper(b, 0) = domMap[b] \ {b}
    BY <2>3 DEF Deeper
  <2> QED
    BY <1>2, <1>3, <2>1, <2>2, <2>4
<1>9. toRemove' = Parents(Block, 0 + 1)
  <2>1. ASSUME NEW d \in toRemove' PROVE d \in Parents(Block, 1)
    <3>1. PICK b \in Block : Cardinality(Strict(b)) = 1 /\ d \in Strict(b)
      BY <1>2
    <3>2. b # Entry
      BY <1>1, <1>3, <3>1 DEF DomOrder
    <3>3. d = Entry /\ IsImmDom(domMap, Entry, b) /\ Depth(domMap, b) = 1
      BY <1>1, <1>3, <3>1, <3>2, OneStrict
    <3> QED
      BY <3>3, EntryInBlock DEF Parents
  <2>2. ASSUME NEW d \in Parents(Block, 1) PROVE d \in toRemove'
    BY <1>2, <1>3 DEF Parents, IsImmDom
  <2> QED
    BY <2>1, <2>2
<1>10. nextToRemove' = Parents(X, 0 + 2)
  BY <1>2, <1>3, <1>4 DEF Parents
<1> HIDE DEF X, Y
<1>11. ImmRight'
  BY <1>2, <1>5 DEF ImmRight
<1>12. /\ DOMAIN immDomMap' \cup DOMAIN remainDom' = Block
       /\ DOMAIN immDomMap' \cap DOMAIN remainDom' = {}
       /\ pending' = DOMAIN remainDom'
  BY <1>2, <1>6
<1>13. \A b \in pending' : Depth(domMap', b) >= 0 + 2 /\ remainDom'[b] = Deeper(b, 0)'
  BY <1>2, <1>8 DEF Deeper
<1>14. toRemove' = Parents(Block, 0 + 1)' /\ nextToRemove' = (Parents(DOMAIN immDomMap, 0 + 2))'
  BY <1>2, <1>9, <1>10 DEF Parents
<1> QED
  BY <1>2, <1>7, <1>11, <1>12, <1>13, <1>14 DEF Round

\* What is left of a block's dominators after this round's stripping.
LEMMA Stripped ==
  ASSUME DomOrder(Block, Entry, domMap), NEW n \in Nat, toRemove = Parents(Block, n + 1),
         NEW b \in Block, Depth(domMap, b) >= n + 2
  PROVE  Deeper(b, n) \ toRemove = Deeper(b, n + 1)
<1>1. ASSUME NEW d \in domMap[b] \ {b}
      PROVE  /\ d \in Block /\ Depth(domMap, d) \in Nat
             /\ Depth(domMap, d) = n => d \in toRemove
             /\ d \in toRemove => Depth(domMap, d) = n
  <2>1. d \in Block /\ Depth(domMap, d) \in Nat /\ Depth(domMap, b) \in Nat
    BY BlockFinite, DepthLess
  <2>2. ASSUME Depth(domMap, d) = n PROVE d \in toRemove
    <3>1. ~IsImmDom(domMap, d, b)
      <4>1. IsImmDom(domMap, d, b) => Depth(domMap, b) = Depth(domMap, d) + 1
        BY BlockFinite, ImmDomFacts
      <4> QED
        BY <2>1, <2>2, <4>1
    <3>2. PICK c \in domMap[b] \ {b} : IsImmDom(domMap, d, c)
      BY <3>1, BlockFinite, NoGap
    <3>3. c \in Block
      BY DEF DomOrder
    <3>4. Depth(domMap, c) = n + 1
      BY <2>2, <3>2, <3>3, BlockFinite, ImmDomFacts
    <3> QED
      BY <2>1, <3>2, <3>3, <3>4 DEF Parents
  <2>3. ASSUME d \in toRemove PROVE Depth(domMap, d) = n
    <3>1. PICK c \in Block : IsImmDom(domMap, d, c) /\ Depth(domMap, c) = n + 1
      BY <2>3 DEF Parents
    <3>2. Depth(domMap, c) = Depth(domMap, d) + 1
      BY <3>1, BlockFinite, ImmDomFacts
    <3> QED
      BY <2>1, <3>1, <3>2
  <2> QED
    BY <2>1, <2>2, <2>3
<1>2. \A d \in domMap[b] \ {b} : Depth(domMap, d) >= n + 1 <=> Depth(domMap, d) >= n /\ d \notin toRemove
  BY <1>1
<1> QED
  BY <1>2 DEF Deeper

(***************************************************************************)
(* One dominator is left exactly when the block is the next in depth, and   *)
(* then it is the closest.                                                  *)
(***************************************************************************)
LEMMA OneLeft ==
  ASSUME DomOrder(Block, Entry, domMap), NEW n \in Nat,
         NEW b \in Block, Depth(domMap, b) >= n + 2
  PROVE  /\ b # Entry
         /\ Cardinality(Deeper(b, n + 1)) = 1 => Depth(domMap, b) = n + 2
         /\ Depth(domMap, b) = n + 2 =>
              \E d \in Block : IsImmDom(domMap, d, b) /\ Deeper(b, n + 1) = {d}
<1>1. Depth(domMap, b) \in Nat
  BY BlockFinite, DepthLess
<1>2. b # Entry
  <2>1. domMap[Entry] \ {Entry} = {}
    BY DEF DomOrder
  <2>2. Depth(domMap, Entry) = 0
    BY <2>1, FS_EmptySet DEF Depth
  <2> QED
    BY <1>1, <2>2
<1>3. PICK i \in Block : IsImmDom(domMap, i, b)
  BY <1>2, BlockFinite, ImmDomExists
<1>4. domMap[b] \ {b} = domMap[i] /\ Depth(domMap, b) = Depth(domMap, i) + 1
  BY <1>3, BlockFinite, ImmDomFacts
<1>5. Depth(domMap, i) \in Nat /\ i \in domMap[i]
  BY BlockFinite, DepthLess DEF DomOrder
<1>6. i \in Deeper(b, n + 1)
  BY <1>1, <1>4, <1>5 DEF Deeper
<1>7. ASSUME Depth(domMap, b) = n + 2 PROVE Deeper(b, n + 1) = {i}
  <2>1. ASSUME NEW d \in Deeper(b, n + 1), d # i PROVE FALSE
    <3>1. d \in domMap[i] \ {i} /\ Depth(domMap, d) >= n + 1
      BY <1>4, <2>1 DEF Deeper
    <3>2. Depth(domMap, d) \in Nat /\ Depth(domMap, d) < Depth(domMap, i)
      BY <3>1, BlockFinite, DepthLess
    <3> QED
      BY <1>4, <1>5, <1>7, <3>1, <3>2
  <2> QED
    BY <1>6, <2>1
<1>8. ASSUME Depth(domMap, b) # n + 2 PROVE Cardinality(Deeper(b, n + 1)) # 1
  <2>1. Depth(domMap, i) >= n + 2
    BY <1>1, <1>4, <1>5, <1>8
  <2>2. i # Entry
    <3>1. domMap[Entry] \ {Entry} = {}
      BY DEF DomOrder
    <3>2. Depth(domMap, Entry) = 0
      BY <3>1, FS_EmptySet DEF Depth
    <3> QED
      BY <2>1, <3>2
  <2>3. PICK j \in Block : IsImmDom(domMap, j, i)
    BY <2>2, BlockFinite, ImmDomExists
  <2>4. Depth(domMap, i) = Depth(domMap, j) + 1 /\ j # i /\ j \in domMap[i]
    BY <2>3, BlockFinite, ImmDomFacts DEF IsImmDom
  <2>5. Depth(domMap, j) \in Nat
    BY BlockFinite, DepthLess
  <2>6. j \in Deeper(b, n + 1)
    BY <1>4, <2>1, <2>4, <2>5 DEF Deeper
  <2>7. IsFiniteSet(Deeper(b, n + 1))
    <3>1. Deeper(b, n + 1) \in SUBSET Block
      BY DEF Deeper, DomOrder
    <3> QED
      BY <3>1, BlockFinite, FS_Subset
  <2>8. \A T : IsFiniteSet(T) /\ Cardinality(T) = 1 => \E x : T = {x}
    BY FS_Singleton
  <2> QED
    BY <1>6, <2>4, <2>6, <2>7, <2>8
<1> QED
  BY <1>2, <1>3, <1>7, <1>8

LEMMA ImmVisit ==
  ASSUME AllReached, ImmInv, NEW b \in Block, VisitImmDom(b)
  PROVE  ImmRight' /\ \E n \in Nat : Round(n)'
<1>1. DomOrder(Block, Entry, domMap) /\ ImmRight /\ pc = "immDom" /\ domMap' = domMap
  BY Ordered DEF ImmInv, VisitImmDom, Settled, Swept
<1>2. PICK n \in Nat : Round(n)
  BY <1>1 DEF ImmInv
<1> DEFINE left == remainDom[b] \ toRemove
<1>3. /\ b \in pending /\ pending' = pending \ {b} /\ toRemove' = toRemove
      /\ pending \subseteq DOMAIN remainDom /\ b \in DOMAIN remainDom /\ b \notin DOMAIN immDomMap
  BY <1>2 DEF VisitImmDom, Round
<1>4. Depth(domMap, b) >= n + 2 /\ left = Deeper(b, n + 1) /\ toRemove = Parents(Block, n + 1)
  BY <1>1, <1>2, <1>3, Stripped DEF Round
<1>5. /\ b # Entry
      /\ Cardinality(left) = 1 => Depth(domMap, b) = n + 2
      /\ Depth(domMap, b) = n + 2 => \E d \in Block : IsImmDom(domMap, d, b) /\ left = {d}
  BY <1>1, <1>4, OneLeft
<1>6. \A S, k : (Parents(S, k))' = Parents(S, k)
  BY <1>1 DEF Parents
<1>7. \A x, k : (Deeper(x, k))' = Deeper(x, k)
  BY <1>1 DEF Deeper
<1>8. CASE Cardinality(left) = 1
  <2>1. PICK d \in Block : IsImmDom(domMap, d, b) /\ left = {d}
    BY <1>5, <1>8
  <2>2. (CHOOSE x \in left : TRUE) = d
    BY <2>1
  <2>3. /\ immDomMap' = [x \in DOMAIN immDomMap \cup {b} |-> IF x = b THEN d ELSE immDomMap[x]]
        /\ nextToRemove' = nextToRemove \cup {d}
        /\ remainDom' = [x \in DOMAIN remainDom \ {b} |-> remainDom[x]]
    BY <1>8, <2>2 DEF VisitImmDom
  <2> HIDE DEF left
  <2>4. /\ DOMAIN immDomMap' = DOMAIN immDomMap \cup {b}
        /\ immDomMap'[b] = d /\ \A x \in DOMAIN immDomMap : immDomMap'[x] = immDomMap[x]
        /\ DOMAIN remainDom' = DOMAIN remainDom \ {b}
        /\ \A x \in DOMAIN remainDom \ {b} : remainDom'[x] = remainDom[x]
    BY <1>3, <2>3
  <2>5. ImmRight'
    BY <1>1, <1>5, <2>1, <2>4 DEF ImmRight
  <2>6. \A x \in DOMAIN immDomMap' : Depth(domMap', x) <= n + 2
    BY <1>1, <1>2, <1>5, <1>8, <2>4 DEF Round
  <2>7. /\ DOMAIN immDomMap' \cup DOMAIN remainDom' = Block
        /\ DOMAIN immDomMap' \cap DOMAIN remainDom' = {}
        /\ pending' \subseteq DOMAIN remainDom'
    BY <1>2, <1>3, <2>4 DEF Round
  <2>8. /\ \A x \in pending' : Depth(domMap', x) >= n + 2 /\ remainDom'[x] = Deeper(x, n)'
        /\ \A x \in DOMAIN remainDom' \ pending' :
             Depth(domMap', x) >= n + 3 /\ remainDom'[x] = Deeper(x, n + 1)'
    BY <1>1, <1>2, <1>3, <1>7, <2>4 DEF Round
  <2>9. nextToRemove' = Parents(DOMAIN immDomMap', n + 2)
    <3>1. nextToRemove = Parents(DOMAIN immDomMap, n + 2) /\ Depth(domMap, b) = n + 2
      BY <1>2, <1>5, <1>8 DEF Round
    <3>2. \A c : IsImmDom(domMap, c, b) => c = d
      BY <1>1, <2>1, BlockFinite, ImmDomFacts
    <3> QED
      BY <2>1, <2>3, <2>4, <3>1, <3>2 DEF Parents
  <2>10. nextToRemove' = (Parents(DOMAIN immDomMap, n + 2))'
    BY <1>1, <2>9 DEF Parents
  <2>11. toRemove' = (Parents(Block, n + 1))'
    BY <1>3, <1>4, <1>6
  <2> QED
    BY <2>5, <2>6, <2>7, <2>8, <2>10, <2>11 DEF Round
<1>9. CASE Cardinality(left) # 1
  <2>1. UNCHANGED <<immDomMap, nextToRemove>> /\ remainDom' = [remainDom EXCEPT ![b] = left]
    BY <1>9 DEF VisitImmDom
  <2>2. Depth(domMap, b) # n + 2
    <3>1. \A d : Cardinality({d}) = 1
      BY FS_Singleton
    <3> QED
      BY <1>5, <1>9, <3>1
  <2>3. Depth(domMap, b) >= n + 3
    <3>1. Depth(domMap, b) \in Nat
      BY <1>1, BlockFinite, DepthLess
    <3> QED
      BY <1>4, <2>2, <3>1
  <2> HIDE DEF left
  <2>4. /\ DOMAIN remainDom' = DOMAIN remainDom /\ remainDom'[b] = left
        /\ \A x \in DOMAIN remainDom \ {b} : remainDom'[x] = remainDom[x]
    BY <1>3, <2>1
  <2>5. ImmRight'
    BY <1>1, <2>1 DEF ImmRight
  <2>6. /\ \A x \in pending' : Depth(domMap', x) >= n + 2 /\ remainDom'[x] = Deeper(x, n)'
        /\ \A x \in DOMAIN remainDom' \ pending' :
             Depth(domMap', x) >= n + 3 /\ remainDom'[x] = Deeper(x, n + 1)'
    BY <1>1, <1>2, <1>3, <1>4, <1>7, <2>3, <2>4 DEF Round
  <2>7. toRemove' = (Parents(Block, n + 1))' /\ nextToRemove' = (Parents(DOMAIN immDomMap, n + 2))'
    BY <1>1, <1>2, <1>3, <1>4, <2>1 DEF Round, Parents
  <2> QED
    BY <1>1, <1>2, <1>3, <2>1, <2>4, <2>5, <2>6, <2>7 DEF Round
<1> QED
  BY <1>8, <1>9

LEMMA ImmNextRound ==
  ASSUME AllReached, ImmInv, NextImmDomRound
  PROVE  ImmRight' /\ \E n \in Nat : Round(n)'
<1>1. /\ DomOrder(Block, Entry, domMap) /\ ImmRight /\ pc = "immDom" /\ pending = {}
      /\ UNCHANGED <<domMap, immDomMap, remainDom>>
      /\ toRemove' = nextToRemove /\ nextToRemove' = {} /\ pending' = DOMAIN remainDom
  BY Ordered DEF ImmInv, NextImmDomRound, Settled, Swept
<1>2. PICK n \in Nat : Round(n)
  BY <1>1 DEF ImmInv
<1>3. /\ n + 1 \in Nat /\ (n + 1) + 1 = n + 2 /\ (n + 1) + 2 = n + 3
      /\ \A x \in Nat : (x <= n + 2 => x <= n + 3 /\ x # n + 3) /\ (x >= n + 3 => x # n + 2)
  OBVIOUS
<1>4. \A x \in Block : Depth(domMap, x) \in Nat
  BY <1>1, BlockFinite, DepthLess
<1>5. /\ DOMAIN immDomMap \cup DOMAIN remainDom = Block
      /\ DOMAIN immDomMap \cap DOMAIN remainDom = {}
      /\ \A x \in DOMAIN immDomMap : Depth(domMap, x) <= n + 2
      /\ \A x \in DOMAIN remainDom : Depth(domMap, x) >= n + 3 /\ remainDom[x] = Deeper(x, n + 1)
      /\ nextToRemove = Parents(DOMAIN immDomMap, n + 2)
  BY <1>1, <1>2 DEF Round
<1>6. Parents(DOMAIN immDomMap, n + 2) = Parents(Block, n + 2)
  BY <1>3, <1>4, <1>5 DEF Parents
<1>7. Parents(DOMAIN immDomMap, n + 3) = {}
  BY <1>3, <1>4, <1>5 DEF Parents
<1>8. toRemove' = (Parents(Block, n + 2))' /\ nextToRemove' = (Parents(DOMAIN immDomMap, n + 3))'
  BY <1>1, <1>5, <1>6, <1>7 DEF Parents
<1>9. \A x \in pending' : Depth(domMap', x) >= n + 3 /\ remainDom'[x] = Deeper(x, n + 1)'
  BY <1>1, <1>5 DEF Deeper
<1>10. \A x \in DOMAIN immDomMap' : Depth(domMap', x) <= n + 3
  BY <1>1, <1>3, <1>4, <1>5
<1>11. Round(n + 1)'
  BY <1>1, <1>3, <1>5, <1>8, <1>9, <1>10 DEF Round
<1> QED
  BY <1>1, <1>3, <1>11 DEF ImmRight

LEMMA ImmStep == AllReached /\ ImmInv /\ [Next]_vars => ImmInv'
<1> SUFFICES ASSUME AllReached, ImmInv, [Next]_vars PROVE ImmInv'
  OBVIOUS
<1> USE DEF immVars, lateVars
<1>0. DomInv' /\ DomInv
  BY DomStep DEF ImmInv
<1>1. CASE AnalyzePred \/ AnalyzeDomBlock \/ AnalyzeDomAgain
  <2>1. ~Swept /\ ~Swept' /\ UNCHANGED immDomMap /\ pc' = "dom"
    BY <1>1 DEF AnalyzePred, AnalyzeDomBlock, AnalyzeDomAgain, Swept
  <2> QED
    BY <1>0, <2>1 DEF ImmInv
<1>2. CASE StartImmDom
  <2>1. pc' = "immDom" /\ Swept'
    BY <1>2 DEF StartImmDom, Swept
  <2>2. ImmRight' /\ Round(0)' /\ 0 \in Nat
    BY <1>2, ImmStart
  <2> QED
    BY <1>0, <2>1, <2>2 DEF ImmInv
<1>3. ASSUME NEW b \in Block, VisitImmDom(b) PROVE ImmInv'
  <2>1. pc' = "immDom" /\ Swept'
    BY <1>3 DEF VisitImmDom, Swept
  <2>2. ImmRight' /\ \E n \in Nat : Round(n)'
    BY <1>3, ImmVisit
  <2> QED
    BY <1>0, <2>1, <2>2 DEF ImmInv
<1>4. CASE NextImmDomRound
  <2>1. pc' = "immDom" /\ Swept'
    BY <1>4 DEF NextImmDomRound, Swept
  <2>2. ImmRight' /\ \E n \in Nat : Round(n)'
    BY <1>4, ImmNextRound
  <2> QED
    BY <1>0, <2>1, <2>2 DEF ImmInv
<1>5. CASE StartFrontier
  <2>1. /\ pc = "immDom" /\ pc' = "frontier" /\ DOMAIN remainDom = {} /\ Swept /\ Swept'
        /\ UNCHANGED <<immDomMap, domMap>>
    BY <1>5 DEF StartFrontier, Swept
  <2>2. \E n \in Nat : Round(n)
    BY <2>1 DEF ImmInv
  <2>3. DOMAIN immDomMap = Block
    BY <2>1, <2>2 DEF Round
  <2> QED
    BY <1>0, <2>1, <2>3 DEF ImmInv, ImmRight
<1>6. CASE (\E b, p \in Block : StartRunner(b, p)) \/ RunnerStep \/ AnalyzeDomTree \/ Done
           \/ UNCHANGED vars
  <2>1. /\ UNCHANGED <<immDomMap, domMap>> /\ (Swept <=> Swept')
        /\ \/ pc \in {"frontier", "done"} /\ pc' \in {"frontier", "done"}
           \/ UNCHANGED vars
    BY <1>6 DEF StartRunner, RunnerStep, AnalyzeDomTree, Done, vars, Swept
  <2>2. Swept' => ImmRight'
    BY <2>1 DEF ImmInv, ImmRight
  <2>3. \A n : UNCHANGED vars => (Round(n) <=> Round(n)')
    BY DEF vars, Round, Parents, Deeper
  <2>4. pc' = "immDom" => \E n \in Nat : Round(n)'
    <3> SUFFICES ASSUME pc' = "immDom" PROVE \E n \in Nat : Round(n)'
      OBVIOUS
    <3>1. UNCHANGED vars
      BY <2>1
    <3>2. pc = "immDom"
      BY <3>1 DEF vars
    <3>3. PICK n \in Nat : Round(n)
      BY <3>2 DEF ImmInv
    <3> QED
      BY <2>3, <3>1, <3>3
  <2>5. pc' \in {"frontier", "done"} => pc \in {"frontier", "done"}
    BY <2>1 DEF vars
  <2> QED
    BY <1>0, <2>1, <2>2, <2>4, <2>5 DEF ImmInv
<1> QED
  BY <1>1, <1>2, <1>3, <1>4, <1>5, <1>6 DEF Next

LEMMA ImmInvariant == ASSUME AllReached PROVE Spec => []ImmInv
<1>1. Init => ImmInv
  BY DomInit DEF Init, ImmInv, Swept
<1>2. ImmInv /\ [Next]_vars => ImmInv'
  BY ImmStep
<1> QED
  BY <1>1, <1>2, PTL DEF Spec

(***************************************************************************)
(* analyzeImmDom decides every block with its closest strict dominator, for *)
(* functions of any size whose entry reaches every block, in whatever order *)
(* the unordered maps yield the blocks.                                     *)
(***************************************************************************)
THEOREM ImmediateDominatorsExact == ASSUME AllReached PROVE Spec => []ImmDomCorrect
<1>1. ImmInv => ImmDomCorrect
  <2> SUFFICES ASSUME ImmInv, NEW b \in DOMAIN immDomMap
               PROVE  IF b = Entry THEN immDomMap[b] = Null
                      ELSE IsImmDom(DomSets(succ, Entry), immDomMap[b], b)
    BY DEF ImmDomCorrect
  <2>1. Swept /\ ImmRight
    BY DEF ImmInv
  <2>2. domMap = DomSets(succ, Entry)
    BY <2>1, Ordered DEF ImmInv, Settled
  <2> QED
    BY <2>1, <2>2 DEF ImmRight
<1> QED
  BY <1>1, ImmInvariant, PTL

-----------------------------------------------------------------------------
(***************************************************************************)
(* Runners.  Of a join y and a predecessor p taken from pending, a          *)
(* dominator x of p that does not strictly dominate y has y in its frontier *)
(* by now, or the open walk is still below x.                               *)
(***************************************************************************)
Ends(x, y, p) == x \in domMap[p] /\ x \notin domMap[y] \ {y}
ToCome(x, y)  == runner # NoWalk /\ runner[1] = y /\ x \in domMap[runner[2]]

\* The walk <<b, r>> climbs from a predecessor of b and is not past b's parent.
WalkOK(b, r) ==
  /\ b \in Block /\ r \in Block
  /\ IsImmDom(domMap, immDomMap[b], b) /\ immDomMap[b] \in domMap[r]
  /\ \E p \in Preds(succ, b) : r \in domMap[p]

FrontInv ==
  /\ ImmInv
  /\ domFrontier \in [Block -> SUBSET Block]
  /\ pc \in {"pred", "dom", "immDom"} =>
       runner = NoWalk /\ \A x \in Block : domFrontier[x] = {}
  /\ pc \in {"frontier", "done"} =>
       /\ \A x \in Block : domFrontier[x] \subseteq Frontier(succ, domMap, x)
       /\ runner # NoWalk => runner = <<runner[1], runner[2]>> /\ WalkOK(runner[1], runner[2])
       /\ \A y \in Block : \A p \in Preds(succ, y) : \A x \in Block :
            IsJoin(y) /\ <<y, p>> \notin pending /\ Ends(x, y, p) =>
              y \in domFrontier[x] \/ ToCome(x, y)
       /\ \A w \in pending : IsJoin(w[1]) /\ w[2] \in predMap[w[1]]
  /\ pc = "done" =>
       /\ pending = {} /\ runner = NoWalk
       /\ domTree = [b \in Block |-> {c \in DOMAIN immDomMap : immDomMap[c] = b}]

\* A strict dominator of a block dominates its predecessors.
LEMMA StrictOfPred ==
  ASSUME AllReached, DomInv, Settled, NEW b \in Block, NEW p \in Preds(succ, b)
  PROVE  p \in Block /\ b # Entry /\ domMap[b] \ {b} \subseteq domMap[p]
<1>1. succ \in Graphs /\ predMap[b] = Preds(succ, b)
  BY Ordered
<1>2. p \in Block /\ b # Entry
  BY <1>1, GraphFacts
<1>3. domMap[b] = InterSet(b)
  BY SettledSets
<1> QED
  BY <1>1, <1>2, <1>3 DEF InterSet

\* With a single predecessor a block's dominance ends nowhere at that block.
LEMMA NoJoinNoFrontier ==
  ASSUME AllReached, DomInv, Settled, NEW y \in Block, NEW p \in Preds(succ, y), ~IsJoin(y),
         NEW x \in Block, Ends(x, y, p)
  PROVE  FALSE
<1>1. /\ succ \in Graphs /\ DomOrder(Block, Entry, domMap)
      /\ domMap = DomSets(succ, Entry) /\ predMap[y] = Preds(succ, y)
  BY Ordered
<1>2. p \in Block /\ y # Entry /\ Preds(succ, y) \in SUBSET Block
  BY <1>1, StrictOfPred, GraphFacts
<1>3. Preds(succ, y) = {p}
  <2> DEFINE S == Preds(succ, y)
  <2>1. IsFiniteSet(S) /\ ~(Cardinality(S) >= 2) /\ p \in S
    BY <1>1, <1>2, BlockFinite, FS_Subset DEF IsJoin
  <2> HIDE DEF S
  <2>2. IsFiniteSet(S \ {p}) /\ Cardinality(S \ {p}) = Cardinality(S) - 1
    BY <2>1, FS_RemoveElement
  <2>3. Cardinality(S) \in Nat /\ Cardinality(S \ {p}) \in Nat
    BY <2>1, <2>2, FS_CardinalityType
  <2>4. Cardinality(S \ {p}) = 0
    BY <2>1, <2>2, <2>3
  <2>5. S = {p}
    BY <2>1, <2>2, <2>4, FS_EmptySet
  <2> QED
    BY <2>5 DEF S
<1>4. domMap[y] = InterSet(y)
  BY SettledSets
<1>5. x \in domMap[y]
  BY <1>1, <1>3, <1>4 DEF InterSet, Ends
<1>6. x = y /\ y \in domMap[p]
  BY <1>5 DEF Ends
<1>7. \A q \in Preds(succ, y) : Dominates(succ, Entry, y, q)
  BY <1>1, <1>2, <1>3, <1>6, GraphFacts DEF DomSets, Dominators
<1>8. y \notin Reachable(succ, Entry)
  BY <1>1, <1>2, <1>7, EntryInBlock, GraphFacts, SelfDominatedUnreachable
<1> QED
  BY <1>1, <1>8 DEF AllReached

LEMMA FrontStartRunner ==
  ASSUME AllReached, FrontInv, ImmInv', NEW b \in Block, NEW p \in Block, StartRunner(b, p)
  PROVE  FrontInv'
<1> USE DEF immVars
<1>1. /\ pc = "frontier" /\ pc' = "frontier" /\ runner = NoWalk /\ runner' = <<b, p>>
      /\ <<b, p>> \in pending /\ pending' = pending \ {<<b, p>>}
      /\ UNCHANGED <<succ, predMap, domMap, immDomMap, domFrontier>>
  BY DEF StartRunner
<1>2. \A w \in pending : IsJoin(w[1]) /\ w[2] \in predMap[w[1]]
  BY <1>1 DEF FrontInv
<1>3. Swept /\ Settled /\ DomInv /\ ImmRight /\ DOMAIN immDomMap = Block
  BY <1>1 DEF FrontInv, ImmInv, Swept, Settled
<1>4. DomOrder(Block, Entry, domMap) /\ predMap[b] = Preds(succ, b)
  BY <1>3, Ordered
<1>5. p \in Preds(succ, b)
  <2>1. <<b, p>>[2] \in predMap[<<b, p>>[1]]
    BY <1>1, <1>2
  <2> QED
    BY <1>4, <2>1
<1>6. b # Entry /\ domMap[b] \ {b} \subseteq domMap[p]
  BY <1>3, <1>5, StrictOfPred
<1>7. IsImmDom(domMap, immDomMap[b], b)
  BY <1>3, <1>6 DEF ImmRight
<1>8. WalkOK(b, p)
  BY <1>4, <1>5, <1>6, <1>7 DEF WalkOK, IsImmDom, DomOrder
<1>9. runner'[1] = b /\ runner'[2] = p /\ runner' # NoWalk
  BY <1>1 DEF NoWalk
<1>10. WalkOK(runner[1], runner[2])'
  BY <1>1, <1>8, <1>9 DEF WalkOK
<1>11. ASSUME NEW y \in Block, NEW q \in Preds(succ, y), NEW x \in Block,
              IsJoin(y), <<y, q>> \notin pending', Ends(x, y, q)
       PROVE  y \in domFrontier[x] \/ ToCome(x, y)'
  <2>1. CASE <<y, q>> = <<b, p>>
    BY <1>1, <1>9, <1>11, <2>1 DEF Ends, ToCome
  <2>2. CASE <<y, q>> # <<b, p>>
    <3>1. <<y, q>> \notin pending
      BY <1>1, <1>11, <2>2
    <3>2. y \in domFrontier[x] \/ ToCome(x, y)
      BY <1>1, <1>11, <3>1 DEF FrontInv
    <3> QED
      BY <1>1, <3>2 DEF ToCome
  <2> QED
    BY <2>1, <2>2
<1>12. \A y \in Block : \A q \in Preds(succ', y) : \A x \in Block :
         IsJoin(y)' /\ <<y, q>> \notin pending' /\ Ends(x, y, q)' =>
           y \in domFrontier'[x] \/ ToCome(x, y)'
  BY <1>1, <1>11 DEF IsJoin, Ends
<1>13. \A x \in Block : domFrontier'[x] \subseteq Frontier(succ', domMap', x)
  BY <1>1 DEF FrontInv
<1>14. \A w \in pending' : IsJoin(w[1])' /\ w[2] \in predMap'[w[1]]
  BY <1>1, <1>2 DEF IsJoin
<1> QED
  BY <1>1, <1>9, <1>10, <1>12, <1>13, <1>14 DEF FrontInv

LEMMA FrontRunnerStep ==
  ASSUME AllReached, FrontInv, ImmInv', RunnerStep
  PROVE  FrontInv'
<1> USE DEF immVars
<1> DEFINE b == runner[1]
           r == runner[2]
<1>1. /\ pc = "frontier" /\ pc' = "frontier" /\ runner # NoWalk
      /\ UNCHANGED <<succ, predMap, domMap, immDomMap, pending>>
  BY DEF RunnerStep
<1>2. Swept /\ Settled /\ DomInv /\ ImmRight /\ DOMAIN immDomMap = Block
  BY <1>1 DEF FrontInv, ImmInv, Swept, Settled
<1>3. DomOrder(Block, Entry, domMap)
  BY <1>2, Ordered
<1>4. /\ WalkOK(b, r) /\ domFrontier \in [Block -> SUBSET Block]
      /\ \A x \in Block : domFrontier[x] \subseteq Frontier(succ, domMap, x)
  BY <1>1 DEF FrontInv
<1>5. PICK p \in Preds(succ, b) : r \in domMap[p]
  BY <1>4 DEF WalkOK
<1>6. p \in Block /\ domMap[b] \ {b} \subseteq domMap[p] /\ b \in Block /\ r \in Block
  BY <1>2, <1>4, <1>5, StrictOfPred DEF WalkOK
<1> DEFINE i == immDomMap[b]
<1>7. i \in Block /\ IsImmDom(domMap, i, b) /\ i \in domMap[r] /\ domMap[b] \ {b} = domMap[i]
  BY <1>3, <1>4, <1>6, BlockFinite, ImmDomFacts DEF WalkOK
<1>8. \A y \in Block : \A q \in Preds(succ, y) : \A x \in Block :
        IsJoin(y) /\ <<y, q>> \notin pending /\ Ends(x, y, q) =>
          y \in domFrontier[x] \/ ToCome(x, y)
  BY <1>1 DEF FrontInv
<1>9. \A w \in pending' : IsJoin(w[1])' /\ w[2] \in predMap'[w[1]]
  BY <1>1 DEF FrontInv, IsJoin
<1>10. CASE r = i
  <2>1. runner' = NoWalk /\ domFrontier' = domFrontier
    BY <1>10 DEF RunnerStep
  <2>2. ASSUME NEW y \in Block, NEW q \in Preds(succ, y), NEW x \in Block,
               IsJoin(y), <<y, q>> \notin pending, Ends(x, y, q)
        PROVE  y \in domFrontier[x]
    <3>1. ~ToCome(x, y)
      BY <1>7, <1>10, <2>2 DEF ToCome, Ends
    <3> QED
      BY <1>8, <2>2, <3>1
  <2>3. \A y \in Block : \A q \in Preds(succ', y) : \A x \in Block :
          IsJoin(y)' /\ <<y, q>> \notin pending' /\ Ends(x, y, q)' =>
            y \in domFrontier'[x] \/ ToCome(x, y)'
    BY <1>1, <2>1, <2>2 DEF IsJoin, Ends
  <2> QED
    BY <1>1, <1>4, <1>9, <2>1, <2>3 DEF FrontInv
<1>11. CASE r # i
  <2>1. domFrontier' = [domFrontier EXCEPT ![r] = @ \cup {b}] /\ runner' = <<b, immDomMap[r]>>
    BY <1>11 DEF RunnerStep
  <2>2. runner' # NoWalk /\ runner'[1] = b /\ runner'[2] = immDomMap[r]
    BY <2>1 DEF NoWalk
  <2>3. r \notin domMap[b] \ {b}
    BY <1>3, <1>6, <1>7, <1>11 DEF DomOrder
  <2>4. b \in Frontier(succ, domMap, r)
    <3>1. succ \in Graphs
      BY <1>2 DEF DomInv
    <3> QED
      BY <1>5, <1>6, <2>3, <3>1, GraphFacts DEF Frontier
  <2> DEFINE j == immDomMap[r]
  <2>5. IsImmDom(domMap, j, r)
    <3>1. r # Entry
      BY <1>3, <1>7, <1>11 DEF DomOrder
    <3> QED
      BY <1>2, <1>6, <3>1 DEF ImmRight
  <2>6. j \in Block /\ domMap[r] \ {r} = domMap[j] /\ i \in domMap[j] /\ j \in domMap[p]
    <3>1. j \in Block /\ domMap[r] \ {r} = domMap[j]
      BY <1>3, <1>6, <2>5, BlockFinite, ImmDomFacts
    <3>2. j \in domMap[r]
      BY <2>5 DEF IsImmDom
    <3>3. domMap[r] \subseteq domMap[p]
      BY <1>3, <1>5, <1>6 DEF DomOrder
    <3> QED
      BY <1>7, <1>11, <3>1, <3>2, <3>3
  <2>7. WalkOK(b, j)
    BY <1>5, <1>6, <1>7, <2>6 DEF WalkOK
  <2>8. /\ domFrontier' \in [Block -> SUBSET Block]
        /\ domFrontier'[r] = domFrontier[r] \cup {b}
        /\ \A x \in Block \ {r} : domFrontier'[x] = domFrontier[x]
    BY <1>4, <1>6, <2>1
  <2>9. \A x \in Block : domFrontier'[x] \subseteq Frontier(succ', domMap', x)
    BY <1>1, <1>4, <2>4, <2>8
  <2>10. ASSUME NEW y \in Block, NEW q \in Preds(succ, y), NEW x \in Block,
                IsJoin(y), <<y, q>> \notin pending, Ends(x, y, q)
         PROVE  y \in domFrontier'[x] \/ ToCome(x, y)'
    <3>1. CASE y \in domFrontier[x]
      BY <2>8, <3>1
    <3>2. CASE y = b /\ x \in domMap[r]
      <4>1. CASE x = r
        BY <2>8, <3>2, <4>1
      <4>2. CASE x # r
        BY <1>1, <2>2, <2>6, <3>2, <4>2 DEF ToCome
      <4> QED
        BY <4>1, <4>2
    <3> QED
      BY <1>8, <2>10, <3>1, <3>2 DEF ToCome
  <2>11. \A y \in Block : \A q \in Preds(succ', y) : \A x \in Block :
           IsJoin(y)' /\ <<y, q>> \notin pending' /\ Ends(x, y, q)' =>
             y \in domFrontier'[x] \/ ToCome(x, y)'
    BY <1>1, <2>10 DEF IsJoin, Ends
  <2>12. runner' = <<runner'[1], runner'[2]>> /\ WalkOK(runner[1], runner[2])'
    BY <1>1, <2>1, <2>2, <2>7 DEF WalkOK
  <2> QED
    BY <1>1, <1>9, <2>8, <2>9, <2>11, <2>12 DEF FrontInv
<1> QED
  BY <1>10, <1>11

LEMMA FrontStart ==
  ASSUME AllReached, FrontInv, ImmInv', StartFrontier
  PROVE  FrontInv'
<1>1. /\ pc = "immDom" /\ pc' = "frontier"
      /\ UNCHANGED <<succ, predMap, domMap, domFrontier, runner>>
      /\ pending' = {w \in Block \X Block : IsJoin(w[1]) /\ w[2] \in predMap[w[1]]}
  BY DEF StartFrontier, lateVars
<1>2. /\ runner = NoWalk /\ \A x \in Block : domFrontier[x] = {}
      /\ domFrontier \in [Block -> SUBSET Block] /\ DomInv /\ Settled
  BY <1>1 DEF FrontInv, ImmInv, Settled, Swept
<1>3. predMap = [b \in Block |-> Preds(succ, b)] /\ succ \in Graphs
  BY <1>2, Ordered
<1>4. ASSUME NEW y \in Block, NEW p \in Preds(succ, y), IsJoin(y) PROVE <<y, p>> \in pending'
  BY <1>1, <1>3, <1>4, GraphFacts
<1>5. \A y \in Block : \A p \in Preds(succ', y) : \A x \in Block :
        IsJoin(y)' /\ <<y, p>> \notin pending' /\ Ends(x, y, p)' =>
          y \in domFrontier'[x] \/ ToCome(x, y)'
  BY <1>1, <1>4 DEF IsJoin
<1>6. \A w \in pending' : IsJoin(w[1])' /\ w[2] \in predMap'[w[1]]
  BY <1>1 DEF IsJoin
<1> QED
  BY <1>1, <1>2, <1>5, <1>6 DEF FrontInv

LEMMA FrontStep == AllReached /\ FrontInv /\ [Next]_vars => FrontInv'
<1> SUFFICES ASSUME AllReached, FrontInv, [Next]_vars PROVE FrontInv'
  OBVIOUS
<1> USE DEF immVars, lateVars
<1>0. ImmInv' /\ ImmInv
  BY ImmStep DEF FrontInv
<1>1. CASE AnalyzePred \/ AnalyzeDomBlock \/ AnalyzeDomAgain \/ StartImmDom
           \/ (\E b \in Block : VisitImmDom(b)) \/ NextImmDomRound
  <2>1. /\ pc \in {"pred", "dom", "immDom"} /\ pc' \in {"dom", "immDom"}
        /\ UNCHANGED <<runner, domFrontier>>
    BY <1>1 DEF AnalyzePred, AnalyzeDomBlock, AnalyzeDomAgain, StartImmDom, VisitImmDom,
                NextImmDomRound
  <2> QED
    BY <1>0, <2>1 DEF FrontInv
<1>2. CASE StartFrontier
  BY <1>0, <1>2, FrontStart
<1>3. ASSUME NEW b \in Block, NEW p \in Block, StartRunner(b, p) PROVE FrontInv'
  BY <1>0, <1>3, FrontStartRunner
<1>4. CASE RunnerStep
  BY <1>0, <1>4, FrontRunnerStep
<1>5. CASE AnalyzeDomTree
  <2>1. /\ pc = "frontier" /\ pc' = "done" /\ runner = NoWalk /\ pending = {}
        /\ UNCHANGED <<succ, predMap, domMap, immDomMap, domFrontier, runner, pending>>
        /\ domTree' = [b \in Block |-> {c \in DOMAIN immDomMap : immDomMap[c] = b}]
    BY <1>5 DEF AnalyzeDomTree
  <2> QED
    BY <1>0, <2>1 DEF FrontInv, IsJoin, Ends, ToCome
<1>6. CASE UNCHANGED vars \/ Done
  <2>1. UNCHANGED vars
    BY <1>6 DEF Done
  <2> QED
    BY <1>0, <2>1 DEF vars, FrontInv, IsJoin, Ends, ToCome, WalkOK
<1> QED
  BY <1>1, <1>2, <1>3, <1>4, <1>5, <1>6 DEF Next

LEMMA FrontInvariant == ASSUME AllReached PROVE Spec => []FrontInv
<1>1. Init => FrontInv
  <2> SUFFICES ASSUME Init PROVE FrontInv
    OBVIOUS
  <2>1. DomInv /\ pc = "pred" /\ DOMAIN immDomMap = {} /\ runner = NoWalk
        /\ domFrontier = [b \in Block |-> {}]
    BY DomInit DEF Init
  <2> QED
    BY <2>1 DEF FrontInv, ImmInv, Swept
<1>2. FrontInv /\ [Next]_vars => FrontInv'
  BY FrontStep
<1> QED
  BY <1>1, <1>2, PTL DEF Spec

(***************************************************************************)
(* analyzeDomFrontier computes the dominance frontiers, and its runners     *)
(* never climb past the entry, for functions of any size whose entry        *)
(* reaches every block.                                                     *)
(***************************************************************************)
THEOREM FrontiersExact == ASSUME AllReached PROVE Spec => []FrontierCorrect
<1>1. FrontInv => FrontierCorrect
  <2> SUFFICES ASSUME FrontInv PROVE FrontierCorrect
    OBVIOUS
  <2>1. runner # NoWalk => runner[2] \in Block \cup {immDomMap[runner[1]]}
    <3>1. pc \in {"pred", "dom", "immDom", "frontier", "done"}
      BY DEF FrontInv, ImmInv, DomInv
    <3> QED
      BY <3>1 DEF FrontInv, WalkOK
  <2>2. ASSUME pc = "done", NEW x \in Block
        PROVE  domFrontier[x] = Frontier(succ, DomSets(succ, Entry), x)
    <3>1. Swept /\ Settled /\ DomInv
      BY <2>2 DEF FrontInv, ImmInv, Swept, Settled
    <3>2. domMap = DomSets(succ, Entry) /\ succ \in Graphs
      BY <3>1, Ordered
    <3>3. domFrontier[x] \subseteq Frontier(succ, domMap, x) /\ pending = {} /\ runner = NoWalk
      BY <2>2 DEF FrontInv
    <3>4. ASSUME NEW y \in Frontier(succ, domMap, x) PROVE y \in domFrontier[x]
      <4>1. y \in Block
        BY <3>2, GraphFacts DEF Frontier
      <4>2. PICK p \in Preds(succ, y) : Ends(x, y, p)
        BY <3>4 DEF Frontier, Ends
      <4>3. IsJoin(y)
        BY <3>1, <4>1, <4>2, NoJoinNoFrontier
      <4> QED
        BY <2>2, <3>3, <4>1, <4>2, <4>3 DEF FrontInv, ToCome
    <3> QED
      BY <3>2, <3>3, <3>4
  <2> QED
    BY <2>1, <2>2 DEF FrontierCorrect
<1> QED
  BY <1>1, FrontInvariant, PTL

(***************************************************************************)
(* The tree MemoryProm::replace walks reaches every block, each by one      *)
(* parent, for functions of any size whose entry reaches every block.       *)
(***************************************************************************)
THEOREM TreeReachesEveryBlock == ASSUME AllReached PROVE Spec => []TreeSpansFunction
<1>1. FrontInv => TreeSpansFunction
  <2> SUFFICES ASSUME FrontInv, pc = "done"
               PROVE  /\ Reachable(domTree, Entry) = Block
                      /\ \A b \in Block : Cardinality(Preds(domTree, b)) = IF b = Entry THEN 0 ELSE 1
    BY DEF TreeSpansFunction
  <2>1. /\ ImmRight /\ DOMAIN immDomMap = Block /\ DomInv /\ Settled
        /\ domTree = [b \in Block |-> {c \in Block : immDomMap[c] = b}]
    BY DEF FrontInv, ImmInv, Swept, Settled
  <2>2. DomOrder(Block, Entry, domMap)
    BY <2>1, Ordered
  <2>3. \A b \in Block \ {Entry} : /\ IsImmDom(domMap, immDomMap[b], b)
                                   /\ immDomMap[b] \in Block
                                   /\ Depth(domMap, b) = Depth(domMap, immDomMap[b]) + 1
    BY <2>1, <2>2, BlockFinite, ImmDomFacts DEF ImmRight
  <2>4. immDomMap[Entry] = Null /\ Null \notin Block
    BY <2>1, EntryInBlock DEF ImmRight, Null, Block
  <2>5. \A b \in Block : Preds(domTree, b) = {p \in Block : immDomMap[b] = p}
    BY <2>1 DEF Preds
  <2>6. ASSUME NEW b \in Block PROVE Cardinality(Preds(domTree, b)) = IF b = Entry THEN 0 ELSE 1
    <3>1. CASE b = Entry
      <4>1. Preds(domTree, b) = {}
        BY <2>4, <2>5, <3>1
      <4> QED
        BY <3>1, <4>1, FS_EmptySet
    <3>2. CASE b # Entry
      <4>1. Preds(domTree, b) = {immDomMap[b]}
        BY <2>3, <2>5, <3>2
      <4> QED
        BY <3>2, <4>1, FS_Singleton
    <3> QED
      BY <3>1, <3>2
  <2>7. ASSUME NEW S \in ClosedSets(domTree, Entry), NEW b \in Block PROVE b \in S
    <3> SUFFICES ASSUME b \notin S PROVE FALSE
      OBVIOUS
    <3> DEFINE M == {x \in Block : x \notin S}
               depth == [x \in M |-> Depth(domMap, x)]
    <3>1. \A x \in M : depth[x] = Depth(domMap, x) /\ depth[x] \in Nat
      BY <2>2, BlockFinite, DepthLess
    <3>2. M # {} /\ M \subseteq Block
      OBVIOUS
    <3> HIDE DEF M, depth
    <3>3. PICK x \in M : \A y \in M : depth[x] <= depth[y]
      BY <3>1, <3>2, LeastBy
    <3>4. x \in Block \ {Entry}
      BY <3>2, <3>3 DEF M, ClosedSets
    <3> DEFINE d == immDomMap[x]
    <3>5. d \in Block /\ Depth(domMap, x) = Depth(domMap, d) + 1 /\ Depth(domMap, d) \in Nat
      BY <2>2, <2>3, <3>4, BlockFinite, DepthLess
    <3>6. d \notin M
      BY <3>1, <3>3, <3>5
    <3>7. d \in S /\ x \in domTree[d]
      BY <2>1, <3>4, <3>5, <3>6 DEF M
    <3>8. x \in S
      BY <3>7 DEF ClosedSets, Closed
    <3> QED
      BY <3>3, <3>8 DEF M
  <2>8. Reachable(domTree, Entry) = Block
    BY <2>1, <2>7 DEF Reachable
  <2> QED
    BY <2>6, <2>8
<1> QED
  BY <1>1, FrontInvariant, PTL
=============================================================================
