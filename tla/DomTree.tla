------------------------------ MODULE DomTree ------------------------------
(***************************************************************************)
(* pass::DomTree (src/pass/dom_tree.cpp): predecessors, dominator sets by   *)
(* iteration to a fixpoint, immediate dominators by stripping, dominance    *)
(* frontiers by runners, and the dominator tree, in the order MemoryProm    *)
(* asks for them.  Blocks are numbered in layout order, which analyzeDom    *)
(* follows; where the code iterates an unordered_map or unordered_set any   *)
(* order is possible and the choice of the next element is                  *)
(* nondeterministic.                                                        *)
(***************************************************************************)
EXTENDS Naturals, FiniteSets, FlowGraph

CONSTANTS N,       \* number of basic blocks of the function
          Graphs   \* the control-flow graphs analysed

Block == 1..N
Entry == 1
Null  == 0         \* nullptr in _immDomMap

(***************************************************************************)
(* BranchOpti has run before: GenerateIR never branches to the entry block  *)
(* and removeUnreachable leaves no other block without a use.               *)
(***************************************************************************)
ASSUME NAssumption == N \in Nat \ {0}
ASSUME GraphsAssumption ==
  \A g \in Graphs : /\ g \in [Block -> SUBSET Block]
                    /\ Preds(g, Entry) = {}
                    /\ \A b \in Block \ {Entry} : Preds(g, b) # {}

VARIABLES
  succ,          \* the graph of the function; never assigned
  pc,            \* the analysis that is running
  predMap,       \* _predMap
  domMap,        \* _domMap
  cur, changed,  \* analyzeDom: block under the cursor, `changed`
  immDomMap,     \* _immDomMap, defined on the blocks already decided
  remainDom,     \* analyzeImmDom: strict dominators not stripped yet
  toRemove, nextToRemove,  \* toRemoveBlocks, nextToRemoveBlocks
  pending,       \* analyzeImmDom: blocks the current round has yet to visit
                 \* analyzeDomFrontier: <<block, pred>> pairs not walked yet
  runner,        \* analyzeDomFrontier: <<block, runner>> of the open walk
  domFrontier,   \* _domFrontier
  domTree        \* _domTree; {} where the map has no key

vars == <<succ, pc, predMap, domMap, cur, changed, immDomMap, remainDom,
          toRemove, nextToRemove, pending, runner, domFrontier, domTree>>

NoWalk == <<>>

Init ==
  /\ succ \in Graphs
  /\ pc = "pred"
  /\ predMap = [b \in Block |-> {}]
  /\ domMap = [b \in Block |-> {}]
  /\ cur = 1 /\ changed = FALSE
  /\ immDomMap = <<>> /\ remainDom = <<>>
  /\ toRemove = {} /\ nextToRemove = {} /\ pending = {}
  /\ runner = NoWalk
  /\ domFrontier = [b \in Block |-> {}]
  /\ domTree = [b \in Block |-> {}]

immVars == <<immDomMap, remainDom, toRemove, nextToRemove>>
lateVars == <<runner, domFrontier, domTree>>

AnalyzePred ==
  /\ pc = "pred"
  /\ predMap' = [b \in Block |-> Preds(succ, b)]
  /\ pc' = "dom"
  /\ domMap' = [b \in Block |-> Block]
  /\ UNCHANGED <<succ, cur, changed, pending, immVars, lateVars>>

\* Slips: InterSet as it could have gone wrong, for mutation of the checks.
InterSetUnion(b) ==
  {b} \cup {d \in Block : \E p \in predMap[b] : d \in domMap[p]}
InterSetOfOthers(b) ==
  {d \in Block : /\ predMap[b] # {}
                 /\ \A p \in predMap[b] : d \in domMap[p]}

(***************************************************************************)
(* One block of a sweep: itself and what all its predecessors' sets share.  *)
(* A block without predecessors gets an empty intersection.                 *)
(***************************************************************************)
InterSet(b) ==
  {b} \cup {d \in Block : /\ predMap[b] # {}
                          /\ \A p \in predMap[b] : d \in domMap[p]}

AnalyzeDomBlock ==
  /\ pc = "dom" /\ cur <= N
  /\ domMap' = [domMap EXCEPT ![cur] = InterSet(cur)]
  /\ changed' = (changed \/ InterSet(cur) # domMap[cur])
  /\ cur' = cur + 1
  /\ UNCHANGED <<succ, pc, predMap, pending, immVars, lateVars>>

\* Slips: AnalyzeDomAgain as it could have gone wrong, for mutation of the checks.
AnalyzeDomAgainStale ==
  /\ pc = "dom" /\ cur > N /\ changed
  /\ cur' = 1
  /\ UNCHANGED <<succ, pc, predMap, domMap, changed, pending, immVars, lateVars>>

AnalyzeDomAgain ==
  /\ pc = "dom" /\ cur > N /\ changed
  /\ cur' = 1 /\ changed' = FALSE
  /\ UNCHANGED <<succ, pc, predMap, domMap, pending, immVars, lateVars>>

\* Slips: Strict as it could have gone wrong, for mutation of the checks.
StrictWithSelf(b) == domMap[b]

(***************************************************************************)
(* The sweep changed nothing: analyzeImmDom sorts the blocks by how many    *)
(* strict dominators they have.                                             *)
(***************************************************************************)
Strict(b) == domMap[b] \ {b}

StartImmDom ==
  /\ pc = "dom" /\ cur > N /\ ~changed
  /\ pc' = "immDom"
  /\ immDomMap' = [b \in {x \in Block : Cardinality(Strict(x)) <= 1} |->
                     IF Strict(b) = {} THEN Null
                     ELSE CHOOSE d \in Strict(b) : TRUE]
  /\ remainDom' = [b \in {x \in Block : Cardinality(Strict(x)) > 1} |-> Strict(b)]
  /\ toRemove' = UNION {Strict(b) : b \in {x \in Block : Cardinality(Strict(x)) = 1}}
  /\ nextToRemove' = {}
  /\ pending' = DOMAIN remainDom'
  /\ UNCHANGED <<succ, predMap, domMap, cur, changed, lateVars>>

\* `while (it != remainDom.end())`: strip one block, decide it if one is left.
VisitImmDom(b) ==
  LET left == remainDom[b] \ toRemove IN
  /\ pc = "immDom" /\ b \in pending
  /\ pending' = pending \ {b}
  /\ IF Cardinality(left) = 1
     THEN LET d == CHOOSE x \in left : TRUE IN
          /\ immDomMap' = [x \in DOMAIN immDomMap \cup {b} |->
                             IF x = b THEN d ELSE immDomMap[x]]
          /\ nextToRemove' = nextToRemove \cup {d}
          /\ remainDom' = [x \in DOMAIN remainDom \ {b} |-> remainDom[x]]
     ELSE /\ remainDom' = [remainDom EXCEPT ![b] = left]
          /\ UNCHANGED <<immDomMap, nextToRemove>>
  /\ UNCHANGED <<succ, pc, predMap, domMap, cur, changed, toRemove, lateVars>>

NextImmDomRound ==
  /\ pc = "immDom" /\ pending = {} /\ DOMAIN remainDom # {}
  /\ toRemove' = nextToRemove /\ nextToRemove' = {}
  /\ pending' = DOMAIN remainDom
  /\ UNCHANGED <<succ, pc, predMap, domMap, cur, changed, immDomMap, remainDom, lateVars>>

\* Slips: IsJoin as it could have gone wrong, for mutation of the checks.
IsJoinOfThree(b) == Cardinality(predMap[b]) > 2

(***************************************************************************)
(* analyzeDomFrontier: every predecessor of every join starts a runner that *)
(* climbs the immediate dominators up to the join's own.                    *)
(***************************************************************************)
IsJoin(b) == Cardinality(predMap[b]) >= 2

StartFrontier ==
  /\ pc = "immDom" /\ DOMAIN remainDom = {}
  /\ pc' = "frontier"
  /\ pending' = {w \in Block \X Block :
                   IsJoin(w[1]) /\ w[2] \in predMap[w[1]]}
  /\ UNCHANGED <<succ, predMap, domMap, cur, changed, immVars, lateVars>>

\* Joins are taken in layout order, the predecessors of one in any order.
StartRunner(b, p) ==
  /\ pc = "frontier" /\ runner = NoWalk
  /\ <<b, p>> \in pending
  /\ \A w \in pending : b <= w[1]
  /\ pending' = pending \ {<<b, p>>}
  /\ runner' = <<b, p>>
  /\ UNCHANGED <<succ, pc, predMap, domMap, cur, changed, immVars, domFrontier, domTree>>

RunnerStep ==
  /\ pc = "frontier" /\ runner # NoWalk
  /\ LET b == runner[1]
         r == runner[2]
     IN IF r = immDomMap[b]
        THEN runner' = NoWalk /\ UNCHANGED domFrontier
        ELSE /\ domFrontier' = [domFrontier EXCEPT ![r] = @ \cup {b}]
             /\ runner' = <<b, immDomMap[r]>>
  /\ UNCHANGED <<succ, pc, predMap, domMap, cur, changed, pending, immVars, domTree>>

\* Slips: AnalyzeDomTree as it could have gone wrong, for mutation of the checks.
AnalyzeDomTreeUpward ==
  /\ pc = "frontier" /\ runner = NoWalk /\ pending = {}
  /\ pc' = "done"
  /\ domTree' = [b \in Block |-> {c \in DOMAIN immDomMap : immDomMap[b] = c}]
  /\ UNCHANGED <<succ, predMap, domMap, cur, changed, pending, immVars, runner, domFrontier>>

AnalyzeDomTree ==
  /\ pc = "frontier" /\ runner = NoWalk /\ pending = {}
  /\ pc' = "done"
  /\ domTree' = [b \in Block |-> {c \in DOMAIN immDomMap : immDomMap[c] = b}]
  /\ UNCHANGED <<succ, predMap, domMap, cur, changed, pending, immVars, runner, domFrontier>>

Done == pc = "done" /\ UNCHANGED vars

Next ==
  \/ AnalyzePred \/ AnalyzeDomBlock \/ AnalyzeDomAgain
  \/ StartImmDom \/ (\E b \in Block : VisitImmDom(b)) \/ NextImmDomRound
  \/ StartFrontier \/ (\E b, p \in Block : StartRunner(b, p)) \/ RunnerStep
  \/ AnalyzeDomTree \/ Done

Spec == Init /\ [][Next]_vars
FairSpec == Spec /\ WF_vars(Next)

-----------------------------------------------------------------------------
(***************************************************************************)
(* When analyzeDom stops, its sets are exactly the dominators of each       *)
(* block, whatever the layout order the sweeps follow.                      *)
(***************************************************************************)
DomComputed == pc \in {"immDom", "frontier", "done"}
DomCorrect ==
  DomComputed => \A b \in Block : domMap[b] = Dominators(succ, Entry, b)

(***************************************************************************)
(* While analyzeDom sweeps, no dominator has been lost: an interrupted      *)
(* sweep errs only by listing too many.                                     *)
(***************************************************************************)
DomNeverLost ==
  pc # "pred" => \A b \in Block : Dominators(succ, Entry, b) \subseteq domMap[b]

(***************************************************************************)
(* A block the stripping has decided has its closest strict dominator: the  *)
(* one every other strict dominator dominates.  The entry alone has none.   *)
(***************************************************************************)
ImmDomCorrect ==
  LET dom == DomSets(succ, Entry) IN
  \A b \in DOMAIN immDomMap :
    IF b = Entry THEN immDomMap[b] = Null ELSE IsImmDom(dom, immDomMap[b], b)

(***************************************************************************)
(* The frontier of x is the blocks where x's dominance ends: x dominates a  *)
(* predecessor and does not strictly dominate the block itself.  No runner  *)
(* climbs past the entry, where _immDomMap.at would throw.                  *)
(***************************************************************************)
FrontierCorrect ==
  /\ runner # NoWalk => runner[2] \in Block \cup {immDomMap[runner[1]]}
  /\ pc = "done" => LET dom == DomSets(succ, Entry) IN
                    \A x \in Block : domFrontier[x] = Frontier(succ, dom, x)

(***************************************************************************)
(* MemoryProm::replace recurses over _domTree from the entry and handles a  *)
(* block's loads and stores once: the tree reaches every block, each by one *)
(* parent.                                                                  *)
(***************************************************************************)
TreeSpansFunction ==
  pc = "done" =>
    /\ Reachable(domTree, Entry) = Block
    /\ \A b \in Block : Cardinality(Preds(domTree, b)) = IF b = Entry THEN 0 ELSE 1

\* A sweep only ever strikes blocks off a dominator set.
DomOnlyShrinks ==
  [][pc = "dom" => \A b \in Block : domMap'[b] \subseteq domMap[b]]_vars

\* Every loop of the analysis ends.
Terminates == <>(pc = "done")
=============================================================================
