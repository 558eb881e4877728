-------------------------- MODULE BranchOptiProofs --------------------------
(***************************************************************************)
(* BranchOpti erases no block that can run, for functions of any size.      *)
(* removeUnreachable decides by counting uses and comparing layout          *)
(* positions; what makes that enough is that branches to earlier blocks     *)
(* go to dominators, which folding, erasing and merging all preserve.       *)
(***************************************************************************)
EXTENDS BranchOpti, FlowGraphProofs, FiniteSetTheorems, TLAPS

\* The sweeps that erase start behind the entry block.
CursorOK == pc \in {"remove", "merge"} => at >= Entry

TypeInv == TypeOK /\ CursorOK

LEMMA TypeInit == Init => TypeInv
<1> SUFFICES ASSUME Init PROVE TypeInv
  OBVIOUS
<1>1. /\ fn.term \in [Block -> [1..2 -> Dest]]
      /\ fn.hasPhi \subseteq Block
  BY FunctionsAssumption DEF Init
<1>2. Entry \in Block /\ 0 \in 0..N
  BY NAssumption DEF Block, Entry
<1>3. phi \in [Block -> SUBSET Block]
  BY DEF Init, Preds, Flow
<1>4. body \in [Block -> Seq(Block) \ {<<>>}]
  <2>1. \A b \in Block : <<b>> \in Seq(Block) \ {<<>>}
    OBVIOUS
  <2> QED
    BY <2>1 DEF Init
<1> QED
  BY <1>1, <1>2, <1>3, <1>4 DEF Init, TypeInv, TypeOK, CursorOK, Conds

LEMMA RemoveIncomingType ==
  ASSUME TypeOK, NEW T, NEW b \in Block, RemoveIncoming(T, b)
  PROVE  hasPhi' \subseteq Block /\ phi' \in [Block -> SUBSET Block]
BY DEF TypeOK, RemoveIncoming

LEMMA TypeStep == TypeInv /\ [Next]_vars => TypeInv'
<1> SUFFICES ASSUME TypeInv, [Next]_vars PROVE TypeInv'
  OBVIOUS
<1> USE NAssumption DEF TypeInv, CursorOK
<1>1. ASSUME NEW b \in Block, NEW v \in {"0", "1"}, DiscoverConst(b, v) PROVE TypeInv'
  BY <1>1 DEF DiscoverConst, TypeOK, Conds
<1>2. CASE StartCall
  <2>1. at' \in 0..N /\ pc' = "fold"
    BY <1>2 DEF StartCall
  <2>2. toContinue' \in BOOLEAN /\ changed' \in BOOLEAN /\ dirty' \in BOOLEAN
    BY <1>2 DEF StartCall
  <2> QED
    BY <1>2, <2>1, <2>2 DEF StartCall, irVars, TypeOK
<1>3. ASSUME NEW b \in Block, Fold(b) PROVE TypeInv'
  <2> USE <1>3
  <2>1. b \in 0..N
    BY DEF Block
  <2>2. CASE IsConditional(term[b]) /\ known[Branch(b)] # "runtime"
    <3> DEFINE k    == TakenSide(known[Branch(b)])
               kept == term[b][k]
               cut  == term[b][3 - k]
    <3>1. kept \in Dest
      BY DEF TypeOK, TakenSide
    <3>2. Br(kept) \in [1..2 -> Dest]
      BY <3>1, NAssumption DEF Br, Dest, None
    <3>3. /\ term' = [term EXCEPT ![b] = Br(kept)]
          /\ RemoveIncoming({cut} \ {Null}, b)
          /\ toContinue' = (toContinue \/ cut # Null)
          /\ UNCHANGED <<fn, alive, known, body, pc, changed, dirty>> /\ at' = b
      BY <2>2 DEF Fold
    <3>4. hasPhi' \subseteq Block /\ phi' \in [Block -> SUBSET Block]
      BY <3>3, RemoveIncomingType
    <3>5. term' \in [Block -> [1..2 -> Dest]]
      BY <3>2, <3>3 DEF TypeOK
    <3> HIDE DEF kept, cut
    <3>6. toContinue' \in BOOLEAN
      BY <3>3 DEF TypeOK
    <3>7. pc = "fold"
      BY DEF Fold
    <3> QED
      BY <2>1, <3>3, <3>4, <3>5, <3>6, <3>7 DEF TypeOK
  <2>3. CASE ~(IsConditional(term[b]) /\ known[Branch(b)] # "runtime")
    BY <2>1, <2>3 DEF Fold, TypeOK
  <2> QED
    BY <2>2, <2>3
<1>4. CASE FoldDone
  BY <1>4 DEF FoldDone, irVars, TypeOK, Entry
<1>5. ASSUME NEW b \in Block, Remove(b) PROVE TypeInv'
  <2> USE <1>5
  <2>0. pc = "remove" /\ at' = b /\ Visits(b)
    BY DEF Remove
  <2>1. b \in 0..N /\ at \in 0..N /\ at < b /\ at >= Entry /\ pc = "remove" /\ at' = b
    <3> HIDE <1>5
    <3>1. at \in 0..N /\ at >= Entry
      BY <2>0 DEF TypeOK
    <3>2. at < b /\ b \in 0..N
      BY <2>0 DEF Block, Visits
    <3> QED
      BY <2>0, <3>1, <3>2
  <2>2. CASE Kept(b)
    <3>1. UNCHANGED <<fn, alive, term, known, body, hasPhi, phi, pc, toContinue, changed, dirty>>
      BY <2>2 DEF Remove
    <3> QED
      BY <2>1, <3>1 DEF TypeOK
  <2>3. CASE ~Kept(b)
    <3>1. hasPhi' \subseteq Block /\ phi' \in [Block -> SUBSET Block]
      BY <2>3, RemoveIncomingType DEF Remove
    <3>4. term' \in [Block -> [1..2 -> Dest]]
      <4>1. Ret \in [1..2 -> Dest] /\ Null \in Dest
        BY NAssumption DEF Ret, Dest, None, Null
      <4>2. \A p \in Block : [k \in 1..2 |-> IF term[p][k] = b THEN Null ELSE term[p][k]]
                             \in [1..2 -> Dest]
        BY <4>1 DEF TypeOK
      <4> QED
        BY <2>3, <4>1, <4>2 DEF Remove
    <3>5. alive' \subseteq Block /\ Entry \in alive'
      BY <2>1, <2>3 DEF Remove, TypeOK, Entry
    <3> QED
      BY <2>1, <2>3, <3>1, <3>4, <3>5 DEF Remove, TypeOK, Entry
  <2> QED
    BY <2>2, <2>3
<1>6. CASE RemoveDone
  <2>1. changed' \in BOOLEAN
    BY <1>6 DEF RemoveDone, TypeOK
  <2>2. pc' \in {"fold", "merge"} /\ at' \in 0..N /\ (pc' = "merge" => at' >= Entry)
    BY <1>6 DEF RemoveDone, Entry
  <2> QED
    BY <1>6, <2>1, <2>2 DEF RemoveDone, irVars, TypeOK
<1>7. ASSUME NEW b \in Block, Merge(b) PROVE TypeInv'
  <2> USE <1>7
  <2>0. pc = "merge" /\ at' = b /\ Visits(b)
    BY DEF Merge
  <2>1. b \in 0..N /\ at < b /\ at \in 0..N /\ at >= Entry /\ pc = "merge" /\ at' = b
    <3> HIDE <1>7
    <3>1. at \in 0..N /\ at >= Entry
      BY <2>0 DEF TypeOK
    <3>2. at < b /\ b \in 0..N
      BY <2>0 DEF Block, Visits
    <3> QED
      BY <2>0, <3>1, <3>2
  <2>2. ASSUME NEW p \in alive, MergeInto(p, b), Absorb(p, b) PROVE TypeInv'
    <3>1. p \in Block
      BY DEF TypeOK
    <3>2. UNCHANGED <<fn, known, hasPhi, pc, changed, dirty>>
      BY DEF Merge
    <3>3. phi' \in [Block -> SUBSET Block]
      BY <2>2, <3>1 DEF TypeOK, Absorb
    <3>4. term' \in [Block -> [1..2 -> Dest]]
      <4>1. Ret \in [1..2 -> Dest]
        BY NAssumption DEF Ret, Dest, None
      <4>2. [term EXCEPT ![p] = term[b]] \in [Block -> [1..2 -> Dest]]
        BY <3>1 DEF TypeOK
      <4>3. term' = [[term EXCEPT ![p] = term[b]] EXCEPT ![b] = Ret]
        BY <2>2 DEF Absorb
      <4> QED
        BY <4>1, <4>2, <4>3
    <3>5. body[p] \o body[b] \in Seq(Block) \ {<<>>}
      BY <3>1 DEF TypeOK
    <3>6. body' \in [Block -> Seq(Block) \ {<<>>}]
      BY <2>2, <3>1, <3>5 DEF TypeOK, Absorb
    <3>7. alive' \subseteq Block /\ Entry \in alive' /\ toContinue' = TRUE
      BY <2>1, <2>2 DEF TypeOK, Entry, Absorb
    <3> QED
      BY <2>1, <3>2, <3>3, <3>4, <3>6, <3>7 DEF TypeOK, Entry
  <2>3. CASE ~\E p \in alive : MergeInto(p, b)
    <3>1. UNCHANGED <<fn, alive, term, known, body, hasPhi, phi, pc, toContinue, changed, dirty>>
      BY <2>3 DEF Merge
    <3> QED
      BY <2>1, <3>1 DEF TypeOK, Entry
  <2> QED
    BY <2>2, <2>3 DEF Merge
<1>8. CASE MergeDone
  <2>1. changed' \in BOOLEAN /\ dirty' \in BOOLEAN
    BY <1>8 DEF MergeDone, TypeOK
  <2>2. pc' \in {"idle", "merge"} /\ at' \in 0..N /\ (pc' = "merge" => at' >= Entry)
    BY <1>8 DEF MergeDone, Entry
  <2> QED
    BY <1>8, <2>1, <2>2 DEF MergeDone, irVars, TypeOK
<1>9. CASE UNCHANGED vars
  BY <1>9 DEF vars, TypeOK
<1> QED
  BY <1>1, <1>2, <1>3, <1>4, <1>5, <1>6, <1>7, <1>8, <1>9 DEF Next, Pass

(***************************************************************************)
(* Type correctness of the pass on functions of any size.                   *)
(***************************************************************************)
THEOREM TypeCorrect == Spec => []TypeOK
<1>1. Spec => []TypeInv
  BY TypeInit, TypeStep, PTL DEF Spec
<1>2. TypeInv => TypeOK
  BY DEF TypeInv
<1> QED
  BY <1>1, <1>2, PTL

-----------------------------------------------------------------------------
\* No branch goes back to the entry block.
NoEntryUse == \A p \in alive : \A k \in 1..2 : term[p][k] # Entry

(***************************************************************************)
(* The inductive invariant: ReachableKept alone does not survive the next   *)
(* erasure, the shape of the layout has to be carried along.                *)
(***************************************************************************)
KeptInv == TypeInv /\ NoEntryUse /\ RetreatDominated(Graph) /\ ReachableKept

LEMMA GraphType ==
  /\ DOMAIN Graph = Block
  /\ \A x \in Block : Graph[x] \subseteq Block
BY DEF Graph, Flow, Targets

LEMMA GraphEdge ==
  ASSUME NEW x \in Block, NEW y
  PROVE  y \in Graph[x] <=> x \in alive /\ y \in Block /\ \E k \in 1..2 : term[x][k] = y
BY DEF Graph, Flow, Targets

LEMMA EntryInBlock == Entry \in Block
BY NAssumption DEF Entry, Block

\* What ReachableKept says, without the LETs.
LEMMA ReachableKeptDef ==
  ReachableKept <=> \A b \in Live : b \in alive /\ \A k \in 1..2 : term[b][k] \in alive \cup {None}
BY DEF ReachableKept

LEMMA LiveDef == Live = Reachable(Graph, Entry)
BY DEF Live

\* Everything a block that can run branches to can run.
LEMMA LiveClosed ==
  /\ Entry \in Live /\ Live \subseteq Block
  /\ \A x \in Live : Graph[x] \subseteq Live
BY GraphType, EntryInBlock, ReachableClosed, LiveDef DEF Closed

\* A set with at most one element, and one in hand, is that singleton.
LEMMA OnlyElement ==
  ASSUME NEW S, IsFiniteSet(S), NEW u \in S, ~(Cardinality(S) > 1)
  PROVE  S = {u}
<1>1. IsFiniteSet(S \ {u}) /\ Cardinality(S \ {u}) = Cardinality(S) - 1
  BY FS_RemoveElement
<1>2. Cardinality(S) \in Nat /\ Cardinality(S \ {u}) \in Nat
  BY <1>1, FS_CardinalityType
<1>3. Cardinality(S \ {u}) = 0
  BY <1>1, <1>2
<1> QED
  BY <1>1, <1>3, FS_EmptySet

LEMMA OperandsFinite == IsFiniteSet(Block \X (1..2))
<1>1. 1 \in Int /\ 2 \in Int /\ N \in Int
  BY NAssumption
<1>2. IsFiniteSet(Block) /\ IsFiniteSet(1..2)
  BY <1>1, FS_Interval DEF Block
<1> QED
  BY <1>2, FS_Product

LEMMA UsesFinite == ASSUME TypeOK, NEW b PROVE IsFiniteSet(Uses(b))
<1>1. Uses(b) \in SUBSET (Block \X (1..2))
  BY DEF Uses, TypeOK
<1> QED
  BY <1>1, OperandsFinite, FS_Subset

(***************************************************************************)
(* What removeUnreachable erases cannot run: with a single use, and that by *)
(* the block itself or a later one, every branch to it retreats.            *)
(***************************************************************************)
LEMMA RemovedIsUnreachable ==
  ASSUME KeptInv, NEW b \in Block, b # Entry, ~Kept(b)
  PROVE  b \notin Live
<1>1. ASSUME NEW p \in Preds(Graph, b) PROVE Dominates(Graph, Entry, b, p)
  <2>1. p \in Block /\ b \in Graph[p]
    BY GraphType DEF Preds
  <2>2. PICK k \in 1..2 : p \in alive /\ term[p][k] = b
    BY <2>1, GraphEdge
  <2>3. <<p, k>> \in Uses(b)
    BY <2>2 DEF Uses
  <2>4. Uses(b) = {<<p, k>>}
    BY <2>3, UsesFinite, OnlyElement DEF KeptInv, TypeInv, Kept
  <2>5. ~(p < b)
    BY <2>2, <2>4 DEF Kept
  <2>6. b <= p
    BY <2>1, <2>5 DEF Block
  <2> QED
    BY <2>1, <2>6 DEF KeptInv, RetreatDominated
<1> QED
  BY <1>1, GraphType, EntryInBlock, SelfDominatedUnreachable, LiveDef

\* Dropping branches keeps the layout property and reaches nothing new.
LEMMA FewerBranches ==
  ASSUME KeptInv, DOMAIN Graph' = Block, \A x \in Block : Graph'[x] \subseteq Graph[x]
  PROVE  RetreatDominated(Graph)' /\ Live' \subseteq Live
<1>1. Live' = Reachable(Graph', Entry)
  BY DEF Live
<1>2. \A S \in ClosedSets(Graph, Entry) : Closed(Graph', S)
  BY GraphType DEF ClosedSets, Closed
<1>3. Live' \subseteq Live
  BY <1>1, <1>2, GraphType, ReachableMonotone, LiveDef
<1>4. ASSUME NEW b \in Block, NEW t \in Graph'[b], t <= b
      PROVE  Dominates(Graph', Entry, t, b)
  <2>1. Dominates(Graph, Entry, t, b)
    BY <1>4 DEF KeptInv, RetreatDominated
  <2> QED
    BY <2>1, GraphType, DominatesMonotone
<1> QED
  BY <1>3, <1>4 DEF RetreatDominated

LEMMA KeptInit == Init => KeptInv
<1> SUFFICES ASSUME Init PROVE KeptInv
  OBVIOUS
<1> DEFINE g == Flow(fn.term, Block)
<1>1. /\ \A b \in Block : IsTerm(fn.term[b])
      /\ Preds(g, Entry) = {}
      /\ RetreatDominated(g)
      /\ term = fn.term /\ alive = Block
  BY FunctionsAssumption DEF Init
<1>2. Graph = g
  BY <1>1 DEF Graph
<1>3. RetreatDominated(Graph)
  BY <1>1, <1>2
<1>4. NoEntryUse
  BY <1>1, <1>2, GraphEdge, GraphType, EntryInBlock DEF NoEntryUse, Preds
<1>5. \A b \in Block : \A k \in 1..2 : term[b][k] \in alive \cup {None}
  BY <1>1 DEF IsTerm
<1>6. ReachableKept
  BY <1>1, <1>5, LiveClosed, ReachableKeptDef
<1> QED
  BY <1>3, <1>4, <1>6, TypeInit DEF KeptInv

\* Steps that leave the blocks and their branches alone.
LEMMA SameGraph ==
  ASSUME KeptInv, TypeInv', UNCHANGED <<alive, term>>
  PROVE  KeptInv' /\ Live' = Live
<1>1. Graph' = Graph
  BY DEF Graph
<1>2. Live' = Live
  BY <1>1 DEF Live
<1>3. RetreatDominated(Graph)'
  BY <1>1 DEF KeptInv, RetreatDominated
<1> QED
  BY <1>2, <1>3 DEF KeptInv, NoEntryUse, ReachableKept

LEMMA KeptFold ==
  ASSUME KeptInv, TypeInv', NEW b \in Block, Fold(b)
  PROVE  KeptInv' /\ Live' \subseteq Live
<1>1. CASE ~(IsConditional(term[b]) /\ known[Branch(b)] # "runtime")
  BY <1>1, SameGraph DEF Fold
<1>2. CASE IsConditional(term[b]) /\ known[Branch(b)] # "runtime"
  <2>1. PICK i \in 1..2 : term' = [term EXCEPT ![b] = Br(term[b][i])]
    <3>1. TakenSide(known[Branch(b)]) \in 1..2
      BY DEF TakenSide
    <3>2. term' = [term EXCEPT ![b] = Br(term[b][TakenSide(known[Branch(b)])])]
      BY <1>2 DEF Fold
    <3> QED
      BY <3>1, <3>2
  <2>2. alive' = alive /\ b \in alive
    BY DEF Fold, Visits
  <2>3. /\ \A x \in Block \ {b} : term'[x] = term[x]
        /\ term'[b] = Br(term[b][i])
    BY <2>1 DEF KeptInv, TypeInv, TypeOK
  <2>4. term'[b][1] = term[b][i] /\ term'[b][2] = None
    BY <2>3 DEF Br
  <2>5. \A x \in Block : Graph'[x] \subseteq Graph[x]
    <3>1. None \notin Block
      BY NAssumption DEF None, Block
    <3> QED
      BY <2>2, <2>3, <2>4, <3>1 DEF Graph, Flow, Targets
  <2>6. RetreatDominated(Graph)' /\ Live' \subseteq Live
    BY <2>5, FewerBranches DEF Graph, Flow
  <2>7. NoEntryUse'
    <3>1. None # Entry
      BY NAssumption DEF None, Entry
    <3> SUFFICES ASSUME NEW p \in alive, NEW k \in 1..2 PROVE term'[p][k] # Entry
      BY <2>2 DEF NoEntryUse
    <3>2. p \in Block /\ \A j \in 1..2 : term[p][j] # Entry
      BY DEF KeptInv, TypeInv, TypeOK, NoEntryUse
    <3> QED
      BY <2>3, <2>4, <3>1, <3>2
  <2>8. \A x \in Live' : x \in alive' /\ \A k \in 1..2 : term'[x][k] \in alive' \cup {None}
    <3> SUFFICES ASSUME NEW x \in Live', NEW k \in 1..2
                 PROVE  x \in alive' /\ term'[x][k] \in alive' \cup {None}
      OBVIOUS
    <3>1. x \in Live /\ x \in Block
      BY <2>6, LiveClosed
    <3>2. x \in alive /\ \A j \in 1..2 : term[x][j] \in alive \cup {None}
      BY <3>1, ReachableKeptDef DEF KeptInv
    <3> QED
      BY <2>2, <2>3, <2>4, <3>1, <3>2
  <2> QED
    BY <2>6, <2>7, <2>8 DEF KeptInv, ReachableKept
<1> QED
  BY <1>1, <1>2

LEMMA KeptRemove ==
  ASSUME KeptInv, TypeInv', NEW b \in Block, Remove(b)
  PROVE  KeptInv' /\ Live' \subseteq Live
<1>1. CASE Kept(b)
  BY <1>1, SameGraph DEF Remove
<1>2. CASE ~Kept(b)
  <2>1. b # Entry
    BY DEF KeptInv, TypeInv, CursorOK, Remove, Visits, TypeOK, Entry, Block
  <2>2. b \notin Live
    BY <1>2, <2>1, RemovedIsUnreachable
  <2>3. alive' = alive \ {b}
    BY <1>2 DEF Remove
  <2>4. \A x \in Block \ {b} : \A k \in 1..2 :
          term'[x][k] = IF term[x][k] = b THEN Null ELSE term[x][k]
    BY <1>2 DEF Remove
  <2>5. Null \notin Block /\ Null # Entry
    BY DEF Null, Block, Entry
  <2>6. \A x \in Block : Graph'[x] \subseteq Graph[x]
    BY <2>3, <2>4, <2>5 DEF Graph, Flow, Targets
  <2>7. RetreatDominated(Graph)' /\ Live' \subseteq Live
    BY <2>6, FewerBranches DEF Graph, Flow
  <2>8. NoEntryUse'
    <3> SUFFICES ASSUME NEW p \in alive', NEW k \in 1..2 PROVE term'[p][k] # Entry
      BY DEF NoEntryUse
    <3>1. p \in alive /\ p \in Block \ {b} /\ term[p][k] # Entry
      BY <2>3 DEF KeptInv, TypeInv, TypeOK, NoEntryUse
    <3> QED
      BY <2>4, <2>5, <3>1
  <2>9. ASSUME NEW x \in Live', NEW k \in 1..2
        PROVE  x \in alive' /\ term'[x][k] \in alive' \cup {None}
    <3>1. x \in Live /\ x \in Block \ {b}
      BY <2>2, <2>7, LiveClosed
    <3>2. x \in alive /\ term[x][k] \in alive \cup {None}
      BY <3>1, ReachableKeptDef DEF KeptInv
    <3>3. term[x][k] # b
      BY <2>2, <3>1, <3>2, LiveClosed, GraphEdge
    <3> QED
      BY <2>3, <2>4, <3>1, <3>2, <3>3
  <2> QED
    BY <2>7, <2>8, <2>9 DEF KeptInv, ReachableKept
<1> QED
  BY <1>1, <1>2

(***************************************************************************)
(* Merging b into the block p that alone jumps to it: p takes over b's       *)
(* branches, every other block keeps its own.                               *)
(***************************************************************************)
LEMMA MergedGraph ==
  ASSUME KeptInv, NEW b \in Block, NEW p \in alive, MergeInto(p, b), Absorb(p, b), b \in alive
  PROVE  /\ p \in Block /\ p < b /\ b # Entry
         /\ Graph[p] = {b}
         /\ \A x \in Block \ {p} : b \notin Graph[x]
         /\ Graph'[p] = Graph[b] /\ Graph'[b] = {}
         /\ \A x \in Block \ {p, b} : Graph'[x] = Graph[x]
         /\ DOMAIN Graph' = Block
         /\ term'[p] = term[b] /\ \A x \in Block \ {p, b} : term'[x] = term[x]
<1>1. p \in Block /\ p < b /\ p # b /\ b # Entry
  BY DEF KeptInv, TypeInv, TypeOK, MergeInto, Block, Entry
<1>2. term[p][1] = b /\ term[p][2] = None
  <2>1. <<p, 1>> \in Uses(b) /\ term[p][2] = None
    BY DEF MergeInto, IsJump
  <2> QED
    BY <2>1 DEF Uses
<1>3. None \notin Block
  BY NAssumption DEF None, Block
<1>4. Graph[p] = {b}
  BY <1>1, <1>2, <1>3 DEF Graph, Flow, Targets
<1>5. ASSUME NEW x \in Block \ {p} PROVE b \notin Graph[x]
  <2> SUFFICES ASSUME b \in Graph[x] PROVE FALSE
    OBVIOUS
  <2>1. PICK k \in 1..2 : x \in alive /\ term[x][k] = b
    BY GraphEdge
  <2>2. <<x, k>> \in Uses(b)
    BY <2>1 DEF Uses
  <2> QED
    BY <2>2 DEF MergeInto
<1>6. /\ term'[p] = term[b]
      /\ \A x \in Block \ {p, b} : term'[x] = term[x]
  BY <1>1 DEF KeptInv, TypeInv, TypeOK, Absorb
<1>7. alive' = alive \ {b}
  BY DEF Absorb
<1>8. Graph'[p] = Graph[b] /\ Graph'[b] = {}
  BY <1>1, <1>6, <1>7 DEF Graph, Flow
<1>9. \A x \in Block \ {p, b} : Graph'[x] = Graph[x]
  BY <1>6, <1>7 DEF Graph, Flow
<1>10. DOMAIN Graph' = Block
  BY DEF Graph, Flow
<1> QED
  BY <1>1, <1>4, <1>5, <1>6, <1>8, <1>9, <1>10

LEMMA KeptMerge ==
  ASSUME KeptInv, TypeInv', NEW b \in Block, Merge(b)
  PROVE  KeptInv' /\ Live' \subseteq Live
<1>1. CASE ~\E p \in alive : MergeInto(p, b)
  BY <1>1, SameGraph DEF Merge
<1>2. ASSUME NEW p \in alive, MergeInto(p, b), Absorb(p, b)
      PROVE  KeptInv' /\ Live' \subseteq Live
  <2>0. b \in alive /\ alive' = alive \ {b}
    BY <1>2 DEF Merge, Visits, Absorb
  <2>1. /\ p \in Block /\ p < b /\ b # Entry
        /\ Graph[p] = {b}
        /\ \A x \in Block \ {p} : b \notin Graph[x]
        /\ Graph'[p] = Graph[b] /\ Graph'[b] = {}
        /\ \A x \in Block \ {p, b} : Graph'[x] = Graph[x]
        /\ DOMAIN Graph' = Block
        /\ term'[p] = term[b] /\ \A x \in Block \ {p, b} : term'[x] = term[x]
    BY <1>2, <2>0, MergedGraph
  <2>2. \A S \in ClosedSets(Graph, Entry) : Closed(Graph', S)
    BY <2>1, GraphType DEF ClosedSets, Closed
  <2>3. Live' \subseteq Live
    <3>1. Live' = Reachable(Graph', Entry)
      BY DEF Live
    <3> QED
      BY <2>1, <2>2, <3>1, GraphType, ReachableMonotone, LiveDef
  <2>4. b \notin Live'
    <3>1. \A x \in Block : b \notin Graph'[x]
      BY <2>1
    <3>2. Preds(Graph', b) = {}
      BY <2>1, <3>1 DEF Preds
    <3>3. \A x \in Block : Graph'[x] \subseteq Block
      BY DEF Graph, Flow, Targets
    <3>4. b \notin Reachable(Graph', Entry)
      BY <2>1, <3>2, <3>3, EntryInBlock, SelfDominatedUnreachable
    <3> QED
      BY <3>4 DEF Live
  <2>5. ASSUME NEW x \in Block, NEW t \in Graph'[x], t <= x
        PROVE  Dominates(Graph', Entry, t, x)
    <3>1. CASE x = p
      <4>1. t \in Graph[b] /\ t <= b /\ t # b
        BY <2>1, <2>5, <3>1, GraphType DEF Block
      <4>2. Dominates(Graph, Entry, t, b)
        BY <4>1 DEF KeptInv, RetreatDominated
      <4>3. PICK S \in SUBSET Block : Separates(Graph, Entry, t, b, S)
        BY <4>2, GraphType DEF Dominates
      <4>4. Separates(Graph', Entry, t, p, S)
        BY <2>1, <4>1, <4>3 DEF Separates
      <4> QED
        BY <2>1, <3>1, <4>4 DEF Dominates
    <3>2. CASE x # p
      <4>1. x # b /\ t \in Graph[x] /\ t # b
        BY <2>1, <2>5, <3>2
      <4>2. Dominates(Graph, Entry, t, x)
        BY <2>5, <4>1 DEF KeptInv, RetreatDominated
      <4>3. PICK S \in SUBSET Block : Separates(Graph, Entry, t, x, S)
        BY <4>2, GraphType DEF Dominates
      <4>4. Separates(Graph', Entry, t, x, S)
        BY <2>1, <4>1, <4>3 DEF Separates
      <4> QED
        BY <2>1, <4>4 DEF Dominates
    <3> QED
      BY <3>1, <3>2
  <2>6. NoEntryUse'
    <3> SUFFICES ASSUME NEW x \in alive', NEW k \in 1..2 PROVE term'[x][k] # Entry
      BY DEF NoEntryUse
    <3>1. x \in Block \ {b}
      BY <2>0 DEF KeptInv, TypeInv, TypeOK
    <3> QED
      BY <2>0, <2>1, <3>1 DEF KeptInv, NoEntryUse
  <2>7. ASSUME NEW x \in Live', NEW k \in 1..2
        PROVE  x \in alive' /\ term'[x][k] \in alive' \cup {None}
    <3>1. x \in Live /\ x \in Block \ {b} /\ x \in alive
      BY <2>3, <2>4, LiveClosed, ReachableKeptDef DEF KeptInv
    <3>2. CASE x = p
      <4>1. b \in Live
        BY <2>1, <3>1, <3>2, LiveClosed
      <4>2. term[b][k] \in alive \cup {None}
        BY <4>1, ReachableKeptDef DEF KeptInv
      <4>3. term[b][k] # b
        BY <2>0, <2>1, GraphEdge
      <4> QED
        BY <2>0, <2>1, <3>1, <3>2, <4>2, <4>3
    <3>3. CASE x # p
      <4>1. term[x][k] \in alive \cup {None}
        BY <3>1, ReachableKeptDef DEF KeptInv
      <4>2. term[x][k] # b
        BY <2>1, <3>1, <3>3, GraphEdge
      <4> QED
        BY <2>0, <2>1, <3>1, <3>3, <4>1, <4>2
    <3> QED
      BY <3>2, <3>3
  <2> QED
    BY <2>3, <2>5, <2>6, <2>7 DEF KeptInv, ReachableKept, RetreatDominated
<1> QED
  BY <1>1, <1>2 DEF Merge

LEMMA KeptStep == KeptInv /\ [Next]_vars => KeptInv'
<1> SUFFICES ASSUME KeptInv, [Next]_vars PROVE KeptInv'
  OBVIOUS
<1>0. TypeInv'
  BY TypeStep DEF KeptInv
<1>1. CASE UNCHANGED vars \/ StartCall \/ FoldDone \/ RemoveDone \/ MergeDone
  <2>1. UNCHANGED <<alive, term>>
    BY <1>1 DEF vars, irVars, StartCall, FoldDone, RemoveDone, MergeDone
  <2> QED
    BY <1>0, <2>1, SameGraph
<1>2. ASSUME NEW b \in Block, NEW v \in {"0", "1"}, DiscoverConst(b, v) PROVE KeptInv'
  BY <1>0, <1>2, SameGraph DEF DiscoverConst
<1>3. ASSUME NEW b \in Block, Fold(b) \/ Remove(b) \/ Merge(b) PROVE KeptInv'
  BY <1>0, <1>3, KeptFold, KeptRemove, KeptMerge
<1> QED
  BY <1>1, <1>2, <1>3 DEF Next, Pass

(***************************************************************************)
(* No block that can run is ever erased, for functions of any size.         *)
(***************************************************************************)
THEOREM ReachableNeverErased == Spec => []ReachableKept
<1>1. Spec => []KeptInv
  BY KeptInit, KeptStep, PTL DEF Spec
<1>2. KeptInv => ReachableKept
  BY DEF KeptInv
<1> QED
  BY <1>1, <1>2, PTL

-----------------------------------------------------------------------------
\* A block's instructions stay first in it.
StartsItself == \A b \in alive : body[b][1] = b

\* No two operands of one branch name the same block.
DistinctTargets == \A p \in alive : term[p][1] = term[p][2] => term[p][1] \notin Block

\* What PhiMatchesPreds says of one block.
PhiOf(b) == phi[b] = Preds(Graph, b) /\ Cardinality(phi[b]) >= 2

(***************************************************************************)
(* The inductive invariant behind the phis: a branch whose two targets were *)
(* one block would lose two incoming edges and one _incoming entry.         *)
(***************************************************************************)
PhiInv == KeptInv /\ StartsItself /\ DistinctTargets /\ PhiMatchesPreds

LEMMA PhiMatchesPredsDef ==
  PhiMatchesPreds <=> /\ \A b \in hasPhi \cap alive : PhiOf(b)
                      /\ \A b \in alive : \A k \in 2..Len(body[b]) : body[b][k] \notin hasPhi
BY DEF PhiMatchesPreds, PhiOf

LEMMA PredsOf ==
  ASSUME NEW b \in Block, NEW x
  PROVE  x \in Preds(Graph, b) <=> x \in Block /\ b \in Graph[x]
BY GraphType DEF Preds

\* Steps that leave the blocks, their bodies, branches and phis alone.
LEMMA PhiSame ==
  ASSUME PhiInv, KeptInv', UNCHANGED <<alive, term, body, hasPhi, phi>>
  PROVE  PhiInv'
<1>1. Graph' = Graph
  BY DEF Graph
<1>2. \A b : PhiOf(b)' <=> PhiOf(b)
  BY <1>1 DEF PhiOf
<1> QED
  BY <1>2, PhiMatchesPredsDef DEF PhiInv, StartsItself, DistinctTargets, PhiMatchesPreds, PhiOf

LEMMA PhiInit == Init => PhiInv
<1> SUFFICES ASSUME Init PROVE PhiInv
  OBVIOUS
<1>1. /\ \A b \in Block : IsTerm(fn.term[b])
      /\ fn.hasPhi \subseteq {b \in Block : Cardinality(Preds(Flow(fn.term, Block), b)) >= 2}
  BY FunctionsAssumption DEF Init
<1>2. Graph = Flow(fn.term, Block) /\ hasPhi = fn.hasPhi /\ term = fn.term /\ alive = Block
  BY DEF Init, Graph
<1>3. \A b \in Block : body[b] = <<b>>
  BY DEF Init
<1>4. StartsItself
  BY <1>2, <1>3 DEF StartsItself
<1>5. DistinctTargets
  <2> SUFFICES ASSUME NEW p \in Block, term[p][1] = term[p][2] PROVE term[p][1] \notin Block
    BY <1>2 DEF DistinctTargets
  <2>1. term[p] = Ret
    BY <1>1, <1>2 DEF IsTerm
  <2> QED
    BY <2>1, NAssumption DEF Ret, None, Block
<1>6. \A b \in hasPhi \cap alive : PhiOf(b)
  BY <1>1, <1>2 DEF Init, PhiOf
<1>7. \A b \in alive : \A k \in 2..Len(body[b]) : body[b][k] \notin hasPhi
  <2>1. \A b \in alive : Len(body[b]) = 1
    BY <1>2, <1>3
  <2> QED
    BY <2>1
<1> QED
  BY <1>4, <1>5, <1>6, <1>7, KeptInit, PhiMatchesPredsDef DEF PhiInv

(***************************************************************************)
(* removeIncoming where the graph lost exactly the edges from b to T: the   *)
(* phis of the targets lose that one operand, a phi with a single operand   *)
(* left goes, and every other phi still fits.                               *)
(***************************************************************************)
LEMMA PhiEdgesCut ==
  ASSUME PhiInv, NEW T, NEW b \in Block, RemoveIncoming(T, b),
         NEW t \in hasPhi' \cap alive, t \in Block,
         t \in T => b \in Preds(Graph, t),
         Preds(Graph', t) = IF t \in T THEN Preds(Graph, t) \ {b} ELSE Preds(Graph, t)
  PROVE  t \in hasPhi /\ PhiOf(t)'
<1>1. t \in hasPhi /\ PhiOf(t)
  BY PhiMatchesPredsDef DEF PhiInv, RemoveIncoming
<1>2. CASE t \notin T
  <2>1. phi'[t] = phi[t]
    BY <1>2 DEF RemoveIncoming, LosesEdge
  <2> QED
    BY <1>1, <1>2, <2>1 DEF PhiOf
<1>3. CASE t \in T
  <2>1. b \in phi[t]
    BY <1>1, <1>3 DEF PhiOf
  <2>2. LosesEdge(t, b, T)
    BY <1>1, <1>3, <2>1 DEF LosesEdge
  <2>3. phi'[t] = phi[t] \ {b} /\ Cardinality(phi[t] \ {b}) # 1
    BY <2>2 DEF RemoveIncoming
  <2>4. IsFiniteSet(phi[t])
    <3>1. phi[t] \in SUBSET Block
      BY DEF PhiInv, KeptInv, TypeInv, TypeOK
    <3>2. IsFiniteSet(Block)
      BY NAssumption, FS_Interval DEF Block
    <3> QED
      BY <3>1, <3>2, FS_Subset
  <2>5. /\ Cardinality(phi[t] \ {b}) = Cardinality(phi[t]) - 1
        /\ Cardinality(phi[t]) \in Nat /\ Cardinality(phi[t]) >= 2
    BY <1>1, <2>1, <2>4, FS_RemoveElement, FS_CardinalityType DEF PhiOf
  <2>6. Cardinality(phi'[t]) >= 2
    BY <2>3, <2>5
  <2> QED
    BY <1>1, <1>3, <2>3, <2>6 DEF PhiOf
<1> QED
  BY <1>1, <1>2, <1>3

LEMMA PhiFold ==
  ASSUME PhiInv, KeptInv', NEW b \in Block, Fold(b)
  PROVE  PhiInv'
<1>1. CASE ~(IsConditional(term[b]) /\ known[Branch(b)] # "runtime")
  BY <1>1, PhiSame DEF Fold
<1>2. CASE IsConditional(term[b]) /\ known[Branch(b)] # "runtime"
  <2> DEFINE k    == TakenSide(known[Branch(b)])
             kept == term[b][k]
             cut  == term[b][3 - k]
  <2>1. k \in 1..2 /\ 3 - k \in 1..2 /\ k # 3 - k
    BY DEF TakenSide
  <2>2. /\ term' = [term EXCEPT ![b] = Br(kept)]
        /\ RemoveIncoming({cut} \ {Null}, b)
        /\ UNCHANGED <<alive, body>> /\ b \in alive
    BY <1>2 DEF Fold, Visits
  <2>3. /\ \A x \in Block \ {b} : term'[x] = term[x]
        /\ term'[b][1] = kept /\ term'[b][2] = None
    BY <2>2 DEF PhiInv, KeptInv, TypeInv, TypeOK, Br
  <2>4. None \notin Block /\ Null \notin Block
    BY NAssumption DEF None, Null, Block
  <2>5. \A i \in 1..2 : i = k \/ i = 3 - k
    BY <2>1
  <2> HIDE DEF k
  <2>6. cut \in Block => cut # kept
    <3> SUFFICES ASSUME cut \in Block, cut = kept PROVE FALSE
      OBVIOUS
    <3>1. term[b][1] = term[b][2] /\ term[b][1] = cut
      BY <2>1
    <3> QED
      BY <2>2, <3>1 DEF PhiInv, DistinctTargets
  <2>7. \A x \in Block \ {b} : Graph'[x] = Graph[x]
    BY <2>2, <2>3 DEF Graph, Flow
  <2>8. \A y \in Block : y \in Graph'[b] <=> y = kept
    BY <2>2, <2>3, <2>4 DEF Graph, Flow, Targets
  <2>9. \A y \in Block : y \in Graph[b] <=> y = kept \/ y = cut
    BY <2>1, <2>2, <2>5, GraphEdge
  <2>10. \A t \in hasPhi' \cap alive : t \in hasPhi /\ PhiOf(t)'
    <3> SUFFICES ASSUME NEW t \in hasPhi' \cap alive PROVE t \in hasPhi /\ PhiOf(t)'
      OBVIOUS
    <3>1. t \in Block
      BY DEF PhiInv, KeptInv, TypeInv, TypeOK
    <3>2. \A x : x \in Preds(Graph', t) <=> x \in Block /\ t \in Graph'[x]
      BY DEF Preds, Graph, Flow
    <3>3. t \in {cut} \ {Null} <=> t = cut
      BY <2>4, <3>1
    <3>4. t = cut => b \in Preds(Graph, t)
      BY <2>9, <3>1, PredsOf
    <3>5. ASSUME NEW x PROVE x \in Preds(Graph', t) <=> x \in Preds(Graph, t) /\ (t = cut => x # b)
      BY <2>6, <2>7, <2>8, <2>9, <3>1, <3>2, PredsOf
    <3>6. Preds(Graph', t) = IF t = cut THEN Preds(Graph, t) \ {b} ELSE Preds(Graph, t)
      BY <3>5
    <3> HIDE DEF cut, kept
    <3> QED
      BY <2>2, <3>1, <3>3, <3>4, <3>6, PhiEdgesCut
  <2>11. hasPhi' \subseteq hasPhi
    BY <2>2 DEF RemoveIncoming
  <2>12. PhiMatchesPreds'
    <3>1. \A x \in alive' : \A i \in 2..Len(body'[x]) : body'[x][i] \notin hasPhi'
      BY <2>2, <2>11, PhiMatchesPredsDef DEF PhiInv
    <3> QED
      BY <2>2, <2>10, <3>1 DEF PhiMatchesPreds, PhiOf
  <2>13. DistinctTargets'
    <3> SUFFICES ASSUME NEW p \in alive, term'[p][1] = term'[p][2]
                 PROVE  term'[p][1] \notin Block
      BY <2>2 DEF DistinctTargets
    <3>1. p \in Block
      BY DEF PhiInv, KeptInv, TypeInv, TypeOK
    <3> QED
      BY <2>3, <2>4, <3>1 DEF PhiInv, DistinctTargets
  <2>14. StartsItself'
    BY <2>2 DEF PhiInv, StartsItself
  <2> QED
    BY <2>12, <2>13, <2>14 DEF PhiInv
<1> QED
  BY <1>1, <1>2

LEMMA PhiRemove ==
  ASSUME PhiInv, KeptInv', NEW b \in Block, Remove(b)
  PROVE  PhiInv'
<1>1. CASE Kept(b)
  BY <1>1, PhiSame DEF Remove
<1>2. CASE ~Kept(b)
  <2> DEFINE T == Targets(term[b])
  <2>1. /\ RemoveIncoming(T, b)
        /\ alive' = alive \ {b} /\ body' = body /\ b \in alive
    BY <1>2 DEF Remove, Visits
  <2>2. \A x \in Block \ {b} : \A k \in 1..2 :
          term'[x][k] = IF term[x][k] = b THEN Null ELSE term[x][k]
    BY <1>2 DEF Remove
  <2>3. Null \notin Block
    BY DEF Null, Block
  <2>4. Graph'[b] = {} /\ \A x \in Block : b \notin Graph'[x]
    BY <2>1, <2>2, <2>3 DEF Graph, Flow, Targets
  <2>5. \A x \in Block \ {b} : \A y \in Block \ {b} : y \in Graph'[x] <=> y \in Graph[x]
    BY <2>1, <2>2, <2>3 DEF Graph, Flow, Targets
  <2>6. Graph[b] = T
    BY <2>1 DEF Graph, Flow
  <2> HIDE DEF T
  <2>7. \A t \in hasPhi' \cap alive' : t \in hasPhi /\ PhiOf(t)'
    <3> SUFFICES ASSUME NEW t \in hasPhi' \cap alive' PROVE t \in hasPhi /\ PhiOf(t)'
      OBVIOUS
    <3>1. t \in Block /\ t # b /\ t \in hasPhi' \cap alive
      BY <2>1 DEF PhiInv, KeptInv, TypeInv, TypeOK
    <3>2. \A x : x \in Preds(Graph', t) <=> x \in Block /\ t \in Graph'[x]
      BY DEF Preds, Graph, Flow
    <3>3. t \in T => b \in Preds(Graph, t)
      BY <2>6, <3>1, PredsOf
    <3>4. ASSUME NEW x PROVE x \in Preds(Graph', t) <=> x \in Preds(Graph, t) /\ x # b
      BY <2>4, <2>5, <3>1, <3>2, PredsOf
    <3>5. t \notin T => b \notin Preds(Graph, t)
      BY <2>6, <3>1, PredsOf
    <3>6. Preds(Graph', t) = IF t \in T THEN Preds(Graph, t) \ {b} ELSE Preds(Graph, t)
      BY <3>4, <3>5
    <3> QED
      BY <2>1, <3>1, <3>3, <3>6, PhiEdgesCut
  <2>8. hasPhi' \subseteq hasPhi
    BY <2>1 DEF RemoveIncoming
  <2>9. PhiMatchesPreds'
    <3>1. \A x \in alive' : \A i \in 2..Len(body'[x]) : body'[x][i] \notin hasPhi'
      BY <2>1, <2>8, PhiMatchesPredsDef DEF PhiInv
    <3> QED
      BY <2>1, <2>7, <3>1 DEF PhiMatchesPreds, PhiOf
  <2>10. DistinctTargets'
    <3> SUFFICES ASSUME NEW p \in alive', term'[p][1] = term'[p][2]
                 PROVE  term'[p][1] \notin Block
      BY DEF DistinctTargets
    <3>1. p \in Block \ {b} /\ p \in alive
      BY <2>1 DEF PhiInv, KeptInv, TypeInv, TypeOK
    <3>2. term[p][1] = term[p][2] => term[p][1] \notin Block
      BY <3>1 DEF PhiInv, DistinctTargets
    <3> QED
      BY <2>2, <2>3, <3>1, <3>2
  <2>11. StartsItself'
    BY <2>1 DEF PhiInv, StartsItself
  <2> QED
    BY <2>9, <2>10, <2>11 DEF PhiInv
<1> QED
  BY <1>1, <1>2

(***************************************************************************)
(* A merged block's instructions follow the merging block's own.            *)
(***************************************************************************)
LEMMA MergedBody ==
  ASSUME TypeOK, NEW b \in Block, NEW p \in Block, p # b, Absorb(p, b)
  PROVE  /\ \A x \in Block \ {p} : body'[x] = body[x]
         /\ Len(body'[p]) = Len(body[p]) + Len(body[b])
         /\ Len(body[p]) \in Nat \ {0} /\ Len(body[b]) \in Nat \ {0}
         /\ \A i \in 1..Len(body[p]) : body'[p][i] = body[p][i]
         /\ \A i \in 1..Len(body[b]) : body'[p][Len(body[p]) + i] = body[b][i]
<1>1. body \in [Block -> Seq(Block) \ {<<>>}]
  BY DEF TypeOK
<1>2. body' = [body EXCEPT ![p] = body[p] \o body[b]]
  BY DEF Absorb
<1>3. body[p] \in Seq(Block) /\ body[b] \in Seq(Block) /\ body[p] # <<>> /\ body[b] # <<>>
  BY <1>1
<1>4. Len(body[p]) \in Nat \ {0} /\ Len(body[b]) \in Nat \ {0}
  BY <1>3
<1>5. body'[p] = body[p] \o body[b] /\ \A x \in Block \ {p} : body'[x] = body[x]
  BY <1>1, <1>2
<1> DEFINE s == body[p]
           t == body[b]
<1> HIDE DEF s, t
<1>6. ASSUME s \in Seq(Block), t \in Seq(Block)
      PROVE  /\ Len(s \o t) = Len(s) + Len(t)
             /\ \A i \in 1..Len(s) : (s \o t)[i] = s[i]
             /\ \A i \in 1..Len(t) : (s \o t)[Len(s) + i] = t[i]
  BY <1>6
<1> QED
  BY <1>3, <1>4, <1>5, <1>6 DEF s, t

LEMMA PhiMerge ==
  ASSUME PhiInv, KeptInv', NEW b \in Block, Merge(b)
  PROVE  PhiInv'
<1>1. CASE ~\E p \in alive : MergeInto(p, b)
  BY <1>1, PhiSame DEF Merge
<1>2. ASSUME NEW p \in alive, MergeInto(p, b), Absorb(p, b) PROVE PhiInv'
  <2>0. b \in alive /\ alive' = alive \ {b} /\ hasPhi' = hasPhi
    BY <1>2 DEF Merge, Visits, Absorb
  <2>1. /\ p \in Block /\ p < b /\ b # Entry
        /\ Graph[p] = {b}
        /\ \A x \in Block \ {p} : b \notin Graph[x]
        /\ Graph'[p] = Graph[b] /\ Graph'[b] = {}
        /\ \A x \in Block \ {p, b} : Graph'[x] = Graph[x]
        /\ term'[p] = term[b] /\ \A x \in Block \ {p, b} : term'[x] = term[x]
    BY <1>2, <2>0, MergedGraph DEF PhiInv
  <2>2. p # b
    BY <2>1 DEF Block
  <2>3. IsFiniteSet(Block)
    BY NAssumption, FS_Interval DEF Block
  <2>4. ASSUME NEW t \in hasPhi \cap alive' PROVE PhiOf(t)'
    <3>1. t \in Block /\ t # b /\ t \in alive /\ PhiOf(t)
      BY <2>0, PhiMatchesPredsDef DEF PhiInv, KeptInv, TypeInv, TypeOK
    <3>2. p \notin phi[t]
      BY <2>1, <3>1, PredsOf DEF PhiOf
    <3>3. \A x : x \in Preds(Graph', t) <=> x \in Block /\ t \in Graph'[x]
      BY DEF Preds, Graph, Flow
    <3>4. b \in phi[t] <=> t \in Graph[b]
      BY <3>1, PredsOf DEF PhiOf
    <3>5. t \in Graph[b] => t \in Targets(term[b])
      BY <2>0 DEF Graph, Flow
    <3>6. phi'[t] = IF b \in phi[t] THEN (phi[t] \ {b}) \cup {p} ELSE phi[t]
      BY <1>2, <3>1, <3>4, <3>5 DEF Absorb
    <3>7. ASSUME NEW x PROVE x \in Preds(Graph', t) <=> x \in phi'[t]
      <4>1. x \in Preds(Graph', t) <=> x \in Block /\ ((x = p /\ t \in Graph[b]) \/ (x \notin {p, b} /\ t \in Graph[x]))
        BY <2>1, <2>2, <3>3
      <4>2. x \in phi[t] <=> x \in Block /\ t \in Graph[x]
        BY <3>1, PredsOf DEF PhiOf
      <4> QED
        BY <2>1, <2>2, <3>2, <3>4, <3>6, <4>1, <4>2
    <3>8. Cardinality(phi'[t]) = Cardinality(phi[t])
      <4>1. IsFiniteSet(phi[t])
        <5>1. phi[t] \in SUBSET Block
          BY <3>1 DEF PhiInv, KeptInv, TypeInv, TypeOK
        <5> QED
          BY <2>3, <5>1, FS_Subset
      <4>2. CASE b \in phi[t]
        <5>1. IsFiniteSet(phi[t] \ {b}) /\ Cardinality(phi[t] \ {b}) = Cardinality(phi[t]) - 1
          BY <4>1, <4>2, FS_RemoveElement
        <5>2. Cardinality((phi[t] \ {b}) \cup {p}) = Cardinality(phi[t] \ {b}) + 1
          BY <3>2, <5>1, FS_AddElement
        <5>3. Cardinality(phi[t]) \in Nat
          BY <4>1, FS_CardinalityType
        <5> QED
          BY <3>6, <4>2, <5>1, <5>2, <5>3
      <4> QED
        BY <3>6, <4>2
    <3>9. phi'[t] = Preds(Graph', t)
      BY <3>7
    <3> QED
      BY <3>1, <3>8, <3>9 DEF PhiOf
  <2>5. TypeOK
    BY DEF PhiInv, KeptInv, TypeInv
  <2>6. /\ \A x \in Block \ {p} : body'[x] = body[x]
        /\ Len(body'[p]) = Len(body[p]) + Len(body[b])
        /\ Len(body[p]) \in Nat \ {0} /\ Len(body[b]) \in Nat \ {0}
        /\ \A i \in 1..Len(body[p]) : body'[p][i] = body[p][i]
        /\ \A i \in 1..Len(body[b]) : body'[p][Len(body[p]) + i] = body[b][i]
    BY <1>2, <2>1, <2>2, <2>5, MergedBody
  <2>7. b \notin hasPhi
    <3> SUFFICES ASSUME b \in hasPhi PROVE FALSE
      OBVIOUS
    <3>1. PhiOf(b)
      BY <2>0, PhiMatchesPredsDef DEF PhiInv
    <3>2. phi[b] = {p}
      BY <2>1, <3>1, PredsOf DEF PhiOf
    <3>3. Cardinality(phi[b]) = 1
      BY <3>2, FS_Singleton
    <3> QED
      BY <3>1, <3>3 DEF PhiOf
  <2>8. ASSUME NEW x \in alive', NEW i \in 2..Len(body'[x]) PROVE body'[x][i] \notin hasPhi
    <3>1. x \in Block /\ x \in alive /\ \A j \in 2..Len(body[x]) : body[x][j] \notin hasPhi
      BY <2>0, <2>5, PhiMatchesPredsDef DEF PhiInv, TypeOK
    <3>2. CASE x # p
      BY <2>6, <2>8, <3>1, <3>2
    <3>3. CASE x = p
      <4>1. CASE i <= Len(body[p])
        BY <2>6, <2>8, <3>1, <3>3, <4>1
      <4>2. CASE ~(i <= Len(body[p]))
        <5> DEFINE m == Len(body[p])
                   n == Len(body[b])
                   j == i - m
        <5>1. m \in Nat /\ n \in Nat /\ i \in 2..(m + n) /\ ~(i <= m)
          BY <2>6, <2>8, <3>3, <4>2
        <5> HIDE DEF m, n
        <5>2. j \in 1..n /\ i = m + j
          BY <5>1
        <5>3. body'[x][i] = body[b][j]
          BY <2>6, <3>3, <5>2 DEF m, n
        <5>4. body[b][1] = b
          BY <2>0 DEF PhiInv, StartsItself
        <5>5. j # 1 => body[b][j] \notin hasPhi
          BY <2>0, <2>6, <5>2, PhiMatchesPredsDef DEF PhiInv, m, n
        <5> QED
          BY <2>7, <5>3, <5>4, <5>5
      <4> QED
        BY <4>1, <4>2
    <3> QED
      BY <3>2, <3>3
  <2>9. PhiMatchesPreds'
    BY <2>0, <2>4, <2>8 DEF PhiMatchesPreds, PhiOf
  <2>10. StartsItself'
    <3> SUFFICES ASSUME NEW x \in alive' PROVE body'[x][1] = x
      BY DEF StartsItself
    <3>1. x \in Block /\ x \in alive /\ body[x][1] = x
      BY <2>0, <2>5 DEF PhiInv, StartsItself, TypeOK
    <3>2. 1 \in 1..Len(body[p])
      BY <2>6
    <3> QED
      BY <2>6, <3>1, <3>2
  <2>11. DistinctTargets'
    <3> SUFFICES ASSUME NEW x \in alive' PROVE term'[x][1] = term'[x][2] => term'[x][1] \notin Block
      BY DEF DistinctTargets
    <3>1. x \in Block \ {b} /\ x \in alive
      BY <2>0, <2>5 DEF TypeOK
    <3> QED
      BY <2>0, <2>1, <3>1 DEF PhiInv, DistinctTargets
  <2> QED
    BY <2>9, <2>10, <2>11 DEF PhiInv
<1> QED
  BY <1>1, <1>2 DEF Merge

LEMMA PhiStep == PhiInv /\ [Next]_vars => PhiInv'
<1> SUFFICES ASSUME PhiInv, [Next]_vars PROVE PhiInv'
  OBVIOUS
<1>0. KeptInv'
  BY KeptStep DEF PhiInv
<1>1. CASE UNCHANGED vars \/ StartCall \/ FoldDone \/ RemoveDone \/ MergeDone
  <2>1. UNCHANGED <<alive, term, body, hasPhi, phi>>
    BY <1>1 DEF vars, irVars, StartCall, FoldDone, RemoveDone, MergeDone
  <2> QED
    BY <1>0, <2>1, PhiSame
<1>2. ASSUME NEW b \in Block, NEW v \in {"0", "1"}, DiscoverConst(b, v) PROVE PhiInv'
  BY <1>0, <1>2, PhiSame DEF DiscoverConst
<1>3. ASSUME NEW b \in Block, Fold(b) \/ Remove(b) \/ Merge(b) PROVE PhiInv'
  BY <1>0, <1>3, PhiFold, PhiRemove, PhiMerge
<1> QED
  BY <1>1, <1>2, <1>3 DEF Next, Pass

(***************************************************************************)
(* The phis of a block name each of its predecessors once and nothing else, *)
(* whatever branchOpti folds, erases and merges.                            *)
(***************************************************************************)
THEOREM PhisFitTheGraph == Spec => []PhiMatchesPreds
<1>1. Spec => []PhiInv
  BY PhiInit, PhiStep, PTL DEF Spec
<1>2. PhiInv => PhiMatchesPreds
  BY DEF PhiInv
<1> QED
  BY <1>1, <1>2, PTL

-----------------------------------------------------------------------------
\* An instruction is in one place of one block.
HeldOnce ==
  \A x \in alive, y \in alive : \A i \in 1..Len(body[x]), j \in 1..Len(body[y]) :
    body[x][i] = body[y][j] => x = y /\ i = j

(***************************************************************************)
(* The branch that ends b is the generated one, or what Fold made of it:    *)
(* FlowPreserved compares sets of targets, the next Fold picks a side.      *)
(***************************************************************************)
BranchOf(b) ==
  LET o == Branch(b) IN
  \/ term[b] = fn.term[o]
  \/ /\ known[o] # "runtime" /\ IsConditional(fn.term[o])
     /\ term[b] = Br(fn.term[o][TakenSide(known[o])])

Chained(b) == \A k \in 1..(Len(body[b]) - 1) : Takes(body[b][k]) = {body[b][k + 1]}

FlowInv ==
  /\ PhiInv /\ fn \in Functions
  /\ HeldOnce
  /\ \A b \in Live : BranchOf(b) /\ Chained(b)

\* Where the instructions of a block are.
LEMMA BodyType ==
  ASSUME TypeOK, NEW b \in Block
  PROVE  /\ Len(body[b]) \in Nat \ {0}
         /\ \A i \in 1..Len(body[b]) : body[b][i] \in Block
         /\ Len(body[b]) \in 1..Len(body[b]) /\ Branch(b) = body[b][Len(body[b])]
<1>1. body[b] \in Seq(Block) /\ body[b] # <<>>
  BY DEF TypeOK
<1>2. Branch(b) = body[b][Len(body[b])]
  BY DEF Branch, Last
<1> QED
  BY <1>1, <1>2

LEMMA LiveIsAlive == ASSUME KeptInv PROVE Live \subseteq alive /\ Live \subseteq Block
BY ReachableKeptDef, LiveClosed DEF KeptInv

(***************************************************************************)
(* A block that can run branches as the generated branch would, given the   *)
(* constants found, and it branches somewhere.                              *)
(***************************************************************************)
LEMMA BranchMeans ==
  ASSUME TypeOK, fn \in Functions, NEW b \in Block, BranchOf(b)
  PROVE  /\ Chosen(term[b], known[Branch(b)]) = Takes(Branch(b))
         /\ None \notin Chosen(term[b], known[Branch(b)])
         /\ \A t \in Chosen(term[b], known[Branch(b)]) : \E k \in 1..2 : t = term[b][k]
<1> DEFINE o == Branch(b)
           g == fn.term[o]
           v == known[o]
<1>1. o \in Block /\ v \in Conds
  <2>1. o \in Block
    BY BodyType
  <2> QED
    BY <2>1 DEF TypeOK
<1>2. IsTerm(g)
  BY <1>1, FunctionsAssumption
<1> HIDE DEF g, v, o
<1>3. IsConditional(g) => g[1] # None /\ g[2] # None
  BY <1>2 DEF IsTerm, IsConditional, Ret
<1>4. None \notin Chosen(g, v) /\ \A t \in Chosen(g, v) : \E k \in 1..2 : t = g[k]
  BY <1>3 DEF Chosen
<1>5. CASE term[b] = g
  BY <1>4, <1>5 DEF Takes, v, g, o
<1>6. CASE v # "runtime" /\ IsConditional(g) /\ term[b] = Br(g[TakenSide(v)])
  <2> DEFINE t == g[TakenSide(v)]
  <2>1. v = "0" \/ v = "1"
    BY <1>1, <1>6 DEF Conds
  <2>2. Chosen(g, v) = {t} /\ t # None
    BY <1>3, <1>6, <2>1 DEF Chosen, TakenSide
  <2>3. term[b][1] = t /\ term[b][2] = None
    BY <1>6 DEF Br
  <2> HIDE DEF t
  <2>4. Chosen(term[b], v) = {t}
    BY <2>2, <2>3 DEF Chosen, IsConditional
  <2> QED
    BY <2>2, <2>3, <2>4 DEF Takes, v, g, o
<1> QED
  BY <1>5, <1>6 DEF BranchOf, g, v, o

LEMMA FlowHolds == FlowInv => FlowPreserved
<1> SUFFICES ASSUME FlowInv PROVE FlowPreserved
  OBVIOUS
<1>1. TypeOK /\ KeptInv
  BY DEF FlowInv, PhiInv, KeptInv, TypeInv
<1>2. body[Entry][1] = Entry
  BY <1>1 DEF FlowInv, PhiInv, StartsItself, TypeOK
<1>3. ASSUME NEW b \in Live
      PROVE  Takes(Branch(b)) = {body[t][1] : t \in Chosen(term[b], known[Branch(b)])}
  <2> DEFINE C == Chosen(term[b], known[Branch(b)])
  <2>1. b \in Block
    BY <1>1, LiveIsAlive
  <2>2. C = Takes(Branch(b)) /\ None \notin C /\ \A t \in C : \E k \in 1..2 : t = term[b][k]
    BY <1>1, <2>1, BranchMeans DEF FlowInv
  <2> HIDE DEF C
  <2>3. \A t \in C : t \in alive
    BY <1>1, <2>2, ReachableKeptDef DEF KeptInv
  <2>4. \A t \in C : body[t][1] = t
    BY <2>3 DEF FlowInv, PhiInv, StartsItself
  <2>5. C = {body[t][1] : t \in C}
    BY <2>4
  <2> QED
    BY <2>2, <2>5 DEF C
<1> QED
  BY <1>2, <1>3 DEF FlowPreserved, FlowInv, Chained

LEMMA FlowInit == Init => FlowInv
<1> SUFFICES ASSUME Init PROVE FlowInv
  OBVIOUS
<1>1. PhiInv /\ TypeOK /\ KeptInv
  BY PhiInit DEF PhiInv, KeptInv, TypeInv
<1>2. \A b \in Block : body[b] = <<b>>
  BY DEF Init
<1>3. \A b \in Block : Len(body[b]) = 1 /\ body[b][1] = b
  BY <1>2
<1>4. HeldOnce
  <2>1. alive = Block
    BY DEF Init
  <2> QED
    BY <1>3, <2>1 DEF HeldOnce
<1>5. \A b \in Block : BranchOf(b) /\ Chained(b)
  BY <1>3 DEF BranchOf, Chained, Branch, Last, Init
<1> QED
  BY <1>1, <1>4, <1>5, LiveIsAlive DEF FlowInv, Init

\* Where neither the bodies nor the given function change, b is a live block
\* whose branch and condition stay.
LEMMA FlowStays ==
  ASSUME UNCHANGED <<fn, known>>, NEW b, body'[b] = body[b], term'[b] = term[b],
         BranchOf(b), Chained(b)
  PROVE  BranchOf(b)' /\ Chained(b)'
BY DEF BranchOf, Chained, Takes, Branch

LEMMA FlowSame ==
  ASSUME FlowInv, PhiInv', UNCHANGED <<fn, alive, term, known, body>>
  PROVE  FlowInv'
<1>1. Live' = Live
  BY DEF Live, Graph
<1>2. HeldOnce'
  BY DEF FlowInv, HeldOnce
<1>3. \A b \in Live : BranchOf(b)' /\ Chained(b)'
  BY FlowStays DEF FlowInv
<1> QED
  BY <1>1, <1>2, <1>3 DEF FlowInv

LEMMA FlowDiscover ==
  ASSUME FlowInv, PhiInv', NEW b \in Block, NEW v \in {"0", "1"}, DiscoverConst(b, v)
  PROVE  FlowInv'
<1> DEFINE o == Branch(b)
<1>0. TypeOK /\ KeptInv /\ known \in [Block -> Conds]
  BY DEF FlowInv, PhiInv, KeptInv, TypeInv, TypeOK
<1>1. /\ b \in alive /\ IsConditional(term[b])
      /\ known' = [known EXCEPT ![o] = v]
      /\ UNCHANGED <<fn, alive, term, body>>
  BY DEF DiscoverConst
<1>2. Live' = Live
  BY <1>1 DEF Live, Graph
<1>3. \A x \in Block \ {o} : known'[x] = known[x]
  BY <1>0, <1>1
<1>4. HeldOnce'
  BY <1>1 DEF FlowInv, HeldOnce
<1> HIDE DEF o
<1>5. ASSUME NEW x \in Live PROVE BranchOf(x)'
  <2>1. x \in alive /\ x \in Block /\ BranchOf(x)
    BY <1>0, LiveIsAlive DEF FlowInv
  <2>2. Branch(x)' = Branch(x)
    BY <1>1 DEF Branch
  <2>3. CASE x = b
    <3>1. term[b] = fn.term[Branch(b)]
      <4>1. \A d : ~IsConditional(Br(d))
        BY DEF IsConditional, Br
      <4> QED
        BY <1>1, <2>1, <2>3, <4>1 DEF BranchOf
    <3> QED
      BY <1>1, <2>2, <2>3, <3>1 DEF BranchOf
  <2>4. CASE x # b
    <3>1. Branch(x) # o /\ Branch(x) \in Block
      <4>1. Branch(x) \in Block
        BY <1>0, <2>1, BodyType
      <4>2. Branch(x) # Branch(b)
        BY <1>0, <1>1, <2>1, <2>4, BodyType DEF FlowInv, HeldOnce
      <4> QED
        BY <4>1, <4>2 DEF o
    <3>2. known'[Branch(x)] = known[Branch(x)]
      BY <1>3, <3>1
    <3> QED
      BY <1>1, <2>1, <2>2, <3>2 DEF BranchOf
  <2> QED
    BY <2>3, <2>4
<1>6. ASSUME NEW x \in Live PROVE Chained(x)'
  <2>1. x \in alive /\ x \in Block /\ Chained(x)
    BY <1>0, LiveIsAlive DEF FlowInv
  <2> SUFFICES ASSUME NEW k \in 1..(Len(body[x]) - 1)
               PROVE  (Takes(body[x][k]))' = {body[x][k + 1]}
    BY <1>1 DEF Chained
  <2>2. Len(body[x]) \in Nat /\ k \in 1..Len(body[x]) /\ k # Len(body[x]) /\ body[x][k] \in Block
    <3> DEFINE n == Len(body[x])
    <3>1. n \in Nat
      BY <1>0, <2>1, BodyType
    <3> HIDE DEF n
    <3>2. k \in 1..(n - 1)
      BY DEF n
    <3>3. k \in 1..n /\ k # n
      BY <3>1, <3>2
    <3>4. k \in 1..Len(body[x])
      BY <3>3 DEF n
    <3>5. body[x][k] \in Block
      BY <1>0, <2>1, <3>4, BodyType
    <3> QED
      BY <3>1, <3>3, <3>5 DEF n
  <2>3. body[x][k] # o
    BY <1>0, <1>1, <2>1, <2>2, BodyType DEF FlowInv, HeldOnce, o
  <2>4. known'[body[x][k]] = known[body[x][k]]
    BY <1>3, <2>2, <2>3
  <2>5. (Takes(body[x][k]))' = Takes(body[x][k])
    BY <1>1, <2>4 DEF Takes
  <2> QED
    BY <2>1, <2>5 DEF Chained
<1> QED
  BY <1>1, <1>2, <1>4, <1>5, <1>6 DEF FlowInv

LEMMA FlowFold ==
  ASSUME FlowInv, PhiInv', Live' \subseteq Live, NEW b \in Block, Fold(b)
  PROVE  FlowInv'
<1>0. TypeOK /\ KeptInv
  BY DEF FlowInv, PhiInv, KeptInv, TypeInv
<1>1. CASE ~(IsConditional(term[b]) /\ known[Branch(b)] # "runtime")
  BY <1>1, FlowSame DEF Fold
<1>2. CASE IsConditional(term[b]) /\ known[Branch(b)] # "runtime"
  <2>1. /\ term' = [term EXCEPT ![b] = Br(term[b][TakenSide(known[Branch(b)])])]
        /\ UNCHANGED <<fn, alive, known, body>>
    BY <1>2 DEF Fold
  <2>2. HeldOnce'
    BY <2>1 DEF FlowInv, HeldOnce
  <2>3. ASSUME NEW x \in Live PROVE BranchOf(x)' /\ Chained(x)'
    <3>1. x \in Block /\ BranchOf(x) /\ Chained(x)
      BY <1>0, LiveIsAlive DEF FlowInv
    <3>2. CASE x # b
      <4>1. term'[x] = term[x]
        BY <2>1, <3>1, <3>2, <1>0 DEF TypeOK
      <4> QED
        BY <2>1, <3>1, <4>1, FlowStays
    <3>3. CASE x = b
      <4>1. term[b] = fn.term[Branch(b)]
        <5>1. \A d : ~IsConditional(Br(d))
          BY DEF IsConditional, Br
        <5> QED
          BY <1>2, <3>1, <3>3, <5>1 DEF BranchOf
      <4>2. term'[b] = Br(term[b][TakenSide(known[Branch(b)])])
        BY <1>0, <2>1 DEF TypeOK
      <4>3. Branch(b)' = Branch(b) /\ Chained(b)'
        BY <2>1, <3>1, <3>3 DEF Branch, Chained, Takes
      <4> QED
        BY <1>2, <2>1, <3>3, <4>1, <4>2, <4>3 DEF BranchOf
    <3> QED
      BY <3>2, <3>3
  <2> QED
    BY <2>1, <2>2, <2>3 DEF FlowInv
<1> QED
  BY <1>1, <1>2

LEMMA FlowRemove ==
  ASSUME FlowInv, PhiInv', Live' \subseteq Live, NEW b \in Block, Remove(b)
  PROVE  FlowInv'
<1>0. TypeOK /\ KeptInv /\ KeptInv'
  BY DEF FlowInv, PhiInv, KeptInv, TypeInv
<1>1. CASE Kept(b)
  BY <1>1, FlowSame DEF Fold, Remove
<1>2. CASE ~Kept(b)
  <2>1. /\ alive' = alive \ {b}
        /\ term' = [p \in Block |->
                      IF p = b THEN Ret
                      ELSE [k \in 1..2 |-> IF term[p][k] = b THEN Null ELSE term[p][k]]]
        /\ UNCHANGED <<fn, known, body>>
    BY <1>2 DEF Remove
  <2>2. HeldOnce'
    BY <2>1 DEF FlowInv, HeldOnce
  <2>3. ASSUME NEW x \in Live' PROVE BranchOf(x)' /\ Chained(x)'
    <3>1. x \in Block /\ x \in Live /\ BranchOf(x) /\ Chained(x)
      BY <1>0, LiveIsAlive DEF FlowInv
    <3>2. x \in alive' /\ \A k \in 1..2 : term'[x][k] \in alive' \cup {None}
      BY <1>0 DEF KeptInv, ReachableKept
    <3>3. x # b /\ term'[x] = [k \in 1..2 |-> IF term[x][k] = b THEN Null ELSE term[x][k]]
      BY <2>1, <3>1, <3>2
    <3>4. Null \notin Block /\ Null # None
      BY NAssumption DEF Null, None, Block
    <3>5. \A k \in 1..2 : term[x][k] # b
      BY <1>0, <2>1, <3>2, <3>3, <3>4 DEF TypeOK
    <3>6. term[x] \in [1..2 -> Dest]
      BY <1>0, <3>1 DEF TypeOK
    <3>7. term'[x] = term[x]
      BY <3>3, <3>5, <3>6
    <3> QED
      BY <2>1, <3>1, <3>7, FlowStays
  <2> QED
    BY <2>1, <2>2, <2>3 DEF FlowInv
<1> QED
  BY <1>1, <1>2

LEMMA FlowMerge ==
  ASSUME FlowInv, PhiInv', Live' \subseteq Live, NEW b \in Block, Merge(b)
  PROVE  FlowInv'
<1>0. TypeOK /\ KeptInv /\ KeptInv'
  BY DEF FlowInv, PhiInv, KeptInv, TypeInv
<1>1. CASE ~\E p \in alive : MergeInto(p, b)
  BY <1>1, FlowSame DEF Merge
<1>2. ASSUME NEW p \in alive, MergeInto(p, b), Absorb(p, b) PROVE FlowInv'
  <2> DEFINE m == Len(body[p])
             n == Len(body[b])
  <2>0. b \in alive /\ alive' = alive \ {b} /\ UNCHANGED <<fn, known>>
    BY <1>2 DEF Merge, Visits, Absorb
  <2>1. /\ p \in Block /\ p < b /\ b # Entry
        /\ Graph[p] = {b}
        /\ \A x \in Block \ {p} : b \notin Graph[x]
        /\ term'[p] = term[b] /\ \A x \in Block \ {p, b} : term'[x] = term[x]
    BY <1>0, <1>2, <2>0, MergedGraph
  <2>2. p # b /\ p \in alive' /\ body[b][1] = b
    BY <2>0, <2>1 DEF Block, FlowInv, PhiInv, StartsItself
  <2>3. /\ \A x \in Block \ {p} : body'[x] = body[x]
        /\ Len(body'[p]) = m + n
        /\ m \in Nat \ {0} /\ n \in Nat \ {0}
        /\ \A i \in 1..m : body'[p][i] = body[p][i]
        /\ \A i \in 1..n : body'[p][m + i] = body[b][i]
    BY <1>0, <1>2, <2>1, <2>2, MergedBody
  <2>4. /\ Branch(p) = body[p][m] /\ Branch(b) = body[b][n]
        /\ \A i \in 1..m : body[p][i] \in Block
    BY <1>0, <2>1, BodyType
  <2>5. (Branch(p))' = Branch(b)
    <3>1. (Branch(p))' = body'[p][Len(body'[p])]
      BY DEF Branch, Last
    <3> HIDE DEF m, n
    <3> QED
      BY <2>3, <2>4, <3>1
  <2> HIDE DEF m, n
  <2>6. ASSUME NEW x \in Live' PROVE BranchOf(x)' /\ Chained(x)'
    <3>1. x \in Block /\ x \in Live /\ BranchOf(x) /\ Chained(x) /\ x \in alive' /\ x # b
      BY <1>0, <2>0, LiveIsAlive, ReachableKeptDef DEF FlowInv, KeptInv, ReachableKept
    <3>2. CASE x # p
      BY <2>0, <2>1, <2>3, <3>1, <3>2, FlowStays
    <3>3. CASE x = p
      <4>1. b \in Live /\ BranchOf(b) /\ Chained(b)
        BY <2>1, <3>1, <3>3, LiveClosed DEF FlowInv
      <4>2. BranchOf(p)'
        BY <2>0, <2>1, <2>5, <4>1 DEF BranchOf
      <4>3. Takes(Branch(p)) = {b}
        <5>1. Chosen(term[p], known[Branch(p)]) = {b}
          <6>1. term[p][1] = b /\ term[p][2] = None
            <7>1. <<p, 1>> \in Uses(b) /\ IsJump(term[p])
              BY <1>2 DEF MergeInto
            <7> QED
              BY <7>1 DEF Uses, IsJump
          <6>2. b # None
            BY NAssumption DEF Block, None
          <6> QED
            BY <6>1, <6>2 DEF Chosen, IsConditional
        <5> QED
          BY <1>0, <2>1, <3>1, <3>3, <5>1, BranchMeans DEF FlowInv
      <4>4. \A o : (Takes(o))' = Takes(o)
        BY <2>0 DEF Takes
      <4>5. ASSUME NEW k \in 1..((m + n) - 1)
            PROVE  Takes(body'[p][k]) = {body'[p][k + 1]}
        <5>1. CASE k < m
          <6>1. k \in 1..m /\ k + 1 \in 1..m /\ k \in 1..(m - 1)
            BY <2>3, <5>1
          <6>2. body'[p][k] = body[p][k] /\ body'[p][k + 1] = body[p][k + 1]
            BY <2>3, <6>1
          <6> QED
            BY <3>1, <3>3, <6>1, <6>2 DEF Chained, m
        <5>2. CASE k = m
          <6>1. m \in 1..m /\ 1 \in 1..n
            BY <2>3
          <6>2. body'[p][k] = Branch(p) /\ body'[p][k + 1] = b
            BY <2>2, <2>3, <2>4, <5>2, <6>1
          <6> QED
            BY <4>3, <6>2
        <5>3. CASE k > m
          <6> DEFINE i == k - m
          <6>1. i \in 1..n /\ i + 1 \in 1..n /\ i \in 1..(n - 1) /\ k = m + i /\ k + 1 = m + (i + 1)
            BY <2>3, <5>3
          <6> HIDE DEF i
          <6>2. body'[p][k] = body[b][i] /\ body'[p][k + 1] = body[b][i + 1]
            BY <2>3, <6>1
          <6> QED
            BY <4>1, <6>1, <6>2 DEF Chained, n
        <5> QED
          BY <2>3, <5>1, <5>2, <5>3
      <4>6. Chained(p)'
        BY <2>3, <4>4, <4>5 DEF Chained
      <4> QED
        BY <3>3, <4>2, <4>6
    <3> QED
      BY <3>2, <3>3
  <2>7. HeldOnce'
    <3>1. ASSUME NEW x \in alive', NEW i \in 1..Len(body'[x])
          PROVE  \/ /\ x # p /\ i \in 1..Len(body[x]) /\ body'[x][i] = body[x][i]
                 \/ /\ x = p /\ i \in 1..m /\ body'[x][i] = body[p][i]
                 \/ /\ x = p /\ i - m \in 1..n /\ i \in Nat /\ body'[x][i] = body[b][i - m]
      <4>1. CASE x # p
        BY <1>0, <2>0, <2>3, <3>1, <4>1 DEF TypeOK
      <4>2. CASE x = p /\ i <= m
        BY <2>3, <3>1, <4>2
      <4>3. CASE x = p /\ ~(i <= m)
        <5> DEFINE j == i - m
        <5>1. j \in 1..n /\ i = m + j /\ i \in Nat
          BY <2>3, <3>1, <4>3
        <5> HIDE DEF j
        <5>2. body'[p][i] = body[b][j]
          BY <2>3, <5>1
        <5> QED
          BY <4>3, <5>1, <5>2 DEF j
      <4> QED
        BY <4>1, <4>2, <4>3
    <3>2. \A x \in alive, y \in alive : \A i \in 1..Len(body[x]), j \in 1..Len(body[y]) :
            body[x][i] = body[y][j] => x = y /\ i = j
      BY DEF FlowInv, HeldOnce
    <3>3. \A x \in alive : x \in Block
      BY <1>0 DEF TypeOK
    <3> SUFFICES ASSUME NEW x \in alive', NEW y \in alive',
                        NEW i \in 1..Len(body'[x]), NEW j \in 1..Len(body'[y]),
                        body'[x][i] = body'[y][j]
                 PROVE  x = y /\ i = j
      BY DEF HeldOnce
    <3>4. x \in alive /\ y \in alive /\ x # b /\ y # b
      BY <2>0
    <3>5. \A k \in 1..n, l \in 1..n : body[b][k] = body[b][l] => k = l
      BY <2>0, <3>2 DEF n
    <3>6. \A z \in alive \ {b} : \A k \in 1..n, l \in 1..Len(body[z]) : body[b][k] # body[z][l]
      BY <2>0, <3>2 DEF n
    <3>7. \A z \in alive \ {p} : \A k \in 1..m, l \in 1..Len(body[z]) : body[p][k] # body[z][l]
      BY <3>2 DEF m
    <3>8. CASE x # p /\ y # p
      BY <3>1, <3>2, <3>4, <3>8
    <3>9. CASE x = p /\ y # p
      <4>1. j \in 1..Len(body[y]) /\ body'[y][j] = body[y][j]
        BY <3>1, <3>9
      <4> QED
        BY <3>1, <3>4, <3>6, <3>7, <3>9, <4>1
    <3>10. CASE x # p /\ y = p
      <4>1. i \in 1..Len(body[x]) /\ body'[x][i] = body[x][i]
        BY <3>1, <3>10
      <4> QED
        BY <3>1, <3>4, <3>6, <3>7, <3>10, <4>1
    <3>11. CASE x = p /\ y = p
      <4>1. CASE i \in 1..m /\ body'[x][i] = body[p][i] /\ j \in 1..m /\ body'[y][j] = body[p][j]
        BY <3>2, <3>4, <3>11, <4>1 DEF m
      <4>2. CASE i \in 1..m /\ body'[x][i] = body[p][i] /\ j - m \in 1..n /\ body'[y][j] = body[b][j - m]
        BY <2>0, <2>2, <3>2, <3>4, <3>11, <4>2 DEF m, n
      <4>3. CASE i - m \in 1..n /\ body'[x][i] = body[b][i - m] /\ j \in 1..m /\ body'[y][j] = body[p][j]
        BY <2>0, <2>2, <3>2, <3>4, <3>11, <4>3 DEF m, n
      <4>4. CASE /\ i - m \in 1..n /\ body'[x][i] = body[b][i - m] /\ i \in Nat
                 /\ j - m \in 1..n /\ body'[y][j] = body[b][j - m] /\ j \in Nat
        <5>1. i - m = j - m
          BY <3>5, <4>4
        <5> QED
          BY <2>3, <3>11, <4>4, <5>1
      <4> QED
        BY <3>1, <3>11, <4>1, <4>2, <4>3, <4>4
    <3> QED
      BY <3>8, <3>9, <3>10, <3>11
  <2> QED
    BY <2>0, <2>6, <2>7 DEF FlowInv
<1> QED
  BY <1>1, <1>2 DEF Merge

LEMMA FlowStep == FlowInv /\ [Next]_vars => FlowInv'
<1> SUFFICES ASSUME FlowInv, [Next]_vars PROVE FlowInv'
  OBVIOUS
<1>0. PhiInv' /\ KeptInv /\ TypeInv'
  BY PhiStep DEF FlowInv, PhiInv, KeptInv
<1>1. CASE UNCHANGED vars \/ StartCall \/ FoldDone \/ RemoveDone \/ MergeDone
  <2>1. UNCHANGED <<fn, alive, term, known, body>>
    BY <1>1 DEF vars, irVars, StartCall, FoldDone, RemoveDone, MergeDone
  <2> QED
    BY <1>0, <2>1, FlowSame
<1>2. ASSUME NEW b \in Block, NEW v \in {"0", "1"}, DiscoverConst(b, v) PROVE FlowInv'
  BY <1>0, <1>2, FlowDiscover
<1>3. ASSUME NEW b \in Block, Fold(b) \/ Remove(b) \/ Merge(b) PROVE FlowInv'
  <2>1. Live' \subseteq Live
    BY <1>0, <1>3, KeptFold, KeptRemove, KeptMerge
  <2> QED
    BY <1>0, <1>3, <2>1, FlowFold, FlowRemove, FlowMerge
<1> QED
  BY <1>1, <1>2, <1>3 DEF Next, Pass

(***************************************************************************)
(* The optimised function runs the same instructions in the same order,     *)
(* for functions of any size and any constants found between the calls.     *)
(***************************************************************************)
THEOREM ExecutionUnchanged == Spec => []FlowPreserved
<1>1. Spec => []FlowInv
  BY FlowInit, FlowStep, PTL DEF Spec
<1> QED
  BY <1>1, FlowHolds, PTL

-----------------------------------------------------------------------------
\* In a sweep that found nothing to erase, what was visited is to be kept.
SweptKept ==
  pc = "remove" /\ ~toContinue => \A c \in alive \ {Entry} : c <= at => Kept(c)

LeftoverInv == KeptInv /\ SweptKept /\ LeftoverIsLoop

\* Block b is where a loop that control cannot enter is held.
HeldByLater(b) == Cardinality({u \in Uses(b) : u[1] >= b}) >= 2

LEMMA LeftoverDef ==
  LeftoverIsLoop <=>
    (pc = "merge" => \A b \in alive \ Live : (\E c \in alive \ Live : c < b) \/ HeldByLater(b))
BY DEF LeftoverIsLoop, HeldByLater

\* Two elements or more, in hand or counted.
LEMMA TwoElements ==
  ASSUME NEW S, IsFiniteSet(S)
  PROVE  Cardinality(S) >= 2 <=> \E x \in S, y \in S : x # y
<1>1. Cardinality(S) \in Nat
  BY FS_CardinalityType
<1>2. ASSUME NEW x \in S, NEW y \in S, x # y PROVE Cardinality(S) >= 2
  <2>1. CASE ~(Cardinality(S) > 1)
    BY <1>2, <2>1, OnlyElement
  <2> QED
    BY <1>1, <2>1
<1>3. ASSUME Cardinality(S) >= 2 PROVE \E x \in S, y \in S : x # y
  <2>1. PICK x : x \in S
    BY <1>1, <1>3, FS_EmptySet
  <2>2. IsFiniteSet(S \ {x}) /\ Cardinality(S \ {x}) = Cardinality(S) - 1
    BY <2>1, FS_RemoveElement
  <2>3. S \ {x} # {}
    BY <1>1, <1>3, <2>2, FS_EmptySet
  <2> QED
    BY <2>1, <2>3
<1> QED
  BY <1>2, <1>3

LEMMA HeldByLaterDef ==
  ASSUME TypeOK, NEW b
  PROVE  HeldByLater(b) <=> \E u \in Uses(b), w \in Uses(b) : u[1] >= b /\ w[1] >= b /\ u # w
<1> DEFINE S == {u \in Uses(b) : u[1] >= b}
<1>1. IsFiniteSet(S)
  BY UsesFinite, FS_Subset
<1>2. HeldByLater(b) <=> \E u \in S, w \in S : u # w
  BY <1>1, TwoElements DEF HeldByLater
<1> QED
  BY <1>2

LEMMA UsesOf ==
  ASSUME NEW b, NEW u
  PROVE  u \in Uses(b) <=> u \in alive \X (1..2) /\ term[u[1]][u[2]] = b
BY DEF Uses

(***************************************************************************)
(* What a sweep without changes leaves dead: the first dead block is used   *)
(* by no earlier block, which would be one that can run.                    *)
(***************************************************************************)
LEMMA KeptDeadIsHeld ==
  ASSUME KeptInv, NEW b \in alive \ Live, Kept(b), \A c \in alive \ Live : ~(c < b)
  PROVE  HeldByLater(b)
<1>0. TypeOK /\ b \in Block
  BY DEF KeptInv, TypeInv, TypeOK
<1>1. ASSUME NEW u \in Uses(b) PROVE u[1] \in Block /\ u[1] >= b
  <2>1. u[1] \in alive /\ u[2] \in 1..2 /\ term[u[1]][u[2]] = b /\ u[1] \in Block
    BY <1>0, UsesOf DEF TypeOK
  <2>2. u[1] \notin Live
    BY <1>0, <2>1, GraphEdge, LiveClosed
  <2> QED
    BY <1>0, <2>1, <2>2 DEF Block
<1>2. ASSUME NEW p \in alive, NEW k \in 1..2, Uses(b) = {<<p, k>>}, p < b PROVE FALSE
  <2>1. <<p, k>>[1] >= b /\ p \in Block
    BY <1>1, <1>2
  <2> QED
    BY <1>0, <1>2, <2>1 DEF Block
<1>3. Cardinality(Uses(b)) > 1
  BY <1>2 DEF Kept
<1>4. {u \in Uses(b) : u[1] >= b} = Uses(b)
  BY <1>1
<1>5. Cardinality(Uses(b)) \in Nat
  BY <1>0, UsesFinite, FS_CardinalityType
<1> QED
  BY <1>3, <1>4, <1>5 DEF HeldByLater

\* Merging makes no block unreachable but the one it merges away.
LEMMA MergedReach ==
  ASSUME KeptInv, NEW b \in alive, NEW p \in alive, MergeInto(p, b), Absorb(p, b)
  PROVE  Live \ {b} \subseteq Live'
<1>0. b \in Block
  BY DEF KeptInv, TypeInv, TypeOK
<1>1. /\ p \in Block /\ p < b /\ b # Entry
      /\ Graph[p] = {b}
      /\ \A x \in Block \ {p} : b \notin Graph[x]
      /\ Graph'[p] = Graph[b]
      /\ \A x \in Block \ {p, b} : Graph'[x] = Graph[x]
      /\ DOMAIN Graph' = Block
  BY <1>0, MergedGraph
<1>2. p # b
  BY <1>1 DEF Block
<1> SUFFICES ASSUME NEW x \in Live \ {b}, NEW S \in ClosedSets(Graph', Entry)
             PROVE  x \in S
  <2>1. Live \subseteq Block
    BY LiveClosed
  <2>2. Live' = Reachable(Graph', Entry)
    BY DEF Live
  <2> QED
    BY <1>1, <2>1, <2>2 DEF Reachable
<1> DEFINE R == (S \ {b}) \cup (IF p \in S THEN {b} ELSE {})
<1>3. S \in SUBSET Block /\ Entry \in S /\ \A y \in S : Graph'[y] \subseteq S
  BY <1>1 DEF ClosedSets, Closed
<1>4. R \in SUBSET Block /\ Entry \in R
  BY <1>0, <1>1, <1>3
<1>5. ASSUME NEW y \in R, NEW z \in Graph[y] PROVE z \in R
  <2>1. CASE y = b
    BY <1>1, <1>2, <1>3, <1>5, <2>1
  <2>2. CASE y = p
    BY <1>1, <1>2, <1>5, <2>2
  <2>3. CASE y \notin {p, b}
    BY <1>1, <1>3, <1>4, <1>5, <2>3
  <2> QED
    BY <2>1, <2>2, <2>3
<1>6. R \in ClosedSets(Graph, Entry)
  BY <1>4, <1>5, GraphType DEF ClosedSets, Closed
<1>7. x \in R
  BY <1>6, LiveDef DEF Reachable
<1> QED
  BY <1>7

LEMMA LeftoverMerge ==
  ASSUME LeftoverInv, KeptInv', NEW b \in Block, Merge(b)
  PROVE  LeftoverIsLoop'
<1>0. TypeOK /\ KeptInv /\ TypeInv' /\ TypeOK'
  BY DEF LeftoverInv, KeptInv, TypeInv
<1>1. CASE ~\E p \in alive : MergeInto(p, b)
  <2>1. UNCHANGED <<alive, term, pc>>
    BY <1>1 DEF Merge
  <2>2. Live' = Live /\ \A c : Uses(c)' = Uses(c)
    BY <2>1 DEF Live, Graph, Uses
  <2> QED
    BY <2>1, <2>2 DEF LeftoverInv, LeftoverIsLoop
<1>2. ASSUME NEW p \in alive, MergeInto(p, b), Absorb(p, b) PROVE LeftoverIsLoop'
  <2>0. b \in alive /\ alive' = alive \ {b} /\ pc = "merge"
    BY <1>2 DEF Merge, Visits, Absorb
  <2>1. /\ p \in Block /\ p < b /\ Graph[p] = {b}
        /\ term'[p] = term[b] /\ \A x \in Block \ {p, b} : term'[x] = term[x]
    BY <1>0, <1>2, <2>0, MergedGraph
  <2>2. p # b /\ \A x \in Block : x < b \/ ~(x < b)
    BY <2>1 DEF Block
  <2>3. Live' \subseteq Live /\ Live \ {b} \subseteq Live'
    BY <1>0, <1>2, <2>0, KeptMerge, MergedReach
  <2>4. term[p][1] = b /\ term[p][2] = None
    <3>1. <<p, 1>> \in Uses(b) /\ IsJump(term[p])
      BY <1>2 DEF MergeInto
    <3> QED
      BY <3>1 DEF Uses, IsJump
  <2>5. ASSUME NEW t \in alive' \ Live', \A c \in alive' \ Live' : ~(c < t)
        PROVE  HeldByLater(t)'
    <3>1. t \in alive \ Live /\ t # b /\ t \in Block
      BY <1>0, <2>0, <2>3 DEF TypeOK
    <3>2. p \in Live' => b \in Live
      BY <2>1, <2>3, LiveClosed
    <3>3. ASSUME NEW c \in alive \ Live, c < t PROVE FALSE
      <4>1. CASE c # b
        BY <2>0, <2>3, <2>5, <3>3, <4>1
      <4>2. CASE c = b
        <5>1. p < t
          BY <2>1, <3>1, <3>3, <4>2 DEF Block
        <5> QED
          BY <2>0, <2>2, <2>5, <3>2, <3>3, <4>2, <5>1
      <4> QED
        BY <4>1, <4>2
    <3>4. HeldByLater(t)
      BY <2>0, <3>1, <3>3, LeftoverDef DEF LeftoverInv
    <3> DEFINE Moved(u) == IF u[1] = b THEN <<p, u[2]>> ELSE u
    <3>5. ASSUME NEW u \in Uses(t), u[1] >= t
          PROVE  Moved(u) \in (Uses(t))' /\ Moved(u)[1] >= t /\ u[1] # p
      <4>1. u[1] \in alive /\ u[2] \in 1..2 /\ u = <<u[1], u[2]>> /\ term[u[1]][u[2]] = t
        BY UsesOf
      <4>2. u[1] \in Block
        BY <1>0, <4>1 DEF TypeOK
      <4>3. u[1] # p
        <5>1. t # None
          BY <3>1, NAssumption DEF Block, None
        <5> QED
          BY <2>4, <3>1, <4>1, <5>1
      <4>4. CASE u[1] # b
        <5>1. term'[u[1]][u[2]] = t /\ u[1] \in alive'
          BY <2>0, <2>1, <4>1, <4>2, <4>3, <4>4
        <5>2. u \in (Uses(t))'
          BY <4>1, <5>1 DEF Uses
        <5> QED
          BY <3>5, <4>3, <4>4, <5>2
      <4>5. CASE u[1] = b
        <5>1. term'[p][u[2]] = t /\ p \in alive'
          BY <2>0, <2>1, <2>2, <4>1, <4>5
        <5>2. <<p, u[2]>> \in (Uses(t))'
          BY <4>1, <5>1 DEF Uses
        <5>3. b \notin Live
          BY <2>0, <3>1, <4>1, <4>2, <4>5, GraphEdge, LiveClosed
        <5>4. p >= t
          BY <2>0, <2>1, <2>2, <2>5, <3>1, <3>2, <5>3 DEF Block
        <5> QED
          BY <4>3, <4>5, <5>2, <5>4
      <4> QED
        BY <4>4, <4>5
    <3>6. PICK u \in Uses(t), w \in Uses(t) : u[1] >= t /\ w[1] >= t /\ u # w
      BY <1>0, <3>4, HeldByLaterDef
    <3>7. Moved(u) # Moved(w)
      <4>1. u = <<u[1], u[2]>> /\ w = <<w[1], w[2]>>
        BY UsesOf
      <4>2. u[1] # p /\ w[1] # p
        BY <3>5, <3>6
      <4> QED
        BY <3>6, <4>1, <4>2
    <3> HIDE DEF Moved
    <3>8. \E x \in (Uses(t))', y \in (Uses(t))' : x[1] >= t /\ y[1] >= t /\ x # y
      BY <3>5, <3>6, <3>7
    <3>9. {x \in (Uses(t))' : x[1] >= t} # {} /\ IsFiniteSet((Uses(t))')
      <4>1. IsFiniteSet((Uses(t))')
        <5>1. (Uses(t))' \in SUBSET (Block \X (1..2))
          BY <1>0 DEF Uses, TypeOK
        <5> QED
          BY <5>1, OperandsFinite, FS_Subset
      <4> QED
        BY <3>8, <4>1
    <3> DEFINE S == {x \in (Uses(t))' : x[1] >= t}
    <3>10. IsFiniteSet(S) /\ \E x \in S, y \in S : x # y
      BY <3>8, <3>9, FS_Subset
    <3>11. Cardinality(S) >= 2
      BY <3>10, TwoElements
    <3> QED
      BY <3>11 DEF HeldByLater
  <2>6. \A c \in alive' \ Live' : (\E d \in alive' \ Live' : d < c) \/ HeldByLater(c)'
    BY <2>5
  <2> QED
    BY <2>6 DEF LeftoverIsLoop, HeldByLater
<1> QED
  BY <1>1, <1>2 DEF Merge

LEMMA LeftoverStep == LeftoverInv /\ [Next]_vars => LeftoverInv'
<1> SUFFICES ASSUME LeftoverInv, [Next]_vars PROVE LeftoverInv'
  OBVIOUS
<1>0. KeptInv' /\ KeptInv /\ TypeOK
  BY KeptStep DEF LeftoverInv, KeptInv, TypeInv
<1>1. CASE UNCHANGED vars \/ MergeDone
  <2>1. UNCHANGED <<alive, term>> /\ (pc' = "merge" => pc = "merge")
        /\ (pc' = "remove" => pc = "remove" /\ UNCHANGED <<at, toContinue>>)
    BY <1>1 DEF vars, irVars, MergeDone
  <2>2. Live' = Live /\ \A c : (Uses(c))' = Uses(c)
    BY <2>1 DEF Live, Graph, Uses
  <2>3. LeftoverIsLoop'
    BY <2>1, <2>2 DEF LeftoverInv, LeftoverIsLoop
  <2>4. SweptKept'
    BY <2>1, <2>2 DEF LeftoverInv, SweptKept, Kept
  <2> QED
    BY <1>0, <2>3, <2>4 DEF LeftoverInv
<1>2. CASE StartCall \/ FoldDone
  <2>1. \A c \in Block \ {Entry} : ~(c <= Entry)
    BY DEF Block, Entry
  <2>2. pc' # "merge" /\ (pc' = "remove" => at' = Entry /\ alive' = alive)
    BY <1>2 DEF StartCall, FoldDone, irVars
  <2>3. alive \subseteq Block
    BY <1>0 DEF TypeOK
  <2> QED
    BY <1>0, <2>1, <2>2, <2>3 DEF LeftoverInv, LeftoverIsLoop, SweptKept
<1>3. ASSUME NEW b \in Block, NEW v \in {"0", "1"}, DiscoverConst(b, v) PROVE LeftoverInv'
  <2>1. pc' = "idle"
    BY <1>3 DEF DiscoverConst
  <2> QED
    BY <1>0, <2>1 DEF LeftoverInv, LeftoverIsLoop, SweptKept
<1>4. ASSUME NEW b \in Block, Fold(b) PROVE LeftoverInv'
  <2>1. pc' = "fold"
    BY <1>4 DEF Fold
  <2> QED
    BY <1>0, <2>1 DEF LeftoverInv, LeftoverIsLoop, SweptKept
<1>5. ASSUME NEW b \in Block, Remove(b) PROVE LeftoverInv'
  <2>1. pc' = "remove" /\ pc = "remove" /\ at' = b /\ at < b /\ \A c \in alive : at < c => b <= c
    BY <1>5 DEF Remove, Visits
  <2>2. CASE Kept(b)
    <3>1. UNCHANGED <<alive, term, toContinue>>
      BY <1>5, <2>2 DEF Remove
    <3>2. ASSUME ~toContinue, NEW c \in alive \ {Entry}, c <= b PROVE Kept(c)
      <4>1. c \in Block /\ at \in 0..N
        BY <1>0, <3>2 DEF TypeOK
      <4>2. c <= at \/ c = b
        BY <2>1, <3>2, <4>1 DEF Block
      <4> QED
        BY <2>1, <2>2, <3>2, <4>2 DEF LeftoverInv, SweptKept
    <3>3. \A c : (Kept(c))' <=> Kept(c)
      BY <3>1 DEF Kept, Uses
    <3> QED
      BY <1>0, <2>1, <3>1, <3>2, <3>3 DEF LeftoverInv, LeftoverIsLoop, SweptKept
  <2>3. CASE ~Kept(b)
    <3>1. toContinue' = TRUE
      BY <1>5, <2>3 DEF Remove
    <3> QED
      BY <1>0, <2>1, <3>1 DEF LeftoverInv, LeftoverIsLoop, SweptKept
  <2> QED
    BY <2>2, <2>3
<1>6. CASE RemoveDone
  <2>1. CASE toContinue
    <3>1. pc' = "fold"
      BY <1>6, <2>1 DEF RemoveDone
    <3> QED
      BY <1>0, <3>1 DEF LeftoverInv, LeftoverIsLoop, SweptKept
  <2>2. CASE ~toContinue
    <3>1. pc' = "merge" /\ UNCHANGED <<alive, term>>
      BY <1>6, <2>2 DEF RemoveDone, irVars
    <3>2. \A c \in alive \ {Entry} : Kept(c)
      BY <1>6, <2>2 DEF RemoveDone, SweepDone, LeftoverInv, SweptKept
    <3>3. \A c \in alive \ Live : (\E d \in alive \ Live : d < c) \/ HeldByLater(c)
      BY <1>0, <3>2, LiveClosed, KeptDeadIsHeld
    <3>4. Live' = Live /\ \A c : (HeldByLater(c))' <=> HeldByLater(c)
      BY <3>1 DEF Live, Graph, HeldByLater, Uses
    <3>5. LeftoverIsLoop'
      BY <3>1, <3>3, <3>4 DEF LeftoverIsLoop, HeldByLater
    <3> QED
      BY <1>0, <3>1, <3>5 DEF LeftoverInv, SweptKept
  <2> QED
    BY <2>1, <2>2
<1>7. ASSUME NEW b \in Block, Merge(b) PROVE LeftoverInv'
  <2>1. pc' = "merge"
    BY <1>7 DEF Merge
  <2> QED
    BY <1>0, <1>7, <2>1, LeftoverMerge DEF LeftoverInv, SweptKept
<1> QED
  BY <1>1, <1>2, <1>3, <1>4, <1>5, <1>6, <1>7 DEF Next, Pass

(***************************************************************************)
(* The dead code a call leaves behind is held by loops alone, for functions *)
(* of any size: counting uses misses nothing else.                          *)
(***************************************************************************)
THEOREM DeadCodeLeftIsLoops == Spec => []LeftoverIsLoop
<1>1. Init => LeftoverInv
  <2> SUFFICES ASSUME Init PROVE LeftoverInv
    OBVIOUS
  <2>1. pc = "idle"
    BY DEF Init
  <2> QED
    BY <2>1, KeptInit DEF LeftoverInv, SweptKept, LeftoverIsLoop
<1>2. LeftoverInv => LeftoverIsLoop
  BY DEF LeftoverInv
<1> QED
  BY <1>1, <1>2, LeftoverStep, PTL DEF Spec
=============================================================================
