----------------------------- MODULE BranchOpti -----------------------------
(***************************************************************************)
(* pass::BranchOpti (src/pass/branch_opti.cpp) on one function: fold the    *)
(* conditional branches on constants and remove the blocks that nothing     *)
(* branches to, to a fixpoint; then merge blocks into the only block that   *)
(* jumps to them, to a fixpoint.  PassManager repeats the pass as long as   *)
(* it, or the constant propagation before it, changed something.            *)
(*                                                                          *)
(* A block is named by its position in the layout when the pass starts.     *)
(* Blocks are only erased, so calcIndexInFunc, however often it is called,  *)
(* orders them as these names do.  A branch instruction is named by the     *)
(* block it was generated in: mergeBlocks moves it, known follows it.       *)
(***************************************************************************)
EXTENDS Naturals, FiniteSets, Sequences, FlowGraph

CONSTANTS N,          \* number of blocks of the function
          Functions   \* the functions the pass is given

Block == 1..N
Entry == 1
Null  == 0                    \* an operand whose block was destroyed
Conds == {"runtime", "0", "1"}  \* is the condition a ConstantNumber, and which

(***************************************************************************)
(* The operands of a terminator that name blocks: none for ret, one for br,  *)
(* the true and the false target for a conditional br.                      *)
(***************************************************************************)
None == N + 1                 \* no such operand
Dest == 0..(N + 1)
Ret   == [k \in 1..2 |-> None]
Br(t) == [k \in 1..2 |-> IF k = 1 THEN t ELSE None]
IsConditional(t) == t[2] # None
IsJump(t) == t[1] # None /\ t[2] = None

Targets(t) == {t[k] : k \in 1..2} \cap Block
Flow(term, live) == [b \in Block |-> IF b \in live THEN Targets(term[b]) ELSE {}]

(***************************************************************************)
(* The layout GenerateIR produces (checked in MCFrontEnd): nothing branches *)
(* to the entry, the two targets of a branch differ, and a branch to an      *)
(* earlier block goes to a block that dominates it.                         *)
(***************************************************************************)
RetreatDominated(g) ==
  \A b \in Block : \A t \in g[b] : t <= b => Dominates(g, Entry, t, b)

IsTerm(t) ==
  /\ t \in [1..2 -> Block \cup {None}]
  /\ t[1] \in {t[2], None} => t = Ret

ASSUME NAssumption == N \in Nat \ {0}
ASSUME FunctionsAssumption ==
  \A f \in Functions :
    LET g == Flow(f.term, Block) IN
    /\ f.term \in [Block -> [1..2 -> Dest]]
    /\ \A b \in Block : IsTerm(f.term[b])
    /\ Preds(g, Entry) = {}
    /\ RetreatDominated(g)
    /\ f.hasPhi \subseteq {b \in Block : Cardinality(Preds(g, b)) >= 2}

VARIABLES
  fn,        \* the function as it was given; never assigned
  alive,     \* blocks still in the function
  term,      \* terminators of the live blocks
  known,     \* per branch instruction: its condition
  body,      \* per live block: the blocks whose instructions it now holds
  hasPhi,    \* live blocks that start with phis
  phi,       \* _incoming of a block's phis, as a set
  pc,        \* "idle" between calls, or the sweep that runs
  at,        \* cursor: the last block the sweep visited
  toContinue, changed,
  dirty      \* PassManager: the last round of passes changed something

vars == <<fn, alive, term, known, body, hasPhi, phi, pc, at, toContinue, changed, dirty>>
irVars == <<fn, alive, term, known, body, hasPhi, phi>>

Init ==
  /\ fn \in Functions
  /\ alive = Block
  /\ term = fn.term
  /\ known = [b \in Block |-> "runtime"]
  /\ body = [b \in Block |-> <<b>>]
  /\ hasPhi = fn.hasPhi
  /\ phi = [b \in Block |-> IF b \in hasPhi THEN Preds(Flow(term, Block), b) ELSE {}]
  /\ pc = "idle" /\ at = 0
  /\ toContinue = FALSE /\ changed = FALSE
  /\ dirty = TRUE

\* Value::getUses of a block: the operands of live branches that name it.
Uses(b) ==
  {u \in alive \X (1..2) : term[u[1]][u[2]] = b}

Last(s) == s[Len(s)]
Branch(b) == Last(body[b])     \* the instruction that ends b

\* b is the block after the cursor.
Visits(b) == b \in alive /\ at < b /\ \A c \in alive : at < c => b <= c
SweepDone == \A c \in alive : c <= at

\* Slips: RemoveIncoming as it could have gone wrong, for mutation of the checks.
RemoveIncomingForgotten(T, b) == UNCHANGED <<hasPhi, phi>>

(***************************************************************************)
(* PhiInst::removeIncoming on the phis of every block in T, for the edges   *)
(* from b: a phi left with one operand is replaced by it and erased.        *)
(***************************************************************************)
LosesEdge(t, b, T) == t \in T \cap hasPhi /\ b \in phi[t]
RemoveIncoming(T, b) ==
  /\ hasPhi' = {t \in hasPhi : ~(LosesEdge(t, b, T) /\ Cardinality(phi[t] \ {b}) = 1)}
  /\ phi' = [t \in Block |->
               IF t \notin hasPhi' THEN {}
               ELSE IF LosesEdge(t, b, T) THEN phi[t] \ {b} ELSE phi[t]]

-----------------------------------------------------------------------------
\* ConstantProp, which PassManager runs before, finds a condition constant.
DiscoverConst(b, v) ==
  /\ pc = "idle" /\ b \in alive
  /\ IsConditional(term[b]) /\ known[Branch(b)] = "runtime"
  /\ v \in {"0", "1"}
  /\ known' = [known EXCEPT ![Branch(b)] = v]
  /\ dirty' = TRUE
  /\ UNCHANGED <<fn, alive, term, body, hasPhi, phi, pc, at, toContinue, changed>>

\* Slips: StartCall as it could have gone wrong, for mutation of the checks.
StartCallStale ==
  /\ pc = "idle" /\ dirty
  /\ pc' = "fold" /\ at' = 0
  /\ toContinue' = FALSE /\ dirty' = FALSE
  /\ UNCHANGED <<irVars, changed>>

StartCall ==
  /\ pc = "idle" /\ dirty
  /\ pc' = "fold" /\ at' = 0
  /\ toContinue' = FALSE /\ changed' = FALSE /\ dirty' = FALSE
  /\ UNCHANGED irVars

\* Slips: TakenSide as it could have gone wrong, for mutation of the checks.
TakenSideSwapped(v) == IF v = "0" THEN 1 ELSE 2

\* foldConstBranches, block b: the operand a constant condition takes.
TakenSide(v) == IF v = "1" THEN 1 ELSE 2
Fold(b) ==
  /\ pc = "fold" /\ Visits(b)
  /\ at' = b
  /\ IF IsConditional(term[b]) /\ known[Branch(b)] # "runtime"
     THEN LET k    == TakenSide(known[Branch(b)])
              kept == term[b][k]
              cut  == term[b][3 - k]
          IN /\ term' = [term EXCEPT ![b] = Br(kept)]
             /\ RemoveIncoming({cut} \ {Null}, b)
             \* `if (!nextBlock) continue`: a cut null operand is no change
             /\ toContinue' = (toContinue \/ cut # Null)
     ELSE UNCHANGED <<term, hasPhi, phi, toContinue>>
  /\ UNCHANGED <<fn, alive, known, body, pc, changed, dirty>>

FoldDone ==
  /\ pc = "fold" /\ SweepDone
  /\ pc' = "remove" /\ at' = Entry
  /\ UNCHANGED <<irVars, toContinue, changed, dirty>>

\* Slips: Kept as it could have gone wrong, for mutation of the checks.
KeptIfUsedTwice(b) == Cardinality(Uses(b)) > 1
KeptIfUsed(b) == Uses(b) # {}

\* removeUnreachable, block b: more than one use keeps it, and so does one use
\* by an earlier block.
Kept(b) ==
  \/ Cardinality(Uses(b)) > 1
  \/ \E p \in alive, k \in 1..2 : Uses(b) = {<<p, k>>} /\ p < b

Remove(b) ==
  /\ pc = "remove" /\ Visits(b)
  /\ at' = b
  /\ IF Kept(b)
     THEN UNCHANGED <<alive, term, hasPhi, phi, toContinue>>
     ELSE /\ RemoveIncoming(Targets(term[b]), b)
          /\ alive' = alive \ {b}
          \* Value::~Value leaves null operands in the branches that named b
          /\ term' = [p \in Block |->
                        IF p = b THEN Ret
                        ELSE [k \in 1..2 |-> IF term[p][k] = b THEN Null ELSE term[p][k]]]
          /\ toContinue' = TRUE
  /\ UNCHANGED <<fn, known, body, pc, changed, dirty>>

RemoveDone ==
  /\ pc = "remove" /\ SweepDone
  /\ changed' = (changed \/ toContinue)
  /\ toContinue' = FALSE
  /\ IF toContinue THEN pc' = "fold" /\ at' = 0 ELSE pc' = "merge" /\ at' = Entry
  /\ UNCHANGED <<irVars, dirty>>

\* mergeBlocks, block b: its instructions go to p, the one block that jumps to it.
MergeInto(p, b) ==
  /\ IsJump(term[p]) /\ Uses(b) = {<<p, 1>>} /\ p < b

Absorb(p, b) ==
  /\ phi' = [t \in Block |-> IF t \in Targets(term[b]) /\ b \in phi[t]
                             THEN (phi[t] \ {b}) \cup {p} ELSE phi[t]]
  /\ term' = [term EXCEPT ![p] = term[b], ![b] = Ret]
  /\ body' = [body EXCEPT ![p] = body[p] \o body[b]]
  /\ alive' = alive \ {b}
  /\ toContinue' = TRUE

Merge(b) ==
  /\ pc = "merge" /\ Visits(b)
  /\ at' = b
  /\ \/ \E p \in alive : MergeInto(p, b) /\ Absorb(p, b)
     \/ /\ ~\E p \in alive : MergeInto(p, b)
        /\ UNCHANGED <<alive, term, body, phi, toContinue>>
  /\ UNCHANGED <<fn, known, hasPhi, pc, changed, dirty>>

MergeDone ==
  /\ pc = "merge" /\ SweepDone
  /\ changed' = (changed \/ toContinue)
  /\ toContinue' = FALSE
  /\ IF toContinue
     THEN pc' = "merge" /\ at' = Entry /\ UNCHANGED dirty
     ELSE pc' = "idle" /\ at' = 0 /\ dirty' = changed'
  /\ UNCHANGED irVars

Pass ==
  \/ StartCall
  \/ (\E b \in Block : Fold(b)) \/ FoldDone
  \/ (\E b \in Block : Remove(b)) \/ RemoveDone
  \/ (\E b \in Block : Merge(b)) \/ MergeDone

Next == Pass \/ \E b \in Block, v \in {"0", "1"} : DiscoverConst(b, v)

Spec == Init /\ [][Next]_vars
\* The pass runs to its end; that more constants are found is not promised.
FairSpec == Spec /\ WF_vars(Pass)

-----------------------------------------------------------------------------
TypeOK ==
  /\ fn.term \in [Block -> [1..2 -> Dest]] /\ fn.hasPhi \subseteq Block
  /\ alive \subseteq Block /\ Entry \in alive
  /\ term \in [Block -> [1..2 -> Dest]]
  /\ known \in [Block -> Conds]
  /\ body \in [Block -> Seq(Block) \ {<<>>}]
  /\ hasPhi \subseteq Block
  /\ phi \in [Block -> SUBSET Block]
  /\ pc \in {"idle", "fold", "remove", "merge"}
  /\ at \in 0..N
  /\ toContinue \in BOOLEAN /\ changed \in BOOLEAN /\ dirty \in BOOLEAN

Graph == Flow(term, alive)
Live  == LET g == Graph IN Reachable(g, Entry)     \* blocks that can run

(***************************************************************************)
(* No block that can run is erased: a branch of a block control reaches     *)
(* never names a destroyed block, though removeUnreachable looks only at    *)
(* use counts and layout order.                                             *)
(***************************************************************************)
ReachableKept ==
  LET live == Live IN
  \A b \in live : b \in alive /\ \A k \in 1..2 : term[b][k] \in alive \cup {None}

(***************************************************************************)
(* The function still runs the same blocks in the same order: Takes(o) is   *)
(* where the branch generated in block o may go given the constants found,  *)
(* and every live block strings together exactly such steps.                *)
(***************************************************************************)
Chosen(t, v) == IF IsConditional(t) /\ v = "1" THEN {t[1]}
                ELSE IF IsConditional(t) /\ v = "0" THEN {t[2]} ELSE {t[1], t[2]} \ {None}
Takes(o) == Chosen(fn.term[o], known[o])
FlowPreserved ==
  /\ body[Entry][1] = Entry
  /\ LET live == Live IN \A b \in live :
       /\ \A k \in 1..(Len(body[b]) - 1) : Takes(body[b][k]) = {body[b][k + 1]}
       /\ Takes(Branch(b)) = {body[t][1] : t \in Chosen(term[b], known[Branch(b)])}

(***************************************************************************)
(* The phis of a block name each predecessor once and no other block; a     *)
(* block is merged away only after its phis are gone.                       *)
(***************************************************************************)
PhiMatchesPreds ==
  /\ LET g == Graph IN
     \A b \in hasPhi \cap alive : phi[b] = Preds(g, b) /\ Cardinality(phi[b]) >= 2
  /\ \A b \in alive : \A k \in 2..Len(body[b]) : body[b][k] \notin hasPhi

(***************************************************************************)
(* When a call returns, dead code that is left is a loop: its first block   *)
(* is held by two or more branches of later blocks, the uses alone that     *)
(* removeUnreachable counts.                                                *)
(***************************************************************************)
LeftoverIsLoop ==
  pc = "merge" =>
    LET dead == alive \ Live IN
    \A b \in dead :
      \/ \E c \in dead : c < b
      \/ Cardinality({u \in Uses(b) : u[1] >= b}) >= 2

\* Each round of passes ends: the fixpoint loops of the pass terminate.
Settles == <>[](pc = "idle" /\ ~dirty)
=============================================================================
