------------------------------ MODULE IrPasses ------------------------------
(***************************************************************************)
(* The scalar passes at -O1, once allocas are promoted: dead code is        *)
(* removed and constants are folded until neither finds anything, then      *)
(* loops are identified, invariant code is moved out of them and common     *)
(* expressions are merged, each until it finds nothing.  An action is one   *)
(* instruction of a pass.  What BranchOpti does between them is not here.   *)
(***************************************************************************)
EXTENDS IrCode, FiniteSetsExt

CONSTANTS
  Functions,   \* the functions, as IrCode has them
  maxDistance  \* _maxDistance of LoopInvariantCodeMotion
ASSUME DistanceAssumption == maxDistance \in Nat

VARIABLES
  func,      \* the function before the passes
  code,      \* its code now
  pass,      \* the pass that runs: "dce", "cf", "loops", "licm", "cse", "done"
  at,        \* [block, inst]: the instruction it looks at
  changed,   \* whether a pass of the current loop of runOpti found something
  loops,     \* <<[enter, leave]>>
  loop,      \* the loop LICM is at
  expMap,    \* the instructions of this block CSE has kept
  toErase    \* those it has replaced
pvars == <<func, code, pass, at, changed, loops, loop, expMap, toErase>>

NB == Len(func.succ)
First == [block |-> 1, inst |-> 1]
Here == code[at.block][at.inst]
InBlock == at.block <= NB /\ at.inst <= Len(code[at.block])
Advance == at' = [at EXCEPT !.inst = @ + 1]
ToBlock(c) == at' = [block |-> c, inst |-> 1]

EraseHere(s) == [s EXCEPT ![at.block] = RemoveAt(@, at.inst)]

Init ==
  /\ func \in Functions /\ code = func.code
  /\ pass = "dce" /\ at = First /\ changed = FALSE
  /\ loops = <<>> /\ loop = 0 /\ expMap = {} /\ toErase = {}

-----------------------------------------------------------------------------
Erasable(inst) == inst.op \notin {"call", "store", "ret"} /\ Uses(code, inst.id) = {}

\* The last instruction of a block is not looked at.
DeadCodeElim ==
  /\ pass = "dce" /\ at.block <= NB /\ at.inst < Len(code[at.block])
  /\ \/ /\ Erasable(Here)
        /\ code' = EraseHere(code) /\ changed' = TRUE /\ UNCHANGED at
     \/ /\ ~Erasable(Here)
        /\ Advance /\ UNCHANGED <<code, changed>>
  /\ UNCHANGED <<func, pass, loops, loop, expMap, toErase>>

Foldable(inst) ==
  /\ inst.op \in Binary \cup Cmp
  /\ \A a \in {1, 2} : inst.args[a].kind = "const"

Folded(inst) == Const(Computed(inst.op, inst.args[1].v, inst.args[2].v))

ConstProp ==
  /\ pass = "cf" /\ InBlock
  /\ \/ /\ Foldable(Here)
        /\ code' = EraseHere(replaceAllUsesWith(code, Here.id, Folded(Here)))
        /\ changed' = TRUE /\ UNCHANGED at
     \/ /\ ~Foldable(Here)
        /\ Advance /\ UNCHANGED <<code, changed>>
  /\ UNCHANGED <<func, pass, loops, loop, expMap, toErase>>

NextBlock ==
  /\ at.block <= NB
  /\ (pass = "dce" /\ at.inst >= Len(code[at.block])) \/ (pass = "cf" /\ ~InBlock)
  /\ ToBlock(at.block + 1)
  /\ UNCHANGED <<func, code, pass, changed, loops, loop, expMap, toErase>>

-----------------------------------------------------------------------------
\* A block that a later one branches to.
IsEntry(c) == \E d \in c+1..NB : c \in ToSet(func.succ[d])

(***************************************************************************)
(* The header's branch is taken to leave the loop when it is false; the     *)
(* assertions of User and LoopInfo stop the compiler where there is no such *)
(* side or it lies before the loop.                                         *)
(***************************************************************************)
IdentifyLoops ==
  /\ pass = "loops"
  /\ \A c \in 1..NB : IsEntry(c) =>
       c > 1 /\ Len(func.succ[c]) = 2 /\ c < func.succ[c][2]
  /\ loops' = [i \in 1..Cardinality({c \in 1..NB : IsEntry(c)}) |->
       LET c == SetToSortSeq({d \in 1..NB : IsEntry(d)}, <)[i]
       IN [enter |-> c, leave |-> func.succ[c][2]]]
  /\ pass' = IF loops' = <<>> THEN "cse" ELSE "licm"
  /\ loop' = Len(loops')
  /\ ToBlock(IF loops' = <<>> THEN 1 ELSE loops'[Len(loops')].enter)
  /\ changed' = FALSE
  /\ UNCHANGED <<func, code, expMap, toErase>>

Body(i) == loops[i].enter..loops[i].leave - 1

isLoopInvariant(inst) ==
  /\ inst.op \notin {"load", "call", "store", "phi", "br", "ret"}
  /\ \A c \in Body(loop), a \in DOMAIN inst.args :
       inst.args[a].kind = "inst" => inst.args[a].v \notin Ids(code[c])

InLoop == loop > 0 /\ at.block < loops[loop].leave
Inner == {i \in 1..Len(loops) : i # loop /\ loops[i].enter = at.block}

Before == loops[loop].enter - 1

Hoisted(s) == [EraseHere(s) EXCEPT ![Before] = InsertAt(@, Len(@), Here)]

\* Only the first instructions of a block are tried.
MoveInvariant ==
  /\ pass = "licm" /\ InLoop /\ Inner = {}
  /\ at.inst <= Min({Len(code[at.block]), maxDistance})
  /\ \/ /\ isLoopInvariant(Here)
        /\ code' = Hoisted(code)
        /\ changed' = TRUE /\ UNCHANGED at
     \/ /\ ~isLoopInvariant(Here)
        /\ Advance /\ UNCHANGED <<code, changed>>
  /\ UNCHANGED <<func, pass, loops, loop, expMap, toErase>>

LoopBlockDone ==
  /\ pass = "licm" /\ InLoop
  /\ \/ \E i \in Inner : ToBlock(loops[i].leave)
     \/ /\ Inner = {} /\ at.inst > Min({Len(code[at.block]), maxDistance})
        /\ ToBlock(at.block + 1)
  /\ UNCHANGED <<func, code, pass, changed, loops, loop, expMap, toErase>>

LoopDone ==
  /\ pass = "licm" /\ loop > 0 /\ ~InLoop
  /\ loop' = loop - 1
  /\ ToBlock(IF loop = 1 THEN 1 ELSE loops[loop - 1].enter)
  /\ UNCHANGED <<func, code, pass, changed, loops, expMap, toErase>>

-----------------------------------------------------------------------------
\* baseStr: the text of an instruction without its own name.
baseStr(inst) ==
  IF inst.op = "add" THEN <<inst.op, ToSet(inst.args)>> ELSE <<inst.op>> \o inst.args

Skipped == {"call", "br", "ret", "phi"}
Same(inst) == {e \in expMap : baseStr(e) = baseStr(inst)}

\* Slips: Forgotten as it could have gone wrong, for mutation of the checks.
ForgottenValue(inst) == {e \in expMap : inst.op = "store" /\ baseStr(e) = <<"load", inst.args[1]>>}

\* A store makes CSE forget the load of the pointer that reads the same.
Forgotten(inst) == {e \in expMap : inst.op = "store" /\ baseStr(e) = <<"load", inst.args[2]>>}

CommonExpElim ==
  /\ pass = "cse" /\ InBlock
  /\ \/ /\ Here.op \in Skipped \cup {"store"}
        /\ expMap' = expMap \ Forgotten(Here)
        /\ UNCHANGED <<code, changed, toErase>>
     \/ /\ Here.op \notin Skipped \cup {"store"} /\ Same(Here) = {}
        /\ expMap' = expMap \cup {Here}
        /\ UNCHANGED <<code, changed, toErase>>
     \/ \E e \in Same(Here) :
        /\ Here.op \notin Skipped \cup {"store"}
        /\ code' = replaceAllUsesWith(code, Here.id, Value(e.id))
        /\ toErase' = toErase \cup {Here.id} /\ changed' = TRUE
        /\ UNCHANGED expMap
  /\ Advance
  /\ UNCHANGED <<func, pass, loops, loop>>

\* Slips: Kept as it could have gone wrong, for mutation of the checks.
KeptAll(block) == block

Kept(block) == SelectSeq(block, LAMBDA inst : inst.id \notin toErase)

BlockDone ==
  /\ pass = "cse" /\ at.block <= NB /\ ~InBlock
  /\ code' = [code EXCEPT ![at.block] = Kept(@)]
  /\ expMap' = {} /\ toErase' = {}
  /\ ToBlock(at.block + 1)
  /\ UNCHANGED <<func, pass, changed, loops, loop>>

-----------------------------------------------------------------------------
\* Slips: AfterFold as it could have gone wrong, for mutation of the checks.
AfterFoldAlways == "loops"

\* The loops of runOpti.
AfterFold == IF changed THEN "dce" ELSE "loops"

PassDone ==
  \/ /\ at.block > NB /\ pass = "dce"
     /\ pass' = "cf" /\ at' = First
     /\ UNCHANGED <<func, code, changed, loops, loop, expMap, toErase>>
  \/ /\ at.block > NB /\ pass = "cf"
     /\ pass' = AfterFold
     /\ at' = First /\ changed' = FALSE
     /\ UNCHANGED <<func, code, loops, loop, expMap, toErase>>
  \/ /\ pass = "licm" /\ loop = 0
     /\ pass' = IF changed THEN "licm" ELSE "cse"
     /\ loop' = IF changed THEN Len(loops) ELSE 0
     /\ ToBlock(IF changed THEN loops[Len(loops)].enter ELSE 1)
     /\ changed' = FALSE
     /\ UNCHANGED <<func, code, loops, expMap, toErase>>
  \/ /\ at.block > NB /\ pass = "cse"
     /\ pass' = IF changed THEN "cse" ELSE "done"
     /\ at' = First /\ changed' = FALSE
     /\ UNCHANGED <<func, code, loops, loop, expMap, toErase>>

Next ==
  \/ DeadCodeElim \/ ConstProp \/ NextBlock
  \/ IdentifyLoops \/ MoveInvariant \/ LoopBlockDone \/ LoopDone
  \/ CommonExpElim \/ BlockDone
  \/ PassDone
=============================================================================
