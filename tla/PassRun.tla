------------------------------ MODULE PassRun ------------------------------
(***************************************************************************)
(* The function before the passes and the one after them, run beside each   *)
(* other, block by block, on the same argument.  Cell 0 of the memory is a  *)
(* global that calls change, the others are an array.                       *)
(***************************************************************************)
EXTENDS IrPasses

CONSTANTS
  Cells,      \* the number of cells of the array
  MaxBlocks   \* how many blocks a run may go through
ASSUME RunAssumption == Cells \in Nat \ {0} /\ MaxBlocks \in Nat

VARIABLES
  arg,     \* the argument, once the run has begun
  side,    \* the side that runs: "before" or "after" the passes
  edge,    \* [from, to]: the block that runs and the one before it
  pos,     \* the instruction it is at
  env,     \* [side -> [id -> its value]]
  mem,     \* [side -> [cell -> its value]]
  effects, \* [side -> what the block has done so far that can be seen]
  count    \* the blocks run
rvars == <<arg, side, edge, pos, env, mem, effects, count>>

Sides == {"before", "after"}
Undefined == -1
CodeOf(s) == IF s = "before" THEN func.code ELSE code
AllIds == UNION {Ids(func.code[c]) : c \in DOMAIN func.code}
Block == CodeOf(side)[edge.to]
Phis == {k \in DOMAIN Block : Block[k].op = "phi"}

RunInit ==
  /\ Init
  /\ arg = Undefined
  /\ side = "before" /\ edge = [from |-> 0, to |-> 1] /\ pos = 1 /\ count = 0
  /\ env = [s \in Sides |-> [i \in AllIds |-> Undefined]]
  /\ mem = [s \in Sides |-> [c \in 0..Cells |-> c % Width]]
  /\ effects = [s \in Sides |-> <<>>]

Val(o) ==
  CASE o.kind = "const" -> o.v
    [] o.kind = "inst" -> env[side][o.v]
    [] o.kind = "global" -> o.v
    [] o.kind = "arg" -> arg

Args(inst) == [a \in DOMAIN inst.args |-> Val(inst.args[a])]

\* The phis of a block act at once.
EnterBlock ==
  /\ arg # Undefined /\ count < MaxBlocks /\ pos = 1 /\ Phis # {}
  /\ env' = [env EXCEPT ![side] = [i \in AllIds |->
       IF \E k \in Phis : Block[k].id = i
       THEN LET inst == Block[CHOOSE k \in Phis : Block[k].id = i]
            IN Val(inst.args[CHOOSE a \in DOMAIN inst.args : inst.from[a] = edge.from])
       ELSE @[i]]]
  /\ pos' = Cardinality(Phis) + 1
  /\ UNCHANGED <<arg, side, edge, mem, effects, count>>

Result(inst) ==
  LET x == Args(inst)
  IN IF Undefined \in ToSet(x) THEN Undefined
     ELSE CASE inst.op \in Binary \cup Cmp -> Computed(inst.op, x[1], x[2])
            [] inst.op = "gep" -> x[1] + (x[2] % Cells)
            [] inst.op = "load" -> mem[side][x[1]]
            [] inst.op = "call" -> mem[side][0]

Written(inst) ==
  LET x == Args(inst)
  IN IF Undefined \in ToSet(x) THEN mem[side]
     ELSE IF inst.op = "store" THEN [mem[side] EXCEPT ![x[2]] = x[1]]
     ELSE IF inst.op = "call" THEN [mem[side] EXCEPT ![0] = (@ + x[1]) % Width]
     ELSE mem[side]

Execute ==
  /\ arg # Undefined /\ count < MaxBlocks
  /\ pos < Len(Block) /\ pos \notin Phis
  /\ LET inst == Block[pos] IN
     /\ mem' = [mem EXCEPT ![side] = Written(inst)]
     /\ env' = [env EXCEPT ![side][inst.id] = IF inst.op = "store" THEN @ ELSE Result(inst)]
     /\ effects' = IF inst.op \in {"call", "store"}
                   THEN [effects EXCEPT ![side] = Append(@, <<inst.op, Args(inst)>>)]
                   ELSE effects
  /\ pos' = pos + 1
  /\ UNCHANGED <<arg, side, edge, count>>

\* The last instruction: what it reads is seen.
End ==
  /\ arg # Undefined /\ count < MaxBlocks
  /\ pos = Len(Block)
  /\ effects' = [effects EXCEPT ![side] = Append(@, <<Block[pos].op, Args(Block[pos])>>)]
  /\ pos' = pos + 1
  /\ UNCHANGED <<arg, side, edge, env, mem, count>>

OtherSide ==
  /\ side = "before" /\ pos = Len(Block) + 1
  /\ side' = "after" /\ pos' = 1
  /\ UNCHANGED <<arg, edge, env, mem, effects, count>>

\* Both go on where the function before the passes does.
Branch ==
  /\ side = "after" /\ pos = Len(Block) + 1
  /\ func.succ[edge.to] # <<>>
  /\ LET seen == Last(effects["before"])[2]
         to == func.succ[edge.to][IF seen = <<>> \/ seen[1] # 0 THEN 1 ELSE 2]
     IN edge' = [from |-> edge.to, to |-> to]
  /\ side' = "before" /\ pos' = 1 /\ count' = count + 1
  /\ effects' = [s \in Sides |-> <<>>]
  /\ UNCHANGED <<arg, env, mem>>

Begin ==
  /\ pass = "done" /\ arg = Undefined
  /\ arg' \in 0..Width-1
  /\ UNCHANGED <<side, edge, pos, env, mem, effects, count>>

Run == Begin \/ EnterBlock \/ Execute \/ End \/ OtherSide \/ Branch

RunNext ==
  \/ Next /\ UNCHANGED rvars
  \/ Run /\ UNCHANGED pvars

RunSpec == RunInit /\ [][RunNext]_<<pvars, rvars>>

\* The compiler goes on as long as it can.
FairSpec == RunSpec /\ WF_pvars(Next /\ UNCHANGED rvars)

-----------------------------------------------------------------------------
(***************************************************************************)
(* The optimised function calls, stores, branches and returns as the        *)
(* function it was made from, with the same values: no pass lets a value be *)
(* read that has changed since or was never computed.                       *)
(***************************************************************************)
SameEffects ==
  side = "after" /\ pos = Len(Block) + 1 => effects["after"] = effects["before"]

(***************************************************************************)
(* Dead code and constants feed each other: when runOpti leaves its first   *)
(* loop neither pass would find anything more.                              *)
(***************************************************************************)
NothingLeft ==
  pass = "loops" =>
    \A c \in 1..NB : \A k \in DOMAIN code[c] :
      /\ ~Foldable(code[c][k])
      /\ k < Len(code[c]) => ~Erasable(code[c][k])

\* The loops of runOpti, each run until its passes find nothing, all end.
PassesEnd == <>(pass = "done")
=============================================================================
