------------------------------ MODULE PhiMoves ------------------------------
(***************************************************************************)
(* How phis leave the program: GenerateMIR::funcToMIR puts a move before    *)
(* the branch of each incoming block and MachineFunc::move turns it into a  *)
(* machine move (src/riscv/generate_mir.cpp, machine_func.cpp).  The moves  *)
(* of one block run one after another where the phis take their operands    *)
(* at once, and run whichever way the branch goes.                          *)
(***************************************************************************)
EXTENDS SsaRun

(***************************************************************************)
(* A function has finitely many allocas.  GenerateIR branches to a block in *)
(* front only where a loop's body ends and at a continue, each time by an   *)
(* unconditional jump; BranchOpti joins blocks, but no loop's header to the *)
(* block before it.                                                         *)
(***************************************************************************)
ASSUME VarAssumption == IsFiniteSet(Var)
ASSUME LayoutAssumption ==
  \A f \in Functions : \A b \in Block :
    \A c \in SuccOf(f.next)[b] \cap Dom[f.next][b] : f.next[b] = <<c>> /\ c <= b

VARIABLES
  lowered,
  order,   \* the phis in the order funcToMIR meets them
  reg,     \* the register of each phi
  saved    \* by phi and incoming block: the register move() makes to keep
           \* the source phi's value
moveVars == <<lowered, order, reg, saved>>

\* A move is named by its phi and the incoming block it is put in.
Moves == {m \in phis \X Block : m[2] \in Preds(Succ, m[1][1])}

\* Slips: Protected as it could have gone wrong, for mutation of the checks.
ProtectedNever(p, b) == FALSE

(***************************************************************************)
(* move: a source that is a phi of this or an earlier block may have been   *)
(* overwritten when this block holds moves to it as well.  Its value is     *)
(* copied at the start of its own block.                                    *)
(***************************************************************************)
Protected(p, b) ==
  LET src == Operand(p, b) IN
  src.kind = "phi" /\ src.at <= b /\ \E e \in incoming[<<src.at, src.name>>] : e[1] = b

MovesInit ==
  /\ RunInit
  /\ lowered = FALSE
  /\ order = <<>> /\ saved = <<>>
  /\ reg = [p \in Place |-> Latest(Zero)]

\* Slips: Lower as it could have gone wrong, for mutation of the checks.
LowerPhisOfPhis ==
  /\ pc = "done" /\ ~lowered
  /\ lowered' = TRUE
  /\ order' \in SetToSeqs({p \in phis : \E e \in incoming[p] : e[2].kind = "phi"})
  /\ saved' = [m \in {m \in Moves : Protected(m[1], m[2])} |-> Latest(Zero)]
  /\ UNCHANGED <<vars, runVars, reg>>

\* Blocks in layout order; a block's phis in any order, that of a hash table.
Lower ==
  /\ pc = "done" /\ ~lowered
  /\ lowered' = TRUE
  /\ order' \in {s \in SetToSeqs(phis) :
                   \A i, j \in DOMAIN s : i < j => s[i][1] <= s[j][1]}
  /\ saved' = [m \in {m \in Moves : Protected(m[1], m[2])} |-> Latest(Zero)]
  /\ UNCHANGED <<vars, runVars, reg>>

Source(r, p, b) ==
  LET src == Operand(p, b) IN
  IF <<p, b>> \in DOMAIN saved THEN saved[<<p, b>>]
  ELSE IF src.kind = "phi" THEN r[<<src.at, src.name>>] ELSE Latest(src)

Move(r, p, b) ==
  IF <<p, b>> \in Moves THEN [r EXCEPT ![p] = Source(r, p, b)] ELSE r

\* The registers before and after each move put in front of b's branch: the
\* moves stand in the order the phis are met.
MovedAt(b) ==
  LET r[k \in 1..(Len(order) + 1)] ==
        IF k = 1 THEN reg ELSE Move(r[k - 1], order[k - 1], b)
  IN  r

MovesExecute ==
  /\ lowered /\ Execute
  /\ IF Instr.op = "store"
     THEN LET new == Def(at[1], at[2]) IN reg' = Age(reg, new) /\ saved' = Age(saved, new)
     ELSE UNCHANGED <<reg, saved>>
  /\ UNCHANGED <<lowered, order>>

MovesBranch(c) ==
  LET b == at[1] IN
  /\ lowered /\ Branch(c)
  /\ reg' = MovedAt(b)[Len(order) + 1]
  /\ saved' = [m \in DOMAIN saved |->   \* the copies at the start of c
                 LET src == Operand(m[1], m[2]) IN
                 IF src.at = c THEN reg'[<<src.at, src.name>>] ELSE saved[m]]
  /\ UNCHANGED <<lowered, order>>

MovesNext ==
  \/ Pass /\ UNCHANGED <<runVars, moveVars>>
  \/ Lower \/ MovesExecute \/ (\E c \in Block : MovesBranch(c))
  \/ Ended /\ UNCHANGED <<vars, runVars, moveVars>>

MovesSpec == MovesInit /\ [][MovesNext]_<<vars, runVars, moveVars>>
FairSpec ==
  MovesSpec /\ WF_<<vars, runVars, moveVars>>(Pass /\ UNCHANGED <<runVars, moveVars>>)

-----------------------------------------------------------------------------
\* Every value is one the function computes; the order lists each phi once.
MovesTypeOK ==
  /\ TypeOK
  /\ lowered => pc = "done" /\ Len(order) = Cardinality(phis) /\ Range(order) = phis
  /\ DOMAIN saved \subseteq Moves
  /\ \A p \in Place : ValueOK(reg[p].value) /\ reg[p].value.kind # "phi"
  /\ \A m \in DOMAIN saved : ValueOK(saved[m].value)

(***************************************************************************)
(* What an instruction reads in the register of a phi is what the variable  *)
(* held: no move of the same edge, of another phi of the swap or of the     *)
(* branch's other side has overwritten it.                                  *)
(***************************************************************************)
RegistersHoldVariables ==
  lowered /\ Running /\ Instr.op = "load" =>
    LET val == loaded[at] IN
    (IF val.kind = "phi" THEN reg[<<val.at, val.name>>] ELSE Latest(val)) = mem[Instr.var]
=============================================================================
