------------------------------ MODULE CodeRun ------------------------------
(***************************************************************************)
(* What ReduceMove and FuncRegAlloc promise together: the machine reads, in *)
(* the registers and spill slots it was given, the values that the code of  *)
(* GenerateMIR reads in its virtual registers.                              *)
(*                                                                          *)
(* `holds` says of a place in the machine which registers of that code have *)
(* the value it holds: an instruction makes a value no other place has, a   *)
(* move makes two registers equal.                                          *)
(***************************************************************************)
EXTENDS ReduceMove, RegAlloc

VARIABLES
  at,     \* block and position of the next instruction
  holds   \* by machine register and spill slot
runVars == <<at, holds>>
vars == <<fn, code, reduceVars, allocVars, runVars>>

Slot == 0..(MaxSlots - 1)

Init ==
  /\ fn \in Functions /\ code = fn.code
  /\ ReduceInit /\ AllocInit
  /\ at = <<1, 1>>
  /\ holds = [l \in MReg \cup Slot |-> IF l \in MReg THEN {l} ELSE {}]

Running == phase = "run" /\ at[2] <= Len(code[at[1]])
Current == code[at[1]][at[2]]

\* What the places hold after the registers of the original code changed.
Renewed ==
  LET def == Range(Current.def)
      kept == [l \in DOMAIN holds |-> holds[l] \ def]
  IN  IF Current.op \notin {"mv", "erased"} THEN kept
      ELSE [l \in DOMAIN holds |->
              IF Current.use[1] \in holds[l] THEN holds[l] \cup def ELSE kept[l]]

\* What the instruction puts in its k-th destination.
Result(k) ==
  CASE Current.op = "loadFrom" -> holds[Current.imm]
    [] Current.op = "mv" -> Renewed[Current.src[1]]
    [] Current.op = "lea" /\ Current.imm # -1 -> {}   \* not the local's address
    [] OTHER -> {Current.def[k]}

Execute ==
  /\ Running
  /\ holds' =
       [l \in DOMAIN holds |->
          IF Current.op = "storeTo" /\ l = Current.imm THEN holds[Current.src[1]]
          ELSE IF l \in Writes(Current)
               THEN UNION {Result(k) : k \in {k \in DOMAIN Current.dst : Current.dst[k] = l}}
               ELSE Renewed[l]]
  /\ at' = [at EXCEPT ![2] = @ + 1]
  /\ UNCHANGED <<fn, code, reduceVars, allocVars>>

Branch(c) ==
  /\ phase = "run" /\ at[2] > Len(code[at[1]]) /\ c \in fn.nexts[at[1]]
  /\ at' = <<c, 1>>
  /\ UNCHANGED <<fn, code, reduceVars, allocVars, holds>>

Ended == phase = "run" /\ at[2] > Len(code[at[1]]) /\ fn.nexts[at[1]] = {}

Compile ==
  \/ Lower /\ UNCHANGED <<allocVars, runVars>>
  \/ reduced /\ Alloc /\ UNCHANGED <<reduceVars, runVars>>

Next ==
  \/ Compile \/ Execute \/ (\E c \in Block : Branch(c))
  \/ Ended /\ UNCHANGED vars

Spec == Init /\ [][Next]_vars
FairSpec == Spec /\ WF_vars(Compile)

-----------------------------------------------------------------------------
(***************************************************************************)
(* The caller finds the result in the first register.                       *)
(***************************************************************************)
ReturnSurvives == Ended /\ fn.returns => iRegs[1] \in holds[iRegs[1]]

(***************************************************************************)
(* Every operand is where the instruction looks for it: no register of two  *)
(* values, no slot of two registers, no reload from before the last save,   *)
(* no value computed too early into a register still in use; the result too *)
(* is where the caller looks for it.                                        *)
(***************************************************************************)
OperandsSurvive ==
  /\ Running /\ Current.op # "erased" =>
       \A k \in DOMAIN Current.use : /\ Current.src[k] \in DOMAIN holds
                                     /\ Current.use[k] \in holds[Current.src[k]]
  /\ ReturnSurvives

(***************************************************************************)
(* Every round of spilling leaves less to spill: in the end every register  *)
(* finds a colour.                                                          *)
(***************************************************************************)
Allocates == <>(phase = "run")
=============================================================================
