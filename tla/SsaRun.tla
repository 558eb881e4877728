------------------------------- MODULE SsaRun -------------------------------
(***************************************************************************)
(* What Mem2Reg promises: the function without loads and stores, run step   *)
(* for step beside the function with them, reads the values the loads read. *)
(*                                                                          *)
(* A store in a loop stores a new value each time.  An instance of a value  *)
(* is the latest its instruction made, or an earlier one.                   *)
(***************************************************************************)
EXTENDS Mem2Reg

VARIABLES
  at,    \* block and position of the next instruction
  mem,   \* what each variable holds
  env    \* what each phi holds
runVars == <<at, mem, env>>

Latest(x)  == [value |-> x, latest |-> TRUE]
Earlier(x) == [value |-> x, latest |-> FALSE]
Age(f, x) == [k \in DOMAIN f |-> IF f[k] = Latest(x) THEN Earlier(x) ELSE f[k]]

RunInit ==
  /\ Init
  /\ at = <<Entry, 1>>
  /\ mem = [v \in Var |-> Latest(Zero)]
  /\ env = [p \in Place |-> Latest(Zero)]

Running == pc = "done" /\ at[2] <= Len(Code(at[1]))
Instr == Code(at[1])[at[2]]
Eval(x) == IF x.kind = "phi" THEN env[<<x.at, x.name>>] ELSE Latest(x)

Execute ==
  LET new == Def(at[1], at[2]) IN
  /\ Running
  /\ at' = <<at[1], at[2] + 1>>
  /\ CASE Instr.op = "store" -> /\ mem' = [Age(mem, new) EXCEPT ![Instr.var] = Latest(new)]
                                /\ env' = Age(env, new)
       [] Instr.op = "copy"  -> mem' = [mem EXCEPT ![Instr.var] = mem[Instr.from]] /\ UNCHANGED env
       [] Instr.op = "load"  -> UNCHANGED <<mem, env>>
  /\ UNCHANGED vars

\* The phis of the block entered all take their operands at once.
Operand(p, b) == (CHOOSE e \in incoming[p] : e[1] = b)[2]
Branch(c) ==
  /\ pc = "done" /\ at[2] > Len(Code(at[1])) /\ c \in Succ[at[1]]
  /\ at' = <<c, 1>>
  /\ env' = [p \in Place |-> IF p \in phis /\ p[1] = c THEN Eval(Operand(p, at[1])) ELSE env[p]]
  /\ UNCHANGED <<vars, mem>>

Ended == \/ pc = "crashed"
         \/ pc = "done" /\ at[2] > Len(Code(at[1])) /\ Succ[at[1]] = {}

Next ==
  \/ Pass /\ UNCHANGED runVars
  \/ Execute \/ (\E c \in Block : Branch(c))
  \/ Ended /\ UNCHANGED <<vars, runVars>>

Spec == RunInit /\ [][Next]_<<vars, runVars>>

-----------------------------------------------------------------------------
ValueOK(x) ==
  \/ x = Zero
  \/ x.kind = "def" /\ x.at \in Block /\ x.name \in DOMAIN Code(x.at)
  \/ x.kind = "phi" /\ <<x.at, x.name>> \in Place
TypeOK ==
  /\ pc \in {"insert", "rename", "unused", "selfMerge", "done", "crashed"}
  /\ workList \subseteq Place /\ phis \subseteq Place
  /\ \A p \in Place : \A e \in incoming[p] : e[1] \in Block /\ ValueOK(e[2])
  /\ \A s \in DOMAIN loaded : Code(s[1])[s[2]].op = "load" /\ ValueOK(loaded[s])
  /\ \A v \in Var : \A i \in DOMAIN replaceMap[v] : ValueOK(replaceMap[v][i])
  /\ pc = "rename" <=> calls # <<>>
  /\ toContinue \in BOOLEAN
  /\ at \in Block \X Nat
  /\ \A v \in Var : ValueOK(mem[v].value) /\ mem[v].value.kind # "phi"
  /\ \A p \in Place : ValueOK(env[p].value) /\ env[p].value.kind # "phi"

(***************************************************************************)
(* On every path, what replaced a load is what the variable would have      *)
(* held: neither an earlier store, nor one of another branch, nor the value *)
(* of another turn of the loop.                                             *)
(***************************************************************************)
LoadsSeeLastStore ==
  Running /\ Instr.op = "load" => Eval(loaded[at]) = mem[Instr.var]

(***************************************************************************)
(* A phi has one operand for each edge into its block, which BranchOpti and *)
(* GenerateMIR take for granted.                                            *)
(***************************************************************************)
PhiPerEdge ==
  pc \notin {"insert", "rename"} =>
    \A p \in phis :
      /\ {e[1] : e \in incoming[p]} = Preds(Succ, p[1])
      /\ Cardinality(incoming[p]) = Cardinality(Preds(Succ, p[1]))

(***************************************************************************)
(* Static single assignment: a value is defined on every path to its use,   *)
(* and no use is left of a phi that clearPhi dropped.                       *)
(***************************************************************************)
DefinedAt(x, b) ==
  /\ x # Zero => x.at \in Dom[fn.next][b]
  /\ x.kind = "phi" => <<x.at, x.name>> \in phis
DefsDominateUses ==
  pc = "selfMerge" =>
    /\ \A s \in DOMAIN loaded :
         /\ DefinedAt(loaded[s], s[1])
         /\ loaded[s].kind = "def" /\ loaded[s].at = s[1] => loaded[s].name < s[2]
    /\ \A p \in phis : \A e \in incoming[p] : DefinedAt(e[2], e[1])

(***************************************************************************)
(* The rounds of clearPhi end, unless a phi merges a value with itself: as  *)
(* in while (a) x = x, where they never do.                                 *)
(***************************************************************************)
EndsUnlessSelf == <>(pc = "done" \/ \E p \in phis : pc = "selfMerge" /\ SelfMerges(p))
=============================================================================
