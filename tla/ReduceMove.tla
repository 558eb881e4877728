----------------------------- MODULE ReduceMove -----------------------------
(***************************************************************************)
(* pass::ReduceMove (src/pass/reduce_move.cpp), which runLower repeats      *)
(* before registers are allocated: a move whose source is computed in the   *)
(* same block for that move alone goes, and the source is computed into     *)
(* the destination in the first place.                                      *)
(***************************************************************************)
EXTENDS MachineCode

VARIABLES
  cursor,    \* block and position the sweep has come to
  modified,
  reduced    \* the loop of runLower has ended
reduceVars == <<cursor, modified, reduced>>

\* Only -O1 runs the pass.
ReduceInit ==
  /\ cursor = <<1, 1>> /\ modified = FALSE
  /\ reduced = (fn.opt = "O0")

InBlock == ~reduced /\ cursor[2] <= Len(code[cursor[1]])
Inst == code[cursor[1]][cursor[2]]
Step == cursor' = [cursor EXCEPT ![2] = @ + 1]

\* The instruction itself is gone, its meaning is not.
Erased(i) == [i EXCEPT !.op = "erased", !.dst = <<>>, !.src = <<>>]

\* The move is all that reads the result.
ReadOnlyHere(s) ==
  \A b \in Block : \A k \in DOMAIN code[b] : s \in Reads(code[b][k]) => <<b, k>> = cursor

\* Slips: Blocks as it could have gone wrong, for mutation of the checks.
BlocksWrites(i, d) == i.op = "call" \/ d \in Writes(i)

\* Between the source and the move: d has another use there.
Blocks(i, d) == i.op = "call" \/ d \in Writes(i) \/ d \in Reads(i)

\* The source of the move is instruction j of its block.  A phi is no
\* instruction of a block, and a machine register has no such source.
CanReduce(j) ==
  LET is == code[cursor[1]] IN
  /\ Inst.op = "mv" /\ Inst.src # Inst.dst
  /\ Inst.src[1] \in VReg \ fn.phis
  /\ j < cursor[2] /\ is[j].dst = Inst.src
  /\ \A k \in (j + 1)..(cursor[2] - 1) : ~Blocks(is[k], Inst.dst[1])
  /\ ReadOnlyHere(Inst.src[1])

EraseSelfMove ==
  /\ InBlock /\ Inst.op = "mv" /\ Inst.src = Inst.dst
  /\ code' = [code EXCEPT ![cursor[1]][cursor[2]] = Erased(@)]
  /\ modified' = TRUE /\ Step
  /\ UNCHANGED <<fn, reduced>>

Reduce(j) ==
  /\ InBlock /\ CanReduce(j)
  /\ code' = [code EXCEPT ![cursor[1]][j].dst = Inst.dst,
                          ![cursor[1]][cursor[2]] = Erased(Inst)]
  /\ modified' = TRUE /\ Step
  /\ UNCHANGED <<fn, reduced>>

Keep ==
  /\ InBlock
  /\ ~(Inst.op = "mv" /\ Inst.src = Inst.dst)
  /\ ~\E j \in 1..(cursor[2] - 1) : CanReduce(j)
  /\ Step
  /\ UNCHANGED <<fn, code, modified, reduced>>

\* The end of a block, of a sweep, and of the sweeps.
NextBlock ==
  /\ ~reduced /\ ~InBlock
  /\ IF cursor[1] < N
     THEN cursor' = <<cursor[1] + 1, 1>> /\ UNCHANGED <<modified, reduced>>
     ELSE cursor' = <<1, 1>> /\ modified' = FALSE /\ reduced' = ~modified
  /\ UNCHANGED <<fn, code>>

Lower ==
  \/ EraseSelfMove \/ (\E j \in 1..(cursor[2] - 1) : Reduce(j)) \/ Keep \/ NextBlock
=============================================================================
