------------------------------ MODULE RegAlloc ------------------------------
(***************************************************************************)
(* FuncRegAlloc (src/riscv/reg_allocate.cpp) up to the stack frame: who is  *)
(* in conflict with whom, greedy colouring, and the rewriting of the code   *)
(* around a register that found no colour (the spill methods of             *)
(* src/riscv/machine_insts.cpp), until every register has one.              *)
(***************************************************************************)
EXTENDS MachineCode

CONSTANTS
  MaxSlots,   \* bound on the spill slots of a function
  Orders      \* rankings of the registers: each an order the unordered maps
              \* and sets of pointers may have

ASSUME SlotsAssumption == MaxSlots \in Nat

VARIABLES
  order,      \* the ranking; never assigned
  phase,      \* "round", "lifespans", "colour", "rewrite", "assign", "run"
  infos,      \* BlockInfo: _nexts, _liveUse and _liveDef of each block
  liveIn, liveOut, cur, changed, stopped,    \* calcInOut, as in Liveness
  conflict,   \* conflictMap
  todo,       \* virtual registers the pass over conflictMap has yet to meet
  allocated,  \* allocatedVRegs
  map,        \* vRegToMRegMap
  spilled,    \* spilledRegs: the slot of each
  slots,      \* _spillSize / 8
  nextId      \* MachineInst::_counter: ids from here on are fresh
liveVars == <<infos, liveIn, liveOut, cur, changed, stopped>>
colourVars == <<conflict, todo, allocated, map, spilled, slots>>
allocVars == <<order, phase, liveVars, colourVars, nextId>>

\* The steps of Liveness, on the code of this round.
Live == INSTANCE Liveness WITH Reg <- Regs, Funcs <- {}, fun <- infos

AllocInit ==
  /\ order \in Orders
  /\ phase = "round"
  /\ infos = <<>> /\ liveIn = <<>> /\ liveOut = <<>>
  /\ cur = 0 /\ changed = FALSE /\ stopped = FALSE
  /\ conflict = <<>> /\ map = <<>> /\ spilled = <<>>
  /\ todo = {} /\ allocated = {}
  /\ slots = 0
  /\ nextId = fn.nextId

-----------------------------------------------------------------------------
(***************************************************************************)
(* calcLifespans and calcConflictMap: a register lives at the instructions  *)
(* it is live after and at those that name it; what lives at one            *)
(* instruction is in conflict.                                              *)
(***************************************************************************)
LiveAtInst(b) ==
  LET is == code[b]
      after[k \in 0..Len(is)] ==
        IF k = Len(is) THEN liveOut[b]
        ELSE (after[k + 1] \ Writes(is[k + 1])) \cup Reads(is[k + 1])
  IN  {after[k] \cup Writes(is[k]) \cup Reads(is[k]) : k \in DOMAIN is}

CalcConflictMap ==
  LET lives == UNION {LiveAtInst(b) : b \in Block}
  IN  [r \in UNION lives |-> (UNION {s \in lives : r \in s}) \ {r}]

IsFirst(v, S) == v \in S /\ \A u \in S : order[v] <= order[u]
VRegsOf(confl) == DOMAIN confl \cap VReg

StartRound ==
  /\ phase = "round"
  /\ phase' = "lifespans"
  /\ infos' = [nexts |-> fn.nexts, use |-> [b \in Block |-> BlockUse(b)],
                def |-> [b \in Block |-> BlockDef(b)]]
  /\ liveIn' = [b \in Block |-> {}] /\ liveOut' = [b \in Block |-> {}]
  /\ cur' = N /\ changed' = FALSE /\ stopped' = FALSE
  /\ UNCHANGED <<fn, order, code, colourVars, nextId>>

CalcInOut ==
  /\ phase = "lifespans"
  /\ Live!SweepBlock \/ Live!SweepEnd
  /\ UNCHANGED <<fn, order, code, phase, colourVars, nextId>>

StartColouring ==
  /\ phase = "lifespans" /\ stopped
  /\ phase' = "colour"
  /\ conflict' = CalcConflictMap
  /\ todo' = VRegsOf(conflict')
  /\ allocated' = {} /\ map' = <<>> /\ spilled' = <<>>
  /\ UNCHANGED <<fn, order, code, liveVars, slots, nextId>>

(***************************************************************************)
(* One register of conflictMap, in any order.  Arguments taken from         *)
(* registers keep away from those calls overwrite.                          *)
(***************************************************************************)
Barred(v) == IF v \in fn.args THEN Range(iCallerRegs) ELSE {}

\* Slips: UsedRegs as it could have gone wrong, for mutation of the checks.
UsedRegsOfVRegs(v) == {map[u] : u \in conflict[v] \cap DOMAIN map}

UsedRegs(v) ==
  {map[u] : u \in conflict[v] \cap DOMAIN map} \cup (conflict[v] \cap MReg)

Free(v) == {k \in DOMAIN iRegs : iRegs[k] \notin UsedRegs(v) \cup Barred(v)}

Colour(v, k) ==
  /\ phase = "colour" /\ IsFirst(v, todo)
  /\ k \in Free(v) /\ \A j \in Free(v) : k <= j
  /\ map' = [u \in DOMAIN map \cup {v} |-> IF u = v THEN iRegs[k] ELSE map[u]]
  /\ allocated' = allocated \cup {v}
  /\ todo' = todo \ {v}
  /\ UNCHANGED <<fn, order, code, phase, liveVars, conflict, spilled, slots, nextId>>

\* Of the registers met so far the one with most conflicts is spilled, and
\* the pass over the map begins anew; colours found are kept.
MostConflicts(S) ==
  {v \in S : \A u \in S : Cardinality(conflict[u]) <= Cardinality(conflict[v])}

Spill(v, t) ==
  /\ phase = "colour" /\ IsFirst(v, todo) /\ Free(v) = {} /\ slots < MaxSlots
  /\ IsFirst(t, MostConflicts(allocated \cup {v}))
  /\ spilled' = [u \in DOMAIN spilled \cup {t} |-> IF u = t THEN slots ELSE spilled[u]]
  /\ slots' = slots + 1
  /\ allocated' = (allocated \cup {v}) \ {t}
  /\ conflict' = [r \in DOMAIN conflict \ {t} |-> conflict[r] \ {t}]
  /\ todo' = VRegsOf(conflict')
  /\ UNCHANGED <<fn, order, code, phase, liveVars, map, nextId>>

\* Slips: EndRound as it could have gone wrong, for mutation of the checks.
EndRoundStale ==
  /\ phase = "colour" /\ todo = {}
  /\ phase' = IF spilled # <<>> THEN "rewrite" ELSE IF slots # 0 THEN "round" ELSE "assign"
  /\ UNCHANGED <<fn, order, code, liveVars, colourVars, nextId>>

EndRound ==
  /\ phase = "colour" /\ todo = {}
  /\ phase' = IF spilled = <<>> THEN "assign" ELSE "rewrite"
  /\ UNCHANGED <<fn, order, code, liveVars, colourVars, nextId>>

-----------------------------------------------------------------------------
(***************************************************************************)
(* The spill methods.  Fresh registers are n + 1, ...: most instructions    *)
(* read and write those; a conditional jump reads the slot back into the    *)
(* register itself, and LI, LLA and LoadFrom still write it.                *)
(***************************************************************************)
Renamed(regs, v, n) == [k \in DOMAIN regs |-> IF regs[k] = v THEN n + k - 1 ELSE regs[k]]

SpillInst(i, v, slot, n) ==
  LET src   == IF i.op = "jump" THEN i.src ELSE Renamed(i.src, v, n)
      dst   == IF i.op \in {"op", "mv", "lea"} THEN Renamed(i.dst, v, n + 2) ELSE i.dst
      loads == FlattenSeq([k \in DOMAIN i.src |->
                 IF i.src[k] = v THEN <<LoadFrom(src[k], slot)>> ELSE <<>>])
      inst  == [i EXCEPT !.src = src, !.dst = dst,
                         !.imm = IF i.op = "lea" /\ v \in Writes(i) THEN slot ELSE @]
      saves == IF v \in Writes(i) THEN <<StoreTo(dst[1], slot)>> ELSE <<>>
  IN  loads \o <<inst>> \o saves

\* The instructions that spilling v changes, up to the k-th of block b.
Named(v, b, k) ==
  UNION {{<<c, j>> : j \in {j \in DOMAIN code[c] :
                            /\ c = b => j <= k
                            /\ v \in Writes(code[c][j]) \cup Reads(code[c][j])}} : c \in 1..b}

Rewrite(v) ==
  /\ phase = "rewrite" /\ IsFirst(v, DOMAIN spilled)
  /\ code' = [b \in Block |-> FlattenSeq([k \in DOMAIN code[b] |->
                SpillInst(code[b][k], v, spilled[v],
                          nextId + 3 * (Cardinality(Named(v, b, k)) - 1))])]
  /\ nextId' = nextId + 3 * Cardinality(Named(v, N, Len(code[N])))
  /\ nextId' <= MaxReg + 1
  /\ spilled' = [u \in DOMAIN spilled \ {v} |-> spilled[u]]
  /\ phase' = IF spilled' = <<>> THEN "round" ELSE phase
  /\ UNCHANGED <<fn, order, liveVars, conflict, todo, allocated, map, slots>>

(***************************************************************************)
(* calcVRegToMReg and replaceReg.  The second colouring meets the same      *)
(* registers in the order of the last round, so it finds the same colours.  *)
(***************************************************************************)
Coloured(regs) == [k \in DOMAIN regs |-> IF regs[k] \in DOMAIN map THEN map[regs[k]] ELSE regs[k]]

Assign ==
  /\ phase = "assign"
  /\ code' = [b \in Block |-> [k \in DOMAIN code[b] |->
                [code[b][k] EXCEPT !.dst = Coloured(@), !.src = Coloured(@)]]]
  /\ phase' = "run"
  /\ UNCHANGED <<fn, order, liveVars, colourVars, nextId>>

Alloc ==
  \/ StartRound \/ CalcInOut \/ StartColouring \/ EndRound \/ Assign
  \/ \E v \in todo, k \in DOMAIN iRegs : Colour(v, k)
  \/ \E v \in todo : \E t \in allocated \cup {v} : Spill(v, t)
  \/ \E v \in DOMAIN spilled : Rewrite(v)

-----------------------------------------------------------------------------
(***************************************************************************)
(* Two registers in conflict never have one colour, nor has a virtual       *)
(* register that of a machine register it is in conflict with, though a     *)
(* spill erases registers from the map while it is being coloured and the   *)
(* colours of the pass before stay.                                         *)
(***************************************************************************)
ColoursApart ==
  \A v \in DOMAIN map \cap DOMAIN conflict :
    /\ map[v] \notin conflict[v]
    /\ \A u \in DOMAIN map \cap conflict[v] : map[u] # map[v]
=============================================================================
