------------------------------ MODULE Liveness ------------------------------
(***************************************************************************)
(* Which registers are live at the borders of the machine blocks:           *)
(* FuncRegAlloc::calcInOut over BlockInfo (src/riscv/reg_allocate.cpp,      *)
(* include/reg_allocate.h), the sweeps from the last block to the first     *)
(* that stop when the sizes of the sets stop growing.                       *)
(***************************************************************************)
EXTENDS Naturals, FiniteSets

CONSTANTS
  N,       \* blocks of the function
  Reg,     \* registers, virtual and physical
  Funcs    \* functions: _nexts, _liveUse and _liveDef of each block

Block == 1..N

ASSUME NAssumption == N \in Nat \ {0}
ASSUME RegAssumption == IsFiniteSet(Reg)
ASSUME FuncsAssumption ==
  \A f \in Funcs : /\ f.nexts \in [Block -> SUBSET Block]
                   /\ f.use \in [Block -> SUBSET Reg]
                   /\ f.def \in [Block -> SUBSET Reg]

VARIABLES
  fun,              \* the function; never assigned
  liveIn, liveOut,  \* _liveIn, _liveOut of each block
  cur,              \* blocks the sweep has yet to visit: 1..cur
  changed, stopped

vars == <<fun, liveIn, liveOut, cur, changed, stopped>>

Init ==
  /\ fun \in Funcs
  /\ liveIn = [b \in Block |-> {}]
  /\ liveOut = [b \in Block |-> {}]
  /\ cur = N /\ changed = FALSE /\ stopped = FALSE

\* Slips: CalcIn as it could have gone wrong, for mutation of the checks.
CalcInLive(b) == fun.use[b] \cup liveOut[b]

\* BlockInfo::calcIn, with the out set as it is.
CalcIn(b) == fun.use[b] \cup (liveOut[b] \ fun.def[b])

\* BlockInfo::calcOut: the out set only grows, by the in sets `ins`.
CalcOut(b, ins) == liveOut[b] \cup UNION {ins[n] : n \in fun.nexts[b]}

\* Slips: SizeOfInOut as it could have gone wrong, for mutation of the checks.
SizeOfIn(in, out, b) == Cardinality(in[b])

SizeOfInOut(in, out, b) == Cardinality(in[b]) + Cardinality(out[b])

SweepBlock ==
  /\ ~stopped /\ cur >= 1
  /\ liveIn' = [liveIn EXCEPT ![cur] = CalcIn(cur)]
  /\ liveOut' = [liveOut EXCEPT ![cur] = CalcOut(cur, liveIn')]
  /\ changed' = (changed \/ SizeOfInOut(liveIn', liveOut', cur)
                              # SizeOfInOut(liveIn, liveOut, cur))
  /\ cur' = cur - 1
  /\ UNCHANGED <<fun, stopped>>

\* Slips: SweepEnd as it could have gone wrong, for mutation of the checks.
SweepEndStale ==
  /\ ~stopped /\ cur = 0
  /\ IF changed
     THEN cur' = N /\ UNCHANGED <<changed, stopped>>
     ELSE stopped' = TRUE /\ UNCHANGED <<cur, changed>>
  /\ UNCHANGED <<fun, liveIn, liveOut>>

SweepEnd ==
  /\ ~stopped /\ cur = 0
  /\ IF changed
     THEN cur' = N /\ changed' = FALSE /\ UNCHANGED stopped
     ELSE stopped' = TRUE /\ UNCHANGED <<cur, changed>>
  /\ UNCHANGED <<fun, liveIn, liveOut>>

Done == stopped /\ UNCHANGED vars

Next == SweepBlock \/ SweepEnd \/ Done

Spec == Init /\ [][Next]_vars
FairSpec == Spec /\ WF_vars(Next)

-----------------------------------------------------------------------------
TypeOK ==
  /\ liveIn \in [Block -> SUBSET Reg] /\ liveOut \in [Block -> SUBSET Reg]
  /\ cur \in 0..N
  /\ changed \in BOOLEAN /\ stopped \in BOOLEAN

(***************************************************************************)
(* r is live into b if b is in every set of blocks that has the blocks that *)
(* read r first and, going back over branches, those that do not write it.  *)
(***************************************************************************)
ReadClosed(r, S) ==
  \A b \in Block : \/ r \in fun.use[b]
                   \/ r \notin fun.def[b] /\ fun.nexts[b] \cap S # {}
                   => b \in S
LiveAt(b) == {r \in Reg : \A S \in SUBSET Block : ReadClosed(r, S) => b \in S}
LiveAfter(b) == UNION {LiveAt(n) : n \in fun.nexts[b]}

(***************************************************************************)
(* When the sweeps stop, the sets are exactly the live registers, though    *)
(* calcIn reads the out set of the sweep before and only sizes are          *)
(* compared: a register missed is one another value would overwrite.        *)
(***************************************************************************)
LiveExact ==
  stopped => \A b \in Block : liveIn[b] = LiveAt(b) /\ liveOut[b] = LiveAfter(b)

\* The sweeps never take a register for live that is not: spills are not
\* provoked by values nobody reads.
NeverTooLive ==
  \A b \in Block : liveIn[b] \subseteq LiveAt(b) /\ liveOut[b] \subseteq LiveAfter(b)

\* A live set never shrinks, so equal sizes do mean equal sets.
OnlyGrows ==
  [][\A b \in Block : liveIn[b] \subseteq liveIn'[b] /\ liveOut[b] \subseteq liveOut'[b]]_vars

\* The sweeps stop.
Stops == <>stopped
=============================================================================
