---------------------------- MODULE MachineCode ----------------------------
(***************************************************************************)
(* The machine code GenerateMIR makes of one function, as the passes after  *)
(* it see it: which registers an instruction writes and reads, block by     *)
(* block (include/machine_insts.h).                                         *)
(*                                                                          *)
(* Beside the registers it has now, `dst` and `src`, an instruction keeps   *)
(* those it was made with, `def` and `use`: what it means, whatever the     *)
(* passes rename.  An erased move means something still and does nothing.   *)
(***************************************************************************)
EXTENDS Integers, Sequences, SequencesExt, FiniteSets

CONSTANTS
  N,            \* number of machine blocks
  Functions,    \* the machine functions: nexts, code, phis, args, ...
  iRegs,        \* the allocatable registers in order of preference
  iCallerRegs,  \* those among them a call overwrites, in order
  zero,         \* the register that is always 0
  MaxReg        \* bound on the ids of virtual registers

Block == 1..N
VReg == 1..MaxReg
MReg == Range(iRegs) \cup {zero}
Regs == VReg \cup MReg

ASSUME RegsAssumption ==
  /\ N \in Nat \ {0} /\ MaxReg \in Nat
  /\ iRegs \in Seq(MReg) /\ iRegs # <<>> /\ IsInjective(iRegs)
  /\ zero \notin Range(iRegs) /\ MReg \cap Nat = {}
  /\ iCallerRegs \in Seq(Range(iRegs))

Make(op, dst, src, imm) ==
  [op |-> op, def |-> dst, use |-> src, dst |-> dst, src |-> src, imm |-> imm]

LI(d)     == Make("li", <<d>>, <<>>, 0)      \* LLA and arguments loaded too
LEA(d)    == Make("lea", <<d>>, <<>>, -1)    \* an address no slot has
Op(d, s)  == Make("op", <<d>>, s, 0)         \* RR, RRI, RRR, Load
MV(d, s)  == Make("mv", <<d>>, <<s>>, 0)
Store(s)  == Make("store", <<>>, s, 0)       \* Store; StoreTo an argument
JumpEQ(c) == Make("jump", <<>>, <<c, zero>>, 0)
Call(n)   == Make("call", iCallerRegs, SubSeq(iCallerRegs, 1, n), 0)

\* LoadFrom and StoreTo a spill slot.
LoadFrom(d, slot) == [Make("loadFrom", <<>>, <<>>, slot) EXCEPT !.dst = <<d>>]
StoreTo(s, slot)  == [Make("storeTo", <<>>, <<>>, slot) EXCEPT !.src = <<s>>]

Writes(i) == Range(i.dst)
Reads(i)  == Range(i.src)

\* calcUseDef, of the instructions of a block.
UseOf(is) == {r \in Regs : \E k \in DOMAIN is :
                 /\ r \in Reads(is[k])
                 /\ \A j \in 1..(k - 1) : r \notin Writes(is[j])}
DefOf(is) == UNION {Writes(is[k]) : k \in DOMAIN is}

\* Instructions as GenerateMIR makes them.
Generated(i) ==
  /\ i.dst \in Seq(Regs) /\ i.src \in Seq(Regs)
  /\ \/ Len(i.dst) = 1 /\ i \in {LI(i.dst[1]), LEA(i.dst[1])}
     \/ Len(i.dst) = 1 /\ Len(i.src) <= 2 /\ i = Op(i.dst[1], i.src)
     \/ Len(i.dst) = 1 /\ Len(i.src) = 1 /\ i = MV(i.dst[1], i.src[1])
     \/ Len(i.src) <= 2 /\ i = Store(i.src)
     \/ Len(i.src) = 2 /\ i = JumpEQ(i.src[1])
     \/ \E n \in 0..Len(iCallerRegs) : i = Call(n)

\* The virtual registers of a function.
NamedIn(f) ==
  VReg \cap UNION {UNION {Writes(i) \cup Reads(i) : i \in Range(f.code[b])} : b \in Block}

(***************************************************************************)
(* A function's registers are written before they are read, on every path,  *)
(* and all but the phis by one instruction.                                 *)
(***************************************************************************)
WrittenFirst(f, v) ==
  \E S \in SUBSET (Block \ {1}) : \A b \in Block :
    \/ v \in UseOf(f.code[b])
    \/ v \notin DefOf(f.code[b]) /\ f.nexts[b] \cap S # {}
    => b \in S

WrittenOnce(f, v) ==
  \A b, c \in Block : \A j \in DOMAIN f.code[b], k \in DOMAIN f.code[c] :
    v \in Writes(f.code[b][j]) /\ v \in Writes(f.code[c][k]) => b = c /\ j = k

ASSUME FunctionsAssumption ==
  \A f \in Functions :
    /\ f.nexts \in [Block -> SUBSET Block]
    /\ f.code \in [Block -> Range(f.code)]
    /\ \A b \in Block :
         /\ f.code[b] \in Seq(Range(f.code[b]))
         /\ \A k \in DOMAIN f.code[b] : Generated(f.code[b][k])
    /\ f.phis \subseteq VReg
    /\ f.nextId \in 1..(MaxReg + 1)
    /\ \A v \in NamedIn(f) :
         WrittenFirst(f, v) /\ (v \in f.phis \/ WrittenOnce(f, v)) /\ v < f.nextId

VARIABLES
  fn,     \* the function; never assigned
  code    \* the instructions of each block, as they are now

BlockUse(b) == UseOf(code[b])
BlockDef(b) == DefOf(code[b])
=============================================================================
