----------------------------- MODULE StackFrame -----------------------------
(***************************************************************************)
(* The stack frames of the compiled program: their layout (makeFrameInfo),  *)
(* how a function pushes and pops its own (pushFrame, popFrame), where it   *)
(* finds its cells and stack arguments (replaceFakeMIRs), and where callers *)
(* leave the arguments (MachineFunc::call), of src/riscv/reg_allocate.cpp   *)
(* and machine_func.cpp.  Sizes and addresses are in bytes, memory comes in *)
(* words of four.                                                           *)
(*                                                                         *)
(* A frame, from its sp upwards: arguments of the functions it calls,       *)
(* padding, spilled registers, local variables, saved registers, the return *)
(* address.  The code has a place for argument registers (INNER), too,      *)
(* whose size initCallerNums sets to zero.                                  *)
(***************************************************************************)
EXTENDS Integers, Sequences, FiniteSets

CONSTANTS
  Funcs, Main,
  Calls,      \* [Funcs -> SUBSET Funcs]
  Params,     \* the number of parameters of each function,
  Floats,     \* and which of them are floats
  MaxParams,  \* maxFuncParamNum of each function: no call of it has more
  Locals,     \* the size of each function's local variables,
  Spills,     \* the number of registers it spills,
  Used,       \* and the saved registers it uses, in the order they are saved
  Saved,      \* the saved registers: s0, s1, ...
  RegArgs,    \* argument registers of each class: 8
  SmallLimit, \* the largest frame pushFrame pushes with an immediate: 255
  ImmLimit,   \* the first number an immediate does not hold: 2048
  Data, Garbage, \* values, and what other memory reads as
  MaxDepth, StackSize

ASSUME FuncsAssumption ==
  /\ Main \in Funcs /\ Params[Main] = 0
  /\ Calls \in [Funcs -> SUBSET Funcs]
  /\ Params \in [Funcs -> Nat] /\ MaxParams \in [Funcs -> Nat]
  /\ \A f \in Funcs : Floats[f] \subseteq 1..Params[f]
  /\ \A f \in Funcs : \A g \in Calls[f] : Params[g] <= MaxParams[f]

ASSUME SizesAssumption ==
  /\ Locals \in [Funcs -> Nat] /\ \A f \in Funcs : Locals[f] % 4 = 0
  /\ Spills \in [Funcs -> Nat]
  /\ Used \in [Funcs -> Seq(Saved)]
  /\ \A f \in Funcs : \A i, j \in 1..Len(Used[f]) : Used[f][i] = Used[f][j] => i = j
  /\ RegArgs \in Nat /\ MaxDepth \in Nat /\ StackSize \in Nat
  /\ SmallLimit \in Nat /\ ImmLimit \in Nat /\ SmallLimit <= ImmLimit

\* All callee-saved registers and ra together take 200 bytes.
ASSUME SavesFitAssumption == \A f \in Funcs : 8 * (Len(Used[f]) + 1) < ImmLimit

ASSUME DataAssumption == Garbage \notin Data /\ Data # {}

Depths == 1..MaxDepth
Words == {a \in -StackSize .. -1 : a % 4 = 0}

VARIABLES
  depth,   \* functions running, one in the other
  fun,     \* [Depths -> Funcs]: what runs at each depth
  sp, ra,
  regs,    \* [Saved -> Data]
  mem,     \* [Words -> Data and return addresses]
  base,    \* history: the sp of the frame at each depth
  kept     \* history: what the caller had in the saved registers
           \* (all three are reset when a frame is popped)
vars == <<depth, fun, sp, ra, regs, mem, base, kept>>

-----------------------------------------------------------------------------
(* The layout. *)

FuncParamSize(f) == IF MaxParams[f] > RegArgs THEN 8 * (MaxParams[f] - RegArgs) ELSE 0
CallAddrSize(f) == IF Calls[f] = {} THEN 0 ELSE 8
SavedRegSize(f) == 8 * Len(Used[f])
SpillSize(f) == 8 * Spills[f]

\* Slips: AlignSize as it could have gone wrong, for mutation of the checks.
AlignSizeNone(f) == 0

AlignSize(f) ==
  (FuncParamSize(f) + SpillSize(f) + Locals[f] + SavedRegSize(f) + CallAddrSize(f)) % 8

SaveRegsSize(f) == CallAddrSize(f) + SavedRegSize(f)
TotalSize(f) == FuncParamSize(f) + AlignSize(f) + SpillSize(f) + Locals[f]
FrameSize(f) == SaveRegsSize(f) + TotalSize(f)

\* What a frame holds: spilled registers of eight bytes, locals of four.
Cells(f) ==
  [item : {"SPILL"}, imm : {8 * n : n \in 0..(Spills[f] - 1)}] \cup
  [item : {"LOCAL"}, imm : {a \in 0..(Locals[f] - 1) : a % 4 = 0}]

\* Slips: CellOffset as it could have gone wrong, for mutation of the checks.
CellOffsetUnspilled(f, c) == FuncParamSize(f) + AlignSize(f) + c.imm

CellOffset(f, c) ==
  FuncParamSize(f) + AlignSize(f) + c.imm +
    (IF c.item = "LOCAL" THEN SpillSize(f) ELSE 0)

(***************************************************************************)
(* An argument is passed on the stack when those of its class before it     *)
(* have taken all argument registers.                                       *)
(***************************************************************************)
FSize(f, k) == Cardinality(Floats[f] \cap 1..(k - 1))
ISize(f, k) == k - 1 - FSize(f, k)

OnStack(f, k) == IF k \in Floats[f] THEN FSize(f, k) >= RegArgs ELSE ISize(f, k) >= RegArgs
StackArgs(f) == {k \in 1..Params[f] : OnStack(f, k)}

Excess(n) == IF n > RegArgs THEN n - RegArgs ELSE 0

argsStackOffset(f, k) == 8 * (Excess(ISize(f, k)) + Excess(FSize(f, k)))

OuterOffset(f, k) == FrameSize(f) + argsStackOffset(f, k)

-----------------------------------------------------------------------------
(* The memory. *)

Double(a) == {a, a + 4}
Span(c, a) == IF c.item = "SPILL" THEN Double(a) ELSE {a}
Read(A) == IF \E v \in Data : \A a \in A : mem[a] = v
           THEN CHOOSE v \in Data : \A a \in A : mem[a] = v
           ELSE Garbage

\* Below the sp of the caller: the return address, then the registers.
RaSlot(top) == Double(top - 8)

\* Slips: RegSlot as it could have gone wrong, for mutation of the checks.
RegSlotFromTop(f, i, top) == Double(top - 8 * i)

RegSlot(f, i, top) == Double(top - CallAddrSize(f) - 8 * i)

-----------------------------------------------------------------------------
Init ==
  /\ depth = 0 /\ sp = 0 /\ ra = 0
  /\ fun = [d \in Depths |-> Main]
  /\ regs \in [Saved -> Data]
  /\ mem = [a \in Words |-> Garbage]
  /\ base = [d \in 0..MaxDepth |-> 0]
  /\ kept = [d \in Depths |-> regs]

(***************************************************************************)
(* A call stores the arguments from sp upwards, jumps, and the function     *)
(* saves below sp what it must and makes the rest of its frame.  depth = 0  *)
(* is whoever calls main.                                                   *)
(***************************************************************************)
Saving(f, a) ==
  IF Calls[f] # {} /\ a \in RaSlot(sp)
  THEN depth
  ELSE IF \E i \in 1..Len(Used[f]) : a \in RegSlot(f, i, sp)
  THEN regs[Used[f][CHOOSE i \in 1..Len(Used[f]) : a \in RegSlot(f, i, sp)]]
  ELSE mem[a]

Passing(f, passed, a) ==
  IF \E k \in StackArgs(f) : a \in Double(sp + argsStackOffset(f, k))
  THEN passed[CHOOSE k \in StackArgs(f) : a \in Double(sp + argsStackOffset(f, k))]
  ELSE mem[a]

\* Slips: PushSize as it could have gone wrong, for mutation of the checks.
PushSizeUnaligned(f) == FrameSize(f) - AlignSize(f)

PushSize(f) == SaveRegsSize(f) + TotalSize(f)

Call(f, passed) ==
  /\ depth < MaxDepth
  /\ IF depth = 0 THEN f = Main ELSE f \in Calls[fun[depth]]
  /\ FrameSize(f) <= StackSize + sp
  /\ mem' = [a \in Words |-> IF a < sp THEN Saving(f, a) ELSE Passing(f, passed, a)]
  /\ sp' = sp - PushSize(f)
  /\ ra' = depth
  /\ depth' = depth + 1
  /\ fun' = [fun EXCEPT ![depth + 1] = f]
  /\ base' = [base EXCEPT ![depth + 1] = sp']
  /\ kept' = [kept EXCEPT ![depth + 1] = regs]
  /\ UNCHANGED regs

\* A spill, or a store to a local variable.
Write(c, v) ==
  /\ depth > 0 /\ c \in Cells(fun[depth])
  /\ mem' = [a \in Words |->
              IF a \in Span(c, sp + CellOffset(fun[depth], c)) THEN v ELSE mem[a]]
  /\ UNCHANGED <<depth, fun, sp, ra, regs, base, kept>>

SetReg(i, v) ==
  /\ depth > 0 /\ i \in 1..Len(Used[fun[depth]])
  /\ regs' = [regs EXCEPT ![Used[fun[depth]][i]] = v]
  /\ UNCHANGED <<depth, fun, sp, ra, mem, base, kept>>

PopSize(f) ==
  SaveRegsSize(f) + FuncParamSize(f) + AlignSize(f) + SpillSize(f) + Locals[f]

(***************************************************************************)
(* The frame is popped before the registers are loaded from below sp.  The  *)
(* function goes back where ra says.  Nothing keeps what is below sp then.  *)
(***************************************************************************)
Return ==
  /\ depth > 0
  /\ LET f == fun[depth]
         top == sp + PopSize(f)
         back == IF Calls[f] = {} THEN ra ELSE mem[top - 8]
     IN /\ sp' = top
        /\ ra' = back
        /\ depth' = back
        /\ regs' = [r \in Saved |->
                     IF \E i \in 1..Len(Used[f]) : Used[f][i] = r
                     THEN Read(RegSlot(f, CHOOSE i \in 1..Len(Used[f]) : Used[f][i] = r, top))
                     ELSE regs[r]]
  /\ fun' = [fun EXCEPT ![depth] = Main]
  /\ base' = [base EXCEPT ![depth] = 0]
  /\ kept' = [kept EXCEPT ![depth] = regs']
  /\ mem' = [a \in Words |-> IF a < sp' THEN Garbage ELSE mem[a]]

Next ==
  \/ \E f \in Funcs : \E passed \in [StackArgs(f) -> Data] : Call(f, passed)
  \/ \E v \in Data :
       \/ \E c \in UNION {Cells(f) : f \in Funcs} : Write(c, v)
       \/ \E i \in 1..Cardinality(Saved) : SetReg(i, v)
  \/ Return

Spec == Init /\ [][Next]_vars

-----------------------------------------------------------------------------
TypeOK ==
  /\ depth \in 0..MaxDepth
  /\ fun \in [Depths -> Funcs]
  /\ sp \in -StackSize .. 0
  /\ ra \in 0..MaxDepth
  /\ regs \in [Saved -> Data]
  /\ mem \in [Words -> Data \cup {Garbage} \cup 0..MaxDepth]
  /\ base \in [0..MaxDepth -> -StackSize .. 0]
  /\ kept \in [Depths -> [Saved -> Data]]

(***************************************************************************)
(* A frame is popped by as much as it was pushed: sp is that of the running *)
(* function, and every frame ends where that of its caller begins.          *)
(***************************************************************************)
FramesAbut ==
  /\ sp = base[depth]
  /\ \A d \in 1..depth : base[d - 1] = base[d] + FrameSize(fun[d])

\* Words of eight bytes are aligned, as the loads and stores of them need.
SpAligned == sp % 8 = 0

(***************************************************************************)
(* What the running function would restore is what its caller had: every    *)
(* saved register, and the place to go back to.                             *)
(***************************************************************************)
CallerKept ==
  depth > 0 =>
    LET f == fun[depth]
        top == base[depth - 1]
    IN /\ IF Calls[f] = {} THEN ra = depth - 1
          ELSE \A a \in RaSlot(top) : mem[a] = depth - 1
       /\ \A i \in 1..Len(Used[f]) : \A a \in RegSlot(f, i, top) :
            mem[a] = kept[depth][Used[f][i]]
       /\ \A r \in Saved : (\A i \in 1..Len(Used[f]) : Used[f][i] # r) =>
            regs[r] = kept[depth][r]

(***************************************************************************)
(* Every immediate of the code that pushes, pops and addresses a frame fits *)
(* its field.                                                               *)
(***************************************************************************)
Below(n) == IF n < ImmLimit THEN {n} ELSE {}

\* Slips: PopImm as it could have gone wrong, for mutation of the checks.
PopImmWithin(f) == IF PopSize(f) <= ImmLimit THEN {PopSize(f)} ELSE {}

PopImm(f) == Below(PopSize(f))

PushImm(f) == IF TotalSize(f) <= SmallLimit THEN {-TotalSize(f)} ELSE {}
SaveImms(f) ==
  {-SaveRegsSize(f)} \cup
  {SaveRegsSize(f) - 8 * n : n \in 1..(SaveRegsSize(f) \div 8)}
LoadImms(f) == {-(8 * n) : n \in 1..(SaveRegsSize(f) \div 8)}
CellImms(f) ==
  (UNION {Below(CellOffset(f, c)) : c \in Cells(f)}) \cup
  (UNION {Below(OuterOffset(f, k)) : k \in StackArgs(f)})

ImmediatesFit ==
  \A d \in 1..depth :
    \A n \in PushImm(fun[d]) \cup PopImm(fun[d]) \cup SaveImms(fun[d])
             \cup LoadImms(fun[d]) \cup CellImms(fun[d]) :
      n \in -ImmLimit .. ImmLimit - 1

-----------------------------------------------------------------------------
(***************************************************************************)
(* The calls of CallStack, seen in the frames: the cells and arguments of   *)
(* each depth are what memory holds where the function at that depth looks  *)
(* for them.                                                                *)
(***************************************************************************)
CellsAt(d) ==
  IF d > depth THEN <<>>
  ELSE [c \in Cells(fun[d]) |-> Read(Span(c, base[d] + CellOffset(fun[d], c)))]
ArgsAt(d) ==
  IF d > depth THEN <<>>
  ELSE [k \in StackArgs(fun[d]) |-> Read(Double(base[d] + OuterOffset(fun[d], k)))]

Uses(f) == {Used[f][i] : i \in 1..Len(Used[f])}

Abstract ==
  INSTANCE CallStack WITH
    cells <- [d \in Depths |-> CellsAt(d)],
    args <- [d \in Depths |-> ArgsAt(d)]

\* The frames keep the promise of CallStack.
KeepsCalls == Abstract!Spec
=============================================================================
