-------------------------- MODULE StackFrameProofs --------------------------
(***************************************************************************)
(* For frames of any size, any calls and any depth: what StackFrame's       *)
(* layout keeps apart, that a function gives its caller back its saved      *)
(* registers, its sp and its return address, and that frames on one memory  *)
(* implement CallStack, where each activation has its own.                  *)
(***************************************************************************)
EXTENDS StackFrame, FiniteSetTheorems, TLAPS

-----------------------------------------------------------------------------
(* Sizes and offsets. *)

\* Adding to a multiple of four its remainder by eight rounds it up.
LEMMA RoundsUp ==
  ASSUME NEW x \in Nat, x % 4 = 0
  PROVE (x + (x % 8)) % 8 = 0
OBVIOUS

\* The sizes are numbers, and a frame is a multiple of eight.
LEMMA Sizes ==
  ASSUME NEW f \in Funcs
  PROVE /\ FuncParamSize(f) \in Nat /\ AlignSize(f) \in Nat /\ SpillSize(f) \in Nat
        /\ Locals[f] \in Nat /\ Len(Used[f]) \in Nat
        /\ CallAddrSize(f) \in {0, 8} /\ (CallAddrSize(f) = 0 <=> Calls[f] = {})
        /\ SaveRegsSize(f) = CallAddrSize(f) + 8 * Len(Used[f])
        /\ SaveRegsSize(f) \in Nat
        /\ TotalSize(f) = FuncParamSize(f) + AlignSize(f) + SpillSize(f) + Locals[f]
        /\ TotalSize(f) \in Nat
        /\ FrameSize(f) = SaveRegsSize(f) + TotalSize(f)
        /\ FrameSize(f) \in Nat /\ FrameSize(f) % 8 = 0
        /\ PushSize(f) = FrameSize(f) /\ PopSize(f) = FrameSize(f)
<1>1. FuncParamSize(f) \in Nat /\ FuncParamSize(f) % 8 = 0
  BY FuncsAssumption, SizesAssumption DEF FuncParamSize
<1>2. SpillSize(f) \in Nat /\ SpillSize(f) % 8 = 0
  BY SizesAssumption DEF SpillSize
<1>3. Locals[f] \in Nat /\ Locals[f] % 4 = 0
  BY SizesAssumption
<1>4. Len(Used[f]) \in Nat
  BY SizesAssumption
<1>5. CallAddrSize(f) \in {0, 8} /\ (CallAddrSize(f) = 0 <=> Calls[f] = {})
  BY DEF CallAddrSize
<1>6. SaveRegsSize(f) = CallAddrSize(f) + 8 * Len(Used[f])
      /\ SavedRegSize(f) = 8 * Len(Used[f])
  BY DEF SaveRegsSize, SavedRegSize
<1>7. AlignSize(f) = (FuncParamSize(f) + SpillSize(f) + Locals[f]
                      + 8 * Len(Used[f]) + CallAddrSize(f)) % 8
  BY <1>6 DEF AlignSize
<1>8. AlignSize(f) \in Nat
  BY <1>1, <1>2, <1>3, <1>4, <1>5, <1>7
<1>9. TotalSize(f) = FuncParamSize(f) + AlignSize(f) + SpillSize(f) + Locals[f]
      /\ FrameSize(f) = SaveRegsSize(f) + TotalSize(f)
  BY DEF TotalSize, FrameSize
<1>10. FrameSize(f) % 8 = 0
  <2> DEFINE p == FuncParamSize(f)
             s == SpillSize(f)
             l == Locals[f]
             n == Len(Used[f])
             c == CallAddrSize(f)
             x == p + s + l + 8 * n + c
  <2>1. p \in Nat /\ s \in Nat /\ l \in Nat /\ n \in Nat /\ c \in Nat
    BY <1>1, <1>2, <1>3, <1>4, <1>5
  <2>2. p % 8 = 0 /\ s % 8 = 0 /\ l % 4 = 0 /\ c % 8 = 0
    BY <1>1, <1>2, <1>3, <1>5
  <2>3. AlignSize(f) = x % 8
    BY <1>7
  <2>4. FrameSize(f) = c + 8 * n + (p + AlignSize(f) + s + l)
    BY <1>6, <1>9
  <2> HIDE DEF p, s, l, n, c
  <2>5. x \in Nat /\ x % 4 = 0
    BY <2>1, <2>2
  <2>6. (x + (x % 8)) % 8 = 0
    BY <2>5, RoundsUp
  <2>7. c + 8 * n + (p + (x % 8) + s + l) = x + (x % 8)
    BY <2>1
  <2> QED
    BY <2>3, <2>4, <2>6, <2>7
<1>11. SaveRegsSize(f) \in Nat
  BY <1>4, <1>5, <1>6
<1>12. TotalSize(f) \in Nat
  BY <1>1, <1>2, <1>3, <1>8, <1>9
<1>13. FrameSize(f) \in Nat
  BY <1>9, <1>11, <1>12
<1>14. PushSize(f) = FrameSize(f)
  BY DEF PushSize, FrameSize
<1>15. PopSize(f) = FrameSize(f)
  <2> DEFINE sr == SaveRegsSize(f)
             p == FuncParamSize(f)
             al == AlignSize(f)
             s == SpillSize(f)
             l == Locals[f]
  <2>1. sr \in Nat /\ p \in Nat /\ al \in Nat /\ s \in Nat /\ l \in Nat
    BY <1>1, <1>2, <1>3, <1>8, <1>11
  <2>2. PopSize(f) = sr + p + al + s + l /\ FrameSize(f) = sr + (p + al + s + l)
    BY <1>9 DEF PopSize
  <2> HIDE DEF sr, p, al, s, l
  <2> QED
    BY <2>1, <2>2
<1> QED
  BY <1>1, <1>2, <1>3, <1>4, <1>5, <1>6, <1>8, <1>9, <1>10, <1>11, <1>12, <1>13, <1>14, <1>15

(***************************************************************************)
(* The words a function saves registers in lie below its caller's sp, in    *)
(* the frame, and are different words for different registers.              *)
(***************************************************************************)
LEMMA SlotsApart ==
  ASSUME NEW f \in Funcs, NEW top \in Int, top % 8 = 0, top <= 0,
         FrameSize(f) <= StackSize + top
  PROVE /\ Calls[f] # {} => \A a \in RaSlot(top) :
              a \in Words /\ top - SaveRegsSize(f) <= a /\ a < top
        /\ \A i \in 1..Len(Used[f]) : \A a \in RegSlot(f, i, top) :
              a \in Words /\ top - SaveRegsSize(f) <= a /\ a < top
        /\ Calls[f] # {} => \A i \in 1..Len(Used[f]) : \A a \in RegSlot(f, i, top) :
              a \notin RaSlot(top)
        /\ \A i, j \in 1..Len(Used[f]) : \A a \in RegSlot(f, i, top) :
              a \in RegSlot(f, j, top) => i = j
<1> DEFINE c == CallAddrSize(f)
           n == Len(Used[f])
           s == SaveRegsSize(f)
           size == FrameSize(f)
           stack == StackSize
<1>1. /\ c \in {0, 8} /\ (c = 0 <=> Calls[f] = {}) /\ n \in Nat /\ s = c + 8 * n
      /\ size \in Nat /\ s \in Nat /\ s <= size
  BY Sizes
<1>2. stack \in Nat /\ size <= stack + top
  BY SizesAssumption
<1>3. \A a : a \in Words <=> a \in -stack .. -1 /\ a % 4 = 0
  BY DEF Words
<1>4. \A a : a \in RaSlot(top) <=> a = top - 8 \/ a = (top - 8) + 4
  BY DEF RaSlot, Double
<1>5. \A i, a : a \in RegSlot(f, i, top) <=> a = (top - c) - 8 * i \/ a = ((top - c) - 8 * i) + 4
  BY DEF RegSlot, Double
<1> HIDE DEF c, n, s, size, stack
<1>6. ASSUME Calls[f] # {}, NEW a \in RaSlot(top)
      PROVE a \in Words /\ top - s <= a /\ a < top
  <2>1. c = 8 /\ (a = top - 8 \/ a = (top - 8) + 4)
    BY <1>1, <1>4, <1>6
  <2>2. a \in Int /\ top - s <= a /\ a < top /\ a % 4 = 0
    BY <2>1, <1>1
  <2> QED
    BY <2>2, <1>1, <1>2, <1>3
<1>7. ASSUME NEW i \in 1..n, NEW a \in RegSlot(f, i, top)
      PROVE a \in Words /\ top - s <= a /\ a < top
  <2>1. a = (top - c) - 8 * i \/ a = ((top - c) - 8 * i) + 4
    BY <1>5
  <2>2. a \in Int /\ top - s <= a /\ a < top /\ a % 4 = 0
    BY <2>1, <1>1
  <2> QED
    BY <2>2, <1>1, <1>2, <1>3
<1>8. ASSUME Calls[f] # {}, NEW i \in 1..n, NEW a \in RegSlot(f, i, top)
      PROVE a \notin RaSlot(top)
  <2>1. c = 8
    BY <1>1, <1>8
  <2> QED
    BY <2>1, <1>1, <1>4, <1>5
<1>9. ASSUME NEW i \in 1..n, NEW j \in 1..n, NEW a \in RegSlot(f, i, top),
             a \in RegSlot(f, j, top)
      PROVE i = j
  BY <1>1, <1>5, <1>9
<1> QED
  BY <1>6, <1>7, <1>8, <1>9 DEF n, s

(***************************************************************************)
(* The stack arguments of a call fit the place the caller has for them.     *)
(***************************************************************************)
LEMMA Counts ==
  ASSUME NEW g \in Funcs, NEW k \in 1..Params[g]
  PROVE FSize(g, k) \in Nat /\ ISize(g, k) \in Nat /\ FSize(g, k) + ISize(g, k) = k - 1
<1>1. k - 1 \in Nat /\ 1 \in Int /\ k - 1 \in Int
  BY FuncsAssumption
<1>2. IsFiniteSet(1..(k - 1)) /\ Cardinality(1..(k - 1)) = k - 1
  BY <1>1, FS_Interval
<1>3. Floats[g] \cap 1..(k - 1) \subseteq 1..(k - 1)
  OBVIOUS
<1>4. Cardinality(Floats[g] \cap 1..(k - 1)) <= k - 1
      /\ IsFiniteSet(Floats[g] \cap 1..(k - 1))
  BY <1>2, <1>3, FS_Subset
<1>5. Cardinality(Floats[g] \cap 1..(k - 1)) \in Nat
  BY <1>4, FS_CardinalityType
<1>6. FSize(g, k) \in Nat /\ FSize(g, k) <= k - 1
  BY <1>4, <1>5 DEF FSize
<1> QED
  BY <1>1, <1>6 DEF ISize

LEMMA ArgsFit ==
  ASSUME NEW f \in Funcs, NEW g \in Calls[f], NEW k \in StackArgs(g)
  PROVE /\ argsStackOffset(g, k) \in Nat /\ argsStackOffset(g, k) % 8 = 0
        /\ argsStackOffset(g, k) + 8 <= FuncParamSize(f)
<1>1. g \in Funcs /\ k \in 1..Params[g] /\ OnStack(g, k)
  BY FuncsAssumption DEF StackArgs
<1> DEFINE i == ISize(g, k)
           l == FSize(g, k)
           p == Params[g]
           m == MaxParams[f]
<1>2. i \in Nat /\ l \in Nat /\ l + i = k - 1
  BY <1>1, Counts
<1>3. p \in Nat /\ m \in Nat /\ p <= m /\ RegArgs \in Nat /\ k \in 1..p
  BY <1>1, FuncsAssumption, SizesAssumption
<1>4. i >= RegArgs \/ l >= RegArgs
  BY <1>1 DEF OnStack
<1>5. argsStackOffset(g, k) = 8 * (Excess(i) + Excess(l))
  BY DEF argsStackOffset
<1>6. FuncParamSize(f) = IF m > RegArgs THEN 8 * (m - RegArgs) ELSE 0
  BY DEF FuncParamSize
<1> HIDE DEF i, l, p, m
<1>7. /\ Excess(i) = IF i > RegArgs THEN i - RegArgs ELSE 0
      /\ Excess(l) = IF l > RegArgs THEN l - RegArgs ELSE 0
  BY DEF Excess
<1>8. Excess(i) \in Nat /\ Excess(l) \in Nat /\ Excess(i) + Excess(l) <= (k - 1) - RegArgs
  BY <1>2, <1>3, <1>4, <1>7
<1>9. m > RegArgs /\ Excess(i) + Excess(l) <= (m - RegArgs) - 1
  BY <1>2, <1>3, <1>8
<1> QED
  BY <1>3, <1>5, <1>6, <1>8, <1>9

-----------------------------------------------------------------------------
(* The inductive invariant. *)

\* Every frame lies above the frames of the functions it called.
Stacked ==
  /\ base[0] = 0
  /\ \A d \in 0..MaxDepth : base[d] % 8 = 0
  /\ \A e \in 1..depth : \A d \in 0..(e - 1) : base[e] + FrameSize(fun[e]) <= base[d]

NotUsed(f, r) == \A i \in 1..Len(Used[f]) : Used[f][i] # r

(***************************************************************************)
(* CallerKept at every depth: what the function at depth d has saved is     *)
(* still there, and what it does not use is for those it called to keep.    *)
(***************************************************************************)
AllKept ==
  /\ \A d \in 1..depth : Calls[fun[d]] # {} =>
       \A a \in RaSlot(base[d - 1]) : mem[a] = d - 1
  /\ \A d \in 1..depth : \A i \in 1..Len(Used[fun[d]]) :
       \A a \in RegSlot(fun[d], i, base[d - 1]) : mem[a] = kept[d][Used[fun[d]][i]]
  /\ \A d \in 1..(depth - 1) : Calls[fun[d]] # {}
  /\ (depth > 0 /\ Calls[fun[depth]] = {}) => ra = depth - 1
  /\ \A d \in 1..(depth - 1) : \A r \in Saved :
       NotUsed(fun[d], r) => kept[d + 1][r] = kept[d][r]
  /\ depth > 0 => \A r \in Saved : NotUsed(fun[depth], r) => regs[r] = kept[depth][r]

IInv == TypeOK /\ FramesAbut /\ Stacked /\ AllKept

\* The values of a frame's slots, for the frame at one depth.
LEMMA SlotsOf ==
  ASSUME IInv, NEW d \in 1..depth
  PROVE /\ fun[d] \in Funcs /\ d - 1 \in 0..MaxDepth /\ d \in 0..MaxDepth
        /\ base[d - 1] \in Int /\ base[d] \in Int
        /\ base[d - 1] % 8 = 0 /\ base[d - 1] <= 0
        /\ base[d - 1] = base[d] + FrameSize(fun[d])
        /\ FrameSize(fun[d]) <= StackSize + base[d - 1]
        /\ sp \in Int /\ sp <= base[d]
        /\ d < depth => sp + FrameSize(fun[depth]) <= base[d]
<1> USE DEF IInv
<1>1. depth \in 0..MaxDepth /\ MaxDepth \in Nat /\ StackSize \in Nat
  BY SizesAssumption DEF TypeOK
<1>2. d \in Depths /\ d - 1 \in 0..MaxDepth /\ d \in 0..MaxDepth /\ d \in 1..MaxDepth
  BY <1>1 DEF Depths
<1>3. fun[d] \in Funcs
  BY <1>2 DEF TypeOK
<1>4. base[d - 1] \in -StackSize .. 0 /\ base[d] \in -StackSize .. 0 /\ sp \in -StackSize .. 0
  BY <1>2 DEF TypeOK
<1>5. base[d - 1] % 8 = 0
  BY <1>2 DEF Stacked
<1>6. base[d - 1] = base[d] + FrameSize(fun[d])
  BY DEF FramesAbut
<1>7. FrameSize(fun[d]) \in Nat
  BY <1>3, Sizes
<1>8. sp = base[depth]
  BY DEF FramesAbut
<1>9. ASSUME d < depth PROVE sp + FrameSize(fun[depth]) <= base[d]
  <2>1. depth \in 1..depth /\ d \in 0..(depth - 1)
    BY <1>1, <1>9
  <2> QED
    BY <2>1, <1>8 DEF Stacked
<1>10. sp <= base[d]
  <2>1. CASE d = depth
    BY <2>1, <1>8, <1>4
  <2>2. CASE d < depth
    <3>1. depth \in Depths
      BY <1>1, <2>2 DEF Depths
    <3>2. FrameSize(fun[depth]) \in Nat
      BY <3>1, Sizes DEF TypeOK
    <3> QED
      BY <1>4, <1>9, <2>2, <3>2
  <2> QED
    BY <1>1, <2>1, <2>2
<1> QED
  BY <1>1, <1>2, <1>3, <1>4, <1>5, <1>6, <1>7, <1>9, <1>10

\* Whatever changes memory only below the slots of the frames keeps them.
LEMMA SlotsKept ==
  ASSUME IInv, NEW d \in 1..depth, NEW m,
         \A a \in Words : base[d] + TotalSize(fun[d]) <= a => m[a] = mem[a]
  PROVE /\ Calls[fun[d]] # {} => \A a \in RaSlot(base[d - 1]) : m[a] = d - 1
        /\ \A i \in 1..Len(Used[fun[d]]) : \A a \in RegSlot(fun[d], i, base[d - 1]) :
             m[a] = kept[d][Used[fun[d]][i]]
<1> DEFINE f == fun[d]
           top == base[d - 1]
<1>1. /\ f \in Funcs /\ top \in Int /\ top % 8 = 0 /\ top <= 0
      /\ FrameSize(f) <= StackSize + top /\ top = base[d] + FrameSize(f) /\ base[d] \in Int
  BY SlotsOf
<1>2. /\ FrameSize(f) = SaveRegsSize(f) + TotalSize(f)
      /\ SaveRegsSize(f) \in Nat /\ TotalSize(f) \in Nat
  BY <1>1, Sizes
<1>3. base[d] + TotalSize(f) = top - SaveRegsSize(f)
  BY <1>1, <1>2
<1>4. ASSUME Calls[f] # {}, NEW a \in RaSlot(top)
      PROVE m[a] = d - 1
  <2>1. a \in Words /\ top - SaveRegsSize(f) <= a
    BY <1>1, <1>4, SlotsApart
  <2>2. m[a] = mem[a]
    BY <1>3, <2>1
  <2>3. mem[a] = d - 1
    BY <1>4 DEF IInv, AllKept
  <2> QED
    BY <2>2, <2>3
<1>5. ASSUME NEW i \in 1..Len(Used[f]), NEW a \in RegSlot(f, i, top)
      PROVE m[a] = kept[d][Used[f][i]]
  <2>1. a \in Words /\ top - SaveRegsSize(f) <= a
    BY <1>1, SlotsApart
  <2>2. m[a] = mem[a]
    BY <1>3, <2>1
  <2>3. mem[a] = kept[d][Used[f][i]]
    BY <1>5 DEF IInv, AllKept
  <2> QED
    BY <2>2, <2>3
<1> QED
  BY <1>4, <1>5

\* The slots of every frame lie above the cells of the running function's.
LEMMA SlotsAboveTop ==
  ASSUME IInv, NEW d \in 1..depth
  PROVE /\ depth \in Depths /\ fun[depth] \in Funcs
        /\ sp + TotalSize(fun[depth]) <= base[d] + TotalSize(fun[d])
        /\ TotalSize(fun[depth]) \in Nat /\ TotalSize(fun[d]) \in Nat
<1>1. depth \in 1..MaxDepth /\ depth \in Depths
  BY SizesAssumption DEF IInv, TypeOK, Depths
<1>2. fun[depth] \in Funcs /\ fun[d] \in Funcs /\ base[d] \in Int /\ sp \in Int
  BY <1>1, SlotsOf DEF IInv, TypeOK
<1>3. /\ TotalSize(fun[depth]) \in Nat /\ TotalSize(fun[d]) \in Nat
      /\ SaveRegsSize(fun[depth]) \in Nat
      /\ FrameSize(fun[depth]) = SaveRegsSize(fun[depth]) + TotalSize(fun[depth])
  BY <1>2, Sizes
<1>4. CASE d = depth
  <2>1. base[d] = sp
    BY <1>4 DEF IInv, FramesAbut
  <2> QED
    BY <1>1, <1>2, <1>3, <1>4, <2>1
<1>5. CASE d < depth
  BY <1>1, <1>2, <1>3, <1>5, SlotsOf
<1> QED
  BY <1>1, <1>2, <1>3, <1>4, <1>5

\* A cell lies between the arguments and the saved registers of its frame.
LEMMA CellsFit ==
  ASSUME NEW f \in Funcs, NEW c \in Cells(f), NEW s \in Int, s % 8 = 0
  PROVE \A a \in Span(c, s + CellOffset(f, c)) :
          /\ a \in Int /\ a % 4 = 0
          /\ s + FuncParamSize(f) <= a /\ a < s + TotalSize(f)
<1> DEFINE p == FuncParamSize(f)
           al == AlignSize(f)
           sz == SpillSize(f)
           l == Locals[f]
           imm == c.imm
<1>1. /\ p \in Nat /\ al \in Nat /\ sz \in Nat /\ l \in Nat /\ p % 8 = 0 /\ al % 4 = 0
      /\ sz % 8 = 0
  <2>1. p % 8 = 0
    BY FuncsAssumption, SizesAssumption DEF FuncParamSize
  <2>2. sz % 8 = 0
    BY SizesAssumption DEF SpillSize
  <2>3. al % 4 = 0
    <3> DEFINE n == Len(Used[f])
               ca == CallAddrSize(f)
    <3>1. n \in Nat /\ ca \in Nat /\ ca % 8 = 0
      BY Sizes DEF CallAddrSize
    <3>2. p \in Nat /\ sz \in Nat /\ l \in Nat /\ l % 4 = 0
      BY Sizes, SizesAssumption
    <3>3. al = (p + sz + l + 8 * n + ca) % 8
      BY DEF AlignSize, SavedRegSize
    <3> HIDE DEF p, sz, l, al, n, ca
    <3>4. p + sz + l + 8 * n + ca \in Nat /\ (p + sz + l + 8 * n + ca) % 4 = 0
      BY <2>1, <2>2, <3>1, <3>2
    <3>5. \A x \in Nat : x % 4 = 0 => (x % 8) % 4 = 0
      OBVIOUS
    <3> QED
      BY <3>3, <3>4, <3>5
  <2> QED
    BY <2>1, <2>2, <2>3, Sizes
<1>2. TotalSize(f) = p + al + sz + l
  BY Sizes
<1>3. \/ c.item = "SPILL" /\ \E n \in 0..(Spills[f] - 1) : imm = 8 * n
      \/ c.item = "LOCAL" /\ imm \in 0..(l - 1) /\ imm % 4 = 0
  BY DEF Cells
<1>4. CASE c.item = "SPILL"
  <2>1. PICK n \in 0..(Spills[f] - 1) : imm = 8 * n
    BY <1>3, <1>4
  <2>2. Spills[f] \in Nat /\ sz = 8 * Spills[f]
    BY SizesAssumption DEF SpillSize
  <2>3. CellOffset(f, c) = p + al + imm + 0
    BY <1>4 DEF CellOffset
  <2>4. \A a : a \in Span(c, s + CellOffset(f, c)) <=>
              a = s + CellOffset(f, c) \/ a = (s + CellOffset(f, c)) + 4
    BY <1>4 DEF Span, Double
  <2> HIDE DEF p, al, sz, l, imm
  <2>5. imm \in Nat /\ imm + 8 <= sz /\ imm % 8 = 0
    BY <2>1, <2>2
  <2>6. CellOffset(f, c) \in Nat /\ CellOffset(f, c) % 4 = 0
        /\ p <= CellOffset(f, c) /\ CellOffset(f, c) + 8 <= TotalSize(f)
    BY <1>1, <1>2, <2>3, <2>5
  <2> QED
    BY <1>1, <1>2, <2>4, <2>6 DEF p
<1>5. CASE c.item = "LOCAL"
  <2>1. CellOffset(f, c) = p + al + imm + sz
    BY <1>5 DEF CellOffset
  <2>2. \A a : a \in Span(c, s + CellOffset(f, c)) <=> a = s + CellOffset(f, c)
    BY <1>5 DEF Span
  <2>3. imm \in 0..(l - 1) /\ imm % 4 = 0
    BY <1>3, <1>5
  <2> HIDE DEF p, al, sz, l, imm
  <2>4. CellOffset(f, c) \in Nat /\ CellOffset(f, c) % 4 = 0
        /\ p <= CellOffset(f, c) /\ CellOffset(f, c) < TotalSize(f)
    BY <1>1, <1>2, <2>1, <2>3
  <2> QED
    BY <1>1, <1>2, <2>2, <2>4 DEF p
<1> QED
  BY <1>3, <1>4, <1>5

\* Offsets from sp are not negative.
LEMMA CellOffsets ==
  ASSUME NEW f \in Funcs, NEW c \in Cells(f)
  PROVE CellOffset(f, c) \in Nat
<1>1. c.imm \in Nat
  BY SizesAssumption DEF Cells
<1>2. FuncParamSize(f) \in Nat /\ AlignSize(f) \in Nat /\ SpillSize(f) \in Nat
  BY Sizes
<1> QED
  BY <1>1, <1>2 DEF CellOffset

LEMMA OuterOffsets ==
  ASSUME NEW f \in Funcs, NEW k \in StackArgs(f)
  PROVE OuterOffset(f, k) \in Nat
<1>1. ISize(f, k) \in Nat /\ FSize(f, k) \in Nat
  BY Counts DEF StackArgs
<1>2. FrameSize(f) \in Nat
  BY Sizes
<1>3. RegArgs \in Nat
  BY SizesAssumption
<1> QED
  BY <1>1, <1>2, <1>3 DEF OuterOffset, argsStackOffset, Excess

-----------------------------------------------------------------------------
LEMMA InitInv == Init => IInv
<1> SUFFICES ASSUME Init PROVE IInv
  OBVIOUS
<1> USE DEF Init
<1>1. MaxDepth \in Nat /\ StackSize \in Nat /\ Main \in Funcs
  BY FuncsAssumption, SizesAssumption
<1>2. TypeOK
  BY <1>1 DEF TypeOK, Depths
<1>3. FramesAbut
  BY <1>1 DEF FramesAbut
<1>4. Stacked
  BY <1>1 DEF Stacked
<1>5. AllKept
  BY <1>1 DEF AllKept
<1> QED
  BY <1>2, <1>3, <1>4, <1>5 DEF IInv

LEMMA WriteInv ==
  ASSUME IInv, NEW v \in Data, NEW c \in UNION {Cells(f) : f \in Funcs}, Write(c, v)
  PROVE IInv'
<1> USE DEF Write
<1>1. depth \in Depths /\ fun[depth] \in Funcs /\ sp \in Int /\ sp % 8 = 0 /\ depth \in 1..depth
  <2>1. depth \in Depths /\ depth \in 1..depth /\ depth \in 0..MaxDepth
    BY DEF IInv, TypeOK, Depths
  <2>2. sp % 8 = 0
    BY <2>1 DEF IInv, FramesAbut, Stacked
  <2> QED
    BY <2>1, <2>2 DEF IInv, TypeOK
<1>2. TypeOK'
  BY DEF IInv, TypeOK
<1>3. FramesAbut' /\ Stacked'
  BY DEF IInv, FramesAbut, Stacked
<1>4. ASSUME NEW d \in 1..depth, NEW a \in Words, base[d] + TotalSize(fun[d]) <= a
      PROVE mem'[a] = mem[a]
  <2>1. sp + TotalSize(fun[depth]) <= a
    <3>1. base[d] \in Int /\ TotalSize(fun[depth]) \in Nat /\ TotalSize(fun[d]) \in Nat /\ a \in Int
          /\ sp + TotalSize(fun[depth]) <= base[d] + TotalSize(fun[d])
      BY SlotsAboveTop, SlotsOf DEF Words
    <3> QED
      BY <1>1, <1>4, <3>1
  <2>2. a \notin Span(c, sp + CellOffset(fun[depth], c))
    <3>1. ASSUME a \in Span(c, sp + CellOffset(fun[depth], c)) PROVE FALSE
      <4>1. a \in Int /\ a < sp + TotalSize(fun[depth])
        BY <1>1, <3>1, CellsFit
      <4>2. TotalSize(fun[depth]) \in Nat
        BY <1>1, Sizes
      <4> QED
        BY <1>1, <2>1, <4>1, <4>2
    <3> QED
      BY <3>1
  <2> QED
    BY <2>2
<1>5. AllKept'
  <2>1. ASSUME NEW d \in 1..depth
        PROVE /\ Calls[fun[d]] # {} => \A a \in RaSlot(base[d - 1]) : mem'[a] = d - 1
              /\ \A i \in 1..Len(Used[fun[d]]) : \A a \in RegSlot(fun[d], i, base[d - 1]) :
                   mem'[a] = kept[d][Used[fun[d]][i]]
    BY <1>4, SlotsKept
  <2>2. /\ \A d \in 1..(depth - 1) : Calls[fun[d]] # {}
        /\ (depth > 0 /\ Calls[fun[depth]] = {}) => ra = depth - 1
        /\ \A d \in 1..(depth - 1) : \A r \in Saved :
             NotUsed(fun[d], r) => kept[d + 1][r] = kept[d][r]
        /\ depth > 0 => \A r \in Saved : NotUsed(fun[depth], r) => regs[r] = kept[depth][r]
    BY DEF IInv, AllKept
  <2>3. /\ depth' = depth /\ fun' = fun /\ base' = base /\ kept' = kept /\ regs' = regs /\ ra' = ra
    OBVIOUS
  <2> HIDE DEF Write
  <2>4. \A d \in 1..depth : Calls[fun[d]] # {} =>
          \A a \in RaSlot(base[d - 1]) : mem'[a] = d - 1
    BY <2>1
  <2>5. \A d \in 1..depth : \A i \in 1..Len(Used[fun[d]]) :
          \A a \in RegSlot(fun[d], i, base[d - 1]) : mem'[a] = kept[d][Used[fun[d]][i]]
    BY <2>1
  <2> QED
    BY <2>2, <2>3, <2>4, <2>5 DEF AllKept
<1> QED
  BY <1>2, <1>3, <1>5 DEF IInv

LEMMA SetRegInv ==
  ASSUME IInv, NEW v \in Data, NEW w \in 1..Cardinality(Saved), SetReg(w, v)
  PROVE IInv'
<1> USE DEF SetReg
<1>1. TypeOK'
  BY DEF IInv, TypeOK
<1>2. FramesAbut' /\ Stacked'
  BY DEF IInv, FramesAbut, Stacked
<1>3. \A r \in Saved : NotUsed(fun[depth], r) => regs'[r] = regs[r]
  BY DEF NotUsed, IInv, TypeOK
<1>4. AllKept'
  <2>1. /\ depth' = depth /\ fun' = fun /\ base' = base /\ kept' = kept /\ mem' = mem /\ ra' = ra
        /\ depth > 0
    OBVIOUS
  <2>2. AllKept
    BY DEF IInv
  <2> HIDE DEF SetReg
  <2>3. \A r \in Saved : NotUsed(fun[depth], r) => regs'[r] = kept[depth][r]
    BY <1>3, <2>1, <2>2 DEF AllKept
  <2>4. /\ \A d \in 1..depth : Calls[fun[d]] # {} =>
             \A a \in RaSlot(base[d - 1]) : mem[a] = d - 1
        /\ \A d \in 1..depth : \A i \in 1..Len(Used[fun[d]]) :
             \A a \in RegSlot(fun[d], i, base[d - 1]) : mem[a] = kept[d][Used[fun[d]][i]]
        /\ \A d \in 1..(depth - 1) : Calls[fun[d]] # {}
        /\ (depth > 0 /\ Calls[fun[depth]] = {}) => ra = depth - 1
        /\ \A d \in 1..(depth - 1) : \A r \in Saved :
             NotUsed(fun[d], r) => kept[d + 1][r] = kept[d][r]
    BY <2>2 DEF AllKept
  <2> QED
    BY <2>1, <2>3, <2>4 DEF AllKept
<1> QED
  BY <1>1, <1>2, <1>4 DEF IInv

(***************************************************************************)
(* A call writes the words it saves below sp, each register to its slot,    *)
(* and arguments above sp, no further than the caller's place for them.     *)
(***************************************************************************)
LEMMA CallWrites ==
  ASSUME IInv, NEW f \in Funcs, NEW passed, Call(f, passed)
  PROVE /\ f \in Funcs /\ depth \in 0..MaxDepth /\ depth + 1 \in 1..MaxDepth
        /\ sp \in Int /\ sp = base[depth] /\ sp % 8 = 0 /\ sp <= 0
        /\ sp' = sp - FrameSize(f) /\ FrameSize(f) <= StackSize + sp
        /\ Calls[f] # {} => \A a \in RaSlot(sp) : mem'[a] = depth
        /\ \A i \in 1..Len(Used[f]) : \A a \in RegSlot(f, i, sp) :
             mem'[a] = regs[Used[f][i]]
        /\ \A d \in 1..depth : \A a \in Words :
             base[d] + TotalSize(fun[d]) <= a => mem'[a] = mem[a]
<1> USE DEF Call
<1>1. depth \in 0..MaxDepth /\ depth + 1 \in 1..MaxDepth /\ sp \in Int /\ sp <= 0
  BY SizesAssumption DEF IInv, TypeOK
<1>2. sp = base[depth] /\ sp % 8 = 0
  BY <1>1 DEF IInv, FramesAbut, Stacked
<1>3. /\ sp' = sp - FrameSize(f) /\ FrameSize(f) <= StackSize + sp
      /\ mem' = [a \in Words |-> IF a < sp THEN Saving(f, a) ELSE Passing(f, passed, a)]
  <2>1. PushSize(f) = FrameSize(f)
    BY Sizes
  <2> QED
    BY <2>1
<1> HIDE DEF Call
<1>4. ASSUME Calls[f] # {}, NEW a \in RaSlot(sp)
      PROVE mem'[a] = depth
  <2>1. a \in Words /\ a < sp
    BY <1>1, <1>2, <1>3, <1>4, SlotsApart
  <2> QED
    BY <1>3, <1>4, <2>1 DEF Saving
<1>5. ASSUME NEW i \in 1..Len(Used[f]), NEW a \in RegSlot(f, i, sp)
      PROVE mem'[a] = regs[Used[f][i]]
  <2>1. a \in Words /\ a < sp
    BY <1>1, <1>2, <1>3, SlotsApart
  <2>2. ~(Calls[f] # {} /\ a \in RaSlot(sp))
    BY <1>1, <1>2, <1>3, SlotsApart
  <2> DEFINE j == CHOOSE j \in 1..Len(Used[f]) : a \in RegSlot(f, j, sp)
  <2>3. j \in 1..Len(Used[f]) /\ a \in RegSlot(f, j, sp)
    OBVIOUS
  <2>4. j = i
    BY <1>1, <1>2, <1>3, <2>3, SlotsApart
  <2>5. Saving(f, a) = regs[Used[f][j]]
    BY <2>2 DEF Saving
  <2> QED
    BY <1>3, <2>1, <2>4, <2>5
<1>6. ASSUME NEW d \in 1..depth, NEW a \in Words, base[d] + TotalSize(fun[d]) <= a
      PROVE mem'[a] = mem[a]
  <2>1. /\ depth \in Depths /\ fun[depth] \in Funcs /\ base[d] \in Int
        /\ TotalSize(fun[depth]) \in Nat /\ TotalSize(fun[d]) \in Nat /\ a \in Int
        /\ sp + TotalSize(fun[depth]) <= base[d] + TotalSize(fun[d])
    BY SlotsAboveTop, SlotsOf DEF Words
  <2>2. sp + TotalSize(fun[depth]) <= a
    BY <1>1, <1>6, <2>1
  <2>3. f \in Calls[fun[depth]]
    BY <1>1 DEF Call
  <2>4. FuncParamSize(fun[depth]) \in Nat /\ FuncParamSize(fun[depth]) <= TotalSize(fun[depth])
    <3>1. /\ FuncParamSize(fun[depth]) \in Nat /\ AlignSize(fun[depth]) \in Nat
          /\ SpillSize(fun[depth]) \in Nat /\ Locals[fun[depth]] \in Nat
          /\ TotalSize(fun[depth]) = FuncParamSize(fun[depth]) + AlignSize(fun[depth])
                                     + SpillSize(fun[depth]) + Locals[fun[depth]]
      BY <2>1, Sizes
    <3> QED
      BY <3>1
  <2>5. \A k \in StackArgs(f) : a \notin Double(sp + argsStackOffset(f, k))
    <3> TAKE k \in StackArgs(f)
    <3>1. /\ argsStackOffset(f, k) \in Nat
          /\ argsStackOffset(f, k) + 8 <= FuncParamSize(fun[depth])
      BY <2>1, <2>3, ArgsFit
    <3> QED
      BY <1>1, <2>1, <2>2, <2>4, <3>1 DEF Double
  <2>6. Passing(f, passed, a) = mem[a] /\ ~(a < sp)
    BY <1>1, <2>1, <2>2, <2>5 DEF Passing
  <2> QED
    BY <1>3, <2>6
<1> QED
  BY <1>1, <1>2, <1>3, <1>4, <1>5, <1>6

LEMMA CallInv ==
  ASSUME IInv, NEW f \in Funcs, NEW passed \in [StackArgs(f) -> Data], Call(f, passed)
  PROVE IInv'
<1> DEFINE n == depth + 1
<1>1. /\ depth \in 0..MaxDepth /\ n \in 1..MaxDepth /\ n \in Depths /\ n \in 0..MaxDepth
      /\ sp \in Int /\ sp = base[depth] /\ sp % 8 = 0 /\ sp <= 0
      /\ sp' = sp - FrameSize(f) /\ FrameSize(f) <= StackSize + sp
      /\ MaxDepth \in Nat /\ StackSize \in Nat
  BY CallWrites, SizesAssumption DEF Depths
<1>2. /\ depth' = n /\ ra' = depth /\ regs' = regs
      /\ fun' = [fun EXCEPT ![n] = f] /\ base' = [base EXCEPT ![n] = sp']
      /\ kept' = [kept EXCEPT ![n] = regs]
      /\ mem' = [a \in Words |-> IF a < sp THEN Saving(f, a) ELSE Passing(f, passed, a)]
      /\ depth > 0 => f \in Calls[fun[depth]]
  BY <1>1 DEF Call
<1>3. Calls[f] # {} => \A a \in RaSlot(sp) : mem'[a] = depth
  BY CallWrites
<1>4. \A i \in 1..Len(Used[f]) : \A a \in RegSlot(f, i, sp) : mem'[a] = regs[Used[f][i]]
  BY CallWrites
<1>5. \A d \in 1..depth : \A a \in Words : base[d] + TotalSize(fun[d]) <= a => mem'[a] = mem[a]
  BY CallWrites
<1> HIDE DEF Call
<1>6. FrameSize(f) \in Nat /\ FrameSize(f) % 8 = 0
  BY Sizes
<1>7. sp' \in -StackSize .. 0 /\ sp' % 8 = 0 /\ sp' + FrameSize(f) = sp
  <2> DEFINE z == FrameSize(f)
             st == StackSize
  <2>1. /\ z \in Nat /\ z % 8 = 0 /\ sp \in Int /\ sp % 8 = 0 /\ sp <= 0 /\ sp' = sp - z
        /\ z <= st + sp /\ st \in Nat
    BY <1>1, <1>6
  <2> HIDE DEF z, st
  <2>2. sp' \in -st .. 0 /\ sp' % 8 = 0 /\ sp' + z = sp
    BY <2>1
  <2> QED
    BY <2>2 DEF z, st
<1>8. /\ fun'[n] = f /\ base'[n] = sp' /\ kept'[n] = regs
      /\ \A d \in 1..depth : fun'[d] = fun[d] /\ kept'[d] = kept[d]
      /\ \A d \in 0..depth : base'[d] = base[d]
  <2>1. fun \in [Depths -> Funcs] /\ base \in [0..MaxDepth -> -StackSize .. 0]
        /\ kept \in [Depths -> [Saved -> Data]]
    BY DEF IInv, TypeOK
  <2>2. fun'[n] = f /\ base'[n] = sp' /\ kept'[n] = regs
    BY <1>1, <1>2, <2>1
  <2>3. ASSUME NEW d \in 0..depth PROVE base'[d] = base[d]
    BY <1>1, <1>2, <2>1
  <2>4. ASSUME NEW d \in 1..depth PROVE fun'[d] = fun[d] /\ kept'[d] = kept[d]
    <3>1. d \in Depths /\ d # n
      BY <1>1 DEF Depths
    <3> QED
      BY <1>2, <2>1, <3>1
  <2> QED
    BY <2>2, <2>3, <2>4
<1>9. TypeOK'
  <2>1. ASSUME NEW a \in Words
        PROVE mem'[a] \in Data \cup {Garbage} \cup 0..MaxDepth
    <3>1. mem[a] \in Data \cup {Garbage} \cup 0..MaxDepth
      BY DEF IInv, TypeOK
    <3>2. Saving(f, a) \in Data \cup {Garbage} \cup 0..MaxDepth
      <4>1. CASE Calls[f] # {} /\ a \in RaSlot(sp)
        BY <1>1, <4>1 DEF Saving
      <4>2. CASE ~(Calls[f] # {} /\ a \in RaSlot(sp))
                 /\ \E i \in 1..Len(Used[f]) : a \in RegSlot(f, i, sp)
        <5> DEFINE j == CHOOSE i \in 1..Len(Used[f]) : a \in RegSlot(f, i, sp)
        <5>1. j \in 1..Len(Used[f])
          BY <4>2
        <5> HIDE DEF j
        <5>2. Used[f] \in Seq(Saved)
          BY SizesAssumption
        <5>3. regs[Used[f][j]] \in Data
          BY <5>1, <5>2 DEF IInv, TypeOK
        <5> QED
          BY <4>2, <5>3 DEF Saving, j
      <4>3. CASE ~(Calls[f] # {} /\ a \in RaSlot(sp))
                 /\ ~ \E i \in 1..Len(Used[f]) : a \in RegSlot(f, i, sp)
        BY <3>1, <4>3 DEF Saving
      <4> QED
        BY <4>1, <4>2, <4>3
    <3>3. Passing(f, passed, a) \in Data \cup {Garbage} \cup 0..MaxDepth
      BY <3>1 DEF Passing
    <3> QED
      BY <1>2, <3>2, <3>3
  <2>2. mem' \in [Words -> Data \cup {Garbage} \cup 0..MaxDepth]
    BY <1>2, <2>1
  <2>3. fun' \in [Depths -> Funcs] /\ base' \in [0..MaxDepth -> -StackSize .. 0]
        /\ kept' \in [Depths -> [Saved -> Data]] /\ regs' \in [Saved -> Data]
    BY <1>1, <1>2, <1>7 DEF IInv, TypeOK
  <2>4. depth' \in 0..MaxDepth /\ ra' \in 0..MaxDepth
    BY <1>1, <1>2
  <2> QED
    BY <1>7, <2>2, <2>3, <2>4 DEF TypeOK
<1>10. FramesAbut'
  <2>1. \A d \in 1..depth : base[d - 1] = base[d] + FrameSize(fun[d])
    BY DEF IInv, FramesAbut
  <2>2. ASSUME NEW d \in 1..n
        PROVE base'[d - 1] = base'[d] + FrameSize(fun'[d])
    <3>1. CASE d = n
      BY <1>1, <1>7, <1>8, <3>1
    <3>2. CASE d # n
      <4>1. d \in 1..depth /\ d - 1 \in 0..depth /\ d \in 0..depth
        BY <1>1, <3>2
      <4> QED
        BY <1>8, <2>1, <4>1
    <3> QED
      BY <3>1, <3>2
  <2>3. sp' = base'[n]
    BY <1>8
  <2> QED
    BY <1>2, <2>2, <2>3 DEF FramesAbut
<1>11. Stacked'
  <2>1. base[0] = 0 /\ \A d \in 0..MaxDepth : base[d] % 8 = 0
    BY DEF IInv, Stacked
  <2>2. base'[0] = 0
    BY <1>1, <1>8, <2>1
  <2>3. \A d \in 0..MaxDepth : base'[d] % 8 = 0
    BY <1>1, <1>2, <1>7, <2>1 DEF IInv, TypeOK
  <2>4. ASSUME NEW e \in 1..n, NEW d \in 0..(e - 1)
        PROVE base'[e] + FrameSize(fun'[e]) <= base'[d]
    <3>1. CASE e # n
      <4>1. e \in 1..depth /\ e \in 0..depth /\ d \in 0..depth
        BY <1>1, <3>1
      <4>2. base[e] + FrameSize(fun[e]) <= base[d]
        BY <4>1 DEF IInv, Stacked
      <4> QED
        BY <1>8, <4>1, <4>2
    <3>2. CASE e = n
      <4>1. d \in 0..depth /\ base'[d] = base[d]
        BY <1>1, <1>8, <3>2
      <4>2. sp <= base[d]
        <5>1. CASE d = depth
          BY <1>1, <5>1
        <5>2. CASE d # depth
          <6>1. depth \in 1..depth /\ d \in 0..(depth - 1) /\ depth \in Depths
            BY <1>1, <4>1, <5>2 DEF Depths
          <6>2. base[depth] + FrameSize(fun[depth]) <= base[d]
            BY <6>1 DEF IInv, Stacked
          <6>3. FrameSize(fun[depth]) \in Nat
            BY <6>1, Sizes DEF IInv, TypeOK
          <6>4. base[d] \in Int
            BY <1>1, <4>1 DEF IInv, TypeOK
          <6> QED
            BY <1>1, <6>2, <6>3, <6>4
        <5> QED
          BY <5>1, <5>2
      <4> QED
        BY <1>7, <1>8, <3>2, <4>1, <4>2
    <3> QED
      BY <3>1, <3>2
  <2> QED
    BY <1>2, <2>2, <2>3, <2>4 DEF Stacked
<1>12. AllKept'
  <2> HIDE DEF n
  <2>1. ASSUME NEW d \in 1..depth
        PROVE /\ Calls[fun[d]] # {} => \A a \in RaSlot(base[d - 1]) : mem'[a] = d - 1
              /\ \A i \in 1..Len(Used[fun[d]]) : \A a \in RegSlot(fun[d], i, base[d - 1]) :
                   mem'[a] = kept[d][Used[fun[d]][i]]
    BY <1>5, SlotsKept
  <2>2. /\ \A d \in 1..(depth - 1) : Calls[fun[d]] # {}
        /\ \A d \in 1..(depth - 1) : \A r \in Saved :
             NotUsed(fun[d], r) => kept[d + 1][r] = kept[d][r]
        /\ depth > 0 => \A r \in Saved : NotUsed(fun[depth], r) => regs[r] = kept[depth][r]
    BY DEF IInv, AllKept
  <2>3. \A d \in 1..n : /\ d = n => d - 1 = depth
                        /\ d # n => d \in 1..depth /\ d - 1 \in 0..depth
    BY <1>1 DEF n
  <2>4. \A d \in 1..n : Calls[fun'[d]] # {} => \A a \in RaSlot(base'[d - 1]) : mem'[a] = d - 1
    <3> TAKE d \in 1..n
    <3>1. CASE d = n
      BY <1>1, <1>3, <1>8, <2>3, <3>1
    <3>2. CASE d # n
      BY <1>8, <2>1, <2>3, <3>2
    <3> QED
      BY <3>1, <3>2
  <2>5. \A d \in 1..n : \A i \in 1..Len(Used[fun'[d]]) :
          \A a \in RegSlot(fun'[d], i, base'[d - 1]) : mem'[a] = kept'[d][Used[fun'[d]][i]]
    <3> TAKE d \in 1..n
    <3>1. CASE d = n
      <4>1. fun'[d] = f /\ base'[d - 1] = sp /\ kept'[d] = regs
        BY <1>1, <1>8, <2>3, <3>1
      <4> QED
        BY <1>4, <4>1
    <3>2. CASE d # n
      BY <1>8, <2>1, <2>3, <3>2
    <3> QED
      BY <3>1, <3>2
  <2>6. n - 1 = depth /\ n > 0
    BY <1>1 DEF n
  <2>7. \A d \in 1..depth : Calls[fun'[d]] # {}
    <3> TAKE d \in 1..depth
    <3>1. CASE d = depth
      BY <1>1, <1>2, <1>8, <3>1
    <3>2. CASE d # depth
      BY <1>1, <1>8, <2>2, <3>2
    <3> QED
      BY <3>1, <3>2
  <2>8. \A d \in 1..depth : \A r \in Saved :
          NotUsed(fun'[d], r) => kept'[d + 1][r] = kept'[d][r]
    <3> TAKE d \in 1..depth
    <3>1. CASE d = depth
      <4>1. kept'[d + 1] = regs /\ kept'[d] = kept[depth] /\ fun'[d] = fun[depth] /\ depth > 0
        BY <1>1, <1>8, <3>1 DEF n
      <4> QED
        BY <2>2, <4>1
    <3>2. CASE d # depth
      <4>1. d \in 1..(depth - 1) /\ d + 1 \in 1..depth
        BY <1>1, <3>2
      <4>2. kept'[d + 1] = kept[d + 1] /\ kept'[d] = kept[d] /\ fun'[d] = fun[d]
        BY <1>8, <4>1
      <4> QED
        BY <2>2, <4>1, <4>2
    <3> QED
      BY <3>1, <3>2
  <2>9. \A r \in Saved : regs'[r] = kept'[n][r]
    BY <1>2, <1>8
  <2> QED
    BY <1>2, <2>4, <2>5, <2>6, <2>7, <2>8, <2>9 DEF AllKept
<1> QED
  BY <1>9, <1>10, <1>11, <1>12 DEF IInv

\* What all words of a set hold is what is read there.
LEMMA ReadsValue ==
  ASSUME NEW A, NEW v \in Data, A # {}, \A a \in A : mem[a] = v
  PROVE Read(A) = v
<1>1. \A w : (\A a \in A : mem[a] = w) => w = v
  OBVIOUS
<1> QED
  BY <1>1 DEF Read

\* A function gives back the registers it found, sp, and goes where it came from.
LEMMA ReturnRestores ==
  ASSUME IInv, Return
  PROVE /\ depth \in 1..MaxDepth /\ depth \in 1..depth /\ depth \in Depths
        /\ depth' = depth - 1 /\ ra' = depth - 1 /\ sp' = base[depth - 1]
        /\ regs' = kept[depth]
<1>1. depth \in 1..MaxDepth /\ depth \in 1..depth /\ depth \in Depths
  BY SizesAssumption DEF IInv, TypeOK, Return, Depths
<1> DEFINE f == fun[depth]
           top == base[depth - 1]
<1>2. /\ f \in Funcs /\ top \in Int /\ top = base[depth] + FrameSize(f) /\ sp = base[depth]
      /\ PopSize(f) = FrameSize(f)
  BY <1>1, SlotsOf, Sizes DEF IInv, FramesAbut
<1>3. sp + PopSize(f) = top
  BY <1>2
<1>4. sp' = top
  BY <1>3 DEF Return
<1>5. (IF Calls[f] = {} THEN ra ELSE mem[top - 8]) = depth - 1
  <2>1. Calls[f] # {} => mem[top - 8] = depth - 1
    BY <1>1 DEF IInv, AllKept, RaSlot, Double
  <2>2. Calls[f] = {} => ra = depth - 1
    BY <1>1 DEF IInv, AllKept
  <2> QED
    BY <2>1, <2>2
<1>6. ra' = depth - 1 /\ depth' = depth - 1
  BY <1>3, <1>5 DEF Return
<1>7. regs' = [r \in Saved |->
                IF \E i \in 1..Len(Used[f]) : Used[f][i] = r
                THEN Read(RegSlot(f, CHOOSE i \in 1..Len(Used[f]) : Used[f][i] = r, top))
                ELSE regs[r]]
  BY <1>3 DEF Return
<1>8. kept[depth] \in [Saved -> Data]
  BY <1>1 DEF IInv, TypeOK
<1>9. ASSUME NEW r \in Saved PROVE regs'[r] = kept[depth][r]
  <2>1. CASE \E i \in 1..Len(Used[f]) : Used[f][i] = r
    <3> DEFINE j == CHOOSE i \in 1..Len(Used[f]) : Used[f][i] = r
    <3>1. j \in 1..Len(Used[f]) /\ Used[f][j] = r
      BY <2>1
    <3> HIDE DEF j
    <3>2. \A a \in RegSlot(f, j, top) : mem[a] = kept[depth][r]
      BY <1>1, <3>1 DEF IInv, AllKept
    <3>3. RegSlot(f, j, top) # {} /\ kept[depth][r] \in Data
      BY <1>8 DEF RegSlot, Double
    <3>4. Read(RegSlot(f, j, top)) = kept[depth][r]
      BY <3>2, <3>3, ReadsValue
    <3> QED
      BY <1>7, <2>1, <3>4 DEF j
  <2>2. CASE ~ \E i \in 1..Len(Used[f]) : Used[f][i] = r
    <3>1. regs'[r] = regs[r]
      BY <1>7, <2>2
    <3>2. depth > 0 /\ NotUsed(f, r)
      BY <1>1, <2>2 DEF NotUsed
    <3> QED
      BY <3>1, <3>2 DEF IInv, AllKept
  <2> QED
    BY <2>1, <2>2
<1> QED
  BY <1>1, <1>4, <1>6, <1>7, <1>8, <1>9

LEMMA ReturnInv == ASSUME IInv, Return PROVE IInv'
<1> DEFINE n == depth - 1
<1>1. /\ depth \in 1..MaxDepth /\ depth \in 1..depth /\ depth \in Depths
      /\ depth' = n /\ ra' = n /\ sp' = base[n] /\ regs' = kept[depth]
      /\ n \in 0..MaxDepth /\ MaxDepth \in Nat /\ StackSize \in Nat
  BY ReturnRestores, SizesAssumption
<1>2. /\ fun' = [fun EXCEPT ![depth] = Main]
      /\ base' = [base EXCEPT ![depth] = 0]
      /\ kept' = [kept EXCEPT ![depth] = regs']
      /\ mem' = [a \in Words |-> IF a < sp' THEN Garbage ELSE mem[a]]
  BY DEF Return
<1>3. /\ \A d \in 1..n : fun'[d] = fun[d] /\ kept'[d] = kept[d]
      /\ \A d \in 0..n : base'[d] = base[d]
  BY <1>1, <1>2 DEF IInv, TypeOK, Depths
<1>4. \A d \in 1..n : d \in 1..depth /\ d \in 0..n /\ d - 1 \in 0..n
  BY <1>1
<1>5. TypeOK'
  <2>1. Main \in Funcs
    BY FuncsAssumption
  <2>2. fun' \in [Depths -> Funcs] /\ kept' \in [Depths -> [Saved -> Data]]
        /\ regs' \in [Saved -> Data]
    BY <1>1, <1>2, <2>1 DEF IInv, TypeOK
  <2>3. base' \in [0..MaxDepth -> -StackSize .. 0] /\ sp' \in -StackSize .. 0
    BY <1>1, <1>2 DEF IInv, TypeOK
  <2>4. mem' \in [Words -> Data \cup {Garbage} \cup 0..MaxDepth]
    BY <1>2 DEF IInv, TypeOK
  <2> QED
    BY <1>1, <2>2, <2>3, <2>4 DEF TypeOK
<1>6. FramesAbut'
  <2>1. ASSUME NEW d \in 1..n PROVE base'[d - 1] = base'[d] + FrameSize(fun'[d])
    BY <1>3, <1>4 DEF IInv, FramesAbut
  <2>2. sp' = base'[n]
    BY <1>1, <1>3
  <2> QED
    BY <1>1, <2>1, <2>2 DEF FramesAbut
<1>7. Stacked'
  <2>1. base'[0] = 0
    BY <1>1, <1>3 DEF IInv, Stacked
  <2>2. \A d \in 0..MaxDepth : base'[d] % 8 = 0
    BY <1>1, <1>2 DEF IInv, Stacked, TypeOK
  <2>3. ASSUME NEW e \in 1..n, NEW d \in 0..(e - 1)
        PROVE base'[e] + FrameSize(fun'[e]) <= base'[d]
    <3>1. d \in 0..n
      BY <1>1
    <3>2. base[e] + FrameSize(fun[e]) <= base[d]
      BY <1>4 DEF IInv, Stacked
    <3> QED
      BY <1>3, <1>4, <3>1, <3>2
  <2> QED
    BY <1>1, <2>1, <2>2, <2>3 DEF Stacked
<1>8. AllKept'
  <2>1. ASSUME NEW d \in 1..n, NEW a \in Words, base[d] + TotalSize(fun[d]) <= a
        PROVE mem'[a] = mem[a]
    <3>1. /\ sp' = base[n] /\ base[n] \in Int /\ base[d] \in Int
          /\ TotalSize(fun[d]) \in Nat /\ a \in Int
      BY <1>1, <1>4, SlotsOf, SlotsAboveTop DEF Words
    <3>2. base[n] <= base[d]
      <4>1. CASE d = n
        BY <3>1, <4>1
      <4>2. CASE d # n
        <5>1. n \in 1..depth /\ d \in 0..(n - 1)
          BY <1>1, <4>2
        <5>2. base[n] + FrameSize(fun[n]) <= base[d]
          BY <5>1 DEF IInv, Stacked
        <5>3. FrameSize(fun[n]) \in Nat
          BY <5>1, SlotsOf, Sizes
        <5> QED
          BY <3>1, <5>2, <5>3
      <4> QED
        BY <4>1, <4>2
    <3>3. ~(a < sp')
      BY <2>1, <3>1, <3>2
    <3> QED
      BY <1>2, <3>3
  <2>2. ASSUME NEW d \in 1..n
        PROVE /\ Calls[fun[d]] # {} => \A a \in RaSlot(base[d - 1]) : mem'[a] = d - 1
              /\ \A i \in 1..Len(Used[fun[d]]) : \A a \in RegSlot(fun[d], i, base[d - 1]) :
                   mem'[a] = kept[d][Used[fun[d]][i]]
    BY <1>4, <2>1, SlotsKept
  <2>3. /\ \A d \in 1..(depth - 1) : Calls[fun[d]] # {}
        /\ \A d \in 1..(depth - 1) : \A r \in Saved :
             NotUsed(fun[d], r) => kept[d + 1][r] = kept[d][r]
    BY DEF IInv, AllKept
  <2>4. \A d \in 1..n : Calls[fun'[d]] # {} => \A a \in RaSlot(base'[d - 1]) : mem'[a] = d - 1
    BY <1>3, <1>4, <2>2
  <2>5. \A d \in 1..n : \A i \in 1..Len(Used[fun'[d]]) :
          \A a \in RegSlot(fun'[d], i, base'[d - 1]) : mem'[a] = kept'[d][Used[fun'[d]][i]]
    <3> TAKE d \in 1..n
    <3>1. fun'[d] = fun[d] /\ kept'[d] = kept[d] /\ base'[d - 1] = base[d - 1]
      BY <1>3, <1>4
    <3> QED
      BY <2>2, <3>1
  <2>6. \A d \in 1..n : Calls[fun'[d]] # {}
    BY <1>3, <2>3
  <2>7. \A d \in 1..(n - 1) : \A r \in Saved :
          NotUsed(fun'[d], r) => kept'[d + 1][r] = kept'[d][r]
    <3> TAKE d \in 1..(n - 1)
    <3>1. d \in 1..n /\ d + 1 \in 1..n
      BY <1>1
    <3>2. fun'[d] = fun[d] /\ kept'[d] = kept[d] /\ kept'[d + 1] = kept[d + 1]
      BY <1>3, <3>1
    <3> QED
      BY <2>3, <3>1, <3>2
  <2>8. n > 0 => \A r \in Saved : NotUsed(fun'[n], r) => regs'[r] = kept'[n][r]
    <3> HAVE n > 0
    <3>1. n \in 1..n /\ n + 1 = depth
      BY <1>1
    <3>2. fun'[n] = fun[n] /\ kept'[n] = kept[n]
      BY <1>3, <3>1
    <3> QED
      BY <1>1, <2>3, <3>1, <3>2
  <2>9. (n > 0 /\ Calls[fun'[n]] = {}) => ra' = n - 1
    <3>1. n > 0 => n \in 1..n
      BY <1>1
    <3> QED
      BY <2>6, <3>1
  <2>10. \A d \in 1..(n - 1) : Calls[fun'[d]] # {}
    <3> TAKE d \in 1..(n - 1)
    <3>1. d \in 1..n
      BY <1>1
    <3> QED
      BY <2>6, <3>1
  <2> HIDE DEF n
  <2> QED
    BY <1>1, <2>4, <2>5, <2>7, <2>8, <2>9, <2>10 DEF AllKept
<1> QED
  BY <1>5, <1>6, <1>7, <1>8 DEF IInv

LEMMA NextInv == ASSUME IInv, [Next]_vars PROVE IInv'
<1>1. ASSUME NEW f \in Funcs, NEW passed \in [StackArgs(f) -> Data], Call(f, passed)
      PROVE IInv'
  BY <1>1, CallInv
<1>2. ASSUME NEW v \in Data, NEW c \in UNION {Cells(f) : f \in Funcs}, Write(c, v)
      PROVE IInv'
  BY <1>2, WriteInv
<1>3. ASSUME NEW v \in Data, NEW i \in 1..Cardinality(Saved), SetReg(i, v)
      PROVE IInv'
  BY <1>3, SetRegInv
<1>4. CASE Return
  BY <1>4, ReturnInv
<1>5. CASE UNCHANGED vars
  <2>1. TypeOK' /\ FramesAbut' /\ Stacked'
    BY <1>5 DEF vars, IInv, TypeOK, FramesAbut, Stacked
  <2>2. AllKept'
    BY <1>5 DEF vars, IInv, AllKept
  <2> QED
    BY <2>1, <2>2 DEF IInv
<1> QED
  BY <1>1, <1>2, <1>3, <1>4, <1>5 DEF Next

-----------------------------------------------------------------------------
(* The invariant says what the runs check. *)

LEMMA KeptNow == IInv => CallerKept
<1> SUFFICES ASSUME IInv, depth > 0
             PROVE LET f == fun[depth]
                       top == base[depth - 1]
                   IN /\ IF Calls[f] = {} THEN ra = depth - 1
                         ELSE \A a \in RaSlot(top) : mem[a] = depth - 1
                      /\ \A i \in 1..Len(Used[f]) : \A a \in RegSlot(f, i, top) :
                           mem[a] = kept[depth][Used[f][i]]
                      /\ \A r \in Saved : (\A i \in 1..Len(Used[f]) : Used[f][i] # r) =>
                           regs[r] = kept[depth][r]
  BY DEF CallerKept
<1>1. depth \in 1..depth
  BY DEF IInv, TypeOK
<1> QED
  BY <1>1 DEF IInv, AllKept, NotUsed

LEMMA Aligned == IInv => SpAligned
<1> SUFFICES ASSUME IInv PROVE sp % 8 = 0
  BY DEF SpAligned
<1>1. depth \in 0..MaxDepth /\ sp = base[depth]
  BY DEF IInv, TypeOK, FramesAbut
<1> QED
  BY <1>1 DEF IInv, Stacked

LEMMA NowFit == IInv => ImmediatesFit
<1> SUFFICES ASSUME IInv, NEW d \in 1..depth,
                    NEW m \in PushImm(fun[d]) \cup PopImm(fun[d]) \cup SaveImms(fun[d])
                              \cup LoadImms(fun[d]) \cup CellImms(fun[d])
             PROVE m \in -ImmLimit .. ImmLimit - 1
  BY DEF ImmediatesFit
<1> DEFINE f == fun[d]
           s == SaveRegsSize(f)
           t == TotalSize(f)
<1>1. /\ f \in Funcs /\ s \in Nat /\ t \in Nat /\ s % 8 = 0
      /\ s <= 8 * (Len(Used[f]) + 1)
      /\ Len(Used[f]) \in Nat
  <2>1. f \in Funcs
    BY SlotsOf
  <2>2. CallAddrSize(f) \in {0, 8} /\ s = CallAddrSize(f) + 8 * Len(Used[f])
        /\ Len(Used[f]) \in Nat /\ s \in Nat /\ t \in Nat
    BY <2>1, Sizes
  <2> QED
    BY <2>1, <2>2
<1>2. /\ 8 * (Len(Used[f]) + 1) < ImmLimit
      /\ SmallLimit \in Nat /\ ImmLimit \in Nat /\ SmallLimit <= ImmLimit
  BY <1>1, SavesFitAssumption, SizesAssumption
<1>3. s < ImmLimit
  BY <1>1, <1>2
<1>4. ASSUME NEW x \in Nat, m \in Below(x) PROVE m \in -ImmLimit .. ImmLimit - 1
  BY <1>2, <1>4 DEF Below
<1> HIDE DEF s, t
<1>5. CASE m \in PushImm(f)
  <2>1. t <= SmallLimit /\ m = -t
    BY <1>5 DEF PushImm, t
  <2> QED
    BY <1>1, <1>2, <2>1
<1>6. CASE m \in PopImm(f)
  <2>1. PopSize(f) \in Nat
    BY <1>1, Sizes
  <2> QED
    BY <1>4, <1>6, <2>1 DEF PopImm
<1>7. CASE m \in SaveImms(f)
  <2>1. m = -s \/ \E n \in 1..(s \div 8) : m = s - 8 * n
    BY <1>7 DEF SaveImms, s
  <2> QED
    BY <1>1, <1>2, <1>3, <2>1
<1>8. CASE m \in LoadImms(f)
  <2>1. \E n \in 1..(s \div 8) : m = -(8 * n)
    BY <1>8 DEF LoadImms, s
  <2> QED
    BY <1>1, <1>2, <1>3, <2>1
<1>9. CASE m \in CellImms(f)
  <2>1. CASE \E c \in Cells(f) : m \in Below(CellOffset(f, c))
    <3>1. PICK c \in Cells(f) : m \in Below(CellOffset(f, c))
      BY <2>1
    <3>2. CellOffset(f, c) \in Nat
      BY <1>1, CellOffsets
    <3> QED
      BY <1>4, <3>1, <3>2
  <2>2. CASE \E k \in StackArgs(f) : m \in Below(OuterOffset(f, k))
    <3>1. PICK k \in StackArgs(f) : m \in Below(OuterOffset(f, k))
      BY <2>2
    <3>2. OuterOffset(f, k) \in Nat
      BY <1>1, OuterOffsets
    <3> QED
      BY <1>4, <3>1, <3>2
  <2>3. \/ m \in UNION {Below(CellOffset(f, c)) : c \in Cells(f)}
        \/ m \in UNION {Below(OuterOffset(f, k)) : k \in StackArgs(f)}
    BY <1>9 DEF CellImms
  <2>4. m \in UNION {Below(CellOffset(f, c)) : c \in Cells(f)} =>
          \E c \in Cells(f) : m \in Below(CellOffset(f, c))
    BY Zenon
  <2>5. m \in UNION {Below(OuterOffset(f, k)) : k \in StackArgs(f)} =>
          \E k \in StackArgs(f) : m \in Below(OuterOffset(f, k))
    BY Zenon
  <2> QED
    BY <2>1, <2>2, <2>3, <2>4, <2>5
<1> QED
  BY <1>5, <1>6, <1>7, <1>8, <1>9

-----------------------------------------------------------------------------
(***************************************************************************)
(* The theorems.  Every frame ends where that of its caller begins and sp   *)
(* is that of the running function: pushFrame and popFrame agree.           *)
(***************************************************************************)
THEOREM InvHolds == Spec => []IInv
<1>1. Init => IInv
  BY InitInv
<1>2. IInv /\ [Next]_vars => IInv'
  BY NextInv
<1> QED
  BY <1>1, <1>2, PTL DEF Spec

\* Addresses, registers and return addresses stay in their ranges.
THEOREM TypeCorrect == Spec => []TypeOK
<1>1. IInv => TypeOK
  BY DEF IInv
<1> QED
  BY <1>1, InvHolds, PTL

\* pushFrame and popFrame move sp by the same amount, whatever the frame.
THEOREM FramesMeet == Spec => []FramesAbut
<1>1. IInv => FramesAbut
  BY DEF IInv
<1> QED
  BY <1>1, InvHolds, PTL

\* sp stays a multiple of eight, whatever locals and spills a function has.
THEOREM StackAligned == Spec => []SpAligned
<1> QED
  BY Aligned, InvHolds, PTL

(***************************************************************************)
(* Nothing a function or the functions it calls do reaches the words its    *)
(* caller's registers and the return address are saved in.                  *)
(***************************************************************************)
THEOREM CallerRestored == Spec => []CallerKept
<1> QED
  BY KeptNow, InvHolds, PTL

\* No frame, small or large, needs an immediate that its field cannot hold.
THEOREM NoImmediateTooLarge == Spec => []ImmediatesFit
<1> QED
  BY NowFit, InvHolds, PTL

-----------------------------------------------------------------------------
(***************************************************************************)
(* The frames implement the abstract call stack.  First: two arguments of   *)
(* one call have different places, and so have two cells of one frame.      *)
(***************************************************************************)
LEMMA CountsGrow ==
  ASSUME NEW g \in Funcs, NEW j \in 1..Params[g], NEW k \in 1..Params[g], j < k
  PROVE /\ FSize(g, j) <= FSize(g, k) /\ ISize(g, j) <= ISize(g, k)
        /\ j \in Floats[g] => FSize(g, j) + 1 <= FSize(g, k)
        /\ j \notin Floats[g] => ISize(g, j) + 1 <= ISize(g, k)
<1> DEFINE A == Floats[g] \cap 1..(j - 1)
           B == Floats[g] \cap j..(k - 1)
           C == Floats[g] \cap 1..(k - 1)
<1>1. j \in Int /\ k \in Int /\ 1 \in Int /\ j - 1 \in Int /\ k - 1 \in Int /\ j + 1 \in Int
      /\ 1 <= j /\ j < k
  BY FuncsAssumption
<1>2. /\ IsFiniteSet(1..(j - 1)) /\ IsFiniteSet(j..(k - 1)) /\ IsFiniteSet((j + 1)..(k - 1))
      /\ Cardinality(j..(k - 1)) = k - j
  <2>1. Cardinality(j..(k - 1)) = IF j > k - 1 THEN 0 ELSE ((k - 1) - j) + 1
    BY <1>1, FS_Interval
  <2>2. IsFiniteSet(1..(j - 1)) /\ IsFiniteSet(j..(k - 1)) /\ IsFiniteSet((j + 1)..(k - 1))
    BY <1>1, FS_Interval
  <2> QED
    BY <1>1, <2>1, <2>2
<1>3. Cardinality((j + 1)..(k - 1)) = (k - j) - 1
  <2>1. Cardinality((j + 1)..(k - 1)) = IF j + 1 > k - 1 THEN 0 ELSE ((k - 1) - (j + 1)) + 1
    BY <1>1, FS_Interval
  <2> QED
    BY <1>1, <2>1
<1>4. /\ IsFiniteSet(A) /\ IsFiniteSet(B)
      /\ Cardinality(A) \in Nat /\ Cardinality(B) \in Nat /\ Cardinality(B) <= k - j
  <2>1. A \in SUBSET (1..(j - 1)) /\ B \in SUBSET (j..(k - 1))
    OBVIOUS
  <2>2. IsFiniteSet(A) /\ IsFiniteSet(B) /\ Cardinality(B) <= k - j
    BY <1>2, <2>1, FS_Subset
  <2> QED
    BY <2>2, FS_CardinalityType
<1>5. Cardinality(C) = Cardinality(A) + Cardinality(B)
  <2>1. C = A \cup B /\ A \cap B = {}
    BY <1>1
  <2>2. Cardinality(A \cup B) = Cardinality(A) + Cardinality(B) - Cardinality(A \cap B)
    BY <1>4, FS_Union
  <2>3. Cardinality(A \cap B) = 0
    BY <2>1, FS_EmptySet
  <2>4. Cardinality(A) \in Int /\ Cardinality(B) \in Int
    BY <1>4
  <2>5. Cardinality(A \cup B) = Cardinality(A) + Cardinality(B)
    <3> HIDE DEF A, B
    <3> QED
      BY <2>2, <2>3, <2>4
  <2> QED
    BY <2>1, <2>5
<1>6. j \in Floats[g] => Cardinality(B) >= 1
  <2> HAVE j \in Floats[g]
  <2>1. {j} \in SUBSET B
    BY <1>1
  <2>2. Cardinality({j}) <= Cardinality(B)
    BY <1>4, <2>1, FS_Subset
  <2>3. Cardinality({j}) = 1
    BY FS_Singleton
  <2> QED
    BY <1>4, <2>2, <2>3
<1>7. j \notin Floats[g] => Cardinality(B) <= (k - j) - 1
  <2> HAVE j \notin Floats[g]
  <2>1. B \in SUBSET ((j + 1)..(k - 1))
    BY <1>1
  <2> QED
    BY <1>2, <1>3, <2>1, FS_Subset
<1>8. /\ FSize(g, j) = Cardinality(A) /\ FSize(g, k) = Cardinality(C)
      /\ ISize(g, j) = (j - 1) - Cardinality(A) /\ ISize(g, k) = (k - 1) - Cardinality(C)
  BY DEF FSize, ISize
<1> HIDE DEF A, B, C
<1> QED
  BY <1>1, <1>4, <1>5, <1>6, <1>7, <1>8

LEMMA ArgsApart ==
  ASSUME NEW g \in Funcs, NEW j \in StackArgs(g), NEW k \in StackArgs(g), j # k
  PROVE Double(argsStackOffset(g, j)) \cap Double(argsStackOffset(g, k)) = {}
<1>1. \A m \in StackArgs(g) :
        /\ m \in 1..Params[g] /\ FSize(g, m) \in Nat /\ ISize(g, m) \in Nat
        /\ IF m \in Floats[g] THEN FSize(g, m) >= RegArgs ELSE ISize(g, m) >= RegArgs
  BY Counts DEF StackArgs, OnStack
<1>2. RegArgs \in Nat /\ Params[g] \in Nat
  BY FuncsAssumption, SizesAssumption
<1>3. ASSUME NEW m \in StackArgs(g), NEW n \in StackArgs(g), m < n
      PROVE /\ argsStackOffset(g, m) \in Nat /\ argsStackOffset(g, n) \in Nat
            /\ argsStackOffset(g, m) + 8 <= argsStackOffset(g, n)
  <2> DEFINE i == ISize(g, m)
             f == FSize(g, m)
             ii == ISize(g, n)
             ff == FSize(g, n)
  <2>1. /\ f <= ff /\ i <= ii
        /\ m \in Floats[g] => f + 1 <= ff
        /\ m \notin Floats[g] => i + 1 <= ii
    BY <1>1, <1>3, CountsGrow
  <2>2. /\ f \in Nat /\ i \in Nat /\ ff \in Nat /\ ii \in Nat
        /\ IF m \in Floats[g] THEN f >= RegArgs ELSE i >= RegArgs
    BY <1>1
  <2>3. /\ argsStackOffset(g, m) = 8 * (Excess(i) + Excess(f))
        /\ argsStackOffset(g, n) = 8 * (Excess(ii) + Excess(ff))
    BY DEF argsStackOffset
  <2> HIDE DEF i, f, ii, ff
  <2>4. /\ Excess(i) = IF i > RegArgs THEN i - RegArgs ELSE 0
        /\ Excess(f) = IF f > RegArgs THEN f - RegArgs ELSE 0
        /\ Excess(ii) = IF ii > RegArgs THEN ii - RegArgs ELSE 0
        /\ Excess(ff) = IF ff > RegArgs THEN ff - RegArgs ELSE 0
    BY DEF Excess
  <2>5. /\ Excess(i) \in Nat /\ Excess(f) \in Nat /\ Excess(ii) \in Nat /\ Excess(ff) \in Nat
        /\ Excess(i) <= Excess(ii) /\ Excess(f) <= Excess(ff)
    BY <1>2, <2>1, <2>2, <2>4
  <2>6. m \in Floats[g] => Excess(f) + 1 <= Excess(ff)
    BY <1>2, <2>1, <2>2, <2>4
  <2>7. m \notin Floats[g] => Excess(i) + 1 <= Excess(ii)
    BY <1>2, <2>1, <2>2, <2>4
  <2> QED
    BY <2>3, <2>5, <2>6, <2>7
<1>4. ASSUME NEW x \in Nat, NEW y \in Nat, x + 8 <= y
      PROVE Double(x) \cap Double(y) = {}
  BY <1>4 DEF Double
<1>5. j \in Int /\ k \in Int
  BY <1>1, <1>2
<1>6. CASE j < k
  BY <1>3, <1>4, <1>6
<1>7. CASE k < j
  <2>1. Double(argsStackOffset(g, k)) \cap Double(argsStackOffset(g, j)) = {}
    BY <1>3, <1>4, <1>7
  <2> QED
    BY <2>1
<1> QED
  BY <1>5, <1>6, <1>7

LEMMA CellsApart ==
  ASSUME NEW f \in Funcs, NEW c \in Cells(f), NEW e \in Cells(f), c # e, NEW s \in Int
  PROVE Span(c, s + CellOffset(f, c)) \cap Span(e, s + CellOffset(f, e)) = {}
<1> DEFINE b == FuncParamSize(f) + AlignSize(f)
           sz == SpillSize(f)
<1>1. b \in Nat /\ sz \in Nat /\ sz = 8 * Spills[f] /\ Spills[f] \in Nat /\ Locals[f] \in Nat
  <2>1. FuncParamSize(f) \in Nat /\ AlignSize(f) \in Nat /\ sz \in Nat
    BY Sizes
  <2>2. sz = 8 * Spills[f] /\ Spills[f] \in Nat /\ Locals[f] \in Nat
    BY SizesAssumption DEF SpillSize
  <2> QED
    BY <2>1, <2>2
<1>2. ASSUME NEW x \in Cells(f)
      PROVE \/ /\ x.item = "SPILL" /\ CellOffset(f, x) = b + x.imm + 0
               /\ x.imm \in Nat /\ x.imm % 8 = 0 /\ x.imm + 8 <= sz
               /\ Span(x, s + CellOffset(f, x)) = {s + CellOffset(f, x), (s + CellOffset(f, x)) + 4}
            \/ /\ x.item = "LOCAL" /\ CellOffset(f, x) = b + x.imm + sz
               /\ x.imm \in Nat /\ x.imm % 4 = 0
               /\ Span(x, s + CellOffset(f, x)) = {s + CellOffset(f, x)}
  <2>1. \/ x.item = "SPILL" /\ \E n \in 0..(Spills[f] - 1) : x.imm = 8 * n
        \/ x.item = "LOCAL" /\ x.imm \in 0..(Locals[f] - 1) /\ x.imm % 4 = 0
    BY DEF Cells
  <2>2. CASE x.item = "SPILL"
    <3>1. PICK n \in 0..(Spills[f] - 1) : x.imm = 8 * n
      BY <2>1, <2>2
    <3>2. x.imm \in Nat /\ x.imm % 8 = 0 /\ x.imm + 8 <= sz
      BY <1>1, <3>1
    <3>3. Span(x, s + CellOffset(f, x)) = {s + CellOffset(f, x), (s + CellOffset(f, x)) + 4}
      BY <2>2 DEF Span, Double
    <3>4. CellOffset(f, x) = b + x.imm + 0
      BY <2>2 DEF CellOffset
    <3> QED
      BY <2>2, <3>2, <3>3, <3>4
  <2>3. CASE x.item = "LOCAL"
    <3>1. x.imm \in Nat /\ x.imm % 4 = 0
      BY <1>1, <2>1, <2>3
    <3>2. Span(x, s + CellOffset(f, x)) = {s + CellOffset(f, x)}
      BY <2>3 DEF Span
    <3>3. CellOffset(f, x) = b + x.imm + sz
      BY <2>3 DEF CellOffset
    <3> QED
      BY <2>3, <3>1, <3>2, <3>3
  <2> QED
    BY <2>1, <2>2, <2>3
<1>3. ~(c.item = e.item /\ c.imm = e.imm)
  <2>1. \A x \in Cells(f) : x = [item |-> x.item, imm |-> x.imm]
    BY DEF Cells
  <2> QED
    BY <2>1
<1> DEFINE oc == CellOffset(f, c)
           oe == CellOffset(f, e)
           ic == c.imm
           ie == e.imm
           lc == Span(c, s + oc)
           le == Span(e, s + oe)
<1>4. \/ /\ c.item = "SPILL" /\ oc = b + ic + 0 /\ ic \in Nat /\ ic % 8 = 0 /\ ic + 8 <= sz
         /\ lc = {s + oc, (s + oc) + 4}
      \/ /\ c.item = "LOCAL" /\ oc = b + ic + sz /\ ic \in Nat /\ ic % 4 = 0 /\ lc = {s + oc}
  BY <1>2
<1>5. \/ /\ e.item = "SPILL" /\ oe = b + ie + 0 /\ ie \in Nat /\ ie % 8 = 0 /\ ie + 8 <= sz
         /\ le = {s + oe, (s + oe) + 4}
      \/ /\ e.item = "LOCAL" /\ oe = b + ie + sz /\ ie \in Nat /\ ie % 4 = 0 /\ le = {s + oe}
  BY <1>2
<1>6. c.item = e.item => ic # ie
  BY <1>3
<1> SUFFICES lc \cap le = {}
  OBVIOUS
<1> HIDE DEF b, sz, oc, oe, ic, ie, lc, le
<1>7. CASE c.item = "SPILL" /\ e.item = "SPILL"
  BY <1>1, <1>4, <1>5, <1>6, <1>7
<1>8. CASE c.item = "SPILL" /\ e.item = "LOCAL"
  BY <1>1, <1>4, <1>5, <1>8
<1>9. CASE c.item = "LOCAL" /\ e.item = "SPILL"
  BY <1>1, <1>4, <1>5, <1>9
<1>10. CASE c.item = "LOCAL" /\ e.item = "LOCAL"
  BY <1>1, <1>4, <1>5, <1>6, <1>10
<1> QED
  BY <1>4, <1>5, <1>7, <1>8, <1>9, <1>10

(***************************************************************************)
(* The functions running are called one by the other, from main, so an      *)
(* argument of the stack lies in the frame of the caller.                   *)
(***************************************************************************)
Chain ==
  /\ depth > 0 => fun[1] = Main
  /\ \A d \in 2..depth : fun[d] \in Calls[fun[d - 1]]

LEMMA CellWords ==
  ASSUME IInv, NEW d \in 1..depth, NEW c \in Cells(fun[d])
  PROVE \A a \in Span(c, base[d] + CellOffset(fun[d], c)) :
          /\ a \in Words
          /\ base[d] + FuncParamSize(fun[d]) <= a
          /\ a < base[d] + TotalSize(fun[d])
<1> DEFINE f == fun[d]
           b == base[d]
<1>1. /\ f \in Funcs /\ b \in Int /\ base[d - 1] = b + FrameSize(f) /\ base[d - 1] <= 0
      /\ FrameSize(f) <= StackSize + base[d - 1]
  BY SlotsOf
<1>2. b % 8 = 0
  <2>1. d \in 0..MaxDepth
    BY SlotsOf
  <2> QED
    BY <2>1 DEF IInv, Stacked
<1>3. /\ FrameSize(f) = SaveRegsSize(f) + TotalSize(f)
      /\ SaveRegsSize(f) \in Nat /\ TotalSize(f) \in Nat /\ FuncParamSize(f) \in Nat
  BY <1>1, Sizes
<1>4. StackSize \in Nat
  BY SizesAssumption
<1>5. b + TotalSize(f) <= 0 /\ -StackSize <= b
  BY <1>1, <1>3, <1>4
<1>6. ASSUME NEW a \in Span(c, b + CellOffset(f, c))
      PROVE a \in Words /\ b + FuncParamSize(f) <= a /\ a < b + TotalSize(f)
  <2>1. a \in Int /\ a % 4 = 0 /\ b + FuncParamSize(f) <= a /\ a < b + TotalSize(f)
    BY <1>1, <1>2, CellsFit
  <2>2. a \in -StackSize .. -1
    BY <1>1, <1>3, <1>4, <1>5, <2>1
  <2> QED
    BY <2>1, <2>2 DEF Words
<1> QED
  BY <1>6

LEMMA ArgWords ==
  ASSUME IInv, Chain, NEW d \in 1..depth, NEW k \in StackArgs(fun[d])
  PROVE /\ d - 1 \in 1..depth /\ d - 1 \in Depths
        /\ base[d] + OuterOffset(fun[d], k) = base[d - 1] + argsStackOffset(fun[d], k)
        /\ \A a \in Double(base[d] + OuterOffset(fun[d], k)) :
             /\ a \in Words
             /\ base[d - 1] <= a
             /\ a < base[d - 1] + FuncParamSize(fun[d - 1])
<1>1. fun[d] \in Funcs /\ depth \in 0..MaxDepth /\ MaxDepth \in Nat
  BY SlotsOf, SizesAssumption DEF IInv, TypeOK
<1>2. d # 1
  <2>1. fun[d] # Main
    BY FuncsAssumption DEF StackArgs
  <2> QED
    BY <1>1, <2>1 DEF Chain
<1> DEFINE e == d - 1
           b == base[e]
           o == argsStackOffset(fun[d], k)
           p == FuncParamSize(fun[e])
<1>3. e \in 1..depth /\ e \in Depths /\ d \in 2..depth
  BY <1>1, <1>2 DEF Depths
<1>4. /\ fun[e] \in Funcs /\ b \in Int /\ b % 8 = 0
      /\ base[e - 1] = b + FrameSize(fun[e]) /\ base[e - 1] <= 0
      /\ FrameSize(fun[e]) <= StackSize + base[e - 1]
      /\ base[d] \in Int /\ b = base[d] + FrameSize(fun[d])
  BY <1>3, SlotsOf
<1>5. /\ FrameSize(fun[d]) \in Nat /\ FrameSize(fun[e]) \in Nat /\ p \in Nat
      /\ p <= FrameSize(fun[e])
  <2>1. FrameSize(fun[d]) \in Nat
    BY <1>1, Sizes
  <2>2. /\ FrameSize(fun[e]) = SaveRegsSize(fun[e]) + TotalSize(fun[e])
        /\ SaveRegsSize(fun[e]) \in Nat /\ TotalSize(fun[e]) \in Nat
        /\ FrameSize(fun[e]) \in Nat
        /\ TotalSize(fun[e]) = p + AlignSize(fun[e]) + SpillSize(fun[e]) + Locals[fun[e]]
    BY <1>4, Sizes
  <2>3. /\ p \in Nat /\ AlignSize(fun[e]) \in Nat /\ SpillSize(fun[e]) \in Nat
        /\ Locals[fun[e]] \in Nat
    BY <1>4, Sizes
  <2> QED
    BY <2>1, <2>2, <2>3
<1>6. o \in Nat /\ o % 8 = 0 /\ o + 8 <= p
  <2>1. fun[d] \in Calls[fun[e]]
    BY <1>3 DEF Chain
  <2> QED
    BY <1>4, <2>1, ArgsFit
<1>7. base[d] + OuterOffset(fun[d], k) = b + o
  <2>1. OuterOffset(fun[d], k) = FrameSize(fun[d]) + o
    BY DEF OuterOffset
  <2> HIDE DEF o, b
  <2> QED
    BY <1>4, <1>5, <1>6, <2>1
<1>8. ASSUME NEW a \in Double(base[d] + OuterOffset(fun[d], k))
      PROVE a \in Words /\ b <= a /\ a < b + p
  <2>1. a = b + o \/ a = (b + o) + 4
    BY <1>7 DEF Double
  <2> DEFINE s == StackSize
             z == FrameSize(fun[e])
             t == base[e - 1]
  <2>2. /\ b \in Int /\ b % 8 = 0 /\ o \in Nat /\ o % 8 = 0 /\ o + 8 <= p /\ p \in Nat
        /\ s \in Nat /\ z \in Nat /\ p <= z /\ t = b + z /\ t <= 0 /\ z <= s + t
    BY <1>4, <1>5, <1>6, SizesAssumption
  <2>3. Words = {x \in -s .. -1 : x % 4 = 0}
    BY DEF Words
  <2> HIDE DEF b, o, p, s, z, t
  <2>4. a \in Int /\ a % 4 = 0 /\ b <= a /\ a < b + p /\ -s <= a /\ a <= -1
    BY <2>1, <2>2
  <2> QED
    BY <2>2, <2>3, <2>4
<1> QED
  BY <1>3, <1>7, <1>8

-----------------------------------------------------------------------------
(* What the cells and arguments of a frame read as, before and after a step. *)

ReadIn(m, A) == IF \E v \in Data : \A a \in A : m[a] = v
                THEN CHOOSE v \in Data : \A a \in A : m[a] = v
                ELSE Garbage

LEMMA ReadsInValue ==
  ASSUME NEW m, NEW A, NEW v \in Data, A # {}, \A a \in A : m[a] = v
  PROVE ReadIn(m, A) = v
<1>1. \A w : (\A a \in A : m[a] = w) => w = v
  OBVIOUS
<1> QED
  BY <1>1 DEF ReadIn

LEMMA ReadsAlike ==
  ASSUME NEW m, NEW n, NEW A, A # {}, \A a \in A : m[a] = n[a]
  PROVE ReadIn(m, A) = ReadIn(n, A)
<1>1. CASE \E v \in Data : \A a \in A : n[a] = v
  <2>1. PICK v \in Data : \A a \in A : n[a] = v
    BY <1>1
  <2>2. ReadIn(m, A) = v /\ ReadIn(n, A) = v
    BY <2>1, ReadsInValue
  <2> QED
    BY <2>2
<1>2. CASE ~ \E v \in Data : \A a \in A : n[a] = v
  <2>1. ~ \E v \in Data : \A a \in A : m[a] = v
    BY <1>2
  <2> QED
    BY <1>2, <2>1 DEF ReadIn
<1> QED
  BY <1>1, <1>2

LEMMA ReadsData == ASSUME NEW m, NEW A PROVE ReadIn(m, A) \in Data \cup {Garbage}
BY DEF ReadIn

LEMMA SpansFull == \A c, a : Span(c, a) # {} /\ Double(a) # {}
BY DEF Span, Double

CellsIn(m, f, b) == [c \in Cells(f) |-> ReadIn(m, Span(c, b + CellOffset(f, c)))]
ArgsIn(m, f, b) == [k \in StackArgs(f) |-> ReadIn(m, Double(b + OuterOffset(f, k)))]

LEMMA Seen ==
  ASSUME NEW d
  PROVE /\ CellsAt(d) = IF d > depth THEN <<>> ELSE CellsIn(mem, fun[d], base[d])
        /\ ArgsAt(d) = IF d > depth THEN <<>> ELSE ArgsIn(mem, fun[d], base[d])
        /\ CellsAt(d)' = IF d > depth' THEN <<>> ELSE CellsIn(mem', fun'[d], base'[d])
        /\ ArgsAt(d)' = IF d > depth' THEN <<>> ELSE ArgsIn(mem', fun'[d], base'[d])
<1>1. CellsAt(d) = IF d > depth THEN <<>> ELSE CellsIn(mem, fun[d], base[d])
  BY DEF CellsAt, CellsIn, Read, ReadIn
<1>2. ArgsAt(d) = IF d > depth THEN <<>> ELSE ArgsIn(mem, fun[d], base[d])
  BY DEF ArgsAt, ArgsIn, Read, ReadIn
<1>3. CellsAt(d)' = IF d > depth' THEN <<>> ELSE CellsIn(mem', fun'[d], base'[d])
  BY DEF CellsAt, CellsIn, Read, ReadIn
<1>4. ArgsAt(d)' = IF d > depth' THEN <<>> ELSE ArgsIn(mem', fun'[d], base'[d])
  BY DEF ArgsAt, ArgsIn, Read, ReadIn
<1> QED
  BY <1>1, <1>2, <1>3, <1>4

\* A frame whose words a step does not write reads as before.
LEMMA FrameStays ==
  ASSUME NEW d \in 1..depth, depth \in Nat, depth' \in Nat, d <= depth',
         fun'[d] = fun[d], base'[d] = base[d],
         \A c \in Cells(fun[d]) : \A a \in Span(c, base[d] + CellOffset(fun[d], c)) :
           mem'[a] = mem[a],
         \A k \in StackArgs(fun[d]) : \A a \in Double(base[d] + OuterOffset(fun[d], k)) :
           mem'[a] = mem[a]
  PROVE CellsAt(d)' = CellsAt(d) /\ ArgsAt(d)' = ArgsAt(d)
<1>1. ~(d > depth) /\ ~(d > depth')
  OBVIOUS
<1>2. CellsIn(mem', fun[d], base[d]) = CellsIn(mem, fun[d], base[d])
  <2>1. ASSUME NEW c \in Cells(fun[d])
        PROVE ReadIn(mem', Span(c, base[d] + CellOffset(fun[d], c)))
              = ReadIn(mem, Span(c, base[d] + CellOffset(fun[d], c)))
    BY SpansFull, ReadsAlike
  <2> QED
    BY <2>1 DEF CellsIn
<1>3. ArgsIn(mem', fun[d], base[d]) = ArgsIn(mem, fun[d], base[d])
  <2>1. ASSUME NEW k \in StackArgs(fun[d])
        PROVE ReadIn(mem', Double(base[d] + OuterOffset(fun[d], k)))
              = ReadIn(mem, Double(base[d] + OuterOffset(fun[d], k)))
    BY SpansFull, ReadsAlike
  <2> QED
    BY <2>1 DEF ArgsIn
<1> QED
  BY <1>1, <1>2, <1>3, Seen

-----------------------------------------------------------------------------
(* Every step of the frames is one of the call stack. *)

CellMap == [d \in Depths |-> CellsAt(d)]
ArgMap == [d \in Depths |-> ArgsAt(d)]

LEMMA CallStep ==
  ASSUME IInv, Chain, NEW f \in Funcs, NEW passed \in [StackArgs(f) -> Data], Call(f, passed)
  PROVE Abstract!Call(f)
<1> DEFINE n == depth + 1
<1>1. /\ depth \in 0..MaxDepth /\ n \in 1..MaxDepth /\ n \in Depths /\ n \in 0..MaxDepth
      /\ sp \in Int /\ sp = base[depth] /\ sp' = sp - FrameSize(f) /\ MaxDepth \in Nat
  BY CallWrites, SizesAssumption DEF Depths
<1>2. /\ depth' = n /\ regs' = regs
      /\ fun' = [fun EXCEPT ![n] = f] /\ base' = [base EXCEPT ![n] = sp']
      /\ kept' = [kept EXCEPT ![n] = regs]
      /\ mem' = [a \in Words |-> IF a < sp THEN Saving(f, a) ELSE Passing(f, passed, a)]
      /\ IF depth = 0 THEN f = Main ELSE f \in Calls[fun[depth]]
      /\ depth < MaxDepth
  BY <1>1 DEF Call
<1>3. /\ fun'[n] = f /\ base'[n] = sp'
      /\ \A d \in 1..depth : fun'[d] = fun[d] /\ base'[d] = base[d]
  <2>1. fun \in [Depths -> Funcs] /\ base \in [0..MaxDepth -> -StackSize .. 0]
    BY DEF IInv, TypeOK
  <2>2. fun'[n] = f /\ base'[n] = sp'
    BY <1>1, <1>2, <2>1
  <2>3. ASSUME NEW d \in 1..depth PROVE fun'[d] = fun[d] /\ base'[d] = base[d]
    <3>1. d \in Depths /\ d # n /\ d \in 0..MaxDepth
      BY <1>1 DEF Depths
    <3> QED
      BY <1>2, <2>1, <3>1
  <2> QED
    BY <2>2, <2>3
\* The arguments lie where the caller keeps its own place for them.
<1>4. ASSUME depth > 0
      PROVE /\ depth \in 1..depth /\ fun[depth] \in Funcs /\ FuncParamSize(fun[depth]) \in Nat
            /\ FuncParamSize(fun[depth]) <= FrameSize(fun[depth])
            /\ base[depth - 1] = sp + FrameSize(fun[depth])
            /\ base[depth - 1] \in Int /\ base[depth - 1] <= 0 /\ -StackSize <= sp
            /\ \A k \in StackArgs(f) :
                 /\ argsStackOffset(f, k) \in Nat /\ argsStackOffset(f, k) % 8 = 0
                 /\ argsStackOffset(f, k) + 8 <= FuncParamSize(fun[depth])
  <2>1. depth \in 1..depth
    BY <1>1, <1>4
  <2>2. /\ fun[depth] \in Funcs /\ base[depth - 1] = base[depth] + FrameSize(fun[depth])
        /\ base[depth - 1] \in Int /\ base[depth - 1] <= 0
    BY <2>1, SlotsOf
  <2>3. /\ FrameSize(fun[depth]) = SaveRegsSize(fun[depth]) + TotalSize(fun[depth])
        /\ SaveRegsSize(fun[depth]) \in Nat /\ TotalSize(fun[depth]) \in Nat
        /\ TotalSize(fun[depth]) = FuncParamSize(fun[depth]) + AlignSize(fun[depth])
                                   + SpillSize(fun[depth]) + Locals[fun[depth]]
        /\ FuncParamSize(fun[depth]) \in Nat /\ AlignSize(fun[depth]) \in Nat
        /\ SpillSize(fun[depth]) \in Nat /\ Locals[fun[depth]] \in Nat
    BY <2>2, Sizes
  <2>4. FuncParamSize(fun[depth]) <= FrameSize(fun[depth])
    BY <2>3
  <2>5. f \in Calls[fun[depth]]
    BY <1>1, <1>2, <1>4
  <2>6. sp \in -StackSize .. 0 /\ StackSize \in Nat
    BY SizesAssumption DEF IInv, TypeOK
  <2> QED
    BY <1>1, <2>1, <2>2, <2>3, <2>4, <2>5, <2>6, ArgsFit
<1>5. depth = 0 => StackArgs(f) = {}
  BY <1>2, FuncsAssumption DEF StackArgs
\* Nothing is written in the words of the frames there are.
<1>6. ASSUME NEW a \in Words, sp <= a,
             depth > 0 => sp + FuncParamSize(fun[depth]) <= a
      PROVE mem'[a] = mem[a]
  <2>1. a \in Int /\ ~(a < sp)
    BY <1>1, <1>6 DEF Words
  <2>2. ASSUME NEW k \in StackArgs(f), a \in Double(sp + argsStackOffset(f, k)) PROVE FALSE
    <3>1. depth > 0
      BY <1>1, <1>5
    <3>2. /\ argsStackOffset(f, k) \in Nat
          /\ argsStackOffset(f, k) + 8 <= FuncParamSize(fun[depth])
          /\ FuncParamSize(fun[depth]) \in Nat
          /\ sp + FuncParamSize(fun[depth]) <= a
      BY <1>4, <1>6, <3>1
    <3>3. a = sp + argsStackOffset(f, k) \/ a = (sp + argsStackOffset(f, k)) + 4
      BY <2>2 DEF Double
    <3> QED
      BY <1>1, <3>2, <3>3
  <2>3. Passing(f, passed, a) = mem[a]
    BY <2>2 DEF Passing
  <2> QED
    BY <1>2, <2>1, <2>3
<1>7. ASSUME NEW d \in 1..depth
      PROVE CellsAt(d)' = CellsAt(d) /\ ArgsAt(d)' = ArgsAt(d)
  <2>1. depth > 0 /\ d \in Int
    BY <1>1
  <2>2. ASSUME NEW c \in Cells(fun[d]),
               NEW a \in Span(c, base[d] + CellOffset(fun[d], c))
        PROVE mem'[a] = mem[a]
    <3>1. a \in Words /\ base[d] + FuncParamSize(fun[d]) <= a
      BY CellWords
    <3>2. a \in Int
      BY <3>1 DEF Words
    <3>3. /\ base[d] \in Int /\ sp <= base[d]
          /\ d < depth => sp + FrameSize(fun[depth]) <= base[d]
      BY SlotsOf
    <3>4. FuncParamSize(fun[d]) \in Nat /\ FrameSize(fun[depth]) \in Nat
      BY <1>4, <2>1, SlotsOf, Sizes
    <3>5. sp <= a
      BY <1>1, <3>1, <3>2, <3>3, <3>4
    <3>6. sp + FuncParamSize(fun[depth]) <= a
      <4>1. CASE d = depth
        BY <1>1, <3>1, <4>1
      <4>2. CASE d < depth
        BY <1>1, <1>4, <2>1, <3>1, <3>2, <3>3, <3>4, <4>2
      <4> QED
        BY <1>1, <2>1, <4>1, <4>2
    <3> QED
      BY <1>6, <3>1, <3>5, <3>6
  <2>3. ASSUME NEW k \in StackArgs(fun[d]),
               NEW a \in Double(base[d] + OuterOffset(fun[d], k))
        PROVE mem'[a] = mem[a]
    <3>1. a \in Words /\ a \in Int /\ base[d - 1] <= a /\ d - 1 \in 1..depth
      BY ArgWords DEF Words
    <3>2. sp + FrameSize(fun[depth]) <= base[d - 1] /\ base[d - 1] \in Int
      <4>1. d - 1 < depth
        BY <1>1
      <4> QED
        BY <3>1, <4>1, SlotsOf
    <3>3. FrameSize(fun[depth]) \in Nat
      BY <1>4, <2>1, Sizes
    <3>4. sp <= a /\ sp + FuncParamSize(fun[depth]) <= a
      BY <1>1, <1>4, <2>1, <3>1, <3>2, <3>3
    <3> QED
      BY <1>6, <3>1, <3>4
  <2>4. d <= depth' /\ depth \in Nat /\ depth' \in Nat
    BY <1>1, <1>2
  <2> QED
    BY <1>3, <2>2, <2>3, <2>4, FrameStays
\* The new frame finds the arguments passed.
<1>8. ArgsIn(mem', f, sp') = passed
  <2>1. ASSUME NEW k \in StackArgs(f)
        PROVE ReadIn(mem', Double(sp' + OuterOffset(f, k))) = passed[k]
    <3>1. depth > 0
      BY <1>1, <1>5
    <3>2. FrameSize(f) \in Nat
      BY Sizes
    <3>3. argsStackOffset(f, k) \in Nat
      BY <1>4, <3>1
    <3>4. sp' + OuterOffset(f, k) = sp + argsStackOffset(f, k)
      <4>1. OuterOffset(f, k) = FrameSize(f) + argsStackOffset(f, k)
        BY DEF OuterOffset
      <4> QED
        BY <1>1, <3>2, <3>3, <4>1
    <3>5. ASSUME NEW a \in Double(sp + argsStackOffset(f, k)) PROVE mem'[a] = passed[k]
      <4> DEFINE o == argsStackOffset(f, k)
                 p == FuncParamSize(fun[depth])
                 t == base[depth - 1]
                 z == FrameSize(fun[depth])
                 s == StackSize
      <4>1. /\ o \in Nat /\ o % 8 = 0 /\ o + 8 <= p /\ p \in Nat /\ p <= z /\ t = sp + z
            /\ t \in Int /\ t <= 0 /\ -s <= sp /\ s \in Nat
        BY <1>4, <3>1, SizesAssumption
      <4>2. a = sp + o \/ a = (sp + o) + 4
        BY <3>5 DEF Double
      <4>3. Words = {x \in -s .. -1 : x % 4 = 0}
        BY DEF Words
      <4>4. z \in Nat
        BY <1>4, <3>1, Sizes
      <4>5. sp % 8 = 0
        BY CallWrites
      <4>6. a \in Words /\ ~(a < sp)
        <5> HIDE DEF o, p, t, z, s
        <5>1. a \in Int /\ a % 4 = 0 /\ sp <= a /\ a < sp + p
          BY <1>1, <4>1, <4>2, <4>5
        <5>2. -s <= a /\ a <= -1
          BY <1>1, <4>1, <4>4, <5>1
        <5> QED
          BY <1>1, <4>1, <4>3, <5>1, <5>2
      <4> DEFINE j == CHOOSE j \in StackArgs(f) : a \in Double(sp + argsStackOffset(f, j))
      <4>7. j \in StackArgs(f) /\ a \in Double(sp + argsStackOffset(f, j))
        BY <3>5
      <4> HIDE DEF j
      <4>8. j = k
        <5>1. a - sp \in Double(argsStackOffset(f, j)) /\ a - sp \in Double(argsStackOffset(f, k))
          <6>1. \A x \in Nat : a \in Double(sp + x) => a - sp \in Double(x)
            BY <1>1 DEF Double
          <6>2. argsStackOffset(f, j) \in Nat
            BY <1>4, <3>1, <4>7
          <6> QED
            BY <3>3, <3>5, <4>7, <6>1, <6>2
        <5> QED
          BY <4>7, <5>1, ArgsApart
      <4>9. Passing(f, passed, a) = passed[j]
        BY <3>5 DEF Passing, j
      <4> QED
        BY <1>2, <4>6, <4>8, <4>9
    <3>6. passed[k] \in Data
      OBVIOUS
    <3> QED
      BY <3>4, <3>5, <3>6, SpansFull, ReadsInValue
  <2>2. ArgsIn(mem', f, sp') = [k \in StackArgs(f) |-> passed[k]]
    BY <2>1 DEF ArgsIn
  <2> QED
    BY <2>2
<1>9. CellsIn(mem', f, sp') \in [Cells(f) -> Data \cup {Garbage}]
  BY ReadsData DEF CellsIn
<1>10. ASSUME NEW d \in Depths, d # n
       PROVE CellsAt(d)' = CellsAt(d) /\ ArgsAt(d)' = ArgsAt(d)
  <2>1. CASE d <= depth
    <3>1. d \in 1..depth
      BY <1>1, <2>1 DEF Depths
    <3> QED
      BY <1>7, <3>1
  <2>2. CASE d > depth
    <3>1. d > depth'
      BY <1>1, <1>2, <1>10, <2>2 DEF Depths
    <3> QED
      BY <2>2, <3>1, Seen
  <2> QED
    BY <1>1, <2>1, <2>2 DEF Depths
<1> DEFINE C(d) == IF d > depth' THEN <<>> ELSE CellsIn(mem', fun'[d], base'[d])
           A(d) == IF d > depth' THEN <<>> ELSE ArgsIn(mem', fun'[d], base'[d])
<1>11. /\ CellMap' = [CellMap EXCEPT ![n] = C(n)] /\ C(n) \in [Cells(f) -> Data \cup {Garbage}]
       /\ ArgMap' = [ArgMap EXCEPT ![n] = passed]
  <2>1. \A d : CellsAt(d)' = C(d) /\ ArgsAt(d)' = A(d)
    BY Seen
  <2>2. CellMap' = [d \in Depths |-> C(d)] /\ ArgMap' = [d \in Depths |-> A(d)]
    BY <2>1 DEF CellMap, ArgMap
  <2>3. \A d \in Depths : d # n => C(d) = CellsAt(d) /\ A(d) = ArgsAt(d)
    BY <1>10, <2>1
  <2>4. A(n) = passed /\ C(n) \in [Cells(f) -> Data \cup {Garbage}]
    <3>1. ~(n > depth')
      BY <1>1, <1>2
    <3> QED
      BY <1>3, <1>8, <1>9, <3>1
  <2> HIDE DEF C, A, n
  <2>5. [d \in Depths |-> C(d)] = [[d \in Depths |-> CellsAt(d)] EXCEPT ![n] = C(n)]
    BY <2>3
  <2>6. [d \in Depths |-> A(d)] = [[d \in Depths |-> ArgsAt(d)] EXCEPT ![n] = passed]
    BY <2>3, <2>4
  <2> QED
    BY <2>2, <2>4, <2>5, <2>6 DEF CellMap, ArgMap
<1> HIDE DEF C, A
<1> HIDE DEF n
<1>12. \E c \in [Cells(f) -> Data \cup {Garbage}], a \in [StackArgs(f) -> Data] :
         /\ CellMap' = [CellMap EXCEPT ![n] = c]
         /\ ArgMap' = [ArgMap EXCEPT ![n] = a]
  BY <1>11
<1> QED
  BY <1>2, <1>12 DEF Abstract!Call, CellMap, ArgMap, n

LEMMA WriteStep ==
  ASSUME IInv, Chain, NEW v \in Data, NEW c \in UNION {Cells(f) : f \in Funcs}, Write(c, v)
  PROVE Abstract!Write(c, v)
<1> DEFINE f == fun[depth]
           b == base[depth]
<1>1. /\ depth \in 1..depth /\ depth \in 0..MaxDepth /\ depth \in Depths
      /\ f \in Funcs /\ b \in Int /\ sp = b /\ c \in Cells(f)
  <2>1. depth \in 1..depth /\ depth \in 0..MaxDepth /\ depth \in Depths
    BY DEF IInv, TypeOK, Write, Depths
  <2> QED
    BY <2>1, SlotsOf DEF IInv, FramesAbut, Write
<1>2. /\ depth' = depth /\ fun' = fun /\ base' = base /\ regs' = regs /\ kept' = kept
      /\ mem' = [a \in Words |-> IF a \in Span(c, b + CellOffset(f, c)) THEN v ELSE mem[a]]
  BY <1>1 DEF Write
<1>3. \A a \in Words : a \notin Span(c, b + CellOffset(f, c)) => mem'[a] = mem[a]
  BY <1>2
<1>4. \A a \in Span(c, b + CellOffset(f, c)) : mem'[a] = v /\ a \in Int /\ a < b + TotalSize(f)
  <2>1. \A a \in Span(c, b + CellOffset(f, c)) : a \in Words /\ a < b + TotalSize(f)
    BY <1>1, CellWords
  <2>2. Words \subseteq Int
    BY DEF Words
  <2> QED
    BY <1>2, <2>1, <2>2
<1>5. TotalSize(f) \in Nat /\ TotalSize(f) <= FrameSize(f) /\ FrameSize(f) \in Nat
  <2>1. /\ TotalSize(f) \in Nat /\ FrameSize(f) = SaveRegsSize(f) + TotalSize(f)
        /\ SaveRegsSize(f) \in Nat /\ FrameSize(f) \in Nat
    BY <1>1, Sizes
  <2> QED
    BY <2>1
<1>6. ASSUME NEW d \in 1..depth, NEW k \in StackArgs(fun[d]),
             NEW a \in Double(base[d] + OuterOffset(fun[d], k))
      PROVE mem'[a] = mem[a]
  <2>1. a \in Words /\ base[d - 1] <= a /\ d - 1 \in 1..depth
    BY ArgWords
  <2>2. a \in Int
    BY <2>1 DEF Words
  <2>3. sp + FrameSize(f) <= base[d - 1] /\ base[d - 1] \in Int
    <3>1. d - 1 < depth
      BY <1>1
    <3> QED
      BY <2>1, <3>1, SlotsOf
  <2>4. ~(a < b + TotalSize(f))
    BY <1>1, <1>5, <2>1, <2>2, <2>3
  <2> QED
    BY <1>3, <1>4, <2>1, <2>4
<1>7. ASSUME NEW d \in 1..depth, d # depth,
             NEW e \in Cells(fun[d]), NEW a \in Span(e, base[d] + CellOffset(fun[d], e))
      PROVE mem'[a] = mem[a]
  <2>1. /\ a \in Words /\ base[d] + FuncParamSize(fun[d]) <= a /\ base[d] \in Int
        /\ fun[d] \in Funcs
    BY CellWords, SlotsOf
  <2>2. a \in Int /\ FuncParamSize(fun[d]) \in Nat
    BY <2>1, Sizes DEF Words
  <2>3. sp + FrameSize(f) <= base[d]
    <3>1. d < depth
      BY <1>1, <1>7
    <3> QED
      BY <3>1, SlotsOf
  <2>4. ~(a < b + TotalSize(f))
    BY <1>1, <1>5, <2>1, <2>2, <2>3
  <2> QED
    BY <1>3, <1>4, <2>1, <2>4
<1>8. ASSUME NEW e \in Cells(f)
      PROVE ReadIn(mem', Span(e, b + CellOffset(f, e)))
            = IF e = c THEN v ELSE ReadIn(mem, Span(e, b + CellOffset(f, e)))
  <2>1. CASE e = c
    BY <1>4, <2>1, SpansFull, ReadsInValue
  <2>2. CASE e # c
    <3>1. Span(c, b + CellOffset(f, c)) \cap Span(e, b + CellOffset(f, e)) = {}
      BY <1>1, <2>2, CellsApart
    <3>2. \A a \in Span(e, b + CellOffset(f, e)) : a \in Words
      BY <1>1, CellWords
    <3>3. \A a \in Span(e, b + CellOffset(f, e)) : mem'[a] = mem[a]
      BY <1>3, <3>1, <3>2
    <3> QED
      BY <2>2, <3>3, SpansFull, ReadsAlike
  <2> QED
    BY <2>1, <2>2
<1>9. ASSUME NEW d \in Depths, d # depth
      PROVE CellsAt(d)' = CellsAt(d)
  <2>1. CASE d > depth
    BY <1>2, <2>1, Seen
  <2>2. CASE ~(d > depth)
    <3>1. d \in 1..depth /\ depth \in Nat /\ d <= depth
      BY <1>1, <2>2 DEF Depths
    <3> QED
      BY <1>2, <1>6, <1>7, <1>9, <3>1, FrameStays
  <2> QED
    BY <2>1, <2>2
<1>10. CellsIn(mem', f, b) = [CellsIn(mem, f, b) EXCEPT ![c] = v]
  <2>1. CellsIn(mem, f, b) = [e \in Cells(f) |-> ReadIn(mem, Span(e, b + CellOffset(f, e)))]
    BY DEF CellsIn
  <2>2. CellsIn(mem', f, b) = [e \in Cells(f) |-> ReadIn(mem', Span(e, b + CellOffset(f, e)))]
    BY DEF CellsIn
  <2> QED
    BY <1>8, <2>1, <2>2
<1>11. ASSUME NEW d \in Depths PROVE ArgsAt(d)' = ArgsAt(d)
  <2>1. CASE d > depth
    BY <1>2, <2>1, Seen
  <2>2. CASE ~(d > depth)
    <3>1. d \in 1..depth
      BY <1>1, <2>2 DEF Depths
    <3>2. ASSUME NEW k \in StackArgs(fun[d])
          PROVE ReadIn(mem', Double(base[d] + OuterOffset(fun[d], k)))
                = ReadIn(mem, Double(base[d] + OuterOffset(fun[d], k)))
      BY <1>6, <3>1, SpansFull, ReadsAlike
    <3>3. ArgsIn(mem', fun[d], base[d]) = ArgsIn(mem, fun[d], base[d])
      BY <3>2 DEF ArgsIn
    <3> QED
      BY <1>2, <2>2, <3>3, Seen
  <2> QED
    BY <2>1, <2>2
<1> DEFINE C(d) == IF d > depth THEN <<>> ELSE CellsIn(mem', fun[d], base[d])
<1>12. \A d : CellsAt(d)' = C(d)
  BY <1>2, Seen
<1>13. CellMap' = [CellMap EXCEPT ![depth] = [CellMap[depth] EXCEPT ![c] = v]]
  <2>1. CellMap' = [d \in Depths |-> C(d)]
    BY <1>12 DEF CellMap
  <2>2. CellMap[depth] = CellsIn(mem, f, b)
    <3>1. CellsAt(depth) = CellsIn(mem, f, b)
      <4>1. ~(depth > depth)
        BY <1>1
      <4> QED
        BY <4>1, Seen
    <3> QED
      BY <1>1, <3>1 DEF CellMap
  <2>3. C(depth) = [CellMap[depth] EXCEPT ![c] = v]
    <3>1. ~(depth > depth)
      BY <1>1
    <3> QED
      BY <1>10, <2>2, <3>1
  <2>4. \A d \in Depths : d # depth => C(d) = CellMap[d]
    BY <1>9, <1>12 DEF CellMap
  <2>5. CellMap = [d \in Depths |-> CellMap[d]]
    BY DEF CellMap
  <2> HIDE DEF C
  <2> QED
    BY <1>1, <2>1, <2>3, <2>4, <2>5
<1>14. ArgMap' = ArgMap
  BY <1>11 DEF ArgMap
<1>15. depth > 0 /\ c \in Cells(fun[depth])
  BY DEF Write
<1>16. CellMap' = [CellMap EXCEPT ![depth][c] = v]
  BY <1>13
<1> QED
  BY <1>2, <1>14, <1>15, <1>16 DEF Abstract!Write, CellMap, ArgMap

\* A step that leaves memory and the frames alone leaves what they read as.
LEMMA MapsStay ==
  ASSUME UNCHANGED <<depth, fun, mem, base>>
  PROVE CellMap' = CellMap /\ ArgMap' = ArgMap
<1>1. \A d : CellsAt(d)' = CellsAt(d) /\ ArgsAt(d)' = ArgsAt(d)
  BY Seen
<1> QED
  BY <1>1 DEF CellMap, ArgMap

LEMMA SetRegStep ==
  ASSUME IInv, NEW v \in Data, NEW i \in 1..Cardinality(Saved), SetReg(i, v)
  PROVE \E r \in Saved : Abstract!SetReg(r, v)
<1> DEFINE r == Used[fun[depth]][i]
<1>1. depth \in Depths /\ depth > 0
  BY DEF IInv, TypeOK, SetReg, Depths
<1>2. fun[depth] \in Funcs /\ i \in 1..Len(Used[fun[depth]])
  BY <1>1 DEF IInv, TypeOK, SetReg
<1>3. r \in Saved /\ r \in Uses(fun[depth])
  <2>1. Used[fun[depth]] \in Seq(Saved)
    BY <1>2, SizesAssumption
  <2> QED
    BY <1>2, <2>1 DEF Uses
<1>4. /\ regs' = [regs EXCEPT ![r] = v] /\ UNCHANGED <<depth, fun, mem, base, kept>>
  BY DEF SetReg
<1>5. CellMap' = CellMap /\ ArgMap' = ArgMap
  BY <1>4, MapsStay
<1> HIDE DEF r
<1>6. Abstract!SetReg(r, v)
  BY <1>1, <1>3, <1>4, <1>5 DEF Abstract!SetReg, CellMap, ArgMap
<1> QED
  BY <1>3, <1>6

LEMMA ReturnStep ==
  ASSUME IInv, Chain, Return
  PROVE Abstract!Return
<1> DEFINE n == depth - 1
<1>1. /\ depth \in 1..MaxDepth /\ depth \in 1..depth /\ depth \in Depths
      /\ depth' = n /\ sp' = base[n] /\ regs' = kept[depth]
  BY ReturnRestores
<1>2. /\ fun' = [fun EXCEPT ![depth] = Main]
      /\ base' = [base EXCEPT ![depth] = 0]
      /\ kept' = [kept EXCEPT ![depth] = regs']
      /\ mem' = [a \in Words |-> IF a < sp' THEN Garbage ELSE mem[a]]
  BY DEF Return
<1>3. \A d \in 1..n : d \in 1..depth /\ d < depth /\ fun'[d] = fun[d] /\ base'[d] = base[d]
  BY <1>1, <1>2 DEF IInv, TypeOK, Depths
<1>4. base[n] \in Int
  BY <1>1, SlotsOf
<1>5. \A a \in Words : base[n] <= a => mem'[a] = mem[a]
  <2>1. Words \subseteq Int
    BY DEF Words
  <2> QED
    BY <1>1, <1>2, <1>4, <2>1
<1>6. ASSUME NEW d \in 1..n PROVE base[n] <= base[d] /\ base[d] \in Int
  <2>1. CASE d = n
    BY <1>3, <1>4, <2>1
  <2>2. CASE d # n
    <3>1. n \in 1..depth /\ d \in 0..(n - 1)
      BY <1>1, <2>2
    <3>2. base[n] + FrameSize(fun[n]) <= base[d]
      BY <3>1 DEF IInv, Stacked
    <3>3. FrameSize(fun[n]) \in Nat
      BY <3>1, SlotsOf, Sizes
    <3>4. base[d] \in Int
      BY <1>3, SlotsOf
    <3> QED
      BY <1>4, <3>2, <3>3, <3>4
  <2> QED
    BY <2>1, <2>2
<1>7. ASSUME NEW d \in Depths, d # depth
      PROVE CellsAt(d)' = CellsAt(d) /\ ArgsAt(d)' = ArgsAt(d)
  <2>1. CASE d > depth
    <3>1. d > depth'
      BY <1>1, <2>1 DEF Depths
    <3> QED
      BY <2>1, <3>1, Seen
  <2>2. CASE d < depth
    <3>1. d \in 1..n /\ d \in 1..depth /\ depth \in Nat /\ depth' \in Nat /\ d <= depth'
      BY <1>1, <2>2 DEF Depths
    <3>2. ASSUME NEW c \in Cells(fun[d]), NEW a \in Span(c, base[d] + CellOffset(fun[d], c))
          PROVE mem'[a] = mem[a]
      <4>1. a \in Words /\ base[d] + FuncParamSize(fun[d]) <= a /\ fun[d] \in Funcs
        BY <3>1, CellWords, SlotsOf
      <4>2. a \in Int /\ FuncParamSize(fun[d]) \in Nat
        BY <4>1, Sizes DEF Words
      <4>3. base[n] <= a
        BY <1>4, <1>6, <3>1, <4>1, <4>2
      <4> QED
        BY <1>5, <4>1, <4>3
    <3>3. ASSUME NEW k \in StackArgs(fun[d]),
                 NEW a \in Double(base[d] + OuterOffset(fun[d], k))
          PROVE mem'[a] = mem[a]
      <4>1. a \in Words /\ base[d - 1] <= a
        BY <3>1, ArgWords
      <4>2. /\ base[d - 1] = base[d] + FrameSize(fun[d]) /\ fun[d] \in Funcs
            /\ base[d - 1] \in Int
        BY <3>1, SlotsOf
      <4>3. FrameSize(fun[d]) \in Nat
        BY <4>2, Sizes
      <4>4. a \in Int
        BY <4>1 DEF Words
      <4>5. base[n] <= a
        BY <1>4, <1>6, <3>1, <4>1, <4>2, <4>3, <4>4
      <4> QED
        BY <1>5, <4>1, <4>5
    <3> QED
      BY <1>3, <3>1, <3>2, <3>3, FrameStays
  <2> QED
    BY <1>1, <1>7, <2>1, <2>2 DEF Depths
<1>8. CellMap' = [CellMap EXCEPT ![depth] = <<>>] /\ ArgMap' = [ArgMap EXCEPT ![depth] = <<>>]
  <2> DEFINE C(d) == IF d > depth' THEN <<>> ELSE CellsIn(mem', fun'[d], base'[d])
             A(d) == IF d > depth' THEN <<>> ELSE ArgsIn(mem', fun'[d], base'[d])
  <2>1. \A d : CellsAt(d)' = C(d) /\ ArgsAt(d)' = A(d)
    BY Seen
  <2>2. CellMap' = [d \in Depths |-> C(d)] /\ ArgMap' = [d \in Depths |-> A(d)]
    BY <2>1 DEF CellMap, ArgMap
  <2>3. \A d \in Depths : d # depth => C(d) = CellsAt(d) /\ A(d) = ArgsAt(d)
    BY <1>7, <2>1
  <2>4. C(depth) = <<>> /\ A(depth) = <<>>
    BY <1>1
  <2> HIDE DEF C, A
  <2>5. [d \in Depths |-> C(d)] = [[d \in Depths |-> CellsAt(d)] EXCEPT ![depth] = <<>>]
    BY <2>3, <2>4
  <2>6. [d \in Depths |-> A(d)] = [[d \in Depths |-> ArgsAt(d)] EXCEPT ![depth] = <<>>]
    BY <2>3, <2>4
  <2> QED
    BY <2>2, <2>5, <2>6 DEF CellMap, ArgMap
<1>9. depth > 0
  BY <1>1
<1> QED
  BY <1>1, <1>2, <1>8, <1>9 DEF Abstract!Return, CellMap, ArgMap

-----------------------------------------------------------------------------
LEMMA ChainKept == ASSUME IInv, Chain, [Next]_vars PROVE Chain'
<1>1. ASSUME NEW f \in Funcs, NEW passed \in [StackArgs(f) -> Data], Call(f, passed)
      PROVE Chain'
  <2> DEFINE n == depth + 1
  <2>1. /\ depth \in 0..MaxDepth /\ n \in Depths /\ depth' = n /\ fun' = [fun EXCEPT ![n] = f]
        /\ IF depth = 0 THEN f = Main ELSE f \in Calls[fun[depth]]
    BY <1>1, CallWrites DEF Call, Depths
  <2>2. fun'[n] = f /\ \A d \in 1..depth : fun'[d] = fun[d]
    <3>1. fun \in [Depths -> Funcs]
      BY DEF IInv, TypeOK
    <3>2. \A d \in 1..depth : d \in Depths /\ d # n
      BY <2>1, SizesAssumption DEF Depths
    <3> QED
      BY <2>1, <3>1, <3>2
  <2>3. fun'[1] = Main
    <3>1. CASE depth = 0
      BY <2>1, <2>2, <3>1
    <3>2. CASE depth # 0
      BY <2>1, <2>2, <3>2 DEF Chain
    <3> QED
      BY <3>1, <3>2
  <2>4. ASSUME NEW d \in 2..n PROVE fun'[d] \in Calls[fun'[d - 1]]
    <3>1. CASE d = n
      <4>1. depth # 0 /\ d - 1 = depth /\ depth \in 1..depth
        BY <2>1, <3>1
      <4> QED
        BY <2>1, <2>2, <3>1, <4>1
    <3>2. CASE d # n
      <4>1. d \in 2..depth /\ d \in 1..depth /\ d - 1 \in 1..depth
        BY <2>1, <3>2
      <4> QED
        BY <2>2, <4>1 DEF Chain
    <3> QED
      BY <3>1, <3>2
  <2> QED
    BY <2>1, <2>3, <2>4 DEF Chain
<1>2. ASSUME NEW v \in Data, NEW c \in UNION {Cells(f) : f \in Funcs}, Write(c, v)
      PROVE Chain'
  BY <1>2 DEF Write, Chain
<1>3. ASSUME NEW v \in Data, NEW i \in 1..Cardinality(Saved), SetReg(i, v)
      PROVE Chain'
  BY <1>3 DEF SetReg, Chain
<1>4. CASE Return
  <2>1. depth \in 1..MaxDepth /\ depth \in Depths /\ depth' = depth - 1
    BY <1>4, ReturnRestores
  <2>2. fun' = [fun EXCEPT ![depth] = Main] /\ fun \in [Depths -> Funcs]
    BY <1>4 DEF Return, IInv, TypeOK
  <2>3. \A d \in 1..(depth - 1) : fun'[d] = fun[d]
    <3>1. \A d \in 1..(depth - 1) : d \in Depths /\ d # depth
      BY <2>1, SizesAssumption DEF Depths
    <3> QED
      BY <2>2, <3>1
  <2>4. depth' > 0 => fun'[1] = Main
    BY <2>1, <2>3 DEF Chain
  <2>5. ASSUME NEW d \in 2..(depth - 1) PROVE fun'[d] \in Calls[fun'[d - 1]]
    <3>1. d \in 2..depth /\ d \in 1..(depth - 1) /\ d - 1 \in 1..(depth - 1)
      BY <2>1
    <3> QED
      BY <2>3, <3>1 DEF Chain
  <2> QED
    BY <2>1, <2>4, <2>5 DEF Chain
<1>5. CASE UNCHANGED vars
  BY <1>5 DEF vars, Chain
<1> QED
  BY <1>1, <1>2, <1>3, <1>4, <1>5 DEF Next

LEMMA InitMaps == Init => Abstract!Init
<1> SUFFICES ASSUME Init PROVE Abstract!Init
  OBVIOUS
<1>1. depth = 0 /\ MaxDepth \in Nat
  BY SizesAssumption DEF Init
<1>2. \A d \in Depths : CellsAt(d) = <<>> /\ ArgsAt(d) = <<>>
  BY <1>1 DEF CellsAt, ArgsAt, Depths
<1> QED
  BY <1>1, <1>2 DEF Init, Abstract!Init, Abstract!Depths, Depths

LEMMA StepMaps ==
  ASSUME IInv, Chain, [Next]_vars
  PROVE [Abstract!Next]_(Abstract!vars)
<1>1. ASSUME NEW f \in Funcs, NEW passed \in [StackArgs(f) -> Data], Call(f, passed)
      PROVE Abstract!Next
  BY <1>1, CallStep DEF Abstract!Next
<1>2. ASSUME NEW v \in Data, NEW c \in UNION {Cells(f) : f \in Funcs}, Write(c, v)
      PROVE Abstract!Next
  BY <1>2, WriteStep DEF Abstract!Next
<1>3. ASSUME NEW v \in Data, NEW i \in 1..Cardinality(Saved), SetReg(i, v)
      PROVE Abstract!Next
  BY <1>3, SetRegStep DEF Abstract!Next
<1>4. CASE Return
  BY <1>4, ReturnStep DEF Abstract!Next
<1>5. CASE UNCHANGED vars
  <2>1. CellMap' = CellMap /\ ArgMap' = ArgMap
    BY <1>5, MapsStay DEF vars
  <2> QED
    BY <1>5, <2>1 DEF vars, Abstract!vars, CellMap, ArgMap
<1> QED
  BY <1>1, <1>2, <1>3, <1>4, <1>5 DEF Next

(***************************************************************************)
(* Whatever the frames of the functions, their locals, spills and calls: a  *)
(* function finds its arguments and its cells as they were written, and     *)
(* gives its caller back the saved registers, as if each call had memory    *)
(* of its own.                                                              *)
(***************************************************************************)
THEOREM FramesImplementCalls == Spec => KeepsCalls
<1>1. Init => Chain
  BY DEF Init, Chain
<1>2. IInv /\ Chain /\ [Next]_vars => Chain'
  BY ChainKept
<1>3. Init => Abstract!Init
  BY InitMaps
<1>4. IInv /\ Chain /\ [Next]_vars => [Abstract!Next]_(Abstract!vars)
  BY StepMaps
<1> QED
  BY <1>1, <1>2, <1>3, <1>4, InvHolds, PTL DEF Spec, KeepsCalls, Abstract!Spec
=============================================================================
