----------------------------- MODULE Arithmetic -----------------------------
(***************************************************************************)
(* How integer operations become machine instructions: the helpers of       *)
(* src/riscv/mir_util.cpp that look at a constant operand, MachineFunc's     *)
(* binary, icmp and branch (machine_func.cpp), and the pass that fuses a    *)
(* comparison with the branch behind it (src/pass/lower_branch_opti.cpp).   *)
(* The code is emitted, and then run instruction by instruction.            *)
(*                                                                         *)
(* An int has WordBits bits, a register RegBits, an immediate ImmBits: 32,  *)
(* 64 and 12 on the target.                                                 *)
(***************************************************************************)
EXTENDS Integers, Sequences, FiniteSets, FiniteSetsExt

CONSTANTS
  WordBits, RegBits, ImmBits,
  Problems   \* the operations compiled

ASSUME WidthsAssumption ==
  /\ WordBits \in Nat /\ RegBits \in Nat /\ ImmBits \in Nat
  /\ 1 < ImmBits /\ ImmBits < WordBits /\ 2 * WordBits <= RegBits

Word == -(2^(WordBits - 1)) .. 2^(WordBits - 1) - 1
IntMin == -(2^(WordBits - 1))
BinaryOps == {"ADD", "SUB", "MUL", "SDIV", "SREM"}
CmpOps == {"EQ", "NE", "SLT", "SGT", "SLE", "SGE"}

(***************************************************************************)
(* A problem is an operation, which of its operands are constants, and the  *)
(* operands.  "INDEX" is the product of an index with the size of an        *)
(* element (gepOpti).  Its first operand may be a phi whose register a move *)
(* overwrites before the result is used (moved), and the result of a        *)
(* comparison may be used by more than the branch behind it (shared).       *)
(***************************************************************************)
ASSUME ProblemsAssumption ==
  Problems \subseteq [op : BinaryOps \cup CmpOps \cup {"INDEX"},
                      form : {"RegReg", "RegImm", "ImmReg", "ImmImm"},
                      x : Word, y : Word, moved : BOOLEAN, shared : BOOLEAN]

VARIABLES
  problem,
  stage,    \* "emit", "lower", "run" or "done"
  code,     \* the instructions still to run
  result,   \* the register of the result
  jump,     \* the conditional jump to the false block, of a comparison
  regs      \* the registers: 0 is zero, 1 and 2 hold the operands
vars == <<problem, stage, code, result, jump, regs>>

Registers == 0..11
NoJump == [op |-> "none", src |-> <<0, 0>>]

-----------------------------------------------------------------------------
(* Numbers of n bits in two's complement, and their bits. *)

Wrap(v, n) == ((v + 2^(n - 1)) % 2^n) - 2^(n - 1)
Bits(v, n) == {i \in 0..(n - 1) : (v \div 2^i) % 2 = 1}
OfBits(B, n) == Wrap(MapThenSumSet(LAMBDA i : 2^i, B), n)
Abs(v) == IF v < 0 THEN -v ELSE v

\* std::abs of an int: of the smallest it is undefined, and the default build,
\* which does not optimise, leaves that one as it is.
stdAbs(v) == Wrap(Abs(v), WordBits)

bitcount(v) == Cardinality(Bits(v, WordBits))
leadingZeros(v) ==
  IF v = 0 THEN WordBits ELSE WordBits - 1 - Max(Bits(v, WordBits))
trailingZeros(v) == IF v = 0 THEN WordBits ELSE Min(Bits(v, WordBits))

(***************************************************************************)
(* What the program means, and what the compiler computes itself when both  *)
(* operands are constants: the operators of ConstantNumber on ints.         *)
(* Overflow and division by zero have no meaning.                           *)
(***************************************************************************)
Quotient(x, y) ==
  LET q == Abs(x) \div Abs(y) IN IF (x < 0) = (y < 0) THEN q ELSE -q

Exact(op, x, y) ==
  CASE op = "ADD" -> x + y
    [] op = "SUB" -> x - y
    [] op \in {"MUL", "INDEX"} -> x * y
    [] op = "SDIV" -> Quotient(x, y)
    [] op = "SREM" -> x - y * Quotient(x, y)

Holds(op, x, y) ==
  CASE op = "EQ" -> x = y
    [] op = "NE" -> x # y
    [] op = "SLT" -> x < y
    [] op = "SGT" -> x > y
    [] op = "SLE" -> x <= y
    [] op = "SGE" -> x >= y

HasMeaning(op, x, y) ==
  \/ op \in CmpOps
  \/ op \in {"SDIV", "SREM"} /\ y # 0 /\ ~(x = IntMin /\ y = -1)
  \/ op \notin {"SDIV", "SREM"} /\ Exact(op, x, y) \in Word

-----------------------------------------------------------------------------
(* Instructions.  A block under construction is its code and the register   *)
(* its last instruction writes: the n-th instruction writes register n + 2. *)

Inst(op, src, imm) ==
  [op |-> op, dst |-> 0, src |-> src, imm |-> imm, type |-> "I32"]
Li(imm) == Inst("LI", <<>>, imm)
Rr(op, a) == Inst(op, <<a>>, 0)
Rri(op, a, imm) == Inst(op, <<a>>, imm)
Rrr(op, a, b) == Inst(op, <<a, b>>, 0)

Empty == [code |-> <<>>, at |-> 0]
Push(b, inst) ==
  LET reg == Len(b.code) + 3
  IN [code |-> Append(b.code, [inst EXCEPT !.dst = reg]), at |-> reg]

loadImmI(b, imm) == Push(b, Li(imm))
addRegRegI(b, s, t) == Push(b, Rrr("ADDW", s, t))
subRegRegI(b, s, t) == Push(b, Rrr("SUBW", s, t))
mulRegRegI(b, s, t) == Push(b, Rrr("MULW", s, t))
divRegRegI(b, s, t) == Push(b, Rrr("DIVW", s, t))
modRegReg(b, s, t) == Push(b, Rrr("REMW", s, t))

\* The second operand in a register of its own.
WithImm(Op(_, _, _), b, s, imm) ==
  LET l == loadImmI(b, imm) IN Op(l, s, l.at)

\* Slips: addRegImmI as it could have gone wrong, for mutation of the checks.
addRegImmIWithin(b, s, imm) ==
  IF stdAbs(imm) <= 2^(ImmBits - 1)
  THEN Push(b, Rri("ADDI", s, imm))
  ELSE WithImm(addRegRegI, b, s, imm)

addRegImmI(b, s, imm) ==
  IF stdAbs(imm) < 2^(ImmBits - 1)
  THEN Push(b, Rri("ADDI", s, imm))
  ELSE WithImm(addRegRegI, b, s, imm)

subRegImmI(b, s, imm) ==
  IF Wrap(-imm, WordBits) \in -(2^(ImmBits - 1)) .. 2^(ImmBits - 1) - 1
  THEN Push(b, Rri("ADDI", s, -imm))
  ELSE WithImm(subRegRegI, b, s, imm)

subImmRegI(b, imm, s) == LET l == loadImmI(b, imm) IN subRegRegI(l, l.at, s)
divImmRegI(b, imm, s) == LET l == loadImmI(b, imm) IN divRegRegI(l, l.at, s)
modImmReg(b, imm, s) == LET l == loadImmI(b, imm) IN modRegReg(l, l.at, s)

(***************************************************************************)
(* Multiplication by a constant: mulRegImmI with the instructions of a      *)
(* word, mulRegImmI64 with those of a register.                             *)
(***************************************************************************)
mulByShifts(b, s, imm, shift, add, sub) ==
  CASE imm = 0 -> loadImmI(b, 0)
    [] imm = 1 -> Push(b, Rr("MV", s))
    [] imm = -1 -> Push(b, Rr("NEG", s))
    [] imm \notin {-1, 0, 1} /\ bitcount(imm) = 1 ->
         Push(b, Rri(shift, s, trailingZeros(imm)))
    [] imm > 1 /\ bitcount(imm) = 2 /\ imm % 2 = 1 ->
         LET m == Push(b, Rri(shift, s, WordBits - 1 - leadingZeros(imm)))
         IN Push(m, Rrr(add, m.at, s))
    [] /\ imm \notin {-1, 0, 1} /\ bitcount(imm) # 1
       /\ ~(imm > 1 /\ bitcount(imm) = 2 /\ imm % 2 = 1)
       /\ trailingZeros(imm) = 0 /\ leadingZeros(imm) + bitcount(imm) = WordBits ->
         LET m == Push(b, Rri(shift, s, WordBits - leadingZeros(imm)))
         IN Push(m, Rrr(sub, m.at, s))
    [] OTHER -> WithImm(mulRegRegI, b, s, imm)

mulRegImmI(b, s, imm) == mulByShifts(b, s, imm, "SLLIW", "ADDW", "SUBW")
mulRegImmI64(b, s, imm) == mulByShifts(b, s, imm, "SLLI", "ADD", "SUB")

\* Dividing by one makes no instruction: the result is the source's register.
divRegImmI(b, s, imm) ==
  CASE imm = 1 -> [b EXCEPT !.at = s]
    [] imm = -1 -> Push(b, [Rr("NEG", s) EXCEPT !.type = "F32"])
    [] OTHER -> WithImm(divRegRegI, b, s, imm)

\* Slips: Bias as it could have gone wrong, for mutation of the checks.
BiasOfHalf(b, s, imm) ==
  IF imm = 2
  THEN Push(b, Rri("SRLIW", s, WordBits - 1))
  ELSE LET m == Push(b, Rri("SRAIW", s, WordBits - 1))
       IN Push(m, Rri("SRLIW", m.at, Min({leadingZeros(imm) + 2, WordBits - 1})))

\* The sign, as a number added to a negative source before its low bits go.
Bias(b, s, imm) ==
  IF imm = 2
  THEN Push(b, Rri("SRLIW", s, WordBits - 1))
  ELSE LET m == Push(b, Rri("SRAIW", s, WordBits - 1))
       IN Push(m, Rri("SRLIW", m.at, leadingZeros(imm) + 1))

(***************************************************************************)
(* A remainder by a power of two rounds towards zero by adding a bias; by   *)
(* one it is a copy of the source.                                          *)
(***************************************************************************)
modRegImm(b, s, imm) ==
  CASE imm = 1 -> Push(b, Rr("MV", s))
    [] bitcount(imm) = 1 /\ imm # 1 ->
         LET m == Bias(b, s, imm)
             a == Push(m, Rrr("ADD", m.at, s))
             c == IF stdAbs(imm) < 2^(ImmBits - 1)
                  THEN Push(a, Rri("ANDI", a.at, Wrap(-imm, WordBits)))
                  ELSE LET l == loadImmI(a, Wrap(-imm, WordBits))
                       IN Push(l, Rrr("AND", a.at, l.at))
         IN subRegRegI(c, s, c.at)
    [] OTHER ->
         LET q == divRegImmI(b, s, imm)
             m == mulRegImmI(q, q.at, imm)
         IN subRegRegI(m, s, m.at)

(***************************************************************************)
(* MachineFunc::binary and icmp choose by which operands are constants.     *)
(***************************************************************************)
binRegReg(b, op, s, t) ==
  CASE op = "ADD" -> addRegRegI(b, s, t)
    [] op = "SUB" -> subRegRegI(b, s, t)
    [] op = "MUL" -> mulRegRegI(b, s, t)
    [] op = "SDIV" -> divRegRegI(b, s, t)
    [] op = "SREM" -> modRegReg(b, s, t)

binRegImm(b, op, s, imm) ==
  CASE op = "ADD" -> addRegImmI(b, s, imm)
    [] op = "SUB" -> subRegImmI(b, s, imm)
    [] op = "MUL" -> mulRegImmI(b, s, imm)
    [] op = "SDIV" -> divRegImmI(b, s, imm)
    [] op = "SREM" -> modRegImm(b, s, imm)

binImmReg(b, op, imm, s) ==
  CASE op = "ADD" -> addRegImmI(b, s, imm)
    [] op = "SUB" -> subImmRegI(b, imm, s)
    [] op = "MUL" -> mulRegImmI(b, s, imm)
    [] op = "SDIV" -> divImmRegI(b, imm, s)
    [] op = "SREM" -> modImmReg(b, imm, s)

binary(op, form, x, y) ==
  CASE form = "RegReg" -> binRegReg(Empty, op, 1, 2)
    [] form = "RegImm" -> binRegImm(Empty, op, 1, y)
    [] form = "ImmReg" -> binImmReg(Empty, op, x, 2)
    [] form = "ImmImm" -> LET l == loadImmI(Empty, x) IN binRegImm(l, op, l.at, y)

icmp(op, form, x, y) ==
  LET l1 == IF form \in {"ImmReg", "ImmImm"} THEN loadImmI(Empty, x) ELSE [Empty EXCEPT !.at = 1]
      l2 == IF form \in {"RegImm", "ImmImm"} THEN loadImmI(l1, y) ELSE [l1 EXCEPT !.at = 2]
      Compare(o) == Push(l2, Rrr(o, l1.at, l2.at))
      Not(b) == Push(b, Rri("XORI", b.at, 1))
  IN CASE op = "EQ" -> LET d == Compare("SUB") IN Push(d, Rr("SEQZ", d.at))
       [] op = "NE" -> LET d == Compare("SUB") IN Push(d, Rr("SNEZ", d.at))
       [] op = "SLT" -> Compare("SLT")
       [] op = "SGT" -> Compare("SGT")
       [] op = "SGE" -> Not(Compare("SLT"))
       [] op = "SLE" -> Not(Compare("SGT"))

Emitted(p) ==
  CASE p.op \in BinaryOps -> binary(p.op, p.form, p.x, p.y)
    [] p.op \in CmpOps -> icmp(p.op, p.form, p.x, p.y)
    [] p.op = "INDEX" -> mulRegImmI64(Empty, 1, p.y)

-----------------------------------------------------------------------------
(* What the instructions do (RISC-V: those ending in W, and NEG, which is   *)
(* negw, work on words and extend the sign). *)

BitwiseAnd(a, b, n) == OfBits(Bits(a, n) \cap Bits(b, n), n)
BitwiseXor(a, b, n) ==
  OfBits((Bits(a, n) \cup Bits(b, n)) \ (Bits(a, n) \cap Bits(b, n)), n)
Flag(holds) == IF holds THEN 1 ELSE 0

Computed(op, a, b, imm) ==
  LET w == Wrap(a, WordBits)
      v == Wrap(b, WordBits)
  IN CASE op = "LI" -> imm
       [] op = "MV" -> a
       [] op = "NEG" -> Wrap(-w, WordBits)
       [] op = "ADDI" -> Wrap(a + imm, RegBits)
       [] op = "ADD" -> Wrap(a + b, RegBits)
       [] op = "SUB" -> Wrap(a - b, RegBits)
       [] op = "ADDW" -> Wrap(w + v, WordBits)
       [] op = "SUBW" -> Wrap(w - v, WordBits)
       [] op = "MULW" -> Wrap(w * v, WordBits)
       [] op = "DIVW" -> IF v = 0 THEN -1 ELSE Wrap(Quotient(w, v), WordBits)
       [] op = "REMW" -> IF v = 0 THEN w ELSE w - v * Quotient(w, v)
       [] op = "SLLIW" -> Wrap(w * 2^imm, WordBits)
       [] op = "SLLI" -> Wrap(a * 2^imm, RegBits)
       [] op = "SRAIW" -> w \div 2^imm
       [] op = "SRLIW" -> Wrap((w % 2^WordBits) \div 2^imm, WordBits)
       [] op = "AND" -> BitwiseAnd(a, b, RegBits)
       [] op = "ANDI" -> BitwiseAnd(a, imm, RegBits)
       [] op = "XORI" -> BitwiseXor(a, imm, RegBits)
       [] op = "SEQZ" -> Flag(a = 0)
       [] op = "SNEZ" -> Flag(a # 0)
       [] op = "SLT" -> Flag(a < b)
       [] op = "SGT" -> Flag(a > b)

Taken(j) ==
  LET a == regs[j.src[1]]
      b == regs[j.src[2]]
  IN CASE j.op = "EQ" -> a = b
       [] j.op = "GE" -> a >= b
       [] j.op = "LE" -> a <= b

-----------------------------------------------------------------------------
(* The operation is compiled, its branch perhaps fused, and the code run. *)

Init ==
  /\ problem \in Problems
  /\ stage = "emit"
  /\ code = <<>> /\ result = 0 /\ jump = NoJump
  /\ regs = [r \in Registers |->
               CASE r = 1 -> problem.x [] r = 2 -> problem.y [] OTHER -> 0]

\* The move of a phi comes behind every instruction but the terminator.
PhiMove == [Li(7) EXCEPT !.dst = 1]

Emit ==
  /\ stage = "emit"
  /\ LET b == Emitted(problem)
     IN /\ code' = IF problem.moved THEN Append(b.code, PhiMove) ELSE b.code
        /\ result' = b.at
        /\ jump' = IF problem.op \in CmpOps
                   THEN [op |-> "EQ", src |-> <<b.at, 0>>]
                   ELSE NoJump
  /\ stage' = "lower"
  /\ UNCHANGED <<problem, regs>>

\* Slips: Fusible as it could have gone wrong, for mutation of the checks.
FusibleAnywhere ==
  /\ jump.op = "EQ" /\ ~problem.shared
  /\ \E i \in 1..Len(code) : code[i].dst = jump.src[1] /\ code[i].op \in {"SLT", "SGT"}

\* The jump tests what the instruction before it has compared, and only it does.
Fusible ==
  /\ jump.op = "EQ" /\ ~problem.shared
  /\ code[Len(code)].dst = jump.src[1]
  /\ code[Len(code)].op \in {"SLT", "SGT"}

LowerBranchOpti ==
  /\ stage = "lower" /\ Fusible
  /\ \E i \in 1..Len(code) :
       /\ code[i].dst = jump.src[1]
       /\ jump' = [op |-> IF code[i].op = "SLT" THEN "GE" ELSE "LE", src |-> code[i].src]
       /\ code' = SubSeq(code, 1, i - 1) \o SubSeq(code, i + 1, Len(code))
  /\ stage' = "run"
  /\ UNCHANGED <<problem, result, regs>>

\* Nothing to fuse, or the pass is not run (it needs -O1).
Unfused ==
  /\ stage = "lower"
  /\ stage' = "run"
  /\ UNCHANGED <<problem, code, result, jump, regs>>

Execute ==
  /\ stage = "run" /\ code # <<>>
  /\ LET inst == Head(code)
         Src(i) == IF i <= Len(inst.src) THEN regs[inst.src[i]] ELSE 0
     IN regs' = [regs EXCEPT ![inst.dst] = Computed(inst.op, Src(1), Src(2), inst.imm)]
  /\ code' = Tail(code)
  /\ UNCHANGED <<problem, stage, result, jump>>

Finish ==
  /\ stage = "run" /\ code = <<>>
  /\ stage' = "done"
  /\ UNCHANGED <<problem, code, result, jump, regs>>

Next == Emit \/ LowerBranchOpti \/ Unfused \/ Execute \/ Finish

Spec == Init /\ [][Next]_vars

-----------------------------------------------------------------------------
(***************************************************************************)
(* The code computes what the operation means, whichever of the short forms *)
(* the constant operand picks, and the result outlives a move to the        *)
(* register of the first operand.                                           *)
(***************************************************************************)
ResultRight ==
  (stage = "done" /\ HasMeaning(problem.op, problem.x, problem.y)) =>
    IF problem.op \in CmpOps
    THEN problem.shared => regs[result] = Flag(Holds(problem.op, problem.x, problem.y))
    ELSE regs[result] = Exact(problem.op, problem.x, problem.y)

(***************************************************************************)
(* The branch goes to the false block exactly if the comparison fails, the  *)
(* comparison fused with it or not, and a phi move between the two or not.  *)
(***************************************************************************)
JumpGoesRight ==
  (stage = "done" /\ problem.op \in CmpOps) =>
    (Taken(jump) <=> ~Holds(problem.op, problem.x, problem.y))

(***************************************************************************)
(* Every immediate fits the field of its instruction, and no shift is as    *)
(* long as the word.                                                        *)
(***************************************************************************)
ImmediatesFit ==
  \A i \in 1..Len(code) :
    /\ code[i].op \in {"ADDI", "ANDI", "XORI"} =>
         code[i].imm \in -(2^(ImmBits - 1)) .. 2^(ImmBits - 1) - 1
    /\ code[i].op \in {"SLLIW", "SLLI", "SRAIW", "SRLIW"} =>
         code[i].imm \in 0..(WordBits - 1)
=============================================================================
