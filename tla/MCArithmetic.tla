---------------------------- MODULE MCArithmetic ----------------------------
(***************************************************************************)
(* Every int operation on words of five bits, with every operand and every  *)
(* choice of constant operands.  Left out: the operations the code gets     *)
(* wrong (GotWrong), most of them at a constant of one, minus one or the    *)
(* smallest int.                                                            *)
(***************************************************************************)
EXTENDS Arithmetic

Forms == {"RegReg", "RegImm", "ImmReg", "ImmImm"}
ByConstant == {"RegImm", "ImmImm"}

Binary == [op : BinaryOps, form : Forms, x : Word, y : Word, moved : BOOLEAN, shared : {TRUE}]
Comparisons == [op : CmpOps, form : Forms, x : Word, y : {-5, -4, 0, 3, 4},
                moved : BOOLEAN, shared : BOOLEAN]
Indices == [op : {"INDEX"}, form : {"RegImm"}, x : Word, y : Word \ (IntMin .. 0),
            moved : BOOLEAN, shared : {TRUE}]

\* The constant that picks the form, of a commutative operation on either side.
Constant(p) == IF p.form = "ImmReg" THEN p.x ELSE p.y

\* x + IntMin and x % IntMin have an immediate that does not fit; x % 1 gives x;
\* x % -1 and x / -1 are negations of the wrong type; x / 1 is the register of
\* x, which a phi overwrites.
GotWrong(p) ==
  \/ p.op = "ADD" /\ p.form # "RegReg" /\ Constant(p) = IntMin
  \/ p.op = "SREM" /\ p.form \in ByConstant /\ p.y \in {1, -1, IntMin}
  \/ p.op = "SDIV" /\ p.form \in ByConstant /\ p.y = -1
  \/ p.op = "SDIV" /\ p.form = "RegImm" /\ p.y = 1 /\ p.moved

MCProblems ==
  {p \in Binary \cup Comparisons \cup Indices :
     HasMeaning(p.op, p.x, p.y) /\ ~GotWrong(p)}
=============================================================================
