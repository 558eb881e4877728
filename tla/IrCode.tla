------------------------------- MODULE IrCode -------------------------------
(***************************************************************************)
(* Functions in SSA form as the scalar passes see them.  A function is      *)
(* [code, succ]: the instructions of each block, in layout order, and the   *)
(* blocks its terminator names, the one for true first.  An instruction is  *)
(* [id, op, args, from]; from is of a phi only, the blocks its operands     *)
(* come from.  An operand is [kind, v].                                     *)
(***************************************************************************)
EXTENDS Integers, Sequences, SequencesExt

Const(v) == [kind |-> "const", v |-> v]
Value(id) == [kind |-> "inst", v |-> id]
Global(cell) == [kind |-> "global", v |-> cell]
Argument == [kind |-> "arg", v |-> 0]

Inst(id, op, args) == [id |-> id, op |-> op, args |-> args, from |-> <<>>]
Phi(id, args, from) == [id |-> id, op |-> "phi", args |-> args, from |-> from]

Binary == {"add", "sub"}
Cmp == {"lt"}

Uses(code, id) ==
  {c \in DOMAIN code : \E k \in DOMAIN code[c] :
     \E a \in DOMAIN code[c][k].args : code[c][k].args[a] = Value(id)}

replaceAllUsesWith(code, id, new) ==
  [c \in DOMAIN code |->
    [k \in DOMAIN code[c] |->
      [code[c][k] EXCEPT !.args =
        [a \in DOMAIN @ |-> IF @[a] = Value(id) THEN new ELSE @[a]]]]]

Ids(block) == {block[k].id : k \in DOMAIN block}

-----------------------------------------------------------------------------
(***************************************************************************)
(* Arithmetic: Width values, as in any width.                               *)
(***************************************************************************)
CONSTANT Width
ASSUME WidthAssumption == Width \in Nat \ {0}

Computed(op, x, y) ==
  CASE op = "add" -> (x + y) % Width
    [] op = "sub" -> (x - y) % Width
    [] op = "lt" -> IF x < y THEN 1 ELSE 0
=============================================================================
