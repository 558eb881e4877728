-------------------------- MODULE MCCodeRunWrong --------------------------
(***************************************************************************)
(* Two functions that come out of ReduceMove and the allocator wrong.       *)
(* "lea" is what -O1 leaves of                                              *)
(*   void f(int p[]) { int b[1]; int c[1]; int x = p[0]; int y = x + x;     *)
(*       int z = x + y; c[0] = z; p[0] = x; p[0] = y; p[0] = z; }           *)
(* an array and as many values as there are registers, all alive where the  *)
(* array's address is: p stays in a0; x, y and z are 1, 2 and 3, the        *)
(* address of c is 4.  "return" is what it leaves of                        *)
(*   int g; int main() { int r = getint(); g = 5; return r; }               *)
(* r is 1, the address of g 2 and the constant 3.                           *)
(***************************************************************************)
EXTENDS CodeRun

CONSTANTS a0, s0, s1, s2

\* Which of them are run.
CONSTANT Cases

MCiRegs == <<a0, s0, s1, s2>>
MCiCallerRegs == <<a0>>
MCOrders == {[v \in VReg |-> v], [v \in VReg |-> MaxReg - v]}

Compiled(insts, next, isInt) ==
  [nexts |-> <<{}>>, opt |-> "O1", phis |-> {}, args |-> {}, nextId |-> next,
   returns |-> isInt, code |-> <<insts>>]

MCFunctions ==
  {Compiled(<<LI(a0), Op(1, <<a0>>), Op(2, <<1, 1>>), Op(3, <<1, 2>>), LEA(4),
              Store(<<3, 4>>), Store(<<1, a0>>), Store(<<2, a0>>), Store(<<3, a0>>)>>,
            5, FALSE) : c \in Cases \cap {"lea"}}
  \cup {Compiled(<<Call(0), MV(1, a0), LI(2), LI(3), Store(<<3, 2>>), MV(a0, 1)>>,
                 4, TRUE) : c \in Cases \cap {"return"}}
=============================================================================
