----------------------------- MODULE MCRegAlloc -----------------------------
(***************************************************************************)
(* Functions of four machine blocks: an entry, the header of a loop, its    *)
(* body and the exit; three registers, one of them overwritten by calls.    *)
(***************************************************************************)
EXTENDS CodeRun

CONSTANTS a0, s0, s1
MCiRegs == <<a0, s0, s1>>
MCiCallerRegs == <<a0>>
MCN == 4

\* The orders of allocation a hash table may have: first to last, last to
\* first.
MCOrders == {[v \in VReg |-> v], [v \in VReg |-> MaxReg - v]}

Function(opt, phis, args, next, c) ==
  [nexts |-> <<{2}, {3, 4}, {2}, {}>>, opt |-> opt, phis |-> phis, args |-> args,
   nextId |-> next, returns |-> TRUE, code |-> c]

(***************************************************************************)
(* As -O0 leaves them: registers live within a block, four at a time in the *)
(* body, which combines them in any order, with a call anywhere.            *)
(***************************************************************************)
Combine(p) ==
  <<Op(9, <<p[1], p[2]>>), Op(10, <<p[3], 9>>), Op(11, <<10, p[4]>>)>>
WithCall(s, k) ==
  SubSeq(s, 1, k) \o <<LI(a0), Call(1), MV(12, a0), Store(<<12>>)>>
                  \o SubSeq(s, k + 1, Len(s))
Loaded == <<LI(5), LI(6), LI(7), LI(8)>>
Bodies0 ==
  {Loaded \o s \o <<Store(<<11>>)>> :
     s \in UNION {{Combine(p)} \cup {WithCall(Combine(p), k) : k \in 0..2} :
                    p \in {p \in [1..4 -> 5..8] : IsInjective(p)}}}
Functions0 ==
  {Function("O0", {}, {1}, 16,
     <<<<MV(1, a0), Store(<<1>>)>>,
       <<LI(2), LI(3), Op(4, <<2, 3>>), JumpEQ(4)>>,
       body,
       <<LI(13), LI(14), Op(15, <<13, 14>>), MV(a0, 15)>>>>) : body \in Bodies0}

(***************************************************************************)
(* As -O1 leaves them: 1 and 2 are phis of the header, 3 the argument, and  *)
(* the body ends with the moves to the phis, in either order.               *)
(***************************************************************************)
Middles ==
  {<<Op(5, <<u, v>>)>> : u \in {1, 4}, v \in {2, 3, 4}} \cup
  {<<Call(0), MV(5, a0)>>, <<MV(a0, 4), Call(1), MV(5, a0)>>,
   <<Call(0), MV(10, a0), MV(a0, 10), Call(1), MV(5, a0)>>,
   <<MV(a0, 3), Call(1), MV(5, a0), Store(<<5, 4>>)>>}
Moves == {<<MV(p, m[1]), MV(3 - p, m[2])>> :
            p \in {1, 2}, m \in {<<4, 5>>, <<5, 4>>, <<5, 5>>, <<5, 9>>}}
Header(moves) ==
  (IF 9 \in Reads(moves[1]) \cup Reads(moves[2]) THEN <<MV(9, 1)>> ELSE <<>>)
    \o <<JumpEQ(1)>>
Functions1 ==
  {Function("O1", {1, 2}, {3}, 11,
     <<<<MV(3, a0), LI(6), MV(1, 6), LI(7), MV(2, 7)>>,
       Header(moves),
       <<Op(4, <<x, y>>)>> \o mid \o moves,
       <<Store(<<2, 3>>), Store(<<1, 1>>), Op(8, <<1, 3>>), MV(a0, 8)>>>>) :
     x \in {1, 3}, y \in {2, 3}, mid \in Middles, moves \in Moves}

MCFunctions == Functions0 \cup Functions1
=============================================================================
