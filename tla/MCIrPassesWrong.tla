-------------------------- MODULE MCIrPassesWrong --------------------------
(***************************************************************************)
(* Three functions the passes get wrong:                                    *)
(* "call":   x = g; f(1); return g;                                         *)
(* "alias":  x = a[0]; a[n % 2] = 2; return a[0];                           *)
(* "layout": if (n < 1) {} else return 0; while (i < n) { a[0] = n + 1;     *)
(*           i = i + 1; } whose empty blocks BranchOpti has merged with the *)
(*           first: the block before the loop in the layout returns.        *)
(***************************************************************************)
EXTENDS PassRun

\* Which of them are run.
CONSTANT Cases

V(i) == Value(i)
Br == Inst(90, "br", <<>>)
Straight(insts) == [code |-> <<insts>>, succ |-> << <<>> >>]

Known ==
  {f \in {
    [name |-> "call", func |-> Straight(<<
       Inst(1, "load", <<Global(0)>>), Inst(2, "store", <<V(1), Global(1)>>),
       Inst(3, "call", <<Const(1)>>),
       Inst(4, "load", <<Global(0)>>), Inst(92, "ret", <<V(4)>>)>>)],
    [name |-> "alias", func |-> Straight(<<
       Inst(1, "load", <<Global(1)>>), Inst(2, "store", <<V(1), Global(0)>>),
       Inst(3, "gep", <<Global(1), Argument>>), Inst(4, "store", <<Const(2), V(3)>>),
       Inst(5, "load", <<Global(1)>>), Inst(92, "ret", <<V(5)>>)>>)],
    [name |-> "layout", func |->
      [code |-> <<
         <<Inst(1, "lt", <<Argument, Const(1)>>), Inst(91, "br", <<V(1)>>)>>,
         <<Br>>,
         <<Inst(92, "ret", <<Const(0)>>)>>,
         <<Phi(2, <<Const(0), V(3)>>, <<2, 5>>), Inst(4, "lt", <<V(2), Const(1)>>),
           Inst(91, "br", <<V(4)>>)>>,
         <<Inst(5, "add", <<Argument, Const(1)>>), Inst(6, "store", <<V(5), Global(1)>>),
           Inst(3, "add", <<V(2), Const(1)>>), Br>>,
         <<Inst(92, "ret", <<Const(0)>>)>> >>,
       succ |-> << <<2, 3>>, <<4>>, <<>>, <<5, 6>>, <<4>>, <<>> >>]]} : f.name \in Cases}

MCFunctions == {f.func : f \in Known}
=============================================================================
