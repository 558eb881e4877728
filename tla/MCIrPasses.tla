---------------------------- MODULE MCIrPasses ----------------------------
(***************************************************************************)
(* A loop in a function with an argument; a loop in a loop; an endless loop *)
(* with a way out, whose header BranchOpti has merged with the body.  Every *)
(* three pieces of code of a small menu stand in the (inner) loop's body:   *)
(* sums that are invariant or not, constants, loads and stores of the       *)
(* global and of the array, calls.                                          *)
(***************************************************************************)
EXTENDS PassRun

V(i) == Value(i)
Br == Inst(90, "br", <<>>)
BrIf(i) == Inst(91, "br", <<V(i)>>)

(***************************************************************************)
(* A piece of code: its instructions, named from id on, with x the value    *)
(* before it and i that of the loop's phi, and the value after it.          *)
(***************************************************************************)
Menu == {"invariant", "variant", "swapped", "constant", "loadG", "call", "storeG",
         "loadArg", "loadI", "storeArg", "storeI"}

Piece(m, id, x, i) ==
  LET one(op, args) == [code |-> <<Inst(id, op, args)>>, value |-> V(id)]
      array(op, ix) == [code |-> <<Inst(id + 1, "gep", <<Global(1), ix>>),
                          Inst(id, op, IF op = "load" THEN <<V(id + 1)>> ELSE <<Const(2), V(id + 1)>>)>>,
                        value |-> IF op = "load" THEN V(id) ELSE x]
  IN CASE m = "invariant" -> one("add", <<Argument, Const(1)>>)
       [] m = "variant" -> one("add", <<x, i>>)
       [] m = "swapped" -> one("add", <<i, x>>)
       [] m = "constant" -> [code |-> <<Inst(id + 1, "sub", <<Const(2), Const(1)>>),
                                        Inst(id, "sub", <<V(id + 1), x>>)>>, value |-> V(id)]
       [] m = "loadG" -> one("load", <<Global(0)>>)
       [] m = "call" -> one("call", <<x>>)
       [] m = "storeG" -> [one("store", <<i, Global(0)>>) EXCEPT !.value = x]
       [] m = "loadArg" -> array("load", Argument)
       [] m = "loadI" -> array("load", i)
       [] m = "storeArg" -> array("store", Argument)
       [] m = "storeI" -> array("store", i)

Pieces(s, id, i) ==
  LET p == Piece(s[1], id, Const(1), i)
      q == Piece(s[2], id + 2, p.value, i)
      r == Piece(s[3], id + 4, q.value, i)
  IN p.code \o q.code \o r.code
     \o <<Inst(id + 6, "add", <<p.value, r.value>>),
          Inst(id + 7, "store", <<V(id + 6), Global(1)>>)>>

While(s) ==
  [code |-> <<
     <<Br>>,
     <<Phi(1, <<Const(0), V(2)>>, <<1, 3>>), Inst(3, "lt", <<V(1), Argument>>), BrIf(3)>>,
     Pieces(s, 10, V(1)) \o <<Inst(2, "add", <<V(1), Const(1)>>), Br>>,
     <<Inst(4, "load", <<Global(1)>>), Inst(92, "ret", <<V(4)>>)>> >>,
   succ |-> << <<2>>, <<3, 4>>, <<2>>, <<>> >>]

Nested(s) ==
  [code |-> <<
     <<Br>>,
     <<Phi(1, <<Const(0), V(2)>>, <<1, 6>>), Inst(3, "lt", <<V(1), Argument>>), BrIf(3)>>,
     <<Inst(5, "add", <<V(1), Argument>>), Br>>,
     <<Phi(6, <<Const(0), V(7)>>, <<3, 5>>), Inst(8, "lt", <<V(6), V(5)>>), BrIf(8)>>,
     Pieces(s, 10, V(1)) \o <<Inst(7, "add", <<V(6), Const(1)>>), Br>>,
     <<Inst(2, "add", <<V(1), Const(1)>>), Br>>,
     <<Inst(4, "load", <<Global(1)>>), Inst(92, "ret", <<V(4)>>)>> >>,
   succ |-> << <<2>>, <<3, 7>>, <<4>>, <<5, 6>>, <<4>>, <<2>>, <<>> >>]

Endless(s) ==
  [code |-> <<
     <<Br>>,
     <<Phi(1, <<Const(0), V(2)>>, <<1, 4>>), Inst(3, "lt", <<Argument, V(1)>>), BrIf(3)>>,
     <<Br>>,
     Pieces(s, 10, V(1)) \o <<Inst(2, "add", <<V(1), Const(1)>>), Br>>,
     <<Inst(4, "load", <<Global(1)>>), Inst(92, "ret", <<V(4)>>)>> >>,
   succ |-> << <<2>>, <<3, 4>>, <<5>>, <<2>>, <<>> >>]

(***************************************************************************)
(* CSE does not see that a call, or a store through another pointer,        *)
(* changes what it loaded.                                                  *)
(***************************************************************************)
Stale(s) ==
  s \in {<<"loadG", "call", "loadG">>, <<"loadArg", "storeI", "loadArg">>,
         <<"loadI", "storeArg", "loadI">>}

MCFunctions ==
  {While(s) : s \in {t \in [1..3 -> Menu] : ~Stale(t)}}
  \cup {Nested(s) : s \in {t \in [1..3 -> Menu \ {"storeArg", "loadG"}] : ~Stale(t)}}
  \cup {Endless(s) : s \in {t \in [1..3 -> Menu \ {"storeI", "loadG"}] : ~Stale(t)}}
=============================================================================
