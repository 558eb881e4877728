---------------------------- MODULE MCStackFrame ----------------------------
(***************************************************************************)
(* Main calls g; g, with an int that does not fit the argument registers,    *)
(* calls itself and the leaf h.  Frames with and without padding, one of    *)
(* them as large as an immediate.                                           *)
(***************************************************************************)
EXTENDS StackFrame, TLC

CONSTANTS main, g, h, s0, s1, u, v

Values == Permutations(Data)

By(forMain, forG, forH) ==
  [f \in {main, g, h} |-> CASE f = main -> forMain [] f = g -> forG [] f = h -> forH]

MCCalls == By({g}, {g, h}, {})
MCParams == By(0, 3, 1)
MCFloats == By({}, {2}, {})
MCMaxParams == By(3, 3, 0)
MCLocals == By(0, 4, 4)
MCSpills == By(0, 1, 0)
MCUsed == By(<<>>, <<s1, s0>>, <<s0>>)
=============================================================================
