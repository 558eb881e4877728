----------------------------- MODULE MCMem2Reg -----------------------------
EXTENDS PhiMoves

CONSTANTS x, y, t
MCN == 6
MCVar == {x, y, t}
MCBlock == 1..MCN

(***************************************************************************)
(* Six blocks laid out as GenerateIR and BranchOpti leave them, the entry   *)
(* falling into a loop: a conditional branch goes to the next block or      *)
(* forward past it; a jump goes forward, or back to a block that dominates  *)
(* it, and always to a block that another branch names too, or mergeBlocks  *)
(* would have joined the two.                                               *)
(***************************************************************************)
Targets(b) == {<<d>> : d \in MCBlock \ {1, b}}
              \cup {<<b + 1, f>> : f \in (b + 2)..MCN}
Structured(n) ==
  LET s == [b \in MCBlock |-> Range(n[b])] IN
  /\ Reachable(s, 1) = MCBlock
  /\ \A b \in MCBlock : \A d \in s[b] : d < b => Dominates(s, 1, d, b)
Merged(n) ==
  \A b \in MCBlock : Len(n[b]) = 1 =>
     \E c \in MCBlock \ {b} : n[b][1] \in Range(n[c])
Shapes ==
  {n \in {<< <<2>>, n2, n3, n4, n5, <<>> >> :
            n2 \in Targets(2), n3 \in Targets(3), n4 \in Targets(4),
            n5 \in Targets(5)} :
     Merged(n) /\ Structured(n)}

(***************************************************************************)
(* x is set first and read last; in between two instructions, in any blocks *)
(* before the last.                                                         *)
(***************************************************************************)
Ops == {Store(x), Store(y), Load(x), Copy(x, y), Copy(y, x), Copy(x, x)}
Bodies ==
  {[b \in MCBlock |->
      (IF b = 1 THEN <<Store(x)>> ELSE <<>>)
      \o (IF b = p[1] THEN <<p[2]>> ELSE <<>>) \o (IF b = q[1] THEN <<q[2]>> ELSE <<>>)
      \o (IF b = MCN THEN <<Load(x)>> ELSE <<>>)] :
     p \in (2..(MCN - 1)) \X Ops, q \in (2..(MCN - 1)) \X Ops}

(***************************************************************************)
(* In some of the flows: x and y set first and read last, in one block      *)
(* between three copies (a swap of x and y through t among them), in        *)
(* another a new value.                                                     *)
(***************************************************************************)
SwapShapes == {n \in Shapes : n[2] = <<3, 6>> /\ n[3] = <<4, 5>> /\ n[4] = <<2>>}
Copies == {Copy(v, u) : v, u \in MCVar} \ {Copy(v, v) : v \in MCVar}
Swaps ==
  {[b \in MCBlock |->
      (IF b = 1 THEN <<Store(x), Store(y)>> ELSE <<>>)
      \o (IF b = k THEN <<c1, c2, c3>> ELSE <<>>) \o (IF b = k - 1 THEN <<Store(x)>> ELSE <<>>)
      \o (IF b = MCN THEN <<Load(x), Load(y)>> ELSE <<>>)] :
     k \in {3, 4}, c1 \in Copies, c2 \in Copies, c3 \in Copies}
MCFunctions == {[next |-> n, code |-> c] : n \in Shapes, c \in Bodies}
               \cup {[next |-> n, code |-> c] : n \in SwapShapes, c \in Swaps}
=============================================================================
