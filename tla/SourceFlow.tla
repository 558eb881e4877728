----------------------------- MODULE SourceFlow -----------------------------
(***************************************************************************)
(* What SysY says of the order a function's code runs in, by structure on   *)
(* the tree of its body and with no block in sight, and the claim that the  *)
(* basic blocks of FrontEnd run it in that order.                           *)
(***************************************************************************)
EXTENDS FrontEnd, FiniteSets, FlowGraph

Exit == <<0>>                     \* the function returns
Parent(p) == Front(p)
Slot(p) == Last(p)
KindAt(p) == IF p = Root THEN "block" ELSE Node(p).kind

\* The while statement around p.
RECURSIVE Loop(_)
Loop(p) == LET q == Parent(p) IN IF KindAt(q) = "while" THEN q ELSE Loop(q)

(***************************************************************************)
(* Begin(p): the first code of statement or condition p that runs.          *)
(* After(p): what runs when statement p is through.                         *)
(***************************************************************************)
RECURSIVE Begin(_), After(_)
Begin(p) ==
  LET n == Node(p) IN
  CASE n.kind = "block" -> IF n.kids = <<>> THEN After(p) ELSE Begin(Kid(p, 1))
    [] n.kind = "break" -> After(Loop(p))
    [] n.kind = "continue" -> Begin(Loop(p))
    [] n.kids # <<>> -> Begin(Kid(p, 1))
    [] OTHER -> p
After(p) ==
  IF p = Root THEN Exit
  ELSE LET q == Parent(p) IN
       CASE KindAt(q) = "while" -> Begin(q)
         [] KindAt(q) = "block" /\ Slot(p) < Len(Node(q).kids) ->
              Begin(Kid(q, Slot(p) + 1))
         [] OTHER -> After(q)

\* What runs when condition p turns out as v, with short circuit.
RECURSIVE Decide(_, _)
Decide(p, v) ==
  LET q == Parent(p)
      k == KindAt(q)
  IN  CASE k \in {"or", "and"} /\ Slot(p) = 1 /\ v = (k = "and") -> Begin(Kid(q, 2))
        [] k \in {"or", "and"} -> Decide(q, v)
        [] v -> Begin(Kid(q, 2))
        [] k = "ifelse" -> Begin(Kid(q, 3))
        [] OTHER -> After(q)

SourceNext(p) ==
  CASE Node(p).kind = "leaf" -> <<Decide(p, TRUE), Decide(p, FALSE)>>
    [] Node(p).kind = "return" -> <<Exit>>
    [] OTHER -> <<After(p)>>

-----------------------------------------------------------------------------
\* The first code that runs from block b on, through at most n empty blocks.
RECURSIVE Follow(_, _)
Follow(b, n) ==
  CASE code[b] # <<>> -> Head(code[b])
    [] code[b] = <<>> /\ term[b].kind = "br" /\ n > 0 -> Follow(term[b].to[1], n - 1)
    [] code[b] = <<>> /\ term[b].kind = "ret" -> Exit
    [] OTHER -> Root                    \* no code at all
Runs(b) == Follow(b, Len(code))

BlockNext(b, i) ==
  CASE i < Len(code[b]) -> <<code[b][i + 1]>>
    [] term[b].kind = "cond" -> <<Runs(term[b].to[1]), Runs(term[b].to[2])>>
    [] term[b].kind = "br" -> <<Runs(term[b].to[1])>>
    [] OTHER -> <<Exit>>

(***************************************************************************)
(* The compiled function runs the source's code in the source's order, both *)
(* ways at every condition, from the first operand or statement on: no      *)
(* nesting of loops, short circuits and jumps misdirects a branch, and code *)
(* dropped behind a jump is code the source never runs.                     *)
(***************************************************************************)
FlowMatchesSource ==
  pc = "done" =>
    /\ Runs(Entry) = Begin(Root)
    /\ \A b \in DOMAIN code : \A i \in DOMAIN code[b] :
         /\ BlockNext(b, i) = SourceNext(code[b][i])
         /\ term[b].kind = "cond" => term[b].on = Last(code[b])

-----------------------------------------------------------------------------
(***************************************************************************)
(* When a body is compiled, every block is in the function, and all but the *)
(* last have their terminator: checkTerminator's guess that an open block   *)
(* goes on to the next in the layout is made for the end of the body only,  *)
(* which goes on to the return.                                             *)
(***************************************************************************)
OpenOnlyAtEnd ==
  pc = "check" =>
    /\ Range(layout) = DOMAIN code
    /\ \A i \in 1..(Len(layout) - 2) : HasTerminator(layout[i])

(***************************************************************************)
(* What BranchOpti takes for granted of the layout: nothing branches to the *)
(* entry, a conditional branch has two targets, both later in the layout,   *)
(* and a branch back is unconditional and goes to a block that dominates    *)
(* its source.                                                              *)
(***************************************************************************)
LayoutGraph ==
  LET pos == [b \in DOMAIN code |-> CHOOSE i \in DOMAIN layout : layout[i] = b]
  IN  [i \in DOMAIN layout |-> {pos[t] : t \in Range(term[layout[i]].to)}]
LayoutFitsBranchOpti ==
  pc = "done" =>
    LET g == LayoutGraph IN
    /\ Preds(g, 1) = {}
    /\ \A i \in DOMAIN g :
         /\ term[layout[i]].kind = "cond" => Cardinality(g[i]) = 2 /\ \A t \in g[i] : t > i
         /\ \A t \in g[i] : t <= i => Dominates(g, 1, t, i)
=============================================================================
