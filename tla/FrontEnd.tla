------------------------------ MODULE FrontEnd ------------------------------
(***************************************************************************)
(* The control flow GenerateIR makes of one SysY function                   *)
(* (src/parser/generate_ir.cpp): the visitors of blocks, statements and      *)
(* conditions, which cut the body into basic blocks, and checkTerminator,    *)
(* which closes the blocks they left open.                                   *)
(*                                                                          *)
(* A program is the tree of its body.  A node is named by the path to it,   *)
(* and the path stands for the code of the node's own: a simple statement,  *)
(* the value of a return, an operand of a condition.  The recursion of the  *)
(* visitors is a stack of the calls that are still to be made, each with    *)
(* the locals it was given.                                                 *)
(***************************************************************************)
EXTENDS Naturals, Sequences, SequencesExt

CONSTANT Programs   \* the function bodies compiled

(***************************************************************************)
(* Kinds of nodes, with their children: "block" any statements, "if"        *)
(* condition and statement, "ifelse" condition and two statements, "while"  *)
(* condition and statement, "or" and "and" two conditions; "leaf" (an       *)
(* operand), "simple", "return", "break" and "continue" none.               *)
(***************************************************************************)
Jumps == {"return", "break", "continue"}

VARIABLES
  prog,       \* the body; never assigned
  pc,         \* "visit", "finish", "check" or "done"
  work,       \* calls to make, the next one first
  layout,     \* the function's blocks in order; blocks are numbered as made
  code,       \* _instructions of each block made, less its terminator
  term,       \* terminator of each block
  curVal, curBlock, trueBlock, falseBlock, condBlock, breakBlock

vars == <<prog, pc, work, layout, code, term,
          curVal, curBlock, trueBlock, falseBlock, condBlock, breakBlock>>
conds == <<trueBlock, falseBlock>>
loops == <<condBlock, breakBlock>>

Entry == 1
Ret   == 2          \* _retBlock, in the function only at the end
First == 3
NoBlock == 0        \* nullptr

Root == <<>>
Node(p) == FoldLeft(LAMBDA n, k : n.kids[k], prog, p)
Kid(p, k) == Append(p, k)

Open == [kind |-> "open", on |-> Root, to |-> <<>>]   \* no terminator yet
Return == [kind |-> "ret", on |-> Root, to |-> <<>>]
Goto(b) == [kind |-> "br", on |-> Root, to |-> <<b>>]
Branch(p, t, f) == [kind |-> "cond", on |-> p, to |-> <<t, f>>]

Visit(p)    == [call |-> "visit", at |-> p, args |-> <<>>]
Call(c, as) == [call |-> c, at |-> Root, args |-> as]

Init ==
  /\ prog \in Programs
  /\ pc = "visit"
  /\ work = <<Visit(Root)>>
  /\ layout = <<Entry, First>>
  /\ code = [b \in 1..First |-> <<>>]
  /\ term = [b \in 1..First |-> IF b = Ret THEN Return ELSE Open]
  /\ curVal = Root /\ curBlock = First
  /\ trueBlock = NoBlock /\ falseBlock = NoBlock
  /\ condBlock = NoBlock /\ breakBlock = NoBlock

HasTerminator(b) == term[b] # Open

\* BlockBase::pushInstruction: after a terminator, to the unreachable list.
PushCode(b, p) ==
  code' = IF HasTerminator(b) THEN code ELSE [code EXCEPT ![b] = Append(@, p)]
PushTerm(b, t) ==
  term' = IF HasTerminator(b) THEN term ELSE [term EXCEPT ![b] = t]

\* `make_unique<BasicBlock>` n times; the blocks are Made(1), Made(2), ...
Made(k) == Len(code) + k
NewBlocks(n) ==
  /\ code' = code \o [k \in 1..n |-> <<>>]
  /\ term' = term \o [k \in 1..n |-> Open]

\* Slips: InsertAfter as it could have gone wrong, for mutation of the checks.
InsertLast(b, bs) == layout' = layout \o bs

\* FuncBase::insertBlockAfter(b), of the blocks bs one after the other.
InsertAfter(b, bs) ==
  LET i == CHOOSE j \in DOMAIN layout : layout[j] = b
  IN  layout' = SubSeq(layout, 1, i) \o bs \o SubSeq(layout, i + 1, Len(layout))

ProcessCond == PushTerm(curBlock, Branch(curVal, trueBlock, falseBlock))

-----------------------------------------------------------------------------
At == Head(work).at
Calls(c) == pc = "visit" /\ work # <<>> /\ Head(work).call = c
Visits(k) == Calls("visit") /\ Node(At).kind = k
Arg(k) == Head(work).args[k]
Then(calls) == work' = calls \o Tail(work)

VisitSimple ==
  /\ Visits("simple")
  /\ PushCode(curBlock, At)
  /\ Then(<<>>)
  /\ UNCHANGED <<prog, pc, layout, term, curVal, curBlock, conds, loops>>

VisitReturn ==
  /\ Visits("return")
  /\ PushCode(curBlock, At)
  /\ PushTerm(curBlock, Goto(Ret))
  /\ Then(<<>>)
  /\ UNCHANGED <<prog, pc, layout, curVal, curBlock, conds, loops>>

VisitBreak ==
  /\ Visits("break")
  /\ PushTerm(curBlock, Goto(breakBlock))
  /\ Then(<<>>)
  /\ UNCHANGED <<prog, pc, layout, code, curVal, curBlock, conds, loops>>

VisitContinue ==
  /\ Visits("continue")
  /\ PushTerm(curBlock, Goto(condBlock))
  /\ Then(<<>>)
  /\ UNCHANGED <<prog, pc, layout, code, curVal, curBlock, conds, loops>>

\* visit(BlockNode) stops after a jump that is itself an item of the block.
Visited(kids) ==
  {k \in DOMAIN kids : \A j \in 1..(k - 1) : kids[j].kind \notin Jumps}
VisitBlock ==
  /\ Visits("block")
  /\ LET items == Visited(Node(At).kids)
     IN  Then([k \in 1..Cardinality(items) |-> Visit(Kid(At, k))])
  /\ UNCHANGED <<prog, pc, layout, code, term, curVal, curBlock, conds, loops>>

VisitIf ==
  LET t == Made(1)  f == Made(2) IN
  /\ Visits("if")
  /\ NewBlocks(2)
  /\ InsertAfter(curBlock, <<t, f>>)
  /\ trueBlock' = t /\ falseBlock' = f
  /\ Then(<<Visit(Kid(At, 1)), Call("body", <<t>>),
            Visit(Kid(At, 2)), Call("close", <<f, f>>)>>)
  /\ UNCHANGED <<prog, pc, curVal, curBlock, loops>>

VisitIfElse ==
  LET t == Made(1)  f == Made(2)  e == Made(3) IN
  /\ Visits("ifelse")
  /\ NewBlocks(3)
  /\ InsertAfter(curBlock, <<t, f, e>>)
  /\ trueBlock' = t /\ falseBlock' = f
  /\ Then(<<Visit(Kid(At, 1)), Call("body", <<t>>),
            Visit(Kid(At, 2)), Call("close", <<e, f>>),
            Visit(Kid(At, 3)), Call("close", <<e, e>>)>>)
  /\ UNCHANGED <<prog, pc, curVal, curBlock, loops>>

\* _condBlock and _breakBlock are saved for the end of the loop.
VisitWhile ==
  LET c == Made(1)  l == Made(2)  e == Made(3) IN
  /\ Visits("while")
  /\ code' = code \o [k \in 1..3 |-> <<>>]
  /\ term' = (IF HasTerminator(curBlock) THEN term
              ELSE [term EXCEPT ![curBlock] = Goto(c)]) \o [k \in 1..3 |-> Open]
  /\ InsertAfter(curBlock, <<c, l, e>>)
  /\ condBlock' = c /\ breakBlock' = e
  /\ curBlock' = c
  /\ trueBlock' = l /\ falseBlock' = e
  /\ Then(<<Visit(Kid(At, 1)), Call("body", <<l>>), Visit(Kid(At, 2)),
            Call("endloop", <<c, e, condBlock, breakBlock>>)>>)
  /\ UNCHANGED <<prog, pc, curVal>>

\* The block of the right operand takes the place of one target while the
\* left operand is compiled.
VisitOr ==
  LET r == Made(1) IN
  /\ Visits("or")
  /\ NewBlocks(1)
  /\ InsertAfter(curBlock, <<r>>)
  /\ falseBlock' = r
  /\ Then(<<Visit(Kid(At, 1)), Call("right", <<r, trueBlock, falseBlock>>),
            Visit(Kid(At, 2)), Call("cond", <<>>)>>)
  /\ UNCHANGED <<prog, pc, curVal, curBlock, trueBlock, loops>>

VisitAnd ==
  LET r == Made(1) IN
  /\ Visits("and")
  /\ NewBlocks(1)
  /\ InsertAfter(curBlock, <<r>>)
  /\ trueBlock' = r
  /\ Then(<<Visit(Kid(At, 1)), Call("right", <<r, trueBlock, falseBlock>>),
            Visit(Kid(At, 2))>>)
  /\ UNCHANGED <<prog, pc, curVal, curBlock, falseBlock, loops>>

\* eqExp->accept; the processCond that follows it is the next call.
VisitLeaf ==
  /\ Visits("leaf")
  /\ PushCode(curBlock, At)
  /\ curVal' = At
  /\ Then(<<Call("cond", <<>>)>>)
  /\ UNCHANGED <<prog, pc, layout, term, curBlock, conds, loops>>

CallCond ==
  /\ Calls("cond")
  /\ ProcessCond
  /\ Then(<<>>)
  /\ UNCHANGED <<prog, pc, layout, code, curVal, curBlock, conds, loops>>

\* Between the operands of `||` and `&&`.
CallRight ==
  /\ Calls("right")
  /\ ProcessCond
  /\ curBlock' = Arg(1) /\ trueBlock' = Arg(2) /\ falseBlock' = Arg(3)
  /\ Then(<<>>)
  /\ UNCHANGED <<prog, pc, layout, code, curVal, loops>>

\* After the condition of an if or a while.
CallBody ==
  /\ Calls("body")
  /\ ProcessCond
  /\ curBlock' = Arg(1)
  /\ Then(<<>>)
  /\ UNCHANGED <<prog, pc, layout, code, curVal, conds, loops>>

\* Slips: CallClose as it could have gone wrong, for mutation of the checks.
CallCloseOpen ==
  /\ Calls("close")
  /\ curBlock' = Arg(2)
  /\ Then(<<>>)
  /\ UNCHANGED <<prog, pc, layout, code, term, curVal, conds, loops>>

\* After a branch of an if: on to Arg(1), unless it ended in a jump.
CallClose ==
  /\ Calls("close")
  /\ PushTerm(curBlock, Goto(Arg(1)))
  /\ curBlock' = Arg(2)
  /\ Then(<<>>)
  /\ UNCHANGED <<prog, pc, layout, code, curVal, conds, loops>>

\* Slips: CallEndLoop as it could have gone wrong, for mutation of the checks.
CallEndLoopUnprotected ==
  /\ Calls("endloop")
  /\ PushTerm(curBlock, Goto(Arg(1)))
  /\ curBlock' = Arg(2)
  /\ Then(<<>>)
  /\ UNCHANGED <<prog, pc, layout, code, curVal, conds, loops>>

CallEndLoop ==
  /\ Calls("endloop")
  /\ PushTerm(curBlock, Goto(Arg(1)))
  /\ curBlock' = Arg(2)
  /\ condBlock' = Arg(3) /\ breakBlock' = Arg(4)
  /\ Then(<<>>)
  /\ UNCHANGED <<prog, pc, layout, code, curVal, conds>>

\* The end of visit(FuncDefNode).
Finish ==
  /\ pc = "visit" /\ work = <<>>
  /\ pc' = "check"
  /\ layout' = Append(layout, Ret)
  /\ PushTerm(Entry, Goto(layout[2]))
  /\ UNCHANGED <<prog, work, code, curVal, curBlock, conds, loops>>

CheckTerminator ==
  /\ pc = "check"
  /\ pc' = "done"
  /\ term' = [b \in DOMAIN term |->
       IF \E i \in 1..(Len(layout) - 1) : layout[i] = b /\ ~HasTerminator(b)
       THEN Goto(layout[(CHOOSE i \in DOMAIN layout : layout[i] = b) + 1])
       ELSE term[b]]
  /\ UNCHANGED <<prog, work, layout, code, curVal, curBlock, conds, loops>>

Done == pc = "done" /\ UNCHANGED vars

Next ==
  \/ VisitSimple \/ VisitReturn \/ VisitBreak \/ VisitContinue \/ VisitBlock
  \/ VisitIf \/ VisitIfElse \/ VisitWhile \/ VisitOr \/ VisitAnd \/ VisitLeaf
  \/ CallCond \/ CallRight \/ CallBody \/ CallClose \/ CallEndLoop
  \/ Finish \/ CheckTerminator \/ Done

Spec == Init /\ [][Next]_vars
=============================================================================
