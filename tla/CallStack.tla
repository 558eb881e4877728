----------------------------- MODULE CallStack -----------------------------
(***************************************************************************)
(* What the calls of a compiled program promise, whatever the stack looks   *)
(* like: a function finds the arguments passed to it and the cells of its   *)
(* frame as it left them, and its caller finds in the saved registers what  *)
(* was there before the call.                                               *)
(***************************************************************************)
EXTENDS Integers

CONSTANTS
  Funcs, Main,
  Calls,      \* f may call the functions Calls[f]
  Cells(_),   \* the cells of the frame of a function
  StackArgs(_),  \* its arguments that do not fit the registers
  Uses(_),    \* the saved registers it writes
  Saved,      \* the saved registers
  Data, Garbage, MaxDepth

Depths == 1..MaxDepth

VARIABLES
  depth,   \* functions running, one in the other
  fun,     \* [Depths -> Funcs]: what runs at each depth
  cells,   \* at each depth, the cells of the frame
  args,    \* at each depth, the arguments on the stack
  regs,    \* [Saved -> Data]
  kept     \* at each depth, what the caller had in the saved registers
vars == <<depth, fun, cells, args, regs, kept>>

Init ==
  /\ depth = 0
  /\ fun = [d \in Depths |-> Main]
  /\ cells = [d \in Depths |-> <<>>]
  /\ args = [d \in Depths |-> <<>>]
  /\ regs \in [Saved -> Data]
  /\ kept = [d \in Depths |-> regs]

\* The cells of a fresh frame hold anything.
Call(f) ==
  /\ depth < MaxDepth
  /\ IF depth = 0 THEN f = Main ELSE f \in Calls[fun[depth]]
  /\ depth' = depth + 1
  /\ fun' = [fun EXCEPT ![depth + 1] = f]
  /\ \E c \in [Cells(f) -> Data \cup {Garbage}], a \in [StackArgs(f) -> Data] :
       /\ cells' = [cells EXCEPT ![depth + 1] = c]
       /\ args' = [args EXCEPT ![depth + 1] = a]
  /\ kept' = [kept EXCEPT ![depth + 1] = regs]
  /\ UNCHANGED regs

Write(c, v) ==
  /\ depth > 0 /\ c \in Cells(fun[depth])
  /\ cells' = [cells EXCEPT ![depth][c] = v]
  /\ UNCHANGED <<depth, fun, args, regs, kept>>

SetReg(r, v) ==
  /\ depth > 0 /\ r \in Uses(fun[depth])
  /\ regs' = [regs EXCEPT ![r] = v]
  /\ UNCHANGED <<depth, fun, cells, args, kept>>

Return ==
  /\ depth > 0
  /\ depth' = depth - 1
  /\ regs' = kept[depth]
  /\ cells' = [cells EXCEPT ![depth] = <<>>]
  /\ args' = [args EXCEPT ![depth] = <<>>]
  /\ fun' = [fun EXCEPT ![depth] = Main]
  /\ kept' = [kept EXCEPT ![depth] = regs']

Next ==
  \/ \E f \in Funcs : Call(f)
  \/ \E v \in Data :
       \/ \E c \in UNION {Cells(f) : f \in Funcs} : Write(c, v)
       \/ \E r \in Saved : SetReg(r, v)
  \/ Return

Spec == Init /\ [][Next]_vars
=============================================================================
