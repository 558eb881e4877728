---------------------------- MODULE Environment ----------------------------
(***************************************************************************)
(* What scopes promise, whatever holds them: entering a scope changes the   *)
(* meaning of no name, a declaration that of its name, and leaving a scope  *)
(* brings back every meaning from before it.                                *)
(***************************************************************************)
EXTENDS Naturals, Sequences

CONSTANTS Names, MaxDecls

VARIABLES
  meaning,   \* [Names -> what the name stands for], 0: nothing
  before     \* the meanings the scopes around this one have to get back
vars == <<meaning, before>>

Init == meaning = [n \in Names |-> 0] /\ before = <<>>

Declare(n, d) == meaning' = [meaning EXCEPT ![n] = d] /\ UNCHANGED before

Enter == before' = <<meaning>> \o before /\ UNCHANGED meaning

Leave == before # <<>> /\ meaning' = Head(before) /\ before' = Tail(before)

\* A function is declared outside the scope that it opens.
Open(n, d) ==
  /\ before = <<>>
  /\ meaning' = [meaning EXCEPT ![n] = d]
  /\ before' = <<meaning'>>

Next ==
  \/ \E n \in Names, d \in 1..MaxDecls : Declare(n, d) \/ Open(n, d)
  \/ Enter
  \/ Leave

Spec == Init /\ [][Next]_vars
=============================================================================
