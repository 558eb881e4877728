---------------------------- MODULE MCBranchOpti ----------------------------
EXTENDS BranchOpti

MCN == 6
MCBlock == 1..MCN
NO == MCN + 1

\* A branch goes forward, conditionally or not, or back unconditionally; the
\* order of a conditional branch's targets is immaterial to the pass, which
\* meets both constants.
Terms(b) ==
  {<<NO, NO>>} \cup {<<t, NO>> : t \in MCBlock \ {1}}
         \cup {<<t, f>> : t \in (b + 1)..MCN, f \in (b + 1)..MCN}
OrderedTerms(b) == {t \in Terms(b) : t[1] # NO => t[1] < t[2]}

\* The first block jumps to the second; the last returns.
Shapes == {<< <<2, NO>>, t2, t3, t4, t5, <<NO, NO>> >> :
             t2 \in OrderedTerms(2), t3 \in OrderedTerms(3),
             t4 \in OrderedTerms(4), t5 \in OrderedTerms(5)}

Structured(g) ==
  LET s == [b \in MCBlock |-> {g[b][1], g[b][2]} \ {NO}] IN
  \A b \in MCBlock : \A t \in s[b] : t <= b => Dominates(s, 1, t, b)

HasLoop(g) == \E b \in MCBlock : \E k \in 1..2 : g[b][k] <= b

Joins(g) ==
  {b \in MCBlock : Cardinality({p \in MCBlock : \E k \in 1..2 : g[p][k] = b}) >= 2}

(***************************************************************************)
(* The functions with a loop, after Mem2Reg (a phi in every join); without  *)
(* the phis the pass does the same less their upkeep.                       *)
(***************************************************************************)
MCFunctions ==
  {[term |-> g, hasPhi |-> Joins(g)] : g \in {h \in Shapes : HasLoop(h) /\ Structured(h)}}
=============================================================================
