----------------------------- MODULE MCDomTree -----------------------------
EXTENDS DomTree

MCN == 4
MCBlock == 1..MCN

\* A terminator names at most two blocks, and never the entry.
Targets(B) == {T \in SUBSET (B \ {1}) : Cardinality(T) <= 2}

Used(g, B) == \A b \in B \ {1} : \E p \in B : b \in g[p]

\* Every graph of MCN blocks in which each block but the entry has a use.
UsedGraphs == {g \in [MCBlock -> Targets(MCBlock)] : Used(g, MCBlock)}

\* Those in which the entry reaches every block.
ReachableGraphs == {g \in UsedGraphs : Reachable(g, 1) = MCBlock}

DomSpec == Spec
=============================================================================
