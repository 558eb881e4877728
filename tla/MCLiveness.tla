---------------------------- MODULE MCLiveness ----------------------------
EXTENDS Liveness

CONSTANTS r1, r2
MCN == 4
MCReg == {r1, r2}
MCBlock == 1..MCN

(***************************************************************************)
(* A machine block ends in a jump, in a conditional and a plain jump, or,   *)
(* the last one only, in ret; nothing jumps to the entry, which goes on to  *)
(* the block after it, and perhaps to the one after that.                   *)
(***************************************************************************)
Jumps == {T \in SUBSET (2..MCN) : Cardinality(T) \in 1..2}
MCNexts == {g \in [MCBlock -> Jumps \cup {{}}] :
              \A b \in MCBlock : CASE b = 1 -> g[b] \in {{2}, {2, 3}}
                [] b = MCN -> g[b] = {}
                [] OTHER -> g[b] # {}}

\* Any reads and writes of r1; r2 is written first and read last.
MCFuncs ==
  {[nexts |-> g,
    use |-> [b \in MCBlock |-> (IF b \in U THEN {r1} ELSE {})
                               \cup (IF b = MCN THEN {r2} ELSE {})],
    def |-> [b \in MCBlock |-> (IF b \in D THEN {r1} ELSE {})
                               \cup (IF b = 1 THEN {r2} ELSE {})]]
   : g \in MCNexts, U \in SUBSET MCBlock, D \in SUBSET MCBlock}
=============================================================================
