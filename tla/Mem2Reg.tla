------------------------------ MODULE Mem2Reg ------------------------------
(***************************************************************************)
(* pass::MemoryProm (src/pass/mem2reg.cpp) on one function whose blocks the  *)
(* entry all reaches: phis where the stores of a variable meet, renaming     *)
(* down the dominator tree, and clearPhi.                                   *)
(*                                                                          *)
(* A variable is a promotable alloca.  Of a block's instructions only those *)
(* on variables are kept: a store of some other instruction's value, a load *)
(* whose value other instructions use, and a copy, which is a load that one *)
(* store alone uses.  An instruction is named by its block and position;    *)
(* the dominator tree and frontiers are those DomTree is shown to compute.  *)
(***************************************************************************)
EXTENDS Naturals, Sequences, SequencesExt, FiniteSets, FlowGraph

CONSTANTS N,          \* number of basic blocks
          Var,        \* the promotable allocas
          Functions   \* the functions the pass is given

Block == 1..N
Entry == 1

Store(v)   == [op |-> "store", var |-> v, from |-> v]
Load(v)    == [op |-> "load",  var |-> v, from |-> v]
Copy(v, u) == [op |-> "copy",  var |-> v, from |-> u]   \* v = u
Loads(o)  == o.op \in {"load", "copy"}
Stores(o) == o.op \in {"store", "copy"}

\* Values: the constant 0, what the store at <<b, i>> stores, a phi.
Zero      == [kind |-> "zero", at |-> 0, name |-> 0]
Def(b, i) == [kind |-> "def", at |-> b, name |-> i]
Phi(p)    == [kind |-> "phi", at |-> p[1], name |-> p[2]]
Place     == Block \X Var      \* a phi is known by its block and variable

SuccOf(n) == [b \in Block |-> Range(n[b])]

\* The dominators, of every control flow among Functions.
Dom == [n \in {f.next : f \in Functions} |-> DomSets(SuccOf(n), Entry)]

ASSUME NAssumption == N \in Nat \ {0}
ASSUME FunctionsAssumption ==
  /\ \A f \in Functions :
       /\ f.next \in [Block -> Seq(Block)]
       /\ f.code \in [Block -> Seq({Store(v) : v \in Var} \cup {Load(v) : v \in Var}
                                   \cup {Copy(v, u) : v, u \in Var})]
  /\ \A n \in DOMAIN Dom :
       /\ Preds(SuccOf(n), Entry) = {}
       /\ Reachable(SuccOf(n), Entry) = Block
       /\ \A b \in Block : IsInjective(n[b])

VARIABLES
  fn,           \* next: targets of each block's branch in operand order;
                \* code: its instructions.  Never assigned
  domTree, domFrontier,  \* the results of DomTree
  pc,           \* "insert", "rename", "unused", "selfMerge", "done", "crashed"
  workList,     \* insertPhi: <<b, v>>, b still on the work list of v
  phis,         \* the keys of _globalPhiMap
  incoming,     \* operands of every phi ever made, with their blocks
  loaded,       \* what each load with uses of its own was replaced by
  replaceMap,   \* stack of values per variable, <<>> where the key is absent
  calls,        \* activations of replace, the innermost last
  toContinue    \* clearPhi

given == <<fn, domTree, domFrontier>>
vars == <<given, pc, workList, phis, incoming, loaded, replaceMap, calls, toContinue>>

Succ == SuccOf(fn.next)
Code(b) == fn.code[b]

\* `globals`: variables some block loads before it stores them.
Globals ==
  {v \in Var : \E b \in Block : \E i \in DOMAIN Code(b) :
     /\ Loads(Code(b)[i]) /\ Code(b)[i].from = v
     /\ \A j \in 1..(i - 1) : ~(Stores(Code(b)[j]) /\ Code(b)[j].var = v)}

Init ==
  /\ fn \in Functions
  /\ LET dom == Dom[fn.next] IN
     /\ domTree = [b \in Block |-> {c \in Block : IsImmDom(dom, b, c)}]
     /\ domFrontier = [b \in Block |-> Frontier(Succ, dom, b)]
  /\ pc = "insert"
  /\ workList = {p \in Block \X Globals :
                   \E i \in DOMAIN Code(p[1]) : /\ Stores(Code(p[1])[i])
                                                /\ Code(p[1])[i].var = p[2]}
  /\ phis = {} /\ loaded = <<>>
  /\ incoming = [p \in Place |-> {}]
  /\ replaceMap = [v \in Var |-> <<>>]
  /\ calls = <<>>
  /\ toContinue = FALSE

-----------------------------------------------------------------------------
\* Slips: InsertPhi as it could have gone wrong, for mutation of the checks.
InsertPhiOnce(b, v) ==
  /\ pc = "insert" /\ <<b, v>> \in workList
  /\ phis' = phis \cup {<<d, v>> : d \in domFrontier[b]}
  /\ workList' = workList \ {<<b, v>>}
  /\ UNCHANGED <<given, pc, incoming, loaded, replaceMap, calls, toContinue>>

InsertPhiAgain(b, v) ==
  LET new == {<<d, v>> : d \in domFrontier[b]} IN
  /\ pc = "insert" /\ <<b, v>> \in workList
  /\ phis' = phis \cup new
  /\ workList' = (workList \ {<<b, v>>}) \cup new
  /\ UNCHANGED <<given, pc, incoming, loaded, replaceMap, calls, toContinue>>

\* One block off the work list of a variable.
InsertPhi(b, v) ==
  LET new == {<<d, v>> : d \in domFrontier[b]} \ phis IN
  /\ pc = "insert" /\ <<b, v>> \in workList
  /\ phis' = phis \cup new
  /\ workList' = (workList \ {<<b, v>>}) \cup new
  /\ UNCHANGED <<given, pc, incoming, loaded, replaceMap, calls, toContinue>>

\* Slips: NextBlocks as it could have gone wrong, for mutation of the checks.
NextBlocksTrue(b) == IF fn.next[b] = <<>> THEN {} ELSE {fn.next[b][1]}

NextBlocks(b) == Succ[b]

(***************************************************************************)
(* replace, up to the recursion: the phis of the block and its stores push, *)
(* a load becomes the top or, nothing pushed, the constant 0, and the phis  *)
(* of the successors get their operands.                                    *)
(***************************************************************************)
Top(map, v) == IF map[v] = <<>> THEN Zero ELSE Last(map[v])
Push(map, v, x) == [map EXCEPT ![v] = Append(@, x)]

\* replaceMap before each instruction of block b, and after the last.
MapAt(b) ==
  LET m[i \in 1..(Len(Code(b)) + 1)] ==
        IF i = 1
        THEN [v \in Var |-> replaceMap[v] \o
                              (IF <<b, v>> \in phis THEN <<Phi(<<b, v>>)>> ELSE <<>>)]
        ELSE LET o == Code(b)[i - 1] IN
             CASE o.op = "store" -> Push(m[i - 1], o.var, Def(b, i - 1))
               [] o.op = "copy"  -> Push(m[i - 1], o.var, Top(m[i - 1], o.from))
               [] o.op = "load"  -> m[i - 1]
  IN  m

Enter(b, callers) ==
  LET m     == MapAt(b)
      after == m[Len(Code(b)) + 1]
      sites == {s \in {b} \X DOMAIN Code(b) : Code(b)[s[2]].op = "load"}
  IN
  /\ replaceMap' = after
  /\ loaded' = [s \in DOMAIN loaded \cup sites |->
                  IF s \in sites THEN Top(m[s[2]], Code(b)[s[2]].from) ELSE loaded[s]]
  /\ incoming' = [p \in Place |->
                    IF p \in phis /\ p[1] \in NextBlocks(b)
                    THEN incoming[p] \cup {<<b, Top(after, p[2])>>} ELSE incoming[p]]
  /\ calls' = Append(callers,
                [block |-> b, rest |-> domTree[b],
                 counter |-> [v \in Var |-> Len(after[v]) - Len(replaceMap[v])]])

StartRename ==
  /\ pc = "insert" /\ workList = {}
  /\ pc' = "rename"
  /\ Enter(Entry, <<>>)
  /\ UNCHANGED <<given, workList, phis, toContinue>>

\* The children in the dominator tree, in any order.
Recurse(c) ==
  /\ pc = "rename" /\ c \in Last(calls).rest
  /\ Enter(c, [calls EXCEPT ![Len(calls)].rest = @ \ {c}])
  /\ UNCHANGED <<given, pc, workList, phis, toContinue>>

\* Slips: Leave as it could have gone wrong, for mutation of the checks.
LeaveUnpopped ==
  /\ pc = "rename" /\ Last(calls).rest = {}
  /\ calls' = Front(calls)
  /\ pc' = IF Len(calls) = 1 THEN "unused" ELSE pc
  /\ UNCHANGED <<given, workList, phis, incoming, loaded, replaceMap, toContinue>>

\* The end of replace: what the block pushed is popped.
Leave ==
  /\ pc = "rename" /\ Last(calls).rest = {}
  /\ LET counter == Last(calls).counter IN
     replaceMap' = [v \in Var |-> SubSeq(replaceMap[v], 1, Len(replaceMap[v]) - counter[v])]
  /\ calls' = Front(calls)
  /\ pc' = IF Len(calls) = 1 THEN "unused" ELSE pc
  /\ UNCHANGED <<given, workList, phis, incoming, loaded, toContinue>>

(***************************************************************************)
(* clearPhi.  The operands of an erased phi still count as uses: it is      *)
(* taken off the map, never destroyed.                                      *)
(***************************************************************************)
IsUsed(p) ==
  \/ \E s \in DOMAIN loaded : loaded[s] = Phi(p)
  \/ \E q \in Place : \E e \in incoming[q] : e[2] = Phi(p)

EraseUnused ==
  /\ pc = "unused"
  /\ phis' = {p \in phis : IsUsed(p)}
  /\ toContinue' = (phis' # phis)
  /\ pc' = "selfMerge"
  /\ UNCHANGED <<given, workList, incoming, loaded, replaceMap, calls>>

\* The phi has two operands and one is the phi itself.
SelfMerges(p) ==
  Cardinality(incoming[p]) = 2 /\ \E e \in incoming[p] : e[2] = Phi(p)

(***************************************************************************)
(* A self merge sets the uses of the OTHER operand to that operand, within  *)
(* the loop over them: setValue takes each out of the set that is iterated  *)
(* and puts it back.  That is undefined; at best nothing changes, and the   *)
(* phi is there in the next round.                                          *)
(***************************************************************************)
MergeSelves ==
  /\ pc = "selfMerge"
  /\ toContinue' = (toContinue \/ \E p \in phis : SelfMerges(p))
  /\ pc' = IF toContinue' THEN "unused" ELSE "done"
  /\ UNCHANGED <<given, workList, phis, incoming, loaded, replaceMap, calls>>

CrashInMerge ==
  /\ pc = "selfMerge" /\ \E p \in phis : SelfMerges(p)
  /\ pc' = "crashed"
  /\ UNCHANGED <<given, workList, phis, incoming, loaded, replaceMap, calls, toContinue>>

Pass ==
  \/ \E b \in Block, v \in Var : InsertPhi(b, v)
  \/ StartRename \/ (\E c \in Block : Recurse(c)) \/ Leave
  \/ EraseUnused \/ MergeSelves \/ CrashInMerge
=============================================================================
