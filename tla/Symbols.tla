------------------------------ MODULE Symbols ------------------------------
(***************************************************************************)
(* SymbolTable, the module's table of globals, and how the visitors of      *)
(* declarations, functions, parameters, blocks and variables in             *)
(* parser/generate_ir.cpp use the two.  The program is any sequence of      *)
(* visits that a tree can cause.                                            *)
(***************************************************************************)
EXTENDS Naturals, Sequences

CONSTANTS
  Names, MaxDecls, MaxScopes,
  ConstNames  \* names that constants inside of functions may have

ASSUME BoundsAssumption == MaxDecls \in Nat /\ MaxScopes \in Nat /\ 2 <= MaxScopes

VARIABLES
  table,     \* the scopes, innermost first: [Names -> declaration or 0]
  kind,      \* <<kind of each declaration so far>>
  destroyed, \* declarations whose object was destroyed
  globals,   \* _globals of the module: [Names -> declaration or 0]
  allocaOf,  \* _argToAllocaMap: the parameters that have an alloca
  place,     \* where the visitors are: "decls", "params" or "body"
  statics    \* how often the program has given each name to an object with a
             \* place in the module; for the properties, no action reads it
vars == <<table, kind, destroyed, globals, allocaOf, place, statics>>

Empty == [n \in Names |-> 0]
New == Len(kind) + 1
isGlobal == Len(table) = 1

\* In the block of a function: outside it only the parameters' scope is left.
InBlock == place = "body" /\ Len(table) > 2

\* The scopes from the i-th outwards that have the name, and the first of them.
Having(i, n) == {j \in i..Len(table) : table[j][n] # 0}
First(S) == CHOOSE j \in S : \A k \in S : j <= k

\* What a name stands for when only the scopes from the i-th outwards count.
Lookup(i, n) == IF Having(i, n) = {} THEN 0 ELSE table[First(Having(i, n))][n]

\* Slips: getItem as it could have gone wrong, for mutation of the checks.
getItemOuter(n) ==
  IF Having(1, n) = {} THEN 0
  ELSE table[CHOOSE j \in Having(1, n) : \A k \in Having(1, n) : k <= j][n]

getItem(n) == Lookup(1, n)

InFront(n) == [table EXCEPT ![1][n] = New]

Init ==
  /\ table = <<Empty>> /\ kind = <<>> /\ destroyed = {}
  /\ globals = Empty /\ allocaOf = {} /\ place = "decls"
  /\ statics = Empty

-----------------------------------------------------------------------------
\* A program declares a name once in a scope.
Declared(n, k) ==
  /\ New <= MaxDecls /\ table[1][n] = 0
  /\ kind' = Append(kind, k)

(***************************************************************************)
(* emplace makes its node before it looks for the name: when the name is    *)
(* there, the new object is destroyed with the node.                        *)
(***************************************************************************)
addGlobal(n) ==
  IF globals[n] = 0
  THEN globals' = [globals EXCEPT ![n] = New] /\ UNCHANGED destroyed
  ELSE destroyed' = destroyed \cup {New} /\ UNCHANGED globals

\* A variable or constant that gets its place in the module.
StaticDef(n) ==
  /\ Declared(n, "global")
  /\ table' = InFront(n)
  /\ addGlobal(n)
  /\ statics' = [statics EXCEPT ![n] = @ + 1]
  /\ UNCHANGED <<allocaOf, place>>

\* A variable or constant outside of functions; all come before the functions.
GlobalDef(n) ==
  /\ place = "decls" /\ isGlobal
  /\ StaticDef(n)

\* A constant in a function is made a global of its own name.
ConstDef(n) ==
  /\ InBlock /\ n \in ConstNames
  /\ StaticDef(n)

LocalDef(n) ==
  /\ InBlock
  /\ Declared(n, "local")
  /\ table' = InFront(n)
  /\ UNCHANGED <<destroyed, globals, allocaOf, place, statics>>

\* The scopes a function opens: its parameters', then that of its body.
FuncDef(n) ==
  /\ place # "params" /\ isGlobal
  /\ Declared(n, "function")
  /\ table' = <<Empty, [table[Len(table)] EXCEPT ![n] = New]>>
  /\ allocaOf' = {} /\ place' = "params"
  /\ UNCHANGED <<destroyed, globals, statics>>

\* Slips: Promoted as it could have gone wrong, for mutation of the checks.
PromotedOnce(d) == IF allocaOf = {} THEN {d} ELSE allocaOf

Promoted(d) == allocaOf \cup {d}

\* The alloca has the argument's printed name, which no program can name.
FuncFParam(n) ==
  /\ place = "params"
  /\ Declared(n, "arg")
  /\ table' = InFront(n)
  /\ allocaOf' = Promoted(New)
  /\ UNCHANGED <<destroyed, globals, place, statics>>

Block ==
  /\ place = "params" \/ InBlock
  /\ Len(table) < MaxScopes
  /\ table' = <<Empty>> \o table
  /\ place' = "body"
  /\ UNCHANGED <<kind, destroyed, globals, allocaOf, statics>>

out == Tail(table)

\* The end of a block, or of a function whose body has ended.
Leave ==
  /\ place = "body" /\ ~isGlobal
  /\ table' = out
  /\ UNCHANGED <<kind, destroyed, globals, allocaOf, place, statics>>

Next ==
  \/ \E n \in Names :
       GlobalDef(n) \/ ConstDef(n) \/ LocalDef(n) \/ FuncDef(n) \/ FuncFParam(n)
  \/ Block
  \/ Leave

Spec == Init /\ [][Next]_vars

-----------------------------------------------------------------------------
TypeOK ==
  /\ Len(kind) <= MaxDecls /\ Len(table) \in 1..MaxScopes
  /\ \A i \in 1..Len(table) : table[i] \in [Names -> 0..Len(kind)]
  /\ \A n \in Names : globals[n] # 0 => kind[globals[n]] = "global"
  /\ destroyed \cup allocaOf \subseteq 1..Len(kind)
  /\ statics \in [Names -> 0..Len(kind)]

(***************************************************************************)
(* The object a name in scope stands for exists and has memory of its own:  *)
(* a global is in the module, under the name the code prints for it, and an *)
(* argument has an alloca.  Excused is a name that the program has given to *)
(* two objects of the module, a constant of a function among them: of those *)
(* the code keeps one (addGlobal).  Neither they nor anything else may cost *)
(* another name its memory.                                                 *)
(***************************************************************************)
NamesHaveMemory ==
  \A n \in Names :
    LET d == getItem(n)
    IN (d # 0 /\ (kind[d] = "global" => statics[n] = 1)) =>
         /\ d \notin destroyed
         /\ kind[d] = "global" => globals[n] = d
         /\ kind[d] = "arg" => d \in allocaOf

-----------------------------------------------------------------------------
Scopes ==
  INSTANCE Environment WITH
    meaning <- [n \in Names |-> getItem(n)],
    before <- [i \in 1..Len(table) - 1 |-> [n \in Names |-> Lookup(i + 1, n)]]

\* The table does what scopes promise.
KeepsScopes == Scopes!Spec
=============================================================================
