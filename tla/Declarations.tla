--------------------------- MODULE Declarations ---------------------------
(***************************************************************************)
(* Declarations with their memory: the scopes of Symbols, what the          *)
(* initialisers of GlobalInit put into globals and locals, and writeGlobals *)
(* of main.cpp, which prints the globals when the whole program has been    *)
(* visited.  All arrays of one program have one initialiser.                *)
(***************************************************************************)
EXTENDS Symbols, GlobalInit

\* The programs: [dims, items, decls], with decls the bound of declarations.
CONSTANT Programs

VARIABLES
  program,
  cells,     \* what the stores of the last local array left in it
  data       \* the words printed under each name
dvars == <<vars, program, cells, data>>

DeclInit ==
  /\ Init /\ program \in Programs
  /\ cells = <<>> /\ data = [n \in {} |-> <<>>]

\* getInt is right for up to two dimensions.
Readable == Len(program.dims) <= 2

Within == New <= program.decls

Local(n) ==
  /\ Within /\ LocalDef(n)
  /\ cells' = Stored(program.dims, program.items)
  /\ UNCHANGED <<program, data>>

OtherDef(n) ==
  /\ Within
  /\ (Readable /\ (GlobalDef(n) \/ ConstDef(n))) \/ FuncDef(n) \/ FuncFParam(n)
  /\ UNCHANGED <<program, cells, data>>

writeGlobals ==
  /\ place # "params" /\ isGlobal
  /\ data' = [n \in {m \in Names : globals[m] # 0} |-> Words(program.dims, program.items)]
  /\ place' = "written"
  /\ UNCHANGED <<table, kind, destroyed, globals, allocaOf, statics, program, cells>>

DeclNext ==
  \/ \E n \in Names : Local(n) \/ OtherDef(n)
  \/ (Block \/ Leave) /\ UNCHANGED <<program, cells, data>>
  \/ writeGlobals

DeclSpec == DeclInit /\ [][DeclNext]_dvars

-----------------------------------------------------------------------------
(***************************************************************************)
(* Every name the program gives to a variable outside of functions, or to a *)
(* constant inside of one, is in the assembly once all is visited, with the *)
(* words its initialiser means; a local array holds the same when its       *)
(* stores are done.                                                         *)
(***************************************************************************)
InitialisedRight ==
  LET meant == Meaning(program.dims, program.items)
  IN /\ place = "written" =>
          \A n \in Names : statics[n] # 0 => n \in DOMAIN data /\ data[n] = meant
     /\ cells # <<>> => cells = meant
=============================================================================
