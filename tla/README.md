# TLA+ models of the OUCC2025 SysY compiler

OUCC2025 compiles SysY (a subset of C) to RISC-V assembly. It is a sequential
program: what makes it hard is not threads but the order of its rewriting
steps. Passes mutate one shared graph of blocks, instructions and use lists
while iterating over it, fixpoint loops must end, each pass relies on what an
earlier one left behind, and `unordered_map`/`unordered_set` of pointers make
the order of many steps differ from run to run. The modules here are written
from the source under `src/`; every definition that models code is tied to its
lines in `PROJECT.json` ("map").

Paths below are relative to the repository root `src/` (so `src/src/pass/cse.cpp`
is the file `src/pass/cse.cpp` of the repository).

## The system

### Pipeline

`main.cpp` runs, on one module:

1. `Preprocessor`, lexer and parser: text to a tree (`ast.h`).
2. `GenerateIR` (with `SymbolTable`): tree to an SSA-like IR with `alloca`,
   `load`, `store`; then `checkTerminator`.
3. `PassManager::runLight` (no `-O` option) repeats {DeadCodeElim, ConstProp,
   BranchOpti} until nothing changes, then MemoryProm, DeadCodeElim, ConstProp;
   `runOpti` (`-O1`) also repeats after MemoryProm, then IdentifyLoops, LICM*,
   CommonExpElim*; `-O0` runs no pass.
4. `GenerateMIR`: IR to machine instructions on virtual registers.
5. `runLower` (`-O1`): ReduceMove*, LowerBranchOpti.
6. `ModuleRegAlloc`: spilling, colouring, stack frame.
7. `runLast`: RemoveJump; then the assembly is printed.

All parts share the `Module`: functions own blocks, blocks own instructions,
instructions hold `Use`s which are registered in the used value (`ir/use.cpp`,
`ir/value.cpp`). Destroying a value sets the uses of it to null.

### Components

| component | state | operations | what makes it correct | hard because |
|---|---|---|---|---|
| GenerateIR, control flow | `_curBlock`, `_trueBlock`, `_falseBlock`, `_condBlock`, `_breakBlock`, the layout of blocks | one visitor per statement and condition; `checkTerminator` | the blocks run the source's code in the source's order; the layout the passes rely on | members saved and restored across recursion; code after a jump is dropped |
| BranchOpti | blocks, branch operands, use lists, phi operands | `foldConstBranches`, `removeUnreachable`, `mergeBlocks`, two fixpoint loops | nothing that can run is erased; order of execution kept; phis match predecessors; it ends | reachability is guessed from use counts and layout order |
| DomTree | `_predMap`, `_domMap`, `_immDomMap`, `_domFrontier`, `_domTree` | one analysis each, computed on demand | the sets are those of the definitions; the loops end | strip order, iteration order of unordered containers, blocks the entry does not reach |
| MemoryProm | `_globalPhiMap`, `replaceMap`, use lists | `insertPhi`, `replace` over the dominator tree, `clearPhi` | every load sees the last store of every path; a phi has one operand per predecessor | needs DomTree exactly right; iterates use lists it changes |
| IdentifyLoops, LICM, CSE | `loops`, `loopInfo`, `expMap` | loop recognition by layout order, hoisting, per-block expression map | hoisted code dominates its uses; a replaced load would have read the same value | the expression map must forget what a store or call changes |
| DeadCodeElim, ConstProp | use lists, constants | erase unused, fold | the fixpoint ends, values kept | erases while iterating |
| GenerateMIR, MachineFunc | `_instMap`, `blockMap`, `argMap` | one selector per instruction, phi moves, call arguments | the moves do what the phis say, though they run one after the other | swap and lost-copy problems |
| ReduceMove, LowerBranchOpti, RemoveJump | machine blocks | move coalescing, compare-and-branch, fall-through | same values, same flow | rewrites destinations behind other readers |
| Liveness | `_liveIn`, `_liveOut` per block | `calcIn`, `calcOut`, sweeps of `calcInOut` | exactly the live registers | one stopping test on the sizes of the sets |
| Register allocation | lifespans, conflict map, spill set | `calcLifespans`, `calcConflictMap`, `solveSpill`, `calcVRegToMReg` | registers alive together differ; spilling ends; every virtual register is mapped | the map is erased from while it is coloured; spills make new registers |
| Stack frame | region sizes | `makeFrameInfo`, `pushFrame`, `popFrame`, `replaceFakeMIRs` | regions disjoint, push and pop agree | offsets computed in four places |
| SymbolTable, Module | scope stack, table of globals | enter, leave, define, find, `addGlobal` | a name is the innermost declaration | names are not unique across functions |
| Lexer, parser, preprocessor, printers, types | | | | text and data; not modelled |

`PROJECT.json` lists each with its status and `hazards` lists, at its line,
everything found that a test would hardly reach.

## Modules

| module | models | instance checked |
|---|---|---|
| `FlowGraph` | predecessors, reachability and dominators of a control-flow graph, by definition rather than by iteration | |
| `FrontEnd` | `generate_ir.cpp`, control flow only | `MCFrontEnd` |
| `SourceFlow` | the meaning of the source tree and what `FrontEnd` promises of it | `MCFrontEnd` |
| `Environment` | what scopes promise: a name means its innermost declaration | `MCDeclarations` |
| `Symbols` | `SymbolTable`, the module's table of globals, the visitors that use them | `MCDeclarations` |
| `GlobalInit` | array initialisers: `makeInitVal`, `fuseConst`, `getInt` | `MCDeclarations` |
| `Declarations` | the two together, with `writeGlobals` of `main.cpp` | `MCDeclarations` |
| `BranchOpti` | `branch_opti.cpp` with the IR upkeep it causes | `MCBranchOpti` |
| `DomTree` | `dom_tree.cpp` | `MCDomTree` |
| `Mem2Reg` | `mem2reg.cpp` | `MCMem2Reg` |
| `SsaRun` | the promoted function run beside the original | `MCMem2Reg` |
| `PhiMoves` | phis as moves: `funcToMIR` of `generate_mir.cpp`, `MachineFunc::move` | `MCMem2Reg` |
| `IrCode` | functions in SSA form, their uses, the arithmetic of constants | `MCIrPasses` |
| `IrPasses` | `dce.cpp`, `const_fold.cpp`, `identify_loops.cpp`, `licm.cpp`, `cse.cpp` and the loops of `runOpti` | `MCIrPasses`, `MCIrPassesWrong` |
| `PassRun` | the function after these passes run beside the one before them | the same |
| `Arithmetic` | the instructions chosen for int operations (`mir_util.cpp`, `MachineFunc`), `lower_branch_opti.cpp`, and what they compute | `MCArithmetic` |
| `Liveness` | `calcInOut` and `BlockInfo` | `MCLiveness` |
| `MachineCode` | what an instruction reads and writes, `calcUseDef` | the next three |
| `ReduceMove` | `reduce_move.cpp`, the loop of `runLower` | `MCRegAlloc`, `MCCodeRunWrong` |
| `RegAlloc` | `reg_allocate.cpp` up to the frame, the `spill` methods of `machine_insts.cpp` | the same |
| `CodeRun` | the two passes in a row and the code they make run beside the code they were given | the same |
| `CallStack` | what calls promise: cells, arguments and saved registers | `MCStackFrame` |
| `StackFrame` | the frame of `reg_allocate.cpp`, and the calls that use it | `MCStackFrame` |
| `FlowGraphProofs`, `BranchOptiProofs`, `DomTreeProofs`, `LivenessProofs`, `Mem2RegProofs`, `CodeRunProofs`, `StackFrameProofs`, `SymbolsProofs` | theorems and proofs | |

`EXTENDS FlowGraph` is how the modules share one notion of graph. The layout
that `BranchOpti` assumes (its `FunctionsAssumption`) is what the run
`front_end` checks `FrontEnd` to produce (`LayoutFitsBranchOpti`); the graphs
`DomTree` assumes are what `BranchOpti` leaves. `SsaRun` extends `Mem2Reg` and
`PhiMoves` extends `SsaRun`: the three are one system, the pass, the promoted
function it leaves and the machine code made of that. `ReduceMove` and
`RegAlloc` both extend `MachineCode` and share its `code`; `CodeRun` composes
them, and `RegAlloc` takes the steps of `Liveness` by `INSTANCE`, on the
registers read and written in each round. `Declarations` composes `Symbols`
and `GlobalInit`, `PassRun` the passes of `IrPasses` with the function they
make. Two modules are abstract specifications: `Symbols` is shown to implement
`Environment` (`KeepsScopes`), `StackFrame` to implement `CallStack`
(`KeepsCalls`).

### FrontEnd and SourceFlow

A program is the tree of one function's body. A node is named by its path and
the path stands for the node's own code. The visitors' recursion is a stack
`work` of the calls still to make, each with the locals it saved: the saved
targets of `||` and `&&`, the saved `_condBlock` and `_breakBlock` of a loop.
There is one action per visitor and one per continuation after a recursive
call; `Finish` is the end of `visit(FuncDefNode)` and `CheckTerminator` the
pass over open blocks.

`SourceFlow` defines the order the source prescribes with no block in sight:
`Begin`, `After` and `Decide` by recursion on the tree. `FlowMatchesSource`
compares the two step by step, both ways at every condition.

### Environment, Symbols, GlobalInit and Declarations

`table` is `_table` of `SymbolTable`, innermost scope first; a declaration is a
number, `kind` its object and `globals` the module's map of globals by name.
There is one action per visitor that declares (`GlobalDef`, `ConstDef`,
`LocalDef`, `FuncFParam`), opens a scope (`FuncDef`, `Block`) or leaves one
(`Leave`); a lookup is `getItem`, which every state is asked for every name.
`FuncDef` enters the parameters' scope and the function's block a second one,
as in the code. `destroyed` holds the objects that were deleted while the table
still points at them. `statics` models nothing: it counts the objects of the
module that the program has given each name to (`StaticDef`), for the
properties. `Environment` has no table: entering a scope copies the
meanings of all names, leaving it brings the old ones back.

`GlobalInit` is a pure algorithm: `makeInitVal` gives every value of a nested
initialiser its index, `fuseConst` builds the constant with `submap`,
`getInt` descends into it once per printed word. `Meaning` is the reference:
what C says of braces, on the arrays both read alike. `writeGlobals` prints
what the module's map holds at the end.

### BranchOpti

A block is named by its position in the layout when the pass starts; blocks are
only erased, so `calcIndexInFunc` orders them as the names do. A step is one
block of one sweep: `Fold`, `Remove`, `Merge`; `FoldDone`, `RemoveDone`,
`MergeDone` are the ends of sweeps with the tests of the two `do` loops.
`Uses(b)` is the use list of a block and `Null` the operand left where a block
was destroyed. `RemoveIncoming` is `PhiInst::removeIncoming` with its removal
of one-operand phis. ConstProp, which runs between two calls, is
`DiscoverConst`: any condition may turn out constant.

### DomTree

One action per block of a sweep (`AnalyzeDomBlock`), per visit in the stripping
loop (`VisitImmDom`), per step of a runner. The next element of an unordered
container is any element.

### Liveness

`SweepBlock` is one iteration of the inner loop (`calcIn` then `calcOut`, from
the last block to the first), `SweepEnd` the `while (changed)` test.

### Mem2Reg and SsaRun

Of a function the model keeps the branches (`fn.next`) and, per block, the
instructions on promotable allocas: a store of a new value, a load something
uses, and a copy `v = u`, which is a load that one store alone uses.
`workList` holds the pairs of block and variable still on the work lists of
`insertPhi`; `phis` is the key set of `_globalPhiMap`; `replaceMap` has a stack
per variable as in the code. The recursion of `replace` is the stack `calls`,
each activation with the children it has still to visit and the counts it pops
at its end: `StartRename`, `Recurse` and `Leave`. `clearPhi` is the loop of
`EraseUnused` and `MergeSelves`. An erased phi leaves the map but is not
destroyed, so its operands still count as uses; `incoming` therefore keeps the
operands of every phi ever made. A variable nothing was pushed for reads the
constant 0, as in the code. The loop that merges a phi with itself iterates a
use list that its body erases from and inserts into: the model has the two
outcomes that a build can show, nothing changed or a crash.

The dominator tree and frontier are not computed again: `Init` takes the sets
that `DomTree` is shown to compute, by the same operators of `FlowGraph`.

`SsaRun` runs the result. `mem` is what the allocas hold in the original, `env`
what the phis hold in the promoted function; both take the same branches. A
store in a loop makes a new value each time, of which the last is `Latest` and
all others `Earlier`: that is what tells this turn of a loop from an earlier
one. `LoadsSeeLastStore` compares the two at every load.

### PhiMoves

`GenerateMIR::funcToMIR` replaces a phi by a move at the end of each incoming
block. `order` is the order it meets the phis in: layout order of blocks, any
order within a block, for the phis of a block come from a hash table. The moves
of a block run one after another, and on both edges of its branch. `saved` has
the extra registers `move` makes when the source is a phi that the same block
also assigns. `RegistersHoldVariables` compares the registers with the
variables of the original function, through SSA and out of it again.

`MovedAt(b)` is the registers before and after each of the moves in front of
`b`'s branch, a recursive function over `order`.

The functions are laid out as `GenerateIR` and `BranchOpti` leave them, which
`LayoutAssumption` states: a branch to a dominator is an unconditional jump to a
block in front. With a conditional one a move would run on the way out of the
loop too.

### IrCode, IrPasses and PassRun

The passes rewrite one shared instruction list while they iterate over it; an
action is one instruction of one pass, `at` the iterator, and the flags of the
four loops of `runOpti` are `changed`. `DeadCodeElim` and `ConstProp` feed each
other; `IdentifyLoops` goes by the layout (a block a later one branches to is a
header, its branch's false side leaves the loop); `MoveInvariant` moves an
instruction before the terminator of the block in front of the header and looks
at the first `maxDistance` (10) of a block; `CommonExpElim` keeps one map per
block, `Forgotten` is what a store takes out of it. What BranchOpti does
between the passes is not here: the branches of a function stay, and the
conditions of its loops are not constant.

`PassRun` runs both functions block by block on the same argument, with the same
memory to begin with. A value nothing computed is `Undefined`, and an
instruction that reads it makes another; only calls, stores, branches and
returns are compared. The array's index wraps around its cells, so that every
access is one the language defines.

### Arithmetic

A problem is one operation with its operands, of which each may be a constant.
`Emit` compiles it with the helpers of `mir_util.cpp` (a product by shifts, a
quotient by a power of two with its bias, a remainder by masks and so on), the
phi moves of the block may come behind it, `LowerBranchOpti` fuses a comparison
with its jump where it may, and `Execute` runs the instructions with two's
complement of the widths of the machine. Words have 5 bits, registers 10 and
immediates 3, for 32, 64 and 12.

### MachineCode, ReduceMove, RegAlloc and CodeRun

An instruction has the registers it writes and reads now (`dst`, `src`) and
those it had when `GenerateMIR` made it (`def`, `use`), which say what it
means. `getSrc` in the code is the destination of the operand, an instruction;
the model goes by registers, which is the same because every virtual register
but a phi's is written by one instruction. Immediates, addresses and opcodes are
left out, save the slot of a reload and the offset of a local's address.
Branches are `fn.nexts`: no pass here changes them. `FunctionsAssumption` is
what the passes may rely on of `GenerateMIR`: the instructions have the forms
of `machine_insts.h` (`Generated`), every virtual register is written before it
is read on every path, and every one that is no phi by one instruction only,
since the constructor of a machine instruction makes it a register of its own.
TLC evaluates it on the functions of every run.

`ReduceMove` is a cursor over blocks and instructions. An erased move stays in
`code` as an instruction that does nothing, so that the run beside it knows
what it meant.

`RegAlloc` has one action per part of `solveSpill`: `StartRound` and
`CalcInOut` (liveness), `StartColouring` (lifespans and the conflict map),
`Colour` and `Spill` for one register of the pass over the map, `EndRound`,
`Rewrite` for one spilled register, `Assign` for `replaceReg`. The order of the
hash tables is a ranking of the registers, fixed for a run: `conflictMap`,
`allocatedVRegs` and `spilledRegs` are walked in that order. `calcVRegToMReg`
builds the map of the last round again, by the same insertions, and so finds
the same colours; it has no action of its own. Spilled registers are renamed
to fresh ones in one operator, `SpillInst`, for the dozen `spill` methods, with
their exceptions: a conditional jump, `LI`, `LLA` and `LoadFrom` keep the
register, and a spilled `LEA` loses its offset. Float registers are coloured by
the same code from lists of their own and are left out.

`CodeRun` then executes the code. `holds[l]` is the set of the original
registers whose value the machine register or slot `l` holds; an instruction
that writes makes its result the value of its `def` and takes `def` away
everywhere else. `OperandsSurvive` says that every operand is read from a place
that holds it, and the result is in `a0` at the end.

### CallStack and StackFrame

A frame is laid out by `makeFrameInfo` from the numbers of spilled registers,
the size of the locals, the saved registers and the arguments the function
passes. `Call` is the caller's stores of stack arguments (`MachineFunc::call`)
with the callee's `pushFrame`, `Return` is `popFrame`, `Write` a spill or a
store to a local through `replaceFakeMIRs`. Registers are saved below `sp`
before the frame is pushed and restored after it is popped: `Return` leaves
garbage below `sp` so that nothing there is relied on afterwards.
`CallStack` has no memory and no addresses: each activation has cells of its own,
the arguments its caller passed, and gives back the saved registers.

## Runs

| run | question | bounds, and why they suffice |
|---|---|---|
| `front_end` | is every nesting of statements and conditions compiled to the source's flow? | every body of at most 5 nodes, and every loop body of 5 nodes inside a loop with code behind it (16 446 programs): every pair of visitors nests in every order, and jumps occur under ifs in loops, which is where saved members matter |
| `branch_opti` | does the pass keep reachability, order and phis, and end, whatever conditions become constant when? | every structured function of 6 blocks with a loop: a loop with a branch inside and a join after it fit; a dead loop with two back branches, the case use counts cannot decide, occurs |
| `dom_tree` | are all five results those of the definitions, in every iteration order? | every graph of 4 blocks with at most two successors all of which the entry reaches, irreducible ones included |
| `liveness` | is the fixpoint exact? | every control flow of 4 machine blocks and every pattern of reads and writes of one register, a second one live throughout (so that sizes differ from one register's) |
| `mem2reg` | does every load become the value of the last store on every path, in every order of the work lists and children, and do the moves the phis become, run one by one, do what the phis do at once? | 23 flows of 6 blocks with a loop, a branch in it and a join behind; two variables, any two of six instructions anywhere between a first store and a last load: a phi of a phi, a dead phi, a copy between variables around a loop all occur. In flows with a branch in the loop also any three copies among three variables in one block: the swap, the lost copy and the chain are among them, with every order of a block's phis |
| `declarations` | does every name mean its innermost declaration and have the memory its initialiser says? | three names, six declarations and four scopes: shadowing of a global by a parameter, a local and a constant, a constant with a name that is taken, and a second function behind the first. Every initialiser of one to three dimensions whose elements are given, left out or braced, in programs of two declarations |
| `ir_passes` | does the function do the same after dead code, constants, invariant code and common expressions are dealt with, and do the passes end with nothing left? | any three of eleven pieces of code (sums invariant or not, swapped, constant; loads and stores of a global and of two elements; calls) in a loop; of nine of them in a loop in a loop, and in an endless loop with a way out. Three values, an array of two cells, ten blocks of each run, the distance 5 for 10: bodies have up to eleven instructions, so some lie beyond it |
| `arithmetic` | does the chosen code compute the operation, and the fused jump go where it should? | every operation on every pair of five-bit words but those of `GotWrong` (below), every choice of constant operands, a phi's move behind it or not; comparisons with five constants. 3-bit immediates: half of the constants do not fit |
| `reg_alloc` | does every instruction find its operands after coalescing, spilling and colouring, and does spilling end? | a loop of 4 blocks and 3 allocatable registers, one overwritten by calls. At -O0, 96 expressions of four values alive at once, with a call anywhere or none; at -O1, 320 loop bodies with two phis, an argument kept across calls, the calls' arguments and results. Each in two orders of the hash tables, first to last and last to first. Up to five spills in several rounds, and moves coalesced into phis, arguments and results, all occur; spilling a register that replaces a spilled one does not |
| `stack_frame` | do frames keep cells, arguments and saved registers of every activation apart? | main, a recursive function with a stack argument, a spill, a local and two saved registers, and a leaf with padding; three activations deep. `SmallLimit` and `ImmLimit` are 24 and 56: frames on both sides of the first, one equal to the second |

`MaxReg` and `MaxSlots` bound the fresh registers and slots, in the guards of
`Rewrite` and `Spill`; no run that is to pass reaches them (`Allocates` would
fail).

`MaxDecls`, `MaxScopes`, `MaxBlocks`, `MaxDepth` and `StackSize` bound the
program, the run or the stack in their guards.

Deadlock checking is off where the system stops: in `branch_opti` when nothing
is dirty any more, in `declarations` behind `writeGlobals`, in `ir_passes` and
`ir_passes_wrong` when the function returns or a compilation is given up, in
`arithmetic` behind the last instruction.

Of the type invariants only that of `mem2reg` (`MovesTypeOK`) is part of a run;
it is proved too, and so are those of `BranchOpti`, `Liveness`, `StackFrame` and
`Symbols`, and that dominator sets only shrink (`DomOnlyShrinks`) and live sets
only grow (`OnlyGrows`).

Every property of a passing run has a mutant: a "Slips" operator above the
definition it replaces, which is that definition as it could have been
miswritten. The property fails under it.

### Runs that must fail

TLC stops at the first function that goes wrong; with the constant `Cases` set
to one name, each fails by itself.

| run | case | what it shows |
|---|---|---|
| `code_run_wrong` | `lea` | An array's address that is spilled comes back as some other place in the frame: `LEA::spill` makes the new instruction with the spill slot's number where the local's own offset belongs. It takes as many values alive as there are registers and an order in which the address is the one with most conflicts. |
| `code_run_wrong` | `return` | `int r = getint(); g = 5; return r;` at -O1: both moves of `r` go, `r` is in a0 from the call on, and no instruction reads a0 at the end, so the address of `g` is loaded into it. |
| `ir_passes_wrong` | `call` | `x = g; f(1); return g;` returns the `g` from before the call: CSE skips a call before it forgets anything. |
| `ir_passes_wrong` | `alias` | `x = a[0]; a[n % 2] = 2; return a[0];` returns the old element: a store makes CSE forget the load of the pointer with the same text only. |
| `ir_passes_wrong` | `layout` | `if (n < 1) {} else return 0; while (i < n) { a[0] = n + 1; ... }`: BranchOpti merges the empty blocks with the first, the block before the header in the layout is the one that returns, and LICM puts `n + 1` there. |

### Known wrong cases left out of the instances

Found while modelling; the passing runs state where they are left out.

* `while (0) { while (a) { if (b) continue; a = a - 1; } }` leaves a loop that
  nothing reaches; no block of it is ever decided by `analyzeImmDom`, which
  never ends. `MCDomTree` takes graphs the entry reaches, so that its
  `Terminates` says nothing of this. The same loop nested
  in a dead loop leaves a branch to a destroyed block (`LeftoverIsLoop` allows
  for both: it is about the first dead block of the layout only).
* `while (a) x = x;` makes a phi that is its own operand. `clearPhi` means to
  replace it but sets its operand's uses to the operand itself: undefined at
  best, and at best the round repeats without end. `EndsUnlessSelf` says that
  this is the only way not to end.
* `x + c` with `c` the smallest int becomes an `ADDI` whose immediate is that
  constant: `std::abs` of it (`mir_util.cpp:84`) is undefined, and the default
  build, which is not optimised, leaves it negative and so below 2048
  (`stdAbs`). The remainder by it meets the same test. Both are in `GotWrong`;
  without them `ImmediatesFit` fails.
* `x % 1` gives `x`; `x % -1` and `x / -1` are negations of the wrong type; the
  result of `x / 1` is the register of `x`, which a phi's move may overwrite
  (`GotWrong` in `MCArithmetic`).
* A constant of a function becomes a global under its plain name, and
  `addGlobal` keeps the first of two: a second one, or one with the name of a
  global, is destroyed while the symbol table still has it. Programs that do
  this are in the `declarations` run; `NamesHaveMemory` excuses the name that
  is shared, and no other (`statics` counts). Without the excuse it fails.
* `getInt` takes the wrong element of a global with three or more dimensions
  (`Readable` in `Declarations`; without it `InitialisedRight` fails).
* In an initialiser, a brace behind values that fill part of an element starts
  the next element of the first dimension, where C would start the next one of
  a smaller; `MCDeclarations` has braces only where both agree.
* A loop header that ends in a jump, as that of `while (1)` may, meets an
  assertion in `User::getOperand` when loops are identified; `IdentifyLoops`
  has it as a guard.
* `baseStr` of a store removes its name where it is part of another
  (`instruction.cpp:26`): names are data here.

### Fairness

`BranchOpti`, `DomTree`, `Liveness` and `Mem2Reg` are checked for termination
under weak fairness of their own next step: the compiler is one thread that
runs until it is done. `PhiMoves!FairSpec`, which `mem2reg` runs, puts none on
the compiled program, which need not end; where it does, or where the pass
crashed, the state repeats. `CodeRun!FairSpec` puts weak fairness on the two
passes (`Compile`), `PassRun!FairSpec` on the passes of `IrPasses`, and neither
any on the code they make. No fairness is put on `DiscoverConst`: nothing
promises that more constants are found. `Settles` therefore says that the pass
ends and stops reporting changes however long constants keep turning up (there
are finitely many branches).

## Proofs

All for every value of the constants (every number of blocks and every function,
set of registers, frame or names), from the assumptions named in the modules.

* `BranchOptiProofs!TypeCorrect` and `ReachableNeverErased`
  (`Spec => []ReachableKept`). `FunctionsAssumption` says of the initial layout
  that a branch to an earlier block goes to a block dominating its source. That
  dominance is the inductive invariant: it survives folding (edges only
  vanish), removal of blocks that cannot run, and merging. A reachable block
  other than the entry has a reachable predecessor; were its only use a later
  block's, that block would be dominated by it, and no path could enter; so
  the test of `removeUnreachable` never strikes a reachable block.
* `BranchOptiProofs!PhisFitTheGraph`, `ExecutionUnchanged` and
  `DeadCodeLeftIsLoops` build on it. `PhiInv` adds that no branch names one
  block twice: folding or erasing it would take two edges away and one operand.
  `FlowInv` adds that an instruction is held in one place (`HeldOnce`), that the
  instructions of a reachable block follow one another in the original
  (`Chained`), and that the branch at its end is the original's or the one
  operand its constant picks (`BranchOf`): `FlowPreserved` alone speaks of sets
  of targets and does not say which side the next fold would take.
  `LeftoverInv` says of a sweep that has erased nothing yet that all it visited
  is to be kept (`SweptKept`).
* `DomTreeProofs!DominatorsKept`, `SweepsShrink`, `DominatorsExact`. The
  invariant `DomInv` holds that each set contains the block itself and its true
  dominators, that the sets shrink, and that the blocks already swept satisfy
  the equations unless `changed` is set. At the end the sets are a solution of
  the equations, and `SolutionIsSound` shows that any solution is within the
  dominators: the blocks a non-dominator set could hold form a closed set
  around the entry that avoids the supposed dominator.
* `DomTreeProofs!ImmediateDominatorsExact`, `FrontiersExact` and
  `TreeReachesEveryBlock`, on graphs the entry reaches (`AllReached`: a block
  nothing reaches is dominated by every block, and dominance is no tree there;
  `analyzeImmDom` does not end on it). `FlowGraphProofs` shows that the
  dominators of a block are a chain (`DominatorsOrdered`), so that each has a
  depth. `ImmInv` then says what round `n` of the stripping leaves: a block
  visited has its strict dominators of depth `n + 1` and more, one not visited
  those of depth `n` and more, and `toRemove` holds the blocks of depth `n + 1`
  that have children (`Round`). `FrontInv` says of a join, a predecessor already
  taken and a dominator of that predecessor which does not strictly dominate the
  join, that the join is in its frontier or the open walk is still to come by it.
* `LivenessProofs!TypeCorrect`, `LiveOnlyIfRead`, `LiveSetsGrow`,
  `LivenessExact`. The sets only grow, so equal sizes mean equal sets; they stay
  within the least solution; and when a sweep changes nothing they are a
  solution.
* `CodeRunProofs!ConflictsColouredApart` (`Spec => []ColoursApart`), for every
  code, set of registers and order. `solveSpill` looks only at the neighbours of
  the register it colours, so the invariant needs the conflicts to go both ways
  (`BothWays`), within the map: `calcConflictMap` makes them so
  (`TogetherBothWays`) and erasing a spilled register, with its entries, keeps
  them so.
* `CodeRunProofs!ValuesSurvive`
  (`Spec => [](AddressesKept /\ ReturnsAtOnce => OperandsSurvive)`) and
  `OperandsAreFound` (`Spec => [](AddressesKept => OperandsFound)`), for any
  functions that satisfy `FunctionsAssumption`, any registers and any order of
  the hash tables: coalescing, as many rounds of spilling as it takes and
  colouring lose no value. The code is made by one pass after the other and run
  at the end, so the invariant must say of the code being rewritten what running
  it would do. A certificate `m` does: `m[b][k]` is a set of pairs of a place (a
  register or a slot) and an original register whose value it has before
  instruction `k` of block `b`. `Links` and `Annotates` are the rules for one
  instruction and for a block, and `Certifies` joins the blocks: what a block
  starts with its predecessors must end with. `StartInv` makes the first
  certificate from `WrittenFirst`, where every register has its own value, and
  each step hands one on. `ReduceMove` renames the register of one pair over the
  stretch between two instructions; its scan, which stops at any other use, is
  why the stretch has no use of it. A spill turns a register's pairs into pairs
  of its slot, read back and saved around each instruction (`SpillInst`, one
  case for each of its exceptions). `Assign` maps registers to colours: two
  registers alive together have different colours (`ColourInv`), and what is not
  alive is dropped from the certificate, for which `AllocInv` has the live sets
  to be a solution of the equations, from `LivenessProofs`. While the code runs
  (`RunInv`) the machine holds at least what the certificate says at `at`.
  `RunsInv` is all of this, by phase.

  The two hypotheses are the two ways the code goes wrong in `code_run_wrong`.
  `AddressesKept`: no register with the address of a local was spilled (it
  loses its offset). It is a condition on the outcome, as which register is
  spilled is decided by the colouring. `ReturnsAtOnce`: an exit block ends with
  the move to `a0`, and above -O0 what it moves is computed right before it, or
  is a call's result, or a phi, and not in `a0` already. `ReduceMove` computes
  the result into `a0` and erases the move, and then nothing keeps `a0` from
  being given to what comes in between; a returned argument that is already in
  `a0` has its move erased in the same way and is left out with it. Functions
  that compute other things between the result and the return are not covered,
  rightly, though some of them come out right by the luck of the colouring.
  `OperandsAreFound` needs only the first: all else in such a function is right.
  `NothingIsLost` replaces the first by one on the function given, that it has no
  local array (`NoAddresses(fn.code)`): no pass makes an address.
  Every state of `reg_alloc` satisfies both.

* `StackFrameProofs!TypeCorrect`, `FramesMeet`, `StackAligned`,
  `CallerRestored` and `NoImmediateTooLarge`, for every size of the parts, any
  registers, limits and depth. The invariant `InvHolds` says that frames abut
  from the top of the stack down, so that `sp` is the base of the running one,
  and that the slots of every frame still hold what was saved in them: a call
  writes below its caller's `sp` and into the argument area of it, a cell lies
  between the argument area and the slots, and a return makes garbage only of
  what is below the caller's `sp`.
* `StackFrameProofs!FramesImplementCalls` (`Spec => KeepsCalls`) is the
  refinement of `CallStack`, where each activation has cells and arguments of
  its own. The abstract ones are read from the one memory; what has to be shown
  of each step is what it does to every such reading. `Chain` joins the
  invariant: the functions running are called one by the other from `main`, so
  the stack arguments of one lie in the argument area of the one below.
* `Mem2RegProofs!OneOperandPerEdge`, `UsesAreDominated`,
  `LoadsReadTheirVariables` and `TypeCorrect`, for any functions of which the
  entry reaches every block, any stores, loads and copies in them, and any order
  of the work list, of the children in `replace` and of `clearPhi`. The
  invariant `IInv` has a part per phase. While phis are inserted (`Placing`),
  what a block stores or has a phi for either has phis in the block's frontier
  or is still on the work list. After that (`Placed`) two definitions of a
  variable cannot meet where it has no phi: so a table `val`, of what each
  variable is at each point of each block, follows from phis and stores, a block
  without a phi taking what its immediate dominator ends with (`Flows`), and is
  what every predecessor ends with. While `replace` runs (`Renaming`) such a
  table exists for the blocks visited, the results so far are read from it
  (`LoadedOf`, `IncomingOf`), and the stacks are what the activations in
  `calls` have pushed (`Heights`): what an activation pops at its end uncovers
  its parent's last values. The table is no state of the program: the code has
  only stacks, and erases entries from what it computed, while the argument goes
  back to the whole of it. After that (`Renamed`) the phis `clearPhi` leaves
  are among those the table was made with and contain every one still used;
  and of the function as it runs (`Claim`) each variable holds what the table
  has for it here, unless that is a phi that was erased, which nothing loads.
  It claims this of the variables that get phis (`Globals`), and of the others,
  which every block stores before it loads them, only from that store on
  (`Written`).
* `Mem2RegProofs!MovesKeepVariables` and `MovesTypeCorrect`, of the system with
  the moves (`LoweredFunctionIsRight` carries the three above over to it). `Agree`
  says that registers and copies hold what the phis hold, of the phis whose
  block dominates the present one: others may have been overwritten by a move
  for the branch's other side. Such a move is to a phi of the other target,
  and when its block dominates this one the edge goes back, and
  `LayoutAssumption` has it as the only edge (`BackBranch`). Within one edge a
  source is read before it is assigned or is `Protected` (`NotOverwritten`), so
  moving one by one comes to moving at once (`MovesAtOnce`).
* `SymbolsProofs!TypeCorrect`, `MemoryKept` and `ScopesKept`, for any names, any
  number of declarations and any depth of scopes. `MemoryKept`
  (`Spec => []NamesHaveMemory`) is about every program, those in which a
  constant of a function has a name that is taken among them: for such a name
  nothing is claimed, for all others everything. That the names found now have
  memory is not inductive: what a scope hides is found again when the scope is
  left. `MemInv` says it of every entry of the table, and that the outermost
  scope holds no argument (the next function forgets the allocas), that only
  objects of the module are ever destroyed, and that the module's map has no
  name the program has not given to one: so the first of a name is always
  taken in. `ScopesKept`
  (`Spec => KeepsScopes`) is the refinement: `DeclaredIn`, `EnteredIn` and
  `LeftIn` say what putting an entry in front, pushing an empty scope and
  popping one do to every lookup, from two facts about the smallest index that
  has a name (`FoundHere`, `FoundElsewhere`).

Only model-checked:

* termination (`Settles`, `Terminates`, `Stops`, `EndsUnlessSelf`, `Allocates`,
  `PassesEnd`): liveness under fairness, out of the prover's reach;
* `SameEffects`, which runs two functions side by side, of which the one is made
  from the other by five passes with loops of their own: the invariant is a
  simulation between them for every pass, `NothingLeft` with it;
* `ResultRight`, `JumpGoesRight` and `ImmediatesFit`, which rest on the bits of
  a constant and on powers of two: what a recursion over the bits computes is
  induction over data;
* `FlowMatchesSource`, `OpenOnlyAtEnd`, `LayoutFitsBranchOpti` and
  `InitialisedRight`: `FrontEnd` and `GlobalInit` are made of RECURSIVE operators
  on trees, which the provers cannot reason about.

## Plan

Done: control flow, declarations, `BranchOpti`, `DomTree`, `Mem2Reg`,
`PhiMoves`, the scalar passes, instruction selection for ints,
`LowerBranchOpti`, `ReduceMove`, register allocation, the stack frame.

Left, in the order of importance:

1. The moves into argument registers before a call (`MachineFunc::call`): that
   none overwrites the source of a later one before `ReduceMove` runs.
   (After it, `CodeRun` covers them.)
2. The passes in a row: `BranchOpti`, `DomTree`, `Mem2Reg` and the
   `PassManager` loop around them, each fed what the one before leaves.
3. `RemoveJump`, and the layout it assumes.
4. Theorems: `SameEffects` of each pass of `IrPasses` alone.

## Not modelled

The lexer, parser and preprocessor (generated automata and a line filter), the
printers, the choice of float instructions, `RemoveJump`, the vendored
libraries, and three passes no pass manager runs (`mul_reduction.cpp`,
`lower_dce.cpp`, `remove_uinsts.cpp`).

Of the repository's 43.9 thousand lines, some 34 thousand are vendored headers
(`src/3rd`) and the generated lexer and parser (`src/generated`), which a model
of the compiler has no use for; the modules stand for lines of the other ten
thousand.
