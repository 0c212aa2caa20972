# Verification of jitcc

jitcc compiles C at run time. This directory holds TLA+ models of the compiler
from the tokens of a file to bytes in memory, the TLC runs that check them on
small instances, and theorems about them with proofs that TLAPS checks.
Paths such as `jmir_pass.c` are under `src/src/`. `PROJECT.json` maps definitions
to the lines they model (but for small helpers whose lines another definition of
the same module names) and lists runs, mutants, hazards, findings and theorems;
this file explains them.

Contents: 1 the system, 2 its components, 3 the modules, 4 the runs, 5 the
proofs, 6 findings and known defects, 7 what is not modelled, 8 the plan.

## 1. The system

    main.c -> jcc.c -> jir_gen.c -> jir.c, jir_pass.c -> jmir_gen.c -> jmir.c, jmir_pass.c -> jit_gen.c -> jit.c
    driver    AST      AST to IR    IR and its passes    IR to MIR     MIR and its passes     MIR to x64   assembler

A file is preprocessed and parsed into a typed AST; the AST becomes an SSA-based
intermediate representation (IR) in which variables are first `alloca`s;
`jx_ir_moduleEnd` (jir.c:479) runs the IR passes; the IR becomes a machine IR
(MIR) over virtual registers; `jx_mir_funcEnd` (jmir.c:517) runs the MIR passes,
among them the register allocator; the assembler encodes everything into two
sections and `jx64_finalize` joins, relocates and makes them executable.

Everything runs on one thread, nothing is persisted and nothing is sent, so the
hard behaviours are not interleavings or crashes. They are long sequences of
legal steps over linked, redundantly represented data: worklists and counters
that must agree after every step, recursion that changes what its caller iterates
over, facts recorded before a change and used after it, orders that happen to
work, fixpoints and bounds. `JX_CHECK` is an assertion of debug builds; release
builds go on, and so do the models (they record the failure).

What a compiler promises is that meaning is kept, and so the strongest
properties here compare two executions: a file with its expansion by the
standard, a source with its IR, an IR with the code made of it after every pass,
machine IR with the decoded bytes. Each reference is written from the standard or
the processor's manual in a module of its own, without regard to the code.

## 2. Components

For each: the state it keeps, its operations, what it calls, what is hard, what
makes it correct. Status: M modelled, P partly, - not.

| Component | State and operations | Hard, and correct when | Status |
|---|---|---|---|
| Driver, main.c | arguments, files; runs the pipeline, then the entry function | nothing stateful | - |
| Preprocessor, jcc.c 8342-10163 | token list, macros with hide sets, stack of conditionals, guards | recursion in expansion, arguments preprocessed in place; an expansion ends and equals the standard's; see Preprocess | P |
| Parser and types, jcc.c | scopes, tags, typedefs, current function, gotos and labels, targets of break, continue, case | one recursive descent with state saved and restored; conversions, bit-fields; see Parser, Declarations, CTypes | P |
| Initializers and constants, jcc.c 2641-3760, 4510-4816 | tree of initializers, cursor into it | designators move the cursor, ranges parse tokens again; each object gets the last initializer for it; see Initializers | P |
| AST to IR, jir_gen.c | current function and block, break and continue targets, map of variables | blocks after a terminator, phis of conditional expressions name the block where the value ends; see IRGen | P |
| IR core, jir.c | values with use lists, blocks with predecessor and successor arrays, interned types and constants, dominators | mutually redundant structures; every constructor's check holds of what is built | P |
| SSA construction, jir_pass.c 386-995 | current definitions, sealed and filled marks, incomplete phis, replacements | see SimpleSSA | M |
| Other IR passes, jir_pass.c | per pass: value numbers, folded constants, call graph | each preserves what the function computes; folding agrees with the width of the type; predecessors and phis stay in step when blocks are removed, merged, split; the rounds come to rest; see IRPasses, Rewrites | P |
| IR to MIR, jmir_gen.c | map from values to registers and from blocks to blocks, gathered phis | leaving SSA form, splitting blocks, conversions, calls; see Select, PhiLowering | P |
| MIR core, jmir.c | instruction lists, use and definition sets, liveness bit sets, frame | liveness covers every path; spill code reloads what was stored; nothing in the frame overlaps; see MIR, Frame | P |
| Register allocator, jmir_pass.c 352-1475 | interference graph, degrees, four node lists, five move lists, select stack | every count and list kept by hand agrees with the graph; neighbours get different colours; see ColoringStack, RegAlloc | P |
| Other MIR passes, jmir_pass.c | value map, windows of instructions | what a pass remembers must be forgotten when overwritten; see MirPasses, InstrCombine | P |
| MIR to x64, jit_gen.c | labels of the current function, symbols, table of instructions | see CodeGen, Assemble | M |
| Assembler, jit.c | sections, labels with references, symbols with relocations | see Assembler; the encoding of an instruction means what was asked for, see Encoding | M |
| jlib, tests (vendored) | arrays, maps, allocators | not this program's logic | - |

How they interact: by calls only. A pass receives a function and changes it in
place; components share the use lists and block arrays of jir.c and jmir.c. The
only callback is the one that supplies addresses of external symbols.

The compositions: Frontend is jcc.c and jir_gen.c together (CTypes, Initializers,
Declarations, Parser, IRGen); Lower is jir_pass.c, jmir_gen.c, jmir.c and jmir_pass.c together
(IRPasses, Select, MIR, Frame, MirPasses, InstrCombine); CodeGen is jit_gen.c and jit.c together
(Assemble, Encoding, Assembler). RegAlloc implements ColoringStack.

## 3. Modules

Mutants (definitions named `X_Something`, standing right before `X`) are what a
plausible mistake in the code would make of `X`; replacing `X` by it violates
the property PROJECT.json pairs it with. MC modules define the constants, that is
the programs; what each program is in C stands above it.

### Preprocess, StandardC, MCPreprocess: jcc_preprocess

The state is the state of the code: the list of tokens ahead (`tok`, with hide sets
and the flags for start of line and space before), the output, macros, the stack
of conditionals, files read once and guards. Every iteration of the code's loop is an action: `Expand` is
`jcc_ppExpandMacro` with everything it calls (reading arguments, preprocessing them,
substitution, stringizing, pasting, intersecting hide sets), `Emit` the way of
other tokens, and one action per directive. Tokens are words, so the tokenizer
is left out but for what pasting two tokens makes.

StandardC is the reference: expansion as in C11 6.10, by recursion on the text with
the set of macros that are being replaced, over programs given as trees of groups
rather than tokens. `OutputAsStandard` compares the two when the loop is done;
`ConditionalsBalanced` relates, at every step, the tokens ahead to the stack;
`Termination` is for expansions that contain macros again.

### CTypes, Initializers, Declarations, Parser: jcc.c

A recursive descent is a stack of calls: `calls` lists the nonterminals that are still to be
parsed, `nodes` the nodes made so far, `tu` the translation unit (scopes, tags,
labels, gotos, cases, the cursor into initializers). One step takes the first
call and replaces it by what the function of that name does up to and after its
own calls; what the code saves in a local and restores (break and continue
targets, the switch, the scope) is a call that restores it.

- CTypes: types, sizes, layout of structures with bit-fields, `jcc_astAddType` with
  its conversions, and the constant evaluator. Types are values here and shared
  objects in the code, so completing a structure does not reach pointers made
  before: no file has a structure that points to itself.
- Initializers: the tree of initializers with designators, ranges, missing braces and
  arrays that get their length from their initializer, and its translation to
  assignments.
- Declarations: specifiers, declarators, typedefs, tags, enumerations, functions.
- Parser: statements, expressions, labels and gotos.

### IRGen: jir_gen.c

The same form: `todo` lists what is still to be generated, `vals` the values made,
`fn` the function under construction. One step translates one node up to its
operands. Constructors apply the promotions and checks of jir.c; `FuncCheck` is
`jx_ir_funcCheck`. Types of the IR, the classification of arguments and results and
the use of hidden results are as in the code.

### Source, Frontend, MCFrontend: what a file means

Source is the reference: a function as a tree whose variables know their types,
written out as tokens by `Written` and run by `Meaning` as C11 describes. Frontend
parses the tokens, translates the last function, and `SameMeaning` compares what
Machine's interpreter of IR does with what the source means, on result, memory
and calls, with a byte of two bits so that overflow, sign extension, truncation
and padding all happen with small numbers (bit-field offsets stay at 3 or below,
since the amount of the shift is an `i8`). Files that are not C must be refused.

### SimpleSSA, MCSimpleSSA: construction of SSA form

`jir_funcPass_simpleSSARun` complete. `ssa` holds the function being changed
(instruction sequences, phis with operands kept in the order of the use lists,
since replacing a value appends to those lists) and the maps of the pass
(definitions, replacements, sealed, filled, incomplete phis). `StartRound` chooses
the promotable allocas, `ProcessStore`, `ProcessLoad`, `SkipInstr` are the inner loop,
`FinishBlock` fills the block and tries to seal it and its successors, `EndRound`
removes the dead allocas. `ReadVariableR`, `TryRemoveTrivialPhi` and
`ReplaceAllUses` are recursive, as the code is.

Afterwards `walk` executes the original and the result side by side along every
path of bounded length, phis and all. `SameValues` compares what opaque users see
and is about defined executions only: a path on which the original reads an
uninitialised variable is not compared from there on.

A function comes from a shape: a CFG with predecessor arrays and a menu of
instruction sequences per block, of which TLC tries every combination.

### Rewrites, MCRewrites: folding, operand order, peephole rules, dead code

The passes `jx_ir_moduleEnd` repeats, on a block of integer instructions with one
argument and one result, in the order of the code: operand order, folding, dead
code, then up to ten rounds of folding, operand order, peephole, dead code. Each
pass is a visit of one instruction after the other (`at`), repeated as the code
repeats it: folding and peephole until a sweep reports nothing, the dead code pass
once, since its marks on blocks are not cleared between sweeps. `changed` is what
the passes report, and some rewrites report nothing.

Types have 3, 4 or 8 bits, standing for 8, 32 and 64, next to bool. As in the code
a constant is a 64 bit word whatever its type; folding computes on words and some
rules look at whole words, so a constant wider than its type is a state the model
reaches. `Compute` is what jmir_gen.c emits; `ValuePreserved` compares the function
handed over with the one at hand, under `Compute`, for every sample argument for
which C gives the original a meaning.

Three rewrites are known not to preserve values: a signed division by a power of
two becomes a shift, a multiplication or division by a factor whose low half is a
power of two becomes a shift by that, and dividing or shifting words out of their
type's range goes by the word. With the rule for tests against zero (section 6) they set `strayed`, and
a function that strayed is not compared further; that each of the four conditions
is needed, and no fifth, is what the run shows. A rewrite that inserts an
instruction and frees the old one is a change in place here, the new instruction
taking the old one's identity. Rules marked `JX_NOT_IMPLEMENTED` do nothing.
`Crash` stands for the two ways the compiler itself traps.

### IRPasses: the passes of jx_ir_moduleEnd on whole functions

What Rewrites shows about words on one block, IRPasses has for functions: blocks,
phis, memory, floating point and calls. A function is a sequence of blocks in list
order; predecessors are derived from the terminators, and everything jir.c does to
the phis of a block when an edge comes or goes is an operator (`RemovePred`,
`Terminate`, `Unlink`, `RemoveBlock`, `ReplaceUses`, `SplitAt`, `ConvertCondBranch`).
Each pass is an operator from a function to a function and the changes it reports:
`SingleRet`, `ConstantFolding`, `CanonicalizeOperands`, `PeepholeIR` (with the rules
for short circuits and for branches that make no difference), `RemoveRedundantPhis`,
`SimplifyCFG`, `EliminateDeadCode`, `LocalValueNumbering`, `InlineCall`,
`ReorderBlocks`. Sweeps visit what the code visits: blocks and instructions that
stand after the one at hand when it is changed. A constant is as wide as its type;
Rewrites is about those that are not. `IRCheck` is `jx_ir_funcCheck`. Lower runs the
passes in the order of `jx_ir_moduleEnd`, all but the construction of SSA form.

### PhiLowering, PhiLoweringProofs, MCPhiLowering: out of SSA form

`jmirgen_processPhis` puts a mov for each phi operand into the predecessor, without
splitting edges and without temporaries, before the conditional jump or, when
there is one, before the nearest comparison above it. The module translates a
function (`InsertMov`, `NextPhi`, `PhisProcessed` are the loops of the code) and
then runs both forms: `env` is the IR, whose phis change together on the edge,
`regs` the machine registers, whose movs run one by one where the code put them.

The code relies on more than it checks. `Safe` is what it relies on, in parts:

- `MovsInOrder`: no phi of a block is read by a later mov of the same block (the
  swap problem: `t = x; x = y; y = t` in a loop);
- `NothingAfterMovs`: what stands between the movs and the end of the block, the
  comparison and whatever follows it, does not notice them;
- `NothingLost`: a phi is not needed on the other edge of its predecessor (the
  lost copy);
- `WellFormed`: phis match predecessors, `live` is a solution of liveness.

None of the first three is guaranteed by the passes before: the properties are
about functions where they hold, which include every kind of function in the
runs, and the run `phi_compare` shows one where the second does not. The theorems
say that nothing else can go wrong.

### MIR, Frame, Select, MirPasses, InstrCombine, Lower, MCLower: from IR to final machine IR

The whole back end up to the assembler, on one function at a time:

- MIR: operands, what each opcode uses and defines (`jmir_instrGetUseDef`), liveness,
  and editing of instruction lists; registers named as in jmir.h.
- Frame: stack objects, the room for arguments of calls, the prologue's size.
- Select: `jx_mirgen_funcGen`, one operator per instruction of the IR with every case
  the translation distinguishes, conversions, calls and variadic functions, memory
  operations that become loops, phis.
- MirPasses and InstrCombine: the passes, as sweeps over the instructions.
- Lower: the order of `jx_ir_moduleEnd` for the programs marked `optimize`, then the order
  of `jx_mir_funcEnd`; one action per pass, one per call inlined. The allocator's round is
  abstracted by what ColoringStack promises: a register of the checker's choice is
  spilled (at most `spills` times), and the rest get any of two valid colourings.
  RegAlloc models the choice.

Machine is the reference. It interprets IR and machine IR on the same memory, with
calls of unknown functions recorded and answered by a function of their
arguments; a byte has two bits, so that widths, signs and overflow happen with small
numbers. MirMachine gives the instructions their meaning: registers by width,
flags, stack, memory in regions. After every pass `SameBehaviour` compares result,
memory and calls with those of the IR for every input, and asks that the stack
and the callee-saved registers be given back; a wild access, a division by zero
and an endless loop are faults. `RegistersSound` asks that nothing is live on entry
but arguments, and after allocation that no virtual register is left; `FrameSound`
that nothing in the frame overlaps. `Fuel` bounds the jumps of a run.

The programs are fifteen functions in which each pass of the machine IR has something
to do; three whose phis have moves in a block that ends in a conditional jump (before
its comparison, which the pass for conditional jumps then joins with it; before
another comparison of the block; between test and jump); and seven for the passes of
the IR: several returns, short circuits that are nested, branches that make no
difference, common subexpressions with stores and calls in between, every rule for
values, calls that are inlined (one with a loop and a variable of its own, one in a
loop) and a loop in a loop. `SameBehaviour` includes `IRCheck`, and `AllReached` where
the order of blocks asserts it. The programs avoid what is known to go wrong
(section 6), phis that are not `Safe` included: other miscompilations would hide behind those.

### Assembler, Encoding, X64, Assemble, CodeGen, MCCodeGen: from machine IR to memory

Assembler is the interface of jit.c as operators from a context to the next one:
appending bytes to sections whose buffers grow, labels with references to patch,
symbols, relocations by name, stubs for externals, joining sections, relocating.
Of the bytes only the fields that are patched or relocated are kept, by offset.
Encoding is the rest of jit.c: from an instruction and its operands to prefix, REX,
opcode, ModRM, SIB, displacement and immediate. Assemble is jit_gen.c's part,
converting operands and choosing an instruction by the table.

X64 is the reference: a decoder written from the manuals, which reads bytes and
says which instruction they are. `ListingDecodes` asks that the bytes of a whole
function, decoded one after the other, are its machine IR; each encoding is met
with every register that matters (REX, SIB, displacement), and displacements and
immediates at their limits.

CodeGen is `jx_x64gen_codeGen`: it declares everything, emits the functions (a
floating point constant becomes a variable, `memset` a symbol, in the middle of an
instruction), defines the variables and finalizes. Two history variables state the
intent: `meant` says what each field was emitted to refer to, `placed` where each
label and symbol was put. Code reaches an external function through the stub and
an external variable through the slot with its address (jmir_gen.c reads through
the slot when the variable has no data), and that is what `ReferencesResolve` asks for.

### ColoringStack: what register allocation promises

An abstract round of graph colouring: any live register may be pushed on the
select stack (`Push`), any two registers that do not interfere may be merged
(`Combine`), and when nothing is live the stack is popped, each register taking a
colour that none of its neighbours has, seen through what they were merged into
(`Pop`), merged ones last (`Inherit`). `adj` grows as in
`jmir_regAlloc_combineNodes`: only neighbours still in the graph learn of the
merge. Which node is taken when, the whole difficulty of the real code, is left
open, so `ValidColoring` here says: correctness does not depend on it.

### RegAlloc, RegAllocInv, MCRegAlloc: one round of the allocator

The detailed algorithm. `pass` is `jmir_func_pass_regalloc_t`: node states and
lists (sequences, since `jmir_regAlloc_nodeSetState` unlinks properly), adjacency,
degrees, aliases, colours, moves with `m_Next` pointers (since
`jmir_regAlloc_movSetState` does not unlink). One action per step of the loop in
`jmir_funcPass_regAllocRun`: `MakeWorklist`, `Simplify`, `Coalesce`, `Freeze`,
`SelectSpill`, `StartAssign`, `AssignColor`, `AssignCoalesced`, `Finish`. Each calls
the whole chain the code calls: `Combine` enables moves, decrements degrees, moves
nodes between worklists. The inputs are graphs as sequences of pairs, because the
order of insertion decides the order of lists.

`movSetState` (jmir_pass.c:1451, comment "Remove from previous list") unlinks a
move only when it is the head of its list. A part of `Bookkeeping` shows that
this is harmless for the one list that is read, the worklist.

RegAlloc implements ColoringStack (`ImplementsColoringStack`) under the mapping in
the `INSTANCE`: all four worklists are "LIVE", `rep` follows `m_Alias` to the end,
`rank` is the position on the select list.

What the invariants of the code are is in RegAllocInv: `Inv` and `BookInv`, and for
every function of the code a relation between the pass before and after it
(`Relists`, `Decrements`, `Merges`, ...). Section 5 says how they are proved, in
RegAllocSteps (every operator and every loop body, edges, moves and aliases),
RegAllocProofs (`Inv`, the refinement), RegAllocCounts (degrees and the
select stack) and RegAllocBooks (`BookInv`).

MCRegAlloc adds a bit that flips at every iteration so that an iteration that
changes nothing is a step. Fairness: sequential code takes its next step unless
it has finished; that is what `LoopSpec` states, and `Termination` follows.

## 4. Runs

| Run | Bounds | What it shows |
|---|---|---|
| preprocess | 5655 programs: every table of four macros from menus with every text, conditionals two deep with all branches, files that include each other | the output is the standard's, errors are found where the standard has them and nowhere else, conditionals stay balanced, expansion ends |
| frontend | 15 files and some fifty broken ones; each function with several arguments; 1500 steps of the source, 200 blocks of the IR | parser, typing, initializers, layout and translation keep the meaning; what is built passes `jx_ir_funcCheck`; what is no C is refused; the compiler stops |
| ssa_promote | every CFG of 3 blocks with both predecessor orders; 5 CFGs of loops; a diamond with a pointer; paths of 14 blocks | `SameValues`, and that phis fit their predecessors, are not trivial and read nothing that was freed; each iteration removes what it promoted |
| rewrites | 3900 functions of one to four instructions, 16 arguments | values are preserved, nothing is left to rewrite at the end, the passes settle before the cap of ten |
| phi_safe | 3312 functions, those that are `Safe`, 8 initial contents of registers | both forms branch alike, agree on entry to every block and return the same |
| phi_compare | one function | violation, finding 1 |
| lower | 25 functions, seven from the passes of the IR on, inputs of each, one spill of the checker's choice, two colourings, 6 general and 4 xmm colours | after every pass the function behaves as its IR did at first and what the IR must be between passes holds; registers and frame are sound; every pass ends, and the rounds before their cap |
| lower_exchange | one function | violation, finding 3 |
| coloring_stack | 3 virtual, 2 hardware registers (one not available), every interference graph | the inductive invariant of the proof holds, and so do `ValidColoring` and `MergedAgree` |
| regalloc | 4 virtual, 1 hardware register, 2 colours, every graph, up to two moves | degrees, worklists and lists agree after every step; every `JX_CHECK` of the round but one (section 6) holds; only registers given up on are spilled; what has left stays out; the round implements ColoringStack, and ends |
| codegen | 1800 code and 240 data programs, pages of 16 bytes, buffers growing by 8; every encoding in a function of its own | the bytes decode to the machine IR, jumps land, every reference resolves, symbols do not overlap and are aligned |
| codegen_division | one function | violation, finding 2 |

Why the bounds are enough for what is asked. Two colours with four registers are
the least with a significant node that becomes insignificant, a Briggs and a
George test that go either way, frozen moves and spills; two moves the least with
a move enabled again by another. Three blocks give every CFG with one loop or one
join, and irreducible ones; the larger CFGs have what three blocks cannot: a loop
inside or around a join. Paths of 14 blocks go round each loop at least
twice. Pages and buffer steps are small so that every program crosses them. The
functions of rewrites have every operation on the argument and on constants at the
edges of every type, and the sequences in which one rule makes the operand of
another: additions taken back, masks, conversions of constants, truth values
extended and tested. Four macros are the least for one that calls another whose
expansion, with what follows, calls a third and meets the first again. Files and functions of
frontend and lower were chosen so that every action and every disjunct fires and
every branch of the code that a valid program reaches is taken at least once. Frames
stay below 128 bytes and no input needs the 30 jumps of `Fuel`.

`MaxIds`, `maxWalk` and `MaxIterations` in SimpleSSA are bounds of the model (the
last is the code's own, 50 there too), as are `Fuel` in Lower and `MaxSteps` and
`MaxBlocks` in Frontend; the rounds in Lower and Rewrites have the code's own caps.

Fairness: the compiler is one thread, which takes its next step unless it has
finished. MCRegAlloc says so as `LoopSpec`, Rewrites as `WF_vars(Next)`, Frontend
and Preprocess as `<>[]stopped \/ []<><<TRUE>>_vars`, which is the same where
a step always exists and changes something; that one exists is the deadlock check
of frontend and regalloc, and for Preprocess follows from its guards, which
split the kinds of the next token.
CHECK_DEADLOCK is off where the algorithm ends in a state without successor.

## 5. Proofs

All theorems hold for every value of the constants under the named assumptions of
the modules.

ColoringStackProofs: `Invariance` (`Spec => []IInv`), from it `TypeCorrect`,
`Validity` (`[]ValidColoring`) and `Merging` (`[]MergedAgree`). `ValidColoring` is not
inductive: when a register is popped, its neighbour's colour must be visible to
it, though the neighbour may since have been merged into another, or may have
lost it from its own adjacency. `IInv` therefore says of every two interfering
classes (`Apart`): while both roots are in the graph they are adjacent; the root
lower on the stack sees the other through some member of its adjacency
(`Sees`); coloured roots differ. The rest of `IInv` places roots, ranks and colours.
Assumptions: hardware registers have distinct colours; interference is symmetric
and irreflexive, as `addEdge` makes it.

PhiLoweringProofs: `Invariance`, `TypeCorrect`, `BranchCorrect`, `EntryCorrect`,
`ResultCorrect`: in every safe function, whatever its blocks, phis and data, the
two forms agree. The invariant has two halves. While translating, the movs of a
block are exactly the operands passed so far that name it, in order (`MovsInv`).
While running, every live register agrees with the IR but for the phis already
written on this edge, which hold the value the edge is about to give them
(`RunInv`). Assumptions: programs are well typed, `Safe` holds initially.

FoldLemmas: the loops of RegAlloc are folds over sequences, and what a loop keeps
has to be shown by induction over its turns. A theorem cannot take an operator as
a parameter here, but a module can take one as a CONSTANT: FoldLemmas does the
induction once for a body `Op` (`Fold` is the last state of a `Trace`, and a
property closed under every turn holds all along it), from the fact of the library that
the naturals are well founded. A module that reasons about a loop instantiates it
with that loop's body, nine times in all. The same way gives the numbering of an
injective sequence and the chain that next pointers spell.

RegAllocProofs: one round of the allocator keeps `Inv`, for every graph, every
sequence of moves, every number of registers and colours (`Invariance`). `Inv` says:

- every node is on exactly the list of its state, once, for all node lists;
- adjacency is symmetric and irreflexive, arrays spell the sets;
- the moves to be looked at are what the next pointers spell from the head of
  their list (`Spells`), although `movSetState` unlinks heads only;
- a node is coalesced just when it has an alias, and following aliases ends, in a
  node that is not coalesced (`Acyclic`, `RootMap`);
- a move that may still be coalesced is in the array of what each of its ends stands
  for, hence nothing on the select stack or about to go there has one (`MovesKnown`,
  `Unrelated`): this is why `getAlias` of a pending move is never on the stack;
- while colours are given, nothing else is in the graph and a node that has its
  colour has the one of its root.

From it `TypeCorrect`, `NeverBack` (the action property that what has left the graph
stays out) and `Refinement`: RegAlloc implements ColoringStack, every
action being a push, a merge, a pop, an inheritance or a stutter. `Validity` then is
the theorem of ColoringStackProofs under the refinement mapping: no two interfering
registers share a colour. The proof of an action goes through the relation of RegAllocInv that
each of its operators satisfies; a loop is proved with what holds between two
turns, which no state of the specification shows.

RegAllocBooks: `BookInv` is what makes the allocator good rather than correct, and
`Inv` is needed for it. Degrees, which the code counts up and down, are the
numbers of live neighbours. In the midst of a step they are not: `DegreesOff(p, T)` says
that they are off by one for the neighbours in `T`, those the loop has not told yet,
and `ListsMean(p, chosen, X, Y)` which nodes of the freeze worklist may for the moment
have no move left (`X`) or be significant (`Y`). `FewAbove` is about the stack: a node
pushed as insignificant has fewer than `K` classes against it that are popped
before it, whatever merges happen later, since a merge can only identify
classes (`Above`). From it: `BookkeepingKept`, `SpillsChosen` (a register that was simplified
as insignificant never spills: only what `selectSpill` chose does, or what was merged into
it) and `Checked` (every `JX_CHECK` of the round holds but one, section 6). The proof
of the last showed that the exception is real: with three moves, one more than the run has.

Assumptions (`InputAssumption` of RegAlloc): edges and moves are pairs of registers of
the function, the colours are finitely many and some are available, and hardware
registers have different ones. The code gets the first from the machine IR and the
rest from the table of the registers of a class. That a pair may be of a register
with itself, repeated, or given both ways round is not excluded.

CodeGenProofs: for every program, page size and growth of the sections,
`TypeCorrect` (no field is written outside of its section, no section outgrows its
buffer), `Landing` (`[]BranchesLand`) and `Laying` (`[]LayoutSound`).
`BranchesLand` says nothing of a block that is not placed yet, so it is not inductive; `Inv` adds what the labels know:

- a label is bound where its block was placed, or the block is not placed and the
  label has a reference for each of the jumps to it and no other (`LabelStands`);
- no two jumps share a field, and each has its field in the text section (`FieldsOK`);
- jumps and placed blocks are those of functions begun so far, the placed blocks of the current
  one those of its list up to the current one (`ScopeOK`): block ids are unique in
  a function and its labels are freed at its end.

Three lemmas carry it. `LabelBindOK` and `Binding`: the fields that `jx64_labelBind` patches
are those of the jumps to the block, each with the distance from its own end.
`JumpToLabelOK`: a jump backwards is complete when it is emitted, one forwards leaves its
reference. `JumpEncoding`: of the two encodings of a jump to a block, the displacement
is where the decoder of X64 reads it and ends the instruction, so that what the
assembler records is what the processor does. Everything else that happens on the way (constants and
intrinsics declared in the middle of an instruction, every encoding of every
operand, stubs, relocations) is shown to keep the text section's fields and the
labels (`Kept`). `InstrDescSound` goes through the table of instructions: a relocated displacement has
four bytes for whatever operands the machine IR may have.

`Laying` (`[]LayoutSound`) is the third result: no two symbols of a section overlap,
what is relocated in a symbol's name lies within it, and in the code buffer every
variable stands at a multiple of its alignment. A function has no size until
`jx64_funcEnd`, and while it is emitted constants and intrinsics are declared and
variables defined, so the invariant (`Layout`) says more than the property:

- symbols lie in their section apart from each other, and the function being
  emitted lies behind them all, its relocations between its start and the end of the section (`LaidOut`);
- a symbol the walk has not reached has no bytes (`AheadOK`): it may be given a
  place without leaving one behind;
- a variable the walk has passed is aligned in its section (`BehindOK`), and after the
  join the data section begins at a page (`StartOK`).

Every operation of the assembler is shown to move the symbols it is about and no other (`Moved`).
That the alignment carries over to the buffer is `AlignedInBuffer`: a page is a multiple
of the alignment.

Assumptions: `ProgramsAssumption` of CodeGen says what machine IR is: which operations
take how many operands, that the operand of a jump is a block of the function, that
ids of blocks are unique (jmir.c:703 counts them up), that pointers lie in their variable,
and that an alignment is at most 16 and divides the size of a page (powers of two,
jit.c:410, and the 16 zeroes to pad with that jit.c:418 checks for).
`AsmAssumption`: page size and growth are positive.

Only model-checked: `Termination`, `Settles`, `Ends` (liveness is
beyond the prover); SimpleSSA, Preprocess, Frontend and Lower (their operators are
recursive, which the prover does not support, and what they promise is about
recursively defined executions); `ListingDecodes` and `ReferencesResolve` of
CodeGen; Rewrites (bit operations are sums over sets, and what they compute needs
induction over words).

## 6. Findings and known defects

Findings are shown by a run that violates a property:

1. `phi_compare`: `do { old = x; x = x + 1; } while (old < 2)` leaves the loop one
   iteration early, as the mov of `x` is put before the comparison that reads the
   old `x` (jmir_gen.c:2346). The same function as a program of Lower
   (`ComparePrograms` in MCLower, in the place of `ExchangePrograms` in
   Lower_exchange.cfg) violates `SameBehaviour` once it is generated.
2. `codegen_division`: unsigned division is emitted as `idiv` (jit_gen.c:56).
3. `lower_exchange`: `int exchange(int a, int *p) { int x = *p; *p = a; return a - x; }`
   returns 0: the load is moved behind a store through another operand
   (jmir_pass.c:3049).

The defects below were met while modelling. Where a model could reach one, the
programs keep away from it, so that the properties say: nothing else goes wrong.

Preprocessor: a parameter used plainly and later with `#` or `##` gets the expanded
argument; an empty expansion gives its flags to the next token, so a directive on the
following line is missed (jcc.c:9071); `##` in object-like macros does not paste;
`x##y##z` with `x` and `y` empty pastes with the token before; a file that ends with
another conditional after its guard's `#endif` is taken for guarded, and guard names
are compared by prefix (9978); an unterminated `#if` is not reported; a file without
a last newline is read past its end; relative includes start at the main file; `__LINE__`,
`__FILE__` do not exist; `,##__VA_ARGS__`, `__VA_OPT__`, `#include_next` and included
macros are not implemented.

Parser, types and translation to IR: `~` and `!` and the left operand of shifts are not promoted;
`switch` conditions neither, and without a `case` it dereferences NULL; comparisons
are bool in the IR and int in the AST, so `-(a < b)` asserts (jir.c:4701); types are
compared without signedness, so casts between int and unsigned are dropped (`typeIsSame`);
the value of a compound assignment is unconverted and that of a bit-field assignment is
the whole word; compound assignment through a pointer evaluates its left side twice;
64 bit bit-fields have a 32 bit mask, bit-fields are read unsigned; constants are
evaluated in 64 bits whatever their type; floats after the named arguments of a
variadic call stay floats; `sizeof` leaves out trailing padding and a last word of
bit-fields (jcc.c:5637, in the IR jir.c:3413); `{.a.x = 1, .b = 2}` is a syntax error;
an unsized array with `...` is counted short; an array resized by its initializer changes the
shared type (3452); a negative designator, a VLA, a missing `)` of a nested
declarator and non-lvalues are accepted; a goto to an undeclared label goes to label 0
(6527); compound literals take no postfix operators; the union member that is first is the one
initialized (jir_gen.c:467); a structure's size in bytes of 3, 5, 6, 7 is classified
one way for the callee and another for the caller.

IR passes: recursive removal of trivial phis visits freed phis (jir_pass.c:816); marks of the
first iteration of SSA construction survive into the second, so that a variable promoted
there is wrong in loops (:490); `(x < 2) == 0` becomes `x < 2` (:2005); signed division
by powers of two and factors with a zero low half (:2043); unsigned constants converted to
floating point as signed (:1729), -0.0 taken for 0.0 (:1926); a dead condition removed from
the wrong block's list (:2667); the inliner moves only the first `alloca` of
the callee, and loops forever if the caller's entry begins with one (:4154).

Translation to MIR: floating comparisons ignore NaN (jmir_gen.c:879); 64 bit unsigned
conversions to and from floating point (:1676, :1803); a narrow unsigned index is
sign-extended (:1170); bitcasts share their operand's register (:1561); movs of phis
land in the first half of a split block; storing a global's address, comparing
with one on the left (:908) and a phi of a symbol are not implemented.

Register allocator: the `JX_CHECK` "Node expected to be in freeze worklist" of
`nodeFreezeMoves` (jmir_pass.c:1264) can fail. If two moves connect the same two
registers and one of them is coalesced, the other stays active though both its ends
are now one node; when that node is frozen, the other end of the move is the
node itself, or one that is on another list by then. With two colours and moves
`a := b`, `c := d`, `a := b` a debug build stops there; a release build puts a node
that is on the simplify worklist to its head, which harms nothing. `ChecksHold` leaves out just this one.

MIR passes: a block that only jumps to itself hangs the compiler (jmir_pass.c:1739);
facts about copies survive redefinition in some cases (:2540); `setcc` is
dropped without asking whether it is read; constants by `mov` ignore width (:3391);
room for calls shifts objects by multiples of 8 whatever their alignment; a spilled register gets
the type of its first use (jmir.c:1461); frames above 4 KB are not probed (:630).

Assembler: immediates from 0x80000000 to 0xFFFFFFFF count as fitting 32 bits but are
sign-extended (jit.h:498); `jmp` and `call` through memory drop REX; the
three-operand multiplication writes 8 immediate bytes; conversions from 64 bit
memory lack REX.W; `movq` to an xmm register swaps its operands (jit.c:1532); a variable initialised
with an external variable's address gets the slot's (jit.c:314); a user's identifier
can equal a generated name (`f32c_...`, jit.c:481).

## 7. Not modelled, and why

- Driver, file access, printing, the tokenizer: no state to go wrong.
- String literals, initial values of globals (bytes and relocations), static locals:
  data tables beside the logic modelled.
- `_Generic`, `typeof`, `_Atomic`, `asm`, attributes, builtins, statement expressions,
  and which functions are live: parsed by a few lines each, nothing in the other
  parts depends on them.
- In IRPasses: the order in which the inliner takes the functions of a module (a callee is
  inlined as it is given), pointer types by what they point to (so no bitcast between
  them), constants wider than their type (Rewrites has them), and the reordering by
  strongly connected components, which is compiled out.
- MIR passes nothing creates: `fixMemMemOps`, LEA combination, the SCC pass.
- Use lists and block arrays as linked structures, interning and dominators: values
  and derived sets here.
- Objects as shared types: see CTypes.
- `Safe` is a precondition of PhiLowering, not a consequence of earlier passes.
- That the allocator's rounds end for every interference, with spill code.
- Allocation failure, and arithmetic beyond 32 bits in section offsets.

## 8. Plan

Proofs. ColoringStack, PhiLowering, RegAlloc, and the jumps and the layout of CodeGen are done.
Next, in this order:

1. References to symbols resolve: the relocations of a symbol are what `meant` says of it.
2. Frame: what is allocated is disjoint and stays so when room for calls is made.
3. A measure that every step of RegAlloc decreases, from which `Termination` follows
   by an argument on paper: the fairness part is beyond the prover.

Models: initial values of globals with the relocations of CodeGen, use lists as
linked structures with an abstract multiset refined by them, dominators and
strongly connected components against their definitions.
