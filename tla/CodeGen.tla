------------------------------ MODULE CodeGen ------------------------------
(* The translation of a whole machine IR program into executable memory
   (jx_x64gen_codeGen in jit_gen.c) over the assembler of jit.c: declare
   everything, emit the functions, define the variables, finalize.

   A program has
     globals   variables [name, size, align, pointers]; size 0: external.
               "pointers" are [at, name]: the address of name goes to offset at
     funcs     functions [name, numBlocks, blocks]; no blocks: external.
               "blocks" are [id, code] in list order, ids in 0 .. numBlocks-1,
               code a sequence of machine IR instructions (Assemble)          *)
EXTENDS Assemble, X64

CONSTANT Programs

(* What machine IR is.  The block operand of an instruction is where a jump goes,
   and names are not those of blocks (Block, below).                          *)
IsName(name) == name \in Seq(Range(name)) /\ name[1] # "block"
MIROperand(op, numBlocks) ==
  /\ op.kind \in {"reg", "const", "float", "bb", "ext", "mem"}
  /\ op.kind \in {"reg", "mem"} => op.type \in DOMAIN BitsOf
  /\ op.kind = "const" => op.type \in {"i8", "i16", "i32", "i64", "ptr"} /\ op.val \in [1 .. 8 -> 0 .. 255]
  /\ op.kind = "float" => op.type \in {"f32", "f64"}
  /\ op.kind = "bb" => op.block \in 0 .. numBlocks - 1
  /\ op.kind = "ext" => IsName(op.name)
  /\ op.kind = "mem" => op.disp \in [1 .. 4 -> 0 .. 255]

MIRInstr(instr, numBlocks) ==
  /\ instr.args \in Seq(Range(instr.args))
  /\ \A n \in DOMAIN instr.args : MIROperand(instr.args[n], numBlocks)
  /\ \/ /\ instr.sse \in DOMAIN SSEPrefix /\ Len(instr.args) = 2
        /\ instr.op \in {"mov", "mova", "movq"} \union DOMAIN SSEOpcodes
     \/ /\ instr.sse = "none" /\ Len(instr.args) = 2
        /\ instr.op \in {"shl", "shr", "sar", "mov", "movsx", "movzx", "lea", "test", "imul"}
                       \union DOMAIN MathBinary
     \/ instr.sse = "none" /\ Len(instr.args) = 3 /\ instr.op = "imul3"
     \/ instr.sse = "none" /\ Len(instr.args) = 1 /\ instr.op \in {"idiv", "div", "set", "j", "jmp", "call", "push", "pop"}
     \/ instr.sse = "none" /\ Len(instr.args) = 0 /\ instr.op \in {"cdq", "cqo", "ret"}
  /\ (\E n \in DOMAIN instr.args : instr.args[n].kind = "bb") => instr.op \in {"j", "jmp"}
  /\ instr.sse = "none" => \A n \in DOMAIN instr.args : instr.args[n].kind = "reg" => ~IsXMM(instr.args[n].type)
  /\ instr.op = "j" => instr.cc \in 0 .. 15

MIRBlock(block, numBlocks) ==
  /\ block.id \in 0 .. numBlocks - 1
  /\ block.code \in Seq(Range(block.code)) /\ \A k \in DOMAIN block.code : MIRInstr(block.code[k], numBlocks)
MIRFunction(f) ==
  /\ IsName(f.name) /\ f.numBlocks \in Nat
  /\ f.blocks \in Seq(Range(f.blocks)) /\ \A j \in DOMAIN f.blocks : MIRBlock(f.blocks[j], f.numBlocks)
  /\ \A j, k \in DOMAIN f.blocks : f.blocks[j].id = f.blocks[k].id => j = k
MIRGlobal(g) ==
  /\ IsName(g.name) /\ g.size \in Nat
  /\ g.align \in 1 .. 16 /\ PageSize % g.align = 0   \* powers of two; jit.c has 16 zeroes to pad with
  /\ g.pointers \in Seq(Range(g.pointers))
  /\ \A n \in DOMAIN g.pointers : g.pointers[n].at \in 0 .. g.size - 8 /\ IsName(g.pointers[n].name)

ASSUME ProgramsAssumption ==
  \A p \in Programs :
    /\ p.globals \in Seq(Range(p.globals)) /\ \A i \in DOMAIN p.globals : MIRGlobal(p.globals[i])
    /\ p.funcs \in Seq(Range(p.funcs)) /\ \A i \in DOMAIN p.funcs : MIRFunction(p.funcs[i])

VARIABLES prog, ctx, at,
          meant,     \* what each field of the sections was meant to refer to
          placed,    \* where each label and symbol was put
          listing    \* the instructions of the function and its bytes
vars == <<prog, ctx, at, meant, placed, listing>>

FuncIds == 1 .. Len(prog.funcs)
GlobalIds == 1 .. Len(prog.globals)

GlobalSym(i) == i                          \* m_GlobalVars[i]
FuncSym(i) == Len(prog.globals) + i        \* m_Funcs[i]
LabelOf(block) == block + 1                \* m_BasicBlocks[block]

IsExternalFunc(i) == prog.funcs[i].blocks = <<>>
IsExternalVar(i) == prog.globals[i].size = 0

Steps == {"declareGlobals", "declareFuncs", "func", "block", "instr",
          "globals", "stubs", "relocate", "done", "failed", "refused"}

Block(i, id) == <<"block", i, id>>         \* as a target, among the names
Place(target, section, offset) ==
  Overwrite(placed, [t \in {target} |-> [section |-> section, offset |-> offset]])

NoListing == [instrs |-> <<>>, bytes |-> <<>>]

Init ==
  /\ prog \in Programs
  /\ ctx = CreateContext
  /\ at = [step |-> "declareGlobals", i |-> 1, j |-> 1, k |-> 1, limit |-> 0]
  /\ meant = {} /\ placed = NoField /\ listing = NoListing

-----------------------------------------------------------------------------
DeclareGlobal ==
  /\ at.step = "declareGlobals" /\ at.i <= Len(prog.globals)
  /\ ctx' = Declare(ctx, "variable", prog.globals[at.i].name)
  /\ at' = [at EXCEPT !.i = @ + 1]
  /\ UNCHANGED <<prog, meant, placed, listing>>

DeclareFunc ==
  /\ at.step = "declareFuncs" /\ at.i <= Len(prog.funcs)
  /\ ctx' = Declare(ctx, "function", prog.funcs[at.i].name)
  /\ at' = [at EXCEPT !.i = @ + 1]
  /\ UNCHANGED <<prog, meant, placed, listing>>

NextList ==
  /\ \/ at.step = "declareGlobals" /\ at.i > Len(prog.globals)
        /\ at' = [at EXCEPT !.step = "declareFuncs", !.i = 1]
     \/ at.step = "declareFuncs" /\ at.i > Len(prog.funcs)
        /\ at' = [at EXCEPT !.step = "func", !.i = 1]
     \/ at.step = "func" /\ at.i > Len(prog.funcs)
        /\ at' = [at EXCEPT !.step = "globals", !.i = 1]
     \/ at.step = "globals" /\ at.i > Len(prog.globals)
        /\ at' = [at EXCEPT !.step = "stubs", !.i = 1, !.limit = Len(ctx.symbols)]
  /\ UNCHANGED <<prog, ctx, meant, placed, listing>>

SkipExternalFunc ==
  /\ at.step = "func" /\ at.i <= Len(prog.funcs) /\ IsExternalFunc(at.i)
  /\ at' = [at EXCEPT !.i = @ + 1]
  /\ UNCHANGED <<prog, ctx, meant, placed, listing>>

(* Labels for every block, the unlisted included, then jx64_funcBegin. *)
BeginFunc ==
  /\ at.step = "func" /\ at.i <= Len(prog.funcs) /\ ~IsExternalFunc(at.i)
  /\ ctx' = FuncBegin(LabelAlloc(ctx, prog.funcs[at.i].numBlocks), FuncSym(at.i))
  /\ placed' = Place(prog.funcs[at.i].name, "text", TextSize(ctx))
  /\ at' = [at EXCEPT !.step = "block", !.j = 1]
  /\ UNCHANGED <<prog, meant, listing>>

Blocks == prog.funcs[at.i].blocks

BeginBlock ==
  /\ at.step = "block" /\ at.j <= Len(Blocks)
  /\ ctx' = LabelBind(ctx, LabelOf(Blocks[at.j].id))
  /\ placed' = Place(Block(at.i, Blocks[at.j].id), "text", TextSize(ctx))
  /\ at' = [at EXCEPT !.step = "instr", !.k = 1]
  /\ UNCHANGED <<prog, meant, listing>>

Code == Blocks[at.j].code
AtInstr == at.step = "instr" /\ at.k <= Len(Code)

(* What the displacement of an instruction's operand refers to. *)
Targets(instr) ==
  {CASE op.kind = "bb" -> Block(at.i, op.block) [] op.kind = "ext" -> op.name [] OTHER -> ConstantName(op) :
     op \in {o \in Range(instr.args) : o.kind \in {"bb", "ext", "float"}}}
MeansRead(instr, read) ==
  {[section |-> "text", field |-> TextSize(ctx) + read.field - 1, next |-> TextSize(ctx) + read.next - 1,
    target |-> t] : t \in Targets(instr)}
Means(instr, bytes) == MeansRead(instr, Decode(bytes, 1))

(* The loop's body: the operands, the instruction, the bytes.  What an assembler
   function refuses stops the compiler (JX_CHECK).                             *)
Defining(c) ==
  LET news == {s \in Len(ctx.symbols) + 1 .. Len(c.symbols) : c.symbols[s].kind = "variable"}
  IN  placed' = Overwrite(placed, [n \in {c.symbols[s].name : s \in news} |->
                                     [section |-> "data", offset |-> c.symbols[SymbolGetByName(c, n)].offset]])
EmitNothing(instr, c) ==
  /\ at' = [at EXCEPT !.k = @ + 1]
  /\ ctx' = c
  /\ Defining(c)
  /\ listing' = [listing EXCEPT !.instrs = Append(@, instr)]
  /\ UNCHANGED meant
EmitBytesOf(instr, arg, c, enc, bytes) ==
  /\ at' = [at EXCEPT !.k = @ + 1]
  /\ ctx' = Emit(c, enc, arg)
  /\ meant' = meant \union Means(instr, bytes)
  /\ Defining(c)
  /\ listing' = [instrs |-> Append(listing.instrs, instr), bytes |-> listing.bytes \o bytes]
EmitEncoded(instr, arg, c, enc) ==
  IF Accepted(enc) THEN EmitBytesOf(instr, arg, c, enc, EncodeInstr(enc))
  ELSE at' = [at EXCEPT !.step = "refused"] /\ UNCHANGED <<ctx, meant, placed, listing>>
EmitConverted(instr, arg, c) ==
  IF EmitsNothing(instr, arg) THEN EmitNothing(instr, c)
  ELSE EmitEncoded(instr, arg, c, InstrDesc(instr, arg))
EmitInstr ==
  /\ AtInstr
  /\ EmitConverted(Code[at.k], [n \in DOMAIN Code[at.k].args |-> ConvertMIROperand(Code[at.k].args[n])],
                   WithOperands(ctx, Code[at.k].args))
  /\ UNCHANGED prog

EndBlock ==
  /\ at.step = "instr" /\ at.k > Len(Code)
  /\ at' = [at EXCEPT !.step = "block", !.j = @ + 1]
  /\ UNCHANGED <<prog, ctx, meant, placed, listing>>

EndFunc ==
  /\ at.step = "block" /\ at.j > Len(Blocks)
  /\ ctx' = FreeLabels(FuncEnd(ctx))
  /\ at' = [at EXCEPT !.step = "func", !.i = @ + 1]
  /\ listing' = NoListing
  /\ UNCHANGED <<prog, meant, placed>>

AddPointers(c, i) ==
  LET ps == prog.globals[i].pointers
      addr == [rel |-> FALSE, delta |-> 0]
      added == [n \in DOMAIN ps |-> [kind |-> addr, offset |-> ps[n].at, name |-> ps[n].name]]
  IN  [c EXCEPT !.symbols[GlobalSym(i)].relocs = @ \o added]

DefineGlobal ==
  /\ at.step = "globals" /\ at.i <= Len(prog.globals)
  /\ LET g == prog.globals[at.i]
         fields == [o \in {p.at : p \in Range(g.pointers)} |-> 0]
         c == IF IsExternalVar(at.i) THEN ctx
              ELSE GlobalVarDefine(ctx, GlobalSym(at.i), fields, g.size, g.align)
         here == c.symbols[GlobalSym(at.i)].offset
     IN  /\ ctx' = AddPointers(c, at.i)
         /\ placed' = IF IsExternalVar(at.i) THEN placed
                      ELSE Place(g.name, "data", here)
         /\ meant' = meant \union
              {[section |-> "data", field |-> here + p.at, next |-> 0, target |-> p.name] : p \in Range(g.pointers)}
  /\ at' = [at EXCEPT !.i = @ + 1]
  /\ UNCHANGED <<prog, listing>>

-----------------------------------------------------------------------------
(* jx64_finalize.  The number of symbols was read before the stubs added theirs. *)
EmitStub ==
  /\ at.step = "stubs" /\ at.i <= at.limit
  /\ ctx' = DefineExternal(ctx, at.i)
  /\ at' = [at EXCEPT !.i = @ + 1]
  /\ UNCHANGED <<prog, meant, placed, listing>>

Join ==
  /\ at.step = "stubs" /\ at.i > at.limit
  /\ ctx' = JoinSections(ctx)
  /\ at' = [at EXCEPT !.step = "relocate", !.i = 1, !.j = 1]
  /\ UNCHANGED <<prog, meant, placed, listing>>

Relocs == ctx.symbols[at.i].relocs

Relocate ==
  /\ at.step = "relocate" /\ at.i <= at.limit /\ at.j <= Len(Relocs)
  /\ IF Unresolved(ctx, Relocs[at.j])
     THEN at' = [at EXCEPT !.step = "failed"] /\ UNCHANGED ctx
     ELSE ctx' = ApplyRelocation(ctx, at.i, Relocs[at.j]) /\ at' = [at EXCEPT !.j = @ + 1]
  /\ UNCHANGED <<prog, meant, placed, listing>>

NextSymbol ==
  /\ at.step = "relocate" /\ at.i <= at.limit /\ at.j > Len(Relocs)
  /\ at' = [at EXCEPT !.i = @ + 1, !.j = 1]
  /\ UNCHANGED <<prog, ctx, meant, placed, listing>>

Finish ==
  /\ at.step = "relocate" /\ at.i > at.limit
  /\ at' = [at EXCEPT !.step = "done"]
  /\ UNCHANGED <<prog, ctx, meant, placed, listing>>

Next ==
  \/ DeclareGlobal \/ DeclareFunc \/ NextList
  \/ SkipExternalFunc \/ BeginFunc \/ BeginBlock \/ EndBlock \/ EndFunc
  \/ EmitInstr
  \/ DefineGlobal \/ EmitStub \/ Join \/ Relocate \/ NextSymbol \/ Finish

Spec == Init /\ [][Next]_vars

-----------------------------------------------------------------------------
(* Properties *)

(* The types, and that no write left its section's buffer. *)
TypeOK ==
  /\ at.step \in Steps
  /\ ctx.curFunc \in 0 .. Len(ctx.symbols)
  /\ \A s \in DOMAIN ctx.section :
       /\ ctx.section[s].size <= ctx.section[s].capacity \/ ctx.section[s].size = 0
       /\ DOMAIN ctx.section[s].field \subseteq 0 .. ctx.section[s].size - 1

(* What a machine IR instruction means to the processor: sizes are those of the
   operands' types, constants have the size of what they are combined with.    *)
MeaningOperand(op, size) ==
  CASE op.kind = "reg" -> XReg(op.id, IF IsXMM(op.type) THEN 128 ELSE BitsOf[op.type])
    [] op.kind = "const" ->
         XImm(SubSeq(SignExtend(op.val, BitsOf[op.type] \div 8, 8), 1, size \div 8), size)
    [] op.kind = "float" -> XRip(BitsOf[op.type])
    [] op.kind = "ext" -> XRip(size)
    [] op.kind = "bb" -> XRel
    [] op.kind = "mem" -> XMem(BitsOf[op.type], op.base, op.index,
                              IF op.index = None THEN 0 ELSE LogScale[op.scale], op.disp)

Meaning(instr) ==
  LET a == instr.args
      whole == IF a = <<>> \/ a[1].kind \in {"const", "ext", "bb"} THEN 64 ELSE BitsOf[a[1].type]
      operand(n) == MeaningOperand(a[n], IF instr.op \in {"shl", "shr", "sar"} /\ n = 2 THEN 8 ELSE whole)
      plain == [n \in DOMAIN a |-> operand(n)]
      Is(op, args) == XInstr(op, instr.sse, instr.cc, args)
  IN  CASE instr.op \in {"call", "jmp"} /\ a[1].kind = "ext" -> Is(instr.op, <<XRel>>)
        [] instr.op = "lea" -> Is("lea", <<plain[1], [plain[2] EXCEPT !.size = whole]>>)
        [] instr.op = "movzx" /\ BitsOf[a[2].type] = 32 ->
             Is("mov", <<[plain[1] EXCEPT !.size = 32], plain[2]>>)
        [] instr.op = "imul3" -> Is("imul", plain)
        [] instr.op = "imul" /\ a[2].kind = "const" -> Is("imul", <<plain[1], plain[1], plain[2]>>)
        [] OTHER -> Is(instr.op, plain)

After(read, expected) == IF read.instr = expected THEN read.next ELSE 0

(* The bytes of a function, decoded as the processor does, are the instructions
   of its machine IR, in order and with nothing between them.                *)
ListingDecodes ==
  at.step = "block" /\ at.j > Len(Blocks) =>
    LET read(p, instr) ==
          IF p \in DOMAIN listing.bytes THEN After(Decode(listing.bytes, p), Meaning(instr)) ELSE 0
    IN  FoldLeft(read, 1, listing.instrs) = Len(listing.bytes) + 1

(* From the moment a block is placed every jump to it, emitted before or
   after, in either direction, leads to its first instruction.             *)
BranchesLand ==
  \A m \in meant :
    m.target[1] = "block" /\ m.target \in DOMAIN placed =>
      m.next + ctx.section["text"].field[m.field] = placed[m.target].offset

Reached(m) ==
  IF m.section = "text" THEN m.next + ctx.buffer[m.field]
  ELSE ctx.buffer[ctx.section["data"].start + m.field] - BufferAddress

ReachesPlace(address, place) == address = ctx.section[place.section].start + place.offset
ReachesStub(address, name) ==
  /\ address + 2 \in DOMAIN ctx.buffer
  /\ LET slot == address + 6 + ctx.buffer[address + 2]
     IN  slot \in DOMAIN ctx.buffer /\ ctx.buffer[slot] = ExternalAddress(name)
ReachesSlot(address, name) ==
  address \in DOMAIN ctx.buffer /\ ctx.buffer[address] = ExternalAddress(name)

ExternalVars == {prog.globals[i].name : i \in {g \in GlobalIds : IsExternalVar(g)}}

(* jx64_finalize succeeds, and afterwards every call, every access to data and
   every pointer in a variable reaches what it names: the definition, the stub
   that jumps to the external function, the slot with the external variable's
   address.                                                                *)
ReferencesResolve ==
  at.step \in {"done", "failed", "refused"} =>
    /\ at.step = "done"
    /\ \A m \in meant :
         IF m.target \in DOMAIN placed THEN ReachesPlace(Reached(m), placed[m.target])
         ELSE IF m.target \in ExternalVars THEN ReachesSlot(Reached(m), m.target)
         ELSE ReachesStub(Reached(m), m.target)

Extent(i) == ctx.symbols[i].offset .. (ctx.symbols[i].offset + ctx.symbols[i].size - 1)

(* Outside of a function being emitted, no two symbols of a section overlap,
   and what is relocated in a symbol's name lies within it.                *)
SymbolsDisjoint ==
  ctx.curFunc = NoSymbol =>
    /\ \A i, j \in DOMAIN ctx.symbols :
         i # j /\ SectionOf(ctx.symbols[i].kind) = SectionOf(ctx.symbols[j].kind) =>
           Extent(i) \cap Extent(j) = {}
    /\ \A i \in DOMAIN ctx.symbols : \A r \in Range(ctx.symbols[i].relocs) :
         LET width == IF r.kind.rel THEN 4 + r.kind.delta ELSE 8
         IN  ctx.symbols[i].offset + r.offset + width - 1 \in Extent(i)

(* In the code buffer every variable stands at a multiple of its alignment. *)
VariablesAligned ==
  at.step = "done" =>
    \A i \in GlobalIds : ~IsExternalVar(i) => InBuffer(ctx, GlobalSym(i)) % prog.globals[i].align = 0

(* Sections are laid out so that no symbol disturbs another. *)
LayoutSound == SymbolsDisjoint /\ VariablesAligned
=============================================================================
