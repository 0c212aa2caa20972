----------------------------- MODULE Assembler -----------------------------
(* The assembler's bookkeeping (jit.c): sections that grow while code and data
   are appended, labels whose jumps are patched when they are bound, symbols
   with relocations by name, and jx64_finalize, which adds stubs for what is
   external, joins the sections and applies the relocations.

   A context is a record; every operation of the assembler's interface is an
   operator from a context to the next one.  Of the bytes of a section only the
   fields that are patched or relocated are kept, by offset.  A name is the
   sequence of the parts it is printed from.                                 *)
EXTENDS Integers, Sequences, FiniteSets, FiniteSetsExt, Functions

CONSTANTS
  PageSize,          \* jx_os_vmemGetPageSize()
  Chunk,             \* the least growth of a section's buffer, 256 in the code
  BufferAddress,     \* where the operating system puts the code buffer
  ExternalAddress(_) \* the callback that knows the addresses of external symbols

ASSUME AsmAssumption ==
  PageSize \in Nat \ {0} /\ Chunk \in Nat \ {0} /\ BufferAddress \in Nat

Unbound == -1        \* JX64_LABEL_OFFSET_UNBOUND
NoSymbol == 0
NoField == [o \in {} |-> 0]

(* f with the values of g where g has one. *)
Overwrite(f, g) == [x \in DOMAIN f \union DOMAIN g |-> IF x \in DOMAIN g THEN g[x] ELSE f[x]]

CreateContext ==
  [section |-> [s \in {"text", "data"} |-> [size |-> 0, capacity |-> 0, field |-> NoField, start |-> 0]],
   symbols |-> <<>>, labels |-> <<>>, curFunc |-> NoSymbol, buffer |-> NoField]

SectionOf(kind) == IF kind = "function" THEN "text" ELSE "data"
TextSize(c) == c.section["text"].size

(* Mutant: a section grows by one chunk, whatever has to fit. *)
NewCapacity_OneChunk(sec, n) == sec.capacity + Chunk
NewCapacity(sec, n) == sec.capacity + Max({n, Chunk})

(* n bytes whose fields are "fields", at offsets from the first byte.  When
   they do not fit, a larger buffer takes over the old one's contents.       *)
Grow(sec, fields, n) ==
  LET fits == sec.size + n <= sec.capacity
      kept == Restrict(sec.field, {o \in DOMAIN sec.field : fits \/ o < sec.capacity})
      emitted == [o \in {sec.size + r : r \in DOMAIN fields} |-> fields[o - sec.size]]
  IN  [sec EXCEPT !.size = @ + n,
                  !.capacity = IF fits THEN @ ELSE NewCapacity(sec, n),
                  !.field = Overwrite(kept, emitted)]
EmitBytes(c, s, fields, n) == [c EXCEPT !.section[s] = Grow(@, fields, n)]

-----------------------------------------------------------------------------
(* Labels of the text section. *)

(* n labels. *)
LabelAlloc(c, n) == [c EXCEPT !.labels = @ \o [l \in 1 .. n |-> [offset |-> Unbound, refs |-> {}]]]
FreeLabels(c) == [c EXCEPT !.labels = <<>>]

(* The label of a block, which is bound once: the blocks of a function differ. *)
LabelBind(c, l) ==
  LET here == TextSize(c)
      patches == [o \in {r.disp : r \in c.labels[l].refs} |->
                    here - (CHOOSE r \in c.labels[l].refs : r.disp = o).next]
  IN  [c EXCEPT !.labels[l].offset = here,
                !.section["text"].field = Overwrite(@, patches)]

(* Mutant: every jump is five bytes long. *)
LabelRef_FiveBytes(c, opcode) == [disp |-> TextSize(c) + opcode, next |-> TextSize(c) + 5]
LabelRef(c, opcode) == [disp |-> TextSize(c) + opcode, next |-> TextSize(c) + opcode + 4]

(* A jump to a label: "opcode" bytes and a 32 bit displacement, known already
   when the label is bound and otherwise a reference for LabelBind.          *)
JumpToLabel(c, l, opcode) ==
  LET bound == c.labels[l].offset # Unbound
      size == opcode + 4
      disp == IF bound THEN c.labels[l].offset - TextSize(c) - size ELSE -size
  IN  EmitBytes([c EXCEPT !.labels[l].refs = IF bound THEN @ ELSE @ \union {LabelRef(c, opcode)}],
                "text", [o \in {opcode} |-> disp], size)

-----------------------------------------------------------------------------
(* Symbols. *)

Declare(c, kind, name) ==
  [c EXCEPT !.symbols = Append(@, [kind |-> kind, name |-> name, size |-> 0,
                                   offset |-> Unbound, relocs |-> <<>>])]

SymbolGetByName(c, name) ==
  LET named == {i \in DOMAIN c.symbols : c.symbols[i].name = name}
  IN  IF named = {} THEN NoSymbol ELSE Min(named)

SymbolAddRelocation(c, sym, kind, offset, name) ==
  [c EXCEPT !.symbols[sym].relocs = Append(@, [kind |-> kind, offset |-> offset, name |-> name])]

AlignedPos(pos, alignment) == ((pos + alignment - 1) \div alignment) * alignment

GlobalVarDefine(c, gv, fields, sz, alignment) ==
  LET pos == c.section["data"].size
      aligned == AlignedPos(pos, alignment)
      padded == IF aligned = pos THEN c ELSE EmitBytes(c, "data", NoField, aligned - pos)
  IN  EmitBytes([padded EXCEPT !.symbols[gv].offset = padded.section["data"].size,
                               !.symbols[gv].size = sz],
                "data", fields, sz)

FuncBegin(c, func) ==
  IF c.curFunc # NoSymbol THEN c
  ELSE [c EXCEPT !.symbols[func].offset = TextSize(c), !.curFunc = func]

(* Mutant: the size of the section. *)
FuncSize_Section(c, func) == TextSize(c)
FuncSize(c, func) == TextSize(c) - c.symbols[func].offset

FuncEnd(c) ==
  IF c.curFunc = NoSymbol THEN c
  ELSE [c EXCEPT !.symbols[c.curFunc].size = FuncSize(c, c.curFunc),
                 !.curFunc = NoSymbol]

(* Mutant: the field is taken for the last one of the instruction. *)
RelocDelta_Last(imm) == 0

(* How far the end of an instruction is from the end of its displacement:
   the k of JX64_RELOC_REL32_k.                                              *)
RelocDelta(imm) == imm

(* An instruction that names a symbol: "opcode" bytes, a displacement relative
   to the end of the instruction, "imm" bytes of an immediate.               *)
UseSymbol(c, sym, opcode, imm) ==
  LET at == TextSize(c) - c.symbols[c.curFunc].offset + opcode
      kind == [rel |-> TRUE, delta |-> RelocDelta(imm)]
  IN  EmitBytes(SymbolAddRelocation(c, c.curFunc, kind, at, c.symbols[sym].name),
                "text", [o \in {opcode} |-> 0], opcode + 4 + imm)

-----------------------------------------------------------------------------
(* jx64_finalize. *)

IATName(name) == <<"__iat_">> \o name
IATEntry(c, name) ==
  GlobalVarDefine(Declare(c, "variable", IATName(name)), Len(c.symbols) + 1,
                  [o \in {0} |-> ExternalAddress(name)], 8, 8)

(* An external function gets a variable with its address and a stub that jumps
   through it; an external variable becomes a variable with its address.     *)
DefineExternal(c, sym) ==
  LET name == c.symbols[sym].name
      iat == IATEntry(c, name)
  IN  IF c.symbols[sym].size # 0 THEN c
      ELSE IF c.symbols[sym].kind = "function"
           THEN FuncEnd(UseSymbol(FuncBegin(iat, sym), Len(iat.symbols), 2, 0))
           ELSE GlobalVarDefine(c, sym, [o \in {0} |-> ExternalAddress(name)], 8, 8)

DataStart(c) == AlignedPos(TextSize(c), PageSize)

JoinSections(c) ==
  LET start == [s \in {"text", "data"} |-> IF s = "text" THEN 0 ELSE DataStart(c)]
      moved(s) == {start[s] + o : o \in DOMAIN c.section[s].field}
  IN  [c EXCEPT !.section = [s \in DOMAIN @ |-> [@[s] EXCEPT !.start = start[s]]],
                !.buffer = [o \in moved("text") \union moved("data") |->
                              IF o < start["data"] THEN c.section["text"].field[o]
                              ELSE c.section["data"].field[o - start["data"]]]]

InBuffer(c, sym) == c.section[SectionOf(c.symbols[sym].kind)].start + c.symbols[sym].offset

(* Unresolved external symbol: jx64_finalize gives up. *)
Unresolved(c, reloc) ==
  LET ref == SymbolGetByName(c, reloc.name)
  IN  ref = NoSymbol \/ c.symbols[ref].offset = Unbound

ApplyRelocation(c, sym, reloc) ==
  LET target == InBuffer(c, SymbolGetByName(c, reloc.name))
      patch == InBuffer(c, sym) + reloc.offset
  IN  [c EXCEPT !.buffer[patch] =
         IF reloc.kind.rel THEN @ + target - (patch + 4 + reloc.kind.delta)
         ELSE BufferAddress + target]
=============================================================================
