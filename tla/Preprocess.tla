----------------------------- MODULE Preprocess -----------------------------
(* The preprocessor (jcc_preprocess in jcc.c): macros are expanded and
   directives obeyed in one pass over a list of tokens, which expansions and
   included files lengthen at its front.

   A token is [k, s, hs, bol, sp, file]: its kind, its spelling as the tuple of
   the parts it was pasted from, its hide set, whether it begins a line, whether
   a space precedes it, its file.  A list ends with an EOF token.  Names that
   are keywords of the language are not identifiers, and no macro can have them.

   The tokenizer is left out, but for what it makes of two pasted tokens.  What
   the compiler does not implement (#include_next, #include with a macro, other
   pragmas, the GNU forms of variadic macros) is not in the programs, nor are
   directives among the arguments of a macro, which C leaves undefined.       *)
EXTENDS Integers, Sequences, FiniteSets, SequencesExt, Functions, TLC

CONSTANTS
  Programs,      \* [main, files]: the tokens of the main file and of those it includes, by path
  Here,          \* the directory of the main file
  IncludeDirs    \* m_IncludePathsArr

VARIABLES
  prog,
  tok,           \* what is left to read
  out,           \* what was emitted
  macros,        \* m_MacroMap: by name, [obj, params, va, body]
  conds,         \* m_CondIncludeListHead: the innermost #if first
  once,          \* m_PragmaOnceMap
  guards,        \* m_IncludeFileGuardMap: a path's include guard
  phase,
  errors         \* m_NumErrors # 0
vars == <<prog, tok, out, macros, conds, once, guards, phase, errors>>

Token(k, s, bol, sp, file) == [k |-> k, s |-> s, hs |-> {}, bol |-> bol, sp |-> sp, file |-> file]
EOF == Token("EOF", <<>>, FALSE, FALSE, <<>>)
NoName == <<>>

IsHash(t) == t.k = "hash" /\ t.bol
Drop(ts, n) == SubSeq(ts, n + 1, Len(ts))
AllBut(ts) == SubSeq(ts, 1, Len(ts) - 1)       \* a list without its EOF
WithFlags(ts, t) == <<[ts[1] EXCEPT !.bol = t.bol, !.sp = t.sp]>> \o Tail(ts)

(* Up to the token that begins the next line. *)
LineLength(ts) == SelectInSeq(ts, LAMBDA t : t.bol) - 1
SkipLine(ts) == Drop(ts, LineLength(ts))
(* Mutant: the copy has no EOF token. *)
CopyLine_NoEOF(ts) == SubSeq(ts, 1, LineLength(ts))
CopyLine(ts) == Append(SubSeq(ts, 1, LineLength(ts)), EOF)

-----------------------------------------------------------------------------
(* Macro expansion. *)

FindMacro(ms, t) == t.k = "id" /\ t.s \in DOMAIN ms

AddHideSet(ts, hs) == [i \in DOMAIN ts |-> [ts[i] EXCEPT !.hs = @ \union hs]]

FindArg(args, t) == SelectInSeq(args, LAMBDA a : a.name = t.s)

(* The argument at the head of a list: where its end is, 0 when the list ends first. *)
Level(ts, i) == Cardinality({j \in 1 .. i - 1 : ts[j].k = "lp"}) - Cardinality({j \in 1 .. i - 1 : ts[j].k = "rp"})
ArgEnds(ts, rest) == {i \in DOMAIN ts : Level(ts, i) = 0 /\ (ts[i].k = "rp" \/ (~rest /\ ts[i].k = "comma"))}
ReadMacroArg(ts, name, rest) ==
  LET ends == ArgEnds(ts, rest)
      end == IF ends = {} THEN 0 ELSE CHOOSE i \in ends : \A j \in ends : i <= j
  IN  [arg |-> [name |-> name, toks |-> Append(SubSeq(ts, 1, end - 1), EOF)],
       rest |-> Drop(ts, end - 1), bad |-> end = 0]

(* The arguments of a call: [args, rest, bad].  rest begins with the closing
   parenthesis; after an error it is NoCall.  A list that ends within the call is
   "crash": what jcc_ppReadMacroArg returns then is used all the same.         *)
NoCall(why) == [args |-> <<>>, rest |-> <<>>, bad |-> {why}, done |-> TRUE]
Read(s, read, last) ==
  IF read.bad THEN NoCall("crash")
  ELSE [s EXCEPT !.args = Append(@, read.arg), !.rest = read.rest, !.done = last]
ReadMacroArgsStep(m, s) ==
  LET n == Len(s.args) + 1
      next == IF n > 1 THEN Tail(s.rest) ELSE s.rest
      close == s.rest[1].k = "rp"
  IN  CASE n <= Len(m.params) ->
             IF n > 1 /\ s.rest[1].k # "comma" THEN NoCall("error")
             ELSE Read(s, ReadMacroArg(next, m.params[n], FALSE), FALSE)
        [] n > Len(m.params) /\ m.va = NoName -> IF close THEN [s EXCEPT !.done = TRUE] ELSE NoCall("error")
        [] n > Len(m.params) /\ m.va # NoName /\ close ->
             [s EXCEPT !.args = Append(@, [name |-> m.va, toks |-> <<EOF>>]), !.done = TRUE]
        [] OTHER -> Read(s, ReadMacroArg(next, m.va, TRUE), TRUE)
RECURSIVE ReadMacroArgsFrom(_, _)
ReadMacroArgsFrom(m, s) == IF s.done THEN s ELSE ReadMacroArgsFrom(m, ReadMacroArgsStep(m, s))
ReadMacroArgs(m, ts) == ReadMacroArgsFrom(m, [args |-> <<>>, rest |-> ts, bad |-> {}, done |-> FALSE])

(* What the tokenizer makes of two tokens written together: an identifier, a
   number, or two tokens, which the code does not expect.                    *)
Pasted(lhs, rhs) ==
  CASE lhs.k = "id" /\ rhs.k \in {"id", "num"} -> "id"
    [] lhs.k = "num" /\ rhs.k \in {"id", "num"} -> "num"
    [] OTHER -> "invalid"
Paste(lhs, rhs) == Token(Pasted(lhs, rhs), lhs.s \o rhs.s, TRUE, FALSE, lhs.file)

JoinTokens(ts) == [i \in 1 .. Len(ts) - 1 |-> <<ts[i].s, i # 1 /\ ts[i].sp>>]
Stringize(hash, ts) == Token("str", <<"string", JoinTokens(ts)>>, FALSE, FALSE, hash.file)

DirectiveNames == {"include", "include_next", "define", "undef", "ifdef", "ifndef", "elif", "endif",
                   "pragma", "once", "error", "defined"}
AsIdentifiers(ts) == [i \in DOMAIN ts |-> IF ts[i].k \in DirectiveNames THEN [ts[i] EXCEPT !.k = "id"] ELSE ts[i]]

(* What an attempt to expand the head of a list comes to: [done, toks, rest, bad],
   rest being how many tokens of the list are left behind the expansion.      *)
Refused(ts) == [done |-> FALSE, toks |-> ts, rest |-> Len(ts), bad |-> {}]
Crash(ts, bad) == [done |-> TRUE, toks |-> ts, rest |-> Len(ts), bad |-> bad \union {"crash"}]
Expansion(ts, body, hs, rest, bad) ==
  [done |-> TRUE, toks |-> WithFlags(AllBut(AddHideSet(body, hs)) \o rest, ts[1]), rest |-> Len(rest), bad |-> bad]

(* Mutant: the hide set of a call is that of both its ends together. *)
CallHideSet_Union(t, rparen) == t.hs \union rparen.hs \union {t.s}
CallHideSet(t, rparen) == (t.hs \cap rparen.hs) \union {t.s}

(* Expanding a macro substitutes its parameters, whose arguments are preprocessed. *)
RECURSIVE ExpandMacro(_, _), Substitute(_, _), PreprocessList(_, _, _)

(* After a wrong number of arguments the name is replaced as if it had none. *)
ExpandCall(ts, m, call, ms) ==
  LET rest == IF call.bad = {} THEN call.rest ELSE ts
      body == Substitute([b |-> m.body, args |-> call.args, out |-> <<>>, bad |-> call.bad], ms)
  IN  IF "crash" \in call.bad \union body.bad THEN Crash(ts, call.bad)
      ELSE Expansion(ts, Append(body.out, EOF), CallHideSet(ts[1], rest[1]), Tail(rest), body.bad)

ExpandMacro(ts, ms) ==
  LET t == ts[1]
      m == ms[t.s]
  IN  IF t.s \in t.hs \/ ~FindMacro(ms, t) THEN Refused(ts)
      ELSE IF m.obj THEN Expansion(ts, m.body, t.hs \union {t.s}, Tail(ts), {})
      ELSE IF ts[2].k # "lp" THEN Refused(ts)
      ELSE ExpandCall(ts, m, ReadMacroArgs(m, Drop(ts, 2)), ms)

(* jcc_preprocess of a list without directives: s is [ts, left, out, mark, kept, bad].
   The tokens it emits are relinked in place, so a list that is preprocessed is
   afterwards what precedes the first that was emitted, the "kept"-th, and what
   was emitted from there (the mark) on.  "left" counts the tokens of the list,
   which are the last ones of ts.                                             *)
Start(ts) == [ts |-> ts, left |-> Len(ts), out |-> <<>>, mark |-> 0, kept |-> Len(ts), bad |-> {}]
Emitted(s, n) ==
  LET first == s.mark = 0 /\ Len(s.ts) = s.left
  IN  [s EXCEPT !.ts = Tail(s.ts), !.out = Append(@, s.ts[1]),
                !.left = IF Len(s.ts) = s.left THEN @ - 1 ELSE @,
                !.mark = IF first THEN Len(s.out) + 1 ELSE @,
                !.kept = IF first THEN n - s.left + 1 ELSE @]
ListStep(s, n, e) ==
  IF e.done THEN [s EXCEPT !.ts = e.toks, !.bad = @ \union e.bad,
                           !.left = IF e.rest < @ THEN e.rest ELSE @]
  ELSE Emitted(s, n)
PreprocessList(s, n, ms) ==
  IF "crash" \in s.bad THEN s
  ELSE IF s.ts[1].k = "EOF" THEN LET f == Emitted(s, n) IN [f EXCEPT !.out = AsIdentifiers(@)]
  ELSE PreprocessList(ListStep(s, n, ExpandMacro(s.ts, ms)), n, ms)
Preprocessed(ts, ms) == PreprocessList(Start(ts), Len(ts), ms)

(* What takes the place of the last token emitted and of "##" and b. *)
PastedWith(last, b, raw, isArg) ==
  CASE ~isArg -> <<Paste(last, b)>>
    [] isArg /\ raw = <<>> -> <<last>>
    [] OTHER -> <<Paste(last, raw[1])>> \o Tail(raw)

(* A parameter that is neither stringized nor pasted: its argument, preprocessed. *)
Plain(s, arg, p) ==
  LET flagged == WithFlags(p.out, s.b[1])
      list == SubSeq(s.args[arg].toks, 1, p.kept - 1) \o Drop(flagged, p.mark - 1)
  IN  [b |-> Tail(s.b), args |-> [s.args EXCEPT ![arg].toks = list],
       out |-> s.out \o AllBut(flagged), bad |-> s.bad \union p.bad]

(* The loop over a macro's body: s is what is left of it, the arguments, what was
   made of what precedes it.                                                  *)
SubstituteStep(s, ms) ==
  LET b == s.b
      arg(n) == FindArg(s.args, b[n])
      raw(n) == IF arg(n) = 0 THEN <<b[n]>> ELSE AllBut(s.args[arg(n)].toks)
      parameter == b[1].k \notin {"hash", "hashhash"} /\ arg(1) # 0
      to(n, toks) == [s EXCEPT !.b = Drop(b, n), !.out = toks]
      pasted == PastedWith(Last(s.out), b[2], raw(2), arg(2) # 0)
      crash == [s EXCEPT !.bad = @ \union {"crash"}]
  IN  CASE b[1].k = "hash" ->
             IF arg(2) = 0 THEN crash ELSE to(2, Append(s.out, Stringize(b[1], s.args[arg(2)].toks)))
        [] b[1].k = "hashhash" ->
             IF s.out = <<>> \/ b[2].k = "EOF" THEN crash
             ELSE IF pasted[1].k = "invalid" THEN crash ELSE to(2, Front(s.out) \o pasted)
        [] parameter /\ b[2].k = "hashhash" ->
             IF raw(1) # <<>> THEN to(1, s.out \o raw(1)) ELSE to(3, s.out \o raw(3))
        [] parameter /\ b[2].k # "hashhash" -> Plain(s, arg(1), Preprocessed(s.args[arg(1)].toks, ms))
        [] OTHER -> to(1, Append(s.out, b[1]))
Substitute(s, ms) ==
  IF s.b[1].k = "EOF" \/ "crash" \in s.bad THEN s ELSE Substitute(SubstituteStep(s, ms), ms)

-----------------------------------------------------------------------------
(* Directives. *)

(* The tokens of a parameter list, from after the "(": [params, va, rest]. *)
RECURSIVE ReadMacroParams(_, _)
ReadMacroParams(ts, params) ==
  LET next == IF params # <<>> /\ ts[1].k = "comma" THEN Tail(ts) ELSE ts
  IN  CASE ts[1].k = "rp" -> [params |-> params, va |-> NoName, rest |-> Tail(ts)]
        [] next[1].k = "ellipsis" -> [params |-> params, va |-> <<"__VA_ARGS__">>, rest |-> Drop(next, 2)]
        [] OTHER -> ReadMacroParams(Tail(next), Append(params, next[1].s))

(* From the name on: [name, macro, rest]. *)
ReadMacroDefinition(ts) ==
  LET funcLike == ts[2].k = "lp" /\ ~ts[2].sp
      read == IF funcLike THEN ReadMacroParams(Drop(ts, 2), <<>>)
              ELSE [params |-> <<>>, va |-> NoName, rest |-> Tail(ts)]
  IN  [name |-> ts[1].s, rest |-> SkipLine(read.rest),
       macro |-> [obj |-> ~funcLike, params |-> read.params, va |-> read.va, body |-> CopyLine(read.rest)]]

(* "defined X" and "defined(X)" become numbers. *)
Number(n) == Token("num", <<n>>, FALSE, FALSE, <<>>)
RECURSIVE ReplaceDefined(_, _)
ReplaceDefined(ts, ms) ==
  LET paren == ts[2].k = "lp"
      name == IF paren THEN ts[3] ELSE ts[2]
  IN  CASE ts[1].k = "EOF" -> ts
        [] ts[1].k = "defined" ->
             <<Number(IF FindMacro(ms, name) THEN "1" ELSE "0")>> \o ReplaceDefined(Drop(ts, IF paren THEN 4 ELSE 2), ms)
        [] OTHER -> <<ts[1]>> \o ReplaceDefined(Tail(ts), ms)

(* The value of a condition: "!" binds closest, then "==", "&&", "||". *)
Split(ts, op) == {i \in DOMAIN ts : ts[i].k = op /\ Level(ts, i) = 0}
LowestOp(ts) ==
  CASE Split(ts, "oror") # {} -> "oror"
    [] Split(ts, "oror") = {} /\ Split(ts, "andand") # {} -> "andand"
    [] Split(ts, "oror") = {} /\ Split(ts, "andand") = {} /\ Split(ts, "eq") # {} -> "eq"
    [] OTHER -> ts[1].k
LastOf(S) == CHOOSE i \in S : \A j \in S : j <= i
OperandsOf(ts, op) ==
  CASE op \in {"oror", "andand", "eq"} ->
         LET at == LastOf(Split(ts, op)) IN <<SubSeq(ts, 1, at - 1), Drop(ts, at)>>
    [] op = "not" -> <<Tail(ts)>>
    [] op = "lp" -> <<SubSeq(ts, 2, Len(ts) - 1)>>
    [] OTHER -> <<>>
Bit(b) == IF b THEN 1 ELSE 0
RECURSIVE Value(_)
Value(ts) ==
  LET op == LowestOp(ts)
      operands == OperandsOf(ts, op)
      v == [i \in DOMAIN operands |-> Value(operands[i])]
  IN  CASE op = "oror" -> Bit(v[1] # 0 \/ v[2] # 0)
        [] op = "andand" -> Bit(v[1] # 0 /\ v[2] # 0)
        [] op = "eq" -> Bit(v[1] = v[2])
        [] op = "not" -> Bit(v[1] = 0)
        [] op = "lp" -> v[1]
        [] op = "num" -> CHOOSE n \in 0 .. 9 : ts[1].s = <<ToString(n)>>
        [] op = "id" -> 0

(* The condition of #if and #elif, ts beginning with that word: [value, rest]. *)
EvalConstExpression(ts, ms) ==
  [value |-> Value(AllBut(Preprocessed(ReplaceDefined(CopyLine(Tail(ts)), ms), ms).out)),
   rest |-> SkipLine(Tail(ts))]

Opens == {"if", "ifdef", "ifndef"}
HashAt(ts, i, kinds) == i < Len(ts) /\ IsHash(ts[i]) /\ ts[i + 1].k \in kinds
HashThen(ts, kinds) == HashAt(ts, 1, kinds)

(* Up to the next #elif, #else or #endif of this #if, over those within it. *)
DirectivesIn(ts, n, kinds) == Cardinality({i \in 1 .. n : HashAt(ts, i, kinds)})
(* Mutant: those of an #if within it are taken for its own. *)
OwnBranch_Any(ts, i) == HashAt(ts, i, {"elif", "else", "endif"})
OwnBranch(ts, i) ==
  HashAt(ts, i, {"elif", "else", "endif"}) /\ DirectivesIn(ts, i - 1, Opens) = DirectivesIn(ts, i - 1, {"endif"})
SkipConditionalInclude(ts) ==
  LET own == {i \in DOMAIN ts : OwnBranch(ts, i)}
  IN  IF own = {} THEN <<Last(ts)>> ELSE Drop(ts, (CHOOSE i \in own : \A j \in own : i <= j) - 1)

(* #ifndef G, #define G, and an #endif that ends the file: G.  Whether it is the
   one of the #ifndef is not asked.                                           *)
DetectIncludeGuard(ts) ==
  IF /\ HashThen(ts, {"ifndef"}) /\ ts[3].k = "id"
     /\ HashAt(ts, 4, {"define"}) /\ ts[6].s = ts[3].s
     /\ HashAt(ts, Len(ts) - 2, {"endif"})
  THEN ts[3].s ELSE NoName

(* "name" or <name>, from after #include: [name, quoted, rest]. *)
ReadIncludeFilename(ts) ==
  LET close == SelectInSeq(ts, LAMBDA t : t.k = "gt")
  IN  IF ts[1].k = "str" THEN [name |-> ts[1].s, quoted |-> TRUE, rest |-> SkipLine(Tail(ts))]
      ELSE [name |-> ts[2].s, quoted |-> FALSE, rest |-> SkipLine(Drop(ts, close))]

(* A quoted name is looked for where the main file is, then as any other. *)
IncludePath(name, quoted) ==
  LET dirs == (IF quoted THEN <<Here>> ELSE <<>>) \o IncludeDirs
      found == SelectInSeq(dirs, LAMBDA d : <<d, name>> \in DOMAIN prog.files)
  IN  IF found = 0 THEN name ELSE <<dirs[found], name>>

-----------------------------------------------------------------------------
Init ==
  /\ prog \in Programs
  /\ tok = prog.main
  /\ out = <<>> /\ macros = [n \in {} |-> 0] /\ conds = <<>>
  /\ once = {} /\ guards = [p \in {} |-> 0]
  /\ phase = "run" /\ errors = FALSE

(* One round of the loop: an expansion, a token emitted, or a directive. *)
AtExpansion == phase = "run" /\ tok[1].k # "EOF" /\ ExpandMacro(tok, macros).done
At(kind) == phase = "run" /\ HashThen(tok, {kind})
AtName == tok[3].k = "id"

Expand ==
  /\ AtExpansion
  /\ LET e == ExpandMacro(tok, macros)
     IN  /\ tok' = e.toks
         /\ errors' = (errors \/ e.bad # {})
         /\ phase' = IF "crash" \in e.bad THEN "crashed" ELSE "run"
  /\ UNCHANGED <<prog, out, macros, conds, once, guards>>

Emit ==
  /\ phase = "run" /\ tok[1].k # "EOF" /\ ~IsHash(tok[1])
  /\ ~AtExpansion
  /\ out' = Append(out, tok[1]) /\ tok' = Tail(tok)
  /\ UNCHANGED <<prog, macros, conds, once, guards, phase, errors>>

Fail ==
  /\ phase' = "failed" /\ errors' = TRUE
  /\ UNCHANGED <<prog, tok, out, macros, conds, once, guards>>

(* A file that is not there is an error; one that was read and protects itself
   is not read again.                                                         *)
GuardDefined(path) == path \in DOMAIN guards /\ guards[path] \in DOMAIN macros
(* Mutant: #pragma once is not looked at. *)
ReadBefore_Guard(path) == GuardDefined(path)
ReadBefore(path) == path \in once \/ GuardDefined(path)
IncludeFile(path, rest) ==
  IF ReadBefore(path)
  THEN tok' = rest /\ UNCHANGED <<prog, out, macros, conds, once, guards, phase, errors>>
  ELSE IF path \notin DOMAIN prog.files THEN Fail
  ELSE LET file == prog.files[path]
           guard == DetectIncludeGuard(file)
       IN  /\ tok' = AllBut(file) \o rest
           /\ guards' = IF guard = NoName THEN guards
                        ELSE [p \in DOMAIN guards \union {path} |-> IF p = path THEN guard ELSE guards[p]]
           /\ UNCHANGED <<prog, out, macros, conds, once, phase, errors>>
Include ==
  /\ At("include")
  /\ LET f == ReadIncludeFilename(Drop(tok, 2))
     IN  IncludeFile(IncludePath(f.name, f.quoted), f.rest)

Define ==
  /\ At("define")
  /\ IF ~AtName THEN Fail
     ELSE LET d == ReadMacroDefinition(Drop(tok, 2))
          IN  /\ macros' = [n \in DOMAIN macros \union {d.name} |-> IF n = d.name THEN d.macro ELSE macros[n]]
              /\ tok' = d.rest
              /\ UNCHANGED <<prog, out, conds, once, guards, phase, errors>>

Undef ==
  /\ At("undef")
  /\ IF ~AtName THEN Fail
     ELSE /\ macros' = Restrict(macros, DOMAIN macros \ {tok[3].s})
          /\ tok' = SkipLine(Drop(tok, 3))
          /\ UNCHANGED <<prog, out, conds, once, guards, phase, errors>>

(* A new #if: what follows is read or skipped. *)
Enter(included, rest) ==
  /\ conds' = <<[ctx |-> "then", included |-> included]>> \o conds
  /\ tok' = IF included THEN rest ELSE SkipConditionalInclude(rest)
  /\ UNCHANGED <<prog, out, macros, once, guards, phase, errors>>

If == At("if") /\ LET e == EvalConstExpression(Tail(tok), macros) IN Enter(e.value # 0, e.rest)
Ifdef == At("ifdef") /\ Enter(FindMacro(macros, tok[3]), SkipLine(Drop(tok, 3)))
Ifndef == At("ifndef") /\ Enter(~FindMacro(macros, tok[3]), SkipLine(Drop(tok, 3)))

Stray == conds = <<>> \/ conds[1].ctx = "else"

ElifTaken(included, ts) == ~included /\ EvalConstExpression(ts, macros).value # 0

Elif ==
  /\ At("elif")
  /\ IF Stray THEN Fail
     ELSE LET taken == ElifTaken(conds[1].included, Tail(tok))
              from == IF conds[1].included THEN Tail(tok) ELSE SkipLine(Drop(tok, 2))
          IN  /\ conds' = [conds EXCEPT ![1] = [ctx |-> "elif", included |-> @.included \/ taken]]
              /\ tok' = IF taken THEN SkipLine(Drop(tok, 2)) ELSE SkipConditionalInclude(from)
              /\ UNCHANGED <<prog, out, macros, once, guards, phase, errors>>

Else ==
  /\ At("else")
  /\ IF Stray THEN Fail
     ELSE /\ conds' = [conds EXCEPT ![1].ctx = "else"]
          /\ tok' = IF conds[1].included THEN SkipConditionalInclude(SkipLine(Drop(tok, 2)))
                    ELSE SkipLine(Drop(tok, 2))
          /\ UNCHANGED <<prog, out, macros, once, guards, phase, errors>>

Endif ==
  /\ At("endif")
  /\ IF conds = <<>> THEN Fail
     ELSE /\ conds' = Tail(conds) /\ tok' = SkipLine(Drop(tok, 2))
          /\ UNCHANGED <<prog, out, macros, once, guards, phase, errors>>

PragmaOnce ==
  /\ At("pragma") /\ tok[3].k = "once"
  /\ once' = once \union {tok[2].file}
  /\ tok' = SkipLine(Drop(tok, 3))
  /\ UNCHANGED <<prog, out, macros, conds, guards, phase, errors>>

Error == At("error") /\ Fail

(* "#" alone on a line is legal, before anything else an error; the "#" goes. *)
Directives == Opens \union {"include", "define", "undef", "elif", "else", "endif", "pragma", "error"}
NullDirective ==
  /\ phase = "run" /\ IsHash(tok[1]) /\ tok[2].k \notin Directives
  /\ tok' = Tail(tok)
  /\ errors' = (errors \/ ~tok[2].bol)
  /\ UNCHANGED <<prog, out, macros, conds, once, guards, phase>>

(* What is left of the words of directives are identifiers. *)
Finish ==
  /\ phase = "run" /\ tok[1].k = "EOF"
  /\ out' = AsIdentifiers(out) /\ phase' = "done"
  /\ UNCHANGED <<prog, tok, macros, conds, once, guards, errors>>

Next == Expand \/ Emit \/ Include \/ Define \/ Undef \/ If \/ Ifdef \/ Ifndef \/ Elif \/ Else \/ Endif
          \/ PragmaOnce \/ Error \/ NullDirective \/ Finish
Spec == Init /\ [][Next]_vars

(* The loop goes on while the phase is "run".  (For a Next that always changes
   something this is its weak fairness, which takes TLC much longer.)         *)
FairSpec == Spec /\ (<>[](phase # "run") \/ []<><<TRUE>>_vars)

-----------------------------------------------------------------------------
(* Properties.  A program's "meaning" is what the C standard says: whether it
   is in error, and otherwise the text that is left of it.                     *)

TypeOK ==
  /\ phase \in {"run", "done", "failed", "crashed"}
  /\ tok # <<>> /\ Last(tok).k = "EOF" /\ \A i \in 1 .. Len(tok) - 1 : tok[i].k # "EOF"
  /\ \A n \in DOMAIN macros : macros[n].body # <<>> /\ Last(macros[n].body).k = "EOF"
  /\ \A i \in DOMAIN conds : conds[i].ctx \in {"then", "elif", "else"}

(* A program is rejected where it is in error and nowhere else, and what is left
   of it is what the standard says: macros expanded, arguments and pasted tokens
   included, each as often as it must be and none within itself; the groups read
   whose conditions hold; files once or again as they ask for.                *)
OutputAsStandard ==
  phase # "run" =>
    IF prog.meaning.error THEN phase = "failed" /\ errors
    ELSE phase = "done" /\ ~errors /\ [i \in DOMAIN out |-> out[i].s] = prog.meaning.text

(* At all times the #endifs ahead that no #if ahead goes with are those of the
   conditionals that were entered, whatever was skipped, included or expanded. *)
Ahead(kinds) == Cardinality({i \in 1 .. Len(tok) - 1 : IsHash(tok[i]) /\ tok[i + 1].k \in kinds})
ConditionalsBalanced == phase = "run" => Ahead({"endif"}) = Ahead(Opens) + Len(conds)

(* The preprocessor ends, though every expansion may contain macros again. *)
Termination == <>(phase # "run")
=============================================================================
