----------------------------- MODULE StandardC -----------------------------
(* What a preprocessing file means, after the C standard (6.10) and not after
   the compiler.  A file is a sequence of groups: lines of text and directives,
   and conditionals that hold groups.  Macros are expanded by Prosser's
   algorithm, the one the standard was written from: every token carries the
   names of the macros it came from.

   A group is [is, ...]:  text toks;  define name, obj, params, va, body;
   undef name;  cond branches;  include path, quoted;  once;  null;  error;
   stray: an #else or #elif without an #if.
   Branches are [test, groups], the test of #else being <<1>>; a test is written
   as "defined", "undefined" or "tokens" and what follows.                   *)
EXTENDS Integers, Sequences, FiniteSets, SequencesExt, Functions

Word(k, s, sp) == [k |-> k, s |-> s, sp |-> sp, from |-> {}]
Mark == Word("mark", <<>>, FALSE)             \* a placemarker: an empty argument of ##
Invalid == Word("invalid", <<"invalid">>, FALSE)   \* what the standard gives no meaning
Spelled(ts) == [i \in DOMAIN ts |-> ts[i].s]

LOCAL From(ts, i) == SubSeq(ts, i, Len(ts))
LOCAL NestingAt(ts, i) ==
  Cardinality({j \in 1 .. i : ts[j].k = "lp"}) - Cardinality({j \in 1 .. i : ts[j].k = "rp"})
LOCAL Least(S) == CHOOSE i \in S : \A j \in S : i <= j

(* The call "(...)" that ts begins with: where it ends and its arguments. *)
LOCAL Closed(ts) == \E i \in DOMAIN ts : NestingAt(ts, i) = 0
LOCAL CallEnd(ts) == Least({i \in DOMAIN ts : NestingAt(ts, i) = 0})
LOCAL Commas(ts) == {i \in 1 .. CallEnd(ts) : ts[i].k = "comma" /\ NestingAt(ts, i) = 1}
LOCAL RightNumber(ts, m) ==
  IF m.va # <<>> THEN Cardinality(Commas(ts)) >= Len(m.params) - 1
  ELSE Cardinality(Commas(ts)) = Len(m.params) - 1 \/ (m.params = <<>> /\ CallEnd(ts) = 2)
LOCAL Cut(ts, S, n) ==                       \* the n-th piece between the places of S
  LET at(k) == CHOOSE i \in S : Cardinality({j \in S : j < i}) = k
  IN  SubSeq(ts, at(n - 1) + 1, at(n) - 1)
LOCAL Actual(ts, m, n) ==
  LET places == Commas(ts) \union {1, CallEnd(ts)}
  IN  IF n <= Len(m.params) THEN Cut(ts, places, n)
      ELSE IF Cardinality(Commas(ts)) < Len(m.params) THEN <<>>
      ELSE SubSeq(ts, Least({i \in places : Cardinality({j \in places : j < i}) = Len(m.params)}) + 1, CallEnd(ts) - 1)

LOCAL Stringified(ts) ==
  Word("str", <<"string", [i \in DOMAIN ts |-> <<ts[i].s, i # 1 /\ ts[i].sp>>]>>, FALSE)
LOCAL Together(l, r) ==
  IF l.k = "mark" THEN r ELSE IF r.k = "mark" THEN l
  ELSE IF l.k \in {"id", "num"} /\ r.k \in {"id", "num"} THEN Word(l.k, l.s \o r.s, l.sp) ELSE Invalid

LOCAL Spaced(ts, sp) == IF ts = <<>> THEN ts ELSE <<[ts[1] EXCEPT !.sp = sp]>> \o Tail(ts)

RECURSIVE Expansion(_, _)

(* 6.10.3.1 to 3: the body with its parameters replaced, and then its pastes made. *)
LOCAL Replaced(m, body, i, actual, ms) ==
  LET names == IF m.va = <<>> THEN m.params ELSE Append(m.params, m.va)
      n(j) == IF j \in DOMAIN body THEN SelectInSeq(names, LAMBDA x : x = body[j].s) ELSE 0
      raw == actual[n(i)]
      pasted == (i > 1 /\ body[i - 1].k = "hashhash") \/ (i < Len(body) /\ body[i + 1].k = "hashhash")
  IN  IF i > 1 /\ body[i - 1].k = "hash" /\ ~m.obj THEN <<Stringified(raw)>>
      ELSE IF body[i].k = "hash" /\ ~m.obj THEN <<>>
      ELSE IF n(i) = 0 THEN <<body[i]>>
      ELSE IF pasted THEN IF raw = <<>> THEN <<Mark>> ELSE raw
      ELSE Spaced(Expansion(raw, ms), body[i].sp)
LOCAL PasteNext(done, t) ==
  IF Len(done) > 1 /\ done[Len(done)].k = "hashhash"
  THEN Append(SubSeq(done, 1, Len(done) - 2), Together(done[Len(done) - 1], t))
  ELSE Append(done, t)
LOCAL Substituted(m, actual, ms) ==
  LET pieces == [i \in DOMAIN m.body |-> Replaced(m, m.body, i, actual, ms)]
      pasted == FoldLeft(PasteNext, <<>>, FlattenSeq(pieces))
  IN  SelectSeq(pasted, LAMBDA t : t.k # "mark")

LOCAL Painted(ts, names) == [i \in DOMAIN ts |-> [ts[i] EXCEPT !.from = @ \union names]]

(* What becomes of the head of a list: what is left as it is, what is read on. *)
LOCAL Rescanned(done, rest) == [done |-> done, rest |-> rest]
LOCAL Called(t, m, rest, ms) ==
  LET actual == [n \in 1 .. Len(m.params) + (IF m.va = <<>> THEN 0 ELSE 1) |-> Actual(rest, m, n)]
      end == CallEnd(rest)
  IN  IF ~RightNumber(rest, m) THEN Rescanned(<<Invalid>>, <<>>)
      ELSE Rescanned(<<>>, Spaced(Painted(Substituted(m, actual, ms), (t.from \cap rest[end].from) \union {t.s}), t.sp)
                           \o From(rest, end + 1))
LOCAL HeadExpanded(t, rest, ms) ==
  IF t.k # "id" \/ t.s \notin DOMAIN ms \/ t.s \in t.from THEN Rescanned(<<t>>, rest)
  ELSE IF ms[t.s].obj
       THEN Rescanned(<<>>, Spaced(Painted(Substituted(ms[t.s], <<>>, ms), t.from \union {t.s}), t.sp) \o rest)
  ELSE IF rest = <<>> \/ rest[1].k # "lp" THEN Rescanned(<<t>>, rest)
  ELSE IF ~Closed(rest) THEN Rescanned(<<Invalid>>, <<>>)
  ELSE Called(t, ms[t.s], rest, ms)

(* A list of tokens, completely macro expanded. *)
LOCAL Continued(step, ms) == step.done \o Expansion(step.rest, ms)
Expansion(ts, ms) == IF ts = <<>> THEN <<>> ELSE Continued(HeadExpanded(ts[1], Tail(ts), ms), ms)

-----------------------------------------------------------------------------
(* The environment: the macros, the files read once, the text so far, an error. *)
LOCAL ValueOf(t, env) == LET e == Expansion(<<t>>, env.macros)[1] IN IF e.k = "id" THEN <<"0">> ELSE e.s
LOCAL Holds(test, env) ==
  CASE test.is = "defined" -> test.name \in DOMAIN env.macros
    [] test.is = "undefined" -> test.name \notin DOMAIN env.macros
    [] test.is = "equal" -> ValueOf(test.left, env) = ValueOf(test.right, env)
    [] test.is = "always" -> TRUE
    [] test.is = "never" -> FALSE
    [] test.is = "either" -> test.left \in DOMAIN env.macros \/ test.right \in DOMAIN env.macros

(* The groups that stand for a group, each with the file it is in. *)
LOCAL In(groups, path) == [i \in DOMAIN groups |-> [g |-> groups[i], path |-> path]]
LOCAL Chosen(g, path, env) ==
  LET true == {i \in DOMAIN g.branches : Holds(g.branches[i].test, env)}
  IN  IF true = {} THEN <<>> ELSE In(g.branches[Least(true)].groups, path)
LOCAL Inside(g, path, files, env) ==
  CASE g.is = "cond" -> Chosen(g, path, env)
    [] g.is = "include" -> IF g.path \in env.once THEN <<>> ELSE In(files[g.path], g.path)
    [] OTHER -> <<>>
LOCAL Elses(g) == {i \in DOMAIN g.branches : "else" \in DOMAIN g.branches[i].test}
LOCAL Does(g, path, env) ==
  CASE g.is = "text" -> [env EXCEPT !.text = @ \o Spelled(Expansion(g.toks, env.macros))]
    [] g.is = "define" ->
         [env EXCEPT !.macros = [n \in DOMAIN @ \union {g.name} |-> IF n = g.name THEN g ELSE @[n]]]
    [] g.is = "undef" -> [env EXCEPT !.macros = Restrict(@, DOMAIN @ \ {g.name})]
    [] g.is = "once" -> [env EXCEPT !.once = @ \union {path}]
    [] g.is = "cond" -> [env EXCEPT !.error = Elses(g) \ {Len(g.branches)} # {}]
    [] g.is \in {"error", "stray"} -> [env EXCEPT !.error = TRUE]
    [] OTHER -> env

RECURSIVE WorkMeans(_, _, _)
LOCAL Done(work, files, env) ==
  WorkMeans(Inside(work[1].g, work[1].path, files, env) \o Tail(work), files, Does(work[1].g, work[1].path, env))
WorkMeans(work, files, env) == IF work = <<>> \/ env.error THEN env ELSE Done(work, files, env)

(* Whether a program is in error, and the spelling of what is left of it. *)
MeaningOf(main, mainPath, files) ==
  LET env == WorkMeans(In(main, mainPath), files, [macros |-> [n \in {} |-> 0], once |-> {}, text |-> <<>>, error |-> FALSE])
  IN  [error |-> env.error, text |-> IF env.error THEN <<>> ELSE env.text]
=============================================================================
