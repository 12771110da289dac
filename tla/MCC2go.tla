------------------------------- MODULE MCC2go -------------------------------
(****************************************************************************)
(* C2go for TLC: the files, the reading back of what was read, and the      *)
(* properties, which compare the Go that is written with the C that was     *)
(* read by what both do.                                                    *)
(****************************************************************************)
EXTENDS C2go

VARIABLE first     \* what was read, when the file is written as C and read again

M == INSTANCE Machine
P == INSTANCE CPrint

Fn(body) == <<"int", "f", "(", "int", "a", ",", "int", "b", ")", "{">> \o body \o <<"}">>

Return(x) == <<"return">> \o x \o <<";">>

Does(x) == x \o <<";">>

Calls(x) == <<"g", "(">> \o x \o <<")">>

\* A binary operator of each level with every other, and the same with parentheses and with
\* the operators of one argument.
Binaries == DOMAIN BinaryOf
OnePerLevel == {"*", "-", "<<", "<", "==", "&", "^", "|", "&&", "||"}
Equalities == {"==", "!="}
Pairs == {Return(<<"a", p, "b", q, "a">>) : <<p, q>> \in {r \in OnePerLevel \X Binaries : r[1] = r[2] \/ ~({r[1], r[2]} \subseteq Equalities)}}
FewLevels == {"*", "-", "<<", "==", "&", "&&"}
Parenthesised == UNION {{Return(<<"a", p, "(", "b", q, "a", ")">>), Return(<<"(", "a", p, "b", ")", q, "a">>)} : p, q \in FewLevels}
Unaries == UNION {{Return(<<u, "a", o, "b">>), Return(<<"a", o, u, "b">>)} : u \in {"-", "!", "~", "+"}, o \in FewLevels}
Assigns == {Does(<<"a", o, "b", "=", "b", "+", "1">>) : o \in DOMAIN AssignOf} \cup {Return(<<"a", "?", "b", ":", "a", o, "b">>) : o \in OnePerLevel}
Mixed == {<<"-", "-", "a">>, <<"*", "a", "++">>, <<"a", "[", "b", "]", "+", "1">>, <<"(", "int", ")", "a", "+", "b">>,
          <<"sizeof", "(", "int", "*", ")", "*", "b">>, <<"sizeof", "a", "*", "b">>, <<"-", "(", "a", "+", "b", ")">>,
          <<"(", "*", "g", ")", "(", "a", ")">>, <<"p", "->", "x", "+", "a">>, <<"(", "int", "*", ")", "a">>}

Values == Pairs \cup Parenthesised \cup Unaries \cup {Return(x) : x \in Mixed} \cup {a \o Return(<<"a">>) : a \in Assigns}

\* Conditions with every kind of effect, and the places where a condition can be.
Conditions == {<<"a">>, <<"!", "a">>, <<"a", "<", "b">>, <<"!", "(", "a", "<", "b", ")">>, <<"a", "++">>, <<"--", "a">>,
  <<"!", "(", "a", "&&", "b", ")">>, <<"!", "(", "a", "==", "b", "||", "!", "b", ")">>, <<"(", "a", "=", "b", ")", "!=", "1">>,
  Calls(<<"a">>), <<"a", "&&", "(", "b", "=">> \o Calls(<<"a">>) \o <<")">>, <<"a", "||", "b", "++">>,
  <<"a", "&&", "b", "&&", "(", "a", "-=", "1", ")">>, <<"(", "a", "=">> \o Calls(<<"b">>) \o <<")", "&&", "b", "--">>,
  <<"(", "a", "?", "b", ":", "1", ")">>, <<"(", "a", "&", "1", ")", "==", "(", "b", "&", "1", ")">>,
  <<"a", "&&", "(", "b", "||", "(", "a", "=", "1", ")", ")">>}

G(n) == Does(Calls(<<n>>))

Contexts(c) == {
  <<"if", "(">> \o c \o <<")">> \o G("a"),
  <<"if", "(">> \o c \o <<")">> \o G("1") \o <<"else">> \o G("b"),
  <<"if", "(", "b", ")", "if", "(">> \o c \o <<")">> \o G("1") \o <<"else">> \o G("b"),
  <<"while", "(">> \o c \o <<")", "{">> \o G("a") \o <<"if", "(">> \o Calls(<<"b">>) \o <<")", "break", ";", "}">>,
  <<"for", "(", "b", "=", "1", ";">> \o c \o <<";", "b", "++", ")", "{", "if", "(">> \o Calls(<<"b">>) \o <<")", "continue", ";", "if", "(", "a", ")", "break", ";", "a", "--", ";", "}">>,
  <<"do", "{">> \o G("a") \o <<"if", "(">> \o Calls(<<"b">>) \o <<")", "break", ";", "}", "while", "(">> \o c \o <<")", ";">>,
  <<"switch", "(">> \o c \o <<")", "{", "case", "0", ":">> \o G("0") \o <<"break", ";", "case", "1", ":", "case", "2", ":">> \o G("1")
     \o <<"default", ":">> \o G("b") \o <<"}">>,
  Does(Calls(c \o <<",", "1">>)), Return(c)}

\* A step of a variable that is the whole value of another, or of itself, is left out: C does
\* not define the one, and the other is not Go.
Set(c) == {<<"p", "=">> \o c \o <<";">> \o G("p"), <<"int", "x", "=">> \o c \o <<";">> \o G("x")}

Flow == UNION {{b \o Return(<<"a", "+", "b">>) : b \in Contexts(c) \cup (IF c \in {<<"a", "++">>, <<"--", "a">>} THEN {} ELSE Set(c))} : c \in Conditions}

\* Variables that are declared before they are set.
Var(x) == <<"int", x, ";">>

Put(x, v) == <<x, "=", v, ";">>

If(c, body) == <<"if", "(", c, ")", "{">> \o body \o <<"}">>

Blocks == {
  Var("x") \o Put("x", "a") \o G("x") \o Put("x", "b") \o G("x"),
  Var("x") \o If("a", Put("x", "b") \o G("x")),
  Var("x") \o If("a", Put("x", "b")) \o <<"else">> \o Put("x", "1") \o G("x"),
  Var("x") \o If("a", Put("x", "1") \o G("x")) \o <<"else">> \o If("b", Put("x", "2") \o G("x")) \o <<"else", "{">> \o Put("x", "3") \o G("x") \o <<"}">>,
  Var("x") \o If("a", G("1")) \o <<"else", "if", "(", "(", "x", "=", "b", ")", "!=", "1", ")">> \o G("x"),
  Var("x") \o <<"if", "(", "a", "&&", "(", "x", "=">> \o Calls(<<"b">>) \o <<")", ")">> \o G("x"),
  <<"int", "x", ",", "c", ";">> \o <<"{">> \o Put("x", "1") \o Put("c", "x") \o G("c") \o <<"}">>,
  <<"int", "x", ",", "c", "=", "2", ";">> \o If("c", Put("x", "1") \o If("x", <<"int", "x", "=", "3", ";">> \o G("x")) \o G("x")),
  Var("x") \o <<"for", "(", "x", "=", "0", ";", "x", "<", "2", ";", "x", "++", ")">> \o G("x"),
  Var("x") \o <<"for", "(", "x", "=", "0", ";", "x", "<", "2", ";", "x", "++", ")">> \o G("x") \o G("x"),
  <<"int", "c", ",", "x", ";">> \o <<"for", "(", "x", "=", "0", ";", "x", "<", "2", ";", "x", "++", ")", "{">> \o Put("c", "x") \o G("c") \o <<"}">>,
  Var("x") \o <<"while", "(", "a", "&&", "b", ")", "{">> \o Put("x", "a") \o G("x") \o <<"a", "--", ";", "}">>,
  Var("x") \o G("a") \o <<"*", "b", "=", "1", ";">>,
  <<"static">> \o Var("x") \o <<"x", "++", ";">> \o G("x"),
  <<"static", "int", "x", "=", "2", ";">> \o <<"x", "+=", "b", ";">> \o G("x"),
  <<"int", "*", "p", "=", "0", ";">> \o <<"if", "(", "p", "==", "0", ")", "p", "=", "&", "a", ";", "if", "(", "p", "&&", "*", "p", ")">> \o G("1"),
  <<"int", "*", "p", ";">> \o <<"p", "=", "&", "a", ";">> \o <<"*", "p", "+=", "1", ";">> \o G("p"),
  Var("type") \o Put("type", "a") \o G("type"),
  <<"T", "*", "p", ",", "x", ";">> \o <<"p", "=", "a", ";">> \o <<"x", "=", "p", "->", "type", ";">> \o G("x"),
  <<"int", "x", ",", "c", ";">> \o <<"x", "=", "c", "=", "a", ";">> \o G("x") \o G("c"),
  <<"int", "*", "p", "=", "(", "int", "*", ")", "a", ";">> \o <<"p", "[", "b", "++", "]", "=", "a", ";">> \o G("b"),
  <<"p", "[", "0", "]", "=", "p", "[", "1", "]", "=", "b", ";">> }

Switch(cases) == <<"switch", "(", "a", ")", "{">> \o cases \o <<"}">>

Case(v) == <<"case", v, ":">>

Stop == <<"break", ";">>

Switches == {
  Switch(Case("0") \o G("0") \o Case("1") \o G("1") \o Stop \o <<"default", ":">> \o G("2")),
  Switch(Case("0") \o Case("1") \o G("1") \o Case("2") \o Return(<<"a">>) \o <<"default", ":">> \o Stop),
  Switch(<<"default", ":">> \o G("0") \o Case("1") \o If("b", Stop) \o G("1") \o Case("2") \o G("2") \o Stop),
  Switch(Case("0") \o <<"default", ":">> \o <<"b", "=">> \o Calls(<<"a", "++">>) \o <<";">> \o Stop \o Case("2") \o <<"{">> \o G("2") \o Stop \o <<"}">> \o Case("3") \o <<";">>),
  Switch(Case("1") \o <<"while", "(", "b", "--", ")", "{">> \o If("a", Stop) \o <<"}">> \o Stop \o Case("2") \o <<"{", "int", "x", "=", "b", ";">> \o G("x") \o <<"}">>),
  Var("x") \o Switch(Case("1") \o Put("x", "1") \o Stop \o <<"default", ":">> \o Put("x", "2") \o Stop) \o G("x") }

Locals == {b \o Return(<<"a", "+", "b">>) : b \in Blocks \cup Switches}

-----------------------------------------------------------------------------
\* Declarations of x: pointers to, arrays of and functions returning each other.
Function(name, args) == IF name # <<>> /\ name[1] = "*" THEN <<"(">> \o name \o <<")", "(">> \o args \o <<")">> ELSE name \o <<"(">> \o args \o <<")">>

Layered(layer, name) ==
  CASE layer = "pointer" -> <<"*">> \o name
    [] layer = "array" -> IF name # <<>> /\ name[1] = "*" THEN <<"(">> \o name \o <<")", "[", "2", "]">> ELSE name \o <<"[", "2", "]">>
    [] layer = "function" -> Function(name, <<"int">>)

Layers == {w \in SeqOf({"pointer", "array", "function"}, 3) :
             \A i \in 1 .. Len(w) - 1 : w[i] = "pointer" \/ w[i + 1] = "pointer" \/ (w[i] = "array" /\ w[i + 1] = "array")}

Declarator(w, name) == FoldLeft(LAMBDA n, layer : Layered(layer, n), name, w)

Specifiers == {<<"char">>, <<"long">>, <<"short", "int">>, <<"T">>, <<"const", "T">>,
               <<"static", "const", "char">>, <<"void", "*">>}

\* The C printer calls these by one word that is not C's.
OddSpecifiers == {<<"unsigned">>, <<"long", "long">>, <<"long", "unsigned", "int">>, <<"unsigned", "char">>}

Twice == <<"int", "x", "(", "int", ")", ";", "int", "x", "(", "int", "a", ")", "{">> \o Return(<<"a">>) \o <<"}">>

Odd == {t \o Does(<<"x">>) : t \in OddSpecifiers}

Arguments == {<<>>, <<"void">>, <<"int", "y">>, <<"int", "*", "y", ",", "...">>, <<"char", "*", ",", "T", "*">>,
              <<"int", "(", "*", "y", ")", "(", "char", ")", ",", "int", "c">>}

Declared ==
  {<<"int">> \o Does(Declarator(w, <<"x">>)) : w \in Layers}
  \cup Odd \cup {t \o Does(<<"x">>) : t \in Specifiers}
  \cup {<<"int">> \o Does(Function(<<"*", "x">>, args)) : args \in Arguments}
  \cup {<<"T">> \o Function(<<"x">>, args) \o <<"{">> \o Return(<<"0">>) \o <<"}">> : args \in Arguments \ {<<"char", "*", ",", "T", "*">>}}
  \cup {<<"int", "p", ";">> \o Fn(<<"int">> \o Does(Declarator(w, <<"x">>)) \o G("x")) : w \in {v \in Layers : Len(v) = 2 /\ v[1] # "function"}}
  \cup {Fn(Return(<<"sizeof", "(", "int">> \o Declarator(w, <<>>) \o <<")">>)) : w \in {v \in Layers : v # <<>> /\ v[1] # "function"}}
  \cup {<<"int", "x", ";", "int", "x", "=", "1", ",", "y", ";">>, Twice,
        <<"typedef", "int", "U", ";", "U", "x", ";", "void", "f", "(", "U", "y", ")", "{", "return", ";", "}">>,
        <<"extern", "int", "y", ";", "T", "*", "f", "(", "T", "*", "p", ")", "{", "T", "x", ",", "*", "y", ";", "y", "=", "p", ";", "x", "=", "*", "y", ";">> \o Return(<<"x">>) \o <<"}">>}

\* Jumps, lists of expressions, and a word that is a type here and a field there.
Others == {Fn(b) : b \in {
  <<"L", ":">> \o G("a") \o <<"if", "(", "a", ")", "goto", "L", ";">> \o Return(<<"a">>),
  Switch(<<"type", ":", "case", "1", ":", "goto", "type", ";">>) \o Return(<<"a">>),
  <<"for", "(", "a", "=", "0", ",", "b", "=", "3", ";", "a", "<", "b", ";", "a", "++", ",", "b", "--", ")">> \o G("a"),
  <<"a", "=", "1", ",", "b", "=", "2", ";">> \o G("b"),
  <<"for", "(", ";", ";", ")", "{", "if", "(", "b", "++", ">", "2", ")", "break", ";", "}">> \o G("b"),
  <<"{", "T", "*", "x", ";", "x", "=", "a", ";">> \o G("x") \o <<"}">>,
  <<"p", "=", "a", "?", "b", "=", "1", ":", "(", "b", "--", ",", "2", ")", ";">>,
  Calls(<<"sizeof", "(", "T", "*", ")">>) \o <<";">> \o Return(<<"a", ".", "T", "[", "0", "]">>)}}

\* A file with a token missing: mostly not C, and then it must be refused or read as what it says.
Whole == {Fn(<<"int", "x", "[", "2", "]", ";", "x", "[", "0", "]", "=", "a", "?", "b", ":", "1", ";", "if", "(", "a", ")", "{">> \o G("a")
            \o <<"}", "else">> \o Return(<<"b">>)),
          Fn(<<"switch", "(", "a", ")", "{", "case", "1", ":", "b", "++", ";", "break", ";", "default", ":", "goto", "L", ";", "}", "do", "{", "T", "*", "x", ";", "x", "=", "&", "a", ";", "}", "while", "(", "b", ")", ";">>)}

Cut == UNION {{RemoveAt(f, i) : i \in DOMAIN f} : f \in Whole}

\* What the parser accepts or refuses and C does not have.
NotC == {<<"int", "x", "(", "...", ")", ";">>, <<"int", ";", "int", "x", ";">>, Fn(<<"int", ";">> \o Return(<<"b">>)), <<"int", "x", "(", "static", "int", "y", ")", ";">>, <<"int", "f", "{">> \o Return(<<"1">>) \o <<"}">>}

TestFiles == {<<"int", "p", ";">> \o Fn(b) : b \in Values \cup Flow \cup Locals} \cup Others

AllFiles == TestFiles \cup Declared \cup Cut \cup NotC

AllNames == {"a", "b", "c", "f", "g", "p", "x", "y", "T", "U", "type", "L"}
AllNumbers == {"0", "1", "2", "3"}

\* What was read is written as C, and that is read.
ReRead ==
  /\ phase = "read" /\ parsed # Nil /\ first = Nil /\ input \notin Odd \cup {Twice}
  /\ first' = parsed /\ parsed' = Nil
  /\ input' = FlattenSeq([i \in DOMAIN parsed.decls |-> P!WriteC(parsed.decls[i])])
  /\ pos' = 0 /\ stack' = Bottom /\ scope' = << <<>> >> /\ ndecl' = 0 /\ types' = {} /\ error' = {}
  /\ UNCHANGED <<phase, tree, output>>

MCInit == Init /\ first = Nil
ReadStep == Read /\ UNCHANGED first
MCNext == ReRead \/ ReadStep \/ (first = Nil /\ Translate /\ UNCHANGED first)
MCSpec == MCInit /\ [][MCNext]_<<vars, first>> /\ WF_<<vars, first>>(ReadStep)

-----------------------------------------------------------------------------
TypeOK ==
  /\ phase \in {"read", "rewritten", "simplified", "renamed", "moved", "written"}
  /\ pos \in 0 .. Len(input)

CProg == M!ReadC(input, M!NoProg)

GoProg == M!ReadGo(output, M!NoProg)

\* What a run of the C leaves undefined, the Go may do as it likes.
SameOutcome(x, y) == CASE x.ctl = "undefined" -> TRUE [] x.ctl = "stuck" -> y.ctl = "stuck" [] OTHER -> x = y

\* The programs agree for these arguments and answers.
SameProgram(c, go) ==
  /\ go.ok
  /\ c.fns # <<>> => \A seed \in 0 .. 2, a \in 0 .. 3 :
       LET b == 1 + ((a + seed) % 2) IN SameOutcome(M!Outcome(c, FALSE, seed, a, b), M!Outcome(go.x, TRUE, seed, a, b))

\* What C says of the file, the Go file does: whatever the arguments and what the functions it
\* calls return, it makes the same calls, leaves the same memory and returns the same.
SameMeaning == (phase = "written" /\ CProg.ok) => SameProgram(CProg.x, GoProg)

\* Every file that is C is read, and of its words only one that it uses as a type without
\* declaring it is taken for one.
Inferred == (first = Nil /\ (Failed \/ parsed # Nil) /\ CProg.ok) => ~Failed /\ types \subseteq {"T"}

\* Trees without parentheses and empty statements, which the printer adds.
RECURSIVE Bare(_), BareStmt(_)
Bare(x) ==
  IF x = Nil THEN Nil ELSE IF x.op = "Paren" THEN Bare(x.args[1]) ELSE [x EXCEPT !.args = [i \in DOMAIN @ |-> Bare(@[i])]]

BareStmt(s) ==
  IF s = Nil THEN Nil
  ELSE [s EXCEPT !.pre = Bare(@), !.expr = Bare(@), !.post = Bare(@), !.body = BareStmt(@), !.els = BareStmt(@),
         !.decl = IF @ = Nil THEN Nil ELSE [@ EXCEPT !.init = Bare(@)],
         !.labels = [i \in DOMAIN @ |-> [@[i] EXCEPT !.expr = Bare(@)]],
         !.block = LET real == SelectSeq(@, LAMBDA t : t.op # "Empty" \/ t.labels # <<>>) IN [i \in DOMAIN real |-> BareStmt(real[i])]]

BareDecl(d) == [d EXCEPT !.init = Bare(@), !.body = BareStmt(@)]

\* What the C printer writes of a tree is read as that tree.
ReadsBack ==
  /\ (first # Nil /\ parsed # Nil) =>
       [i \in DOMAIN parsed.decls |-> BareDecl(parsed.decls[i])] = [i \in DOMAIN first.decls |-> BareDecl(first.decls[i])]
  /\ first # Nil => ~Failed

\* In the Go file only comparisons and what joins them are conditions.
Comparisons == {"EqEq", "NotEq", "Lt", "LtEq", "Gt", "GtEq", "AndAnd", "OrOr", "Not"}
RECURSIVE IsBool(_)
IsBool(x) == x = Nil \/ x.op \in Comparisons \/ (x.op = "Paren" /\ IsBool(x.args[1])) \/ (x.op = "Literal" /\ x.text = "bool")

BoolConditions(go) ==
  go.ok => \A f \in ToSet(go.x.fns) :
    /\ \A s \in StmtNodes(f.body) : s.op \in {"If", "For"} => IsBool(s.expr)
    /\ \A x \in ExprsIn(f.body) : x.op \in {"AndAnd", "OrOr", "Not"} => \A i \in DOMAIN x.args : IsBool(x.args[i])

\* Everything that is declared has the Go type of its C type.
Vars(list) == {<<list[i].decl.name, list[i].decl.type>> : i \in {j \in DOMAIN list : list[j].decl.storage \cap {"extern", "typedef"} = {} /\ list[j].decl.type.kind # "Func"}}
Signature(f) == <<f.name, [i \in DOMAIN f.params |-> <<f.params[i].name, f.params[i].type>>], f.result>>

SameTypes(c, go) ==
  c.ok /\ go.ok =>
    /\ Vars(c.x.vars) \subseteq Vars(go.x.vars)
    /\ {Signature(f) : f \in ToSet(c.x.fns)} = {Signature(f) : f \in ToSet(go.x.fns)}

\* The retries on guessed types come to an end: every file is read or refused.
FilesEnd == parsed = Nil ~> (parsed # Nil \/ Failed)

\* The parser reads what is C, in bounds and guessing no more than the types
\* that have to be guessed.
ReadsC == TypeOK /\ Inferred

ChecksAgainst(c, go) == BoolConditions(go) /\ SameTypes(c, go)

\* Of the Go file that is written, the conditions are booleans and everything that the C file
\* declares has the Go type of its C type.
WellTyped == phase = "written" => ChecksAgainst(CProg, GoProg)
=============================================================================
