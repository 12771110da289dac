------------------------------- MODULE CParse -------------------------------
(****************************************************************************)
(* The C parser of c2gofmt: the shift-reduce parser that yacc makes of      *)
(* cc.y, with its precedences, the scopes its actions keep, the lexer's     *)
(* classification of words, and main's loop, which reads the file again     *)
(* with one more word taken for a type after each error.  Productions with  *)
(* equal actions share an action here, parameterised by what was read.      *)
(****************************************************************************)
EXTENDS CTree, FiniteSets, TLC

CONSTANTS Names, Numbers     \* the words and the literals that occur

VARIABLES
  input,     \* the file, a sequence of tokens
  pos,       \* how many of them were shifted
  stack,     \* the parser's stack, of [sym, val]
  scope,     \* names declared, one function per open scope, innermost last
  ndecl,     \* declarations made so far; it numbers them
  types,     \* words taken for types: do's types
  error,     \* {} or {the word that the first error was reported near}
  parsed     \* the tree, once there is one

parseVars == <<input, pos, stack, scope, ndecl, types, error, parsed>>

TypeWords == {"int", "char", "void", "long", "short", "unsigned", "signed"}
ClassWords == {"static", "extern", "typedef", "register", "auto", "inline"}
QualWords == {"const", "volatile"}

\* Precedences of cc.y, loosest first, and the levels that associate to the right.
Levels == << {","}, DOMAIN AssignOf, {"?"}, {"||"}, {"&&"}, {"|"}, {"^"}, {"&"}, {"=="}, {"!="},
             {"<", ">", "<=", ">="}, {"<<", ">>"}, {"+", "-"}, {"*", "/", "%"}, {"cast"}, {"unary"},
             {".", "->", "[", "(", "++", "--"} >>

LevelIn(L, t) == CHOOSE i \in DOMAIN L : t \in L[i]

HasLevel(t) == \E i \in DOMAIN Levels : t \in Levels[i]

RightAssoc == {2, 3, 15, 17}

\* The rule, not the token that may follow it, has the higher claim.
Wins(rule, la) ==
  HasLevel(la) =>
    LET r == LevelIn(Levels, rule) l == LevelIn(Levels, la) IN r > l \/ (r = l /\ r \notin RightAssoc)

-----------------------------------------------------------------------------
\* The declaration that a word refers to, innermost scope first.
LookupDecl(x) ==
  LET at == {i \in DOMAIN scope : x \in DOMAIN scope[i]} IN
  IF at = {} THEN Nil ELSE scope[CHOOSE i \in at : \A j \in at : j <= i][x]

\* A word is a type's name if a typedef in scope says so or, undeclared, if it was inferred.
Sym(t) ==
  IF t \in Numbers THEN "number"
  ELSE IF t \in Names
    THEN LET d == LookupDecl(t) IN
         IF (d # Nil /\ "typedef" \in d.storage) \/ (d = Nil /\ t \in types) THEN "typename" ELSE "name"
    ELSE t

La == IF pos < Len(input) THEN Sym(input[pos + 1]) ELSE "EOF"

\* The i-th entry from the top, and whether the symbols at the top are these.
S(i) == IF i <= Len(stack) THEN stack[Len(stack) - i + 1].sym ELSE ""

V(i) == stack[Len(stack) - i + 1].val

Top(syms) == \A i \in DOMAIN syms : S(Len(syms) - i + 1) = syms[i]

Push(n, sym, val) == stack' = Append(SubSeq(stack, 1, Len(stack) - n), [sym |-> sym, val |-> val])

Reduce(n, sym, val) == Push(n, sym, val) /\ UNCHANGED <<input, pos, scope, ndecl, types, error, parsed>>

Declare(sc, d) == IF d.name = "" THEN sc ELSE [sc EXCEPT ![Len(sc)] = (d.name :> d) @@ @]

Numbered(d, n) == [d EXCEPT !.id = d.name \o ToString(n)]

\* Only the first error is reported.
FirstError(new) == IF error = {} THEN new ELSE error

-----------------------------------------------------------------------------
\* Expressions.
CloseExpr == {")", "]", ":", ";", ","}

\* The symbol below the top n, past stars and open parentheses, begins a declarator.
InDeclarator(n) ==
  LET k == CHOOSE i \in n + 1 .. Len(stack) + 1 :
             S(i) \notin {"*", "("} /\ \A j \in n + 1 .. i - 1 : S(j) \in {"*", "("}
  IN S(k) \in {"typeclass", "type"} \/ (S(k) = "," /\ S(k + 1) = "idecs")

ArgOf(n) == S(n) \in {"decor", "abdec1"}

Atom ==
  \/ S(1) = "number" /\ Reduce(1, "expr", Number(V(1)))
  \/ /\ S(1) = "name" /\ S(2) \notin {".", "->", "goto", "prog"} /\ ~InDeclarator(1)
     /\ ~(S(2) = "labels" /\ La = ":") /\ ~(S(2) = "(" /\ ArgOf(3)) /\ ~(S(2) = "," /\ S(3) = "fnargs")
     /\ LET d == LookupDecl(V(1)) IN Reduce(1, "expr", Leaf("Name", V(1), IF d = Nil THEN "" ELSE d.id))

BinaryExpr ==
  /\ S(1) = "expr" /\ S(3) = "expr" /\ S(2) \in DOMAIN BinaryOf \cup DOMAIN AssignOf
  /\ Wins(S(2), La)
  /\ Reduce(3, "expr", Expr((BinaryOf @@ AssignOf)[S(2)], <<V(3), V(1)>>))

CondExpr ==
  /\ Top(<<"expr", "?", "cexpr", ":", "expr">>) /\ Wins("?", La)
  /\ Reduce(5, "expr", Expr("Cond", <<V(5), V(3), V(1)>>))

UnaryExpr ==
  /\ S(1) = "expr" /\ S(2) \in DOMAIN UnaryOf /\ S(3) # "expr"
  /\ Wins(IF S(2) \in DOMAIN PostfixOf THEN S(2) ELSE "unary", La)
  /\ Reduce(2, "expr", Expr(UnaryOf[S(2)], <<V(1)>>))

PostfixExpr ==
  \/ S(1) \in DOMAIN PostfixOf /\ S(2) = "expr" /\ Reduce(2, "expr", Expr(PostfixOf[S(1)], <<V(2)>>))
  \/ Top(<<"expr", "[", "cexpr", "]">>) /\ Reduce(4, "expr", Expr("Index", <<V(4), V(2)>>))

Member ==
  /\ S(1) \in {"name", "typename"} /\ S(2) \in {".", "->"} /\ S(3) = "expr"
  /\ Reduce(3, "expr", [Expr(IF S(2) = "." THEN "Dot" ELSE "Arrow", <<V(3)>>) EXCEPT !.text = V(1)])

Call ==
  \/ Top(<<"expr", "(", ")">>) /\ Reduce(3, "expr", Expr("Call", <<V(3)>>))
  \/ Top(<<"expr", "(", "exprs", ")">>) /\ Reduce(4, "expr", Expr("Call", <<V(4)>> \o V(2)))

Paren ==
  /\ Top(<<"(", "cexpr", ")">>) /\ S(4) \notin {"if", "while", "switch"}
  /\ Reduce(3, "expr", Expr("Paren", <<V(2)>>))

Cast ==
  /\ Top(<<"(", "abtype", ")", "expr">>) /\ Wins("cast", La)
  /\ Reduce(4, "expr", [op |-> "Cast", text |-> "", decl |-> "", args |-> <<V(1)>>, type |-> V(3)])

SizeofType ==
  /\ Top(<<"sizeof", "(", "abtype", ")">>) /\ Wins("unary", La)
  /\ Reduce(4, "expr", [op |-> "SizeofType", text |-> "", decl |-> "", args |-> <<>>, type |-> V(2)])

\* expr_list and cexpr: where an expression may be a list, it is one.
ExprList ==
  \/ /\ S(1) = "expr" /\ La \in CloseExpr
     /\ S(2) \in {"(", "[", "?", ";", "labels", "return"} /\ ~(S(2) = "[" /\ ArgOf(3)) /\ S(3) # "abdecor"
     /\ Reduce(1, "exprs", <<V(1)>>)
  \/ Top(<<"exprs", ",", "expr">>) /\ La \in CloseExpr /\ Reduce(3, "exprs", Append(V(3), V(1)))

Cexpr ==
  /\ S(1) = "exprs" /\ La # "," /\ ~(S(2) = "(" /\ S(3) = "expr")
  /\ Reduce(1, "cexpr", IF Len(V(1)) = 1 THEN V(1)[1] ELSE Expr("Comma", V(1)))

-----------------------------------------------------------------------------
\* Types and declarators.  A declarator is the list of what it makes of its type, in
\* the order in which that happens, with the declared name.
Underlying(t) == IF t # Nil /\ t.kind = "TypedefType" THEN t.base ELSE t

SpecWords == TypeWords \cup ClassWords \cup QualWords

SpecWord ==
  \/ /\ S(1) \in SpecWords
     /\ IF S(2) = "spec" THEN Reduce(2, "spec", [V(2) EXCEPT !.words = Append(@, S(1))])
                         ELSE Reduce(1, "spec", [words |-> <<S(1)>>, type |-> Nil])
  \/ /\ S(1) = "typename" /\ S(2) \notin {".", "->"} /\ ~InDeclarator(1)
     /\ LET d == LookupDecl(V(1))
            t == [Type("TypedefType", IF d = Nil THEN Type("int", Nil) ELSE Underlying(d.type)) EXCEPT !.decls = <<V(1)>>] IN
        IF S(2) = "spec" THEN Reduce(2, "spec", [V(2) EXCEPT !.type = t])
                         ELSE Reduce(1, "spec", [words |-> <<>>, type |-> t])

\* splitTypeWords: the order of the words does not matter.  Two longs are a long long,
\* and nothing, "unsigned" and "long" say int as well.
WordType(words) ==
  LET Has(w) == \E i \in DOMAIN words : words[i] = w
      long == Cardinality({i \in DOMAIN words : words[i] = "long"})
      sign == IF Has("unsigned") THEN "u" ELSE ""
      bare == {"int", "signed", "unsigned"} \cup ClassWords \cup QualWords
      Only(ws) == \A i \in DOMAIN words : words[i] \in ws \cup bare
  IN CASE Only({}) /\ (Has("int") \/ ~Has("signed")) -> Type(IF Has("unsigned") THEN "uint" ELSE "int", Nil)
       [] Only({"long"}) /\ long = 1 -> Type(sign \o "long", Nil)
       [] Only({"long"}) /\ long = 2 -> Type(sign \o "longlong", Nil)
       [] Only({"char"}) /\ ~Has("int") /\ Has("char") -> Type(sign \o "char", Nil)
       [] Only({"short"}) /\ Has("short") -> Type(sign \o "short", Nil)
       [] Only({"void"}) /\ Has("void") -> Type("void", Nil)
       [] OTHER -> Nil

TypeClass ==
  /\ S(1) = "spec" /\ La \notin SpecWords
  /\ La = "typename" => V(1).type # Nil \/ \E i \in DOMAIN V(1).words : V(1).words[i] \in TypeWords
  /\ Reduce(1, "typeclass",
       [storage |-> {w \in ClassWords : \E i \in DOMAIN V(1).words : V(1).words[i] = w},
        type |-> IF V(1).type # Nil THEN V(1).type ELSE WordType(V(1).words)])

\* An error that names no word.
NotAllowed == "not allowed here"

PlainType ==
  /\ S(1) = "typeclass" /\ S(2) \in {"(", ","} /\ S(3) # "idecs" /\ Push(1, "type", V(1).type)
  /\ error' = FirstError(IF V(1).storage # {} THEN {NotAllowed} ELSE {})
  /\ UNCHANGED <<input, pos, scope, ndecl, types, parsed>>

\* A mutant of Wrap: the layers in the other order.
WrapOutward(t, layers) == FoldRight(LAMBDA l, b : [l EXCEPT !.base = b], layers, t)

RECURSIVE Wrap(_, _)
Wrap(t, layers) ==
  IF layers = <<>> THEN t ELSE Wrap([Head(layers) EXCEPT !.base = t], Tail(layers))

TagDecor == S(1) \in {"name", "typename"} /\ InDeclarator(1) /\ Reduce(1, "decor", [layers |-> <<>>, name |-> V(1)])

NoName == S(1) \in {"type", "*", "("} /\ InDeclarator(0) /\ S(1) # "typeclass" /\ La \in {")", ",", "["}
          /\ ~(S(1) = "(" /\ ArgOf(2)) /\ Push(0, "abdecor", [layers |-> <<>>, name |-> ""])
          /\ UNCHANGED <<input, pos, scope, ndecl, types, error, parsed>>

Abstract == S(1) = "abdec1" /\ La # "(" /\ Reduce(1, "abdecor", V(1))

Pointer ==
  /\ S(2) = "*" /\ S(1) \in {"decor", "abdecor"} /\ Wins("*", La)
  /\ Reduce(2, S(1), [V(1) EXCEPT !.layers = <<Type("Ptr", Nil)>> \o @])

Grouped ==
  \/ Top(<<"(", "decor", ")">>) /\ Reduce(3, "decor", V(2))
  \/ Top(<<"(", "abdecor", ")">>) /\ Reduce(3, "abdec1", V(2))

ArrayOf ==
  \/ /\ S(1) = "]" /\ S(2) = "[" /\ S(3) \in {"decor", "abdecor"}
     /\ Reduce(3, IF S(3) = "decor" THEN "decor" ELSE "abdec1", [V(3) EXCEPT !.layers = <<Type("Array", Nil)>> \o @])
  \/ /\ S(1) = "]" /\ S(2) = "expr" /\ S(3) = "[" /\ S(4) \in {"decor", "abdecor"}
     /\ Reduce(4, IF S(4) = "decor" THEN "decor" ELSE "abdec1",
               [V(4) EXCEPT !.layers = <<[Type("Array", Nil) EXCEPT !.width = V(2)]>> \o @])

\* An array among the parameters of a function without a name becomes a pointer.
Decay(d) ==
  LET t == Underlying(d.type) IN
  IF t # Nil /\ t.kind = "Array" THEN [d EXCEPT !.type = Type("Ptr", IF t.width = Nil THEN t.base ELSE t)] ELSE d

FuncOf ==
  /\ S(1) = ")" /\ S(2) = "fnargs" /\ S(3) = "(" /\ ArgOf(4)
  /\ LET decls == IF S(4) = "decor" THEN V(2) ELSE [i \in DOMAIN V(2) |-> Decay(V(2)[i])] IN
     Reduce(4, S(4), [V(4) EXCEPT !.layers = <<[Type("Func", Nil) EXCEPT !.decls = decls]>> \o @])

NoArgs == S(1) = "(" /\ ArgOf(2) /\ La = ")" /\ Push(0, "fnargs", <<>>) /\ UNCHANGED <<input, pos, scope, ndecl, types, error, parsed>>

Fnarg ==
  LET Arg(n, d) == /\ La \in {",", ")"}
                   /\ \/ S(n + 1) = "(" /\ ArgOf(n + 2) /\ Reduce(n, "fnargs", <<d>>)
                      \/ S(n + 1) = "," /\ S(n + 2) = "fnargs" /\ Reduce(n + 2, "fnargs", Append(V(n + 2), d))
  IN \/ S(1) = "name" /\ Arg(1, Decl(V(1), Nil, Nil, {}))
     \/ S(1) = "..." /\ Arg(1, Decl("...", Nil, Nil, {}))
     \/ S(1) \in {"decor", "abdecor"} /\ S(2) = "type" /\ Arg(2, Decl(V(1).name, Wrap(V(2), V(1).layers), Nil, {}))

Abtype == S(1) = "abdecor" /\ S(2) = "type" /\ S(3) = "(" /\ ~ArgOf(4) /\ La = ")" /\ Reduce(2, "abtype", Wrap(V(2), V(1).layers))

\* Declarations.
Idecor ==
  LET Add(n, x) == /\ La \in {",", ";"}
                   /\ \/ S(n + 1) = "typeclass" /\ Reduce(n, "idecs", <<x>>)
                      \/ S(n + 1) = "," /\ S(n + 2) = "idecs" /\ Reduce(n + 2, "idecs", Append(V(n + 2), x))
  IN \/ S(1) = "decor" /\ Add(1, [d |-> V(1), init |-> Nil])
     \/ Top(<<"decor", "=", "expr">>) /\ Add(3, [d |-> V(3), init |-> V(1)])
     \/ S(1) = "typeclass" /\ S(2) \in {"prog", "block1"} /\ La = ";" /\ Reduce(0, "idecs", <<>>)

\* "int;" makes a declaration without a name.
MakeDecls(tc, idecs) ==
  IF idecs = <<>> THEN <<Decl("", tc.type, Nil, tc.storage)>>
  ELSE [i \in DOMAIN idecs |-> Decl(idecs[i].d.name, Wrap(tc.type, idecs[i].d.layers), idecs[i].init, tc.storage)]

\* Everything a declaration declares is declared when it ends.
LocalDecl ==
  /\ Top(<<"block1", "typeclass", "idecs", ";">>)
  /\ LET made == MakeDecls(V(3), V(2)) ds == [i \in DOMAIN made |-> Numbered(made[i], ndecl + i)] IN
     /\ scope' = FoldLeft(Declare, scope, ds) /\ ndecl' = ndecl + Len(ds)
     /\ Push(4, "block1", V(4) \o [i \in DOMAIN ds |-> [Stmt("StmtDecl") EXCEPT !.decl = ds[i]]])
  /\ UNCHANGED <<input, pos, types, error, parsed>>

\* At top level a name that was declared before keeps its declaration.
Entry(prog, name) ==
  LET at == {i \in DOMAIN prog : prog[i].name = name} IN
  IF at = {} THEN Nil ELSE prog[CHOOSE i \in at : \A j \in at : j <= i]

AddTop(acc, d) ==
  LET old == IF d.name = "" THEN Nil ELSE Entry(acc.prog, d.name) new == Numbered(d, acc.n + 1) IN
  IF old = Nil
  THEN [prog |-> Append(acc.prog, new), scope |-> Declare(acc.scope, new), n |-> acc.n + 1]
  ELSE [acc EXCEPT !.prog = Append(@, IF d.init = Nil THEN old ELSE [old EXCEPT !.init = d.init])]

TopDecl ==
  /\ Top(<<"prog", "typeclass", "idecs", ";">>)
  /\ LET acc == FoldLeft(AddTop, [prog |-> V(4), scope |-> scope, n |-> ndecl], MakeDecls(V(3), V(2))) IN
     Push(4, "prog", acc.prog) /\ scope' = acc.scope /\ ndecl' = acc.n
  /\ UNCHANGED <<input, pos, types, error, parsed>>

-----------------------------------------------------------------------------
\* Statements.
FnStart ==
  /\ Top(<<"prog", "typeclass", "decor">>) /\ La = "{"
  /\ LET type == Wrap(V(2).type, V(1).layers) old == Entry(V(3), V(1).name)
         fn == IF old = Nil THEN Numbered(Decl(V(1).name, Nil, Nil, V(2).storage), ndecl + 1) ELSE old
         args == [i \in DOMAIN type.decls |-> Numbered(type.decls[i], ndecl + 1 + i)]
     IN IF type.kind # "Func"
        THEN stack' = <<>> /\ error' = FirstError({V(1).name}) /\ UNCHANGED <<scope, ndecl>>
        ELSE /\ Push(2, "fn", [fn EXCEPT !.type = [type EXCEPT !.decls = args]])
             /\ scope' = FoldLeft(Declare, Append(IF old = Nil THEN Declare(scope, fn) ELSE scope, <<>>), args)
             /\ ndecl' = ndecl + 1 + Len(args) /\ UNCHANGED error
  /\ UNCHANGED <<input, pos, types, parsed>>

FnEnd ==
  /\ Top(<<"prog", "fn", "block">>)
  /\ Push(3, "prog", Append(V(3), [V(2) EXCEPT !.body = V(1)])) /\ scope' = Front(scope)
  /\ UNCHANGED <<input, pos, ndecl, types, error, parsed>>

OpenBlock ==
  /\ S(1) = "{" /\ Push(0, "block1", <<>>) /\ scope' = Append(scope, <<>>)
  /\ UNCHANGED <<input, pos, ndecl, types, error, parsed>>

\* A block begins and ends with an empty statement, for comments.
Marked(list) == BlockOf(<<Stmt("Empty")>> \o list \o <<Stmt("Empty")>>)

CloseBlock ==
  /\ Top(<<"{", "block1", "}">>) /\ Push(3, "block", Marked(V(2))) /\ scope' = Front(scope)
  /\ UNCHANGED <<input, pos, ndecl, types, error, parsed>>

DeclStart == SpecWords \cup {"typename"}

Header ==
  \/ Top(<<"if", "(", "cexpr", ")">>) \/ Top(<<"switch", "(", "cexpr", ")">>)
  \/ Top(<<"while", "(", "cexpr", ")">>) /\ S(5) # "lstmt"
  \/ Top(<<"for", "(", "opt", ";", "opt", ";", "opt", ")">>)

LabelsStart ==
  /\ Header \/ S(1) \in {"else", "do"} \/ (S(1) = "block1" /\ La \notin DeclStart \cup {"}"})
  /\ Reduce(0, "labels", <<>>)

Label ==
  LET Lab(n, op, x, name) == Reduce(n + 1, "labels", Append(V(n + 1), [op |-> op, expr |-> x, name |-> name])) IN
  \/ Top(<<"labels", "case", "expr", ":">>) /\ Lab(3, "Case", V(2), "")
  \/ Top(<<"labels", "default", ":">>) /\ Lab(2, "Default", Nil, "")
  \/ Top(<<"labels", "name", ":">>) /\ Lab(2, "LabelName", Nil, V(2))

Lstmt ==
  \/ Top(<<"labels", "stmt">>) /\ S(3) # "block1" /\ Reduce(2, "lstmt", [V(1) EXCEPT !.labels = V(2)])
  \/ Top(<<"block1", "labels", "stmt">>) /\ Reduce(3, "block1", Append(V(3), [V(1) EXCEPT !.labels = V(2)]))

OptExpr ==
  \/ S(1) = "cexpr" /\ ((S(2) = "(" /\ S(3) = "for") \/ (S(2) = ";" /\ S(3) = "opt") \/ S(2) = "return") /\ Reduce(1, "opt", V(1))
  \/ /\ \/ La = ";" /\ (Top(<<"for", "(">>) \/ S(1) = "return")
        \/ La \in {";", ")"} /\ Top(<<"opt", ";">>) /\ S(3) # "return"
     /\ Reduce(0, "opt", Nil)

SimpleStmt ==
  \/ Top(<<"labels", ";">>) /\ Reduce(1, "stmt", Stmt("Empty"))
  \/ Top(<<"labels", "block">>) /\ Reduce(1, "stmt", V(1))
  \/ Top(<<"break", ";">>) /\ Reduce(2, "stmt", Stmt("Break"))
  \/ Top(<<"continue", ";">>) /\ Reduce(2, "stmt", Stmt("Continue"))
  \/ Top(<<"goto", "name", ";">>) /\ Reduce(3, "stmt", [Stmt("Goto") EXCEPT !.text = V(2)])
  \/ Top(<<"return", "opt", ";">>) /\ Reduce(3, "stmt", [Stmt("Return") EXCEPT !.expr = V(2)])

\* A statement that multiplies by nothing is likely a declaration; the parser goes on.
LikelyTypes(x) == LET first == IF x.op = "Comma" THEN x.args[1] ELSE x IN
  IF first.op = "Mul" /\ first.args[1].op = "Name" THEN {first.args[1].text} ELSE {}

ExprStmtEnd ==
  /\ Top(<<"labels", "cexpr", ";">>) /\ Push(2, "stmt", ExprStmt(V(2)))
  /\ error' = FirstError(LikelyTypes(V(2)))
  /\ UNCHANGED <<input, pos, scope, ndecl, types, parsed>>

\* The bodies of for and else are blocks; an else may be another if.
ForceBlock(s, unless) == IF s.op \in {"Block"} \cup unless THEN s ELSE Marked(<<s>>)

Compound ==
  \/ Top(<<"do", "lstmt", "while", "(", "cexpr", ")", ";">>)
     /\ Reduce(7, "stmt", [Stmt("Do") EXCEPT !.body = V(6), !.expr = V(3)])
  \/ Top(<<"while", "(", "cexpr", ")", "lstmt">>)
     /\ Reduce(5, "stmt", [Stmt("While") EXCEPT !.expr = V(3), !.body = V(1)])
  \/ Top(<<"switch", "(", "cexpr", ")", "lstmt">>)
     /\ Reduce(5, "stmt", [Stmt("Switch") EXCEPT !.expr = V(3), !.body = V(1)])
  \/ Top(<<"for", "(", "opt", ";", "opt", ";", "opt", ")", "lstmt">>)
     /\ Reduce(9, "stmt", [Stmt("For") EXCEPT !.pre = V(7), !.expr = V(5), !.post = V(3), !.body = ForceBlock(V(1), {})])

\* An else belongs to the nearest if: it is shifted.
IfStmt ==
  \/ Top(<<"if", "(", "cexpr", ")", "lstmt">>) /\ La # "else"
     /\ Reduce(5, "stmt", [Stmt("If") EXCEPT !.expr = V(3), !.body = V(1)])
  \/ Top(<<"if", "(", "cexpr", ")", "lstmt", "else", "lstmt">>)
     /\ Reduce(7, "stmt", [Stmt("If") EXCEPT !.expr = V(5), !.body = V(3), !.els = ForceBlock(V(1), {"If"})])

-----------------------------------------------------------------------------
\* The parser: reduce when a production ends here, and shift otherwise.
Reductions ==
  \/ Atom \/ BinaryExpr \/ CondExpr \/ UnaryExpr \/ PostfixExpr \/ Member \/ Call \/ Paren \/ Cast \/ SizeofType
  \/ ExprList \/ Cexpr \/ SpecWord \/ TypeClass \/ PlainType \/ TagDecor \/ NoName \/ Abstract \/ Pointer \/ Grouped
  \/ ArrayOf \/ FuncOf \/ NoArgs \/ Fnarg \/ Abtype \/ Idecor \/ LocalDecl \/ TopDecl \/ FnStart \/ FnEnd
  \/ OpenBlock \/ CloseBlock \/ LabelsStart \/ Label \/ Lstmt \/ OptExpr \/ SimpleStmt \/ ExprStmtEnd \/ Compound \/ IfStmt

Infix == DOMAIN BinaryOf \cup DOMAIN AssignOf \cup {"?"}

ExprStart == {"name", "number", "("} \cup DOMAIN UnaryOf

DecorStart == {"name", "typename", "*", "("}

ArgStart == DeclStart \cup {"name", "..."}

StmtStart == ExprStart \cup {"{", ";", "if", "while", "for", "do", "switch", "return", "break", "continue", "goto", "case", "default"}

\* What may follow the symbol at the top when nothing is reduced.
Expected ==
  CASE S(1) = "prog" -> DeclStart
    [] S(1) = "block1" -> DeclStart \cup {"}"}
    [] S(1) = "labels" -> StmtStart
    [] S(1) = "expr" -> Infix \cup {".", "->", "[", "(", "++", "--"} \cup (IF S(2) = "case" THEN {":"} ELSE IF S(2) = "[" THEN {"]"} ELSE {})
    [] S(1) \in {"exprs", "fnargs"} -> {",", ")"}
    [] S(1) = "cexpr" -> {CASE S(2) = "[" -> "]" [] S(2) = "?" -> ":" [] S(2) = "labels" -> ";" [] OTHER -> ")"}
    [] S(1) = "opt" -> IF S(2) = ";" /\ S(4) = ";" THEN {")"} ELSE {";"}
    [] S(1) = "name" -> IF S(2) = "goto" THEN {";"} ELSE {":"}
    [] S(1) = "decor" -> {"(", "["} \cup (IF S(2) = "(" THEN {")"} ELSE IF S(2) = "type" THEN {} ELSE {"="})
    [] S(1) \in {"abdecor", "abdec1"} -> {"["} \cup (IF S(1) = "abdec1" THEN {"("} ELSE {}) \cup (IF S(2) = "(" THEN {")"} ELSE {})
    [] S(1) = "abtype" -> {")"}
    [] S(1) \in {"typeclass", "type"} -> DecorStart
    [] S(1) = "idecs" -> {",", ";"}
    [] S(1) = "spec" -> SpecWords \cup {"typename"}
    [] S(1) = "lstmt" -> IF S(2) = "do" THEN {"while"} ELSE {"else"}
    [] S(1) = "fn" -> {"{"}
    [] S(1) \in {"if", "while", "switch", "for"} -> {"("}
    [] S(1) \in {"break", "continue"} -> {";"}
    [] S(1) = "default" -> {":"}
    [] S(1) \in {".", "->", "goto"} -> {"name", "typename"}
    [] S(1) = ")" -> IF S(2) = "abtype" THEN ExprStart ELSE {";"}
    [] S(1) = "[" -> ExprStart \cup (IF ArgOf(2) \/ S(2) = "abdecor" THEN {"]"} ELSE {})
    [] S(1) = "," -> IF S(2) = "idecs" THEN DecorStart ELSE IF S(2) = "fnargs" THEN ArgStart ELSE ExprStart
    [] S(1) = "*" /\ InDeclarator(0) -> DecorStart
    [] S(1) = "(" -> CASE ArgOf(2) -> ArgStart
                       [] S(2) = "expr" -> ExprStart \cup {")"}
                       [] S(2) \in {"if", "while", "switch", "for"} -> ExprStart
                       [] S(2) \in {"type", "typeclass", "*", "(", ","} /\ InDeclarator(0) -> DecorStart
                       [] OTHER -> ExprStart \cup DeclStart
    [] OTHER -> ExprStart

\* A mutant of Shift: a token is lost.
ShiftTwo ==
  /\ stack # <<>> /\ La # "EOF" /\ La \in Expected /\ ~ENABLED Reductions
  /\ stack' = Append(stack, [sym |-> La, val |-> input[pos + 1]]) /\ pos' = pos + 2
  /\ UNCHANGED <<input, scope, ndecl, types, error, parsed>>

Shift ==
  /\ stack # <<>> /\ La # "EOF" /\ La \in Expected /\ ~ENABLED Reductions
  /\ stack' = Append(stack, [sym |-> La, val |-> input[pos + 1]]) /\ pos' = pos + 1
  /\ UNCHANGED <<input, scope, ndecl, types, error, parsed>>

-----------------------------------------------------------------------------
\* An error is reported near the last word read or, if a word comes right before it, near that one.
Syms(t) == t \in Names \cup Numbers \cup SpecWords
  \cup {"if", "else", "while", "do", "for", "switch", "case", "default", "return", "break", "continue", "goto", "sizeof"}

\* A mutant of NearWord: always the last word.
LastWord(read) ==
  LET words == SelectSeq(read, Syms) IN IF words = <<>> THEN "" ELSE Last(words)

NearWord(read) ==
  LET Lex(acc, t) == IF Syms(t) THEN [last |-> t, last2 |-> IF acc.was THEN acc.last ELSE "", was |-> TRUE]
                     ELSE [acc EXCEPT !.was = @ /\ t = ")"]
      end == FoldLeft(Lex, [last |-> "", last2 |-> "", was |-> FALSE], read)
  IN IF end.last2 # "" THEN end.last2 ELSE end.last

SyntaxError ==
  /\ stack # <<>> /\ ~ENABLED Reductions /\ La \notin Expected /\ ~(Top(<<"prog">>) /\ La = "EOF")
  /\ stack' = <<>> /\ error' = FirstError({NearWord(SubSeq(input, 1, IF La = "EOF" THEN pos ELSE pos + 1))})
  /\ UNCHANGED <<input, pos, scope, ndecl, types, parsed>>

\* The last of a function's or variable's declarations stays, where it is.
RemoveDuplicates(prog) ==
  LET last == {i \in DOMAIN prog : \A j \in i + 1 .. Len(prog) : prog[j].id # prog[i].id} IN
  [k \in 1 .. Cardinality(last) |-> prog[CHOOSE i \in last : Cardinality({j \in last : j <= i}) = k]]

EndOfFile ==
  /\ Len(stack) = 1 /\ La = "EOF" /\ stack' = <<>>
  /\ parsed' = IF error = {} THEN [op |-> "Prog", decls |-> RemoveDuplicates(V(1))] ELSE parsed
  /\ UNCHANGED <<input, pos, scope, ndecl, types, error>>

Bottom == <<[sym |-> "prog", val |-> <<>>]>>

BeginFile == pos = 0 /\ stack = Bottom /\ scope = <<<<>>>> /\ ndecl = 0 /\ types = {} /\ error = {} /\ parsed = Nil

\* A mutant of Retry: the word is not remembered.
RetrySame ==
  /\ stack = <<>> /\ ~(error \subseteq types \cup {NotAllowed})
  /\ types' = types /\ error' = {}
  /\ pos' = 0 /\ stack' = Bottom /\ scope' = <<<<>>>> /\ ndecl' = 0 /\ UNCHANGED <<input, parsed>>

\* do: the word that the error names may be a type; if it is one already, that is the end.
Retry ==
  /\ stack = <<>> /\ ~(error \subseteq types \cup {NotAllowed})
  /\ types' = types \cup error /\ error' = {}
  /\ pos' = 0 /\ stack' = Bottom /\ scope' = <<<<>>>> /\ ndecl' = 0 /\ UNCHANGED <<input, parsed>>

Failed == stack = <<>> /\ parsed = Nil /\ error \subseteq types \cup {NotAllowed}
=============================================================================
