------------------------------ MODULE Reading ------------------------------
(****************************************************************************)
(* What C and Go text says: a reader for each language, by the precedences  *)
(* and the statement forms that its definition gives.  The reference that   *)
(* the parser and the printer are compared with; not part of the program.   *)
(****************************************************************************)
EXTENDS CTree, FiniteSets, TLC

\* The words that begin a type.  T and U are types in every file; C.char and uint are Go's.
Words == {"int", "char", "void", "short", "long", "unsigned", "static", "extern", "typedef", "const", "T", "U", "C.char", "uint"}

C == [go |-> FALSE, right |-> {2, 3},
      prefix |-> {"*", "&", "+", "-", "!", "~", "++", "--"},
      infix |-> << {","}, DOMAIN AssignOf, {"?"}, {"||"}, {"&&"}, {"|"}, {"^"}, {"&"}, {"==", "!="},
                   {"<", ">", "<=", ">="}, {"<<", ">>"}, {"+", "-"}, {"*", "/", "%"} >>]

Go == [go |-> TRUE, right |-> {}, prefix |-> {"*", "&", "+", "-", "!", "^"},
       infix |-> << {"||"}, {"&&"}, {"==", "!=", "<", ">", "<=", ">="}, {"+", "-", "|", "^"}, {"*", "/", "%", "<<", ">>", "&"} >>]

\* Whether the tokens begin with these, what comes first, and what comes after n of them.
Starts(toks, with) == IsPrefix(with, toks)

First(toks) == IF toks = <<>> THEN "" ELSE toks[1]

After(toks, n) == SubSeq(toks, n + 1, Len(toks))

Got(x, toks) == [ok |-> TRUE, x |-> x, rest |-> toks]

None == [ok |-> FALSE, x |-> Nil, rest |-> <<>>]

Level(L, t) == LET at == {i \in DOMAIN L.infix : t \in L.infix[i]} IN IF at = {} THEN 0 ELSE CHOOSE i \in at : TRUE

\* What follows if this token is next.
Expect(r, t) == IF r.ok /\ First(r.rest) = t THEN Got(r.x, After(r.rest, 1)) ELSE None

-----------------------------------------------------------------------------
\* What can be read next, each by a definition below.
RECURSIVE Follow(_, _)
Climb(L, level, left) == Follow("operators", [lang |-> L, level |-> level, left |-> left])

Unary(L, toks) == Follow("operand", [lang |-> L, toks |-> toks])

Suffix(L, left) == Follow("suffixes", [lang |-> L, left |-> left])

ReadArgs(L, args, toks) == Follow("arguments", [lang |-> L, args |-> args, toks |-> toks])

ReadExpr(L, level, toks) == Climb(L, level, Unary(L, toks))

GoSimple(toks) == Follow("simple statement", toks)

TypeIn(L, toks) == Follow("type and )", [lang |-> L, toks |-> toks])

GoIf(toks) == Follow("if", toks)

CaseList(list, toks) == Follow("cases", [list |-> list, toks |-> toks])

ReadGoStmt(toks) == Follow("statement", toks)

ReadGoStmts(toks, list) == Follow("statements", [list |-> list, toks |-> toks])

ReadGo(toks, prog) == Follow("Go file", [toks |-> toks, prog |-> prog])

GoParams(toks, list) == Follow("parameters", [list |-> list, toks |-> toks])

ReadGoType(toks) == Follow("type", toks)

CDeclarator(toks) == Follow("declarator", toks)

CSuffixes(left) == Follow("C suffixes", left)

CParams(list, toks) == Follow("C parameters", [list |-> list, toks |-> toks])

Declarators(toks, base, storage, list) ==
  Follow("declarators", [toks |-> toks, base |-> base, storage |-> storage, list |-> list])

ReadC(toks, prog) == Follow("C file", [toks |-> toks, prog |-> prog])

CStatement(toks) == Follow("C statement", toks)

CStatements(toks, list) == Follow("C statements", [list |-> list, toks |-> toks])

\* Types.  A pointer that is indexed is a slice in Go, and one to a function is the function.
GoType(toks) ==
  LET t == First(toks)
      Of(kind, n) == LET r == ReadGoType(After(toks, n)) IN IF ~r.ok THEN r ELSE Got(Type(kind, r.x), r.rest)
      elem == ReadGoType(After(toks, 3))
      RECURSIVE Args(_, _)
      Args(list, rest) ==
        LET r == ReadGoType(rest) IN
        CASE First(rest) = ")" -> Got(list, After(rest, 1))
          [] First(rest) # ")" /\ r.ok -> Args(Append(list, r.x), IF First(r.rest) = "," THEN After(r.rest, 1) ELSE r.rest)
          [] OTHER -> None
  IN CASE t = "*" -> IF Starts(toks, <<"*", "[", "0", "]", "byte">>) THEN Got(Type("Ptr", Type("void", Nil)), After(toks, 5)) ELSE Of("Ptr", 1)
       [] t = "[" -> IF Starts(toks, <<"[", "]">>) THEN Of("Ptr", 2)
                     ELSE IF elem.ok THEN Got([Type("Array", elem.x) EXCEPT !.width = Name(toks[2])], elem.rest) ELSE None
       [] t = "func" ->
            LET args == Args(<<>>, After(toks, 2))
                result == IF First(args.rest) \in {"", ",", ")", ";", "=", "{"} THEN Got(Type("void", Nil), args.rest) ELSE ReadGoType(args.rest)
            IN IF args.ok /\ result.ok THEN Got([Type("Func", result.x) EXCEPT !.decls = args.x], result.rest) ELSE None
       [] t = "..." -> Got(Type("...", Nil), After(toks, 2))
       [] t \in {"", ",", ")", ";", "=", "{"} -> None
       [] OTHER -> Got(Type(t, Nil), After(toks, 1))

RECURSIVE Basic(_)
Basic(t) == IF t.base = Nil THEN t.kind ELSE Basic(t.base)

\* How many of the tokens are the words of a declaration.  After a type, T and U are names.
Modifiers == {"static", "extern", "typedef", "const"}

DeclWord(toks, i) == toks[i] \in Words /\ (toks[i] \in {"T", "U"} => \A j \in 1 .. i - 1 : toks[j] \in Modifiers)

DeclWords(toks) ==
  (CHOOSE i \in 1 .. Len(toks) + 1 :
     (i > Len(toks) \/ ~DeclWord(toks, i)) /\ \A j \in 1 .. i - 1 : DeclWord(toks, j)) - 1

Storage(toks) == (Modifiers \ {"const"}) \cap {toks[i] : i \in 1 .. DeclWords(toks)}

\* The Go type that the words of a C type stand for.
WordsType(toks) ==
  LET at(w) == {i \in 1 .. DeclWords(toks) : toks[i] = w}
      named == {w \in {"T", "U", "void"} : at(w) # {}}
      sign == IF at("unsigned") # {} THEN "u" ELSE ""
  IN CASE named # {} -> Type(CHOOSE w \in named : TRUE, Nil)
       [] named = {} /\ at("char") # {} -> Type("C." \o sign \o "char", Nil)
       [] named = {} /\ at("short") # {} -> Type("C." \o sign \o "short", Nil)
       [] named = {} /\ Cardinality(at("long")) = 2 -> Type("C." \o sign \o "longlong", Nil)
       [] OTHER -> Type(sign \o "int", Nil)

\* A C declarator: its name and what it makes of its type, from the name outwards.
OneDeclarator(toks) ==
  LET t == First(toks)
      inner == CDeclarator(After(toks, 1))
      Of(name) == [name |-> name, layers |-> <<>>, params |-> <<>>]
  IN CASE t = "*" -> IF inner.ok THEN Got([inner.x EXCEPT !.layers = Append(@, Type("Ptr", Nil))], inner.rest) ELSE None
       [] t = "(" /\ First(After(toks, 1)) \in {"*", "x"} -> CSuffixes(Expect(inner, ")"))
       [] t \in {"", ";", ",", ")", "[", "=", "{", "("} -> CSuffixes(Got(Of(""), toks))
       [] OTHER -> CSuffixes(Got(Of(t), After(toks, 1)))

DeclaratorSuffixes(left) ==
  LET toks == After(left.rest, 1)
      params == CParams(<<>>, toks)
      With(layer, rest) == CSuffixes(Got([left.x EXCEPT !.layers = Append(@, layer)], rest))
  IN CASE ~left.ok -> None
       [] left.ok /\ First(left.rest) = "[" ->
            IF First(toks) = "]" THEN With([Type("Array", Nil) EXCEPT !.width = Name("unknown")], After(toks, 1))
            ELSE IF First(After(toks, 1)) # "]" THEN None ELSE With([Type("Array", Nil) EXCEPT !.width = Name(toks[1])], After(toks, 2))
       [] left.ok /\ First(left.rest) = "(" ->
            IF ~params.ok THEN None
            ELSE LET named == IF left.x.layers = <<>> THEN [left EXCEPT !.x.params = params.x] ELSE left
                     types == [i \in DOMAIN params.x |-> params.x[i].type]
                 IN CSuffixes(Got([named.x EXCEPT !.layers = Append(@, [Type("Func", Nil) EXCEPT !.decls = types])], params.rest))
       [] OTHER -> left

\* The type that a declarator makes of another, as Go says it.
Made(layers, base) ==
  FoldRight(LAMBDA layer, t : IF layer.kind = "Ptr" /\ t.kind = "Func" THEN t ELSE [layer EXCEPT !.base = t], layers, base)

Params(list, toks) ==
  LET r == CDeclarator(After(toks, DeclWords(toks)))
      all == Append(list, Decl(r.x.name, Made(r.x.layers, WordsType(toks)), Nil, {}))
      Then(l, rest) == IF First(rest) = "," THEN CParams(l, After(rest, 1)) ELSE Expect(Got(l, rest), ")")
  IN CASE First(toks) = ")" -> Got(list, After(toks, 1))
       [] Starts(toks, <<"void", ")">>) -> Got(list, After(toks, 2))
       [] First(toks) = "..." -> Then(Append(list, Decl("args", Type("...", Nil), Nil, {})), After(toks, 1))
       [] DeclWords(toks) > 0 /\ First(toks) # ")" -> IF r.ok /\ Storage(toks) = {} THEN Then(all, r.rest) ELSE None
       [] OTHER -> Then(Append(list, Decl(First(toks), Nil, Nil, {})), After(toks, 1))

\* The C type that comes next, with no name.
CTypeName(toks) ==
  LET r == CDeclarator(After(toks, DeclWords(toks))) IN
  IF DeclWords(toks) = 0 \/ ~r.ok THEN None ELSE Got(Made(r.x.layers, WordsType(toks)), r.rest)

-----------------------------------------------------------------------------
\* Expressions, by climbing the levels.
ReadClimb(L, level, left) ==
  LET o == First(left.rest)
      l == Level(L, o)
      right == ReadExpr(L, IF l \in L.right THEN l ELSE l + 1, After(left.rest, 1))
      mid == Expect(ReadExpr(L, 1, After(left.rest, 1)), ":")
      other == ReadExpr(L, l, mid.rest)
      Built(r) ==
        CASE o = "," -> Expr("Comma", (IF left.x.op = "Comma" THEN left.x.args ELSE <<left.x>>) \o <<r.x>>)
          [] o = "?" -> Expr("Cond", <<left.x, mid.x, r.x>>)
          [] OTHER -> Expr((BinaryOf @@ AssignOf)[o], <<left.x, r.x>>)
      rhs == IF o # "?" THEN right ELSE IF ~mid.ok THEN None ELSE other
  IN IF ~left.ok \/ l = 0 \/ l < level THEN left
     ELSE IF ~rhs.ok THEN None
     ELSE Climb(L, level, Got(Built(rhs), rhs.rest))

ReadTypeIn(L, toks) == Expect(IF L.go THEN ReadGoType(toks) ELSE CTypeName(toks), ")")

ReadUnary(L, toks) ==
  LET t == First(toks)
      arg == Unary(L, After(toks, 1))
      inner == Expect(ReadExpr(L, 1, After(toks, 1)), ")")
      Wrap1(op, r) == IF ~r.ok THEN None ELSE Got(Expr(op, <<r.x>>), r.rest)
      TypeAt(n) == TypeIn(L, After(toks, n))
      IsType(n) == First(After(toks, n)) \in (IF L.go THEN {"*", "[", "func"} ELSE {}) \cup Words /\ TypeAt(n).ok /\ Basic(TypeAt(n).x) \in Words
      typed == t = "(" /\ IsType(1)
      plain == Starts(toks, <<"func", "(", ")", "{">>)
      body == ReadGoStmts(After(toks, IF plain THEN 4 ELSE 5), <<>>)
  IN CASE t \in L.prefix -> Wrap1(IF t = "^" THEN "Twid" ELSE UnaryOf[t], arg)
       [] t = "sizeof" ->
            IF First(After(toks, 1)) = "(" /\ IsType(2)
            THEN Got(Expr("SizeofType", <<>>), TypeAt(2).rest) ELSE Wrap1("SizeofExpr", arg)
       [] typed -> Wrap1("Cast", Unary(L, TypeAt(1).rest))
       [] t = "(" /\ ~typed -> Suffix(L, Wrap1("Paren", inner))
       [] L.go /\ t \in Words -> Wrap1("Cast", arg)
       [] L.go /\ t = "func" -> IF ~body.ok THEN None ELSE Got([op |-> "Literal", text |-> IF plain THEN "" ELSE toks[4], decl |-> "", args |-> <<>>, block |-> body.x], After(body.rest, 2))
       [] t \in {"", ")", "]", "}", "{", ";", ",", ":", "return", "*", "=", "&", "+", "-", "!", "~", "^", "++", "--"} \ L.prefix -> None
       [] OTHER -> Suffix(L, Got(Name(t), After(toks, 1)))

ReadSuffix(L, left) ==
  LET t == First(left.rest)
      args == ReadArgs(L, <<left.x>>, After(left.rest, 1))
      index == Expect(ReadExpr(L, 1, After(left.rest, 1)), "]")
  IN CASE ~left.ok -> left
       [] left.ok /\ t = "(" -> IF ~args.ok THEN None ELSE Suffix(L, Got(Expr("Call", args.x.args), args.rest))
       [] left.ok /\ t = "[" -> IF ~index.ok THEN None ELSE Suffix(L, Got(Expr("Index", <<left.x, index.x>>), index.rest))
       [] left.ok /\ t \in {".", "->"} ->
            Suffix(L, Got([Expr(IF t = "." THEN "Dot" ELSE "Arrow", <<left.x>>) EXCEPT !.text = First(After(left.rest, 1))], After(left.rest, 2)))
       [] left.ok /\ ~L.go /\ t \in {"++", "--"} -> Suffix(L, Got(Expr(PostfixOf[t], <<left.x>>), After(left.rest, 1)))
       [] OTHER -> left

\* An argument is not a list; the function and its arguments so far are in args.
ReadArguments(L, args, toks) ==
  IF First(toks) = ")" THEN Got(Expr("Args", args), After(toks, 1))
  ELSE LET r == ReadExpr(L, IF L.go THEN 1 ELSE 2, toks) IN
       IF ~r.ok THEN None
       ELSE ReadArgs(L, Append(args, r.x), IF First(r.rest) = "," THEN After(r.rest, 1) ELSE r.rest)

-----------------------------------------------------------------------------
\* Statements.  Go's: an assignment and an increment are statements, and bodies are blocks.
ReadSimple(toks) ==
  LET x == ReadExpr(Go, 1, toks)
      o == First(x.rest)
      y == ReadExpr(Go, 1, After(x.rest, 1))
  IN CASE ~x.ok -> None
       [] x.ok /\ o \in DOMAIN AssignOf \cup {":="} ->
            IF ~y.ok THEN None ELSE Got(Expr((("=" :> "Eq" @@ ":=" :> "ColonEq") @@ AssignOf)[o], <<x.x, y.x>>), y.rest)
       [] x.ok /\ o \in DOMAIN PostfixOf -> Got(Expr(PostfixOf[o], <<x.x>>), After(x.rest, 1))
       [] OTHER -> x

Lab(op, x) == [op |-> op, expr |-> x, name |-> ""]

\* The block that comes next.
GoBlock(toks) ==
  IF First(toks) # "{" THEN None
  ELSE LET r == ReadGoStmts(After(toks, 1), <<>>) IN IF ~r.ok THEN None ELSE Got(BlockOf(r.x), r.rest)

ReadIf(toks) ==
  LET x == ReadExpr(Go, 1, After(toks, 1))
      body == GoBlock(x.rest)
      chained == Starts(body.rest, <<"else", "if">>)
      els == IF chained THEN GoIf(After(body.rest, 1)) ELSE GoBlock(After(body.rest, 1))
      s == [Stmt("If") EXCEPT !.expr = x.x, !.body = body.x]
  IN CASE ~x.ok \/ ~body.ok -> None
       [] x.ok /\ body.ok /\ First(body.rest) = "else" -> IF ~els.ok THEN None ELSE Got([s EXCEPT !.els = els.x], els.rest)
       [] OTHER -> Got(s, body.rest)

ReadCases(list, toks) ==
  LET r == ReadExpr(Go, 1, toks) IN
  IF ~r.ok THEN None
  ELSE IF First(r.rest) = "," THEN CaseList(Append(list, Lab("Case", r.x)), After(r.rest, 1))
  ELSE Expect(Got(Append(list, Lab("Case", r.x)), r.rest), ":")

\* The statement that comes next; a clause's labels are those of the statement after them.
GoStatement(toks) ==
  LET t == First(toks)
      rest == After(toks, 1)
      Opt(toks1, stop) == IF First(toks1) = stop THEN Got(Nil, toks1) ELSE GoSimple(toks1)
      pre == Expect(Opt(rest, ";"), ";")
      test == Expect(Opt(pre.rest, ";"), ";")
      post == Opt(test.rest, "{")
      x == ReadExpr(Go, 1, rest)
      cases == IF t = "case" THEN CaseList(<<>>, rest) ELSE Expect(Got(<<Lab("Default", Nil)>>, rest), ":")
      next == LET at == {i \in DOMAIN cases.rest : cases.rest[i] # ";" /\ \A j \in 1 .. i - 1 : cases.rest[j] = ";"} IN
              IF at = {} THEN <<>> ELSE After(cases.rest, (CHOOSE i \in at : TRUE) - 1)
      labelled == IF First(next) \in {"case", "default", "}"} THEN Got(Stmt("Empty"), next) ELSE ReadGoStmt(next)
      typed == ReadGoType(After(toks, 2))
      init == IF First(typed.rest) = "=" THEN ReadExpr(Go, 1, After(typed.rest, 1)) ELSE Got(Nil, typed.rest)
      simple == GoSimple(toks)
  IN CASE t = "{" -> GoBlock(toks)
       [] t = "if" -> GoIf(toks)
       [] t = "for" ->
            LET body == GoBlock(post.rest) IN
            IF ~pre.ok \/ ~test.ok \/ ~post.ok \/ ~body.ok THEN None
            ELSE Got([Stmt("For") EXCEPT !.pre = pre.x, !.expr = test.x, !.post = post.x, !.body = body.x], body.rest)
       [] t = "switch" ->
            LET body == GoBlock(x.rest) IN
            IF ~x.ok \/ ~body.ok THEN None ELSE Got([Stmt("Switch") EXCEPT !.expr = x.x, !.body = body.x], body.rest)
       [] t \in {"case", "default"} ->
            IF ~cases.ok \/ ~labelled.ok THEN None ELSE Got([labelled.x EXCEPT !.labels = cases.x], labelled.rest)
       [] t = "return" -> IF First(rest) \in {";", "}"} THEN Got(Stmt("Return"), rest)
                          ELSE IF ~x.ok THEN None ELSE Got([Stmt("Return") EXCEPT !.expr = x.x], x.rest)
       [] t = "break" -> Got(Stmt("Break"), rest)
       [] t = "continue" -> Got(Stmt("Continue"), rest)
       [] t = "goto" -> Got(Stmt("Goto"), After(toks, 2))
       [] First(rest) = ":" /\ t \notin {"case", "default"} -> Got(Stmt("Labelled"), After(toks, 2))
       [] t = "fallthrough" -> Got(Stmt("Fallthrough"), rest)
       [] t = "var" -> Got([Stmt("StmtDecl") EXCEPT !.decl = Decl(First(rest), typed.x, init.x, {})], init.rest)
       [] OTHER -> IF ~simple.ok THEN None ELSE Got(ExprStmt(simple.x), simple.rest)

\* The statements up to a "}".  Between two there is the end of a line.
GoStatements(toks, list) ==
  CASE First(toks) = ";" -> ReadGoStmts(After(toks, 1), list)
    [] First(toks) = "}" -> Got(list, After(toks, 1))
    [] First(toks) = "" -> None
    [] OTHER -> LET r == ReadGoStmt(toks) IN
                IF ~r.ok \/ First(r.rest) \notin {";", "}"} THEN None ELSE ReadGoStmts(r.rest, Append(list, r.x))

\* A Go file: its variables, and its functions' names, parameters, results and bodies.
ReadGoParams(toks, list) ==
  LET With(t) == IF ~t.ok THEN None ELSE GoParams(t.rest, Append(list, Decl(toks[1], t.x, Nil, {})))
  IN CASE First(toks) = ")" -> Got(list, After(toks, 1))
       [] First(toks) = "," -> GoParams(After(toks, 1), list)
       [] OTHER -> With(ReadGoType(After(toks, 1)))

Fun(name, params, result, body) == [name |-> name, params |-> params, result |-> result, body |-> body]

NoProg == [vars |-> <<>>, fns |-> <<>>, typedefs |-> <<>>]

GoResult(toks) == IF First(toks) = "{" THEN Got(Type("void", Nil), toks) ELSE ReadGoType(toks)

GoFile(toks, prog) ==
  LET t == First(toks)
      Var(var) == IF ~var.ok THEN None ELSE ReadGo(var.rest, [prog EXCEPT !.vars = Append(@, var.x)])
      Body(params, result, body) ==
        IF ~body.ok THEN None ELSE ReadGo(body.rest, [prog EXCEPT !.fns = Append(@, Fun(toks[2], params, result, body.x))])
      Result(params, result) == Body(params, result.x, GoBlock(result.rest))
      Taking(params) == IF ~params.ok THEN None ELSE Result(params.x, GoResult(params.rest))
      Named(type) == IF ~type.ok THEN None ELSE ReadGo(type.rest, [prog EXCEPT !.typedefs = Append(@, Decl(toks[2], type.x, Nil, {}))])
  IN CASE t = "" -> Got(prog, <<>>)
       [] t = ";" -> ReadGo(After(toks, 1), prog)
       [] t = "var" -> Var(ReadGoStmt(toks))
       [] t = "func" -> Taking(GoParams(After(toks, 3), <<>>))
       [] t = "type" -> Named(ReadGoType(After(toks, 2)))
       [] OTHER -> None

-----------------------------------------------------------------------------
\* C.
DeclaratorList(toks, base, storage, list) ==
  LET d == CDeclarator(toks)
      init == IF First(d.rest) = "=" THEN ReadExpr(C, 2, After(d.rest, 1)) ELSE Got(Nil, d.rest)
      all == Append(list, [Stmt("StmtDecl") EXCEPT !.decl = Decl(d.x.name, Made(d.x.layers, base), init.x, storage)])
  IN IF ~d.ok \/ ~init.ok THEN None
     ELSE IF d.x.name = "" THEN None
     ELSE IF First(init.rest) = "," THEN Declarators(After(init.rest, 1), base, storage, all) ELSE Expect(Got(all, init.rest), ";")

\* The declaration that comes next.
Declaration(toks) == Declarators(After(toks, DeclWords(toks)), WordsType(toks), Storage(toks), <<>>)

OneCStatement(toks) ==
  LET t == First(toks)
      rest == After(toks, 1)
      test == Expect(ReadExpr(C, 1, After(rest, 1)), ")")
      body == CStatement(IF t = "do" THEN rest ELSE test.rest)
      els == CStatement(After(body.rest, 1))
      until == Expect(Expect(ReadExpr(C, 1, After(body.rest, 2)), ")"), ";")
      Opt(r, stop) == IF First(r) = stop THEN Got(Nil, After(r, 1)) ELSE Expect(ReadExpr(C, 1, r), stop)
      pre == Opt(After(rest, 1), ";")
      cond == Opt(pre.rest, ";")
      post == Opt(cond.rest, ")")
      loop == CStatement(post.rest)
      label == IF t = "case" THEN Expect(ReadExpr(C, 2, rest), ":") ELSE Expect(Got(Nil, rest), ":")
      labelled == CStatement(label.rest)
      block == CStatements(rest, <<>>)
      value == Opt(rest, ";")
      after == CStatement(After(rest, 1))
      x == Opt(toks, ";")
      With(r, s) == IF r.ok THEN Got(s, r.rest) ELSE None
  IN CASE t = "{" -> With(block, BlockOf(block.x))
       [] t = ";" -> Got(Stmt("Empty"), rest)
       [] t = "if" /\ First(body.rest) # "else" -> With(body, [Stmt("If") EXCEPT !.expr = test.x, !.body = body.x])
       [] t = "if" /\ First(body.rest) = "else" -> With(els, [Stmt("If") EXCEPT !.expr = test.x, !.body = body.x, !.els = els.x])
       [] t = "while" -> With(body, [Stmt("While") EXCEPT !.expr = test.x, !.body = body.x])
       [] t = "switch" -> With(body, [Stmt("Switch") EXCEPT !.expr = test.x, !.body = body.x])
       [] t = "do" -> With(until, [Stmt("Do") EXCEPT !.expr = until.x, !.body = body.x])
       [] t = "for" -> With(loop, [Stmt("For") EXCEPT !.pre = pre.x, !.expr = cond.x, !.post = post.x, !.body = loop.x])
       [] t \in {"case", "default"} ->
            With(labelled, [labelled.x EXCEPT !.labels = <<Lab(IF t = "case" THEN "Case" ELSE "Default", label.x)>> \o @])
       [] t = "return" -> With(value, [Stmt("Return") EXCEPT !.expr = value.x])
       [] t = "break" -> Expect(Got(Stmt("Break"), rest), ";")
       [] t = "continue" -> Expect(Got(Stmt("Continue"), rest), ";")
       [] t = "goto" -> Expect(Got(Stmt("Goto"), After(rest, 1)), ";")
       [] First(rest) = ":" /\ t \notin {"case", "default", "0", "1", "2", "3"} -> With(after, [after.x EXCEPT !.op = "Labelled"])
       [] OTHER -> With(x, ExprStmt(x.x))

MoreCStatements(toks, list) ==
  LET ds == Declaration(toks) s == CStatement(toks) IN
  CASE toks = <<>> -> None
    [] First(toks) = "}" -> Got(list, After(toks, 1))
    [] First(toks) \in Words -> IF ds.ok THEN CStatements(ds.rest, list \o ds.x) ELSE None
    [] OTHER -> IF s.ok THEN CStatements(s.rest, Append(list, s.x)) ELSE None

\* A C file: its variables and functions.
CFile(toks, prog) ==
  LET Function(d, body) ==
        IF body.ok /\ d.x.name # "" /\ d.x.layers # <<>> /\ d.x.layers[1].kind = "Func"
           /\ \A i \in DOMAIN d.x.params : d.x.params[i].name # "" /\ d.x.params[i].type # Nil
        THEN ReadC(body.rest, [prog EXCEPT !.fns =
               Append(@, Fun(d.x.name, d.x.params, Made(Tail(d.x.layers), WordsType(toks)), body.x))])
        ELSE None
      Variables(ds) == IF ds.ok THEN ReadC(ds.rest, [prog EXCEPT !.vars = @ \o ds.x]) ELSE None
      Declared(d) == IF d.ok /\ First(d.rest) = "{" THEN Function(d, CStatement(d.rest)) ELSE Variables(Declaration(toks))
  IN CASE toks = <<>> -> Got(prog, <<>>)
       [] toks # <<>> /\ First(toks) \notin Words -> None
       [] OTHER -> Declared(CDeclarator(After(toks, DeclWords(toks))))

Follow(what, at) ==
  CASE what = "type" -> GoType(at)
    [] what = "declarator" -> OneDeclarator(at)
    [] what = "C suffixes" -> DeclaratorSuffixes(at)
    [] what = "C parameters" -> Params(at.list, at.toks)
    [] what = "declarators" -> DeclaratorList(at.toks, at.base, at.storage, at.list)
    [] what = "operators" -> ReadClimb(at.lang, at.level, at.left)
    [] what = "operand" -> ReadUnary(at.lang, at.toks)
    [] what = "suffixes" -> ReadSuffix(at.lang, at.left)
    [] what = "arguments" -> ReadArguments(at.lang, at.args, at.toks)
    [] what = "simple statement" -> ReadSimple(at)
    [] what = "type and )" -> ReadTypeIn(at.lang, at.toks)
    [] what = "if" -> ReadIf(at)
    [] what = "cases" -> ReadCases(at.list, at.toks)
    [] what = "statement" -> GoStatement(at)
    [] what = "statements" -> GoStatements(at.toks, at.list)
    [] what = "parameters" -> ReadGoParams(at.toks, at.list)
    [] what = "C statement" -> OneCStatement(at)
    [] what = "C statements" -> MoreCStatements(at.toks, at.list)
    [] what = "C file" -> CFile(at.toks, at.prog)
    [] what = "Go file" -> GoFile(at.toks, at.prog)
=============================================================================
