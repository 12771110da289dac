------------------------------ MODULE GoPasses ------------------------------
(****************************************************************************)
(* The passes of c2gofmt over a program: cc.Walk visits every expression    *)
(* and statement, and each pass says what it does before and after it goes  *)
(* into one.  What "before" returns is what is walked next.                 *)
(****************************************************************************)
EXTENDS GoSyntax, GoDecls, TLC

\* env is the set of the pointer variables, or the names of the declarations.
BeforeExpr(x, pass, env) ==
  CASE pass = "rewrite" -> PreExpr(x, env)
    [] pass = "bool" -> BoolExpr(x, env)
    [] pass = "words" /\ x.op \in {"Dot", "Arrow", "Name"} -> [x EXCEPT !.text = Renamed(@)]
    [] pass = "names" /\ x.op = "Name" /\ x.decl \in DOMAIN env -> [x EXCEPT !.text = env[x.decl]]
    [] OTHER -> x

AfterExpr(x, pass) == CASE pass = "cut" -> CutParen(x) [] pass = "simplify" -> SimplifyNot(x) [] OTHER -> x

BeforeStmt(s, pass, env, at) ==
  CASE pass = "rewrite" -> RewriteStmt(s, at)
    [] pass = "bool" /\ s.op \in {"If", "For"} /\ s.expr # Nil -> [s EXCEPT !.expr = FixBool(@, env)]
    [] pass = "words" -> [s EXCEPT !.text = IF s.op = "Goto" THEN Renamed(@) ELSE @,
                                   !.labels = [i \in DOMAIN @ |-> [@[i] EXCEPT !.name = Renamed(@)]],
                                   !.decl = IF @ = Nil THEN Nil ELSE [@ EXCEPT !.name = Renamed(@)]]
    [] pass = "move" -> MoveDecl(s)
    [] OTHER -> s

AfterStmt(s, pass) ==
  CASE pass = "empty" /\ s.op = "StmtExpr" /\ s.expr.op = "Comma" /\ s.expr.args = <<>> -> [s EXCEPT !.op = "Empty", !.expr = Nil]
    [] pass = "inline" -> InlineBlockNoBrace(s)
    [] OTHER -> s

\* The After statements of a function literal are not walked; their names are printed as
\* all others are.
RECURSIVE WalkExpr(_, _, _, _), WalkStmt(_, _, _, _)
WalkParts(x, pass, env, at) ==
  [f \in DOMAIN x |->
     CASE f = "args" -> [i \in DOMAIN x.args |-> WalkExpr(x.args[i], pass, env, at)]
       [] f = "block" \/ (f = "after" /\ pass = "names") ->
            [i \in DOMAIN x[f] |-> WalkStmt(x[f][i], pass, env, at \o "x" \o ToString(i))]
       [] OTHER -> x[f]]

WalkExpr(x0, pass, env, at) ==
  IF x0 = Nil THEN Nil ELSE AfterExpr(WalkParts(BeforeExpr(x0, pass, env), pass, env, at), pass)

StmtParts(s, pass, env, at) ==
  LET X(x, f) == WalkExpr(x, pass, env, at \o f)
      T(t, f) == WalkStmt(t, pass, env, at \o f)
  IN [s EXCEPT !.pre = X(@, "p"), !.expr = X(@, "e"), !.post = X(@, "q"),
        !.decl = IF @ = Nil THEN Nil ELSE [@ EXCEPT !.init = X(@, "d")],
        !.body = T(@, "o"), !.els = T(@, "s"),
        !.block = [i \in DOMAIN @ |-> T(@[i], "b" \o ToString(i))],
        !.labels = [i \in DOMAIN @ |-> [@[i] EXCEPT !.expr = X(@, "l")]]]

WalkStmt(s0, pass, env, at) ==
  IF s0 = Nil THEN Nil ELSE AfterStmt(StmtParts(BeforeStmt(s0, pass, env, at), pass, env, at), pass)

Pass(decls, pass, env) ==
  [i \in DOMAIN decls |-> [decls[i] EXCEPT !.init = WalkExpr(@, pass, env, ToString(i)),
                                           !.body = WalkStmt(@, pass, env, ToString(i))]]

-----------------------------------------------------------------------------
\* The declarations of a program: at top level, parameters, and in the bodies.
Params(d) == IF d.type # Nil /\ d.type.kind = "Func" THEN ToSet(d.type.decls) ELSE {}

Locals(d) == {n.decl : n \in {m \in StmtNodes(d.body) : m.op = "StmtDecl"}}

AllDecls(decls) == ToSet(decls) \cup UNION {Params(d) \cup Locals(d) : d \in ToSet(decls)}

Pointers(decls) == {d.id : d \in {e \in AllDecls(decls) : e.type # Nil /\ e.type.kind \in {"Ptr", "Slice"}}}

\* A pointer that is indexed is a slice, as deep as it is indexed.
RECURSIVE Root(_)
Root(x) == IF x.args[1].op = "Index" THEN [Root(x.args[1]) EXCEPT !.depth = @ + 1] ELSE [x |-> x.args[1], depth |-> 1]

Indexed(decls) ==
  LET all == UNION {ExprNodes(d.init) \cup ExprsIn(d.body) : d \in ToSet(decls)} IN
  {r \in {Root(x) : x \in {y \in all : y.op = "Index"}} : r.x.op = "Name"}

Depth(v, marks) ==
  LET at == {r.depth : r \in {m \in marks : m.x.decl = v}} IN
  IF v = "" \/ at = {} THEN 0 ELSE CHOOSE n \in at : \A m \in at : m <= n

\* And int f(void) is int f().
OnlyVoid(ds) == Len(ds) = 1 /\ ds[1].name = "" /\ Is(ds[1].type, "void")

RECURSIVE Retyped(_, _, _)
Retyped(t, depth, marks) ==
  IF t = Nil \/ t.kind = "TypedefType" THEN t
  ELSE [t EXCEPT !.kind = IF @ = "Ptr" /\ depth > 0 THEN "Slice" ELSE @,
                 !.base = Retyped(@, IF t.kind = "Ptr" THEN depth - 1 ELSE 0, marks),
                 !.decls = IF t.kind # "Func" THEN @ ELSE IF OnlyVoid(@) THEN <<>>
                           ELSE [i \in DOMAIN @ |-> [@[i] EXCEPT !.type = Retyped(@, Depth(t.decls[i].id, marks), marks)]]]

RetypeAll(decls) ==
  LET marks == Indexed(decls)
      Of(d) == IF d = Nil THEN Nil ELSE [d EXCEPT !.type = Retyped(@, Depth(d.id, marks), marks)]
      RECURSIVE In(_)
      In(s) == IF s = Nil THEN Nil
               ELSE [s EXCEPT !.decl = Of(@), !.body = In(@), !.els = In(@), !.block = [i \in DOMAIN @ |-> In(@[i])]]
  IN [i \in DOMAIN decls |-> [Of(decls[i]) EXCEPT !.body = In(@)]]

-----------------------------------------------------------------------------
\* What main's do calls, in its order.
RewriteSyntax(decls) ==
  LET ptrs == Pointers(decls) IN
  FoldLeft(LAMBDA ds, pass : Pass(ds, pass, ptrs), RetypeAll(decls), <<"rewrite", "empty", "bool", "cut">>)

SimplifyBool(decls) == Pass(decls, "simplify", {})

WordsRenamed(decls) == [i \in DOMAIN decls |-> [decls[i] EXCEPT !.name = Renamed(@), !.type = RenamedParams(@)]]

Distinct(words) == [i \in DOMAIN words |-> NameStatics([words[i] EXCEPT !.name = UniqueName(words, i)])]

\* Every use of a declaration gets the name that the declaration has.
NamesOf(decls) == LET all == AllDecls(decls) IN [id \in {d.id : d \in all} |-> (CHOOSE d \in all : d.id = id).name]

UsesRenamed(decls) == Pass(decls, "names", NamesOf(decls))

RenameDecls(given) ==
  UsesRenamed(Distinct(WordsRenamed(Pass(SelectSeq(given, LAMBDA d : d.name # ""), "words", {}))))

MoveDecls(decls) == Pass(Pass(decls, "inline", {}), "move", {})
=============================================================================
