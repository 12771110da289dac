------------------------------ MODULE GoPrint ------------------------------
(****************************************************************************)
(* How c2gofmt writes the rewritten tree as Go: the tokens that its printer *)
(* produces.  ";" stands for the end of a line; a comment, the package      *)
(* clause and the layout are left out.                                      *)
(****************************************************************************)
EXTENDS CTree

\* Go's precedences, tightest first.  Parentheses are an operator that is looser than all.
GoPrec(op) ==
  CASE op \in {"Name", "Number"} -> 0
    [] op \in {"Arrow", "Call", "Dot", "Index"} -> 1
    [] op \in {"Addr", "Cast", "Indir", "Minus", "Not", "Plus", "PostDec", "PostInc", "PreDec", "PreInc", "SizeofExpr",
               "SizeofType", "Twid"} -> 2
    [] op \in {"And", "Div", "Lsh", "Mod", "Mul", "Rsh"} -> 3
    [] op \in {"Add", "Or", "Sub", "Xor"} -> 4
    [] op \in {"EqEq", "Gt", "GtEq", "Lt", "LtEq", "NotEq"} -> 5
    [] op = "AndAnd" -> 6
    [] op = "OrOr" -> 7
    [] op \in {"Comma", "Cond"} -> 8
    [] op \in AssignOps \cup {"ColonEq", "Paren"} -> 9
    [] OTHER -> 0

GoLow == 9

OpStr(op) ==
  CASE op = "Twid" -> "^" [] op = "ColonEq" -> ":="
    [] op \in OpsOf(BinaryOf) -> Written(BinaryOf, op)
    [] op \in AssignOps -> Written(AssignOf, op)
    [] op \in OpsOf(UnaryOf) \ {"SizeofExpr"} -> Written(UnaryOf, op)
    [] OTHER -> ""

SameSign(x) ==
  \/ x.op \in {"Plus", "Minus", "Addr"} /\ x.args[1].op = x.op
  \/ x.op = "Plus" /\ x.args[1].op = "PreInc"
  \/ x.op = "Minus" /\ x.args[1].op = "PreDec"

Separated(list, sep) == FlattenSeq([i \in DOMAIN list |-> IF i = 1 THEN list[i] ELSE sep \o list[i]])

\* A function that is called through (*f).
Callee(f) == IF f.op = "Paren" /\ f.args[1].op = "Indir" THEN f.args[1].args[1] ELSE f

RECURSIVE GoExpr(_, _), GoType(_), GoStmt(_, _), GoDecl(_, _)
GoExpr(x, prec) ==
  LET p == GoPrec(x.op)
      Arg(i, q) == GoExpr(x.args[i], q)
      Stmts(list) == Separated([i \in DOMAIN list |-> GoStmt(list[i], TRUE)], <<";">>)
      out ==
        CASE OpStr(x.op) # "" /\ Len(x.args) = 2 -> Arg(1, p) \o <<OpStr(x.op)>> \o Arg(2, p - 1)
          [] OpStr(x.op) # "" /\ Len(x.args) = 1 -> <<OpStr(x.op)>> \o Arg(1, IF SameSign(x) THEN p - 1 ELSE p)
          [] x.op = "ExprBlock" -> <<"func", "(", ")", "{">> \o Stmts(x.block) \o <<"}", "(", ")">>
          [] x.op = "SideEffectFunc" ->
               <<"func", "(", ")", x.text, "{">> \o Stmts(x.block) \o (IF x.block = <<>> THEN <<>> ELSE <<";">>)
               \o (IF x.after = <<>> THEN <<"return">> \o Arg(1, GoLow)
                   ELSE <<"_r", ":=">> \o Arg(1, GoLow) \o <<";">> \o Stmts(x.after) \o <<";", "return", "_r">>)
               \o <<"}", "(", ")">>
          [] x.op \in {"Arrow", "Dot"} -> Arg(1, p) \o <<".", x.text>>
          [] x.op = "Call" -> GoExpr(Callee(x.args[1]), 2) \o <<"(">>
                              \o Separated([i \in 1 .. Len(x.args) - 1 |-> Arg(i + 1, 8)], <<",">>) \o <<")">>
          [] x.op = "Cast" -> (IF x.type.kind \in {"Ptr", "Func"} THEN <<"(">> \o GoType(x.type) \o <<")">> ELSE GoType(x.type))
                              \o <<"(">> \o Arg(1, GoLow) \o <<")">>
          [] x.op = "Comma" ->
               IF x.args = <<>> THEN <<>>
               ELSE <<"(", "func", "(", ")", "{">> \o Separated([i \in DOMAIN x.args |-> Arg(i, GoLow)], <<";">>)
                    \o <<"}", "(", ")", ")">>
          [] x.op = "Cond" -> <<"TERNARY", "(">> \o Arg(1, p - 1) \o <<",">> \o Arg(2, p) \o <<",">> \o Arg(3, p) \o <<")">>
          [] x.op = "Index" -> Arg(1, p) \o <<"[">> \o Arg(2, GoLow) \o <<"]">>
          [] x.op = "SizeofExpr" -> <<"sizeof", "(">> \o Arg(1, GoLow) \o <<")">>
          [] x.op = "SizeofType" -> <<"sizeof", "(">> \o GoType(x.type) \o <<")">>
          [] x.op = "Paren" -> Arg(1, p)
          [] x.op \in {"PostInc", "PostDec"} -> Arg(1, p) \o <<IF x.op = "PostInc" THEN "++" ELSE "--">>
          [] OTHER -> <<x.text>>
  IN IF x.op \in {"Name", "Number"} THEN <<x.text>> ELSE IF prec < p THEN <<"(">> \o out \o <<")">> ELSE out

\* A type is written from the outside in.
GoType(t) ==
  CASE t = Nil -> <<"nil_type">>
    [] t # Nil /\ t.kind \in {"int", "long"} -> <<"int">>
    [] t # Nil /\ t.kind \in {"uint", "ulong"} -> <<"uint">>
    [] t # Nil /\ t.kind = "TypedefType" -> t.decls
    [] t # Nil /\ t.kind \in {"Ptr", "Slice"} /\ Is(t.base, "Func") -> GoType(t.base)
    [] t # Nil /\ t.kind \in {"Ptr", "Slice"} /\ Is(t.base, "void") -> <<"*", "[", "0", "]", "byte">>
    [] t # Nil /\ t.kind \in {"Ptr", "Slice"} /\ ~Is(t.base, "Func") /\ ~Is(t.base, "void") ->
         (IF t.kind = "Ptr" THEN <<"*">> ELSE <<"[", "]">>) \o GoType(t.base)
    [] t # Nil /\ t.kind = "Array" -> <<"[">> \o (IF t.width = Nil THEN <<"unknown">> ELSE GoExpr(t.width, GoLow)) \o <<"]">> \o GoType(t.base)
    [] t # Nil /\ t.kind = "Func" ->
         LET Arg(d) == CASE d.name = "..." -> <<"...", "interface{}">> [] d.name = "" /\ Is(d.type, "void") -> <<>> [] OTHER -> GoType(d.type)
         IN <<"func", "(">> \o Separated([i \in DOMAIN t.decls |-> Arg(t.decls[i])], <<",">>) \o <<")">>
            \o (IF Is(t.base, "void") THEN <<>> ELSE GoType(t.base))
    [] OTHER -> <<"C." \o t.kind>>

\* Cases that go to the same place become one; a default after them is fallen into.
GoLabels(labels) ==
  LET Lab(i) ==
        LET l == labels[i]
            joined == i > 1 /\ labels[i - 1].op = "Case"
            joins == i < Len(labels) /\ l.op = "Case" /\ labels[i + 1].op = "Case"
        IN CASE l.op = "LabelName" -> <<l.name, ":", ";">>
             [] l.op = "Case" -> (IF joined THEN <<",">> ELSE <<"case">>) \o GoExpr(l.expr, GoLow) \o (IF joins THEN <<>> ELSE <<":", ";">>)
             [] l.op = "Default" -> (IF joined THEN <<"fallthrough", ";">> ELSE <<>>) \o <<"default", ":", ";">>
  IN FlattenSeq([i \in DOMAIN labels |-> Lab(i)])

\* nest: the braces of a block are written.
Nested(s) == IF s.op = "Block" THEN GoStmt(s, TRUE) ELSE <<"{", ";">> \o GoStmt(s, TRUE) \o <<";", "}">>

GoStmt(s, nest) ==
  LET Opt(x) == IF x = Nil THEN <<>> ELSE GoExpr(x, GoLow)
      braces == s.op = "Block" /\ nest
  IN GoLabels(s.labels) \o
     CASE s.op \in {"Block", "BlockNoBrace"} ->
            (IF braces THEN <<"{", ";">> ELSE <<>>) \o Separated([i \in DOMAIN s.block |-> GoStmt(s.block[i], TRUE)], <<";">>)
            \o (IF braces THEN <<";", "}">> ELSE <<>>)
       [] s.op = "Fallthrough" -> <<"fallthrough">>
       [] s.op = "Break" -> <<"break">>
       [] s.op = "Continue" -> <<"continue">>
       [] s.op = "Empty" -> <<>>
       [] s.op = "For" -> <<"for">> \o Opt(s.pre) \o <<";">> \o Opt(s.expr) \o <<";">> \o Opt(s.post) \o Nested(s.body)
       [] s.op = "If" -> <<"if">> \o Opt(s.expr) \o Nested(s.body)
            \o (IF s.els = Nil THEN <<>> ELSE <<"else">> \o (IF s.els.op = "If" THEN GoStmt(s.els, TRUE) ELSE Nested(s.els)))
       [] s.op = "Goto" -> <<"goto", s.text>>
       [] s.op = "Return" -> <<"return">> \o Opt(s.expr)
       [] s.op = "StmtDecl" -> GoDecl(s.decl, FALSE)
       [] s.op = "StmtExpr" -> Opt(s.expr)
       [] s.op = "Switch" -> <<"switch">> \o Opt(s.expr) \o Nested(s.body)

\* A function's static variables go before it.
GoFunc(d) ==
  LET statics == SelectSeq(d.body.block, LAMBDA s : s.op = "StmtDecl" /\ "static" \in s.decl.storage)
      rest == SelectSeq(d.body.block, LAMBDA s : ~(s.op = "StmtDecl" /\ "static" \in s.decl.storage))
      args == d.type.decls
      Arg(i) == CASE Is(args[i].type, "void") -> <<>>
                  [] args[i].name = "..." -> (IF i > 1 THEN <<",">> ELSE <<>>) \o <<"args", "...", "interface{}">>
                  [] OTHER -> (IF i > 1 THEN <<",">> ELSE <<>>) \o <<args[i].name>> \o GoType(args[i].type)
  IN FlattenSeq([i \in DOMAIN statics |-> GoDecl(statics[i].decl, TRUE) \o <<";">>])
     \o <<"func", d.name, "(">> \o FlattenSeq([i \in DOMAIN args |-> Arg(i)]) \o <<")">>
     \o (IF Is(d.type.base, "void") THEN <<>> ELSE GoType(d.type.base))
     \o <<"{", ";">> \o GoStmt([d.body EXCEPT !.block = rest], FALSE) \o <<";", "}", ";">>

\* What is only declared elsewhere is a comment.
GoDecl(d, top) ==
  LET init == IF d.init = Nil THEN <<>> ELSE GoExpr(d.init, 8) IN
  CASE "extern" \in d.storage \/ (d.name = "" /\ "typedef" \notin d.storage) -> <<>>
    [] "typedef" \in d.storage /\ "extern" \notin d.storage -> <<"type", d.name>> \o GoType(d.type)
    [] d.name # "" /\ d.storage \cap {"extern", "typedef"} = {} /\ d.type # Nil /\ d.type.kind = "Func" -> IF d.body = Nil THEN <<>> ELSE GoFunc(d)
    [] OTHER -> IF d.init # Nil /\ ~top THEN <<d.name, ":=">> \o init
                ELSE <<"var", d.name>> \o (IF d.type = Nil THEN <<"unknown">> ELSE GoType(d.type))
                     \o (IF d.init = Nil THEN <<>> ELSE <<"=">> \o init)

WriteGo(decls) == FlattenSeq([i \in DOMAIN decls |-> GoDecl(decls[i], TRUE) \o <<";">>])
=============================================================================
