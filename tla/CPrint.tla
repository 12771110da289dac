------------------------------- MODULE CPrint -------------------------------
(****************************************************************************)
(* How package cc writes a syntax tree as C: the tokens that its printer    *)
(* produces, without the white space.  A declarator is written from the     *)
(* name outwards, which is the reverse of how its type is nested.           *)
(****************************************************************************)
EXTENDS CTree

\* The precedences, tightest first.
CLevels == << {"Name", "Number"}, {"Arrow", "Call", "Dot", "Index"},
  {"Addr", "Cast", "Indir", "Minus", "Not", "Plus", "PostDec", "PostInc", "PreDec", "PreInc", "SizeofExpr", "SizeofType", "Twid"},
  {"Div", "Mod", "Mul"}, {"Add", "Sub"}, {"Lsh", "Rsh"}, {"Gt", "GtEq", "Lt", "LtEq"}, {"EqEq", "NotEq"}, {"And"}, {"Xor"},
  {"Or"}, {"AndAnd"}, {"OrOr"}, {"Cond"}, AssignOps, {"Comma"}, {"Paren"} >>

CPrec(op) == CHOOSE i \in DOMAIN CLevels : op \in CLevels[i]

CommaPrec == CPrec("Comma")

LowPrec == CPrec("Paren")

\* A sign before the same sign, or before an increment that begins with it.
Runs(x) ==
  \/ x.op \in {"Plus", "Minus", "Addr"} /\ x.args[1].op = x.op
  \/ x.op = "Plus" /\ x.args[1].op = "PreInc"
  \/ x.op = "Minus" /\ x.args[1].op = "PreDec"

Commas(list) == FlattenSeq([i \in DOMAIN list |-> IF i = 1 THEN list[i] ELSE <<",">> \o list[i]])

\* A pointer's declarator is in parentheses before what binds tighter.
Ungrouped(name) == name

Grouped(name) == IF name # <<>> /\ name[1] = "*" THEN <<"(">> \o name \o <<")">> ELSE name

RECURSIVE CExpr(_, _), CType(_, _), CDecl(_), CStmt(_)
CExpr(x, prec) ==
  LET p == CPrec(x.op)
      Arg(i, q) == CExpr(x.args[i], q)
      out ==
        CASE x.op \in OpsOf(BinaryOf) -> Arg(1, p) \o <<Written(BinaryOf, x.op)>> \o Arg(2, p - 1)
          [] x.op \in AssignOps -> Arg(1, p - 1) \o <<Written(AssignOf, x.op)>> \o Arg(2, p)
          [] x.op \in OpsOf(UnaryOf) -> <<Written(UnaryOf, x.op)>> \o Arg(1, IF Runs(x) THEN p - 1 ELSE p)
          [] x.op \in OpsOf(PostfixOf) -> Arg(1, p) \o <<Written(PostfixOf, x.op)>>
          [] x.op = "Dot" -> Arg(1, p) \o <<".", x.text>>
          [] x.op = "Arrow" -> Arg(1, p) \o <<"->", x.text>>
          [] x.op = "Call" -> Arg(1, CPrec("Addr")) \o <<"(">>
                              \o Commas([i \in 1 .. Len(x.args) - 1 |-> Arg(i + 1, CommaPrec)]) \o <<")">>
          [] x.op = "Index" -> Arg(1, p) \o <<"[">> \o Arg(2, LowPrec) \o <<"]">>
          [] x.op = "Cast" -> <<"(">> \o CType(x.type, <<>>) \o <<")">> \o Arg(1, p)
          [] x.op = "SizeofType" -> <<"sizeof", "(">> \o CType(x.type, <<>>) \o <<")">>
          [] x.op = "Cond" -> Arg(1, p - 1) \o <<"?">> \o Arg(2, p) \o <<":">> \o Arg(3, p)
          [] x.op = "Comma" -> Commas([i \in DOMAIN x.args |-> Arg(i, p - 1)])
          [] x.op = "Paren" -> <<"(">> \o Arg(1, p) \o <<")">>
          [] OTHER -> <<x.text>>
  IN IF prec < p THEN <<"(">> \o out \o <<")">> ELSE out

\* name is what was written of the declarator so far.
CType(t, name) ==
  CASE t.kind = "Ptr" -> CType(t.base, <<"*">> \o name)
    [] t.kind = "Array" -> CType(t.base, Grouped(name) \o <<"[">> \o (IF t.width = Nil THEN <<>> ELSE CExpr(t.width, LowPrec)) \o <<"]">>)
    [] t.kind = "Func" -> CType(t.base, Grouped(name) \o <<"(">> \o Commas([i \in DOMAIN t.decls |-> CDecl(t.decls[i])]) \o <<")">>)
    [] t.kind = "TypedefType" -> t.decls \o name
    [] OTHER -> <<t.kind>> \o name

CDecl(d) ==
  SetToSeq(d.storage)
  \o (IF d.type = Nil THEN <<d.name>> ELSE CType(d.type, IF d.name = "" THEN <<>> ELSE <<d.name>>))
  \o (IF d.init = Nil THEN <<>> ELSE <<"=">> \o CExpr(d.init, CommaPrec))
  \o (IF d.body = Nil THEN <<>> ELSE CStmt(d.body))

CLabel(lab) ==
  CASE lab.op = "LabelName" -> <<lab.name, ":">>
    [] lab.op = "Case" -> <<"case">> \o CExpr(lab.expr, LowPrec) \o <<":">>
    [] lab.op = "Default" -> <<"default", ":">>

CStmt(s) ==
  LET Opt(x) == IF x = Nil THEN <<>> ELSE CExpr(x, LowPrec)
      Test(word) == <<word, "(">> \o Opt(s.expr) \o <<")">>
  IN FlattenSeq([i \in DOMAIN s.labels |-> CLabel(s.labels[i])]) \o
     CASE s.op = "Block" -> <<"{">> \o FlattenSeq([i \in DOMAIN s.block |-> CStmt(s.block[i])]) \o <<"}">>
       [] s.op = "Break" -> <<"break", ";">>
       [] s.op = "Continue" -> <<"continue", ";">>
       [] s.op = "Do" -> <<"do">> \o CStmt(s.body) \o Test("while") \o <<";">>
       [] s.op = "Empty" -> <<";">>
       [] s.op = "For" -> <<"for", "(">> \o Opt(s.pre) \o <<";">> \o Opt(s.expr) \o <<";">> \o Opt(s.post) \o <<")">> \o CStmt(s.body)
       [] s.op = "If" -> Test("if") \o CStmt(s.body) \o (IF s.els = Nil THEN <<>> ELSE <<"else">> \o CStmt(s.els))
       [] s.op = "Goto" -> <<"goto", s.text, ";">>
       [] s.op = "Return" -> <<"return">> \o Opt(s.expr) \o <<";">>
       [] s.op = "StmtDecl" -> CDecl(s.decl) \o <<";">>
       [] s.op = "StmtExpr" -> Opt(s.expr) \o <<";">>
       [] s.op = "Switch" -> Test("switch") \o CStmt(s.body)
       [] s.op = "While" -> Test("while") \o CStmt(s.body)

\* A declaration of a file, with the ";" that follows what is not a function.
WriteC(d) == CDecl(d) \o (IF d.body = Nil THEN <<";">> ELSE <<>>)
=============================================================================
