------------------------------- MODULE CTree -------------------------------
(****************************************************************************)
(* The syntax trees of c2gofmt: expressions, statements, declarations and   *)
(* types, as package cc defines them.  args of an expression are its Left   *)
(* and Right, or its List; a call's are the function and its List.          *)
(****************************************************************************)
EXTENDS Integers, Sequences, SequencesExt

Nil == [op |-> "nil"]

Expr(op, args) == [op |-> op, text |-> "", decl |-> "", args |-> args]

Leaf(op, text, decl) == [op |-> op, text |-> text, decl |-> decl, args |-> <<>>]

Name(x) == Leaf("Name", x, "")

Number(n) == Leaf("Number", n, "")

Stmt(op) == [op |-> op, labels |-> <<>>, pre |-> Nil, expr |-> Nil, post |-> Nil,
             body |-> Nil, els |-> Nil, block |-> <<>>, decl |-> Nil, text |-> ""]

ExprStmt(x) == [Stmt("StmtExpr") EXCEPT !.expr = x]

BlockOf(list) == [Stmt("Block") EXCEPT !.block = list]

Decl(name, type, init, storage) ==
  [op |-> "Decl", name |-> name, id |-> name, type |-> type, init |-> init, storage |-> storage, body |-> Nil]

Type(kind, base) == [op |-> "Type", kind |-> kind, base |-> base, decls |-> <<>>, width |-> Nil]

\* A type's kind, through a typedef.
Is(t, kind) == t # Nil /\ (IF t.kind = "TypedefType" THEN t.base ELSE t).kind = kind

\* The binary operators: how each is written and what the tree calls it.
BinaryOf == [o \in {"+", "-", "*", "/", "%", "<<", ">>", "<", ">", "<=", ">=", "==", "!=", "&", "^", "|", "&&", "||"} |->
  CASE o = "+" -> "Add" [] o = "-" -> "Sub" [] o = "*" -> "Mul" [] o = "/" -> "Div" [] o = "%" -> "Mod"
    [] o = "<<" -> "Lsh" [] o = ">>" -> "Rsh" [] o = "<" -> "Lt" [] o = ">" -> "Gt" [] o = "<=" -> "LtEq"
    [] o = ">=" -> "GtEq" [] o = "==" -> "EqEq" [] o = "!=" -> "NotEq" [] o = "&" -> "And" [] o = "^" -> "Xor"
    [] o = "|" -> "Or" [] o = "&&" -> "AndAnd" [] o = "||" -> "OrOr"]

AssignOf == [o \in {"=", "+=", "-=", "*=", "/=", "%=", "<<=", ">>=", "&=", "^=", "|="} |->
  CASE o = "=" -> "Eq" [] o = "+=" -> "AddEq" [] o = "-=" -> "SubEq" [] o = "*=" -> "MulEq" [] o = "/=" -> "DivEq"
    [] o = "%=" -> "ModEq" [] o = "<<=" -> "LshEq" [] o = ">>=" -> "RshEq" [] o = "&=" -> "AndEq"
    [] o = "^=" -> "XorEq" [] o = "|=" -> "OrEq"]

UnaryOf == [o \in {"*", "&", "+", "-", "!", "~", "++", "--", "sizeof"} |->
  CASE o = "*" -> "Indir" [] o = "&" -> "Addr" [] o = "+" -> "Plus" [] o = "-" -> "Minus" [] o = "!" -> "Not"
    [] o = "~" -> "Twid" [] o = "++" -> "PreInc" [] o = "--" -> "PreDec" [] o = "sizeof" -> "SizeofExpr"]

PostfixOf == [o \in {"++", "--"} |-> IF o = "++" THEN "PostInc" ELSE "PostDec"]

Written(table, op) == CHOOSE o \in DOMAIN table : table[o] = op

OpsOf(table) == {table[o] : o \in DOMAIN table}

AssignOps == OpsOf(AssignOf)
-----------------------------------------------------------------------------
\* Every expression in an expression or a statement, those in function literals included.
RECURSIVE ExprNodes(_), StmtNodes(_), ExprsIn(_)
ExprNodes(x) ==
  IF x = Nil THEN {}
  ELSE {x} \cup UNION {ExprNodes(x.args[i]) : i \in DOMAIN x.args}
       \cup (IF "block" \in DOMAIN x THEN UNION {ExprsIn(x.block[i]) : i \in DOMAIN x.block} ELSE {})

StmtNodes(s) ==
  IF s = Nil THEN {}
  ELSE {s} \cup StmtNodes(s.body) \cup StmtNodes(s.els) \cup UNION {StmtNodes(s.block[i]) : i \in DOMAIN s.block}

ExprsIn(s) ==
  UNION {ExprNodes(n.pre) \cup ExprNodes(n.expr) \cup ExprNodes(n.post)
         \cup (IF n.decl = Nil THEN {} ELSE ExprNodes(n.decl.init)) : n \in StmtNodes(s)}
=============================================================================
