------------------------------ MODULE GoSyntax ------------------------------
(****************************************************************************)
(* rewriteSyntax and simplifyBool of c2gofmt: C statements and expressions  *)
(* become Go ones.  An assignment or ++ inside an expression is hoisted     *)
(* into statements before or after it, a condition becomes a comparison,    *)
(* a switch's breaks become fallthroughs' absence.  A temporary is named    *)
(* for the place it is made at, which is all that tmpGen's numbers are for. *)
(* A tree is rewritten from the root: what a step returns is walked next.   *)
(****************************************************************************)
EXTENDS CTree

BlockNoBrace(list) == [Stmt("BlockNoBrace") EXCEPT !.block = list]

NotOf(x) == Expr("Not", <<x>>)

\* A mutant of BreakUnless: the test is the wrong way round.
BreakIf(x) == [Stmt("If") EXCEPT !.expr = x, !.body = Stmt("Break")]

BreakUnless(x) == [Stmt("If") EXCEPT !.expr = NotOf(x), !.body = Stmt("Break")]

ForceBlock(s) == IF s.op = "Block" THEN s ELSE BlockOf(<<s>>)

Copy(s) == [s EXCEPT !.labels = <<>>]

-----------------------------------------------------------------------------
\* Side effects.  The result is the expression that is left, and the statements to run
\* before and after.  "stmt": the value is not used.  "noafter": there is no after.
Tmp(at) == Leaf("Name", "tmp" \o at, "tmp" \o at)

Assign(op, x, y) == ExprStmt(Expr(op, <<x, y>>))

\* An expression that may not be evaluated keeps its effects in a function literal.
Closed(r, typ) ==
  IF r.before \o r.after = <<>> THEN r.x
  ELSE [op |-> "SideEffectFunc", text |-> typ, decl |-> "", args |-> <<r.x>>, block |-> r.before, after |-> r.after]

StepOps == {"PreInc", "PreDec", "PostInc", "PostDec"}

PostOf(x) == [x EXCEPT !.op = CASE @ = "PreInc" -> "PostInc" [] @ = "PreDec" -> "PostDec" [] OTHER -> @]

\* What becomes of an expression whose operands' effects were taken out already.
OwnEffect(r, mode, at) ==
  LET x == r.x
      Hoist(s, y) == [r EXCEPT !.x = y, !.before = @ \o s]
  IN CASE "stmt" \in mode /\ x.op \in StepOps -> [r EXCEPT !.x = PostOf(x)]
       [] "stmt" \in mode /\ x.op \in AssignOps \cup {"Call"} -> r
       [] x.op \in AssignOps \/ x.op \in {"PreInc", "PreDec"} -> Hoist(<<ExprStmt(PostOf(x))>>, x.args[1])
       [] x.op \in {"PostInc", "PostDec"} /\ "noafter" \in mode ->
            Hoist(<<Assign("ColonEq", Tmp(at), x.args[1]), ExprStmt(x)>>, Tmp(at))
       [] x.op \in {"PostInc", "PostDec"} -> [r EXCEPT !.x = x.args[1], !.after = @ \o <<ExprStmt(x)>>]
       [] x.op = "Cond" ->
            Hoist(<<[Stmt("StmtDecl") EXCEPT !.decl = [Decl("tmp" \o at, Nil, Nil, {}) EXCEPT !.id = "tmp" \o at]],
                    [Stmt("If") EXCEPT !.expr = x.args[1], !.body = Assign("Eq", Tmp(at), x.args[2]),
                                       !.els = Assign("Eq", Tmp(at), x.args[3])]>>, Tmp(at))
       [] OTHER -> r

RECURSIVE Effects(_, _, _)
Effects(x, mode, at) ==
  LET inner == mode \ {"stmt"}
      first == inner \cup {"noafter"}
      Place(i) == at \o ToString(i)
      Join(acc, i, r, y) == [x |-> Append(acc.x, y), before |-> acc.before \o r.before, after |-> acc.after \o r.after]
      Guarded(acc, i) ==
        IF i = 1 THEN LET r == Effects(x.args[1], first, Place(1)) IN Join(acc, 1, r, r.x)
        ELSE [acc EXCEPT !.x = Append(@, Closed(Effects(x.args[i], {}, Place(i)),
                                                IF x.op = "Cond" THEN "unknown" ELSE "bool"))]
      Listed(acc, i) ==
        LET r == Effects(x.args[i], mode \cup {"noafter"} \cup (IF i < Len(x.args) THEN {"stmt"} ELSE {}), Place(i)) IN
        IF r.x.op \in AssignOps \cup {"PostInc", "PostDec"}
        THEN [Join(acc, i, r, r.x) EXCEPT !.x = acc.x, !.before = @ \o <<ExprStmt(r.x)>>]
        ELSE Join(acc, i, r, r.x)
      Plain(acc, i) == LET r == Effects(x.args[i], inner, Place(i)) IN Join(acc, i, r, r.x)
      Operand(acc, i) ==
        CASE x.op \in {"Cond", "AndAnd", "OrOr"} -> Guarded(acc, i) [] x.op = "Comma" -> Listed(acc, i) [] OTHER -> Plain(acc, i)
      none == [x |-> <<>>, before |-> <<>>, after |-> <<>>]
      args == FoldLeft(Operand, none, [i \in DOMAIN x.args |-> i])
  IN IF x = Nil THEN [none EXCEPT !.x = Nil]
     ELSE OwnEffect([args EXCEPT !.x = [x EXCEPT !.args = args.x]], mode, at)

-----------------------------------------------------------------------------
\* Conditions that are conjunctions.
RECURSIVE SplitExpr(_), JoinExpr(_)
SplitExpr(x) == IF x.op = "AndAnd" THEN Append(SplitExpr(x.args[1]), x.args[2]) ELSE <<x>>

JoinExpr(list) == IF Len(list) = 1 THEN list[1] ELSE Expr("AndAnd", <<JoinExpr(Front(list)), Last(list)>>)

\* The clauses from the last to the second, each with the statements it needs first.  A
\* clause that needs none stays with the ones before it; the body nests around the rest.
Nested(Nest(_, _, _), acc, i, r) ==
  IF r.before = <<>> THEN [acc EXCEPT !.clauses[i] = r.x]
  ELSE [clauses |-> SubSeq(acc.clauses, 1, i - 1),
        body |-> Nest(r.before, JoinExpr(<<r.x>> \o SubSeq(acc.clauses, i + 1, Len(acc.clauses))), acc.body)]

Joined(s, acc) == [s EXCEPT !.expr = JoinExpr(acc.clauses), !.body = acc.body]

Clauses(s, at, Nest(_, _, _)) ==
  LET all == SplitExpr(s.expr)
      Step(i, acc) == Nested(Nest, acc, i, Effects(acc.clauses[i], {"noafter"}, at \o "c" \o ToString(i)))
  IN IF s.expr = Nil THEN s
     ELSE Joined(s, FoldRight(Step, [i \in 1 .. Len(all) - 1 |-> i + 1], [clauses |-> all, body |-> s.body]))

\* for(; x && (y = z); ) ... becomes for(; x; ) { y = z; if(!y) break; ... }
FixForAndAnd(s, at) ==
  LET Nest(before, rest, body) == [body EXCEPT !.block = <<BlockNoBrace(before \o <<BreakUnless(rest)>>)>> \o @]
  IN Clauses(s, at, Nest)

\* if(x && (y = z)) ... becomes if(x) { y = z; if(y) ... }
FixIfAndAnd(s, at) ==
  LET Nest(before, rest, body) == BlockNoBrace(Append(before, [Stmt("If") EXCEPT !.expr = rest, !.body = body]))
  IN Clauses(s, at, Nest)

-----------------------------------------------------------------------------
\* Statements.
DoToFor(s) ==
  [s EXCEPT !.op = "For", !.expr = Nil, !.body = [ForceBlock(s.body) EXCEPT !.block = Append(@, BreakUnless(s.expr))]]

ForOf(s, pre, test, post) ==
  LET tested == IF test.before = <<>> THEN [s EXCEPT !.pre = pre.x, !.expr = test.x]
                ELSE [s EXCEPT !.pre = pre.x, !.expr = Nil,
                        !.body = [ForceBlock(@) EXCEPT !.block = test.before \o <<BreakUnless(test.x)>> \o @]]
  IN IF pre.before # <<>>
     THEN [BlockNoBrace(Append(pre.before, Copy(tested))) EXCEPT !.labels = s.labels]
     ELSE IF post.before \o post.after = <<>> THEN [tested EXCEPT !.post = post.x]
     ELSE [tested EXCEPT !.post = [op |-> "ExprBlock", text |-> "", decl |-> "", args |-> <<>>,
                                   block |-> post.before \o <<ExprStmt(post.x)>> \o post.after]]

RewriteLoop(s, at) ==
  ForOf(s, Effects(s.pre, {"stmt", "noafter"}, at \o "p"), Effects(s.expr, {"noafter"}, at \o "e"),
        Effects(s.post, {"stmt"}, at \o "q"))

RewriteFor(while, at) == RewriteLoop(FixForAndAnd([while EXCEPT !.op = "For"], at), at)

\* What runs before and after a statement makes a block without braces around it.
Around(s, before, after) ==
  IF before \o after = <<>> THEN s
  ELSE [BlockNoBrace(before \o <<Copy(s)>> \o after) EXCEPT !.labels = s.labels, !.decl = s.decl]

\* The statement's own expression is freed of its effects.
FreedOf(s, r) == Around([s EXCEPT !.expr = r.x], r.before, r.after)

Freed(s, mode, at) == FreedOf(s, Effects(s.expr, mode, at \o "e"))

FreedDeclOf(s, r) == Around([s EXCEPT !.decl.init = r.x], r.before, r.after)

FreedDecl(s, at) == FreedDeclOf(s, Effects(s.decl.init, {"stmt"}, at \o "d"))

FallsThrough(s) ==
  /\ s.op \notin {"Break", "Continue", "Return", "Goto"}
  /\ ~(s.op = "StmtExpr" /\ s.expr.op = "Call" /\ s.expr.args[1].op = "Name" /\ s.expr.args[1].text \in {"sysfatal", "fatal"})
  /\ ~(s.op = "StmtExpr" /\ s.expr = Name("fallthrough"))

InlineBlockNoBrace(s) ==
  IF s.op # "Block" THEN s
  ELSE [s EXCEPT !.block = FlattenSeq([i \in DOMAIN @ |->
          IF @[i].op = "BlockNoBrace" THEN <<[@[i] EXCEPT !.op = "Empty", !.block = <<>>]>> \o @[i].block ELSE <<@[i]>>])]

\* The last statement that is not empty, or 0.
LastReal(list) ==
  LET real == {i \in DOMAIN list : list[i].op # "Empty"} IN
  IF real = {} THEN 0 ELSE CHOOSE i \in real : \A j \in real : j <= i

PlainBreak(list, i) == i > 0 /\ list[i].op = "Break" /\ list[i].labels = <<>>

DropBreak(list) == LET i == LastReal(list) IN IF PlainBreak(list, i) THEN [list EXCEPT ![i].op = "Empty"] ELSE list

\* Labels go after cases, and default after the other cases.
SortLabels(labels) ==
  LET Of(op) == SelectSeq(labels, LAMBDA l : l.op = op)
      cases == Of("Case") \o Of("Default")
  IN IF cases # <<>> /\ Of("LabelName") # <<>> THEN cases \o Of("LabelName") ELSE labels

RewriteSwitch(s) ==
  LET IsCase(x) == \E i \in DOMAIN x.labels : x.labels[i].op # "LabelName"
      Add(acc, x0) ==
        LET x == [x0 EXCEPT !.labels = SortLabels(@)] i == LastReal(acc.out) IN
        IF ~IsCase(x) THEN [acc EXCEPT !.out = Append(@, x)]
        ELSE [out |-> Append(IF ~acc.case THEN acc.out
                             ELSE IF PlainBreak(acc.out, i) THEN DropBreak(acc.out)
                             ELSE IF i > 0 /\ FallsThrough(acc.out[i]) THEN Append(acc.out, Stmt("Fallthrough"))
                             ELSE acc.out, x),
              case |-> TRUE]
      body == InlineBlockNoBrace(s.body)
  IN IF s.op # "Switch" THEN s
     ELSE [s EXCEPT !.body = [body EXCEPT !.block = DropBreak(FoldLeft(Add, [out |-> <<>>, case |-> FALSE], @).out)]]

RewriteStmt(s, at) ==
  CASE s.op = "Do" -> DoToFor(s)
    [] s.op \in {"While", "For"} -> RewriteFor(s, at)
    [] s.op = "If" -> Freed(IF s.els = Nil THEN FixIfAndAnd(s, at) ELSE s, {"noafter"}, at)
    [] s.op = "Return" -> Freed(s, {"noafter"}, at)
    [] s.op = "StmtExpr" -> Freed(s, {"stmt"}, at)
    [] s.op = "StmtDecl" /\ s.decl.init # Nil -> FreedDecl(s, at)
    [] s.op = "Switch" -> RewriteSwitch(Freed(s, {"noafter"}, at))
    [] OTHER -> s

-----------------------------------------------------------------------------
\* The passes.  ptrs is the set of the declarations that have a pointer type.
IsPtr(x, ptrs) == x.op = "Name" /\ x.decl \in ptrs

\* Before their operands: nil and nelem are Go's own names, (x) is x, and a pointer is set
\* to and compared with nil.
PreExpr(x, ptrs) ==
  CASE x.op = "Name" /\ x.text \in {"nil", "nelem"} -> Name(IF x.text = "nil" THEN "nil" ELSE "len")
    [] x.op = "Paren" /\ x.args[1].op \in {"Number", "Name"} -> x.args[1]
    [] x.op \in {"Eq", "EqEq", "NotEq"} /\ x.args[2] = Number("0") /\ IsPtr(x.args[1], ptrs) -> [x EXCEPT !.args[2] = Name("nil")]
    [] OTHER -> x

\* A mutant of NeedFixBool: only names are numbers.
NeedFixName(x) == x.op \in {"Name", "Paren"}

RECURSIVE NeedFixBool(_)
NeedFixBool(x) ==
  CASE x.op = "SideEffectFunc" -> x.text # "bool"
    [] x.op = "Paren" -> NeedFixBool(x.args[1])
    [] OTHER -> x.op \notin {"EqEq", "Not", "NotEq", "Lt", "LtEq", "Gt", "GtEq", "AndAnd", "OrOr"}

\* A condition that is a number or a pointer is compared with zero.
FixBool(x, ptrs) ==
  IF ~NeedFixBool(x) THEN x
  ELSE LET old == IF x.op = "Paren" THEN x.args[1] ELSE x IN
       Expr("NotEq", <<old, Name(IF IsPtr(old, ptrs) THEN "nil" ELSE "0")>>)

BoolExpr(x, ptrs) ==
  IF x.op \in {"AndAnd", "OrOr", "Not"} THEN [x EXCEPT !.args = [i \in DOMAIN @ |-> FixBool(@[i], ptrs)]] ELSE x

\* Go's comparisons bind looser than its bit operators: their parentheses go.
CutParen(x) ==
  LET Cut(y) == IF y.op = "Paren" /\ y.args[1].op \in {"Or", "And", "Lsh", "Rsh"} THEN y.args[1] ELSE y IN
  CASE x.op \in {"OrEq", "AndEq", "Or", "Eq", "EqEq", "NotEq", "LtEq", "GtEq", "Lt", "Gt"} -> [x EXCEPT !.args = [i \in DOMAIN @ |-> Cut(@[i])]]
    [] x.op = "Paren" /\ x.args[1].op \in {"Dot", "Arrow"} -> x.args[1]
    [] OTHER -> x

RECURSIVE Unparen(_)
Unparen(x) == IF x.op = "Paren" THEN Unparen(x.args[1]) ELSE x

Negated == [o \in {"EqEq", "NotEq", "Lt", "LtEq", "Gt", "GtEq", "AndAnd", "OrOr"} |->
  CASE o = "EqEq" -> "NotEq" [] o = "NotEq" -> "EqEq" [] o = "Lt" -> "GtEq" [] o = "GtEq" -> "Lt"
    [] o = "Gt" -> "LtEq" [] o = "LtEq" -> "Gt" [] o = "AndAnd" -> "OrOr" [] o = "OrOr" -> "AndAnd"]

\* De Morgan's law, and comparisons inverted.
SimplifyNot(x) ==
  LET y == IF x.op = "Not" THEN Unparen(x.args[1]) ELSE x IN
  IF x.op # "Not" \/ y.op \notin DOMAIN Negated THEN x
  ELSE [y EXCEPT !.op = Negated[@], !.args = IF y.op \in {"AndAnd", "OrOr"} THEN <<NotOf(@[1]), NotOf(@[2])>> ELSE @]
=============================================================================
