------------------------------ MODULE GoDecls ------------------------------
(****************************************************************************)
(* renameDecls and moveDecls of c2gofmt: names that are words of Go get an  *)
(* underscore, a function's static variables its name, and a variable that  *)
(* is declared without a value moves to its first use.                      *)
(****************************************************************************)
EXTENDS CTree

GoKeyword == {"chan", "defer", "fallthrough", "func", "go", "import", "interface", "iota", "map", "package", "range",
              "select", "type", "var", "fmt", "path", "rune", "true", "false"}

Renamed(name) == IF name \in GoKeyword THEN name \o "_" ELSE name

RenamedParams(t) == IF t = Nil THEN t ELSE [t EXCEPT !.decls =
  IF t.kind = "Func" THEN [i \in DOMAIN @ |-> [@[i] EXCEPT !.name = Renamed(@)]] ELSE @]

IsStatic(s) == s.op = "StmtDecl" /\ "static" \in s.decl.storage

\* At top level: a name that another declaration has too gets the file's name, and the
\* static variables at the top of a function go by the function's name.
UniqueName(decls, i) ==
  IF \E j \in DOMAIN decls \ {i} : decls[j].name = decls[i].name THEN decls[i].name \o "_file" ELSE decls[i].name

NameStatics(d) ==
  IF d.body = Nil THEN d
  ELSE [d EXCEPT !.body.block = [i \in DOMAIN @ |->
          IF IsStatic(@[i]) THEN [@[i] EXCEPT !.decl.name = d.name \o "_" \o @] ELSE @[i]]]

-----------------------------------------------------------------------------
\* A block that is made for a declaration is not known to use anything.
Fresh == "fresh"

Mentions(nodes, v) == \E x \in nodes : x.op = "Name" /\ x.decl = v

ExprUses(x, v) == Mentions(ExprNodes(x), v)

Uses(s, v) == s # Nil /\ s.text # Fresh /\ Mentions(ExprsIn(s), v)

AddToBlock(s, d) ==
  IF s.op \in {"Block", "BlockNoBrace"} THEN [s EXCEPT !.block = <<d>> \o @]
  ELSE [BlockOf(<<d, s>>) EXCEPT !.text = Fresh]

\* Nil if the condition needs the variable already.
RECURSIVE AddToIf(_, _)
AddToIf(s, d) ==
  LET v == d.decl.id
      chained == IF s.els # Nil /\ s.els.op = "If" THEN AddToIf(s.els, d) ELSE Nil
      els == IF ~Uses(s.els, v) THEN s.els ELSE IF chained # Nil THEN chained ELSE AddToBlock(s.els, d)
  IN IF ExprUses(s.expr, v) THEN Nil
     ELSE [s EXCEPT !.body = IF Uses(@, v) THEN AddToBlock(@, d) ELSE @, !.els = els]

\* What becomes of the statement that uses a variable first, and whether the declaration
\* goes right before it.  again: a later statement of the block uses the variable too.
Sets(x, v) == x # Nil /\ x.op = "Eq" /\ x.args[1].op = "Name" /\ x.args[1].decl = v

Settle(s, d, again) ==
  LET v == d.decl.id
      into == IF s.op = "If" THEN AddToIf(s, d) ELSE Nil
      Done(t) == [stmt |-> t, before |-> FALSE]
  IN CASE s.op = "StmtExpr" /\ Sets(s.expr, v) -> Done([s EXCEPT !.expr.op = "ColonEq"])
       [] ~again /\ into # Nil -> Done(into)
       [] ~again /\ s.op = "Block" -> Done(AddToBlock(s, d))
       [] ~again /\ s.op = "For" /\ ~ExprUses(s.pre, v) /\ ~ExprUses(s.expr, v) /\ ~ExprUses(s.post, v) ->
            Done([s EXCEPT !.body = AddToBlock(@, d)])
       [] ~again /\ s.op = "For" /\ Sets(s.pre, v) -> Done([s EXCEPT !.pre.op = "ColonEq"])
       [] OTHER -> [stmt |-> s, before |-> TRUE]

MoveBlock(list) ==
  LET Settled(acc, r, d) == [acc EXCEPT !.stmt = r.stmt, !.out = IF r.before THEN Append(@, d) ELSE @]
      Emit(i, acc, d) ==
        IF ~Uses(acc.stmt, d.decl.id) THEN [acc EXCEPT !.pending = Append(@, d)]
        ELSE Settled(acc, Settle(acc.stmt, d, \E j \in i + 1 .. Len(list) : Uses(list[j], d.decl.id)), d)
      Append1(now, x) ==
        IF x.op = "StmtDecl" /\ x.decl.init = Nil
        THEN [out |-> now.out, pending |-> Append(now.pending, x)]
        ELSE [out |-> Append(now.out, now.stmt), pending |-> now.pending]
      Move(acc, i) ==
        Append1(FoldLeft(LAMBDA a, d : Emit(i, a, d), [stmt |-> list[i], out |-> acc.out, pending |-> <<>>], acc.pending), list[i])
  IN FoldLeft(Move, [out |-> <<>>, pending |-> <<>>], [i \in DOMAIN list |-> i]).out

MoveDecl(s) == IF s.op \in {"Block", "BlockNoBrace"} THEN [s EXCEPT !.block = MoveBlock(@)] ELSE s
=============================================================================
