------------------------------ MODULE Machine ------------------------------
(****************************************************************************)
(* One interpreter for the C and the Go that Reading reads: the reference   *)
(* for what a translation must preserve.  A store of cells, of which the    *)
(* first eight are those that a number points to; arithmetic is modulo      *)
(* eight.  Calls are recorded, and return what the seed says.               *)
(****************************************************************************)
EXTENDS Reading
LOCAL INSTANCE Bitwise

Undefined == -1

LoopBound == 8     \* a loop that goes on for longer is stuck

Numerals == [n \in {"0", "1", "2", "3", "nil"} |-> CASE n = "1" -> 1 [] n = "2" -> 2 [] n = "3" -> 3 [] OTHER -> 0]

Bool(b) == IF b THEN 1 ELSE 0

Arith(op, a, b) ==
  CASE op = "Add" -> (a + b) % 8 [] op = "Sub" -> (a - b) % 8 [] op = "Mul" -> (a * b) % 8
    [] op = "Div" -> IF b = 0 THEN 0 ELSE a \div b
    [] op = "Mod" -> IF b = 0 THEN a ELSE a % b
    [] op = "Lsh" -> (a * 2 ^ (b % 8)) % 8 [] op = "Rsh" -> a \div 2 ^ (b % 8)
    [] op = "And" -> a & b [] op = "Or" -> a | b [] op = "Xor" -> a ^^ b
    [] op = "Lt" -> Bool(a < b) [] op = "LtEq" -> Bool(a <= b) [] op = "Gt" -> Bool(a > b) [] op = "GtEq" -> Bool(a >= b)
    [] op = "EqEq" -> Bool(a = b) [] op = "NotEq" -> Bool(a # b)

OpOf == [o \in AssignOps \ {"Eq"} |-> CHOOSE b \in OpsOf(BinaryOf) : b \o "Eq" = o /\ o \notin {"Lt", "Gt"}]

\* The machine's state.  ctl says how the statement ended, val is the last value.
Stuck(s) == [s EXCEPT !.ctl = "stuck"]

Push(s) == [s EXCEPT !.env = Append(@, <<>>)]

Pop(s) == [s EXCEPT !.env = Front(@)]

\* In Go a block declares a name once.
Declare(s, name, val) ==
  IF s.go /\ name \in DOMAIN Last(s.env) THEN Stuck(s)
  ELSE [s EXCEPT !.store = Append(@, val), !.env = Append(Front(@), (name :> Len(s.store) + 1) @@ Last(@))]

Find(s, name) ==
  LET at == {i \in DOMAIN s.env : name \in DOMAIN s.env[i]} IN
  IF at = {} THEN Stuck(s) ELSE [s EXCEPT !.val = s.env[CHOOSE i \in at : \A j \in at : j <= i][name]]

\* How a body that a loop or a switch runs ends, for what is around it.
Ended(s, ways) == IF s.ctl \in ways THEN [s EXCEPT !.ctl = "go"] ELSE s

RECURSIVE CalleeName(_)
CalleeName(f) == IF f.op \in {"Paren", "Indir"} THEN CalleeName(f.args[1]) ELSE f.text

\* What the machine can do next: evaluate an expression, find the cell that it names, run a
\* statement, go around a loop n more times, go on from the statement i of a switch.
RECURSIVE Do(_, _, _)
Ev(x, s) == Do("evaluate", x, s)

Place(x, s) == Do("place", x, s)

Run(x, s) == Do("run", x, s)

RunAll(list, s) == FoldLeft(LAMBDA t, x : Run(x, t), s, list)

Loop(x, s, n) == Do("loop", [of |-> x, left |-> n], s)

Clause(list, i, s) == Do("clause", [of |-> list, from |-> i], s)

\* The cell that an expression names.
Placed(x, s) ==
  LET r == Ev(x.args[1], s)
      i == Ev(x.args[2], r)
      Cell(v) == IF v < 8 THEN v + 1 ELSE v
  IN CASE s.ctl # "go" -> s
       [] s.ctl = "go" /\ x.op = "Name" -> Find(s, x.text)
       [] s.ctl = "go" /\ x.op = "Paren" -> Place(x.args[1], s)
       [] s.ctl = "go" /\ x.op = "Indir" -> [r EXCEPT !.val = Cell(r.val)]
       [] s.ctl = "go" /\ x.op = "Index" -> [i EXCEPT !.val = Cell((r.val + i.val) % 8)]
       [] s.ctl = "go" /\ x.op \in {"Dot", "Arrow"} -> [r EXCEPT !.val = Cell((r.val + 1) % 8)]
       [] OTHER -> Stuck(s)

Evaluated(x, s) ==
  LET a == Ev(x.args[1], s)
      b == Ev(x.args[2], a)
      place == Place(x.args[1], s)
      right == Ev(x.args[2], place)
      old == place.store[place.val]
      Load(p) == IF p.ctl # "go" THEN p
                 ELSE IF p.store[p.val] = Undefined THEN [p EXCEPT !.ctl = "undefined"] ELSE [p EXCEPT !.val = p.store[p.val]]
      Set(p, cell, v, val) == IF p.ctl # "go" THEN p ELSE [p EXCEPT !.store[cell] = v, !.val = val]
      Step == IF x.op \in {"PreInc", "PostInc"} THEN Arith("Add", old, 1) ELSE Arith("Sub", old, 1)
      args == FoldLeft(LAMBDA acc, y : LET r == Ev(y, acc.s) IN [s |-> r, vals |-> Append(acc.vals, IF r.val < 8 THEN r.val ELSE 8)],
                       [s |-> s, vals |-> <<>>], Tail(x.args))
  IN CASE s.ctl # "go" -> s
       [] s.ctl = "go" /\ x.op = "Name" /\ x.text \in DOMAIN Numerals -> [s EXCEPT !.val = Numerals[x.text]]
       [] s.ctl = "go" /\ x.op \in {"Name", "Indir", "Index", "Dot", "Arrow"} /\ ~(x.op = "Name" /\ x.text \in DOMAIN Numerals) -> Load(Place(x, s))
       [] s.ctl = "go" /\ x.op \in OpsOf(BinaryOf) \ {"AndAnd", "OrOr"} -> IF b.ctl # "go" THEN b ELSE [b EXCEPT !.val = Arith(x.op, a.val, @)]
       [] s.ctl = "go" /\ x.op \in {"AndAnd", "OrOr"} ->
            IF a.ctl # "go" \/ ((a.val # 0) = (x.op = "OrOr")) THEN [a EXCEPT !.val = Bool(@ # 0)] ELSE [b EXCEPT !.val = Bool(@ # 0)]
       [] s.ctl = "go" /\ x.op = "Eq" -> Set(right, place.val, right.val, right.val)
       [] s.ctl = "go" /\ x.op \in DOMAIN OpOf ->
            IF right.ctl # "go" THEN right ELSE LET v == Arith(OpOf[x.op], right.store[place.val], right.val) IN Set(right, place.val, v, v)
       [] s.ctl = "go" /\ x.op = "ColonEq" -> LET r == Ev(x.args[2], s) IN IF r.ctl # "go" THEN r ELSE Declare(r, x.args[1].text, r.val)
       [] s.ctl = "go" /\ x.op \in {"PreInc", "PreDec", "PostInc", "PostDec"} ->
            IF place.ctl # "go" THEN place ELSE Set(place, place.val, Step, IF x.op \in {"PreInc", "PreDec"} THEN Step ELSE old)
       [] s.ctl = "go" /\ x.op = "Not" -> [a EXCEPT !.val = Bool(@ = 0)]
       [] s.ctl = "go" /\ x.op = "Minus" -> [a EXCEPT !.val = Arith("Sub", 0, @)]
       [] s.ctl = "go" /\ x.op = "Twid" -> [a EXCEPT !.val = Arith("Sub", 7, @)]
       [] s.ctl = "go" /\ x.op \in {"Plus", "Paren", "Cast"} -> a
       [] s.ctl = "go" /\ x.op = "Addr" -> place
       [] s.ctl = "go" /\ x.op \in {"SizeofExpr", "SizeofType"} -> [s EXCEPT !.val = 4]
       [] s.ctl = "go" /\ x.op = "Cond" -> IF a.ctl # "go" THEN a ELSE Ev(x.args[IF a.val # 0 THEN 2 ELSE 3], a)
       [] s.ctl = "go" /\ x.op = "Comma" -> FoldLeft(LAMBDA t, y : Ev(y, t), s, x.args)
       [] s.ctl = "go" /\ x.op = "Call" ->
            IF args.s.ctl # "go" THEN args.s
            ELSE [args.s EXCEPT !.calls = Append(@, <<CalleeName(x.args[1])>> \o [i \in DOMAIN args.vals |-> ToString(args.vals[i])]),
                                !.val = (s.seed + Len(args.s.calls)) % 3]
       [] s.ctl = "go" /\ x.op = "Literal" -> Pop(Ended(RunAll(x.block, [Push(s) EXCEPT !.val = Undefined]), {"return"}))
       [] OTHER -> Stuck(s)

LoopRun(x, s, n) ==
  LET test == IF x.expr = Nil THEN [s EXCEPT !.val = 1] ELSE Ev(x.expr, s)
      body == Ended(Run(x.body, test), {"continue"})
      post == IF x.post = Nil THEN body ELSE Ev(x.post, body)
  IN IF s.ctl # "go" THEN s
     ELSE IF n = 0 THEN Stuck(s)
     ELSE IF test.ctl # "go" \/ test.val = 0 THEN test
     ELSE IF body.ctl # "go" THEN body
     ELSE Loop(x, post, n - 1)

\* Go's clause ends before the next one's labels.
ClauseRun(list, i, s) ==
  LET more == {j \in i + 1 .. Len(list) : list[j].labels # <<>>}
      end == IF s.go /\ more # {} THEN (CHOOSE j \in more : \A k \in more : j <= k) - 1 ELSE Len(list)
      r == Pop(RunAll(SubSeq(list, i, end), Push(s)))
  IN IF r.ctl = "fall" THEN Clause(list, end + 1, Ended(r, {"fall"})) ELSE r

HasRun(x, s) ==
  LET r == IF x.expr = Nil THEN s ELSE Ev(x.expr, s)
      init == IF x.decl = Nil THEN s
              ELSE IF x.decl.init # Nil THEN Ev(x.decl.init, s)
              ELSE [s EXCEPT !.val = IF s.go THEN 0 ELSE Undefined]
      To(i, v) == \E k \in DOMAIN x.body.block[i].labels :
                    LET l == x.body.block[i].labels[k] IN
                    IF v = "default" THEN l.op = "Default" ELSE l.op = "Case" /\ ToString(Ev(l.expr, s).val) = v
      Hit(v) == {i \in DOMAIN x.body.block : To(i, v)}
      at == IF Hit(ToString(r.val)) # {} THEN Hit(ToString(r.val)) ELSE Hit("default")
  IN CASE s.ctl # "go" -> s
       [] s.ctl = "go" /\ x.op = "Block" -> Pop(RunAll(x.block, Push(s)))
       [] s.ctl = "go" /\ x.op = "Empty" -> s
       [] s.ctl = "go" /\ x.op = "StmtExpr" -> r
       [] s.ctl = "go" /\ x.op = "StmtDecl" ->
            IF x.decl.storage # {} THEN [s EXCEPT !.env = Append(Front(@), (x.decl.name :> s.statics[x.decl.name]) @@ Last(@))]
            ELSE IF init.ctl # "go" THEN init ELSE Declare(init, x.decl.name, init.val)
       [] s.ctl = "go" /\ x.op = "If" ->
            IF r.ctl # "go" THEN r ELSE IF r.val # 0 THEN Run(x.body, r) ELSE IF x.els = Nil THEN r ELSE Run(x.els, r)
       [] s.ctl = "go" /\ x.op \in {"While", "For"} ->
            Pop(Ended(Loop(x, IF x.pre = Nil THEN Push(s) ELSE Ev(x.pre, Push(s)), LoopBound), {"break"}))
       [] s.ctl = "go" /\ x.op = "Do" ->
            LET first == Ended(Run(x.body, s), {"continue"}) IN
            Ended(IF first.ctl # "go" THEN first ELSE Loop(x, first, LoopBound), {"break"})
       [] s.ctl = "go" /\ x.op = "Switch" ->
            IF r.ctl # "go" \/ at = {} THEN r
            ELSE Ended(Clause(x.body.block, CHOOSE i \in at : \A j \in at : i <= j, r), {"break"})
       [] s.ctl = "go" /\ x.op \in {"Break", "Continue"} -> [s EXCEPT !.ctl = IF x.op = "Break" THEN "break" ELSE "continue"]
       [] s.ctl = "go" /\ x.op = "Fallthrough" -> [s EXCEPT !.ctl = "fall"]
       [] s.ctl = "go" /\ x.op = "Return" -> IF r.ctl # "go" THEN r ELSE [r EXCEPT !.ctl = "return"]
       [] OTHER -> Stuck(s)

Do(what, x, s) ==
  CASE what = "evaluate" -> Evaluated(x, s)
    [] what = "place" -> Placed(x, s)
    [] what = "run" -> HasRun(x, s)
    [] what = "loop" -> LoopRun(x.of, s, x.left)
    [] what = "clause" -> ClauseRun(x.of, x.from, s)

-----------------------------------------------------------------------------
\* The variables that exist before the function runs: globals, and C's local statics.
Begin(prog, go, seed) ==
  LET none == [go |-> go, ctl |-> "go", val |-> 0, env |-> << <<>> >>, store |-> [i \in 1 .. 8 |-> i % 4], calls |-> <<>>,
               seed |-> seed, statics |-> <<>>]
      Init(s, x) == IF x = Nil THEN [s EXCEPT !.val = 0] ELSE Ev(x, s)
      Keep(s, d, r) == [r EXCEPT !.store = Append(@, r.val), !.statics = (d.name :> Len(s.store) + 1) @@ @]
      Static(s, d) == Keep(s, d, Init(s, d.init))
      Known(d, r) == Declare(r, d.name, r.val)
      Global(s, x) == Known(x.decl, Init(s, x.decl.init))
      locals == UNION {{n.decl : n \in {m \in StmtNodes(f.body) : m.op = "StmtDecl" /\ m.decl.storage # {}}} : f \in ToSet(prog.fns)}
  IN FoldLeft(Static, FoldLeft(Global, none, prog.vars), SetToSeq(locals))

Called(f, s, vals) ==
  LET bound == FoldLeft(LAMBDA t, i : Declare(t, f.params[i].name, vals[i]), [Push(s) EXCEPT !.val = 0], [i \in DOMAIN f.params |-> i])
      Returned(r) == [s |-> [r EXCEPT !.env = <<@[1]>>], val |-> r.val]
  IN Returned(Ended(Run(f.body, bound), {"return"}))

\* The last function, called twice, the second time with its arguments the other way round.
\* What can be seen of it: how it ended, what it returned, what it called and the memory.
Seen(first, s, val) ==
  [ctl |-> s.ctl, vals |-> <<first, val>>, calls |-> s.calls, memory |-> SubSeq(s.store, 1, 8)]

Again(f, one, vals) == LET two == Called(f, one.s, vals) IN Seen(one.val, two.s, two.val)

Outcome(prog, go, seed, a, b) ==
  Again(Last(prog.fns), Called(Last(prog.fns), Begin(prog, go, seed), <<a, b>>), <<b, a>>)
=============================================================================
