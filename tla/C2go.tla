-------------------------------- MODULE C2go --------------------------------
(****************************************************************************)
(* c2gofmt on one file: do reads it, more than once if it has types that it *)
(* does not declare, rewrites the tree in four passes and writes it as Go.  *)
(****************************************************************************)
EXTENDS CParse

CONSTANT Files     \* the files it may be given, sequences of tokens

VARIABLES
  phase,     \* what was done last
  tree,      \* the declarations, as the passes leave them
  output     \* the tokens of the Go file

vars == <<parseVars, phase, tree, output>>

Passes == INSTANCE GoPasses

Out == INSTANCE GoPrint

Init == input \in Files /\ BeginFile /\ phase = "read" /\ tree = <<>> /\ output = <<>>

Read ==
  /\ phase = "read" /\ (Reductions \/ Shift \/ SyntaxError \/ EndOfFile \/ Retry)
  /\ UNCHANGED <<phase, tree, output>>

Step(from, to, decls) ==
  /\ phase = from /\ phase' = to /\ tree' = decls
  /\ UNCHANGED <<parseVars, output>>

RewriteSyntax == parsed # Nil /\ Step("read", "rewritten", Passes!RewriteSyntax(parsed.decls))

SimplifyBool == Step("rewritten", "simplified", Passes!SimplifyBool(tree))

RenameDecls == Step("simplified", "renamed", Passes!RenameDecls(tree))

MoveDecls == Step("renamed", "moved", Passes!MoveDecls(tree))

WriteGo ==
  /\ phase = "moved" /\ phase' = "written" /\ output' = Out!WriteGo(tree)
  /\ UNCHANGED <<parseVars, tree>>

Translate == RewriteSyntax \/ SimplifyBool \/ RenameDecls \/ MoveDecls \/ WriteGo

Next == Read \/ Translate

Spec == Init /\ [][Next]_vars /\ WF_vars(Read)
=============================================================================
