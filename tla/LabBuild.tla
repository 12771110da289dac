------------------------------ MODULE LabBuild ------------------------------
(****************************************************************************)
(* benchlab, first half: one invocation resolves its commits, scans its     *)
(* hosts, and compiles one test binary per commit and build configuration.  *)
(* All compilations share one work tree, whose HEAD moves from commit to    *)
(* commit; a command that fails (at most MaxFaults of them per behaviour)   *)
(* and the death of the process are the faults.                             *)
(****************************************************************************)
EXTENDS Naturals, Sequences, FiniteSets

CONSTANTS Commits,     \* the resolved commits, in command-line order
          Builds,      \* build configurations (GOOS, GOARCH, env, flags)
          Branch,      \* what HEAD is before benchlab ever ran
          BuildID,     \* [commits \X Builds -> build ids]
          None, MaxRuns, MaxFaults

CommitSet == {Commits[i] : i \in DOMAIN Commits}

ASSUME LabAssumption ==
  /\ Commits \in Seq(CommitSet) /\ Branch \notin CommitSet
  /\ DOMAIN BuildID = CommitSet \X Builds
  /\ MaxRuns \in Nat /\ MaxFaults \in Nat

VARIABLES
  step,      \* where Lab.Run stands; "idle": no process
  err,       \* Run is returning an error
  head,      \* what HEAD names: Branch or a commit
  ref,       \* gitCurrent's answer, to which build's deferred checkout returns
  dirty,     \* the work tree has modified files
  ci,        \* index of the commit being built
  builder,   \* progress of buildAt for each build at that commit
  exe,       \* <<commit, build>> -> the tree that binary was compiled from
  built,     \* l.built: <<commit, build>> -> build id
  runs, faults

buildVars == <<step, err, head, ref, dirty, ci, builder, exe, built>>

\* A command returned ok, or failed and used up one of the faults.
Outcome(ok) == /\ ok \/ faults < MaxFaults
               /\ faults' = IF ok THEN faults ELSE faults + 1

BuildInit ==
  /\ step = "idle" /\ err = FALSE /\ head = Branch /\ ref = None
  /\ dirty \in BOOLEAN /\ ci = 0 /\ builder = [b \in Builds |-> "idle"]
  /\ exe = [p \in CommitSet \X Builds |-> None]
  /\ built = [p \in CommitSet \X Builds |-> None]
  /\ runs = 0 /\ faults = 0

\* A new process: everything but the disk (HEAD, binaries) starts afresh.
Start ==
  /\ step \in {"idle", "end"} /\ runs < MaxRuns
  /\ runs' = runs + 1 /\ step' = "resolve" /\ err' = FALSE /\ ref' = None /\ ci' = 0
  /\ builder' = [b \in Builds |-> "idle"]
  /\ built' = [p \in CommitSet \X Builds |-> None]
  /\ UNCHANGED <<head, dirty, exe, faults>>

FailAtOnce(to) == step' = "end" /\ err' = TRUE      \* mutant: no deferred checkout

Fail(to) == step' = to /\ err' = TRUE

\* gitResolve and scanHosts change nothing but the process's own tables.
Resolve ==
  /\ step = "resolve"
  /\ \E ok \in BOOLEAN : Outcome(ok) /\ IF ok THEN step' = "check" /\ UNCHANGED err ELSE Fail("end")
  /\ UNCHANGED <<head, ref, dirty, ci, builder, exe, built, runs>>

\* mkdir, git status, git rev-parse.
CheckClean ==
  /\ step = "check"
  /\ \E ok \in BOOLEAN :
       /\ Outcome(ok)
       /\ IF ok /\ ~dirty
          THEN step' = "checkout" /\ ref' = head /\ ci' = 1 /\ UNCHANGED err
          ELSE Fail("end") /\ UNCHANGED <<ref, ci>>
  /\ UNCHANGED <<head, dirty, builder, exe, built, runs>>

Checkout ==
  /\ step = "checkout" /\ ci <= Len(Commits)
  /\ \E ok \in BOOLEAN :
       /\ Outcome(ok)
       /\ IF ok THEN /\ head' = Commits[ci] /\ step' = "build" /\ UNCHANGED err
                     /\ builder' = [b \in Builds |-> "compiling"]
                ELSE Fail("restore") /\ UNCHANGED <<head, builder>>
  /\ UNCHANGED <<ref, dirty, ci, exe, built, runs>>

\* go test -c has read the whole tree and written the binary, or failed.
Compile(b) ==
  /\ builder[b] = "compiling"
  /\ \E ok \in BOOLEAN :
       /\ Outcome(ok)
       /\ builder' = [builder EXCEPT ![b] = IF ok THEN "compiled" ELSE "failed"]
       /\ exe' = IF ok THEN [exe EXCEPT ![<<Commits[ci], b>>] = head] ELSE exe
  /\ UNCHANGED <<step, err, head, ref, dirty, ci, built, runs>>

\* go tool buildid reads the file just written; under l.mu the result is kept.
FetchID(b) ==
  /\ builder[b] = "compiled"
  /\ \E ok \in BOOLEAN :
       /\ Outcome(ok)
       /\ builder' = [builder EXCEPT ![b] = IF ok THEN "ok" ELSE "failed"]
       /\ built' = IF ok THEN [built EXCEPT ![<<Commits[ci], b>>] = BuildID[<<exe[<<Commits[ci], b>>], b>>]]
                         ELSE built
  /\ UNCHANGED <<step, err, head, ref, dirty, ci, exe, runs>>

Returned(b) == builder[b] \in {"ok", "failed"}

FirstError == \/ \A b \in Builds : Returned(b)                 \* mutant: stop at an error
              \/ \E b \in Builds : builder[b] = "failed"

\* parDo has collected one result per build, whatever each of them was.
ParDone == \A b \in Builds : Returned(b)

NextCommit ==
  /\ step = "build" /\ ParDone
  /\ IF \E b \in Builds : builder[b] = "failed"
     THEN Fail("restore") /\ UNCHANGED ci
     ELSE step' = "checkout" /\ ci' = ci + 1 /\ UNCHANGED err
  /\ UNCHANGED <<head, ref, dirty, builder, exe, built, runs, faults>>

\* The deferred checkout, on success and on every error; its own failure is logged.
RestoredOrLost(ok) == head' = IF ok THEN ref ELSE None     \* mutant

Restored(ok) == head' = IF ok THEN ref ELSE head

Restore ==
  /\ step = "restore" \/ (step = "checkout" /\ ci > Len(Commits))
  /\ \E ok \in BOOLEAN : Outcome(ok) /\ Restored(ok)
  /\ step' = IF err THEN "end" ELSE "plan"
  /\ UNCHANGED <<err, ref, dirty, ci, builder, exe, built, runs>>

BuildNext == \/ Resolve \/ CheckClean \/ Checkout \/ NextCommit \/ Restore
             \/ \E b \in Builds : Compile(b) \/ FetchID(b)
=============================================================================
