----------------------------- MODULE GitForeach -----------------------------
(****************************************************************************)
(* git-foreach: main walks the revisions and runs the command at each one   *)
(* in a process group of its own; a goroutine waits for the first signal.   *)
(* A signal from the terminal also reaches a git that main is waiting for,  *)
(* but not the command.  After the first one the handlers are gone: the     *)
(* next signal kills git-foreach on the spot.                               *)
(****************************************************************************)
EXTENDS Naturals, Sequences

CONSTANTS Revs,        \* rev-list --reverse, oldest first
          Branch, Tip, \* the branch of the user, and its commit
          None,
          MaxSignals, MaxFaults

RevSet == {Revs[i] : i \in DOMAIN Revs}

ASSUME ForeachAssumption ==
  /\ Revs \in Seq(RevSet) /\ Branch \notin RevSet \cup {Tip} /\ MaxSignals \in Nat /\ MaxFaults \in Nat
  /\ \A j, k \in DOMAIN Revs : Revs[j] = Revs[k] => j = k     \* rev-list names a commit once
  /\ None \notin {"PASS", "FAIL", Branch, Tip}

VARIABLES
  pc,        \* where main is
  i,         \* index of the revision
  head, orig,
  start,     \* history: the HEAD that git-foreach found
  changed,   \* tracked files differ from HEAD
  child,     \* "none", "running", "exited" (not reaped yet), "reaped"
  childOK,   \* the command's exit status is 0
  deaf,      \* it has got the signal and runs on
  locked,    \* main holds the lock of stop
  proc,      \* stop.proc is set
  sig,       \* stop.sig is set
  chan,      \* sigChan holds a signal
  notify,    \* signal.Notify is in force
  hit,       \* the signal also reached the git that main waits for
  dying, status,
  log,       \* revisions with a file log.<hash>
  verdict,   \* what was said of each revision
  signals, faults

stopVars == <<child, childOK, deaf, locked, proc, sig, chan, notify, signals>>
repoVars == <<head, orig, start, changed>>
vars == <<pc, i, repoVars, stopVars, hit, dying, status, log, verdict, faults>>

Init ==
  /\ pc = "clean" /\ i = 1 /\ orig = None
  /\ head \in {Branch, Tip} /\ start = head        \* on the branch, or detached
  /\ changed \in BOOLEAN
  /\ child = "none" /\ childOK = TRUE /\ deaf = FALSE /\ locked = FALSE /\ proc = FALSE
  /\ sig = FALSE /\ chan = FALSE /\ notify = FALSE /\ hit = FALSE
  /\ dying = FALSE /\ status = 0
  /\ log \in SUBSET RevSet                 \* from earlier invocations
  /\ verdict = [r \in RevSet |-> None]
  /\ signals = 0 /\ faults = 0

\* A git that a signal interrupted failed; another may fail by itself.
GitResult(ok) ==
  /\ hit' = FALSE
  /\ IF ok THEN ~hit /\ UNCHANGED faults
     ELSE IF hit THEN UNCHANGED faults ELSE faults < MaxFaults /\ faults' = faults + 1

\* git() dies when the command fails.
GitStep(from, to) ==
  /\ pc = from
  /\ \E ok \in BOOLEAN : GitResult(ok) /\ pc' = IF ok THEN to ELSE "die"

Clean ==     \* diff-index: a modified tree is a failure too
  /\ pc = "clean"
  /\ \E ok \in BOOLEAN : GitResult(ok) /\ pc' = IF ok /\ ~changed THEN "save" ELSE "die"
  /\ UNCHANGED <<i, repoVars, stopVars, dying, status, log, verdict>>

\* The name of the branch: a detached HEAD has none, and any failure of
\* symbolic-ref is taken for that.
SaveHead ==
  /\ pc = "save"
  /\ \/ head = Branch /\ GitResult(TRUE) /\ orig' = head /\ pc' = "notify"
     \/ head # Branch /\ hit' = FALSE /\ UNCHANGED <<orig, faults>> /\ pc' = "parse"
     \/ GitResult(FALSE) /\ UNCHANGED orig /\ pc' = "parse"
  /\ UNCHANGED <<i, head, start, changed, stopVars, dying, status, log, verdict>>

\* Its commit, or "bad HEAD".
ParseHead ==
  /\ GitStep("parse", "notify")
  /\ orig' = IF pc' = "notify" THEN Tip ELSE orig
  /\ UNCHANGED <<i, head, start, changed, stopVars, dying, status, log, verdict>>

Notify ==
  /\ pc = "notify" /\ pc' = "list" /\ notify' = TRUE
  /\ UNCHANGED <<i, repoVars, child, childOK, deaf, locked, proc, sig, chan, signals, hit, dying, status, log, verdict, faults>>

List ==
  /\ GitStep("list", "next")
  /\ UNCHANGED <<i, repoVars, stopVars, dying, status, log, verdict>>

\* The loop's head: git rev-list --oneline, and the wait for the next second.
NextRev ==
  /\ IF i > Len(Revs) THEN pc = "next" /\ pc' = "cleanup" /\ UNCHANGED <<hit, faults>>
                      ELSE GitStep("next", "checkout")
  /\ UNCHANGED <<i, repoVars, stopVars, dying, status, log, verdict>>

\* git checkout carries modified files over that are the same in both commits;
\* otherwise it refuses.  It moves HEAD last: when it is interrupted it may or may
\* not have.  One that breaks off half way leaves a tree of neither commit.
Checkout(from, ref, to) ==
  /\ pc = from
  /\ \/ GitResult(TRUE) /\ pc' = to /\ head' = ref /\ changed' \in {FALSE, changed}
     \/ changed /\ pc' = "die" /\ hit' = FALSE /\ UNCHANGED <<head, changed, faults>>
     \/ /\ pc' = "die" /\ head' \in {head, IF hit THEN ref ELSE head}
        /\ \/ GitResult(FALSE) /\ UNCHANGED changed
           \/ hit' = FALSE /\ changed' = TRUE /\ faults < MaxFaults /\ faults' = faults + 1

SaveEachTime ==      \* mutant: HEAD is saved in the loop
  /\ Checkout("checkout", Revs[i], "enter") /\ orig' = head
  /\ UNCHANGED <<i, start, stopVars, dying, status, log, verdict>>

CheckoutTry ==       \* mutant: the result of git checkout is not looked at
  /\ pc = "checkout" /\ pc' = "enter" /\ hit' = FALSE
  /\ head' \in {Revs[i]} \cup IF changed \/ hit THEN {head} ELSE {}
  /\ UNCHANGED <<i, orig, start, changed, stopVars, dying, status, log, verdict, faults>>

CheckoutRev ==
  /\ Checkout("checkout", Revs[i], "enter")
  /\ UNCHANGED <<i, orig, start, stopVars, dying, status, log, verdict>>

NotLooked == FALSE      \* mutant

\* run1 takes the lock and looks for a signal.
Stopped == sig

Enter ==
  /\ pc = "enter"
  /\ pc' = IF Stopped THEN "stopped" ELSE "create"
  /\ locked' = ~Stopped
  /\ UNCHANGED <<i, repoVars, child, childOK, deaf, proc, sig, chan, notify, signals, hit, dying, status, log, verdict, faults>>

Unlocked == FALSE      \* mutant

\* The lock keeps the goroutine out while a command is started.
LockHeld == locked

\* Under the lock: git rev-parse, the log file, the start of the command.  When
\* git fails, die does not come back and the lock stays taken.
Create ==
  /\ pc = "create"
  /\ \/ /\ GitResult(TRUE) /\ pc' = "wait" /\ locked' = FALSE
        /\ child' = "running" /\ proc' = TRUE /\ log' = log \cup {Revs[i]}
     \/ GitResult(FALSE) /\ pc' = "die" /\ UNCHANGED <<locked, child, proc, log>>
     \/ /\ ~hit /\ GitResult(FALSE) /\ pc' = "die" /\ locked' = FALSE
        /\ log' \in {log, log \cup {Revs[i]}} /\ UNCHANGED <<child, proc>>
  /\ UNCHANGED <<i, repoVars, childOK, deaf, sig, chan, notify, signals, dying, status, verdict>>

LogKept(ok) == log \cup {Revs[i]}      \* mutant

\* Wait reaps the command; the log of a success is removed.
LogAfter(ok) == IF ok THEN log \ {Revs[i]} ELSE log

WaitOrSignal ==      \* mutant: a signal also ends the wait
  /\ pc = "wait" /\ (child = "exited" \/ chan)
  /\ child' = IF chan THEN child ELSE "reaped"
  /\ log' = LogAfter(childOK) /\ pc' = "clear" /\ sig' = (sig \/ chan)
  /\ UNCHANGED <<i, repoVars, childOK, deaf, locked, proc, chan, notify, signals, hit, dying, status, verdict, faults>>

Wait ==
  /\ pc = "wait" /\ child = "exited"
  /\ child' = "reaped" /\ log' = LogAfter(childOK) /\ pc' = "clear"
  /\ UNCHANGED <<i, repoVars, childOK, deaf, locked, proc, sig, chan, notify, signals, hit, dying, status, verdict, faults>>

LastOneCounts ==      \* mutant: a later PASS wipes out a FAIL
  /\ pc = "clear" /\ proc' = FALSE /\ status' = IF childOK THEN 0 ELSE 1
  /\ IF Stopped THEN pc' = "stopped" /\ UNCHANGED <<i, verdict>>
     ELSE /\ pc' = "next" /\ i' = i + 1
          /\ verdict' = [verdict EXCEPT ![Revs[i]] = IF childOK THEN "PASS" ELSE "FAIL"]
  /\ UNCHANGED <<repoVars, child, childOK, deaf, locked, sig, chan, notify, signals, hit, dying, log, faults>>

\* Under the lock again: forget the process, look for a signal; then the verdict.
Clear ==
  /\ pc = "clear" /\ proc' = FALSE
  /\ IF Stopped
     THEN pc' = "stopped" /\ UNCHANGED <<i, status, verdict>>
     ELSE /\ pc' = "next" /\ i' = i + 1
          /\ verdict' = [verdict EXCEPT ![Revs[i]] = IF childOK THEN "PASS" ELSE "FAIL"]
          /\ status' = IF childOK THEN status ELSE 1
  /\ UNCHANGED <<repoVars, child, childOK, deaf, locked, sig, chan, notify, signals, hit, dying, log, faults>>

StopLoop ==
  /\ pc = "stopped" /\ pc' = "cleanup" /\ status' = 1
  /\ UNCHANGED <<i, repoVars, stopVars, hit, dying, log, verdict, faults>>

\* cleanup, from the end of main or from die; without an origHEAD it must fail.
Cleanup ==
  /\ IF orig # None THEN Checkout("cleanup", orig, "exited")
     ELSE pc = "cleanup" /\ pc' = "die" /\ hit' = FALSE /\ UNCHANGED <<head, changed, faults>>
  /\ UNCHANGED <<i, orig, start, stopVars, dying, status, log, verdict>>

DieAtOnce ==      \* mutant
  /\ pc = "die" /\ status' = 1 /\ pc' = "exited"
  /\ UNCHANGED <<i, repoVars, stopVars, hit, dying, log, verdict, faults>>

\* die: the second time nothing more is tried.
Die ==
  /\ pc = "die" /\ status' = 1 /\ dying' = TRUE
  /\ pc' = IF dying THEN "exited" ELSE "cleanup"
  /\ UNCHANGED <<i, repoVars, stopVars, hit, log, verdict, faults>>

\* The command ends by itself: it may have left tracked files modified.
CommandEnds ==
  /\ child = "running" /\ child' = "exited" /\ childOK' \in BOOLEAN
  /\ changed' \in (IF faults < MaxFaults THEN {changed, TRUE} ELSE {changed})
  /\ faults' = IF changed' # changed THEN faults + 1 ELSE faults
  /\ UNCHANGED <<pc, i, head, orig, start, deaf, locked, proc, sig, chan, notify, signals, hit, dying, status, log, verdict>>

\* The goroutine: note the signal, send it to the command's group, give up handling.
\* It is a signal that can be caught: the command may end of it, or run on.
Handle ==
  /\ chan /\ ~sig /\ ~LockHeld /\ pc \notin {"exited", "killed"}
  /\ sig' = TRUE /\ chan' = FALSE /\ notify' = FALSE
  /\ IF proc /\ child = "running"
     THEN \/ child' = "exited" /\ childOK' = FALSE /\ UNCHANGED deaf
          \/ deaf' = TRUE /\ UNCHANGED <<child, childOK>>
     ELSE UNCHANGED <<child, childOK, deaf>>
  /\ UNCHANGED <<pc, i, repoVars, locked, proc, signals, hit, dying, status, log, verdict, faults>>

WaitsForGit == pc \in {"clean", "save", "parse", "list", "checkout", "create", "cleanup"}
               \/ (pc = "next" /\ i <= Len(Revs))

\* From the terminal, or for git-foreach alone.
Signal ==
  /\ pc \notin {"exited", "killed"} /\ signals < MaxSignals /\ signals' = signals + 1
  /\ IF notify THEN chan' = TRUE /\ hit' \in {hit, WaitsForGit} /\ UNCHANGED pc
               ELSE pc' = "killed" /\ UNCHANGED <<chan, hit>>
  /\ UNCHANGED <<i, repoVars, child, childOK, deaf, locked, proc, sig, notify, dying, status, log, verdict, faults>>

Main == \/ Clean \/ SaveHead \/ ParseHead \/ Notify \/ List \/ NextRev \/ CheckoutRev \/ Enter \/ Create
        \/ Wait \/ Clear \/ StopLoop \/ Cleanup \/ Die

Done == pc \in {"exited", "killed"} /\ UNCHANGED vars

Next == Main \/ CommandEnds \/ Handle \/ Signal \/ Done

Spec == Init /\ [][Next]_vars
\* main and the goroutine are scheduled and git returns; a command may run forever.
FairSpec == Spec /\ WF_vars(Main) /\ WF_vars(Handle)
-----------------------------------------------------------------------------
TypeOK ==
  /\ pc \in {"clean", "save", "parse", "notify", "list", "next", "checkout", "enter", "create", "wait",
             "clear", "stopped", "cleanup", "die", "exited", "killed"}
  /\ i \in 1 .. Len(Revs) + 1 /\ head \in RevSet \cup {Branch, Tip}
  /\ start \in {Branch, Tip} /\ orig \in {None, Branch, Tip}
  /\ child \in {"none", "running", "exited", "reaped"} /\ log \subseteq RevSet
  /\ {changed, childOK, deaf, locked, proc, sig, chan, notify, hit, dying} \subseteq BOOLEAN
  /\ status \in {0, 1} /\ \A r \in RevSet : verdict[r] \in {None, "PASS", "FAIL"}

\* One signal, wherever it comes, does not keep git-foreach from going back to the
\* HEAD it found, be it a branch or a commit.  A git that it interrupts has failed;
\* only one that breaks off half way counts among the faults.
HeadRestored ==
  pc = "exited" /\ faults = 0 /\ signals <= 1 => head = start

\* A command runs on the revision it is reported for, nothing moves HEAD under it, and
\* what is in the tree that is not in the revision an earlier failure has left there.
CommandSeesItsRevision ==
  child = "running" => head = Revs[i] /\ (faults = 0 => ~changed)

\* No command outlives git-foreach, unless a second signal killed it.
NothingLeftRunning == pc = "exited" => child # "running"

\* A file log.<hash> is there after FAIL and not after PASS, one of an earlier
\* invocation included.
LogTellsFailure ==
  \A r \in RevSet : (verdict[r] = "FAIL" => r \in log) /\ (verdict[r] = "PASS" => r \notin log)

\* Exit status 0 says that every revision was tried and passed.
StatusIsHonest ==
  pc = "exited" /\ status = 0 => \A r \in RevSet : verdict[r] = "PASS"

\* Once the signal is noted no further command is started.
NoCommandAfterSignal == [][child # "running" /\ child' = "running" => ~sig]_vars

\* A signal ends git-foreach, even when the command would never have ended by itself;
\* unless the command takes no notice of its signal: it is waited for as long as it
\* likes.
SignalStops ==
  (signals > 0) ~> (pc \in {"exited", "killed"} \/ (pc = "wait" /\ deaf /\ child = "running"))

\* A command runs on its revision, and git-foreach leaves neither a command
\* running nor HEAD elsewhere when it ends, one signal or none.
EndsClean == TypeOK /\ HeadRestored /\ CommandSeesItsRevision /\ NothingLeftRunning

\* Nobody takes a failure for a success: the log files tell which revisions
\* failed, and status 0 that none did.
FailureIsTold == LogTellsFailure /\ StatusIsHonest

\* A signal stops the loop: no further command starts, and git-foreach ends with the
\* one that runs.
SignalObeyed == NoCommandAfterSignal /\ SignalStops
=============================================================================
