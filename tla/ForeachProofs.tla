--------------------------- MODULE ForeachProofs ---------------------------
(****************************************************************************)
(* What git-foreach leaves behind and what it tells, proved for any number  *)
(* of revisions, signals and failures.                                      *)
(****************************************************************************)
EXTENDS GitForeach, TLAPS

InLoop == {"checkout", "enter", "create", "wait", "clear"}

Types ==
  /\ TypeOK
  /\ verdict \in [RevSet -> {None, "PASS", "FAIL"}]
  /\ signals \in Nat /\ faults \in Nat
  /\ pc \in InLoop => i <= Len(Revs)

\* Where the command is, as main sees it: it runs only while main waits for it, on the
\* revision that main has checked out, and none is started once the signal is noted.
CommandPlace ==
  /\ pc \in {"enter", "create"} \/ child = "running" => head = Revs[i]
  /\ child = "running" => pc \in {"wait", "killed"}
  /\ pc = "wait" => child \in {"running", "exited"}
  /\ pc = "clear" => child = "reaped"
  /\ pc = "create" => ~sig /\ locked
  /\ pc \in InLoop \cup {"notify", "list", "next", "stopped"} \/ child = "running" => orig # None

\* A file log.<hash> before the verdict, and the verdicts of the revisions so far.
Logs ==
  /\ LogTellsFailure
  /\ pc = "wait" => Revs[i] \in log
  /\ pc = "clear" => (childOK <=> Revs[i] \notin log)
  /\ \A j \in DOMAIN Revs : j >= i => verdict[Revs[j]] = None

Statuses ==
  /\ status = 0 => \A j \in DOMAIN Revs : j < i => verdict[Revs[j]] = "PASS"
  /\ status = 0 /\ pc \in {"cleanup", "exited"} => i > Len(Revs)
  /\ dying => status = 1 /\ pc \in {"die", "cleanup", "exited", "killed"}

\* How many signals it takes to come this far without another failure.
Way ==
  /\ orig = None => head = start
  /\ orig # None /\ faults = 0 => orig = start
  /\ pc \in {"clean", "save", "parse"} => orig = None /\ ~hit /\ ~notify
  /\ pc = "parse" /\ faults = 0 => head = Tip
  /\ hit => (WaitsForGit \/ pc = "killed") /\ signals >= 1
  /\ changed /\ faults = 0 => orig = None /\ pc \in {"clean", "die", "cleanup", "exited", "killed"}
  /\ orig # None /\ faults = 0 =>
       /\ pc = "die" \/ dying => signals >= 1
       /\ dying /\ (pc = "die" \/ hit) => signals >= 2
  /\ HeadRestored

Inv == Types /\ CommandPlace /\ Logs /\ Statuses /\ Way

USE ForeachAssumption

\* The revisions: an index for each, and one only.
LEMMA RevFacts ==
  /\ Len(Revs) \in Nat /\ DOMAIN Revs = 1 .. Len(Revs)
  /\ \A j \in 1 .. Len(Revs) : Revs[j] \in RevSet
  /\ \A r \in RevSet : \E j \in 1 .. Len(Revs) : r = Revs[j]
<1>1. Len(Revs) \in Nat /\ DOMAIN Revs = 1 .. Len(Revs)
  OBVIOUS
<1> QED
  BY <1>1 DEF RevSet

\* A git that fails was interrupted, or its failure is counted.
LEMMA GitFacts ==
  ASSUME hit \in BOOLEAN, faults \in Nat
  PROVE  /\ GitResult(TRUE) => hit' = FALSE /\ ~hit /\ faults' = faults
         /\ GitResult(FALSE) => hit' = FALSE /\ faults' \in Nat /\ (faults' = 0 => faults = 0 /\ hit)
<1>1. GitResult(TRUE) => hit' = FALSE /\ ~hit /\ faults' = faults
  BY DEF GitResult
<1>2. ASSUME GitResult(FALSE) PROVE hit' = FALSE /\ faults' \in Nat /\ (faults' = 0 => faults = 0 /\ hit)
  <2>1. hit' = FALSE /\ IF hit THEN faults' = faults ELSE faults' = faults + 1
    BY <1>2 DEF GitResult
  <2> QED
    BY <2>1
<1> QED
  BY <1>1, <1>2

\* A checkout that ends well ends at its commit; one that does not, with no failure of
\* its own, was interrupted or found a changed tree.
LEMMA CheckoutFacts ==
  ASSUME changed \in BOOLEAN, hit \in BOOLEAN, faults \in Nat,
         NEW from, NEW ref, NEW to, to # "die", Checkout(from, ref, to)
  PROVE  /\ pc = from /\ pc' \in {to, "die"} /\ hit' = FALSE
         /\ changed' \in BOOLEAN /\ faults' \in Nat /\ head' \in {head, ref}
         /\ faults' = 0 => faults = 0 /\ (changed' => changed)
         /\ pc' = to => head' = ref
         /\ pc' = "die" /\ faults' = 0 => hit \/ changed
<1>1. CASE GitResult(TRUE) /\ pc' = to /\ head' = ref /\ changed' \in {FALSE, changed}
  BY <1>1, GitFacts DEF Checkout
<1>2. CASE changed /\ pc' = "die" /\ hit' = FALSE /\ UNCHANGED <<head, changed, faults>>
  BY <1>2 DEF Checkout
<1>3. CASE /\ pc' = "die" /\ head' \in {head, IF hit THEN ref ELSE head}
           /\ \/ GitResult(FALSE) /\ UNCHANGED changed
              \/ hit' = FALSE /\ changed' = TRUE /\ faults < MaxFaults /\ faults' = faults + 1
  <2>1. pc = from /\ head' \in {head, ref}
    BY <1>3 DEF Checkout
  <2>2. CASE GitResult(FALSE) /\ UNCHANGED changed
    BY <1>3, <2>1, <2>2, GitFacts
  <2>3. CASE hit' = FALSE /\ changed' = TRUE /\ faults < MaxFaults /\ faults' = faults + 1
    <3>1. faults' \in Nat /\ faults' # 0
      BY <2>3
    <3> QED
      BY <1>3, <2>1, <2>3, <3>1
  <2> QED
    BY <1>3, <2>2, <2>3
<1> QED
  BY <1>1, <1>2, <1>3 DEF Checkout

USE DEF Inv, Types, InLoop, TypeOK, CommandPlace, Logs, LogTellsFailure, Statuses,
  Way, HeadRestored, WaitsForGit, stopVars, repoVars

\* main has done nothing, and the command does not exist.
LEMMA InitInv == Init => Inv
<1> SUFFICES ASSUME Init PROVE Inv
  OBVIOUS
<1>1. {changed, childOK, deaf, locked, proc, sig, chan, notify, hit, dying} \subseteq BOOLEAN
  BY DEF Init
<1> QED
  BY <1>1, RevFacts DEF Init

\* main, the command, the goroutine and the user, one action at a time.
LEMMA StepInv == ASSUME Inv, [Next]_vars PROVE Inv'
<1>1. CASE Clean
  <2>1. Types'
    <3>1. {changed, childOK, deaf, locked, proc, sig, chan, notify, hit, dying}' \subseteq BOOLEAN
      BY <1>1 DEF Clean, GitResult
    <3> QED
      BY <3>1, <1>1, RevFacts DEF Clean, GitResult
  <2>2. (CommandPlace /\ Logs /\ Statuses /\ Way)'
    BY <1>1 DEF Clean, GitResult
  <2> QED
    BY <2>1, <2>2
<1>2. CASE SaveHead
  <2>1. Types'
    <3>1. {changed, childOK, deaf, locked, proc, sig, chan, notify, hit, dying}' \subseteq BOOLEAN
      BY <1>2 DEF SaveHead, GitResult
    <3> QED
      BY <3>1, <1>2, RevFacts DEF SaveHead, GitResult
  <2>2. (CommandPlace /\ Logs /\ Statuses)'
    BY <1>2 DEF SaveHead, GitResult
  <2>3. Way'
    <3>1. ~hit /\ ~notify /\ (changed => faults > 0) /\ (faults' = 0 => faults = 0)
      BY <1>2 DEF SaveHead, GitResult
    <3> QED
      BY <3>1, <1>2 DEF SaveHead, GitResult
  <2> QED
    BY <2>1, <2>2, <2>3
<1>18. CASE ParseHead
  <2>1. Types'
    <3>1. {changed, childOK, deaf, locked, proc, sig, chan, notify, hit, dying}' \subseteq BOOLEAN
      BY <1>18 DEF ParseHead, GitStep, GitResult
    <3> QED
      BY <3>1, <1>18, RevFacts DEF ParseHead, GitStep, GitResult
  <2>2. (CommandPlace /\ Logs /\ Statuses /\ Way)'
    BY <1>18 DEF ParseHead, GitStep, GitResult
  <2> QED
    BY <2>1, <2>2
<1>3. CASE Notify
  <2>1. Types'
    <3>1. {changed, childOK, deaf, locked, proc, sig, chan, notify, hit, dying}' \subseteq BOOLEAN
      BY <1>3 DEF Notify
    <3> QED
      BY <3>1, <1>3, RevFacts DEF Notify
  <2>2. (CommandPlace /\ Logs /\ Statuses /\ Way)'
    BY <1>3 DEF Notify
  <2> QED
    BY <2>1, <2>2
<1>4. CASE List
  <2>1. Types'
    <3>1. {changed, childOK, deaf, locked, proc, sig, chan, notify, hit, dying}' \subseteq BOOLEAN
      BY <1>4 DEF List, GitStep, GitResult
    <3> QED
      BY <3>1, <1>4, RevFacts DEF List, GitStep, GitResult
  <2>2. (CommandPlace /\ Logs /\ Statuses /\ Way)'
    BY <1>4 DEF List, GitStep, GitResult
  <2> QED
    BY <2>1, <2>2
<1>5. CASE NextRev
  <2>1. Types'
    <3>1. {changed, childOK, deaf, locked, proc, sig, chan, notify, hit, dying}' \subseteq BOOLEAN
      BY <1>5 DEF NextRev, GitStep, GitResult
    <3> QED
      BY <3>1, <1>5, RevFacts DEF NextRev, GitStep, GitResult
  <2>2. (CommandPlace /\ Logs /\ Statuses /\ Way)'
    BY <1>5 DEF NextRev, GitStep, GitResult
  <2> QED
    BY <2>1, <2>2
<1>6. CASE CheckoutRev
  <2>0. Revs[i] \in RevSet
    BY <1>6, RevFacts DEF CheckoutRev, Checkout
  <2>f. /\ pc = "checkout" /\ pc' \in {"enter", "die"} /\ hit' = FALSE
        /\ changed' \in BOOLEAN /\ faults' \in Nat /\ head' \in {head, Revs[i]}
        /\ faults' = 0 => faults = 0 /\ (changed' => changed)
        /\ pc' = "enter" => head' = Revs[i]
        /\ pc' = "die" /\ faults' = 0 => hit \/ changed
    BY <1>6, CheckoutFacts DEF CheckoutRev
  <2>u. UNCHANGED <<i, orig, start, stopVars, dying, status, log, verdict>>
    BY <1>6 DEF CheckoutRev
  <2>1. Types'
    BY <2>0, <2>f, <2>u
  <2>2. (CommandPlace /\ Logs /\ Statuses)'
    BY <2>f, <2>u
  <2>3. Way'
    BY <2>f, <2>u
  <2> QED
    BY <2>1, <2>2, <2>3
<1>7. CASE Enter
  <2>1. Types'
    <3>1. {changed, childOK, deaf, locked, proc, sig, chan, notify, hit, dying}' \subseteq BOOLEAN
      BY <1>7 DEF Enter, Stopped
    <3> QED
      BY <3>1, <1>7, RevFacts DEF Enter, Stopped
  <2>2. (CommandPlace /\ Logs /\ Statuses /\ Way)'
    BY <1>7 DEF Enter, Stopped
  <2> QED
    BY <2>1, <2>2
<1>8. CASE Create
  <2>r. Revs[i] \in RevSet
    BY <1>8, RevFacts DEF Create
  <2>1. Types'
    <3>1. {changed, childOK, deaf, locked, proc, sig, chan, notify, hit, dying}' \subseteq BOOLEAN
      BY <1>8 DEF Create, GitResult
    <3>2. log' \subseteq RevSet
      BY <1>8, <2>r DEF Create
    <3>3. faults' \in Nat /\ pc' \in {"wait", "die"} /\ child' \in {child, "running"}
      BY <1>8, GitFacts DEF Create
    <3> QED
      BY <3>1, <3>2, <3>3, <1>8 DEF Create
  <2>2. CommandPlace'
    BY <1>8 DEF Create, GitResult
  <2>5. /\ log \subseteq log' /\ log' \subseteq log \cup {Revs[i]}
        /\ pc' = "wait" => Revs[i] \in log'
        /\ pc' \in {"wait", "die"} /\ UNCHANGED <<i, verdict, childOK>>
    BY <1>8 DEF Create
  <2>3. Logs'
    BY <2>5, <2>r, RevFacts, <1>8 DEF Create
  <2>6. /\ hit' = FALSE /\ faults' \in Nat /\ (faults' = 0 => faults = 0)
        /\ pc' = "die" /\ faults' = 0 => hit
        /\ UNCHANGED <<i, head, orig, start, changed, signals, notify, dying, status, verdict>>
    BY <1>8, GitFacts DEF Create
  <2>4. (Statuses /\ Way)'
    BY <2>5, <2>6, <1>8 DEF Create
  <2> QED
    BY <2>1, <2>2, <2>3, <2>4
<1>9. CASE Wait
  <2>1. Types'
    <3>1. {changed, childOK, deaf, locked, proc, sig, chan, notify, hit, dying}' \subseteq BOOLEAN
      BY <1>9 DEF Wait, LogAfter
    <3> QED
      BY <3>1, <1>9, RevFacts DEF Wait, LogAfter
  <2>2. (CommandPlace /\ Logs /\ Statuses /\ Way)'
    BY <1>9 DEF Wait, LogAfter
  <2> QED
    BY <2>1, <2>2
<1>10. CASE Clear
  <2>1. Types'
    <3>1. {changed, childOK, deaf, locked, proc, sig, chan, notify, hit, dying}' \subseteq BOOLEAN
      BY <1>10 DEF Clear, Stopped
    <3> QED
      BY <3>1, <1>10, RevFacts DEF Clear, Stopped
  <2>2. (CommandPlace /\ Logs /\ Statuses /\ Way)'
    BY <1>10 DEF Clear, Stopped
  <2> QED
    BY <2>1, <2>2
<1>11. CASE StopLoop
  <2>1. Types'
    <3>1. {changed, childOK, deaf, locked, proc, sig, chan, notify, hit, dying}' \subseteq BOOLEAN
      BY <1>11 DEF StopLoop
    <3> QED
      BY <3>1, <1>11, RevFacts DEF StopLoop
  <2>2. (CommandPlace /\ Logs /\ Statuses /\ Way)'
    BY <1>11 DEF StopLoop
  <2> QED
    BY <2>1, <2>2
<1>12. CASE Cleanup
  <2>0. CASE orig = None
    BY <1>12, <2>0, RevFacts DEF Cleanup
  <2>5. CASE orig # None
    <3>f. /\ pc = "cleanup" /\ pc' \in {"exited", "die"} /\ hit' = FALSE
          /\ changed' \in BOOLEAN /\ faults' \in Nat /\ head' \in {head, orig}
          /\ faults' = 0 => faults = 0 /\ (changed' => changed)
          /\ pc' = "exited" => head' = orig
          /\ pc' = "die" /\ faults' = 0 => hit \/ changed
      BY <1>12, <2>5, CheckoutFacts DEF Cleanup
    <3>u. UNCHANGED <<i, orig, start, stopVars, dying, status, log, verdict>>
      BY <1>12 DEF Cleanup
    <3>1. Types'
      BY <2>5, <3>f, <3>u
    <3>2. (CommandPlace /\ Logs /\ Statuses)'
      BY <2>5, <3>f, <3>u
    <3>3. Way'
      BY <2>5, <3>f, <3>u
    <3> QED
      BY <3>1, <3>2, <3>3
  <2> QED
    BY <2>0, <2>5
<1>13. CASE Die
  <2>1. Types'
    <3>1. {changed, childOK, deaf, locked, proc, sig, chan, notify, hit, dying}' \subseteq BOOLEAN
      BY <1>13 DEF Die
    <3> QED
      BY <3>1, <1>13, RevFacts DEF Die
  <2>2. (CommandPlace /\ Logs /\ Statuses /\ Way)'
    BY <1>13 DEF Die
  <2> QED
    BY <2>1, <2>2
<1>14. CASE CommandEnds
  <2>1. Types'
    <3>1. {changed, childOK, deaf, locked, proc, sig, chan, notify, hit, dying}' \subseteq BOOLEAN
      BY <1>14 DEF CommandEnds
    <3> QED
      BY <3>1, <1>14, RevFacts DEF CommandEnds
  <2>2. (CommandPlace /\ Logs /\ Statuses /\ Way)'
    BY <1>14 DEF CommandEnds
  <2> QED
    BY <2>1, <2>2
<1>15. CASE Handle
  <2>1. Types'
    <3>1. {changed, childOK, deaf, locked, proc, sig, chan, notify, hit, dying}' \subseteq BOOLEAN
      BY <1>15 DEF Handle, LockHeld
    <3> QED
      BY <3>1, <1>15, RevFacts DEF Handle, LockHeld
  <2>2. (CommandPlace /\ Logs /\ Statuses /\ Way)'
    BY <1>15 DEF Handle, LockHeld
  <2> QED
    BY <2>1, <2>2
<1>16. CASE Signal
  <2>1. Types'
    <3>1. {changed, childOK, deaf, locked, proc, sig, chan, notify, hit, dying}' \subseteq BOOLEAN
      BY <1>16 DEF Signal
    <3> QED
      BY <3>1, <1>16, RevFacts DEF Signal
  <2>2. (CommandPlace /\ Logs /\ Statuses /\ Way)'
    BY <1>16 DEF Signal
  <2> QED
    BY <2>1, <2>2
<1>17. CASE UNCHANGED vars
  BY <1>17 DEF vars
<1> QED
  BY <1>1, <1>2, <1>3, <1>4, <1>5, <1>6, <1>7, <1>8, <1>9, <1>10, <1>11, <1>12, <1>13, <1>14, <1>15, <1>16, <1>17, <1>18 DEF Next, Main, Done

HIDE DEF Inv

\* The inductive invariant holds in every behaviour.
THEOREM Inductive == Spec => []Inv
<1>1. Inv /\ [Next]_vars => Inv'
  BY StepInv
<1> QED
  BY InitInv, <1>1, PTL DEF Spec

\* Whatever the revisions, the failures and the signals: a command runs on its
\* revision, none is left running, and one signal alone does not keep
\* git-foreach from going back to the HEAD it found.
THEOREM CleanEnd == Spec => []EndsClean
<1>1. Inv => EndsClean
  BY RevFacts DEF Inv, EndsClean, CommandSeesItsRevision, NothingLeftRunning
<1> QED
  BY Inductive, <1>1, PTL

\* A log file tells each failure, those of the revisions before a signal included,
\* and status 0 is for a walk that tried all revisions and saw them pass.
THEOREM FailuresTold == Spec => []FailureIsTold
<1>1. Inv => FailureIsTold
  <2> SUFFICES ASSUME Inv PROVE FailureIsTold
    OBVIOUS
  <2>1. LogTellsFailure
    BY DEF Inv
  <2>2. ASSUME pc = "exited", status = 0, NEW r \in RevSet PROVE verdict[r] = "PASS"
    <3>1. PICK j \in 1 .. Len(Revs) : r = Revs[j]
      BY RevFacts
    <3> QED
      BY <2>2, <3>1, RevFacts DEF Inv
  <2> QED
    BY <2>1, <2>2 DEF FailureIsTold, StatusIsHonest
<1> QED
  BY Inductive, <1>1, PTL

\* The lock orders the start of a command and the goroutine's note of a signal:
\* once it is noted, main starts no further command.
THEOREM NoneStarted == Spec => NoCommandAfterSignal
<1>1. Inv /\ [Next]_vars => [child # "running" /\ child' = "running" => ~sig]_vars
  <2> SUFFICES ASSUME Inv, Next, child # "running", child' = "running" PROVE ~sig
    OBVIOUS
  <2>1. Create
    BY DEF Next, Main, Clean, SaveHead, ParseHead, Notify, List, NextRev, CheckoutRev, Enter, Wait,
       Clear, StopLoop, Cleanup, Die, CommandEnds, Handle, Signal, Done, vars
  <2> QED
    BY <2>1 DEF Inv, Create
<1> QED
  BY Inductive, <1>1, PTL DEF Spec, NoCommandAfterSignal
=============================================================================
