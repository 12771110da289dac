-------------------------------- MODULE Lab --------------------------------
(****************************************************************************)
(* benchlab: the whole of Lab.Run.  After the builds of LabBuild, runAll    *)
(* plans one job per phase, commit and host (phase 0 tests, later phases    *)
(* benchmark), takes what an earlier run left in the cache, and lets every  *)
(* machine run the rest, up to MaxJobs at a time; a benchmark waits for the *)
(* test of its commit and host.  Results go to a raw file, which benchstat  *)
(* digests under the reporter's lock after each job.                        *)
(****************************************************************************)
EXTENDS LabBuild

CONSTANTS Hosts,       \* l.hosts, in command-line order
          Machines, MachineOf, BuildOf,   \* each host's machine and build
          Kind,        \* [Machines -> {"local", "ssh", "gomote"}]
          MaxJobs,     \* [Machines -> Nat]: max(1, cpu / TestCPU)
          Instances,   \* gomote instances the server can make
          Reps,
          ForceRun     \* -a

VARIABLES
  job,       \* progress of each job
  success,   \* j.success
  out,       \* j.out: [id, m, phase] of what ran, or None
  recorded,  \* how often the job is in the raw file
  cache,     \* .benchlab/cache.* : key -> None (no file, or empty) or what ran and
             \* whether the file is whole, a part, or a mixture of two outputs
  torn,      \* a crash or a failed write may have left part of a file
  mpc,       \* progress of runMachine
  once, motes, motesErr,   \* gomoter: connectOnce, free instances, list's error
  server,    \* instances of the benchlab group that exist
  has,       \* m.gomoteName
  stats, statOK   \* jobs digested in the stat file; the last benchstat worked

benchVars == <<job, success, out, recorded, cache, torn, mpc, once, motes, motesErr, server, has, stats, statOK>>
vars == <<buildVars, runs, faults, benchVars>>

PerPhase == Len(Commits) * Len(Hosts)
Jobs == 1 .. (1 + Reps) * PerPhase          \* in the order runAll makes them
Phase(n) == (n - 1) \div PerPhase
CommitOf(n) == Commits[(((n - 1) % PerPhase) \div Len(Hosts)) + 1]
HostOf(n) == Hosts[((n - 1) % Len(Hosts)) + 1]

FirstTest(n) == 1                           \* mutant: id is not counted up

ParentOf(n) == ((n - 1) % PerPhase) + 1     \* tests[id]

Machine(n) == MachineOf[HostOf(n)]
Binary(n) == <<CommitOf(n), BuildOf[HostOf(n)]>>

Ids == {BuildID[p] : p \in DOMAIN BuildID}
Keys == [id : Ids, m : Machines, phase : 0 .. Reps]
Files == [of : Keys, how : {"part", "mixed", "whole"}]
HostSet == {Hosts[i] : i \in DOMAIN Hosts}

ASSUME HostAssumption ==
  /\ Hosts \in Seq(HostSet) /\ Reps \in Nat
  /\ MachineOf \in [HostSet -> Machines] /\ BuildOf \in [HostSet -> Builds]
  /\ None \notin Files

Unphased(n) == [id |-> built[Binary(n)], m |-> Machine(n), phase |-> 0]   \* mutant

Key(n) == [id |-> built[Binary(n)], m |-> Machine(n), phase |-> Phase(n)]

Queue(m) == {n \in Jobs : Machine(n) = m /\ job[n] = "queued"}
Active(m) == {n \in Jobs : Machine(n) = m /\ job[n] \in {"started", "running", "writing", "finished"}}
Closed(n) == job[n] \in {"finished", "reported"}    \* close(j.done) was called
File(n, how) == [of |-> out'[n], how |-> how]
Writing(k) == {n \in Jobs : job[n] = "writing" /\ Key(n) = k}

Fresh == /\ job' = [n \in Jobs |-> "none"] /\ success' = [n \in Jobs |-> FALSE]
         /\ out' = [n \in Jobs |-> None] /\ recorded' = [n \in Jobs |-> 0]
         /\ mpc' = [m \in Machines |-> "idle"] /\ has' = [m \in Machines |-> None]
         /\ once' = FALSE /\ motes' = {} /\ motesErr' = FALSE /\ stats' = {} /\ statOK' = TRUE

Init ==
  /\ BuildInit
  /\ job = [n \in Jobs |-> "none"] /\ success = [n \in Jobs |-> FALSE]
  /\ out = [n \in Jobs |-> None] /\ recorded = [n \in Jobs |-> 0]
  /\ mpc = [m \in Machines |-> "idle"] /\ has = [m \in Machines |-> None]
  /\ once = FALSE /\ motes = {} /\ motesErr = FALSE /\ stats = {} /\ statOK = TRUE
  /\ cache = [k \in Keys |-> None] /\ torn = FALSE
  /\ \E i \in Instances : server = {i}

LabStart == Start /\ Fresh /\ UNCHANGED <<cache, torn, server>>

\* A killed process leaves HEAD, binaries, instances and half-written files behind.
Crash ==
  /\ step \notin {"idle", "end"} /\ runs < MaxRuns /\ faults < MaxFaults
  /\ step' = "idle" /\ faults' = faults + 1
  /\ torn' = (torn \/ \E n \in Jobs : job[n] = "writing")
  /\ \E left \in {None, "part"} : cache' = [k \in Keys |->
       IF Writing(k) # {} /\ cache[k].how = "part" /\ left = None THEN None ELSE cache[k]]
  /\ Fresh /\ builder' = [b \in Builds |-> "idle"]
  /\ UNCHANGED <<err, head, ref, dirty, ci, exe, built, runs, server>>

\* A result is taken from the cache when there is a non-empty file and no -a.
Hit(n) == cache[Key(n)] # None /\ ~ForceRun
Output(n, id) == [id |-> id, m |-> Machine(n), phase |-> Phase(n)]

AlwaysConnect(m) == IF Kind[m] = "gomote" THEN "connect" ELSE "prepare"     \* mutant

FirstStep(m) == IF \A n \in Jobs : Machine(n) = m => Hit(n) THEN "done"
                ELSE IF Kind[m] = "gomote" THEN "connect" ELSE "prepare"

Plan ==
  /\ step = "plan"
  /\ step' = "bench"
  /\ job' = [n \in Jobs |-> IF Hit(n) THEN "reported" ELSE "queued"]
  /\ success' = [n \in Jobs |-> Hit(n)]
  /\ out' = [n \in Jobs |-> IF Hit(n) THEN cache[Key(n)].of ELSE None]
  /\ recorded' = [n \in Jobs |-> IF Hit(n) THEN 1 ELSE 0]
  /\ mpc' = [m \in Machines |-> FirstStep(m)]
  /\ \E ok \in BOOLEAN :                              \* report.start
       /\ Outcome(ok) /\ statOK' = ok
       /\ stats' = IF ok THEN {n \in Jobs : Hit(n)} ELSE stats
  /\ UNCHANGED <<err, head, ref, dirty, ci, builder, exe, built, runs, cache, torn, once, motes,
                 motesErr, server, has>>

\* The raw file cannot be created, or a binary is missing.
PlanFails ==
  /\ step = "plan" /\ Outcome(FALSE) /\ Fail("end")
  /\ UNCHANGED <<head, ref, dirty, ci, builder, exe, built, runs, benchVars>>

At(m, from, to) == step = "bench" /\ mpc[m] = from /\ mpc' = [mpc EXCEPT ![m] = to]

\* connectOnce: the first machine lists the group's instances, the others wait for it.
ListMotes(m) ==
  /\ At(m, "connect", "connect") /\ ~once /\ once' = TRUE
  /\ \E ok \in BOOLEAN : Outcome(ok) /\ motesErr' = ~ok /\ motes' = IF ok THEN server ELSE {}
  /\ UNCHANGED <<buildVars, runs, job, success, out, recorded, cache, torn, server, has, stats, statOK>>

TakeAndKeep(m, i) ==      \* mutant: the instance stays on the list
  /\ At(m, "connect", "prepare") /\ once /\ i \in motes
  /\ has' = [has EXCEPT ![m] = i]
  /\ UNCHANGED <<buildVars, runs, faults, job, success, out, recorded, cache, torn, once, motes, motesErr, server, stats, statOK>>

\* Under g.mu an existing instance is taken off the list.
TakeMote(m, i) ==
  /\ At(m, "connect", "prepare") /\ once /\ i \in motes
  /\ has' = [has EXCEPT ![m] = i] /\ motes' = motes \ {i}
  /\ UNCHANGED <<buildVars, runs, faults, job, success, out, recorded, cache, torn, once, motesErr, server, stats, statOK>>

CreateMote(m) ==
  /\ once /\ motes = {}
  /\ \/ /\ At(m, "connect", "prepare") /\ ~motesErr
        /\ \E i \in Instances \ server : has' = [has EXCEPT ![m] = i] /\ server' = server \cup {i}
        /\ UNCHANGED faults
     \/ /\ At(m, "connect", "failed") /\ UNCHANGED <<has, server>>
        /\ IF motesErr THEN UNCHANGED faults ELSE Outcome(FALSE)
  /\ UNCHANGED <<buildVars, runs, job, success, out, recorded, cache, torn, once, motes, motesErr, stats, statOK>>

\* scanNumCPU and upload.
Prepare(m) ==
  /\ \E ok \in BOOLEAN : At(m, "prepare", IF ok THEN "run" ELSE "failed") /\ Outcome(ok)
  /\ UNCHANGED <<buildVars, runs, job, success, out, recorded, cache, torn, once, motes, motesErr, server, has, stats, statOK>>

Advance(n, from, to) == job[n] = from /\ job' = [job EXCEPT ![n] = to]

Launch(m) ==
  /\ At(m, "run", "run") /\ Cardinality(Active(m)) < MaxJobs[m]
  /\ \E n \in Queue(m) : (\A k \in Queue(m) : n <= k) /\ Advance(n, "queued", "started")
  /\ UNCHANGED <<buildVars, runs, faults, success, out, recorded, cache, torn, once, motes, motesErr, server, has, stats, statOK>>

\* runJob waits for the test; a benchmark whose test failed is skipped.
Await(n) ==
  /\ IF Phase(n) = 0 \/ (Closed(ParentOf(n)) /\ success[ParentOf(n)])
     THEN Advance(n, "started", "running")
     ELSE Closed(ParentOf(n)) /\ Advance(n, "started", "finished")
  /\ UNCHANGED <<buildVars, runs, faults, success, out, recorded, cache, torn, mpc, once, motes, motesErr, server, has, stats, statOK>>

\* The program ends: an error leaves no result, a success starts to write the cache file.
Ran(n) ==
  /\ \E ok \in BOOLEAN :
       /\ Outcome(ok) /\ Advance(n, "running", IF ok THEN "writing" ELSE "finished")
       /\ success' = [success EXCEPT ![n] = ok]
       /\ out' = IF ok THEN [out EXCEPT ![n] = Output(n, BuildID[<<exe[Binary(n)], Binary(n)[2]>>])] ELSE out
       /\ cache' = IF ok THEN [cache EXCEPT ![Key(n)] = File(n, IF Writing(Key(n)) = {} THEN "part" ELSE "mixed")]
                         ELSE cache
  /\ UNCHANGED <<buildVars, runs, recorded, torn, mpc, once, motes, motesErr, server, has, stats, statOK>>

\* WriteFile returns; two writers of one file may leave a mixture.
Wrote(n) ==
  /\ \E ok \in BOOLEAN :
       /\ Outcome(ok) /\ Advance(n, "writing", "finished")
       /\ torn' = (torn \/ ~ok)
       /\ IF ok THEN \E how \in {"whole", cache[Key(n)].how} \ {"part"} : cache' = [cache EXCEPT ![Key(n)].how = how]
                ELSE UNCHANGED cache
  /\ UNCHANGED <<buildVars, runs, success, out, recorded, mpc, once, motes, motesErr, server, has, stats, statOK>>

\* The machine's loop may receive: it is full, or everything is launched.
Full(m) == Cardinality(Active(m)) = MaxJobs[m] \/ Queue(m) = {}

CollectEarly(m) ==      \* mutant: j.done is sent before WriteFile returns
  /\ At(m, "run", "report") /\ Full(m)
  /\ \E n \in Active(m) : /\ job[n] \in {"writing", "finished"} /\ job' = [job EXCEPT ![n] = "reported"]
                          /\ recorded' = [recorded EXCEPT ![n] = @ + 1]
  /\ UNCHANGED <<buildVars, runs, faults, success, out, cache, torn, once, motes, motesErr, server, has, stats, statOK>>

\* reporter.done writes the raw record before it asks for the lock ...
Collect(m) ==
  /\ At(m, "run", "report") /\ Full(m)
  /\ \E n \in Active(m) : /\ Advance(n, "finished", "reported")
                          /\ recorded' = [recorded EXCEPT ![n] = @ + 1]
  /\ UNCHANGED <<buildVars, runs, faults, success, out, cache, torn, once, motes, motesErr, server, has, stats, statOK>>

\* ... and under it benchstat digests what the raw file holds by then.
Digest(ok) == stats' = IF ok THEN {n \in Jobs : recorded[n] > 0} ELSE stats

Report(m) ==
  /\ At(m, "report", "run")
  /\ \E ok \in BOOLEAN : Outcome(ok) /\ Digest(ok) /\ statOK' = ok
  /\ UNCHANGED <<buildVars, runs, job, success, out, recorded, cache, torn, once, motes, motesErr, server, has>>

DoneEarly(m) ==      \* mutant: the last jobs are not waited for
  /\ At(m, "run", "done") /\ Queue(m) = {}
  /\ UNCHANGED <<buildVars, runs, faults, job, success, out, recorded, cache, torn, once, motes, motesErr, server, has, stats, statOK>>

MachineDone(m) ==
  /\ At(m, "run", "done") /\ Queue(m) = {} /\ Active(m) = {}
  /\ UNCHANGED <<buildVars, runs, faults, job, success, out, recorded, cache, torn, once, motes, motesErr, server, has, stats, statOK>>

\* parDo over the machines: all have returned.
Finish ==
  /\ step = "bench" /\ \A m \in Machines : mpc[m] \in {"done", "failed"}
  /\ step' = "end" /\ err' = (\E m \in Machines : mpc[m] = "failed")
  /\ UNCHANGED <<head, ref, dirty, ci, builder, exe, built, runs, faults, benchVars>>

\* What the process does by itself.
Work ==
  \/ BuildNext /\ UNCHANGED benchVars
  \/ Plan
  \/ PlanFails
  \/ \E m \in Machines : \/ ListMotes(m) \/ CreateMote(m) \/ Prepare(m) \/ Launch(m)
                         \/ Collect(m) \/ Report(m) \/ MachineDone(m)
                         \/ \E i \in Instances : TakeMote(m, i)
  \/ \E n \in Jobs : Await(n) \/ Ran(n) \/ Wrote(n)
  \/ Finish

\* Nothing is left to do: every other state without a step is a deadlock.
Done == step = "end" /\ runs = MaxRuns /\ UNCHANGED vars

Next == LabStart \/ Crash \/ Work \/ Done

Spec == Init /\ [][Next]_vars
-----------------------------------------------------------------------------
TypeOK ==
  /\ step \in {"idle", "resolve", "check", "checkout", "build", "restore", "plan", "bench", "end"}
  /\ head \in CommitSet \cup {Branch} /\ ref \in CommitSet \cup {Branch, None}
  /\ \A b \in Builds : builder[b] \in {"idle", "compiling", "compiled", "ok", "failed"}
  /\ \A n \in Jobs : job[n] \in {"none", "queued", "started", "running", "writing", "finished", "reported"}
  /\ \A k \in Keys : cache[k] # None => cache[k].how \in {"part", "mixed", "whole"}
  /\ server \subseteq Instances /\ \A m \in Machines : has[m] \in Instances \cup {None}

\* A result under a commit and host comes from the binary of that commit's
\* tree in that host's configuration, and from that machine and phase, whether
\* it was run now or read from a file that another commit, run or host wrote.
ResultsMatchTheirLabels ==
  \A n \in Jobs : out[n] # None =>
    out[n] = Output(n, BuildID[<<CommitOf(n), BuildOf[HostOf(n)]>>])

\* No benchmark is measured on a binary whose tests failed on that host.
OnlyTestedIsMeasured ==
  \A n, t \in Jobs :
    /\ Phase(n) > 0 /\ job[n] \in {"running", "writing"}
    /\ Phase(t) = 0 /\ CommitOf(t) = CommitOf(n) /\ HostOf(t) = HostOf(n)
    => success[t]

\* Two machines never share a gomote, and a machine uses an existing one.
OneMachinePerInstance ==
  \A m \in Machines : has[m] # None =>
    has[m] \in server /\ \A k \in Machines \ {m} : has[k] # has[m]

\* Making a gomote is slow: a machine whose jobs were all cached takes none.
ConnectsOnlyForWork ==
  [][\A m \in Machines : has'[m] \notin {has[m], None} => Queue(m) # {}]_vars

\* HEAD does not move while a binary is being compiled from the work tree.
HeadStillWhileCompiling ==
  [][head' # head => \A b \in Builds : builder[b] # "compiling"]_vars

\* A run leaves HEAD where it found it, whatever command made it fail; only the
\* failure of the last checkout itself, of which Run says nothing, prevents it.
HeadComesBack ==
  step = "end" /\ ref # None /\ faults <= 1 /\ (err \/ faults = 0) => head = ref

\* A run that succeeds has put each job in the raw file exactly once, and the
\* last benchstat that worked digested all of them.
EverythingReported ==
  step = "end" /\ ~err =>
    /\ \A n \in Jobs : recorded[n] = 1
    /\ statOK => stats = Jobs

\* A partly written cache file that nobody is writing was left by a crash or an error.
TornOnlyByFailure ==
  \A k \in Keys : cache[k] # None => cache[k].how # "part" \/ Writing(k) # {} \/ torn

\* What is reported, or left in the cache for another run, is a result of what
\* its labels say, on a binary that passed its tests.
ResultsAreRight ==
  TypeOK /\ ResultsMatchTheirLabels /\ OnlyTestedIsMeasured /\ TornOnlyByFailure

\* A run that ends leaves the work tree as it was, and one that succeeds has
\* reported every result once.
RunEndsWell == HeadComesBack /\ EverythingReported

\* Machines take gomotes one each, and only when there is work for them.
MachinesTakenWell == []OneMachinePerInstance /\ ConnectsOnlyForWork
=============================================================================
