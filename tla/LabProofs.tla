------------------------------ MODULE LabProofs ------------------------------
(****************************************************************************)
(* What a run of benchlab reports, keeps in the cache and leaves behind,    *)
(* proved for any number of commits, hosts, repetitions, runs and failures. *)
(****************************************************************************)
EXTENDS Lab, TLAPS

Busy == {"started", "running", "writing", "finished"}

\* What the binary and the build id of commit c and build b must be.
Made(c, b)  == exe[<<c, b>>] = c /\ built[<<c, b>>] = BuildID[<<c, b>>]

BuildTypes ==
  /\ step \in {"idle", "resolve", "check", "checkout", "build", "restore", "plan", "bench", "end"}
  /\ err \in BOOLEAN /\ ci \in Nat /\ faults \in Nat
  /\ head \in CommitSet \cup {Branch} /\ ref \in CommitSet \cup {Branch, None}
  /\ builder \in [Builds -> {"idle", "compiling", "compiled", "ok", "failed"}]
  /\ exe \in [CommitSet \X Builds -> CommitSet \cup {Branch, None}]
  /\ built \in [CommitSet \X Builds -> Ids \cup {None}]

\* Binaries are compiled only while HEAD is at their commit.
Compiling ==
  /\ step \in {"checkout", "build"} => ci \in 1 .. Len(Commits) + 1
  /\ step = "build" => ci <= Len(Commits) /\ head = Commits[ci]
  /\ step # "build" => \A b \in Builds : builder[b] \notin {"compiling", "compiled"}
  /\ step = "build" => \A b \in Builds :
       /\ builder[b] \in {"compiled", "ok"} => exe[<<Commits[ci], b>>] = Commits[ci]
       /\ builder[b] = "ok" => Made(Commits[ci], b)
  /\ step \in {"checkout", "build"} => \A j \in 1 .. ci - 1 : \A b \in Builds : Made(Commits[j], b)
  /\ step \in {"plan", "bench"} => \A c \in CommitSet : \A b \in Builds : Made(c, b)

\* An error takes a failed command, and so does a HEAD that was not put back.
Failing ==
  /\ step \in {"resolve", "check"} => ref = None
  /\ step \in {"checkout", "build", "restore", "plan", "bench"} => ref \in CommitSet \cup {Branch}
  /\ step \in {"resolve", "check", "checkout", "build", "plan", "bench"} => ~err
  /\ step = "build" => \A b \in Builds : builder[b] = "failed" => faults >= 1
  /\ step = "restore" => err /\ faults >= 1
  /\ step \in {"plan", "bench", "end"} /\ ref # None => head = ref \/ faults >= 1
  /\ step = "end" /\ err /\ ref # None => head = ref \/ faults >= 2
  /\ motesErr => step \in {"bench", "end"}
  /\ step = "bench" /\ ref # None /\ (motesErr \/ \E m \in Machines : mpc[m] = "failed") =>
       head = ref \/ faults >= 2

JobTypes ==
  /\ job \in [Jobs -> {"none", "queued", "reported"} \cup Busy]
  /\ mpc \in [Machines -> {"idle", "connect", "prepare", "run", "report", "done", "failed"}]
  /\ success \in [Jobs -> BOOLEAN] /\ out \in [Jobs -> Keys \cup {None}]
  /\ recorded = [n \in Jobs |-> IF job[n] = "reported" THEN 1 ELSE 0]
  /\ stats \subseteq Jobs /\ {statOK, once, motesErr, torn} \subseteq BOOLEAN

\* Jobs run only on a machine that is at work, and a machine is done when its jobs are.
Working ==
  /\ step # "bench" => \A n \in Jobs : job[n] \notin Busy
  /\ step = "bench" => \A n \in Jobs :
       /\ job[n] # "none"
       /\ mpc[Machine(n)] \in {"connect", "prepare", "failed"} => job[n] \in {"queued", "reported"}
       /\ mpc[Machine(n)] = "done" => job[n] = "reported"
       /\ statOK /\ job[n] = "reported" => n \in stats \/ mpc[Machine(n)] = "report"
  /\ step = "bench" => \A m \in Machines : mpc[m] \in {"connect", "prepare"} => Queue(m) # {}
  /\ step = "end" /\ ~err => (\A n \in Jobs : job[n] = "reported") /\ (statOK => stats = Jobs)

\* A benchmark runs after its test has passed.
Tested ==
  \A n \in Jobs : Phase(n) > 0 /\ job[n] \in {"running", "writing"} =>
    Closed(ParentOf(n)) /\ success[ParentOf(n)]

Label(n) == Output(n, BuildID[Binary(n)])

\* A file of the cache holds the output that its name says, whoever wrote it.
Cached ==
  /\ cache \in [Keys -> Files \cup {None}]
  /\ \A k \in Keys : cache[k] # None => cache[k].of = k
  /\ \A n \in Jobs : out[n] # None => out[n] = Label(n)
  /\ \A n \in Jobs : job[n] = "writing" => cache[Key(n)] # None
  /\ TornOnlyByFailure

\* An instance is on the list, or one machine's, or nobody's yet.
Motes ==
  /\ server \subseteq Instances /\ has \in [Machines -> Instances \cup {None}]
  /\ motes \subseteq server
  /\ ~once => motes = {} /\ \A m \in Machines : has[m] = None
  /\ \A m \in Machines : has[m] # None => has[m] \notin motes
  /\ OneMachinePerInstance

BuildInv == BuildTypes /\ Compiling /\ Failing
BenchInv == JobTypes /\ Working /\ Tested /\ Cached /\ Motes
Inv == BuildInv /\ BenchInv

-----------------------------------------------------------------------------
(* The order of the jobs: division and remainder.                           *)

LEMMA DivMod ==
  ASSUME NEW a \in Nat, NEW b \in Nat \ {0}
  PROVE  a \div b \in Nat /\ a % b \in 0 .. b - 1 /\ a = b * (a \div b) + (a % b)
OBVIOUS

\* Quotient and remainder are unique.
LEMMA Unique ==
  ASSUME NEW a \in Nat, NEW b \in Nat \ {0}, NEW q \in Nat, NEW r \in 0 .. b - 1, a = b * q + r
  PROVE  a \div b = q /\ a % b = r
<1>1. PICK p \in Nat, s \in 0 .. b - 1 : p = a \div b /\ s = a % b /\ a = b * p + s
  BY DivMod
<1>2. b * (p - q) = r - s /\ b * (q - p) = s - r
  BY <1>1
<1>3. ASSUME p - q >= 1 PROVE FALSE
  <2>1. b * (p - q) >= b
    BY <1>3
  <2> QED
    BY <1>2, <2>1
<1>4. ASSUME q - p >= 1 PROVE FALSE
  <2>1. b * (q - p) >= b
    BY <1>4
  <2> QED
    BY <1>2, <2>1
<1>5. p = q
  BY <1>3, <1>4
<1> QED
  BY <1>1, <1>5

LEMMA Quotient ==
  ASSUME NEW L \in Nat, NEW H \in Nat \ {0}, NEW q \in Nat, q < L * H
  PROVE  q \div H < L
<1> DEFINE d == q \div H
<1>1. d \in Nat /\ H * d <= q
  BY DivMod
<1>2. ASSUME d >= L PROVE FALSE
  <2>1. H * d >= H * L
    BY <1>1, <1>2
  <2> QED
    BY <1>1, <2>1
<1> QED
  BY <1>1, <1>2

LEMMA Remainder ==
  ASSUME NEW H \in Nat \ {0}, NEW q \in Nat, NEW m \in Nat
  PROVE  (H * m + q) % H = q % H
<1>1. PICK r \in 0 .. H - 1, j \in Nat : q = H * j + r /\ r = q % H
  BY DivMod
<1>2. PICK d \in Nat, c \in Nat : d = m + j /\ c = H * m + q
  OBVIOUS
<1>3. H * d = H * m + H * j
  BY <1>2
<1>4. PICK a \in Nat, b \in Nat, e \in Nat : a = H * m /\ b = H * d /\ e = H * j
  OBVIOUS
<1>5. b = a + e /\ c = a + q /\ q = e + r
  BY <1>1, <1>2, <1>3, <1>4
<1>6. c = b + r
  BY <1>5
<1>7. c % H = r
  BY <1>4, <1>6, Unique
<1> QED
  BY <1>1, <1>2, <1>7

\* A job's place in its phase, and its phase.
LEMMA Places ==
  ASSUME NEW n \in Jobs
  PROVE  /\ Len(Commits) \in Nat /\ Len(Hosts) \in Nat \ {0} /\ PerPhase \in Nat \ {0}
         /\ n \in Nat /\ n >= 1 /\ n - 1 \in Nat
         /\ (n - 1) % PerPhase \in 0 .. PerPhase - 1
         /\ (n - 1) \div PerPhase \in 0 .. Reps
<1>1. Len(Commits) \in Nat /\ Len(Hosts) \in Nat
  BY LabAssumption, HostAssumption
<1>2. PerPhase \in Nat
  BY <1>1 DEF PerPhase
<1>3. (1 + Reps) * PerPhase \in Nat /\ n \in Nat /\ n >= 1 /\ n - 1 < (1 + Reps) * PerPhase
  BY <1>2, HostAssumption DEF Jobs
<1>4. PerPhase # 0
  BY <1>2, <1>3, HostAssumption
<1>5. Len(Hosts) # 0
  BY <1>1, <1>4 DEF PerPhase
<1>6. n - 1 \in Nat /\ PerPhase \in Nat \ {0} /\ 1 + Reps \in Nat
  BY <1>2, <1>3, <1>4, HostAssumption
<1>7. (n - 1) \div PerPhase < 1 + Reps
  BY <1>3, <1>6, Quotient
<1>8. (n - 1) % PerPhase \in 0 .. PerPhase - 1 /\ (n - 1) \div PerPhase \in Nat
  BY <1>6, DivMod
<1> QED
  BY <1>1, <1>3, <1>5, <1>6, <1>7, <1>8, HostAssumption

\* The job n as numbers: c, h, p of its commit, host and phase.
LEMMA Numbers ==
  ASSUME NEW n \in Jobs
  PROVE  \E q \in 0 .. PerPhase - 1, c \in 1 .. Len(Commits), h \in 1 .. Len(Hosts), p \in 0 .. Reps :
           /\ CommitOf(n) = Commits[c] /\ HostOf(n) = Hosts[h] /\ Phase(n) = p /\ ParentOf(n) = q + 1
           /\ n - 1 = PerPhase * p + q /\ q = Len(Hosts) * (c - 1) + (h - 1)
<1>1. PICK x \in Nat, L \in Nat, H \in Nat \ {0}, P \in Nat \ {0} :
        x = n - 1 /\ L = Len(Commits) /\ H = Len(Hosts) /\ P = PerPhase
  BY Places
<1>2. P = L * H
  BY <1>1 DEF PerPhase
<1>3. PICK q \in 0 .. P - 1, p \in Nat : q = x % P /\ p = x \div P /\ x = P * p + q
  <2> HIDE <1>2
  <2> QED
    BY DivMod
<1>4. PICK d \in Nat, r \in 0 .. H - 1 : d = q \div H /\ r = q % H /\ q = H * d + r
  <2>1. q \in Nat
    BY <1>1, <1>3
  <2>2. q \div H \in Nat /\ q % H \in 0 .. H - 1 /\ q = H * (q \div H) + (q % H)
    BY <2>1, <1>1, DivMod
  <2> QED
    BY <2>2
<1>5. d < L
  <2>1. q < L * H
    BY <1>2, <1>3
  <2> QED
    BY <1>3, <1>4, <2>1, Quotient
<1>6. r = x % H
  <2>1. PICK m \in Nat : m = L * p
    BY <1>3
  <2>2. P * p = H * m
    BY <1>2, <2>1, <1>3
  <2>3. x = H * m + q
    BY <1>3, <2>2
  <2>4. q \in Nat /\ H \in Nat \ {0}
    BY <1>1, <1>3
  <2>5. (H * m + q) % H = q % H
    BY <2>1, <2>4, Remainder
  <2> QED
    BY <1>4, <2>3, <2>5
<1>7. p \in 0 .. Reps
  BY <1>1, <1>3, Places
<1>8. CommitOf(n) = Commits[d + 1] /\ HostOf(n) = Hosts[r + 1] /\ Phase(n) = p /\ ParentOf(n) = q + 1
  BY <1>1, <1>3, <1>4, <1>6 DEF CommitOf, HostOf, Phase, ParentOf
<1>9. PICK c \in 1 .. L, h \in 1 .. H : c = d + 1 /\ h = r + 1
  BY <1>4, <1>5
<1> QED
  <2> USE <1>1, <1>3, <1>7, <1>9
  <2> WITNESS q \in 0 .. PerPhase - 1, c \in 1 .. Len(Commits), h \in 1 .. Len(Hosts), p \in 0 .. Reps
  <2> QED
    BY <1>1, <1>3, <1>4, <1>7, <1>8, <1>9

\* Every job has a commit, a host, a machine, a binary and a test.
LEMMA JobFacts ==
  ASSUME NEW n \in Jobs
  PROVE  /\ Phase(n) \in 0 .. Reps /\ CommitOf(n) \in CommitSet /\ HostOf(n) \in HostSet
         /\ Machine(n) \in Machines /\ BuildOf[HostOf(n)] \in Builds
         /\ Binary(n) \in CommitSet \X Builds
         /\ ParentOf(n) \in Jobs /\ Phase(ParentOf(n)) = 0
<1>1. PICK q \in 0 .. PerPhase - 1, c \in 1 .. Len(Commits), h \in 1 .. Len(Hosts), p \in 0 .. Reps :
        CommitOf(n) = Commits[c] /\ HostOf(n) = Hosts[h] /\ Phase(n) = p /\ ParentOf(n) = q + 1
  BY Numbers
<1>2. CommitOf(n) \in CommitSet /\ HostOf(n) \in HostSet
  BY <1>1, LabAssumption, HostAssumption DEF CommitSet, HostSet
<1>3. Machine(n) \in Machines /\ BuildOf[HostOf(n)] \in Builds
  BY <1>2, HostAssumption DEF Machine
<1>4. PICK P \in Nat \ {0}, all \in Nat : P = PerPhase /\ all = (1 + Reps) * PerPhase /\ all >= P
  BY Places, HostAssumption
<1>5. ParentOf(n) \in Jobs
  BY <1>1, <1>4 DEF Jobs
<1>6. q \in Nat /\ q < P /\ q = P * 0 + q
  BY <1>1, <1>4
<1>7. q \div P = 0
  BY <1>6, Unique
<1> QED
  BY <1>1, <1>2, <1>3, <1>4, <1>5, <1>6, <1>7 DEF Phase, Binary

\* Commits and hosts that are named once have one test for each of the benchmarks.
LEMMA OneTest ==
  ASSUME \A j, k \in DOMAIN Commits : Commits[j] = Commits[k] => j = k,
         \A j, k \in DOMAIN Hosts : Hosts[j] = Hosts[k] => j = k,
         NEW n \in Jobs, NEW t \in Jobs, Phase(t) = 0, CommitOf(t) = CommitOf(n), HostOf(t) = HostOf(n)
  PROVE  t = ParentOf(n)
<1>1. PICK q \in 0 .. PerPhase - 1, c \in 1 .. Len(Commits), h \in 1 .. Len(Hosts) :
        /\ CommitOf(n) = Commits[c] /\ HostOf(n) = Hosts[h] /\ ParentOf(n) = q + 1
        /\ q = Len(Hosts) * (c - 1) + (h - 1)
  BY Numbers
<1>2. PICK s \in 0 .. PerPhase - 1, d \in 1 .. Len(Commits), g \in 1 .. Len(Hosts) :
        /\ CommitOf(t) = Commits[d] /\ HostOf(t) = Hosts[g] /\ t - 1 = PerPhase * Phase(t) + s
        /\ s = Len(Hosts) * (d - 1) + (g - 1)
  <2>1. PICK s \in 0 .. PerPhase - 1, d \in 1 .. Len(Commits), g \in 1 .. Len(Hosts), p \in 0 .. Reps :
          /\ CommitOf(t) = Commits[d] /\ HostOf(t) = Hosts[g] /\ Phase(t) = p /\ ParentOf(t) = s + 1
          /\ t - 1 = PerPhase * p + s /\ s = Len(Hosts) * (d - 1) + (g - 1)
    BY Numbers
  <2> QED
    BY <2>1
<1>3. c = d /\ h = g
  BY <1>1, <1>2, LabAssumption, HostAssumption
<1>4. t - 1 = s
  BY <1>2, Places
<1> QED
  BY <1>1, <1>2, <1>3, <1>4, Places

-----------------------------------------------------------------------------
USE DEF BuildInv, BenchInv, Inv

\* No process has run; the cache is empty.
LEMMA InitInv == Init => Inv
<1> SUFFICES ASSUME Init PROVE Inv
  OBVIOUS
<1>1. BuildTypes
  BY DEF Init, BuildInit, BuildTypes
<1>2. Compiling /\ Failing
  BY DEF Init, BuildInit, Compiling, Failing
<1>3. JobTypes /\ Working /\ Tested
  BY DEF Init, BuildInit, JobTypes, Working, Tested, Busy
<1>4. Cached
  BY DEF Init, Cached, TornOnlyByFailure
<1>5. Motes
  BY DEF Init, Motes, OneMachinePerInstance
<1> QED
  BY <1>1, <1>2, <1>3, <1>4, <1>5

\* What the steps of the build have in common for the benchmarks: none runs yet, or any more.
LEMMA BenchRests ==
  ASSUME Inv, UNCHANGED benchVars, step # "bench", step' # "bench", step' = "end" => err'
  PROVE  BenchInv'
<1>1. \A n \in Jobs : job[n] \notin Busy
  BY DEF Working
<1>2. JobTypes' /\ Working' /\ Motes'
  BY <1>1 DEF benchVars, JobTypes, Working, Motes, OneMachinePerInstance
<1>3. Tested'
  BY <1>1 DEF benchVars, Tested, Busy
<1>4. Cached'
  <2>1. \A k \in Keys : Writing(k) = {} /\ Writing(k)' = {}
    BY <1>1 DEF benchVars, Writing, Busy
  <2> QED
    BY <1>1, <2>1 DEF benchVars, Cached, Label, Output, TornOnlyByFailure, Busy
<1> QED
  BY <1>2, <1>3, <1>4

\* A command that works costs nothing, one that fails a fault.
LEMMA OutcomeFacts ==
  ASSUME BuildTypes, NEW ok \in BOOLEAN, Outcome(ok)
  PROVE  faults' \in Nat /\ faults' >= faults /\ (~ok => faults' >= 1 /\ (faults >= 1 => faults' >= 2))
BY DEF BuildTypes, Outcome

LEMMA CommitFacts ==
  /\ Len(Commits) \in Nat /\ \A j \in 1 .. Len(Commits) : Commits[j] \in CommitSet
  /\ \A c \in CommitSet : \E j \in 1 .. Len(Commits) : c = Commits[j]
<1>1. DOMAIN Commits = 1 .. Len(Commits) /\ Len(Commits) \in Nat
  BY LabAssumption
<1> QED
  BY <1>1 DEF CommitSet

Steps == {"idle", "resolve", "check", "checkout", "build", "restore", "plan", "bench", "end"}

\* An action of the build, one at a time.
LEMMA BuildStep == ASSUME Inv, BuildNext, UNCHANGED benchVars PROVE Inv'
<1>1. CASE Resolve
  <2>1. BuildTypes'
    <3>1. err' \in BOOLEAN /\ step' \in Steps
      BY <1>1 DEF Fail, Resolve, BuildTypes, Steps
    <3>2. faults' \in Nat
      BY <1>1, OutcomeFacts DEF Resolve, BuildTypes
    <3>3. ci' \in Nat /\ head' \in CommitSet \cup {Branch} /\ ref' \in CommitSet \cup {Branch, None}
      BY <1>1 DEF Fail, Resolve, BuildTypes
    <3>4. builder' \in [Builds -> {"idle", "compiling", "compiled", "ok", "failed"}]
      BY <1>1 DEF Fail, Resolve, BuildTypes
    <3> QED
      BY <1>1, <3>1, <3>2, <3>3, <3>4 DEF Resolve, BuildTypes, Steps
  <2>2. Compiling'
    BY <1>1, LabAssumption DEF Outcome, Fail, Resolve, BuildTypes, Compiling, Made, CommitSet
  <2>3. Failing'
    BY <1>1 DEF Outcome, Fail, Resolve, BuildTypes, Failing, benchVars
  <2>4. BenchInv'
    BY <1>1, BenchRests DEF Outcome, Fail, Resolve, Failing
  <2> QED
    BY <2>1, <2>2, <2>3, <2>4
<1>2. CASE CheckClean
  <2>1. BuildTypes'
    <3>1. err' \in BOOLEAN /\ step' \in Steps
      BY <1>2 DEF Fail, CheckClean, BuildTypes, Steps
    <3>2. faults' \in Nat
      BY <1>2, OutcomeFacts DEF CheckClean, BuildTypes
    <3>3. ci' \in Nat /\ head' \in CommitSet \cup {Branch} /\ ref' \in CommitSet \cup {Branch, None}
      BY <1>2 DEF Fail, CheckClean, BuildTypes
    <3>4. builder' \in [Builds -> {"idle", "compiling", "compiled", "ok", "failed"}]
      BY <1>2 DEF Fail, CheckClean, BuildTypes
    <3> QED
      BY <1>2, <3>1, <3>2, <3>3, <3>4 DEF CheckClean, BuildTypes, Steps
  <2>2. Compiling'
    BY <1>2, LabAssumption DEF Outcome, Fail, CheckClean, BuildTypes, Compiling, Made, CommitSet
  <2>3. Failing'
    BY <1>2 DEF Outcome, Fail, CheckClean, BuildTypes, Failing, benchVars
  <2>4. BenchInv'
    BY <1>2, BenchRests DEF Outcome, Fail, CheckClean, Failing
  <2> QED
    BY <2>1, <2>2, <2>3, <2>4
<1>3. CASE Checkout
  <2>1. BuildTypes'
    <3>1. err' \in BOOLEAN /\ step' \in Steps
      BY <1>3 DEF Fail, Checkout, BuildTypes, Steps
    <3>2. faults' \in Nat
      BY <1>3, OutcomeFacts DEF Checkout, BuildTypes
    <3>3. ci' \in Nat /\ head' \in CommitSet \cup {Branch} /\ ref' \in CommitSet \cup {Branch, None}
      BY <1>3, LabAssumption DEF Fail, Checkout, BuildTypes, CommitSet, Compiling
    <3>4. builder' \in [Builds -> {"idle", "compiling", "compiled", "ok", "failed"}]
      BY <1>3 DEF Fail, Checkout, BuildTypes
    <3> QED
      BY <1>3, <3>1, <3>2, <3>3, <3>4 DEF Checkout, BuildTypes, Steps
  <2>2. Compiling'
    <3>1. UNCHANGED <<ci, exe, built>>
      BY <1>3 DEF Checkout
    <3>2. CASE step' = "build"
      <4>1. head' = Commits[ci] /\ builder' = [b \in Builds |-> "compiling"] /\ ci <= Len(Commits)
        BY <1>3, <3>2 DEF Checkout, Fail
      <4> QED
        BY <1>3, <3>1, <3>2, <4>1 DEF Checkout, BuildTypes, Compiling, Made
    <3>3. CASE step' = "restore" /\ UNCHANGED builder
      BY <1>3, <3>1, <3>3 DEF Checkout, Compiling
    <3> QED
      BY <1>3, <3>2, <3>3 DEF Checkout, Fail
  <2>3. Failing'
    BY <1>3 DEF Outcome, Fail, Checkout, BuildTypes, Failing, benchVars
  <2>4. BenchInv'
    BY <1>3, BenchRests DEF Outcome, Fail, Checkout, Failing
  <2> QED
    BY <2>1, <2>2, <2>3, <2>4
<1>4. CASE NextCommit
  <2>1. BuildTypes'
    <3>1. err' \in BOOLEAN /\ step' \in Steps
      BY <1>4 DEF Fail, NextCommit, ParDone, Returned, BuildTypes, Steps
    <3>2. faults' \in Nat
      BY <1>4, OutcomeFacts DEF NextCommit, BuildTypes
    <3>3. ci' \in Nat /\ head' \in CommitSet \cup {Branch} /\ ref' \in CommitSet \cup {Branch, None}
      BY <1>4 DEF Fail, NextCommit, ParDone, Returned, BuildTypes
    <3>4. builder' \in [Builds -> {"idle", "compiling", "compiled", "ok", "failed"}]
      BY <1>4 DEF Fail, NextCommit, ParDone, Returned, BuildTypes
    <3> QED
      BY <1>4, <3>1, <3>2, <3>3, <3>4 DEF NextCommit, BuildTypes, Steps
  <2>2. Compiling'
    <3>1. UNCHANGED <<head, builder, exe, built>> /\ \A b \in Builds : builder[b] \in {"ok", "failed"}
      BY <1>4 DEF NextCommit, ParDone, Returned
    <3>2. CASE step' = "restore"
      BY <3>1, <3>2 DEF Compiling
    <3>3. CASE step' = "checkout" /\ ci' = ci + 1 /\ \A b \in Builds : builder[b] # "failed"
      <4>1. step = "build" /\ \A b \in Builds : builder[b] = "ok"
        BY <1>4, <3>1, <3>3 DEF NextCommit
      <4>2. ci \in 1 .. Len(Commits)
        BY <4>1, CommitFacts DEF Compiling
      <4>3. \A j \in 1 .. ci : \A b \in Builds : Made(Commits[j], b)
        <5>1. \A j \in 1 .. ci : j = ci \/ j \in 1 .. ci - 1
          BY <4>2
        <5> QED
          BY <4>1, <5>1 DEF Compiling
      <4>4. \A j \in 1 .. ci : \A b \in Builds : Made(Commits[j], b)'
        BY <3>1, <4>3 DEF Made
      <4>5. ci' \in 1 .. Len(Commits) + 1 /\ ci' - 1 = ci
        BY <3>3, <4>2, CommitFacts
      <4> QED
        BY <3>1, <3>3, <4>1, <4>4, <4>5 DEF Compiling
    <3> QED
      BY <1>4, <3>2, <3>3 DEF NextCommit, Fail
  <2>3. Failing'
    BY <1>4 DEF Outcome, Fail, NextCommit, ParDone, Returned, BuildTypes, Failing, benchVars
  <2>4. BenchInv'
    BY <1>4, BenchRests DEF Outcome, Fail, NextCommit, ParDone, Returned, Failing
  <2> QED
    BY <2>1, <2>2, <2>3, <2>4
<1>5. CASE Restore
  <2>1. BuildTypes'
    <3>1. err' \in BOOLEAN /\ step' \in Steps
      BY <1>5 DEF Fail, Restore, Restored, BuildTypes, Steps
    <3>2. faults' \in Nat
      BY <1>5, OutcomeFacts DEF Restore, BuildTypes
    <3>3. ci' \in Nat /\ head' \in CommitSet \cup {Branch} /\ ref' \in CommitSet \cup {Branch, None}
      BY <1>5 DEF Fail, Restore, Restored, BuildTypes, Failing
    <3>4. builder' \in [Builds -> {"idle", "compiling", "compiled", "ok", "failed"}]
      BY <1>5 DEF Fail, Restore, Restored, BuildTypes
    <3> QED
      BY <1>5, <3>1, <3>2, <3>3, <3>4 DEF Restore, BuildTypes, Steps
  <2>2. Compiling'
    <3>1. UNCHANGED <<builder, exe, built, ci>> /\ step # "build"
      BY <1>5 DEF Restore
    <3>2. CASE step' = "plan"
      <4>1. step = "checkout" /\ ci = Len(Commits) + 1
        BY <1>5, <3>2, CommitFacts DEF Restore, Failing, Compiling
      <4>2. \A c \in CommitSet : \A b \in Builds : Made(c, b)
        BY <4>1, CommitFacts DEF Compiling
      <4> QED
        BY <3>1, <3>2, <4>2 DEF Compiling, Made
    <3>3. CASE step' = "end"
      BY <3>1, <3>3 DEF Compiling
    <3> QED
      BY <1>5, <3>2, <3>3 DEF Restore
  <2>3. Failing'
    BY <1>5 DEF Outcome, Fail, Restore, Restored, BuildTypes, Failing, benchVars
  <2>4. BenchInv'
    BY <1>5, BenchRests DEF Outcome, Fail, Restore, Restored, Failing
  <2> QED
    BY <2>1, <2>2, <2>3, <2>4
<1>6. ASSUME NEW b \in Builds, Compile(b) PROVE Inv'
  <2>1. step = "build" /\ UNCHANGED step
    BY <1>6 DEF Compile, Compiling
  <2>2. BuildTypes'
    <3>1. exe' \in [CommitSet \X Builds -> CommitSet \cup {Branch, None}] /\ built' = built
      BY <1>6 DEF Compile, BuildTypes
    <3>2. builder' \in [Builds -> {"idle", "compiling", "compiled", "ok", "failed"}]
      BY <1>6 DEF Compile, BuildTypes
    <3>3. faults' \in Nat /\ UNCHANGED <<step, err, head, ref, ci>>
      BY <1>6, OutcomeFacts DEF Compile
    <3> QED
      BY <3>1, <3>2, <3>3 DEF BuildTypes
  <2>3. Compiling'
    <3>1. exe' = exe \/ exe' = [exe EXCEPT ![<<Commits[ci], b>>] = Commits[ci]]
      BY <1>6, <2>1 DEF Compile, Compiling
    <3>2. builder'[b] = "compiled" => exe' = [exe EXCEPT ![<<Commits[ci], b>>] = Commits[ci]]
      BY <1>6, <2>1 DEF Compile, Compiling, BuildTypes
    <3>3. builder'[b] \in {"compiled", "failed"} /\ \A c \in Builds \ {b} : builder'[c] = builder[c]
      BY <1>6 DEF Compile, BuildTypes
    <3>4. ci \in 1 .. Len(Commits) /\ UNCHANGED <<ci, head, built>> /\ Commits[ci] \in CommitSet
      BY <1>6, <2>1, CommitFacts DEF Compile, Compiling
    <3>5. \A c \in CommitSet : \A d \in Builds : Made(c, d) => Made(c, d)'
      BY <3>1, <3>4 DEF Made, BuildTypes
    <3> QED
      <4>1. \A c \in Builds : <<Commits[ci], c>> \in CommitSet \X Builds
        BY <3>4
      <4>2. \A c \in Builds : builder'[c] \in {"compiled", "ok"} => exe'[<<Commits[ci], c>>] = Commits[ci]
        BY <2>1, <3>1, <3>2, <3>3, <3>4, <4>1 DEF Compiling, BuildTypes
      <4>3. \A c \in Builds : builder'[c] = "ok" => Made(Commits[ci], c)'
        BY <2>1, <3>1, <3>2, <3>3, <3>4, <3>5, <4>1 DEF Compiling, BuildTypes, Made
      <4>4. \A j \in 1 .. ci - 1 : \A c \in Builds : Made(Commits[j], c)'
        <5>1. \A j \in 1 .. ci - 1 : Commits[j] \in CommitSet
          BY <3>4, CommitFacts
        <5> QED
          BY <2>1, <3>5, <5>1 DEF Compiling
      <4> QED
        BY <2>1, <3>4, <4>2, <4>3, <4>4 DEF Compiling
  <2>4. Failing'
    BY <1>6, <2>1 DEF Outcome, Compile, BuildTypes, Failing, benchVars
  <2>5. BenchInv'
    BY <2>1, BenchRests
  <2> QED
    BY <2>2, <2>3, <2>4, <2>5
<1>7. ASSUME NEW b \in Builds, FetchID(b) PROVE Inv'
  <2>1. step = "build" /\ UNCHANGED step
    BY <1>7 DEF FetchID, Compiling
  <2>2. BuildTypes'
    <3>1. built' \in [CommitSet \X Builds -> Ids \cup {None}] /\ exe' = exe
      <4>1. Commits[ci] \in CommitSet
        BY <2>1, CommitFacts DEF Compiling
      <4>2. exe[<<Commits[ci], b>>] = Commits[ci]
        BY <1>7, <2>1 DEF FetchID, Compiling
      <4>3. BuildID[<<Commits[ci], b>>] \in Ids
        BY <4>1, LabAssumption DEF Ids
      <4>4. built' = built \/ built' = [built EXCEPT ![<<Commits[ci], b>>] = BuildID[<<Commits[ci], b>>]]
        BY <1>7, <4>2 DEF FetchID
      <4> QED
        BY <1>7, <4>3, <4>4 DEF FetchID, BuildTypes
    <3>2. builder' \in [Builds -> {"idle", "compiling", "compiled", "ok", "failed"}]
      BY <1>7 DEF FetchID, BuildTypes
    <3>3. faults' \in Nat /\ UNCHANGED <<step, err, head, ref, ci>>
      BY <1>7, OutcomeFacts DEF FetchID
    <3> QED
      BY <3>1, <3>2, <3>3 DEF BuildTypes
  <2>3. Compiling'
    <3>1. \/ built' = built /\ builder'[b] = "failed"
          \/ /\ built' = [built EXCEPT ![<<Commits[ci], b>>] = BuildID[<<Commits[ci], b>>]]
             /\ builder'[b] = "ok" /\ exe[<<Commits[ci], b>>] = Commits[ci]
      BY <1>7, <2>1 DEF FetchID, Compiling, BuildTypes
    <3>3. \A c \in Builds \ {b} : builder'[c] = builder[c]
      BY <1>7 DEF FetchID, BuildTypes
    <3>4. ci \in 1 .. Len(Commits) /\ UNCHANGED <<ci, head, exe>> /\ Commits[ci] \in CommitSet
      BY <1>7, <2>1, CommitFacts DEF FetchID, Compiling
    <3>5. \A c \in CommitSet : \A d \in Builds : Made(c, d) => Made(c, d)'
      BY <3>1, <3>4 DEF Made, BuildTypes
    <3> QED
      <4>1. \A c \in Builds : <<Commits[ci], c>> \in CommitSet \X Builds
        BY <3>4
      <4>2. \A c \in Builds : builder'[c] \in {"compiled", "ok"} => exe'[<<Commits[ci], c>>] = Commits[ci]
        BY <2>1, <3>1, <3>3, <3>4, <4>1 DEF Compiling, BuildTypes
      <4>3. \A c \in Builds : builder'[c] = "ok" => Made(Commits[ci], c)'
        BY <2>1, <3>1, <3>3, <3>4, <3>5, <4>1 DEF Compiling, BuildTypes, Made
      <4>4. \A j \in 1 .. ci - 1 : \A c \in Builds : Made(Commits[j], c)'
        <5>1. \A j \in 1 .. ci - 1 : Commits[j] \in CommitSet
          BY <3>4, CommitFacts
        <5> QED
          BY <2>1, <3>5, <5>1 DEF Compiling
      <4> QED
        BY <2>1, <3>4, <4>2, <4>3, <4>4 DEF Compiling
  <2>4. Failing'
    BY <1>7, <2>1 DEF Outcome, FetchID, BuildTypes, Failing, benchVars
  <2>5. BenchInv'
    BY <2>1, BenchRests
  <2> QED
    BY <2>2, <2>3, <2>4, <2>5
<1> QED
  BY <1>1, <1>2, <1>3, <1>4, <1>5, <1>6, <1>7 DEF BuildNext

\* A process starts, or dies: the tables of the process are empty then.
LEMMA FreshStep == ASSUME Inv, LabStart \/ Crash PROVE Inv'
<1>1. CASE LabStart
  <2>1. BuildTypes' /\ Compiling' /\ Failing'
    BY <1>1 DEF LabStart, Start, Fresh, BuildTypes, Compiling, Failing
  <2>2. JobTypes' /\ Working' /\ Tested'
    BY <1>1 DEF LabStart, Start, Fresh, JobTypes, Working, Tested, Busy
  <2>3. Motes'
    BY <1>1 DEF LabStart, Fresh, Motes, OneMachinePerInstance
  <2>4. Cached'
    <3>1. \A k \in Keys : Writing(k) = {}
      BY <1>1 DEF LabStart, Start, Working, Writing, Busy
    <3> QED
      BY <1>1, <3>1 DEF LabStart, Fresh, Cached, TornOnlyByFailure
  <2> QED
    BY <2>1, <2>2, <2>3, <2>4
<1>2. CASE Crash
  <2>1. BuildTypes' /\ Compiling' /\ Failing'
    <3>1. BuildTypes' /\ Compiling'
      BY <1>2 DEF Crash, BuildTypes, Compiling
    <3>2. Failing'
      BY <1>2 DEF Crash, Fresh, Failing
    <3> QED
      BY <3>1, <3>2
  <2>2. JobTypes' /\ Working' /\ Tested'
    BY <1>2 DEF Crash, Fresh, JobTypes, Working, Tested, Busy
  <2>3. Motes'
    BY <1>2 DEF Crash, Fresh, Motes, OneMachinePerInstance
  <2>4. Cached'
    <3>1. \A k \in Keys : cache'[k] = cache[k] \/ cache'[k] = None
      BY <1>2 DEF Crash
    <3>2. cache' \in [Keys -> Files \cup {None}]
      BY <1>2 DEF Crash, Cached
    <3>3. TornOnlyByFailure'
      <4>1. ASSUME NEW k \in Keys, Writing(k) # {} PROVE torn'
        BY <1>2, <4>1 DEF Crash, Writing
      <4>2. torn => torn'
        BY <1>2 DEF Crash
      <4> QED
        BY <3>1, <4>1, <4>2 DEF Cached, TornOnlyByFailure
    <3> QED
      BY <1>2, <3>1, <3>2, <3>3 DEF Crash, Fresh, Cached
  <2> QED
    BY <2>1, <2>2, <2>3, <2>4
<1> QED
  BY <1>1, <1>2

\* The name of a job's file says what the job is a result of.
LEMMA KeyFacts ==
  ASSUME Inv, step \in {"plan", "bench"}, NEW n \in Jobs
  PROVE  /\ Key(n) = Label(n) /\ Key(n) \in Keys
         /\ Output(n, BuildID[<<exe[Binary(n)], Binary(n)[2]>>]) = Key(n)
<1>1. Made(CommitOf(n), BuildOf[HostOf(n)])
  BY JobFacts DEF Compiling
<1>2. built[Binary(n)] = BuildID[Binary(n)] /\ exe[Binary(n)] = CommitOf(n)
  BY <1>1 DEF Made, Binary
<1>3. BuildID[Binary(n)] \in Ids
  BY JobFacts, LabAssumption DEF Ids
<1>4. <<exe[Binary(n)], Binary(n)[2]>> = Binary(n)
  BY <1>2 DEF Binary
<1> QED
  BY <1>2, <1>3, <1>4, JobFacts DEF Key, Label, Output, Keys

\* runAll plans the jobs, or cannot.
LEMMA PlanStep == ASSUME Inv, Plan PROVE Inv'
<1>1. step = "plan" /\ step' = "bench" /\ UNCHANGED <<err, head, ref, ci, builder, exe, built>>
  BY DEF Plan
<1>2. faults' \in Nat /\ faults' >= faults
  BY OutcomeFacts DEF Plan
<1>3. \A m \in Machines : mpc'[m] = FirstStep(m) /\ mpc'[m] \in {"done", "connect", "prepare"}
  BY DEF Plan, FirstStep
<1>4. \A n \in Jobs : job'[n] = IF Hit(n) THEN "reported" ELSE "queued"
  BY DEF Plan
<1>5. BuildInv'
  <2>1. BuildTypes'
    BY <1>1, <1>2 DEF BuildTypes
  <2>2. Compiling'
    BY <1>1 DEF Compiling, Made
  <2>3. Failing'
    BY <1>1, <1>2, <1>3 DEF Failing, BuildTypes, Plan
  <2> QED
    BY <2>1, <2>2, <2>3
<1>6. \A n \in Jobs : out'[n] = IF Hit(n) THEN Label(n) ELSE None
  <2>1. \A n \in Jobs : Hit(n) => cache[Key(n)].of = Label(n)
    BY <1>1, KeyFacts DEF Hit, Cached
  <2> QED
    BY <2>1 DEF Plan
<1>7. JobTypes'
  <2>1. stats' \subseteq Jobs /\ statOK' \in BOOLEAN
    BY DEF Plan, JobTypes
  <2>2. recorded' = [n \in Jobs |-> IF job'[n] = "reported" THEN 1 ELSE 0]
    BY <1>4 DEF Plan
  <2>3. out' \in [Jobs -> Keys \cup {None}]
    BY <1>1, <1>6, KeyFacts DEF Plan
  <2>4. job' \in [Jobs -> {"none", "queued", "reported"} \cup Busy] /\ success' \in [Jobs -> BOOLEAN]
    BY DEF Plan, Hit
  <2>5. mpc' \in [Machines -> {"idle", "connect", "prepare", "run", "report", "done", "failed"}]
    BY <1>3 DEF Plan
  <2> QED
    BY <2>1, <2>2, <2>3, <2>4, <2>5 DEF JobTypes, Plan
<1>8. Working'
  <2>1. \A n \in Jobs : mpc'[Machine(n)] = "done" => Hit(n)
    BY <1>3, JobFacts DEF FirstStep
  <2>2. \A m \in Machines : mpc'[m] # "done" => \E n \in Jobs : Machine(n) = m /\ job'[n] = "queued"
    BY <1>3, <1>4 DEF FirstStep
  <2>3. \A n \in Jobs : statOK' /\ job'[n] = "reported" => n \in stats'
    BY <1>4 DEF Plan
  <2> QED
    BY <1>1, <1>3, <1>4, <2>1, <2>2, <2>3, JobFacts DEF Working, Busy, Queue
<1>9. Tested'
  BY <1>4 DEF Tested
<1>10. Cached'
  <2>1. \A k \in Keys : Writing(k) = {}
    BY <1>1 DEF Working, Writing, Busy
  <2>2. UNCHANGED <<cache, torn>>
    BY DEF Plan
  <2>3. \A n \in Jobs : job'[n] # "writing"
    BY <1>4
  <2> QED
    BY <1>6, <2>1, <2>2, <2>3 DEF Cached, TornOnlyByFailure, Label, Output
<1>11. Motes'
  BY DEF Plan, Motes, OneMachinePerInstance
<1> QED
  BY <1>5, <1>7, <1>8, <1>9, <1>10, <1>11

\* The jobs and the cache stay as they are when the run ends.
LEMMA EndStep == ASSUME Inv, PlanFails \/ Finish PROVE Inv'
<1>1. step \in {"plan", "bench"} /\ step' = "end" /\ UNCHANGED <<head, ref, ci, builder, exe, built, benchVars>>
  BY DEF PlanFails, Finish, Fail
<1>2. BuildInv'
  <2>1. CASE PlanFails
    BY <1>1, <2>1, OutcomeFacts DEF PlanFails, Fail, BuildTypes, Compiling, Failing, benchVars
  <2>2. CASE Finish
    BY <1>1, <2>2 DEF Finish, BuildTypes, Compiling, Failing, benchVars
  <2> QED
    BY <2>1, <2>2
<1>3. \A n \in Jobs : job[n] \notin Busy
  <2>1. CASE PlanFails
    BY <2>1 DEF PlanFails, Working
  <2>2. CASE Finish
    BY <2>2, JobFacts DEF Finish, Working, Busy
  <2> QED
    BY <2>1, <2>2
<1>4. JobTypes' /\ Motes'
  BY <1>1 DEF benchVars, JobTypes, Motes, OneMachinePerInstance
<1>5. Working'
  <2>1. CASE PlanFails
    BY <1>1, <1>3, <2>1 DEF PlanFails, Fail, Working, benchVars
  <2>2. CASE Finish /\ ~err'
    <3>1. \A m \in Machines : mpc[m] = "done"
      BY <2>2 DEF Finish
    <3>2. \A n \in Jobs : job[n] = "reported" /\ (statOK => n \in stats)
      BY <2>2, <3>1, JobFacts DEF Finish, Working
    <3> QED
      BY <1>1, <1>3, <3>2 DEF Working, JobTypes, benchVars
  <2>3. CASE Finish /\ err'
    BY <1>1, <1>3, <2>3 DEF Working, benchVars
  <2> QED
    BY <2>1, <2>2, <2>3
<1>6. Tested' /\ Cached'
  <2>1. \A k \in Keys : Writing(k)' = Writing(k)
    BY <1>1 DEF benchVars, Writing, Key
  <2> QED
    BY <1>1, <1>3, <2>1 DEF benchVars, Tested, Cached, TornOnlyByFailure, Label, Output, Closed, Busy
<1> QED
  BY <1>2, <1>4, <1>5, <1>6

-----------------------------------------------------------------------------
(* The machines and their jobs.                                             *)

\* The build is over; an error costs a fault.
LEMMA BenchFrame ==
  ASSUME Inv, step = "bench", UNCHANGED buildVars, faults' \in {faults, faults + 1},
         motesErr' \/ (\E m \in Machines : mpc'[m] = "failed") =>
           motesErr \/ (\E m \in Machines : mpc[m] = "failed") \/ faults' = faults + 1
  PROVE  BuildInv'
<1>1. BuildTypes'
  BY DEF buildVars, BuildTypes
<1>2. Compiling'
  BY DEF buildVars, Compiling, Made
<1>3. Failing'
  BY DEF buildVars, Failing, BuildTypes
<1> QED
  BY <1>1, <1>2, <1>3

\* Nobody begins to write, or ends.
LEMMA CacheRests ==
  ASSUME Inv, UNCHANGED <<cache, torn, out, built>>,
         \A n \in Jobs : job'[n] = "writing" <=> job[n] = "writing"
  PROVE  Cached'
<1>1. \A k \in Keys : Writing(k)' = Writing(k)
  BY DEF Writing, Key
<1> QED
  BY <1>1 DEF Cached, TornOnlyByFailure, Label, Output, Key

\* Nobody begins a benchmark, and what has ended, has ended.
LEMMA TestsRest ==
  ASSUME Inv, UNCHANGED success,
         \A n \in Jobs : (job'[n] \in {"running", "writing"} => job[n] \in {"running", "writing"})
                       /\ (Closed(n) => Closed(n)')
  PROVE  Tested'
BY JobFacts DEF Tested

\* A machine connects and is prepared before its jobs are started.
LEMMA ConnectStep ==
  ASSUME Inv, NEW m \in Machines,
         ListMotes(m) \/ CreateMote(m) \/ Prepare(m) \/ \E i \in Instances : TakeMote(m, i)
  PROVE  Inv'
<1>1. /\ step = "bench" /\ mpc[m] \in {"connect", "prepare"}
      /\ UNCHANGED <<buildVars, job, success, out, recorded, cache, torn, stats, statOK>>
      /\ mpc' = [mpc EXCEPT ![m] = mpc'[m]] /\ mpc'[m] \in {"connect", "prepare", "run", "failed"}
  BY DEF ListMotes, CreateMote, Prepare, TakeMote, At, JobTypes
<1>2. BuildInv'
  <2>1. faults' \in {faults, faults + 1}
    BY DEF ListMotes, CreateMote, Prepare, TakeMote, Outcome
  <2>2. motesErr' => motesErr \/ faults' = faults + 1
    BY DEF ListMotes, CreateMote, Prepare, TakeMote, Outcome
  <2>3. mpc'[m] = "failed" => motesErr \/ faults' = faults + 1
    BY <1>1 DEF ListMotes, CreateMote, Prepare, TakeMote, Outcome, At, JobTypes
  <2> QED
    BY <1>1, <2>1, <2>2, <2>3, BenchFrame DEF JobTypes
<1>3. JobTypes'
  <2>1. once' \in BOOLEAN /\ motesErr' \in BOOLEAN
    BY DEF ListMotes, CreateMote, Prepare, TakeMote, JobTypes
  <2> QED
    BY <1>1, <2>1 DEF JobTypes
<1>4. Working'
  BY <1>1, JobFacts DEF Working, JobTypes, Queue, buildVars, Busy
<1>5. Tested' /\ Cached'
  BY <1>1, TestsRest, CacheRests DEF Closed, buildVars
<1>6. Motes'
  <2>1. CASE ListMotes(m)
    BY <2>1 DEF ListMotes, Motes, OneMachinePerInstance
  <2>2. CASE CreateMote(m)
    <3>1. CASE UNCHANGED <<has, server, motes, once>>
      BY <3>1 DEF Motes, OneMachinePerInstance
    <3>2. ASSUME NEW g \in Instances \ server, has' = [has EXCEPT ![m] = g], server' = server \cup {g}
          PROVE  Motes'
      <4>1. once /\ motes = {} /\ UNCHANGED <<once, motes>>
        BY <2>2 DEF CreateMote
      <4> QED
        BY <3>2, <4>1 DEF Motes, OneMachinePerInstance
    <3> QED
      BY <2>2, <3>1, <3>2 DEF CreateMote
  <2>3. CASE Prepare(m)
    BY <2>3 DEF Prepare, Motes, OneMachinePerInstance
  <2>4. ASSUME NEW g \in Instances, TakeMote(m, g) PROVE Motes'
    BY <2>4 DEF TakeMote, Motes, OneMachinePerInstance
  <2> QED
    BY <2>1, <2>2, <2>3, <2>4
<1> QED
  BY <1>2, <1>3, <1>4, <1>5, <1>6

\* What starts a job, collects it or reports leaves the build, the cache and the gomotes alone.
LEMMA LoopFrame ==
  ASSUME Inv, step = "bench", UNCHANGED <<buildVars, success, out, cache, torn, once, motes, motesErr, server, has>>,
         faults' \in {faults, faults + 1},
         \A m \in Machines : mpc'[m] = "failed" => mpc[m] = "failed",
         \A n \in Jobs : \/ job'[n] = job[n]
                         \/ job[n] = "queued" /\ job'[n] = "started"
                         \/ job[n] = "finished" /\ job'[n] = "reported"
  PROVE  BuildInv' /\ Tested' /\ Cached' /\ Motes'
<1>1. BuildInv'
  BY BenchFrame
<1>2. Tested' /\ Cached'
  BY TestsRest, CacheRests DEF Closed, buildVars
<1>3. Motes'
  BY DEF Motes, OneMachinePerInstance
<1> QED
  BY <1>1, <1>2, <1>3

\* The machine's loop starts jobs, collects and reports them, and ends.
LEMMA LoopStep ==
  ASSUME Inv, NEW m \in Machines, Launch(m) \/ Collect(m) \/ Report(m) \/ MachineDone(m)
  PROVE  Inv'
<1>1. CASE Launch(m)
  <2>1. PICK n \in Queue(m) : job[n] = "queued" /\ job' = [job EXCEPT ![n] = "started"]
    BY <1>1 DEF Launch, Advance
  <2>2. n \in Jobs /\ Machine(n) = m
    BY DEF Queue
  <2>3. step = "bench" /\ mpc[m] = "run" /\ mpc' = mpc
    BY <1>1 DEF Launch, At, JobTypes
  <2>4. BuildInv' /\ Tested' /\ Cached' /\ Motes'
    BY <1>1, <2>1, <2>2, <2>3, LoopFrame DEF Launch, JobTypes
  <2>5. JobTypes'
    BY <1>1, <2>1, <2>2, <2>3 DEF Launch, JobTypes, Busy
  <2>6. Working'
    BY <1>1, <2>1, <2>2, <2>3, JobFacts DEF Launch, Working, JobTypes, Queue, Busy, buildVars
  <2> QED
    BY <2>4, <2>5, <2>6
<1>2. CASE Collect(m)
  <2>1. PICK n \in Active(m) : /\ job[n] = "finished" /\ job' = [job EXCEPT ![n] = "reported"]
                              /\ recorded' = [recorded EXCEPT ![n] = @ + 1]
    BY <1>2 DEF Collect, Advance
  <2>2. n \in Jobs /\ Machine(n) = m
    BY DEF Active
  <2>3. step = "bench" /\ mpc[m] = "run" /\ mpc' = [mpc EXCEPT ![m] = "report"]
    BY <1>2 DEF Collect, At
  <2>4. BuildInv' /\ Tested' /\ Cached' /\ Motes'
    BY <1>2, <2>1, <2>2, <2>3, LoopFrame DEF Collect, JobTypes
  <2>5. JobTypes'
    BY <1>2, <2>1, <2>2, <2>3 DEF Collect, JobTypes, Busy
  <2>6. Working'
    BY <1>2, <2>1, <2>2, <2>3, JobFacts DEF Collect, Working, JobTypes, Queue, Busy, buildVars
  <2> QED
    BY <2>4, <2>5, <2>6
<1>3. CASE Report(m)
  <2>1. step = "bench" /\ mpc[m] = "report" /\ mpc' = [mpc EXCEPT ![m] = "run"] /\ UNCHANGED job
    BY <1>3 DEF Report, At
  <2>2. faults' \in {faults, faults + 1}
    BY <1>3 DEF Report, Outcome
  <2>3. BuildInv' /\ Tested' /\ Cached' /\ Motes'
    BY <1>3, <2>1, <2>2, LoopFrame DEF Report, JobTypes
  <2>4. JobTypes'
    BY <1>3, <2>1 DEF Report, Digest, JobTypes
  <2>5. statOK' => stats' = {n \in Jobs : job[n] = "reported"}
    BY <1>3 DEF Report, Digest, JobTypes
  <2>6. Working'
    BY <1>3, <2>1, <2>5, JobFacts DEF Report, Working, JobTypes, Queue, Busy, buildVars
  <2> QED
    BY <2>3, <2>4, <2>6
<1>4. CASE MachineDone(m)
  <2>1. step = "bench" /\ mpc[m] = "run" /\ mpc' = [mpc EXCEPT ![m] = "done"] /\ UNCHANGED job
    BY <1>4 DEF MachineDone, At
  <2>2. BuildInv' /\ Tested' /\ Cached' /\ Motes'
    BY <1>4, <2>1, LoopFrame DEF MachineDone, JobTypes
  <2>3. JobTypes'
    BY <1>4, <2>1 DEF MachineDone, JobTypes
  <2>4. \A n \in Jobs : Machine(n) = m => job[n] = "reported"
    BY <1>4, <2>1 DEF MachineDone, Queue, Active, Working, JobTypes, Busy
  <2>5. Working'
    BY <1>4, <2>1, <2>4, JobFacts DEF MachineDone, Working, JobTypes, Queue, Busy, buildVars
  <2> QED
    BY <2>2, <2>3, <2>5
<1> QED
  BY <1>1, <1>2, <1>3, <1>4

\* A job waits for its test, runs, and writes its file.
LEMMA JobStep ==
  ASSUME Inv, NEW n \in Jobs, Await(n) \/ Ran(n) \/ Wrote(n)
  PROVE  Inv'
<1>1. /\ step = "bench" /\ UNCHANGED <<buildVars, recorded, mpc, once, motes, motesErr, server, has, stats, statOK>>
      /\ job[n] \in {"started", "running", "writing"} /\ faults' \in {faults, faults + 1}
      /\ job' = [job EXCEPT ![n] = job'[n]] /\ job'[n] \in {"running", "writing", "finished"}
  BY DEF Await, Ran, Wrote, Advance, Working, Busy, Outcome, JobTypes
<1>2. BuildInv' /\ Motes'
  BY <1>1, BenchFrame DEF Motes, OneMachinePerInstance
<1>3. Working'
  BY <1>1, JobFacts DEF Working, JobTypes, Queue, Busy, buildVars
<1>4. CASE Await(n)
  <2>1. JobTypes' /\ Cached'
    BY <1>1, <1>4, CacheRests DEF Await, Advance, JobTypes, Busy, buildVars
  <2>2. Tested'
    BY <1>1, <1>4, JobFacts DEF Await, Advance, Tested, Closed, JobTypes
  <2> QED
    BY <1>2, <1>3, <2>1, <2>2
<1>5. CASE Ran(n)
  <2>1. PICK ok \in BOOLEAN :
          /\ job[n] = "running" /\ job' = [job EXCEPT ![n] = IF ok THEN "writing" ELSE "finished"]
          /\ success' = [success EXCEPT ![n] = ok]
          /\ out' = IF ok THEN [out EXCEPT ![n] = Key(n)] ELSE out
          /\ cache' = IF ok THEN [cache EXCEPT ![Key(n)] = File(n, IF Writing(Key(n)) = {} THEN "part" ELSE "mixed")]
                     ELSE cache
    BY <1>1, <1>5, KeyFacts DEF Ran, Advance
  <2>2. Key(n) \in Keys /\ Key(n) = Label(n) /\ UNCHANGED torn
    BY <1>1, <1>5, KeyFacts DEF Ran
  <2>3. JobTypes'
    BY <1>1, <2>1, <2>2 DEF JobTypes, Busy
  <2>4. Tested'
    BY <1>1, <2>1, JobFacts DEF Tested, Closed, JobTypes
  <2>5. Cached'
    <3>1. CASE ok
      <4>1. cache' = [cache EXCEPT ![Key(n)] = cache'[Key(n)]] /\ cache'[Key(n)] \in Files /\ cache'[Key(n)].of = Key(n)
        BY <2>1, <2>2, <3>1 DEF File, Files, Cached, JobTypes
      <4>2. \A k \in Jobs : Key(k)' = Key(k)
        BY <1>1 DEF Key, buildVars
      <4>3. \A k \in Keys : Writing(k)' = IF k = Key(n) THEN Writing(k) \cup {n} ELSE Writing(k)
        BY <1>1, <2>1, <2>2, <3>1, <4>2 DEF Writing, JobTypes
      <4>4. TornOnlyByFailure'
        BY <2>2, <4>1, <4>3 DEF Cached, TornOnlyByFailure
      <4>5. \A k \in Jobs : out'[k] # None => out'[k] = Label(k)
        BY <2>1, <2>2, <3>1 DEF Cached, JobTypes
      <4>6. \A k \in Jobs : job'[k] = "writing" => cache'[Key(k)] # None
        BY <2>1, <3>1, <4>1, HostAssumption DEF Cached, JobTypes
      <4> QED
        BY <4>1, <4>2, <4>4, <4>5, <4>6 DEF Cached, Label, Output
    <3>2. CASE ~ok
      BY <1>1, <2>1, <2>2, <3>2, CacheRests DEF JobTypes, buildVars
    <3> QED
      BY <3>1, <3>2
  <2> QED
    BY <1>2, <1>3, <2>3, <2>4, <2>5
<1>6. CASE Wrote(n)
  <2>1. /\ job[n] = "writing" /\ job' = [job EXCEPT ![n] = "finished"] /\ UNCHANGED <<success, out>>
        /\ torn' \in BOOLEAN /\ (torn => torn')
    BY <1>6 DEF Wrote, Advance, JobTypes
  <2>2. \/ cache' = cache /\ torn'
        \/ \E how \in {"mixed", "whole"} : cache' = [cache EXCEPT ![Key(n)].how = how]
    <3>1. PICK ok \in BOOLEAN :
            /\ torn' = (torn \/ ~ok)
            /\ IF ok THEN \E how \in {"whole", cache[Key(n)].how} \ {"part"} : cache' = [cache EXCEPT ![Key(n)].how = how]
                     ELSE UNCHANGED cache
      BY <1>6 DEF Wrote
    <3>2. CASE ~ok
      BY <3>1, <3>2
    <3>3. CASE ok
      <4>1. cache[Key(n)] \in Files
        BY <1>1, <2>1, KeyFacts DEF Cached
      <4> QED
        BY <3>1, <3>3, <4>1 DEF Files
    <3> QED
      BY <3>2, <3>3
  <2>3. JobTypes'
    BY <1>1, <2>1 DEF JobTypes, Busy
  <2>4. Tested'
    BY <1>1, <2>1, TestsRest DEF Closed, JobTypes
  <2>5. Cached'
    <3>1. Key(n) \in Keys /\ cache[Key(n)] \in Files /\ \A k \in Jobs : Key(k)' = Key(k)
      BY <1>1, <2>1, KeyFacts DEF Cached, Key, buildVars
    <3>2. \A k \in Keys : k # Key(n) => Writing(k)' = Writing(k)
      BY <2>1, <3>1 DEF Writing, JobTypes
    <3>3. CASE cache' = cache /\ torn'
      BY <2>1, <3>1, <3>3 DEF Cached, TornOnlyByFailure, Label, Output, JobTypes
    <3>4. ASSUME NEW how \in {"mixed", "whole"}, cache' = [cache EXCEPT ![Key(n)].how = how] PROVE Cached'
      <4>1. cache'[Key(n)] \in Files /\ cache'[Key(n)].of = Key(n) /\ cache'[Key(n)].how # "part"
        BY <3>1, <3>4, HostAssumption DEF Cached, Files
      <4>2. \A k \in Keys : k # Key(n) => cache'[k] = cache[k]
        BY <3>1, <3>4 DEF Cached
      <4>3. cache' \in [Keys -> Files \cup {None}]
        BY <3>1, <3>4, <4>1, <4>2 DEF Cached
      <4>4. TornOnlyByFailure'
        BY <2>1, <3>2, <4>1, <4>2 DEF Cached, TornOnlyByFailure
      <4>5. \A k \in Jobs : job'[k] = "writing" => cache'[Key(k)] # None
        BY <1>1, <2>1, <4>1, <4>2, KeyFacts, HostAssumption DEF Cached, JobTypes
      <4> QED
        BY <2>1, <3>1, <4>1, <4>2, <4>3, <4>4, <4>5 DEF Cached, Label, Output
    <3> QED
      BY <2>2, <3>3, <3>4
  <2> QED
    BY <1>2, <1>3, <2>3, <2>4, <2>5
<1> QED
  BY <1>4, <1>5, <1>6

LEMMA StepInv == ASSUME Inv, [Next]_vars PROVE Inv'
<1>1. CASE UNCHANGED vars
  <2>1. BuildInv'
    BY <1>1 DEF vars, buildVars, benchVars, BuildTypes, Compiling, Made, Failing
  <2>2. JobTypes' /\ Working' /\ Tested' /\ Motes'
    BY <1>1 DEF vars, buildVars, benchVars, JobTypes, Working, Queue, Tested, Closed, Motes, OneMachinePerInstance
  <2>3. Cached'
    BY <1>1, CacheRests DEF vars, buildVars, benchVars
  <2> QED
    BY <2>1, <2>2, <2>3
<1> QED
  BY <1>1, BuildStep, FreshStep, PlanStep, EndStep, ConnectStep, LoopStep, JobStep DEF Next, Work, Done

HIDE DEF Inv

\* The inductive invariant holds in every behaviour.
THEOREM Inductive == Spec => []Inv
<1>1. Inv /\ [Next]_vars => Inv'
  BY StepInv
<1> QED
  BY InitInv, <1>1, PTL DEF Spec

\* What a run says of its results, or leaves in the cache for the next one, is so, whatever
\* commands fail and whenever the process dies.  Commits and hosts that are named twice
\* have two tests, of which a benchmark waits for one.
THEOREM RightResults ==
  ASSUME \A j, k \in DOMAIN Commits : Commits[j] = Commits[k] => j = k,
         \A j, k \in DOMAIN Hosts : Hosts[j] = Hosts[k] => j = k
  PROVE  Spec => []ResultsAreRight
<1>1. Inv => ResultsAreRight
  <2> SUFFICES ASSUME Inv PROVE ResultsAreRight
    OBVIOUS
  <2>1. TypeOK
    BY DEF Inv, TypeOK, BuildTypes, JobTypes, Busy, Cached, Files, Motes
  <2>2. ResultsMatchTheirLabels
    BY DEF Inv, Cached, Label, Binary, ResultsMatchTheirLabels
  <2>3. OnlyTestedIsMeasured
    BY OneTest DEF Inv, Tested, OnlyTestedIsMeasured
  <2> QED
    BY <2>1, <2>2, <2>3 DEF Inv, Cached, ResultsAreRight
<1> QED
  BY Inductive, <1>1, PTL

\* HEAD comes back after any one failure, and a run without error has reported each job once.
THEOREM EndsWell == Spec => []RunEndsWell
<1>1. Inv => RunEndsWell
  <2> SUFFICES ASSUME Inv PROVE RunEndsWell
    OBVIOUS
  <2>1. HeadComesBack
    BY DEF Inv, BuildTypes, Failing, HeadComesBack
  <2>2. EverythingReported
    BY DEF Inv, JobTypes, Working, EverythingReported
  <2> QED
    BY <2>1, <2>2 DEF RunEndsWell
<1> QED
  BY Inductive, <1>1, PTL

\* Nothing moves HEAD under a compilation, though all builds share one work tree.
THEOREM HeadIsStill == Spec => HeadStillWhileCompiling
<1>1. Inv /\ [Next]_vars => [head' # head => \A b \in Builds : builder[b] # "compiling"]_vars
  <2> SUFFICES ASSUME Inv, Next, head' # head PROVE \A b \in Builds : builder[b] # "compiling"
    OBVIOUS
  <2>1. step # "build"
    BY DEF Next, LabStart, Start, Crash, Work, BuildNext, Resolve, CheckClean, Checkout, NextCommit, Restore,
       Compile, FetchID, Plan, PlanFails, ListMotes, CreateMote, Prepare, Launch, Collect, Report, MachineDone,
       TakeMote, Await, Ran, Wrote, Finish, Done, vars, buildVars
  <2> QED
    BY <2>1 DEF Inv, Compiling
<1> QED
  BY Inductive, <1>1, PTL DEF Spec, HeadStillWhileCompiling

\* Machines take gomotes one each, also those that earlier runs and crashes left, and only
\* for jobs that are still to run.
THEOREM TakenWell == Spec => MachinesTakenWell
<1>1. Inv => OneMachinePerInstance
  BY DEF Inv, Motes
<1>2. Inv /\ [Next]_vars => [\A m \in Machines : has'[m] \notin {has[m], None} => Queue(m) # {}]_vars
  <2> SUFFICES ASSUME Inv, Next, NEW m \in Machines, has'[m] \notin {has[m], None} PROVE Queue(m) # {}
    OBVIOUS
  <2>1. \E k \in Machines : CreateMote(k) \/ \E g \in Instances : TakeMote(k, g)
    BY DEF Next, LabStart, Crash, Fresh, Work, benchVars, Plan, PlanFails, ListMotes, Prepare, Launch, Collect,
       Report, MachineDone, Await, Ran, Wrote, Finish, Done, vars
  <2>2. PICK k \in Machines : /\ step = "bench" /\ mpc[k] = "connect"
                             /\ has' = [has EXCEPT ![k] = has'[k]]
    BY <2>1 DEF CreateMote, TakeMote, At, Inv, Motes
  <2>3. k = m
    BY <2>2 DEF Inv, Motes
  <2> QED
    BY <2>2, <2>3 DEF Inv, Working
<1> QED
  BY Inductive, <1>1, <1>2, PTL DEF Spec, MachinesTakenWell, ConnectsOnlyForWork
=============================================================================
