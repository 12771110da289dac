------------------------------ MODULE Session ------------------------------
(***************************************************************************)
(* One session of mote: Conn.Run of the client (mote/client.go), serve of  *)
(* the server (mote/server.go), the packets between them, and the command  *)
(* with the processes it starts.                                           *)
(*                                                                         *)
(* The client has its main goroutine and the one that forwards interrupts; *)
(* the server has serve, the watcher that reads Kill requests and hangups, *)
(* and a copier per output stream.  A packet, a system call on the process *)
(* or its pipes, and the closing of a channel are steps of their own.      *)
(***************************************************************************)
EXTENDS Integers, Sequences

CONSTANTS
    CanEscape,      \* the child may leave the command's process group
    MaxPrints,      \* bound: chunks printed on each stream
    MaxInterrupts,  \* bound: interrupts typed by the user
    PipeCap,        \* chunks that fit into a pipe
    NetCap          \* packets on their way to the client

ASSUME Assumptions ==
    /\ CanEscape \in BOOLEAN
    /\ MaxPrints \in Nat /\ MaxInterrupts \in Nat
    /\ PipeCap \in Nat \ {0} /\ NetCap \in Nat \ {0}

Stream == {"stdout", "stderr"}
Process == {"cmd", "child"}
Status == {"exited", "killed"}

VARIABLES
    \* the client
    cl,         \* where cmdRun is
    intr,       \* where the interrupt goroutine is
    sig,        \* an interrupt waits in the channel sig
    interrupts,
    result,     \* "none", "failed", or the status in the Exit response
    got,        \* got[s]: chunks written to the client's own stream s
    \* the connection
    c2s,        \* requests on their way
    s2c,        \* responses; an Output is its stream, an Exit its status
    \* the server
    srv,        \* where serve is
    cp,         \* cp[s]: where copyOutput of stream s is
    watch,      \* where the watcher goroutine is
    exited,     \* the channel exited is closed
    \* the command and the process it may start
    status,     \* of the command: "none", "running", "exited", "killed"
    alive,      \* processes running
    group,      \* processes in the command's process group
    open,       \* open[s]: processes with the write end of pipe s
    pipe,       \* pipe[s]: chunks in the pipe
    made,       \* made[s]: chunks printed
    pid         \* who may have the command's pid: "cmd" or "other"

clientVars == <<cl, intr, sig, interrupts, result, got>>
netVars    == <<c2s, s2c>>
serverVars == <<srv, cp, watch, exited>>
procVars   == <<status, alive, group, open, pipe, made, pid>>
vars == <<clientVars, netVars, serverVars, procVars>>

Gone == cl \in {"done", "failed", "exited"}

\* c.Wait has returned.
Reaped == srv \in {"waited", "closed", "cleanup", "returned"} /\ status # "none"

TypeOK ==
    /\ cl \in {"dial", "setup", "ready", "run", "done", "failed", "exited"}
    /\ intr \in {"none", "armed", "kill", "second"}
    /\ sig \in BOOLEAN /\ interrupts \in 0..MaxInterrupts
    /\ result \in {"none", "failed"} \cup Status
    /\ got \in [Stream -> 0..MaxPrints]
    /\ c2s \in Seq({"Setup", "Upload", "Start", "Kill"})
    /\ s2c \in Seq({"Info", "Need", "Ready", "Error"} \cup Stream \cup Status)
    /\ srv \in {"info", "setup", "need", "upload", "build", "built", "ready",
                "start", "run", "waited", "closed", "fail", "cleanup", "returned"}
    /\ cp \in [Stream -> {"none", "read", "write", "kill", "done"}]
    /\ watch \in {"none", "read", "check", "kill", "done"}
    /\ exited \in BOOLEAN
    /\ status \in {"none", "running"} \cup Status
    /\ alive \subseteq Process /\ group \subseteq Process
    /\ open \in [Stream -> SUBSET Process]
    /\ pipe \in [Stream -> 0..PipeCap] /\ made \in [Stream -> 0..MaxPrints]
    /\ pid \in {"cmd", "other"}

Init ==
    /\ cl = "dial" /\ intr = "none" /\ sig = FALSE /\ interrupts = 0
    /\ result = "none" /\ got = [s \in Stream |-> 0]
    /\ c2s = <<>> /\ s2c = <<>>
    /\ srv = "info" /\ cp = [s \in Stream |-> "none"]
    /\ watch = "none" /\ exited = FALSE
    /\ status = "none" /\ alive = {} /\ group = {}
    /\ open = [s \in Stream |-> {}] /\ pipe = [s \in Stream |-> 0]
    /\ made = [s \in Stream |-> 0] /\ pid = "cmd"

-----------------------------------------------------------------------------
(* The client: dialServer's Info, Conn.Run and cmdRun.                      *)

ClientOnly == UNCHANGED <<serverVars, procVars>>

ClientReads(p) == s2c # <<>> /\ Head(s2c) = p /\ s2c' = Tail(s2c)
ClientWrites(p) == c2s' = Append(c2s, p)
Ends(where, what) == cl' = where /\ result' = what

GetInfo ==
    /\ cl = "dial" /\ ClientReads("Info") /\ ClientWrites("Setup")
    /\ cl' = "setup"
    /\ UNCHANGED <<intr, sig, interrupts, result, got>> /\ ClientOnly

\* The upload may fail halfway: a file has changed, or cannot be opened.
GetNeed ==
    /\ cl = "setup" /\ ClientReads("Need")
    /\ \/ ClientWrites("Upload") /\ UNCHANGED <<cl, result>>
       \/ Ends("failed", "failed") /\ UNCHANGED c2s
    /\ UNCHANGED <<intr, sig, interrupts, got>> /\ ClientOnly

GetReady ==
    /\ cl = "setup" /\ ClientReads("Ready")
    /\ cl' = "ready" /\ intr' = "armed"
    /\ UNCHANGED <<sig, interrupts, result, got, c2s>> /\ ClientOnly

\* The write fails only if the server has already hung up.
SendStart ==
    /\ cl = "ready"
    /\ \/ ClientWrites("Start") /\ cl' = "run" /\ UNCHANGED result
       \/ srv = "returned" /\ Ends("failed", "failed") /\ UNCHANGED c2s
    /\ UNCHANGED <<intr, sig, interrupts, got, s2c>> /\ ClientOnly

GetOutput(s) ==
    /\ cl = "run" /\ ClientReads(s)
    /\ got' = [got EXCEPT ![s] = @ + 1]
    /\ UNCHANGED <<cl, intr, sig, interrupts, result, c2s>> /\ ClientOnly

GetExit ==
    /\ cl = "run"
    /\ \E st \in Status : ClientReads(st) /\ Ends("done", st)
    /\ UNCHANGED <<intr, sig, interrupts, got, c2s>> /\ ClientOnly

\* A response with Error set, or the end of the connection.
GetError ==
    /\ cl \in {"dial", "setup", "run"}
    /\ \/ ClientReads("Error")
       \/ s2c = <<>> /\ srv = "returned" /\ UNCHANGED s2c
    /\ Ends("failed", "failed")
    /\ UNCHANGED <<intr, sig, interrupts, got, c2s>> /\ ClientOnly

\* Until signal.Notify an interrupt ends the client; then it is put into
\* the channel, which holds one and drops the rest.
Interrupt ==
    /\ ~Gone /\ interrupts < MaxInterrupts
    /\ interrupts' = interrupts + 1
    /\ IF intr = "none" THEN Ends("exited", "failed") /\ UNCHANGED sig
                        ELSE sig' = TRUE /\ UNCHANGED <<cl, result>>
    /\ UNCHANGED <<intr, got, netVars>> /\ ClientOnly

FirstInterrupt ==
    /\ ~Gone /\ intr = "armed" /\ sig
    /\ sig' = FALSE /\ intr' = "kill"
    /\ UNCHANGED <<cl, interrupts, result, got, netVars>> /\ ClientOnly

SendKill ==
    /\ ~Gone /\ intr = "kill"
    /\ ClientWrites("Kill") /\ intr' = "second"
    /\ UNCHANGED <<cl, sig, interrupts, result, got, s2c>> /\ ClientOnly

SecondInterrupt ==
    /\ ~Gone /\ intr = "second" /\ sig
    /\ Ends("exited", "failed")
    /\ UNCHANGED <<intr, sig, interrupts, got, netVars>> /\ ClientOnly

\* The client is killed, or its machine or the network goes away.
Vanish ==
    /\ ~Gone /\ Ends("exited", "failed")
    /\ UNCHANGED <<intr, sig, interrupts, got, netVars>> /\ ClientOnly

-----------------------------------------------------------------------------
(* The server: serve.                                                      *)

\* A write blocks while the connection is full.  When the client is gone a
\* write still succeeds until the hangup is noticed, and reads return what
\* has arrived or fail; so they do when the server has closed the connection.
ServerWrites(p) ==
    \/ ~Gone /\ Len(s2c) < NetCap /\ s2c' = Append(s2c, p)
    \/ Gone /\ UNCHANGED s2c
WriteFails == Gone /\ UNCHANGED s2c
ServerReads(p) == c2s # <<>> /\ Head(c2s) = p /\ c2s' = Tail(c2s)
ReadFails == (Gone \/ srv = "returned") /\ UNCHANGED c2s

ServeOnly == UNCHANGED <<clientVars, cp, watch, exited, procVars>>
At(from, to) == srv = from /\ srv' = to

\* serve sends p between two of its states, or returns with the error.
Sends(p, from, to) ==
    /\ \/ At(from, to) /\ ServerWrites(p)
       \/ At(from, "cleanup") /\ WriteFails
    /\ UNCHANGED c2s /\ ServeOnly

SendInfo == Sends("Info", "info", "setup")

\* The files of the request are in the cache, or some of them are not; or the
\* request is not a Setup, or malformed.
GetSetup ==
    /\ \/ ServerReads("Setup") /\ (At("setup", "need") \/ At("setup", "build") \/ At("setup", "fail"))
       \/ ReadFails /\ At("setup", "cleanup")
    /\ UNCHANGED s2c /\ ServeOnly

SendNeed == Sends("Need", "need", "upload")

\* Saving an upload in the cache may fail.
GetUpload ==
    /\ \/ ServerReads("Upload") /\ (At("upload", "build") \/ At("upload", "fail"))
       \/ ReadFails /\ At("upload", "cleanup")
    /\ UNCHANGED s2c /\ ServeOnly

\* So may making the temporary tree: a file may have left the cache again.
Build ==
    /\ At("build", "built") \/ At("build", "fail")
    /\ UNCHANGED netVars /\ ServeOnly

SendReady == Sends("Ready", "built", "ready")

\* Mutant of GetStart: a Kill is skipped, as the watcher skips a Start.
GetStartSkipping ==
    /\ \/ ServerReads("Start") /\ At("ready", "start")
       \/ ServerReads("Kill") /\ At("ready", "ready")
       \/ ReadFails /\ At("ready", "cleanup")
    /\ UNCHANGED s2c /\ ServeOnly

GetStart ==
    /\ \/ ServerReads("Start") /\ At("ready", "start")
       \/ ServerReads("Kill") /\ At("ready", "fail")
       \/ ReadFails /\ At("ready", "cleanup")
    /\ UNCHANGED s2c /\ ServeOnly

\* fail: an Exit response with Error set, whether it can be written or not.
SendError ==
    /\ At("fail", "cleanup") /\ (ServerWrites("Error") \/ WriteFails)
    /\ UNCHANGED c2s /\ ServeOnly

\* c.Start, and the three go statements after it.
StartCommand ==
    /\ \/ /\ At("start", "run")
          /\ status' = "running" /\ alive' = {"cmd"} /\ group' = {"cmd"}
          /\ open' = [s \in Stream |-> {"cmd"}]
          /\ watch' = "read" /\ cp' = [s \in Stream |-> "read"]
       \/ At("start", "fail") /\ UNCHANGED <<status, alive, group, open, watch, cp>>
    /\ UNCHANGED <<clientVars, netVars, exited, pipe, made, pid>>

\* Mutant of Wait: c.Wait is not preceded by wg.Wait.
WaitAtOnce ==
    /\ At("run", "waited") /\ status \in Status
    /\ pipe' = [s \in Stream |-> 0]
    /\ UNCHANGED <<clientVars, netVars, cp, watch, exited, status, alive,
                   group, open, made, pid>>

\* wg.Wait, then c.Wait, which reaps the command and closes the pipes.
Wait ==
    /\ At("run", "waited") /\ status \in Status
    /\ \A s \in Stream : cp[s] = "done"
    /\ pipe' = [s \in Stream |-> 0]
    /\ UNCHANGED <<clientVars, netVars, cp, watch, exited, status, alive,
                   group, open, made, pid>>

CloseExited ==
    /\ At("waited", "closed") /\ exited' = TRUE
    /\ UNCHANGED <<clientVars, netVars, cp, watch, procVars>>

SendExit == Sends(status, "closed", "cleanup")

\* The deferred RemoveAll; the caller closes the connection.
Return ==
    /\ At("cleanup", "returned")
    /\ UNCHANGED netVars /\ ServeOnly

-----------------------------------------------------------------------------
(* The watcher and the copiers.                                            *)

\* killGroup: SIGKILL for whoever is in the group that has the pid.
KillGroup ==
    IF pid = "other" THEN UNCHANGED procVars
    ELSE /\ alive' = alive \ group
         /\ open' = [s \in Stream |-> open[s] \ (alive \cap group)]
         /\ status' = IF "cmd" \in alive THEN "killed" ELSE status
         /\ UNCHANGED <<group, pipe, made, pid>>

\* Mutant of WatchReads: a read error ends the watcher.
WatchReadsKillOnly ==
    /\ watch = "read"
    /\ \/ watch' = "check" /\ ServerReads("Kill")
       \/ watch' = "done" /\ ReadFails
    /\ UNCHANGED <<clientVars, s2c, srv, cp, exited, procVars>>

WatchReads ==
    /\ watch = "read"
    /\ watch' = "check" /\ (ServerReads("Kill") \/ ReadFails)
    /\ UNCHANGED <<clientVars, s2c, srv, cp, exited, procVars>>

WatchChecks ==
    /\ watch = "check"
    /\ watch' = IF exited THEN "done" ELSE "kill"
    /\ UNCHANGED <<clientVars, netVars, srv, cp, exited, procVars>>

WatchKills ==
    /\ watch = "kill" /\ watch' = "done" /\ KillGroup
    /\ UNCHANGED <<clientVars, netVars, srv, cp, exited>>

CopyReads(s) ==
    /\ cp[s] = "read" /\ pipe[s] > 0
    /\ cp' = [cp EXCEPT ![s] = "write"]
    /\ pipe' = [pipe EXCEPT ![s] = @ - 1]
    /\ UNCHANGED <<clientVars, netVars, srv, watch, exited, status, alive,
                   group, open, made, pid>>

\* Mutant of CopyWrites: a chunk that has been written may be written again.
CopyWritesAgain(s) ==
    /\ cp[s] = "write"
    /\ \/ cp' = [cp EXCEPT ![s] = "read"] /\ ServerWrites(s)
       \/ UNCHANGED cp /\ ServerWrites(s)
       \/ cp' = [cp EXCEPT ![s] = "kill"] /\ WriteFails
    /\ UNCHANGED <<clientVars, c2s, srv, watch, exited, procVars>>

CopyWrites(s) ==
    /\ cp[s] = "write"
    /\ \/ cp' = [cp EXCEPT ![s] = "read"] /\ ServerWrites(s)
       \/ cp' = [cp EXCEPT ![s] = "kill"] /\ WriteFails
    /\ UNCHANGED <<clientVars, c2s, srv, watch, exited, procVars>>

CopyKills(s) ==
    /\ cp[s] = "kill" /\ cp' = [cp EXCEPT ![s] = "done"] /\ KillGroup
    /\ UNCHANGED <<clientVars, netVars, srv, watch, exited>>

CopyEnds(s) ==
    /\ cp[s] = "read" /\ pipe[s] = 0 /\ open[s] = {}
    /\ cp' = [cp EXCEPT ![s] = "done"]
    /\ UNCHANGED <<clientVars, netVars, srv, watch, exited, procVars>>

-----------------------------------------------------------------------------
(* The command, and one process that it may start.                         *)

ProcOnly == UNCHANGED <<clientVars, netVars, serverVars>>

Fork ==
    /\ "cmd" \in alive /\ "child" \notin group \cup alive
    /\ alive' = alive \cup {"child"} /\ group' = group \cup {"child"}
    /\ open' = [s \in Stream |-> IF "cmd" \in open[s] THEN {"cmd", "child"} ELSE open[s]]
    /\ UNCHANGED <<status, pipe, made, pid>> /\ ProcOnly

Escape ==
    /\ CanEscape /\ "child" \in alive \cap group
    /\ group' = group \ {"child"}
    /\ UNCHANGED <<status, alive, open, pipe, made, pid>> /\ ProcOnly

Emit(q, s) ==
    /\ q \in open[s] /\ pipe[s] < PipeCap /\ made[s] < MaxPrints
    /\ ~Reaped
    /\ pipe' = [pipe EXCEPT ![s] = @ + 1]
    /\ made' = [made EXCEPT ![s] = @ + 1]
    /\ UNCHANGED <<status, alive, group, open, pid>> /\ ProcOnly

CloseStream(q, s) ==
    /\ q \in open[s] /\ open' = [open EXCEPT ![s] = @ \ {q}]
    /\ UNCHANGED <<status, alive, group, pipe, made, pid>> /\ ProcOnly

ExitProcess(q) ==
    /\ q \in alive /\ alive' = alive \ {q}
    /\ open' = [s \in Stream |-> open[s] \ {q}]
    /\ status' = IF q = "cmd" THEN "exited" ELSE status
    /\ UNCHANGED <<group, pipe, made, pid>> /\ ProcOnly

\* The kernel gives a pid out again when the process has been reaped and its
\* process group is empty.
ReusePid ==
    /\ Reaped /\ alive \cap group = {} /\ pid = "cmd"
    /\ pid' = "other"
    /\ UNCHANGED <<status, alive, group, open, pipe, made>> /\ ProcOnly

-----------------------------------------------------------------------------
Client ==
    \/ GetInfo \/ GetNeed \/ GetReady \/ SendStart \/ GetExit \/ GetError
    \/ \E s \in Stream : GetOutput(s)
Forward == FirstInterrupt \/ SendKill \/ SecondInterrupt
User == Interrupt \/ Vanish

Serve ==
    \/ SendInfo \/ GetSetup \/ SendNeed \/ GetUpload \/ Build \/ SendReady
    \/ GetStart \/ SendError \/ StartCommand \/ Wait \/ CloseExited
    \/ SendExit \/ Return
Watch == WatchReads \/ WatchChecks \/ WatchKills
Copy(s) == CopyReads(s) \/ CopyWrites(s) \/ CopyKills(s) \/ CopyEnds(s)

Processes ==
    \/ Fork \/ Escape \/ ReusePid
    \/ \E q \in Process : ExitProcess(q) \/ \E s \in Stream : Emit(q, s) \/ CloseStream(q, s)

Next ==
    \/ Client \/ Forward \/ User \/ Serve \/ Watch
    \/ \E s \in Stream : Copy(s)
    \/ Processes

Spec == Init /\ [][Next]_vars

\* Every goroutine runs; users, processes and the kernel's pids promise
\* nothing, so the command may never end by itself.
Fairness ==
    /\ WF_vars(Client) /\ WF_vars(Forward) /\ WF_vars(Serve) /\ WF_vars(Watch)
    /\ \A s \in Stream : WF_vars(Copy(s))
FairSpec == Spec /\ Fairness

-----------------------------------------------------------------------------
(* Properties.                                                             *)

\* The session implements RemoteRun: it starts the command at most once, and
\* shows everything the command and its children printed before it reports
\* the command's own status, though output, Kill requests, hangups and the
\* command's end race with each other.
Run == INSTANCE RemoteRun WITH state <- IF status = "none" THEN "idle" ELSE status
ImplementsRemoteRun == Run!Spec

\* serve returns, and removes the temporary tree, when the command it has
\* started is over and reaped and nobody can write to the pipes: neither an
\* error path nor a Kill leaves it running.
NothingLeftRunning ==
    srv \in {"waited", "closed", "cleanup", "returned"} =>
        /\ "cmd" \notin alive
        /\ \A s \in Stream : cp[s] \in {"none", "done"}

\* copyOutput kills before it lets wg.Wait return, so the pid is still the
\* command's own when it does.
CopierKillsCommand == \A s \in Stream : cp[s] = "kill" => pid = "cmd" /\ ~Reaped

\* A process of the command runs outside its process group.
Escaped == \E q \in alive : q \notin group

\* "The server also kills the command if the client hangs up": a session
\* whose client is gone ends, whatever the command does, unless a process
\* has left the group and lives on.
HangupEndsSession == Gone ~> srv = "returned" \/ Escaped

\* A Kill ends the session, under the same condition, whether it overtakes
\* the command's start, its output or its end.
KillEndsSession == intr = "second" ~> srv = "returned" \/ Escaped

\* serve and its copiers deal with the command they started and nobody else:
\* it is over when serve returns, and a kill finds it and not its pid's next
\* owner.
OnlyItsCommand == NothingLeftRunning /\ CopierKillsCommand

\* A session ends, whatever the command does, when its client is gone or has
\* interrupted it, unless a process has left the group and lives on; and its
\* variables keep their types on the way.
SessionEnds == []TypeOK /\ HangupEndsSession /\ KillEndsSession

-----------------------------------------------------------------------------
(* What a comment and a document say of the program, and it does not do.    *)

\* protocol.md: on Kill "the server kills the command (and its process
\* group) and proceeds to the eventual Exit".
KillLeadsToExit == intr = "second" ~> srv = "returned"

\* "The exited check avoids killing a reused pid after the command is gone."
WatcherKillsCommand == watch = "kill" => pid = "cmd"
=============================================================================
