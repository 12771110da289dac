------------------------------- MODULE Gomote -------------------------------
(****************************************************************************)
(* The gomote transport: mote commands that find or create an instance,     *)
(* put a cross-compiled binary on it and reach its server through a         *)
(* subprocess, in one of two ways; and "mote close", which shuts down       *)
(* everything that such commands leave running.  The gomote service and     *)
(* its instances outlive the commands.                                      *)
(****************************************************************************)
EXTENDS Naturals, FiniteSets

CONSTANTS Clients, Builder,      \* mote commands, and the builder each asks for
          Builds,                \* those whose go command can build for it
          Insts, BuilderOf,      \* instances that the service has or can make
          Others, Standing,      \* those of other groups, and those of ours there may be at first
          Background,            \* shared ssh connections and Tailscale daemons
          Supports,              \* which ways in a gomote command and ssh proxy may support
          Wedges,                \* what may ignore the end of its input
          None, MaxFaults

Ways == {"command", "shell"}

ASSUME GomoteAssumption ==
  /\ Others \subseteq Insts /\ Standing \subseteq Insts \ Others
  /\ Builds \subseteq Clients /\ Background \cap Insts = {}
  /\ Supports \subseteq SUBSET Ways /\ Wedges \subseteq {"parent", "helper"} /\ MaxFaults \in Nat

VARIABLES
  inst,      \* [Insts -> {"absent", "ours", "others", "gone"}]; ours: in the mote group
  group,     \* the mote group exists
  works,     \* the ways in that this gomote and ssh proxy support
  pc, way,   \* each client's place, and the way it is trying
  mine,      \* the instance it uses
  seen,      \* what gomoteGroupExists answered
  tmp,       \* the directory of the cross-compiled binary exists
  proc,      \* the transport's subprocess: "none", "running", "exited"
  helper,    \* the ssh that gomote runs, which holds standard error too
  wedged,    \* which of the two ignore the end of their input, once it was closed
  mute,      \* the server has said hello and then fallen silent
  closer, todo, tried, errs,   \* mote close: stage, what is left, what was tried, what failed
  found,     \* history: the instances that it has listed
  faults

svcVars   == <<inst, group, works>>
procVars  == <<proc, helper, wedged, mute>>
closeVars == <<closer, todo, tried, errs, found>>
cliVars   == <<way, mine, seen, tmp>>
vars == <<svcVars, pc, cliVars, procVars, closeVars, faults>>

Init ==
  /\ \E S \in SUBSET Standing :
       /\ inst = [i \in Insts |-> IF i \in Others THEN "others" ELSE IF i \in S THEN "ours" ELSE "absent"]
       /\ group \in (IF S = {} THEN BOOLEAN ELSE {TRUE})
  /\ works \in Supports
  /\ pc = [c \in Clients |-> "list"] /\ way = [c \in Clients |-> "command"]
  /\ mine = [c \in Clients |-> None] /\ seen = [c \in Clients |-> FALSE] /\ tmp = [c \in Clients |-> FALSE]
  /\ proc = [c \in Clients |-> "none"] /\ helper = [c \in Clients |-> FALSE]
  /\ wedged = [c \in Clients |-> {}] /\ mute = [c \in Clients |-> FALSE]
  /\ closer = "each" /\ todo = Background /\ tried = {} /\ errs = {} /\ found = {} /\ faults = 0

Fault == faults < MaxFaults /\ faults' = faults + 1

\* Client c is at from and goes on to `to` when the command it runs works, else fails.
Step(c, from, to, other) ==
  /\ pc[c] = from
  /\ \/ pc' = [pc EXCEPT ![c] = to] /\ UNCHANGED faults
     \/ pc' = [pc EXCEPT ![c] = other] /\ Fault

\* gomote list: the instances of the mote group, of one builder if one is given.
Listed(b) == {i \in Insts : inst[i] = "ours" /\ BuilderOf[i] = b}

List(c) ==
  /\ \/ /\ Listed(Builder[c]) # {} /\ Step(c, "list", "build", "failed")
        /\ \E i \in Listed(Builder[c]) : mine' = [mine EXCEPT ![c] = i]
     \/ Listed(Builder[c]) = {} /\ Step(c, "list", "groups", "failed") /\ UNCHANGED mine
  /\ UNCHANGED <<svcVars, way, seen, tmp, procVars, closeVars>>

\* A failed gomote group list counts as "no such group".
GroupExists(c) ==
  /\ Step(c, "groups", "create", "create")
  /\ seen' = [seen EXCEPT ![c] = group /\ faults' = faults]
  /\ UNCHANGED <<svcVars, way, mine, tmp, procVars, closeVars>>

Ungrouped == "others"

\* The new instance's group: -new-group makes it, GOMOTE_GROUP names an existing one.
Membership == "ours"

\* gomote create; with -new-group it fails when the group exists by now.
Create(c) ==
  /\ IF group /\ ~seen[c]
     THEN pc[c] = "create" /\ pc' = [pc EXCEPT ![c] = "failed"] /\ UNCHANGED <<inst, group, mine, faults>>
     ELSE /\ Step(c, "create", "build", "failed")
          /\ \E i \in Insts :
               /\ inst[i] = "absent" /\ BuilderOf[i] = Builder[c]
               /\ IF pc'[c] = "build"
                  THEN /\ inst' = [inst EXCEPT ![i] = Membership] /\ group' = TRUE
                       /\ mine' = [mine EXCEPT ![c] = i]
                  ELSE UNCHANGED <<inst, group, mine>>
  /\ UNCHANGED <<works, way, seen, tmp, procVars, closeVars>>

\* go build into a temporary directory, which goes again if the build fails ...
Build(c) ==
  /\ IF c \in Builds THEN Step(c, "build", "put", "failed")
     ELSE pc[c] = "build" /\ pc' = [pc EXCEPT ![c] = "failed"] /\ UNCHANGED faults
  /\ tmp' = [tmp EXCEPT ![c] = (pc'[c] = "put")]
  /\ UNCHANGED <<svcVars, way, mine, seen, procVars, closeVars>>

\* ... and when dialGomote returns.
BinaryStays(c, to) == pc' = [pc EXCEPT ![c] = to] /\ UNCHANGED tmp

Return(c, to) == pc' = [pc EXCEPT ![c] = to] /\ tmp' = [tmp EXCEPT ![c] = FALSE]

Put(c) ==
  /\ pc[c] = "put"
  /\ \/ /\ inst[mine[c]] # "gone" /\ pc' = [pc EXCEPT ![c] = "start"] /\ UNCHANGED <<tmp, faults>>
     \/ /\ Return(c, "failed")
        /\ IF inst[mine[c]] = "gone" THEN UNCHANGED faults ELSE Fault
  /\ UNCHANGED <<svcVars, way, mine, seen, procVars, closeVars>>

\* Another way in is left to try.
NextWay(c) == IF way[c] = "command" THEN pc' = [pc EXCEPT ![c] = "start"] /\ way' = [way EXCEPT ![c] = "shell"] /\ UNCHANGED tmp
                                    ELSE Return(c, "failed") /\ UNCHANGED way

\* gomote ssh is started, with pipes or on a terminal.
StartProc(c) ==
  /\ pc[c] = "start"
  /\ \/ /\ proc' = [proc EXCEPT ![c] = "running"] /\ helper' = [helper EXCEPT ![c] = TRUE]
        /\ pc' = [pc EXCEPT ![c] = "shake"] /\ UNCHANGED <<wedged, mute, way, tmp, faults>>
     \/ Fault /\ NextWay(c) /\ UNCHANGED procVars
  /\ UNCHANGED <<svcVars, mine, seen, closeVars>>

\* The input of the subprocess is closed; some do not care.
CloseInput(c) == \E w \in SUBSET Wedges : wedged' = [wedged EXCEPT ![c] = w]

\* Every byte that leads to the server's hello has a deadline, and their number a
\* limit: the hello comes, or the scan fails, which closes the input.
\* A server that has said hello may fall silent.
Hello(c) ==
  /\ pc[c] = "shake"
  /\ \/ /\ proc[c] = "running" /\ way[c] \in works /\ inst[mine[c]] # "gone"
        /\ pc' = [pc EXCEPT ![c] = "info"]
        /\ \/ UNCHANGED <<mute, faults>>
           \/ mute' = [mute EXCEPT ![c] = TRUE] /\ Fault
        /\ UNCHANGED wedged
     \/ /\ pc' = [pc EXCEPT ![c] = "abort"] /\ CloseInput(c) /\ UNCHANGED mute
        /\ IF way[c] \in works /\ inst[mine[c]] # "gone" THEN Fault ELSE UNCHANGED faults
  /\ UNCHANGED <<svcVars, cliVars, proc, helper, closeVars>>

\* The deadline is cleared by now: Info is read for as long as it takes.
Info(c) ==
  /\ pc[c] = "info" /\ ~mute[c] /\ Return(c, "up")
  /\ UNCHANGED <<svcVars, way, mine, seen, procVars, closeVars, faults>>

\* The connection breaks before it comes; on a silent one nobody may notice.
InfoFails(c) ==
  /\ pc[c] = "info" /\ pc' = [pc EXCEPT ![c] = "abort"] /\ CloseInput(c)
  /\ mute' = [mute EXCEPT ![c] = FALSE]
  /\ IF mute[c] \/ inst[mine[c]] = "gone" THEN UNCHANGED faults ELSE Fault
  /\ UNCHANGED <<svcVars, cliVars, proc, helper, closeVars>>

\* Both processes end when their input does, unless they are wedged.
Ends(c) ==
  /\ pc[c] \in {"abort", "fatal", "close", "quit"}
  /\ \/ proc[c] = "running" /\ "parent" \notin wedged[c]
     \/ helper[c] /\ "helper" \notin wedged[c]
  /\ proc' = [proc EXCEPT ![c] = IF "parent" \in wedged[c] THEN @ ELSE "exited"]
  /\ helper' = [helper EXCEPT ![c] = "helper" \in wedged[c]]
  /\ UNCHANGED <<svcVars, pc, cliVars, wedged, mute, closeVars, faults>>

NoKill(c) == FALSE

\* Five seconds after the input was closed abort kills the subprocess, which is
\* gomote, not the ssh that gomote started.
Kill(c) ==
  /\ pc[c] \in {"abort", "fatal"} /\ proc[c] = "running"
  /\ proc' = [proc EXCEPT ![c] = "exited"]
  /\ UNCHANGED <<svcVars, pc, cliVars, helper, wedged, mute, closeVars, faults>>

WaitedForGomote(c) == proc[c] = "exited"

\* Wait returns when the subprocess has exited and nobody holds its standard error.
Waited(c) == proc[c] = "exited" /\ ~helper[c]

AbortDone(c) ==
  /\ pc[c] = "abort" /\ Waited(c)
  /\ proc' = [proc EXCEPT ![c] = "none"] /\ wedged' = [wedged EXCEPT ![c] = {}] /\ NextWay(c)
  /\ UNCHANGED <<svcVars, mine, seen, helper, mute, closeVars, faults>>

\* The command has ended by itself: Close closes the input and waits for as long as
\* it takes.
SessionEnds(c) ==
  /\ pc[c] = "up" /\ pc' = [pc EXCEPT ![c] = "close"] /\ CloseInput(c)
  /\ UNCHANGED <<svcVars, cliVars, proc, helper, mute, closeVars, faults>>

CloseDone(c) ==
  /\ pc[c] = "close" /\ Waited(c)
  /\ proc' = [proc EXCEPT ![c] = "none"] /\ pc' = [pc EXCEPT ![c] = "done"]
  /\ wedged' = [wedged EXCEPT ![c] = {}]
  /\ UNCHANGED <<svcVars, cliVars, helper, mute, closeVars, faults>>

\* The session fails: abort, as after a handshake, and then log.Fatal.
SessionFails(c) ==
  /\ pc[c] = "up" /\ pc' = [pc EXCEPT ![c] = "fatal"] /\ CloseInput(c)
  /\ UNCHANGED <<svcVars, cliVars, proc, helper, mute, closeVars, faults>>

FatalDone(c) ==
  /\ pc[c] = "fatal" /\ Waited(c)
  /\ proc' = [proc EXCEPT ![c] = "none"] /\ pc' = [pc EXCEPT ![c] = "failed"]
  /\ wedged' = [wedged EXCEPT ![c] = {}]
  /\ UNCHANGED <<svcVars, cliVars, helper, mute, closeVars, faults>>

\* The remote command was killed: log.Fatalf runs no deferred Close, and gomote is
\* left to find the end of its input.
Quits(c) ==
  /\ pc[c] = "up" /\ pc' = [pc EXCEPT ![c] = "quit"] /\ CloseInput(c)
  /\ UNCHANGED <<svcVars, cliVars, proc, helper, mute, closeVars, faults>>

-----------------------------------------------------------------------------
CloseUntilFailure ==
  /\ closer = "each"
  /\ \E x \in todo :
       /\ tried' = tried \cup {x} /\ todo' = todo \ {x}
       /\ \/ UNCHANGED <<closer, errs, faults>>
          \/ errs' = errs \cup {x} /\ closer' = "end" /\ Fault
  /\ UNCHANGED <<found, svcVars, pc, cliVars, procVars>>

CloseAgain ==
  /\ closer = "each"
  /\ \E x \in todo :
       /\ tried' = tried \cup {x}
       /\ \/ todo' = todo \ {x} /\ UNCHANGED <<errs, faults>>
          \/ UNCHANGED todo /\ errs' = errs \cup {x} /\ Fault
  /\ UNCHANGED <<closer, found, svcVars, pc, cliVars, procVars>>

\* mote close without a URL: every ssh socket and every Tailscale daemon, each
\* whatever became of the ones before.
CloseEach ==
  /\ closer = "each"
  /\ \E x \in todo :
       /\ tried' = tried \cup {x} /\ todo' = todo \ {x}
       /\ \/ UNCHANGED <<errs, faults>>
          \/ errs' = errs \cup {x} /\ Fault
  /\ UNCHANGED <<closer, found, svcVars, pc, cliVars, procVars>>

AllInsts == {i \in Insts : inst[i] \in {"ours", "others"}}

\* gomote list without a builder.
OurInsts == {i \in Insts : inst[i] = "ours"}

ToGomotes ==
  /\ closer = "each" /\ todo = {}
  /\ \/ closer' = "gomote" /\ todo' = OurInsts /\ found' = todo' /\ UNCHANGED <<errs, faults>>
     \/ closer' = "end" /\ errs' = errs \cup {"list"} /\ Fault /\ UNCHANGED <<todo, found>>
  /\ UNCHANGED <<tried, svcVars, pc, cliVars, procVars>>

\* destroyGomotes returns at the first instance that it cannot destroy.
AfterFailure == "end"

DestroyQuietly ==
  /\ closer = "gomote"
  /\ \E i \in todo :
       /\ tried' = tried \cup {i} /\ todo' = todo \ {i}
       /\ \/ inst' = [inst EXCEPT ![i] = "gone"] /\ UNCHANGED <<closer, faults>>
          \/ closer' = AfterFailure /\ Fault /\ UNCHANGED inst
  /\ UNCHANGED <<errs, found, group, works, pc, cliVars, procVars>>

Destroy ==
  /\ closer = "gomote"
  /\ \E i \in todo :
       /\ tried' = tried \cup {i} /\ todo' = todo \ {i}
       /\ \/ inst' = [inst EXCEPT ![i] = "gone"] /\ UNCHANGED <<closer, errs, faults>>
          \/ errs' = errs \cup {i} /\ closer' = AfterFailure /\ Fault /\ UNCHANGED inst
  /\ UNCHANGED <<found, group, works, pc, cliVars, procVars>>

CloseEnds ==
  /\ closer = "gomote" /\ todo = {} /\ closer' = "end"
  /\ UNCHANGED <<todo, tried, errs, found, svcVars, pc, cliVars, procVars, faults>>

-----------------------------------------------------------------------------
Dial(c) == \/ List(c) \/ GroupExists(c) \/ Create(c) \/ Build(c) \/ Put(c) \/ StartProc(c)
           \/ Hello(c) \/ Info(c) \/ Kill(c) \/ AbortDone(c)

\* What the user, the remote command and the network do to a session.
Leave(c) == SessionEnds(c) \/ CloseDone(c) \/ SessionFails(c) \/ FatalDone(c) \/ Quits(c)

Close == CloseEach \/ ToGomotes \/ Destroy \/ CloseEnds

\* c is in a wait that nothing ends: for the Info of a silent server, or in Wait for
\* the ssh that holds gomote's standard error; after the session, also for gomote.
Silent(c) == pc[c] = "info" /\ mute[c]
Stuck(c) ==
  \/ pc[c] \in {"abort", "fatal"} /\ helper[c] /\ "helper" \in wedged[c]
  \/ pc[c] = "close" /\ wedged[c] # {}

Done == /\ closer = "end"
        /\ \A c \in Clients : pc[c] \in {"up", "done", "failed", "quit"} \/ Silent(c) \/ Stuck(c)
        /\ UNCHANGED vars

Next == (\E c \in Clients : Dial(c) \/ InfoFails(c) \/ Ends(c) \/ Leave(c)) \/ Close \/ Done

Spec == Init /\ [][Next]_vars

\* Commands return, deadlines pass and processes end; a user need not end the session,
\* and nobody need notice that a server has fallen silent.
FairSpec == Spec /\ \A c \in Clients : WF_vars(Dial(c)) /\ WF_vars(Ends(c))
-----------------------------------------------------------------------------
TypeOK ==
  /\ inst \in [Insts -> {"absent", "ours", "others", "gone"}] /\ works \subseteq Ways
  /\ pc \in [Clients -> {"list", "groups", "create", "build", "put", "start", "shake", "info", "abort",
                         "up", "close", "fatal", "quit", "done", "failed"}]
  /\ way \in [Clients -> Ways] /\ mine \in [Clients -> Insts \cup {None}]
  /\ proc \in [Clients -> {"none", "running", "exited"}]
  /\ closer \in {"each", "gomote", "end"} /\ todo \cap tried = {}

\* What a client uses is an instance of its builder that mote close will find:
\* of the mote group, or already destroyed; never another group's.
InstancesAreOurs ==
  \A c \in Clients : mine[c] # None =>
    BuilderOf[mine[c]] = Builder[c] /\ inst[mine[c]] \in {"ours", "gone"}

\* Instances of other groups are never destroyed.
OthersUntouched == \A i \in Others : inst[i] = "others"

\* A command that has failed, or ended with its remote command, has left neither a
\* subprocess nor the binary behind; one that is connected has no binary.  (One whose
\* remote command was killed leaves the subprocess to end by itself.)
NothingLeftBehind ==
  \A c \in Clients :
    /\ pc[c] \in {"done", "failed"} => proc[c] = "none" /\ ~helper[c]
    /\ pc[c] \in {"up", "close", "fatal", "quit", "done", "failed"} => ~tmp[c]

\* The second way in is tried after the first one's processes are gone: two servers never
\* run for one command.
OneWayAtATime ==
  \A c \in Clients : pc[c] = "start" => proc[c] = "none" /\ ~helper[c]

\* mote close goes past failures over ssh connections and daemons: all of them are
\* tried.  It stops at the first gomote that it cannot destroy, but reports no success
\* then: it does so only when all that it has listed are destroyed.
CloseGoesOn ==
  closer = "end" =>
    /\ Background \subseteq tried
    /\ errs = {} => \A i \in found : inst[i] = "gone"

\* Connecting comes to an end, also when gomote ignores the end of its input, but for
\* two waits: for a server that falls silent between its hello and its Info, and for an
\* ssh that outlives gomote and ignores the end of its input.
DialEnds ==
  \A c \in Clients :
    (pc[c] = "list") ~> (pc[c] \in {"up", "failed"} \/ Silent(c) \/ (pc[c] = "abort" /\ Stuck(c)))

\* Commands and mote close use and destroy the instances of mote's group and no
\* others; close tries every ssh connection and daemon, and does not report success
\* over a gomote that it has listed and not destroyed.
GomotesAreOurs == TypeOK /\ InstancesAreOurs /\ OthersUntouched /\ CloseGoesOn

\* One server at a time runs for a command, and nothing of it stays.
DialIsTidy == NothingLeftBehind /\ OneWayAtATime

-----------------------------------------------------------------------------
(* What comments say of the program, and it does not do.                    *)

\* closeAll shuts down "every gomote instance in the mote group.  It keeps going past
\* failures": if the instances could be listed, each one is tried.
CloseTriesAll == closer = "end" => "list" \in errs \/ found \subseteq tried

\* procConn.abort: after five seconds the subprocess "is killed, so that a wedged ssh
\* or gomote cannot hang the client".
AbortReturns == \A c \in Clients : (pc[c] = "abort") ~> (pc[c] # "abort")
=============================================================================
