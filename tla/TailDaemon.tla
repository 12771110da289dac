----------------------------- MODULE TailDaemon -----------------------------
(***************************************************************************)
(* The Tailscale daemon of mote (mote/taildaemon.go) and the mote commands *)
(* that find it, start it, stop it and talk to it over its service socket. *)
(*                                                                         *)
(* Actors: the mote commands (one process each), the "mote tail-daemon"    *)
(* processes they start, and inside each daemon the accept loop, the idle  *)
(* timer and one handler goroutine per connected command.  They share the  *)
(* lock file, the service socket and the tailscaled.state file of one node *)
(* directory.  Every critical section of d.mu, every system call on shared *)
(* state and every packet is a step of its own.                            *)
(***************************************************************************)
EXTENDS Integers, FiniteSets

CONSTANTS
    Dialers,       \* commands that run daemonDial (a mote client)
    Servers,       \* commands that run daemonServe ("mote serve tail:")
    Stoppers,      \* commands that run daemonStop ("mote close tail:")
    Proc,          \* process slots for "mote tail-daemon"
    NoProc, NoClient,
    HasLock,       \* flock exists (lock_unix.go), or not (lock_other.go)
    LoggedIn,      \* the node has credentials when the behaviour starts
    Healthy,       \* every bring-up succeeds and takes less than a minute
    MaxSessions,   \* bound: remote sessions running at once in one daemon
    MaxCrashes     \* bound: daemon processes that die

Client == Dialers \cup Servers \cup Stoppers

ASSUME Assumptions ==
    /\ NoProc \notin Proc /\ NoClient \notin Client
    /\ Dialers \cap Servers = {} /\ Stoppers \cap (Dialers \cup Servers) = {}
    /\ HasLock \in BOOLEAN /\ LoggedIn \in BOOLEAN /\ Healthy \in BOOLEAN
    /\ MaxSessions \in Nat /\ MaxCrashes \in Nat
    /\ IsFiniteSet(Client)

VARIABLES
    \* the mote commands
    cmd,        \* cmd[c]: where command c is in daemonDial/Serve/Stop
    hup,        \* commands that have closed their end of the connection
    \* the connections
    at,         \* at[c]: the daemon process c is connected to
    h,          \* h[c]: where the daemon's goroutine for c is
    reply,      \* reply[c]: response written by the daemon, not yet read
    \* the node directory
    lock,       \* the process holding the lock file
    sockFile,   \* the process that bound the service socket on disk
    creds,      \* tailscaled.state is there and not empty
    \* the daemon processes
    pc,         \* pc[p]: where p is in runDaemon and run
    svc,        \* svc[p]: p's service listener is open
    active,     \* daemon.active: connected clients
    timer,      \* daemon.idle: "armed" or "stopped"
    fired,      \* expire goroutine waiting for d.mu: "no", "fresh", "stale"
    serving,    \* daemon.serving
    ln,         \* ln[p]: the server whose tailnet listener is open
    logc,       \* logFanout.c
    sessions,   \* remote sessions started by serveListener, still running
    crashes

cmdVars  == <<cmd, hup>>
connVars == <<at, h, reply>>
dirVars  == <<lock, sockFile, creds>>
procVars == <<svc, active, timer, fired, serving, ln, logc, sessions>>
vars == <<cmdVars, connVars, dirVars, procVars, pc, crashes>>

CmdState == {"new", "start", "login", "poll", "wait", "open",
             "done", "failed", "timedout"}
ProcState == {"off", "spawned", "bringup", "up", "probed", "bind",
              "run", "adding", "drain", "down", "unlock", "exited"}
HandlerState == {"none", "backlog", "accepted", "read", "dial1", "dial2",
                 "proxy", "register", "registered", "listening", "unregister",
                 "unlisten", "detach", "stopping", "leave", "left", "gone"}

\* Handlers counted by d.active, and by d.wg.
Counted == HandlerState \ {"none", "backlog", "accepted", "left", "gone"}
Waited  == Counted \cup {"left"}

\* The daemon has closed its end of the connection.
HungUp == {"stopping", "leave", "left", "gone"}

\* The states of a daemon process in which its tsnet server exists, and in
\* which it is between taking the lock and giving it back.
NodeStates == {"bringup", "up", "probed", "bind", "run", "adding", "drain", "down"}
LockStates == NodeStates \cup {"unlock"}

Alive(p) == pc[p] \notin {"off", "exited"}
Answering == sockFile # NoProc /\ svc[sockFile]

TypeOK ==
    /\ cmd \in [Client -> CmdState]
    /\ hup \subseteq Client
    /\ at \in [Client -> Proc \cup {NoProc}]
    /\ h \in [Client -> HandlerState]
    /\ reply \in [Client -> {"none", "Connected", "Serving", "Stopping", "Error"}]
    /\ lock \in Proc \cup {NoProc} /\ sockFile \in Proc \cup {NoProc}
    /\ creds \in BOOLEAN
    /\ pc \in [Proc -> ProcState] /\ svc \in [Proc -> BOOLEAN]
    /\ active \in [Proc -> Nat]
    /\ timer \in [Proc -> {"armed", "stopped"}]
    /\ fired \in [Proc -> {"no", "fresh", "stale"}]
    /\ serving \in [Proc -> BOOLEAN]
    /\ ln \in [Proc -> Client \cup {NoClient}]
    /\ logc \in [Proc -> Client \cup {NoClient}]
    /\ sessions \in [Proc -> Nat] /\ crashes \in Nat

Init ==
    /\ cmd = [c \in Client |-> "new"] /\ hup = {}
    /\ at = [c \in Client |-> NoProc] /\ h = [c \in Client |-> "none"]
    /\ reply = [c \in Client |-> "none"]
    /\ lock = NoProc /\ sockFile = NoProc /\ creds = LoggedIn
    /\ pc = [p \in Proc |-> "off"] /\ svc = [p \in Proc |-> FALSE]
    /\ active = [p \in Proc |-> 0]
    /\ timer = [p \in Proc |-> "stopped"] /\ fired = [p \in Proc |-> "no"]
    /\ serving = [p \in Proc |-> FALSE]
    /\ ln = [p \in Proc |-> NoClient] /\ logc = [p \in Proc |-> NoClient]
    /\ sessions = [p \in Proc |-> 0] /\ crashes = 0

-----------------------------------------------------------------------------
(* The mote commands: daemonConn, startDaemon, daemonDial, daemonServe,     *)
(* daemonStop.                                                             *)

\* A successful net.Dial of the service socket.  The request is written at
\* once and needs no step: it waits in the socket until the daemon reads it.
Reach(c) ==
    /\ Answering
    /\ cmd' = [cmd EXCEPT ![c] = "wait"]
    /\ at' = [at EXCEPT ![c] = sockFile]
    /\ h' = [h EXCEPT ![c] = "backlog"]
    /\ UNCHANGED <<hup, reply, dirVars, procVars, pc, crashes>>

\* The first net.Dial: daemonConn goes on to startDaemon when nothing
\* answers, daemonStop reports that no daemon is running and returns.
Connect(c) ==
    /\ cmd[c] = "new"
    /\ \/ Reach(c)
       \/ /\ ~Answering
          /\ cmd' = [cmd EXCEPT ![c] = IF c \in Stoppers THEN "done" ELSE "start"]
          /\ UNCHANGED <<hup, connVars, dirVars, procVars, pc, crashes>>

\* tailLogin: without credentials, prompt and bring the node up right here.
Login(c) ==
    /\ cmd[c] = "start" /\ ~creds
    /\ cmd' = [cmd EXCEPT ![c] = "login"]
    /\ UNCHANGED <<hup, connVars, dirVars, procVars, pc, crashes>>

\* tsnet writes its state file before Up has returned.
LoginStores(c) ==
    /\ cmd[c] = "login" /\ ~creds
    /\ creds' = TRUE
    /\ UNCHANGED <<cmdVars, connVars, lock, sockFile, procVars, pc, crashes>>

\* Up returns, well or not, and the deferred srv.Close takes the node down.
LoginEnds(c) ==
    /\ cmd[c] = "login"
    /\ \/ creds /\ cmd' = [cmd EXCEPT ![c] = "start"]
       \/ cmd' = [cmd EXCEPT ![c] = "failed"]
    /\ UNCHANGED <<hup, connVars, dirVars, procVars, pc, crashes>>

\* The rest of startDaemon: run "mote tail-daemon" and do not wait for it.
StartDaemon(c) ==
    /\ cmd[c] = "start" /\ creds
    /\ cmd' = [cmd EXCEPT ![c] = "poll"]
    /\ \E p \in Proc : pc[p] = "off" /\ pc' = [pc EXCEPT ![p] = "spawned"]
    /\ UNCHANGED <<hup, connVars, dirVars, procVars, crashes>>

\* One round of the dial loop of daemonConn that finds the socket.
Poll(c) == cmd[c] = "poll" /\ Reach(c)

\* The round that fails after the deadline.  When starts are Healthy the
\* minute has not passed while a daemon is still on its way to its socket.
OnItsWay(p) == pc[p] \in {"spawned", "bringup", "up", "probed", "bind"}
PollTimeout(c) ==
    /\ cmd[c] = "poll" /\ ~Answering
    /\ Healthy => \A p \in Proc : ~OnItsWay(p)
    /\ cmd' = [cmd EXCEPT ![c] = "timedout"]
    /\ UNCHANGED <<hup, connVars, dirVars, procVars, pc, crashes>>

\* The response arrives.  A Stop command, or one that got an Error, closes
\* the connection and is finished.
Receive(c) ==
    /\ cmd[c] = "wait" /\ reply[c] # "none"
    /\ reply' = [reply EXCEPT ![c] = "none"]
    /\ IF reply[c] \in {"Connected", "Serving"}
         THEN cmd' = [cmd EXCEPT ![c] = "open"] /\ UNCHANGED hup
         ELSE /\ cmd' = [cmd EXCEPT ![c] = IF reply[c] = "Error" THEN "failed" ELSE "done"]
              /\ hup' = hup \cup {c}
    /\ UNCHANGED <<at, h, dirVars, procVars, pc, crashes>>

\* A hangup before the reply.  daemonDial means to go round once more here,
\* but the err it tests is not the one that the inner := has set: it is nil,
\* and the empty response is an "unexpected response type".
Hangup(c) ==
    /\ cmd[c] = "wait" /\ reply[c] = "none" /\ h[c] \in HungUp
    /\ cmd' = [cmd EXCEPT ![c] = "failed"]
    /\ hup' = hup \cup {c}
    /\ UNCHANGED <<connVars, dirVars, procVars, pc, crashes>>

\* The command is over, or interrupted: it closes its end.
Finish(c) ==
    /\ cmd[c] \in {"wait", "open"}
    /\ cmd' = [cmd EXCEPT ![c] = "done"]
    /\ hup' = hup \cup {c}
    /\ UNCHANGED <<connVars, dirVars, procVars, pc, crashes>>

\* The daemon closes a connection that was in use.
Lost(c) ==
    /\ cmd[c] = "open" /\ h[c] \in HungUp
    /\ cmd' = [cmd EXCEPT ![c] = "failed"]
    /\ hup' = hup \cup {c}
    /\ UNCHANGED <<connVars, dirVars, procVars, pc, crashes>>

-----------------------------------------------------------------------------
(* The life of a daemon process: runDaemon, newDaemon, listenService, run.  *)

\* Mutant of TakeLock: errLocked is ignored.
TakeLockUnchecked(p) ==
    /\ pc[p] = "spawned"
    /\ lock' = IF lock = NoProc THEN p ELSE lock
    /\ pc' = [pc EXCEPT ![p] = "bringup"]
    /\ UNCHANGED <<cmdVars, connVars, sockFile, creds, procVars, crashes>>

\* lockFile: a second daemon exits quietly.
TakeLock(p) ==
    /\ pc[p] = "spawned"
    /\ IF HasLock
         THEN IF lock = NoProc
                THEN lock' = p /\ pc' = [pc EXCEPT ![p] = "bringup"]
                ELSE UNCHANGED lock /\ pc' = [pc EXCEPT ![p] = "exited"]
         ELSE UNCHANGED lock /\ pc' = [pc EXCEPT ![p] = "bringup"]
    /\ UNCHANGED <<cmdVars, connVars, sockFile, creds, procVars, crashes>>

\* srv.Up succeeds, or there are no credentials or it fails: close and exit.
BringUp(p) ==
    /\ pc[p] = "bringup"
    /\ \/ creds /\ pc' = [pc EXCEPT ![p] = "up"]
       \/ ~Healthy /\ pc' = [pc EXCEPT ![p] = "unlock"]
    /\ UNCHANGED <<cmdVars, connVars, dirVars, procVars, crashes>>

\* listenService dials the socket first and leaves one that answers alone.
\* (Such a probe is itself accepted and counted by the daemon that answers, and
\* starts its idle timer anew; only without locks is there one to answer, and
\* then the probe only looks.)  It
Probe(p) ==
    /\ pc[p] = "up"
    /\ pc' = [pc EXCEPT ![p] = IF Answering THEN "down" ELSE "probed"]
    /\ UNCHANGED <<cmdVars, connVars, dirVars, procVars, crashes>>

\* removes the file otherwise,
RemoveStale(p) ==
    /\ pc[p] = "probed"
    /\ sockFile' = NoProc
    /\ pc' = [pc EXCEPT ![p] = "bind"]
    /\ UNCHANGED <<cmdVars, connVars, lock, creds, procVars, crashes>>

\* and binds it, which fails if the file is there again.  newDaemon arms
\* the idle timer.
Bind(p) ==
    /\ pc[p] = "bind"
    /\ IF sockFile = NoProc
         THEN /\ sockFile' = p
              /\ svc' = [svc EXCEPT ![p] = TRUE]
              /\ timer' = [timer EXCEPT ![p] = "armed"]
              /\ pc' = [pc EXCEPT ![p] = "run"]
         ELSE /\ pc' = [pc EXCEPT ![p] = "down"]
              /\ UNCHANGED <<sockFile, svc, timer>>
    /\ UNCHANGED <<cmdVars, connVars, lock, creds, active, fired, serving,
                   ln, logc, sessions, crashes>>

Accept(p, c) ==
    /\ pc[p] = "run" /\ svc[p]
    /\ at[c] = p /\ h[c] = "backlog"
    /\ h' = [h EXCEPT ![c] = "accepted"]
    /\ pc' = [pc EXCEPT ![p] = "adding"]
    /\ UNCHANGED <<cmdVars, at, reply, dirVars, procVars, crashes>>

\* Mutant of AddClient: d.add(1) is forgotten.
AddClientUncounted(p, c) ==
    /\ pc[p] = "adding"
    /\ at[c] = p /\ h[c] = "accepted"
    /\ h' = [h EXCEPT ![c] = "read"]
    /\ pc' = [pc EXCEPT ![p] = "run"]
    /\ UNCHANGED <<cmdVars, at, reply, dirVars, procVars, crashes>>

\* d.add(1), d.wg.Add(1) and the go statement.  idle.Stop does not catch an
\* expire that has already fired and waits for d.mu.
AddClient(p, c) ==
    /\ pc[p] = "adding"
    /\ at[c] = p /\ h[c] = "accepted"
    /\ h' = [h EXCEPT ![c] = "read"]
    /\ active' = [active EXCEPT ![p] = @ + 1]
    /\ timer' = [timer EXCEPT ![p] = IF active'[p] > 0 THEN "stopped" ELSE "armed"]
    /\ fired' = [fired EXCEPT ![p] = IF @ = "fresh" THEN "stale" ELSE @]
    /\ pc' = [pc EXCEPT ![p] = "run"]
    /\ UNCHANGED <<cmdVars, at, reply, dirVars, svc, serving, ln, logc,
                   sessions, crashes>>

\* The listener is closed: Accept fails and run waits for the clients.
AcceptFails(p) ==
    /\ pc[p] = "run" /\ ~svc[p]
    /\ pc' = [pc EXCEPT ![p] = "drain"]
    /\ UNCHANGED <<cmdVars, connVars, dirVars, procVars, crashes>>

\* Mutant of Drained: run returns without d.wg.Wait.
DrainedAtOnce(p) ==
    /\ pc[p] = "drain"
    /\ timer' = [timer EXCEPT ![p] = "stopped"]
    /\ pc' = [pc EXCEPT ![p] = "down"]
    /\ UNCHANGED <<cmdVars, connVars, dirVars, svc, active, fired, serving,
                   ln, logc, sessions, crashes>>

\* d.wg.Wait returns; the deferred idle.Stop runs, svc.Close has nothing to do.
Drained(p) ==
    /\ pc[p] = "drain"
    /\ \A c \in Client : at[c] = p => h[c] \notin Waited
    /\ timer' = [timer EXCEPT ![p] = "stopped"]
    /\ pc' = [pc EXCEPT ![p] = "down"]
    /\ UNCHANGED <<cmdVars, connVars, dirVars, svc, active, fired, serving,
                   ln, logc, sessions, crashes>>

\* The deferred tn.Close takes the node, and every session on it, down.
TearDown(p) ==
    /\ pc[p] = "down"
    /\ sessions' = [sessions EXCEPT ![p] = 0]
    /\ pc' = [pc EXCEPT ![p] = "unlock"]
    /\ UNCHANGED <<cmdVars, connVars, dirVars, svc, active, timer, fired,
                   serving, ln, logc, crashes>>

\* The deferred lock.Close, and the process is gone with its goroutines.
Exit(p) ==
    /\ pc[p] = "unlock"
    /\ lock' = IF lock = p THEN NoProc ELSE lock
    /\ fired' = [fired EXCEPT ![p] = "no"]
    /\ pc' = [pc EXCEPT ![p] = "exited"]
    /\ UNCHANGED <<cmdVars, connVars, sockFile, creds, svc, active, timer,
                   serving, ln, logc, sessions, crashes>>

\* The process dies.  The kernel drops the lock and the connections; the
\* socket file stays behind.
Crash(p) ==
    /\ Alive(p) /\ crashes < MaxCrashes
    /\ crashes' = crashes + 1
    /\ pc' = [pc EXCEPT ![p] = "exited"]
    /\ lock' = IF lock = p THEN NoProc ELSE lock
    /\ h' = [c \in Client |-> IF at[c] = p THEN "gone" ELSE h[c]]
    /\ svc' = [svc EXCEPT ![p] = FALSE]
    /\ active' = [active EXCEPT ![p] = 0]
    /\ timer' = [timer EXCEPT ![p] = "stopped"]
    /\ fired' = [fired EXCEPT ![p] = "no"]
    /\ serving' = [serving EXCEPT ![p] = FALSE]
    /\ ln' = [ln EXCEPT ![p] = NoClient]
    /\ logc' = [logc EXCEPT ![p] = NoClient]
    /\ sessions' = [sessions EXCEPT ![p] = 0]
    /\ UNCHANGED <<cmdVars, at, reply, sockFile, creds>>

-----------------------------------------------------------------------------
(* The idle timer.                                                         *)

\* d.svc.Close: the first close also unlinks the socket file, whoever bound
\* it.  Connections that were never accepted are reset.
CloseSvc(p, hh) ==
    /\ svc' = [svc EXCEPT ![p] = FALSE]
    /\ sockFile' = IF svc[p] THEN NoProc ELSE sockFile
    /\ h' = [c \in Client |-> IF at[c] = p /\ hh[c] = "backlog" THEN "gone" ELSE hh[c]]

\* daemonIdleTimeout passes on an armed timer; expire starts in a goroutine.
Fire(p) ==
    /\ Alive(p) /\ timer[p] = "armed" /\ fired[p] = "no"
    /\ timer' = [timer EXCEPT ![p] = "stopped"]
    /\ fired' = [fired EXCEPT ![p] = "fresh"]
    /\ UNCHANGED <<cmdVars, connVars, dirVars, svc, active, serving, ln,
                   logc, sessions, pc, crashes>>

\* Mutant of Expire: it returns when active >= 0.
ExpireNever(p) ==
    /\ fired[p] # "no"
    /\ fired' = [fired EXCEPT ![p] = "no"]
    /\ UNCHANGED <<cmdVars, connVars, dirVars, svc, active, timer, serving,
                   ln, logc, sessions, pc, crashes>>

\* expire gets d.mu.
Expire(p) ==
    /\ fired[p] # "no"
    /\ fired' = [fired EXCEPT ![p] = "no"]
    /\ IF active[p] > 0 THEN UNCHANGED <<svc, sockFile, h>> ELSE CloseSvc(p, h)
    /\ UNCHANGED <<cmdVars, at, reply, lock, creds, active, timer, serving,
                   ln, logc, sessions, pc, crashes>>

-----------------------------------------------------------------------------
(* The handler goroutine of one command: client, dial, serve, add.          *)

Goto(c, s) == h' = [h EXCEPT ![c] = s]
Answer(c, r) == reply' = [reply EXCEPT ![c] = r]
DaemonOnly == UNCHANGED <<cmdVars, at, dirVars, pc, crashes>>

\* readPacket fails because the command is gone, or returns its request.
ReadRequest(c) ==
    /\ h[c] = "read"
    /\ \/ c \in hup /\ Goto(c, "leave") /\ UNCHANGED reply
       \/ c \in Dialers /\ Goto(c, "dial1") /\ UNCHANGED reply
       \/ c \in Servers /\ Goto(c, "register") /\ UNCHANGED reply
       \/ c \in Stoppers /\ Goto(c, "stopping") /\ Answer(c, "Stopping")
    /\ DaemonOnly /\ UNCHANGED procVars

\* dialNet, then the Connected response: the write fails if the command is
\* gone, and the new connection is closed again.
DialSucceeds(c) ==
    /\ h[c] \in {"dial1", "dial2"}
    /\ IF c \in hup THEN Goto(c, "leave") /\ UNCHANGED reply
                    ELSE Goto(c, "proxy") /\ Answer(c, "Connected")
    /\ DaemonOnly /\ UNCHANGED procVars

\* Mutant of DialFails: the loop of dialNet has no bound.
DialFailsForever(c) ==
    /\ \/ h[c] = "dial1" /\ Goto(c, "dial2")
       \/ h[c] = "dial2" /\ Goto(c, "dial1")
    /\ DaemonOnly /\ UNCHANGED <<reply, procVars>>

\* One attempt fails or runs into daemonDialTimeout; the second one ends it.
DialFails(c) ==
    /\ \/ h[c] = "dial1" /\ Goto(c, "dial2") /\ UNCHANGED reply
       \/ h[c] = "dial2" /\ Goto(c, "leave") /\ Answer(c, "Error")
    /\ DaemonOnly /\ UNCHANGED procVars

\* proxy returns when the command or the remote server hangs up.
ProxyEnds(c) ==
    /\ h[c] = "proxy"
    /\ Goto(c, "leave")
    /\ DaemonOnly /\ UNCHANGED <<reply, procVars>>

\* serve, first half, under d.mu: refused while another server is
\* registered, or when Listen fails; a listener that is still open makes it
\* fail, and so may the tailnet.
Register(c) ==
    LET p == at[c] IN
    /\ h[c] = "register"
    /\ \/ /\ ~serving[p] /\ ln[p] = NoClient
          /\ serving' = [serving EXCEPT ![p] = TRUE]
          /\ ln' = [ln EXCEPT ![p] = c]
          /\ Goto(c, "registered") /\ UNCHANGED reply
       \/ /\ Goto(c, "leave") /\ Answer(c, "Error")
          /\ UNCHANGED <<serving, ln>>
    /\ DaemonOnly /\ UNCHANGED <<svc, active, timer, fired, logc, sessions>>

\* The Serving response, d.log.attach and go serveListener.
Announce(c) ==
    /\ h[c] = "registered"
    /\ IF c \in hup
         THEN Goto(c, "unregister") /\ UNCHANGED <<reply, logc>>
         ELSE /\ Goto(c, "listening") /\ Answer(c, "Serving")
              /\ logc' = [logc EXCEPT ![at[c]] = c]
    /\ DaemonOnly
    /\ UNCHANGED <<svc, active, timer, fired, serving, ln, sessions>>

\* readPacket fails: the mote server has hung up.
ServerGone(c) ==
    /\ h[c] = "listening" /\ c \in hup
    /\ Goto(c, "unregister")
    /\ DaemonOnly /\ UNCHANGED <<reply, procVars>>

\* The deferred function of serve: clear serving under d.mu,
Unregister(c) ==
    /\ h[c] = "unregister"
    /\ serving' = [serving EXCEPT ![at[c]] = FALSE]
    /\ Goto(c, "unlisten")
    /\ DaemonOnly
    /\ UNCHANGED <<reply, svc, active, timer, fired, ln, logc, sessions>>

\* close the tailnet listener,
Unlisten(c) ==
    /\ h[c] = "unlisten"
    /\ ln' = [ln EXCEPT ![at[c]] = NoClient]
    /\ Goto(c, "detach")
    /\ DaemonOnly
    /\ UNCHANGED <<reply, svc, active, timer, fired, serving, logc, sessions>>

\* Mutant of Detach: l.c is cleared whoever it belongs to.
DetachAlways(c) ==
    /\ h[c] = "detach"
    /\ logc' = [logc EXCEPT ![at[c]] = NoClient]
    /\ Goto(c, "leave")
    /\ DaemonOnly
    /\ UNCHANGED <<reply, svc, active, timer, fired, serving, ln, sessions>>

\* and detach from the log, unless another server has attached since.
Detach(c) ==
    /\ h[c] = "detach"
    /\ logc' = [logc EXCEPT ![at[c]] = IF @ = c THEN NoClient ELSE @]
    /\ Goto(c, "leave")
    /\ DaemonOnly
    /\ UNCHANGED <<reply, svc, active, timer, fired, serving, ln, sessions>>

\* d.stop, after the response has been written and the connection closed.
Stop(c) ==
    /\ h[c] = "stopping"
    /\ CloseSvc(at[c], [h EXCEPT ![c] = "leave"])
    /\ UNCHANGED <<cmdVars, at, reply, lock, creds, active, timer, fired,
                   serving, ln, logc, sessions, pc, crashes>>

\* Mutant of Leave: the last client does not arm the timer again.
LeaveUnarmed(c) ==
    /\ h[c] = "leave"
    /\ active' = [active EXCEPT ![at[c]] = @ - 1]
    /\ Goto(c, "left")
    /\ DaemonOnly
    /\ UNCHANGED <<reply, svc, timer, fired, serving, ln, logc, sessions>>

\* The deferred d.add(-1).
Leave(c) ==
    LET p == at[c] IN
    /\ h[c] = "leave"
    /\ active' = [active EXCEPT ![p] = @ - 1]
    /\ timer' = [timer EXCEPT ![p] = IF active'[p] > 0 THEN "stopped" ELSE "armed"]
    /\ Goto(c, "left")
    /\ DaemonOnly
    /\ UNCHANGED <<reply, svc, fired, serving, ln, logc, sessions>>

\* The deferred d.wg.Done.
WgDone(c) ==
    /\ h[c] = "left"
    /\ Goto(c, "gone")
    /\ DaemonOnly /\ UNCHANGED <<reply, procVars>>

\* serveListener starts a session for a remote client, and one ends.
SessionStarts(p) ==
    /\ pc[p] \in NodeStates /\ ln[p] # NoClient /\ h[ln[p]] \in {"listening", "unregister", "unlisten"}
    /\ sessions[p] < MaxSessions
    /\ sessions' = [sessions EXCEPT ![p] = @ + 1]
    /\ UNCHANGED <<cmdVars, connVars, dirVars, svc, active, timer, fired,
                   serving, ln, logc, pc, crashes>>

SessionEnds(p) ==
    /\ sessions[p] > 0
    /\ sessions' = [sessions EXCEPT ![p] = @ - 1]
    /\ UNCHANGED <<cmdVars, connVars, dirVars, svc, active, timer, fired,
                   serving, ln, logc, pc, crashes>>

-----------------------------------------------------------------------------
\* The code a command runs by itself; what the user decides is in User(c).
Command(c) ==
    \/ Connect(c) \/ Login(c) \/ LoginStores(c) \/ LoginEnds(c)
    \/ StartDaemon(c) \/ Poll(c) \/ PollTimeout(c) \/ Receive(c)
    \/ Hangup(c) \/ Lost(c)
User(c) == Finish(c)

Handler(c) ==
    \/ ReadRequest(c) \/ DialSucceeds(c) \/ DialFails(c)
    \/ Register(c) \/ Announce(c) \/ ServerGone(c) \/ Unregister(c)
    \/ Unlisten(c) \/ Detach(c) \/ Stop(c) \/ Leave(c) \/ WgDone(c)

Main(p) ==
    \/ TakeLock(p) \/ BringUp(p) \/ Probe(p) \/ RemoveStale(p) \/ Bind(p)
    \/ \E c \in Client : Accept(p, c) \/ AddClient(p, c)
    \/ AcceptFails(p) \/ Drained(p) \/ TearDown(p) \/ Exit(p)

Idle(p) == Fire(p) \/ Expire(p)
Remote(p) == SessionStarts(p) \/ SessionEnds(p)

Next ==
    \/ \E c \in Client : Command(c) \/ User(c) \/ Handler(c) \/ ProxyEnds(c)
    \/ \E p \in Proc : Main(p) \/ Idle(p) \/ Remote(p) \/ Crash(p)

Spec == Init /\ [][Next]_vars

\* What runs by itself goes on: the Go scheduler runs every goroutine, time
\* passes, and proxy ends once the command has hung up.  Users, remote
\* sessions and crashes promise nothing.
Fairness ==
    /\ \A c \in Client : WF_vars(Command(c)) /\ WF_vars(Handler(c))
    /\ \A c \in Client : WF_vars(c \in hup /\ ProxyEnds(c))
    /\ \A p \in Proc : WF_vars(Main(p)) /\ WF_vars(Idle(p))
FairSpec == Spec /\ Fairness

\* With the assumption that every open connection is closed some day.
LiveSpec == FairSpec /\ \A c \in Client : WF_vars(cmd[c] = "open" /\ User(c))

-----------------------------------------------------------------------------
(* Properties.                                                             *)

HasNode(p) == pc[p] \in NodeStates
Returned(c) == cmd[c] \in {"done", "failed", "timedout"}

\* runDaemon: "two tsnet servers sharing a state directory would corrupt
\* it".  No two daemon processes have the node up at once, whatever starts,
\* retries and crashes come before.
OneNode == \A p, q \in Proc : HasNode(p) /\ HasNode(q) => p = q

\* The same for every tsnet server, the one of a login included.
OneServer ==
    /\ OneNode
    /\ \A c, d \in Client : cmd[c] = "login" /\ cmd[d] = "login" => c = d
    /\ \A c \in Client, p \in Proc : ~(cmd[c] = "login" /\ HasNode(p))

\* run waits "before the caller tears the network down under them": from
\* the moment a connection is accepted to the end of its handler the
\* daemon's node is up and its process has not begun to take it down, even
\* when a stop or the idle timer closes the socket between Accept and add.
ServedBeforeTeardown ==
    \A c \in Client : h[c] \in Waited \cup {"accepted"} =>
        at[c] \in Proc /\ pc[at[c]] \in {"run", "adding", "drain"}

\* The commands whose handlers daemon p counts.
Connected(p) == {c \in Client : at[c] = p /\ h[c] \in Counted}

\* add and expire between them keep the idle timer in step with the count:
\* the count is that of the running handlers, the timer does not run down
\* while a command is connected, and a daemon open for commands with none
\* connected always has the timer, or the expire it started, on its way.
IdleTimerInStep ==
    \A p \in Proc :
        /\ active[p] = Cardinality(Connected(p))
        /\ active[p] > 0 => timer[p] = "stopped"
        /\ svc[p] /\ active[p] = 0 => timer[p] = "armed" \/ fired[p] # "no"

\* A daemon that is open for commands can be found: the file at the path of
\* the service socket is its own, so no other daemon has unlinked it.
OpenIsReachable == \A p \in Proc : svc[p] => sockFile = p

\* serve: the mote server that is listening on the tailnet is the only one,
\* and it is the one that receives the daemon's log, though the previous
\* server detaches after it has let the next one register.
LogGoesToServer ==
    \A c \in Client : h[c] = "listening" =>
        /\ ln[at[c]] = c /\ serving[at[c]] /\ logc[at[c]] = c

\* The abstract node: its owner is the process that holds the lock with the
\* node up, and it serves the commands whose handler the daemon waits for.
owner == IF lock # NoProc /\ HasNode(lock) THEN lock ELSE NoProc
served == {c \in Client : h[c] \in Waited}
Shared == INSTANCE SharedNode

\* The daemon implements the shared node: one owner at a time, commands
\* served by it alone, and given up only when it serves nobody.
ImplementsSharedNode == Shared!Spec

\* Every command returns once its user is done with its connection: the
\* dial loop, the dial timeouts, the hangups and the listener's close leave
\* none of them waiting for ever.
CommandsReturn == \A c \in Client : cmd[c] = "new" ~> Returned(c)

\* "The daemon exits after daemonIdleTimeout with nothing to do."  Once its
\* commands have gone, every daemon exits and gives the lock back.
DaemonsExit == \A p \in Proc : Alive(p) ~> ~Alive(p)

\* The daemon's books are right: counters and states keep their types, the
\* count of commands is that of their handlers, and the idle timer follows it.
CountsInStep == TypeOK /\ IdleTimerInStep

\* There is one node, and a daemon that is open for commands is the one that
\* a command finds at the socket's path.
OneReachableNode == OneNode /\ OpenIsReachable

-----------------------------------------------------------------------------
(* What comments and documents say of the program, and it does not do.      *)

\* daemonDial: "a hangup before the reply is worth one retry: the second
\* attempt starts a fresh daemon."
HangupIsRetried ==
    [][\A c \in Dialers :
        cmd[c] = "wait" /\ reply[c] = "none" => cmd'[c] # "failed"]_vars

\* "The first mote that needs the tailnet starts the daemon; later motes
\* find it": with bring-ups that succeed within the minute and no crash, no
\* command gives up waiting for the daemon it has started.
StartSucceeds == \A c \in Client : cmd[c] # "timedout"

\* protocol.md: on Stop "the daemon answers with a response of type Stopping
\* and then exits, cutting off any other connected clients."
StopExits ==
    \A c \in Client, p \in Proc : (h[c] = "stopping" /\ at[c] = p) ~> ~Alive(p)

\* protocol.md: when the mote server hangs up, "sessions already running are
\* left to finish".
SessionsFinish ==
    [][\A p \in Proc : pc[p] = "down" /\ pc'[p] = "unlock" => sessions[p] = 0]_vars

\* lock_other.go: without file locks two daemons "are still reduced to one
\* by the socket bind in listenService".
BindReducesToOne ==
    \A p, q \in Proc : pc[p] = "run" /\ pc[q] = "run" => p = q

\* "expire shuts the daemon down after daemonIdleTimeout with no clients":
\* not when a client has come and gone since the timer went off.
ExpireMeansIdle ==
    [][\A p \in Proc : fired[p] = "stale" => svc'[p] = svc[p]]_vars
=============================================================================
