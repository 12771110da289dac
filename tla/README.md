# A verification of rsc/cmd in TLA+

This directory holds TLA+ models of the programs of this repository, the
configurations that check them with TLC on small instances, and theorems about
them that the TLA+ proof system (TLAPS) checks. `PROJECT.json` lists the
components, the runs, which source lines every definition stands for, the
findings, the hazards and the theorems.

To check a run: `tlc -config TailSafe.cfg MCTailDaemon.tla`. To check the
proofs: `tlapm TailDaemonProofs.tla`.

## 1. The system

| part | state it keeps | operations | what makes it hard |
|---|---|---|---|
| `mote/taildaemon.go`, `lock_*.go` | the Tailscale daemon: lock file, service socket, node, count of commands, idle timer, registered server | dial, serve, stop, accept, expire | several processes sharing a directory, crashes, timers that fire late, three-step bind |
| `mote/client.go`, `server.go` | one remote command: process, pipes, streams of packets | start, input, output, signals, exit | six goroutines, exits that race with signals and hangups |
| `mote/cache.go` | a directory of files named by content hash, used by all sessions | find, write, rename, touch, clean | cleaning races with use, partial writes, concurrent writers |
| `mote/upload.go` | the list of files to send and the lazily opened stream of them | upload list, stream | files that change under the reader, file descriptors |
| `mote/config.go` | alias and password files in the user's configuration directory | read, set, remove | read-modify-write by several processes, a shared temporary file |
| `mote/server.go`, `tcp.go` | the listener and its session slots | accept, back off, serve | limits, temporary errors, silent clients |
| `mote/handshake.go`, `hex.go`, `packet.go` | framing of a byte stream | preamble, hello, hex transport, packets | limits and boundaries |
| `mote/secure.go`, `internal/cpace`, `internal/noise` | record keys and nonces | handshake, seal, open | state after an error |
| `mote/dial.go`, `ssh.go`, `pty.go` | a child process that carries the connection | dial, close, abort | waiting for a child that does not exit |
| `mote/gomote.go`, `gosetup.go`, `close.go` | remote instances | list, create, ping, destroy | check then act, several failures |
| `mote/tail.go`, `config.go`, `osarch.go` | names | resolution of a server's name | ambiguity |
| `benchlab` | machines, builds and benchmark results | connect, build, run in parallel | parallel loops over shared state, git checkouts |
| `git-foreach` | a working tree moved from commit to commit | run, interrupt, restore | signals racing with the child and with cleanup |
| `gofixerr` | an edit buffer | queue edits, apply | overlapping edits |
| `mdweb`, `sleep`, `rdate` | little | | |
| `c2gofmt/internal/cc` | the file's words, a parser's stack, scopes, the words taken for types | lex, shift, reduce, infer a type, read again, print as C | precedences, a word that is a type in one file and a name in another, retries |
| `c2gofmt` | a syntax tree | parse, rewrite, simplify, rename, move, print as Go | effects inside expressions, fallthrough, scopes: what is printed must do what the C does |

How they interact: a mote client resolves a server's name (config, tail), dials it
(tcp with the secure layer, a child process with the hex transport, or the
daemon's socket), and then runs the session protocol over packets; the server
side of the session reads and fills the cache; the daemon runs the same sessions
on behalf of `mote serve`. benchlab uses mote as a child process, one
connection per machine; git-foreach and c2gofmt stand alone.

The properties looked for in each part are those a unit test would hardly reach:
they are listed as hazards in `PROJECT.json`, each at the line where it bites and
with the properties that cover it.

## 2. The modules

| module | stands for | abstract specification or reference | checked by | proofs |
|---|---|---|---|---|
| `TailDaemon` | `mote/taildaemon.go`, `lock_*.go`, `tail.go` (login) | `SharedNode` | `MCTailDaemon`: TailSafe, TailLive, TailHangup | `TailDaemonProofs` |
| `Session` | `mote/client.go` (Run), `server.go` (serve) | `RemoteRun` | SessionRun | `SessionProofs` |
| `Cache` | `mote/cache.go`, `server.go` (serve), `close.go` (clean) | | `MCCache`: CacheShare | `CacheProofs` |
| `ConfigFile` | `mote/config.go`, `client.go` (automatic alias) | `AtomicMap` | `MCConfigFile`: ConfigShare | `ConfigProofs` |
| `Wire` | `mote/packet.go`, `hex.go`, `secure.go` (stream) | `PacketQueue` | `MCWire`: WireQueue | `TransportProofs` |
| `Handshake` | `mote/server.go` (listener), `dial.go` (clientConn), `handshake.go`, `secure.go` | | `MCHandshake`: Handshakes | `HandshakeProofs` |
| `Gomote` | `mote/gomote.go`, `dial.go` (procConn), `close.go` | | `MCGomote`: GomoteRun | `TransportProofs` |
| `LabBuild`, `Lab` | `benchlab`: `build.go`, `git.go`, `lab.go`; `bench.go`, `machine.go` | | `MCLab`: LabRun | `LabProofs` |
| `GitForeach` | `git-foreach/main.go` | | `MCGitForeach`: ForeachRun | `ForeachProofs` |
| `CTree`, `CParse`, `CPrint` | `c2gofmt/internal/cc` | `Reading` | `MCC2go`: C2goRun | |
| `GoSyntax`, `GoPasses`, `GoDecls`, `GoPrint`, `C2go` | `c2gofmt`: `syntax.go`, `rename.go`, `decls.go`, `printer.go`, `main.go` | `Machine` | `MCC2go`: C2goRun | |

All of them follow one convention. A process, goroutine or command has a program
counter; its values name what it is about to do. A step is what nothing else can
come between: a critical section, a system call on shared state, a packet, the
closing of a channel. Definitions keep the names of the code where it has one.
Definitions marked "mutant" in their comment ("Mutant of", "A mutant of") are not part of the
specifications: each is the definition named, changed the way a plausible bug would
change it, and the property listed with it in `PROJECT.json` fails when it takes
that definition's place. That is how the project knows the property looks at the
code.

A property that a run lists is often the conjunction of named parts, each with a
comment of its own next to it: `CountsInStep` is types and the idle timer's book-keeping,
`EndsClean` is what must hold of git-foreach when it ends, and so on. The parts are what
the proofs work with.

### TailDaemon

Actors are mote commands (`cmd`: `daemonDial`, `daemonServe`, `daemonStop` and the
login before them), daemon processes (`pc`: `runDaemon` and `daemon.run`), in each
daemon the goroutine of every connected command (`h`: `daemon.handle` and its
callees) and of the idle timer (`timer`, `fired`). `lock`, `sockFile` and `creds` are
the three files of the node's directory; `svc`, `active`, `serving`, `ln`, `logc` are
the fields of `daemon` and `logFanout`.

- `Connect` .. `Lost` are a command: it dials the socket; if nobody answers it logs in
  when there are no credentials, starts a daemon and polls for a minute.
- `TakeLock` .. `Crash` are a daemon process. `listenService` is three steps,
  `Probe`, `RemoveStale`, `Bind`; the accept loop two, `Accept` and `AddClient`,
  because `d.add(1)` and `d.wg.Add(1)` come after `Accept` has returned.
- `Fire` is the runtime starting the timer's goroutine, `Expire` that goroutine
  getting `d.mu`. `timer.Stop` in between does not stop it: a fired timer
  is "fresh" until the count has changed and "stale" after that.
- `ReadRequest` .. `WgDone` are a handler. `Unregister`, `Unlisten` and `Detach` are
  the three separate steps in which a mote server lets go of the daemon, because
  `serving` is cleared before the listener is closed and the log detached.

With `HasLock = FALSE` the lock step always succeeds, as in `lock_other.go`.

### Session

`cl` is `Conn.Run`, `intr` the goroutine that forwards interrupts, `srv` is `serve`,
`watch` its watcher, `cp[s]` the `copyOutput` of a stream. `c2s` and `s2c` are the
packets on their way; `s2c` holds at most `NetCap`, so that output can block.
`status`, `alive`, `group`, `open`, `pipe` and `pid` are the command, a process it may
start, their process group, who holds the write ends of the pipes, and who has the
command's pid. `exited` is the channel of that name. A command's Wait
(`Wait`), the close of `exited` (`CloseExited`), the watcher's test of it
(`WatchChecks`) and its kill (`WatchKills`) are separate steps, as in the code. Every
error path of `serve` before Start goes to "fail", from where `SendError` reports it.

The uploads of a session are one packet here; `Cache` has them in full.

### Cache

`file`, `mtime` and `dirs` are the directory; a name is a hash or the temporary file of
a session. `pc`, `cur`, `left`, `need` and `tree` are `serve` between Setup and Start,
with `inCache` (`Lookup`, `Touch`, `Looked`), `saveToCache` (`Mkdir`, `CreateTemp`,
`Receive`, `Rename`) and `copyFromCache` (`CopyOut`), each call of the operating system a
step. `Cutoff` .. `Cleaned` are `cleanCache`, which reads the directory and then
decides on one file after the other; `WipeFile`, `WipeDir` and `Wiped` are the
`RemoveAll` of mote clean, which meets the other steps in any order. `Die` is a server
process that dies in a session. The clock is `now`; ages are differences.

### ConfigFile

`file` and `tmp` are what the names `aliases.txt` and `aliases.txt.tmp` lead to: inodes,
because `os.WriteFile` truncates an inode that another process may have open or may
be renaming. `data[i]` is the map in an inode, `torn` the inodes whose text ends in
the rest of a longer one. A writer looks up (automatic alias only), reads, opens
and truncates, writes, renames; it may fail at the write, and die anywhere.

### Wire

One direction of a connection: `Lock`, `WriteSlice`, `Unlock` are `writePacket` and
`writePacketStream` with their mutex and their up to three Writes; `WriteSlice` and
`WriteRecord` also stand for the stream under them, which is chosen at the start: the
connection itself, `secureStream`, or `hexConn`. `ReadPlain`, `ReadRecord`,
`CopyRecord` and `ReadHex` are their Read methods, called with the buffers that
`readPacket` passes (`Want`: exactly the header, then exactly the JSON; any part of
the data, which the caller reads as a stream). `net` is what is between, byte by byte,
nonce by nonce, digit by digit. Lengths are scaled down: a header has one byte per
length, a record holds `MaxPlaintext` bytes, a line `HexLine`.

### Handshake

`where`, `sleeping` and `errors` are `serveListener`: a connection is dialled, queued,
accepted, and given a slot. Both sides of every connection then work through a script
(`ServerScript`, `ClientScript`): the Sends, Receives and deadline calls of `serve`
and `clientConn` and of the functions they call, in the order of the code. `SetDeadline`,
`Write`, `Read` and their failures interpret them. A message is its name and the password
its keys came from, so a message under a wrong key is one that fails to verify.
`Timeout` is a deadline; `Hang` a client that stops without hanging up; `Leave` one that
hangs up.

### Gomote

Several mote commands (`pc`) and one `mote close` (`closer`) share the gomote service:
`inst` and `group` are its instances and its group, which outlive them. `List` .. `Put`
are `dialGomote` up to the binary on the instance, each call of the gomote command one step,
so that two commands can both find no instance and both create one. `StartProc`, `Kill`,
`AbortDone` are `procConn` and its abort: `proc` is the gomote that was started, `helper` the
ssh that it starts, which holds standard error too, so that `Wait` waits for both.
`Hello` is the scan for the server's hello, of which every byte has a deadline; `Info` the
reading of the Info response, which has none any more, so that a server that falls silent
(`mute`) between the two is waited for. `way` is how the server is reached: a command
first and, if the handshake fails, a shell. After the session a client closes the connection
and waits (`SessionEnds`, `CloseDone`), or aborts it (`SessionFails`, `FatalDone`), or is
gone at once because the remote command was killed (`Quits`). `CloseEach` is `closeAll` and
`Destroy` one round of `destroyGomotes`; `found` remembers what `ToGomotes` has listed.
`Silent` and `Stuck` name the waits that nothing need end.

### LabBuild and Lab

`LabBuild` is one invocation up to its binaries: commits are resolved, hosts scanned, and
commit after commit is checked out (`head`) and compiled for every build configuration in
parallel (`builder[b]`, the goroutines of `parDo`) in the one work tree. `ref` is what the
deferred checkout returns to. `exe` are the binaries on disk, with the tree they came from.

`Lab` adds `runAll`: `Plan` makes the jobs in the code's order, takes from `cache` what is
there, and starts a goroutine per machine (`mpc`) that finds or creates its gomote once
for all (`once`, `motes`: `connectOnce` and `g.mu`), and lets jobs run up to the machine's
limit (`Launch`, `Await`, `Ran`, `Wrote`, `Collect`, `Report`). `Report` and `Plan` run
benchstat under the reporter's lock. `Crash` ends a process anywhere; the next one starts
on what is on disk: HEAD, binaries, cache, instances.

### GitForeach

`pc` is main: the clean check, the saved HEAD, the list, and for every revision checkout,
command and verdict. `start` is the HEAD that it finds, on the branch or detached.
`Handle` is the goroutine that waits for the first signal, notes it in
`sig` and passes it on to the command's process group; the command may end of it or run on
(`deaf`), since the signal can be caught. The command is a process with states, because
`Wait` reaps it and `proc` is cleared under the lock only later; `locked` is that lock, which a
git that fails in run1 leaves taken. A signal from the terminal may also
hit the git that main waits for (`hit`); after the first one the handlers are gone and
the next kills git-foreach. `Checkout` is git checkout, of a revision or back: it takes
modified files along or refuses, moves HEAD last, and may break off half way and leave a tree
of neither commit (`changed`).

### c2gofmt: CTree, CParse, CPrint

`CTree` are the trees of package cc: expressions, statements, types, declarations, and
what `Walk` visits. A declaration has a number, since pointers to one stand for identity.

`CParse` is the parser as yacc runs it: `stack`, one look-ahead token, `Shift`, and a
reduction for every production, chosen by the grammar's precedences (`Levels`, `Wins`) where
they decide. Productions with equal actions share a definition. The actions that keep
scopes and declare names are in it; so are the lexer's question whether a word is a type
(`Sym`), which looks at the scopes while the parser is running, and `SyntaxError` with the word
nearest to it, and `Retry`, main's loop, which starts the file again with that word taken
for a type. `ExprStmtEnd` and `LikelyTypes` are the inference for `T * x;`.

The tokens are elements of a set; a word is one token. Tables of the generated parser are
represented by the grammar that they are generated from (`cc.y`), its actions by the
code of `y.go`.

`CPrint` is `print.go`: the tokens that package cc writes of a tree.

### c2gofmt: GoSyntax, GoPasses, GoDecls, GoPrint, C2go

`GoSyntax` says what `rewriteSyntax` and `simplifyBool` do at one node: `Effects` is
`extractSideEffects`, which takes assignments, increments and `?:` out of an expression into
statements before and after, or closes them into a function literal where the operand
may not be evaluated; `FixForAndAnd`, `FixIfAndAnd`, `DoToFor`, `RewriteSwitch` rewrite
statements; `FixBool` makes conditions boolean. `GoDecls` is `renameDecls` and
`moveDecls`. `GoPasses` walks a program with each of them, in main's order, and retypes
indexed pointers as slices. `GoPrint` is the printer with Go's precedences. `C2go` is the
whole program as a state machine: reading, one step for each token or reduction, then one
step per pass.

`Reading` and `Machine` are not the program. `Reading` is a reader of the subset of C and
of Go that occurs here, written from the two languages' definitions by recursive
descent, so as not to share an idea with the parser and printer it judges. `Machine` runs
what it read, C or Go: a store of eight cells that numbers point to and of variables,
arithmetic modulo eight, a record of every call with its arguments, return values
chosen by a seed. Overflow, shifts and division by zero are given one meaning for both
languages. A run of the C that reads a variable without a value is "undefined", and then the
Go may do as it likes; expressions that set and read a variable in no defined order are not
among the files.
`MCC2go` has the files and the properties, and reads again (`ReRead`) what the C printer
wrote of a parsed file.

## 3. The runs

Twelve runs, of which eleven pass and one shows where code and comment part; a run's
properties, and the comment at each property's definition, say precisely what is checked.

| run | instance | shows |
|---|---|---|
| TailSafe | two servers, one stop, two process slots, no credentials, bring-ups may fail, one crash, one session | one daemon has the node; its socket file is its own; the node outlives its handlers; log, idle timer and count are right; implements `SharedNode` |
| TailLive | a dial and a server, no credentials, bring-ups may fail | every command returns, every daemon exits |
| TailHangup | two dials | the counterexample listed under "findings" in `PROJECT.json` and in section 6 |
| SessionRun | a chunk per stream, two interrupts, a child that may leave the group, pipes of one chunk, two packets on the wire | implements `RemoteRun`; nothing left running; copiers kill the right process; hangup and Kill end the session |
| CacheShare | two sessions, two files, one of them wanted by both and one cached at first, ages up to two, one crash, one mote clean | cached files and trees are exact; no temporary file is left; sessions do not make each other fail before anything is old |
| ConfigShare | two setters and an automatic alias, two faults | an atomic map while commands do not overlap; automatic aliases only add; the file is always somewhere; after an overlap without faults its text begins with the whole map of one writer |
| WireQueue | three packets of two writers over each stream; data of more than one record and line | implements `PacketQueue`; every byte is in one place; everything arrives unless the connection breaks |
| Handshakes | two clients, one slot, one wrong password or a transport that needs none, one failure of Accept | no answer to a wrong password; agreement; no mutual wait; deadlines; slots and dials end |
| LabRun | two commits, of which the second changes one of two builds; two gomotes of one kind; one failing command or kill; two runs | a result is what its labels say, from a binary whose tests passed; machines share no gomote; HEAD stands still while a compiler reads the tree and comes back; everything is reported once; no job waits for ever (deadlock) |
| ForeachRun | two revisions, two signals at any moment, one fault: a git that fails, a checkout that breaks off half way, or a command that changes the tree; a command may never end, and may take no notice of the signal | the HEAD that was found, branch or commit, comes back; a command sees its revision and its tree and does not outlive git-foreach; failures are told; a signal ends it, or leaves it waiting for a command that takes no notice |
| GomoteRun | two commands for one builder, of which one gets no further than go build, one mote close, instances of another group and of another builder, a gomote and an ssh that may ignore the end of their input, a server that may fall silent, two faults | what is used and destroyed is mote's; mote close reports no success over what is left; nothing stays; the second way in starts after the first is gone; dialling ends, but for two waits that section 6 lists |
| C2goRun | 717 files, below | the Go does what the C says and type-checks; the parser reads C and guesses types only where it must; what the C printer writes reads back; reading ends |

Why these bounds. In `TailDaemon` the races are between a daemon that goes and one that
comes, hence two processes; between two mote servers for the one registration, hence
two; a third process adds a third waiter for a lock that only one of them gets. The
theorems hold for any number of each. In `Session` the streams are independent of each
other, and two packets are enough for the wire to be full with one packet in front of
Exit. In `Cache` an age of two lets a file be old, just touched or neither; two
sessions are a user and a cleaner, or two uploaders of one file. In `ConfigFile` the
third writer is needed for a rename to find no temporary file because two others
have already shared it. In `Wire` the packets cover an empty and a non-empty JSON and
data part, and a data part longer than a record and than a line, and all ways
to cut the stream are explored. In `Handshake` two clients on one slot are what
makes one wait; the connections do not share anything else.

In `Lab` two commits are what HEAD moves between, and one build id that they share is what
makes two jobs meet in one cache file; one machine runs one job at a time and one runs
two, so that a benchmark both waits for its test and runs beside another. Two runs are a
run and what comes after its crash. One fault is what cleanup is written for; with two,
the cleanup itself may fail, which `HeadComesBack` leaves out by name. In `GitForeach` the
first revision is one that is left and the second one that is reached; a third does what
the second does. Two signals are the one that is handled and the one that is not. In
`Gomote` two commands race for one instance; a third would find what the second finds. Once
they have their instances commands share nothing, so one of the two ends at its build (`Builds`).
Two faults let both ways in fail, or a dial and the closing.

The files of C2goRun are enumerated by shape. Values: a binary operator of every level of
C's precedences with each of the operators, with parentheses on either side, with every
unary operator and assignment. Conditions: every kind of effect (step, assignment, call,
conjunction, `?:`) in every place that has a condition or a value (if, while, for, do,
switch, argument, return, assignment, declaration). Blocks: variables that are declared
before they are used in each way that `moveDecls` distinguishes. Switches: every way to
end a case. Declarations: three layers of pointer, array and function in every legal order,
every specifier, parameters. And two files with any one token missing, and some text
that is not C. Every function is then run with three seeds and four arguments. A file is
one behaviour, so the run is deep rather than wide. The shapes that c2gofmt is known
to translate wrongly are not among the files; section 6 lists them.

Deadlock is checked in LabRun, ForeachRun and GomoteRun, where a state with
everything done may stutter (in GomoteRun also one in which who is not done waits for what
nothing need end, which `Silent` and `Stuck` name). Elsewhere it is not: every actor may have
ended, or may wait for a user. That nobody waits for ever where he should not is stated there
as liveness.

Fairness. The Go scheduler runs every goroutine that can run and time passes, so the
steps of each goroutine, and the timers, are weakly fair. Users, remote
processes, crashes, faults of the network and the kernel's choice of pids promise
nothing. In detail: `TailDaemon` adds, in `LiveSpec` only, that an open
connection is closed some day, since a daemon with a command connected is meant to stay. In
`Session` the command may run for ever; that is why its liveness properties begin with
a hangup or a Kill. In `Wire` writers and reader go on; in `Handshake` the accept loop,
both sides and the timers go on, nobody has to dial or leave, a client that hangs
stops, and a session is only sure to end after its client has closed the connection. In
`GitForeach` main, the git it waits for and the signal's goroutine go on, the command need
not, nor need it heed its signal. In `Gomote` every command goes on, deadlines pass, and a process that does not ignore the end of its input exits; a user
need not end the session, so nothing is said of a command that is connected, and nobody need
notice that a server has fallen silent. `C2go` has one thread of control; only its reading is
stated to go on, because that is the part with a loop that has to end. `Lab` states no fairness: that
its jobs do not wait for one another is the absence of deadlock.

## 4. The proofs

`tlapm` checks every proof to its leaves. What is assumed of the constants stands in the
module that declares them, and TLC evaluates it in every run: `Assumptions` and its
like. The theorems hold for all values of the constants: any number of commands, daemons,
sessions, files, clients, revisions, hosts, and no bound on interrupts, crashes or sizes.
Every inductive invariant was first checked with TLC on the small instance of its run.

**TailDaemonProofs.** `Base` is inductive with and without locks: types; `Handlers` (a
handler that counts belongs to a process whose state has reached the accept loop and
not its teardown); and `IdleTimerInStep`, in which `active[p]` is the cardinality of a
set of clients. That the counters stay natural follows only from this equation, so types
and count are proved together. `Owned` adds what a lock gives: who has the node
up has the lock, and an open service has its file on disk. From these
`ServedBeforeTeardown`, `IdleTimerInStep`, and with `HasLock` also `OneNode`,
`OpenIsReachable`, and `Implementation`, the refinement of
`SharedNode`, step by step. `BooksAreRight` and `NodeIsFound` are the two conjunctions that
TailSafe checks. `LogGoesToServer` says of a listening server that it is the registered one
and has the log; that is kept only because a server owns the daemon's listener from
before it is registered until after it has let the next one in, which is what `ServerOwns`
adds for the steps around listening.

**SessionProofs.** `Inv` ties the position of `serve` to what may still be there: before
Start no process, no copier; after Wait no command, no pipe end, copiers done;
while a copier is in "kill", `serve` is still before Wait, hence the pid unused by
others. `CommandIsOver` and `CopierIsSafe` follow, and with them `OnlyItsOwn`.

`RunImplemented` is the refinement of `RemoteRun`. A step that shows a chunk must find one
that was printed, and the step that returns the status must find everything shown: both
need to know where the chunks are. `Conserved` says so while the client is there:
for each stream, what was printed is what was shown, plus the packets of that stream on
the network (`InFlight`, a cardinality), plus the one the copier holds, plus what is in
the pipe; and a copier that is done has left an empty pipe that nobody can write to.
`ExitIsLast` says that nothing follows the Exit response and that it has the
command's status. Once the client is gone neither holds, since the server drops
what it writes; so `RunInv` has both only until then, and `Told` keeps for afterwards
what the result said. The lemmas on counting (`CountAppend`, `CountTail`) say what a write
and a read do to `InFlight`; one lemma per actor says what its steps change
(`ServeEffect`, `CopyEffect`, ...), and the parts of the invariant are proved from those.
`TypesHold`, the part of `SessionEnds` that is not liveness, comes last: the bound of `got`
is that of `made`, by the same count.

**CacheProofs.** `SessionInv(s)` says what a session's temporary file holds at each of its
steps and that its tree has what it has copied; `Inv` adds that a cached name has its
content. The step to see is `Rename`: it is safe because the file it moves is `s`'s own
and has been verified, whoever else has put the same hash there. `SoundCache` puts types,
whole files and tidy sessions together.
`Undisturbing` is about sessions that work side by side before anything is old enough
to be cleaned. `Undisturbed(s)` names what `s` relies on: the directory it is about to
create a file in, its temporary file, and each file it has found or saved so far
(`Fetched`). `OwnSteps` shows that `s` keeps this itself and fails for its upload only, and
`HarmlessSteps` that no step of another session takes any of it away, dying included.

**HandshakeProofs.** `Inv`: types; finitely many connections in slots, so that the slot
count is a number; who is past its first step holds a slot (`AtWork`); a message on
its way carries the keys of its sender (`FromPeer`); a server that has passed the
client's tag has a client with its password, and Info is on its way only from a server
that is through (`ServerInv`); a client that has passed the server's tag, or Info, the same
for its side (`ClientInv`). `NoAnswer` and `Agree` follow, and `AuthenticPeers` is both. The only facts about the
scripts that are used are their entries, one lemma per script.
For the other two theorems the scripts are counted: `Sent` and `Received` give the messages a
side has sent and read at each step, `LastDisarm` the step that clears its last deadline,
and `StepAgrees` that the counts are those of the scripts, for each of the four. `Balanced`: while both
ends are open, what one has sent and the other has not read is in the channel.
Were both waiting on empty channels, the two counts would have to agree in both directions,
and no pair of reading steps of two scripts does that (`SomebodyMoves`). `ArmedInv`: a
deadline is set only before the step that clears it (`NoDeadlineLeft`).

**ConfigProofs.** `Types` has the file always in place, since only a rename replaces it.
`AloneOk`: of commands that have not overlapped at most one runs, the file is whole,
and the temporary file is the runner's own and holds the map it has read with its
entry changed (`Knows`). `MapImplemented`, the refinement of `AtomicMap`, and
`OnlyAdds` follow. `Prevailing` is what is left when they do overlap: without failures
only inodes are renamed that hold, or will hold, the map of some writer with its entry
(`Fresh`), so that in the end one of them prevails; an inode may be renamed while another writer still has
it open, which is why "will hold" is needed.

**ForeachProofs.** `EndsClean` promises HEAD back after one signal, wherever it comes. `Way`
counts how many signals it takes to be at each place of the way out with no other
failure: dying needs one, and dying in a git command that was hit needs two, so one is
never enough to skip the checkout. That what is checked out is what was found needs `orig`
to be `start` from where it is saved on, and HEAD to be `start` until the first checkout.
`CommandPlace` (the command runs while main waits for it,
on the revision that is checked out), `Logs` and `Statuses` give the rest; the tree is unchanged
where nothing has failed, because main goes no further than the clean check otherwise. What
Checkout may do is said once (`CheckoutFacts`), as is what a git may (`GitFacts`). `NoneStarted` is
the part of `SignalObeyed` that is not liveness. `ForeachAssumption` says that rev-list
names a commit once: of one listed twice the later verdict would replace the earlier.

**TransportProofs, Wire.** `EveryByteOnce` is not inductive: it says where the bytes are,
not why a reader that is handed an arbitrary portion of them gets them right. `WireInv` adds
that. `Turns`: who has slices to write holds the lock, so what is unwritten belongs to the
last packet of `sent`. `Layers` says what each stream may have on its way; for the encrypted
one (`Records`), that the records on the network have the nonces that follow the reader's,
so none fails to decrypt. `Within`: what the reader has collected is a part of one packet.
It holds because the reader never asks for more than is missing (`WantFits`), and that it
can tell what is missing needs `Exact`: the bytes of the header are those of the packet it
is in (`PacketIs`). `Exact` is `EveryByteOnce` said once for the three streams: some
sequence y continues the reader's bytes to `Pending`, and the network holds the beginning of
y, as bytes (`Raw`) or as their digits (`Hex`), and unless it broke the writer holds the
end. One lemma per action (`WriteSliceKeeps`, `ReadHexKeeps`, ...) moves bytes from one to
the next. `StreamStaysExact` and `WireIsQueue`, the refinement of `PacketQueue`, follow: a
delivered packet is the first of those pending, because its bytes are.

The bytes are flattened sequences, and `FlattenSeq` is a recursive function: that it
distributes over concatenation (`FlattenConcat`) and that hex lines of any length decode to
the bytes they were made of (`HexEncodeCarries`, `HexRoundTrip`) need induction. The
induction theorems of the library have an operator as parameter; `LeastElement` takes the
place of it: the naturals are well-founded (`WFMin`, `NatLessThanWellFounded`), and a least
counterexample leads to a smaller one. Assumed are that sizes are naturals and that a record
and a line hold at least one byte. TLC checks `StreamIsExact` on the run. `WireInv` was
checked on the same instance with y and c given, since TLC cannot range over all sequences:
y is what follows the reader's bytes in `Pending`, c what follows in y the bytes on their
way.

**TransportProofs, Gomote.** `Belongings`: a subprocess belongs to a connection, a binary to
a dial that has not returned; so `Return`, the deferred cleanup of every path, is where both
go (`Tidy`). `Closing` follows mote close through the connections to the instances, which
are only those it listed as its own: each that it has listed is still to do, destroyed, or among
the failures (`found`), so that no failure means all destroyed; a client's instance is of the group or already
destroyed, since nobody moves an instance between groups (`OursOnly`). `GomoteAssumption`
says that connections and instances are different things.

**LabProofs.** `Compiling` ties the commit of a binary to HEAD: while commits are built HEAD is at
the commit whose turn it is, and the binaries of the turns before are made; hence
`HeadIsStill`. `Failing` counts failures, for an error needs one and a HEAD that did not
come back another (`EndsWell`). `Working` relates a machine's position to its jobs:
while it connects they are queued or reported, when it is done they are reported. `Cached`
says that a file in the cache has the output of what its name says; the name is computed
from the binary's build id, which `Compiling` has shown to be the commit's. `Tested`:
behind a job that runs stands a job of phase 0 with the same commit and host that has succeeded. That
this is the test of the binary needs the numbering of the jobs, a product of phases, commits
and hosts: the lemmas on quotient and remainder (`DivMod` to `Numbers`) invert it.
`RightResults` has one hypothesis, that no commit and no host is named twice: otherwise two
jobs are tests of one binary, of which a benchmark waits for one. The other theorems have none.

**Only model-checked.** Every liveness property (`CommandsReturn`, `DaemonsExit`, `SessionEnds`,
`EverythingArrives`, `SlotsMove`, `EveryDialEnds`, the second half of `SignalObeyed`,
`DialEnds`, `FilesEnd`; of `SessionEnds` what it says beyond types), which is beyond the prover.
And c2gofmt (`ReadsC`, `SameMeaning`, `ReadsBack`, `WellTyped`), whose trees need recursive
operators in nearly every definition, which the prover cannot reason about.

## 5. Plan

The order is that of importance: first what several processes and goroutines share.

1. TailDaemon, Session, Cache, ConfigFile, Wire, Handshake: modelled.
2. Gomote, LabBuild and Lab, GitForeach: modelled.
3. c2gofmt, from the tokens to the Go file: modelled for functions, variables, pointers,
   arrays and typedefs.
4. `Upload`: the list of files of a session and the stream of their contents
   (`upload.go`, `writePacketStream`), with files that shrink, grow or fail while they
   are read; abstract specification: a session sends exactly what it announced or
   fails. Composes with `Wire` through the packet of the upload.
5. c2gofmt: structs, unions, enums and initialisers in `CTree`, `CParse` and the printers;
   the scanner's handling of comments; then the rule files.
6. `Edit`: the edit buffer of gofixerr against the reference "apply all, in order".
7. Names (`tail.go`, `client.go` resolveServer), paths (`cache.go` remotePath,
   clientPath, exeName), preamble limits, `sleep`, `mdweb`.

Theorems planned: with `Upload`, that a session sends exactly what it announced or fails; it can
rest on `HexRoundTrip` and the lemmas on `FlattenSeq`. Those on c2gofmt would need its trees
as functions over numbered nodes instead of recursive operators.

## 6. Where code and documents part

Found by a run of this project ("findings" in `PROJECT.json` quotes both sides):

- TailHangup: the retry of `daemonDial` after a hangup never happens (shadowed `err`).

Definitions of the modules that state what a comment or a document says, that the code
does not hold, and that no run lists; each is seen with TLC by adding it to the
configuration named.

| definition | says | configuration | how it fails |
|---|---|---|---|
| `StopExits` | on Stop the daemon exits, cutting off others (protocol.md) | TailHangup.cfg with one dialer, one of `Stoppers`, and `FairSpec` | a stopped daemon stays as long as a proxied connection is in use |
| `SessionsFinish` | sessions of a mote serve that hangs up are left to finish (protocol.md) | TailSafe.cfg, as a property | the idle timer of the daemon does not know of them and takes the node down |
| `WatcherKillsCommand` | "The exited check avoids killing a reused pid" | SessionRun.cfg, as an invariant | the command is reaped between the watcher's check and its kill |
| `SetChangesOne` | setting an alias changes that alias | ConfigShare.cfg, as a property | two overlapping commands, one alias lost |
| `StartSucceeds` | a command that starts a daemon gets one | TailHangup.cfg | the old daemon has closed its socket and still has the lock; the new one exits; nobody binds again within the minute |
| `OneServer` | one tsnet server per state directory, logins included | TailSafe.cfg | `tailLogin` runs in the foreground outside the lock |
| `ExpireMeansIdle` | the timer closes the socket after idleness only | TailHangup.cfg | a client came and went between the timer's firing and `expire` |
| `BindReducesToOne` | without file locks the bind leaves one daemon | TailSafe.cfg, `HasLock = FALSE` | both probe, both remove, both bind |
| `KillLeadsToExit` | a Kill leads to Exit | SessionRun.cfg | a child outside the group holds a pipe open, and Wait waits for it |
| `RecentIsSafe` | `cleanCache` removes no recently used file | CacheShare.cfg | touched between Info and Remove |
| `FileIsWhole` | one alias per line | ConfigShare.cfg | two writers share the temporary file |
| `CloseTriesAll` | `closeAll` shuts down "every gomote instance in the mote group. It keeps going past failures" (close.go:64-67) | GomoteRun.cfg, as an invariant | `destroyGomotes` returns at the first instance that it cannot destroy (gomote.go:236-239); the rest runs on |
| `AbortReturns` | abort kills what does not exit, "so that a wedged ssh or gomote cannot hang the client" (dial.go:200-203) | GomoteRun.cfg, as a property | gomote is killed, but not the ssh under it, which holds the standard error that `Wait` reads to its end (dial.go:216) |
| `AutoOnlyAdds` without `~overlapped` | an automatic alias is added only "if there is no alias" (doc.go:90) | ConfigShare.cfg | set between lookup and write |

Not a property, but visible in `Handshake`: `Accept` comes before the slot is taken,
so with all slots in use one more connection has been accepted and waits in the server,
though server.go:79-80 says that such connections "wait in the listener's queue".

Seen while reading and modelling, and not stated as a property:

- `taildaemon.go:571`: `logFanout` writes to the mote server's connection with its lock held; a
  mote serve that is suspended stops everybody who logs. `upload.go:151`: `lazyFile` closes
  its file at EOF, but a reader limited to the announced size need not reach EOF.
- Gomote: the deadline of the scan for the hello is cleared when the hello is there
  (handshake.go:99), and on a connection without a password none is set for the Info that
  follows (dial.go:73-89). A server that stops in between is waited for without a limit, though the
  comment on the password branch speaks of bounding "the Info exchange that follows".
  `DialEnds` makes an exception of this wait (`Silent`) and of that for a wedged ssh (`Stuck`, `AbortReturns` above).
  `Close` waits without a limit as well, and a client whose remote command was killed leaves
  without it.
- Lab: cache files are not written atomically; a crash or a full disk leaves part of a result,
  which the next run takes for a result. Two commits with the same build id use one
  cache file. A crash leaves HEAD detached and the next run takes that for the branch.
- GitForeach: the signal's goroutine kills a process group that may have been reaped
  and reused (main.go:81); a second signal leaves HEAD where it is. What it sends is the signal
  that it got, which can be caught (`Kill` is commented out, main.go:79-81): a command that
  handles it keeps git-foreach waiting for as long as it likes, and `SignalStops` says so.
  A checkout that breaks off half way leaves a tree that keeps cleanup from going back. When
  `git rev-parse` fails in run1 the lock of `stop` stays taken, so that a signal is not noted
  any more; main ends all the same. A revision that the signal interrupts has its log file, or
  not, but no verdict.

What c2gofmt translates wrongly. The files of C2goRun leave these out; where a check mark
stands, adding such a file makes the run fail.

| C | what happens | |
|---|---|---|
| `a == b != c` | read as `a == (b != c)`: `cc.y` puts `==` and `!=` on two levels, though its comment says the precedences are C's | ✓ |
| `do { ... continue; ... } while(c)` | the test is the end of the body, which `continue` skips | ✓ |
| `while(a && (b = g(a))) stmt;` | the second clause is put into `Body.Block` of a body that is no block, and lost | ✓ |
| `default: case B:` | the labels are sorted only if there is a goto label among them | ✓ |
| a variable set in one round of a loop and read in a later one | `decls.go`: "it must be OK to use a fresh copy every time"; its value is lost | ✓ |
| `x = g(a), b = 1` and `p = g(a) + (b = g(b))` | the assignment moves before calls that precede it | ✓ |
| `f(i++)` where `f` reads `i` | the step comes after the call | |
| `int x = --a;` | `x := a--`, which is not Go | ✓ |
| `p = a < b` | a bool is assigned to an int | ✓ |
| a condition with a function literal that returns a step's value | declared bool, returns int | ✓ |
| two variables declared before an if that uses both | `addToIf` loses the second | ✓ |
| an uninitialised static variable used in an inner block only | becomes a local that is fresh each time, though rename.go:160 says "Will print at top level" | ✓ |
| `T *x = 0;` with `T` not declared | read as an expression | ✓ |
| `case 1: ;` at the start, or after a case that returns, before `default:` | no fallthrough is added | ✓ |
| a variable declared before the first case, or set in one case and read in another | declared by `:=` in one clause | |
| `for(...; ...; i++, f(j++))` | the post statement prints as a function literal that is not called for its value | |
| `extern int x; int x = 1;` | stays extern: only a comment is written | |
| `unsigned long`, `long long` | the C printer writes `ulong`, `longlong` | ✓ |
| `signed x;`, `register` parameters | refused | |
| two conflicting names in one file | both get the same suffix; `type` and `type_`, or a user's `tmp1`, can meet a made name | |

## 7. What is assumed, and not modelled

- The operating system: rename, flock, bind and unlink are atomic; a file that is
  opened keeps its inode. Renaming over a file that another process has open, which
  Windows refuses, is not in `Cache`.
- Cryptography: two keys agree exactly when their passwords do, and nobody makes a
  message without its key. The field arithmetic of `internal/cpace` and the AEAD calls
  of `internal/noise` are not modelled.
- Networks deliver in order until they break. A broken hello, text before the
  server's hello and its limit, and transports that have no deadlines are not in `Handshake`.
- In `Handshake` servers do not stop while clients go on. A client on a tail or ssh
  transport clears its deadline after the hello (dial.go:89) and would wait for the
  Info of a server that stops there for as long as the connection stays open; in `Gomote`
  a server may stop there.
- `TailDaemon`: the `Probe` of a socket looks and no more. A daemon that answers one
  accepts and counts it for a moment, which matters without file locks only.
- `Wire`: JSON that is longer than the reader accepts (packet.go:214), a length that does not
  fit into its 32 bits (packet.go:99-100, 131), and a stream that is shorter or longer than
  announced.
- The log's text, formatting, flags, URLs, quoting, prompts and JSON.
- `rdate` has no state.
- c2gofmt: structs, unions, enums and initialiser lists; strings, characters and floating
  constants; old-style function definitions; pointers with qualifiers; `#include` and `#define`;
  comments and the layout of the output; the rule files (`rewrite.go`); the flags of main and
  the writing of files; several files at once. `typecheck.go` has a type checker that nothing calls; its
  scopes are in `CParse`. In `GoSyntax` a temporary is named for its place instead of
  a count, since only its being new matters.
- `Lab`: the text of commands and tables, the scan of host descriptions, and benchstat's
  arithmetic. `GitForeach`: the timer and the wait for a new second, which change no outcome.
  `Gomote`: parsing of builder names and of the gomote command's output. Only the gomote
  transport uses `procConn` there; the ssh transport starts the same one process. A mote that is
  killed while it dials, which leaves its binary and its gomote behind, is left out; so
  are terminals that do not support a read deadline (scanHello then waits without one), and a
  server that sends empty lines for ever before its hello, which the scan's limit does not
  count.
