--------------------------- MODULE SessionProofs ---------------------------
(***************************************************************************)
(* How a session ends, and that it shows what its command has printed and  *)
(* then its status: proved for commands that print and interrupts that     *)
(* come any number of times, and for pipes and networks of any size.       *)
(***************************************************************************)
EXTENDS Session, FiniteSetTheorems, TLAPS

Early == {"info", "setup", "need", "upload", "build", "built", "ready", "start", "fail"}
Late  == {"waited", "closed"}
Over  == {"cleanup", "returned"}

\* The command and the copiers exist from StartCommand on, and serve passes
\* Wait only when they are done.
Unstarted == status = "none" /\ \A s \in Stream : cp[s] = "none"
Finished  == status \in Status /\ \A s \in Stream : cp[s] = "done"

Inv ==
    /\ srv \in Early \cup {"run"} \cup Late \cup Over
    /\ cp \in [Stream -> {"none", "read", "write", "kill", "done"}]
    /\ status \in {"none", "running"} \cup Status
    /\ alive \subseteq Process /\ group \subseteq Process
    /\ "cmd" \in alive <=> status = "running"
    /\ status = "none" => alive = {}
    /\ status # "none" => "cmd" \in group
    /\ srv \in Early => Unstarted
    /\ srv = "run" => status # "none"
    /\ srv \in Late => Finished
    /\ srv \in Over => Unstarted \/ Finished
    /\ pid \in {"cmd", "other"} /\ (pid = "other" => Reaped)

USE DEF Inv, Unstarted, Finished, Early, Late, Over, Stream, Process, Status, Reaped

\* At first nothing has been started.
LEMMA InitInv == Init => Inv
BY DEF Init

\* The client changes nothing that the invariant is about.
LEMMA ClientInv == ASSUME Inv, Client \/ Forward \/ User PROVE Inv'
<1>1. UNCHANGED <<serverVars, procVars>>
  BY DEF Client, Forward, User, ClientOnly, GetInfo, GetNeed, GetReady,
     SendStart, GetExit, GetError, GetOutput, FirstInterrupt, SendKill,
     SecondInterrupt, Interrupt, Vanish
<1> QED
  BY <1>1 DEF serverVars, procVars

\* serve goes from one of its states to a later one.
LEMMA ServeInv == ASSUME Inv, Serve PROVE Inv'
<1>1. CASE SendInfo
  BY <1>1 DEF SendInfo, ServeOnly, At, Sends, ServerWrites, WriteFails,
     clientVars, netVars, procVars
<1>2. CASE GetSetup
  BY <1>2 DEF GetSetup, ServeOnly, At, ReadFails, ServerReads, clientVars,
     netVars, procVars
<1>3. CASE SendNeed
  BY <1>3 DEF SendNeed, ServeOnly, At, Sends, ServerWrites, WriteFails,
     clientVars, netVars, procVars
<1>4. CASE GetUpload
  BY <1>4 DEF GetUpload, ServeOnly, At, ReadFails, ServerReads, clientVars,
     netVars, procVars
<1>5. CASE Build
  BY <1>5 DEF Build, ServeOnly, At, clientVars, netVars, procVars
<1>6. CASE SendReady
  BY <1>6 DEF SendReady, ServeOnly, At, Sends, ServerWrites, WriteFails,
     clientVars, netVars, procVars
<1>7. CASE GetStart
  BY <1>7 DEF GetStart, ServeOnly, At, ReadFails, ServerReads, clientVars,
     netVars, procVars
<1>8. CASE SendError
  BY <1>8 DEF SendError, ServeOnly, At, ServerWrites, WriteFails, clientVars,
     netVars, procVars
<1>9. CASE StartCommand
  BY <1>9 DEF StartCommand, At, clientVars, netVars, procVars
<1>10. CASE Wait
  BY <1>10 DEF Wait, At, clientVars, netVars, procVars
<1>11. CASE CloseExited
  BY <1>11 DEF CloseExited, At, clientVars, netVars, procVars
<1>12. CASE SendExit
  BY <1>12 DEF SendExit, ServeOnly, At, Sends, ServerWrites, WriteFails,
     clientVars, netVars, procVars
<1>13. CASE Return
  BY <1>13 DEF Return, ServeOnly, At, clientVars, netVars, procVars
<1> QED
  BY <1>1, <1>2, <1>3, <1>4, <1>5, <1>6, <1>7, <1>8, <1>9, <1>10, <1>11, <1>12,
     <1>13 DEF Serve

\* A kill takes the command from running to killed; the copiers do it
\* before they are done.
LEMMA KillEffect ==
    ASSUME Inv, KillGroup
    PROVE  /\ alive' \subseteq alive /\ group' = group /\ pid' = pid
           /\ status' = status \/ (status = "running" /\ status' = "killed")
           /\ "cmd" \in alive' <=> status' = "running"
<1>1. CASE pid = "other"
  BY <1>1 DEF KillGroup, procVars
<1>2. CASE pid # "other"
  BY <1>2 DEF KillGroup
<1> QED
  BY <1>1, <1>2

\* The watcher and the copiers kill before serve has passed Wait, or nobody.
LEMMA KillInv == ASSUME Inv, Watch \/ (\E s \in Stream : Copy(s)) PROVE Inv'
<1>1. CASE Watch
  <2>1. CASE WatchReads \/ WatchChecks
    BY <2>1 DEF WatchReads, WatchChecks, ReadFails, ServerReads, clientVars,
       netVars, procVars
  <2>2. CASE WatchKills
    BY <2>2, KillEffect DEF WatchKills, clientVars, netVars
  <2> QED
    BY <1>1, <2>1, <2>2 DEF Watch
<1>2. ASSUME NEW s \in Stream, Copy(s) PROVE Inv'
  <2>1. CASE CopyReads(s)
    BY <2>1 DEF CopyReads, clientVars, netVars, procVars
  <2>2. CASE CopyWrites(s)
    BY <2>2 DEF CopyWrites, ServerWrites, WriteFails, clientVars, netVars,
       procVars
  <2>3. CASE CopyKills(s)
    BY <2>3, KillEffect DEF CopyKills, clientVars, netVars
  <2>4. CASE CopyEnds(s)
    BY <2>4 DEF CopyEnds, clientVars, netVars, procVars
  <2> QED
    BY <1>2, <2>1, <2>2, <2>3, <2>4 DEF Copy
<1> QED
  BY <1>1, <1>2

\* The processes end and print when they like; a pid is reused when its
\* owner has been reaped.
LEMMA ProcessInv == ASSUME Inv, Processes PROVE Inv'
<1>1. CASE Fork
  BY <1>1 DEF Fork, ProcOnly, clientVars, netVars, serverVars, procVars
<1>2. CASE Escape \/ ReusePid
  BY <1>2 DEF Escape, ReusePid, ProcOnly, clientVars, netVars, serverVars,
     procVars
<1>3. ASSUME NEW q \in Process, ExitProcess(q) PROVE Inv'
  BY <1>3 DEF ExitProcess, ProcOnly, clientVars, netVars, serverVars, procVars
<1>4. ASSUME NEW q \in Process, NEW s \in Stream, Emit(q, s) \/ CloseStream(q, s) PROVE Inv'
  BY <1>4 DEF Emit, CloseStream, ProcOnly, clientVars, netVars, serverVars,
     procVars
<1> QED
  BY <1>1, <1>2, <1>3, <1>4 DEF Processes

\* Every step keeps the invariant, one case per actor.
LEMMA InvStep == ASSUME Inv, [Next]_vars PROVE Inv'
<1>1. CASE UNCHANGED vars
  BY <1>1 DEF vars, serverVars, procVars
<1> QED
  BY <1>1, ClientInv, ServeInv, KillInv, ProcessInv DEF Next

\* The inductive invariant holds in every behaviour.
THEOREM Inductive == Spec => []Inv
BY InitInv, InvStep, PTL DEF Spec

\* Whichever way serve comes to its end, the command it started is over and
\* its copiers are done.
THEOREM CommandIsOver == Spec => []NothingLeftRunning
<1>1. Inv => NothingLeftRunning
  BY DEF NothingLeftRunning
<1> QED
  BY Inductive, <1>1, PTL

\* A copier that kills finds the pid still to be the command's.
THEOREM CopierIsSafe == Spec => []CopierKillsCommand
<1>1. Inv => CopierKillsCommand
  BY DEF CopierKillsCommand
<1> QED
  BY Inductive, <1>1, PTL

\* serve and its copiers end their command and no other process.
THEOREM OnlyItsOwn == Spec => []OnlyItsCommand
BY CommandIsOver, CopierIsSafe, PTL DEF OnlyItsCommand
-----------------------------------------------------------------------------
(* What the command prints is on its way until the client shows it.        *)

HIDE DEF Inv, Unstarted, Finished, Early, Late, Over, Stream, Process, Status, Reaped

Response == {"Info", "Need", "Ready", "Error"} \cup Stream \cup Status

\* Where the packets p are in q, and how many there are.
Places(q, p) == {i \in 1..Len(q) : q[i] = p}
InFlight(q, p) == Cardinality(Places(q, p))
Held(s) == IF cp[s] = "write" THEN 1 ELSE 0

Typed ==
    /\ s2c \in Seq(Response)
    /\ got \in [Stream -> Nat] /\ made \in [Stream -> Nat] /\ pipe \in [Stream -> Nat]
    /\ open \in [Stream -> SUBSET Process]

\* As long as the client is there, each chunk printed has been shown, or is
\* on the network, with the copier, or in the pipe; a copier that is done
\* has left nothing behind; and the Exit response is the last one, with the
\* command's status.
Kept(s) ==
    /\ made[s] = got[s] + InFlight(s2c, s) + Held(s) + pipe[s]
    /\ cp[s] # "kill"
    /\ cp[s] = "done" => pipe[s] = 0 /\ open[s] = {}
Conserved == \A s \in Stream : Kept(s)
ExitIsLast ==
    \A i \in 1..Len(s2c) : s2c[i] \in Status =>
        i = Len(s2c) /\ s2c[i] = status /\ srv \in Over

\* The result tells whether the client is there, and once it is a status it
\* is the command's and everything has been shown.
Told ==
    /\ result = "none" <=> ~Gone
    /\ result \in {"none", "failed"} \cup Status
    /\ result \in Status => got = made /\ status = result /\ srv \in Over

Unopened == status = "none" => \A s \in Stream : open[s] = {}

RunInv ==
    /\ Inv /\ Typed /\ Told /\ Unopened
    /\ ~Gone => Conserved /\ ExitIsLast
-----------------------------------------------------------------------------
(* Counting packets.                                                       *)

\* The places of a packet in a queue are finitely many, so they have a number.
LEMMA CountType ==
    ASSUME NEW q \in Seq(Response), NEW p
    PROVE  IsFiniteSet(Places(q, p)) /\ InFlight(q, p) \in Nat
<1>1. IsFiniteSet(1..Len(q)) /\ Places(q, p) \subseteq 1..Len(q)
  BY FS_Interval DEF Places
<1>2. IsFiniteSet(Places(q, p))
  BY <1>1, FS_Subset
<1> QED
  BY <1>2, FS_CardinalityType DEF InFlight

\* An empty queue holds nothing.
LEMMA CountNone == ASSUME NEW q, Len(q) = 0, NEW p PROVE InFlight(q, p) = 0
<1>1. Places(q, p) = {}
  BY DEF Places
<1> QED
  BY <1>1, FS_EmptySet DEF InFlight

LEMMA CountEmpty == \A p : InFlight(<<>>, p) = 0
BY CountNone

\* A write adds one to the packets of its kind.
LEMMA CountAppend ==
    ASSUME NEW q \in Seq(Response), NEW x \in Response, NEW p
    PROVE  InFlight(Append(q, x), p) = InFlight(q, p) + (IF x = p THEN 1 ELSE 0)
<1> DEFINE n == Len(q) + 1
<1>1. /\ Len(Append(q, x)) = n /\ Len(q) \in Nat
      /\ \A i \in 1..Len(q) : Append(q, x)[i] = q[i]
      /\ Append(q, x)[n] = x
  OBVIOUS
<1>2. n \notin Places(q, p)
  BY <1>1 DEF Places
<1>3. IsFiniteSet(Places(q, p))
  BY CountType
<1>4. CASE x = p
  <2>1. Places(Append(q, x), p) = Places(q, p) \cup {n}
    BY <1>1, <1>4 DEF Places
  <2> QED
    BY <1>2, <1>3, <1>4, <2>1, FS_AddElement DEF InFlight
<1>5. CASE x # p
  <2>1. Places(Append(q, x), p) = Places(q, p)
    BY <1>1, <1>5 DEF Places
  <2> QED
    BY <1>5, <2>1, CountType DEF InFlight
<1> QED
  BY <1>4, <1>5

\* A read takes one away: Tail moves the other places down by one.
LEMMA CountTail ==
    ASSUME NEW q \in Seq(Response), q # <<>>, NEW p
    PROVE  InFlight(q, p) = InFlight(Tail(q), p) + (IF Head(q) = p THEN 1 ELSE 0)
<1> DEFINE t == Tail(q)
           T == Places(t, p)
           S == Places(q, p) \ {1}
           f == [i \in T |-> i + 1]
<1>1. /\ Len(q) \in Nat /\ Len(q) > 0 /\ Len(t) = Len(q) - 1 /\ t \in Seq(Response)
      /\ \A i \in 1..Len(t) : t[i] = q[i + 1]
      /\ Head(q) = q[1]
  OBVIOUS
<1>2. IsFiniteSet(T) /\ InFlight(t, p) \in Nat
  BY <1>1, CountType
<1>3. f \in Bijection(T, S)
  <2>1. T \subseteq Nat
    BY DEF Places
  <2>2. \A i \in T : f[i] \in S
    BY <1>1 DEF Places
  <2>3. \A i, j \in T : f[i] = f[j] => i = j
    BY <2>1
  <2>4. \A j \in S : \E i \in T : f[i] = j
    <3> SUFFICES ASSUME NEW j \in S PROVE j - 1 \in T /\ (j - 1) + 1 = j
      OBVIOUS
    <3> QED
      BY <1>1 DEF Places
  <2> HIDE DEF f, S, T
  <2>5. f \in [T -> S]
    BY <2>2 DEF f
  <2> QED
    BY <2>3, <2>4, <2>5 DEF Bijection, Injection, Surjection, IsInjective
<1>4. IsFiniteSet(S) /\ Cardinality(S) = InFlight(t, p)
  <2>1. ExistsBijection(T, S)
    BY <1>3 DEF ExistsBijection
  <2> HIDE DEF T, S
  <2>2. IsFiniteSet(S) /\ Cardinality(S) = Cardinality(T)
    BY <1>2, <2>1, FS_Bijection
  <2> QED
    BY <2>2 DEF InFlight, T
<1>5. CASE Head(q) = p
  <2>1. Places(q, p) = S \cup {1} /\ 1 \notin S
    BY <1>1, <1>5 DEF Places
  <2> HIDE DEF S, T, t
  <2> QED
    BY <1>2, <1>4, <1>5, <2>1, FS_AddElement DEF InFlight, t
<1>6. CASE Head(q) # p
  <2>1. Places(q, p) = S
    BY <1>1, <1>6 DEF Places
  <2> HIDE DEF S, T, t
  <2> QED
    BY <1>2, <1>4, <1>6, <2>1 DEF InFlight, t
<1> QED
  BY <1>5, <1>6
-----------------------------------------------------------------------------
(* What the steps of each actor change.                                    *)

\* The client reads, writes and ends, and leaves the server alone.
LEMMA ClientEffect ==
    ASSUME Client \/ Forward \/ User
    PROVE  /\ UNCHANGED <<srv, cp, status, open, pipe, made>> /\ ~Gone
           /\ \/ UNCHANGED <<result, got, s2c>> /\ ~Gone'
              \/ /\ UNCHANGED <<result, got>> /\ ~Gone'
                 /\ s2c # <<>> /\ s2c' = Tail(s2c) /\ Head(s2c) \notin Stream
              \/ \E s \in Stream : GetOutput(s)
              \/ GetExit
              \/ /\ result' = "failed" /\ got' = got /\ Gone'
                 /\ s2c' = s2c \/ (s2c # <<>> /\ s2c' = Tail(s2c))
<1>1. UNCHANGED <<srv, cp, status, open, pipe, made>>
  BY DEF Client, Forward, User, ClientOnly, GetInfo, GetNeed, GetReady,
     SendStart, GetExit, GetError, GetOutput, FirstInterrupt, SendKill,
     SecondInterrupt, Interrupt, Vanish, serverVars, procVars
<1> USE <1>1 DEF Gone, ClientReads, Ends, netVars
<1>2. CASE GetInfo \/ GetReady
  BY <1>2 DEF GetInfo, GetReady, Stream
<1>3. CASE GetNeed
  BY <1>3 DEF GetNeed, Stream
<1>4. CASE SendStart
  BY <1>4 DEF SendStart
<1>5. CASE GetError
  BY <1>5 DEF GetError
<1>6. CASE GetExit \/ \E s \in Stream : GetOutput(s)
  BY <1>6 DEF GetExit, GetOutput
<1>7. CASE Forward
  BY <1>7 DEF Forward, FirstInterrupt, SendKill, SecondInterrupt
<1>8. CASE User
  BY <1>8 DEF User, Interrupt, Vanish
<1> QED
  BY <1>2, <1>3, <1>4, <1>5, <1>6, <1>7, <1>8 DEF Client

\* serve sends a response, starts the command, or waits for it.
LEMMA ServeEffect ==
    ASSUME Inv, Serve
    PROVE  /\ UNCHANGED <<cl, result, got, made>>
           /\ srv \in Over => srv' \in Over /\ UNCHANGED <<cp, status, pipe, open, s2c>>
           /\ \/ UNCHANGED <<s2c, cp, status, open, pipe>>
              \/ /\ UNCHANGED <<cp, status, open, pipe>> /\ ~Gone /\ srv \notin Over
                 /\ \E x \in Response \ (Stream \cup Status) : s2c' = Append(s2c, x)
              \/ /\ UNCHANGED <<cp, status, open, pipe>> /\ ~Gone
                 /\ srv = "closed" /\ srv' \in Over /\ s2c' = Append(s2c, status)
              \/ /\ UNCHANGED <<s2c, pipe>> /\ srv = "start" /\ status' = "running"
                 /\ open' = [s \in Stream |-> {"cmd"}] /\ cp' = [s \in Stream |-> "read"]
              \/ /\ UNCHANGED <<s2c, cp, status, open>>
                 /\ \A s \in Stream : cp[s] = "done"
                 /\ pipe' = [s \in Stream |-> 0] /\ status \in Status
<1> USE DEF At, clientVars, procVars, netVars, Over
<1>1. ASSUME NEW p \in {"Info", "Need", "Ready"}, NEW from \in Early, NEW to, Sends(p, from, to)
      PROVE  /\ UNCHANGED <<cl, result, got, made, cp, status, pipe, open>> /\ srv \notin Over
             /\ \/ UNCHANGED s2c
                \/ ~Gone /\ \E x \in Response \ (Stream \cup Status) : s2c' = Append(s2c, x)
  <2>1. p \in Response \ (Stream \cup Status)
    BY DEF Response, Stream, Status
  <2> QED
    BY <1>1, <2>1 DEF Sends, ServeOnly, ServerWrites, WriteFails, Early
<1>2. CASE SendInfo \/ SendNeed \/ SendReady
  BY <1>1, <1>2 DEF SendInfo, SendNeed, SendReady, Early
<1>3. CASE GetSetup \/ GetUpload \/ GetStart
  BY <1>3 DEF GetSetup, GetUpload, GetStart, ServeOnly
<1>4. CASE Build \/ Return
  BY <1>4 DEF Build, Return, ServeOnly
<1>5. CASE SendError
  <2>1. "Error" \in Response \ (Stream \cup Status)
    BY DEF Response, Stream, Status
  <2> QED
    BY <1>5, <2>1 DEF SendError, ServeOnly, ServerWrites, WriteFails
<1>6. CASE StartCommand
  BY <1>6 DEF StartCommand
<1>7. CASE Wait \/ CloseExited
  BY <1>7 DEF Wait, CloseExited, serverVars
<1>8. CASE SendExit
  BY <1>8 DEF SendExit, Sends, ServeOnly, ServerWrites, WriteFails
<1> QED
  BY <1>2, <1>3, <1>4, <1>5, <1>6, <1>7, <1>8 DEF Serve

\* A kill ends the command if it runs, and closes pipes.
LEMMA KillCloses ==
    ASSUME Inv, Typed, KillGroup
    PROVE  /\ UNCHANGED <<pipe, made>>
           /\ open' \in [Stream -> SUBSET Process]
           /\ \A s \in Stream : open'[s] \subseteq open[s]
           /\ status' = status \/ (status = "running" /\ status' = "killed")
<1>1. CASE pid = "other"
  BY <1>1 DEF KillGroup, procVars, Typed
<1>2. CASE pid # "other"
  BY <1>2 DEF KillGroup, Typed, Inv
<1> QED
  BY <1>1, <1>2

\* The watcher only kills.
LEMMA WatchEffect ==
    ASSUME Inv, Typed, Watch
    PROVE  /\ UNCHANGED <<cl, result, got, srv, cp, s2c, pipe, made>>
           /\ open' \in [Stream -> SUBSET Process]
           /\ \A s \in Stream : open'[s] \subseteq open[s]
           /\ status' = status \/ (status = "running" /\ status' = "killed")
<1>1. CASE WatchReads \/ WatchChecks
  BY <1>1 DEF WatchReads, WatchChecks, clientVars, netVars, procVars, Typed
<1>2. CASE WatchKills
  BY <1>2, KillCloses DEF WatchKills, clientVars, netVars
<1> QED
  BY <1>1, <1>2 DEF Watch

\* A copier moves a chunk on, or kills, or is done.
LEMMA CopyEffect ==
    ASSUME Inv, Typed, NEW s \in Stream, Copy(s)
    PROVE  /\ UNCHANGED <<cl, result, got, srv, made>>
           /\ cp[s] \in {"read", "write", "kill"}
           /\ \/ /\ UNCHANGED <<s2c, status, open>>
                 /\ cp[s] = "read" /\ cp' = [cp EXCEPT ![s] = "write"]
                 /\ pipe[s] > 0 /\ pipe' = [pipe EXCEPT ![s] = @ - 1]
              \/ /\ UNCHANGED <<status, open, pipe>>
                 /\ cp[s] = "write" /\ cp' = [cp EXCEPT ![s] = "read"]
                 /\ (~Gone /\ s2c' = Append(s2c, s)) \/ (Gone /\ UNCHANGED s2c)
              \/ /\ UNCHANGED <<s2c, status, open, pipe>> /\ Gone
              \/ /\ UNCHANGED <<s2c, status, open, pipe>>
                 /\ cp[s] = "read" /\ cp' = [cp EXCEPT ![s] = "done"]
                 /\ pipe[s] = 0 /\ open[s] = {}
              \/ /\ UNCHANGED <<s2c, pipe>> /\ cp[s] = "kill"
                 /\ open' \in [Stream -> SUBSET Process]
                 /\ \A t \in Stream : open'[t] \subseteq open[t]
                 /\ status' = status \/ (status = "running" /\ status' = "killed")
<1>1. CASE CopyReads(s)
  BY <1>1 DEF CopyReads, clientVars, netVars
<1>2. CASE CopyWrites(s)
  BY <1>2 DEF CopyWrites, ServerWrites, WriteFails, clientVars, procVars
<1>3. CASE CopyKills(s)
  BY <1>3, KillCloses DEF CopyKills, clientVars, netVars
<1>4. CASE CopyEnds(s)
  BY <1>4 DEF CopyEnds, clientVars, netVars, procVars
<1> QED
  BY <1>1, <1>2, <1>3, <1>4 DEF Copy

\* A process prints, or opens and closes pipes: no pipe that nobody has.
LEMMA ProcessEffect ==
    ASSUME Inv, Typed, Processes
    PROVE  /\ UNCHANGED <<cl, result, got, srv, cp, s2c>>
           /\ \/ /\ UNCHANGED <<pipe, made>>
                 /\ open' \in [Stream -> SUBSET Process]
                 /\ \A s \in Stream : open[s] = {} => open'[s] = {}
                 /\ status' = status \/ (status = "running" /\ status' = "exited")
              \/ /\ UNCHANGED <<open, status>> /\ ~Reaped
                 /\ \E s \in Stream :
                       /\ open[s] # {}
                       /\ pipe' = [pipe EXCEPT ![s] = @ + 1]
                       /\ made' = [made EXCEPT ![s] = @ + 1]
<1> USE DEF ProcOnly, clientVars, netVars, serverVars
<1>1. CASE Fork
  BY <1>1 DEF Fork, Typed, Process
<1>2. CASE Escape \/ ReusePid
  BY <1>2 DEF Escape, ReusePid, Typed
<1>3. ASSUME NEW q \in Process, ExitProcess(q)
      PROVE  /\ UNCHANGED <<cl, result, got, srv, cp, s2c, pipe, made>>
             /\ open' \in [Stream -> SUBSET Process]
             /\ \A s \in Stream : open[s] = {} => open'[s] = {}
             /\ status' = status \/ (status = "running" /\ status' = "exited")
  BY <1>3 DEF ExitProcess, Typed, Inv
<1>4. ASSUME NEW q \in Process, NEW s \in Stream, CloseStream(q, s)
      PROVE  /\ UNCHANGED <<cl, result, got, srv, cp, s2c, pipe, made, status>>
             /\ open' \in [Stream -> SUBSET Process]
             /\ \A t \in Stream : open[t] = {} => open'[t] = {}
  BY <1>4 DEF CloseStream, Typed
<1>5. ASSUME NEW q \in Process, NEW s \in Stream, Emit(q, s)
      PROVE  /\ UNCHANGED <<cl, result, got, srv, cp, s2c, open, status>> /\ ~Reaped
             /\ open[s] # {}
             /\ pipe' = [pipe EXCEPT ![s] = @ + 1] /\ made' = [made EXCEPT ![s] = @ + 1]
  BY <1>5 DEF Emit
<1>6. CASE \E q \in Process, s \in Stream : Emit(q, s) 
  BY <1>5, <1>6
<1> QED
  BY <1>1, <1>2, <1>3, <1>4, <1>6 DEF Processes
-----------------------------------------------------------------------------
(* The parts of the invariant, one after the other.                        *)

\* Who takes a step.
LEMMA Actors ==
    ASSUME [Next]_vars
    PROVE  \/ UNCHANGED <<srv, cp, status, open, pipe, made, got, result, s2c, cl>>
           \/ Client \/ Forward \/ User
           \/ Serve
           \/ Watch
           \/ \E s \in Stream : Copy(s)
           \/ Processes
BY DEF Next, vars, clientVars, netVars, serverVars, procVars

\* Nothing more is printed, and the status stays, when serve has ended.
LEMMA SettledStep ==
    ASSUME Inv, Typed, [Next]_vars, srv \in Over
    PROVE  srv' \in Over /\ (status \in Status => UNCHANGED <<status, made>>)
<1>1. status \in Status => \A s \in Stream : cp[s] = "done"
  BY DEF Inv, Unstarted, Finished, Status
<1>2. status \in Status => Reaped /\ status # "running"
  BY DEF Reaped, Status, Over
<1>3. CASE Client \/ Forward \/ User
  BY <1>3, ClientEffect
<1>4. CASE Serve
  BY <1>4, ServeEffect
<1>5. CASE Watch
  BY <1>5, <1>2, WatchEffect
<1>6. ASSUME NEW s \in Stream, Copy(s)
      PROVE  srv' = srv /\ (status \in Status => UNCHANGED <<status, made>>)
  BY <1>6, <1>1, CopyEffect
<1>7. CASE Processes
  BY <1>7, <1>2, ProcessEffect
<1> QED
  BY <1>3, <1>4, <1>5, <1>6, <1>7, Actors

\* A client that is gone does not come back.
LEMMA GoneStep == ASSUME Inv, Typed, [Next]_vars, Gone PROVE Gone' /\ UNCHANGED <<got, result, s2c>>
<1>1. CASE Client \/ Forward \/ User
  BY <1>1, ClientEffect
<1>2. CASE Serve
  BY <1>2, ServeEffect DEF Gone
<1>3. CASE Watch
  BY <1>3, WatchEffect DEF Gone
<1>4. ASSUME NEW s \in Stream, Copy(s) PROVE Gone' /\ UNCHANGED <<got, result, s2c>>
  BY <1>4, CopyEffect DEF Gone
<1>5. CASE Processes
  BY <1>5, ProcessEffect DEF Gone
<1> QED
  BY <1>1, <1>2, <1>3, <1>4, <1>5, Actors DEF Gone

\* Reading and writing keep a queue of responses one.
LEMMA SeqTypes ==
    ASSUME NEW q \in Seq(Response)
    PROVE  /\ q # <<>> => Tail(q) \in Seq(Response)
           /\ \A x \in Response : Append(q, x) \in Seq(Response)
OBVIOUS

\* Counters stay natural numbers.
LEMMA CounterTypes ==
    ASSUME NEW f \in [Stream -> Nat], NEW s \in Stream
    PROVE  /\ [f EXCEPT ![s] = @ + 1] \in [Stream -> Nat]
           /\ f[s] > 0 => [f EXCEPT ![s] = @ - 1] \in [Stream -> Nat]
OBVIOUS

\* Every step keeps the types.
LEMMA TypedStep == ASSUME Inv, Typed, [Next]_vars PROVE Typed'
<1>1. CASE Client \/ Forward \/ User
  <2>1. UNCHANGED <<open, pipe, made>>
    BY <1>1, ClientEffect
  <2>2. CASE UNCHANGED got /\ (s2c' = s2c \/ (s2c # <<>> /\ s2c' = Tail(s2c)))
    <3>1. s2c' \in Seq(Response)
      BY <2>2, SeqTypes DEF Typed
    <3> QED
      BY <2>1, <2>2, <3>1 DEF Typed
  <2>3. ASSUME NEW s \in Stream, GetOutput(s) PROVE Typed'
    BY <2>1, <2>3 DEF GetOutput, ClientReads, Typed
  <2>4. CASE GetExit
    BY <2>1, <2>4 DEF GetExit, ClientReads, Typed
  <2> QED
    BY <1>1, <2>2, <2>3, <2>4, ClientEffect
<1>2. CASE Serve
  <2>1. UNCHANGED <<got, made>> /\ open' \in [Stream -> SUBSET Process] /\ pipe' \in [Stream -> Nat]
    BY <1>2, ServeEffect DEF Typed, Process
  <2>2. s2c' = s2c \/ \E x \in Response : s2c' = Append(s2c, x)
    <3>1. srv = "closed" => status \in Response
      BY DEF Inv, Late, Finished, Response
    <3> QED
      BY <1>2, <3>1, ServeEffect
  <2>3. s2c' \in Seq(Response)
    BY <2>2, SeqTypes DEF Typed
  <2> QED
    BY <2>1, <2>3 DEF Typed
<1>3. CASE Watch
  BY <1>3, WatchEffect DEF Typed
<1>4. ASSUME NEW s \in Stream, Copy(s) PROVE Typed'
  <2>1. s2c' \in Seq(Response)
    <3>1. s \in Response
      BY DEF Response
    <3> QED
      BY <1>4, <3>1, CopyEffect, SeqTypes DEF Typed
  <2>2. UNCHANGED <<got, made>> /\ open' \in [Stream -> SUBSET Process] /\ pipe' \in [Stream -> Nat]
    <3>1. pipe' = pipe \/ (pipe[s] > 0 /\ pipe' = [pipe EXCEPT ![s] = @ - 1])
      BY <1>4, CopyEffect
    <3>2. pipe' \in [Stream -> Nat]
      <4>1. pipe \in [Stream -> Nat]
        BY DEF Typed
      <4>2. pipe[s] > 0 => [pipe EXCEPT ![s] = @ - 1] \in [Stream -> Nat]
        BY <4>1, CounterTypes
      <4> QED
        BY <3>1, <4>1, <4>2
    <3>3. UNCHANGED <<got, made>> /\ open' \in [Stream -> SUBSET Process]
      BY <1>4, CopyEffect DEF Typed
    <3> QED
      BY <3>2, <3>3
  <2> QED
    BY <2>1, <2>2 DEF Typed
<1>5. CASE Processes
  <2>1. UNCHANGED <<got, s2c>> /\ open' \in [Stream -> SUBSET Process]
    BY <1>5, ProcessEffect DEF Typed
  <2>2. made' \in [Stream -> Nat] /\ pipe' \in [Stream -> Nat]
    <3>1. \/ UNCHANGED <<made, pipe>>
          \/ \E s \in Stream : /\ made' = [made EXCEPT ![s] = @ + 1]
                               /\ pipe' = [pipe EXCEPT ![s] = @ + 1]
      BY <1>5, ProcessEffect
    <3>2. ASSUME NEW s \in Stream PROVE /\ [made EXCEPT ![s] = @ + 1] \in [Stream -> Nat]
                                        /\ [pipe EXCEPT ![s] = @ + 1] \in [Stream -> Nat]
      BY CounterTypes DEF Typed
    <3> QED
      BY <3>1, <3>2 DEF Typed
  <2> QED
    BY <2>1, <2>2 DEF Typed
<1> QED
  BY <1>1, <1>2, <1>3, <1>4, <1>5, Actors DEF Typed

\* How the packets change: only the Exit response follows the end of serve.
LEMMA PacketStep ==
    ASSUME Inv, Typed, [Next]_vars
    PROVE  \/ s2c' = s2c
           \/ s2c # <<>> /\ s2c' = Tail(s2c)
           \/ srv \notin Over /\ \E x \in Response \ Status : s2c' = Append(s2c, x)
           \/ /\ srv \notin Over /\ srv' \in Over /\ status \in Status
              /\ status' = status /\ s2c' = Append(s2c, status)
<1>1. CASE Client \/ Forward \/ User
  BY <1>1, ClientEffect DEF GetOutput, GetExit, ClientReads
<1>2. CASE Serve
  <2>1. srv = "closed" => status \in Status /\ srv \notin Over
    BY DEF Inv, Late, Finished, Over
  <2> QED
    BY <1>2, <2>1, ServeEffect
<1>3. CASE Watch
  BY <1>3, WatchEffect
<1>4. ASSUME NEW s \in Stream, Copy(s)
      PROVE  s2c' = s2c \/ (srv \notin Over /\ \E x \in Response \ Status : s2c' = Append(s2c, x))
  <2>1. s \in Response \ Status
    BY DEF Response, Stream, Status
  <2>2. srv \notin Over
    BY <1>4, CopyEffect DEF Inv, Unstarted, Finished
  <2> QED
    BY <1>4, <2>1, <2>2, CopyEffect
<1>5. CASE Processes
  BY <1>5, ProcessEffect
<1> QED
  BY <1>1, <1>2, <1>3, <1>4, <1>5, Actors

\* The Exit response stays the last: nothing is sent once serve has ended.
LEMMA ExitStep == ASSUME Inv, Typed, [Next]_vars, ExitIsLast PROVE ExitIsLast'
<1>1. ASSUME NEW i \in 1..Len(s2c), s2c[i] \in Status
      PROVE  i = Len(s2c) /\ s2c[i] = status' /\ srv \in Over /\ srv' \in Over
  BY <1>1, SettledStep DEF ExitIsLast
<1>2. CASE s2c' = s2c
  BY <1>1, <1>2 DEF ExitIsLast
<1>3. CASE s2c # <<>> /\ s2c' = Tail(s2c)
  <2>1. /\ Len(s2c) \in Nat /\ Len(s2c') = Len(s2c) - 1
        /\ \A i \in 1..Len(s2c') : i + 1 \in 1..Len(s2c) /\ s2c'[i] = s2c[i + 1]
    BY <1>3 DEF Typed
  <2> QED
    BY <1>1, <2>1 DEF ExitIsLast
<1>4. ASSUME srv \notin Over, NEW x \in Response, s2c' = Append(s2c, x),
             x \in Status => x = status' /\ srv' \in Over
      PROVE  ExitIsLast'
  <2>1. /\ Len(s2c) \in Nat /\ Len(s2c') = Len(s2c) + 1 /\ s2c'[Len(s2c')] = x
        /\ \A i \in 1..Len(s2c) : s2c'[i] = s2c[i]
    BY <1>4 DEF Typed
  <2>2. \A i \in 1..Len(s2c) : s2c[i] \notin Status
    BY <1>1, <1>4
  <2>3. \A i \in 1..Len(s2c') : i \in 1..Len(s2c) \/ i = Len(s2c')
    BY <2>1
  <2> QED
    BY <1>4, <2>1, <2>2, <2>3 DEF ExitIsLast
<1>5. Status \subseteq Response
  BY DEF Response
<1> QED
  BY <1>2, <1>3, <1>4, <1>5, PacketStep
-----------------------------------------------------------------------------
(* No chunk is lost or shown twice.                                        *)

\* The counts of chunks, and what a packet does to them.
LEMMA KeptTypes ==
    ASSUME Typed, NEW s \in Stream
    PROVE  /\ made[s] \in Nat /\ got[s] \in Nat /\ pipe[s] \in Nat
           /\ InFlight(s2c, s) \in Nat /\ Held(s) \in {0, 1}
<1>1. InFlight(s2c, s) \in Nat
  BY CountType DEF Typed
<1> QED
  BY <1>1 DEF Typed, Held

\* A step that touches neither the chunks nor the copier of s.
LEMMA KeptStill ==
    ASSUME Typed, NEW s \in Stream, Kept(s), InFlight(s2c, s)' = InFlight(s2c, s),
           made'[s] = made[s], got'[s] = got[s], pipe'[s] = pipe[s], cp'[s] = cp[s],
           open[s] = {} => open'[s] = {}
    PROVE  Kept(s)'
BY DEF Kept, Held

\* The client moves a chunk from the network to its own stream.
LEMMA KeptClient ==
    ASSUME Inv, Typed, Client \/ Forward \/ User, ~Gone', NEW s \in Stream, Kept(s)
    PROVE  Kept(s)'
<1>1. UNCHANGED <<cp, open, pipe, made>>
  BY ClientEffect
<1>2. CASE UNCHANGED <<got, s2c>>
  BY <1>1, <1>2, KeptStill DEF InFlight, Places
<1>3. CASE got' = got /\ s2c # <<>> /\ s2c' = Tail(s2c) /\ Head(s2c) \notin Stream
  <2>1. InFlight(s2c', s) = InFlight(s2c, s)
    <3>1. s2c \in Seq(Response) /\ Head(s2c) # s
      BY <1>3 DEF Typed
    <3>2. InFlight(Tail(s2c), s) \in Nat
      BY <1>3, <3>1, SeqTypes, CountType
    <3> QED
      BY <1>3, <3>1, <3>2, CountTail
  <2> QED
    BY <1>1, <1>3, <2>1, KeptStill DEF InFlight, Places
<1>4. ASSUME NEW t \in Stream, GetOutput(t) PROVE Kept(s)'
  <2>1. /\ s2c \in Seq(Response) /\ s2c # <<>> /\ s2c' = Tail(s2c) /\ Head(s2c) = t
        /\ got' = [got EXCEPT ![t] = @ + 1] /\ got \in [Stream -> Nat]
    BY <1>4 DEF GetOutput, ClientReads, Typed
  <2>2. /\ InFlight(s2c, s) = InFlight(s2c', s) + (IF t = s THEN 1 ELSE 0)
        /\ InFlight(s2c', s) \in Nat
    BY <2>1, CountTail, CountType, SeqTypes
  <2>3. got'[s] = got[s] + (IF t = s THEN 1 ELSE 0)
    BY <2>1
  <2>4. Kept(s)' <=> /\ made[s] = got'[s] + InFlight(s2c', s) + Held(s) + pipe[s]
                     /\ cp[s] # "kill"
                     /\ cp[s] = "done" => pipe[s] = 0 /\ open[s] = {}
    BY <1>1 DEF Kept, Held, InFlight, Places
  <2> QED
    BY <2>2, <2>3, <2>4, KeptTypes DEF Kept
<1>5. CASE GetExit
  BY <1>5 DEF GetExit, Ends, Gone
<1> QED
  BY <1>2, <1>3, <1>4, <1>5, ClientEffect

\* serve sends no chunk, and closes pipes that are empty.
LEMMA KeptServe ==
    ASSUME Inv, Typed, Serve, ~Gone, NEW s \in Stream, Kept(s)
    PROVE  Kept(s)'
<1>1. UNCHANGED <<got, made>>
  BY ServeEffect
<1>2. CASE UNCHANGED <<s2c, cp, open, pipe>>
  BY <1>1, <1>2, KeptStill DEF InFlight, Places
<1>3. ASSUME UNCHANGED <<cp, open, pipe>>, NEW x \in Response \ Stream, s2c' = Append(s2c, x)
      PROVE  Kept(s)'
  <2>1. InFlight(s2c', s) = InFlight(s2c, s)
    <3>1. s2c \in Seq(Response) /\ x # s /\ x \in Response
      BY <1>3 DEF Typed
    <3>2. InFlight(s2c, s) \in Nat
      BY <3>1, CountType
    <3> QED
      BY <1>3, <3>1, <3>2, CountAppend
  <2> QED
    BY <1>1, <1>3, <2>1, KeptStill DEF InFlight, Places
<1>4. CASE /\ UNCHANGED <<s2c, pipe>> /\ srv = "start"
           /\ cp' = [t \in Stream |-> "read"]
  <2>1. cp[s] = "none"
    BY <1>4 DEF Inv, Early, Unstarted
  <2>2. InFlight(s2c, s)' = InFlight(s2c, s) /\ Held(s)' = 0 /\ Held(s) = 0
    BY <1>4, <2>1 DEF Held, InFlight, Places
  <2> QED
    BY <1>1, <1>4, <2>2 DEF Kept
<1>5. CASE /\ UNCHANGED <<s2c, cp, open>> /\ \A t \in Stream : cp[t] = "done"
           /\ pipe' = [t \in Stream |-> 0]
  <2>1. pipe'[s] = pipe[s]
    BY <1>5 DEF Kept
  <2> QED
    BY <1>1, <1>5, <2>1, KeptStill DEF InFlight, Places
<1>6. srv = "closed" => status \in Response \ Stream
  BY DEF Inv, Late, Finished, Response, Stream, Status
<1> QED
  BY <1>2, <1>3, <1>4, <1>5, <1>6, ServeEffect

\* A copier moves a chunk from the pipe to the network.
LEMMA KeptCopy ==
    ASSUME Inv, Typed, NEW t \in Stream, Copy(t), ~Gone, NEW s \in Stream, Kept(s), Kept(t)
    PROVE  Kept(s)'
<1>1. UNCHANGED <<got, made>> /\ cp \in [Stream -> {"none", "read", "write", "kill", "done"}]
      /\ cp[t] # "kill" /\ pipe \in [Stream -> Nat]
  BY CopyEffect DEF Kept, Inv, Typed
<1>2. CASE /\ UNCHANGED <<s2c, open>>
           /\ cp[t] = "read" /\ cp' = [cp EXCEPT ![t] = "write"]
           /\ pipe[t] > 0 /\ pipe' = [pipe EXCEPT ![t] = @ - 1]
  <2>1. InFlight(s2c, s)' = InFlight(s2c, s)
    BY <1>2 DEF InFlight, Places
  <2>2. CASE s = t
    <3>1. Held(s) = 0 /\ Held(s)' = 1 /\ cp'[s] = "write" /\ pipe'[s] = pipe[s] - 1
      BY <1>1, <1>2, <2>2 DEF Held
    <3> QED
      BY <1>1, <2>1, <3>1, KeptTypes DEF Kept
  <2>3. CASE s # t
    BY <1>1, <1>2, <2>1, <2>3, KeptStill
  <2> QED
    BY <2>2, <2>3
<1>3. CASE /\ UNCHANGED <<open, pipe>>
           /\ cp[t] = "write" /\ cp' = [cp EXCEPT ![t] = "read"] /\ s2c' = Append(s2c, t)
  <2>1. /\ InFlight(s2c', s) = InFlight(s2c, s) + (IF t = s THEN 1 ELSE 0)
        /\ InFlight(s2c, s)' = InFlight(s2c', s)
    <3>1. t \in Response /\ s2c \in Seq(Response)
      BY DEF Typed, Response
    <3> QED
      <4>1. InFlight(s2c, s)' = InFlight(s2c', s)
        BY DEF InFlight, Places
      <4>2. InFlight(Append(s2c, t), s) = InFlight(s2c, s) + (IF t = s THEN 1 ELSE 0)
        BY <3>1, CountAppend
      <4> QED
        BY <1>3, <4>1, <4>2
  <2>2. CASE s = t
    <3>1. Held(s) = 1 /\ Held(s)' = 0 /\ cp'[s] = "read"
      BY <1>1, <1>3, <2>2 DEF Held
    <3> QED
      <4>1. InFlight(s2c, s)' = InFlight(s2c, s) + 1
        BY <2>1, <2>2
      <4>2. pipe'[s] = pipe[s] /\ made'[s] = made[s] /\ got'[s] = got[s]
        BY <1>1, <1>3
      <4> QED
        BY <3>1, <4>1, <4>2, KeptTypes DEF Kept
  <2>3. CASE s # t
    BY <1>1, <1>3, <2>1, <2>3, KeptTypes, KeptStill
  <2> QED
    BY <2>2, <2>3
<1>4. CASE /\ UNCHANGED <<s2c, open, pipe>>
           /\ cp[t] = "read" /\ cp' = [cp EXCEPT ![t] = "done"]
           /\ pipe[t] = 0 /\ open[t] = {}
  <2>1. InFlight(s2c, s)' = InFlight(s2c, s)
    BY <1>4 DEF InFlight, Places
  <2>2. CASE s = t
    <3>1. Held(s) = 0 /\ Held(s)' = 0 /\ cp'[s] = "done"
      BY <1>1, <1>4, <2>2 DEF Held
    <3> QED
      BY <1>1, <1>4, <2>1, <2>2, <3>1 DEF Kept
  <2>3. CASE s # t
    BY <1>1, <1>4, <2>1, <2>3, KeptStill
  <2> QED
    BY <2>2, <2>3
<1> QED
  BY <1>1, <1>2, <1>3, <1>4, CopyEffect

\* A process prints into a pipe it holds open, whose copier is not done.
LEMMA KeptRest ==
    ASSUME Inv, Typed, Watch \/ Processes, NEW s \in Stream, Kept(s)
    PROVE  Kept(s)'
<1>1. CASE Watch
  BY <1>1, WatchEffect, KeptStill DEF InFlight, Places
<1>2. CASE Processes
  <2>1. UNCHANGED <<got, s2c, cp>> /\ InFlight(s2c, s)' = InFlight(s2c, s)
    BY <1>2, ProcessEffect DEF InFlight, Places
  <2>2. CASE UNCHANGED <<pipe, made>> /\ \A t \in Stream : open[t] = {} => open'[t] = {}
    BY <2>1, <2>2, KeptStill
  <2>3. ASSUME NEW t \in Stream, open[t] # {}, open' = open,
               pipe' = [pipe EXCEPT ![t] = @ + 1], made' = [made EXCEPT ![t] = @ + 1]
        PROVE  Kept(s)'
    <3>1. CASE s = t
      <4>1. made'[s] = made[s] + 1 /\ pipe'[s] = pipe[s] + 1 /\ Held(s)' = Held(s)
        BY <2>1, <2>3, <3>1 DEF Typed, Held
      <4> QED
        BY <2>1, <2>3, <3>1, <4>1, KeptTypes DEF Kept
    <3>2. CASE s # t
      <4>1. made'[s] = made[s] /\ pipe'[s] = pipe[s]
        BY <2>3, <3>2 DEF Typed
      <4> QED
        BY <2>1, <2>3, <4>1, KeptStill
    <3> QED
      BY <3>1, <3>2
  <2> QED
    BY <1>2, <2>2, <2>3, ProcessEffect
<1> QED
  BY <1>1, <1>2

\* Every step keeps the count of chunks as long as the client is there.
LEMMA ConservedStep ==
    ASSUME Inv, Typed, [Next]_vars, ~Gone', Conserved
    PROVE  Conserved'
<1>1. ~Gone
  BY GoneStep
<1> SUFFICES ASSUME NEW s \in Stream PROVE Kept(s)'
  BY DEF Conserved
<1>2. \A t \in Stream : Kept(t)
  BY DEF Conserved
<1>3. CASE Client \/ Forward \/ User
  BY <1>2, <1>3, KeptClient
<1>4. CASE Serve
  BY <1>1, <1>2, <1>4, KeptServe
<1>5. CASE Watch \/ Processes
  BY <1>2, <1>5, KeptRest
<1>6. ASSUME NEW t \in Stream, Copy(t) PROVE Kept(s)'
  BY <1>1, <1>2, <1>6, KeptCopy
<1>7. CASE UNCHANGED <<srv, cp, status, open, pipe, made, got, result, s2c, cl>>
  BY <1>2, <1>7, KeptStill DEF InFlight, Places
<1> QED
  BY <1>3, <1>4, <1>5, <1>6, <1>7, Actors
-----------------------------------------------------------------------------
(* The session implements RemoteRun.                                       *)

\* When the Exit response is read nothing else is on its way: the copiers
\* are done, their pipes are empty, and it is the last packet.
LEMMA ExitShowsAll ==
    ASSUME RunInv, GetExit
    PROVE  /\ result = "none" /\ result' = status /\ Gone' /\ status \in Status
           /\ got = made /\ srv \in Over
<1>1. PICK st \in Status : ClientReads(st) /\ Ends("done", st)
  BY DEF GetExit
<1>2. ~Gone /\ result = "none" /\ Conserved /\ ExitIsLast
  BY DEF GetExit, Gone, RunInv, Told
<1>3. s2c \in Seq(Response) /\ s2c # <<>> /\ s2c[1] = st /\ Len(s2c) \in Nat /\ 1 \in 1..Len(s2c)
  BY <1>1 DEF RunInv, Typed, ClientReads
<1>4. Len(s2c) = 1 /\ st = status /\ srv \in Over
  BY <1>1, <1>2, <1>3 DEF ExitIsLast
<1>5. \A s \in Stream : cp[s] = "done"
  BY <1>1, <1>4 DEF RunInv, Inv, Unstarted, Finished, Status
<1>6. ASSUME NEW s \in Stream PROVE got[s] = made[s]
  <2>1. InFlight(s2c, s) = 0
    <3>1. s2c[1] # s
      BY <1>1, <1>3 DEF Stream, Status
    <3>2. Tail(s2c) \in Seq(Response) /\ Len(Tail(s2c)) = 0 /\ Head(s2c) = s2c[1]
      BY <1>3, <1>4
    <3>3. InFlight(Tail(s2c), s) = 0
      BY <3>2, CountNone
    <3>4. InFlight(s2c, s) = InFlight(Tail(s2c), s) + (IF Head(s2c) = s THEN 1 ELSE 0)
      BY <1>3, CountTail
    <3> QED
      BY <3>1, <3>2, <3>3, <3>4
  <2>2. Held(s) = 0 /\ pipe[s] = 0
    BY <1>2, <1>5 DEF Conserved, Kept, Held
  <2> QED
    BY <1>2, <2>1, <2>2, KeptTypes DEF Conserved, Kept, RunInv
<1>7. got = made
  BY <1>6 DEF RunInv, Typed
<1> QED
  BY <1>1, <1>2, <1>4, <1>7 DEF Ends, Gone

\* Every step keeps what the result says.
LEMMA ToldStep == ASSUME RunInv, [Next]_vars PROVE Told'
<1> USE DEF RunInv
<1>1. CASE Gone
  <2>1. Gone' /\ UNCHANGED <<got, result>>
    BY <1>1, GoneStep
  <2>2. result \in Status => srv' \in Over /\ UNCHANGED <<status, made>>
    BY SettledStep DEF Told
  <2> QED
    BY <1>1, <2>1, <2>2 DEF Told
<1>2. CASE ~Gone /\ (Client \/ Forward \/ User)
  <2>1. result = "none" /\ "none" \notin Status /\ "failed" \notin Status
    BY <1>2 DEF Told, Status
  <2>2. CASE UNCHANGED result /\ ~Gone'
    BY <2>1, <2>2 DEF Told
  <2>3. ASSUME NEW s \in Stream, GetOutput(s) PROVE Told'
    BY <2>1, <2>3 DEF GetOutput, Told, Gone
  <2>4. CASE GetExit
    <3>1. UNCHANGED <<got, made, status, srv>>
      BY <1>2, <2>4, ClientEffect DEF GetExit
    <3> QED
      BY <2>1, <2>4, <3>1, ExitShowsAll DEF Told
  <2>5. CASE result' = "failed" /\ Gone'
    BY <2>1, <2>5 DEF Told
  <2> QED
    BY <1>2, <2>2, <2>3, <2>4, <2>5, ClientEffect
<1>3. ASSUME UNCHANGED <<cl, result>>, ~Gone PROVE Told'
  BY <1>3 DEF Told, Gone, Status
<1>4. ASSUME NEW s \in Stream, Copy(s) PROVE UNCHANGED <<cl, result>>
  BY <1>4, CopyEffect
<1> QED
  BY <1>1, <1>2, <1>3, <1>4, Actors, ServeEffect, WatchEffect, ProcessEffect

\* Nobody has a pipe before the command is started.
LEMMA UnopenedStep == ASSUME Inv, Typed, [Next]_vars, Unopened PROVE Unopened'
<1>1. CASE Client \/ Forward \/ User
  BY <1>1, ClientEffect DEF Unopened
<1>2. CASE Serve
  BY <1>2, ServeEffect DEF Unopened
<1>3. CASE Watch
  BY <1>3, WatchEffect DEF Unopened
<1>4. ASSUME NEW s \in Stream, Copy(s) PROVE Unopened'
  BY <1>4, CopyEffect DEF Unopened
<1>5. CASE Processes
  BY <1>5, ProcessEffect DEF Unopened
<1> QED
  BY <1>1, <1>2, <1>3, <1>4, <1>5, Actors DEF Unopened

\* The invariant holds at first, and every step keeps it.
LEMMA RunInvInit == Init => RunInv
<1> SUFFICES ASSUME Init PROVE RunInv
  OBVIOUS
<1>1. Inv
  BY InitInv
<1>2. Typed
  BY DEF Init, Typed
<1>3. Told /\ Unopened
  BY DEF Init, Told, Unopened, Gone, Status
<1>4. Conserved
  BY CountEmpty DEF Init, Conserved, Kept, Held
<1>5. ExitIsLast
  BY DEF Init, ExitIsLast
<1> QED
  BY <1>1, <1>2, <1>3, <1>4, <1>5 DEF RunInv

LEMMA RunInvStep == ASSUME RunInv, [Next]_vars PROVE RunInv'
<1>1. Inv' /\ Typed' /\ Told' /\ Unopened'
  BY InvStep, TypedStep, ToldStep, UnopenedStep DEF RunInv
<1>2. ~Gone' => ~Gone
  BY GoneStep DEF RunInv
<1>3. ~Gone' => Conserved' /\ ExitIsLast'
  BY <1>2, ConservedStep, ExitStep DEF RunInv
<1> QED
  BY <1>1, <1>3 DEF RunInv

\* In every behaviour chunks are conserved and Exit comes last.
THEOREM RunInductive == Spec => []RunInv
BY RunInvInit, RunInvStep, PTL DEF Spec

\* The client shows a chunk that has been printed.
LEMMA ShownIsMade ==
    ASSUME RunInv, NEW s \in Stream, GetOutput(s)
    PROVE  result = "none" /\ got[s] < made[s]
<1>1. ~Gone /\ s2c \in Seq(Response) /\ s2c # <<>> /\ Head(s2c) = s
  BY DEF GetOutput, ClientReads, Gone, RunInv, Typed
<1>2. InFlight(s2c, s) = InFlight(Tail(s2c), s) + 1 /\ InFlight(Tail(s2c), s) \in Nat
  BY <1>1, CountTail, CountType, SeqTypes
<1> QED
  BY <1>1, <1>2, KeptTypes DEF RunInv, Told, Conserved, Kept

\* What the client does is a step of RemoteRun or none.
LEMMA ClientRefines ==
    ASSUME RunInv, Client \/ Forward \/ User
    PROVE  [Run!Next]_(Run!runVars)
<1>1. UNCHANGED <<status, made>> /\ ~Gone
  BY ClientEffect
<1>2. result = "none"
  BY <1>1 DEF RunInv, Told
<1>3. CASE UNCHANGED <<result, got>>
  BY <1>1, <1>3 DEF Run!runVars
<1>4. ASSUME NEW s \in Stream, GetOutput(s) PROVE Run!Show(s)
  BY <1>1, <1>4, ShownIsMade DEF GetOutput, Run!Show
<1>5. CASE GetExit
  <2>1. UNCHANGED got /\ Run!Return
    BY <1>1, <1>5, ExitShowsAll DEF GetExit, Run!Return, Status
  <2> QED
    BY <2>1 DEF Run!Next
<1>6. CASE result' = "failed" /\ got' = got
  BY <1>1, <1>2, <1>6 DEF Run!Next, Run!Fail
<1> QED
  BY <1>3, <1>4, <1>5, <1>6, ClientEffect DEF Run!Next

\* What the others do starts or ends the command, or nothing.
LEMMA ServerRefines ==
    ASSUME RunInv, UNCHANGED <<result, got, made>>,
           \/ status' = status
           \/ status = "none" /\ status' = "running"
           \/ status = "running" /\ status' \in Status
    PROVE  [Run!Next]_(Run!runVars)
BY DEF Run!Next, Run!Begin, Run!End, Run!runVars, Status

\* Every step of the session is one of RemoteRun, or a stutter.
LEMMA StepRefines == ASSUME RunInv, [Next]_vars PROVE [Run!Next]_(Run!runVars)
<1> USE DEF RunInv
<1>1. CASE Client \/ Forward \/ User
  BY <1>1, ClientRefines
<1>2. CASE Serve
  <2>1. srv = "start" => status = "none"
    BY DEF Inv, Early, Unstarted
  <2> QED
    BY <1>2, <2>1, ServeEffect, ServerRefines
<1>3. CASE Watch
  BY <1>3, WatchEffect, ServerRefines DEF Status
<1>4. ASSUME NEW s \in Stream, Copy(s) PROVE [Run!Next]_(Run!runVars)
  BY <1>4, CopyEffect, ServerRefines DEF Status
<1>5. CASE Processes
  <2>1. CASE UNCHANGED made /\ (status' = status \/ (status = "running" /\ status' = "exited"))
    BY <1>5, <2>1, ProcessEffect, ServerRefines DEF Status
  <2>2. ASSUME NEW s \in Stream, UNCHANGED <<open, status>>, ~Reaped, open[s] # {},
               made' = [made EXCEPT ![s] = @ + 1]
        PROVE  Run!Make(s)
    <3>1. status # "none" /\ UNCHANGED <<got, result>>
      BY <1>5, <2>2, ProcessEffect DEF Unopened
    <3>2. result \in {"none", "failed"}
      BY <2>2, <3>1 DEF Told, Reaped, Over
    <3> QED
      BY <2>2, <3>1, <3>2 DEF Run!Make, Inv, Status
  <2> QED
    BY <1>5, <2>1, <2>2, ProcessEffect DEF Run!Next
<1>6. CASE UNCHANGED <<srv, cp, status, open, pipe, made, got, result, s2c, cl>>
  BY <1>6 DEF Run!runVars
<1> QED
  BY <1>1, <1>2, <1>3, <1>4, <1>5, <1>6, Actors

\* A session starts its command at most once, shows all it has printed, and
\* then the status it ended with.
THEOREM RunImplemented == Spec => ImplementsRemoteRun
<1>1. Init => Run!Init
  BY DEF Init, Run!Init
<1> QED
  BY <1>1, RunInductive, StepRefines, PTL DEF Spec, ImplementsRemoteRun, Run!Spec
-----------------------------------------------------------------------------
(* The types, and the bounds of pipes and counters.                        *)

Request == {"Setup", "Upload", "Start", "Kill"}

ClientTypes ==
    /\ cl \in {"dial", "setup", "ready", "run", "done", "failed", "exited"}
    /\ intr \in {"none", "armed", "kill", "second"}
    /\ sig \in BOOLEAN /\ interrupts \in 0..MaxInterrupts
ServerTypes ==
    /\ c2s \in Seq(Request)
    /\ watch \in {"none", "read", "check", "kill", "done"} /\ exited \in BOOLEAN
Bounds == \A s \in Stream : pipe[s] <= PipeCap /\ made[s] <= MaxPrints /\ got[s] <= MaxPrints

\* Only the client writes its variables.
LEMMA ClientTypesStep == ASSUME ClientTypes, [Next]_vars PROVE ClientTypes'
<1> USE Assumptions DEF ClientTypes, ClientOnly, ClientReads, Ends, netVars
<1>1. CASE GetInfo \/ GetReady \/ GetExit \/ GetError \/ \E s \in Stream : GetOutput(s)
  BY <1>1 DEF GetInfo, GetReady, GetExit, GetError, GetOutput
<1>2. CASE GetNeed \/ SendStart
  BY <1>2 DEF GetNeed, SendStart
<1>3. CASE Forward
  BY <1>3 DEF Forward, FirstInterrupt, SendKill, SecondInterrupt
<1>4. CASE User
  <2>1. UNCHANGED intr /\ sig' \in {sig, TRUE} /\ cl' \in {cl, "exited"}
    BY <1>4 DEF User, Interrupt, Vanish
  <2>2. interrupts' = interrupts \/ (interrupts < MaxInterrupts /\ interrupts' = interrupts + 1)
    BY <1>4 DEF User, Interrupt, Vanish
  <2>3. interrupts' \in 0..MaxInterrupts
    BY <2>2
  <2> QED
    BY <2>1, <2>3
<1>5. CASE Serve
  <2>1. UNCHANGED clientVars
    BY <1>5 DEF Serve, SendInfo, GetSetup, SendNeed, GetUpload, Build, SendReady,
       GetStart, SendError, StartCommand, Wait, CloseExited, SendExit, Return,
       Sends, ServeOnly
  <2> QED
    BY <2>1 DEF clientVars
<1>6. CASE Watch \/ Processes
  <2>1. UNCHANGED clientVars
    BY <1>6 DEF Watch, WatchReads, WatchChecks, WatchKills, Processes, Fork,
       Escape, ReusePid, ExitProcess, Emit, CloseStream, ProcOnly
  <2> QED
    BY <2>1 DEF clientVars
<1>7. ASSUME NEW s \in Stream, Copy(s) PROVE ClientTypes'
  <2>1. UNCHANGED clientVars
    BY <1>7 DEF Copy, CopyReads, CopyWrites, CopyKills, CopyEnds
  <2> QED
    BY <2>1 DEF clientVars
<1>8. CASE UNCHANGED vars
  BY <1>8 DEF vars, clientVars
<1> QED
  BY <1>1, <1>2, <1>3, <1>4, <1>5, <1>6, <1>7, <1>8 DEF Next, Client

\* Requests are written by the client and read by serve or the watcher.
LEMMA ServerTypesStep == ASSUME ServerTypes, [Next]_vars PROVE ServerTypes'
<1>1. CASE Client \/ Forward \/ User
  <2>1. UNCHANGED <<watch, exited>>
    BY <1>1 DEF Client, Forward, User, ClientOnly, GetInfo, GetNeed, GetReady,
       SendStart, GetExit, GetError, GetOutput, FirstInterrupt, SendKill,
       SecondInterrupt, Interrupt, Vanish, serverVars
  <2>2. c2s' = c2s \/ \E p \in Request : c2s' = Append(c2s, p)
    BY <1>1 DEF Client, Forward, User, GetInfo, GetNeed, GetReady,
       SendStart, GetExit, GetError, GetOutput, FirstInterrupt, SendKill,
       SecondInterrupt, Interrupt, Vanish, ClientWrites, netVars, Request
  <2> QED
    BY <2>1, <2>2 DEF ServerTypes
<1>2. CASE Serve
  <2>1. /\ watch' \in {watch, "read"} /\ exited' \in {exited, TRUE}
        /\ c2s' = c2s \/ (c2s # <<>> /\ c2s' = Tail(c2s))
    BY <1>2 DEF Serve, SendInfo, GetSetup, SendNeed, GetUpload, Build, SendReady,
       GetStart, SendError, StartCommand, Wait, CloseExited, SendExit, Return,
       Sends, ServeOnly, ServerReads, ReadFails, netVars
  <2>2. c2s' \in Seq(Request)
    BY <2>1 DEF ServerTypes
  <2>3. watch' \in {"none", "read", "check", "kill", "done"} /\ exited' \in BOOLEAN
    BY <2>1 DEF ServerTypes
  <2> QED
    BY <2>2, <2>3 DEF ServerTypes
<1>3. CASE Watch
  <2>1. /\ watch' \in {"check", "kill", "done"} /\ UNCHANGED exited
        /\ c2s' = c2s \/ (c2s # <<>> /\ c2s' = Tail(c2s))
    BY <1>3 DEF Watch, WatchReads, WatchChecks, WatchKills, ServerReads, ReadFails, netVars
  <2> QED
    BY <2>1 DEF ServerTypes
<1>4. ASSUME NEW s \in Stream, Copy(s) PROVE ServerTypes'
  BY <1>4 DEF Copy, CopyReads, CopyWrites, CopyKills, CopyEnds, netVars, ServerTypes
<1>5. CASE Processes
  BY <1>5 DEF Processes, Fork, Escape, ReusePid, ExitProcess, Emit, CloseStream,
     ProcOnly, netVars, serverVars, ServerTypes
<1>6. CASE UNCHANGED vars
  BY <1>6 DEF vars, netVars, serverVars, ServerTypes
<1> QED
  BY <1>1, <1>2, <1>3, <1>4, <1>5, <1>6 DEF Next

\* A pipe takes no more than it holds, and nothing is shown that was not printed.
LEMMA BoundsStep == ASSUME RunInv, Bounds, [Next]_vars PROVE Bounds'
<1> USE Assumptions DEF RunInv
<1> SUFFICES ASSUME NEW s \in Stream
             PROVE  pipe'[s] <= PipeCap /\ made'[s] <= MaxPrints /\ got'[s] <= MaxPrints
  BY DEF Bounds
<1>1. /\ pipe[s] <= PipeCap /\ made[s] <= MaxPrints /\ got[s] <= MaxPrints
      /\ pipe[s] \in Nat /\ made[s] \in Nat /\ got[s] \in Nat
  BY DEF Bounds, Typed
<1>2. CASE Client \/ Forward \/ User
  <2>1. UNCHANGED <<pipe, made>>
    BY <1>2, ClientEffect
  <2>2. CASE UNCHANGED got
    BY <1>1, <2>1, <2>2
  <2>3. ASSUME NEW t \in Stream, GetOutput(t) PROVE got'[s] <= MaxPrints
    <3>1. got[t] < made[t]
      BY <2>3, ShownIsMade
    <3> QED
      BY <1>1, <2>3, <3>1 DEF GetOutput, Typed
  <2>4. CASE GetExit
    BY <1>1, <2>1, <2>4 DEF GetExit
  <2> QED
    BY <1>1, <1>2, <2>1, <2>2, <2>3, <2>4, ClientEffect
<1>3. CASE Serve
  <2>1. UNCHANGED <<got, made>> /\ (pipe' = pipe \/ pipe' = [t \in Stream |-> 0])
    BY <1>3, ServeEffect
  <2> QED
    BY <1>1, <2>1
<1>4. CASE Watch
  BY <1>1, <1>4, WatchEffect
<1>5. ASSUME NEW t \in Stream, Copy(t)
      PROVE  pipe'[s] <= PipeCap /\ made'[s] <= MaxPrints /\ got'[s] <= MaxPrints
  <2>1. UNCHANGED <<got, made>> /\ (pipe' = pipe \/ pipe' = [pipe EXCEPT ![t] = @ - 1])
    BY <1>5, CopyEffect
  <2>2. [pipe EXCEPT ![t] = @ - 1][s] \in {pipe[s], pipe[s] - 1}
    BY DEF Typed
  <2>3. pipe'[s] \in {pipe[s], pipe[s] - 1}
    BY <2>1, <2>2
  <2> QED
    BY <1>1, <2>1, <2>3
<1>6. CASE Processes
  <2>1. CASE UNCHANGED <<got, pipe, made>>
    BY <1>1, <2>1
  <2>2. ASSUME NEW q \in Process, NEW t \in Stream, Emit(q, t)
        PROVE  pipe'[s] <= PipeCap /\ made'[s] <= MaxPrints
    BY <1>1, <2>2 DEF Emit, Typed
  <2>3. UNCHANGED <<pipe, made>> \/ \E q \in Process, t \in Stream : Emit(q, t)
    BY <1>6 DEF Processes, Fork, Escape, ReusePid, ExitProcess, CloseStream
  <2>4. UNCHANGED got
    BY <1>6, ProcessEffect
  <2> QED
    BY <1>1, <2>1, <2>2, <2>3, <2>4
<1>7. CASE UNCHANGED <<srv, cp, status, open, pipe, made, got, result, s2c, cl>>
  BY <1>1, <1>7
<1> QED
  BY <1>2, <1>3, <1>4, <1>5, <1>6, <1>7, Actors

\* All variables keep their types and bounds; that no more is shown than was
\* printed is needed for the bound of got.
THEOREM TypesHold == Spec => []TypeOK
<1>1. Init => ClientTypes /\ ServerTypes /\ Bounds
  <2> SUFFICES ASSUME Init PROVE ClientTypes /\ ServerTypes /\ Bounds
    OBVIOUS
  <2>0. sig \in BOOLEAN /\ exited \in BOOLEAN
    BY Zenon DEF Init
  <2>1. ClientTypes
    BY <2>0, Assumptions DEF Init, ClientTypes
  <2>2. ServerTypes
    BY <2>0 DEF Init, ServerTypes
  <2>3. Bounds
    BY Assumptions DEF Init, Bounds
  <2> QED
    BY <2>1, <2>2, <2>3
<1>2. RunInv /\ Bounds /\ [Next]_vars => Bounds'
  BY BoundsStep
<1>3. RunInv /\ ClientTypes /\ ServerTypes /\ Bounds => TypeOK
  <2> SUFFICES ASSUME RunInv, ClientTypes, ServerTypes, Bounds PROVE TypeOK
    OBVIOUS
  <2>1. /\ got \in [Stream -> 0..MaxPrints] /\ made \in [Stream -> 0..MaxPrints]
        /\ pipe \in [Stream -> 0..PipeCap] /\ open \in [Stream -> SUBSET Process]
        /\ s2c \in Seq({"Info", "Need", "Ready", "Error"} \cup Stream \cup Status)
    BY Assumptions DEF RunInv, Typed, Bounds, Response
  <2>2. /\ srv \in {"info", "setup", "need", "upload", "build", "built", "ready",
                    "start", "run", "waited", "closed", "fail", "cleanup", "returned"}
        /\ cp \in [Stream -> {"none", "read", "write", "kill", "done"}]
        /\ status \in {"none", "running"} \cup Status
        /\ alive \subseteq Process /\ group \subseteq Process /\ pid \in {"cmd", "other"}
    BY DEF RunInv, Inv, Early, Late, Over
  <2>3. result \in {"none", "failed"} \cup Status
    BY DEF RunInv, Told
  <2> QED
    BY <2>1, <2>2, <2>3 DEF TypeOK, ClientTypes, ServerTypes, Request
<1> QED
  BY <1>1, <1>2, <1>3, RunInductive, ClientTypesStep, ServerTypesStep, PTL DEF Spec
=============================================================================
