-------------------------- MODULE TailDaemonProofs --------------------------
(***************************************************************************)
(* Theorems of TailDaemon, for any number of commands and processes.       *)
(*                                                                         *)
(* Base is inductive by itself, with or without file locks: it gives the   *)
(* types, that commands are served before the node goes down, and that the *)
(* idle timer is in step with the count of commands.  With file locks, one *)
(* more conjunct, Owned, gives one node per directory, a socket that is    *)
(* never stolen, and the refinement of SharedNode.                         *)
(***************************************************************************)
EXTENDS TailDaemon, FiniteSetTheorems, TLAPS

\* The connections: a command that has not reached a daemon has no handler,
\* an accepted one is the only one its accept loop is adding, handlers run
\* in a process that is open or draining, and an open listener belongs to a
\* process in its accept loop.
Handlers ==
    /\ \A c \in Client : cmd[c] \in {"new", "start", "login", "poll"} =>
          h[c] = "none" /\ at[c] = NoProc
    /\ \A c \in Client : h[c] = "accepted" => pc[at[c]] = "adding"
    /\ \A c, d \in Client :
          h[c] = "accepted" /\ h[d] = "accepted" /\ at[c] = at[d] => c = d
    /\ ServedBeforeTeardown
    /\ \A p \in Proc : svc[p] => pc[p] \in {"run", "adding"}

Base == TypeOK /\ Handlers /\ IdleTimerInStep

-----------------------------------------------------------------------------
\* A daemon's counter is the number of its connected commands, and it is not
\* 0 when there is one.
LEMMA CountedClients ==
    ASSUME Base, NEW p \in Proc
    PROVE  /\ active[p] = Cardinality(Connected(p))
           /\ IsFiniteSet(Connected(p))
           /\ active[p] \in Nat
           /\ active[p] = 0 <=> Connected(p) = {}
<1>1. IsFiniteSet(Connected(p))
  BY Assumptions, FS_Subset DEF Connected
<1>2. active[p] = Cardinality(Connected(p)) /\ active[p] \in Nat
  BY DEF Base, TypeOK, IdleTimerInStep, Connected
<1> QED
  BY <1>1, <1>2, FS_EmptySet

\* A handler's command is connected to a process.
LEMMA HandlerHome ==
    ASSUME Base, NEW c \in Client, h[c] \in Waited \cup {"accepted"}
    PROVE  at[c] \in Proc
BY DEF Base, Handlers, ServedBeforeTeardown

\* Every step keeps the types.
LEMMA TypeStep ==
    ASSUME Base, [Next]_vars
    PROVE  TypeOK'
<1> USE Assumptions DEF vars, cmdVars, connVars, dirVars, procVars, TypeOK, CmdState,
            ProcState, HandlerState, Goto, Answer, DaemonOnly, Reach, CloseSvc
<1>1. ASSUME NEW c \in Client, Register(c) PROVE TypeOK'
  <2>1. serving' \in [Proc -> BOOLEAN] /\ ln' \in [Proc -> Client \cup {NoClient}]
    <3>1. \/ /\ serving' = [serving EXCEPT ![at[c]] = TRUE]
             /\ ln' = [ln EXCEPT ![at[c]] = c]
          \/ UNCHANGED <<serving, ln>>
      BY <1>1 DEF Register
    <3>2. serving \in [Proc -> BOOLEAN] /\ ln \in [Proc -> Client \cup {NoClient}]
      BY DEF Base
    <3> QED
      BY <1>1, <3>1, <3>2
  <2>2. h' \in [Client -> HandlerState]
        /\ reply' \in [Client -> {"none", "Connected", "Serving", "Stopping", "Error"}]
    BY <1>1 DEF Register, Base
  <2>3. UNCHANGED <<cmdVars, at, dirVars, svc, active, timer, fired, logc, sessions, pc,
                    crashes>>
    BY <1>1 DEF Register
  <2> QED
    BY <2>1, <2>2, <2>3 DEF Base
<1>2. ASSUME NEW c \in Client, Leave(c) PROVE TypeOK'
  <2>1. at[c] \in Proc /\ active[at[c]] \in Nat \ {0}
    BY <1>2, HandlerHome, CountedClients DEF Leave, Connected, Waited, Counted
  <2>a. active \in [Proc -> Nat] /\ active' = [active EXCEPT ![at[c]] = active[at[c]] - 1]
    BY <1>2 DEF Leave, Base
  <2>2. active' \in [Proc -> Nat]
    BY <2>1, <2>a
  <2>3. timer' \in [Proc -> {"armed", "stopped"}] /\ h' \in [Client -> HandlerState]
    BY <1>2 DEF Leave, Base
  <2>4. UNCHANGED <<cmdVars, at, reply, dirVars, svc, fired, serving, ln, logc, sessions,
                    pc, crashes>>
    BY <1>2 DEF Leave
  <2> QED
    BY <2>2, <2>3, <2>4 DEF Base
<1>3. ASSUME NEW p \in Proc, Bind(p) PROVE TypeOK'
  <2>1. /\ sockFile' \in Proc \cup {NoProc} /\ svc' \in [Proc -> BOOLEAN]
        /\ timer' \in [Proc -> {"armed", "stopped"}]
    <3>1. \/ /\ sockFile' = p /\ svc' = [svc EXCEPT ![p] = TRUE]
             /\ timer' = [timer EXCEPT ![p] = "armed"]
          \/ UNCHANGED <<sockFile, svc, timer>>
      BY <1>3 DEF Bind
    <3>2. /\ sockFile \in Proc \cup {NoProc} /\ svc \in [Proc -> BOOLEAN]
          /\ timer \in [Proc -> {"armed", "stopped"}]
      BY DEF Base
    <3> QED
      BY <1>3, <3>1, <3>2
  <2>2. pc' \in [Proc -> ProcState]
    BY <1>3 DEF Bind, Base
  <2>3. UNCHANGED <<cmdVars, connVars, lock, creds, active, fired, serving, ln, logc,
                    sessions, crashes>>
    BY <1>3 DEF Bind
  <2> QED
    BY <2>1, <2>2, <2>3 DEF Base
<1>4. ASSUME NEW p \in Proc, Expire(p) PROVE TypeOK'
  <2>1. /\ sockFile' \in Proc \cup {NoProc} /\ svc' \in [Proc -> BOOLEAN]
        /\ h' \in [Client -> HandlerState]
    <3>1. CASE active[p] > 0
      BY <1>4, <3>1 DEF Expire, Base
    <3>2. CASE CloseSvc(p, h)
      BY <1>4, <3>2 DEF Base
    <3> QED
      BY <1>4, <3>1, <3>2 DEF Expire
  <2>2. fired' \in [Proc -> {"no", "fresh", "stale"}]
    BY <1>4 DEF Expire, Base
  <2>3. UNCHANGED <<cmdVars, at, reply, lock, creds, active, timer, serving, ln, logc,
                    sessions, pc, crashes>>
    BY <1>4 DEF Expire
  <2> QED
    BY <2>1, <2>2, <2>3 DEF Base
<1>5. ASSUME NEW c \in Client,
             Connect(c)
      PROVE  TypeOK'
  BY <1>5 DEF Base, Connect
<1>6. ASSUME NEW c \in Client,
             Login(c)
      PROVE  TypeOK'
  BY <1>6 DEF Base, Login
<1>7. ASSUME NEW c \in Client,
             LoginStores(c)
      PROVE  TypeOK'
  BY <1>7 DEF Base, LoginStores
<1>8. ASSUME NEW c \in Client,
             LoginEnds(c)
      PROVE  TypeOK'
  BY <1>8 DEF Base, LoginEnds
<1>9. ASSUME NEW c \in Client,
             StartDaemon(c)
      PROVE  TypeOK'
  BY <1>9 DEF Base, StartDaemon
<1>10. ASSUME NEW c \in Client,
             Poll(c)
      PROVE  TypeOK'
  BY <1>10 DEF Base, Poll
<1>11. ASSUME NEW c \in Client,
             PollTimeout(c)
      PROVE  TypeOK'
  BY <1>11 DEF Base, PollTimeout
<1>12. ASSUME NEW c \in Client,
             Receive(c)
      PROVE  TypeOK'
  BY <1>12 DEF Base, Receive
<1>13. ASSUME NEW c \in Client,
             Hangup(c)
      PROVE  TypeOK'
  BY <1>13 DEF Base, Hangup
<1>14. ASSUME NEW c \in Client,
             Lost(c)
      PROVE  TypeOK'
  BY <1>14 DEF Base, Lost
<1>15. ASSUME NEW c \in Client,
             Finish(c)
      PROVE  TypeOK'
  BY <1>15 DEF Base, Finish
<1>16. ASSUME NEW c \in Client,
             ReadRequest(c)
      PROVE  TypeOK'
  BY <1>16 DEF Base, ReadRequest
<1>17. ASSUME NEW c \in Client,
             DialSucceeds(c)
      PROVE  TypeOK'
  BY <1>17 DEF Base, DialSucceeds
<1>18. ASSUME NEW c \in Client,
             DialFails(c)
      PROVE  TypeOK'
  BY <1>18 DEF Base, DialFails
<1>19. ASSUME NEW c \in Client,
             Announce(c)
      PROVE  TypeOK'
  BY <1>19 DEF Base, Announce
<1>20. ASSUME NEW c \in Client,
             ServerGone(c)
      PROVE  TypeOK'
  BY <1>20 DEF Base, ServerGone
<1>21. ASSUME NEW c \in Client,
             Unregister(c)
      PROVE  TypeOK'
  BY <1>21 DEF Base, Unregister
<1>22. ASSUME NEW c \in Client,
             Unlisten(c)
      PROVE  TypeOK'
  BY <1>22 DEF Base, Unlisten
<1>23. ASSUME NEW c \in Client,
             Detach(c)
      PROVE  TypeOK'
  BY <1>23 DEF Base, Detach
<1>24. ASSUME NEW c \in Client,
             Stop(c)
      PROVE  TypeOK'
  BY <1>24 DEF Base, Stop
<1>25. ASSUME NEW c \in Client,
             WgDone(c)
      PROVE  TypeOK'
  BY <1>25 DEF Base, WgDone
<1>26. ASSUME NEW c \in Client,
             ProxyEnds(c)
      PROVE  TypeOK'
  BY <1>26 DEF Base, ProxyEnds
<1>27. ASSUME NEW p \in Proc,
             TakeLock(p)
      PROVE  TypeOK'
  BY <1>27 DEF Base, TakeLock
<1>28. ASSUME NEW p \in Proc,
             BringUp(p)
      PROVE  TypeOK'
  BY <1>28 DEF Base, BringUp
<1>29. ASSUME NEW p \in Proc,
             Probe(p)
      PROVE  TypeOK'
  BY <1>29 DEF Base, Probe
<1>30. ASSUME NEW p \in Proc,
             RemoveStale(p)
      PROVE  TypeOK'
  BY <1>30 DEF Base, RemoveStale
<1>31. ASSUME NEW p \in Proc,
             AcceptFails(p)
      PROVE  TypeOK'
  BY <1>31 DEF Base, AcceptFails
<1>32. ASSUME NEW p \in Proc,
             Drained(p)
      PROVE  TypeOK'
  BY <1>32 DEF Base, Drained
<1>33. ASSUME NEW p \in Proc,
             TearDown(p)
      PROVE  TypeOK'
  BY <1>33 DEF Base, TearDown
<1>34. ASSUME NEW p \in Proc,
             Exit(p)
      PROVE  TypeOK'
  BY <1>34 DEF Base, Exit
<1>35. ASSUME NEW p \in Proc,
             Fire(p)
      PROVE  TypeOK'
  BY <1>35 DEF Base, Fire
<1>36. ASSUME NEW p \in Proc,
             SessionStarts(p)
      PROVE  TypeOK'
  BY <1>36 DEF Base, SessionStarts
<1>37. ASSUME NEW p \in Proc,
             SessionEnds(p)
      PROVE  TypeOK'
  BY <1>37 DEF Base, SessionEnds
<1>38. ASSUME NEW p \in Proc,
             Crash(p)
      PROVE  TypeOK'
  BY <1>38 DEF Base, Crash
<1>39. ASSUME NEW p \in Proc, NEW c \in Client,
             Accept(p, c)
      PROVE  TypeOK'
  BY <1>39 DEF Base, Accept
<1>40. ASSUME NEW p \in Proc, NEW c \in Client,
             AddClient(p, c)
      PROVE  TypeOK'
  BY <1>40 DEF Base, AddClient
<1>41. CASE UNCHANGED vars
  BY <1>41 DEF Base
<1> QED
  BY <1>1, <1>2, <1>3, <1>4, <1>5, <1>6, <1>7, <1>8, <1>9, <1>10, <1>11,
        <1>12, <1>13, <1>14, <1>15, <1>16, <1>17, <1>18, <1>19, <1>20,
        <1>21, <1>22, <1>23, <1>24, <1>25, <1>26, <1>27, <1>28, <1>29,
        <1>30, <1>31, <1>32, <1>33, <1>34, <1>35, <1>36, <1>37, <1>38,
        <1>39, <1>40, <1>41
     DEF Next, Command, User, Handler, Main, Idle, Remote

\* Every step keeps the connections in order.
LEMMA HandlersStep ==
    ASSUME Base, [Next]_vars
    PROVE  Handlers'
<1> USE Assumptions DEF vars, cmdVars, connVars, dirVars, procVars, Goto, Answer, DaemonOnly, Reach,
            CloseSvc, Waited, Counted, HandlerState
<1>1. ASSUME NEW p \in Proc, Crash(p) PROVE Handlers'
  <2>1. /\ h' = [c \in Client |-> IF at[c] = p THEN "gone" ELSE h[c]]
        /\ svc' = [svc EXCEPT ![p] = FALSE] /\ pc' = [pc EXCEPT ![p] = "exited"]
        /\ Alive(p) /\ UNCHANGED <<cmd, at>>
    BY <1>1 DEF Crash
  <2>2. pc \in [Proc -> ProcState] /\ svc \in [Proc -> BOOLEAN] /\ Handlers
    BY DEF Base, TypeOK
  <2>3. \A c \in Client : cmd[c] \in {"new", "start", "login", "poll"} =>
          h'[c] = "none" /\ at'[c] = NoProc
    BY Assumptions, <2>1, <2>2 DEF Handlers, Base
  <2> QED
    BY <1>1, <2>1, <2>2, <2>3 DEF Handlers, ServedBeforeTeardown
<1>2. ASSUME NEW c \in Client,
             Connect(c) \/ Login(c) \/ LoginStores(c) \/ LoginEnds(c)
             \/ StartDaemon(c) \/ Poll(c) \/ PollTimeout(c) \/ Receive(c)
             \/ Hangup(c) \/ Lost(c) \/ Finish(c)
      PROVE  Handlers'
  BY <1>2 DEF Base, TypeOK, Handlers, ServedBeforeTeardown, Connect, Login, LoginStores, LoginEnds, StartDaemon, Poll,
        PollTimeout, Receive, Hangup, Lost, Finish
<1>3. ASSUME NEW c \in Client,
             ReadRequest(c) \/ DialSucceeds(c) \/ DialFails(c)
             \/ Register(c) \/ Announce(c) \/ ServerGone(c)
             \/ Unregister(c) \/ Unlisten(c) \/ Detach(c) \/ Stop(c)
             \/ Leave(c) \/ WgDone(c) \/ ProxyEnds(c)
      PROVE  Handlers'
  BY <1>3 DEF Base, TypeOK, Handlers, ServedBeforeTeardown, ReadRequest, DialSucceeds, DialFails, Register, Announce,
        ServerGone, Unregister, Unlisten, Detach, Stop, Leave, WgDone,
        ProxyEnds
<1>4. ASSUME NEW p \in Proc,
             TakeLock(p) \/ BringUp(p) \/ Probe(p) \/ RemoveStale(p)
             \/ Bind(p) \/ AcceptFails(p) \/ Drained(p) \/ TearDown(p)
             \/ Exit(p) \/ Fire(p) \/ Expire(p) \/ SessionStarts(p)
             \/ SessionEnds(p)
      PROVE  Handlers'
  BY <1>4 DEF Base, TypeOK, Handlers, ServedBeforeTeardown, TakeLock, BringUp, Probe, RemoveStale, Bind, AcceptFails, Drained,
        TearDown, Exit, Fire, Expire, SessionStarts, SessionEnds
<1>5. ASSUME NEW p \in Proc, NEW c \in Client,
             Accept(p, c) \/ AddClient(p, c)
      PROVE  Handlers'
  BY <1>5 DEF Base, TypeOK, Handlers, ServedBeforeTeardown, Accept, AddClient
<1>6. CASE UNCHANGED vars
  BY <1>6 DEF Base, Handlers, ServedBeforeTeardown
<1> QED
  BY <1>1, <1>2, <1>3, <1>4, <1>5, <1>6
     DEF Next, Command, User, Handler, Main, Idle, Remote


\* A step that leaves the counted handlers, the counters, the timers and the
\* listeners alone leaves the idle timer in step.
LEMMA CountKept ==
    ASSUME Base, UNCHANGED <<active, timer, fired, svc>>,
           \A c \in Client :
              \/ at'[c] = at[c] /\ (h'[c] \in Counted <=> h[c] \in Counted)
              \/ h[c] \notin Counted /\ h'[c] \notin Counted
    PROVE  IdleTimerInStep'
<1>1. \A p \in Proc : Connected(p)' = Connected(p)
  BY DEF Connected
<1> QED
  BY <1>1 DEF Base, IdleTimerInStep

\* Every step keeps the idle timer in step.
LEMMA IdleStep ==
    ASSUME Base, [Next]_vars
    PROVE  IdleTimerInStep'
<1> USE Assumptions DEF vars, cmdVars, connVars, dirVars, procVars, Goto, Answer, DaemonOnly, Reach,
            CloseSvc
<1>1. ASSUME NEW c \in Client, Stop(c) PROVE IdleTimerInStep'
  <2>1. \A q \in Proc : Connected(q)' = Connected(q)
    BY <1>1 DEF Stop, Connected, Counted, HandlerState, Base, TypeOK
  <2>2. UNCHANGED <<active, timer, fired>> /\ \A q \in Proc : svc'[q] => svc[q]
    BY <1>1 DEF Stop, Base, TypeOK
  <2> QED
    BY <2>1, <2>2 DEF IdleTimerInStep, Base
<1>2. ASSUME NEW c \in Client, Leave(c) PROVE IdleTimerInStep'
  <2>1. PICK p \in Proc : p = at[c]
    BY <1>2, HandlerHome DEF Leave, Waited, Counted, HandlerState
  <2>2. /\ active' = [active EXCEPT ![p] = active[p] - 1] /\ UNCHANGED <<at, svc, fired>>
        /\ timer' = [timer EXCEPT ![p] = IF active'[p] > 0 THEN "stopped" ELSE "armed"]
        /\ h[c] = "leave" /\ h' = [h EXCEPT ![c] = "left"]
    BY <1>2, <2>1 DEF Leave
  <2>3. Connected(p)' = Connected(p) \ {c} /\ c \in Connected(p)
    BY <2>1, <2>2 DEF Connected, Counted, HandlerState, Base, TypeOK
  <2>4. \A q \in Proc \ {p} : Connected(q)' = Connected(q)
    BY <2>1, <2>2 DEF Connected, Base, TypeOK
  <2>5. active'[p] = active[p] - 1 /\ active[p] \in Nat \ {0}
    BY <2>2, <2>3, CountedClients DEF Base, TypeOK
  <2>6. active'[p] = Cardinality(Connected(p)')
    <3>1. Cardinality(Connected(p) \ {c}) = Cardinality(Connected(p)) - 1
      BY <2>3, CountedClients, FS_RemoveElement
    <3>2. Cardinality(Connected(p)) = active[p]
      BY CountedClients
    <3> QED
      BY <2>3, <2>5, <3>1, <3>2
  <2>7. \A q \in Proc \ {p} : active'[q] = active[q] /\ timer'[q] = timer[q]
    BY <2>2 DEF Base, TypeOK
  <2>8. timer'[p] = IF active'[p] > 0 THEN "stopped" ELSE "armed"
    BY <2>2 DEF Base, TypeOK
  <2>9. active'[p] \in Nat
    BY <2>5
  <2> QED
    BY <2>2, <2>4, <2>6, <2>7, <2>8, <2>9 DEF IdleTimerInStep, Base
<1>3. ASSUME NEW p \in Proc, Bind(p) PROVE IdleTimerInStep'
  <2>1. Connected(p) = {} /\ active[p] = 0
    BY <1>3, CountedClients
       DEF Bind, Base, Handlers, ServedBeforeTeardown, Connected, Counted, Waited
  <2>2. \A q \in Proc : Connected(q)' = Connected(q)
    BY <1>3 DEF Bind, Connected
  <2>3. \A q \in Proc \ {p} : timer'[q] = timer[q] /\ svc'[q] = svc[q]
    BY <1>3 DEF Bind, Base, TypeOK
  <2>4. UNCHANGED <<active, fired>>
    BY <1>3 DEF Bind
  <2>5. timer'[p] = "armed" \/ (svc'[p] = svc[p] /\ timer'[p] = timer[p])
    BY <1>3 DEF Bind, Base, TypeOK
  <2> QED
    BY <2>1, <2>2, <2>3, <2>4, <2>5 DEF IdleTimerInStep, Base
<1>4. ASSUME NEW p \in Proc, NEW c \in Client, AddClient(p, c) PROVE IdleTimerInStep'
  <2>1. /\ active' = [active EXCEPT ![p] = active[p] + 1] /\ UNCHANGED <<at, svc>>
        /\ timer'[p] = IF active'[p] > 0 THEN "stopped" ELSE "armed"
        /\ \A q \in Proc \ {p} : timer'[q] = timer[q] /\ fired'[q] = fired[q]
        /\ h[c] = "accepted" /\ at[c] = p /\ h' = [h EXCEPT ![c] = "read"]
    BY <1>4 DEF AddClient, Base, TypeOK
  <2>2. Connected(p)' = Connected(p) \cup {c} /\ c \notin Connected(p)
    BY <2>1 DEF Connected, Counted, HandlerState, Base, TypeOK
  <2>3. \A q \in Proc \ {p} : Connected(q)' = Connected(q)
    BY <2>1 DEF Connected, Base, TypeOK
  <2>4. active'[p] = active[p] + 1 /\ active[p] \in Nat
    BY <2>1 DEF Base, TypeOK
  <2>5. active'[p] = Cardinality(Connected(p)')
    <3>1. Cardinality(Connected(p) \cup {c}) = Cardinality(Connected(p)) + 1
      BY <2>2, CountedClients, FS_AddElement
    <3>2. Cardinality(Connected(p)) = active[p]
      BY CountedClients
    <3> QED
      BY <2>2, <2>4, <3>1, <3>2
  <2>6. \A q \in Proc \ {p} : active'[q] = active[q]
    BY <2>1 DEF Base, TypeOK
  <2>7. active'[p] > 0 /\ timer'[p] = "stopped"
    BY <2>1, <2>4
  <2> QED
    BY <2>1, <2>3, <2>5, <2>6, <2>7 DEF IdleTimerInStep, Base
<1>5. ASSUME NEW p \in Proc, Drained(p) PROVE IdleTimerInStep'
  <2>1. ~svc[p]
    BY <1>5 DEF Drained, Base, Handlers
  <2>2. /\ \A q \in Proc : Connected(q)' = Connected(q)
        /\ UNCHANGED <<active, fired, svc>> /\ timer' = [timer EXCEPT ![p] = "stopped"]
    BY <1>5 DEF Drained, Connected
  <2> QED
    BY <2>1, <2>2 DEF IdleTimerInStep, Base, TypeOK
<1>6. ASSUME NEW p \in Proc, Exit(p) PROVE IdleTimerInStep'
  <2>1. ~svc[p]
    BY <1>6 DEF Exit, Base, Handlers
  <2>2. /\ \A q \in Proc : Connected(q)' = Connected(q)
        /\ UNCHANGED <<active, timer, svc>> /\ fired' = [fired EXCEPT ![p] = "no"]
    BY <1>6 DEF Exit, Connected
  <2> QED
    BY <2>1, <2>2 DEF IdleTimerInStep, Base, TypeOK
<1>7. ASSUME NEW p \in Proc, Fire(p) PROVE IdleTimerInStep'
  <2>1. /\ \A q \in Proc : Connected(q)' = Connected(q)
        /\ UNCHANGED <<active, svc>>
        /\ timer' = [timer EXCEPT ![p] = "stopped"] /\ fired' = [fired EXCEPT ![p] = "fresh"]
    BY <1>7 DEF Fire, Connected
  <2> QED
    BY <2>1 DEF IdleTimerInStep, Base, TypeOK
<1>8. ASSUME NEW p \in Proc, Expire(p) PROVE IdleTimerInStep'
  <2>1. \A q \in Proc : Connected(q)' = Connected(q)
    BY <1>8 DEF Expire, Connected, Counted, Base, TypeOK
  <2>2. /\ UNCHANGED <<active, timer>> /\ fired' = [fired EXCEPT ![p] = "no"]
        /\ \A q \in Proc \ {p} : svc'[q] = svc[q]
        /\ active[p] > 0 \/ ~svc'[p]
        /\ svc'[p] => svc[p]
    BY <1>8 DEF Expire, Base, TypeOK
  <2>3. \A q \in Proc \ {p} : fired'[q] = fired[q]
    BY <2>2 DEF Base, TypeOK
  <2>4. active[p] \in Nat
    BY DEF Base, TypeOK
  <2> QED
    BY <2>1, <2>2, <2>3, <2>4 DEF IdleTimerInStep, Base
<1>9. ASSUME NEW p \in Proc, Crash(p) PROVE IdleTimerInStep'
  <2>1. Connected(p)' = {}
    BY <1>9 DEF Crash, Connected, Counted
  <2>2. \A q \in Proc \ {p} : Connected(q)' = Connected(q)
    BY <1>9 DEF Crash, Connected
  <2>3. /\ active'[p] = 0 /\ ~svc'[p]
        /\ \A q \in Proc \ {p} : /\ active'[q] = active[q] /\ svc'[q] = svc[q]
                                 /\ timer'[q] = timer[q] /\ fired'[q] = fired[q]
    BY <1>9 DEF Crash, Base, TypeOK
  <2> QED
    BY <2>1, <2>2, <2>3, FS_EmptySet DEF IdleTimerInStep, Base
<1>10. ASSUME NEW c \in Client,
             Connect(c) \/ Login(c) \/ LoginStores(c) \/ LoginEnds(c)
             \/ StartDaemon(c) \/ Poll(c) \/ PollTimeout(c) \/ Receive(c)
             \/ Hangup(c) \/ Lost(c) \/ Finish(c)
      PROVE  IdleTimerInStep'
  <2>1. \A d \in Client :
          \/ at'[d] = at[d] /\ (h'[d] \in Counted <=> h[d] \in Counted)
          \/ h[d] \notin Counted /\ h'[d] \notin Counted
    BY <1>10 DEF Base, TypeOK, Handlers, HandlerState, Counted, Connect, Login, LoginStores, LoginEnds, StartDaemon, Poll,
        PollTimeout, Receive, Hangup, Lost, Finish
  <2> QED
    BY <1>10, <2>1, CountKept DEF Connect, Login, LoginStores, LoginEnds, StartDaemon, Poll,
        PollTimeout, Receive, Hangup, Lost, Finish
<1>11. ASSUME NEW c \in Client,
             ReadRequest(c) \/ DialSucceeds(c) \/ DialFails(c)
             \/ Register(c) \/ Announce(c) \/ ServerGone(c)
             \/ Unregister(c) \/ Unlisten(c) \/ Detach(c) \/ WgDone(c)
             \/ ProxyEnds(c)
      PROVE  IdleTimerInStep'
  <2>1. \A d \in Client :
          \/ at'[d] = at[d] /\ (h'[d] \in Counted <=> h[d] \in Counted)
          \/ h[d] \notin Counted /\ h'[d] \notin Counted
    BY <1>11 DEF Base, TypeOK, Handlers, HandlerState, Counted, ReadRequest, DialSucceeds, DialFails, Register, Announce,
        ServerGone, Unregister, Unlisten, Detach, WgDone, ProxyEnds
  <2> QED
    BY <1>11, <2>1, CountKept DEF ReadRequest, DialSucceeds, DialFails, Register, Announce,
        ServerGone, Unregister, Unlisten, Detach, WgDone, ProxyEnds
<1>12. ASSUME NEW p \in Proc,
             TakeLock(p) \/ BringUp(p) \/ Probe(p) \/ RemoveStale(p)
             \/ AcceptFails(p) \/ TearDown(p) \/ SessionStarts(p)
             \/ SessionEnds(p)
      PROVE  IdleTimerInStep'
  <2>1. \A d \in Client :
          \/ at'[d] = at[d] /\ (h'[d] \in Counted <=> h[d] \in Counted)
          \/ h[d] \notin Counted /\ h'[d] \notin Counted
    BY <1>12 DEF Base, TypeOK, Handlers, HandlerState, Counted, TakeLock, BringUp, Probe, RemoveStale, AcceptFails, TearDown,
        SessionStarts, SessionEnds
  <2> QED
    BY <1>12, <2>1, CountKept DEF TakeLock, BringUp, Probe, RemoveStale, AcceptFails, TearDown,
        SessionStarts, SessionEnds
<1>13. ASSUME NEW p \in Proc, NEW c \in Client,
             Accept(p, c)
      PROVE  IdleTimerInStep'
  <2>1. \A d \in Client :
          \/ at'[d] = at[d] /\ (h'[d] \in Counted <=> h[d] \in Counted)
          \/ h[d] \notin Counted /\ h'[d] \notin Counted
    BY <1>13 DEF Base, TypeOK, Handlers, HandlerState, Counted, Accept
  <2> QED
    BY <1>13, <2>1, CountKept DEF Accept
<1>14. CASE UNCHANGED vars
  <2>1. \A d \in Client : at'[d] = at[d] /\ (h'[d] \in Counted <=> h[d] \in Counted)
    BY <1>14
  <2> QED
    BY <1>14, <2>1, CountKept
<1> QED
  BY <1>1, <1>2, <1>3, <1>4, <1>5, <1>6, <1>7, <1>8, <1>9, <1>10, <1>11,
        <1>12, <1>13, <1>14
     DEF Next, Command, User, Handler, Main, Idle, Remote

-----------------------------------------------------------------------------
\* Base holds initially and is preserved, so it holds always.
THEOREM BaseInvariant == Spec => []Base
<1>1. Init => Base
  <2> SUFFICES ASSUME Init PROVE Base
    OBVIOUS
  <2>1. TypeOK
    BY Assumptions DEF Init, TypeOK, CmdState, HandlerState, ProcState
  <2>2. Handlers
    BY DEF Init, Handlers, ServedBeforeTeardown, Waited, Counted, HandlerState
  <2>3. \A p \in Proc : Connected(p) = {} /\ active[p] = 0 /\ ~svc[p]
    BY DEF Init, Connected, Counted
  <2>4. IdleTimerInStep
    BY <2>3, FS_EmptySet DEF IdleTimerInStep
  <2> QED
    BY <2>1, <2>2, <2>4 DEF Base
<1>2. Base /\ [Next]_vars => Base'
  BY TypeStep, HandlersStep, IdleStep DEF Base
<1> QED
  BY <1>1, <1>2, PTL DEF Spec

\* Every reachable state has the types declared for it; in particular the
\* count of connected commands never goes below 0.
THEOREM TypeCorrect == Spec => []TypeOK
BY BaseInvariant, PTL DEF Base

\* With or without file locks, whatever stops, crashes or expires: the node
\* stays up under every command from its accept to the end of its handler.
THEOREM ServedSafely == Spec => []ServedBeforeTeardown
BY BaseInvariant, PTL DEF Base, Handlers

\* The count is exact, and a daemon open for commands with none connected
\* has its timer running or its expire under way: it is never open for ever.
THEOREM IdleTimerCorrect == Spec => []IdleTimerInStep
BY BaseInvariant, PTL DEF Base

-----------------------------------------------------------------------------
\* With file locks: a daemon between lockFile and lock.Close holds the lock,
\* and the file at the socket's path is that of the open listener.
Owned ==
    /\ \A p \in Proc : pc[p] \in LockStates => lock = p
    /\ OpenIsReachable

\* Every step keeps the lock with its owner.
LEMMA OwnedStep ==
    ASSUME HasLock, Base, Owned, [Next]_vars
    PROVE  Owned'
<1> USE Assumptions DEF vars, cmdVars, connVars, dirVars, procVars, Goto, Answer, DaemonOnly, Reach,
            CloseSvc, Owned, OpenIsReachable, LockStates, NodeStates
<1>1. ASSUME NEW c \in Client, Stop(c) PROVE Owned'
  <2>1. at[c] \in Proc
    BY <1>1, HandlerHome DEF Stop, Waited, Counted, HandlerState
  <2> QED
    BY <1>1, <2>1 DEF Stop, Base, TypeOK
<1>2. ASSUME NEW c \in Client,
             Connect(c) \/ Login(c) \/ LoginStores(c) \/ LoginEnds(c)
             \/ StartDaemon(c) \/ Poll(c) \/ PollTimeout(c) \/ Receive(c)
             \/ Hangup(c) \/ Lost(c) \/ Finish(c)
      PROVE  Owned'
  BY <1>2 DEF Base, TypeOK, ProcState, Handlers, Connect, Login, LoginStores, LoginEnds, StartDaemon, Poll,
        PollTimeout, Receive, Hangup, Lost, Finish
<1>3. ASSUME NEW c \in Client,
             ReadRequest(c) \/ DialSucceeds(c) \/ DialFails(c)
             \/ Register(c) \/ Announce(c) \/ ServerGone(c)
             \/ Unregister(c) \/ Unlisten(c) \/ Detach(c) \/ Leave(c)
             \/ WgDone(c) \/ ProxyEnds(c)
      PROVE  Owned'
  BY <1>3 DEF Base, TypeOK, ProcState, Handlers, ReadRequest, DialSucceeds, DialFails, Register, Announce,
        ServerGone, Unregister, Unlisten, Detach, Leave, WgDone, ProxyEnds
<1>4. ASSUME NEW p \in Proc,
             TakeLock(p) \/ BringUp(p) \/ Probe(p) \/ RemoveStale(p)
             \/ Bind(p) \/ AcceptFails(p) \/ Drained(p) \/ TearDown(p)
             \/ Exit(p) \/ Fire(p) \/ Expire(p) \/ SessionStarts(p)
             \/ SessionEnds(p) \/ Crash(p)
      PROVE  Owned'
  BY <1>4 DEF Base, TypeOK, ProcState, Handlers, TakeLock, BringUp, Probe, RemoveStale, Bind, AcceptFails, Drained,
        TearDown, Exit, Fire, Expire, SessionStarts, SessionEnds, Crash
<1>5. ASSUME NEW p \in Proc, NEW c \in Client,
             Accept(p, c) \/ AddClient(p, c)
      PROVE  Owned'
  BY <1>5 DEF Base, TypeOK, ProcState, Handlers, Accept, AddClient
<1>6. CASE UNCHANGED vars
  BY <1>6
<1> QED
  BY <1>1, <1>2, <1>3, <1>4, <1>5, <1>6
     DEF Next, Command, User, Handler, Main, Idle, Remote

\* The invariant of a system with file locks.
LEMMA LockedInvariant == ASSUME HasLock PROVE Spec => [](Base /\ Owned)
<1>1. Init => Owned
  BY DEF Init, Owned, OpenIsReachable, LockStates, NodeStates
<1>2. Base /\ Owned /\ [Next]_vars => Owned'
  BY OwnedStep
<1> QED
  BY <1>1, <1>2, BaseInvariant, PTL DEF Spec

\* With file locks, no two processes have the node up at once.
THEOREM OneNodeCorrect == ASSUME HasLock PROVE Spec => []OneNode
<1>1. Owned => OneNode
  BY DEF Owned, OneNode, HasNode, LockStates
<1> QED
  BY <1>1, LockedInvariant, PTL

\* With file locks, a daemon open for commands is the one they find.
THEOREM OpenIsFound == ASSUME HasLock PROVE Spec => []OpenIsReachable
BY LockedInvariant, PTL DEF Owned

-----------------------------------------------------------------------------
\* The refinement.  A command is served by the owner of the node alone.
LEMMA ServedByOwner ==
    ASSUME Base, Owned, NEW c \in served
    PROVE  /\ at[c] = lock /\ lock \in Proc /\ owner = lock
           /\ pc[lock] \in {"run", "adding", "drain"}
BY Assumptions
   DEF Base, Handlers, ServedBeforeTeardown, Owned, LockStates, NodeStates, served,
       owner, HasNode

\* Every step is a step of the abstract node, or leaves it as it is.
LEMMA SharedStep ==
    ASSUME HasLock, Base, Owned, [Next]_vars
    PROVE  [Shared!Next]_(Shared!nodeVars)
<1> USE Assumptions DEF vars, cmdVars, connVars, dirVars, procVars, Goto, Answer, DaemonOnly, Reach,
            CloseSvc, owner, served, HasNode, Waited, Counted, HandlerState
<1>1. ASSUME NEW c \in Client, WgDone(c) PROVE [Shared!Next]_(Shared!nodeVars)
  <2>1. UNCHANGED owner /\ served' = served \ {c}
    BY <1>1 DEF WgDone, Base, TypeOK
  <2> QED
    BY <2>1 DEF Shared!Next, Shared!Dismiss
<1>2. ASSUME NEW p \in Proc, TakeLock(p) PROVE [Shared!Next]_(Shared!nodeVars)
  <2>1. CASE lock = NoProc
    <3>1. owner = NoProc /\ owner' = p /\ UNCHANGED served
      BY <1>2, <2>1 DEF TakeLock, NodeStates, Base, TypeOK
    <3> QED
      BY <3>1 DEF Shared!Next, Shared!Acquire
  <2>2. CASE lock # NoProc
    <3>1. UNCHANGED <<owner, served>>
      BY <1>2, <2>2 DEF TakeLock, NodeStates, Owned, LockStates, Base, TypeOK
    <3> QED
      BY <3>1 DEF Shared!nodeVars
  <2> QED
    BY <2>1, <2>2
<1>3. ASSUME NEW p \in Proc, BringUp(p) PROVE [Shared!Next]_(Shared!nodeVars)
  <2>1. lock = p /\ owner = p /\ served = {} /\ UNCHANGED <<served, lock>>
    BY <1>3, ServedByOwner DEF BringUp, Owned, LockStates, NodeStates
  <2>2. pc' = [pc EXCEPT ![p] = "up"] \/ pc' = [pc EXCEPT ![p] = "unlock"]
    BY <1>3 DEF BringUp
  <2>3. owner' = owner \/ owner' = NoProc
    BY <2>1, <2>2 DEF NodeStates, Base, TypeOK
  <2> QED
    BY <2>1, <2>3 DEF Shared!nodeVars, Shared!Next, Shared!Release
<1>4. ASSUME NEW p \in Proc, NEW c \in Client, AddClient(p, c) PROVE [Shared!Next]_(Shared!nodeVars)
  <2>1. UNCHANGED owner /\ served' = served \cup {c}
    BY <1>4 DEF AddClient, NodeStates, Base, TypeOK
  <2>2. lock = p /\ owner = p
    BY <1>4 DEF AddClient, Owned, LockStates, NodeStates
  <2> QED
    BY <2>1, <2>2 DEF Shared!Next, Shared!Admit
<1>5. ASSUME NEW p \in Proc, TearDown(p) PROVE [Shared!Next]_(Shared!nodeVars)
  <2>1. lock = p /\ owner = p /\ served = {} /\ UNCHANGED served
    BY <1>5, ServedByOwner DEF TearDown, Owned, LockStates, NodeStates
  <2>2. owner' = NoProc
    BY <1>5, <2>1 DEF TearDown, NodeStates, Base, TypeOK
  <2> QED
    BY <2>1, <2>2 DEF Shared!Next, Shared!Release
<1>6. ASSUME NEW p \in Proc, Exit(p) PROVE [Shared!Next]_(Shared!nodeVars)
  <2>1. lock = p /\ lock' = NoProc /\ UNCHANGED served /\ owner = NoProc
    BY <1>6 DEF Exit, Owned, LockStates, NodeStates
  <2> QED
    BY <2>1 DEF Shared!nodeVars
<1>7. ASSUME NEW p \in Proc, Crash(p) PROVE [Shared!Next]_(Shared!nodeVars)
  <2>1. served' = {d \in served : at[d] # p}
    BY <1>7 DEF Crash
  <2>2. CASE lock = p
    <3>1. served' = {} /\ owner' = NoProc
      BY <1>7, <2>1, <2>2, ServedByOwner DEF Crash
    <3>2. owner = NoProc => served = {}
      BY ServedByOwner
    <3> QED
      BY <3>1, <3>2 DEF Shared!nodeVars, Shared!Next, Shared!Die
  <2>3. CASE lock # p
    <3>1. served' = served
      BY <2>1, <2>3, ServedByOwner
    <3>2. owner' = owner
      BY <1>7, <2>3 DEF Crash, Base, TypeOK
    <3> QED
      BY <3>1, <3>2 DEF Shared!nodeVars
  <2> QED
    BY <2>2, <2>3
<1>8. ASSUME NEW c \in Client,
             Connect(c) \/ Login(c) \/ LoginStores(c) \/ LoginEnds(c)
             \/ StartDaemon(c) \/ Poll(c) \/ PollTimeout(c) \/ Receive(c)
             \/ Hangup(c) \/ Lost(c) \/ Finish(c)
      PROVE  [Shared!Next]_(Shared!nodeVars)
  <2>1. UNCHANGED <<owner, served>>
    BY <1>8 DEF Base, TypeOK, Handlers, Owned, LockStates, NodeStates, Alive,
             Connect, Login, LoginStores, LoginEnds, StartDaemon, Poll,
        PollTimeout, Receive, Hangup, Lost, Finish
  <2> QED
    BY <2>1 DEF Shared!nodeVars
<1>9. ASSUME NEW c \in Client,
             ReadRequest(c) \/ DialSucceeds(c) \/ DialFails(c)
             \/ Register(c) \/ Announce(c) \/ ServerGone(c)
             \/ Unregister(c) \/ Unlisten(c) \/ Detach(c) \/ Stop(c)
             \/ Leave(c) \/ ProxyEnds(c)
      PROVE  [Shared!Next]_(Shared!nodeVars)
  <2>1. UNCHANGED <<owner, served>>
    BY <1>9 DEF Base, TypeOK, Handlers, Owned, LockStates, NodeStates, Alive,
             ReadRequest, DialSucceeds, DialFails, Register, Announce,
        ServerGone, Unregister, Unlisten, Detach, Stop, Leave, ProxyEnds
  <2> QED
    BY <2>1 DEF Shared!nodeVars
<1>10. ASSUME NEW p \in Proc,
             Probe(p) \/ RemoveStale(p) \/ Bind(p) \/ AcceptFails(p)
             \/ Drained(p) \/ Fire(p) \/ Expire(p) \/ SessionStarts(p)
             \/ SessionEnds(p)
      PROVE  [Shared!Next]_(Shared!nodeVars)
  <2>1. UNCHANGED <<owner, served>>
    BY <1>10 DEF Base, TypeOK, Handlers, Owned, LockStates, NodeStates, Alive,
             Probe, RemoveStale, Bind, AcceptFails, Drained, Fire, Expire,
        SessionStarts, SessionEnds
  <2> QED
    BY <2>1 DEF Shared!nodeVars
<1>11. ASSUME NEW p \in Proc, NEW c \in Client,
             Accept(p, c)
      PROVE  [Shared!Next]_(Shared!nodeVars)
  <2>1. UNCHANGED <<owner, served>>
    BY <1>11 DEF Base, TypeOK, Handlers, Owned, LockStates, NodeStates, Alive,
             Accept
  <2> QED
    BY <2>1 DEF Shared!nodeVars
<1>12. CASE UNCHANGED vars
  BY <1>12 DEF Shared!nodeVars
<1> QED
  BY <1>1, <1>2, <1>3, <1>4, <1>5, <1>6, <1>7, <1>8, <1>9, <1>10, <1>11,
        <1>12
     DEF Next, Command, User, Handler, Main, Idle, Remote

\* With file locks the daemon implements the shared node: one owner at a
\* time, commands served by the owner alone, and the node given up only when
\* nobody is served, or by dying.
THEOREM Implementation == ASSUME HasLock PROVE Spec => ImplementsSharedNode
<1>1. Init => Shared!Init
  BY DEF Init, Shared!Init, owner, served, Waited, Counted, HandlerState
<1>2. Base /\ Owned /\ [Next]_vars => [Shared!Next]_(Shared!nodeVars)
  BY SharedStep
<1> QED
  BY <1>1, <1>2, LockedInvariant, PTL DEF Spec, ImplementsSharedNode, Shared!Spec

\* Types, counts and the idle timer together.
THEOREM BooksAreRight == Spec => []CountsInStep
BY TypeCorrect, IdleTimerCorrect, PTL DEF CountsInStep

\* With file locks there is one node, and an open daemon is found.
THEOREM NodeIsFound == ASSUME HasLock PROVE Spec => []OneReachableNode
BY OneNodeCorrect, OpenIsFound, PTL DEF OneReachableNode
-----------------------------------------------------------------------------
\* A server that has registered and not yet closed its listener owns the
\* daemon's only one, so there is one such server; it is registered until
\* it unregisters, and has the log while it listens.
ServerOwns ==
    \A c \in Client :
        /\ h[c] \in {"registered", "listening", "unregister", "unlisten"} => ln[at[c]] = c
        /\ h[c] \in {"registered", "listening", "unregister"} => serving[at[c]]
        /\ h[c] = "listening" => logc[at[c]] = c

\* Every step keeps the listener with its server.
LEMMA ServerStep ==
    ASSUME Base, ServerOwns, [Next]_vars
    PROVE  ServerOwns'
<1> USE Assumptions DEF vars, cmdVars, connVars, dirVars, procVars, Goto, Answer, DaemonOnly, Reach,
            CloseSvc, ServerOwns
<1>0. \A c \in Client :
        h[c] \in {"register", "registered", "listening", "unregister", "unlisten", "detach"} =>
            at[c] \in Proc
  BY HandlerHome DEF Waited, Counted, HandlerState
<1>1. ASSUME NEW c \in Client, Register(c) \/ Announce(c) PROVE ServerOwns'
  <2>1. CASE Register(c)
    BY <1>0, <2>1 DEF Base, TypeOK, Register
  <2>2. CASE Announce(c)
    BY <1>0, <2>2 DEF Base, TypeOK, Announce
  <2> QED
    BY <1>1, <2>1, <2>2
<1>2. ASSUME NEW c \in Client, Unregister(c) \/ Unlisten(c) \/ Detach(c) PROVE ServerOwns'
  <2>1. CASE Unregister(c)
    BY <1>0, <2>1 DEF Base, TypeOK, Unregister
  <2>2. CASE Unlisten(c)
    BY <1>0, <2>2 DEF Base, TypeOK, Unlisten
  <2>3. CASE Detach(c)
    BY <1>0, <2>3 DEF Base, TypeOK, Detach
  <2> QED
    BY <1>2, <2>1, <2>2, <2>3
<1>3. ASSUME NEW c \in Client,
             ReadRequest(c) \/ DialSucceeds(c) \/ DialFails(c)
             \/ ServerGone(c) \/ Stop(c) \/ Leave(c) \/ WgDone(c) \/ ProxyEnds(c)
      PROVE  ServerOwns'
  BY <1>3 DEF Base, TypeOK, ReadRequest, DialSucceeds, DialFails, ServerGone, Stop, Leave,
        WgDone, ProxyEnds
<1>4. ASSUME NEW c \in Client,
             Connect(c) \/ Login(c) \/ LoginStores(c) \/ LoginEnds(c)
             \/ StartDaemon(c) \/ Poll(c) \/ PollTimeout(c) \/ Receive(c)
             \/ Hangup(c) \/ Lost(c) \/ Finish(c)
      PROVE  ServerOwns'
  BY <1>4 DEF Base, TypeOK, Connect, Login, LoginStores, LoginEnds, StartDaemon, Poll,
        PollTimeout, Receive, Hangup, Lost, Finish
<1>5. ASSUME NEW p \in Proc,
             TakeLock(p) \/ BringUp(p) \/ Probe(p) \/ RemoveStale(p)
             \/ Bind(p) \/ AcceptFails(p) \/ Drained(p) \/ TearDown(p)
             \/ Exit(p) \/ Fire(p) \/ Expire(p) \/ SessionStarts(p)
             \/ SessionEnds(p)
      PROVE  ServerOwns'
  BY <1>5 DEF Base, TypeOK, TakeLock, BringUp, Probe, RemoveStale, Bind, AcceptFails, Drained,
        TearDown, Exit, Fire, Expire, SessionStarts, SessionEnds
<1>6. ASSUME NEW p \in Proc, Crash(p) PROVE ServerOwns'
  BY <1>0, <1>6 DEF Base, TypeOK, Crash
<1>7. ASSUME NEW p \in Proc, NEW c \in Client,
             Accept(p, c) \/ AddClient(p, c)
      PROVE  ServerOwns'
  BY <1>7 DEF Base, TypeOK, Accept, AddClient
<1>8. CASE UNCHANGED vars
  BY <1>8
<1> QED
  BY <1>1, <1>2, <1>3, <1>4, <1>5, <1>6, <1>7, <1>8
     DEF Next, Command, User, Handler, Main, Idle, Remote

\* With or without file locks: a mote server that is listening on the
\* tailnet is the only one of its daemon and gets the daemon's log, though
\* the one before it detaches after it has let this one register.
THEOREM LogIsTheServers == Spec => []LogGoesToServer
<1>1. Init => ServerOwns
  BY DEF Init, ServerOwns
<1>2. Base /\ ServerOwns /\ [Next]_vars => ServerOwns'
  BY ServerStep
<1>3. ServerOwns => LogGoesToServer
  BY DEF ServerOwns, LogGoesToServer
<1> QED
  BY <1>1, <1>2, <1>3, BaseInvariant, PTL DEF Spec
=============================================================================
