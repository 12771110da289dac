------------------------------ MODULE Handshake ------------------------------
(***************************************************************************)
(* How a mote connection is set up: the listener and its session slots     *)
(* (serveListener in mote/server.go), and for every connection the server  *)
(* side (the beginning of serve) and the client side (clientConn in        *)
(* mote/dial.go) of the hellos, of the exchange that proves that both      *)
(* have the same password (mote/secure.go), and of the first response,     *)
(* with their deadlines.  A client may have another password, leave at     *)
(* any time, or stop without leaving.                                      *)
(*                                                                         *)
(* A message is its name and the password that its sender's keys were      *)
(* derived from, or NoPassword when it is made without keys.  That         *)
(* two keys agree exactly when the passwords do is what mote/internal      *)
(* promises.                                                               *)
(***************************************************************************)
EXTENDS Integers, Sequences, FiniteSets

CONSTANTS
    Conn,           \* connections that clients make
    Password, NoPassword,
    Passwords,      \* what the server's and the clients' passwords may be
    MaxSessions,    \* maxSessions
    MaxErrors       \* failures of Accept

ASSUME Assumptions ==
    /\ NoPassword \notin Password
    /\ \A s \in Passwords :
        \/ s[1] \in Password /\ s[2] \in [Conn -> Password]
        \/ s[1] = NoPassword /\ s[2] = [c \in Conn |-> NoPassword]
    /\ MaxSessions \in Nat \ {0} /\ MaxErrors \in Nat

VARIABLES
    spw,        \* the server's password, or NoPassword on a secure transport
    cpw,        \* cpw[c]: what client c believes it to be
    where,      \* where[c]: where the server has connection c
    sleeping,   \* the accept loop waits before it tries again
    errors,     \* failures of Accept so far
    at,         \* at[s][c]: the step of its script side s is at; 0 once
                \* it has closed the connection
    armed,      \* armed[s][c]: side s has a deadline
    chan,       \* chan[s][c]: messages on their way to side s
    hung        \* clients that have stopped

listener == <<where, sleeping, errors>>
vars == <<spw, cpw, listener, at, armed, chan, hung>>

Side == {"server", "client"}
Peer(s) == IF s = "server" THEN "client" ELSE "server"

-----------------------------------------------------------------------------
(* What each side does, in order.                                          *)

Send(m) == <<"send", m>>
Recv(m) == <<"recv", m>>
Arm == <<"deadline", "set">>
Disarm == <<"deadline", "clear">>

\* Mutant of ServerScript: the server confirms its key first.
ServerScriptAnswersFirst(secure) ==
    IF secure
    THEN <<Arm, Send("server hello"), Recv("client hello"),
           Send("cpace 1"), Recv("cpace 2"), Send("server tag"), Recv("client tag"),
           Recv("noise 1"), Send("noise 2"), Disarm, Send("info")>>
    ELSE <<Arm, Send("server hello"), Recv("client hello"), Disarm, Send("info")>>

\* Mutant of ServerScript: the deadline is set for the password only.
ServerScriptArmsLate(secure) ==
    IF secure
    THEN <<Send("server hello"), Recv("client hello"), Arm,
           Send("cpace 1"), Recv("cpace 2"), Recv("client tag"), Send("server tag"),
           Recv("noise 1"), Send("noise 2"), Disarm, Send("info")>>
    ELSE <<Send("server hello"), Recv("client hello"), Send("info")>>

ServerScript(secure) ==
    IF secure
    THEN <<Arm, Send("server hello"), Recv("client hello"),
           Send("cpace 1"), Recv("cpace 2"), Recv("client tag"), Send("server tag"),
           Recv("noise 1"), Send("noise 2"), Disarm, Send("info")>>
    ELSE <<Arm, Send("server hello"), Recv("client hello"), Disarm, Send("info")>>

\* Mutant of ClientScript: the client, too, waits for the other tag first.
ClientScriptWaits(secure) ==
    IF secure
    THEN <<Arm, Recv("server hello"), Disarm, Send("client hello"), Arm,
           Recv("cpace 1"), Send("cpace 2"), Recv("server tag"), Send("client tag"),
           Send("noise 1"), Recv("noise 2"), Recv("info"), Disarm>>
    ELSE <<Arm, Recv("server hello"), Disarm, Send("client hello"), Recv("info")>>

\* Mutant of ClientScript: the deadline stays.
ClientScriptStaysArmed(secure) ==
    IF secure
    THEN <<Arm, Recv("server hello"), Disarm, Send("client hello"), Arm,
           Recv("cpace 1"), Send("cpace 2"), Send("client tag"), Recv("server tag"),
           Send("noise 1"), Recv("noise 2"), Recv("info")>>
    ELSE <<Arm, Recv("server hello"), Disarm, Send("client hello"), Recv("info")>>

\* Mutant of ClientScript: the server hello is waited for without a deadline.
ClientScriptPatient(secure) ==
    IF secure
    THEN <<Recv("server hello"), Send("client hello"), Arm,
           Recv("cpace 1"), Send("cpace 2"), Send("client tag"), Recv("server tag"),
           Send("noise 1"), Recv("noise 2"), Recv("info"), Disarm>>
    ELSE <<Recv("server hello"), Send("client hello"), Recv("info")>>

\* scanHello sets a deadline for itself and clears it.
ClientScript(secure) ==
    IF secure
    THEN <<Arm, Recv("server hello"), Disarm, Send("client hello"), Arm,
           Recv("cpace 1"), Send("cpace 2"), Send("client tag"), Recv("server tag"),
           Send("noise 1"), Recv("noise 2"), Recv("info"), Disarm>>
    ELSE <<Arm, Recv("server hello"), Disarm, Send("client hello"), Recv("info")>>

\* The messages that are made with a key.
Keyed == {"client tag", "server tag", "noise 1", "noise 2", "info"}
Names == {"server hello", "client hello", "cpace 1", "cpace 2"} \cup Keyed

PasswordOf(s, c) == IF s = "server" THEN spw ELSE cpw[c]
Secure(s, c) == PasswordOf(s, c) # NoPassword
Script(s, c) ==
    IF s = "server" THEN ServerScript(Secure(s, c)) ELSE ClientScript(Secure(s, c))
Message(s, c, m) == <<m, IF m \in Keyed THEN PasswordOf(s, c) ELSE NoPassword>>

closed(s, c) == at[s][c] = 0
Done(s, c) == at[s][c] > Len(Script(s, c))
Step(s, c) == Script(s, c)[at[s][c]]

InSlot == {c \in Conn : where[c] = "slot"}
Busy(s, c) ==
    /\ ~closed(s, c)
    /\ IF s = "server" THEN where[c] = "slot" ELSE where[c] # "away" /\ c \notin hung
Running(s, c) == Busy(s, c) /\ ~Done(s, c)
Established(s, c) == Busy(s, c) /\ Done(s, c)

-----------------------------------------------------------------------------
TypeOK ==
    /\ spw \in Password \cup {NoPassword}
    /\ cpw \in [Conn -> Password \cup {NoPassword}]
    /\ where \in [Conn -> {"away", "queue", "listener", "slot", "gone"}]
    /\ sleeping \in BOOLEAN /\ errors \in 0..MaxErrors
    /\ at \in [Side -> [Conn -> Nat]]
    /\ armed \in [Side -> [Conn -> BOOLEAN]]
    /\ chan \in [Side -> [Conn -> Seq(Names \X (Password \cup {NoPassword}))]]
    /\ hung \subseteq Conn
    /\ Cardinality(InSlot) <= MaxSessions

Init ==
    /\ \E s \in Passwords : spw = s[1] /\ cpw = s[2]
    /\ where = [c \in Conn |-> "away"]
    /\ sleeping = FALSE /\ errors = 0
    /\ at = [s \in Side |-> [c \in Conn |-> 1]]
    /\ armed = [s \in Side |-> [c \in Conn |-> FALSE]]
    /\ chan = [s \in Side |-> [c \in Conn |-> <<>>]]
    /\ hung = {}

-----------------------------------------------------------------------------
(* The listener.                                                           *)

Move(c, from, to) == where[c] = from /\ where' = [where EXCEPT ![c] = to]
ListenerOnly == UNCHANGED <<spw, cpw, at, armed, chan, hung>>
Accepting == ~sleeping /\ \A c \in Conn : where[c] # "listener"

Dial(c) == Move(c, "away", "queue") /\ UNCHANGED <<sleeping, errors>> /\ ListenerOnly

Accept(c) ==
    /\ Accepting /\ Move(c, "queue", "listener")
    /\ UNCHANGED <<sleeping, errors>> /\ ListenerOnly

AcceptFails ==
    /\ Accepting /\ errors < MaxErrors
    /\ sleeping' = TRUE /\ errors' = errors + 1
    /\ UNCHANGED where /\ ListenerOnly

\* Mutant of Wake: a failure of Accept is the end of the server.
WakeNever == sleeping /\ UNCHANGED vars

Wake == sleeping /\ sleeping' = FALSE /\ UNCHANGED <<where, errors>> /\ ListenerOnly

\* Mutant of Acquire: there is no semaphore.
AcquireFreely(c) ==
    /\ Move(c, "listener", "slot")
    /\ UNCHANGED <<sleeping, errors>> /\ ListenerOnly

Acquire(c) ==
    /\ Cardinality(InSlot) < MaxSessions
    /\ Move(c, "listener", "slot")
    /\ UNCHANGED <<sleeping, errors>> /\ ListenerOnly

-----------------------------------------------------------------------------
(* Either side of a connection.                                            *)

Advance(s, c) == at' = [at EXCEPT ![s][c] = @ + 1]
SideOnly == UNCHANGED <<spw, cpw, sleeping, errors, hung>>

\* Side s returns an error, or its session ends: the connection is closed,
\* and a server gives its slot back.
Close(s, c) ==
    /\ at' = [at EXCEPT ![s][c] = 0]
    /\ armed' = [armed EXCEPT ![s][c] = FALSE]
    /\ chan' = [chan EXCEPT ![s][c] = <<>>]
    /\ where' = IF s = "server" THEN [where EXCEPT ![c] = "gone"] ELSE where
    /\ SideOnly

SetDeadline(s, c) ==
    /\ Running(s, c) /\ Step(s, c) \in {Arm, Disarm}
    /\ armed' = [armed EXCEPT ![s][c] = Step(s, c) = Arm]
    /\ Advance(s, c)
    /\ UNCHANGED <<where, chan>> /\ SideOnly

Write(s, c) ==
    /\ Running(s, c) /\ Step(s, c)[1] = "send"
    /\ chan' = IF closed(Peer(s), c) THEN chan
               ELSE [chan EXCEPT ![Peer(s)][c] = Append(@, Message(s, c, Step(s, c)[2]))]
    /\ Advance(s, c)
    /\ UNCHANGED <<where, armed>> /\ SideOnly

WriteFails(s, c) ==
    /\ Running(s, c) /\ Step(s, c)[1] = "send" /\ closed(Peer(s), c)
    /\ Close(s, c)

Reading(s, c) == Running(s, c) /\ Step(s, c)[1] = "recv"
Expected(s, c) == Message(s, c, Step(s, c)[2])

\* Mutant of Read: the keys are not compared.
ReadAnyKey(s, c) ==
    /\ Reading(s, c) /\ chan[s][c] # <<>> /\ Head(chan[s][c])[1] = Step(s, c)[2]
    /\ chan' = [chan EXCEPT ![s][c] = Tail(@)]
    /\ Advance(s, c)
    /\ UNCHANGED <<where, armed>> /\ SideOnly

\* The message is the one expected, and was made with the same keys.
Read(s, c) ==
    /\ Reading(s, c) /\ chan[s][c] # <<>> /\ Head(chan[s][c]) = Expected(s, c)
    /\ chan' = [chan EXCEPT ![s][c] = Tail(@)]
    /\ Advance(s, c)
    /\ UNCHANGED <<where, armed>> /\ SideOnly

\* It is not, or the other side is gone: what it sent before may be lost.
ReadFails(s, c) ==
    /\ Reading(s, c)
    /\ closed(Peer(s), c) \/ (chan[s][c] # <<>> /\ Head(chan[s][c]) # Expected(s, c))
    /\ Close(s, c)

Timeout(s, c) == Running(s, c) /\ armed[s][c] /\ Close(s, c)

\* The command of the session ends.
End(c) == Established("server", c) /\ Close("server", c)

\* The client's user gives up, or its session ends.
Leave(c) == Busy("client", c) /\ Close("client", c)

Hang(c) ==
    /\ Busy("client", c) /\ hung' = hung \cup {c}
    /\ UNCHANGED <<spw, cpw, listener, at, armed, chan>>

-----------------------------------------------------------------------------
Listen == AcceptFails \/ Wake \/ \E c \in Conn : Accept(c) \/ Acquire(c)
Proceed(s, c) ==
    \/ SetDeadline(s, c) \/ Write(s, c) \/ WriteFails(s, c)
    \/ Read(s, c) \/ ReadFails(s, c)

Next ==
    \/ Listen
    \/ \E c \in Conn : Dial(c) \/ End(c) \/ Leave(c) \/ Hang(c)
    \/ \E s \in Side, c \in Conn : Proceed(s, c) \/ Timeout(s, c)

Spec == Init /\ [][Next]_vars

\* The accept loop, the goroutines and the timers run.  Nobody has to dial
\* or to leave, and a session lasts as long as its client likes.
FairSpec ==
    /\ Spec
    /\ WF_vars(Listen)
    /\ \A s \in Side, c \in Conn : WF_vars(Proceed(s, c) \/ Timeout(s, c))
    /\ \A c \in Conn : WF_vars(closed("client", c) /\ End(c))

-----------------------------------------------------------------------------
(* Properties.                                                             *)

\* A server confirms its key to nobody who has not shown the same password:
\* "a client that guessed wrong sees only a hangup" (secure.go:60-64).
Confirmed(c) == <<"server tag", spw>> \in {chan["client"][c][i] : i \in 1..Len(chan["client"][c])}
NoAnswerToWrongPassword == \A c \in Conn : Confirmed(c) => cpw[c] = spw

\* A side that has finished the handshake has the password of the other,
\* and the other has read all that it had to read for that: a client that
\* has finished talks to a server that has, until that one ends.
Agreement ==
    \A c \in Conn :
        /\ Established("server", c) => cpw[c] = spw
        /\ Established("client", c) =>
            cpw[c] = spw /\ (Established("server", c) \/ closed("server", c))

\* As long as both sides are there, they do not wait for each other.
NobodyWaitsForNobody ==
    \A c \in Conn : ~\A s \in Side : Reading(s, c) /\ chan[s][c] = <<>>

\* The deadline of the handshake does not end a session.
NoDeadlineInSession == \A s \in Side, c \in Conn : Established(s, c) => ~armed[s][c]

\* Only a session that is established holds a slot for ever, whatever
\* clients do.
SlotsComeBack == \A c \in Conn : where[c] = "slot" ~> where[c] # "slot" \/ Established("server", c)

\* The server goes on accepting: a connection waits in the queue only while
\* others have sessions.
QueueMoves ==
    \A c \in Conn :
        where[c] = "queue" ~> where[c] # "queue" \/ \E d \in Conn : Established("server", d)

\* A client that stays gets its session or an error, even if all slots are
\* taken for ever.
EveryDialEnds == \A c \in Conn : Running("client", c) ~> ~Running("client", c)

\* Who gets through has shown the password: the server answers nobody else, the
\* two sides agree, and no more than maxSessions hold a slot (TypeOK).
Authentic == TypeOK /\ NoAnswerToWrongPassword /\ Agreement

\* Clients that fall silent cost the others nothing for ever: a slot comes
\* back, and the queue for the slots moves.
SlotsMove == SlotsComeBack /\ QueueMoves
=============================================================================
