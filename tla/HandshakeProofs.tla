--------------------------- MODULE HandshakeProofs ---------------------------
(***************************************************************************)
(* Who agrees with whom after the handshake, for any number of clients,    *)
(* passwords and slots: the server confirms no wrong password, and a       *)
(* client that is through talks to a server that is.                       *)
(***************************************************************************)
EXTENDS Handshake, FiniteSetTheorems, TLAPS

\* What the connection of client c carries, and where that puts both sides.
NamesOf(s, c) == {chan[s][c][i][1] : i \in 1..Len(chan[s][c])}
Passed(s, c, i) == at[s][c] > i

\* A message on its way was made with the keys of its sender.
FromPeer(c) ==
    \A s \in Side : \A i \in 1..Len(chan[s][c]) :
        chan[s][c][i] = Message(Peer(s), c, chan[s][c][i][1])

\* The server sends its tag only to a client with its password, and the
\* first response when there is nothing left to do.
ServerInv(c) ==
    /\ spw = NoPassword <=> cpw[c] = NoPassword
    /\ Secure("server", c) /\ Passed("server", c, 6) => cpw[c] = spw
    /\ "server tag" \in NamesOf("client", c) => cpw[c] = spw
    /\ "info" \in NamesOf("client", c) => closed("server", c) \/ Done("server", c)

\* The client has read what comes before the step it is at.
InfoAt(secure) == IF secure THEN 12 ELSE 5
ClientInv(c) ==
    /\ Secure("client", c) /\ Passed("client", c, 9) => cpw[c] = spw
    /\ Passed("client", c, InfoAt(Secure("client", c))) =>
        closed("server", c) \/ Done("server", c)

\* A server side that has begun has a slot.
AtWork == \A c \in Conn : Passed("server", c, 1) => where[c] = "slot"

Inv ==
    /\ TypeOK
    /\ IsFiniteSet(InSlot)
    /\ AtWork
    /\ \A c \in Conn : FromPeer(c) /\ ServerInv(c) /\ ClientInv(c)

-----------------------------------------------------------------------------
(* The scripts.                                                            *)

LEMMA ServerSecure ==
    ASSUME NEW i \in 1..Len(ServerScript(TRUE))
    PROVE  /\ ServerScript(TRUE)[i][1] = "send" => ServerScript(TRUE)[i][2] \in Names
           /\ ServerScript(TRUE)[i][2] = "server tag" => i > 6
           /\ ServerScript(TRUE)[i][2] = "info" => i = 11
           /\ i = 6 => ServerScript(TRUE)[i][1] = "recv" /\ ServerScript(TRUE)[i][2] = "client tag"
<1>0. Len(ServerScript(TRUE)) = 11
  BY DEF ServerScript
<1>1. CASE i = 1
  BY <1>1 DEF ServerScript, Send, Recv, Arm, Disarm, Names, Keyed
<1>2. CASE i = 2
  BY <1>2 DEF ServerScript, Send, Recv, Arm, Disarm, Names, Keyed
<1>3. CASE i = 3
  BY <1>3 DEF ServerScript, Send, Recv, Arm, Disarm, Names, Keyed
<1>4. CASE i = 4
  BY <1>4 DEF ServerScript, Send, Recv, Arm, Disarm, Names, Keyed
<1>5. CASE i = 5
  BY <1>5 DEF ServerScript, Send, Recv, Arm, Disarm, Names, Keyed
<1>6. CASE i = 6
  BY <1>6 DEF ServerScript, Send, Recv, Arm, Disarm, Names, Keyed
<1>7. CASE i = 7
  BY <1>7 DEF ServerScript, Send, Recv, Arm, Disarm, Names, Keyed
<1>8. CASE i = 8
  BY <1>8 DEF ServerScript, Send, Recv, Arm, Disarm, Names, Keyed
<1>9. CASE i = 9
  BY <1>9 DEF ServerScript, Send, Recv, Arm, Disarm, Names, Keyed
<1>10. CASE i = 10
  BY <1>10 DEF ServerScript, Send, Recv, Arm, Disarm, Names, Keyed
<1>11. CASE i = 11
  BY <1>11 DEF ServerScript, Send, Recv, Arm, Disarm, Names, Keyed
<1>a. i \in 1..11
  BY <1>0
<1>b. i = 1 \/ i = 2 \/ i = 3 \/ i = 4 \/ i = 5 \/ i = 6 \/ i = 7
        \/ i = 8 \/ i = 9 \/ i = 10 \/ i = 11
  BY <1>a
<1> QED
  BY <1>b, <1>1, <1>2, <1>3, <1>4, <1>5, <1>6, <1>7, <1>8, <1>9, <1>10, <1>11

LEMMA ServerPlain ==
    ASSUME NEW i \in 1..Len(ServerScript(FALSE))
    PROVE  /\ ServerScript(FALSE)[i][1] = "send" => ServerScript(FALSE)[i][2] \in Names
           /\ ServerScript(FALSE)[i][2] # "server tag"
           /\ ServerScript(FALSE)[i][2] = "info" => i = 5
<1>0. Len(ServerScript(FALSE)) = 5
  BY DEF ServerScript
<1>1. CASE i = 1
  BY <1>1 DEF ServerScript, Send, Recv, Arm, Disarm, Names, Keyed
<1>2. CASE i = 2
  BY <1>2 DEF ServerScript, Send, Recv, Arm, Disarm, Names, Keyed
<1>3. CASE i = 3
  BY <1>3 DEF ServerScript, Send, Recv, Arm, Disarm, Names, Keyed
<1>4. CASE i = 4
  BY <1>4 DEF ServerScript, Send, Recv, Arm, Disarm, Names, Keyed
<1>5. CASE i = 5
  BY <1>5 DEF ServerScript, Send, Recv, Arm, Disarm, Names, Keyed
<1>a. i \in 1..5
  BY <1>0
<1>b. i = 1 \/ i = 2 \/ i = 3 \/ i = 4 \/ i = 5
  BY <1>a
<1> QED
  BY <1>b, <1>1, <1>2, <1>3, <1>4, <1>5
LEMMA ClientSecure ==
    ASSUME NEW i \in 1..Len(ClientScript(TRUE))
    PROVE  /\ ClientScript(TRUE)[i][1] = "send" => ClientScript(TRUE)[i][2] \in Names
           /\ i = 12 => ClientScript(TRUE)[i][1] = "recv" /\ ClientScript(TRUE)[i][2] = "info"
           /\ i = 9 => ClientScript(TRUE)[i][1] = "recv" /\ ClientScript(TRUE)[i][2] = "server tag"
<1>0. Len(ClientScript(TRUE)) = 13
  BY DEF ClientScript
<1>1. CASE i = 1
  BY <1>1 DEF ClientScript, Send, Recv, Arm, Disarm, Names, Keyed
<1>2. CASE i = 2
  BY <1>2 DEF ClientScript, Send, Recv, Arm, Disarm, Names, Keyed
<1>3. CASE i = 3
  BY <1>3 DEF ClientScript, Send, Recv, Arm, Disarm, Names, Keyed
<1>4. CASE i = 4
  BY <1>4 DEF ClientScript, Send, Recv, Arm, Disarm, Names, Keyed
<1>5. CASE i = 5
  BY <1>5 DEF ClientScript, Send, Recv, Arm, Disarm, Names, Keyed
<1>6. CASE i = 6
  BY <1>6 DEF ClientScript, Send, Recv, Arm, Disarm, Names, Keyed
<1>7. CASE i = 7
  BY <1>7 DEF ClientScript, Send, Recv, Arm, Disarm, Names, Keyed
<1>8. CASE i = 8
  BY <1>8 DEF ClientScript, Send, Recv, Arm, Disarm, Names, Keyed
<1>9. CASE i = 9
  BY <1>9 DEF ClientScript, Send, Recv, Arm, Disarm, Names, Keyed
<1>10. CASE i = 10
  BY <1>10 DEF ClientScript, Send, Recv, Arm, Disarm, Names, Keyed
<1>11. CASE i = 11
  BY <1>11 DEF ClientScript, Send, Recv, Arm, Disarm, Names, Keyed
<1>12. CASE i = 12
  BY <1>12 DEF ClientScript, Send, Recv, Arm, Disarm, Names, Keyed
<1>13. CASE i = 13
  BY <1>13 DEF ClientScript, Send, Recv, Arm, Disarm, Names, Keyed
<1>a. i \in 1..13
  BY <1>0
<1>b. i = 1 \/ i = 2 \/ i = 3 \/ i = 4 \/ i = 5 \/ i = 6 \/ i = 7
        \/ i = 8 \/ i = 9 \/ i = 10 \/ i = 11 \/ i = 12 \/ i = 13
  BY <1>a
<1> QED
  BY <1>b, <1>1, <1>2, <1>3, <1>4, <1>5, <1>6, <1>7, <1>8, <1>9, <1>10, <1>11, <1>12, <1>13

LEMMA ClientPlain ==
    ASSUME NEW i \in 1..Len(ClientScript(FALSE))
    PROVE  /\ ClientScript(FALSE)[i][1] = "send" => ClientScript(FALSE)[i][2] \in Names
           /\ i = 5 => ClientScript(FALSE)[i][1] = "recv" /\ ClientScript(FALSE)[i][2] = "info"
<1>0. Len(ClientScript(FALSE)) = 5
  BY DEF ClientScript
<1>1. CASE i = 1
  BY <1>1 DEF ClientScript, Send, Recv, Arm, Disarm, Names, Keyed
<1>2. CASE i = 2
  BY <1>2 DEF ClientScript, Send, Recv, Arm, Disarm, Names, Keyed
<1>3. CASE i = 3
  BY <1>3 DEF ClientScript, Send, Recv, Arm, Disarm, Names, Keyed
<1>4. CASE i = 4
  BY <1>4 DEF ClientScript, Send, Recv, Arm, Disarm, Names, Keyed
<1>5. CASE i = 5
  BY <1>5 DEF ClientScript, Send, Recv, Arm, Disarm, Names, Keyed
<1>a. i \in 1..5
  BY <1>0
<1>b. i = 1 \/ i = 2 \/ i = 3 \/ i = 4 \/ i = 5
  BY <1>a
<1> QED
  BY <1>b, <1>1, <1>2, <1>3, <1>4, <1>5

LEMMA Lengths ==
    /\ Len(ServerScript(TRUE)) = 11 /\ Len(ServerScript(FALSE)) = 5
    /\ Len(ClientScript(TRUE)) = 13 /\ Len(ClientScript(FALSE)) = 5
BY DEF ServerScript, ClientScript

\* What the invariant needs to know of the step that a side is at.
LEMMA StepFacts ==
    ASSUME TypeOK, NEW s \in Side, NEW c \in Conn, Running(s, c)
    PROVE  /\ at[s][c] \in 1..Len(Script(s, c))
           /\ Step(s, c)[1] = "send" => Step(s, c)[2] \in Names
           /\ s = "server" /\ Step(s, c)[2] = "server tag" => Secure(s, c) /\ at[s][c] > 6
           /\ s = "server" /\ Step(s, c)[2] = "info" => at[s][c] = Len(Script(s, c))
           /\ s = "server" /\ Secure(s, c) /\ at[s][c] = 6 =>
                Step(s, c)[1] = "recv" /\ Step(s, c)[2] = "client tag"
           /\ s = "client" /\ Secure(s, c) /\ at[s][c] = 9 =>
                Step(s, c)[1] = "recv" /\ Step(s, c)[2] = "server tag"
           /\ s = "client" /\ at[s][c] = InfoAt(Secure(s, c)) =>
                Step(s, c)[1] = "recv" /\ Step(s, c)[2] = "info"
<1>1. at[s][c] \in Nat \ {0}
  BY DEF TypeOK, Running, Busy, closed
<1>2. Secure(s, c) \in BOOLEAN
  BY DEF Secure
<1>3. Len(Script(s, c)) \in Nat
  BY <1>2, Lengths DEF Script, Side
<1>4. at[s][c] \in 1..Len(Script(s, c))
  BY <1>1, <1>3 DEF Running, Done
<1>5. CASE s = "server" /\ Secure(s, c)
  <2>1. Script(s, c) = ServerScript(TRUE)
    BY <1>5 DEF Script
  <2> QED
    BY <1>4, <1>5, <2>1, ServerSecure, Lengths DEF Step
<1>6. CASE s = "server" /\ ~Secure(s, c)
  <2>1. Script(s, c) = ServerScript(FALSE)
    BY <1>6, <1>2 DEF Script
  <2> QED
    BY <1>4, <1>6, <2>1, ServerPlain, Lengths DEF Step
<1>7. CASE s = "client" /\ Secure(s, c)
  <2>1. Script(s, c) = ClientScript(TRUE)
    BY <1>7 DEF Script
  <2> QED
    BY <1>4, <1>7, <2>1, ClientSecure DEF Step, InfoAt
<1>8. CASE s = "client" /\ ~Secure(s, c)
  <2>1. Script(s, c) = ClientScript(FALSE)
    BY <1>8, <1>2 DEF Script
  <2> QED
    BY <1>4, <1>8, <2>1, ClientPlain DEF Step, InfoAt
<1> QED
  BY <1>5, <1>6, <1>7, <1>8 DEF Side

-----------------------------------------------------------------------------
(* The invariant.                                                          *)

LEMMA InitInv == Init => Inv
<1> SUFFICES ASSUME Init PROVE Inv
  OBVIOUS
<1>1. PICK p \in Passwords : spw = p[1] /\ cpw = p[2]
  BY DEF Init
<1>2. /\ spw \in Password \cup {NoPassword}
      /\ cpw \in [Conn -> Password \cup {NoPassword}]
      /\ \A c \in Conn : spw = NoPassword <=> cpw[c] = NoPassword
  BY <1>1, Assumptions
<1>3. InSlot = {}
  BY DEF Init, InSlot
<1>4. IsFiniteSet(InSlot) /\ Cardinality(InSlot) = 0
  BY <1>3, FS_EmptySet
<1>5. TypeOK
  <2>1. chan \in [Side -> [Conn -> Seq(Names \X (Password \cup {NoPassword}))]]
    BY DEF Init
  <2>2. /\ at \in [Side -> [Conn -> Nat]] /\ armed \in [Side -> [Conn -> BOOLEAN]]
        /\ where \in [Conn -> {"away", "queue", "listener", "slot", "gone"}]
        /\ hung \subseteq Conn /\ sleeping \in BOOLEAN
    BY DEF Init
  <2>3. errors \in 0..MaxErrors /\ Cardinality(InSlot) <= MaxSessions
    BY <1>4, Assumptions DEF Init
  <2> QED
    BY <1>2, <2>1, <2>2, <2>3 DEF TypeOK
<1>6. ASSUME NEW c \in Conn PROVE FromPeer(c) /\ ServerInv(c) /\ ClientInv(c)
  <2>1. \A s \in Side : chan[s][c] = <<>> /\ at[s][c] = 1
    BY DEF Init
  <2>2. FromPeer(c)
    BY <2>1 DEF FromPeer
  <2>3. NamesOf("client", c) = {}
    BY <2>1 DEF NamesOf, Side
  <2>4. ~Passed("server", c, 6) /\ ~Passed("client", c, 9)
    BY <2>1 DEF Passed, Side
  <2>5. ~Passed("client", c, InfoAt(Secure("client", c)))
    BY <2>1 DEF Passed, InfoAt, Side
  <2> QED
    BY <1>2, <2>2, <2>3, <2>4, <2>5 DEF ServerInv, ClientInv
<1>7. AtWork
  BY DEF Init, AtWork, Passed, Side
<1> QED
  BY <1>4, <1>5, <1>6, <1>7 DEF Inv

\* Steps that leave the connections as they are.
LEMMA QuietInv ==
    ASSUME Inv, TypeOK', IsFiniteSet(InSlot)', AtWork', UNCHANGED <<spw, cpw, at, chan>>
    PROVE  Inv'
<1>1. ASSUME NEW c \in Conn PROVE (FromPeer(c) /\ ServerInv(c) /\ ClientInv(c))'
  <2>1. FromPeer(c)'
    BY DEF Inv, FromPeer, Message, PasswordOf
  <2>2. ServerInv(c)'
    BY DEF Inv, ServerInv, Secure, PasswordOf, Passed, NamesOf, closed, Done, Script
  <2>3. ClientInv(c)'
    BY DEF Inv, ClientInv, Secure, PasswordOf, Passed, InfoAt, closed, Done, Script
  <2> QED
    BY <2>1, <2>2, <2>3
<1> QED
  BY <1>1 DEF Inv

LEMMA MoveInv ==
    ASSUME Inv, NEW c \in Conn, Dial(c) \/ Accept(c) \/ Acquire(c)
    PROVE  Inv'
<1>1. UNCHANGED <<spw, cpw, sleeping, errors, at, armed, chan, hung>>
  BY DEF Dial, Accept, Acquire, ListenerOnly
<1>2. where' \in [Conn -> {"away", "queue", "listener", "slot", "gone"}]
  BY DEF Inv, TypeOK, Dial, Accept, Acquire, Move
<1>3. IsFiniteSet(InSlot)' /\ Cardinality(InSlot)' <= MaxSessions
  <2>1. CASE Dial(c) \/ Accept(c)
    <3>1. InSlot' = InSlot
      BY <2>1 DEF Inv, TypeOK, InSlot, Dial, Accept, Move
    <3> QED
      BY <3>1 DEF Inv, TypeOK
  <2>2. CASE Acquire(c)
    <3>1. InSlot' = InSlot \cup {c}
      BY <2>2 DEF Inv, TypeOK, InSlot, Acquire, Move
    <3>2. c \notin InSlot
      BY <2>2 DEF InSlot, Acquire, Move
    <3>3. IsFiniteSet(InSlot)' /\ Cardinality(InSlot)' = Cardinality(InSlot) + 1
      BY <3>1, <3>2, FS_AddElement DEF Inv
    <3>4. Cardinality(InSlot) \in Nat
      BY FS_CardinalityType DEF Inv
    <3> QED
      BY <2>2, <3>3, <3>4, Assumptions DEF Acquire
  <2> QED
    BY <2>1, <2>2
<1>4. TypeOK'
  BY <1>1, <1>2, <1>3 DEF Inv, TypeOK
<1>5. AtWork'
  BY <1>1 DEF Inv, TypeOK, AtWork, Passed, Dial, Accept, Acquire, Move
<1> QED
  BY <1>1, <1>3, <1>4, <1>5, QuietInv

LEMMA ListenerInv ==
    ASSUME Inv, AcceptFails \/ Wake \/ \E c \in Conn : Hang(c)
    PROVE  Inv'
<1>1. UNCHANGED <<spw, cpw, where, at, armed, chan>>
  BY DEF AcceptFails, Wake, Hang, ListenerOnly, listener
<1>2. sleeping' \in BOOLEAN /\ errors' \in 0..MaxErrors /\ hung' \subseteq Conn
  <2>1. CASE AcceptFails
    BY <2>1, Assumptions DEF Inv, TypeOK, AcceptFails, ListenerOnly
  <2>2. CASE Wake
    BY <2>2 DEF Inv, TypeOK, Wake, ListenerOnly
  <2>3. CASE \E c \in Conn : Hang(c)
    BY <2>3 DEF Inv, TypeOK, Hang, listener
  <2> QED
    BY <2>1, <2>2, <2>3
<1>3. InSlot' = InSlot
  BY <1>1 DEF InSlot
<1>4. TypeOK'
  BY <1>1, <1>2, <1>3 DEF Inv, TypeOK
<1> QED
  BY <1>1, <1>3, <1>4, QuietInv DEF Inv, AtWork, Passed

\* A side gives up, or its session ends.
LEMMA CloseInv ==
    ASSUME Inv, NEW s \in Side, NEW c \in Conn, Close(s, c)
    PROVE  Inv'
<1>1. /\ UNCHANGED <<spw, cpw, sleeping, errors, hung>>
      /\ at' = [at EXCEPT ![s][c] = 0]
      /\ armed' = [armed EXCEPT ![s][c] = FALSE]
      /\ chan' = [chan EXCEPT ![s][c] = <<>>]
      /\ where' = IF s = "server" THEN [where EXCEPT ![c] = "gone"] ELSE where
  BY DEF Close, SideOnly
<1>2. /\ at' \in [Side -> [Conn -> Nat]] /\ armed' \in [Side -> [Conn -> BOOLEAN]]
      /\ where' \in [Conn -> {"away", "queue", "listener", "slot", "gone"}]
  BY <1>1 DEF Inv, TypeOK
<1>3. \A t \in Side, d \in Conn :
        /\ chan'[t][d] = IF t = s /\ d = c THEN <<>> ELSE chan[t][d]
        /\ at'[t][d] = IF t = s /\ d = c THEN 0 ELSE at[t][d]
  BY <1>1 DEF Inv, TypeOK
<1>4. IsFiniteSet(InSlot)' /\ Cardinality(InSlot)' <= MaxSessions
  <2>1. InSlot' \subseteq InSlot
    BY <1>1 DEF Inv, TypeOK, InSlot
  <2>2. /\ IsFiniteSet(InSlot') /\ Cardinality(InSlot') <= Cardinality(InSlot)
        /\ Cardinality(InSlot) \in Nat /\ Cardinality(InSlot') \in Nat
    BY <2>1, FS_Subset, FS_CardinalityType DEF Inv
  <2> QED
    BY <2>2, Assumptions DEF Inv, TypeOK
<1>5. TypeOK'
  <2>1. chan' \in [Side -> [Conn -> Seq(Names \X (Password \cup {NoPassword}))]]
    BY <1>1 DEF Inv, TypeOK
  <2> QED
    BY <1>1, <1>2, <1>4, <2>1 DEF Inv, TypeOK
<1>6. ASSUME NEW d \in Conn PROVE (FromPeer(d) /\ ServerInv(d) /\ ClientInv(d))'
  <2>1. FromPeer(d)'
    BY <1>1, <1>3 DEF Inv, FromPeer, Message, PasswordOf
  <2>2. NamesOf("client", d)' \subseteq NamesOf("client", d)
    BY <1>3 DEF NamesOf, Side
  <2>3. closed("server", d) \/ Done("server", d) =>
            (closed("server", d) \/ Done("server", d))'
    BY <1>1, <1>3 DEF closed, Done, Script, Secure, PasswordOf, Side
  <2>4. \A i \in Nat, t \in Side : Passed(t, d, i)' => Passed(t, d, i)
    BY <1>3 DEF Passed
  <2>5. InfoAt(Secure("client", d)) \in Nat
    BY DEF InfoAt
  <2>6. \A t \in Side : Secure(t, d)' = Secure(t, d)
    BY <1>1 DEF Secure, PasswordOf
  <2>7. ServerInv(d)'
    BY <1>1, <2>2, <2>3, <2>4, <2>6 DEF Inv, ServerInv, Side
  <2>8. ClientInv(d)'
    BY <1>1, <2>3, <2>4, <2>5, <2>6 DEF Inv, ClientInv, Side
  <2> QED
    BY <2>1, <2>7, <2>8
<1>7. AtWork'
  <2>1. \A d \in Conn : at'["server"][d] > 1 => at["server"][d] > 1 /\ (s = "server" => d # c)
    BY <1>3 DEF Side
  <2> QED
    BY <1>1, <2>1 DEF Inv, TypeOK, AtWork, Passed
<1> QED
  BY <1>4, <1>5, <1>6, <1>7 DEF Inv

\* What the steps of a script have in common: side s of connection c goes
\* on by one, and nobody else does.
LEMMA AdvanceInv ==
    ASSUME Inv, NEW s \in Side, NEW c \in Conn, Running(s, c), Advance(s, c),
           UNCHANGED <<spw, cpw, where, sleeping, errors, hung>>,
           armed' \in [Side -> [Conn -> BOOLEAN]],
           chan' \in [Side -> [Conn -> Seq(Names \X (Password \cup {NoPassword}))]],
           \A t \in Side, d \in Conn : d # c => chan'[t][d] = chan[t][d],
           FromPeer(c)', ServerInv(c)', ClientInv(c)'
    PROVE  Inv'
<1>1. at' = [at EXCEPT ![s][c] = @ + 1]
  BY DEF Advance
<1>2. /\ at' \in [Side -> [Conn -> Nat]]
      /\ \A t \in Side, d \in Conn : d # c => at'[t][d] = at[t][d]
  BY <1>1 DEF Inv, TypeOK
<1>3. InSlot' = InSlot
  BY DEF InSlot
<1>4. TypeOK'
  BY <1>2, <1>3 DEF Inv, TypeOK
<1>5. ASSUME NEW d \in Conn, d # c PROVE (FromPeer(d) /\ ServerInv(d) /\ ClientInv(d))'
  <2>1. \A t \in Side : chan'[t][d] = chan[t][d] /\ at'[t][d] = at[t][d]
    BY <1>2, <1>5
  <2>2. FromPeer(d)'
    <3>1. ASSUME NEW t \in Side, NEW i \in 1..Len(chan'[t][d])
          PROVE  (chan[t][d][i] = Message(Peer(t), d, chan[t][d][i][1]))'
      <4>1. chan[t][d][i] = Message(Peer(t), d, chan[t][d][i][1])
        BY <2>1 DEF Inv, FromPeer
      <4>2. chan'[t][d][i] = chan[t][d][i]
        BY <2>1
      <4> QED
        BY <4>1, <4>2 DEF Message, PasswordOf
    <3> QED
      BY <3>1 DEF FromPeer
  <2>3. ServerInv(d)'
    <3>1. NamesOf("client", d)' = NamesOf("client", d)
      BY <2>1 DEF NamesOf, Side
    <3> QED
      BY <2>1, <3>1 DEF Inv, ServerInv, Secure, PasswordOf, Passed, closed, Done, Script, Side
  <2>4. ClientInv(d)'
    BY <2>1 DEF Inv, ClientInv, Secure, PasswordOf, Passed, InfoAt, closed, Done, Script, Side
  <2> QED
    BY <2>2, <2>3, <2>4
<1>6. AtWork'
  <2>1. \A d \in Conn : at'["server"][d] > 1 => at["server"][d] > 1 \/ (s = "server" /\ d = c)
    BY <1>1, <1>2 DEF Inv, TypeOK, Side
  <2>2. s = "server" => where[c] = "slot"
    BY DEF Running, Busy
  <2> QED
    BY <2>1, <2>2 DEF Inv, AtWork, Passed
<1> QED
  BY <1>3, <1>4, <1>5, <1>6 DEF Inv

\* Going on by one step, in numbers.
LEMMA Bump ==
    ASSUME NEW s \in Side, NEW c \in Conn, at[s][c] \in Nat, at'[s][c] = at[s][c] + 1,
           Script(s, c)' = Script(s, c)
    PROVE  /\ \A i \in Nat : Passed(s, c, i)' => Passed(s, c, i) \/ at[s][c] = i
           /\ at[s][c] = Len(Script(s, c)) => Done(s, c)'
<1>1. ASSUME NEW i \in Nat PROVE Passed(s, c, i)' => Passed(s, c, i) \/ at[s][c] = i
  BY DEF Passed
<1>2. ASSUME at[s][c] = Len(Script(s, c)) PROVE Done(s, c)'
  <2>1. Len(Script(s, c))' = at[s][c]
    BY <1>2
  <2> QED
    BY <2>1 DEF Done
<1> QED
  BY <1>1, <1>2

LEMMA SecureType == \A s \in Side, c \in Conn : Secure(s, c) \in BOOLEAN
BY DEF Secure

LEMMA ScriptLen ==
    ASSUME NEW s \in Side, NEW c \in Conn
    PROVE  Len(Script(s, c)) = IF s = "server" THEN (IF Secure(s, c) THEN 11 ELSE 5)
                               ELSE (IF Secure(s, c) THEN 13 ELSE 5)
<1>1. CASE Secure(s, c)
  <2>1. Secure(s, c) = TRUE
    BY <1>1, SecureType
  <2> QED
    BY <2>1, Lengths DEF Script
<1>2. CASE ~Secure(s, c)
  <2>1. Secure(s, c) = FALSE
    BY <1>2, SecureType
  <2> QED
    BY <2>1, Lengths DEF Script
<1> QED
  BY <1>1, <1>2

LEMMA ScriptNat == \A s \in Side, c \in Conn : Len(Script(s, c)) \in Nat
BY ScriptLen

\* How ServerInv and ClientInv depend on the step and on what it sends.
LEMMA Progress ==
    ASSUME Inv, NEW s \in Side, NEW c \in Conn, Running(s, c), Advance(s, c),
           UNCHANGED <<spw, cpw>>,
           s = "server" /\ Secure(s, c) /\ at[s][c] = 6 => cpw[c] = spw,
           s = "client" /\ Secure(s, c) /\ at[s][c] = 9 => cpw[c] = spw,
           s = "client" /\ at[s][c] = InfoAt(Secure(s, c)) =>
                closed("server", c) \/ Done("server", c),
           "server tag" \in NamesOf("client", c)' =>
                \/ "server tag" \in NamesOf("client", c)
                \/ s = "server" /\ Secure(s, c) /\ at[s][c] > 6,
           "info" \in NamesOf("client", c)' =>
                \/ "info" \in NamesOf("client", c)
                \/ s = "server" /\ at[s][c] = Len(Script(s, c))
    PROVE  ServerInv(c)' /\ ClientInv(c)'
<1>1. at'[s][c] = at[s][c] + 1 /\ \A t \in Side : t # s => at'[t][c] = at[t][c]
  BY DEF Advance, Inv, TypeOK
<1>2. \A t \in Side : Secure(t, c)' = Secure(t, c) /\ Script(t, c)' = Script(t, c)
  BY DEF Secure, PasswordOf, Script
<1>3. at[s][c] \in Nat /\ at[s][c] # 0 /\ ~(at[s][c] > Len(Script(s, c)))
  BY DEF Inv, TypeOK, Running, Busy, closed, Done
<1>4. Len(Script(s, c)) \in Nat
  BY ScriptNat
<1>5. InfoAt(Secure("client", c)) \in Nat
  BY DEF InfoAt
<1>6. ServerInv(c) /\ ClientInv(c)
  BY DEF Inv
<1>7. CASE s = "server"
  <2>1. at'["client"][c] = at["client"][c]
    BY <1>1, <1>7 DEF Side
  <2>2. ~closed("server", c) /\ ~Done("server", c)
    BY <1>3, <1>7 DEF closed, Done
  <2>3. "info" \notin NamesOf("client", c)
    BY <1>6, <2>2 DEF ServerInv
  <2>9. at'["server"][c] = at["server"][c] + 1 /\ at["server"][c] \in Nat
    BY <1>1, <1>3, <1>7
  <2>10. "info" \in NamesOf("client", c)' => at["server"][c] = Len(Script("server", c))
    BY <1>7, <2>3
  <2>4. "info" \in NamesOf("client", c)' => Done("server", c)'
    BY <1>2, <1>7, <2>9, <2>10, Bump
  <2>11. Passed("server", c, 6)' => Passed("server", c, 6) \/ at["server"][c] = 6
    BY <1>2, <1>7, <2>9, Bump
  <2>5. Secure("server", c) /\ Passed("server", c, 6)' => cpw[c] = spw
    BY <1>6, <1>7, <2>11 DEF ServerInv
  <2>6. "server tag" \in NamesOf("client", c)' => cpw[c] = spw
    BY <1>6, <1>7 DEF Passed, ServerInv
  <2>7. ServerInv(c)'
    BY <1>2, <1>6, <2>4, <2>5, <2>6 DEF ServerInv, Side
  <2>8. ClientInv(c)'
    BY <1>2, <1>6, <2>1, <2>2 DEF ClientInv, Passed, Side
  <2> QED
    BY <2>7, <2>8
<1>8. CASE s = "client"
  <2>1. at'["server"][c] = at["server"][c]
    BY <1>1, <1>8 DEF Side
  <2>2. closed("server", c) \/ Done("server", c) =>
            (closed("server", c) \/ Done("server", c))'
    BY <1>2, <2>1 DEF closed, Done, Side
  <2>3. ServerInv(c)'
    BY <1>2, <1>6, <1>8, <2>1, <2>2 DEF ServerInv, Passed, Side
  <2>8. at'["client"][c] = at["client"][c] + 1 /\ at["client"][c] \in Nat
    BY <1>1, <1>3, <1>8
  <2>4. Passed("client", c, 9)' => Passed("client", c, 9) \/ at["client"][c] = 9
    BY <1>2, <1>8, <2>8, Bump
  <2>5. Passed("client", c, InfoAt(Secure("client", c)))' =>
            \/ Passed("client", c, InfoAt(Secure("client", c)))
            \/ at["client"][c] = InfoAt(Secure("client", c))
    <3>1. InfoAt(Secure("client", c))' = InfoAt(Secure("client", c))
      BY <1>2 DEF InfoAt, Side
    <3>2. Passed("client", c, InfoAt(Secure("client", c)))' =>
                at'["client"][c] > InfoAt(Secure("client", c))
      BY <3>1 DEF Passed
    <3>3. PICK k \in Nat : k = InfoAt(Secure("client", c))
      BY <1>5
    <3>4. Passed("client", c, k)' => Passed("client", c, k) \/ at["client"][c] = k
      BY <1>2, <1>8, <2>8, Bump
    <3> QED
      BY <3>2, <3>3, <3>4, Zenon DEF Passed
  <2>6. (Secure("client", c) /\ Passed("client", c, 9))' => cpw[c] = spw
    BY <1>2, <1>6, <1>8, <2>4 DEF ClientInv, Side
  <2>7. Passed("client", c, InfoAt(Secure("client", c)))' =>
            (closed("server", c) \/ Done("server", c))'
    BY <1>6, <1>8, <2>2, <2>5 DEF ClientInv
  <2> QED
    BY <1>2, <2>3, <2>6, <2>7 DEF ClientInv, Side
<1> QED
  BY <1>7, <1>8 DEF Side

LEMMA SetDeadlineInv ==
    ASSUME Inv, NEW s \in Side, NEW c \in Conn, SetDeadline(s, c)
    PROVE  Inv'
<1>1. /\ Running(s, c) /\ Advance(s, c) /\ Step(s, c) \in {Arm, Disarm}
      /\ armed' = [armed EXCEPT ![s][c] = Step(s, c) = Arm]
      /\ UNCHANGED <<spw, cpw, where, chan, sleeping, errors, hung>>
  BY DEF SetDeadline, SideOnly
<1>2. Step(s, c)[1] # "recv"
  BY <1>1 DEF Arm, Disarm
<1>3. armed' \in [Side -> [Conn -> BOOLEAN]]
  BY <1>1 DEF Inv, TypeOK
<1>4. FromPeer(c)'
  BY <1>1 DEF Inv, FromPeer, Message, PasswordOf
<1>5. NamesOf("client", c)' = NamesOf("client", c)
  BY <1>1 DEF NamesOf
<1>6. ServerInv(c)' /\ ClientInv(c)'
  BY <1>1, <1>2, <1>5, StepFacts, Progress DEF Inv
<1> QED
  BY <1>1, <1>3, <1>4, <1>6, AdvanceInv DEF Inv, TypeOK

LEMMA WriteInv ==
    ASSUME Inv, NEW s \in Side, NEW c \in Conn, Write(s, c)
    PROVE  Inv'
<1> DEFINE m == Message(s, c, Step(s, c)[2])
           p == Peer(s)
<1>1. /\ Running(s, c) /\ Advance(s, c) /\ Step(s, c)[1] = "send"
      /\ chan' = IF closed(p, c) THEN chan ELSE [chan EXCEPT ![p][c] = Append(@, m)]
      /\ UNCHANGED <<spw, cpw, where, armed, sleeping, errors, hung>>
  BY DEF Write, SideOnly
<1>2. Step(s, c)[2] \in Names
  BY <1>1, StepFacts DEF Inv
<1>3. m \in Names \X (Password \cup {NoPassword}) /\ m[1] = Step(s, c)[2]
  BY <1>2 DEF Inv, TypeOK, Message, PasswordOf
<1>4. p \in Side /\ Peer(p) = s
  BY DEF Peer, Side
<1>5. chan' \in [Side -> [Conn -> Seq(Names \X (Password \cup {NoPassword}))]]
  <2>1. Append(chan[p][c], m) \in Seq(Names \X (Password \cup {NoPassword}))
    BY <1>3, <1>4 DEF Inv, TypeOK
  <2> QED
    BY <1>1, <1>4, <2>1 DEF Inv, TypeOK
<1>6. \A t \in Side, d \in Conn :
        chan'[t][d] = IF t = p /\ d = c /\ ~closed(p, c) THEN Append(chan[t][d], m)
                      ELSE chan[t][d]
  BY <1>1, <1>4 DEF Inv, TypeOK
<1>7. \A t \in Side : \A i \in 1..Len(chan'[t][c]) :
        \/ i \in 1..Len(chan[t][c]) /\ chan'[t][c][i] = chan[t][c][i]
        \/ t = p /\ chan'[t][c][i] = m
  <2>1. TAKE t \in Side
  <2>2. TAKE i \in 1..Len(chan'[t][c])
  <2>3. chan[t][c] \in Seq(Names \X (Password \cup {NoPassword}))
    BY DEF Inv, TypeOK
  <2>4. CASE chan'[t][c] = chan[t][c]
    BY <2>4
  <2>5. CASE t = p /\ chan'[t][c] = Append(chan[t][c], m)
    <3> HIDE DEF m, p
    <3> QED
      BY <1>3, <2>3, <2>5
  <2> QED
    BY <1>6, <2>4, <2>5
<1>8. FromPeer(c)'
  <2>1. FromPeer(c)
    BY DEF Inv
  <2>2. \A t \in Side : \A i \in 1..Len(chan'[t][c]) :
            chan'[t][c][i] = Message(Peer(t), c, chan'[t][c][i][1])
    BY <1>3, <1>4, <1>7, <2>1 DEF FromPeer
  <2> QED
    BY <1>1, <2>2 DEF FromPeer, Message, PasswordOf
<1>9. \A n : n \in NamesOf("client", c)' =>
        n \in NamesOf("client", c) \/ (p = "client" /\ n = Step(s, c)[2])
  <2>1. SUFFICES ASSUME NEW i \in 1..Len(chan'["client"][c])
                 PROVE  \/ chan'["client"][c][i][1] \in NamesOf("client", c)
                        \/ p = "client" /\ chan'["client"][c][i][1] = Step(s, c)[2]
    BY DEF NamesOf
  <2> QED
    BY <1>3, <1>7 DEF NamesOf, Side
<1>10. p = "client" => s = "server"
  BY <1>4 DEF Peer
<1>12. \A n : n \in NamesOf("client", c)' =>
            n \in NamesOf("client", c) \/ (s = "server" /\ n = Step(s, c)[2])
  BY <1>9, <1>10
<1>11. ServerInv(c)' /\ ClientInv(c)'
  <2>1. Step(s, c)[1] # "recv"
    BY <1>1
  <2>2. /\ s = "server" /\ Step(s, c)[2] = "server tag" => Secure(s, c) /\ at[s][c] > 6
        /\ s = "server" /\ Step(s, c)[2] = "info" => at[s][c] = Len(Script(s, c))
        /\ s = "server" /\ Secure(s, c) => at[s][c] # 6
        /\ s = "client" /\ Secure(s, c) => at[s][c] # 9
        /\ s = "client" => at[s][c] # InfoAt(Secure(s, c))
    BY <1>1, <2>1, StepFacts DEF Inv
  <2> HIDE DEF m, p
  <2> QED
    BY <1>1, <1>12, <2>2, Progress
<1> QED
  BY <1>1, <1>5, <1>6, <1>8, <1>11, AdvanceInv DEF Inv, TypeOK

LEMMA ReadInv ==
    ASSUME Inv, NEW s \in Side, NEW c \in Conn, Read(s, c)
    PROVE  Inv'
<1> DEFINE q == chan[s][c]
<1>1. /\ Running(s, c) /\ Advance(s, c) /\ Step(s, c)[1] = "recv"
      /\ q # <<>> /\ Head(q) = Message(s, c, Step(s, c)[2])
      /\ chan' = [chan EXCEPT ![s][c] = Tail(@)]
      /\ UNCHANGED <<spw, cpw, where, armed, sleeping, errors, hung>>
  BY DEF Read, Reading, Expected, SideOnly
<1>2. q \in Seq(Names \X (Password \cup {NoPassword})) /\ Len(q) > 0
  BY <1>1 DEF Inv, TypeOK
<1>3. chan' \in [Side -> [Conn -> Seq(Names \X (Password \cup {NoPassword}))]]
  BY <1>1, <1>2 DEF Inv, TypeOK
<1>4. \A t \in Side, d \in Conn :
        chan'[t][d] = IF t = s /\ d = c THEN Tail(q) ELSE chan[t][d]
  BY <1>1 DEF Inv, TypeOK
<1>5. \A t \in Side : \A i \in 1..Len(chan'[t][c]) :
        \E j \in 1..Len(chan[t][c]) : chan'[t][c][i] = chan[t][c][j]
  <2>1. \A i \in 1..Len(Tail(q)) : i + 1 \in 1..Len(q) /\ Tail(q)[i] = q[i + 1]
    BY <1>2
  <2> QED
    BY <1>4, <2>1
<1>6. FromPeer(c)'
  <2>1. FromPeer(c)
    BY DEF Inv
  <2>2. ASSUME NEW t \in Side, NEW i \in 1..Len(chan'[t][c])
        PROVE  chan'[t][c][i] = Message(Peer(t), c, chan'[t][c][i][1])
    <3>1. PICK j \in 1..Len(chan[t][c]) : chan'[t][c][i] = chan[t][c][j]
      BY <1>5
    <3>2. chan[t][c][j] = Message(Peer(t), c, chan[t][c][j][1])
      BY <2>1 DEF FromPeer
    <3> QED
      BY <3>1, <3>2
  <2> QED
    BY <1>1, <2>2 DEF FromPeer, Message, PasswordOf
<1>7. \A n : n \in NamesOf("client", c)' => n \in NamesOf("client", c)
  <2>1. SUFFICES ASSUME NEW i \in 1..Len(chan'["client"][c])
                 PROVE  chan'["client"][c][i][1] \in NamesOf("client", c)
    BY DEF NamesOf
  <2> QED
    BY <1>5 DEF NamesOf, Side
<1>8. Step(s, c)[2] \in NamesOf(s, c)
  <2>1. 1 \in 1..Len(q) /\ q[1] = Head(q)
    BY <1>2
  <2>2. q[1][1] = Step(s, c)[2]
    BY <1>1, <2>1 DEF Message
  <2> QED
    BY <2>1, <2>2 DEF NamesOf
<1>9. Step(s, c)[2] \in Keyed => PasswordOf(s, c) = PasswordOf(Peer(s), c)
  <2>1. Head(q) = q[1] /\ 1 \in 1..Len(q)
    BY <1>2
  <2>2. q[1] = Message(Peer(s), c, Step(s, c)[2])
    BY <1>1, <2>1 DEF Inv, FromPeer, Message
  <2> QED
    BY <1>1, <2>1, <2>2 DEF Message
<1>10. s = "server" /\ Secure(s, c) /\ at[s][c] = 6 => cpw[c] = spw
  BY <1>1, <1>9, StepFacts DEF Inv, Keyed, PasswordOf, Peer
<1>11. s = "client" /\ Secure(s, c) /\ at[s][c] = 9 => cpw[c] = spw
  BY <1>1, <1>9, StepFacts DEF Inv, Keyed, PasswordOf, Peer
<1>12. s = "client" /\ at[s][c] = InfoAt(Secure(s, c)) =>
            closed("server", c) \/ Done("server", c)
  BY <1>1, <1>8, StepFacts DEF Inv, ServerInv
<1>13. ServerInv(c)' /\ ClientInv(c)'
  BY <1>1, <1>7, <1>10, <1>11, <1>12, Progress
<1> QED
  BY <1>1, <1>3, <1>4, <1>6, <1>13, AdvanceInv DEF Inv, TypeOK

-----------------------------------------------------------------------------
LEMMA NextInv == ASSUME Inv, [Next]_vars PROVE Inv'
<1>1. CASE UNCHANGED vars
  <2>1. UNCHANGED <<spw, cpw, where, sleeping, errors, at, armed, chan, hung>>
    BY <1>1 DEF vars, listener
  <2>2. TypeOK' /\ IsFiniteSet(InSlot)' /\ AtWork'
    <3>1. InSlot' = InSlot
      BY <2>1 DEF InSlot
    <3> QED
      BY <2>1, <3>1 DEF Inv, TypeOK, AtWork, Passed
  <2> QED
    BY <2>1, <2>2, QuietInv
<1>2. CASE Next
  <2>1. CASE Listen
    BY <2>1, MoveInv, ListenerInv DEF Listen
  <2>2. CASE \E c \in Conn : Dial(c) \/ End(c) \/ Leave(c) \/ Hang(c)
    BY <2>2, MoveInv, CloseInv, ListenerInv DEF End, Leave, Side
  <2>3. CASE \E s \in Side, c \in Conn : Proceed(s, c) \/ Timeout(s, c)
    BY <2>3, SetDeadlineInv, WriteInv, ReadInv, CloseInv
       DEF Proceed, WriteFails, ReadFails, Timeout
  <2> QED
    BY <1>2, <2>1, <2>2, <2>3 DEF Next
<1> QED
  BY <1>1, <1>2

\* The inductive invariant holds.
THEOREM Inductive == Spec => []Inv
BY InitInv, NextInv, PTL DEF Spec

\* The type invariant, in which at most MaxSessions connections have a slot
\* of serveListener.
THEOREM TypeCorrect == Spec => []TypeOK
<1>1. Inv => TypeOK
  BY DEF Inv
<1> QED
  BY <1>1, Inductive, PTL

\* A server confirms its key (secure.go:72) only to a client that has its
\* password.
THEOREM NoAnswer == Spec => []NoAnswerToWrongPassword
<1>1. Inv => NoAnswerToWrongPassword
  <2> SUFFICES ASSUME Inv, NEW c \in Conn, Confirmed(c) PROVE cpw[c] = spw
    BY DEF NoAnswerToWrongPassword
  <2>1. PICK i \in 1..Len(chan["client"][c]) : chan["client"][c][i] = <<"server tag", spw>>
    BY DEF Confirmed
  <2>2. "server tag" \in NamesOf("client", c)
    <3>1. <<"server tag", spw>>[1] = "server tag"
      OBVIOUS
    <3> QED
      BY <2>1, <3>1 DEF NamesOf
  <2> QED
    BY <2>2 DEF Inv, ServerInv
<1> QED
  BY <1>1, Inductive, PTL

\* Whoever is through the handshake has the password of the other side, and
\* a client that is through has a server that is, or was (secure.go:38-163,
\* dial.go:87-99).
THEOREM Agree == Spec => []Agreement
<1>1. Inv => Agreement
  <2> SUFFICES ASSUME Inv, NEW c \in Conn
               PROVE  /\ Established("server", c) => cpw[c] = spw
                      /\ Established("client", c) =>
                            cpw[c] = spw /\ (Established("server", c) \/ closed("server", c))
    BY DEF Agreement
  <2>1. ServerInv(c) /\ ClientInv(c)
    BY DEF Inv
  <2>2. at["server"][c] \in Nat /\ at["client"][c] \in Nat
    BY DEF Inv, TypeOK, Side
  <2>3. Done("server", c) => at["server"][c] > 1 /\ (Secure("server", c) => at["server"][c] > 6)
    <3>1. CASE Secure("server", c)
      <4>1. Len(Script("server", c)) = 11
        BY <3>1, ScriptLen DEF Side
      <4>2. Done("server", c) => at["server"][c] > 11
        BY <4>1, Zenon DEF Done
      <4> QED
        BY <2>2, <4>2
    <3>2. CASE ~Secure("server", c)
      <4>1. Len(Script("server", c)) = 5
        BY <3>2, ScriptLen DEF Side
      <4>2. Done("server", c) => at["server"][c] > 5
        BY <4>1, Zenon DEF Done
      <4> QED
        BY <2>2, <3>2, <4>2
    <3> QED
      BY <3>1, <3>2
  <2>4. Done("client", c) =>
            /\ Secure("client", c) => at["client"][c] > 9
            /\ at["client"][c] > InfoAt(Secure("client", c))
    <3>1. CASE Secure("client", c)
      <4>1. Secure("client", c) = TRUE
        BY <3>1, SecureType DEF Side
      <4>2. Len(Script("client", c)) = 13 /\ InfoAt(TRUE) = 12
        BY <3>1, ScriptLen DEF Side, InfoAt
      <4> QED
        <5>1. Done("client", c) => at["client"][c] > 13
          BY <4>2, Zenon DEF Done
        <5>2. Done("client", c) => at["client"][c] > 9 /\ at["client"][c] > 12
          BY <2>2, <5>1
        <5> QED
          BY <4>1, <4>2, <5>2, Zenon
    <3>2. CASE ~Secure("client", c)
      <4>1. Secure("client", c) = FALSE
        BY <3>2, SecureType DEF Side
      <4>2. Len(Script("client", c)) = 5 /\ InfoAt(FALSE) = 5
        BY <3>2, ScriptLen DEF Side, InfoAt
      <4> QED
        BY <2>2, <3>2, <4>1, <4>2 DEF Done
    <3> QED
      BY <3>1, <3>2
  <2>5. Done("server", c) => cpw[c] = spw
    BY <2>1, <2>3 DEF ServerInv, Passed, Secure, PasswordOf
  <2>6. Done("client", c) => cpw[c] = spw
    BY <2>1, <2>4 DEF ServerInv, ClientInv, Passed, Secure, PasswordOf
  <2>7. Done("client", c) => closed("server", c) \/ Done("server", c)
    BY <2>1, <2>4 DEF ClientInv, Passed
  <2>8. Done("server", c) => where[c] = "slot"
    BY <2>3 DEF Inv, AtWork, Passed
  <2> QED
    BY <2>5, <2>6, <2>7, <2>8 DEF Established, Busy
<1> QED
  BY <1>1, Inductive, PTL

\* Only peers that share the password get through, and to each other.
THEOREM AuthenticPeers == Spec => []Authentic
BY TypeCorrect, NoAnswer, Agree, PTL DEF Authentic
-----------------------------------------------------------------------------
(* The pace of the two sides: how many messages each has sent and read at  *)
(* step i of its script, and where it clears its last deadline.            *)

After(i, k) == IF i > k THEN 1 ELSE 0

Sent(s, secure, i) ==
    IF s = "server"
    THEN IF secure
         THEN After(i, 2) + After(i, 4) + After(i, 7) + After(i, 9) + After(i, 11)
         ELSE After(i, 2) + After(i, 5)
    ELSE IF secure
         THEN After(i, 4) + After(i, 7) + After(i, 8) + After(i, 10)
         ELSE After(i, 4)

Received(s, secure, i) ==
    IF s = "server"
    THEN IF secure
         THEN After(i, 3) + After(i, 5) + After(i, 6) + After(i, 8)
         ELSE After(i, 3)
    ELSE IF secure
         THEN After(i, 2) + After(i, 6) + After(i, 9) + After(i, 11) + After(i, 12)
         ELSE After(i, 2) + After(i, 5)

LastDisarm(s, secure) ==
    IF s = "server" THEN (IF secure THEN 10 ELSE 4) ELSE (IF secure THEN 13 ELSE 3)

\* While both sides have the connection open, what one has sent and the
\* other has not read is on its way; and a deadline is not set for longer
\* than to the step that clears it.
Balanced(c) ==
    \A s \in Side : ~closed(s, c) /\ ~closed(Peer(s), c) =>
        Len(chan[s][c]) = Sent(Peer(s), Secure(Peer(s), c), at[Peer(s)][c])
                          - Received(s, Secure(s, c), at[s][c])
ArmedInv(s, c) == armed[s][c] => at[s][c] <= LastDisarm(s, Secure(s, c))

PaceInv ==
    /\ Inv
    /\ \A c \in Conn : Balanced(c)
    /\ \A s \in Side, c \in Conn : ArmedInv(s, c)

\* The script of side s has step st as number i, and the counts agree.
StepAgrees(s, secure, st, i) ==
    /\ Sent(s, secure, i + 1) = Sent(s, secure, i) + (IF st[1] = "send" THEN 1 ELSE 0)
    /\ Received(s, secure, i + 1) = Received(s, secure, i) + (IF st[1] = "recv" THEN 1 ELSE 0)
    /\ i = LastDisarm(s, secure) => st = Disarm
    /\ st = Arm => i < LastDisarm(s, secure)

LEMMA ServerSecurePace ==
    ASSUME NEW i \in 1..11
    PROVE  StepAgrees("server", TRUE, ServerScript(TRUE)[i], i)
<1> USE DEF StepAgrees, Send, Recv, Arm, Disarm, Sent, Received, After, LastDisarm
<1>1. CASE i = 1
  BY <1>1 DEF ServerScript
<1>2. CASE i = 2
  BY <1>2 DEF ServerScript
<1>3. CASE i = 3
  BY <1>3 DEF ServerScript
<1>4. CASE i = 4
  BY <1>4 DEF ServerScript
<1>5. CASE i = 5
  BY <1>5 DEF ServerScript
<1>6. CASE i = 6
  BY <1>6 DEF ServerScript
<1>7. CASE i = 7
  BY <1>7 DEF ServerScript
<1>8. CASE i = 8
  BY <1>8 DEF ServerScript
<1>9. CASE i = 9
  BY <1>9 DEF ServerScript
<1>10. CASE i = 10
  BY <1>10 DEF ServerScript
<1>11. CASE i = 11
  BY <1>11 DEF ServerScript
<1>a. i = 1 \/ i = 2 \/ i = 3 \/ i = 4 \/ i = 5 \/ i = 6 \/ i = 7
        \/ i = 8 \/ i = 9 \/ i = 10 \/ i = 11
  OBVIOUS
<1> QED
  BY <1>a, <1>1, <1>2, <1>3, <1>4, <1>5, <1>6, <1>7, <1>8, <1>9, <1>10, <1>11

LEMMA ServerPlainPace ==
    ASSUME NEW i \in 1..5
    PROVE  StepAgrees("server", FALSE, ServerScript(FALSE)[i], i)
<1> USE DEF StepAgrees, Send, Recv, Arm, Disarm, Sent, Received, After, LastDisarm
<1>1. CASE i = 1
  BY <1>1 DEF ServerScript
<1>2. CASE i = 2
  BY <1>2 DEF ServerScript
<1>3. CASE i = 3
  BY <1>3 DEF ServerScript
<1>4. CASE i = 4
  BY <1>4 DEF ServerScript
<1>5. CASE i = 5
  BY <1>5 DEF ServerScript
<1>a. i = 1 \/ i = 2 \/ i = 3 \/ i = 4 \/ i = 5
  OBVIOUS
<1> QED
  BY <1>a, <1>1, <1>2, <1>3, <1>4, <1>5

LEMMA ClientSecurePace ==
    ASSUME NEW i \in 1..13
    PROVE  StepAgrees("client", TRUE, ClientScript(TRUE)[i], i)
<1> USE DEF StepAgrees, Send, Recv, Arm, Disarm, Sent, Received, After, LastDisarm
<1>1. CASE i = 1
  BY <1>1 DEF ClientScript
<1>2. CASE i = 2
  BY <1>2 DEF ClientScript
<1>3. CASE i = 3
  BY <1>3 DEF ClientScript
<1>4. CASE i = 4
  BY <1>4 DEF ClientScript
<1>5. CASE i = 5
  BY <1>5 DEF ClientScript
<1>6. CASE i = 6
  BY <1>6 DEF ClientScript
<1>7. CASE i = 7
  BY <1>7 DEF ClientScript
<1>8. CASE i = 8
  BY <1>8 DEF ClientScript
<1>9. CASE i = 9
  BY <1>9 DEF ClientScript
<1>10. CASE i = 10
  BY <1>10 DEF ClientScript
<1>11. CASE i = 11
  BY <1>11 DEF ClientScript
<1>12. CASE i = 12
  BY <1>12 DEF ClientScript
<1>13. CASE i = 13
  BY <1>13 DEF ClientScript
<1>a. i = 1 \/ i = 2 \/ i = 3 \/ i = 4 \/ i = 5 \/ i = 6 \/ i = 7
        \/ i = 8 \/ i = 9 \/ i = 10 \/ i = 11 \/ i = 12 \/ i = 13
  OBVIOUS
<1> QED
  BY <1>a, <1>1, <1>2, <1>3, <1>4, <1>5, <1>6, <1>7, <1>8,
     <1>9, <1>10, <1>11, <1>12, <1>13

LEMMA ClientPlainPace ==
    ASSUME NEW i \in 1..5
    PROVE  StepAgrees("client", FALSE, ClientScript(FALSE)[i], i)
<1> USE DEF StepAgrees, Send, Recv, Arm, Disarm, Sent, Received, After, LastDisarm
<1>1. CASE i = 1
  BY <1>1 DEF ClientScript
<1>2. CASE i = 2
  BY <1>2 DEF ClientScript
<1>3. CASE i = 3
  BY <1>3 DEF ClientScript
<1>4. CASE i = 4
  <2>1. PICK st : st = ClientScript(FALSE)[i]
    OBVIOUS
  <2>2. st[1] = "send" /\ st # <<"deadline", "set">>
    BY <1>4, <2>1 DEF ClientScript
  <2>3. /\ Sent("client", FALSE, i + 1) = Sent("client", FALSE, i) + (IF st[1] = "send" THEN 1 ELSE 0)
        /\ Received("client", FALSE, i + 1) = Received("client", FALSE, i) + (IF st[1] = "recv" THEN 1 ELSE 0)
    BY <1>4, <2>2
  <2>4. st = Arm => i < LastDisarm("client", FALSE)
    BY <2>2
  <2>5. i = LastDisarm("client", FALSE) => st = Disarm
    BY <1>4
  <2> QED
    BY <2>1, <2>3, <2>4, <2>5
<1>5. CASE i = 5
  BY <1>5 DEF ClientScript
<1>a. i = 1 \/ i = 2 \/ i = 3 \/ i = 4 \/ i = 5
  OBVIOUS
<1> QED
  BY <1>a, <1>1, <1>2, <1>3, <1>4, <1>5

LEMMA StepPace ==
    ASSUME TypeOK, NEW s \in Side, NEW c \in Conn, Running(s, c)
    PROVE  StepAgrees(s, Secure(s, c), Step(s, c), at[s][c])
<1>1. Secure(s, c) \in BOOLEAN /\ at[s][c] \in 1..Len(Script(s, c))
  BY StepFacts DEF Secure
<1>2. CASE s = "server" /\ Secure(s, c)
  <2>1. Secure(s, c) = TRUE /\ Script(s, c) = ServerScript(TRUE)
    BY <1>2 DEF Script
  <2> QED
    BY <1>1, <1>2, <2>1, ServerSecurePace, Lengths DEF Step
<1>3. CASE s = "server" /\ ~Secure(s, c)
  <2>1. Secure(s, c) = FALSE /\ Script(s, c) = ServerScript(FALSE)
    BY <1>1, <1>3 DEF Script
  <2> QED
    BY <1>1, <1>3, <2>1, ServerPlainPace, Lengths DEF Step
<1>4. CASE s = "client" /\ Secure(s, c)
  <2>1. Secure(s, c) = TRUE /\ Script(s, c) = ClientScript(TRUE)
    BY <1>4 DEF Script
  <2> QED
    BY <1>1, <1>4, <2>1, ClientSecurePace, Lengths DEF Step
<1>5. CASE s = "client" /\ ~Secure(s, c)
  <2>1. Secure(s, c) = FALSE /\ Script(s, c) = ClientScript(FALSE)
    BY <1>1, <1>5 DEF Script
  <2> QED
    BY <1>1, <1>5, <2>1, ClientPlainPace, Lengths DEF Step
<1> QED
  BY <1>2, <1>3, <1>4, <1>5 DEF Side

LEMMA CountType ==
    ASSUME NEW s \in Side, NEW secure \in BOOLEAN, NEW i \in Nat
    PROVE  /\ Sent(s, secure, i) \in Int /\ Received(s, secure, i) \in Int
           /\ LastDisarm(s, secure) \in Nat
<1>1. \A k \in Nat : After(i, k) \in Int
  BY DEF After
<1> HIDE DEF After
<1>2. Sent(s, secure, i) \in Int
  BY <1>1 DEF Sent
<1>3. Received(s, secure, i) \in Int
  BY <1>1 DEF Received
<1> QED
  BY <1>2, <1>3 DEF LastDisarm

\* The counts of a connection depend on where its sides are, and on how
\* many messages are on their way, only.
LEMMA PaceKept ==
    ASSUME PaceInv, NEW c \in Conn, UNCHANGED <<spw, cpw>>,
           \A s \in Side : at'[s][c] = at[s][c] /\ chan'[s][c] = chan[s][c]
                           /\ (armed'[s][c] => armed[s][c])
    PROVE  Balanced(c)' /\ \A s \in Side : ArmedInv(s, c)'
<1>1. \A s \in Side : Secure(s, c)' = Secure(s, c) /\ closed(s, c)' = closed(s, c)
                      /\ Peer(s) \in Side
  BY DEF Secure, PasswordOf, closed, Peer, Side
<1>2. Balanced(c)'
  <2>1. Balanced(c)
    BY DEF PaceInv
  <2> QED
    BY <1>1, <2>1 DEF Balanced
<1>3. ASSUME NEW s \in Side PROVE ArmedInv(s, c)'
  <2>1. ArmedInv(s, c)
    BY DEF PaceInv
  <2> QED
    BY <1>1, <2>1 DEF ArmedInv
<1> QED
  BY <1>2, <1>3

\* When a side closes there is nothing left to balance.
LEMMA PaceClose ==
    ASSUME PaceInv, NEW s \in Side, NEW c \in Conn, Close(s, c)
    PROVE  Balanced(c)' /\ \A t \in Side : ArmedInv(t, c)'
<1>1. TypeOK /\ UNCHANGED <<spw, cpw>>
  BY DEF PaceInv, Inv, Close, SideOnly
<1>2. /\ at' = [at EXCEPT ![s][c] = 0]
      /\ armed' = [armed EXCEPT ![s][c] = FALSE]
  BY DEF Close
<1>3. /\ at'[s][c] = 0 /\ armed'[s][c] = FALSE
      /\ \A t \in Side : t # s => at'[t][c] = at[t][c] /\ armed'[t][c] = armed[t][c]
  BY <1>1, <1>2 DEF TypeOK
<1>4. Balanced(c)'
  <2>1. \A t \in Side : t = s \/ Peer(t) = s
    BY DEF Peer, Side
  <2> QED
    BY <1>3, <2>1 DEF Balanced, closed
<1>5. ASSUME NEW t \in Side PROVE ArmedInv(t, c)'
  <2>1. ArmedInv(t, c) /\ Secure(t, c)' = Secure(t, c)
    BY <1>1 DEF PaceInv, Secure, PasswordOf
  <2> QED
    BY <1>3, <2>1 DEF ArmedInv
<1> QED
  BY <1>4, <1>5

\* What a step of its script does to the balance of a connection.
LEMMA PaceAdvance ==
    ASSUME PaceInv, NEW s \in Side, NEW c \in Conn, Running(s, c), Advance(s, c),
           UNCHANGED <<spw, cpw>>, NEW p, p = Peer(s),
           \A t \in Side : chan'[t][c] \in Seq(Names \X (Password \cup {NoPassword})),
           ~closed(p, c) =>
               /\ Len(chan'[p][c]) = Len(chan[p][c]) + (IF Step(s, c)[1] = "send" THEN 1 ELSE 0)
               /\ Len(chan'[s][c]) = Len(chan[s][c]) - (IF Step(s, c)[1] = "recv" THEN 1 ELSE 0),
           \A t \in Side : armed'[t][c] => armed[t][c] \/ (t = s /\ Step(s, c) = Arm),
           Step(s, c) = Disarm => ~armed'[s][c]
    PROVE  Balanced(c)' /\ \A t \in Side : ArmedInv(t, c)'
<1>1. TypeOK /\ Balanced(c) /\ \A t \in Side : ArmedInv(t, c)
  BY DEF PaceInv, Inv
<1>2. /\ p \in Side /\ Peer(p) = s /\ p # s
      /\ \A t \in Side : t = s \/ t = p
  BY DEF Peer, Side
<1>3. at'[s][c] = at[s][c] + 1 /\ at'[p][c] = at[p][c] /\ at[s][c] \in Nat /\ at[p][c] \in Nat
      /\ at[s][c] # 0
  BY <1>1, <1>2 DEF TypeOK, Advance, Running, Busy, closed
<1>4. StepAgrees(s, Secure(s, c), Step(s, c), at[s][c])
  BY <1>1, StepPace
<1>5. \A t \in Side : Secure(t, c)' = Secure(t, c) /\ Secure(t, c) \in BOOLEAN
  BY DEF Secure, PasswordOf
<1>6. closed(p, c)' = closed(p, c) /\ ~closed(s, c)
  BY <1>3 DEF closed
<1>7. /\ Sent(p, Secure(p, c), at[p][c]) \in Int /\ Received(p, Secure(p, c), at[p][c]) \in Int
      /\ Sent(s, Secure(s, c), at[s][c]) \in Int /\ Received(s, Secure(s, c), at[s][c]) \in Int
      /\ LastDisarm(s, Secure(s, c)) \in Nat
  BY <1>2, <1>3, <1>5, CountType
<1>8. Balanced(c)'
  <2>1. SUFFICES ASSUME ~closed(p, c)
                 PROVE  /\ Len(chan'[s][c]) = Sent(p, Secure(p, c), at[p][c])
                                              - Received(s, Secure(s, c), at[s][c] + 1)
                        /\ Len(chan'[p][c]) = Sent(s, Secure(s, c), at[s][c] + 1)
                                              - Received(p, Secure(p, c), at[p][c])
    BY <1>2, <1>3, <1>5, <1>6 DEF Balanced
  <2>2. /\ Len(chan[s][c]) = Sent(p, Secure(p, c), at[p][c]) - Received(s, Secure(s, c), at[s][c])
        /\ Len(chan[p][c]) = Sent(s, Secure(s, c), at[s][c]) - Received(p, Secure(p, c), at[p][c])
    BY <1>1, <1>2, <1>6, <2>1 DEF Balanced
  <2> QED
    BY <1>4, <1>7, <2>1, <2>2 DEF StepAgrees
<1>9. ArmedInv(p, c)'
  BY <1>1, <1>2, <1>3, <1>5 DEF ArmedInv
<1>10. ArmedInv(s, c)'
  <2>1. SUFFICES ASSUME armed'[s][c] PROVE at[s][c] + 1 <= LastDisarm(s, Secure(s, c))
    BY <1>3, <1>5 DEF ArmedInv
  <2>2. CASE armed[s][c]
    <3>1. at[s][c] <= LastDisarm(s, Secure(s, c)) /\ at[s][c] # LastDisarm(s, Secure(s, c))
      BY <1>1, <1>4, <2>1, <2>2 DEF ArmedInv, StepAgrees
    <3> QED
      BY <1>3, <1>7, <3>1
  <2>3. CASE Step(s, c) = Arm
    BY <1>3, <1>4, <1>7, <2>3 DEF StepAgrees
  <2> QED
    BY <2>1, <2>2, <2>3
<1> QED
  BY <1>2, <1>8, <1>9, <1>10

LEMMA PaceStep ==
    ASSUME PaceInv, NEW s \in Side, NEW c \in Conn, Proceed(s, c)
    PROVE  Balanced(c)' /\ \A t \in Side : ArmedInv(t, c)'
<1>1. TypeOK /\ TypeOK'
  <2>1. [Next]_vars
    BY DEF Next
  <2> QED
    BY <2>1, NextInv DEF PaceInv, Inv
<1>2. /\ Peer(s) \in Side /\ Peer(s) # s
      /\ \A t \in Side : chan[t][c] \in Seq(Names \X (Password \cup {NoPassword}))
      /\ \A t \in Side : chan'[t][c] \in Seq(Names \X (Password \cup {NoPassword}))
  BY <1>1 DEF TypeOK, Peer, Side
<1>3. CASE SetDeadline(s, c)
  <2>1. /\ Running(s, c) /\ Advance(s, c) /\ Step(s, c) \in {Arm, Disarm}
        /\ armed' = [armed EXCEPT ![s][c] = Step(s, c) = Arm]
        /\ UNCHANGED <<spw, cpw, chan>>
    BY <1>3 DEF SetDeadline, SideOnly
  <2>2. Step(s, c)[1] = "deadline"
    BY <2>1 DEF Arm, Disarm
  <2>3. \A t \in Side : armed'[t][c] => armed[t][c] \/ (t = s /\ Step(s, c) = Arm)
    BY <1>1, <2>1 DEF TypeOK
  <2>4. Step(s, c) = Disarm => ~armed'[s][c]
    <3>1. Arm # Disarm
      BY DEF Arm, Disarm
    <3> QED
      BY <1>1, <2>1, <3>1 DEF TypeOK
  <2>5. /\ Len(chan'[Peer(s)][c]) = Len(chan[Peer(s)][c]) + 0
        /\ Len(chan'[s][c]) = Len(chan[s][c]) - 0
    BY <1>2, <2>1
  <2> QED
    BY <1>2, <2>1, <2>2, <2>3, <2>4, <2>5, PaceAdvance
<1>4. CASE Write(s, c)
  <2>1. /\ Running(s, c) /\ Advance(s, c) /\ Step(s, c)[1] = "send"
        /\ UNCHANGED <<spw, cpw, armed>>
        /\ ~closed(Peer(s), c) =>
             chan' = [chan EXCEPT ![Peer(s)][c] = Append(@, Message(s, c, Step(s, c)[2]))]
    BY <1>4 DEF Write, SideOnly
  <2>2. Step(s, c) # Disarm
    BY <2>1 DEF Disarm
  <2>3. ASSUME ~closed(Peer(s), c)
        PROVE  /\ Len(chan'[Peer(s)][c]) = Len(chan[Peer(s)][c]) + 1
               /\ Len(chan'[s][c]) = Len(chan[s][c]) - 0
    <3>1. /\ chan'[Peer(s)][c] = Append(chan[Peer(s)][c], Message(s, c, Step(s, c)[2]))
          /\ chan'[s][c] = chan[s][c]
      BY <1>1, <1>2, <2>1, <2>3 DEF TypeOK
    <3>2. Message(s, c, Step(s, c)[2]) \in Names \X (Password \cup {NoPassword})
      BY <1>1, <2>1, StepFacts DEF TypeOK, Message, PasswordOf
    <3> QED
      BY <1>2, <3>1, <3>2
  <2> QED
    BY <1>2, <2>1, <2>2, <2>3, PaceAdvance
<1>5. CASE Read(s, c)
  <2>1. /\ Running(s, c) /\ Advance(s, c) /\ Step(s, c)[1] = "recv"
        /\ chan[s][c] # <<>> /\ chan' = [chan EXCEPT ![s][c] = Tail(@)]
        /\ UNCHANGED <<spw, cpw, armed>>
    BY <1>5 DEF Read, Reading, SideOnly
  <2>2. Step(s, c) # Disarm
    BY <2>1 DEF Disarm
  <2>3. /\ Len(chan'[Peer(s)][c]) = Len(chan[Peer(s)][c]) + 0
        /\ Len(chan'[s][c]) = Len(chan[s][c]) - 1
    <3>1. chan'[s][c] = Tail(chan[s][c]) /\ chan'[Peer(s)][c] = chan[Peer(s)][c]
      BY <1>1, <1>2, <2>1 DEF TypeOK
    <3>2. Len(chan[Peer(s)][c]) \in Nat /\ Len(chan[s][c]) \in Nat /\ chan[s][c] # <<>>
      BY <1>2, <2>1
    <3>3. Len(Tail(chan[s][c])) = Len(chan[s][c]) - 1
      BY <1>2, <3>2
    <3> QED
      BY <3>1, <3>2, <3>3
  <2> QED
    BY <1>2, <2>1, <2>2, <2>3, PaceAdvance
<1>6. CASE WriteFails(s, c) \/ ReadFails(s, c)
  BY <1>6, PaceClose DEF WriteFails, ReadFails
<1> QED
  BY <1>3, <1>4, <1>5, <1>6 DEF Proceed

LEMMA PaceNext == ASSUME PaceInv, [Next]_vars PROVE PaceInv'
<1>1. Inv'
  BY NextInv DEF PaceInv
<1>2. ASSUME NEW c \in Conn PROVE Balanced(c)' /\ \A t \in Side : ArmedInv(t, c)'
  <2>1. CASE UNCHANGED <<spw, cpw, at, armed, chan>>
    BY <2>1, PaceKept
  <2>2. ASSUME NEW s \in Side, Proceed(s, c) \/ Close(s, c)
        PROVE  Balanced(c)' /\ \A t \in Side : ArmedInv(t, c)'
    BY <2>2, PaceStep, PaceClose
  <2>3. ASSUME NEW s \in Side, NEW d \in Conn, d # c, Proceed(s, d) \/ Close(s, d)
        PROVE  Balanced(c)' /\ \A t \in Side : ArmedInv(t, c)'
    <3>1. Peer(s) \in Side /\ TypeOK
      BY DEF Peer, Side, PaceInv, Inv
    <3>2. /\ UNCHANGED <<spw, cpw>>
          /\ \E i \in Nat : at' = [at EXCEPT ![s][d] = i]
          /\ armed' = armed \/ \E b \in BOOLEAN : armed' = [armed EXCEPT ![s][d] = b]
          /\ chan' = chan \/ \E t \in Side : \E q : chan' = [chan EXCEPT ![t][d] = q]
      <4>1. CASE Close(s, d)
        BY <4>1 DEF Close, SideOnly
      <4>2. at[s][d] + 1 \in Nat
        BY <3>1 DEF TypeOK
      <4>3. CASE SetDeadline(s, d)
        BY <4>2, <4>3 DEF SetDeadline, Advance, SideOnly
      <4>4. CASE Write(s, d)
        BY <3>1, <4>2, <4>4 DEF Write, Advance, SideOnly
      <4>5. CASE Read(s, d)
        BY <4>2, <4>5 DEF Read, Advance, SideOnly
      <4> QED
        BY <2>3, <4>1, <4>3, <4>4, <4>5 DEF Proceed, WriteFails, ReadFails
    <3>3. \A t \in Side : /\ at'[t][c] = at[t][c] /\ chan'[t][c] = chan[t][c]
                          /\ armed'[t][c] = armed[t][c]
      <4>1. \A t \in Side : at'[t][c] = at[t][c]
        BY <2>3, <3>1, <3>2 DEF TypeOK
      <4>2. \A t \in Side : chan'[t][c] = chan[t][c]
        <5>1. ASSUME NEW u \in Side, NEW q, chan' = [chan EXCEPT ![u][d] = q]
              PROVE  \A t \in Side : chan'[t][c] = chan[t][c]
          BY <2>3, <3>1, <5>1 DEF TypeOK
        <5> QED
          BY <3>2, <5>1
      <4>3. \A t \in Side : armed'[t][c] = armed[t][c]
        <5>1. ASSUME NEW b \in BOOLEAN, armed' = [armed EXCEPT ![s][d] = b]
              PROVE  \A t \in Side : armed'[t][c] = armed[t][c]
          BY <2>3, <3>1, <5>1 DEF TypeOK
        <5> QED
          BY <3>2, <5>1
      <4> QED
        BY <4>1, <4>2, <4>3
    <3> QED
      BY <3>2, <3>3, PaceKept
  <2>4. \/ UNCHANGED <<spw, cpw, at, armed, chan>>
        \/ \E s \in Side, d \in Conn : Proceed(s, d) \/ Close(s, d)
    <3>1. CASE UNCHANGED vars
      BY <3>1 DEF vars
    <3>2. CASE Listen \/ \E d \in Conn : Dial(d) \/ Hang(d)
      BY <3>2 DEF Listen, AcceptFails, Wake, Accept, Acquire, Dial, Hang, ListenerOnly
    <3>3. CASE \E d \in Conn : End(d) \/ Leave(d)
      BY <3>3 DEF End, Leave, Side
    <3>4. CASE \E s \in Side, d \in Conn : Proceed(s, d) \/ Timeout(s, d)
      BY <3>4 DEF Timeout
    <3> QED
      BY <3>1, <3>2, <3>3, <3>4 DEF Next
  <2> QED
    BY <2>1, <2>2, <2>3, <2>4
<1> QED
  BY <1>1, <1>2 DEF PaceInv

LEMMA PaceInit == Init => PaceInv
<1> SUFFICES ASSUME Init PROVE PaceInv
  OBVIOUS
<1>1. Inv
  BY InitInv
<1>2. \A s \in Side, c \in Conn : at[s][c] = 1 /\ ~armed[s][c] /\ chan[s][c] = <<>>
  BY DEF Init
<1>3. \A s \in Side, secure \in BOOLEAN : Sent(s, secure, 1) = 0 /\ Received(s, secure, 1) = 0
  BY DEF Sent, Received, After
<1>4. \A s \in Side, c \in Conn : Secure(s, c) \in BOOLEAN /\ Peer(s) \in Side
  BY DEF Secure, Peer, Side
<1>5. ASSUME NEW c \in Conn PROVE Balanced(c)
  <2>1. ASSUME NEW s \in Side
        PROVE  Len(chan[s][c]) = Sent(Peer(s), Secure(Peer(s), c), at[Peer(s)][c])
                                 - Received(s, Secure(s, c), at[s][c])
    <3>1. Peer(s) \in Side /\ at[s][c] = 1 /\ at[Peer(s)][c] = 1 /\ Len(chan[s][c]) = 0
      BY <1>2, <1>4
    <3>2. /\ Sent(Peer(s), Secure(Peer(s), c), 1) = 0
          /\ Received(s, Secure(s, c), 1) = 0
      BY <1>3, <1>4
    <3> QED
      BY <3>1, <3>2
  <2> QED
    BY <2>1 DEF Balanced
<1> QED
  BY <1>1, <1>2, <1>5 DEF PaceInv, ArmedInv

\* The deadline of the handshake (setDeadline in server.go and dial.go) has
\* been cleared when the session begins.
THEOREM NoDeadlineLeft == Spec => []NoDeadlineInSession
<1>1. PaceInv => NoDeadlineInSession
  <2> SUFFICES ASSUME PaceInv, NEW s \in Side, NEW c \in Conn, Established(s, c), armed[s][c]
               PROVE  FALSE
    BY DEF NoDeadlineInSession
  <2>1. /\ at[s][c] \in Nat /\ at[s][c] > Len(Script(s, c))
        /\ at[s][c] <= LastDisarm(s, Secure(s, c))
    BY DEF PaceInv, Inv, TypeOK, ArmedInv, Established, Done
  <2>2. Len(Script(s, c)) \in Nat /\ LastDisarm(s, Secure(s, c)) <= Len(Script(s, c))
    <3>1. Len(Script(s, c)) = IF s = "server" THEN (IF Secure(s, c) THEN 11 ELSE 5)
                              ELSE (IF Secure(s, c) THEN 13 ELSE 5)
      BY ScriptLen
    <3>2. CASE s = "server"
      BY <3>1, <3>2 DEF LastDisarm
    <3>3. CASE s # "server"
      BY <3>1, <3>3 DEF LastDisarm
    <3> QED
      BY <3>2, <3>3
  <2>3. LastDisarm(s, Secure(s, c)) \in Nat
    BY DEF LastDisarm
  <2> QED
    BY <2>1, <2>2, <2>3
<1> QED
  BY PaceInit, PaceNext, <1>1, PTL DEF Spec

\* Where a side waits for a message.
LEMMA ReadsAt ==
    /\ \A i \in 1..11 : ServerScript(TRUE)[i][1] = "recv" => i \in {3, 5, 6, 8}
    /\ \A i \in 1..5 : ServerScript(FALSE)[i][1] = "recv" => i = 3
    /\ \A i \in 1..13 : ClientScript(TRUE)[i][1] = "recv" => i \in {2, 6, 9, 11, 12}
    /\ \A i \in 1..5 : ClientScript(FALSE)[i][1] = "recv" => i \in {2, 5}
<1>1. ASSUME NEW i \in 1..11, ServerScript(TRUE)[i][1] = "recv" PROVE i \in {3, 5, 6, 8}
  <2>1. Received("server", TRUE, i + 1) = Received("server", TRUE, i) + 1
    BY <1>1, ServerSecurePace DEF StepAgrees
  <2> QED
    BY <2>1 DEF Received, After
<1>2. ASSUME NEW i \in 1..5, ServerScript(FALSE)[i][1] = "recv" PROVE i = 3
  <2>1. Received("server", FALSE, i + 1) = Received("server", FALSE, i) + 1
    BY <1>2, ServerPlainPace DEF StepAgrees
  <2> QED
    BY <2>1 DEF Received, After
<1>3. ASSUME NEW i \in 1..13, ClientScript(TRUE)[i][1] = "recv" PROVE i \in {2, 6, 9, 11, 12}
  <2>1. Received("client", TRUE, i + 1) = Received("client", TRUE, i) + 1
    BY <1>3, ClientSecurePace DEF StepAgrees
  <2> QED
    BY <2>1 DEF Received, After
<1>4. ASSUME NEW i \in 1..5, ClientScript(FALSE)[i][1] = "recv" PROVE i \in {2, 5}
  <2>1. Received("client", FALSE, i + 1) = Received("client", FALSE, i) + 1
    BY <1>4, ClientPlainPace DEF StepAgrees
  <2> QED
    BY <2>1 DEF Received, After
<1> QED
  BY <1>1, <1>2, <1>3, <1>4

\* The orders of hellos, cpace messages, tags and noise messages that the
\* two sides follow (server.go, dial.go and secure.go) fit: while both have
\* the connection open one of them can go on.
THEOREM SomebodyMoves == Spec => []NobodyWaitsForNobody
<1>1. PaceInv => NobodyWaitsForNobody
  <2> SUFFICES ASSUME PaceInv, NEW c \in Conn,
                      \A s \in Side : Reading(s, c) /\ chan[s][c] = <<>>
               PROVE  FALSE
    BY DEF NobodyWaitsForNobody
  <2> DEFINE i == at["server"][c]
             j == at["client"][c]
             secure == Secure("server", c)
  <2>1. secure \in BOOLEAN /\ Secure("client", c) = secure
    BY DEF PaceInv, Inv, ServerInv, Secure, PasswordOf
  <2>2. i \in 1..Len(Script("server", c)) /\ j \in 1..Len(Script("client", c))
    BY StepFacts DEF PaceInv, Inv, Reading, Side
  <2>3. /\ Script("server", c)[i][1] = "recv" /\ Script("client", c)[j][1] = "recv"
        /\ ~closed("server", c) /\ ~closed("client", c)
    BY DEF Reading, Running, Busy, Step, Side
  <2>4. /\ Sent("client", secure, j) - Received("server", secure, i) = 0
        /\ Sent("server", secure, i) - Received("client", secure, j) = 0
    <3>1. Len(chan["server"][c]) = 0 /\ Len(chan["client"][c]) = 0
      BY DEF Side
    <3>2. Peer("server") = "client" /\ Peer("client") = "server"
      BY DEF Peer
    <3> QED
      BY <2>1, <2>3, <3>1, <3>2 DEF PaceInv, Balanced, Side
  <2>5. CASE secure
    <3>1. i \in {3, 5, 6, 8} /\ j \in {2, 6, 9, 11, 12}
      <4>1. secure = TRUE /\ Script("server", c) = ServerScript(TRUE)
            /\ Script("client", c) = ClientScript(TRUE)
        BY <2>1, <2>5 DEF Script
      <4> QED
        BY <2>2, <2>3, <4>1, ReadsAt, Lengths
    <3> QED
      BY <2>4, <2>5, <3>1 DEF Sent, Received, After
  <2>6. CASE ~secure
    <3>1. i = 3 /\ j \in {2, 5}
      <4>1. secure = FALSE /\ Script("server", c) = ServerScript(FALSE)
            /\ Script("client", c) = ClientScript(FALSE)
        BY <2>1, <2>6 DEF Script
      <4> QED
        BY <2>2, <2>3, <4>1, ReadsAt, Lengths
    <3> QED
      BY <2>4, <2>6, <3>1 DEF Sent, Received, After
  <2> QED
    BY <2>5, <2>6
<1> QED
  BY PaceInit, PaceNext, <1>1, PTL DEF Spec
=============================================================================
