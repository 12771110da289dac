-------------------------------- MODULE Wire --------------------------------
(***************************************************************************)
(* One direction of a mote connection once it is set up: the goroutines    *)
(* that write packets (mote/packet.go), one of the three streams below     *)
(* them (the connection as it is, secureStream of mote/secure.go, hexConn  *)
(* of mote/hex.go), the network, and the goroutine that reads packets.     *)
(*                                                                         *)
(* A byte is the packet it belongs to and its place in it.  The network    *)
(* carries symbols: bytes; records, each with its nonce and plaintext; or  *)
(* hex digits and newlines.  It delivers them in order, in any portions,   *)
(* until it breaks.                                                        *)
(***************************************************************************)
EXTENDS Integers, Sequences, SequencesExt

CONSTANTS
    Writer, NoWriter, Packet, NoPacket,
    ToSend,         \* ToSend[w]: the packets that writer w writes
    JSize, DSize,   \* JSize[p], DSize[p]: bytes of JSON and data in packet p
    Layer,          \* streams to choose from
    MaxPlaintext,   \* maxNoisePlaintext
    HexLine         \* hexLineBytes

HeaderSize == 2     \* a byte of this model for each of the two lengths

ASSUME Assumptions ==
    /\ NoWriter \notin Writer /\ NoPacket \notin Packet
    /\ ToSend \in [Writer -> Seq(Packet)]
    /\ JSize \in [Packet -> Nat] /\ DSize \in [Packet -> Nat]
    /\ Layer \subseteq {"plain", "secure", "hex"}
    /\ MaxPlaintext \in Nat \ {0} /\ HexLine \in Nat \ {0}

VARIABLES
    layer,      \* the stream that the connection uses
    \* the writing side
    unsent,     \* unsent[w]: packets that writer w has still to write
    out,        \* out[w]: slices of its packet it has still to write
    wmu,        \* who holds the lock of the Conn
    enonce,     \* nonce of the next record
    \* the network
    net, cut,
    \* the reading side
    dnonce,
    rbuf,       \* plaintext of the last record not yet asked for
    hi,         \* the first digit of a pair, or nothing
    acc,        \* bytes of the packet it is reading
    failed,     \* the reader has returned an error
    \* history
    sent, got   \* packets written, in the order of the lock, and read

writeVars == <<unsent, out, wmu, enonce, sent>>
readVars  == <<dnonce, rbuf, hi, acc, failed, got>>
wireVars == <<layer, writeVars, net, cut, readVars>>

-----------------------------------------------------------------------------
(* The layout of a packet, and the encodings.                              *)

Bytes(p) == [i \in 1..HeaderSize + JSize[p] + DSize[p] |-> <<p, i>>]

\* The Write calls of writePacket: header, JSON and data, skipping what is
\* empty.
Slices(p) ==
    LET j == HeaderSize + JSize[p]
        If(s) == IF s = <<>> THEN <<>> ELSE <<s>>
    IN  <<SubSeq(Bytes(p), 1, HeaderSize)>> \o If(SubSeq(Bytes(p), HeaderSize + 1, j))
          \o If(SubSeq(Bytes(p), j + 1, j + DSize[p]))

\* The two digits of byte b, and a newline.
Digits(b) == <<<<b[1], b[2], "hi">>, <<b[1], b[2], "lo">>>>
Newline == <<NoPacket, 0, "nl">>

\* What is left of s without the newlines.
DigitsIn(s) == FlattenSeq([i \in 1..Len(s) |-> IF s[i] = Newline THEN <<>> ELSE <<s[i]>>])

HexEncode(s) ==
    FlattenSeq([i \in 1..Len(s) |->
        Digits(s[i]) \o (IF i % HexLine = 0 \/ i = Len(s) THEN <<Newline>> ELSE <<>>)])

\* The byte that two digits stand for; some other byte if they are not a pair.
Byte(d, e) ==
    IF d[1] = e[1] /\ d[2] = e[2] /\ d[3] = "hi" /\ e[3] = "lo"
    THEN <<d[1], d[2]>> ELSE <<NoPacket, 0>>

HexDecode(digits) ==
    [i \in 1..Len(digits) \div 2 |-> Byte(digits[2 * i - 1], digits[2 * i])]

-----------------------------------------------------------------------------
WireTypeOK ==
    /\ layer \in Layer /\ wmu \in Writer \cup {NoWriter}
    /\ unsent \in [Writer -> Seq(Packet)]
    /\ \A w \in Writer : out[w] # <<>> => unsent[w] # ToSend[w]
    /\ enonce \in Nat /\ dnonce \in Nat /\ dnonce <= enonce
    /\ layer = "secure" => \A i \in 1..Len(net) : Len(net[i][2]) \in 1..MaxPlaintext
    /\ cut \in BOOLEAN /\ failed \in BOOLEAN
    /\ Len(hi) <= 1 /\ Len(rbuf) <= MaxPlaintext
    /\ sent \in Seq(Packet) /\ got \in Seq(Packet)

WireInit ==
    /\ layer \in Layer
    /\ unsent = ToSend /\ out = [w \in Writer |-> <<>>]
    /\ wmu = NoWriter /\ enonce = 0
    /\ net = <<>> /\ cut = FALSE
    /\ dnonce = 0 /\ rbuf = <<>> /\ hi = <<>> /\ acc = <<>> /\ failed = FALSE
    /\ sent = <<>> /\ got = <<>>

-----------------------------------------------------------------------------
(* writePacket.                                                            *)

\* Mutant of Lock: the lock is not waited for.
LockUnguarded(w) ==
    /\ out[w] = <<>> /\ unsent[w] # <<>>
    /\ wmu' = w
    /\ out' = [out EXCEPT ![w] = Slices(Head(unsent[w]))]
    /\ unsent' = [unsent EXCEPT ![w] = Tail(@)]
    /\ sent' = Append(sent, Head(unsent[w]))
    /\ UNCHANGED <<layer, enonce, net, cut, readVars>>

Lock(w) ==
    /\ wmu = NoWriter /\ out[w] = <<>> /\ unsent[w] # <<>>
    /\ wmu' = w
    /\ out' = [out EXCEPT ![w] = Slices(Head(unsent[w]))]
    /\ unsent' = [unsent EXCEPT ![w] = Tail(@)]
    /\ sent' = Append(sent, Head(unsent[w]))
    /\ UNCHANGED <<layer, enonce, net, cut, readVars>>

WriteOnly == UNCHANGED <<layer, unsent, wmu, sent, cut, readVars>>

\* A Write of the connection itself, or of hexWriter: a slice at once.  Packets are
\* ones that writePacket takes: a header within maxJSON, lengths that fit in 32 bits,
\* and a stream as long as it was said to be.
WriteSlice(w) ==
    /\ out[w] # <<>> /\ ~cut /\ layer # "secure"
    /\ net' = net \o (IF layer = "hex" THEN HexEncode(Head(out[w])) ELSE Head(out[w]))
    /\ out' = [out EXCEPT ![w] = Tail(@)]
    /\ UNCHANGED enonce /\ WriteOnly

\* Mutant of WriteRecord: the whole slice goes into one record.
WriteLongRecord(w) ==
    /\ out[w] # <<>> /\ ~cut /\ layer = "secure"
    /\ net' = Append(net, <<enonce, Head(out[w])>>)
    /\ enonce' = enonce + 1
    /\ out' = [out EXCEPT ![w] = Tail(@)]
    /\ WriteOnly

\* A turn of the loop in secureStream.Write.
WriteRecord(w) ==
    /\ out[w] # <<>> /\ ~cut /\ layer = "secure"
    /\ LET s == Head(out[w])
           n == IF Len(s) > MaxPlaintext THEN MaxPlaintext ELSE Len(s)
           rest == SubSeq(s, n + 1, Len(s))
       IN  /\ net' = Append(net, <<enonce, SubSeq(s, 1, n)>>)
           /\ enonce' = enonce + 1
           /\ out' = [out EXCEPT ![w] = IF rest = <<>> THEN Tail(@) ELSE <<rest>> \o Tail(@)]
    /\ WriteOnly

Unlock(w) ==
    /\ wmu = w /\ out[w] = <<>> /\ wmu' = NoWriter
    /\ UNCHANGED <<layer, unsent, out, enonce, sent, net, cut, readVars>>

\* A write error is returned to a caller that writes no more.
WriteFails(w) ==
    /\ out[w] # <<>> /\ cut
    /\ out' = [out EXCEPT ![w] = <<>>] /\ unsent' = [unsent EXCEPT ![w] = <<>>]
    /\ UNCHANGED <<layer, wmu, enonce, sent, net, cut, readVars>>

\* The connection breaks: the end of what is on its way does not arrive.
Break ==
    /\ ~cut /\ cut' = TRUE
    /\ \E n \in 0..Len(net) : net' = SubSeq(net, 1, n)
    /\ UNCHANGED <<layer, writeVars, readVars>>

-----------------------------------------------------------------------------
(* readPacketStream, and the reader of the body.                           *)

\* The lengths that the reader finds in the header.
Header(i, size) == IF acc[i][2] = i THEN size[acc[i][1]] ELSE 0
JEnd == HeaderSize + Header(1, JSize)
DEnd == JEnd + Header(2, DSize)

\* The bytes that the io.ReadFull it is in still asks for.
Want ==
    IF Len(acc) < HeaderSize THEN HeaderSize - Len(acc)
    ELSE IF Len(acc) < JEnd THEN JEnd - Len(acc) ELSE DEnd - Len(acc)
Complete == Len(acc) >= HeaderSize /\ Want = 0

ReadOnly == UNCHANGED <<layer, writeVars, cut, failed, got>>
Reading(l) == layer = l /\ ~failed /\ ~Complete

\* The network hands over one or more symbols, at most n.
Portions(n) == 1..(IF Len(net) < n THEN Len(net) ELSE n)
Take(n) == net' = SubSeq(net, n + 1, Len(net))

ReadPlain ==
    /\ Reading("plain")
    /\ \E n \in Portions(Want) : acc' = acc \o SubSeq(net, 1, n) /\ Take(n)
    /\ UNCHANGED <<dnonce, rbuf, hi>> /\ ReadOnly

\* Mutant of ReadHex: half a byte at the end of a portion is forgotten.
ReadHexForgets ==
    /\ Reading("hex")
    /\ \E n \in Portions(2 * Want) :
        LET digits == hi \o DigitsIn(SubSeq(net, 1, n))
        IN  /\ acc' = acc \o HexDecode(digits)
            /\ hi' = <<>>
            /\ Take(n)
    /\ UNCHANGED <<dnonce, rbuf>> /\ ReadOnly

\* hexReader.Read: two digits for every byte asked for, at most.
ReadHex ==
    /\ Reading("hex")
    /\ \E n \in Portions(2 * Want) :
        LET digits == hi \o DigitsIn(SubSeq(net, 1, n))
        IN  /\ acc' = acc \o HexDecode(digits)
            /\ hi' = IF Len(digits) % 2 = 1 THEN <<Last(digits)>> ELSE <<>>
            /\ Take(n)
    /\ UNCHANGED <<dnonce, rbuf>> /\ ReadOnly

\* secureStream.Read, with nothing left of the last record: a record that
\* is not the next one does not decrypt.
ReadRecord ==
    /\ Reading("secure") /\ rbuf = <<>> /\ net # <<>>
    /\ LET record == Head(net)
       IN  IF record[1] = dnonce
             THEN rbuf' = record[2] /\ dnonce' = dnonce + 1 /\ UNCHANGED failed
             ELSE failed' = TRUE /\ UNCHANGED <<rbuf, dnonce>>
    /\ Take(1)
    /\ UNCHANGED <<layer, writeVars, cut, hi, acc, got>>

\* How much a Read asks for: the rest of the header or of the JSON; of the
\* data, which its reader may take in pieces, any part.
Asks == IF Len(acc) >= HeaderSize /\ Len(acc) >= JEnd THEN 1..Want ELSE {Want}

\* Mutant of CopyRecord: what was not asked for is forgotten.
CopyRecordForgets ==
    /\ Reading("secure") /\ rbuf # <<>>
    /\ \E ask \in Asks :
        LET n == IF Len(rbuf) < ask THEN Len(rbuf) ELSE ask
        IN  acc' = acc \o SubSeq(rbuf, 1, n) /\ rbuf' = <<>>
    /\ UNCHANGED <<dnonce, hi, net>> /\ ReadOnly

\* The end of secureStream.Read: what fits, and the rest is kept.
CopyRecord ==
    /\ Reading("secure") /\ rbuf # <<>>
    /\ \E ask \in Asks :
        LET n == IF Len(rbuf) < ask THEN Len(rbuf) ELSE ask
        IN  acc' = acc \o SubSeq(rbuf, 1, n) /\ rbuf' = SubSeq(rbuf, n + 1, Len(rbuf))
    /\ UNCHANGED <<dnonce, hi, net>> /\ ReadOnly

\* The packet is complete.
Deliver ==
    /\ ~failed /\ Complete
    /\ got' = Append(got, IF acc = Bytes(acc[1][1]) THEN acc[1][1] ELSE NoPacket)
    /\ acc' = <<>>
    /\ UNCHANGED <<layer, writeVars, net, cut, dnonce, rbuf, hi, failed>>

ReadFails ==
    /\ cut /\ net = <<>> /\ rbuf = <<>> /\ ~failed /\ ~Complete
    /\ failed' = TRUE
    /\ UNCHANGED <<layer, writeVars, net, cut, dnonce, rbuf, hi, acc, got>>

-----------------------------------------------------------------------------
Write(w) ==
    \/ Lock(w) \/ WriteSlice(w) \/ WriteRecord(w) \/ Unlock(w) \/ WriteFails(w)
Read ==
    \/ ReadPlain \/ ReadHex \/ ReadRecord \/ CopyRecord \/ Deliver \/ ReadFails

WireNext == Break \/ Read \/ \E w \in Writer : Write(w)

WireSpec == WireInit /\ [][WireNext]_wireVars

\* The goroutines run; connections break or not.
FairWireSpec == WireSpec /\ WF_wireVars(Read) /\ \A w \in Writer : WF_wireVars(Write(w))

-----------------------------------------------------------------------------
(* Properties.                                                             *)

\* Writers that share a connection do not mix their packets, whatever
\* portions they are written and read in and whichever stream carries them:
\* the connection implements a queue of packets.
Queue == INSTANCE PacketQueue
ImplementsPacketQueue == Queue!Spec

\* The bytes between the two sides, in the reader's packet, its stream's
\* buffers, on the network and in the writer's hands, are those of the
\* packets not yet received, each once and in order.
Decoded ==
    IF layer = "hex" THEN HexDecode(hi \o DigitsIn(net))
    ELSE IF layer = "secure" THEN rbuf \o FlattenSeq([i \in 1..Len(net) |-> net[i][2]])
    ELSE net
Unwritten == IF wmu = NoWriter THEN <<>> ELSE FlattenSeq(out[wmu])
Pending == FlattenSeq([i \in 1..Len(sent) - Len(got) |-> Bytes(sent[Len(got) + i])])
EveryByteOnce ==
    /\ IsPrefix(acc \o Decoded, Pending)
    /\ ~cut => acc \o Decoded \o Unwritten = Pending

\* Everything that is written arrives, unless the connection breaks.
EverythingArrives == <>(cut \/ (got = sent /\ \A w \in Writer : unsent[w] = <<>>))

\* The buffers keep their bounds, and every byte written is exactly once and in
\* order in one of them or in what the reader has got.
StreamIsExact == WireTypeOK /\ EveryByteOnce
=============================================================================
