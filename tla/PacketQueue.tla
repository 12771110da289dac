---------------------------- MODULE PacketQueue ----------------------------
(***************************************************************************)
(* What a mote connection promises in one direction: each of the           *)
(* goroutines that write to it has packets to send, their packets arrive   *)
(* whole and in the order in which they were taken on, and when the        *)
(* connection breaks the rest does not arrive.                             *)
(***************************************************************************)
EXTENDS Naturals, Sequences

CONSTANTS Writer, ToSend

VARIABLES
    unsent,       \* unsent[w]: packets that writer w has still to write
    sent,       \* packets taken on so far
    got         \* packets received so far

Init == unsent = ToSend /\ sent = <<>> /\ got = <<>>

Send(w) ==
    /\ unsent[w] # <<>>
    /\ unsent' = [unsent EXCEPT ![w] = Tail(@)]
    /\ sent' = Append(sent, Head(unsent[w]))
    /\ UNCHANGED got

GiveUp(w) == unsent' = [unsent EXCEPT ![w] = <<>>] /\ UNCHANGED <<sent, got>>

Receive ==
    /\ Len(got) < Len(sent)
    /\ got' = Append(got, sent[Len(got) + 1])
    /\ UNCHANGED <<unsent, sent>>

Next == Receive \/ \E w \in Writer : Send(w) \/ GiveUp(w)

Spec == Init /\ [][Next]_<<unsent, sent, got>>
=============================================================================
