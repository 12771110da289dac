----------------------------- MODULE AtomicMap -----------------------------
(***************************************************************************)
(* What a configuration file of mote stands for: a map that a command      *)
(* changes in one entry and in one step, or leaves as it is.  That much is *)
(* promised to commands that do not overlap; once two have, the map may be *)
(* anything.                                                               *)
(***************************************************************************)
CONSTANTS Writer, KeyOf, ValueOf, Map, Initial

VARIABLES map, overlapped

Init == map = Initial /\ overlapped = FALSE

Set(w) ==
    /\ map' = [map EXCEPT ![KeyOf[w]] = ValueOf[w]]
    /\ UNCHANGED overlapped

Overlap == overlapped' = TRUE /\ UNCHANGED map
Disturb == overlapped /\ map' \in Map /\ UNCHANGED overlapped

Next == Overlap \/ Disturb \/ \E w \in Writer : Set(w)

Spec == Init /\ [][Next]_<<map, overlapped>>
=============================================================================
