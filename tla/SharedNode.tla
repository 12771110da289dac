----------------------------- MODULE SharedNode -----------------------------
(***************************************************************************)
(* What the Tailscale daemon promises, whatever it is made of: one process *)
(* at a time owns the Tailscale node of a directory, commands are served   *)
(* by its owner only, and the owner takes the node down when it serves     *)
(* nobody, unless it dies.                                                 *)
(***************************************************************************)
CONSTANTS Client, Proc, NoProc

VARIABLES
    owner,      \* the process that has the node up, or NoProc
    served      \* the commands it is serving

nodeVars == <<owner, served>>

Init == owner = NoProc /\ served = {}

Acquire(p) == owner = NoProc /\ owner' = p /\ UNCHANGED served

Admit(c) == owner # NoProc /\ served' = served \cup {c} /\ UNCHANGED owner

Dismiss(c) == served' = served \ {c} /\ UNCHANGED owner

Release == owner # NoProc /\ served = {} /\ owner' = NoProc /\ UNCHANGED served

Die == owner # NoProc /\ owner' = NoProc /\ served' = {}

Next ==
    \/ \E p \in Proc : Acquire(p)
    \/ \E c \in Client : Admit(c) \/ Dismiss(c)
    \/ Release
    \/ Die

Spec == Init /\ [][Next]_nodeVars
=============================================================================
