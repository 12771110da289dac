----------------------------- MODULE RemoteRun -----------------------------
(***************************************************************************)
(* What "mote cmd" promises its user: the command runs at most once, what  *)
(* it prints arrives in full before its status does, and the status that   *)
(* arrives is the one it ended with.  It may also fail at any moment, with *)
(* the command not run, running or over.                                   *)
(***************************************************************************)
EXTENDS Naturals

CONSTANT Stream

VARIABLES
    state,      \* of the command: "idle", "running", "exited" or "killed"
    made,       \* made[s]: chunks the command has written to stream s
    got,        \* got[s]: chunks of stream s the user has seen
    result      \* "none" so far, "failed", or the status of the command

runVars == <<state, made, got, result>>

Init ==
    /\ state = "idle" /\ result = "none"
    /\ made = [s \in Stream |-> 0] /\ got = [s \in Stream |-> 0]

Begin == state = "idle" /\ state' = "running" /\ UNCHANGED <<made, got, result>>

\* Processes the command has started may go on printing when it has ended.
Make(s) ==
    /\ state # "idle" /\ result \in {"none", "failed"}
    /\ made' = [made EXCEPT ![s] = @ + 1]
    /\ UNCHANGED <<state, got, result>>

End(status) ==
    /\ state = "running" /\ state' = status
    /\ UNCHANGED <<made, got, result>>

Show(s) ==
    /\ result = "none" /\ got[s] < made[s]
    /\ got' = [got EXCEPT ![s] = @ + 1]
    /\ UNCHANGED <<state, made, result>>

Return ==
    /\ result = "none" /\ got = made
    /\ state \in {"exited", "killed"} /\ result' = state
    /\ UNCHANGED <<state, made, got>>

Fail == result = "none" /\ result' = "failed" /\ UNCHANGED <<state, made, got>>

Next ==
    \/ Begin \/ Return \/ Fail
    \/ \E s \in Stream : Make(s) \/ Show(s)
    \/ \E status \in {"exited", "killed"} : End(status)

Spec == Init /\ [][Next]_runVars
=============================================================================
