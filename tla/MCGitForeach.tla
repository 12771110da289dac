---------------------------- MODULE MCGitForeach ----------------------------
(* Two revisions, up to two signals and one failure. *)
EXTENDS GitForeach

CONSTANTS r1, r2

TwoRevs == <<r1, r2>>
=============================================================================
