------------------------------ MODULE MCCache ------------------------------
(***************************************************************************)
(* Two sessions and two files: both sessions want the first file, one of   *)
(* them the second one too, so that uploads meet and one session cleans    *)
(* while the other looks up, saves or copies.                              *)
(***************************************************************************)
EXTENDS Cache, TLC

CONSTANTS s1, s2, a, b

Wanted == s1 :> {a, b} @@ s2 :> {a}
=============================================================================
