------------------------------ MODULE MCGomote ------------------------------
(* Two commands for one builder, of which one ends at its build, and a mote *)
(* close; an instance of another group, and perhaps one of ours that was    *)
(* left from another builder.                                               *)
EXTENDS Gomote, TLC

CONSTANTS a, b, i1, i2, i3, i4, linux, plan9, s1, t1

AllWays == {Ways}
OneBuilder == a :> linux @@ b :> linux
InstBuilder == i1 :> linux @@ i2 :> linux @@ i3 :> linux @@ i4 :> plan9
=============================================================================
