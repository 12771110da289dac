------------------------------- MODULE MCWire -------------------------------
(***************************************************************************)
(* Two writers, one of them with two packets: with and without JSON and    *)
(* data, and with data that takes more than one record and hex line.       *)
(***************************************************************************)
EXTENDS Wire, TLC

CONSTANTS w1, w2, a, b, c

Program == w1 :> <<a, b>> @@ w2 :> <<c>>
JSizes  == a :> 1 @@ b :> 0 @@ c :> 2
DSizes  == a :> 0 @@ b :> 3 @@ c :> 1
=============================================================================
