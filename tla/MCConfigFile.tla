---------------------------- MODULE MCConfigFile ----------------------------
(***************************************************************************)
(* Two users' commands that set different entries, one of them the entry   *)
(* that an automatic alias is for, and one entry that nobody changes.      *)
(***************************************************************************)
EXTENDS ConfigFile, TLC

CONSTANTS w1, w2, auto, linux, vax, old, v1, v2, v3, v0

KeyOfWriter   == w1 :> vax @@ w2 :> linux @@ auto :> linux
ValueOfWriter == w1 :> v1 @@ w2 :> v2 @@ auto :> v3
InitialMap == old :> v0 @@ linux :> NoVal @@ vax :> NoVal

KeyOfSetters   == w1 :> vax @@ w2 :> linux
ValueOfSetters == w1 :> v1 @@ w2 :> v2
Inodes == 1..4
=============================================================================
