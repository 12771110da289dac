-------------------------------- MODULE MCLab --------------------------------
(****************************************************************************)
(* Two commits, of which the second does not change what build b2 compiles, *)
(* on two gomotes of one kind; the first runs one job at a time.            *)
(****************************************************************************)
EXTENDS Lab, TLC

CONSTANTS c1, c2, b1, b2, h1, h2, m1, m2, id1, id2, id3, g1, g2

TwoCommits == <<c1, c2>>
TwoHosts   == <<h1, h2>>
HostMachine == h1 :> m1 @@ h2 :> m2
HostBuild   == h1 :> b1 @@ h2 :> b2
AllGomote   == m1 :> "gomote" @@ m2 :> "gomote"
OneAndTwo   == m1 :> 1 @@ m2 :> 2
IDs == <<c1, b1>> :> id1 @@ <<c2, b1>> :> id2 @@ <<c1, b2>> :> id3 @@ <<c2, b2>> :> id3
=============================================================================
