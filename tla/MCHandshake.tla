---------------------------- MODULE MCHandshake ----------------------------
(***************************************************************************)
(* Two clients and a single session slot, so that one of them may wait in  *)
(* the accept loop; two passwords, so that a client may have the wrong     *)
(* one; or a transport that is secure without a password.                  *)
(***************************************************************************)
EXTENDS Handshake, TLC

CONSTANTS c1, c2, p, q

Configurations ==
    {<<p, c1 :> q @@ c2 :> p>>, <<NoPassword, [c \in Conn |-> NoPassword]>>}
=============================================================================
