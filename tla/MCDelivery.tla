----------------------------- MODULE MCDelivery -----------------------------
(* Two messages that share an update (Meta repeats changes), one of them     *)
(* blocked by an update whose handler always fails.                          *)
EXTENDS Delivery, TLC

CONSTANTS m1, m2, u1, u2, u3, w1, w2, p1

MCCarries == (m1 :> <<u1, u2>>) @@ (m2 :> <<u1, u3>>)
MCHandlerCount == (u1 :> 2) @@ (u2 :> 1) @@ (u3 :> 1)
OwnIds == (u1 :> "a") @@ (u2 :> "b") @@ (u3 :> "c")
OneProcess == (w1 :> p1) @@ (w2 :> p1)
=============================================================================
