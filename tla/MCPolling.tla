----------------------------- MODULE MCPolling ------------------------------
(* Five updates, two of them at the same moment, the last one broken.        *)
EXTENDS Polling, TLC
CONSTANTS u1, u2, u3, u4, u5
MCCreatedAt == (u1 :> 1) @@ (u2 :> 2) @@ (u3 :> 2) @@ (u4 :> 3) @@ (u5 :> 4)
=============================================================================
