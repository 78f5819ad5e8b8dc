------------------------------ MODULE MCTokens ------------------------------
(* A small instance of TokenRenewal: two workers whose calls share one lock. *)
EXTENDS TokenRenewal, TLC

CONSTANTS t1, t2, p1, p2
MCTasks == {t1, t2}
MCProcs == {p1, p2}
MCProcOf == (t1 :> p1) @@ (t2 :> p2)
=============================================================================
