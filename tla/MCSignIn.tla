------------------------------ MODULE MCSignIn ------------------------------
(***************************************************************************)
(* Two sign-ins, with a state of their own each or with one, on networks   *)
(* like X (a secret and a code), YouTube (and accounts to choose from),    *)
(* Facebook (no secret) and Bluesky (a password).                          *)
(***************************************************************************)
EXTENDS SignIn, TLC

CONSTANTS s, t, p, q

Flow(secret, asks, once) == [secret |-> secret, asks |-> asks, once |-> once]
FlowsOf ==
  {Flow(TRUE, FALSE, TRUE), Flow(TRUE, TRUE, TRUE), Flow(FALSE, TRUE, TRUE),
   Flow(FALSE, FALSE, FALSE)}

\* Neither of the sign-ins, nor of the requests, is set apart from the other.
Alike == Permutations({s, t}) \cup Permutations({p, q})
=============================================================================
