--------------------------- MODULE AccountCustody ---------------------------
(***************************************************************************)
(* What the token manager promises about ONE connected account, in the     *)
(* words of tokens.py: the newest pair of tokens is always either saved or *)
(* in the hands of a single renewal that saves it next; it is never traded *)
(* in again before that; and once a fault has separated the two, only a    *)
(* new sign-in brings the account back.                                    *)
(***************************************************************************)
EXTENDS Naturals

CONSTANT Pairs   \* the numbers of the token pairs (positive), larger is newer

VARIABLES
  saved,  \* the pair in storage, 0 when the app keeps none
  hand,   \* a newer pair some renewal has yet to save, or 0
  lost    \* a fault has hit; saved and hand say nothing while it is TRUE

vars == <<saved, hand, lost>>

Init == saved \in Pairs /\ hand = 0 /\ lost = FALSE

\* The network takes the saved pair back and hands out a newer one.
Trade ==
  /\ ~lost /\ hand = 0 /\ saved # 0
  /\ hand' \in {n \in Pairs : n > saved}
  /\ UNCHANGED <<saved, lost>>

Deposit ==
  /\ ~lost /\ hand # 0
  /\ saved' = hand
  /\ hand' = 0
  /\ UNCHANGED lost

\* The app deletes the connection between renewals.
Forget ==
  /\ ~lost /\ hand = 0
  /\ saved' = 0
  /\ UNCHANGED <<hand, lost>>

Lose == lost' = TRUE /\ saved' = 0 /\ hand' = 0

\* The person signs in again, on a pair newer than any saved before.
SignIn ==
  /\ hand = 0
  /\ saved' \in {n \in Pairs : n > saved}
  /\ lost' = FALSE
  /\ UNCHANGED hand

Next == Trade \/ Deposit \/ Forget \/ Lose \/ SignIn

SafeSpec == Init /\ [][Next]_vars

\* A pair in hand does not stay there.
Spec == SafeSpec /\ WF_vars(Deposit)
=============================================================================
