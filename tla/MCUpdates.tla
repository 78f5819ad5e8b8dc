----------------------------- MODULE MCUpdates ------------------------------
(* Six notifications, or comments on two posts, two of them in the same tick *)
(* and two in another.                                                       *)
EXTENDS UpdatesAfter
MCWhen == <<1, 2, 2, 3, 4, 4>>
EveryTimeThere == [n \in Networks |-> {}]
OneMissing == [n \in Networks |-> IF n = "bluesky" THEN {} ELSE {4}]
OneOrTwoToAPage == [n \in Networks |-> IF n = "facebook" THEN 1 ELSE 2]
SixToAPage == [n \in Networks |-> 6]
TwoToAPage == [n \in Networks |-> 2]
TwoPages == [n \in Networks |-> 2]
OnTwoPosts == <<2, 1, 2, 1, 1, 2>>
=============================================================================
