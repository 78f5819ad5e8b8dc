------------------------------ MODULE MCPushes -----------------------------
(***************************************************************************)
(* Two messages of each network, with things alike and not.                *)
(***************************************************************************)
EXTENDS Pushes, TLC

CONSTANTS a, b

Message(net, timed, things) ==
  [net |-> net, account |-> "me", timed |-> timed, things |-> things]
Both(one, other) == (a :> one) @@ (b :> other)

Comment == Thing("comments", "c1", "", FALSE)
Insight == Thing("live_comments", "", "", FALSE)
Text == Thing("received", "m1", "", FALSE)
Echo == Thing("sent", "m2", "", FALSE)
OfInstagram ==
  {Both(Message("instagram", timed, <<Text, Comment, Insight>>),
        Message("instagram", timed, <<Echo, Insight>>)) : timed \in BOOLEAN}

Reply == Thing("replies", "r1", "", TRUE)
Mention == Thing("mentions", "", "", TRUE)
Delete == Thing("delete", "", "", FALSE)
OfThreads ==
  {Both(Message("threads", timed, <<Reply>>), Message("threads", timed, <<thing>>)) :
     timed \in BOOLEAN, thing \in {Mention, Delete}}

Likes(who, own) == Thing("reaction add", "post1", who, own)
OfFacebook ==
  {Both(Message("facebook", timed, <<Likes("ann", own), Likes("bob", own)>>),
        Message("facebook", timed, <<Likes("ann", own)>>)) :
     timed \in BOOLEAN, own \in BOOLEAN}

Published(own) == Thing("post.publish.complete", "p1", "ann", own)
Removed(own) == Thing("authorization.removed", "", "ann", own)
OfTikTok ==
  {Both(Message("tiktok", TRUE, <<Published(own)>>), Message("tiktok", TRUE, <<thing>>)) :
     own \in BOOLEAN, thing \in {Published(TRUE), Removed(TRUE), Removed(FALSE)}}

Review(own) == Thing("NEW_REVIEW", "review1", "", own)
OfGoogleBusiness ==
  {Both(Message("google_business", TRUE, <<Review(own)>>),
        Message("google_business", TRUE, <<Review(own)>>)) : own \in BOOLEAN}

ScenariosOf == OfInstagram \cup OfThreads \cup OfFacebook \cup OfTikTok \cup OfGoogleBusiness
=============================================================================
