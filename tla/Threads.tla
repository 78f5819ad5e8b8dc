------------------------------- MODULE Threads ------------------------------
(***************************************************************************)
(* platforms/threads.py: the operations of ThreadsPlatform, request by     *)
(* request.                                                                *)
(***************************************************************************)
EXTENDS Meta

Has == {"POST_TEXT", "POST_IMAGE", "POST_VIDEO", "REPLY", "DELETE_POST", "READ_STATS",
        "PUSH_UPDATES"}
WhatItAllows == Limits(10, 10)

ThreadsErrors(status, said) == MetaErrors(status, said)
Says == DOMAIN ErrorsMetaNames
Errors == Replies(ThreadsErrors, Says)

AccountOf(call) == WhereToPost(call)
CheckedOptions(call) ==
  CheckOptionNames(call) \o Checks(<<<<Is(call, "bad_option"), "InvalidPostError">>>>)

NeedsAWebAddress(item) == <<item.from # "url", "NotSupportedError">>
ThingsToPublish(call) ==
  Checks([i \in DOMAIN call.media |-> NeedsAWebAddress(call.media[i])]
         \o <<<<Len(call.media) > 10, "InvalidPostError">>>>)
CheckCarousel(call) ==
  Checks(<<<<Is(call, "carousel") /\ Len(call.media) < 2, "InvalidPostError">>>>)

\* Answers are counted apart from posts: "used_up" is the count that applies.
AskTheLimit == Learn("used_up")

StartOne(slot) == Begin(slot)
\* _wait_for: a reply without a status is no reason to wait, unless for a video.
WaitFor(slot, video) == IF video THEN Wait(slot) ELSE Trusting(Wait(slot))

\* _build: words have a container as well.
Alone(call) == Len(call.media) <= 1 /\ ~Is(call, "carousel")
Container(call) ==
  IF call.media = <<>> THEN <<"words">>
  ELSE IF Alone(call) THEN Slot(1, 1) ELSE <<"carousel">>
Build(call) ==
  EachItem(call, LAMBDA item, i :
             StartOne(Slot(1, i)) \o WaitFor(Slot(1, i), item.kind = "video"))
  \o When(Container(call) # Slot(1, 1),
          StartOne(Container(call)) \o WaitFor(Container(call), Carries(call, "video")))
PutItOut(call) == Send("post", Slots(call, 1) \cup {Container(call)}) \o Return("DONE")

Publish(call) ==
  AccountOf(call) \o CheckedOptions(call) \o CheckPost(call, Has, WhatItAllows)
  \o ThingsToPublish(call) \o CheckCarousel(call)
  \o AskTheLimit \o CheckPost(call, Has, WhatItAllows)
  \o Build(call) \o PutItOut(call)

AllowedNow(call) == AccountOf(call) \o AskTheLimit \o Return("DONE")
ReadProfile == Get("me") \o Return("DONE")
DeletePost == Unset("post") \o Return("DONE")
ReadStats == Get("insights") \o Return("DONE")

-----------------------------------------------------------------------------
\* Answers, page after page; none of them is looked for.
ReadReplies(call) == AccountOf(call) \o Search("replies") \o Return("DONE")
RepliesOn == Search("replies")
FetchUpdates(call) ==
  AccountOf(call) \o ReadEdge("threads") \o RepliesOn \o Return("DONE")

IdOn(call) == Checks(<<<<Is(call, "no_id"), "PlatformError">>>>)

\* An answer to an update is a post with words only.
ReplyToUpdate(call) ==
  Checks(<<<<Is(call, "not_answerable"), "NotSupportedError">>>>) \o IdOn(call)
  \o Publish(With([call EXCEPT !.media = <<>>], "reply"))
DeleteComment == Refuse("NotSupportedError")
SetCommentVisibility(call) ==
  IdOn(call) \o (IF Is(call, "hide") THEN Set("hidden") ELSE Unset("hidden"))
  \o Return("DONE")

-----------------------------------------------------------------------------
\* Being asked too often is not the app's id.
Swap == Caught(NetworkErrors \ {"RateLimitError"}, "AuthError", SwapCodeForToken)
MakeItLast == Caught(NetworkErrors \ {"RateLimitError"}, "AuthError", LongLivedToken)

AppOrRefuse(call) == CredentialsOrRefuse(call)
CreateApp == AppMustBeMadeByHand
StartLogin(call) == AppOrRefuse(call) \o Return("DONE")
FinishLogin(call) ==
  AppOrRefuse(call) \o CheckState(call) \o CodeFrom(call)
  \o Swap \o MakeItLast \o Get("me") \o Return("DONE")

\* A token of its first day cannot be renewed yet.
TooSoonToRenew(call) == Checks(<<<<Is(call, "young_token"), "RateLimitError">>>>)
Refresh(call) == TooSoonToRenew(call) \o RenewWithItself \o Return("DONE")

-----------------------------------------------------------------------------
Operations(call) ==
  [publish |-> Publish(call),
   limits |-> AllowedNow(call),
   read_profile |-> ReadProfile,
   delete_post |-> DeletePost,
   read_stats |-> ReadStats,
   read_replies |-> ReadReplies(call),
   fetch_updates |-> FetchUpdates(call),
   reply_to_update |-> ReplyToUpdate(call),
   delete_comment |-> DeleteComment,
   set_comment_visibility |-> SetCommentVisibility(call),
   create_app |-> CreateApp,
   start_login |-> StartLogin(call),
   finish_login |-> FinishLogin(call),
   refresh |-> Refresh(call)]
=============================================================================
