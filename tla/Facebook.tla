------------------------------- MODULE Facebook -----------------------------
(***************************************************************************)
(* platforms/facebook.py: the operations of FacebookPlatform, request by   *)
(* request.  fetch_updates_after has a module of its own, UpdatesAfter.    *)
(***************************************************************************)
EXTENDS Meta

Has == {"POST_TEXT", "POST_IMAGE", "POST_VIDEO", "SCHEDULE", "DELETE_POST", "READ_STATS",
        "PUSH_UPDATES", "READ_UPDATES_AFTER", "SUBSCRIBE_APP"}
Allowed == Limits(0, 1)

FacebookErrors(status, said) == MetaErrors(status, said)
Says == DOMAIN ErrorsMetaNames
Errors == Replies(FacebookErrors, Says)

CheckedOptions(call) ==
  CheckOptionNames(call) \o Checks(<<<<Is(call, "bad_option"), "InvalidPostError">>>>)
SplitMedia(call) ==
  Checks(<<<<Carries(call, "image") /\ Carries(call, "video"), "InvalidPostError">>>>)
ScheduledTime(call) ==
  Checks(<<<<Is(call, "later") /\ (Is(call, "too_soon") \/ Is(call, "too_late")),
             "InvalidPostError">>>>)

\* A picture by itself is seen by nobody, from a file or from an address.
UploadPicture(item, i) == Make(Slot(1, i))
PublishToFeed(call) ==
  EachItem(call, UploadPicture) \o Send("post", Slots(call, 1))
  \o Return(IF Is(call, "later") THEN "SCHEDULED" ELSE "DONE")

\* A video is a post of its own, and its only request.
PublishVideo(call) ==
  Checks(<<<<AnyFrom(call, "big_file"), "NotSupportedError">>>>)
  \o Send("post", {}) \o Return(IF Is(call, "later") THEN "SCHEDULED" ELSE "PROCESSING")

Publish(call) ==
  WhereToPost(call) \o CheckedOptions(call) \o CheckPost(call, Has, Allowed)
  \o SplitMedia(call) \o ScheduledTime(call)
  \o (IF Carries(call, "video") THEN PublishVideo(call) ELSE PublishToFeed(call))

CheckStateOf(call) ==
  WhereToPost(call) \o Learn("status") \o Unless("status", Refuse("PlatformError"))
  \o ReturnOneOf({"DONE", "PROCESSING", "FAILED"})
DeletePost == Unset("post") \o Return("DONE")
ReadStats == Get("post") \o Return("DONE")
ReadProfile(call) == WhereToPost(call) \o Get("page") \o Return("DONE")

\* The recent posts, and the comments on each.
RecentPostsOf == ReadEdge("published_posts")
CommentsOn == Search("comments")
FetchUpdates(call) ==
  WhereToPost(call) \o RecentPostsOf \o CommentsOn \o Return("DONE")

\* _own_marker: Facebook itself is not told.
MarkSeen(call) == Checks(<<<<Is(call, "foreign_marker"), "ConfigError">>>>) \o Return("DONE")

PushFields(call) == Checks(<<<<Is(call, "bad_fields"), "ConfigError">>>>)
SubscribeToUpdates(call) ==
  PushFields(call) \o WhereToPost(call) \o Set("subscribed") \o Return("DONE")

-----------------------------------------------------------------------------
CreateApp == AppMustBeMadeByHand
AppOn(call) == CredentialsOrRefuse(call)
StartLogin(call) == AppOn(call) \o Return("DONE")

\* Which page it is to be is asked of the person, then of Facebook.
FinishLogin(call) ==
  AppOn(call) \o CheckState(call) \o CodeFrom(call) \o SwapCodeForToken \o LongLivedToken
  \o PagesOf \o Unless("page", Refuse("AuthError")) \o Return("WAITING_FOR_PERSON")
ResumeLogin(call) ==
  Checks(<<<<Is(call, "no_resume_token"), "AuthError">>>>) \o PageById \o Return("DONE")

\* A page's token does not run out, and is handed back as it is.
Refresh(call) ==
  When(Is(call, "page_token"), Return("DONE"))
  \o CredentialsOrRefuse(call) \o RenewWithItself \o Return("DONE")

-----------------------------------------------------------------------------
Operations(call) ==
  [limits |-> Return("DONE"),
   publish |-> Publish(call),
   check_state |-> CheckStateOf(call),
   delete_post |-> DeletePost,
   read_stats |-> ReadStats,
   read_profile |-> ReadProfile(call),
   fetch_updates |-> FetchUpdates(call),
   mark_seen |-> MarkSeen(call),
   subscribe_to_updates |-> SubscribeToUpdates(call),
   create_app |-> CreateApp,
   start_login |-> StartLogin(call),
   finish_login |-> FinishLogin(call),
   resume_login |-> ResumeLogin(call),
   refresh |-> Refresh(call)]
=============================================================================
