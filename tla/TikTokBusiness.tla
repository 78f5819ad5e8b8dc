---------------------------- MODULE TikTokBusiness --------------------------
(***************************************************************************)
(* platforms/tiktok_business.py: the operations of TikTokBusinessPlatform, *)
(* request by request.  It answers comments on adverts and posts nothing.  *)
(***************************************************************************)
EXTENDS Features

Has == {}

\* Two ranges of codes, in replies of any status.
TiktokBusinessErrors(status, said) ==
  Named([from_40000 |-> "AuthError", from_30000 |-> "RateLimitError"], said, status)
Says == {"from_40000", "from_30000"}
Errors == Replies(TiktokBusinessErrors, Says)

\* Nothing gets past check_post; if it did, it would be refused as well.
Allowed == Limits(0, 0)
Publish(call) == CheckPost(call, Has, Allowed) \o Refuse("NotSupportedError")

Advertiser(call) == Checks(<<<<Is(call, "no_account_id"), "ConfigError">>>>)
FetchUpdates(call) ==
  Advertiser(call) \o Checks(<<<<Is(call, "no_ad"), "ConfigError">>>>)
  \o Get("comments") \o Return("DONE")

\* Everything an answer is addressed with comes from the update or the
\* connection.
Addressed(call) ==
  Checks(<<<<Is(call, "not_answerable"), "NotSupportedError">>>>)
  \o Advertiser(call)
  \o Checks(<<<<Is(call, "no_id") \/ Is(call, "no_ad") \/ Is(call, "no_identity"),
               "ConfigError">>>>)
ReplyToUpdate(call) == Addressed(call) \o Send("answer", {}) \o Return("DONE")
DeleteComment(call) == Addressed(call) \o Unset("comment") \o Return("DONE")
SetCommentVisibility(call) ==
  Advertiser(call) \o (IF Is(call, "hide") THEN Set("hidden") ELSE Unset("hidden"))
  \o Return("DONE")

-----------------------------------------------------------------------------
\* PlatformError where other networks say ConfigError, AuthError and
\* TokenExpiredError.
NoAppGiven(call) == Checks(<<<<Is(call, "no_app"), "PlatformError">>>>)
StartLogin(call) == NoAppGiven(call) \o Return("DONE")
FinishLogin(call) ==
  NoAppGiven(call) \o Checks(<<<<Is(call, "no_code"), "PlatformError">>>>)
  \o Spend("code") \o Return("DONE")
Refresh(call) ==
  NoAppGiven(call) \o Checks(<<<<Is(call, "no_refresh_token"), "PlatformError">>>>)
  \o Spend("refresh_token") \o Return("DONE")

-----------------------------------------------------------------------------
Operations(call) ==
  [limits |-> Return("DONE"),
   publish |-> Publish(call),
   fetch_updates |-> FetchUpdates(call),
   reply_to_update |-> ReplyToUpdate(call),
   delete_comment |-> DeleteComment(call),
   set_comment_visibility |-> SetCommentVisibility(call),
   start_login |-> StartLogin(call),
   finish_login |-> FinishLogin(call),
   refresh |-> Refresh(call)]
=============================================================================
