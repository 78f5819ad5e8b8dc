-------------------------------- MODULE TikTok ------------------------------
(***************************************************************************)
(* platforms/tiktok.py: the operations of TikTokPlatform, request by       *)
(* request.  How a video is cut into pieces is in Uploads; here it takes   *)
(* two of them, and the last one is what TikTok makes a post of.           *)
(***************************************************************************)
EXTENDS Features

Has == {"POST_VIDEO", "PUSH_UPDATES"}
Allowed == Limits(0, 1)

\* TikTok names what is wrong, in replies of any status.  A refusal that comes
\* with a 200 is an error only where somebody looks for it.
RefusalIn == {"Refusal"}
TiktokErrors(status, said) ==
  Named([unaudited |-> "NotAllowedError", too_many_posts |-> "RateLimitError",
         too_many_pending |-> "RateLimitError", banned |-> "NotAllowedError",
         token |-> "AuthError", scope |-> "NotAllowedError",
         rate_limit |-> "RateLimitError", url_ownership |-> "NotAllowedError",
         invalid_param |-> "InvalidPostError", oauth |-> "AuthError",
         publish_id_not_found |-> "NotFoundError"], said, status)
Says == {"unaudited", "too_many_posts", "too_many_pending", "banned", "token", "scope",
         "rate_limit", "url_ownership", "invalid_param", "oauth", "publish_id_not_found"}
Errors == [Replies(TiktokErrors, Says) EXCEPT !.refused = @ \cup RefusalIn]

NoCarousels(call) == Checks(<<<<Carries(call, "image"), "NotSupportedError">>>>)
CheckedOptions(call) ==
  CheckOptionNames(call) \o Checks(<<<<Is(call, "bad_option"), "InvalidPostError">>>>)
TheVideo(call) == Checks(<<<<AnyFrom(call, "odd_file"), "InvalidPostError">>>>)

\* _where_to_send: the drafts, unless the post says otherwise.
ToProfile(call) == Is(call, "to_profile")
PostInfoFor(call) == Checks(<<<<Is(call, "bad_setting"), "InvalidPostError">>>>)
NoCaptionInTheDrafts(call) == Checks(<<<<~Is(call, "empty"), "InvalidPostError">>>>)
NoSettingsInTheDrafts(call) == Checks(<<<<Is(call, "settings"), "InvalidPostError">>>>)

HowBig(call) ==
  Checks(<<<<AnyFrom(call, "url") \/ AnyFrom(call, "big_file"), "InvalidPostError">>>>)

StartedOrComplain == Make(<<"upload">>)
SendVideo == Put(<<"upload">>) \o Keyed(Send("post", {<<"upload">>}), Session)

Publish(call) ==
  NoCarousels(call) \o CheckPost(call, Has, Allowed)
  \o CheckedOptions(call) \o TheVideo(call)
  \o (IF ToProfile(call) THEN PostInfoFor(call)
      ELSE NoCaptionInTheDrafts(call) \o NoSettingsInTheDrafts(call))
  \o HowBig(call) \o StartedOrComplain \o SendVideo
  \o Return(IF ToProfile(call) THEN "PROCESSING" ELSE "WAITING_FOR_PERSON")

CheckStateOf ==
  Get("status") \o ReturnOneOf({"DONE", "PROCESSING", "WAITING_FOR_PERSON", "FAILED"})
ReadProfile == Get("user") \o Return("DONE")

-----------------------------------------------------------------------------
AppOrRefuse(call) == NoApp(call)
CheckState(call) == OtherState(call)
CodeFrom(call) == NoCode(call)
StartLogin(call) == AppOrRefuse(call) \o Return("DONE")

\* A Refusal is one that comes in a reply that says 200.
FinishLogin(call) ==
  AppOrRefuse(call) \o CheckState(call) \o CodeFrom(call)
  \o Caught({"Refusal"}, "AuthError", Spend("code")) \o Get("user") \o Return("DONE")
IsTiktoksOwnFault == {"Trouble"}
CannotRenew == "TokenExpiredError"
Refresh(call) ==
  AppOrRefuse(call) \o NoRenewal(call)
  \o Caught(({"AuthError", "Refusal"} \cup PlatformErrors) \ IsTiktoksOwnFault, CannotRenew,
            RenewalRequest(call))
  \o Return("DONE")

-----------------------------------------------------------------------------
Operations(call) ==
  [limits |-> Return("DONE"),
   publish |-> Publish(call),
   check_state |-> CheckStateOf,
   read_profile |-> ReadProfile,
   start_login |-> StartLogin(call),
   finish_login |-> FinishLogin(call),
   refresh |-> Refresh(call)]
=============================================================================
