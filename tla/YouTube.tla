------------------------------- MODULE YouTube ------------------------------
(***************************************************************************)
(* platforms/youtube.py: the operations of YouTubePlatform, request by     *)
(* request.  How a video is cut into pieces, and which of them go again,   *)
(* is in Uploads; here it takes two of them.                               *)
(***************************************************************************)
EXTENDS Features

Has == {"POST_VIDEO", "SCHEDULE", "READ_POSTS"}
Allowed == Limits(0, 1)

YoutubeErrors(status, said) ==
  Named([quotaExceeded |-> "RateLimitError", uploadLimitExceeded |-> "RateLimitError",
         authError |-> "AuthError", forbidden |-> "NotAllowedError",
         videoNotFound |-> "NotFoundError", invalidTitle |-> "InvalidPostError"],
        said, status)
Says == {"quotaExceeded", "uploadLimitExceeded", "authError", "forbidden",
         "videoNotFound", "invalidTitle"}
Errors == Replies(YoutubeErrors, Says)

\* _metadata_for: the options, the title, the privacy, the question about kids.
CheckedTitle(call) ==
  <<<<Is(call, "no_title") \/ Is(call, "long_title"), "InvalidPostError">>>>
CheckedTags(call) == <<<<Is(call, "bad_tags"), "InvalidPostError">>>>
CheckedFlag(call, key) == <<<<Is(call, key), "InvalidPostError">>>>
CheckedPrivacy(call) ==
  <<<<Is(call, "bad_privacy") \/ (Is(call, "later") /\ Is(call, "public")),
      "InvalidPostError">>>>
CheckedOptions(call) == <<<<Is(call, "unknown_option"), "InvalidPostError">>>>
MetadataFor(call) ==
  Checks(CheckedOptions(call) \o CheckedTitle(call) \o CheckedTags(call)
         \o CheckedFlag(call, "kids_unsaid") \o CheckedPrivacy(call)
         \o CheckedFlag(call, "bad_notify"))
HowBig(call) == Checks(<<<<AnyFrom(call, "url"), "InvalidPostError">>>>)

StartUpload == Make(<<"upload">>)
SendVideo == Put(<<"upload">>) \o Keyed(Send("post", {<<"upload">>}), Session)

Publish(call) ==
  CheckPost(call, Has, Allowed) \o MetadataFor(call) \o HowBig(call)
  \o StartUpload \o SendVideo
  \o Return(IF Is(call, "later") THEN "SCHEDULED" ELSE "PROCESSING")

CheckStateOf ==
  Learn("video") \o Unless("video", Refuse("NotFoundError"))
  \o ReturnOneOf({"DONE", "PROCESSING", "SCHEDULED", "FAILED"})
ReadProfile == Get("channel") \o Return("DONE")
FetchUpdates == Get("comment_threads") \o Return("DONE")

-----------------------------------------------------------------------------
AppOrRefuse(call) == NoApp(call)
CheckState(call) == OtherState(call)
CodeFrom(call) == NoCode(call)
VerifierFrom(call) == NoNotes(call)
StartLogin(call) == AppOrRefuse(call) \o Return("DONE")

\* The token comes before the channels, and is of no use without one.
FinishLogin(call) ==
  AppOrRefuse(call) \o CheckState(call) \o CodeFrom(call) \o VerifierFrom(call)
  \o Spend("code") \o Checks(<<<<Is(call, "no_refresh_token"), "AuthError">>>>)
  \o Learn("channel") \o Unless("channel", Refuse("AuthError"))
  \o Return("WAITING_FOR_PERSON")

\* _unpack: everything else is in the resume_token.
Unpack(call) == Checks(<<<<Is(call, "no_resume_token"), "AuthError">>>>)
ResumeLogin(call) ==
  Unpack(call) \o Checks(<<<<Is(call, "not_offered"), "AuthError">>>>) \o Return("DONE")

\* Google gives no new refresh token.
IsGooglesOwnFault == {"Trouble"}
Refresh(call) ==
  AppOrRefuse(call) \o NoRenewal(call) \o Renewal(call, IsGooglesOwnFault) \o Return("DONE")

-----------------------------------------------------------------------------
Operations(call) ==
  [limits |-> Return("DONE"),
   publish |-> Publish(call),
   check_state |-> CheckStateOf,
   read_profile |-> ReadProfile,
   fetch_updates |-> FetchUpdates,
   start_login |-> StartLogin(call),
   finish_login |-> FinishLogin(call),
   resume_login |-> ResumeLogin(call),
   refresh |-> Refresh(call)]
=============================================================================
