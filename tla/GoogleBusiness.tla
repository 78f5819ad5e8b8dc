---------------------------- MODULE GoogleBusiness --------------------------
(***************************************************************************)
(* platforms/google_business.py: the operations of GoogleBusinessPlatform, *)
(* request by request.                                                     *)
(***************************************************************************)
EXTENDS Features

Has == {"POST_TEXT", "POST_IMAGE", "PUSH_UPDATES"}
Allowed == Limits(1, 0)

GoogleBusinessErrors(status, said) ==
  Named([rate_limited |-> "RateLimitError", unauthenticated |-> "AuthError",
         forbidden |-> "NotAllowedError", not_found |-> "NotFoundError"], said, status)
Says == {"rate_limited", "unauthenticated", "forbidden", "not_found"}
Errors == Replies(GoogleBusinessErrors, Says)

LocationResource(call) == Checks(<<<<Is(call, "no_account_id"), "ConfigError">>>>)
BareLocation(call) == LocationResource(call)
CheckedCallToAction(call) ==
  Checks(<<<<Is(call, "bad_option"), "InvalidPostError">>>>)

\* What Google says of a new post is that it is live, or that it is not.
Publish(call) ==
  CheckPost(call, Has, Allowed) \o CheckOptionNames(call) \o CheckedCallToAction(call)
  \o Checks([i \in DOMAIN call.media |->
               <<call.media[i].from # "url", "InvalidPostError">>])
  \o LocationResource(call) \o Send("post", {}) \o ReturnOneOf({"DONE", "FAILED"})

FetchUpdates(call) ==
  LocationResource(call) \o Get("reviews") \o Get("questions") \o Return("DONE")

\* A review has one answer, which a second one replaces; a question is answered
\* as often as it is asked for.
ReplyToUpdate(call) ==
  LocationResource(call)
  \o Checks(<<<<Is(call, "not_answerable"), "NotSupportedError">>>>)
  \o (IF Is(call, "review") THEN Set("answered") ELSE Send("answer", {})) \o Return("DONE")

GetLocation(call) == LocationResource(call) \o Get("location") \o Return("DONE")
UpdateLocation(call) ==
  Checks(<<<<Is(call, "no_fields"), "ConfigError">>>>) \o LocationResource(call)
  \o Set("updated") \o Return("DONE")

VerificationOptions(call) == BareLocation(call) \o Get("options") \o Return("DONE")
StartVerification(call) == BareLocation(call) \o Add("verification") \o Return("DONE")
CompleteVerification == Spend("pin") \o Return("DONE")
VerificationState(call) == BareLocation(call) \o Get("state") \o Return("DONE")

-----------------------------------------------------------------------------
AppOrRefuse(call) == NoApp(call)

\* Here a state has to come back.
CheckState(call) == Checks(<<<<Is(call, "no_state"), "AuthError">>>>) \o OtherState(call)
CodeFrom(call) == NoCode(call)
VerifierFrom(call) == NoNotes(call)
StartLogin(call) == AppOrRefuse(call) \o Return("DONE")
FinishLogin(call) ==
  AppOrRefuse(call) \o CheckState(call) \o CodeFrom(call) \o VerifierFrom(call)
  \o Spend("code") \o Checks(<<<<Is(call, "no_refresh_token"), "AuthError">>>>)
  \o Learn("account") \o Unless("account", Refuse("AuthError"))
  \o Search("place") \o Unless("place", Refuse("AuthError"))
  \o Return("WAITING_FOR_PERSON")
Unpack(call) == Checks(<<<<Is(call, "no_resume_token"), "AuthError">>>>)
ResumeLogin(call) ==
  Unpack(call) \o Checks(<<<<Is(call, "not_offered"), "AuthError">>>>) \o Return("DONE")
IsGooglesOwnFault == {"Trouble"}
Refresh(call) ==
  AppOrRefuse(call) \o NoRenewal(call) \o Renewal(call, IsGooglesOwnFault) \o Return("DONE")

-----------------------------------------------------------------------------
Operations(call) ==
  [limits |-> Return("DONE"),
   publish |-> Publish(call),
   fetch_updates |-> FetchUpdates(call),
   reply_to_update |-> ReplyToUpdate(call),
   get_location |-> GetLocation(call),
   update_location |-> UpdateLocation(call),
   verification_options |-> VerificationOptions(call),
   start_verification |-> StartVerification(call),
   complete_verification |-> CompleteVerification,
   verification_state |-> VerificationState(call),
   start_login |-> StartLogin(call),
   finish_login |-> FinishLogin(call),
   resume_login |-> ResumeLogin(call),
   refresh |-> Refresh(call)]
=============================================================================
