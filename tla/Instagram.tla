------------------------------ MODULE Instagram -----------------------------
(***************************************************************************)
(* platforms/instagram.py: the operations of InstagramPlatform, request by *)
(* request.  A post is a container Instagram fills by itself: it is waited *)
(* for, and then asked to be put out.                                      *)
(***************************************************************************)
EXTENDS Meta

Has == {"POST_IMAGE", "POST_VIDEO", "PUSH_UPDATES", "MESSAGES", "MESSAGE_MEDIA"}
WhatItAllows == Limits(10, 10)
ForMessages ==
  MessageLimits([image |-> 10, video |-> 1, audio |-> 1, file |-> 1], 10, TRUE, {"url"})

\* What Instagram says of a message comes first, then what it says of a post,
\* then what all of Meta says.
MessageError ==
  [window_closed |-> "ReplyWindowClosedError", cannot_be_messaged |-> "BlockedError",
   nobody |-> "NotFoundError", bad_file |-> "InvalidPostError",
   access_off |-> "MissingPermissionError"]
InstagramError ==
  MessageError @@ [not_ready |-> "RateLimitError", bad_shape |-> "InvalidPostError",
                   not_fetched |-> "InvalidPostError", bad_format |-> "InvalidPostError",
                   nobody_knows |-> "PlatformError"]
InstagramErrors(status, said) == Named(InstagramError @@ ErrorsMetaNames, said, status)
Says == DOMAIN InstagramError \cup DOMAIN ErrorsMetaNames
Errors == Replies(InstagramErrors, Says)

AccountOf(call) == WhereToPost(call)

\* _checked_options; the carousel is one of them.
CheckedOptions(call) ==
  CheckOptionNames(call) \o Checks(<<<<Is(call, "bad_option"), "InvalidPostError">>>>)
CheckHashtags(call) == Checks(<<<<Is(call, "hashtags"), "InvalidPostError">>>>)

\* Instagram fetches every file itself.
NeedsAWebAddress(item) == <<item.from # "url", "NotSupportedError">>
ThingsToPublish(call) ==
  Checks([i \in DOMAIN call.media |-> NeedsAWebAddress(call.media[i])]
         \o <<<<Len(call.media) > 10, "InvalidPostError">>>>)
CheckCarousel(call) ==
  Checks(<<<<Is(call, "carousel") /\ Len(call.media) < 2, "InvalidPostError">>>>)

PostsLeftToday == Learn("used_up")

StartOne(slot) == Begin(slot)
\* _wait_for: a reply without status_code is that of a thing Instagram does not
\* track, unless that is a video.
WaitFor_TrustedWhatever(slot, video) == Trusting(Wait(slot))
WaitFor(slot, video) == IF video THEN Wait(slot) ELSE Trusting(Wait(slot))

\* _build: one container, or one for each thing and one for all of them.
Alone(call) == Len(call.media) <= 1 /\ ~Is(call, "carousel")
Container(call) == IF Alone(call) THEN Slot(1, 1) ELSE <<"carousel">>
Build(call) ==
  EachItem(call, LAMBDA item, i :
             StartOne(Slot(1, i)) \o WaitFor(Slot(1, i), item.kind = "video"))
  \o When(~Alone(call),
          StartOne(Container(call)) \o WaitFor(Container(call), Carries(call, "video")))

PutItOut(call) ==
  Again(Send("post", Slots(call, 1) \cup {Container(call)})) \o Return("DONE")

Publish(call) ==
  AccountOf(call) \o CheckedOptions(call) \o CheckPost(call, Has, WhatItAllows)
  \o CheckHashtags(call) \o ThingsToPublish(call) \o CheckCarousel(call)
  \o PostsLeftToday \o CheckPost(call, Has, WhatItAllows)
  \o Build(call) \o PutItOut(call)

AllowedNow(call) == AccountOf(call) \o PostsLeftToday \o Return("DONE")
ReadProfile(call) == AccountOf(call) \o Get("account") \o Return("DONE")

-----------------------------------------------------------------------------
\* Whatever is wrong with the swap is said to be the app's id.
Swap == Caught(NetworkErrors, "AuthError", SwapCodeForToken)
MakeItLast == Caught(NetworkErrors, "AuthError", LongLivedToken)

AppOrRefuse(call) == CredentialsOrRefuse(call)
CreateApp == AppMustBeMadeByHand
StartLogin(call) == AppOrRefuse(call) \o Return("DONE")
FinishLogin(call) ==
  AppOrRefuse(call) \o CheckState(call) \o CodeFrom(call)
  \o Swap \o MakeItLast \o Get("account") \o Return("DONE")

\* A token with days to go is handed back as it is.
Refresh(call) ==
  When(Is(call, "young_token"), Return("DONE")) \o RenewWithItself \o Return("DONE")

-----------------------------------------------------------------------------
TagFrom(call) ==
  CheckOptionNames(call) \o Checks(<<<<Is(call, "bad_option"), "InvalidPostError">>>>)

ReadConversations == Get("conversations") \o Return("DONE")
ReadMessages(call) ==
  Checks(<<<<Is(call, "after"), "ConfigError">>>>)
  \o Learn("conversation") \o Unless("conversation", Refuse("NotFoundError"))
  \o Return("DONE")

\* A message is never sent again after an answer that did not come.
SendOne_Retried(what) == Send(what, {})
SendOne(what) == Once(Send(what, {}))

SendMessage(call) ==
  TagFrom(call) \o CheckMessage([call EXCEPT !.media = <<>>], ForMessages)
  \o SendOne("words") \o Return("DONE")

\* The attachments go first, and the words after them.
SendMessageWithMedia(call) ==
  TagFrom(call) \o CheckMessage(call, ForMessages)
  \o SendOne("attachments") \o When(Is(call, "empty"), Return("DONE"))
  \o SendOne("words") \o Return("DONE")

MarkRead == Set("read") \o Return("DONE")

-----------------------------------------------------------------------------
Operations(call) ==
  [publish |-> Publish(call),
   limits |-> AllowedNow(call),
   read_profile |-> ReadProfile(call),
   create_app |-> CreateApp,
   start_login |-> StartLogin(call),
   finish_login |-> FinishLogin(call),
   refresh |-> Refresh(call),
   read_conversations |-> ReadConversations,
   read_messages |-> ReadMessages(call),
   send_message |-> SendMessage(call),
   send_message_with_media |-> SendMessageWithMedia(call),
   mark_read |-> MarkRead]
=============================================================================
