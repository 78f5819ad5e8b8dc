------------------------------ MODULE Pinterest -----------------------------
(***************************************************************************)
(* platforms/pinterest.py: the operations of PinterestPlatform, request by *)
(* request.                                                                *)
(***************************************************************************)
EXTENDS Features

Has == {"POST_IMAGE", "POST_VIDEO", "DELETE_POST"}
Allowed == Limits(5, 1)

PinterestErrors(status, said) == ErrorFromResponse(status)
Errors == Replies(PinterestErrors, {})

TheMedia(call) ==
  Checks(<<<<Carries(call, "image") /\ Carries(call, "video"), "InvalidPostError">>>>)
CheckedOptions(call) ==
  CheckOptionNames(call)
  \o Checks(<<<<Is(call, "bad_option") \/ Is(call, "long_title"), "InvalidPostError">>>>)
NoBoard == "InvalidPostError"
BoardFor(call) == Checks(<<<<Is(call, "no_board"), NoBoard>>>>)
CheckScopes(call) == Checks(<<<<Is(call, "no_scope"), "NotAllowedError">>>>)

\* Pictures go along with the pin, all from files or all from addresses.
SeveralPictures(call) ==
  Checks(<<<<AnyFrom(call, "url") /\ AnyFrom(call, "file"), "InvalidPostError">>>>)

\* A status that says neither "still working" nor "gave up" is as good as ready.
WaitUntilReady(slot) == Trusting(Wait(slot))
Upload(item, i) ==
  Checks(<<<<item.from = "url", "InvalidPostError">>>>)
  \o Begin(Slot(1, i)) \o Put(Slot(1, i)) \o WaitUntilReady(Slot(1, i))

Publish(call) ==
  Checks(<<<<Is(call, "reply"), "NotSupportedError">>>>)
  \o CheckPost(call, Has, Allowed) \o TheMedia(call) \o CheckedOptions(call)
  \o BoardFor(call) \o CheckScopes(call)
  \o (IF Carries(call, "video")
      THEN EachItem(call, Upload) \o Send("post", Slots(call, 1))
      ELSE SeveralPictures(call) \o Send("post", {}))
  \o Return("DONE")

DeletePost == Unset("post") \o Return("DONE")
Boards == Get("boards") \o Return("DONE")
ReadProfile == Get("account") \o Return("DONE")

-----------------------------------------------------------------------------
AppOrRefuse(call) == NoApp(call)
CheckState(call) == OtherState(call)
CodeFrom(call) == NoCode(call)
StartLogin(call) == AppOrRefuse(call) \o Return("DONE")
FinishLogin(call) ==
  AppOrRefuse(call) \o CheckState(call) \o CodeFrom(call)
  \o Spend("code") \o Get("account") \o Return("DONE")

\* Whether the refresh token is replaced is a setting of the app's.
IsPinterestsOwnFault == {"Trouble"}
Refresh(call) ==
  AppOrRefuse(call) \o NoRenewal(call) \o Renewal(call, IsPinterestsOwnFault)
  \o Return("DONE")

-----------------------------------------------------------------------------
Operations(call) ==
  [limits |-> Return("DONE"),
   publish |-> Publish(call),
   delete_post |-> DeletePost,
   boards |-> Boards,
   read_profile |-> ReadProfile,
   start_login |-> StartLogin(call),
   finish_login |-> FinishLogin(call),
   refresh |-> Refresh(call)]
=============================================================================
