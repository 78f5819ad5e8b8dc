---------------------------------- MODULE X ---------------------------------
(***************************************************************************)
(* platforms/x.py: the operations of XPlatform, request by request.  How a *)
(* file is cut into pieces is in Uploads; here it takes two of them.       *)
(***************************************************************************)
EXTENDS Features

Has_Likes ==
  {"POST_TEXT", "POST_IMAGE", "POST_VIDEO", "REPLY", "DELETE_POST", "READ_POSTS", "LIKE"}
Has == {"POST_TEXT", "POST_IMAGE", "POST_VIDEO", "REPLY", "DELETE_POST", "READ_POSTS"}
Allowed == Limits(4, 1)

ItIsThePlan == "NotAllowedError"
XErrors(status, said) ==
  CASE status = 403 /\ said = "not_enrolled" -> ItIsThePlan
    [] status = 403 /\ said = "duplicate" -> "InvalidPostError"
    [] OTHER -> ErrorFromResponse(status)
Says == {"not_enrolled", "duplicate"}
Errors == Replies(XErrors, Says)

CheckedOption(call) == Checks(<<<<Is(call, "bad_option"), "InvalidPostError">>>>)
CheckedOptions(call) == CheckOptionNames(call) \o CheckedOption(call)

\* _checked: only the first post of a thread may answer something itself.
Checked(call, number) ==
  Checks(<<<<number > 1 /\ Is(call, "reply"), "InvalidPostError">>>>)
  \o CheckedOptions(call) \o CheckPost(call, Has, Allowed)

HowBig(item) == Checks(<<<<item.from = "url", "InvalidPostError">>>>)
Describe(item, slot) == When(item.from = "described_file", Put(slot))
WaitUntilReady(slot) == Watch(slot)

\* INIT, APPEND, FINALIZE, whose answer says whether there is anything to wait for.
Upload(item, slot) ==
  HowBig(item) \o Make(<<"upload", slot>>) \o Put(slot) \o Put(slot)
  \o (IF item.holds = "little" THEN Make(slot) ELSE Begin(slot) \o WaitUntilReady(slot))
  \o Describe(item, slot)

\* _send
SendPost(call, number) ==
  EachItem(call, LAMBDA item, i : Upload(item, Slot(number, i)))
  \o Send(<<"post", number>>, Slots(call, number))

Publish(call) == Checked(call, 1) \o SendPost(call, 1) \o Return("DONE")

\* A thread of two posts, the pictures on the first.  Every post is checked
\* before the first one goes out.
Second(call) ==
  [call EXCEPT !.media = <<>>,
               !.is = {word \in {"long", "reply"} : Is(call, "second_" \o word)}]
PublishThread_CheckedAsItGoes(call) ==
  Checked(call, 1) \o SendPost(call, 1) \o Checked(Second(call), 2)
  \o SendPost(Second(call), 2) \o Return("DONE")
PublishThread(call) ==
  Checks(<<<<Is(call, "no_posts"), "InvalidPostError">>>>)
  \o Checked(call, 1) \o Checked(Second(call), 2)
  \o SendPost(call, 1) \o SendPost(Second(call), 2) \o Return("DONE")

DeletePost == Unset("post") \o Return("DONE")
ReadProfile == Get("me") \o Return("DONE")
FetchUpdates == Get("mentions") \o Return("DONE")

-----------------------------------------------------------------------------
AppOrRefuse(call) == NoApp(call)
CheckState(call) == OtherState(call)
CodeFrom(call) == NoCode(call)
VerifierFrom(call) == NoNotes(call)
StartLogin(call) == AppOrRefuse(call) \o Return("DONE")
FinishLogin(call) ==
  AppOrRefuse(call) \o CheckState(call) \o CodeFrom(call) \o VerifierFrom(call)
  \o Spend("code") \o Get("me") \o Return("DONE")

\* A reply that never came is no reason to sign in again.
IsXsOwnFault_Never == {}
IsXsOwnFault == {"Trouble"}
Refresh(call) ==
  AppOrRefuse(call) \o NoRenewal(call) \o Renewal(With(call, "rotates"), IsXsOwnFault)
  \o Return("DONE")

-----------------------------------------------------------------------------
Operations(call) ==
  [limits |-> Return("DONE"),
   publish |-> Publish(call),
   publish_thread |-> PublishThread(call),
   delete_post |-> DeletePost,
   read_profile |-> ReadProfile,
   fetch_updates |-> FetchUpdates,
   start_login |-> StartLogin(call),
   finish_login |-> FinishLogin(call),
   refresh |-> Refresh(call)]
=============================================================================
