------------------------------ MODULE Mastodon ------------------------------
(***************************************************************************)
(* platforms/mastodon.py: the operations of MastodonPlatform, request by   *)
(* request.  A conversation is named by its id, or (in_place) by the       *)
(* status it would have begun with.                                        *)
(***************************************************************************)
EXTENDS Features

Has == {"CREATE_APP", "POST_TEXT", "POST_IMAGE", "POST_VIDEO", "SCHEDULE", "REPLY",
        "DELETE_POST", "READ_POSTS", "READ_STATS", "READ_POST", "READ_THREAD",
        "REPLY_TO_COMMENTS", "LIKE", "READ_LIKES", "READ_UPDATES_AFTER", "MESSAGES",
        "START_CONVERSATIONS", "MESSAGE_MEDIA"}

\* _limits_from_instance, with the defaults for what a server leaves out.
ServerLimits == Limits(4, 1)
ForMessages ==
  MessageLimits([image |-> 4, video |-> 1, audio |-> 1], 4, TRUE, {"file"})

MastodonErrors(status, said) ==
  CASE status = 422 -> "InvalidPostError"
    [] status = 404 /\ said = "of_a_status" -> "PostGoneError"
    [] status = 403 /\ said = "scopes" -> "MissingPermissionError"
    [] OTHER -> ErrorFromResponse(status)
Says == {"of_a_status", "scopes"}
Errors == Replies(MastodonErrors, Says)

\* _checked_options, _checked_option
CheckedOption(call) == Checks(<<<<Is(call, "bad_option"), "InvalidPostError">>>>)
CheckedOptions(call) == CheckOptionNames(call) \o CheckedOption(call)

\* post_fingerprint: everything that was asked for, but of its files only the
\* kind, filename, address and alt text: not what is in them.
ByName(item) == <<item.kind, item.from = "url", item.name>>
NamedFiles(call) == [i \in DOMAIN call.media |-> ByName(call.media[i])]
PostFingerprint_WithoutFiles(call) == <<Len(call.media), call.is>>
PostFingerprint(call) == <<NamedFiles(call), call.is>>

KnownLimits == Cached("limits")
AsksItsLimits == KnownLimits \o Return("DONE")

\* _wait_until_ready, after a reply that the file was accepted but not done.
WaitUntilReady(slot) == ByStatus(Wait(slot))

Upload(item, i) ==
  Checks(<<<<item.from = "url", "InvalidPostError">>>>)
  \o IF item.holds = "little" THEN Make(Slot(1, i))
     ELSE Begin(Slot(1, i)) \o WaitUntilReady(Slot(1, i))

Publish(call) ==
  CheckedOptions(call) \o KnownLimits \o CheckPost(call, Has, ServerLimits)
  \o EachItem(call, Upload)
  \o Keyed(Send("post", Slots(call, 1)), PostFingerprint(call))
  \o Return(IF Is(call, "later") THEN "SCHEDULED" ELSE "DONE")

DeletePost == Unset("post") \o Return("DONE")
ReadStats == Get("status") \o Return("DONE")
ReadPost == Get("status") \o Return("DONE")
ReadThread == Get("status") \o Get("context") \o Return("DONE")
ReadProfile == Get("account") \o Return("DONE")
FetchUpdates == Get("notifications") \o Return("DONE")

\* What the reply says, and who may see it, depends on the parent it reads.
Reply(call) == Learn("public") \o Publish(With(call, "reply"))

Like == Set("like") \o Return("DONE")
Unlike == Unset("like") \o Return("DONE")
ReadLikes == Get("favourited_by") \o Return("DONE")

\* mark_seen: one conflict with another app's marker is tried once more.
MarkSeen == Bearing({"Conflict"}, Set("seen")) \o OnlyIf("refused", Set("seen")) \o Return("DONE")

-----------------------------------------------------------------------------
\* _find_conversation, _find_conversation_for_status: page after page.
PageThroughConversations == Search("conversation")
FindConversation == PageThroughConversations
FindConversationForStatus == PageThroughConversations

ReadConversations == Get("conversations") \o Return("DONE")

ReadMessages(call) ==
  (IF Is(call, "in_place") THEN Get("status")
   ELSE FindConversation \o Unless("conversation", Return("DONE")))
  \o Get("context") \o Return("DONE")

SendDirect(call) ==
  (IF Is(call, "in_place") THEN Get("status")
   ELSE FindConversation \o Unless("conversation", Refuse("NotFoundError")))
  \o EachItem(call, Upload)
  \o Send("message", Slots(call, 1)) \o Return("DONE")

SendMessage(call) == SendDirect(call)
SendMessageWithMedia(call) ==
  KnownLimits \o CheckMessage(call, ForMessages) \o SendDirect(call)

MarkRead(call) ==
  When(Is(call, "in_place"),
       FindConversationForStatus \o Unless("conversation", Return("DONE")))
  \o Set("read") \o Return("DONE")

\* The message is out before its conversation is looked for.
StartConversation ==
  Get("account") \o Send("message", {}) \o FindConversationForStatus \o Return("DONE")

-----------------------------------------------------------------------------
CleanHost(call) == Checks(<<<<Is(call, "no_host"), "ConfigError">>>>)
AppOn(call) == NoApp(call)

CheckState(call) == OtherState(call)
CodeFrom(call) == NoCode(call)
VerifierFrom(call) == NoNotes(call)

CreateApp(call) == CleanHost(call) \o Make("app") \o Return("DONE")
StartLogin(call) == CleanHost(call) \o AppOn(call) \o Return("DONE")

\* A code is good for one request; the token is of no use without a name.
FinishLogin(call) ==
  CleanHost(call) \o AppOn(call) \o CheckState(call) \o CodeFrom(call) \o VerifierFrom(call)
  \o Spend("code") \o Get("account") \o Return("DONE")

\* A token of Mastodon's does not run out, and is handed back as it is.
Refresh == Return("DONE")

-----------------------------------------------------------------------------
Operations(call) ==
  [limits |-> AsksItsLimits,
   publish |-> Publish(call),
   delete_post |-> DeletePost,
   read_stats |-> ReadStats,
   read_post |-> ReadPost,
   read_thread |-> ReadThread,
   read_profile |-> ReadProfile,
   reply |-> Reply(call),
   like |-> Like,
   unlike |-> Unlike,
   read_likes |-> ReadLikes,
   mark_seen |-> MarkSeen,
   read_conversations |-> ReadConversations,
   read_messages |-> ReadMessages(call),
   send_message |-> SendMessage(call),
   send_message_with_media |-> SendMessageWithMedia(call),
   mark_read |-> MarkRead(call),
   start_conversation |-> StartConversation,
   fetch_updates |-> FetchUpdates,
   refresh |-> Refresh,
   create_app |-> CreateApp(call),
   start_login |-> StartLogin(call),
   finish_login |-> FinishLogin(call)]
=============================================================================
