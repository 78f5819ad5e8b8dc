------------------------------- MODULE Bluesky ------------------------------
(***************************************************************************)
(* platforms/bluesky.py: the operations of BlueskyPlatform, request by     *)
(* request.  fetch_updates_after has a module of its own, UpdatesAfter.    *)
(***************************************************************************)
EXTENDS Features

Has == {"NEEDS_NO_APP", "POST_TEXT", "POST_IMAGE", "REPLY", "DELETE_POST",
        "READ_POSTS", "READ_POST", "READ_THREAD", "REPLY_TO_COMMENTS", "LIKE",
        "READ_LIKES", "READ_UPDATES_AFTER", "MESSAGES", "START_CONVERSATIONS"}
KnownLimits == Limits(4, 0)

\* Bluesky says most things with a 400 and a name.
BlueskyErrors(status, said) ==
  IF status # 400 THEN ErrorFromResponse(status)
  ELSE Named([InvalidToken_for_messages |-> "MissingPermissionError",
              ExpiredToken |-> "AuthError", NotFound |-> "PostGoneError",
              BlockedByActor |-> "BlockedError", BlobTooLarge |-> "InvalidPostError",
              InvalidRequest |-> "InvalidPostError"], said, status)
Says == {"InvalidToken_for_messages", "ExpiredToken", "NotFound", "BlockedByActor",
         "BlobTooLarge", "InvalidRequest"}
Errors == Replies(BlueskyErrors, Says)

CheckedLangs(call) ==
  CheckOptionNames(call) \o Checks(<<<<Is(call, "bad_option"), "InvalidPostError">>>>)

\* A handle nobody has is a mention without a link; other errors are errors.
DidFor == Bearing({"InvalidPostError"} \cup NotFoundErrors, Get("handle"))
NotesOn(call) == When(Is(call, "mentions"), DidFor)

ReplyReference(call) ==
  When(Is(call, "reply"), Learn("parent") \o Unless("parent", Refuse("InvalidPostError")))

Upload(item, i) ==
  Checks(<<<<item.from = "url", "InvalidPostError">>>>) \o Make(Slot(1, i))

Publish(call) ==
  CheckedLangs(call) \o CheckPost(call, Has, KnownLimits)
  \o NotesOn(call) \o ReplyReference(call) \o EachItem(call, Upload)
  \o Send("post", Slots(call, 1)) \o Return("DONE")

Reply(call) == Publish(With(call, "reply"))
DeletePost == Unset("post") \o Return("DONE")

ReadProfile == Get("profile") \o Return("DONE")
FetchUpdates == Get("notifications") \o Return("DONE")
ReadPost == Learn("post") \o Unless("post", Refuse("PostGoneError")) \o Return("DONE")
ReadThread == Get("thread") \o Return("DONE")
ReadLikes == Get("likes") \o Return("DONE")

\* A like is a record: the network makes as many as it is asked for.
ViewerLike == Learn("like")
Like_Unread == Learn("post") \o Unless("post", Refuse("PostGoneError"))
               \o Add("like") \o Return("DONE")
Like ==
  Learn("post") \o Unless("post", Refuse("PostGoneError"))
  \o ViewerLike \o OnlyIf("like", Return("DONE"))
  \o Add("like") \o Return("DONE")

\* The record deleted is the one that was read, or the one the app names.
Unlike(call) ==
  When(~Is(call, "by_id"), ViewerLike \o Unless("like", Return("DONE")))
  \o Drop("like") \o Return("DONE")

-----------------------------------------------------------------------------
OwnMarker(call) == Checks(<<<<Is(call, "foreign_marker"), "ConfigError">>>>)
MarkSeen(call) == OwnMarker(call) \o Set("seen") \o Return("DONE")

ReadConversations == Get("conversations") \o Return("DONE")
ReadMessages == Get("messages") \o Return("DONE")

\* A message without a moment it was sent at is an error, after it was sent;
\* Calls lets every reply lack what is read from it.
SendMessage(call) == CheckOptionNames(call) \o Send("message", {}) \o Return("DONE")
MarkRead == Set("read") \o Return("DONE")
StartConversation == Get("conversation") \o Send("message", {}) \o Return("DONE")

-----------------------------------------------------------------------------
AnswerTo(call, field) == Checks(<<<<Is(call, field), "AuthError">>>>)
StartLogin == Return("DONE")

\* The picture is left out if it cannot be read.
FinishLogin(call) ==
  AnswerTo(call, "no_handle") \o AnswerTo(call, "no_password")
  \o Make("session") \o Bearing(NetworkErrors, Get("profile")) \o Return("DONE")

\* refresh: only a refusal of the refresh token itself means signing in again.
Refresh(call) ==
  NoRenewal(call) \o Caught({"AuthError"}, "TokenExpiredError", Spend("refresh_token")) \o Return("DONE")

-----------------------------------------------------------------------------
Operations(call) ==
  [limits |-> Return("DONE"),
   publish |-> Publish(call),
   reply |-> Reply(call),
   delete_post |-> DeletePost,
   read_profile |-> ReadProfile,
   fetch_updates |-> FetchUpdates,
   read_post |-> ReadPost,
   read_thread |-> ReadThread,
   read_likes |-> ReadLikes,
   like |-> Like,
   unlike |-> Unlike(call),
   mark_seen |-> MarkSeen(call),
   read_conversations |-> ReadConversations,
   read_messages |-> ReadMessages,
   send_message |-> SendMessage(call),
   mark_read |-> MarkRead,
   start_conversation |-> StartConversation,
   start_login |-> StartLogin,
   finish_login |-> FinishLogin(call),
   refresh |-> Refresh(call)]
=============================================================================
