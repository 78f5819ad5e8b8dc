------------------------------ MODULE Account -------------------------------
(***************************************************************************)
(* client.py: what SocialChimp and the Account it hands out do before and  *)
(* around the network's own operation.  How a token is kept fresh is in    *)
(* TokenRenewal; here a connection is known or it is not.                  *)
(***************************************************************************)
EXTENDS Features

\* fresh_connection
Connection(call) == Checks(<<<<Is(call, "unknown_connection"), "ConfigError">>>>)

\* The feature a network has to declare for a method, by the methods' places
\* in the code: reading one post, answering and liking, following, messages,
\* the first message and the app, what becomes of a post.
OfReading == [read_post |-> "READ_POST", read_thread |-> "READ_THREAD"]
OfAnswering ==
  [reply |-> "REPLY_TO_COMMENTS", like |-> "LIKE", unlike |-> "LIKE",
   read_likes |-> "READ_LIKES"]
OfFollowing == [mark_seen |-> "READ_UPDATES_AFTER"]
OfMessages ==
  [read_conversations |-> "MESSAGES", read_messages |-> "MESSAGES",
   send_message |-> "MESSAGES", mark_read |-> "MESSAGES"]
OfStarting ==
  [start_conversation |-> "START_CONVERSATIONS", subscribe_to_updates |-> "SUBSCRIBE_APP"]
OfKeeping == [delete_post |-> "DELETE_POST", read_stats |-> "READ_STATS"]
OfApps == [create_app |-> "CREATE_APP"]
FeatureOf ==
  OfReading @@ OfAnswering @@ OfFollowing @@ OfMessages @@ OfStarting @@ OfKeeping @@ OfApps

\* Methods that need none: having the method is enough.
OfPosts == {"read_profile", "check_state", "fetch_updates", "read_replies"}
OfUpdates == {"reply_to_update", "delete_comment", "set_comment_visibility"}
OfPlaces ==
  {"get_location", "update_location", "verification_options", "start_verification",
   "complete_verification", "verification_state"}

\* _refuse
Refusing(feature, features) == Checks(<<<<feature \notin features, "NotSupportedError">>>>)

\* _missing_method, or the NotSupportedError of a method without a feature.
WithMethod(method, operations, error) ==
  IF method \in DOMAIN operations THEN operations[method] ELSE Refuse(error)
MissingMethod == "missing_method"

\* _publish: what the network allows at the moment, our checks against that,
\* and then the network's own.
Post(call, features, allowed, operations) ==
  Connection(call) \o Front(operations.limits) \o CheckPost(call, features, allowed)
  \o operations.publish

\* A message with files is another method, and another feature.
SendMessage(call, features, operations) ==
  Connection(call) \o Refusing("MESSAGES", features)
  \o (IF call.media = <<>> THEN WithMethod("send_message", operations, MissingMethod)
      ELSE Refusing("MESSAGE_MEDIA", features)
           \o WithMethod("send_message_with_media", operations, MissingMethod))

\* The sign-in's own methods: no connection yet, but an app (_login_request).
LoginRequest(call, features) ==
  When("NEEDS_NO_APP" \notin features, Checks(<<<<Is(call, "no_app"), "ConfigError">>>>))
SigningIn == {"start_login", "finish_login"}
Choose(call, features, operations) ==
  When("resume_login" \in DOMAIN operations, LoginRequest(call, features))
  \o WithMethod("resume_login", operations, "NotSupportedError")

\* What is asked of a network directly, and by TokenManager (_renewal_for).
OfItsOwn == {"refresh", "publish_thread", "boards", "limits"}

Asks(call, features, allowed, operations) ==
  CASE call.does = "publish" -> Post(call, features, allowed, operations)
    [] call.does = "send_message" -> SendMessage(call, features, operations)
    [] call.does \in SigningIn -> LoginRequest(call, features) \o operations[call.does]
    [] call.does = "resume_login" -> Choose(call, features, operations)
    [] call.does \in OfItsOwn -> operations[call.does]
    [] call.does \in OfPosts \cup OfUpdates \cup OfPlaces ->
         Connection(call) \o WithMethod(call.does, operations, "NotSupportedError")
    [] call.does \in DOMAIN OfApps ->
         Refusing(FeatureOf[call.does], features)
         \o WithMethod(call.does, operations, MissingMethod)
    [] OTHER ->
         Connection(call) \o Refusing(FeatureOf[call.does], features)
         \o WithMethod(call.does, operations, MissingMethod)
=============================================================================
