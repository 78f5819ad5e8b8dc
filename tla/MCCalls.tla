------------------------------ MODULE MCCalls -------------------------------
(***************************************************************************)
(* Every operation of every network, asked for once, with what can be      *)
(* wrong with it one at a time; and some of them asked for twice at once.  *)
(***************************************************************************)
EXTENDS Calls, Networks

Nothing == <<>>
Picture == <<Item("image", "file")>>
Video == <<Item("video", "file")>>
LinkedPicture == <<Item("image", "url")>>
LinkedVideo == <<Item("video", "url")>>
Pictures == Picture \o Picture
Mixed == LinkedPicture \o LinkedVideo
TooMany == Pictures \o Pictures \o Picture
Sound == <<Item("audio", "file")>>
BigPicture == <<File("image", "file", "usual", "much")>>
SmallVideo == <<File("video", "file", "usual", "little")>>
RenamedPicture == <<File("image", "file", "other", "little")>>

\* One call for each word of what may be wrong, on top of the usual ones.
Calls1(net, does, medias, usual, words) ==
  {Call(net, does, media, usual \cup also) :
     media \in medias, also \in {{}} \cup {{word} : word \in words}}
Plain(net, ops) == UNION {Calls1(net, op, {Nothing}, {}, {}) : op \in ops}

SignInWords ==
  {"no_app", "other_state", "declined", "no_code", "no_notes", "no_host",
   "no_handle", "no_password", "no_refresh_token"}
SignIns(net) ==
  Calls1(net, "start_login", {Nothing}, {}, {"no_app", "no_host"})
  \cup Calls1(net, "finish_login", {Nothing}, {}, SignInWords)
  \cup Calls1(net, "refresh", {Nothing}, {}, {"no_app", "no_refresh_token", "rotates"})
Chooses(net) ==
  Calls1(net, "resume_login", {Nothing}, {}, {"no_app", "no_resume_token", "not_offered"})
PostWords ==
  {"later", "reply", "long", "unknown_option", "bad_option", "unknown_connection",
   "no_account_id"}
Posts(net, medias, usual, words) ==
  Calls1(net, "publish", medias, usual, PostWords \cup words)

OfMastodon ==
  Posts("mastodon", {Nothing, Picture, Video, LinkedPicture, TooMany, Sound}, {}, {})
  \cup Calls1("mastodon", "publish", {BigPicture, SmallVideo, RenamedPicture}, {}, {})
  \cup Calls1("mastodon", "reply", {Nothing, Picture}, {}, {"long"})
  \cup Plain("mastodon", {"limits", "delete_post", "read_stats", "read_post", "read_thread",
         "read_profile", "like", "unlike", "read_likes", "mark_seen", "fetch_updates",
         "read_conversations", "start_conversation", "create_app", "check_state"})
  \cup Calls1("mastodon", "read_messages", {Nothing}, {}, {"in_place"})
  \cup Calls1("mastodon", "mark_read", {Nothing}, {}, {"in_place"})
  \cup Calls1("mastodon", "send_message", {Nothing, Picture, Video, Picture \o Video},
              {}, {"in_place", "long"})
  \cup SignIns("mastodon")
OfBluesky ==
  Posts("bluesky", {Nothing, Picture, Pictures, Video, LinkedPicture}, {}, {"mentions"})
  \cup Plain("bluesky", {"delete_post", "read_profile", "fetch_updates", "read_post",
         "read_thread", "read_likes", "like", "read_conversations", "read_messages",
         "mark_read", "start_conversation", "create_app", "read_replies"})
  \cup Calls1("bluesky", "reply", {Nothing, Picture}, {}, {})
  \cup Calls1("bluesky", "unlike", {Nothing}, {}, {"by_id"})
  \cup Calls1("bluesky", "mark_seen", {Nothing}, {}, {"foreign_marker"})
  \cup Calls1("bluesky", "send_message", {Nothing, Picture}, {}, {"unknown_option"})
  \cup SignIns("bluesky")
OfX ==
  Posts("x", {Nothing, Picture, Video, LinkedVideo}, {}, {})
  \cup Calls1("x", "publish", {BigPicture, SmallVideo, Pictures}, {}, {})
  \cup Calls1("x", "publish_thread", {Nothing, Picture}, {},
              {"no_posts", "long", "reply", "second_long", "second_reply"})
  \cup Plain("x", {"delete_post", "read_profile", "fetch_updates", "like"})
  \cup SignIns("x")
OfInstagram ==
  Posts("instagram", {Nothing, LinkedPicture, LinkedVideo, Picture, Mixed}, {},
        {"carousel", "hashtags"})
  \cup Plain("instagram", {"limits", "read_profile", "create_app", "read_conversations",
         "mark_read"})
  \cup Calls1("instagram", "read_messages", {Nothing}, {}, {"after"})
  \cup Calls1("instagram", "send_message", {Nothing, LinkedPicture, Picture, Mixed}, {},
              {"unknown_option", "empty"})
  \cup Calls1("instagram", "refresh", {Nothing}, {}, {"young_token"})
  \cup SignIns("instagram")
OfThreads ==
  Posts("threads", {Nothing, LinkedPicture, LinkedVideo, Picture, Mixed}, {}, {"carousel"})
  \cup Plain("threads", {"limits", "read_profile", "delete_post", "read_stats",
         "read_replies", "fetch_updates", "delete_comment", "create_app"})
  \cup Calls1("threads", "reply_to_update", {Nothing}, {}, {"not_answerable", "no_id"})
  \cup Calls1("threads", "set_comment_visibility", {Nothing}, {}, {"hide", "no_id"})
  \cup Calls1("threads", "refresh", {Nothing}, {}, {"young_token"})
  \cup SignIns("threads")
OfFacebook ==
  Posts("facebook", {Nothing, Picture, Pictures, Video, Picture \o Video}, {}, {})
  \cup Posts("facebook", {Nothing}, {"later"}, {"too_soon", "too_late"})
  \cup Plain("facebook", {"check_state", "delete_post", "read_stats", "read_profile",
         "fetch_updates", "create_app"})
  \cup Calls1("facebook", "mark_seen", {Nothing}, {}, {"foreign_marker"})
  \cup Calls1("facebook", "subscribe_to_updates", {Nothing}, {}, {"bad_fields"})
  \cup Calls1("facebook", "refresh", {Nothing}, {}, {"page_token"})
  \cup SignIns("facebook") \cup Chooses("facebook")
OfPinterest ==
  Posts("pinterest", {Nothing, Picture, LinkedPicture \o Picture, Video, LinkedVideo}, {},
        {"no_board", "no_scope"})
  \cup Plain("pinterest", {"delete_post", "boards", "read_profile"})
  \cup SignIns("pinterest")
OfTikTok ==
  Posts("tiktok", {Video, Picture, LinkedVideo}, {"to_profile"}, {"bad_setting"})
  \cup Posts("tiktok", {Video}, {"empty"}, {"settings"})
  \cup Plain("tiktok", {"check_state", "read_profile"}) \cup SignIns("tiktok")
OfYouTube ==
  Posts("youtube", {Video, Nothing, LinkedVideo}, {},
        {"no_title", "bad_tags", "kids_unsaid", "bad_privacy"})
  \cup Plain("youtube", {"check_state", "read_profile", "fetch_updates"})
  \cup SignIns("youtube") \cup Chooses("youtube")
OfGoogleBusiness ==
  Posts("google_business", {Nothing, LinkedPicture, Picture}, {}, {})
  \cup Calls1("google_business", "reply_to_update", {Nothing}, {},
              {"review", "not_answerable"})
  \cup Calls1("google_business", "update_location", {Nothing}, {}, {"no_fields"})
  \cup Plain("google_business", {"fetch_updates", "get_location", "verification_options",
         "start_verification", "complete_verification", "verification_state"})
  \cup SignIns("google_business") \cup Chooses("google_business")
OfTikTokBusiness ==
  Posts("tiktok_business", {Nothing, Video}, {}, {})
  \cup Calls1("tiktok_business", "fetch_updates", {Nothing}, {}, {"no_ad", "no_account_id"})
  \cup Calls1("tiktok_business", "reply_to_update", {Nothing}, {},
              {"not_answerable", "no_id"})
  \cup Calls1("tiktok_business", "delete_comment", {Nothing}, {}, {"no_identity"})
  \cup Calls1("tiktok_business", "set_comment_visibility", {Nothing}, {}, {"hide"})
  \cup SignIns("tiktok_business")

AllCalls ==
  OfMastodon \cup OfBluesky \cup OfX \cup OfInstagram \cup OfThreads \cup OfFacebook
  \cup OfPinterest \cup OfTikTok \cup OfYouTube \cup OfGoogleBusiness \cup OfTikTokBusiness
AllScripts == [call \in AllCalls |-> ScriptOf(call)]

\* What is so to begin with: the usual, nothing, or everything.
Usual ==
  {"code", "refresh_token", "pin", "post", "parent", "public", "conversation", "page",
   "channel", "account", "place", "video", "status", "replies", "comments"}
Befores == {Usual, {}, Usual \cup {"used_up", "like"}}
Alone == {[c \in {"app"} |-> call] : call \in AllCalls}

\* The calls two of which at once are of interest.
Shared ==
  {Call("mastodon", "publish", Nothing, {}), Call("mastodon", "reply", Nothing, {}),
   Call("mastodon", "publish", Video, {}),
   Call("bluesky", "like", Nothing, {}), Call("bluesky", "unlike", Nothing, {}),
   Call("x", "refresh", Nothing, {}), Call("pinterest", "refresh", Nothing, {"rotates"}),
   Call("youtube", "finish_login", Nothing, {})}
Together == {[c \in Callers |-> call] : call \in Shared}
PostAndReply ==
  [c \in Callers |-> Call("mastodon", IF c = "app" THEN "publish" ELSE "reply", Nothing, {})]

\* The same words with a picture each: two of one name, or of two names.
PictureAnd(other) ==
  [c \in Callers |-> Call("mastodon", "publish", IF c = "app" THEN Picture ELSE other, {})]
AskedOf == Alone \cup Together
  \cup {PostAndReply, PictureAnd(BigPicture), PictureAnd(RenamedPicture)}
=============================================================================
