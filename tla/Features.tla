------------------------------ MODULE Features ------------------------------
(***************************************************************************)
(* features.py: the checks every network's operations have in common.  A   *)
(* text is as long as the call says ("long": over max_text_length, "heavy":*)
(* over max_text_bytes, "empty"); pictures and videos are counted.         *)
(***************************************************************************)
EXTENDS Requests

Over(count, most) == most # 0 /\ count > most       \* 0 stands for None

\* Limits, as far as the number of files goes.
Limits(images, videos) == [images |-> images, videos |-> videos]

CheckLength(call) == <<<<Is(call, "long") \/ Is(call, "heavy"), "InvalidPostError">>>>

CheckMedia(call, features, limits) ==
  <<<<Carries(call, "audio") \/ Carries(call, "file"), "NotSupportedError">>,
    <<Carries(call, "image") /\ "POST_IMAGE" \notin features, "NotSupportedError">>,
    <<Carries(call, "video") /\ "POST_VIDEO" \notin features, "NotSupportedError">>,
    <<Over(Len(OfKind(call, "image")), limits.images), "InvalidPostError">>,
    <<Over(Len(OfKind(call, "video")), limits.videos), "InvalidPostError">>>>

CheckItIsNotWordsAlone(call, features) ==
  <<<<call.media = <<>> /\ "POST_TEXT" \notin features, "NotSupportedError">>>>

\* check_post.  How many posts are left today is a question of its own to the
\* network: "used_up" is what it last said.
CheckPost(call, features, limits) ==
  Checks(<<<<Is(call, "later") /\ "SCHEDULE" \notin features, "NotSupportedError">>,
           <<Is(call, "reply") /\ "REPLY" \notin features, "NotSupportedError">>>>
         \o CheckLength(call))
  \o OnlyIf("used_up", Refuse("InvalidPostError"))
  \o Checks(CheckMedia(call, features, limits) \o CheckItIsNotWordsAlone(call, features))

CheckOptionNames(call) == Checks(<<<<Is(call, "unknown_option"), "InvalidPostError">>>>)

-----------------------------------------------------------------------------
\* error_from_response (http.py).  A PlatformError whose status is 500 or more,
\* or that has none, is "Trouble"; one with 409 is a "Conflict".
ErrorFromResponse(status) ==
  CASE status = 401 -> "AuthError"
    [] status = 403 -> "NotAllowedError"
    [] status = 404 -> "NotFoundError"
    [] status = 409 -> "Conflict"
    [] status = 429 -> "RateLimitError"
    [] status >= 500 -> "Trouble"
    [] OTHER -> "PlatformError"
PlatformErrors == {"PlatformError", "Conflict", "Trouble"}
NotFoundErrors == {"NotFoundError", "PostGoneError"}
NetworkErrors ==
  PlatformErrors \cup NotFoundErrors
  \cup {"AuthError", "NotAllowedError", "MissingPermissionError", "BlockedError",
        "ReplyWindowClosedError", "RateLimitError", "InvalidPostError"}

\* The error of a reply that says one of these, whatever its status.
Named(names, said, status) ==
  IF said \in DOMAIN names THEN names[said] ELSE ErrorFromResponse(status)

\* What a refusal may become, and what being asked too much of, or trouble.
Replies(Error(_, _), says) ==
  [refused |-> {Error(status, said) : status \in {400, 401, 403, 404, 409, 422},
                                      said \in says \cup {""}},
   busy |-> {Error(status, said) : status \in {429, 500, 503}, said \in says \cup {""}}]

-----------------------------------------------------------------------------
\* What sign-ins check of the request, of the person who came back and of what
\* was kept in between.  A callback without a state is let through by most.
NoApp(call) == Checks(<<<<Is(call, "no_app"), "ConfigError">>>>)
OtherState(call) == Checks(<<<<Is(call, "other_state"), "AuthError">>>>)
NoCode(call) ==
  Checks(<<<<Is(call, "declined"), "AuthError">>, <<Is(call, "no_code"), "AuthError">>>>)
NoNotes(call) == Checks(<<<<Is(call, "no_notes"), "AuthError">>>>)

\* A renewal without a token for it, and one that catches AuthError and
\* PlatformError, but for what is the network's own fault.
NoRenewal(call) == Checks(<<<<Is(call, "no_refresh_token"), "TokenExpiredError">>>>)
RenewalRequest(call) ==
  IF Is(call, "rotates") THEN Spend("refresh_token") ELSE Get("renewed_token")
Renewal(call, ownFault) ==
  Caught(({"AuthError"} \cup PlatformErrors) \ ownFault, "TokenExpiredError",
         RenewalRequest(call))

-----------------------------------------------------------------------------
\* MessageLimits: the kinds of file a message takes and how many of each, how
\* many altogether, whether they may be mixed and where they may come from.
MessageLimits(kinds, most, oneKind, from) ==
  [kinds |-> kinds, most |-> most, oneKind |-> oneKind, from |-> from]

CheckMessageText(call) == <<<<Is(call, "long") \/ Is(call, "heavy"), "InvalidPostError">>>>

CheckMessageFile(item, limits) ==
  <<<<item.kind \notin DOMAIN limits.kinds, "NotSupportedError">>,
    <<item.from = "url" /\ "url" \notin limits.from, "InvalidPostError">>,
    <<item.from = "file" /\ "file" \notin limits.from, "NotSupportedError">>,
    <<item.from = "odd_file" \/ item.from = "big_file", "InvalidPostError">>>>

\* check_message
CheckMessage(call, limits) ==
  LET kinds == {call.media[i].kind : i \in DOMAIN call.media} IN
  Checks(<<<<Is(call, "empty") /\ call.media = <<>>, "InvalidPostError">>>>
         \o CheckMessageText(call))
  \o When(call.media # <<>>,
       Checks(<<<<DOMAIN limits.kinds = {}, "NotSupportedError">>,
                <<Len(call.media) > limits.most, "InvalidPostError">>,
                <<limits.oneKind /\ \E j, k \in kinds : j # k, "InvalidPostError">>>>)
       \o EachItem(call, LAMBDA item, i : Checks(CheckMessageFile(item, limits)))
       \o Checks(<<<<\E kind \in kinds \cap DOMAIN limits.kinds :
                       Over(Len(OfKind(call, kind)), limits.kinds[kind]),
                     "InvalidPostError">>>>))
=============================================================================
