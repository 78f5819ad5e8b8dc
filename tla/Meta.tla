--------------------------------- MODULE Meta -------------------------------
(***************************************************************************)
(* platforms/_meta.py: what Facebook, Instagram and Threads do alike.      *)
(***************************************************************************)
EXTENDS Features

AppMustBeMadeByHand == Refuse("NotSupportedError")
CredentialsOrRefuse(call) == NoApp(call)
CheckState(call) == OtherState(call)
CodeFrom(call) == NoCode(call)
WhereToPost(call) == Checks(<<<<Is(call, "no_account_id"), "ConfigError">>>>)

\* A code is good for one request.
SwapCodeForToken == Spend("code")
LongLivedToken == Get("long_lived_token")

\* read_edge, pages_of: page after page of what somebody manages.
ReadEdge(edge) == Get(edge)
PagesOf == Search("page")
PageById == Learn("page") \o Unless("page", Refuse("AuthError"))

\* A refusal of the token, and nothing else, means signing in again.
RenewWithItself == Caught({"AuthError"}, "TokenExpiredError", Get("renewed_token"))

\* _error_from: what Meta says counts, not the status it comes with.
ErrorsMetaNames ==
  [token |-> "AuthError", slow_down |-> "RateLimitError", permission |-> "NotAllowedError",
   policy |-> "NotAllowedError", duplicate |-> "InvalidPostError",
   not_understood |-> "InvalidPostError", other_code |-> "PlatformError"]
MetaErrors(status, said) == Named(ErrorsMetaNames, said, status)
=============================================================================
