------------------------------ MODULE Networks ------------------------------
(***************************************************************************)
(* registry.py: the networks by name, each with what it declares, what it  *)
(* allows and its operations; and the script of a call on any of them.     *)
(***************************************************************************)
EXTENDS Account

Mastodon == INSTANCE Mastodon
Bluesky == INSTANCE Bluesky
X == INSTANCE X
Instagram == INSTANCE Instagram
Threads == INSTANCE Threads
Facebook == INSTANCE Facebook
Pinterest == INSTANCE Pinterest
TikTok == INSTANCE TikTok
YouTube == INSTANCE YouTube
GoogleBusiness == INSTANCE GoogleBusiness
TikTokBusiness == INSTANCE TikTokBusiness

\* What each of them may answer to a request it does not serve.
ErrorsOf ==
  [mastodon |-> Mastodon!Errors, bluesky |-> Bluesky!Errors, x |-> X!Errors,
   instagram |-> Instagram!Errors, threads |-> Threads!Errors,
   facebook |-> Facebook!Errors, pinterest |-> Pinterest!Errors,
   tiktok |-> TikTok!Errors, youtube |-> YouTube!Errors,
   google_business |-> GoogleBusiness!Errors, tiktok_business |-> TikTokBusiness!Errors]

\* get_platform_class, and _publish's question what the network allows.
ScriptOf(call) ==
  CASE call.net = "mastodon" ->
         Asks(call, Mastodon!Has, Mastodon!ServerLimits, Mastodon!Operations(call))
    [] call.net = "bluesky" ->
         Asks(call, Bluesky!Has, Bluesky!KnownLimits, Bluesky!Operations(call))
    [] call.net = "x" -> Asks(call, X!Has, X!Allowed, X!Operations(call))
    [] call.net = "instagram" ->
         Asks(call, Instagram!Has, Instagram!WhatItAllows, Instagram!Operations(call))
    [] call.net = "threads" ->
         Asks(call, Threads!Has, Threads!WhatItAllows, Threads!Operations(call))
    [] call.net = "facebook" ->
         Asks(call, Facebook!Has, Facebook!Allowed, Facebook!Operations(call))
    [] call.net = "pinterest" ->
         Asks(call, Pinterest!Has, Pinterest!Allowed, Pinterest!Operations(call))
    [] call.net = "tiktok" -> Asks(call, TikTok!Has, TikTok!Allowed, TikTok!Operations(call))
    [] call.net = "youtube" ->
         Asks(call, YouTube!Has, YouTube!Allowed, YouTube!Operations(call))
    [] call.net = "google_business" ->
         Asks(call, GoogleBusiness!Has, GoogleBusiness!Allowed, GoogleBusiness!Operations(call))
    [] call.net = "tiktok_business" ->
         Asks(call, TikTokBusiness!Has, TikTokBusiness!Allowed, TikTokBusiness!Operations(call))
=============================================================================
