------------------------------- MODULE Scripts -------------------------------
(***************************************************************************)
(* What the scripts of the networks' operations have in common, whatever   *)
(* else they do.  It is seen by reading a script and the errors of its     *)
(* network, and is all that the proofs about Calls need to know of one.    *)
(***************************************************************************)
EXTENDS Requests

Results == {"DONE", "SCHEDULED", "PROCESSING", "WAITING_FOR_PERSON", "FAILED"}
Local == {"refuse", "return"}
Waits == {"wait", "watch"}
Creates == {"make", "begin"}
Reads == {"learn", "search"}
Changing == {"add", "set", "unset", "drop", "spend"}

\* A post of Mastodon's, asked for as such or as an answer; and another one with
\* all of it the same but, it may be, what is in its files and where they are.
Fingerprinted(call) == call.net = "mastodon" /\ call.does \in {"publish", "reply"}
AskedWords(call) == IF call.does = "reply" THEN call.is \cup {"reply"} ELSE call.is
SameFilesByName(call, other) ==
  /\ Len(call.media) = Len(other.media)
  /\ \A i \in DOMAIN call.media :
       /\ call.media[i].kind = other.media[i].kind
       /\ call.media[i].name = other.media[i].name
       /\ (call.media[i].from = "url") = (other.media[i].from = "url")
SameByName(call, other) ==
  /\ Fingerprinted(call) /\ Fingerprinted(other)
  /\ AskedWords(call) = AskedWords(other) /\ SameFilesByName(call, other)

\* What may go out when nothing was said of it.
HoldsVideo(call, part) ==
  \E i \in DOMAIN call.media :
    call.media[i].kind = "video" /\ part \in {Slot(1, i), <<"carousel">>}
MayGoOutEarly(call, part) ==
  \/ call.net \in {"x", "pinterest"}
  \/ call.net \in {"instagram", "threads"} /\ ~HoldsVideo(call, part)

Protected(call) ==
  \/ Fingerprinted(call)
  \/ call.net = "instagram" /\ call.does = "send_message"
  \/ call.net \in {"tiktok", "youtube"}
LooksAfterwards(call) == call.does = "start_conversation"

\* An error after part of it went out says so, in the operations that make
\* more than one thing public (PartialThreadError, raw["already_sent"]).
TellsWhatWentOut_Threads(call) == call.does = "publish_thread"
TellsWhatWentOut(call) ==
  \/ call.does = "publish_thread"
  \/ call.does = "send_message" /\ call.media # <<>>

-----------------------------------------------------------------------------
\* Steps nobody gets past without having done them; and those behind a check
\* that always fails.
SendsOf(script) == {i \in DOMAIN script : script[i].does = "send"}
Always(script, i) == script[i].unless = "" /\ script[i].only = ""
Surely(script, i) == Always(script, i) /\ script[i].soft = {}
Barred(script, i) == \E k \in 1..i - 1 : script[k].does = "refuse" /\ Always(script, k)

\* No call gets past this step before what it names is finished, or is taken to be.
Finishes(script, j) ==
  /\ script[j].does \in Waits \cup {"make"}
  /\ Surely(script, j)
  /\ \A k \in DOMAIN script : (k > j /\ script[k].does = "begin")
       => script[k].what # script[j].what
UsesWhatIsFinished(script) ==
  \A i \in SendsOf(script) :
    \/ Barred(script, i)
    \/ \A used \in script[i].uses :
         \E j \in 1..i - 1 : Finishes(script, j) /\ script[j].what = used

\* And it waits only for what it has made.
AwaitsWhatItMade(script) ==
  \A i \in DOMAIN script : script[i].does \in Waits =>
    \/ Barred(script, i)
    \/ \E j \in 1..i - 1 :
         script[j].does \in Creates /\ Surely(script, j) /\ script[j].what = script[i].what

\* And it trusts a reply that says nothing only about some things.
TrustsSilence(call, script) ==
  \A i \in DOMAIN script :
    script[i].silent = "trusts" => MayGoOutEarly(call, script[i].what)

\* It has an end.
HasAnEnd(script) ==
  /\ Len(script) \in Nat \ {0} /\ DOMAIN script = 1..Len(script)
  /\ script[Len(script)].does \in Local /\ Always(script, Len(script))

\* No error is taken for a call under way, and no call gets to a method that its
\* network declares and does not have.
NamesErrors(script, errors) ==
  /\ {"running", "missing_method"} \cap (errors.busy \cup errors.refused) = {}
  /\ \A i \in DOMAIN script :
       /\ script[i].as \notin {"running", "missing_method"}
       /\ script[i].does = "return" => script[i].what \subseteq Results
       /\ script[i].does = "refuse"
            => /\ script[i].what # "running"
               /\ Barred(script, i) \/ script[i].what # "missing_method"

\* What our own checks refuse, they refuse before anything is public, and before
\* any file is at the network, unless a file may come from an address.
ChecksFirst(call, script) ==
  \A i \in DOMAIN script : script[i].does = "refuse" =>
    \A j \in 1..i - 1 :
      script[j].does # "send" /\ (script[j].does \in Creates => AnyFrom(call, "url"))

\* What it sends differs, and what is to go out once is not sent a second time,
\* or known again by its key.
SendsEachOnce(call, script) ==
  /\ \A i, j \in SendsOf(script) : script[i].what = script[j].what => i = j
  /\ Protected(call) => \A i \in SendsOf(script) : script[i].once \/ script[i].key # <<>>

\* Behind what goes out nothing can fail, where an error does not tell of it.
IsDoneOnceSent(call, script) ==
  \/ TellsWhatWentOut(call) \/ LooksAfterwards(call)
  \/ \A i \in SendsOf(script) : \A j \in DOMAIN script : j > i => script[j].does = "return"

\* A key is that of one thing; but for an upload's own, of posts that are the
\* same by the names of their files.
KeysTellApart(call, script, other, its) ==
  \A i \in SendsOf(script), j \in SendsOf(its) :
    (script[i].key # <<>> /\ script[i].key = its[j].key)
      => /\ script[i].what = its[j].what
         /\ script[i].key = Session \/ SameByName(call, other)

\* A fingerprint is made of the post and, for a reply, of who may see its parent,
\* which has been read.
ReadsPublic(script, j) == script[j].does \in Reads /\ script[j].what = "public"
IsFingerprinted(script) ==
  /\ \A i, j \in SendsOf(script) : i = j /\ script[i].key \notin {<<>>, Session}
  /\ \/ \A j \in DOMAIN script : ~ReadsPublic(script, j)
     \/ \A i \in SendsOf(script) : \E j \in 1..i - 1 :
          ReadsPublic(script, j) /\ Surely(script, j)
LeavesPublicAlone(script) ==
  \A j \in DOMAIN script : script[j].does \in Changing => script[j].what # "public"

\* The errors that a request becomes say "sign in again" only if it was refused,
\* and a refresh token is spent at one place.
SignsInForACause(call, script, errors) ==
  /\ "TokenExpiredError" \notin errors.busy \cup errors.refused
  /\ \A i \in DOMAIN script :
       /\ (script[i].does = "refuse" /\ script[i].what = "TokenExpiredError")
            => Is(call, "no_refresh_token")
       /\ script[i].as = "TokenExpiredError"
            => /\ script[i].caught \cap {"Trouble", "RateLimitError"} = {}
               /\ script[i].does = "spend" => script[i].what = "refresh_token"
       /\ (script[i].does \in Reads \cup Changing /\ script[i].what = "refresh_token")
            => /\ script[i].does = "spend"
               /\ \A j \in DOMAIN script :
                    (script[j].does = "spend" /\ script[j].what = "refresh_token") => i = j

\* Before it adds a like it has looked for one, and ended if there was.
AddsALike(script, i) == script[i].does = "add" /\ script[i].what = "like"
LooksForALike(script, j) ==
  script[j].does \in Reads /\ script[j].what = "like" /\ Surely(script, j)
EndsForALike(script, k) ==
  script[k].does \in Local /\ script[k].unless = "" /\ script[k].only = "like"
LikesOnce(script) ==
  \A i \in DOMAIN script : AddsALike(script, i) =>
    \E k \in 1..i - 1 : \E j \in 1..k - 1 :
      /\ LooksForALike(script, j) /\ EndsForALike(script, k)
      /\ \A m \in j + 1..i - 1 : ~(script[m].does \in Changing /\ script[m].what = "like")

-----------------------------------------------------------------------------
WellBuiltScript(call, script, errors) ==
  /\ HasAnEnd(script) /\ NamesErrors(script, errors)
  /\ UsesWhatIsFinished(script) /\ AwaitsWhatItMade(script)
  /\ TrustsSilence(call, script)
  /\ ChecksFirst(call, script)
  /\ SendsEachOnce(call, script) /\ IsDoneOnceSent(call, script)
  /\ Fingerprinted(call) => IsFingerprinted(script)
  /\ LeavesPublicAlone(script)
  /\ SignsInForACause(call, script, errors) /\ LikesOnce(script)
=============================================================================
