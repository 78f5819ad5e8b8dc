------------------------------- MODULE Calls --------------------------------
(***************************************************************************)
(* Calls on the networks, request by request, when requests and their      *)
(* replies get lost, networks are overloaded or refuse, replies lack what  *)
(* they should carry, and two calls run at once.  What a call does is its  *)
(* Script, made in the network modules of the steps that Requests names.   *)
(* A network does what it is asked as soon as the request arrives; whether *)
(* the caller hears of it is another matter.                               *)
(***************************************************************************)
EXTENDS Scripts

CONSTANTS
  Callers,
  Asked,      \* what may be asked: the call of each caller
  Before,     \* what may be so before
  Script,     \* the steps of every call
  ErrorsFor,  \* each network's errors for a refusal, and for being busy
  Attempts,   \* Retries.attempts
  Patience,   \* how often a wait asks (media_checks, ...); bound: pages of a list
  Faults,     \* which misfortunes may happen
  MaxFaults   \* bound: misfortunes in one behaviour

AllFaults == {"lost", "overloaded", "refused", "garbled", "slow", "failed", "edited"}

ASSUME CallsAssumption ==
  /\ IsFiniteSet(Callers)
  /\ \A calls \in Asked : DOMAIN calls \subseteq Callers
  /\ \A calls \in Asked : Range(calls) \subseteq DOMAIN Script
  /\ Attempts \in Nat \ {0}
  /\ Patience \in Nat \ {0}
  /\ Faults \subseteq AllFaults
  /\ MaxFaults \in Nat

VARIABLES
  asked,     \* the calls of this behaviour
  steps,     \* the steps of each
  at,        \* the step each caller has come to
  tries,     \* failures of its present request (HttpClient.request)
  rounds,    \* times the present step has asked without an answer it can use
  known,     \* what the call has read
  ref,       \* which one of several it has read of, or the app kept
  told,      \* what the call was told went out, in order
  ended,     \* how it ended: a PostState, an error, or nothing yet
  made,      \* network: what it holds of each call's, seen by nobody
  finished,  \* network: what of that it has worked through
  out,       \* network: what of each call's everybody can see, in order
  world,     \* network: what there is of a fact, each with a number
  keys,      \* network: the Idempotency-Keys it has seen
  kept,      \* what the process remembers of earlier replies
  faults,    \* misfortunes so far
  history    \* what befell whom: <<caller, misfortune>>; facts that somebody
             \* edited, or that were absent to begin with

vars == <<asked, steps, at, tries, rounds, known, ref, told, ended, made, finished, out,
          world, keys, kept, faults, history>>
caller == <<at, tries, rounds, known, ref, told, ended>>
network == <<made, finished, out, world, keys>>

Now(c) == steps[c][at[c]]
Running(c) == ended[c] = "running"

\* What there can be more or less of, and what some call reads of that.
FactsIn(kinds) ==
  UNION {{steps[c][i].what : i \in {j \in DOMAIN steps[c] : steps[c][j].does \in kinds}} :
         c \in DOMAIN steps}
FactsRead == FactsIn({"learn", "search"})
Facts == FactsRead \cup FactsIn({"add", "set", "unset", "drop", "spend"})

Omitted(c) ==
  \/ Now(c).unless # "" /\ Now(c).unless \in known[c]
  \/ Now(c).only # "" /\ Now(c).only \notin known[c]
Does(c, kinds) == Running(c) /\ ~Omitted(c) /\ Now(c).does \in kinds

\* X looks at the answer it has - the first came with the upload - and asks for
\* another one at the end of the round; the last one is not looked at.
Heard(c) == "news" \in known[c]
MayAsk(c) == Now(c).does = "watch" => ~Heard(c) /\ rounds[c] < Patience
MayLook(c) == Now(c).does = "watch" => (Heard(c) \/ rounds[c] = 0) /\ rounds[c] < Patience
Requesting(c) == Running(c) /\ ~Omitted(c) /\ Now(c).does \notin Local /\ MayAsk(c)

Misfortune(fault) == fault \in Faults /\ faults < MaxFaults /\ faults' = faults + 1

-----------------------------------------------------------------------------
Init ==
  /\ asked \in Asked
  /\ steps = [c \in DOMAIN asked |-> Script[asked[c]]]
  /\ at = [c \in DOMAIN asked |-> 1]
  /\ tries = [c \in DOMAIN asked |-> 0]
  /\ rounds = [c \in DOMAIN asked |-> 0]
  /\ known = [c \in DOMAIN asked |-> {}]
  /\ ref = [c \in DOMAIN asked |-> 1]
  /\ told = [c \in DOMAIN asked |-> <<>>]
  /\ ended = [c \in DOMAIN asked |-> "running"]
  /\ made = [c \in DOMAIN asked |-> {}]
  /\ finished = [c \in DOMAIN asked |-> {}]
  /\ out = [c \in DOMAIN asked |-> <<>>]
  /\ \E before \in Before : world = [f \in Facts |-> IF f \in before THEN {1} ELSE {}]
  /\ keys = {} /\ kept = {}
  /\ faults = 0
  /\ history = {<<f, "absent">> : f \in {g \in Facts : world[g] = {}}}

-----------------------------------------------------------------------------
\* What a request changes at the network the moment it arrives.

\* A reply is made with what was read of its parent, and so is its key.
KeyOf_PerCall(c) == <<Now(c).key, {c}>>
KeyOf(c) == <<Now(c).key, IF Now(c).key = Session THEN {c} ELSE known[c] \cap {"public"}>>

\* Work on what was sent goes on by itself; only `begin` leaves some to do.
Created(c) ==
  /\ made' = [made EXCEPT ![c] = @ \cup {Now(c).what}]
  /\ finished' = [finished EXCEPT ![c] =
       IF Now(c).does = "begin" THEN @ \ {Now(c).what} ELSE @ \cup {Now(c).what}]
  /\ UNCHANGED <<out, world, keys>>

\* What went out, and what of it was not finished at that moment.
Published(c) ==
  /\ IF Now(c).key # <<>> /\ KeyOf(c) \in keys
     THEN UNCHANGED <<out, keys>>
     ELSE /\ out' = [out EXCEPT ![c] = Append(@,
                [what |-> Now(c).what, early |-> Now(c).uses \ finished[c]])]
          /\ keys' = IF Now(c).key = <<>> THEN keys ELSE keys \cup {KeyOf(c)}
  /\ UNCHANGED <<made, finished, world>>

NewNumber(fact) ==
  CHOOSE n \in 1..Cardinality(world[fact] \cup Range(ref)) + 1 :
    n \notin world[fact] \cup Range(ref)
Changed(c) ==
  LET fact == Now(c).what IN
  /\ world' = [world EXCEPT ![fact] =
       CASE Now(c).does = "add" -> @ \cup {NewNumber(fact)}
         [] Now(c).does = "set" -> {1}
         [] Now(c).does = "drop" -> @ \ {ref[c]}
         [] Now(c).does \in {"unset", "spend"} -> {}]
  /\ UNCHANGED <<made, finished, out, keys>>

Effect(c) ==
  CASE Now(c).does \in {"make", "begin"} -> Created(c)
    [] Now(c).does = "send" -> Published(c)
    [] Now(c).does \in {"add", "set", "unset", "drop", "spend"} -> Changed(c)
    [] OTHER -> UNCHANGED network

Changes(c) ==
  Now(c).does \in {"make", "begin", "send", "add", "set", "unset", "drop", "spend"}

\* A code that was used, a thing that is gone: the network refuses.
Refusable(c) == Now(c).does = "spend" /\ world[Now(c).what] = {}

-----------------------------------------------------------------------------
\* What the call makes of it.

Advance(c) ==
  /\ at' = [at EXCEPT ![c] = @ + 1]
  /\ tries' = [tries EXCEPT ![c] = 0]
  /\ rounds' = [rounds EXCEPT ![c] = 0]
  /\ UNCHANGED ended

RaisedAs(c, error) ==
  IF TellsWhatWentOut(asked[c]) /\ told[c] # <<>> THEN "PartialThreadError" ELSE error

End(c, how) ==
  /\ ended' = [ended EXCEPT ![c] = how]
  /\ UNCHANGED <<at, tries, rounds>>

Raise(c, error) == End(c, RaisedAs(c, error))

\* A request fails for good: an error, unless the call does without it.
NamedAs(c, error) ==
  IF error \in Now(c).caught THEN Now(c).as
  ELSE IF error = "Refusal" THEN "PlatformError" ELSE error
GiveUp(c, error) ==
  IF error \in Now(c).soft THEN Advance(c) ELSE Raise(c, NamedAs(c, error))

\* The next step does not concern this call.
Omit(c) ==
  /\ Running(c) /\ Omitted(c)
  /\ Advance(c)
  /\ UNCHANGED <<asked, steps, known, ref, told, network, kept, faults, history>>

\* A check of our own fails: no request is made.
FailCheck(c) ==
  /\ Does(c, {"refuse"})
  /\ Raise(c, Now(c).what)
  /\ UNCHANGED <<asked, steps, known, ref, told, network, kept, faults, history>>

Finish(c) ==
  /\ Does(c, {"return"})
  /\ \E state \in Now(c).what : End(c, state)
  /\ UNCHANGED <<asked, steps, known, ref, told, network, kept, faults, history>>

\* A reply kept from an earlier call is young enough.
UseKept(c) ==
  /\ Does(c, {"cached"}) /\ Now(c).what \in kept
  /\ Advance(c)
  /\ UNCHANGED <<asked, steps, known, ref, told, network, kept, faults, history>>

Reading(c) == Now(c).does \in {"learn", "search"}
Holds(fact) == world[fact] # {}
Learned(c) ==
  IF ~Reading(c) THEN known[c]
  ELSE IF Holds(Now(c).what) THEN known[c] \cup {Now(c).what}
  ELSE known[c] \ {Now(c).what}
Newest(numbers) == CHOOSE n \in numbers : \A m \in numbers : m <= n

\* A request that is served, and answered.
Serve(c) ==
  /\ Requesting(c)
  /\ ~Refusable(c)
  /\ Now(c).does \notin {"wait", "watch"}
  /\ Effect(c)
  /\ Advance(c)
  /\ known' = [known EXCEPT ![c] = Learned(c)]
  /\ ref' = IF Reading(c) /\ Holds(Now(c).what)
            THEN [ref EXCEPT ![c] = Newest(world[Now(c).what])] ELSE ref
  /\ told' = IF Now(c).does = "send" THEN [told EXCEPT ![c] = Append(@, Now(c).what)]
             ELSE told
  /\ kept' = IF Now(c).does = "cached" THEN kept \cup {Now(c).what} ELSE kept
  /\ UNCHANGED <<asked, steps, faults, history>>

\* The next page of a list that what it looks for is not on.
TurnPage(c) ==
  /\ Does(c, {"search"})
  /\ rounds[c] + 1 < Patience
  /\ rounds' = [rounds EXCEPT ![c] = @ + 1]
  /\ tries' = [tries EXCEPT ![c] = 0]
  /\ UNCHANGED <<asked, steps, at, ended, known, ref, told, network, kept, faults, history>>

\* A wait: it is done, it failed, or it is still being worked on; and after
\* so many times of that the call gives up on it.  A reply without the word it
\* is after is one that says "still working" - or, to some, that it is done.
SaysReady(c) ==
  /\ finished' = [finished EXCEPT ![c] = @ \cup {Now(c).what}]
  /\ UNCHANGED history
SaysNothing(c) ==
  /\ Now(c).silent = "trusts"
  /\ history' = history \cup {<<c, "unsaid", Now(c).what>>}
  /\ UNCHANGED finished

Ready(c) ==
  /\ Does(c, {"wait"})
  /\ SaysReady(c) \/ SaysNothing(c)
  /\ Advance(c)
  /\ UNCHANGED <<asked, steps, known, ref, told, made, out, world, keys, kept, faults>>

\* The error that says so names the thing, and the number of checks.
LastRound(c) == rounds[c] + 1 >= Patience
StillWorking(c) ==
  /\ Does(c, {"wait"})
  /\ Now(c).what \notin finished[c]
  /\ Misfortune("slow")
  /\ IF LastRound(c) THEN Raise(c, "still_working")
     ELSE /\ rounds' = [rounds EXCEPT ![c] = @ + 1]
          /\ UNCHANGED <<at, tries, ended>>
  /\ UNCHANGED <<asked, steps, known, ref, told, network, kept, history>>

Unusable(c) ==
  /\ Does(c, {"wait", "watch"}) /\ MayLook(c)
  /\ Now(c).what \notin finished[c]
  /\ Misfortune("failed")
  /\ \E error \in {"InvalidPostError", "PlatformError"} : Raise(c, error)
  /\ UNCHANGED <<asked, steps, known, ref, told, network, kept, history>>

\* What an answer of X's says shows when it is looked at.
LookReady(c) ==
  /\ Does(c, {"watch"}) /\ MayLook(c)
  /\ SaysReady(c) \/ SaysNothing(c)
  /\ Advance(c)
  /\ known' = [known EXCEPT ![c] = @ \ {"news"}]
  /\ UNCHANGED <<asked, steps, ref, told, made, out, world, keys, kept, faults>>

AskAgain(c) ==
  /\ Does(c, {"watch"}) /\ MayAsk(c)
  /\ rounds' = [rounds EXCEPT ![c] = @ + 1]
  /\ tries' = [tries EXCEPT ![c] = 0]
  /\ \/ /\ known' = [known EXCEPT ![c] = @ \cup {"news"}]
        /\ UNCHANGED faults
     \/ /\ Now(c).what \notin finished[c]
        /\ Misfortune("slow")
        /\ UNCHANGED known
  /\ UNCHANGED <<asked, steps, at, ended, ref, told, network, kept, history>>

StopWatching(c) ==
  /\ Does(c, {"watch"}) /\ rounds[c] >= Patience
  /\ Raise(c, "still_working")
  /\ UNCHANGED <<asked, steps, known, ref, told, network, kept, faults, history>>

-----------------------------------------------------------------------------
\* HttpClient.request: a transport error, 429 or 5xx is tried again until the
\* attempts are used up.
MayTryAgain_OneMore(c) == tries[c] < Attempts /\ ~Now(c).once
MayTryAgain(c) == tries[c] + 1 < Attempts /\ ~Now(c).once
TryAgainOr(c, error) ==
  IF MayTryAgain(c)
  THEN tries' = [tries EXCEPT ![c] = @ + 1] /\ UNCHANGED <<at, rounds, ended>>
  ELSE GiveUp(c, error)

\* The request, or only its reply, does not arrive.
LoseRequest(c) ==
  /\ Requesting(c)
  /\ Misfortune("lost")
  /\ TryAgainOr(c, "Trouble")
  /\ UNCHANGED <<asked, steps, known, ref, told, network, kept, history>>

LoseReply(c) ==
  /\ Requesting(c) /\ Changes(c) /\ ~Refusable(c)
  /\ Misfortune("lost")
  /\ Effect(c)
  /\ history' = history \cup {<<c, "lost">>}
  /\ TryAgainOr(c, "Trouble")
  /\ UNCHANGED <<asked, steps, known, ref, told, kept>>

\* What the reply says may be a refusal by name, whatever its status.
Overloaded(c) ==
  /\ Requesting(c)
  /\ Misfortune("overloaded")
  /\ \E error \in ErrorsFor[asked[c].net].busy :
       /\ TryAgainOr(c, error)
       /\ history' = IF error \in {"RateLimitError", "Trouble"} THEN history
                     ELSE history \cup {<<c, "refused">>}
  /\ UNCHANGED <<asked, steps, known, ref, told, network, kept>>

\* Any other status is an error at once, or what the call carries on after; it
\* remembers that it was refused.
BeRefused(c) ==
  /\ Requesting(c)
  /\ \/ /\ Refusable(c)
        /\ history' = history \cup {<<c, "spent">>}
        /\ UNCHANGED faults
     \/ /\ ~Refusable(c) /\ Misfortune("refused")
        /\ history' = history \cup {<<c, "refused">>}
  /\ \E error \in ErrorsFor[asked[c].net].refused :
       /\ GiveUp(c, error)
       /\ known' = IF error \in Now(c).soft
                   THEN [known EXCEPT ![c] = @ \cup {"refused"}] ELSE known
  /\ UNCHANGED <<asked, steps, ref, told, network, kept>>

\* What was accepted is not ready to go out: asked again after a while, so
\* many times.
NotYet(c) ==
  /\ Does(c, {"send"}) /\ Now(c).again
  /\ Misfortune("slow")
  /\ IF LastRound(c) THEN Raise(c, "RateLimitError")
     ELSE /\ rounds' = [rounds EXCEPT ![c] = @ + 1]
          /\ tries' = [tries EXCEPT ![c] = 0]
          /\ UNCHANGED <<at, ended>>
  /\ UNCHANGED <<asked, steps, known, ref, told, network, kept, history>>

\* HttpClient.json and the _text helpers: a reply that is not JSON, or lacks
\* what is read from it, is a PlatformError, though the request was served; the
\* first inside what catches errors, the second behind it.  Of a wait that goes
\* by the status nothing else is read.
Unreadable(c) ==
  /\ Requesting(c) /\ ~Refusable(c)
  /\ Now(c).does \notin {"put", "set", "unset"}
  /\ Now(c).does \in Waits => Now(c).silent # "never"
  /\ Misfortune("garbled")
  /\ Effect(c)
  /\ history' = history \cup {<<c, "garbled">>}
  /\ \/ GiveUp(c, "PlatformError")
     \/ Now(c).soft = {} /\ Raise(c, "PlatformError")
  /\ UNCHANGED <<asked, steps, known, ref, told, kept>>

\* Somebody else changes a fact the calls read: the parent is edited, a like
\* taken back in another app.
Edit(fact) ==
  /\ Misfortune("edited")
  /\ world' = [world EXCEPT ![fact] = IF Holds(fact) THEN {} ELSE {1}]
  /\ history' = history \cup {<<fact, "edited">>}
  /\ UNCHANGED <<asked, steps, caller, made, finished, out, keys, kept>>

-----------------------------------------------------------------------------
Work(c) ==
  \/ Omit(c) \/ FailCheck(c) \/ Finish(c) \/ UseKept(c) \/ Serve(c) \/ TurnPage(c)
  \/ Ready(c) \/ StillWorking(c) \/ Unusable(c) \/ LookReady(c) \/ AskAgain(c)
  \/ StopWatching(c) \/ LoseRequest(c) \/ LoseReply(c)
  \/ Overloaded(c) \/ BeRefused(c) \/ NotYet(c) \/ Unreadable(c)

\* Calls end; nothing is wrong with everyone being done.
Done ==
  /\ \A c \in DOMAIN asked : ~Running(c)
  /\ UNCHANGED vars

Next == \/ \E c \in DOMAIN asked : Work(c)
        \/ \E f \in FactsRead : Edit(f)
        \/ Done

Spec == Init /\ [][Next]_vars

-----------------------------------------------------------------------------
Active == DOMAIN asked

\* What the proofs take of the scripts, and of two of them together.
WellBuilt(calls) ==
  /\ \A c \in DOMAIN calls :
       WellBuiltScript(calls[c], Script[calls[c]], ErrorsFor[calls[c].net])
  /\ \A c, d \in DOMAIN calls :
       KeysTellApart(calls[c], Script[calls[c]], calls[d], Script[calls[d]])
ScriptsAreWellBuilt == \A calls \in Asked : WellBuilt(calls)

Failed(c) == ended[c] \notin Results \cup {"running"}
Befell(c, what) == <<c, what>> \in history
Copies(c, what) == Cardinality({i \in DOMAIN out[c] : out[c][i].what = what})
Items(c) == {out[c][i].what : i \in DOMAIN out[c]}

\* The types; and the operations of every call are built as all of them are, which
\* is a matter of what is asked, and so is looked at before the first step.
TypeOK ==
  /\ asked \in Asked
  /\ (\A c \in Active : at[c] = 1) => WellBuilt(asked)
  /\ \A c \in Active :
       /\ at[c] \in 1..Len(steps[c])
       /\ tries[c] \in 0..Attempts - 1
       /\ rounds[c] \in 0..Patience
       /\ finished[c] \subseteq made[c]
       /\ told[c] \in Seq(Items(c)) \/ keys # {}
  /\ \A f \in DOMAIN world : world[f] \subseteq Nat
  /\ faults \in 0..MaxFaults

\* What everybody can see was made of files the network had finished with:
\* every upload is waited for, alone and in a carousel, before it is used
\* (_wait_until_ready, _wait_for and their like).  The exception is one whose
\* status reply said nothing of it, where the code goes on rather than wait for
\* a word that may never come: a picture of Instagram's or Threads', anything
\* of Pinterest's or X's - but never what is a video or holds one at the former
\* two, and nothing of Mastodon's, where the status of the reply decides.
OutIsWhole ==
  \A c \in Active : \A i \in DOMAIN out[c] : \A part \in out[c][i].early :
    <<c, "unsaid", part>> \in history /\ MayGoOutEarly(asked[c], part)

\* Nothing goes out a second time unless a reply that it was there got lost,
\* and then not where the code has taken care of that: a Mastodon post has an
\* Idempotency-Key, an Instagram message is not tried again, and the end of an
\* upload belongs to that upload.
TwiceHasACause ==
  \A c \in Active : \A what \in Items(c) :
    Copies(c, what) > 1 => Befell(c, "lost") /\ ~Protected(asked[c])

\* Two calls for the same Mastodon post, at once or one after the error of the
\* other, make one post - unless the parent of a reply changed in between,
\* which the key is also made of (post_fingerprint).
SamePostOnce ==
  \A c, d \in Active :
    (c # d /\ asked[c] = asked[d] /\ Fingerprinted(asked[c])
       /\ <<"public", "edited">> \notin history)
      => Items(c) = {} \/ Items(d) = {}

\* A call that is told that its post is out made it - or another call did, for a
\* post of the same words, answering the same, with the same settings and with
\* files of the same names.  That is all the Idempotency-Key goes by
\* (post_fingerprint): of two posts with different files of one name the second
\* is told it is out when only the first is; with files of other names, or by
\* another network, it never is.
ToldIsOut ==
  \A c \in Active : \A i \in DOMAIN told[c] :
    \/ told[c][i] \in Items(c)
    \/ \E d \in Active : SameByName(asked[c], asked[d]) /\ told[c][i] \in Items(d)

\* An error is honest about what went out: without a lost or unreadable reply,
\* a call that ends in one has sent nothing, or says what (PartialThreadError,
\* already_sent).  Mastodon's start_conversation still looks for the
\* conversation when the message is out; its errors say nothing.
ErrorsSayWhatWentOut ==
  \A c \in Active :
    (Failed(c) /\ ~Befell(c, "lost") /\ ~Befell(c, "garbled")
       /\ ~LooksAfterwards(asked[c]))
      => /\ Items(c) \subseteq Range(told[c])
         /\ told[c] # <<>> => ended[c] = "PartialThreadError"

\* A person is sent to sign in again only because the network refused, or
\* could not be understood, or because a refresh token good for one request had
\* been used: by a request whose reply got lost, or by another call at once.
\* Trouble of the network's own is no reason (_is_xs_own_fault).
SignInAgainHasACause ==
  \A c \in Active :
    (ended[c] = "TokenExpiredError" /\ ~Is(asked[c], "no_refresh_token"))
      => \/ Befell(c, "refused") \/ Befell(c, "garbled")
         \/ /\ Befell(c, "spent")
            /\ \/ <<"refresh_token", "absent">> \in history
               \/ Befell(c, "lost") \/ Active # {c}

\* One like is one record: a second one needs a lost reply, or somebody who
\* likes at the same time.
LikedTwiceHasACause ==
  ("like" \in DOMAIN world /\ Cardinality(world["like"]) > 1)
    => \/ <<"like", "edited">> \in history
       \/ \E c \in Active : Befell(c, "lost") \/ Befell(c, "garbled")
       \/ Cardinality(Active) > 1

\* What our own checks refuse has put nothing before the public, whatever the
\* place of the check: a thread is checked to its last post first.  And nothing
\* is left at the network but files in front of one given by its address.
ChecksComeFirst ==
  \A c \in Active :
    (Failed(c) /\ Now(c).does = "refuse")
      => /\ out[c] = <<>>
         /\ made[c] # {} => AnyFrom(asked[c], "url")

\* What a network declares it has (MissingMethod is "a mistake in the platform
\* file"): asking every Account for everything meets none without its method.
DeclaredMethodsExist == \A c \in Active : ended[c] # "missing_method"
=============================================================================
