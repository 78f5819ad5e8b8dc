# socialchimp in TLA+

socialchimp is an asyncio library with which an app connects its users'
accounts on a dozen social networks, posts to them and hears what happens
there. It keeps no database: the app brings a `Storage`, a memory of handled
updates, a memory of sign-ins in flight and, in production, a lock. What can go
wrong is therefore mostly between a call, that storage, a network and a second
worker doing the same thing. These modules model those parts, TLC checks them
on small instances, and TLAPS proves most of the safety properties for all
instances.

Paths below are relative to `src/socialchimp/` in the repository.

## The system

| Part | State it keeps | Operations | What is hard | What makes it correct | Modelled in |
|---|---|---|---|---|---|
| **Token renewal** (`tokens.py`, `client.py` `fresh_connection`) | locks per connection; the connection in the app's storage | look up, judge the age, lock, read again, renew, save, tell listeners | two workers, rotated refresh tokens, lost replies, failing saves, cancelled calls, dying processes, leases | the newest pair is never lost; nobody is sent to sign in again needlessly; every call ends | `TokenRenewal` |
| **Pushed updates** (`events.py` `Dispatcher`, `SeenUpdates`; `contrib/shared.py` `Routes.webhook`) | ids handled so far | run the handlers, remember, answer | resends, duplicates in flight, several updates in a message, failing handlers, restarts, a capped memory | 200 only for what is handled; a second handling has a cause; a resend gets through | `Delivery` |
| **Signatures and webhook parsing** (`events.py` `verify_hmac_sha256`, `contrib/shared.py`, the parsers of `platforms/`) | none of its own | answer the handshake, check the signature and its age, read what a message carries, name each update | an id made of a time that changes with every copy, messages of several things, signatures that run out | what is answered was handled; a thing that names itself is handled once | `Pushes` |
| **Polling on a timer** (`events.py` `Poller`) | a marker in memory, one the app saved | fetch, sort, hand on, move the marker, save it | failures between those steps, restarts, equal times, late updates | no marker passes what was not handled; oldest first; failures only delay | `Polling` |
| **Polling with a stored marker** (`fetch_updates_after` of `platforms/bluesky.py`, `mastodon.py`, `facebook.py`) | the marker, in the app's hands | read pages until the marker, or the page after it, or post after post | the list changes between pages, equal times, bursts, withdrawals | nothing between two markers is left out | `UpdatesAfter` |
| **Account and its networks** (`client.py`, `platforms/*.py`): publishing, replies, likes, messages, reading, numbers, places | half-made posts at the network; limits remembered in the process | over a hundred operations, each some checks and a sequence of requests | requests repeated after a lost reply, giving up while the network works on, one of several failing, two calls at once | what goes out is whole, as far as the network says, and goes out once; errors say what is out; checks come first | `Calls` and the network modules |
| **Post checks and limits** (`features.py`) | none | `check_post`, `check_message`, limits | boundaries; checks after something went out | what is refused left nothing behind | `Features`, `Calls` |
| **HTTP client** (`http.py`) | the last allowance a network told | request with retries, paginate | repeating what was already done | bounded, ends, never repeats a refusal | `Calls`, `TokenRenewal` |
| **Uploads** (`platforms/youtube.py`, `tiktok.py`, `x.py`) | bytes sent | cut, send, ask how much arrived | the network's count goes back, boundaries | every byte once, in its place; ends | `Uploads` |
| **Sign-in** (`client.py`, `contrib/shared.py` `Routes`, `LoginMemory`) | notes per sign-in, saved connections | start, finish, choose | the person comes back late, twice, after a restart | connected means saved; a sign-in that is not over can go on | `SignIn`, requests in `Calls` |
| **Storage** (`storage.py`) | connections, app credentials | five methods, sync ones on a thread | a thread outlives the call that started it | see token renewal | `TokenRenewal` |
| **Bridges** (`contrib/django.py`, `flask.py`, `fastapi.py`) | one event loop, or one per request | run a call | locks and clients across loops | as if there were one loop | – |
| Registry, models, errors, `testing.py` | none that lasts | conversions | – | – | – |

How they meet: every call that acts as an account goes through
`fresh_connection` first (token renewal, then storage and the network's
`refresh` over the HTTP client). A webhook goes through `Routes` to
`Dispatcher.deliver`; a `Poller` calls a fetch and the same `deliver`. A
sign-in ends in `save_connection`, on the same row a renewal may be about to
save (that race is in `TokenRenewal`). An upload is a part of publishing: its
loop is in `Uploads`, and `Calls` has the requests around it. Nothing else is
shared.

`PROJECT.json` lists the components with their status and, under `hazards`,
every place where this code can go wrong in a way a unit test hardly reaches,
with the properties that watch it.

## Modules

| Module | Models | Used by |
|---|---|---|
| `AccountCustody` | abstract: what becomes of the newest token pair | instance in `TokenRenewal` |
| `Inbox` | abstract: at least once, whichever way updates come | instance in `Delivery`, `Polling`, `UpdatesAfter` |
| `TokenRenewal` | token manager, storage, lock, retries, refresh endpoint | `MCTokens`, `TokenRenewal_proofs` |
| `Delivery` | webhook, dispatcher, memory of handled updates, the network's resends | `MCDelivery`, `Delivery_proofs` |
| `Pushes` | handshake, signatures, which updates a message carries and their ids | `MCPushes`, `Pushes_proofs` |
| `Polling` | `Poller`, the network's newest page, the saved marker | `MCPolling`, `Polling_proofs` |
| `UpdatesAfter` | `fetch_updates_after` of three networks in the app's loop | `MCUpdates`, `UpdatesAfter_proofs` |
| `Uploads` | the loops that send a file in pieces | `MCUploads`, `Uploads_proofs` |
| `SignIn` | `Routes`, `LoginMemory` and the storage during sign-ins | `MCSignIn`, `SignIn_proofs` |
| `Requests` | the vocabulary in which an operation is written: its steps | `Features` |
| `Features` | limits, checks of posts and messages, the errors a reply becomes | `Account`, `Meta`, the networks |
| `Account` | what `SocialChimp` and `Account` check before a network's operation | `Networks` |
| `Meta` | what Facebook, Instagram and Threads share | those three |
| `Mastodon`, `Bluesky`, `X`, `Instagram`, `Threads`, `Facebook`, `Pinterest`, `TikTok`, `YouTube`, `GoogleBusiness`, `TikTokBusiness` | the operations of one network, each a sequence of steps | `Networks` |
| `Scripts` | what can be read off an operation's steps, whatever else it does | `Calls` |
| `Networks` | from a call to its steps, on any network | `MCCalls` |
| `Calls` | what becomes of such steps when requests fail, replies are lost and two calls run at once | `MCCalls`, `Calls_proofs` |

Operators with a suffix (`SavedToken_OldConnection`, `Reached_SameTick`, ...)
stand before the one they vary and are used by nothing: each is a plausible
mistake in that piece of code, and the property named beside it in
`PROJECT.json` fails when it takes the real one's place.

### TokenRenewal

One connection, several calls of `fresh_connection` at once. Each call is a
program counter: `idle`, `load` (the read outside the lock), `lock`,
`reload` (the read inside), `ask` (the request), `reply` (the network has
served it, the answer is on its way), `save`, `release`. An `await` is where
one step ends and the next begins. `valid_token`'s two reads are `Load` and
`Reload`; `_renew`'s early exits are the disjuncts of `Reload`; the request is
`Serve`, `Refuse` or `Unserved`, with `TryAgain` for the retry loop of
`HttpClient.request`; `Save` is `with_token`, `save_connection` and the
listeners.

A token is the number of the pair it came with and the number of its refresh
token. `Kind` says what the network does with it: `rotates` (the old refresh
token dies when a new one is issued: Bluesky, Pinterest, TikTok, X), `keeps`
(YouTube, Google Business: it lives on) and `extends` (Threads, Instagram:
there is none, the access token renews itself). `live` is what the network
will still honour, and is where the worst case hides: it changes in `Serve`,
before anybody on our side knows the new pair.

`SharedLock` is a `make_lock` that spans processes; without it the default
lock spans one process. The environment's misfortunes are in `Faults`: the
refusal of a key that is good (`Refuse`; `_renew` turns every `AuthError` into
"sign in again", so `SignInAgainIsFinal` excepts just that one), and, each an
action of its own, lost replies, failing saves, a cancelled call (a save on a
storage thread then runs on: `late`), a crash (a shared lock stays taken:
`orphaned`), a lease that runs out under its holder, and a deletion or a new
sign-in that overtakes a renewal. `mishap` records that one of the latter hit the
account since the last sign-in: after that the newest pair may be gone and no
code could bring it back.

`AccountCustody` is the promise without the machinery: the newest pair is
saved, or in one hand on its way to be saved, or lost through a mishap.
`KeepsCustody` says `TokenRenewal` implements it under the mapping at the end
of the module, its liveness included; `ImplementsCustody` proves all but the
liveness.

### Inbox

Pushed or fetched, updates come to the app under one promise, which the
docstrings give part by part ("Every network promises to deliver at least
once", `events.py`; "They are never lost", docs/social-inbox-contract.md;
"nothing is skipped over", `run_forever`). `Inbox` states it once, over four
sets: what the app was given and still has to handle, what it handled, what is
not coming any more as things stand, and what may be passed over for a cause
the component names. Only what is coming may be given; an update is handled
alone, in a step that decides nothing else; and what stops coming was handled
before, or missed for that cause. What came to nothing may come again.

Each of the three components says under the name `KeepsInbox` what its state is
in these words. What is not coming: in `Delivery`, updates whose messages were
all answered and are neither owed nor worked on; in `Polling`, what the network
lists and is not newer than the marker in memory, which a restart takes back;
in `UpdatesAfter`, what is behind the stored marker, but on Bluesky not what is
of the marker's own tick, which may come twice as the contract says. Missed:
nothing in `Delivery`, `hidden` in `Polling`, `cutOff` in `UpdatesAfter`
(findings 3 and 4 are those). The order of the steps is the point: a marker that
moves before the last update is through, a second look that takes in old
things, or an answer one update too soon are each a step `Inbox` does not have.

### Delivery

A worker is one request of a webhook: `job` the message, `at` the place in its
updates, `step` where `deliver` is with that one (`seen`, `handlers`,
`remember`). The network sends any message it has not been told 200 for, to any
free worker, also while another works on it. `Memory` is none, one
`InMemorySeenUpdates` per process (an ordered list of at most `MaxSize` ids),
or one table all share. A handler of a `Broken` update fails every time; others
fail by misfortune. A failed request leaves the rest of the message untouched,
as the loop in `Routes.webhook` does.

`good`, `handled`, `again`, `overlapped` and `forgotten` are history: they
count what really happened beside what the code believes.

### Pushes

What comes before `Delivery`, and what it takes for granted: that an update has
an id that stays the same when its message comes again. A message carries
things, each with a topic, maybe a name the network gave it, and maybe a time
of its own; a copy of it on its way has the time it was sent at, which is part
of what is signed. `AnswerSetupCheck`, `Refuse` (a wrong or old signature, 401)
and `Webhook` (everything read, handled and answered) are the three ways a
request ends. `UpdateId` is the id each network's parser makes: of the name, of
the second of a time, or of both. Signatures are genuine or not; what HMAC and
JWT compute is not modelled. The clock goes by parts of a second, so that two
things may share one and one thing's copies need not.

### Polling

A round of `check_once`: `Fetch` (with `_is_new` and the sort, as a set from
which `Deliver` takes the oldest), `Deliver`, `MoveMarker`, `SaveMarker`.
`FailRound` is any exception that `run_forever` logs, `Restart` a new process
with the marker that was saved. The network shows its `PageSize` newest, and
may show an update late (`Appear`). `hidden` records updates no fetch showed
while they were new; nothing in the Poller could have handed those on.

### UpdatesAfter

A notification, or a comment, is its place in the order they came in.
Bluesky's call is one step per page (`AskFirstPage`, `AskPageBack`), since the
list changes between two requests; Mastodon's is one step (`AskMastodon`);
Facebook's (`AskComments`) is one step per page of the comments of one recent
post after the other, and its marker is a second with the ids of that second
that were handed back (`marker`, `seen`; `NewerThan` compares both). The app's
loop is the one of docs/use-cases/social-inbox.md. `Happen` and `Withdraw`
change the list at any time; `Fail` ends a round anywhere before its marker is
stored. `waiting` is what was new when a call began; `cutOff` what a call left
unread behind its last page, or what came to a post of Facebook the call had
read already.

`more` is not a variable: an app that reads on at once and one that waits call
again with the same marker. Left out are the losses Facebook's docstring names:
comments on posts older than the recent ones, and comments held for review.

### Uploads

Bytes are counted in units and a network holds the first `have` of them. `sent`,
`piece` and `resends` are the loop's own counts; `ReadPiece` reads the next
piece, `SendToX`, `SendToTikTok`, and `Complete` or `CarryOn` for YouTube are
the request that carries it, `Finalize`, `StopTikTok` and `StopYouTube` what
comes when the loop is through. A request or its reply may be lost
(`TryAgain` is `HttpClient.request`), refused, a YouTube session may hold only a
part of a piece, say afterwards that it holds less (`Forget`), or take the last
byte and leave the video undecided. Assumed is that a file keeps its length
while it is sent: X's loop counts what `Media.piece` returns, and once a file is
shorter than what was counted as its size that is nothing, piece after piece.

### SignIn

`Start` is `Routes.start`. `finish` and `choose` are served in slots, each a
program counter: `look_up` (the notes), `call` (the network), `keep` (the notes
of a person who has to choose), `save`, `forget`. Between two of them other
requests run. `notes` and `order` are `InMemoryLoginMemory`, which drops the
oldest when it is full; `durable` memories survive a `Restart`. A network is
what matters of it here: whether it compares a secret of the start, offers
accounts to choose from, and takes a code only once. The app chooses the
`state`, so two sign-ins may go by one; the properties are for those that do
not (`Alone`).

### Calls and the networks

Most of the library is the operations of eleven networks, which all have one
form: checks that raise, requests in an order, decisions by what a
reply said, waits. So an operation is data, a sequence of steps, and `Calls` is
the one interpreter of them. `Requests` names the steps (`Get`, `Make`, `Begin`,
`Put`, `Wait`, `Send`, `Learn`, `Set`, `Drop`, ...) and what can be said about
one: what it refers to, which errors it survives and under what name
they go on, whether it carries an Idempotency-Key, whether it is sent once only,
whether "not yet" is asked again. A network module has the operations of one
platform file under the names of its methods, its limits, and the errors it
makes of replies. `Account` puts in front what the client does: the connection
known or not, the feature declared or not, the checks against the limits of the
moment. A call is a network, an operation, the files with it and a
set of words for whatever else the code looks at (`"reply"`, `"later"`,
`"long"`, `"no_scope"`, ...). A file has a kind, where it comes from, what it
goes by (`name`: filename, address and alt text), and what is in it (`holds`).
Mastodon's `PostFingerprint` is made of the words and of files by name, as
`post_fingerprint` is, so two posts with different files of one name share a
key. Whether a network accepts a file for later or has it done at once depends
on what is in it: Mastodon's 202, X's state after FINALIZE.

In `Calls`, `at` is the step a caller has come to, `made`, `finished` and `out`
what the network holds of it (unseen, worked through, public), `world` what is
so at the network (likes, boards, accounts, a code, a refresh token), `known` what the call has
read of that, `told` what it was told went out, `ended` its result or error.
`Serve` is a request that arrives and whose reply does; `LoseRequest`,
`LoseReply` and `Overloaded` go through the retries of `HttpClient.request`;
`BeRefused`, `NotYet`, `Unreadable` end the call or a round of it;
`Ready`, `StillWorking`, `Unusable`, `LookReady`, `AskAgain` and `StopWatching`
are the waiting loops; `TurnPage` is `paginate`; `Edit` is somebody else changing what was read.

A status reply may lack the word a wait is after. A step's `silent` says what
the code does then: Mastodon goes by the status alone (`ByStatus`); Instagram
and Threads ask again for a video and for what holds one, and take anything else
for finished (`WaitFor`, the early returns of `_wait_for`); Pinterest and X take
it for finished whatever it is (`Trusting`). That last is `SaysNothing`: the call
goes on, the network need not have finished, and `history` keeps which part it
was. A piece of `out` says what of it was unfinished when it went out (`early`).

What a reply becomes (records, texts) is left out, but for what a later step
needs of it. Waits have a count of rounds and no length.

## Runs

| Run | Checks | Bounds | Shows |
|---|---|---|---|
| `tokens_faults` | `AccountKept`, `SavedBeforeHandedBack`, `SignInAgainIsFinal`, `RenewsOnlyWhatIsStored`, `EveryCallEnds`, `KeepsCustody` | 2 calls in 2 processes, shared lock, rotating network, 3 pairs, 2 sends, every fault | renewal is safe, ends, and implements `AccountCustody` |
| `tokens_meta` (violated) | `SignInAgainIsFinal` | `extends`, no fault | finding 1 |
| `webhook_faults` | `AnswerMeansHandled`, `HandledAgainHasACause`, `HealthyGetsThrough`, `KeepsInbox` | 2 requests, 2 messages with 2 updates each, one shared, one broken, one with two handlers, memory of 1, 2 misfortunes of 5 kinds | delivery, safe and live, implements `Inbox` |
| `webhook_twice` (violated) | `HandledOnce` | no fault, memory large enough | finding 2 |
| `pushes` | `TypeOK`, `AnsweredIsHandled`, `HandledOnceIfItNamesItself`, `HeardOfInTheEnd` | 2 messages of each of five networks, 18 scenarios, 4 ticks of half a second, an age of one, 1 misfortune | what reaches `Delivery` has a lasting id, or a named reason not to |
| `poller` | `NothingSkipped`, `OldestFirst`, `HandledInTheEnd`, `KeepsInbox` | 5 updates, two at one time, one broken, page of 4, 2 misfortunes | the Poller, implements `Inbox` |
| `updates_after` | `LossNeedsABurst`, `BatchIsComplete`, `NothingTwice`, `EverythingArrives`, `KeepsInbox` | 6 notifications, two ticks shared, 2 posts, pages of 2 (Facebook: 1), at most 2 pages, 2 misfortunes | marker polling on three networks, implements `Inbox` |
| `updates_missed` (violated) | `NeverMissed` | Bluesky, no fault | finding 3 |
| `updates_comments` (violated) | `NeverMissed` | Facebook, no fault, a page that holds everything | finding 4 |
| `calls` | `TypeOK`, `OutIsWhole`, `TwiceHasACause`, `SamePostOnce`, `ToldIsOut`, `ErrorsSayWhatWentOut`, `SignInAgainHasACause`, `LikedTwiceHasACause`, `ChecksComeFirst`, `DeclaredMethodsExist` | every operation of eleven networks alone, eleven pairs at once; 3 sends, 2 rounds, 4 misfortunes of 7 kinds | all that an account can be asked for |
| `uploads` | `DoneIsWhole`, `PiecesAreTaken`, `FailsForACause`, `Ends` | files of 0 to 12 units, pieces of 1 to 4, floor 2, ceiling 4, multiple 2, 2 sends, 1 resend, 3 misfortunes | uploads, byte for byte |
| `sign_in` | `ConnectedIsSaved`, `TurnedAwayForACause`, `NotesWait` | 2 sign-ins, 2 requests, 2 states, 4 kinds of network, memory of 1 or 2, durable or not, 2 misfortunes | sign-in through `Routes` |

Why the bounds are enough.

* Two calls of a renewal are enough for every race here: the
  properties speak of one call and another that overtakes it, and a third call
  is in the place of the second. Three pairs are the first sign-in, a renewal
  and one more by the other call or a new sign-in, which is what it takes for a
  pair to be overwritten by an older one. Two sends are a request and the retry
  that meets its own effect.
* In `Delivery`, two updates can be remembered and the memory holds one, so it
  has to forget; one message ends in the broken update and is never answered,
  the other can be, and they share an update, so that one resend is skipped in
  part. The update only the second one carries is what may stop coming.
* In `Pushes`, two messages have two things alike in every way the ids can tell
  apart or fail to; four ticks of half a second hold two things in one second
  and copies in two, and one tick beyond the age that is allowed.
* In `UpdatesAfter`, two pages are less than the six notifications, so a
  burst is possible and so is every smaller gap, and both kinds of tick (within
  a page and across two) occur. Two posts with comments that alternate give
  Facebook's walk a post it has read and one it has not.
* In `Polling`, a page of four leaves one of five out.
* In `Calls`, four misfortunes are more than the three sends of a request, so a
  retry can be used up and something else go wrong besides. A wait and a list
  end after two rounds: one that does not bring the answer and one that does,
  or neither. Pairs are those that meet in something: one key, one like, one
  refresh token, one code. Two pairs are posts of the same words with a picture
  each: of one name and different content (one key, one post, both told it is
  out), and of two names (two posts).
* In `Uploads`, twelve units are three of the biggest pieces, and every
  remainder of every piece size occurs. One resend is allowed, and three
  misfortunes are enough to use it up, make progress, and begin to count again.
* In `SignIn`, one other sign-in is enough to push notes out of a memory of one
  or to take the same state, and one other request to come between two steps.
  Sign-ins and slots are alike, and the run uses that symmetry; it checks
  invariants only.

The counters that could grow for ever (`issued`, `faults`, `top`, `now`) are
bounded in the guards by `MaxIssued`, `MaxFaults`, `Size` and `MaxNow`, and
named as bounds where they are declared. `Patience` is both what it is in the
code (how often a wait asks) and the bound on the pages of a list.

Deadlock is checked except in `pushes` and `sign_in`: there every message may
have been answered, and every sign-in be over with its misfortunes used up.

### Fairness

* `TokenRenewal`: weak fairness on a call's own steps (storage answers, every
  request ends: `HttpClient` has a timeout), strong fairness on taking the lock
  (an `asyncio.Lock` serves its waiters in turn), weak fairness on the
  lease ending of a lock whose holder died, and on nothing else's lease. Nothing
  else makes time pass, faults happen or callers call.
* `Delivery`: weak fairness on a worker's steps, so handlers return; strong
  fairness per message on its being sent again while it is owed, which is what
  networks promise for as long as they do not give up. Misfortunes are bounded
  by `MaxFaults`: an environment that cuts off every request gets nothing
  through.
* `Pushes`: weak fairness per message on its being sent and its copies being
  received, and on the handshake.
* `Polling`: weak fairness on the round: `run_forever` goes on after every
  exception. An update broken for good does block those after it, and
  `HandledInTheEnd` says so.
* `UpdatesAfter`: weak fairness on the app's round.
* `Uploads`: weak fairness on the loop's own steps; requests end. That
  YouTube takes nothing new is no misfortune that runs out: `Ends` holds because
  the loop counts, not because the network is kind.
* `Calls` and `SignIn` have safety properties only and need none.

## Proofs

All are in `*_proofs.tla`, for every value of the constants that meets the named
assumption of its module: any numbers of calls, processes, pairs, updates,
messages, people, files, any page size, any bound on faults.

**TokenRenewal.** `AccountKept` is not inductive: to know where the newest pair
is, one has to know that at most one call is past the second read
(`HeldOnce`, `HeldWhileRenewing`), that a pair leaves a hand only into storage
or through a mishap (`PairInHand`), that without a refresh token nothing was
asked (`NeverAsked`), that lapsed keys are dead (`LiveNotLapsed`), and that as
long as nothing went wrong the one live key is the stored one or the one in
hand and every renewing call has read it (`OneKey`). Each part has a lemma with
one case per action; `Invariance` puts them together, and `AccountIsKept`,
`ExpiredIsFinal` and `RenewsTheStoredToken` follow from it.
`HandsBackWhatIsSaved` needs no assumption about locks or faults.
`NothingIsExtended` proves finding 1 for every instance: with
`Kind = "extends"` no request is ever sent.
`ImplementsCustody` shows the refinement: with one lock for every worker and as
long as there was no mishap, `Serve` is a `Trade`, `Save` a `Deposit`,
`Reconnect` a `SignIn`, `Disconnect` a `Forget`, the first fault is `Lose`, and
every other step leaves the saved pair and the one in hand where they are. It
rests on the same invariant, and on the numbers tokens have (`AllNumbered`).

**Inbox.** Three theorems `ImplementsInbox`, one per component, show that every
step is one of `Inbox`'s or leaves its four sets alone. That what stops coming
was handled or missed is in each case the component's own invariant after the
step; that nothing is given which is not coming needs what was read before. In
`Polling` a round's updates are newer than the marker until it is over
(`RoundInv`). In `Delivery` a worker has a message that carries what it has come
to (`CurrentIsComing`), and only `Start` gives (`OnlyStartGives`). In
`UpdatesAfter` a call to Bluesky has read back no further than the marker's own
tick, even if the marker's notification is gone (`ReadToItsTick`), Mastodon's
page and Facebook's walk hold only what is newer than the marker
(`BatchIsComing`). Assumed are `DistinctIds` for `Delivery` and
`BlueskyGivesTimes` for `UpdatesAfter`.

**Delivery.** `AnswersAreHonest` rests on: everything a memory holds was
handled; everything before a worker's place in its message was handled; a call
that has run all handlers with no failure has run each of them well.
`SecondTimeHasACause` adds an account of every handled update: remembered,
forgotten, or in the hands of the one call that will remember it, unless two
calls overlapped.

**Pushes.** The invariant relates the three memories that outlive a request:
every update of a message that was read has its id in `seen` (`ReadOK`), every
id in `seen` is that of something handled (`SeenOK`), and a thing is handled no
more often than its message was read at different times, a second time only by
another id (`HandledOK`). `IdsTellApart` says what each network's ids tell
apart; with it an id that was seen before means that the thing, or one alike,
was handled (`AnsweredMeansHandled`). `HandledOnce` follows from the parts of
an id that no copy changes. Assumed are the five networks, and that an
account is on one of them, since `Update.id` does not name the network.

**Polling.** `MarkerSkipsNothing` rests on: all the round no longer has to hand
on is handled, and all the round has is newer than the marker.
`InTheOrderItHappened` uses the same invariant.

**UpdatesAfter.** The marker a call hands back decides what no later call
reads, so the invariant follows a marker from its making to its use. While a
call reads (`Asking`), what it has found has no gap: on Bluesky from the cursor
to the newest it saw, on Facebook in the posts it is done with and, in the
present one, down to the cursor. While the app handles the batch (`Handling`),
whatever is behind the new marker and was new before is in the batch, was
handled, or is in `cutOff`. Stored, that is `LossNeedsABurst`; `BatchIsComplete`
and `NothingTwice` need the same. The lemmas before it say what a page is (a
set of neighbours in the order), and what `HandBack` keeps of what was found (a
beginning of it in Facebook's order). Assumed is `BlueskyGivesTimes`: a
notification of Bluesky without a time sorts before every marker, ends the scan
and takes with it what is behind.

**Uploads.** What the client has counted and what the network holds need not
agree: a reply may be lost, YouTube may go back. The invariant (`IInv`) says how
far they can be apart while a piece is on its way, for each network, and that
YouTube's `resends` and the answers without progress count alike. The lemmas on
division (`LeftOver`, `PlanFits`, `TikTokPlan`) say that TikTok's plan covers the
file with no piece too small or too big. From it follow `DoneFilesAreWhole`,
`EveryPieceIsTaken` and `FailuresHaveACause`.

**SignIn.** Notes fit the state they are filed under (`NotesFit`), a request
fits what it has seen done (`RequestsFit`), and a sign-in nothing has happened
to has one request at a time, whose code is not used (`Undisturbed`): the three
promises are parts of the invariant or follow from it, for a memory of any
size.

**Calls.** What an interpreter of scripts promises depends on the scripts, so
the theorems say which of their marks it takes. `Scripts` has them
(`WellBuiltScript`), all seen by reading a script, none by running it: it ends
(`HasAnEnd`); it takes no error for something else (`NamesErrors`); there is a
step behind which everything that is used has been waited for
(`UsesWhatIsFinished`), it takes silence for an answer only about what may go out
early on its network (`TrustsSilence`), and it waits only for what it made
(`AwaitsWhatItMade`);
our own checks come before anything is public (`ChecksFirst`); what goes out
once is sent once or has a key (`SendsEachOnce`), and no key is that of two
things, but of posts that are the same by the names of their files
(`KeysTellApart`); behind what goes out nothing can fail unless the error
tells of it (`IsDoneOnceSent`); a fingerprint is made only after the parent has
been read (`IsFingerprinted`); "sign in again" stands behind a refusal or a
refresh token that is spent at one place (`SignsInForACause`); and a like is
added only behind a look for one (`LikesOnce`). That every operation of the
eleven networks has them is a part of `TypeOK`, which the run `calls` checks for
every call it makes; there are finitely many callers.

With them, for any number of callers, attempts and misfortunes, the invariant
`IInv` says: what a call has passed it has done, and what it waited for is
finished or was taken to be (`Passed`), each copy of what is
out was made by a step behind it or by a reply that got lost (`SentSoFar`,
`SentTwice`), a key the network knows is that of something out (`KeysAreOut`),
an error after something went out says so unless a reply hid it (`Honest`), and,
as long as nobody edits the parent, all who need it know who may see it, so that
equal posts have equal keys (`PublicRead`, `PostsKeyed`). `Counts` bounds a
call's tries, its rounds of waiting and the misfortunes, `Numbered` keeps the
numbers of what the network has made bounded; `MadeInTime` says that what is
waited for was made, `ToldOwn` what a call can have been told before any key was
used, `TokenSpent` that a call alone, none of whose replies got lost, has itself
passed the step that spent a refresh token which is gone, and `OneLike` that
without a lost reply, an edit or a second caller there is at most one record of
the like, and whoever has looked for it knows whether it is there. From it
follow `WhatIsOutIsWhole`, `SecondCopyHasACause`, `OnePostForTwo`,
`WhatIsToldIsOut`, `ErrorsAreHonest`, `TypesHold`, `SigningInHasACause`,
`OneLikeIsOneRecord`, `ChecksAreFirst` and `NoMethodIsMissing`. The last two
look at the call as it ends: a call refused by a check of its own stands at that
check, and all it has done stands before it.

Lemmas on the data: `NewNumberIsNew` says that among one more numbers than are
taken one is free, so that what the network makes can be numbered; `Counted`
that no step takes tries, rounds or misfortunes past their bounds; and `Least`
and `Greatest` that a set of numbers has its ends, which is also how the proofs
reach the first step of a kind in a script.

Model-checked only: every liveness property, the liveness of `KeepsCustody`
with them (fairness is out of the prover's reach), and that the operations of
the eleven networks are well built. Every invariant and every action property
of the runs is proved. The type invariants no run lists (`TokenRenewal`,
`Delivery`, `Polling`, `UpdatesAfter`, `Uploads`, `SignIn`) are the theorems
`Typing`.

## Findings

1. `tokens_meta`: `_renew` refuses a connection without a refresh token before
   the network is asked. Threads and Instagram never give one and renew with
   the access token, so their `refresh` is never called by the manager, while
   docs/platforms.md and `platforms/threads.py` say a monthly job keeps such a
   connection alive.
2. `webhook_twice`: `deliver` asks its memory before the handlers and writes
   after them. A copy that arrives in between is handled as well, while the
   docstring promises "only handled once".
3. `updates_missed`: after `_MAX_MARKER_PAGES` pages Bluesky's
   `fetch_updates_after` returns the newest marker; what it did not read lies
   behind it and is never read, while the contract says updates are never lost.
4. `updates_comments`: Facebook's `fetch_updates_after` reads one post after the
   other, and the newest comment of all makes the marker. A comment that comes
   to a post it has read, with a later one on a post it has still to read, is
   behind that marker and never read, while the docs say the marker misses
   nothing.

Smaller things the properties had to make room for:

* A second copy of a post needs a lost reply, but then it does happen on every
  network without a key (`TwiceHasACause` says where not). If the lost reply is
  that of the first post of an X thread and the retries run out, the error does
  not say that anything is out.
* Mastodon's `start_conversation` looks for the conversation after the message
  is out; an error from there says nothing of the message.
* `OutIsWhole`: a picture's container whose status reply has no `status_code` (or
  `status`) is published at once; the docstrings of Instagram's and Threads'
  `_wait_for` accept that. The same goes for any video of Pinterest's or X's.
  What the property forbids is that for a video, alone or in a carousel, on
  Instagram or Threads, for anything on Mastodon, and anything unfinished without
  such a reply.
* `ToldIsOut`: within the hour Mastodon remembers a key, a post with the same
  words and settings and with another file of the same name, address and alt
  text is not made, and its call is told that it is out. The docstring of
  `post_fingerprint` says that the code is made of "the files by name".
* X: when a wait for a video runs out of rounds, its last answer is not looked
  at.
* An empty file fails on YouTube without anything having gone wrong.
* `paginate` follows markers for as long as a network hands out new ones: one
  that hands out two in turn is read for ever. The models bound the pages.
* A full page of Mastodon notifications none of which can be read leaves the
  marker where it was with `more=True`; the model has no page like that.
* Two sign-ins under one state share their notes: the second one's overwrite
  the first one's. An app that names its states after its users, as the docs do
  (`state=user-42`), gets there with two tabs; the properties of `SignIn` are
  for states of their own, such as those `Routes` makes up.

## What is assumed, and not modelled

* Calls for different connection ids share nothing but the process.
* A file is not cut short while it is being uploaded.
* Access tokens of one network live equally long, so they run out in the order
  they were issued.
* `Delivery` states its promises for updates whose ids differ; `Pushes` says
  when a network's are. One Bluesky post that mentions two connected accounts
  gives both updates one id.
* `asyncio` runs a step between two awaits undisturbed. Under Django's WSGI
  bridge several threads with a loop each share one `SocialChimp`; what an
  `asyncio.Lock` does then is outside what `asyncio` defines, so that case
  is listed as a hazard and has no model.
* HTTP client: how long a wait is and what a rate limit says of it have no model,
  nor have the redirects and the addresses it refuses to follow.
* Storage: its five methods are atomic steps of `TokenRenewal` and `SignIn`;
  `InMemoryStorage` has no behaviour beyond them. Saved app credentials are
  there or not.
* Registry, models and errors: an import cache, records and names; what of them
  decides anything (the age of a token, the family of an error, the features) is
  in the modules that use it.
* Wording, logging, JSON, headers, the counting of characters, and what replies
  are turned into are left out.
* Not modelled: the framework bridges (they turn a request into a call of
  `Routes` and its answer back, and keep no state) and `testing.py` (fakes for
  an app's own tests).
