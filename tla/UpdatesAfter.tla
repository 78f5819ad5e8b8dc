---------------------------- MODULE UpdatesAfter ----------------------------
(***************************************************************************)
(* Polling with a stored marker: fetch_updates_after of Bluesky, which     *)
(* pages back from the newest notification until it meets the marker, of   *)
(* Mastodon, which asks for the page right after it, and of Facebook,      *)
(* which pages back through the comments of one recent post after the      *)
(* other; with the loop the docs give the app                              *)
(* (docs/use-cases/social-inbox.md): read the marker, fetch, handle the    *)
(* batch oldest first, save the new marker.                                *)
(*                                                                         *)
(* A notification, or a comment, is its place in the order they came in,   *)
(* which the network lists them by.  What the marker says of it, a time    *)
(* and a uri, or an id, is that place and When of it; Facebook's says      *)
(* besides which of that second were handed back.                          *)
(***************************************************************************)
EXTENDS Naturals, FiniteSets, FiniteSetsExt

CONSTANTS
  Networks,    \* which of the three to check
  Size,        \* bound: notifications that ever happen
  When,        \* indexedAt or created_at, in whole ticks, so some are equal
  Unreadable,  \* of each network: those that come without a time
  PostOf,      \* Facebook: the recent post a comment is on, the latest is 1
  Limit,       \* Facebook: limit, the most comments to hand back
  PageLimit,   \* of each network: notifications, or comments, on a page
  MaxPages,    \* of each network: _MAX_MARKER_PAGES, MOST_COMMENT_PAGES
  MaxFaults    \* bound: misfortunes in one behaviour

Places == 1..Size

ASSUME UpdatesAfterAssumption ==
  /\ Networks \subseteq {"bluesky", "mastodon", "facebook"}
  /\ Size \in Nat
  /\ When \in [Places -> Nat]
  /\ \A m, n \in Places : m <= n => When[m] <= When[n]
  /\ Unreadable \in [Networks -> SUBSET Places]
  /\ PostOf \in [Places -> 1..Size]
  /\ Limit \in Nat \ {0}
  /\ PageLimit \in [Networks -> Nat \ {0}]
  /\ MaxPages \in [Networks -> Nat \ {0}]
  /\ MaxFaults \in Nat

VARIABLES
  network,    \* the network of this connection
  top,        \* how many notifications there have been
  listed,     \* those the network still lists
  marker,     \* the marker the app stored; 0 is None
  seen,       \* Facebook: and the comments it names
  pc,         \* where the app's loop is
  post,       \* Facebook: the post whose comments are next
  cursor,     \* the next page holds what is older than this place
  pages,      \* pages read in this call, of this post
  collected,  \* what this call has found so far
  batch,      \* UpdateBatch.updates the app has not handled yet
  newMarker,  \* UpdateBatch.marker
  newSeen,    \* Facebook: and the comments it names
  handed,     \* updates the app has handled
  faults,     \* misfortunes so far
  origin,     \* history: the place the first marker stood for; 0 before
  waiting,    \* history: what was new when this call sent its first request
  cutOff      \* history: new ones behind the last page of a call, and those
              \* that came to a post the call had read

feed == <<network, top, listed>>
stored == <<marker, seen>>
call == <<post, cursor, pages, collected>>
result == <<batch, newMarker, newSeen>>
history == <<origin, waiting, cutOff>>
vars == <<feed, stored, pc, call, result, handed, faults, history>>

\* No Update is made of a notification without a time.
Readable == Places \ Unreadable[network]

\* A page of the newest, or oldest, of a set of notifications.
Newest(S) == {n \in S : Cardinality({m \in S : m > n}) < PageLimit[network]}
Oldest(S) == {n \in S : Cardinality({m \in S : m < n}) < PageLimit[network]}

Misfortune == faults < MaxFaults /\ faults' = faults + 1

\* Newer than a marker, which on Facebook names some of its second.
NewerThan(n, mark, named) ==
  IF network = "facebook"
  THEN When[n] >= When[mark] /\ (When[n] = When[mark] => n \notin named)
  ELSE n > mark
New(n) == NewerThan(n, marker, seen)

\* Facebook's are handed back by their second, and within it by their id, which
\* begins with that of the post: an older one has a smaller id.
Sooner(m, n) ==
  \/ When[m] < When[n]
  \/ When[m] = When[n] /\ PostOf[m] > PostOf[n]
  \/ When[m] = When[n] /\ PostOf[m] = PostOf[n] /\ m < n

\* The call returns this: the loop goes on with the batch.
Return(found, mark, named) ==
  /\ batch' = found \cap Readable
  /\ newMarker' = mark
  /\ newSeen' = named
  /\ pc' = "handle"

-----------------------------------------------------------------------------
Init ==
  /\ network \in Networks
  /\ top = 0
  /\ listed = {}
  /\ marker = 0 /\ seen = {}
  /\ pc = "idle"
  /\ post = 1 /\ cursor = 0 /\ pages = 0 /\ collected = {}
  /\ batch = {} /\ newMarker = 0 /\ newSeen = {}
  /\ handed = {}
  /\ faults = 0
  /\ origin = 0 /\ waiting = {} /\ cutOff = {}

\* Somebody likes, replies, follows, comments.
AlreadyRead(n) == PostOf[n] < post \/ (PostOf[n] = post /\ pages > 0)
Happen ==
  /\ top < Size
  /\ top' = top + 1
  /\ listed' = listed \cup {top + 1}
  /\ cutOff' = IF network = "facebook" /\ pc = "ask" /\ marker # 0 /\ AlreadyRead(top + 1)
               THEN cutOff \cup {top + 1} ELSE cutOff
  /\ UNCHANGED <<network, stored, pc, call, result, handed, faults, origin, waiting>>

\* The like is taken back, the reply deleted: the notification is gone.
Withdraw(n) ==
  /\ n \in listed
  /\ Misfortune
  /\ listed' = listed \ {n}
  /\ UNCHANGED <<network, top, stored, pc, call, result, handed, history>>

Call ==
  /\ pc = "idle"
  /\ pc' = "ask"
  /\ post' = 1
  /\ cursor' = Size + 1
  /\ pages' = 0
  /\ collected' = {}
  /\ waiting' = {n \in listed \cap Readable : marker # 0 /\ New(n)}
  /\ UNCHANGED <<feed, stored, result, handed, faults, origin, cutOff>>

\* Where scanning a page, newest first, stops: at the marker itself, at
\* anything older, and at a missing time, which is text that sorts first.
Reached_SameTick(n) == n \notin Readable \/ When[n] <= When[marker]
Reached_OnlyTheMarker(n) == n \notin Readable \/ n = marker
Reached(n) == n \notin Readable \/ When[n] < When[marker] \/ n = marker

\* The marker of a batch: its newest, and None if that has no time.
NewestFound(found) ==
  IF found = {} THEN marker
  ELSE IF Max(found) \in Readable THEN Max(found) ELSE 0

\* BlueskyPlatform.fetch_updates_after without a marker: the latest page is
\* the starting point.
AskFirstPage ==
  /\ network = "bluesky" /\ pc = "ask" /\ marker = 0
  /\ LET found == Newest(listed) IN
     Return(found, NewestFound(found), {})
  /\ UNCHANGED <<feed, stored, call, handed, faults, history>>

MayReadOn(read) == read < MaxPages[network]

\* One page back.  The call returns once it meets the marker, once there is no
\* older page, or once it has read so many: then with more = True.
AskPageBack ==
  /\ network = "bluesky" /\ pc = "ask" /\ marker # 0
  /\ LET page  == Newest({n \in listed : n < cursor})
         stops == {n \in page : Reached(n)}
         found == collected \cup {n \in page : \A m \in stops : n > m}
         older == {n \in listed : n < cursor} \ page
     IN \/ /\ stops # {} \/ older = {}
           /\ Return(found, NewestFound(found), {})
           /\ UNCHANGED <<call, cutOff>>
        \/ /\ stops = {} /\ older # {} /\ MayReadOn(pages + 1)
           /\ collected' = found
           /\ pages' = pages + 1
           /\ cursor' = Min(page)
           /\ UNCHANGED <<post, pc, result, cutOff>>
        \/ /\ stops = {} /\ older # {} /\ ~MayReadOn(pages + 1)
           /\ Return(found, NewestFound(found), {})
           /\ cutOff' = cutOff \cup {n \in older \cap Readable : n > marker}
           /\ UNCHANGED call
  /\ UNCHANGED <<feed, stored, handed, faults, origin, waiting>>

\* MastodonPlatform.fetch_updates_after: the page right after the marker
\* (min_id), or the latest one.  Updates come newest first and are sorted by
\* time, so of those with the last time the oldest ends up at the end, and is
\* the marker.
LastSorted(found) ==
  IF found = {} THEN marker
  ELSE Min({n \in found : When[n] = When[Max(found)]})

\* What min_id asks for; since_id would skip to the newest.
PageAfter_SinceId == Newest({n \in listed : n > marker})
PageAfter ==
  IF marker = 0 THEN Newest(listed) ELSE Oldest({n \in listed : n > marker})

AskMastodon ==
  /\ network = "mastodon" /\ pc = "ask"
  /\ LET found == PageAfter \cap Readable IN
     Return(found, LastSorted(found), {})
  /\ UNCHANGED <<feed, stored, call, handed, faults, history>>

\* What Facebook's hands back: the oldest of it up to the limit, or the newest
\* of it for a starting point; and the marker is the second of the newest of
\* those, naming all of that second that were ever handed back.
HandBack(found) ==
  {n \in found :
     Cardinality({m \in found : IF marker = 0 THEN Sooner(n, m) ELSE Sooner(m, n)}) < Limit}
NamedAfter_OfThisBatch(found, newest) == {n \in found : When[n] = When[newest]}
NamedAfter(found, newest) ==
  {n \in found : When[n] = When[newest]}
    \cup IF marker # 0 /\ When[marker] = When[newest] THEN seen ELSE {}

\* The request for the list of posts has no part in it: they stay the same.
LastPost == Max({PostOf[n] : n \in Places})

\* FacebookPlatform.fetch_updates_after: one page of the comments on one post,
\* of the latest one only if there is no marker (_comments_on).  It goes on to
\* the next post at a comment older than the marker's second.
AskComments ==
  /\ network = "facebook" /\ pc = "ask"
  /\ LET here  == {n \in listed : PostOf[n] = post /\ n < cursor}
         page  == Newest(here)
         stops == {n \in page \cap Readable : marker # 0 /\ When[n] < When[marker]}
         found == collected \cup {n \in page \cap Readable :
                                    (marker # 0 => New(n)) /\ \A m \in stops : n > m}
         older == here \ page
         onward == stops = {} /\ older # {} /\ marker # 0
     IN \/ /\ onward /\ MayReadOn(pages + 1)
           /\ collected' = found /\ pages' = pages + 1 /\ cursor' = Min(page)
           /\ UNCHANGED <<post, pc, result, cutOff>>
        \/ /\ ~onward \/ ~MayReadOn(pages + 1)
           /\ cutOff' = IF onward THEN cutOff \cup {n \in older \cap Readable : New(n)}
                        ELSE cutOff
           /\ IF post < LastPost
              THEN /\ post' = post + 1
                   /\ pages' = 0 /\ cursor' = Size + 1 /\ collected' = found
                   /\ UNCHANGED <<pc, result>>
              ELSE /\ UNCHANGED call
                   /\ LET back == HandBack(found) IN
                        IF found = {} THEN Return({}, marker, seen)
                        ELSE Return(back, Max(back), NamedAfter(back, Max(back)))
  /\ UNCHANGED <<feed, stored, handed, faults, origin, waiting>>

\* The request fails, a handler raises, the marker cannot be written, or the
\* app restarts: the next round starts from the stored marker.
Fail ==
  /\ pc # "idle"
  /\ Misfortune
  /\ pc' = "idle"
  /\ batch' = {}
  /\ newMarker' = 0 /\ newSeen' = {}
  /\ UNCHANGED <<feed, stored, call, handed, history>>

\* UpdateBatch.updates is oldest first, and Mastodon's newest first in a tick.
NextUp ==
  CASE network = "bluesky" -> Min(batch)
    [] network = "mastodon" -> Max({n \in batch : When[n] = When[Min(batch)]})
    [] network = "facebook" -> CHOOSE n \in batch : \A m \in batch \ {n} : Sooner(n, m)

Handle ==
  /\ pc = "handle" /\ batch # {}
  /\ handed' = handed \cup {NextUp}
  /\ batch' = batch \ {NextUp}
  /\ UNCHANGED <<feed, stored, pc, call, newMarker, newSeen, faults, history>>

Save ==
  /\ pc = "handle" /\ batch = {}
  /\ marker' = newMarker /\ seen' = newSeen
  /\ newMarker' = 0 /\ newSeen' = {}
  /\ pc' = "idle"
  /\ origin' = IF marker = 0 THEN newMarker ELSE origin
  /\ UNCHANGED <<feed, call, batch, handed, faults, waiting, cutOff>>

-----------------------------------------------------------------------------
Round == Call \/ AskFirstPage \/ AskPageBack \/ AskMastodon \/ AskComments \/ Handle \/ Save

Next ==
  \/ Round \/ Happen \/ Fail
  \/ \E n \in Places : Withdraw(n)

Spec == Init /\ [][Next]_vars

\* The app keeps polling, and its requests are answered.
FairSpec == Spec /\ WF_vars(Round)

-----------------------------------------------------------------------------
TypeOK ==
  /\ network \in Networks
  /\ top \in 0..Size
  /\ listed \subseteq 1..top
  /\ marker \in 0..top /\ seen \subseteq 1..top
  /\ pc \in {"idle", "ask", "handle"}
  /\ post \in Nat \ {0}
  /\ cursor \in 0..Size + 1
  /\ pages \in 0..MaxPages[network] - 1
  /\ collected \subseteq 1..top
  /\ batch \subseteq 1..top
  /\ newMarker \in 0..top /\ newSeen \subseteq 1..top
  /\ handed \subseteq 1..top
  /\ faults \in 0..MaxFaults
  /\ origin \in 0..top
  /\ waiting \subseteq 1..top
  /\ cutOff \subseteq 1..top

\* What the stored marker stands for: it has moved past these.
Behind == {n \in listed \cap Readable : origin # 0 /\ origin < n /\ ~New(n)}

\* A stored marker moves past an update only when the app has handled it, or
\* when more came at once than a call to Bluesky, or of one post of Facebook,
\* reads pages for, or when it came to a post of Facebook during a call that
\* had read that one.  Whatever fails, restarts or is withdrawn in between.
LossNeedsABurst == Behind \subseteq handed \cup cutOff

\* Within one round: what was new when a call began, and would no longer be after
\* the marker it answers, is in its batch, unless the call gave up before it.
BatchIsComplete ==
  pc = "handle" /\ marker # 0 =>
    \A n \in waiting \cap listed :
      ~NewerThan(n, newMarker, newSeen) => n \in batch \cup handed \cup cutOff

\* What Facebook handed back once, and the app handled, it does not hand back
\* again, if nothing went wrong: "nothing is handed back twice" (facebook.py).
NothingTwice == (network = "facebook" /\ faults = 0) => batch \cap handed = {}

\* Polling gets everything that stays listed to the app in the end: again and
\* again nothing is due, and no more happens than Size.
Due ==
  {n \in listed \cap Readable : origin # 0 /\ origin < n /\ n \notin handed \cup cutOff}
EverythingArrives == []<>(Due = {})

\* "A moment in time can miss or repeat updates around the edges, where a
\* marker cannot" (platform.py).
NeverMissed == Behind \subseteq handed

\* What fetching after a marker promises the app is what Inbox says: of a batch,
\* and of what is behind the stored marker, but that on Bluesky things of the
\* marker's own tick may come again ("Updates can occasionally come back twice",
\* docs/social-inbox-contract.md).
NotComing == {n \in Behind : network = "bluesky" => When[n] # When[marker]}
Inbox == INSTANCE Inbox WITH
  Updates <- Places, given <- batch, handled <- handed, over <- NotComing, missed <- cutOff
KeepsInbox == Inbox!Spec
=============================================================================
