------------------------------ MODULE Requests ------------------------------
(***************************************************************************)
(* The words in which the network modules write down their operations: an  *)
(* operation is the sequence of requests it makes, with the checks that    *)
(* end it early in their places.  Calls says what each of them does when   *)
(* requests are lost, refused and repeated.                                *)
(***************************************************************************)
EXTENDS Naturals, Sequences, SequencesExt

\* What an app asks for: the network, the operation, the pictures and videos
\* that go with it, and whatever else tells one such call from another.
Call(net, does, media, is) == [net |-> net, does |-> does, media |-> media, is |-> is]
Is(call, word) == word \in call.is

\* A file: what it goes by (name, for its filename, address and alt text), and
\* what is in it: "little", which a network has worked through when it answers,
\* or "much", which it only accepts for now.
File(kind, from, name, holds) ==
  [kind |-> kind, from |-> from, name |-> name, holds |-> holds]
Item(kind, from) == File(kind, from, "usual", IF kind = "image" THEN "little" ELSE "much")
OfKind(call, kind) == SelectSeq(call.media, LAMBDA item : item.kind = kind)
Carries(call, kind) == OfKind(call, kind) # <<>>
AnyFrom(call, from) == \E i \in DOMAIN call.media : call.media[i].from = from
With(call, word) == [call EXCEPT !.is = @ \cup {word}]

-----------------------------------------------------------------------------
\* One step: what it does, and to what.
\*   uses   what a request refers to, which the network must have finished
\*   unless, only   facts: the step is left out when the one is known, or the
\*                  other is not
\*   soft   the errors that do not end the call
\*   caught, as  the errors that are caught, and raised as another
\*   key    the Idempotency-Key it carries, if any
\*   once   HttpClient is told not to send it again
\*   again  a refusal that says "not yet" is asked again after a while
\*   silent what a wait does about a reply without the word it is after: it
\*          asks again, or trusts that all is well; never, if the status decides
Step(does, what) ==
  [does |-> does, what |-> what, uses |-> {}, unless |-> "", only |-> "",
   soft |-> {}, caught |-> {}, as |-> "", key |-> <<>>, once |-> FALSE, again |-> FALSE,
   silent |-> "never"]

Refuse(error) == <<Step("refuse", error)>>
Return(state) == <<Step("return", {state})>>
ReturnOneOf(states) == <<Step("return", states)>>

Get(what) == <<Step("get", what)>>           \* reads, changes nothing
Learn(fact) == <<Step("learn", fact)>>       \* reads whether something is so
Search(fact) == <<Step("search", fact)>>     \* the same, page after page
Cached(what) == <<Step("cached", what)>>     \* reads, unless this was kept
Make(what) == <<Step("make", what)>>         \* something nobody can see yet
Begin(what) == <<Step("begin", what)>>       \* the same; the network works on it
Put(what) == <<Step("put", what)>>           \* one more piece of it
Wait(what) ==                                \* asks until it has finished
  <<[Step("wait", what) EXCEPT !.silent = "asks"]>>
Watch(what) ==                               \* the same; looks, then asks
  <<[Step("watch", what) EXCEPT !.silent = "trusts"]>>
Send(what, uses) == <<[Step("send", what) EXCEPT !.uses = uses]>>
Add(fact) == <<Step("add", fact)>>           \* one more, each time
Set(fact) == <<Step("set", fact)>>           \* so from now on
Unset(fact) == <<Step("unset", fact)>>       \* not so any longer
Drop(fact) == <<Step("drop", fact)>>         \* without the one that was read
Spend(fact) == <<Step("spend", fact)>>       \* good for one request

Bearing(errors, steps) == [i \in DOMAIN steps |-> [steps[i] EXCEPT !.soft = errors]]
Caught(errors, error, steps) ==
  [i \in DOMAIN steps |-> [steps[i] EXCEPT !.caught = errors, !.as = error]]
Again(steps) == [i \in DOMAIN steps |-> [steps[i] EXCEPT !.again = TRUE]]
Trusting(steps) == [i \in DOMAIN steps |-> [steps[i] EXCEPT !.silent = "trusts"]]
ByStatus(steps) == [i \in DOMAIN steps |-> [steps[i] EXCEPT !.silent = "never"]]
Once(steps) == [i \in DOMAIN steps |-> [steps[i] EXCEPT !.once = TRUE]]
Keyed(steps, key) == [i \in DOMAIN steps |-> [steps[i] EXCEPT !.key = key]]
Session == <<"session">>                     \* the key of an upload of its own
Unless(fact, steps) == [i \in DOMAIN steps |-> [steps[i] EXCEPT !.unless = fact]]
OnlyIf(fact, steps) == [i \in DOMAIN steps |-> [steps[i] EXCEPT !.only = fact]]

\* Checks in the order the code makes them: the first that finds something ends
\* the call.
Checks(rows) ==
  LET found == {i \in DOMAIN rows : rows[i][1]}
  IN  IF found = {} THEN <<>>
      ELSE Refuse(rows[CHOOSE i \in found : \A j \in found : i <= j][2])

When(holds, steps) == IF holds THEN steps ELSE <<>>
Joined(parts) == FlattenSeq(parts)

\* Names for the things a call makes, one for each item, of a thread's post.
Slot(post, i) == <<"media", post, i>>
Slots(call, post) == {Slot(post, i) : i \in DOMAIN call.media}
EachItem(call, Steps(_, _)) ==
  Joined([i \in DOMAIN call.media |-> Steps(call.media[i], i)])
=============================================================================
