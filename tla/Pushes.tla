------------------------------- MODULE Pushes -------------------------------
(***************************************************************************)
(* What a network pushes to the app: the handshake before the first push,  *)
(* the check of the signature and of its age, and how an update gets the   *)
(* id by which a second copy of the message is known.  How handlers run,   *)
(* fail and are cut short is in Delivery; here a message that is accepted  *)
(* is handled to its end.                                                  *)
(***************************************************************************)
EXTENDS Naturals, FiniteSets

CONSTANTS
  Messages,        \* the messages of one behaviour
  Scenarios,       \* what they carry: message -> [net, account, timed, things]
  TicksPerSecond,  \* the clock goes on by parts of a second
  AllowedAge,      \* ticks: TikTok's allowed age, the life of Google's token
  MaxNow,          \* bound: the clock
  MaxFaults        \* bound: messages altered on the way, lost answers

Nets == {"facebook", "instagram", "threads", "tiktok", "google_business"}

\* Update ids do not name the network; an account is on one.
ASSUME PushesAssumption ==
  /\ \A carried \in Scenarios :
       /\ DOMAIN carried = Messages
       /\ \A m \in Messages :
            /\ carried[m].net \in Nets
            /\ DOMAIN carried[m].things \subseteq Nat
            /\ \A i \in DOMAIN carried[m].things : carried[m].things[i].own \in BOOLEAN
       /\ \A m, n \in Messages :
            carried[m].account = carried[n].account => carried[m].net = carried[n].net
  /\ TicksPerSecond \in Nat \ {0}
  /\ {AllowedAge, MaxNow, MaxFaults} \subseteq Nat
  /\ TicksPerSecond <= MaxNow

VARIABLES
  carries,   \* what the messages of this behaviour carry
  now,       \* the clock
  happened,  \* when the things of a message happened; Never before
  setUp,     \* networks that were given their challenge back
  renews,    \* a message sent again has a new time and a new signature
  first,     \* the time of the first copy of a message; Never before
  inflight,  \* copies on their way: [msg, at, genuine]
  told,      \* messages answered with 200
  seen,      \* ids of updates handled (SeenUpdates)
  handled,   \* how often each thing of a message was handled
  read,      \* history: the copies that were read, with their times
  faults     \* misfortunes so far

vars == <<carries, now, happened, setUp, renews, first, inflight, told, seen, handled,
          read, faults>>

Never == 0

\* A thing: what happened (the field, the event, the kind), to what (the name
\* the network gives it, if any), by whom, and whether it says when itself.
Thing(topic, name, who, own) == [topic |-> topic, name |-> name, who |-> who, own |-> own]
Named(thing) == thing.name # ""

-----------------------------------------------------------------------------
\* Signatures.  Meta signs the body; TikTok the body and a time; Google sends a
\* token that ends.
VerifyHmacSha256(copy) == copy.genuine
CheckMetaSignature(copy) == VerifyHmacSha256(copy)
CheckNotTooOld_SinceItHappened(copy) == now - happened[copy.msg] <= AllowedAge
CheckNotTooOld(copy) == now - copy.at <= AllowedAge
VerifyGoogleIdToken(copy) == copy.genuine /\ copy.at + AllowedAge >= now
CheckSignature(copy) ==
  CASE carries[copy.msg].net \in {"facebook", "instagram", "threads"} ->
         CheckMetaSignature(copy)
    [] carries[copy.msg].net = "tiktok" ->
         VerifyHmacSha256(copy) /\ CheckNotTooOld(copy)
    [] carries[copy.msg].net = "google_business" -> VerifyGoogleIdToken(copy)

\* answer_setup_check: the networks of Meta ask before they push anything.
AsksFirst == {"facebook", "instagram", "threads"}

-----------------------------------------------------------------------------
\* Reading.  What Instagram says in "messaging" are the words of message_events;
\* only a message somebody sent is an update too.
MessageWords ==
  {"received", "sent", "deleted", "reacted", "unreacted", "read", "button_tapped"}
ReceivedUpdates == {"received"}

\* The places of the things an update is made of.
UpdatesIn_FirstOnly(m) == {1}
UpdatesIn(m) ==
  {i \in DOMAIN carries[m].things :
     carries[m].things[i].topic \in MessageWords => carries[m].things[i].topic \in ReceivedUpdates}

Second(moment) == moment \div TicksPerSecond

\* The time of the message, or of the reading when it has none (_when_in).
WhenIn(copy) == IF carries[copy.msg].timed THEN copy.at ELSE now

\* _when_it_happened, created_time: the thing's own time before the message's.
When(m, thing, when) == IF thing.own THEN happened[m] ELSE when

\* The id: on Instagram and Threads the thing's name, or else the second of its
\* time; on Facebook both and who did it; on TikTok and Google Business what
\* the message says, and nothing for a time that is missing.
NameOrSecond(thing, when) ==
  IF Named(thing) THEN <<"named", thing.name>> ELSE <<"at", Second(when)>>
FacebookId(m, thing, when) == <<thing.name, thing.who, Second(When(m, thing, when))>>
OwnTime(m, thing) == IF thing.own THEN Second(happened[m]) ELSE Never
TiktokId(m, thing) == <<thing.name, thing.who, OwnTime(m, thing)>>
GoogleId(m, thing) == <<thing.name, OwnTime(m, thing)>>
InstagramId_Millisecond(thing, when) ==
  IF thing.topic \in MessageWords THEN <<"message", when>> ELSE NameOrSecond(thing, when)
InstagramId(thing, when) ==
  IF thing.topic \in MessageWords THEN <<"message", thing.name>>
  ELSE NameOrSecond(thing, when)
Identity(m, thing, when) ==
  CASE carries[m].net = "instagram" -> InstagramId(thing, when)
    [] carries[m].net = "threads" -> NameOrSecond(thing, When(m, thing, when))
    [] carries[m].net = "facebook" -> FacebookId(m, thing, when)
    [] carries[m].net = "tiktok" -> TiktokId(m, thing)
    [] carries[m].net = "google_business" -> GoogleId(m, thing)

\* The id of what is at this place of a message, read with this time.
UpdateId(m, i, when) ==
  LET thing == carries[m].things[i]
  IN  <<carries[m].account, thing.topic, Identity(m, thing, when)>>

-----------------------------------------------------------------------------
Misfortune == faults < MaxFaults /\ faults' = faults + 1

Init ==
  /\ carries \in Scenarios
  /\ now = TicksPerSecond
  /\ happened = [m \in Messages |-> Never]
  /\ setUp = {}
  /\ renews \in BOOLEAN
  /\ first = [m \in Messages |-> Never]
  /\ inflight = {}
  /\ told = {} /\ seen = {} /\ read = {}
  /\ handled = [m \in Messages |-> [i \in DOMAIN carries[m].things |-> 0]]
  /\ faults = 0

Tick ==
  /\ now < MaxNow
  /\ now' = now + 1
  /\ UNCHANGED <<carries, happened, setUp, renews, first, inflight, told, seen, handled,
                 read, faults>>

Happen(m) ==
  /\ happened[m] = Never
  /\ happened' = [happened EXCEPT ![m] = now]
  /\ UNCHANGED <<carries, now, setUp, renews, first, inflight, told, seen, handled, read,
                 faults>>

\* The network asks with the token it was given, and is answered.
AnswerSetupCheck(net) ==
  /\ net \in AsksFirst \ setUp
  /\ setUp' = setUp \cup {net}
  /\ UNCHANGED <<carries, now, happened, renews, first, inflight, told, seen, handled,
                 read, faults>>

\* The network sends a message, and again while it is not told 200.  It may be
\* changed on its way: by something that parses and rebuilds the body, or by an
\* app that was given another secret.
Copy(m, genuine) ==
  [msg |-> m, at |-> IF first[m] = Never \/ renews THEN now ELSE first[m],
   genuine |-> genuine]
Push(m) ==
  /\ happened[m] # Never /\ m \notin told
  /\ carries[m].net \in AsksFirst => carries[m].net \in setUp
  /\ Cardinality({copy \in inflight : copy.msg = m}) < 2
  /\ \/ inflight' = inflight \cup {Copy(m, TRUE)} /\ UNCHANGED faults
     \/ inflight' = inflight \cup {Copy(m, FALSE)} /\ Misfortune
  /\ first' = [first EXCEPT ![m] = IF @ = Never THEN now ELSE @]
  /\ UNCHANGED <<carries, now, happened, setUp, renews, told, seen, handled, read>>

\* Routes.webhook refuses before it has read anything: 401.
Refuse(copy) ==
  /\ copy \in inflight
  /\ ~CheckSignature(copy)
  /\ inflight' = inflight \ {copy}
  /\ UNCHANGED <<carries, now, happened, setUp, renews, first, told, seen, handled, read,
                 faults>>

\* Every update in turn, each skipped whose id was handled before; and the
\* answer, which may get lost.
Fresh_NotAsked(copy) == UpdatesIn(copy.msg)
Fresh(copy) ==
  LET id(i) == UpdateId(copy.msg, i, WhenIn(copy))
  IN  {i \in UpdatesIn(copy.msg) :
         id(i) \notin seen /\ \A j \in UpdatesIn(copy.msg) : j < i => id(j) # id(i)}
Webhook(copy) ==
  /\ copy \in inflight
  /\ CheckSignature(copy)
  /\ inflight' = inflight \ {copy}
  /\ handled' = [handled EXCEPT ![copy.msg] =
       [i \in DOMAIN @ |-> @[i] + IF i \in Fresh(copy) THEN 1 ELSE 0]]
  /\ seen' = seen \cup {UpdateId(copy.msg, i, WhenIn(copy)) : i \in Fresh(copy)}
  /\ read' = read \cup {[msg |-> copy.msg, when |-> WhenIn(copy)]}
  /\ \/ told' = told \cup {copy.msg} /\ UNCHANGED faults
     \/ UNCHANGED told /\ Misfortune
  /\ UNCHANGED <<carries, now, happened, setUp, renews, first>>

NetsHere == {carries[m].net : m \in Messages}
Next ==
  \/ Tick
  \/ \E m \in Messages : Happen(m) \/ Push(m)
  \/ \E net \in NetsHere : AnswerSetupCheck(net)
  \/ \E copy \in inflight : Refuse(copy) \/ Webhook(copy)

Spec == Init /\ [][Next]_vars

\* The network asks and goes on sending, and what it sends gets there: networks
\* repeat a message until it is answered.
Receive(m) ==
  \E copy \in inflight : copy.msg = m /\ (Refuse(copy) \/ Webhook(copy))
FairSpec ==
  /\ Spec
  /\ \A m \in Messages : WF_vars(Push(m)) /\ WF_vars(Receive(m))
  /\ WF_vars(\E net \in NetsHere : AnswerSetupCheck(net))

-----------------------------------------------------------------------------
TypeOK ==
  /\ carries \in Scenarios
  /\ now \in TicksPerSecond..MaxNow
  /\ happened \in [Messages -> 0..now]
  /\ first \in [Messages -> 0..now]
  /\ setUp \subseteq AsksFirst
  /\ \A copy \in inflight : copy.msg \in Messages /\ copy.at \in 1..now
  /\ told \subseteq {m \in Messages : happened[m] # Never}
  /\ \A m \in Messages : \A i \in DOMAIN handled[m] :
       handled[m][i] \in 0..Cardinality({r \in read : r.msg = m})
  /\ faults \in 0..MaxFaults

Signs == {"tiktok", "google_business"}      \* networks whose signature ends

\* The seconds a thing may be taken to be of: its own, or those of the copies that
\* were read.  Instagram's things have no time of their own that is looked at.
SecondsOf(m, i) ==
  IF carries[m].things[i].own /\ carries[m].net # "instagram" THEN {Second(happened[m])}
  ELSE {Second(r.when) : r \in {s \in read : s.msg = m}}

\* What nobody can tell apart: the same thing of the same account, by the same
\* person where that is said, of one name, in one message, of no time or within
\* the second.
Alike(m, i, n, j) ==
  LET one == carries[m].things[i]
      other == carries[n].things[j]
  IN  /\ carries[m].account = carries[n].account
      /\ one.topic = other.topic /\ one.name = other.name
      /\ carries[m].net \in {"facebook", "tiktok"} => one.who = other.who
      /\ \/ Named(one) /\ carries[m].net \in {"instagram", "threads"}
         \/ carries[m].net = "instagram" /\ one.topic \in MessageWords
         \/ carries[m].net \in Signs /\ ~one.own /\ ~other.own
         \/ SecondsOf(m, i) \cap SecondsOf(n, j) # {}

\* A message is answered with 200 only when everything in it that the app is to
\* hear of - not what it wrote itself, nor what was read - was handled:
\* itself, or another one nobody can tell from it.
ForTheApp(m) ==
  {i \in DOMAIN handled[m] : carries[m].things[i].topic \notin MessageWords \ {"received"}}
AnsweredIsHandled ==
  \A m \in told : \A i \in ForTheApp(m) :
    \/ handled[m][i] > 0
    \/ \E n \in Messages : \E j \in ForTheApp(n) :
         <<n, j>> # <<m, i>> /\ handled[n][j] > 0 /\ Alike(m, i, n, j)

\* However often a message is sent, a thing is handled once; but for one that
\* has neither a name nor a time of its own, in a message that has another time
\* every time it is read.  On Facebook the time is part of the id, name or not.
NamesItself(net, thing) ==
  \/ net \in Signs \/ (net = "instagram" /\ thing.topic \in MessageWords)
  \/ thing.own /\ net # "instagram"
  \/ Named(thing) /\ net # "facebook"
HandledOnceIfItNamesItself ==
  \A m \in Messages : \A i \in DOMAIN handled[m] :
    handled[m][i] > 1
      => ~NamesItself(carries[m].net, carries[m].things[i])
         /\ \E r, s \in read : r.msg = m /\ s.msg = m /\ r.when # s.when

\* What happened is heard of in the end - unless the network repeats a signature
\* that runs out.
HeardOfInTheEnd ==
  \A m \in Messages :
    (happened[m] # Never /\ (renews \/ carries[m].net \notin Signs)) ~> (m \in told)
=============================================================================
