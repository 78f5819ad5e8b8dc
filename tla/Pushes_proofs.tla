---------------------------- MODULE Pushes_proofs ---------------------------
(***************************************************************************)
(* Proofs about Pushes, for messages that carry anything, pushed any       *)
(* number of times, altered and answered in vain.                          *)
(***************************************************************************)
EXTENDS Pushes, FiniteSetTheorems, WellFoundedInduction, TLAPS

ReadOf(m) == {r \in read : r.msg = m}

StateOK ==
  /\ carries \in Scenarios
  /\ now \in TicksPerSecond..MaxNow
  /\ happened \in [Messages -> Nat] /\ first \in [Messages -> Nat]
  /\ \A m \in Messages : /\ happened[m] # Never => TicksPerSecond <= happened[m]
                         /\ happened[m] <= now /\ first[m] <= now
  /\ setUp \subseteq AsksFirst
  /\ \A copy \in inflight : copy.msg \in Messages /\ copy.at \in 1..now
                            /\ happened[copy.msg] # Never
  /\ told \subseteq Messages
  /\ faults \in 0..MaxFaults
  /\ DOMAIN handled = Messages
  /\ \A m \in Messages : handled[m] \in [DOMAIN carries[m].things -> Nat]

\* What was read can be looked up again: it happened, and everything in it was
\* handled by the id it had then.
ReadOK ==
  /\ IsFiniteSet(read)
  /\ \A r \in read : /\ r = [msg |-> r.msg, when |-> r.when]
                     /\ r.msg \in Messages /\ r.when \in Nat
                     /\ happened[r.msg] # Never
                     /\ \A i \in UpdatesIn(r.msg) : UpdateId(r.msg, i, r.when) \in seen
  /\ \A m \in told : ReadOf(m) # {}

\* An id was seen when something that has it was handled.
SeenOK ==
  \A id \in seen : \E r \in read : \E i \in UpdatesIn(r.msg) :
    handled[r.msg][i] > 0 /\ id = UpdateId(r.msg, i, r.when)

\* A thing is handled no more often than its message was read at different
\* times, and a second time only by another id.
HandledOK ==
  \A m \in Messages : \A i \in DOMAIN handled[m] :
    /\ handled[m][i] > 0 => i \in UpdatesIn(m) /\ ReadOf(m) # {}
    /\ handled[m][i] <= Cardinality(ReadOf(m))
    /\ handled[m][i] > 1 => \E r, s \in ReadOf(m) :
         UpdateId(m, i, r.when) # UpdateId(m, i, s.when)

IInv == StateOK /\ ReadOK /\ SeenOK /\ HandledOK

-----------------------------------------------------------------------------
\* Of some places there is a first one.
LEMMA FirstPlace ==
  ASSUME NEW S \in SUBSET Nat, S # {}
  PROVE  \E i \in S : \A j \in S : ~(j < i)
<1>1. PICK i \in S : \A j \in S : ~(<<j, i>> \in OpToRel(<, Nat))
  BY WFMin, NatLessThanWellFounded
<1>2. \A j \in S : ~(j < i)
  <2> TAKE j \in S
  <2>1. i \in Nat /\ j \in Nat
    OBVIOUS
  <2> QED
    BY <1>1, <2>1, Zenon DEF OpToRel
<1> QED
  BY <1>2

\* An id stays what it is: what happened does not happen again.
LEMMA SameId ==
  ASSUME NEW m, NEW i, NEW when, carries' = carries, happened'[m] = happened[m]
  PROVE  UpdateId(m, i, when)' = UpdateId(m, i, when)
BY DEF UpdateId, Identity, InstagramId, NameOrSecond, FacebookId, TiktokId, GoogleId,
       OwnTime, When, Named, Second

\* Everything else that is said of read messages.
LEMMA SamePlaces ==
  ASSUME carries' = carries
  PROVE  \A m : UpdatesIn(m)' = UpdatesIn(m)
BY DEF UpdatesIn

-----------------------------------------------------------------------------
\* A step that reads nothing.
LEMMA NotRead ==
  ASSUME IInv, StateOK', UNCHANGED <<carries, told, seen, handled, read>>,
         \A m \in Messages : happened[m] # Never => happened'[m] = happened[m]
  PROVE  IInv'
<1>1. \A r \in read : \A i : UpdateId(r.msg, i, r.when)' = UpdateId(r.msg, i, r.when)
  <2> SUFFICES ASSUME NEW r \in read, NEW i
               PROVE  UpdateId(r.msg, i, r.when)' = UpdateId(r.msg, i, r.when)
    OBVIOUS
  <2>1. happened'[r.msg] = happened[r.msg]
    BY DEF IInv, ReadOK
  <2> QED
    BY <2>1, SameId
<1>2. \A m : ReadOf(m)' = ReadOf(m) /\ UpdatesIn(m)' = UpdatesIn(m)
  BY SamePlaces DEF ReadOf
<1>3. ReadOK'
  BY <1>1, <1>2 DEF IInv, ReadOK
<1>4. SeenOK'
  BY <1>1, <1>2 DEF IInv, SeenOK
<1>5. HandledOK'
  <2> SUFFICES ASSUME NEW m \in Messages, NEW i \in DOMAIN handled[m]
               PROVE  /\ handled[m][i] > 0 => i \in UpdatesIn(m)' /\ ReadOf(m)' # {}
                      /\ handled[m][i] <= Cardinality(ReadOf(m)')
                      /\ handled[m][i] > 1 => \E r, s \in ReadOf(m)' :
                           UpdateId(m, i, r.when)' # UpdateId(m, i, s.when)'
    BY DEF HandledOK
  <2>1. \A r \in ReadOf(m) : UpdateId(m, i, r.when)' = UpdateId(m, i, r.when)
    BY <1>1 DEF ReadOf
  <2> QED
    BY <1>2, <2>1 DEF IInv, HandledOK
<1> QED
  BY <1>3, <1>4, <1>5 DEF IInv

-----------------------------------------------------------------------------
\* The shape of the state is kept, whatever a step reads.
LEMMA StateKept ==
  ASSUME StateOK, [Next]_vars
  PROVE  StateOK' /\ \A m \in Messages : happened[m] # Never => happened'[m] = happened[m]
<1> USE PushesAssumption DEF Never
<1>1. ASSUME Tick
      PROVE  StateOK' /\ UNCHANGED happened
  BY <1>1 DEF Tick, StateOK
<1>2. ASSUME NEW m \in Messages, Happen(m)
      PROVE  /\ StateOK'
             /\ \A n \in Messages : happened[n] # Never => happened'[n] = happened[n]
  BY <1>2 DEF Happen, StateOK
<1>3. ASSUME NEW m \in Messages, Push(m)
      PROVE  StateOK' /\ UNCHANGED happened
  <2>1. \A genuine \in BOOLEAN : /\ Copy(m, genuine).msg = m
                                 /\ Copy(m, genuine).at \in 1..now
    BY DEF Copy, StateOK
  <2>2. PICK genuine \in BOOLEAN : inflight' = inflight \cup {Copy(m, genuine)}
    BY <1>3 DEF Push
  <2>3. \A copy \in inflight' : copy.msg \in Messages /\ copy.at \in 1..now
                                /\ happened[copy.msg] # Never
    BY <1>3, <2>1, <2>2 DEF Push, StateOK
  <2>4. first' \in [Messages -> Nat] /\ \A n \in Messages : first'[n] <= now
    BY <1>3 DEF Push, StateOK
  <2>5. faults' = faults \/ Misfortune
    BY <1>3 DEF Push
  <2>6. faults' \in 0..MaxFaults
    BY <2>5 DEF Misfortune, StateOK
  <2> QED
    BY <1>3, <2>3, <2>4, <2>6 DEF Push, StateOK
<1>4. ASSUME NEW net \in NetsHere, AnswerSetupCheck(net)
      PROVE  StateOK' /\ UNCHANGED happened
  BY <1>4 DEF AnswerSetupCheck, StateOK
<1>5. ASSUME NEW copy \in inflight, Refuse(copy)
      PROVE  StateOK' /\ UNCHANGED happened
  BY <1>5 DEF Refuse, StateOK
<1>6. ASSUME NEW copy \in inflight, Webhook(copy)
      PROVE  StateOK' /\ UNCHANGED happened
  <2>1. copy.msg \in Messages
    BY DEF StateOK
  <2>2. /\ DOMAIN handled' = Messages
        /\ \A m \in Messages : handled'[m] \in [DOMAIN carries[m].things -> Nat]
    BY <1>6, <2>1 DEF Webhook, StateOK
  <2>3. faults' \in 0..MaxFaults /\ told' \subseteq Messages
    BY <1>6, <2>1 DEF Webhook, Misfortune, StateOK
  <2> QED
    BY <1>6, <2>2, <2>3 DEF Webhook, StateOK
<1>7. CASE UNCHANGED vars
  BY <1>7 DEF vars, StateOK
<1> QED
  BY <1>1, <1>2, <1>3, <1>4, <1>5, <1>6, <1>7 DEF Next

LEMMA InitHolds == Init => IInv
<1> SUFFICES ASSUME Init PROVE IInv
  OBVIOUS
<1>1. StateOK
  BY PushesAssumption DEF Init, StateOK, Never
<1>2. ReadOK /\ SeenOK
  BY FS_EmptySet DEF Init, ReadOK, SeenOK
<1>3. \A m : ReadOf(m) = {}
  BY DEF Init, ReadOf
<1>4. HandledOK
  <2>1. \A m \in Messages : \A i \in DOMAIN handled[m] : handled[m][i] = 0
    BY DEF Init
  <2> QED
    BY <1>3, <2>1, FS_EmptySet DEF HandledOK
<1> QED
  BY <1>1, <1>2, <1>4 DEF IInv

-----------------------------------------------------------------------------
\* A message is read: each of its updates has an id that was seen before, or is
\* handled now, or has the id of one before it that is.
LEMMA WebhookKeeps ==
  ASSUME IInv, NEW copy \in inflight, Webhook(copy), StateOK'
  PROVE  IInv'
<1>1. PICK m \in Messages, w \in Nat : m = copy.msg /\ w = WhenIn(copy)
  BY PushesAssumption DEF IInv, StateOK, WhenIn
<1> DEFINE r0 == [msg |-> m, when |-> w]
           id(n, i, when) == UpdateId(n, i, when)
<1>2. \A n, i, when : id(n, i, when)' = id(n, i, when)
  BY SameId DEF Webhook
<1>3. /\ UNCHANGED <<carries, happened>> /\ \A n : UpdatesIn(n)' = UpdatesIn(n)
      /\ read' = read \cup {r0}
      /\ seen' = seen \cup {id(m, i, w) : i \in Fresh(copy)}
      /\ told' \subseteq told \cup {m}
      /\ happened[m] # Never
  BY <1>1, SamePlaces DEF Webhook, IInv, StateOK
<1>4. UpdatesIn(m) \subseteq Nat /\ UpdatesIn(m) \subseteq DOMAIN handled[m]
  BY <1>1, PushesAssumption DEF UpdatesIn, IInv, StateOK
<1>5. Fresh(copy) = {i \in UpdatesIn(m) :
        id(m, i, w) \notin seen /\ \A j \in UpdatesIn(m) : j < i => id(m, j, w) # id(m, i, w)}
  BY <1>1 DEF Fresh
<1>6. \A i \in UpdatesIn(m) : id(m, i, w) \in seen'
  <2> SUFFICES ASSUME NEW i \in UpdatesIn(m), id(m, i, w) \notin seen
               PROVE  \E k \in Fresh(copy) : id(m, k, w) = id(m, i, w)
    BY <1>3
  <2> DEFINE S == {k \in UpdatesIn(m) : id(m, k, w) = id(m, i, w)}
  <2>1. S \in SUBSET Nat /\ S # {}
    BY <1>4
  <2> HIDE DEF S
  <2>2. PICK k \in S : \A j \in S : ~(j < k)
    BY <2>1, FirstPlace
  <2>3. k \in Fresh(copy)
    BY <1>5, <2>2 DEF S
  <2> QED
    BY <2>2, <2>3 DEF S
<1>7. \A n \in Messages : \A i \in DOMAIN handled[n] :
        /\ i \in DOMAIN handled'[n] /\ handled[n][i] \in Nat
        /\ handled'[n][i] = handled[n][i] + (IF n = m /\ i \in Fresh(copy) THEN 1 ELSE 0)
  BY <1>1 DEF Webhook, IInv, StateOK
<1>8. \A n : ReadOf(n)' = ReadOf(n) \cup (IF n = m THEN {r0} ELSE {})
  BY <1>3 DEF ReadOf
<1>9. ReadOK'
  <2>1. IsFiniteSet(read')
    BY <1>3, FS_AddElement DEF IInv, ReadOK
  <2>2. ASSUME NEW r \in read'
        PROVE  /\ r = [msg |-> r.msg, when |-> r.when]
               /\ r.msg \in Messages /\ r.when \in Nat /\ happened'[r.msg] # Never
               /\ \A i \in UpdatesIn(r.msg)' : id(r.msg, i, r.when)' \in seen'
    <3>1. CASE r \in read
      BY <1>2, <1>3, <3>1 DEF IInv, ReadOK
    <3>2. CASE r = r0
      BY <1>2, <1>3, <1>6, <3>2
    <3> QED
      BY <1>3, <3>1, <3>2
  <2>3. \A n \in told' : ReadOf(n)' # {}
    BY <1>3, <1>8 DEF IInv, ReadOK
  <2> QED
    BY <2>1, <2>2, <2>3 DEF ReadOK
<1>10. SeenOK'
  <2> SUFFICES ASSUME NEW x \in seen'
               PROVE  \E r \in read' : \E i \in UpdatesIn(r.msg)' :
                        handled'[r.msg][i] > 0 /\ x = id(r.msg, i, r.when)'
    BY DEF SeenOK
  <2>1. CASE x \in seen
    <3>1. PICK r \in read : \E i \in UpdatesIn(r.msg) :
            handled[r.msg][i] > 0 /\ x = id(r.msg, i, r.when)
      BY <2>1 DEF IInv, SeenOK
    <3>2. PICK i \in UpdatesIn(r.msg) : handled[r.msg][i] > 0 /\ x = id(r.msg, i, r.when)
      BY <3>1
    <3>3. r.msg \in Messages /\ i \in DOMAIN handled[r.msg]
      BY DEF IInv, ReadOK, StateOK, UpdatesIn
    <3>4. handled'[r.msg][i] > 0
      BY <1>7, <3>2, <3>3
    <3> QED
      BY <1>2, <1>3, <3>2, <3>4
  <2>2. CASE x \notin seen
    <3>1. PICK i \in Fresh(copy) : x = id(m, i, w)
      BY <1>3, <2>2
    <3>2. i \in UpdatesIn(m) /\ i \in DOMAIN handled[m]
      BY <1>4, <1>5
    <3>3. handled'[m][i] > 0
      BY <1>7, <3>2
    <3>4. r0 \in read' /\ r0.msg = m /\ r0.when = w
      BY <1>3
    <3> QED
      BY <1>2, <1>3, <3>1, <3>2, <3>3, <3>4
  <2> QED
    BY <2>1, <2>2
<1>11. HandledOK'
  <2> SUFFICES ASSUME NEW n \in Messages, NEW i \in DOMAIN handled'[n]
               PROVE  /\ handled'[n][i] > 0 => i \in UpdatesIn(n)' /\ ReadOf(n)' # {}
                      /\ handled'[n][i] <= Cardinality(ReadOf(n)')
                      /\ handled'[n][i] > 1 => \E r, s \in ReadOf(n)' :
                           id(n, i, r.when)' # id(n, i, s.when)'
    BY DEF HandledOK
  <2>1. i \in DOMAIN handled[n]
    BY <1>3 DEF IInv, StateOK
  <2>2. IsFiniteSet(ReadOf(n))
    BY FS_Subset DEF IInv, ReadOK, ReadOf
  <2>3. /\ Cardinality(ReadOf(n)) \in Nat
        /\ Cardinality(ReadOf(n) \cup {r0}) =
             IF r0 \in ReadOf(n) THEN Cardinality(ReadOf(n)) ELSE Cardinality(ReadOf(n)) + 1
    BY <2>2, FS_AddElement, FS_CardinalityType
  <2>4. /\ handled[n][i] > 0 => i \in UpdatesIn(n) /\ ReadOf(n) # {}
        /\ handled[n][i] <= Cardinality(ReadOf(n))
        /\ handled[n][i] > 1 => \E r, s \in ReadOf(n) : id(n, i, r.when) # id(n, i, s.when)
    BY <2>1 DEF IInv, HandledOK
  <2>5. CASE n = m /\ i \in Fresh(copy)
    <3>1. i \in UpdatesIn(m) /\ id(m, i, w) \notin seen
      BY <1>5, <2>5
    <3>2. \A r \in ReadOf(m) : id(m, i, r.when) # id(m, i, w)
      BY <3>1 DEF IInv, ReadOK, ReadOf
    <3>3. r0 \notin ReadOf(m) /\ ReadOf(m)' = ReadOf(m) \cup {r0} /\ r0.when = w
      BY <1>8, <3>2
    <3>4. handled'[m][i] = handled[m][i] + 1 /\ handled[m][i] \in Nat
      BY <1>7, <2>1, <2>5
    <3>5. handled'[m][i] <= Cardinality(ReadOf(m)')
      BY <2>3, <2>4, <2>5, <3>3, <3>4
    <3>6. handled'[m][i] > 1 => \E r \in ReadOf(m) : TRUE
      BY <2>4, <2>5, <3>4
    <3>7. handled'[m][i] > 1 => \E r, s \in ReadOf(m)' : id(m, i, r.when)' # id(m, i, s.when)'
      BY <1>2, <3>2, <3>3, <3>6
    <3> QED
      BY <1>3, <2>5, <3>1, <3>3, <3>5, <3>7
  <2>6. CASE ~(n = m /\ i \in Fresh(copy))
    <3>1. handled'[n][i] = handled[n][i] /\ handled[n][i] \in Nat
      BY <1>7, <2>1, <2>6
    <3>2. ReadOf(n) \subseteq ReadOf(n)'
      BY <1>8
    <3>3. ReadOf(n)' = ReadOf(n) \/ ReadOf(n)' = ReadOf(n) \cup {r0}
      BY <1>8
    <3>4. handled'[n][i] <= Cardinality(ReadOf(n)')
      <4> HIDE DEF r0
      <4>1. CASE ReadOf(n)' = ReadOf(n)
        BY <2>4, <3>1, <4>1
      <4>2. CASE ReadOf(n)' = ReadOf(n) \cup {r0}
        <5> DEFINE before == Cardinality(ReadOf(n))
                   after == Cardinality(ReadOf(n) \cup {r0})
        <5>1. before \in Nat /\ (after = before \/ after = before + 1)
          BY <2>3
        <5>2. handled[n][i] <= before
          BY <2>4
        <5> HIDE DEF before, after
        <5>3. handled'[n][i] <= after
          BY <3>1, <5>1, <5>2
        <5> QED
          BY <4>2, <5>3 DEF after
      <4> QED
        BY <3>3, <4>1, <4>2
    <3> QED
      BY <1>2, <1>3, <2>4, <3>1, <3>2, <3>4
  <2> QED
    BY <2>5, <2>6
<1> QED
  BY <1>9, <1>10, <1>11 DEF IInv

THEOREM Invariance == Spec => []IInv
<1>1. IInv /\ [Next]_vars => IInv'
  <2> SUFFICES ASSUME IInv, [Next]_vars PROVE IInv'
    OBVIOUS
  <2>1. StateOK' /\ \A m \in Messages : happened[m] # Never => happened'[m] = happened[m]
    BY StateKept DEF IInv
  <2>2. ASSUME NEW copy \in inflight, Webhook(copy)
        PROVE  IInv'
    BY <2>1, <2>2, WebhookKeeps
  <2>3. ASSUME NEW copy \in inflight, Refuse(copy)
        PROVE  IInv'
    BY <2>1, <2>3, NotRead DEF Refuse
  <2>4. CASE Tick
    BY <2>1, <2>4, NotRead DEF Tick
  <2>5. ASSUME NEW m \in Messages, Happen(m) \/ Push(m)
        PROVE  IInv'
    BY <2>1, <2>5, NotRead DEF Happen, Push
  <2>6. ASSUME NEW net \in NetsHere, AnswerSetupCheck(net)
        PROVE  IInv'
    BY <2>1, <2>6, NotRead DEF AnswerSetupCheck
  <2>7. CASE UNCHANGED vars
    BY <2>1, <2>7, NotRead DEF vars
  <2> QED
    BY <2>2, <2>3, <2>4, <2>5, <2>6, <2>7 DEF Next
<1> QED
  BY InitHolds, <1>1, PTL DEF Spec

-----------------------------------------------------------------------------
\* The clock starts after its first second, so a time that is given is never
\* taken for one that is missing.
LEMMA SomeSecond ==
  ASSUME NEW moment \in Nat, TicksPerSecond <= moment
  PROVE  Second(moment) # Never
BY PushesAssumption DEF Second, Never

\* What Update.id tells apart: two read things of one id are alike.
LEMMA IdsTellApart ==
  ASSUME IInv, NEW r \in read, NEW s \in read,
         NEW i \in UpdatesIn(r.msg), NEW j \in UpdatesIn(s.msg),
         UpdateId(r.msg, i, r.when) = UpdateId(s.msg, j, s.when)
  PROVE  Alike(r.msg, i, s.msg, j)
<1> DEFINE one == carries[r.msg].things[i]
           other == carries[s.msg].things[j]
           net == carries[r.msg].net
<1>1. /\ r.msg \in Messages /\ s.msg \in Messages
      /\ i \in DOMAIN carries[r.msg].things /\ j \in DOMAIN carries[s.msg].things
      /\ carries \in Scenarios
  BY DEF IInv, StateOK, ReadOK, UpdatesIn
<1>2. /\ carries[r.msg].account = carries[s.msg].account
      /\ one.topic = other.topic
      /\ Identity(r.msg, one, r.when) = Identity(s.msg, other, s.when)
  BY DEF UpdateId
<1>3. net \in Nets /\ carries[s.msg].net = net
      /\ one.own \in BOOLEAN /\ other.own \in BOOLEAN
  BY <1>1, <1>2, PushesAssumption
<1>4. /\ net = "instagram" => /\ Second(r.when) \in SecondsOf(r.msg, i)
                               /\ Second(s.when) \in SecondsOf(s.msg, j)
      /\ net # "instagram" => /\ Second(When(r.msg, one, r.when)) \in SecondsOf(r.msg, i)
                               /\ Second(When(s.msg, other, s.when)) \in SecondsOf(s.msg, j)
  BY <1>3 DEF SecondsOf, When
<1>5. CASE net = "instagram"
  <2>1. InstagramId(one, r.when) = InstagramId(other, s.when)
    BY <1>2, <1>3, <1>5 DEF Identity
  <2> QED
    BY <1>2, <1>3, <1>4, <1>5, <2>1 DEF InstagramId, NameOrSecond, Named, Alike
<1>6. CASE net = "threads"
  <2>1. NameOrSecond(one, When(r.msg, one, r.when))
        = NameOrSecond(other, When(s.msg, other, s.when))
    BY <1>2, <1>3, <1>6 DEF Identity
  <2> QED
    BY <1>2, <1>3, <1>4, <1>6, <2>1 DEF NameOrSecond, Named, Alike
<1>7. CASE net = "facebook"
  <2>1. FacebookId(r.msg, one, r.when) = FacebookId(s.msg, other, s.when)
    BY <1>2, <1>3, <1>7 DEF Identity
  <2> QED
    BY <1>2, <1>3, <1>4, <1>7, <2>1 DEF FacebookId, Alike
<1>8. CASE net \in Signs
  <2>1. /\ one.name = other.name
        /\ net = "tiktok" => one.who = other.who
        /\ OwnTime(r.msg, one) = OwnTime(s.msg, other)
    BY <1>2, <1>3, <1>8 DEF Identity, Signs, TiktokId, GoogleId
  <2>2. Second(happened[r.msg]) # Never /\ Second(happened[s.msg]) # Never
    BY <1>1, SomeSecond DEF IInv, StateOK, ReadOK
  <2>3. one.own = other.own
    BY <1>3, <2>1, <2>2 DEF OwnTime
  <2>4. one.own => SecondsOf(r.msg, i) \cap SecondsOf(s.msg, j) # {}
    BY <1>3, <1>4, <1>8, <2>1, <2>3 DEF OwnTime, When, Signs
  <2>5. net \in {"facebook", "tiktok"} => one.who = other.who
    BY <1>8, <2>1 DEF Signs
  <2>6. CASE one.own
    BY <1>2, <2>1, <2>4, <2>5, <2>6 DEF Alike
  <2>7. CASE ~one.own
    BY <1>2, <1>8, <2>1, <2>3, <2>5, <2>7 DEF Alike
  <2> QED
    BY <2>6, <2>7
<1> QED
  BY <1>3, <1>5, <1>6, <1>7, <1>8 DEF Nets, Signs

-----------------------------------------------------------------------------
\* The types hold, and a thing is handled no more often than its message was
\* read at different times (Update.id, SeenUpdates).
THEOREM Typing == Spec => []TypeOK
<1>1. IInv => TypeOK
  <2> SUFFICES ASSUME IInv PROVE TypeOK
    OBVIOUS
  <2>1. happened \in [Messages -> 0..now] /\ first \in [Messages -> 0..now]
    BY PushesAssumption DEF IInv, StateOK
  <2>2. told \subseteq {m \in Messages : happened[m] # Never}
    BY DEF IInv, StateOK, ReadOK, ReadOf
  <2>3. ASSUME NEW m \in Messages, NEW i \in DOMAIN handled[m]
        PROVE  handled[m][i] \in 0..Cardinality({r \in read : r.msg = m})
    <3>1. IsFiniteSet(ReadOf(m))
      BY FS_Subset DEF IInv, ReadOK, ReadOf
    <3>2. Cardinality(ReadOf(m)) \in Nat
      BY <3>1, FS_CardinalityType
    <3>3. handled[m][i] \in Nat /\ handled[m][i] <= Cardinality(ReadOf(m))
      BY <2>3 DEF IInv, StateOK, HandledOK
    <3>4. handled[m][i] \in 0..Cardinality(ReadOf(m))
      BY <3>2, <3>3
    <3> QED
      BY <3>4 DEF ReadOf
  <2> QED
    BY <2>1, <2>2, <2>3 DEF TypeOK, IInv, StateOK
<1> QED
  BY Invariance, <1>1, PTL

\* A message that is answered with 200 was handled: each thing in it the app is
\* to hear of, or another that nobody can tell from it (Routes.webhook,
\* Dispatcher.deliver).
THEOREM AnsweredMeansHandled == Spec => []AnsweredIsHandled
<1>1. IInv => AnsweredIsHandled
  <2> SUFFICES ASSUME IInv, NEW m \in told, NEW i \in ForTheApp(m)
               PROVE  \/ handled[m][i] > 0
                      \/ \E n \in Messages : \E j \in ForTheApp(n) :
                           <<n, j>> # <<m, i>> /\ handled[n][j] > 0 /\ Alike(m, i, n, j)
    BY DEF AnsweredIsHandled
  <2>1. PICK r \in read : r.msg = m
    BY DEF IInv, ReadOK, ReadOf
  <2>2. i \in UpdatesIn(m)
    BY DEF ForTheApp, UpdatesIn, ReceivedUpdates, IInv, StateOK
  <2>3. UpdateId(m, i, r.when) \in seen
    BY <2>1, <2>2 DEF IInv, ReadOK
  <2>4. PICK s \in read : \E j \in UpdatesIn(s.msg) :
          handled[s.msg][j] > 0 /\ UpdateId(m, i, r.when) = UpdateId(s.msg, j, s.when)
    BY <2>3 DEF IInv, SeenOK
  <2>5. PICK j \in UpdatesIn(s.msg) :
          handled[s.msg][j] > 0 /\ UpdateId(m, i, r.when) = UpdateId(s.msg, j, s.when)
    BY <2>4
  <2>6. Alike(m, i, s.msg, j)
    BY <2>1, <2>2, <2>5, IdsTellApart
  <2>7. s.msg \in Messages /\ j \in ForTheApp(s.msg)
    BY DEF IInv, StateOK, ReadOK, ForTheApp, UpdatesIn, ReceivedUpdates
  <2> QED
    BY <2>5, <2>6, <2>7
<1> QED
  BY Invariance, <1>1, PTL

\* A thing that names itself, or says when it happened, is handled once, however
\* often its message comes; any other again only when the message was read with
\* another time (the ids of the platforms' update readers).
THEOREM HandledOnce == Spec => []HandledOnceIfItNamesItself
<1>1. IInv => HandledOnceIfItNamesItself
  <2> SUFFICES ASSUME IInv, NEW m \in Messages, NEW i \in DOMAIN handled[m],
                      handled[m][i] > 1
               PROVE  /\ ~NamesItself(carries[m].net, carries[m].things[i])
                      /\ \E r, s \in read : r.msg = m /\ s.msg = m /\ r.when # s.when
    BY DEF HandledOnceIfItNamesItself
  <2>1. PICK r, s \in ReadOf(m) : UpdateId(m, i, r.when) # UpdateId(m, i, s.when)
    BY DEF IInv, HandledOK
  <2>2. Identity(m, carries[m].things[i], r.when) # Identity(m, carries[m].things[i], s.when)
    BY <2>1 DEF UpdateId
  <2>3. carries[m].net \in Nets /\ carries[m].things[i].own \in BOOLEAN
    BY PushesAssumption DEF IInv, StateOK
  <2>4. ~NamesItself(carries[m].net, carries[m].things[i])
    BY <2>2, <2>3 DEF NamesItself, Identity, Nets, Signs, InstagramId, NameOrSecond,
                      FacebookId, TiktokId, GoogleId, When
  <2>5. r.when # s.when
    BY <2>2
  <2> QED
    BY <2>4, <2>5 DEF ReadOf
<1> QED
  BY Invariance, <1>1, PTL
=============================================================================
