------------------------- MODULE UpdatesAfter_proofs ------------------------
(***************************************************************************)
(* Proofs about UpdatesAfter, for feeds, pages, calls and misfortunes of   *)
(* any number.                                                             *)
(***************************************************************************)
EXTENDS UpdatesAfter, FiniteSetTheorems, WellFoundedInduction, TLAPS

\* Bluesky gives every notification a time: one without sorts before every marker
\* and would end the scan, with all that is behind it unread.
BlueskyGivesTimes == "bluesky" \in Networks => Unreadable["bluesky"] = {}

Live == listed \cap Readable
Safe == handed \cup cutOff

\* Newer than the marker of this batch.
NewAfter(n) == NewerThan(n, newMarker, newSeen)

Stored ==
  /\ marker = 0 <=> origin = 0
  /\ marker = 0 => seen = {}
  /\ LossNeedsABurst

\* What a call has found so far has no gap: on Bluesky down to the cursor, on
\* Facebook in the posts it is done with, and in this one down to the cursor.
Asking ==
  pc = "ask" =>
    /\ pages = 0 => cursor = Size + 1
    /\ network = "bluesky" =>
         /\ pages = 0 => collected = {}
         /\ marker # 0 => \A n \in Live, m \in collected :
              (New(n) /\ cursor <= n /\ n <= m) => n \in collected
    /\ network = "facebook" =>
         /\ collected \subseteq Readable
         /\ marker # 0 =>
              /\ \A n \in collected : New(n)
              /\ \A n \in Live :
                   /\ New(n)
                   /\ PostOf[n] < post \/ (PostOf[n] = post /\ cursor <= n)
                   => n \in collected \cup cutOff
    /\ marker # 0 => \A n \in waiting : New(n) /\ n \in Readable

\* What the next marker moves past is in this batch, or was handled.
Handling ==
  /\ pc # "handle" => batch = {}
  /\ pc = "handle" =>
       /\ newMarker = 0 => newSeen = {} /\ marker = 0
       /\ marker # 0 =>
            /\ \A n \in Live : New(n) /\ ~NewAfter(n) => n \in batch \cup Safe
            /\ \A n \in waiting : New(n) /\ n \in Readable
       /\ (marker = 0 /\ newMarker # 0) => \A n \in Places : n > newMarker => NewAfter(n)

\* On Facebook, what was handled is behind the marker.
Once ==
  (network = "facebook" /\ faults = 0) =>
    /\ pc # "handle" => \A n \in handed : marker # 0 /\ ~New(n)
    /\ pc = "handle" =>
         /\ \A n \in handed : newMarker # 0 /\ ~NewAfter(n) /\ n \notin batch
         /\ \A n \in batch : newMarker # 0 /\ ~NewAfter(n)

IInv == TypeOK /\ Stored /\ Asking /\ Handling /\ Once

-----------------------------------------------------------------------------
\* Among some places there is one at which f is least.
LEMMA LeastPlace ==
  ASSUME NEW S \in SUBSET Places, S # {}, NEW f, \A n \in S : f[n] \in Nat
  PROVE  \E n \in S : \A m \in S : f[n] <= f[m]
<1> DEFINE T == {f[n] : n \in S}
<1>1. T \subseteq Nat /\ T # {}
  OBVIOUS
<1>2. PICK x \in T : \A y \in T : ~(<<y, x>> \in OpToRel(<, Nat))
  <2> HIDE DEF T
  <2> QED BY <1>1, WFMin, NatLessThanWellFounded
<1>3. \A y \in T : x <= y
  <2> TAKE y \in T
  <2>1. x \in Nat /\ y \in Nat
    BY <1>1
  <2>2. ~(<<y, x>> \in OpToRel(<, Nat))
    BY <1>2
  <2>3. ~(y < x)
    BY <2>1, <2>2, Zenon DEF OpToRel
  <2> QED
    BY <2>1, <2>3
<1>4. PICK n \in S : x = f[n]
  OBVIOUS
<1> QED
  BY <1>3, <1>4

\* A number of places, with a first and a last one.
LEMMA Ends ==
  ASSUME NEW S \in SUBSET Places, S # {}
  PROVE  /\ Min(S) \in S /\ \A n \in S : Min(S) <= n
         /\ Max(S) \in S /\ \A n \in S : n <= Max(S)
<1>1. \E n \in S : \A m \in S : n <= m
  <2> DEFINE f == [n \in Places |-> n]
  <2>1. \A n \in S : f[n] \in Nat /\ f[n] = n
    BY DEF Places
  <2> HIDE DEF f
  <2>2. \E n \in S : \A m \in S : f[n] <= f[m]
    BY <2>1, LeastPlace
  <2> QED BY <2>1, <2>2
<1>2. \E n \in S : \A m \in S : m <= n
  <2> DEFINE f == [n \in Places |-> Size - n]
  <2>1. \A n \in S : f[n] \in Nat /\ f[n] = Size - n /\ n \in Nat
    BY UpdatesAfterAssumption DEF Places
  <2> HIDE DEF f
  <2>2. PICK n \in S : \A m \in S : f[n] <= f[m]
    BY <2>1, LeastPlace
  <2>3. \A m \in S : m <= n
    <3> TAKE m \in S
    <3>1. f[n] <= f[m]
      BY <2>2
    <3>2. f[n] = Size - n /\ f[m] = Size - m /\ n \in Nat /\ m \in Nat
      BY <2>1
    <3> QED BY <3>1, <3>2, UpdatesAfterAssumption
  <2> QED BY <2>3
<1>3. \A n \in S : n \in Nat
  BY DEF Places
<1> QED
  BY <1>1, <1>2, <1>3 DEF Min, Max

\* Sets of places are finite.
LEMMA PlacesFinite ==
  ASSUME NEW S \in SUBSET Places
  PROVE  IsFiniteSet(S) /\ Cardinality(S) \in Nat
<1>1. IsFiniteSet(Places)
  BY FS_Interval, UpdatesAfterAssumption DEF Places
<1> QED
  BY <1>1, FS_Subset, FS_CardinalityType

\* The fewer there are before a place, the sooner it is among the first so many.
LEMMA FewerFit ==
  ASSUME NEW S \in SUBSET Places, NEW T \in SUBSET S, NEW limit \in Nat,
         Cardinality(S) < limit
  PROVE  Cardinality(T) < limit
<1>1. Cardinality(T) <= Cardinality(S)
  BY PlacesFinite, FS_Subset
<1> QED
  BY <1>1, PlacesFinite

\* A page of the newest has everything newer than what is on it, and the newest.
LEMMA NewestIsUpward ==
  ASSUME TypeOK, NEW S \in SUBSET Places
  PROVE  /\ Newest(S) \subseteq S
         /\ \A n \in Newest(S), m \in S : n <= m => m \in Newest(S)
         /\ S # {} => Newest(S) # {}
<1> DEFINE limit == PageLimit[network]
<1>0. \A k \in S : k \in Nat
  BY DEF Places
<1>1. limit \in Nat \ {0}
  BY UpdatesAfterAssumption DEF TypeOK
<1>2. ASSUME NEW n \in Newest(S), NEW m \in S, n <= m PROVE m \in Newest(S)
  <2>1. {k \in S : k > m} \in SUBSET {k \in S : k > n}
    <3>1. n \in S
      BY DEF Newest
    <3> QED BY <1>0, <1>2, <3>1
  <2>2. {k \in S : k > n} \in SUBSET Places /\ Cardinality({k \in S : k > n}) < limit
    BY DEF Newest
  <2>3. Cardinality({k \in S : k > m}) < limit
    BY <1>1, <2>1, <2>2, FewerFit
  <2> QED BY <2>3 DEF Newest
<1>3. ASSUME S # {} PROVE Max(S) \in Newest(S)
  <2>1. {k \in S : k > Max(S)} = {}
    BY <1>0, <1>3, Ends
  <2> QED BY <1>1, <1>3, <2>1, Ends, FS_EmptySet DEF Newest
<1> QED
  BY <1>2, <1>3 DEF Newest

\* A page of the oldest has everything older than what is on it.
LEMMA OldestIsDownward ==
  ASSUME TypeOK, NEW S \in SUBSET Places
  PROVE  /\ Oldest(S) \subseteq S
         /\ \A n \in Oldest(S), m \in S : m <= n => m \in Oldest(S)
<1> DEFINE limit == PageLimit[network]
<1>0. \A k \in S : k \in Nat
  BY DEF Places
<1>1. limit \in Nat \ {0}
  BY UpdatesAfterAssumption DEF TypeOK
<1>2. ASSUME NEW n \in Oldest(S), NEW m \in S, m <= n PROVE m \in Oldest(S)
  <2>1. {k \in S : k < m} \in SUBSET {k \in S : k < n}
    <3>1. n \in S
      BY DEF Oldest
    <3> QED BY <1>0, <1>2, <3>1
  <2>2. {k \in S : k < n} \in SUBSET Places /\ Cardinality({k \in S : k < n}) < limit
    BY DEF Oldest
  <2>3. Cardinality({k \in S : k < m}) < limit
    BY <1>1, <2>1, <2>2, FewerFit
  <2> QED BY <2>3 DEF Oldest
<1> QED
  BY <1>2 DEF Oldest

\* The order Facebook's are handed back in.
LEMMA SoonerIsTransitive ==
  ASSUME NEW k \in Places, NEW m \in Places, NEW n \in Places,
         Sooner(k, m), Sooner(m, n)
  PROVE  Sooner(k, n)
<1>1. When[k] \in Nat /\ When[m] \in Nat /\ When[n] \in Nat
  BY UpdatesAfterAssumption
<1>2. PostOf[k] \in Nat /\ PostOf[m] \in Nat /\ PostOf[n] \in Nat
  BY UpdatesAfterAssumption
<1>3. k \in Nat /\ m \in Nat /\ n \in Nat
  BY DEF Places
<1> QED
  BY <1>1, <1>2, <1>3 DEF Sooner

\* It has a first and a last one of some places.
LEMMA SoonestAndLatest ==
  ASSUME NEW S \in SUBSET Places, S # {}
  PROVE  /\ \E n \in S : \A m \in S \ {n} : Sooner(n, m)
         /\ \E n \in S : \A m \in S : ~Sooner(n, m)
<1>1. \A n \in S : When[n] \in Nat /\ PostOf[n] \in Nat /\ n \in Nat /\ PostOf[n] <= Size
  BY UpdatesAfterAssumption DEF Places
<1>2. \E n \in S : \A m \in S \ {n} : Sooner(n, m)
  <2>1. PICK a \in S : \A m \in S : When[a] <= When[m]
    BY <1>1, LeastPlace
  <2> DEFINE A == {m \in S : When[m] = When[a]}
  <2> DEFINE post_ == [n \in Places |-> Size - PostOf[n]]
  <2>2. PICK b \in A : \A m \in A : PostOf[m] <= PostOf[b]
    <3>1. \A n \in A : post_[n] = Size - PostOf[n] /\ post_[n] \in Nat
      BY <1>1, UpdatesAfterAssumption
    <3> HIDE DEF post_
    <3>2. A \in SUBSET Places /\ A # {}
      OBVIOUS
    <3>3. PICK b \in A : \A m \in A : post_[b] <= post_[m]
      <4> HIDE DEF A
      <4> QED BY <3>1, <3>2, LeastPlace
    <3>4. \A m \in A : PostOf[m] <= PostOf[b]
      <4> TAKE m \in A
      <4>1. post_[b] <= post_[m]
        BY <3>3
      <4>2. post_[b] = Size - PostOf[b] /\ post_[m] = Size - PostOf[m]
        BY <3>1
      <4>3. PostOf[b] \in Nat /\ PostOf[m] \in Nat
        BY <1>1
      <4> QED BY <4>1, <4>2, <4>3, UpdatesAfterAssumption
    <3> QED BY <3>4
  <2> DEFINE B == {m \in A : PostOf[m] = PostOf[b]}
  <2>3. Min(B) \in B /\ \A m \in B : Min(B) <= m
    BY Ends
  <2>4. \A m \in S \ {Min(B)} : Sooner(Min(B), m)
    BY <1>1, <2>1, <2>2, <2>3 DEF Sooner
  <2> QED BY <2>3, <2>4
<1>3. \E n \in S : \A m \in S : ~Sooner(n, m)
  <2>1. PICK a \in S : \A m \in S : When[m] <= When[a]
    <3>1. Max(S) \in S /\ \A m \in S : m <= Max(S)
      BY Ends
    <3>2. \A m \in S : When[m] <= When[Max(S)]
      BY <3>1, UpdatesAfterAssumption
    <3> QED BY <3>1, <3>2
  <2> DEFINE A == {m \in S : When[m] = When[a]}
  <2>2. PICK b \in A : \A m \in A : PostOf[b] <= PostOf[m]
    <3>1. A \in SUBSET Places /\ A # {} /\ \A n \in A : PostOf[n] \in Nat
      BY <1>1
    <3> HIDE DEF A
    <3> QED BY <3>1, LeastPlace
  <2> DEFINE B == {m \in A : PostOf[m] = PostOf[b]}
  <2>3. Max(B) \in B /\ \A m \in B : m <= Max(B)
    BY Ends
  <2>4. \A m \in S : ~Sooner(Max(B), m)
    BY <1>1, <2>1, <2>2, <2>3 DEF Sooner
  <2> QED BY <2>3, <2>4
<1> QED
  BY <1>2, <1>3

\* What Facebook's hands back has everything sooner than what is in it.
LEMMA HandBackIsDownward ==
  ASSUME NEW found \in SUBSET Places
  PROVE  /\ HandBack(found) \subseteq found
         /\ marker # 0 => \A n \in HandBack(found), m \in found :
                            Sooner(m, n) => m \in HandBack(found)
         /\ found # {} => HandBack(found) # {}
<1>0. Limit \in Nat \ {0}
  BY UpdatesAfterAssumption
<1>1. ASSUME marker # 0, NEW n \in HandBack(found), NEW m \in found, Sooner(m, n)
      PROVE  m \in HandBack(found)
  <2>1. n \in found /\ Cardinality({k \in found : Sooner(k, n)}) < Limit
    BY <1>1 DEF HandBack
  <2>2. {k \in found : Sooner(k, m)} \in SUBSET {k \in found : Sooner(k, n)}
    BY <1>1, <2>1, SoonerIsTransitive
  <2>3. Cardinality({k \in found : Sooner(k, m)}) < Limit
    BY <1>0, <2>1, <2>2, FewerFit
  <2> QED BY <1>1, <2>3 DEF HandBack
<1>2. ASSUME found # {} PROVE HandBack(found) # {}
  <2>1. CASE marker = 0
    <3>1. PICK n \in found : \A m \in found : ~Sooner(n, m)
      BY <1>2, SoonestAndLatest
    <3>2. {m \in found : Sooner(n, m)} = {}
      BY <3>1
    <3>3. Cardinality({m \in found : Sooner(n, m)}) < Limit
      BY <1>0, <3>2, FS_EmptySet
    <3> QED BY <2>1, <3>3 DEF HandBack
  <2>2. CASE marker # 0
    <3>1. PICK n \in found : \A m \in found \ {n} : Sooner(n, m)
      BY <1>2, SoonestAndLatest
    <3>2. {m \in found : Sooner(m, n)} = {}
      <4>1. \A m \in found : When[m] \in Nat /\ PostOf[m] \in Nat /\ m \in Nat
        BY UpdatesAfterAssumption DEF Places
      <4> QED BY <3>1, <4>1 DEF Sooner
    <3>3. Cardinality({m \in found : Sooner(m, n)}) < Limit
      BY <1>0, <3>2, FS_EmptySet
    <3> QED BY <2>2, <3>3 DEF HandBack
  <2> QED BY <2>1, <2>2
<1> QED
  BY <1>1, <1>2 DEF HandBack

\* The next update the app handles is one of the batch.
LEMMA NextUpIsThere ==
  ASSUME TypeOK, batch # {}
  PROVE  NextUp \in batch
<1>0. batch \in SUBSET Places
  BY UpdatesAfterAssumption DEF TypeOK, Places
<1>1. CASE network = "bluesky"
  BY <1>0, <1>1, Ends DEF NextUp
<1>2. CASE network = "mastodon"
  <2> DEFINE A == {n \in batch : When[n] = When[Min(batch)]}
  <2>1. Max(A) \in A
    BY <1>0, Ends
  <2>2. NextUp = Max(A)
    BY <1>2 DEF NextUp
  <2> QED BY <2>1, <2>2
<1>3. CASE network = "facebook"
  <2>1. \E n \in batch : \A m \in batch \ {n} : Sooner(n, m)
    BY <1>0, SoonestAndLatest
  <2>2. NextUp = CHOOSE n \in batch : \A m \in batch \ {n} : Sooner(n, m)
    BY <1>3 DEF NextUp
  <2> QED BY <2>1, <2>2
<1> QED
  BY <1>1, <1>2, <1>3, UpdatesAfterAssumption DEF TypeOK

-----------------------------------------------------------------------------
\* Where the pieces of a step lie.
LEMMA SoFar ==
  ASSUME TypeOK, NEW S \in SUBSET (1..top)
  PROVE  /\ S \in SUBSET Places
         /\ S # {} => Max(S) \in S /\ Max(S) \in 1..top /\ Min(S) \in S /\ Min(S) \in 1..top
<1>1. S \in SUBSET Places
  BY UpdatesAfterAssumption DEF TypeOK, Places
<1> QED
  BY <1>1, Ends

\* The marker of a batch is one of it, or the old one, or None.
LEMMA NewestFoundIsThere ==
  ASSUME TypeOK, NEW found \in SUBSET (1..top)
  PROVE  NewestFound(found) \in 0..top
BY SoFar DEF NewestFound, TypeOK

LEMMA LastSortedIsThere ==
  ASSUME TypeOK, NEW found \in SUBSET (1..top)
  PROVE  LastSorted(found) \in 0..top /\ (found # {} => LastSorted(found) \in found)
<1>1. CASE found = {}
  BY <1>1 DEF LastSorted, TypeOK
<1>2. CASE found # {}
  <2> DEFINE A == {n \in found : When[n] = When[Max(found)]}
  <2>1. A # {} /\ A \in SUBSET (1..top)
    BY <1>2, SoFar
  <2>2. Min(A) \in A
    <3> HIDE DEF A
    <3> QED BY <2>1, SoFar
  <2>3. LastSorted(found) = Min(A)
    BY <1>2 DEF LastSorted
  <2>4. Min(A) \in found /\ Min(A) \in 1..top
    BY <2>2
  <2> QED BY <2>3, <2>4 DEF TypeOK
<1> QED
  BY <1>1, <1>2

\* Each step keeps the types.
LEMMA TypingStep ==
  TypeOK /\ [Next]_vars => TypeOK'
<1> SUFFICES ASSUME TypeOK, [Next]_vars PROVE TypeOK'
  OBVIOUS
<1> USE DEF feed, stored, call, result, history
<1>0. /\ Size \in Nat /\ MaxFaults \in Nat /\ MaxPages[network] \in Nat \ {0}
      /\ top \in Nat
  BY UpdatesAfterAssumption DEF TypeOK
<1>1. CASE Happen
  BY <1>0, <1>1 DEF Happen, TypeOK
<1>2. ASSUME NEW n \in Places, Withdraw(n) PROVE TypeOK'
  BY <1>0, <1>2 DEF Withdraw, Misfortune, TypeOK
<1>3. CASE Call
  <2>1. waiting' \subseteq listed
    BY <1>3 DEF Call
  <2>2. waiting' \subseteq 1..top
    BY <2>1 DEF TypeOK
  <2> QED BY <1>0, <1>3, <2>2 DEF Call, TypeOK
<1>4. CASE AskFirstPage
  <2> DEFINE found == Newest(listed)
  <2>1. found \in SUBSET (1..top)
    BY DEF Newest, TypeOK
  <2>2. batch' = found \cap Readable /\ newMarker' = NewestFound(found) /\ newSeen' = {}
        /\ pc' = "handle"
    BY <1>4 DEF AskFirstPage, Return
  <2>3. NewestFound(found) \in 0..top
    BY <2>1, NewestFoundIsThere
  <2> HIDE DEF found
  <2> QED BY <1>0, <1>4, <2>1, <2>2, <2>3 DEF AskFirstPage, TypeOK
<1>5. CASE AskPageBack
  <2> DEFINE S == {n \in listed : n < cursor}
             page == Newest(S)
             stops == {n \in page : Reached(n)}
             found == collected \cup {n \in page : \A m \in stops : n > m}
             older == S \ page
             cut == cutOff \cup {n \in older \cap Readable : n > marker}
  <2>1. S \in SUBSET (1..top) /\ page \in SUBSET S /\ found \in SUBSET (1..top)
        /\ cut \in SUBSET (1..top)
    BY DEF Newest, TypeOK
  <2>2. NewestFound(found) \in 0..top
    BY <2>1, NewestFoundIsThere
  <2>3. older # {} => Min(page) \in 1..top
    <3>1. older # {} => page # {}
      BY <2>1, SoFar, NewestIsUpward
    <3>2. page \in SUBSET (1..top)
      BY <2>1
    <3> HIDE DEF page
    <3> QED BY <3>1, <3>2, SoFar
  <2>4. \/ /\ Return(found, NewestFound(found), {}) /\ UNCHANGED call
           /\ cutOff' \in {cutOff, cut}
        \/ /\ older # {} /\ MayReadOn(pages + 1)
           /\ collected' = found /\ pages' = pages + 1 /\ cursor' = Min(page)
           /\ UNCHANGED <<post, pc, result, cutOff>>
    BY <1>5, Zenon DEF AskPageBack
  <2>5. UNCHANGED <<feed, stored, handed, faults, origin, waiting>>
    BY <1>5, Zenon DEF AskPageBack
  <2> HIDE DEF S, page, stops, found, older, cut
  <2>6. CASE Return(found, NewestFound(found), {}) /\ UNCHANGED call /\ cutOff' \in {cutOff, cut}
    BY <1>0, <2>1, <2>2, <2>5, <2>6 DEF Return, TypeOK
  <2>7. CASE /\ older # {} /\ MayReadOn(pages + 1)
             /\ collected' = found /\ pages' = pages + 1 /\ cursor' = Min(page)
             /\ UNCHANGED <<post, pc, result, cutOff>>
    BY <1>0, <2>1, <2>3, <2>5, <2>7 DEF MayReadOn, TypeOK
  <2> QED BY <2>4, <2>6, <2>7
<1>6. CASE AskMastodon
  <2> DEFINE found == PageAfter \cap Readable
  <2>1. found \in SUBSET (1..top)
    BY DEF PageAfter, Newest, Oldest, TypeOK
  <2>2. batch' = found \cap Readable /\ newMarker' = LastSorted(found) /\ newSeen' = {}
        /\ pc' = "handle"
    BY <1>6 DEF AskMastodon, Return
  <2>3. LastSorted(found) \in 0..top
    BY <2>1, LastSortedIsThere
  <2> HIDE DEF found
  <2> QED BY <1>0, <1>6, <2>1, <2>2, <2>3 DEF AskMastodon, TypeOK
<1>7. CASE AskComments
  <2> DEFINE here == {n \in listed : PostOf[n] = post /\ n < cursor}
             page == Newest(here)
             stops == {n \in page \cap Readable : marker # 0 /\ When[n] < When[marker]}
             found == collected \cup {n \in page \cap Readable :
                                        (marker # 0 => New(n)) /\ \A m \in stops : n > m}
             older == here \ page
             onward == stops = {} /\ older # {} /\ marker # 0
             cut == cutOff \cup {n \in older \cap Readable : New(n)}
             back == HandBack(found)
             named == NamedAfter(back, Max(back))
  <2>1. here \in SUBSET (1..top) /\ page \in SUBSET here /\ found \in SUBSET (1..top)
        /\ cut \in SUBSET (1..top)
    BY DEF Newest, TypeOK
  <2>2. older # {} => Min(page) \in 1..top
    <3>1. older # {} => page # {}
      BY <2>1, SoFar, NewestIsUpward
    <3>2. page \in SUBSET (1..top)
      BY <2>1
    <3> HIDE DEF page
    <3> QED BY <3>1, <3>2, SoFar
  <2>3. found # {} => back \in SUBSET (1..top) /\ Max(back) \in 1..top
                      /\ named \in SUBSET (1..top)
    <3> HIDE DEF found
    <3>1. back \subseteq found /\ (found # {} => back # {})
      BY <2>1, SoFar, HandBackIsDownward
    <3>2. back \in SUBSET (1..top)
      BY <2>1, <3>1
    <3> HIDE DEF back
    <3>3. found # {} => Max(back) \in 1..top
      BY <3>1, <3>2, SoFar
    <3>4. named \in SUBSET (1..top)
      BY <3>2 DEF NamedAfter, TypeOK
    <3> QED BY <3>2, <3>3, <3>4
  <2>4. \/ /\ onward /\ MayReadOn(pages + 1)
           /\ collected' = found /\ pages' = pages + 1 /\ cursor' = Min(page)
           /\ UNCHANGED <<post, pc, result, cutOff>>
        \/ /\ cutOff' \in {cutOff, cut}
           /\ post' = post + 1 /\ pages' = 0 /\ cursor' = Size + 1 /\ collected' = found
           /\ UNCHANGED <<pc, result>>
        \/ /\ cutOff' \in {cutOff, cut}
           /\ UNCHANGED call
           /\ IF found = {} THEN Return({}, marker, seen)
              ELSE Return(back, Max(back), named)
    <3> HIDE DEF here, stops, found
    <3>1. \/ /\ onward /\ MayReadOn(pages + 1)
             /\ collected' = found /\ pages' = pages + 1 /\ cursor' = Min(page)
             /\ UNCHANGED <<post, pc, result, cutOff>>
          \/ /\ cutOff' = IF onward THEN cut ELSE cutOff
             /\ IF post < LastPost
                THEN /\ post' = post + 1
                     /\ pages' = 0 /\ cursor' = Size + 1 /\ collected' = found
                     /\ UNCHANGED <<pc, result>>
                ELSE /\ UNCHANGED call
                     /\ IF found = {} THEN Return({}, marker, seen)
                        ELSE Return(back, Max(back), named)
      BY <1>7, Zenon DEF AskComments, here, stops, found
    <3> HIDE DEF onward, cut, page, older, back, named
    <3> QED BY <3>1
  <2>5. UNCHANGED <<feed, stored, handed, faults, origin, waiting>>
    BY <1>7, Zenon DEF AskComments
  <2> HIDE DEF here, page, stops, found, older, cut, back, named
  <2>6. CASE /\ onward /\ MayReadOn(pages + 1)
             /\ collected' = found /\ pages' = pages + 1 /\ cursor' = Min(page)
             /\ UNCHANGED <<post, pc, result, cutOff>>
    BY <1>0, <2>1, <2>2, <2>5, <2>6 DEF MayReadOn, TypeOK
  <2>7. CASE /\ cutOff' \in {cutOff, cut}
             /\ post' = post + 1 /\ pages' = 0 /\ cursor' = Size + 1 /\ collected' = found
             /\ UNCHANGED <<pc, result>>
    BY <1>0, <2>1, <2>5, <2>7 DEF TypeOK
  <2>8. CASE /\ cutOff' \in {cutOff, cut}
             /\ UNCHANGED call
             /\ IF found = {} THEN Return({}, marker, seen)
                ELSE Return(back, Max(back), named)
    <3>1. CASE found = {}
      BY <1>0, <2>1, <2>5, <2>8, <3>1 DEF Return, TypeOK
    <3>2. CASE found # {}
      <4>1. batch' = back \cap Readable /\ newMarker' = Max(back) /\ newSeen' = named
            /\ pc' = "handle"
        BY <2>8, <3>2 DEF Return
      <4>2. batch' \subseteq 1..top /\ newMarker' \in 0..top /\ newSeen' \subseteq 1..top
        BY <2>3, <3>2, <4>1
      <4>3. UNCHANGED call /\ cutOff' \in {cutOff, cut}
        BY <2>8
      <4> QED BY <1>0, <2>1, <2>5, <4>1, <4>2, <4>3 DEF TypeOK
    <3> QED BY <3>1, <3>2
  <2> QED BY <2>4, <2>6, <2>7, <2>8
<1>8. CASE Fail
  BY <1>0, <1>8 DEF Fail, Misfortune, TypeOK
<1>9. CASE Handle
  <2>1. NextUp \in batch
    BY <1>9, NextUpIsThere DEF Handle
  <2> QED BY <1>0, <1>9, <2>1 DEF Handle, TypeOK
<1>10. CASE Save
  BY <1>0, <1>10 DEF Save, TypeOK
<1>11. CASE UNCHANGED vars
  BY <1>11 DEF vars, TypeOK
<1> QED
  BY <1>1, <1>2, <1>3, <1>4, <1>5, <1>6, <1>7, <1>8, <1>9, <1>10, <1>11 DEF Next, Round

-----------------------------------------------------------------------------
\* Whole numbers, and times that do not go back.
LEMMA PlacesAndTimes ==
  TypeOK =>
    /\ \A n \in Places : n \in Nat /\ When[n] \in Nat /\ PostOf[n] \in Nat
    /\ \A m, n \in Places : m <= n => When[m] <= When[n]
    /\ Live \subseteq Places /\ Live \subseteq listed /\ Live \subseteq Readable
    /\ 1..top \subseteq Places /\ top \in Nat /\ Size \in Nat
<1> SUFFICES ASSUME TypeOK
             PROVE  /\ \A n \in Places : n \in Nat /\ When[n] \in Nat /\ PostOf[n] \in Nat
                    /\ \A m, n \in Places : m <= n => When[m] <= When[n]
                    /\ Live \subseteq Places /\ Live \subseteq listed /\ Live \subseteq Readable
                    /\ 1..top \subseteq Places /\ top \in Nat /\ Size \in Nat
  OBVIOUS
<1>1. \A n \in Places : n \in Nat /\ When[n] \in Nat /\ PostOf[n] \in Nat
  BY UpdatesAfterAssumption DEF Places
<1>2. 1..top \subseteq Places /\ top \in Nat /\ Size \in Nat
  BY UpdatesAfterAssumption DEF TypeOK, Places
<1>3. Live \subseteq Places /\ Live \subseteq listed /\ Live \subseteq Readable
  BY DEF Live, Readable
<1> QED
  BY <1>1, <1>2, <1>3, UpdatesAfterAssumption

\* What the step must leave alone for the marker to mean what it meant.
LEMMA SameMarker ==
  ASSUME UNCHANGED <<network, marker, seen>>
  PROVE  Readable' = Readable /\ \A n : New(n)' <=> New(n)
BY DEF Readable, New, NewerThan

LEMMA SameBatchMarker ==
  ASSUME UNCHANGED <<network, newMarker, newSeen>>
  PROVE  \A n : NewAfter(n)' <=> NewAfter(n)
BY DEF NewAfter, NewerThan

\* Something happens: it is newer than every marker there is.
LEMMA HappenKeeps ==
  IInv /\ Happen => (Stored /\ Asking /\ Handling /\ Once)'
<1> SUFFICES ASSUME IInv, Happen PROVE (Stored /\ Asking /\ Handling /\ Once)'
  OBVIOUS
<1> USE DEF stored, call, result
<1>0. TypeOK /\ Stored /\ Asking /\ Handling /\ Once
  BY DEF IInv
<1>1. /\ UNCHANGED <<network, marker, seen, pc, post, cursor, pages, collected, batch,
                     newMarker, newSeen, handed, faults, origin, waiting>>
      /\ listed' = listed \cup {top + 1} /\ top + 1 \in Places
      /\ cutOff \subseteq cutOff'
      /\ (network = "facebook" /\ pc = "ask" /\ marker # 0 /\ AlreadyRead(top + 1))
           => top + 1 \in cutOff'
  <2>1. top + 1 \in Places
    BY <1>0, UpdatesAfterAssumption DEF Happen, Places, TypeOK
  <2> QED BY <2>1 DEF Happen
<1>2. Readable' = Readable /\ \A n : (New(n)' <=> New(n)) /\ (NewAfter(n)' <=> NewAfter(n))
  BY <1>1, SameMarker, SameBatchMarker
<1>3. marker # 0 => New(top + 1)
  BY <1>0, <1>1, PlacesAndTimes DEF New, NewerThan, TypeOK
<1>4. newMarker # 0 => NewAfter(top + 1)
  BY <1>0, <1>1, PlacesAndTimes DEF NewAfter, NewerThan, TypeOK
<1>5. Live' \subseteq Live \cup {top + 1}
  BY <1>1, <1>2 DEF Live
<1>6. Stored'
  BY <1>0, <1>1, <1>2, <1>3, <1>5 DEF Stored, LossNeedsABurst, Behind, Live
<1>7. Asking'
  <2>1. ASSUME pc = "ask", network = "bluesky", marker # 0, NEW m \in collected, top + 1 <= m
        PROVE  FALSE
    BY <1>0, <2>1 DEF TypeOK
  <2>2. ASSUME pc = "ask", network = "facebook", marker # 0,
               PostOf[top + 1] < post \/ (PostOf[top + 1] = post /\ cursor <= top + 1)
        PROVE  top + 1 \in cutOff'
    <3>1. pages = 0 => cursor = Size + 1
      BY <1>0, <2>2 DEF Asking
    <3>2. pages = 0 => ~(cursor <= top + 1)
      BY <1>1, <3>1, UpdatesAfterAssumption DEF Places
    <3>3. pages # 0 => pages > 0
      BY <1>0, UpdatesAfterAssumption DEF TypeOK
    <3> QED BY <1>1, <2>2, <3>2, <3>3 DEF AlreadyRead
  <2>3. CASE network = "bluesky"
    BY <1>0, <1>1, <1>2, <1>5, <2>1, <2>3 DEF Asking
  <2>4. CASE network = "facebook"
    BY <1>0, <1>1, <1>2, <1>5, <2>2, <2>4 DEF Asking
  <2>5. CASE network \notin {"bluesky", "facebook"}
    BY <1>0, <1>1, <1>2, <2>5 DEF Asking
  <2> QED BY <2>3, <2>4, <2>5
<1>8. Handling'
  BY <1>0, <1>1, <1>2, <1>4, <1>5 DEF Handling, Safe
<1>9. Once'
  BY <1>0, <1>1, <1>2 DEF Once
<1> QED
  BY <1>6, <1>7, <1>8, <1>9

LEMMA WithdrawKeeps ==
  ASSUME IInv, NEW n \in Places, Withdraw(n)
  PROVE  (Stored /\ Asking /\ Handling /\ Once)'
<1> USE DEF stored, call, result, history
<1>0. TypeOK /\ Stored /\ Asking /\ Handling /\ Once
  BY DEF IInv
<1>1. /\ UNCHANGED <<network, marker, seen, pc, post, cursor, pages, collected, batch,
                     newMarker, newSeen, handed, origin, waiting, cutOff>>
      /\ listed' \subseteq listed /\ faults' # 0
  BY <1>0, UpdatesAfterAssumption DEF Withdraw, Misfortune, TypeOK
<1>2. Readable' = Readable /\ \A m : (New(m)' <=> New(m)) /\ (NewAfter(m)' <=> NewAfter(m))
  BY <1>1, SameMarker, SameBatchMarker
<1>3. Live' \subseteq Live
  BY <1>1, <1>2 DEF Live
<1>4. Stored'
  BY <1>0, <1>1, <1>2, <1>3 DEF Stored, LossNeedsABurst, Behind, Live
<1>5. Asking'
  BY <1>0, <1>1, <1>2, <1>3 DEF Asking
<1>6. Handling'
  BY <1>0, <1>1, <1>2, <1>3 DEF Handling, Safe
<1>7. Once'
  BY <1>1 DEF Once
<1> QED
  BY <1>4, <1>5, <1>6, <1>7

\* A call has found nothing yet; a round that fails leaves the stored marker.
LEMMA CallAndFailKeep ==
  IInv /\ (Call \/ Fail) => (Stored /\ Asking /\ Handling /\ Once)'
<1> SUFFICES ASSUME IInv, Call \/ Fail PROVE (Stored /\ Asking /\ Handling /\ Once)'
  OBVIOUS
<1> USE DEF feed, stored, call, result, history
<1>0. TypeOK /\ Stored /\ Asking /\ Handling /\ Once
  BY DEF IInv
<1>1. UNCHANGED <<network, listed, marker, seen, handed, origin, cutOff>>
  BY DEF Call, Fail
<1>2. Readable' = Readable /\ \A m : New(m)' <=> New(m)
  BY <1>1, SameMarker
<1>3. Stored'
  BY <1>0, <1>1, <1>2 DEF Stored, LossNeedsABurst, Behind
<1>4. CASE Call
  <2>1. /\ pc = "idle" /\ pc' = "ask" /\ post' = 1 /\ cursor' = Size + 1 /\ pages' = 0
        /\ collected' = {} /\ UNCHANGED <<batch, faults>>
        /\ \A n \in waiting' : n \in Readable /\ (marker # 0 => New(n))
    BY <1>4 DEF Call
  <2>2. ASSUME NEW n \in Live, PostOf[n] < 1 \/ Size + 1 <= n PROVE FALSE
    <3>1. n \in Places
      BY <1>0, PlacesAndTimes
    <3>2. n \in 1..Size /\ PostOf[n] \in 1..Size
      BY <3>1, UpdatesAfterAssumption DEF Places
    <3> QED BY <2>2, <3>2, UpdatesAfterAssumption
  <2>3. Live' = Live
    BY <1>1, <1>2 DEF Live
  <2>4. Asking'
    BY <1>1, <1>2, <2>1, <2>2, <2>3 DEF Asking
  <2>5. Handling' /\ Once'
    BY <1>0, <1>1, <1>2, <2>1 DEF Handling, Once
  <2> QED BY <1>3, <2>4, <2>5
<1>5. CASE Fail
  <2>1. pc' = "idle" /\ batch' = {} /\ faults' # 0
    BY <1>0, <1>5, UpdatesAfterAssumption DEF Fail, Misfortune, TypeOK
  <2> QED BY <1>3, <2>1 DEF Asking, Handling, Once
<1> QED
  BY <1>4, <1>5

\* What is handled leaves the batch; on Facebook it is behind the new marker.
LEMMA HandleKeeps ==
  IInv /\ Handle => (Stored /\ Asking /\ Handling /\ Once)'
<1> SUFFICES ASSUME IInv, Handle PROVE (Stored /\ Asking /\ Handling /\ Once)'
  OBVIOUS
<1> USE DEF feed, stored, call, result, history
<1>0. TypeOK /\ Stored /\ Asking /\ Handling /\ Once
  BY DEF IInv
<1>1. /\ UNCHANGED <<network, listed, marker, seen, pc, newMarker, newSeen, faults, origin,
                     waiting, cutOff>>
      /\ pc = "handle" /\ NextUp \in batch
      /\ handed' = handed \cup {NextUp} /\ batch' = batch \ {NextUp}
  BY <1>0, NextUpIsThere DEF Handle
<1>2. Readable' = Readable /\ \A m : (New(m)' <=> New(m)) /\ (NewAfter(m)' <=> NewAfter(m))
  BY <1>1, SameMarker, SameBatchMarker
<1>3. Live' = Live
  BY <1>1, <1>2 DEF Live
<1>4. Stored'
  BY <1>0, <1>1, <1>2 DEF Stored, LossNeedsABurst, Behind
<1>5. Asking' /\ Once'
  BY <1>0, <1>1, <1>2 DEF Asking, Once
<1>6. Handling'
  BY <1>0, <1>1, <1>2, <1>3 DEF Handling, Safe
<1> QED
  BY <1>4, <1>5, <1>6

\* The new marker becomes the stored one once all of the batch is handled.
LEMMA SaveKeeps ==
  IInv /\ Save => (Stored /\ Asking /\ Handling /\ Once)'
<1> SUFFICES ASSUME IInv, Save PROVE (Stored /\ Asking /\ Handling /\ Once)'
  OBVIOUS
<1> USE DEF feed, stored, call, result, history
<1>0. TypeOK /\ Stored /\ Asking /\ Handling /\ Once
  BY DEF IInv
<1>1. /\ UNCHANGED <<network, listed, batch, handed, faults, waiting, cutOff>>
      /\ pc = "handle" /\ pc' = "idle" /\ batch = {}
      /\ marker' = newMarker /\ seen' = newSeen
      /\ origin' = IF marker = 0 THEN newMarker ELSE origin
  BY DEF Save
<1>2. Readable' = Readable /\ Live' = Live /\ \A n : New(n)' <=> NewAfter(n)
  BY <1>1 DEF Readable, Live, New, NewAfter, NewerThan
<1>3. /\ newMarker = 0 => newSeen = {} /\ marker = 0
      /\ marker # 0 => \A n \in Live : New(n) /\ ~NewAfter(n) => n \in batch \cup Safe
      /\ (marker = 0 /\ newMarker # 0) => \A n \in Places : n > newMarker => NewAfter(n)
  BY <1>0, <1>1 DEF Handling
<1>4. LossNeedsABurst'
  <2> SUFFICES ASSUME NEW n \in Live, origin' # 0, origin' < n, ~NewAfter(n)
               PROVE  n \in Safe
    BY <1>1, <1>2 DEF LossNeedsABurst, Behind, Live, Safe
  <2>1. n \in Places
    BY <1>0, PlacesAndTimes
  <2>2. CASE marker = 0
    BY <1>1, <1>3, <2>1, <2>2
  <2>3. CASE marker # 0 /\ New(n)
    BY <1>1, <1>3, <2>3
  <2>4. CASE marker # 0 /\ ~New(n)
    BY <1>0, <1>1, <2>4 DEF Stored, LossNeedsABurst, Behind, Live, Safe
  <2> QED BY <2>2, <2>3, <2>4
<1>5. Stored'
  BY <1>0, <1>1, <1>3, <1>4 DEF Stored
<1>6. Asking' /\ Handling'
  BY <1>1 DEF Asking, Handling
<1>7. Once'
  BY <1>0, <1>1, <1>2 DEF Once
<1> QED
  BY <1>5, <1>6, <1>7

-----------------------------------------------------------------------------
\* A call that answers leaves what is stored as it is, and has a batch without
\* gaps; the rest of the invariant follows.
LEMMA AnswerKeeps ==
  ASSUME IInv,
         UNCHANGED <<network, listed, marker, seen, handed, origin, waiting>>,
         cutOff \subseteq cutOff', pc = "ask", pc' \in {"ask", "handle"},
         pc' = "ask" => Asking',
         pc' = "ask" => batch' = batch,
         pc' = "handle" =>
           /\ newMarker' = 0 => newSeen' = {} /\ marker = 0
           /\ marker # 0 => \A n \in Live : New(n) /\ ~NewAfter(n)'
                              => n \in batch' \cup handed \cup cutOff'
           /\ (marker = 0 /\ newMarker' # 0) =>
                \A n \in Places : n > newMarker' => NewAfter(n)',
         Once'
  PROVE  (Stored /\ Asking /\ Handling /\ Once)'
<1>0. TypeOK /\ Stored /\ Asking /\ Handling /\ Once
  BY DEF IInv
<1>1. Readable' = Readable /\ \A m : New(m)' <=> New(m)
  BY SameMarker
<1>2. Live' = Live
  BY <1>1 DEF Live
<1>3. Stored'
  BY <1>0, <1>1 DEF Stored, LossNeedsABurst, Behind
<1>4. Asking'
  BY DEF Asking
<1>5. marker # 0 => \A n \in waiting : New(n) /\ n \in Readable
  BY <1>0 DEF Asking
<1>6. ASSUME pc' = "handle" PROVE Handling'
  <2>1. marker # 0 => \A n \in Live' : New(n)' /\ ~NewAfter(n)' => n \in batch' \cup Safe'
    BY <1>1, <1>2, <1>6 DEF Safe
  <2>2. marker # 0 => \A n \in waiting' : New(n)' /\ n \in Readable'
    BY <1>1, <1>5
  <2>3. pc' # "handle" => batch' = {}
    BY <1>6
  <2> QED BY <1>6, <2>1, <2>2, <2>3, Zenon DEF Handling
<1>7. ASSUME pc' = "ask" PROVE Handling'
  <2>1. batch' = {}
    BY <1>0, <1>7 DEF Handling
  <2> QED BY <1>7, <2>1, Zenon DEF Handling
<1> QED
  BY <1>3, <1>4, <1>6, <1>7

\* The first call to Bluesky: its newest is the starting point.
LEMMA AskFirstPageKeeps ==
  BlueskyGivesTimes /\ IInv /\ AskFirstPage => (Stored /\ Asking /\ Handling /\ Once)'
<1> SUFFICES ASSUME BlueskyGivesTimes, IInv, AskFirstPage
             PROVE  (Stored /\ Asking /\ Handling /\ Once)'
  OBVIOUS
<1> DEFINE found == Newest(listed)
<1>1. /\ UNCHANGED <<network, listed, marker, seen, handed, origin, waiting, cutOff>>
      /\ network = "bluesky" /\ pc = "ask" /\ marker = 0 /\ pc' = "handle"
      /\ newSeen' = {}
  BY DEF AskFirstPage, Return, feed, stored, history
<1>2. \A n \in Places : n > newMarker' => NewAfter(n)'
  BY <1>1 DEF NewAfter, NewerThan
<1>3. Once'
  BY <1>1 DEF Once
<1> QED
  BY <1>1, <1>2, <1>3, AnswerKeeps

\* A page back on Bluesky: there is no gap down to where it got, or to where it
\* met the marker.
LEMMA AskPageBackKeeps ==
  BlueskyGivesTimes /\ IInv /\ AskPageBack => (Stored /\ Asking /\ Handling /\ Once)'
<1> SUFFICES ASSUME BlueskyGivesTimes, IInv, AskPageBack
             PROVE  (Stored /\ Asking /\ Handling /\ Once)'
  OBVIOUS
<1> DEFINE S == {n \in listed : n < cursor}
           page == Newest(S)
           stops == {n \in page : Reached(n)}
           found == collected \cup {n \in page : \A m \in stops : n > m}
           older == S \ page
           cut == cutOff \cup {n \in older \cap Readable : n > marker}
<1>0. TypeOK /\ Stored /\ Asking /\ Handling /\ Once
  BY DEF IInv
<1>1. /\ UNCHANGED <<network, listed, marker, seen, handed, origin, waiting>>
      /\ network = "bluesky" /\ pc = "ask" /\ marker # 0
  BY DEF AskPageBack, feed, stored
<1>2. Readable = Places /\ \A n : New(n) <=> n > marker
  BY <1>0, <1>1 DEF BlueskyGivesTimes, Readable, TypeOK, New, NewerThan
<1>3. /\ S \in SUBSET Places /\ page \subseteq S /\ collected \in SUBSET Places
      /\ marker \in Places /\ cursor \in Nat
      /\ \A n \in page, m \in S : n <= m => m \in page
  <2>1. S \in SUBSET Places
    BY <1>0, PlacesAndTimes DEF TypeOK
  <2>2. page \subseteq S /\ \A n \in page, m \in S : n <= m => m \in page
    <3> HIDE DEF S
    <3> QED BY <1>0, <2>1, NewestIsUpward
  <2> QED BY <1>0, <1>1, <2>1, <2>2, PlacesAndTimes DEF TypeOK
<1>4. \A n \in Places : n \in Nat
  BY <1>0, PlacesAndTimes
\* Nothing newer than the marker is passed over on the page.
<1>5. ASSUME NEW n \in Places, n > marker, NEW s \in stops PROVE n > s
  <2>1. s \in Places /\ Reached(s)
    BY <1>3
  <2>2. When[s] < When[marker] \/ s = marker
    BY <1>2, <2>1 DEF Reached
  <2>3. CASE s = marker
    BY <1>5, <2>3
  <2>4. CASE When[s] < When[marker]
    <3>1. /\ s \in Nat /\ marker \in Nat /\ n \in Nat
          /\ When[s] \in Nat /\ When[marker] \in Nat
          /\ marker <= s => When[marker] <= When[s]
      BY <1>0, <1>3, <2>1, PlacesAndTimes
    <3> QED BY <1>5, <2>4, <3>1
  <2> QED BY <2>2, <2>3, <2>4
<1>6. ASSUME NEW n \in Live, New(n), n \in page PROVE n \in found
  BY <1>0, <1>2, <1>5, <1>6, PlacesAndTimes
<1>7. ASSUME NEW n \in Live, NEW m \in found, New(n), n <= m, cursor <= n PROVE n \in found
  <2>1. n \in Places /\ m \in Places
    BY <1>0, <1>3, PlacesAndTimes
  <2>2. m \in collected
    <3>1. m \in page => m < cursor
      BY <1>3
    <3> QED BY <1>3, <1>4, <1>7, <2>1, <3>1
  <2> QED BY <1>0, <1>1, <1>7, <2>2 DEF Asking
<1>8. ASSUME NEW n \in Live, ~(cursor <= n) PROVE n \in S
  BY <1>0, <1>3, <1>4, <1>8, PlacesAndTimes
<1>9. /\ cutOff' \in {cutOff, cut}
      /\ \/ /\ stops # {} \/ older = {} \/ cutOff' = cut
            /\ Return(found, NewestFound(found), {})
         \/ /\ stops = {} /\ older # {} /\ pc' = "ask"
            /\ collected' = found /\ pages' = pages + 1 /\ cursor' = Min(page)
            /\ UNCHANGED <<batch, cutOff>>
  BY Zenon DEF AskPageBack, result
<1>10. Once'
  BY <1>1 DEF Once
<1>11. CASE /\ stops # {} \/ older = {} \/ cutOff' = cut
            /\ Return(found, NewestFound(found), {})
  <2>1. /\ pc' = "handle" /\ batch' = found \cap Readable
        /\ newMarker' = NewestFound(found) /\ newSeen' = {}
    BY <1>11 DEF Return
  <2>2. found \in SUBSET Places
    BY <1>3
  <2>3. found = {} => newMarker' = marker
    BY <2>1 DEF NewestFound
  <2>4. found # {} => newMarker' = Max(found) /\ Max(found) \in found /\ newMarker' # 0
    <3> HIDE DEF found
    <3>1. ASSUME found # {} PROVE Max(found) \in found /\ Max(found) \in Places
      BY <2>2, <3>1, Ends
    <3>2. \A n \in Places : n # 0
      BY DEF Places
    <3> QED BY <1>2, <2>1, <3>1, <3>2 DEF NewestFound
  <2>5. newMarker' # 0
    BY <1>1, <2>3, <2>4
  <2>6. \A n : NewAfter(n)' <=> n > newMarker'
    BY <1>1 DEF NewAfter, NewerThan
  <2>7. ASSUME NEW n \in Live, New(n), ~NewAfter(n)' PROVE n \in batch' \cup handed \cup cutOff'
    <3>1. n \in Places /\ n > marker /\ ~(n > newMarker') /\ n \in Readable /\ n \in listed
      BY <1>0, <1>2, <2>6, <2>7, PlacesAndTimes
    <3>2. found # {}
      BY <2>3, <3>1
    <3>3. newMarker' \in found /\ newMarker' \in Places /\ n <= newMarker'
      <4>1. newMarker' \in found /\ newMarker' \in Places
        BY <2>2, <2>4, <3>2
      <4> QED BY <1>4, <3>1, <4>1
    <3>4. CASE cursor <= n
      BY <1>7, <2>1, <2>7, <3>1, <3>3, <3>4
    <3>5. CASE n \in page
      BY <1>6, <2>1, <2>7, <3>1, <3>5
    <3>6. CASE n \in older
      <4>1. older # {}
        BY <3>6
      <4>2. ASSUME NEW s \in stops PROVE FALSE
        <5>1. n > s /\ s \in page /\ s \in Places
          BY <1>3, <1>5, <3>1
        <5>2. n \in S /\ n \notin page
          BY <3>6
        <5> HIDE DEF stops, older, page, S
        <5> QED BY <1>3, <1>4, <3>1, <5>1, <5>2
      <4>3. cutOff' = cut
        BY <1>11, <4>1, <4>2
      <4> QED BY <3>1, <3>6, <4>3
    <3> QED BY <1>8, <3>4, <3>5, <3>6
  <2> HIDE DEF found, cut
  <2>8. cutOff \subseteq cutOff'
    BY <1>9 DEF cut
  <2> QED BY <1>1, <1>10, <2>1, <2>5, <2>7, <2>8, AnswerKeeps
<1>12. CASE /\ stops = {} /\ older # {} /\ pc' = "ask"
            /\ collected' = found /\ pages' = pages + 1 /\ cursor' = Min(page)
            /\ UNCHANGED <<batch, cutOff>>
  <2>1. pages' # 0
    BY <1>0, <1>12, UpdatesAfterAssumption DEF TypeOK
  <2>2. Min(page) \in page
    <3>1. S # {} /\ S \in SUBSET Places
      BY <1>3, <1>12
    <3>2. page # {} /\ page \in SUBSET Places
      <4> HIDE DEF S
      <4> QED BY <1>0, <3>1, NewestIsUpward
    <3> HIDE DEF page
    <3> QED BY <3>2, Ends
  <2>3. ASSUME NEW n \in Live, NEW m \in found, New(n), Min(page) <= n, n <= m
        PROVE  n \in found
    <3>1. CASE cursor <= n
      BY <1>7, <2>3, <3>1
    <3>2. CASE ~(cursor <= n)
      <4>1. n \in S
        BY <1>8, <3>2
      <4>2. n \in page
        BY <1>3, <2>2, <2>3, <4>1
      <4> QED BY <1>6, <2>3, <4>2
    <3> QED BY <3>1, <3>2
  <2>4. Readable' = Readable /\ Live' = Live /\ \A m : New(m)' <=> New(m)
    BY <1>1, SameMarker DEF Live
  <2>5. \A n \in waiting : New(n) /\ n \in Readable
    BY <1>0, <1>1 DEF Asking
  <2> HIDE DEF S, page, stops, found, older, cut
  <2>6. Asking'
    BY <1>1, <1>12, <2>1, <2>3, <2>4, <2>5 DEF Asking
  <2> QED BY <1>1, <1>10, <1>12, <2>6, AnswerKeeps
<1> QED
  BY <1>9, <1>11, <1>12

\* The page right after the marker on Mastodon: there is no gap before the one
\* that becomes the marker.
LEMMA AskMastodonKeeps ==
  IInv /\ AskMastodon => (Stored /\ Asking /\ Handling /\ Once)'
<1> SUFFICES ASSUME IInv, AskMastodon PROVE (Stored /\ Asking /\ Handling /\ Once)'
  OBVIOUS
<1> DEFINE found == PageAfter \cap Readable
<1>0. TypeOK
  BY DEF IInv
<1>1. /\ UNCHANGED <<network, listed, marker, seen, handed, origin, waiting, cutOff>>
      /\ network = "mastodon" /\ pc = "ask" /\ pc' = "handle"
      /\ batch' = found \cap Readable /\ newMarker' = LastSorted(found) /\ newSeen' = {}
  BY DEF AskMastodon, Return, feed, stored, history
<1>2. \A n : (NewAfter(n)' <=> n > newMarker') /\ (New(n) <=> n > marker)
  BY <1>1 DEF NewAfter, New, NewerThan
<1>3. found \in SUBSET (1..top)
  BY <1>0 DEF PageAfter, Newest, Oldest, TypeOK
<1>4. found # {} => newMarker' \in found /\ newMarker' # 0
  <2> HIDE DEF found
  <2>1. found # {} => newMarker' \in found
    BY <1>0, <1>1, <1>3, LastSortedIsThere
  <2> QED BY <1>3, <2>1
<1>5. found = {} => newMarker' = marker
  BY <1>1 DEF LastSorted
<1>6. ASSUME marker # 0, NEW n \in Live, New(n), ~NewAfter(n)' PROVE n \in batch'
  <2> DEFINE S == {m \in listed : m > marker}
  <2>1. n \in S /\ n \in Places /\ n \in Readable /\ ~(n > newMarker')
    BY <1>0, <1>2, <1>6, PlacesAndTimes
  <2>2. found # {}
    BY <1>2, <1>5, <1>6
  <2>3. newMarker' \in PageAfter
    BY <1>4, <2>2
  <2>4. PageAfter = Oldest(S)
    BY <1>6 DEF PageAfter
  <2>5. S \in SUBSET Places
    BY <1>0, PlacesAndTimes DEF TypeOK
  <2> HIDE DEF S
  <2>6. newMarker' \in S /\ newMarker' \in Places
    BY <1>0, <2>3, <2>4, <2>5, OldestIsDownward
  <2>7. n <= newMarker'
    BY <1>0, <2>1, <2>6, PlacesAndTimes
  <2>8. n \in PageAfter
    BY <1>0, <2>1, <2>3, <2>4, <2>5, <2>7, OldestIsDownward
  <2> QED BY <1>1, <2>1, <2>8
<1>7. Once'
  BY <1>1 DEF Once
<1> HIDE DEF found
<1>8. newMarker' = 0 => newSeen' = {} /\ marker = 0
  BY <1>1, <1>4, <1>5
<1> QED
  BY <1>1, <1>2, <1>6, <1>7, <1>8, AnswerKeeps

\* A page of comments on Facebook: of the posts it is done with it has all that
\* is new, and of this one all down to where it got.
LEMMA AskCommentsKeeps ==
  IInv /\ AskComments => (Stored /\ Asking /\ Handling /\ Once)'
<1> SUFFICES ASSUME IInv, AskComments PROVE (Stored /\ Asking /\ Handling /\ Once)'
  OBVIOUS
<1> DEFINE here == {n \in listed : PostOf[n] = post /\ n < cursor}
           page == Newest(here)
           stops == {n \in page \cap Readable : marker # 0 /\ When[n] < When[marker]}
           found == collected \cup {n \in page \cap Readable :
                                      (marker # 0 => New(n)) /\ \A m \in stops : n > m}
           older == here \ page
           onward == stops = {} /\ older # {} /\ marker # 0
           cut == cutOff \cup {n \in older \cap Readable : New(n)}
           back == HandBack(found)
<1>0. TypeOK /\ Stored /\ Asking /\ Handling /\ Once
  BY DEF IInv
<1>1. /\ UNCHANGED <<network, listed, marker, seen, handed, faults, origin, waiting>>
      /\ network = "facebook" /\ pc = "ask"
  BY DEF AskComments, feed, stored
<1>2. /\ here \in SUBSET Places /\ page \subseteq here
      /\ \A n \in page, m \in here : n <= m => m \in page
      /\ here # {} => page # {}
  <2>1. here \in SUBSET Places
    BY <1>0, PlacesAndTimes DEF TypeOK
  <2>2. page \subseteq here /\ (here # {} => page # {})
        /\ \A n \in page, m \in here : n <= m => m \in page
    <3> HIDE DEF here
    <3> QED BY <1>0, <2>1, NewestIsUpward
  <2> QED BY <2>1, <2>2
<1>3. /\ found \in SUBSET Places /\ found \subseteq Readable
      /\ marker # 0 => \A n \in found : New(n)
  <2>1. collected \in SUBSET Places /\ collected \subseteq Readable
        /\ (marker # 0 => \A n \in collected : New(n))
    BY <1>0, <1>1, PlacesAndTimes DEF TypeOK, Asking
  <2> QED BY <1>2, <2>1
<1>4. /\ \A n \in Places : n \in Nat /\ When[n] \in Nat /\ PostOf[n] \in Nat
      /\ \A m, n \in Places : m <= n => When[m] <= When[n]
      /\ Live \subseteq Places /\ Live \subseteq listed /\ Live \subseteq Readable
      /\ post \in Nat /\ cursor \in Nat
      /\ marker # 0 => marker \in Places
  BY <1>0, PlacesAndTimes DEF TypeOK
<1>5. \A n : New(n) <=> When[n] >= When[marker] /\ (When[n] = When[marker] => n \notin seen)
  BY <1>1 DEF New, NewerThan
\* What the walk has passed by is found, or given up.
<1>6. ASSUME marker # 0, NEW n \in Live, New(n), NEW s \in stops PROVE n > s
  <2>1. s \in Places /\ When[s] < When[marker]
    BY <1>2
  <2>2. /\ n \in Nat /\ s \in Nat /\ When[n] \in Nat /\ When[s] \in Nat /\ When[marker] \in Nat
        /\ When[n] >= When[marker] /\ (n <= s => When[n] <= When[s])
    BY <1>4, <1>5, <1>6, <2>1
  <2> QED BY <2>1, <2>2
<1>7. ASSUME marker # 0, NEW n \in Live, New(n), n \in page PROVE n \in found
  BY <1>4, <1>6, <1>7
<1>8. ASSUME marker # 0, NEW n \in Live, New(n),
             PostOf[n] < post \/ (PostOf[n] = post /\ cursor <= n)
      PROVE  n \in found \cup cutOff
  BY <1>0, <1>1, <1>8 DEF Asking
<1>9. ASSUME marker # 0, NEW n \in Live, New(n), PostOf[n] <= post,
             cutOff' = IF onward THEN cut ELSE cutOff
      PROVE  n \in found \cup cutOff'
  <2>1. cutOff \subseteq cutOff'
    BY <1>9
  <2>2. CASE PostOf[n] < post \/ (PostOf[n] = post /\ cursor <= n)
    BY <1>8, <1>9, <2>1, <2>2
  <2>3. CASE ~(PostOf[n] < post \/ (PostOf[n] = post /\ cursor <= n))
    <3>1. n \in here
      BY <1>4, <1>9, <2>3
    <3>2. CASE n \in page
      BY <1>7, <1>9, <3>2
    <3>3. CASE n \notin page
      <4>1. n \in older /\ n \in Readable
        BY <1>4, <3>1, <3>3
      <4>2. ASSUME NEW s \in stops PROVE FALSE
        <5>1. n > s /\ s \in page /\ s \in Places /\ n \in Places
          BY <1>2, <1>4, <1>6, <1>9
        <5> HIDE DEF stops, older, page, here
        <5> QED BY <1>2, <1>4, <3>1, <3>3, <5>1
      <4>3. onward
        BY <1>9, <4>1, <4>2
      <4> QED BY <1>9, <4>1, <4>3
    <3> QED BY <3>2, <3>3
  <2> QED BY <2>2, <2>3
<1>10. \/ /\ onward
          /\ collected' = found /\ pages' = pages + 1 /\ cursor' = Min(page)
          /\ UNCHANGED <<post, pc, batch, cutOff>>
       \/ /\ cutOff' = IF onward THEN cut ELSE cutOff
          /\ post < LastPost /\ post' = post + 1
          /\ pages' = 0 /\ cursor' = Size + 1 /\ collected' = found
          /\ UNCHANGED <<pc, batch>>
       \/ /\ cutOff' = IF onward THEN cut ELSE cutOff
          /\ ~(post < LastPost)
          /\ IF found = {} THEN Return({}, marker, seen)
             ELSE Return(back, Max(back), NamedAfter(back, Max(back)))
  BY Zenon DEF AskComments, result
<1>11. cutOff \subseteq cutOff'
  BY <1>10
<1>12. \A m : (New(m)' <=> New(m)) /\ Readable' = Readable /\ Live' = Live
  BY <1>1, SameMarker DEF Live
<1>13. marker # 0 => \A n \in waiting : New(n) /\ n \in Readable
  BY <1>0, <1>1 DEF Asking
<1>14. (faults = 0) => \A n \in handed : marker # 0 /\ ~New(n)
  BY <1>0, <1>1 DEF Once
\* The next page of the same post.
<1>15. CASE /\ onward
            /\ collected' = found /\ pages' = pages + 1 /\ cursor' = Min(page)
            /\ UNCHANGED <<post, pc, batch, cutOff>>
  <2>1. pages' # 0 /\ pc' = "ask" /\ marker # 0
    BY <1>0, <1>1, <1>15, UpdatesAfterAssumption DEF TypeOK
  <2>2. Min(page) \in page /\ \A n \in page : Min(page) <= n
    <3>1. page # {} /\ page \in SUBSET Places
      BY <1>2, <1>15
    <3> HIDE DEF page
    <3> QED BY <3>1, Ends
  <2>3. ASSUME NEW n \in Live, New(n),
               PostOf[n] < post \/ (PostOf[n] = post /\ Min(page) <= n)
        PROVE  n \in found \cup cutOff
    <3>1. CASE PostOf[n] < post \/ (PostOf[n] = post /\ cursor <= n)
      BY <1>8, <2>1, <2>3, <3>1
    <3>2. CASE ~(PostOf[n] < post \/ (PostOf[n] = post /\ cursor <= n))
      <4>1. n \in here
        BY <1>4, <2>3, <3>2
      <4>2. n \in page
        <5> HIDE DEF here, page
        <5> QED BY <1>2, <2>2, <2>3, <3>2, <4>1
      <4> QED BY <1>7, <2>1, <2>3, <4>2
    <3> QED BY <3>1, <3>2
  <2> HIDE DEF here, page, stops, found, older, onward, cut, back
  <2>4. Asking'
    BY <1>1, <1>3, <1>12, <1>13, <1>15, <2>1, <2>3 DEF Asking
  <2>5. Once'
    BY <1>1, <1>12, <1>14, <2>1 DEF Once
  <2> QED BY <1>1, <1>11, <1>15, <2>1, <2>4, <2>5, AnswerKeeps
\* The next post.
<1>16. CASE /\ cutOff' = IF onward THEN cut ELSE cutOff
            /\ post < LastPost /\ post' = post + 1
            /\ pages' = 0 /\ cursor' = Size + 1 /\ collected' = found
            /\ UNCHANGED <<pc, batch>>
  <2>1. ASSUME marker # 0, NEW n \in Live, New(n),
               PostOf[n] < post + 1 \/ (PostOf[n] = post + 1 /\ Size + 1 <= n)
        PROVE  n \in found \cup cutOff'
    <3>1. n \in Places /\ ~(Size + 1 <= n)
      BY <1>4, UpdatesAfterAssumption DEF Places
    <3>2. PostOf[n] <= post
      BY <1>4, <2>1, <3>1
    <3> QED BY <1>9, <1>16, <2>1, <3>2
  <2> HIDE DEF here, page, stops, found, older, onward, cut, back
  <2>2. Asking'
    BY <1>1, <1>3, <1>12, <1>13, <1>16, <2>1 DEF Asking
  <2>3. Once'
    BY <1>1, <1>12, <1>14, <1>16 DEF Once
  <2> QED BY <1>1, <1>11, <1>16, <2>2, <2>3, AnswerKeeps
\* All posts are read.
<1>17. CASE /\ cutOff' = IF onward THEN cut ELSE cutOff
            /\ ~(post < LastPost)
            /\ IF found = {} THEN Return({}, marker, seen)
               ELSE Return(back, Max(back), NamedAfter(back, Max(back)))
  <2>1. ASSUME marker # 0, NEW n \in Live, New(n) PROVE n \in found \cup cutOff'
    <3> DEFINE posts == {PostOf[m] : m \in Places}
    <3>1. posts \in SUBSET Places /\ PostOf[n] \in posts
      BY <1>4, UpdatesAfterAssumption DEF Places
    <3>2. PostOf[n] <= LastPost /\ LastPost \in Places
      <4>1. LastPost = Max(posts)
        BY DEF LastPost
      <4> HIDE DEF posts
      <4> QED BY <3>1, <4>1, Ends
    <3>3. PostOf[n] <= post
      BY <1>4, <1>17, <3>2
    <3> QED BY <1>9, <1>17, <2>1, <3>3
  <2> HIDE DEF here, page, stops, found, older, onward, cut
  <2>2. CASE found = {}
    <3>1. pc' = "handle" /\ batch' = {} /\ newMarker' = marker /\ newSeen' = seen
      BY <1>17, <2>2 DEF Return
    <3>2. \A n : NewAfter(n)' <=> New(n)
      BY <1>1, <3>1 DEF NewAfter, New, NewerThan
    <3>3. newMarker' = 0 => newSeen' = {} /\ marker = 0
      BY <1>0, <3>1 DEF Stored
    <3>4. Once'
      BY <1>1, <1>14, <3>1, <3>2 DEF Once
    <3> QED BY <1>1, <1>11, <3>1, <3>2, <3>3, <3>4, AnswerKeeps
  <2>3. CASE found # {}
    <3> DEFINE last == Max(back)
    <3>1. /\ pc' = "handle" /\ batch' = back \cap Readable /\ newMarker' = last
          /\ newSeen' = NamedAfter(back, last)
      BY <1>17, <2>3 DEF Return
    <3>2. /\ back \subseteq found /\ back # {} /\ back \in SUBSET Places
          /\ marker # 0 => \A n \in back, m \in found : Sooner(m, n) => m \in back
      BY <1>3, <2>3, HandBackIsDownward
    <3> HIDE DEF back
    <3>3. last \in back /\ last \in Places /\ last # 0 /\ \A n \in back : n <= last
      <4>1. \A n \in Places : n # 0
        BY DEF Places
      <4> QED BY <3>2, <4>1, Ends
    <3> HIDE DEF last
    <3>4. \A n : NewAfter(n)' <=>
              When[n] >= When[last] /\ (When[n] = When[last] => n \notin newSeen')
      BY <1>1, <3>1 DEF NewAfter, NewerThan
    <3>5. newSeen' = {n \in back : When[n] = When[last]}
                       \cup IF marker # 0 /\ When[marker] = When[last] THEN seen ELSE {}
      BY <3>1 DEF NamedAfter
    <3>6. ASSUME marker # 0, NEW n \in Live, New(n), ~NewAfter(n)'
          PROVE  n \in batch' \cup handed \cup cutOff'
      <4>1. n \in Places /\ n \in Readable /\ When[n] \in Nat /\ When[last] \in Nat
        BY <1>4, <3>3
      <4>2. n \in found \cup cutOff'
        BY <2>1, <3>6
      <4>3. When[n] < When[last] \/ n \in newSeen'
        BY <3>4, <3>6, <4>1
      <4>4. CASE n \in found /\ When[n] < When[last]
        <5>1. Sooner(n, last)
          BY <4>4 DEF Sooner
        <5> QED BY <3>1, <3>2, <3>3, <3>6, <4>1, <4>4, <5>1
      <4>5. CASE n \in newSeen'
        BY <1>5, <3>1, <3>4, <3>5, <3>6, <4>1, <4>5
      <4> QED BY <4>2, <4>3, <4>4, <4>5
    <3>7. ASSUME marker = 0, NEW n \in Places, n > last PROVE NewAfter(n)'
      <4>1. n \in Nat /\ last \in Nat /\ When[n] \in Nat /\ When[last] \in Nat
            /\ (last <= n => When[last] <= When[n])
        BY <1>4, <3>3
      <4>2. n \notin back
        BY <3>3, <3>7, <4>1
      <4> QED BY <3>4, <3>5, <3>7, <4>1, <4>2
    <3>8. ASSUME NEW n \in back PROVE ~NewAfter(n)'
      <4>1. When[n] \in Nat /\ When[last] \in Nat /\ When[n] <= When[last]
        BY <1>4, <3>2, <3>3
      <4> QED BY <3>4, <3>5, <4>1
    <3>9. ASSUME faults = 0, NEW n \in handed PROVE ~NewAfter(n)' /\ n \notin batch'
      <4>1. marker # 0 /\ ~New(n)
        BY <1>14, <3>9
      <4>2. n \notin batch'
        BY <1>3, <3>1, <3>2, <4>1
      <4>3. New(last)
        BY <1>3, <3>2, <3>3, <4>1
      <4>4. /\ n \in Places /\ When[n] \in Nat /\ When[last] \in Nat /\ When[marker] \in Nat
            /\ When[last] >= When[marker]
        <5>1. n \in Places
          BY <1>0, <3>9, PlacesAndTimes DEF TypeOK
        <5> QED BY <1>4, <1>5, <3>3, <4>1, <4>3, <5>1
      <4> QED BY <1>5, <3>4, <3>5, <4>1, <4>2, <4>4
    <3>10. Once'
      BY <1>1, <3>1, <3>3, <3>8, <3>9 DEF Once
    <3> QED BY <1>1, <1>11, <3>1, <3>3, <3>6, <3>7, <3>10, AnswerKeeps
  <2> QED BY <2>2, <2>3
<1> QED
  BY <1>10, <1>15, <1>16, <1>17

-----------------------------------------------------------------------------
\* The invariant holds at the start and after every step, if Bluesky gives
\* every notification a time.
LEMMA InvariantInit ==
  Init => IInv
<1> SUFFICES ASSUME Init PROVE IInv
  OBVIOUS
<1>1. TypeOK
  BY UpdatesAfterAssumption DEF Init, TypeOK
<1>2. Stored
  BY DEF Init, Stored, LossNeedsABurst, Behind
<1>3. Asking /\ Handling /\ Once
  BY DEF Init, Asking, Handling, Once
<1> QED
  BY <1>1, <1>2, <1>3 DEF IInv

LEMMA InvariantStep ==
  BlueskyGivesTimes /\ IInv /\ [Next]_vars => IInv'
<1> SUFFICES ASSUME BlueskyGivesTimes, IInv, [Next]_vars PROVE IInv'
  OBVIOUS
<1>1. TypeOK'
  BY TypingStep DEF IInv
<1>2. CASE UNCHANGED vars
  <2>1. Readable' = Readable /\ Live' = Live /\ Safe' = Safe
        /\ \A n : (New(n)' <=> New(n)) /\ (NewAfter(n)' <=> NewAfter(n))
    BY <1>2, SameMarker, SameBatchMarker
    DEF vars, feed, stored, call, result, history, Live, Safe
  <2>2. Stored' /\ Asking' /\ Handling' /\ Once'
    BY <1>2, <2>1
    DEF IInv, vars, feed, stored, call, result, history, Stored, LossNeedsABurst, Behind,
        Asking, Handling, Once
  <2> QED BY <1>1, <2>2 DEF IInv
<1>3. CASE Next
  BY <1>1, <1>3, HappenKeeps, WithdrawKeeps, CallAndFailKeep, HandleKeeps, SaveKeeps,
     AskFirstPageKeeps, AskPageBackKeeps, AskMastodonKeeps, AskCommentsKeeps
  DEF Next, Round, IInv
<1> QED
  BY <1>2, <1>3

\* The types hold, whatever comes without a time.
THEOREM Typing == Spec => []TypeOK
<1>1. Init => TypeOK
  BY InvariantInit DEF IInv
<1> QED
  BY <1>1, TypingStep, PTL DEF Spec

\* The inductive invariant: neither what a call has found nor its batch has a
\* gap before its marker.
THEOREM Invariance == BlueskyGivesTimes => (Spec => []IInv)
<1> SUFFICES ASSUME BlueskyGivesTimes PROVE Spec => []IInv
  OBVIOUS
<1>1. IInv /\ [Next]_vars => IInv'
  BY InvariantStep
<1> QED
  BY <1>1, InvariantInit, PTL DEF Spec

\* A stored marker moves past an update only when the app has handled it, or a
\* call gave up before it, or it came to a post the call had read.
THEOREM LossHasACause == BlueskyGivesTimes => (Spec => []LossNeedsABurst)
<1> SUFFICES ASSUME BlueskyGivesTimes PROVE Spec => []LossNeedsABurst
  OBVIOUS
<1>1. IInv => LossNeedsABurst
  BY DEF IInv, Stored
<1> QED
  BY <1>1, Invariance, PTL

\* What was new when a call began, and would not be after its marker, is in its
\* batch, unless the call gave up before it.
THEOREM BatchesAreComplete == BlueskyGivesTimes => (Spec => []BatchIsComplete)
<1> SUFFICES ASSUME BlueskyGivesTimes PROVE Spec => []BatchIsComplete
  OBVIOUS
<1>1. IInv => BatchIsComplete
  BY DEF IInv, BatchIsComplete, Handling, NewAfter, Live, Safe
<1> QED
  BY <1>1, Invariance, PTL

\* Facebook hands nothing back twice, if nothing goes wrong.
THEOREM NothingComesTwice == BlueskyGivesTimes => (Spec => []NothingTwice)
<1> SUFFICES ASSUME BlueskyGivesTimes PROVE Spec => []NothingTwice
  OBVIOUS
<1>1. IInv => NothingTwice
  BY DEF IInv, NothingTwice, Handling, Once
<1> QED
  BY <1>1, Invariance, PTL

-----------------------------------------------------------------------------
\* How far back a call to Bluesky has read, its marker withdrawn or not: no
\* further than the marker's own tick (the scan of a page in fetch_updates_after).
ReadToItsTick ==
  (network = "bluesky" /\ pc = "ask" /\ marker # 0)
    => \A n \in collected : When[marker] <= When[n]

\* What comes before a stop on a page is not one itself.
LEMMA NotReached ==
  ASSUME TypeOK, marker # 0, NEW page \in SUBSET listed,
         NEW n \in {m \in page : \A k \in {l \in page : Reached(l)} : m > k}
  PROVE  When[marker] <= When[n] /\ n \in Readable
<1>1. n \in Places /\ marker \in Places
  BY PlacesAndTimes DEF TypeOK, Places
<1>2. n \in Nat /\ When[n] \in Nat /\ When[marker] \in Nat
  BY <1>1, PlacesAndTimes
<1>3. ~Reached(n)
  BY <1>2
<1> QED
  BY <1>2, <1>3 DEF Reached

LEMMA ReadToItsTickKeeps ==
  TypeOK /\ ReadToItsTick /\ [Next]_vars => ReadToItsTick'
<1> SUFFICES ASSUME TypeOK, ReadToItsTick, [Next]_vars,
                    network' = "bluesky", pc' = "ask", marker' # 0
             PROVE  \A n \in collected' : When[marker'] <= When[n]
  BY DEF ReadToItsTick
<1> USE DEF ReadToItsTick
<1>1. CASE AskPageBack
  <2>1. /\ network = "bluesky" /\ pc = "ask" /\ marker # 0 /\ marker' = marker
        /\ listed' = listed
    BY <1>1 DEF AskPageBack, feed, stored
  <2> DEFINE page == Newest({n \in listed : n < cursor})
             stops == {n \in page : Reached(n)}
             new == {n \in page : \A m \in stops : n > m}
  <2>2. collected' = collected \cup new
    BY <1>1 DEF AskPageBack, Return
  <2>3. page \in SUBSET listed
    BY DEF Newest
  <2>4. \A n \in new : When[marker] <= When[n]
    <3> HIDE DEF page
    <3> QED
      BY <2>1, <2>3, NotReached
  <2> QED
    BY <2>1, <2>2, <2>4
<1>2. CASE Call
  BY <1>2 DEF Call
<1>3. CASE Happen \/ (\E n \in Places : Withdraw(n)) \/ UNCHANGED vars
  BY <1>3 DEF Happen, Withdraw, vars, feed, stored, call
<1>4. CASE AskFirstPage \/ AskMastodon \/ Handle \/ Save \/ Fail
  BY <1>4 DEF AskFirstPage, AskMastodon, Return, Handle, Save, Fail
<1>5. CASE AskComments
  BY <1>5 DEF AskComments, feed
<1> QED
  BY <1>1, <1>2, <1>3, <1>4, <1>5 DEF Next, Round

\* What is not coming is neither newer than the marker nor, on Bluesky, of its
\* tick; and before there is a marker everything is coming.
LEMMA WhatIsComing ==
  ASSUME TypeOK, Stored
  PROVE  /\ marker = 0 => NotComing = {}
         /\ \A n \in NotComing : ~New(n) /\ n \in Places
         /\ (marker # 0 /\ network = "bluesky") =>
              \A n \in Places : When[marker] <= When[n] => n \notin NotComing
<1>1. \A n \in NotComing : n \in Behind /\ (network = "bluesky" => When[n] # When[marker])
  BY DEF NotComing
<1>2. \A n \in Behind : origin # 0 /\ ~New(n) /\ n \in listed
  BY DEF Behind
<1>3. \A n \in listed : n \in Places
  BY PlacesAndTimes DEF TypeOK
<1>4. ASSUME marker # 0, network = "bluesky", NEW n \in Places, When[marker] <= When[n]
      PROVE  n \notin NotComing
  <2>1. marker \in Places
    BY <1>4, PlacesAndTimes DEF TypeOK, Places
  <2>2. n \in Nat /\ marker \in Nat /\ When[n] \in Nat /\ When[marker] \in Nat
        /\ (n <= marker => When[n] <= When[marker])
    BY <2>1, PlacesAndTimes
  <2>3. New(n) \/ n <= marker
    BY <1>4, <2>2 DEF New, NewerThan
  <2> QED
    BY <1>1, <1>2, <1>4, <2>2, <2>3
<1> QED
  BY <1>1, <1>2, <1>3, <1>4 DEF Stored

\* A batch is of things that are coming.
LEMMA BatchIsComing ==
  ASSUME TypeOK, IInv, ReadToItsTick, AskFirstPage \/ AskPageBack \/ AskMastodon \/ AskComments,
         pc' = "handle"
  PROVE  batch' \cap NotComing = {}
<1> USE DEF IInv
<1>1. CASE marker = 0
  BY <1>1, WhatIsComing
<1>2. CASE marker # 0 /\ AskPageBack
  <2> DEFINE page == Newest({n \in listed : n < cursor})
             stops == {n \in page : Reached(n)}
             new == {n \in page : \A m \in stops : n > m}
  <2>1. network = "bluesky" /\ pc = "ask"
    BY <1>2 DEF AskPageBack
  <2>2. batch' \subseteq collected \cup new
    BY <1>2 DEF AskPageBack, Return
  <2>3. page \in SUBSET listed
    BY DEF Newest
  <2>4. \A n \in new : When[marker] <= When[n]
    <3> HIDE DEF page
    <3> QED
      BY <1>2, <2>3, NotReached
  <2>5. \A n \in batch' : When[marker] <= When[n] /\ n \in Places
    <3>1. collected \subseteq Places /\ new \subseteq Places
      BY <2>3, PlacesAndTimes DEF TypeOK
    <3> HIDE DEF new
    <3> QED
      BY <1>2, <2>1, <2>2, <2>4, <3>1 DEF ReadToItsTick
  <2> QED
    BY <1>2, <2>1, <2>5, WhatIsComing
<1>3. CASE marker # 0 /\ AskMastodon
  <2>1. batch' \subseteq {n \in listed : n > marker} /\ network = "mastodon"
    BY <1>3 DEF AskMastodon, Return, PageAfter, Oldest
  <2>2. \A n \in batch' : New(n)
    BY <2>1 DEF New, NewerThan
  <2> QED
    BY <2>2, WhatIsComing
<1>4. CASE marker # 0 /\ AskComments
  <2>1. network = "facebook" /\ pc = "ask"
    BY <1>4 DEF AskComments
  <2>2. \A n \in collected : New(n)
    BY <1>4, <2>1 DEF Asking
  <2>3. PICK found \in SUBSET Places :
          (\A n \in found : New(n)) /\ batch' \subseteq found
    <3> DEFINE here == {n \in listed : PostOf[n] = post /\ n < cursor}
               page == Newest(here)
               stops == {n \in page \cap Readable : marker # 0 /\ When[n] < When[marker]}
               found == collected \cup {n \in page \cap Readable :
                                    (marker # 0 => New(n)) /\ \A m \in stops : n > m}
    <3>1. found \subseteq Places
      BY PlacesAndTimes DEF TypeOK, Newest
    <3>2. \A n \in found : New(n)
      BY <1>4, <2>2
    <3>3. batch' \in {{}, HandBack(found) \cap Readable}
      BY <1>4, <2>1 DEF AskComments, Return
    <3>4. batch' \subseteq found
      <4> HIDE DEF found
      <4> QED
        BY <3>1, <3>3, HandBackIsDownward
    <3> HIDE DEF found
    <3> QED
      BY <3>1, <3>2, <3>4
  <2> QED
    BY <2>3, WhatIsComing
<1> QED
  BY <1>1, <1>2, <1>3, <1>4 DEF AskFirstPage

\* A page that ends a call gives the app a batch, Handle handles one of it, and
\* every other step passes over nothing that was not handled or cut off.
LEMMA StepOfInbox ==
  ASSUME IInv, IInv', ReadToItsTick, [Next]_vars
  PROVE  [Inbox!Next]_(Inbox!vars)
<1> USE DEF IInv
<1>1. NotComing' \subseteq handed' \cup cutOff'
  BY DEF Stored, LossNeedsABurst, NotComing
<1>2. ASSUME handed' = handed, batch' \subseteq batch, cutOff \subseteq cutOff'
      PROVE  Inbox!Next
  BY <1>1, <1>2 DEF Inbox!Next, Inbox!MoveOn
<1>3. ASSUME UNCHANGED <<network, listed, marker, seen, origin>>
      PROVE  NotComing' = NotComing
  BY <1>3, SameMarker DEF NotComing, Behind
<1>4. CASE Handle
  <2>1. /\ NextUp \in batch /\ batch' = batch \ {NextUp}
        /\ handed' = handed \cup {NextUp} /\ cutOff' = cutOff
    BY <1>4, NextUpIsThere DEF Handle, history
  <2>2. NotComing' = NotComing
    BY <1>3, <1>4 DEF Handle, feed, stored, history
  <2>3. NextUp \in Places
    BY <2>1, PlacesAndTimes DEF TypeOK
  <2>4. Inbox!Handle(NextUp)
    BY <2>1, <2>2 DEF Inbox!Handle
  <2> QED
    BY <2>3, <2>4 DEF Inbox!Next
<1>5. CASE AskFirstPage \/ AskPageBack \/ AskMastodon \/ AskComments
  <2>1. /\ UNCHANGED <<network, listed, marker, seen, origin>>
        /\ handed' = handed /\ cutOff \subseteq cutOff' /\ pc = "ask"
    BY <1>5 DEF AskFirstPage, AskPageBack, AskMastodon, AskComments, feed, stored, history
  <2>2. batch = {}
    BY <2>1 DEF Handling
  <2>3. CASE pc' = "handle"
    <3>1. batch' \cap NotComing = {}
      BY <1>5, <2>3, BatchIsComing
    <3>2. batch' \subseteq Places
      BY PlacesAndTimes DEF TypeOK, Places
    <3>3. NotComing' = NotComing
      BY <1>3, <2>1
    <3>4. Inbox!Give
      BY <2>1, <2>2, <3>1, <3>2, <3>3 DEF Inbox!Give
    <3> QED
      BY <3>4 DEF Inbox!Next
  <2>4. CASE pc' # "handle"
    <3>1. batch' = {}
      BY <2>4 DEF Handling
    <3> QED
      BY <1>2, <2>1, <2>2, <3>1
  <2> QED
    BY <2>3, <2>4
<1>6. CASE Happen \/ Call \/ Save \/ Fail \/ \E n \in Places : Withdraw(n)
  BY <1>2, <1>6 DEF Happen, Call, Save, Fail, Withdraw, result, history
<1>7. CASE UNCHANGED vars
  BY <1>2, <1>7 DEF vars, result, history
<1> QED
  BY <1>4, <1>5, <1>6, <1>7 DEF Next, Round

\* Fetching after a stored marker keeps what Inbox promises: what is not coming
\* was handled or cut off, and but for Bluesky's marker's own tick nothing comes
\* again from behind a stored marker, withdrawn or not.
THEOREM ImplementsInbox == BlueskyGivesTimes => (Spec => KeepsInbox)
<1> SUFFICES ASSUME BlueskyGivesTimes PROVE Spec => KeepsInbox
  OBVIOUS
<1>1. Init => Inbox!Init
  BY DEF Init, Inbox!Init, NotComing, Behind
<1>2. Init => ReadToItsTick
  BY DEF Init, ReadToItsTick
<1>3. TypeOK /\ ReadToItsTick /\ [Next]_vars => ReadToItsTick'
  BY ReadToItsTickKeeps
<1>4. IInv /\ IInv' /\ ReadToItsTick /\ [Next]_vars => [Inbox!Next]_(Inbox!vars)
  BY StepOfInbox
<1>5. Spec => []IInv
  BY Invariance
<1> QED
  BY <1>1, <1>2, <1>3, <1>4, <1>5, Typing, PTL DEF Spec, KeepsInbox, Inbox!Spec
=============================================================================
