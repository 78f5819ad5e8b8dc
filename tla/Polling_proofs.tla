--------------------------- MODULE Polling_proofs ---------------------------
(***************************************************************************)
(* Proofs about Polling, for every set of updates with any times, broken   *)
(* or not, every page size and any number of misfortunes.                  *)
(***************************************************************************)
EXTENDS Polling, TLAPS

USE PollingAssumption

\* What the marker may rely on: a round's updates are new to it, the ones it
\* no longer has to hand on are handled, and a restart only takes it back.
Times ==
  /\ listed \subseteq Updates
  /\ since \in Nat /\ saved \in Nat /\ saved <= since
RoundInv ==
  /\ new \subseteq listed /\ todo \subseteq new
  /\ new \ todo \subseteq handled
  /\ pc = "deliver" => \A u \in new : IsNew(u)
  /\ pc # "deliver" => todo = {}

PollInv == Times /\ RoundInv /\ NothingSkipped

\* Every step keeps PollInv, and with it the marker behind what is unhandled.
LEMMA PollStep ==
  ASSUME PollInv, [Next]_vars
  PROVE  PollInv'
<1> USE DEF PollInv, Times, RoundInv, NothingSkipped, IsNew
<1>1. CASE UNCHANGED vars
  BY <1>1 DEF vars
<1>2. ASSUME NEW u \in Updates, Appear(u) PROVE PollInv'
  <2>1. CreatedAt[u] \in Nat \ {0}
    OBVIOUS
  <2>2. QED
    BY <1>2, <2>1 DEF Appear, round
<1>3. CASE Fetch
  <2>1. PICK page \in Pages : new' = {u \in page : IsNew(u)}
    BY <1>3 DEF Fetch
  <2>2. page \subseteq listed
    BY DEF Pages
  <2>3. QED
    BY <1>3, <2>1, <2>2 DEF Fetch
<1>4. ASSUME NEW u \in Updates, Deliver(u) PROVE PollInv'
  BY <1>4 DEF Deliver
<1>5. CASE FailRound
  BY <1>5 DEF FailRound, EndRound
<1>6. CASE MoveMarker
  <2>1. PICK last \in new :
          /\ since' = CreatedAt[last]
          /\ hidden' = hidden \cup
               {u \in listed \ new : IsNew(u) /\ CreatedAt[u] <= CreatedAt[last]}
    BY <1>6 DEF MoveMarker
  <2>2. /\ listed' = listed /\ saved' = saved /\ new' = new /\ todo' = todo
        /\ handled' = handled /\ pc = "deliver" /\ pc' = "save" /\ todo = {}
    BY <1>6 DEF MoveMarker, AllHandedOn
  <2>3. \A u \in listed : CreatedAt[u] \in Nat \ {0}
    OBVIOUS
  <2>4. IsNew(last) /\ CreatedAt[last] \in Nat /\ since <= CreatedAt[last]
    BY <2>2, <2>3
  <2>5. Times'
    BY <2>1, <2>2, <2>4
  <2>6. RoundInv'
    BY <2>2
  <2>7. ASSUME NEW u \in listed, CreatedAt[u] <= CreatedAt[last]
        PROVE  u \in handled \cup hidden'
    <3>1. CASE u \in new
      BY <2>2, <3>1
    <3>2. CASE u \notin new /\ IsNew(u)
      BY <2>1, <2>7, <3>2
    <3>3. CASE ~IsNew(u)
      <4>1. CreatedAt[u] <= since
        BY <2>3, <3>3
      <4>2. QED
        BY <2>1, <4>1
    <3>4. QED
      BY <3>1, <3>2, <3>3
  <2>8. NothingSkipped'
    BY <2>1, <2>2, <2>7
  <2>9. QED
    BY <2>5, <2>6, <2>8
<1>7. CASE SaveMarker
  BY <1>7 DEF SaveMarker, EndRound
<1>8. CASE Restart
  <2>1. /\ since' = saved /\ saved' = saved /\ listed' = listed /\ handled' = handled
        /\ hidden' = hidden /\ new' = {} /\ todo' = {} /\ pc' = "idle"
    BY <1>8 DEF Restart, Resumed, EndRound
  <2>2. \A u \in listed : CreatedAt[u] \in Nat
    OBVIOUS
  <2>3. \A u \in listed : CreatedAt[u] <= saved => CreatedAt[u] <= since
    BY <2>2
  <2>4. QED
    BY <2>1, <2>3
<1>9. QED
  BY <1>1, <1>2, <1>3, <1>4, <1>5, <1>6, <1>7, <1>8 DEF Next, Round

\* Neither the marker in memory nor the one written down ever passes an update
\* that was shown and not handled: `check_once` moves it last.
THEOREM MarkerSkipsNothing == Spec => []NothingSkipped
<1>1. Init => PollInv
  BY DEF Init, PollInv, Times, RoundInv, NothingSkipped
<1>2. PollInv /\ [Next]_vars => PollInv'
  BY PollStep
<1>3. PollInv => NothingSkipped
  BY DEF PollInv
<1>4. QED
  BY <1>1, <1>2, <1>3, PTL DEF Spec

\* The types hold throughout; in particular a restart never finds a marker
\* ahead of the one in memory.
THEOREM Typing == Spec => []TypeOK
<1>1. Init => TypeOK
  BY DEF Init, TypeOK
<1>2. TypeOK /\ PollInv /\ PollInv' /\ [Next]_vars => TypeOK'
  <2> SUFFICES ASSUME TypeOK, PollInv, PollInv', [Next]_vars PROVE TypeOK'
    OBVIOUS
  <2> USE DEF TypeOK, PollInv, Times, RoundInv
  <2>1. CASE UNCHANGED vars
    BY <2>1 DEF vars
  <2>2. CASE \E u \in Updates : Appear(u) \/ Deliver(u)
    BY <2>2 DEF Appear, Deliver, NextUp, round
  <2>3. CASE Fetch
    BY <2>3 DEF Fetch
  <2>4. CASE FailRound \/ SaveMarker \/ Restart
    BY <2>4 DEF FailRound, SaveMarker, Restart, Resumed, EndRound, Misfortune
  <2>5. CASE MoveMarker
    <3>1. since' \in {CreatedAt[u] : u \in Updates} /\ hidden' \subseteq listed
      BY <2>5 DEF MoveMarker
    <3>2. QED
      BY <2>5, <3>1 DEF MoveMarker
  <2>6. QED
    BY <2>1, <2>2, <2>3, <2>4, <2>5 DEF Next, Round
<1>3. Init => PollInv
  BY DEF Init, PollInv, Times, RoundInv, NothingSkipped
<1>4. PollInv /\ [Next]_vars => PollInv'
  BY PollStep
<1>5. QED
  BY <1>1, <1>2, <1>3, <1>4, PTL DEF Spec

\* What a handler gets for the first time is older than all the round still
\* has to hand on, since nothing newer was handed on before it.
THEOREM InTheOrderItHappened == Spec => OldestFirst
<1> DEFINE InOrder == \A u \in handled' \ handled : \A v \in new :
                        CreatedAt[v] < CreatedAt[u] => v \in handled
<1>1. PollInv /\ [Next]_vars => [InOrder]_vars
  <2> SUFFICES ASSUME PollInv, [Next]_vars, handled' # handled PROVE InOrder
    BY DEF vars
  <2>1. PICK d \in Updates : Deliver(d)
    BY DEF Next, Round, vars, Appear, Fetch, FailRound, MoveMarker, SaveMarker, Restart
  <2>2. /\ handled' = handled \cup {d}
        /\ d \in todo
        /\ \A v \in todo : CreatedAt[d] <= CreatedAt[v]
    BY <2>1 DEF Deliver, NextUp
  <2>3. new \subseteq Updates /\ new \ todo \subseteq handled
    BY DEF PollInv, Times, RoundInv
  <2>4. ASSUME NEW v \in new, CreatedAt[v] < CreatedAt[d]
        PROVE  v \notin todo
    <3>1. CreatedAt[v] \in Nat /\ CreatedAt[d] \in Nat
      BY <2>3
    <3>2. QED
      BY <2>2, <2>4, <3>1
  <2>5. QED
    BY <2>2, <2>3, <2>4
<1>2. Init => PollInv
  BY DEF Init, PollInv, Times, RoundInv, NothingSkipped
<1>3. PollInv /\ [Next]_vars => PollInv'
  BY PollStep
<1>4. QED
  BY <1>1, <1>2, <1>3, PTL DEF Spec, OldestFirst

-----------------------------------------------------------------------------
\* The three kinds of step Inbox has, in Polling's words: a fetch gives the app
\* only what is newer than the marker, `deliver` handles one update of these,
\* and all else takes nothing away but what was handled or hidden.
LEMMA StepOfInbox ==
  ASSUME PollInv, PollInv', [Next]_vars
  PROVE  [Inbox!Next]_(Inbox!vars)
<1> DEFINE over == {u \in listed : CreatedAt[u] <= since}
<1>1. over' \subseteq handled' \cup hidden'
  BY DEF PollInv, NothingSkipped
<1>2. ASSUME handled' = handled, todo' \subseteq todo, hidden \subseteq hidden'
      PROVE  Inbox!MoveOn
  BY <1>1, <1>2 DEF Inbox!MoveOn
<1>3. ASSUME NEW u \in Updates, Deliver(u) PROVE Inbox!Handle(u)
  BY <1>3 DEF Deliver, NextUp, Inbox!Handle
<1>4. CASE Fetch
  <2>1. /\ UNCHANGED <<listed, since, handled, hidden>> /\ todo' = new' /\ pc' = "deliver"
    BY <1>4 DEF Fetch
  <2>2. /\ todo' \subseteq listed /\ listed \subseteq Updates
        /\ \A u \in todo' : IsNew(u)
    <3>1. \A u \in new' : IsNew(u)' /\ u \in listed'
      BY <2>1 DEF PollInv, RoundInv
    <3> QED
      BY <2>1, <3>1 DEF IsNew, PollInv, Times
  <2>3. \A u \in todo' : ~(CreatedAt[u] <= since)
    <3>1. \A u \in listed : CreatedAt[u] \in Nat \ {0}
      BY DEF PollInv, Times
    <3> QED
      BY <2>2, <3>1 DEF IsNew, PollInv, Times
  <2>4. todo \subseteq todo'
    <3>1. todo = {}
      BY <1>4 DEF Fetch, PollInv, RoundInv
    <3> QED
      BY <3>1
  <2>5. Inbox!Give
    BY <2>1, <2>2, <2>3, <2>4 DEF Inbox!Give
  <2> QED
    BY <2>5 DEF Inbox!Next
<1>5. ASSUME NEW u \in Updates, Appear(u) PROVE Inbox!MoveOn
  BY <1>2, <1>5 DEF Appear, round
<1>6. CASE FailRound \/ SaveMarker \/ Restart
  <2>1. Inbox!MoveOn
    BY <1>2, <1>6 DEF FailRound, SaveMarker, Restart, EndRound
  <2> QED
    BY <2>1 DEF Inbox!Next
<1>7. CASE MoveMarker
  <2>1. Inbox!MoveOn
    BY <1>2, <1>7 DEF MoveMarker
  <2> QED
    BY <2>1 DEF Inbox!Next
<1>8. CASE UNCHANGED vars
  BY <1>8 DEF vars, Inbox!vars
<1> QED
  BY <1>3, <1>4, <1>5, <1>6, <1>7, <1>8 DEF Next, Round, Inbox!Next

\* The Poller keeps what Inbox promises, for any updates and any misfortunes:
\* what its marker has passed was handled or hidden, and is not given again.
THEOREM ImplementsInbox == Spec => KeepsInbox
<1>1. Init => Inbox!Init
  BY DEF Init, Inbox!Init
<1>2. Init => PollInv
  BY DEF Init, PollInv, Times, RoundInv, NothingSkipped
<1>3. PollInv /\ [Next]_vars => PollInv'
  BY PollStep
<1>4. PollInv /\ PollInv' /\ [Next]_vars => [Inbox!Next]_(Inbox!vars)
  BY StepOfInbox
<1>5. QED
  BY <1>1, <1>2, <1>3, <1>4, PTL DEF Spec, KeepsInbox, Inbox!Spec
=============================================================================
