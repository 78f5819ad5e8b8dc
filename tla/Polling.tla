------------------------------ MODULE Polling ------------------------------
(***************************************************************************)
(* events.Poller: on a timer it asks a network what it has, hands on what  *)
(* is newer than its marker, oldest first, and then moves the marker and   *)
(* has the app write it down.  A round that fails is logged and the next   *)
(* one tries again; a restart begins at the marker that was written down.  *)
(***************************************************************************)
EXTENDS Naturals, FiniteSets

CONSTANTS
  Updates,    \* what happens on the account
  CreatedAt,  \* Update.created_at, a positive number of ticks
  Broken,     \* updates `deliver` raises on every time
  PageSize,   \* how many of the newest updates one fetch lists
  MaxFaults   \* bound: misfortunes in one behaviour

ASSUME PollingAssumption ==
  /\ CreatedAt \in [Updates -> Nat \ {0}]
  /\ Broken \subseteq Updates
  /\ PageSize \in Nat \ {0}
  /\ MaxFaults \in Nat

VARIABLES
  listed,   \* what the network has to show
  since,    \* Poller._since; 0 is None
  saved,    \* the marker the app wrote down
  pc,       \* where the round is
  new,      \* the updates of this round
  todo,     \* those of them not handed on yet
  faults,   \* misfortunes so far
  handled,  \* history: updates `deliver` got through
  hidden    \* history: updates no fetch showed while they were new

vars == <<listed, since, saved, pc, new, todo, faults, handled, hidden>>
round == <<pc, new, todo>>

Misfortune == faults < MaxFaults /\ faults' = faults + 1

\* The network shows the PageSize newest, of equally new ones any.
Pages ==
  {P \in SUBSET listed :
     /\ Cardinality(P) <= PageSize
     /\ \A u \in listed \ P :
          Cardinality(P) = PageSize /\ \A v \in P : CreatedAt[v] >= CreatedAt[u]}

\* Poller._is_new.
IsNew_OrAsNew(u) == since = 0 \/ CreatedAt[u] >= since
IsNew(u) == since = 0 \/ CreatedAt[u] > since

EndRound == pc' = "idle" /\ new' = {} /\ todo' = {}

-----------------------------------------------------------------------------
Init ==
  /\ listed = {}
  /\ since = 0 /\ saved = 0
  /\ pc = "idle" /\ new = {} /\ todo = {}
  /\ faults = 0
  /\ handled = {} /\ hidden = {}

\* Something happens, or a network that is behind shows it only now.
Appear(u) ==
  /\ u \notin listed
  /\ listed' = listed \cup {u}
  /\ hidden' = IF IsNew(u) THEN hidden ELSE hidden \cup {u}
  /\ UNCHANGED <<since, saved, round, faults, handled>>

\* check_once: fetch, and what of it is new.
Fetch ==
  /\ pc = "idle"
  /\ \E page \in Pages : new' = {u \in page : IsNew(u)}
  /\ new' # {}
  /\ todo' = new'
  /\ pc' = "deliver"
  /\ UNCHANGED <<listed, since, saved, faults, handled, hidden>>

\* sorted(new, key=created_at).
NextUp_AnyOrder == todo
NextUp == {u \in todo : \A v \in todo : CreatedAt[u] <= CreatedAt[v]}

Deliver(u) ==
  /\ pc = "deliver"
  /\ u \in NextUp \ Broken
  /\ handled' = handled \cup {u}
  /\ todo' = todo \ {u}
  /\ UNCHANGED <<listed, since, saved, pc, new, faults, hidden>>

\* `fetch` or `deliver` raises: run_forever logs it, and the marker stays.
FailRound ==
  /\ \/ pc # "save" /\ Misfortune
     \/ /\ pc = "deliver" /\ NextUp \cap Broken # {}
        /\ UNCHANGED faults
  /\ EndRound
  /\ UNCHANGED <<listed, since, saved, handled, hidden>>

\* What has to be over before the marker may move.
AllHandedOn_FirstIsEnough == todo # new
AllHandedOn == todo = {}

\* new[-1]: the marker moves to its time, in memory first.
MoveMarker ==
  /\ pc = "deliver"
  /\ AllHandedOn
  /\ \E last \in new :
       /\ \A v \in new : CreatedAt[v] <= CreatedAt[last]
       /\ since' = CreatedAt[last]
       /\ hidden' = hidden \cup
            {u \in listed \ new : IsNew(u) /\ CreatedAt[u] <= CreatedAt[last]}
  /\ pc' = "save"
  /\ UNCHANGED <<listed, saved, new, todo, faults, handled>>

\* save_marker, which may raise: the round failed, and the marker has moved.
SaveMarker ==
  /\ pc = "save"
  /\ \/ saved' = since /\ UNCHANGED faults
     \/ UNCHANGED saved /\ Misfortune
  /\ EndRound
  /\ UNCHANGED <<listed, since, handled, hidden>>

\* The `since` a new process gives its Poller.
Resumed == saved

Restart ==
  /\ Misfortune
  /\ since' = Resumed
  /\ EndRound
  /\ UNCHANGED <<listed, saved, handled, hidden>>

-----------------------------------------------------------------------------
Round ==
  \/ Fetch \/ MoveMarker \/ SaveMarker \/ FailRound
  \/ \E u \in Updates : Deliver(u)

Next == Round \/ Restart \/ \E u \in Updates : Appear(u)

Spec == Init /\ [][Next]_vars

\* run_forever goes on for as long as the process lives.
FairSpec == Spec /\ WF_vars(Round)

-----------------------------------------------------------------------------
TypeOK ==
  /\ listed \subseteq Updates
  /\ {since, saved} \subseteq {0} \cup {CreatedAt[u] : u \in Updates}
  /\ saved <= since
  /\ pc \in {"idle", "deliver", "save"}
  /\ new \subseteq listed
  /\ todo \subseteq new
  /\ faults \in 0..MaxFaults
  /\ handled \subseteq listed
  /\ hidden \subseteq listed

\* "So nothing is skipped over" (run_forever): whatever fails or restarts,
\* neither marker is past an update the app has not handled, unless the
\* network did not show that update while it was new.
NothingSkipped ==
  \A u \in listed : CreatedAt[u] <= since => u \in handled \cup hidden

\* Handlers see things in the order they happened (check_once), failed and
\* repeated rounds included.
OldestFirst ==
  [][\A u \in handled' \ handled : \A v \in new :
       CreatedAt[v] < CreatedAt[u] => v \in handled]_vars

\* A failed round is only a delay: what no older broken update blocks and the
\* network shows gets to the handlers.
Blocked(u) == \E b \in Broken : CreatedAt[b] <= CreatedAt[u]
PushedOut(u) ==
  Cardinality({v \in listed \ {u} : CreatedAt[v] >= CreatedAt[u]}) >= PageSize
HandledInTheEnd ==
  \A u \in Updates : ~Blocked(u) =>
    (u \in listed ~> u \in handled \cup hidden \/ PushedOut(u))

\* What run_forever promises the app is what Inbox says: of a round's updates,
\* of what is not newer than the marker in memory, and of what the network hid.
Inbox == INSTANCE Inbox WITH
  given <- todo, over <- {u \in listed : CreatedAt[u] <= since}, missed <- hidden
KeepsInbox == Inbox!Spec
=============================================================================
