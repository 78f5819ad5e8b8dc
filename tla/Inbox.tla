-------------------------------- MODULE Inbox --------------------------------
(***************************************************************************)
(* What every way of getting updates promises the app, whether a network   *)
(* pushes them (Delivery), a timer asks for the newest (Polling) or the    *)
(* app for what came after a marker (UpdatesAfter): at least once.  An     *)
(* update that is not coming any more was handled before, or missed for a  *)
(* cause; and what is not coming any more is not given to the app again.   *)
(* What came to nothing - a handler that raised, a lost answer, a marker   *)
(* that could not be saved, a restart - may come again.                    *)
(***************************************************************************)
CONSTANT Updates

VARIABLES
  given,    \* updates the app has been given and has still to handle
  handled,  \* those it got through
  over,     \* those that, as things stand, are not coming any more
  missed    \* those that may be passed over, for a cause the component names

vars == <<given, handled, over, missed>>

Init == given = {} /\ handled = {} /\ over = {} /\ missed = {}

\* A message arrives, a page is read.
Give ==
  /\ given \subseteq given' /\ given' \subseteq Updates
  /\ given' \cap over \subseteq given
  /\ missed \subseteq missed'
  /\ UNCHANGED <<handled, over>>

\* One at a time, and nothing else is decided with it.
Handle(u) ==
  /\ u \in given
  /\ handled' = handled \cup {u}
  /\ given' \in {given, given \ {u}}
  /\ UNCHANGED <<over, missed>>

\* The network is answered, a marker moves, is saved or falls back; a round or
\* a request ends, well or not.
MoveOn ==
  /\ given' \subseteq given
  /\ missed \subseteq missed'
  /\ over' \subseteq over \cup handled \cup missed'
  /\ UNCHANGED handled

Next == Give \/ (\E u \in Updates : Handle(u)) \/ MoveOn

Spec == Init /\ [][Next]_vars
=============================================================================
