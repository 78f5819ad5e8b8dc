------------------------------- MODULE SignIn -------------------------------
(***************************************************************************)
(* Signing in through Routes: start, finish and choose are requests of     *)
(* their own, which find each other by notes in a LoginMemory, filed under *)
(* the state of the sign-in.  Each awaits the memory, the network and the  *)
(* storage in turn, and another one may run in between.  What requests the *)
(* networks are sent for it is in Calls.                                   *)
(***************************************************************************)
EXTENDS Naturals, Sequences

CONSTANTS
  SignIns,    \* what is started, one each time: a person connecting an account
  States,     \* what an app gives as state
  Slots,      \* requests that may be served at once
  Flows,      \* how networks sign in: [secret, asks, once]
  Sizes,      \* what apps give as max_size
  MaxFaults   \* bound: misfortunes of one behaviour

\* secret: what start hands back for finish (a code verifier) is compared by the
\* network; asks: it offers accounts to choose from; once: what the person
\* comes back with is a code, good for one exchange, not a name and a password.
ASSUME SignInAssumption ==
  /\ Flows \subseteq [secret : BOOLEAN, asks : BOOLEAN, once : BOOLEAN]
  /\ Sizes \subseteq Nat \ {0}
  /\ MaxFaults \in Nat

VARIABLES
  flow, stateOf,  \* the network of a sign-in, and its state
  size, durable,  \* the memory: how much it holds, whether it outlives the app
  notes,      \* the memory: what is filed under each state, [by, token]
  order,      \* the states something is filed under, oldest first
  request,    \* the requests being served: [of, does, at, kept]
  started,    \* sign-ins that were started
  spent,      \* sign-ins whose code was exchanged, or is void
  store,      \* sign-ins whose connection is saved
  came,       \* sign-ins whose person came back
  told,       \* what each person was answered
  lost,       \* history: states whose notes were dropped, or a restart lost
  befell,     \* history: <<misfortune, sign-in>>
  faults

setup == <<flow, stateOf, size, durable>>
history == <<lost, befell, faults>>
memory == <<notes, order>>
vars == <<setup, memory, request, started, spent, store, came, told, history>>

Nobody == "nobody"    \* no token in these notes

\* What start has kept: the host and what the network wants remembered, which
\* are those of this sign-in; and no resume_token yet.
NotesOf(s) == [by |-> s, token |-> Nobody]
Nothing == NotesOf(Nobody)
Idle == [of |-> Nobody, does |-> "nothing", at |-> "idle", kept |-> Nothing]

ASSUME NobodyAssumption == Nobody \notin SignIns

-----------------------------------------------------------------------------
\* InMemoryLoginMemory: what is filed again keeps its place.
Filed(state) == notes[state] # Nothing
LookUp(state) == notes[state]
Keep(state, data) ==
  LET put == IF Filed(state) THEN order ELSE Append(order, state)
      kept == [notes EXCEPT ![state] = data]
  IN  IF Len(put) > size
      THEN /\ notes' = [kept EXCEPT ![Head(put)] = Nothing]
           /\ order' = Tail(put)
           /\ lost' = lost \cup {Head(put)}
      ELSE /\ notes' = kept /\ order' = put
           /\ UNCHANGED lost
Forget(state) ==
  /\ notes' = [notes EXCEPT ![state] = Nothing]
  /\ order' = SelectSeq(order, LAMBDA other : other # state)

-----------------------------------------------------------------------------
Init ==
  /\ flow \in [SignIns -> Flows]
  /\ stateOf \in [SignIns -> States]
  /\ size \in Sizes
  /\ durable \in BOOLEAN
  /\ notes = [state \in States |-> Nothing] /\ order = <<>>
  /\ request = [r \in Slots |-> Idle]
  /\ started = {} /\ spent = {} /\ store = {} /\ came = {}
  /\ told = [s \in SignIns |-> {}]
  /\ lost = {} /\ befell = {} /\ faults = 0

Misfortune(what, s) ==
  /\ faults < MaxFaults
  /\ faults' = faults + 1
  /\ befell' = befell \cup {<<what, s>>}
Fine == UNCHANGED <<befell, faults>>

\* Routes.start: the platform says where to send the person, and the notes are
\* kept before they are sent there; what was filed under that state is gone.
Start(s) ==
  /\ s \notin started
  /\ started' = started \cup {s}
  /\ Keep(stateOf[s], NotesOf(s))
  /\ UNCHANGED <<setup, request, spent, store, came, told, befell, faults>>

\* The person comes back, or chose an account; or a browser, or somebody with
\* no patience, sends the same again.
Arrive(r, s, does) ==
  /\ request[r].at = "idle"
  /\ \/ /\ does = "finish" /\ s \in started \ came
        /\ came' = came \cup {s} /\ Fine
     \/ /\ does = "finish" /\ s \in came
        /\ Misfortune("again", s) /\ UNCHANGED came
     \/ /\ does = "choose" /\ "choose_account" \in told[s] /\ "connected" \notin told[s]
        /\ \A q \in Slots : request[q].of # s
        /\ Fine /\ UNCHANGED came
     \/ /\ does = "choose" /\ "choose_account" \in told[s]
        /\ Misfortune("again", s) /\ UNCHANGED came
  /\ request' = [request EXCEPT ![r] = [of |-> s, does |-> does, at |-> "look_up",
                                       kept |-> Nothing]]
  /\ UNCHANGED <<setup, memory, started, spent, store, told, lost>>

Serving(r, at) == request[r].at = at
Of(r) == request[r].of
Kept(r) == request[r].kept
GoOn(r, at) == request' = [request EXCEPT ![r].at = at]
Answer(r, what) ==
  /\ request' = [request EXCEPT ![r] = Idle]
  /\ told' = [told EXCEPT ![Of(r)] = @ \cup {what}]

FindNotes(r) ==
  /\ Serving(r, "look_up")
  /\ LET state == stateOf[Of(r)] IN
       IF ~Filed(state) THEN Answer(r, "unknown_state")
       ELSE IF request[r].does = "choose" /\ LookUp(state).token = Nobody
       THEN Answer(r, "nothing_to_choose")
       ELSE /\ request' = [request EXCEPT ![r].kept = LookUp(state), ![r].at = "call"]
            /\ UNCHANGED told
  /\ UNCHANGED <<setup, memory, started, spent, store, came, history>>

\* What is done when the platform says Finished.
Ending_ForgetFirst == <<"forget", "save">>
Ending == <<"save", "forget">>

\* finish_login: the code is exchanged, with what was remembered.
Accepts(r) ==
  /\ flow[Of(r)].once => Of(r) \notin spent
  /\ flow[Of(r)].secret => Kept(r).by = Of(r)
FinishLogin(r) ==
  /\ Serving(r, "call") /\ request[r].does = "finish"
  /\ Accepts(r)
  /\ spent' = spent \cup {Of(r)}
  /\ GoOn(r, IF flow[Of(r)].asks THEN "keep" ELSE Ending[1])
  /\ UNCHANGED <<setup, memory, started, store, came, told, history>>

\* A network turns down a code that was used, or has another secret; that one
\* may be void from then on.
BeRefused(r) ==
  /\ Serving(r, "call") /\ request[r].does = "finish"
  /\ ~Accepts(r)
  /\ spent' \in {spent, spent \cup {Of(r)}}
  /\ Answer(r, "refused")
  /\ UNCHANGED <<setup, memory, started, store, came, history>>

\* choose: the connection is made of the tokens the notes hold.
ResumeLogin(r) ==
  /\ Serving(r, "call") /\ request[r].does = "choose"
  /\ GoOn(r, Ending[1])
  /\ UNCHANGED <<setup, memory, started, spent, store, came, told, history>>

\* The network is in trouble, before or after it has taken the code.
Fail(r) ==
  /\ Serving(r, "call")
  /\ Misfortune("trouble", Of(r))
  /\ spent' \in {spent, spent \cup IF request[r].does = "finish" THEN {Of(r)} ELSE {}}
  /\ Answer(r, "error")
  /\ UNCHANGED <<setup, memory, started, store, came, lost>>

\* ChooseAccount: what was kept, with the token.
WithToken_Dropped(kept, s) == kept
WithToken(kept, s) == [kept EXCEPT !.token = s]
OfferAccounts(r) ==
  /\ Serving(r, "keep")
  /\ Keep(stateOf[Of(r)], WithToken(Kept(r), Of(r)))
  /\ Answer(r, "choose_account")
  /\ UNCHANGED <<setup, started, spent, store, came, befell, faults>>

\* _save_if_finished.
Finished(r) == IF request[r].does = "choose" THEN Kept(r).token ELSE Of(r)
SavedWith_OnlyByFinish(r) == IF request[r].does = "choose" THEN {} ELSE {Finished(r)}
SavedWith(r) == {Finished(r)}
After(r, done) ==
  IF Ending[Len(Ending)] = done THEN Answer(r, "connected")
  ELSE GoOn(r, Ending[Len(Ending)]) /\ UNCHANGED told

Save(r) ==
  /\ Serving(r, "save")
  /\ store' = store \cup SavedWith(r)
  /\ After(r, "save")
  /\ UNCHANGED <<setup, memory, started, spent, came, history>>

FailToSave(r) ==
  /\ Serving(r, "save")
  /\ Misfortune("trouble", Of(r))
  /\ Answer(r, "error")
  /\ UNCHANGED <<setup, memory, started, spent, store, came, lost>>

ForgetNotes(r) ==
  /\ Serving(r, "forget")
  /\ Forget(stateOf[Of(r)])
  /\ After(r, "forget")
  /\ UNCHANGED <<setup, started, spent, store, came, history>>

\* The app restarts: requests end where they are, and notes go with it unless
\* they are kept somewhere else.
Restart ==
  /\ Misfortune("restart", Nobody)
  /\ request' = [r \in Slots |-> Idle]
  /\ IF durable THEN UNCHANGED <<memory, lost>>
     ELSE /\ notes' = [state \in States |-> Nothing] /\ order' = <<>>
          /\ lost' = lost \cup {stateOf[s] : s \in started}
  /\ UNCHANGED <<setup, started, spent, store, came, told>>

Serve(r) ==
  \/ FindNotes(r) \/ FinishLogin(r) \/ BeRefused(r) \/ ResumeLogin(r) \/ Fail(r)
  \/ OfferAccounts(r) \/ Save(r) \/ FailToSave(r) \/ ForgetNotes(r)
Next ==
  \/ \E s \in SignIns : Start(s)
  \/ \E r \in Slots, s \in SignIns, does \in {"finish", "choose"} : Arrive(r, s, does)
  \/ \E r \in Slots : Serve(r)
  \/ Restart

Spec == Init /\ [][Next]_vars

-----------------------------------------------------------------------------
Notes == [by : started \cup {Nobody}, token : came \cup {Nobody}]
Answers == {"unknown_state", "nothing_to_choose", "refused", "error", "choose_account",
            "connected"}
TypeOK ==
  /\ flow \in [SignIns -> Flows] /\ stateOf \in [SignIns -> States]
  /\ notes \in [States -> Notes]
  /\ request \in [Slots -> [of : came \cup {Nobody}, does : {"nothing", "finish", "choose"},
                            at : {"idle", "look_up", "call", "keep", "save", "forget"},
                            kept : Notes]]
  /\ started \subseteq SignIns /\ came \subseteq started
  /\ spent \subseteq came /\ store \subseteq came
  /\ told \in [SignIns -> SUBSET Answers]
  /\ \A s \in SignIns : told[s] # {} => s \in came

\* An app may give two sign-ins one state: somebody with two tabs open, when it
\* is the id of the person.
Alone(s) == \A t \in started : stateOf[t] = stateOf[s] => t = s

\* Whoever is told that the account is connected has its connection stored: of
\* the account of this sign-in, if the state was its own (_save_if_finished,
\* the order of saving and forgetting in _next).
ConnectedIsSaved ==
  \A s \in SignIns : ("connected" \in told[s] /\ Alone(s)) => s \in store

TurnedAway(s) == told[s] \cap {"unknown_state", "nothing_to_choose", "refused"} # {}
Caused(s) ==
  \/ stateOf[s] \in lost
  \/ \E what \in {"again", "trouble"} : <<what, s>> \in befell
  \/ <<"restart", Nobody>> \in befell
\* Nobody is turned away but for a reason: the notes were dropped or lost, the
\* same came twice, the network or the storage was in trouble or a restart cut
\* it short, or another sign-in went by the same state.
TurnedAwayForACause == \A s \in SignIns : (TurnedAway(s) /\ Alone(s)) => Caused(s)

\* A sign-in that is not over can go on: until its connection is saved its notes
\* are there, with the token of the accounts it was offered, whatever failed;
\* unless the memory dropped them or another sign-in overwrote them.
NotesWait ==
  \A s \in started \ store :
    (Alone(s) /\ stateOf[s] \notin lost) =>
      /\ Filed(stateOf[s]) /\ LookUp(stateOf[s]).by = s
      /\ "choose_account" \in told[s] => LookUp(stateOf[s]).token = s
=============================================================================
