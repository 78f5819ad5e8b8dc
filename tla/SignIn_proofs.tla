---------------------------- MODULE SignIn_proofs ---------------------------
(***************************************************************************)
(* Proofs about SignIn, for people, states, requests and misfortunes of    *)
(* any number, and a memory of any size.                                   *)
(***************************************************************************)
EXTENDS SignIn, TLAPS

\* Notes filed under a state are of sign-ins that go by it, and a token in them
\* is of one whose person came back.
Fit(n, state) ==
  \/ n = Nothing
  \/ /\ n.by \in started /\ stateOf[n.by] = state
     /\ n.token # Nobody => n.token \in came /\ stateOf[n.token] = state

\* That notes held now fit after the step.
FitsOn(n, state) ==
  \/ n = Nothing
  \/ /\ n.by \in started' /\ stateOf'[n.by] = state
     /\ n.token # Nobody => n.token \in came' /\ stateOf'[n.token] = state

\* What a request holds and has seen done, by where it is.
RequestFits(r) ==
  \/ request[r] = Idle
  \/ /\ Of(r) \in came
     /\ ~Serving(r, "idle") /\ request[r].does # "nothing"
     /\ Fit(Kept(r), stateOf[Of(r)])
     /\ ~Serving(r, "look_up") => Kept(r) # Nothing
     /\ request[r].does = "choose" =>
          /\ "choose_account" \in told[Of(r)]
          /\ ~Serving(r, "look_up") => Kept(r).token # Nobody
     /\ (Serving(r, "forget") /\ Alone(Of(r))) => Of(r) \in store

NotesFit == \A state \in States : Fit(notes[state], state)
RequestsFit == \A r \in Slots : RequestFits(r)

\* A sign-in nothing has happened to has one request at a time, which finds its
\* connection not saved and its code not used, until the connection is saved,
\* and after that the person is told so.
Quiet(s) ==
  /\ \A r, q \in Slots : (Of(r) = s /\ Of(q) = s) => r = q
  /\ \A r \in Slots : Of(r) = s =>
       /\ ~Serving(r, "forget") => s \notin store
       /\ (request[r].does = "finish" /\ request[r].at \in {"look_up", "call"}) =>
            s \notin spent
  /\ s \in store =>
       "connected" \in told[s] \/ \E r \in Slots : Of(r) = s /\ Serving(r, "forget")
  /\ ~TurnedAway(s)
Undisturbed == \A s \in SignIns : (Alone(s) /\ ~Caused(s)) => Quiet(s)

IInv ==
  /\ TypeOK /\ NotesFit /\ RequestsFit
  /\ ConnectedIsSaved /\ NotesWait /\ Undisturbed

-----------------------------------------------------------------------------
\* Nothing that is true of a sign-in is taken back.
Grows ==
  /\ UNCHANGED setup
  /\ started \subseteq started' /\ came \subseteq came' /\ store \subseteq store'
  /\ lost \subseteq lost' /\ befell \subseteq befell'
  /\ \A s \in SignIns : told[s] \subseteq told'[s]

\* So a sign-in that is alone was alone before, and one without misfortune had
\* none; and what fits goes on fitting.
LEMMA GrowingKeeps ==
  ASSUME Grows
  PROVE  /\ \A s \in SignIns : Alone(s)' => Alone(s)
         /\ \A s \in SignIns : Caused(s) => Caused(s)'
         /\ \A n, state : Fit(n, state) => FitsOn(n, state)
<1>1. ASSUME NEW s \in SignIns PROVE Alone(s)' => Alone(s)
  BY DEF Grows, setup, Alone
<1>2. ASSUME NEW s \in SignIns PROVE Caused(s) => Caused(s)'
  BY DEF Grows, setup, Caused
<1>3. ASSUME NEW n, NEW state PROVE Fit(n, state) => FitsOn(n, state)
  BY DEF Grows, setup, Fit, FitsOn, Nothing, NotesOf, Nobody
<1> QED
  BY <1>1, <1>2, <1>3

\* A request that is left alone goes on fitting.
LEMMA LeftAlone ==
  ASSUME TypeOK, Grows, NEW r \in Slots, RequestFits(r), request'[r] = request[r]
  PROVE  RequestFits(r)'
<1>1. CASE request[r] = Idle
  BY <1>1 DEF RequestFits, Idle, Nothing, NotesOf, Nobody
<1>2. CASE request[r] # Idle
  <2>1. Of(r) \in came /\ Of(r) \in SignIns /\ Of(r)' = Of(r)
    BY <1>2 DEF RequestFits, TypeOK, Of
  <2>2. Fit(Kept(r), stateOf[Of(r)])' /\ Kept(r)' = Kept(r)
    BY <1>2, <2>1, GrowingKeeps DEF RequestFits, Kept, Grows, setup, Fit, FitsOn, Nothing,
          NotesOf, Nobody
  <2>3. Alone(Of(r))' => Alone(Of(r))
    BY <2>1, GrowingKeeps DEF Alone
  <2> QED
    BY <1>2, <2>1, <2>2, <2>3 DEF RequestFits, Grows, Serving, Nothing, NotesOf, Nobody
<1> QED
  BY <1>1, <1>2

-----------------------------------------------------------------------------
\* The set of notes and of requests grows with the sign-ins.
RequestType ==
  [of : came \cup {Nobody}, does : {"nothing", "finish", "choose"},
   at : {"idle", "look_up", "call", "keep", "save", "forget"}, kept : Notes]
LEMMA TypesGrow ==
  ASSUME Grows
  PROVE  Notes \subseteq Notes' /\ RequestType \subseteq RequestType'
<1>1. Notes \subseteq Notes'
  BY DEF Grows, Notes, Nobody
<1> QED
  BY <1>1 DEF Grows, RequestType, Nobody

\* Keep files the data, and drops the notes of at most one other state.
LEMMA Keeping ==
  ASSUME TypeOK, NotesFit, Grows, NEW state \in States, NEW data \in Notes',
         FitsOn(data, state), Keep(state, data)
  PROVE  /\ notes' \in [States -> Notes'] /\ NotesFit'
         /\ \A other \in States :
              notes'[other] = (IF other = state THEN data ELSE notes[other])
              \/ other \in lost'
<1> DEFINE put == IF Filed(state) THEN order ELSE Append(order, state)
           kept == [notes EXCEPT ![state] = data]
           first == Head(put)
           dropped == [kept EXCEPT ![first] = Nothing]
<1>1. \/ notes' = kept
      \/ notes' = dropped /\ first \in lost'
  BY DEF Keep
<1>2. kept \in [States -> Notes']
  BY TypesGrow DEF TypeOK
<1>3. Nothing \in Notes' /\ \A other : FitsOn(Nothing, other)
  BY DEF Notes, Nothing, NotesOf, Nobody, FitsOn
<1>4. \A other \in States : FitsOn(notes[other], other)
  BY GrowingKeeps DEF NotesFit
<1>7. (\A other \in States : FitsOn(notes'[other], other)) => NotesFit'
  BY DEF NotesFit, Fit, FitsOn, Nothing, NotesOf, Nobody
<1> HIDE DEF put, first
<1>5. CASE notes' = kept
  BY <1>2, <1>4, <1>5, <1>7 DEF TypeOK
<1>6. CASE notes' = dropped /\ first \in lost'
  <2>1. notes' \in [States -> Notes']
    BY <1>2, <1>3, <1>6
  <2>2. \A other \in States :
          notes'[other] = IF other = first THEN Nothing
                          ELSE IF other = state THEN data ELSE notes[other]
    BY <1>6 DEF TypeOK
  <2>3. NotesFit'
    BY <1>3, <1>4, <1>7, <2>2
  <2> QED
    BY <1>6, <2>1, <2>2, <2>3
<1> QED
  BY <1>1, <1>5, <1>6

\* A step of one request.
LEMMA OneRequest ==
  ASSUME TypeOK, RequestsFit, Grows, NEW r \in Slots, NEW next \in RequestType',
         request' = [request EXCEPT ![r] = next], RequestFits(r)'
  PROVE  request' \in [Slots -> RequestType'] /\ RequestsFit'
<1>1. request' \in [Slots -> RequestType']
  BY TypesGrow DEF TypeOK, RequestType
<1>2. ASSUME NEW q \in Slots PROVE RequestFits(q)'
  <2>1. CASE q = r
    BY <2>1
  <2>2. CASE q # r
    <3>1. request'[q] = request[q]
      BY <2>2 DEF TypeOK
    <3> QED
      BY <3>1, LeftAlone DEF RequestsFit
  <2> QED
    BY <2>1, <2>2
<1> QED
  BY <1>1, <1>2 DEF RequestsFit

\* What other sign-ins know of it.
LEMMA Elsewhere ==
  ASSUME TypeOK, Undisturbed, Grows, NEW r \in Slots,
         request' = [request EXCEPT ![r] = request'[r]],
         NEW s \in SignIns, Of(r) # s, Of(r)' # s,
         told'[s] = told[s], s \in store' => s \in store, s \in spent' => s \in spent,
         Alone(s)', ~Caused(s)'
  PROVE  Quiet(s)'
<1>1. Quiet(s)
  BY GrowingKeeps DEF Undisturbed
<1>2. \A q \in Slots : q # r => request'[q] = request[q]
  BY DEF TypeOK
<1>3. \A q \in Slots : Of(q)' = s => q # r /\ request'[q] = request[q] /\ Of(q) = s
  BY <1>2 DEF Of
<1>4. \A q \in Slots : Of(q) = s => q # r /\ request'[q] = request[q] /\ Of(q)' = s
  BY <1>2 DEF Of
<1> QED
  BY <1>1, <1>3, <1>4 DEF Quiet, TurnedAway, Serving

\* And its own sign-in, when the request is answered, and when it goes on.
LEMMA OverHere ==
  ASSUME TypeOK, NEW r \in Slots, Quiet(Of(r)), Of(r) \in SignIns,
         request' = [request EXCEPT ![r] = Idle],
         Of(r) \in store' => "connected" \in told'[Of(r)],
         told'[Of(r)] \cap {"unknown_state", "nothing_to_choose", "refused"} = {},
         NEW s, s = Of(r)
  PROVE  Quiet(s)'
<1>1. s # Nobody
  BY NobodyAssumption
<1>2. request'[r] = Idle /\ \A q \in Slots : q # r => request'[q] = request[q]
  BY DEF TypeOK
<1>3. \A q \in Slots : Of(q)' # s
  BY <1>1, <1>2 DEF Quiet, Of, Idle
<1> QED
  BY <1>3 DEF Quiet, TurnedAway

LEMMA OnHere ==
  ASSUME TypeOK, NEW r \in Slots, Quiet(Of(r)), NEW next \in RequestType',
         request' = [request EXCEPT ![r] = next], next.of = Of(r),
         Of(r) \in store' <=> next.at = "forget",
         (next.does = "finish" /\ next.at \in {"look_up", "call"}) => Of(r) \notin spent',
         told'[Of(r)] = told[Of(r)],
         NEW s, s = Of(r)
  PROVE  Quiet(s)'
<1>2. request'[r] = next /\ \A q \in Slots : q # r => request'[q] = request[q]
  BY DEF TypeOK
<1>3. \A q \in Slots : Of(q)' = s => q = r
  BY <1>2 DEF Quiet, Of
<1>4. Of(r)' = s
  BY <1>2 DEF Of
<1> QED
  BY <1>2, <1>3, <1>4 DEF Quiet, TurnedAway, Serving

\* What a step changes nothing of stays as it was.
LEMMA WaitsOn ==
  ASSUME TypeOK, NotesWait, Grows, UNCHANGED <<notes, started>>,
         \A s \in SignIns : "choose_account" \in told'[s] => "choose_account" \in told[s]
  PROVE  NotesWait'
<1>1. ASSUME NEW s \in started' \ store', Alone(s)', stateOf'[s] \notin lost'
      PROVE  /\ Filed(stateOf[s])' /\ LookUp(stateOf[s])'.by = s
             /\ "choose_account" \in told'[s] => LookUp(stateOf[s])'.token = s
  <2>1. s \in started \ store /\ s \in SignIns /\ stateOf[s] \notin lost /\ Alone(s)
    BY <1>1, GrowingKeeps DEF Grows, setup, TypeOK
  <2> QED
    BY <2>1 DEF NotesWait, Grows, setup, Filed, LookUp, Nothing, NotesOf, Nobody
<1> QED
  BY <1>1 DEF NotesWait

LEMMA SavedStill ==
  ASSUME ConnectedIsSaved, Grows,
         \A s \in SignIns : "connected" \in told'[s] => "connected" \in told[s]
  PROVE  ConnectedIsSaved'
<1>1. ASSUME NEW s \in SignIns, "connected" \in told'[s], Alone(s)' PROVE s \in store'
  BY <1>1, GrowingKeeps DEF ConnectedIsSaved, Grows
<1> QED
  BY <1>1 DEF ConnectedIsSaved

\* Answering adds to what one person was told.
LEMMA Answering ==
  ASSUME TypeOK, NEW r \in Slots, Of(r) \in came, NEW what \in Answers, Answer(r, what)
  PROVE  /\ request' = [request EXCEPT ![r] = Idle] /\ Idle \in RequestType'
         /\ request'[r] = Idle /\ RequestFits(r)'
         /\ told' \in [SignIns -> SUBSET Answers] /\ Of(r) \in SignIns
         /\ told'[Of(r)] = told[Of(r)] \cup {what}
         /\ \A s \in SignIns : s # Of(r) => told'[s] = told[s]
         /\ \A s \in SignIns : told[s] \subseteq told'[s]
<1>1. Of(r) \in SignIns
  BY DEF TypeOK
<1>2. request' = [request EXCEPT ![r] = Idle] /\ request'[r] = Idle
  BY DEF Answer, TypeOK
<1>3. Idle \in RequestType'
  BY DEF Idle, RequestType, Nothing, NotesOf, Nobody, Notes
<1>4. RequestFits(r)'
  BY <1>2 DEF RequestFits, Idle, Nothing, NotesOf, Nobody
<1>5. told' = [told EXCEPT ![Of(r)] = @ \cup {what}]
  BY DEF Answer
<1> QED
  BY <1>1, <1>2, <1>3, <1>4, <1>5 DEF TypeOK

-----------------------------------------------------------------------------
LEMMA InitHolds == Init => IInv
<1> SUFFICES ASSUME Init PROVE IInv
  OBVIOUS
<1>1. TypeOK
  <2>1. Nothing \in Notes
    BY DEF Notes, Nothing, NotesOf, Nobody
  <2> QED
    BY <2>1 DEF Init, TypeOK, Idle
<1>2. NotesFit /\ RequestsFit
  BY DEF Init, NotesFit, Fit, RequestsFit, RequestFits
<1>3. ConnectedIsSaved /\ NotesWait
  BY DEF Init, ConnectedIsSaved, NotesWait
<1>4. Undisturbed
  <2>1. ASSUME NEW s \in SignIns PROVE Quiet(s)
    <3>1. s # Nobody /\ \A r \in Slots : Of(r) = Nobody
      BY NobodyAssumption DEF Init, Of, Idle
    <3> QED
      BY <3>1 DEF Init, Quiet, TurnedAway
  <2> QED
    BY <2>1 DEF Undisturbed
<1> QED
  BY <1>1, <1>2, <1>3, <1>4 DEF IInv

LEMMA StartKeeps ==
  ASSUME NEW s \in SignIns
  PROVE  IInv /\ Start(s) => IInv'
<1> SUFFICES ASSUME IInv, Start(s) PROVE IInv'
  OBVIOUS
<1> USE DEF Start
<1>1. Grows
  BY DEF Grows, Keep
<1>2. /\ notes' \in [States -> Notes'] /\ NotesFit'
      /\ \A other \in States :
           notes'[other] = (IF other = stateOf[s] THEN NotesOf(s) ELSE notes[other])
           \/ other \in lost'
  <2>1. stateOf[s] \in States /\ NotesOf(s) \in Notes' /\ FitsOn(NotesOf(s), stateOf[s])
    BY DEF IInv, TypeOK, NotesOf, Notes, FitsOn, Nobody, setup
  <2> QED
    BY <1>1, <2>1, Keeping DEF IInv
<1>3. TypeOK'
  BY <1>1, <1>2, TypesGrow DEF IInv, TypeOK, setup, RequestType
<1>4. RequestsFit'
  BY <1>1, LeftAlone DEF IInv, RequestsFit
<1>5. ConnectedIsSaved'
  BY <1>1, SavedStill DEF IInv
<1>6. ASSUME NEW t \in started' \ store', Alone(t)', stateOf'[t] \notin lost'
      PROVE  /\ Filed(stateOf[t])' /\ LookUp(stateOf[t])'.by = t
             /\ "choose_account" \in told'[t] => LookUp(stateOf[t])'.token = t
  <2>1. t \in SignIns /\ stateOf' = stateOf /\ stateOf[t] \in States /\ t # Nobody
    BY <1>3, NobodyAssumption DEF TypeOK, setup
  <2>2. CASE t = s
    <3>1. notes'[stateOf[t]] = NotesOf(t)
      BY <1>2, <1>6, <2>1, <2>2
    <3>2. told'[t] = {}
      BY <2>2 DEF IInv, TypeOK
    <3> QED
      BY <2>1, <3>1, <3>2 DEF Filed, LookUp, Nothing, NotesOf
  <2>3. CASE t # s
    <3>1. t \in started \ store /\ Alone(t) /\ stateOf[t] \notin lost
      BY <1>1, <1>6, <2>1, <2>3, GrowingKeeps DEF Grows
    <3>2. stateOf[t] # stateOf[s]
      BY <1>6, <2>1, <2>3 DEF Alone
    <3>3. notes'[stateOf[t]] = notes[stateOf[t]]
      BY <1>2, <1>6, <2>1, <3>2
    <3> QED
      BY <2>1, <3>1, <3>3 DEF IInv, NotesWait, Filed, LookUp, Nothing, NotesOf, Nobody
  <2> QED
    BY <2>2, <2>3
<1>7. NotesWait'
  BY <1>6 DEF NotesWait
<1>8. ASSUME NEW t \in SignIns, Alone(t)', ~Caused(t)' PROVE Quiet(t)'
  <2>1. Quiet(t)
    BY <1>1, <1>8, GrowingKeeps DEF IInv, Undisturbed
  <2> QED
    BY <2>1 DEF Quiet, TurnedAway, Of, Serving
<1> QED
  BY <1>2, <1>3, <1>4, <1>5, <1>7, <1>8 DEF IInv, Undisturbed

LEMMA ArriveKeeps ==
  ASSUME NEW r \in Slots, NEW s \in SignIns, NEW does \in {"finish", "choose"}
  PROVE  IInv /\ Arrive(r, s, does) => IInv'
<1> SUFFICES ASSUME IInv, Arrive(r, s, does) PROVE IInv'
  OBVIOUS
<1> DEFINE next == [of |-> s, does |-> does, at |-> "look_up", kept |-> Nothing]
<1>0. /\ request[r].at = "idle" /\ request' = [request EXCEPT ![r] = next]
      /\ UNCHANGED <<setup, memory, started, spent, store, told, lost>>
  BY DEF Arrive
<1>1. Grows
  BY DEF Arrive, Grows, Misfortune, Fine
<1>2. came' \subseteq started' /\ s \in came' /\ s # Nobody
  BY NobodyAssumption DEF IInv, TypeOK, Arrive
<1>3. next \in RequestType' /\ request'[r] = next
  BY <1>0, <1>2 DEF IInv, TypeOK, RequestType, Nothing, NotesOf, Nobody, Notes
<1>4. RequestFits(r)'
  <2>1. does = "choose" => "choose_account" \in told[s]
    BY DEF Arrive
  <2> QED
    BY <1>0, <1>2, <1>3, <2>1 DEF RequestFits, Of, Kept, Serving, Fit, Nothing, NotesOf, Nobody
<1>5. request' \in [Slots -> RequestType'] /\ RequestsFit'
  BY <1>0, <1>1, <1>3, <1>4, OneRequest DEF IInv
<1>6. TypeOK'
  BY <1>0, <1>1, <1>2, <1>5, TypesGrow DEF IInv, TypeOK, Grows, setup, memory, RequestType
<1>7. NotesFit'
  BY <1>0, <1>1, GrowingKeeps
     DEF IInv, NotesFit, memory, Fit, FitsOn, Nothing, NotesOf, Nobody
<1>8. ConnectedIsSaved' /\ NotesWait'
  BY <1>0, <1>1, SavedStill, WaitsOn DEF IInv, memory
<1>9. Of(r) = Nobody /\ Of(r)' = s
  BY <1>0, <1>3 DEF IInv, RequestsFit, RequestFits, Serving, Idle, Of
<1>10. ASSUME NEW t \in SignIns, Alone(t)', ~Caused(t)' PROVE Quiet(t)'
  <2>1. Quiet(t)
    BY <1>1, <1>10, GrowingKeeps DEF IInv, Undisturbed
  <2>2. CASE t # s
    BY <1>0, <1>1, <1>3, <1>9, <1>10, <2>2, NobodyAssumption, Elsewhere DEF IInv
  <2>3. CASE t = s
    <3>1. ~Misfortune("again", s)
      BY <1>10, <2>3 DEF Caused, Misfortune
    <3>2. /\ \A q \in Slots : Of(q) # s
          /\ s \notin store
          /\ does = "finish" => s \notin spent
      <4>1. CASE s \notin came
        BY <1>2, <4>1 DEF IInv, TypeOK, Of
      <4>2. CASE does = "choose" /\ "connected" \notin told[s]
                 /\ \A q \in Slots : request[q].of # s
        BY <2>1, <2>3, <4>2 DEF Quiet, Of
      <4> QED
        BY <3>1, <4>1, <4>2 DEF Arrive
    <3>3. \A q \in Slots : Of(q)' = s => q = r
      BY <1>0, <3>2 DEF IInv, TypeOK, Of
    <3> QED
      BY <1>0, <1>3, <2>1, <2>3, <3>2, <3>3 DEF Quiet, TurnedAway, Serving
  <2> QED
    BY <2>2, <2>3
<1> QED
  BY <1>5, <1>6, <1>7, <1>8, <1>10 DEF IInv, Undisturbed

\* A request that is being served is of somebody who came back.
LEMMA Served ==
  ASSUME TypeOK, RequestsFit, NEW r \in Slots, ~Serving(r, "idle")
  PROVE  Of(r) \in came /\ Of(r) \in started /\ Of(r) \in SignIns /\ Of(r) # Nobody
<1>1. request[r] # Idle
  BY DEF Serving, Idle
<1>2. Of(r) \in came
  BY <1>1 DEF RequestsFit, RequestFits
<1> QED
  BY <1>2, NobodyAssumption DEF TypeOK

\* A request is answered badly, and nothing else happens: for a cause, or to
\* somebody who shares a state.
LEMMA TurnedDown ==
  ASSUME IInv, NEW r \in Slots, ~Serving(r, "idle"),
         NEW what \in {"unknown_state", "nothing_to_choose", "refused", "error"},
         Answer(r, what),
         UNCHANGED <<setup, memory, started, store, came, lost>>, befell \subseteq befell',
         spent' \subseteq spent \cup {Of(r)},
         NEW person, person = Of(r), Alone(person) => Caused(person)'
  PROVE  IInv'
<1>1. Of(r) \in came /\ Of(r) \in SignIns /\ Of(r) # Nobody
  BY Served DEF IInv
<1>2. /\ request' = [request EXCEPT ![r] = Idle] /\ Idle \in RequestType'
      /\ request'[r] = Idle /\ RequestFits(r)'
      /\ told' \in [SignIns -> SUBSET Answers]
      /\ told'[Of(r)] = told[Of(r)] \cup {what}
      /\ \A s \in SignIns : s # Of(r) => told'[s] = told[s]
      /\ \A s \in SignIns : told[s] \subseteq told'[s]
  BY <1>1, Answering DEF IInv, Answers
<1>3. Grows
  BY <1>2 DEF Grows
<1>4. request' \in [Slots -> RequestType'] /\ RequestsFit'
  BY <1>2, <1>3, OneRequest DEF IInv
<1>5. TypeOK'
  BY <1>1, <1>2, <1>4 DEF IInv, TypeOK, setup, memory, RequestType, Notes
<1>6. NotesFit'
  BY <1>3, GrowingKeeps
     DEF IInv, NotesFit, memory, Fit, FitsOn, Nothing, NotesOf, Nobody
<1>7. ConnectedIsSaved' /\ NotesWait'
  BY <1>2, <1>3, SavedStill, WaitsOn DEF IInv, memory
<1>8. ASSUME NEW s \in SignIns, Alone(s)', ~Caused(s)' PROVE Quiet(s)'
  <2>1. s # Of(r)
    BY <1>3, <1>8, GrowingKeeps
  <2>2. Of(r)' # s
    BY <1>2, NobodyAssumption DEF Of, Idle
  <2> QED
    BY <1>1, <1>2, <1>3, <1>8, <2>1, <2>2, Elsewhere DEF IInv
<1> QED
  BY <1>4, <1>5, <1>6, <1>7, <1>8 DEF IInv, Undisturbed

\* A request goes on, and changes no notes.
LEMMA WentOn ==
  ASSUME IInv, NEW r \in Slots, ~Serving(r, "idle"), NEW next \in RequestType',
         request' = [request EXCEPT ![r] = next], next.of = Of(r), RequestFits(r)',
         UNCHANGED <<setup, memory, started, came, told, history>>,
         store \subseteq store', store' \subseteq came,
         spent' \subseteq spent \cup {Of(r)},
         \A t \in store' \ store : Alone(t) => t = Of(r),
         (Quiet(Of(r)) /\ Alone(Of(r))) =>
           /\ Of(r) \in store' <=> next.at = "forget"
           /\ (next.does = "finish" /\ next.at \in {"look_up", "call"}) =>
                Of(r) \notin spent'
  PROVE  IInv'
<1>1. Of(r) \in came /\ Of(r) \in SignIns /\ Of(r) # Nobody
  BY Served DEF IInv
<1>2. Grows
  BY DEF Grows, history
<1>3. request' \in [Slots -> RequestType'] /\ RequestsFit'
  BY <1>2, OneRequest DEF IInv
<1>4. TypeOK'
  BY <1>1, <1>3 DEF IInv, TypeOK, setup, memory, RequestType, Notes
<1>5. NotesFit'
  BY <1>2, GrowingKeeps
     DEF IInv, NotesFit, memory, Fit, FitsOn, Nothing, NotesOf, Nobody
<1>6. ConnectedIsSaved' /\ NotesWait'
  BY <1>2, SavedStill, WaitsOn DEF IInv, memory
<1>7. ASSUME NEW s \in SignIns, Alone(s)', ~Caused(s)' PROVE Quiet(s)'
  <2>1. Alone(s) /\ Quiet(s)
    BY <1>2, <1>7, GrowingKeeps DEF IInv, Undisturbed
  <2>2. Of(r)' = Of(r)
    BY DEF IInv, TypeOK, Of
  <2>3. CASE s = Of(r)
    BY <1>1, <2>1, <2>3, OnHere DEF IInv
  <2>4. CASE s # Of(r)
    <3>1. request' = [request EXCEPT ![r] = request'[r]]
      BY DEF IInv, TypeOK
    <3>2. s \in store' => s \in store
      BY <2>1, <2>4
    <3>3. s \in spent' => s \in spent
      BY <2>4
    <3> QED
      BY <1>2, <1>7, <2>2, <2>4, <3>1, <3>2, <3>3, Elsewhere DEF IInv
  <2> QED
    BY <2>3, <2>4
<1> QED
  BY <1>3, <1>4, <1>5, <1>6, <1>7 DEF IInv, Undisturbed

\* What nobody disturbs finds the notes as it left them.
LEMMA FindsItsNotes ==
  ASSUME IInv, NEW r \in Slots, ~Serving(r, "idle"), ~Serving(r, "forget"),
         Alone(Of(r)), ~Caused(Of(r))
  PROVE  /\ Quiet(Of(r)) /\ Of(r) \notin store
         /\ Filed(stateOf[Of(r)])
         /\ request[r].does = "choose" => LookUp(stateOf[Of(r)]).token # Nobody
<1>1. Of(r) \in started /\ Of(r) \in SignIns /\ Of(r) # Nobody
  BY Served DEF IInv
<1>2. Quiet(Of(r)) /\ Of(r) \notin store /\ stateOf[Of(r)] \notin lost
  BY <1>1 DEF IInv, Undisturbed, Quiet, Caused
<1>3. request[r].does = "choose" => "choose_account" \in told[Of(r)]
  BY DEF IInv, RequestsFit, RequestFits, Serving, Idle
<1> QED
  BY <1>1, <1>2, <1>3 DEF IInv, NotesWait

LEMMA FindNotesKeeps ==
  ASSUME NEW r \in Slots
  PROVE  IInv /\ FindNotes(r) => IInv'
<1> SUFFICES ASSUME IInv, FindNotes(r) PROVE IInv'
  OBVIOUS
<1> DEFINE state == stateOf[Of(r)]
           next == [request[r] EXCEPT !.kept = LookUp(state), !.at = "call"]
<1>1. /\ Serving(r, "look_up") /\ ~Serving(r, "idle") /\ ~Serving(r, "forget")
      /\ UNCHANGED <<setup, memory, started, spent, store, came, history>>
  BY DEF FindNotes, Serving
<1>2. Of(r) \in came /\ Of(r) \in started /\ Of(r) \in SignIns /\ state \in States
  BY <1>1, Served DEF IInv, TypeOK
<1>3. ASSUME NEW person, person = Of(r), Alone(person),
             ~Filed(state) \/ (request[r].does = "choose" /\ LookUp(state).token = Nobody)
      PROVE  Caused(person)'
  <2>1. Caused(person)
    BY <1>1, <1>3, FindsItsNotes
  <2> QED
    BY <1>1, <2>1 DEF Caused, setup, history
<1>4. CASE ~Filed(state)
  <2>1. Answer(r, "unknown_state")
    BY <1>4 DEF FindNotes
  <2> QED
    BY <1>1, <1>3, <1>4, <2>1, TurnedDown DEF history
<1>5. CASE Filed(state) /\ request[r].does = "choose" /\ LookUp(state).token = Nobody
  <2>1. Answer(r, "nothing_to_choose")
    BY <1>5 DEF FindNotes
  <2> QED
    BY <1>1, <1>3, <1>5, <2>1, TurnedDown DEF history
<1>6. CASE Filed(state) /\ ~(request[r].does = "choose" /\ LookUp(state).token = Nobody)
  <2>1. request' = [request EXCEPT ![r] = next] /\ UNCHANGED told
    BY <1>6 DEF FindNotes, IInv, TypeOK
  <2>2. LookUp(state) \in Notes /\ LookUp(state) # Nothing /\ Fit(LookUp(state), state)
    BY <1>2, <1>6 DEF IInv, TypeOK, NotesFit, LookUp, Filed
  <2>3. next \in RequestType /\ next.of = Of(r) /\ next.at = "call"
        /\ next.does = request[r].does /\ next.kept = LookUp(state)
    BY <2>2 DEF IInv, TypeOK, RequestType, Of
  <2>4. next \in RequestType'
    BY <1>1, <2>3 DEF RequestType, Notes
  <2>5. request'[r] = next
    BY <2>1 DEF IInv, TypeOK
  <2>6. FitsOn(next.kept, state)
    BY <1>1, <2>2, <2>3 DEF Fit, FitsOn, setup
  <2>7. RequestFits(r)'
    <3>1. /\ Of(r)' = Of(r) /\ Kept(r)' = LookUp(state) /\ stateOf' = stateOf
          /\ request'[r].at = "call" /\ request'[r].does = request[r].does
      BY <1>1, <2>3, <2>5 DEF Of, Kept, setup
    <3>2. Fit(Kept(r), stateOf[Of(r)])'
      BY <2>3, <2>6, <3>1 DEF Fit, FitsOn, Nothing, NotesOf, Nobody
    <3>3. request[r].does # "nothing"
          /\ (request[r].does = "choose" => "choose_account" \in told[Of(r)])
      BY <1>1 DEF IInv, RequestsFit, RequestFits, Serving, Idle
    <3> QED
      BY <1>1, <1>2, <1>6, <2>1, <2>2, <3>1, <3>2, <3>3
         DEF RequestFits, Serving, Nothing, NotesOf, Nobody
  <2>8. Quiet(Of(r)) => /\ Of(r) \notin store
                        /\ next.does = "finish" => Of(r) \notin spent
    BY <1>1, <2>3 DEF Quiet, Serving
  <2> HIDE DEF next
  <2> QED
    BY <1>1, <2>1, <2>3, <2>4, <2>7, <2>8, WentOn DEF IInv, TypeOK
<1> QED
  BY <1>4, <1>5, <1>6

LEMMA SaveThenForget == Ending[1] = "save" /\ Ending[Len(Ending)] = "forget"
  BY DEF Ending

\* A request that has its notes goes on with them.
LEMMA GoingOn ==
  ASSUME IInv, NEW r \in Slots, request[r].at \in {"call", "keep", "save"},
         NEW at \in {"keep", "save", "forget"}, GoOn(r, at),
         UNCHANGED <<setup, memory, started, came, told, history>>,
         store \subseteq store',
         (at = "forget" /\ Alone(Of(r))) => Of(r) \in store'
  PROVE  LET next == [request[r] EXCEPT !.at = at] IN
         /\ next \in RequestType' /\ next.of = Of(r) /\ next.at = at
         /\ request' = [request EXCEPT ![r] = next] /\ RequestFits(r)'
         /\ ~Serving(r, "idle")
<1> DEFINE next == [request[r] EXCEPT !.at = at]
<1>1. next \in RequestType /\ next.of = Of(r) /\ next.at = at
      /\ next.kept = Kept(r) /\ next.does = request[r].does
  BY DEF IInv, TypeOK, RequestType, Of, Kept
<1>2. next \in RequestType'
  BY <1>1 DEF RequestType, Notes
<1>3. request' = [request EXCEPT ![r] = next] /\ request'[r] = next
  BY DEF GoOn, IInv, TypeOK
<1>4. request[r] # Idle /\ ~Serving(r, "look_up") /\ ~Serving(r, "idle")
  BY DEF Idle, Serving
<1> HIDE DEF next
<1>5. RequestFits(r)'
  <2>1. /\ Of(r)' = Of(r) /\ Kept(r)' = Kept(r) /\ stateOf' = stateOf /\ Alone(Of(r))' = Alone(Of(r))
        /\ request'[r].at = at /\ request'[r].does = request[r].does
    BY <1>1, <1>3 DEF Of, Kept, setup, Alone
  <2>2. Fit(Kept(r), stateOf[Of(r)])'
    BY <1>4, <2>1 DEF IInv, RequestsFit, RequestFits, Fit, setup, Nothing, NotesOf, Nobody
  <2> QED
    BY <1>4, <2>1, <2>2 DEF IInv, RequestsFit, RequestFits, Serving, Nothing, NotesOf, Nobody
<1> QED
  BY <1>1, <1>2, <1>3, <1>4, <1>5 DEF next

LEMMA FinishLoginKeeps ==
  ASSUME NEW r \in Slots
  PROVE  IInv /\ FinishLogin(r) => IInv'
<1> SUFFICES ASSUME IInv, FinishLogin(r) PROVE IInv'
  OBVIOUS
<1> DEFINE at == IF flow[Of(r)].asks THEN "keep" ELSE "save"
           next == [request[r] EXCEPT !.at = at]
<1>1. /\ request[r].at = "call" /\ GoOn(r, at) /\ at \in {"keep", "save"}
      /\ UNCHANGED <<setup, memory, started, store, came, told, history>>
      /\ spent' = spent \cup {Of(r)}
  BY SaveThenForget DEF FinishLogin, Serving
<1>2. Quiet(Of(r)) => Of(r) \notin store
  BY <1>1 DEF Quiet, Serving
<1> HIDE DEF at
<1>3. /\ next \in RequestType' /\ next.of = Of(r) /\ next.at = at
      /\ request' = [request EXCEPT ![r] = next] /\ RequestFits(r)'
      /\ ~Serving(r, "idle")
  BY <1>1, GoingOn
<1> HIDE DEF next
<1> QED
  BY <1>1, <1>2, <1>3, WentOn DEF IInv, TypeOK

LEMMA ResumeLoginKeeps ==
  ASSUME NEW r \in Slots
  PROVE  IInv /\ ResumeLogin(r) => IInv'
<1> SUFFICES ASSUME IInv, ResumeLogin(r) PROVE IInv'
  OBVIOUS
<1> DEFINE next == [request[r] EXCEPT !.at = "save"]
<1>1. /\ request[r].at = "call" /\ GoOn(r, "save")
      /\ UNCHANGED <<setup, memory, started, spent, store, came, told, history>>
  BY SaveThenForget DEF ResumeLogin, Serving
<1>2. Quiet(Of(r)) => Of(r) \notin store
  BY <1>1 DEF Quiet, Serving
<1>3. /\ next \in RequestType' /\ next.of = Of(r) /\ next.at = "save"
      /\ request' = [request EXCEPT ![r] = next] /\ RequestFits(r)'
      /\ ~Serving(r, "idle")
  BY <1>1, GoingOn
<1> HIDE DEF next
<1> QED
  BY <1>1, <1>2, <1>3, WentOn DEF IInv, TypeOK

LEMMA BeRefusedKeeps ==
  ASSUME NEW r \in Slots
  PROVE  IInv /\ BeRefused(r) => IInv'
<1> SUFFICES ASSUME IInv, BeRefused(r) PROVE IInv'
  OBVIOUS
<1>1. /\ Serving(r, "call") /\ ~Serving(r, "idle") /\ ~Serving(r, "forget")
      /\ request[r].does = "finish" /\ ~Accepts(r) /\ Answer(r, "refused")
      /\ UNCHANGED <<setup, memory, started, store, came, history>>
      /\ spent' \subseteq spent \cup {Of(r)}
  BY DEF BeRefused, Serving
<1>2. Of(r) \in started /\ Of(r) \in SignIns
  BY <1>1, Served DEF IInv
<1>3. ASSUME NEW person, person = Of(r), Alone(person) PROVE Caused(person)'
  <2>1. SUFFICES ASSUME ~Caused(person) PROVE FALSE
    BY <1>1 DEF Caused, setup, history
  <2>2. Of(r) \notin spent
    BY <1>1, <1>3, <2>1, FindsItsNotes DEF Quiet, Serving
  <2>3. Kept(r).by = Of(r)
    BY <1>1, <1>2, <1>3 DEF IInv, RequestsFit, RequestFits, Fit, Serving, Idle, Alone
  <2> QED
    BY <1>1, <2>2, <2>3 DEF Accepts
<1> QED
  BY <1>1, <1>3, TurnedDown DEF history

LEMMA FailuresKeep ==
  ASSUME NEW r \in Slots
  PROVE  IInv /\ (Fail(r) \/ FailToSave(r)) => IInv'
<1> SUFFICES ASSUME IInv, Fail(r) \/ FailToSave(r) PROVE IInv'
  OBVIOUS
<1>1. /\ ~Serving(r, "idle") /\ Answer(r, "error")
      /\ UNCHANGED <<setup, memory, started, store, came, lost>>
      /\ spent' \subseteq spent \cup {Of(r)}
      /\ befell' = befell \cup {<<"trouble", Of(r)>>}
  BY DEF Fail, FailToSave, Misfortune, Serving
<1>2. ASSUME NEW person, person = Of(r) PROVE Caused(person)'
  BY <1>1, <1>2 DEF Caused
<1> QED
  BY <1>1, <1>2, TurnedDown

LEMMA SaveKeeps ==
  ASSUME NEW r \in Slots
  PROVE  IInv /\ Save(r) => IInv'
<1> SUFFICES ASSUME IInv, Save(r) PROVE IInv'
  OBVIOUS
<1> DEFINE next == [request[r] EXCEPT !.at = "forget"]
<1>1. /\ request[r].at = "save" /\ GoOn(r, "forget")
      /\ UNCHANGED <<setup, memory, started, spent, came, told, history>>
      /\ store' = store \cup {Finished(r)}
  BY SaveThenForget DEF Save, Serving, After, SavedWith
<1>2. Of(r) \in came /\ Of(r) \in started /\ Of(r) \in SignIns
  BY <1>1, Served DEF IInv, Serving
<1>3. Finished(r) \in came /\ stateOf[Finished(r)] = stateOf[Of(r)]
  BY <1>1, <1>2 DEF IInv, RequestsFit, RequestFits, Fit, Serving, Idle, Finished, Nothing, NotesOf
<1>4. Alone(Of(r)) \/ Alone(Finished(r)) => Finished(r) = Of(r)
  BY <1>2, <1>3 DEF Alone, IInv, TypeOK
<1>5. \A t \in store' \ store : Alone(t) => t = Of(r)
  BY <1>1, <1>4
<1>6. store \subseteq store' /\ store' \subseteq came /\ (Alone(Of(r)) => Of(r) \in store')
  BY <1>1, <1>3, <1>4 DEF IInv, TypeOK
<1>7. /\ next \in RequestType' /\ next.of = Of(r) /\ next.at = "forget"
      /\ request' = [request EXCEPT ![r] = next] /\ RequestFits(r)'
      /\ ~Serving(r, "idle")
  BY <1>1, <1>6, GoingOn
<1> HIDE DEF next
<1> QED
  BY <1>1, <1>5, <1>6, <1>7, WentOn

LEMMA OfferAccountsKeeps ==
  ASSUME NEW r \in Slots
  PROVE  IInv /\ OfferAccounts(r) => IInv'
<1> SUFFICES ASSUME IInv, OfferAccounts(r) PROVE IInv'
  OBVIOUS
<1> DEFINE state == stateOf[Of(r)]
           data == WithToken(Kept(r), Of(r))
<1>1. /\ Serving(r, "keep") /\ ~Serving(r, "idle") /\ ~Serving(r, "forget")
      /\ Keep(state, data) /\ Answer(r, "choose_account")
      /\ UNCHANGED <<setup, started, spent, store, came, befell, faults>>
  BY DEF OfferAccounts, Serving
<1>2. Of(r) \in came /\ Of(r) \in started /\ Of(r) \in SignIns /\ state \in States
      /\ Of(r) # Nobody
  BY <1>1, Served DEF IInv, TypeOK
<1>3. /\ request' = [request EXCEPT ![r] = Idle] /\ Idle \in RequestType'
      /\ request'[r] = Idle /\ RequestFits(r)'
      /\ told' \in [SignIns -> SUBSET Answers]
      /\ told'[Of(r)] = told[Of(r)] \cup {"choose_account"}
      /\ \A s \in SignIns : s # Of(r) => told'[s] = told[s]
      /\ \A s \in SignIns : told[s] \subseteq told'[s]
  BY <1>1, <1>2, Answering DEF IInv, Answers
<1>4. Grows
  BY <1>1, <1>3 DEF Grows, Keep
<1>5. /\ data \in Notes /\ data.token = Of(r) /\ data.by \in started
      /\ stateOf[data.by] = state /\ data # Nothing
  <2>1. Kept(r).by \in started /\ stateOf[Kept(r).by] = state /\ Kept(r) \in Notes
    BY <1>1, <1>2 DEF IInv, TypeOK, RequestsFit, RequestFits, Fit, Serving, Idle, Kept, Of
  <2> QED
    BY <1>2, <2>1 DEF WithToken, Notes, Nothing, NotesOf
<1>6. data \in Notes' /\ FitsOn(data, state)
  BY <1>1, <1>2, <1>5 DEF Notes, FitsOn, setup
<1> HIDE DEF data
<1>7. /\ notes' \in [States -> Notes'] /\ NotesFit'
      /\ \A other \in States :
           notes'[other] = (IF other = state THEN data ELSE notes[other])
           \/ other \in lost'
  BY <1>1, <1>2, <1>4, <1>6, Keeping DEF IInv
<1>8. request' \in [Slots -> RequestType'] /\ RequestsFit'
  BY <1>3, <1>4, OneRequest DEF IInv
<1>9. TypeOK'
  BY <1>1, <1>2, <1>3, <1>7, <1>8 DEF IInv, TypeOK, setup, RequestType, Notes
<1>10. ConnectedIsSaved'
  BY <1>3, <1>4, SavedStill DEF IInv
<1>11. ASSUME NEW s \in started' \ store', Alone(s)', stateOf'[s] \notin lost'
       PROVE  /\ Filed(stateOf[s])' /\ LookUp(stateOf[s])'.by = s
              /\ "choose_account" \in told'[s] => LookUp(stateOf[s])'.token = s
  <2>1. /\ s \in started \ store /\ s \in SignIns /\ Alone(s) /\ stateOf' = stateOf
        /\ stateOf[s] \notin lost /\ stateOf[s] \in States /\ s # Nobody
    BY <1>1, <1>4, <1>9, <1>11, GrowingKeeps, NobodyAssumption DEF Grows, TypeOK, setup
  <2>2. CASE s = Of(r)
    <3>1. notes'[stateOf[s]] = data
      BY <1>7, <1>11, <2>1, <2>2
    <3>2. data.by = s
      BY <1>5, <2>1, <2>2 DEF Alone
    <3> QED
      BY <1>5, <2>1, <2>2, <3>1, <3>2 DEF Filed, LookUp, Nothing, NotesOf, Nobody
  <2>3. CASE s # Of(r)
    <3>1. stateOf[s] # state
      BY <1>2, <2>1, <2>3 DEF Alone
    <3>2. notes'[stateOf[s]] = notes[stateOf[s]]
      BY <1>7, <1>11, <2>1, <3>1
    <3>3. told'[s] = told[s]
      BY <1>3, <2>1, <2>3
    <3> QED
      BY <2>1, <3>2, <3>3 DEF IInv, NotesWait, Filed, LookUp, Nothing, NotesOf, Nobody
  <2> QED
    BY <2>2, <2>3
<1>12. NotesWait'
  BY <1>11 DEF NotesWait
<1>13. ASSUME NEW s \in SignIns, Alone(s)', ~Caused(s)' PROVE Quiet(s)'
  <2>1. Quiet(s) /\ Alone(s) /\ ~Caused(s)
    BY <1>4, <1>13, GrowingKeeps DEF IInv, Undisturbed
  <2>2. CASE s = Of(r)
    <3>1. s \notin store /\ ~TurnedAway(s)
      BY <1>1, <2>1, <2>2 DEF Quiet
    <3>2. told'[Of(r)] \cap {"unknown_state", "nothing_to_choose", "refused"} = {}
      BY <1>3, <2>2, <3>1 DEF TurnedAway
    <3> QED
      BY <1>1, <1>2, <1>3, <2>1, <2>2, <3>1, <3>2, OverHere DEF IInv
  <2>3. CASE s # Of(r)
    <3>1. Of(r)' # s
      BY <1>3, NobodyAssumption DEF Of, Idle
    <3> QED
      BY <1>1, <1>3, <1>4, <1>13, <2>3, <3>1, Elsewhere DEF IInv
  <2> QED
    BY <2>2, <2>3
<1> QED
  BY <1>7, <1>8, <1>9, <1>10, <1>12, <1>13 DEF IInv, Undisturbed

LEMMA ForgetNotesKeeps ==
  ASSUME NEW r \in Slots
  PROVE  IInv /\ ForgetNotes(r) => IInv'
<1> SUFFICES ASSUME IInv, ForgetNotes(r) PROVE IInv'
  OBVIOUS
<1> DEFINE state == stateOf[Of(r)]
<1>1. /\ Serving(r, "forget") /\ ~Serving(r, "idle") /\ Answer(r, "connected")
      /\ notes' = [notes EXCEPT ![state] = Nothing]
      /\ UNCHANGED <<setup, started, spent, store, came, history>>
  BY SaveThenForget DEF ForgetNotes, Forget, After, Serving
<1>2. Of(r) \in came /\ Of(r) \in started /\ Of(r) \in SignIns /\ state \in States
  BY <1>1, Served DEF IInv, TypeOK
<1>3. /\ request' = [request EXCEPT ![r] = Idle] /\ Idle \in RequestType'
      /\ request'[r] = Idle /\ RequestFits(r)'
      /\ told' \in [SignIns -> SUBSET Answers]
      /\ told'[Of(r)] = told[Of(r)] \cup {"connected"}
      /\ \A s \in SignIns : s # Of(r) => told'[s] = told[s]
      /\ \A s \in SignIns : told[s] \subseteq told'[s]
  BY <1>1, <1>2, Answering DEF IInv, Answers
<1>4. Grows
  BY <1>1, <1>3 DEF Grows, history
<1>5. notes' \in [States -> Notes'] /\ NotesFit'
  <2>1. Nothing \in Notes' /\ Notes' = Notes
    BY <1>1 DEF Notes, Nothing, NotesOf, Nobody
  <2>2. \A other \in States :
          notes'[other] = IF other = state THEN Nothing ELSE notes[other]
    BY <1>1 DEF IInv, TypeOK
  <2>3. \A other \in States : FitsOn(notes'[other], other)
    BY <1>4, <2>2, GrowingKeeps DEF IInv, NotesFit, FitsOn
  <2> QED
    BY <1>1, <2>1, <2>3
       DEF IInv, TypeOK, NotesFit, Fit, FitsOn, Nothing, NotesOf, Nobody
<1>6. request' \in [Slots -> RequestType'] /\ RequestsFit'
  BY <1>3, <1>4, OneRequest DEF IInv
<1>7. TypeOK'
  BY <1>1, <1>2, <1>3, <1>5, <1>6 DEF IInv, TypeOK, setup, RequestType, Notes
<1>8. Alone(Of(r)) => Of(r) \in store
  BY <1>1 DEF IInv, RequestsFit, RequestFits, Serving, Idle
<1>9. ASSUME NEW s \in SignIns, "connected" \in told'[s], Alone(s)' PROVE s \in store'
  BY <1>1, <1>3, <1>4, <1>8, <1>9, GrowingKeeps DEF IInv, ConnectedIsSaved
<1>10. ASSUME NEW s \in started' \ store', Alone(s)', stateOf'[s] \notin lost'
       PROVE  /\ Filed(stateOf[s])' /\ LookUp(stateOf[s])'.by = s
              /\ "choose_account" \in told'[s] => LookUp(stateOf[s])'.token = s
  <2>1. /\ s \in started \ store /\ s \in SignIns /\ Alone(s) /\ stateOf' = stateOf
        /\ stateOf[s] \notin lost /\ stateOf[s] \in States /\ s # Nobody
    BY <1>1, <1>4, <1>7, <1>10, GrowingKeeps, NobodyAssumption DEF Grows, TypeOK, setup
  <2>2. s # Of(r)
    BY <1>8, <2>1
  <2>3. stateOf[s] # state
    BY <1>2, <2>1, <2>2 DEF Alone
  <2>4. notes'[stateOf[s]] = notes[stateOf[s]] /\ told'[s] = told[s]
    BY <1>1, <1>3, <2>1, <2>2, <2>3 DEF IInv, TypeOK
  <2> QED
    BY <2>1, <2>4 DEF IInv, NotesWait, Filed, LookUp, Nothing, NotesOf, Nobody
<1>11. ASSUME NEW s \in SignIns, Alone(s)', ~Caused(s)' PROVE Quiet(s)'
  <2>1. Quiet(s) /\ Alone(s) /\ ~Caused(s)
    BY <1>4, <1>11, GrowingKeeps DEF IInv, Undisturbed
  <2>2. CASE s = Of(r)
    <3>1. told'[Of(r)] \cap {"unknown_state", "nothing_to_choose", "refused"} = {}
      BY <1>3, <2>1, <2>2 DEF Quiet, TurnedAway
    <3> QED
      BY <1>2, <1>3, <2>1, <2>2, <3>1, OverHere DEF IInv
  <2>3. CASE s # Of(r)
    <3>1. Of(r)' # s
      BY <1>3, NobodyAssumption DEF Of, Idle
    <3> QED
      BY <1>1, <1>3, <1>4, <1>11, <2>3, <3>1, Elsewhere DEF IInv
  <2> QED
    BY <2>2, <2>3
<1> QED
  BY <1>5, <1>6, <1>7, <1>9, <1>10, <1>11 DEF IInv, ConnectedIsSaved, NotesWait, Undisturbed

LEMMA RestartKeeps == IInv /\ Restart => IInv'
<1> SUFFICES ASSUME IInv, Restart PROVE IInv'
  OBVIOUS
<1>1. /\ request' = [r \in Slots |-> Idle]
      /\ UNCHANGED <<setup, started, spent, store, came, told>>
      /\ befell' = befell \cup {<<"restart", Nobody>>} /\ lost \subseteq lost'
      /\ \/ UNCHANGED notes
         \/ /\ notes' = [state \in States |-> Nothing]
            /\ lost' = lost \cup {stateOf[s] : s \in started}
  BY DEF Restart, Misfortune, memory
<1>2. Grows
  BY <1>1 DEF Grows
<1>3. Idle \in RequestType' /\ Nothing \in Notes' /\ Notes' = Notes
  BY <1>1 DEF Idle, RequestType, Nothing, NotesOf, Nobody, Notes
<1>4. notes' \in [States -> Notes'] /\ request' \in [Slots -> RequestType']
  BY <1>1, <1>3 DEF IInv, TypeOK
<1>5. TypeOK'
  BY <1>1, <1>4 DEF IInv, TypeOK, setup, RequestType, Notes
<1>6. RequestsFit'
  BY <1>1 DEF RequestsFit, RequestFits, Idle, Nothing, NotesOf, Nobody
<1>7. NotesFit'
  BY <1>1, <1>2, GrowingKeeps
     DEF IInv, NotesFit, Fit, FitsOn, Nothing, NotesOf, Nobody
<1>8. ConnectedIsSaved'
  BY <1>1, <1>2, SavedStill DEF IInv
<1>9. NotesWait'
  <2>1. CASE UNCHANGED notes
    BY <1>1, <1>2, <2>1, WaitsOn DEF IInv
  <2>2. CASE lost' = lost \cup {stateOf[s] : s \in started}
    BY <1>1, <2>2 DEF NotesWait, setup
  <2> QED
    BY <1>1, <2>1, <2>2
<1>10. Undisturbed'
  BY <1>1 DEF Undisturbed, Caused
<1> QED
  BY <1>5, <1>6, <1>7, <1>8, <1>9, <1>10 DEF IInv

LEMMA StandingStillKeeps == IInv /\ UNCHANGED vars => IInv'
<1> SUFFICES ASSUME IInv, UNCHANGED vars PROVE IInv'
  OBVIOUS
<1> USE DEF vars, setup, memory, history
<1>1. TypeOK' /\ NotesFit'
  BY DEF IInv, TypeOK, Notes, NotesFit, Fit
<1>2. RequestsFit'
  BY DEF IInv, RequestsFit, RequestFits, Fit, Of, Kept, Serving, Alone, Nothing, NotesOf
<1>3. ConnectedIsSaved' /\ NotesWait'
  BY DEF IInv, ConnectedIsSaved, NotesWait, Alone, Filed, LookUp, Nothing, NotesOf
<1>4. Undisturbed'
  BY DEF IInv, Undisturbed, Alone, Caused, Quiet, TurnedAway, Of, Serving
<1> QED
  BY <1>1, <1>2, <1>3, <1>4 DEF IInv

-----------------------------------------------------------------------------
\* The inductive invariant: which notes and tokens fit which state, what a
\* request has found and done by where it is, and that a sign-in nothing has
\* happened to is served one request at a time.
THEOREM Invariance == Spec => []IInv
<1>1. IInv /\ [Next]_vars => IInv'
  <2> SUFFICES ASSUME IInv, [Next]_vars PROVE IInv'
    OBVIOUS
  <2>1. CASE \E s \in SignIns : Start(s)
    BY <2>1, StartKeeps
  <2>2. CASE \E r \in Slots, s \in SignIns, does \in {"finish", "choose"} : Arrive(r, s, does)
    BY <2>2, ArriveKeeps
  <2>3. CASE \E r \in Slots : Serve(r)
    <3>1. PICK r \in Slots : Serve(r)
      BY <2>3
    <3> QED
      BY <3>1, FindNotesKeeps, FinishLoginKeeps, BeRefusedKeeps, ResumeLoginKeeps, FailuresKeep,
         OfferAccountsKeeps, SaveKeeps, ForgetNotesKeeps DEF Serve
  <2>4. CASE Restart
    BY <2>4, RestartKeeps
  <2>5. CASE UNCHANGED vars
    BY <2>5, StandingStillKeeps
  <2> QED
    BY <2>1, <2>2, <2>3, <2>4, <2>5 DEF Next
<1> QED
  BY InitHolds, <1>1, PTL DEF Spec

\* The types hold, and only who came back has a code used or a connection saved.
THEOREM Typing == Spec => []TypeOK
<1>1. IInv => TypeOK
  BY DEF IInv
<1> QED
  BY <1>1, Invariance, PTL

\* Whoever is told "connected" is, whatever came twice, failed or restarted.
THEOREM ConnectedMeansSaved == Spec => []ConnectedIsSaved
<1>1. IInv => ConnectedIsSaved
  BY DEF IInv
<1> QED
  BY <1>1, Invariance, PTL

\* A sign-in that is not over can go on, for any memory that keeps its notes.
THEOREM NotesAreThere == Spec => []NotesWait
<1>1. IInv => NotesWait
  BY DEF IInv
<1> QED
  BY <1>1, Invariance, PTL

\* Nobody is turned away for nothing.
THEOREM TurnedAwayWithCause == Spec => []TurnedAwayForACause
<1>1. IInv => TurnedAwayForACause
  BY DEF IInv, Undisturbed, Quiet, TurnedAwayForACause
<1> QED
  BY <1>1, Invariance, PTL
=============================================================================
