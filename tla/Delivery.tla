------------------------------ MODULE Delivery ------------------------------
(***************************************************************************)
(* How a pushed message reaches the app's handlers: contrib Routes.webhook *)
(* takes the updates out of one signed message and gives them, one after   *)
(* another, to events.Dispatcher.deliver, which asks a SeenUpdates memory, *)
(* runs the handlers and writes the update down.  The network sends a      *)
(* message until it is told 200, and sends it again whenever it was not,   *)
(* also while an earlier copy is still being worked on.                    *)
(*                                                                         *)
(* Only messages whose signature is right are here: any other is answered  *)
(* 401 before an update is read, and changes nothing.                      *)
(***************************************************************************)
EXTENDS Naturals, Sequences, FiniteSets

CONSTANTS
  Messages,     \* what the network sends
  Updates,      \* things that happened
  Carries,      \* the updates of a message, in its order
  Id,           \* Update.id, what a SeenUpdates goes by
  HandlerCount, \* how many handlers want an update: its kind's, then catch-all
  Broken,       \* updates on which a handler fails every time
  Workers,      \* requests the app can be working on at once
  Procs,        \* processes they run in
  ProcOf,
  Memory,       \* the Dispatcher's `seen`
  MaxSize,      \* InMemorySeenUpdates.max_size
  Faults,       \* which misfortunes the environment may produce
  MaxFaults,    \* bound: misfortunes in one behaviour
  None          \* no message

Memories == {"none", "in_process", "shared"}
AllFaults == {"handler", "remember", "reply_lost", "cut_off", "restart"}

ASSUME DeliveryAssumption ==
  /\ Carries \in [Messages -> Seq(Updates)]
  /\ DOMAIN Id = Updates
  /\ HandlerCount \in [Updates -> Nat]
  /\ Broken \subseteq {u \in Updates : HandlerCount[u] > 0}
  /\ ProcOf \in [Workers -> Procs]
  /\ Memory \in Memories
  /\ MaxSize \in Nat
  /\ Faults \subseteq AllFaults
  /\ MaxFaults \in Nat
  /\ None \notin Messages

VARIABLES
  owed,      \* messages the network has not been told 200 for
  answered,  \* messages answered 200, whether or not the answer arrived
  job,       \* the message each worker works on
  at,        \* which of its updates that worker has come to
  step,      \* what deliver does with that update next
  ran,       \* handlers that have had it so far in this call
  failed,    \* one of them raised, as far as deliver knows
  memory,    \* the ids each memory holds, oldest first
  faults,    \* misfortunes so far
  good,      \* history: handlers that had it in this call and did not raise
  handled,   \* history: updates some call of deliver got through completely
  again,     \* history: updates completely handled a second time
  overlapped,\* history: updates two calls of deliver had at once
  forgotten  \* history: handled updates whose id some memory lost or missed

vars == <<owed, answered, job, at, step, ran, failed, memory, faults, good,
          handled, again, overlapped, forgotten>>
network == <<owed, answered>>
history == <<good, handled, again, overlapped, forgotten>>

Steps == {"seen", "handlers", "remember"}
Ids == {Id[u] : u \in Updates}

\* One memory per process, or one they all share.
Store(w) == IF Memory = "shared" THEN None ELSE ProcOf[w]
Stores == Procs \cup {None}

Busy(w) == job[w] # None
Left_ButTheLast(w) == Busy(w) /\ at[w] < Len(Carries[job[w]])
Left(w) == Busy(w) /\ at[w] <= Len(Carries[job[w]])
Current(w) == Carries[job[w]][at[w]]

\* Workers between the `seen` check of u and the end of that call.
InDeliver(u) ==
  {w \in Workers : Left(w) /\ step[w] # "seen" /\ Current(w) = u}

Remembered(ids) == {ids[i] : i \in DOMAIN ids}

\* `seen`.
Seen_NotAsked(w) == FALSE
Seen(w) == Memory # "none" /\ Id[Current(w)] \in Remembered(memory[Store(w)])

\* `remember`: an id that is already there keeps its place in the OrderedDict,
\* and the oldest makes room.  An app's own table keeps everything.
Remember(ids, id) ==
  LET longer == IF id \in Remembered(ids) THEN ids ELSE Append(ids, id)
  IN  IF Memory = "in_process" /\ Len(longer) > MaxSize THEN Tail(longer)
      ELSE longer

Misfortune(fault) ==
  fault \in Faults /\ faults < MaxFaults /\ faults' = faults + 1

\* The request ends without a 200: 500, or no answer at all.
Abandon(w) == job' = [job EXCEPT ![w] = None] /\ UNCHANGED network

-----------------------------------------------------------------------------
Init ==
  /\ owed = Messages
  /\ answered = {}
  /\ job = [w \in Workers |-> None]
  /\ at = [w \in Workers |-> 1]
  /\ step = [w \in Workers |-> "seen"]
  /\ ran = [w \in Workers |-> 0]
  /\ failed = [w \in Workers |-> FALSE]
  /\ memory = [s \in Stores |-> <<>>]
  /\ faults = 0
  /\ good = [w \in Workers |-> 0]
  /\ handled = {} /\ again = {} /\ overlapped = {} /\ forgotten = {}

\* The network sends a message, for the first time or once more.
Arrive(w, m) ==
  /\ ~Busy(w)
  /\ m \in owed
  /\ job' = [job EXCEPT ![w] = m]
  /\ at' = [at EXCEPT ![w] = 1]
  /\ step' = [step EXCEPT ![w] = "seen"]
  /\ UNCHANGED <<network, ran, failed, memory, faults, history>>

\* deliver: an update the memory holds is skipped.
Skip(w) ==
  /\ Left(w) /\ step[w] = "seen"
  /\ Seen(w)
  /\ at' = [at EXCEPT ![w] = @ + 1]
  /\ UNCHANGED <<network, job, step, ran, failed, memory, faults, history>>

\* Every call of deliver collects failures of its own.
NoFailures_OfTheDispatcher(w) == failed[w]
NoFailures(w) == FALSE

Start(w) ==
  /\ Left(w) /\ step[w] = "seen"
  /\ ~Seen(w)
  /\ step' = [step EXCEPT ![w] = "handlers"]
  /\ ran' = [ran EXCEPT ![w] = 0]
  /\ good' = [good EXCEPT ![w] = 0]
  /\ failed' = [failed EXCEPT ![w] = NoFailures(w)]
  /\ overlapped' = IF InDeliver(Current(w)) = {} THEN overlapped
                   ELSE overlapped \cup {Current(w)}
  /\ UNCHANGED <<network, job, at, memory, faults, handled, again, forgotten>>

\* A failure is kept until every handler has had the update.
Failures_LastOnly(w, raised) == raised
Failures(w, raised) == failed[w] \/ raised

AlwaysRaises(w) == Current(w) \in Broken /\ ran[w] = 0

\* The next handler runs; one that raises does not stop the rest.
RunHandler(w) ==
  /\ Left(w) /\ step[w] = "handlers"
  /\ ran[w] < HandlerCount[Current(w)]
  /\ ran' = [ran EXCEPT ![w] = @ + 1]
  /\ \E raised \in BOOLEAN :
       /\ \/ ~raised /\ ~AlwaysRaises(w) /\ UNCHANGED faults
          \/ raised /\ AlwaysRaises(w) /\ UNCHANGED faults
          \/ raised /\ ~AlwaysRaises(w) /\ Misfortune("handler")
       /\ failed' = [failed EXCEPT ![w] = Failures(w, raised)]
       /\ good' = [good EXCEPT ![w] = IF raised THEN @ ELSE @ + 1]
  /\ UNCHANGED <<network, job, at, step, memory, handled, again, overlapped,
                 forgotten>>

AllRan(w) ==
  /\ Left(w) /\ step[w] = "handlers"
  /\ ran[w] = HandlerCount[Current(w)]

\* deliver raises its ExceptionGroup before it remembers anything; webhook
\* lets it through, so the updates after this one are not handed on either.
Raise(w) ==
  /\ AllRan(w) /\ failed[w]
  /\ Abandon(w)
  /\ UNCHANGED <<at, step, ran, failed, memory, faults, history>>

GetThrough(w) ==
  /\ AllRan(w) /\ ~failed[w]
  /\ step' = [step EXCEPT ![w] = "remember"]
  /\ LET through == {Current(w)} \cap {u \in Updates : good[w] = HandlerCount[u]}
     IN /\ handled' = handled \cup through
        /\ again' = again \cup (through \cap handled)
  /\ UNCHANGED <<network, job, at, ran, failed, memory, faults, good, overlapped,
                 forgotten>>

\* The handled updates that w's memory does not hold after this step.
Lost(before, after) ==
  {u \in Updates : Id[u] \in Remembered(before) \ Remembered(after)}

WriteDown(w) ==
  /\ Left(w) /\ step[w] = "remember"
  /\ LET s == Store(w)
         kept == IF Memory = "none" THEN memory[s]
                 ELSE Remember(memory[s], Id[Current(w)])
     IN /\ memory' = [memory EXCEPT ![s] = kept]
        /\ forgotten' = forgotten \cup Lost(memory[s], kept) \cup
             (IF Id[Current(w)] \in Remembered(kept) THEN {} ELSE {Current(w)})
  /\ at' = [at EXCEPT ![w] = @ + 1]
  /\ step' = [step EXCEPT ![w] = "seen"]
  /\ UNCHANGED <<network, job, ran, failed, faults, good, handled, again,
                 overlapped>>

\* `remember` raises: the handlers are done, and it is written nowhere.
FailToRemember(w) ==
  /\ Left(w) /\ step[w] = "remember"
  /\ Memory # "none"
  /\ Misfortune("remember")
  /\ forgotten' = forgotten \cup {Current(w)}
  /\ Abandon(w)
  /\ UNCHANGED <<at, step, ran, failed, memory, good, handled, again,
                 overlapped>>

\* Every update was handed on or skipped: 200, which may not get back.
Answer(w) ==
  /\ Busy(w) /\ ~Left(w)
  /\ job' = [job EXCEPT ![w] = None]
  /\ answered' = answered \cup {job[w]}
  /\ \/ owed' = owed \ {job[w]} /\ UNCHANGED faults
     \/ UNCHANGED owed /\ Misfortune("reply_lost")
  /\ UNCHANGED <<at, step, ran, failed, memory, history>>

-----------------------------------------------------------------------------
\* The server cancels a request, at whichever await it has come to.
CutOff(w) ==
  /\ Busy(w)
  /\ Misfortune("cut_off")
  /\ Abandon(w)
  /\ forgotten' = IF Left(w) /\ step[w] = "remember"
                  THEN forgotten \cup {Current(w)} ELSE forgotten
  /\ UNCHANGED <<at, step, ran, failed, memory, good, handled, again,
                 overlapped>>

\* A process restarts: its requests are gone, and its own memory with them.
Restart(p) ==
  LET gone == {w \in Workers : ProcOf[w] = p} IN
  /\ Misfortune("restart")
  /\ job' = [w \in Workers |-> IF w \in gone THEN None ELSE job[w]]
  /\ memory' = [memory EXCEPT ![p] = <<>>]
  /\ forgotten' = forgotten \cup Lost(memory[p], <<>>) \cup
       {u \in Updates : \E w \in InDeliver(u) \cap gone : step[w] = "remember"}
  /\ UNCHANGED <<network, at, step, ran, failed, good, handled, again,
                 overlapped>>

-----------------------------------------------------------------------------
Work(w) ==
  \/ Skip(w) \/ Start(w) \/ RunHandler(w) \/ Raise(w) \/ GetThrough(w)
  \/ WriteDown(w) \/ FailToRemember(w) \/ Answer(w)

Next ==
  \/ \E w \in Workers : Work(w) \/ CutOff(w) \/ \E m \in Messages : Arrive(w, m)
  \/ \E p \in Procs : Restart(p)

Spec == Init /\ [][Next]_vars

\* Handlers return, the server is scheduled, and the network does not give up
\* on a message it has not been told 200 for.
Fairness ==
  /\ \A w \in Workers : WF_vars(Work(w))
  /\ \A m \in Messages : SF_vars(\E w \in Workers : Arrive(w, m))

FairSpec == Spec /\ Fairness

-----------------------------------------------------------------------------
TypeOK ==
  /\ owed \subseteq Messages
  /\ answered \subseteq Messages
  /\ job \in [Workers -> Messages \cup {None}]
  /\ at \in [Workers -> Nat \ {0}]
  /\ step \in [Workers -> Steps]
  /\ ran \in [Workers -> Nat]
  /\ failed \in [Workers -> BOOLEAN]
  /\ memory \in [Stores -> Seq(Ids)]
  /\ \A s \in Stores : Memory = "in_process" => Len(memory[s]) <= MaxSize
  /\ faults \in 0..MaxFaults
  /\ good \in [Workers -> Nat]
  /\ handled \subseteq Updates
  /\ again \subseteq Updates
  /\ overlapped \subseteq Updates
  /\ forgotten \subseteq Updates

DistinctIds == \A u, v \in Updates : Id[u] = Id[v] => u = v

\* A 200 tells the network never to send a message again, so it may only be
\* given once every handler of every update in the message has run without
\* raising in a single call of deliver (Routes.webhook, Dispatcher.deliver).
\* Across resends, restarts and skipped updates, as long as ids tell updates
\* apart.
AnswerMeansHandled ==
  DistinctIds =>
    \A m \in answered : \A i \in DOMAIN Carries[m] : Carries[m][i] \in handled

\* What "an update that arrives twice is only handled once" (Dispatcher) comes
\* to: with one memory for every worker, a second complete run of the handlers
\* needs two copies in deliver at the same time, or a memory that lost the id.
OneMemory == Memory # "none" /\ \A v, w \in Workers : Store(v) = Store(w)
HandledAgainHasACause ==
  OneMemory /\ DistinctIds => again \subseteq overlapped \cup forgotten

\* The network sends a message until it is told 200: no fault, restart or
\* duplicate keeps a message that no broken update blocks from being
\* answered, and the updates ahead of a broken one from being handled.
Healthy(m, i) == \A j \in 1..i : Carries[m][j] \notin Broken
HealthyGetsThrough ==
  \A m \in Messages :
    /\ \A i \in DOMAIN Carries[m] :
         Healthy(m, i) => <>(Carries[m][i] \in handled)
    /\ Healthy(m, Len(Carries[m])) => <>[](m \notin owed)

\* The same promise taken at its word.
HandledOnce == again = {}

\* What webhook and deliver promise the app is what Inbox says: of the updates in
\* the hands of handlers, and of those whose messages were all answered and are
\* neither sent again nor worked on - as long as ids tell updates apart.
Carrying(u) == {m \in Messages : \E i \in DOMAIN Carries[m] : Carries[m][i] = u}
Settled == {m \in answered \ owed : \A w \in Workers : job[w] # m}
Inbox == INSTANCE Inbox WITH
  given <- {u \in Updates : InDeliver(u) # {}},
  over <- {u \in Updates : Carrying(u) # {} /\ Carrying(u) \subseteq Settled},
  missed <- {}
KeepsInbox == Inbox!Spec
=============================================================================
