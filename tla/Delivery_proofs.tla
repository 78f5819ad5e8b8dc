-------------------------- MODULE Delivery_proofs --------------------------
(***************************************************************************)
(* Proofs about Delivery, for every set of messages, updates, handlers and *)
(* workers, every memory and every set of faults.                          *)
(***************************************************************************)
EXTENDS Delivery, TLAPS

USE DeliveryAssumption DEF Memories, Steps

\* What a memory holds after writing one more id: nothing new but that id, and
\* no more than it has room for.  (InMemorySeenUpdates.remember)
LEMMA Remembering ==
  ASSUME NEW ids \in Seq(Ids), NEW id \in Ids,
         Memory = "in_process" => Len(ids) <= MaxSize
  PROVE  /\ Remember(ids, id) \in Seq(Ids)
         /\ Memory = "in_process" => Len(Remember(ids, id)) <= MaxSize
         /\ Remembered(Remember(ids, id)) \subseteq Remembered(ids) \cup {id}
<1> DEFINE longer == IF id \in Remembered(ids) THEN ids ELSE Append(ids, id)
<1>1. longer \in Seq(Ids) /\ Len(longer) <= Len(ids) + 1 /\ Len(ids) \in Nat
  OBVIOUS
<1>2. Remembered(longer) \subseteq Remembered(ids) \cup {id}
  BY DEF Remembered
<1>3. CASE ~(Memory = "in_process" /\ Len(longer) > MaxSize)
  <2>1. Remember(ids, id) = longer
    BY <1>3 DEF Remember
  <2>2. Memory = "in_process" => Len(longer) <= MaxSize
    <3>1. Len(longer) \in Nat
      BY <1>1
    <3>2. QED
      BY <1>3, <3>1
  <2>3. QED
    BY <2>1, <2>2, <1>1, <1>2
<1>4. CASE Memory = "in_process" /\ Len(longer) > MaxSize
  <2>1. Remember(ids, id) = Tail(longer)
    BY <1>4 DEF Remember
  <2>2. longer # <<>> /\ Len(Tail(longer)) = Len(longer) - 1 /\ Tail(longer) \in Seq(Ids)
    BY <1>1, <1>4
  <2>3. Remembered(Tail(longer)) \subseteq Remembered(longer)
    <3>1. \A i \in DOMAIN Tail(longer) :
            i + 1 \in DOMAIN longer /\ Tail(longer)[i] = longer[i + 1]
      BY <1>1, <2>2
    <3>2. QED
      BY <3>1 DEF Remembered
  <2>4. Len(Tail(longer)) <= MaxSize
    BY <1>1, <1>4, <2>2
  <2>5. QED
    BY <2>1, <2>2, <2>3, <2>4, <1>2
<1>5. QED
  BY <1>3, <1>4

\* The update a worker has come to is one of its message's.
LEMMA CurrentIsUpdate ==
  ASSUME TypeOK, NEW w \in Workers, Left(w)
  PROVE  Current(w) \in Updates /\ Id[Current(w)] \in Ids /\ job[w] \in Messages
<1>1. job[w] \in Messages /\ Carries[job[w]] \in Seq(Updates)
  BY DEF TypeOK, Left, Busy
<1>2. at[w] \in 1..Len(Carries[job[w]])
  BY <1>1 DEF TypeOK, Left
<1>3. QED
  BY <1>1, <1>2 DEF Current, Ids

\* Which of its memories a worker's dispatcher asks.
LEMMA StoreIsOne == \A w \in Workers : Store(w) \in Stores
BY DEF Store, Stores

\* Every step keeps the types; only remembering touches what a memory holds.
LEMMA TypingStep ==
  ASSUME TypeOK, [Next]_vars
  PROVE  TypeOK'
<1> USE DEF TypeOK, network, history
<1> SUFFICES ASSUME Next PROVE TypeOK'
  BY DEF vars
<1>1. ASSUME NEW w \in Workers, NEW m \in Messages, Arrive(w, m) PROVE TypeOK'
  BY <1>1 DEF Arrive, Busy
<1>2. ASSUME NEW w \in Workers, Skip(w) PROVE TypeOK'
  BY <1>2 DEF Skip
<1>3. ASSUME NEW w \in Workers, Start(w) PROVE TypeOK'
  BY <1>3, CurrentIsUpdate DEF Start, NoFailures
<1>4. ASSUME NEW w \in Workers, RunHandler(w) PROVE TypeOK'
  <2>1. PICK raised \in BOOLEAN :
           failed' = [failed EXCEPT ![w] = Failures(w, raised)]
           /\ good' = [good EXCEPT ![w] = IF raised THEN @ ELSE @ + 1]
    BY <1>4 DEF RunHandler
  <2>2. Failures(w, raised) \in BOOLEAN
    BY DEF Failures
  <2>3. faults' \in 0..MaxFaults
    BY <1>4 DEF RunHandler, Misfortune
  <2>4. QED
    BY <1>4, <2>1, <2>2, <2>3 DEF RunHandler
<1>5. ASSUME NEW w \in Workers, Raise(w) PROVE TypeOK'
  BY <1>5 DEF Raise, Abandon
<1>6. ASSUME NEW w \in Workers, GetThrough(w) PROVE TypeOK'
  BY <1>6 DEF GetThrough
<1>7. ASSUME NEW w \in Workers, WriteDown(w) PROVE TypeOK'
  <2> DEFINE s == Store(w)
             kept == IF Memory = "none" THEN memory[s]
                     ELSE Remember(memory[s], Id[Current(w)])
  <2>1. Current(w) \in Updates /\ Id[Current(w)] \in Ids
    BY <1>7, CurrentIsUpdate DEF WriteDown
  <2>2. s \in Stores /\ memory[s] \in Seq(Ids)
        /\ (Memory = "in_process" => Len(memory[s]) <= MaxSize)
    BY StoreIsOne
  <2>3. kept \in Seq(Ids) /\ (Memory = "in_process" => Len(kept) <= MaxSize)
    BY <2>1, <2>2, Remembering
  <2>4. memory' = [memory EXCEPT ![s] = kept]
    BY <1>7 DEF WriteDown
  <2>5. forgotten' \subseteq Updates
    BY <1>7, <2>1 DEF WriteDown, Lost
  <2>6. /\ memory' \in [Stores -> Seq(Ids)]
        /\ \A t \in Stores : Memory = "in_process" => Len(memory'[t]) <= MaxSize
    BY <2>2, <2>3, <2>4
  <2>7. QED
    BY <1>7, <2>5, <2>6 DEF WriteDown
<1>8. ASSUME NEW w \in Workers, FailToRemember(w) PROVE TypeOK'
  BY <1>8, CurrentIsUpdate DEF FailToRemember, Abandon, Misfortune
<1>9. ASSUME NEW w \in Workers, Answer(w) PROVE TypeOK'
  BY <1>9 DEF Answer, Busy, Misfortune
<1>10. ASSUME NEW w \in Workers, CutOff(w) PROVE TypeOK'
  BY <1>10, CurrentIsUpdate DEF CutOff, Abandon, Misfortune
<1>11. ASSUME NEW p \in Procs, Restart(p) PROVE TypeOK'
  <2>1. /\ memory' \in [Stores -> Seq(Ids)]
        /\ \A t \in Stores : Memory = "in_process" => Len(memory'[t]) <= MaxSize
    <3>1. memory' = [memory EXCEPT ![p] = <<>>]
      BY <1>11 DEF Restart
    <3>2. <<>> \in Seq(Ids) /\ Len(<<>>) = 0 /\ MaxSize >= 0
      OBVIOUS
    <3>3. QED
      BY <3>1, <3>2
  <2>2. forgotten' \subseteq Updates
    BY <1>11 DEF Restart, Lost
  <2>3. QED
    BY <1>11, <2>1, <2>2 DEF Restart, Misfortune
<1>12. QED
  BY <1>1, <1>2, <1>3, <1>4, <1>5, <1>6, <1>7, <1>8, <1>9, <1>10, <1>11
  DEF Next, Work

\* The types hold throughout, the room of an InMemorySeenUpdates among them.
THEOREM Typing == Spec => []TypeOK
<1>1. Init => TypeOK
  BY DEF Init, TypeOK
<1>2. QED
  BY <1>1, TypingStep, PTL DEF Spec

-----------------------------------------------------------------------------
\* What makes a 200 honest: where ids tell updates apart, every id a memory
\* holds is that of a handled update, and so is every update a request has
\* behind it.
RememberedIsHandled ==
  \A s \in Stores : \A u \in Updates :
    Id[u] \in Remembered(memory[s]) => u \in handled
BehindIsHandled ==
  \A w \in Workers : Busy(w) =>
    /\ at[w] <= Len(Carries[job[w]]) + 1
    /\ \A i \in DOMAIN Carries[job[w]] : i < at[w] => Carries[job[w]][i] \in handled
WrittenDownIsHandled ==
  \A w \in Workers : Left(w) /\ step[w] = "remember" => Current(w) \in handled
CleanCallIsGood ==
  \A w \in Workers :
    Left(w) /\ step[w] = "handlers" /\ ~failed[w] => good[w] = ran[w]
AnsweredIsHandled ==
  \A m \in answered : \A i \in DOMAIN Carries[m] : Carries[m][i] \in handled

HandledInv ==
  /\ RememberedIsHandled /\ BehindIsHandled /\ WrittenDownIsHandled
  /\ CleanCallIsGood /\ AnsweredIsHandled

\* Nothing that was handled stops having been.
LEMMA HandledGrows ==
  ASSUME [Next]_vars
  PROVE  handled \subseteq handled'
BY DEF Next, vars, network, history, Arrive, Work, Skip, Start, RunHandler, Raise,
       GetThrough, WriteDown, FailToRemember, Answer, CutOff, Restart

\* The step from one update of a message to the next.
LEMMA MovingOn ==
  ASSUME TypeOK, HandledInv, NEW w \in Workers, Left(w), Current(w) \in handled',
         handled \subseteq handled', job' = job, at' = [at EXCEPT ![w] = @ + 1]
  PROVE  BehindIsHandled'
<1> SUFFICES ASSUME NEW v \in Workers, Busy(v)'
             PROVE  /\ at'[v] <= Len(Carries[job[v]]) + 1
                    /\ \A i \in DOMAIN Carries[job[v]] :
                         i < at'[v] => Carries[job[v]][i] \in handled'
  BY DEF BehindIsHandled
<1>1. job[v] \in Messages /\ Carries[job[v]] \in Seq(Updates) /\ at[v] \in Nat /\ Busy(v)
  BY DEF TypeOK, Busy
<1>2. /\ at[v] <= Len(Carries[job[v]]) + 1
      /\ \A i \in DOMAIN Carries[job[v]] : i < at[v] => Carries[job[v]][i] \in handled'
  BY <1>1 DEF HandledInv, BehindIsHandled
<1>3. CASE v = w
  <2>1. at'[v] = at[v] + 1 /\ at[v] <= Len(Carries[job[v]])
    BY <1>3 DEF Left, TypeOK
  <2>2. \A i \in DOMAIN Carries[job[v]] : i < at[v] + 1 => i < at[v] \/ i = at[v]
    BY <1>1
  <2>3. Carries[job[v]][at[v]] \in handled'
    BY <1>3 DEF Current
  <2>4. Len(Carries[job[v]]) \in Nat
    BY <1>1
  <2>5. QED
    BY <1>1, <1>2, <2>1, <2>2, <2>3, <2>4
<1>4. CASE v # w
  <2>1. at'[v] = at[v]
    BY <1>4 DEF TypeOK
  <2>2. QED
    BY <1>2, <2>1
<1>5. QED
  BY <1>3, <1>4

\* Every step keeps it so that what a worker has left behind in its message,
\* and what a memory holds, has been handled.  (Dispatcher.deliver)
LEMMA HandledStep ==
  ASSUME TypeOK, HandledInv, DistinctIds, [Next]_vars
  PROVE  HandledInv'
<1> USE DEF network, history
<1>0. handled \subseteq handled'
  BY HandledGrows
<1>1. CASE UNCHANGED vars
  BY <1>1 DEF vars, HandledInv, RememberedIsHandled, BehindIsHandled, WrittenDownIsHandled,
     CleanCallIsGood, AnsweredIsHandled, Busy, Left, Current
<1>2. ASSUME NEW w \in Workers, NEW m \in Messages, Arrive(w, m) PROVE HandledInv'
  <2>1. /\ RememberedIsHandled' /\ AnsweredIsHandled'
    BY <1>2 DEF Arrive, HandledInv, RememberedIsHandled, AnsweredIsHandled
  <2>2. BehindIsHandled'
    <3>1. \A v \in Workers : v # w => job'[v] = job[v] /\ at'[v] = at[v]
      BY <1>2 DEF Arrive, TypeOK
    <3>2. job'[w] = m /\ at'[w] = 1
      BY <1>2 DEF Arrive, TypeOK
    <3>3. Len(Carries[m]) \in Nat /\ DOMAIN Carries[m] = 1..Len(Carries[m])
      OBVIOUS
    <3>4. 1 <= Len(Carries[m]) + 1 /\ \A i \in DOMAIN Carries[m] : ~(i < 1)
      BY <3>3
    <3>5. handled' = handled
      BY <1>2 DEF Arrive
    <3>6. QED
      BY <3>1, <3>2, <3>4, <3>5 DEF HandledInv, BehindIsHandled, Busy
  <2>3. WrittenDownIsHandled' /\ CleanCallIsGood'
    BY <1>2 DEF Arrive, TypeOK, HandledInv, WrittenDownIsHandled, CleanCallIsGood, Busy,
       Left, Current
  <2>4. QED
    BY <2>1, <2>2, <2>3 DEF HandledInv
<1>3. ASSUME NEW w \in Workers, Skip(w) PROVE HandledInv'
  <2>1. Current(w) \in handled /\ handled' = handled
    BY <1>3, CurrentIsUpdate, StoreIsOne
    DEF Skip, Seen, HandledInv, RememberedIsHandled
  <2>2. BehindIsHandled'
    BY <1>3, <2>1, MovingOn DEF Skip
  <2>3. RememberedIsHandled' /\ AnsweredIsHandled'
    BY <1>3 DEF Skip, HandledInv, RememberedIsHandled, AnsweredIsHandled
  <2>4. WrittenDownIsHandled' /\ CleanCallIsGood'
    BY <1>3 DEF Skip, TypeOK, HandledInv, WrittenDownIsHandled, CleanCallIsGood, Busy,
       Left, Current
  <2>5. QED
    BY <2>2, <2>3, <2>4 DEF HandledInv
<1>4. ASSUME NEW w \in Workers, Start(w) PROVE HandledInv'
  BY <1>4 DEF Start, NoFailures, TypeOK, HandledInv, RememberedIsHandled, BehindIsHandled,
     WrittenDownIsHandled, CleanCallIsGood, AnsweredIsHandled, Busy, Left, Current
<1>5. ASSUME NEW w \in Workers, RunHandler(w) PROVE HandledInv'
  <2>1. PICK raised \in BOOLEAN :
           /\ failed' = [failed EXCEPT ![w] = Failures(w, raised)]
           /\ good' = [good EXCEPT ![w] = IF raised THEN @ ELSE @ + 1]
    BY <1>5 DEF RunHandler
  <2>2. /\ job' = job /\ at' = at /\ step' = step /\ memory' = memory
        /\ handled' = handled /\ answered' = answered
        /\ ran' = [ran EXCEPT ![w] = @ + 1] /\ step[w] = "handlers" /\ Left(w)
    BY <1>5 DEF RunHandler
  <2>3. RememberedIsHandled' /\ AnsweredIsHandled' /\ BehindIsHandled' /\ WrittenDownIsHandled'
    BY <2>2 DEF HandledInv, RememberedIsHandled, AnsweredIsHandled, BehindIsHandled,
       WrittenDownIsHandled, Busy, Left, Current
  <2>4. CleanCallIsGood'
    <3>1. ASSUME NEW v \in Workers, Left(v), step[v] = "handlers", ~failed'[v]
          PROVE  good'[v] = ran'[v]
      BY <2>1, <2>2, <3>1 DEF Failures, TypeOK, HandledInv, CleanCallIsGood
    <3>2. QED
      BY <2>2, <3>1 DEF CleanCallIsGood, Left, Busy
  <2>5. QED
    BY <2>3, <2>4 DEF HandledInv
<1>6. ASSUME NEW w \in Workers, Raise(w) PROVE HandledInv'
  BY <1>6 DEF Raise, Abandon, TypeOK, HandledInv, RememberedIsHandled, BehindIsHandled,
     WrittenDownIsHandled, CleanCallIsGood, AnsweredIsHandled, Busy, Left, Current
<1>7. ASSUME NEW w \in Workers, GetThrough(w) PROVE HandledInv'
  <2>1. good[w] = ran[w] /\ ran[w] = HandlerCount[Current(w)] /\ Current(w) \in Updates
    BY <1>7, CurrentIsUpdate DEF GetThrough, AllRan, HandledInv, CleanCallIsGood
  <2>2. Current(w) \in handled'
    BY <1>7, <2>1 DEF GetThrough
  <2>3. /\ job' = job /\ at' = at /\ memory' = memory /\ answered' = answered
        /\ ran' = ran /\ good' = good /\ failed' = failed
        /\ step' = [step EXCEPT ![w] = "remember"]
    BY <1>7 DEF GetThrough
  <2>4. QED
    BY <1>0, <2>2, <2>3 DEF TypeOK, HandledInv, RememberedIsHandled, BehindIsHandled,
       WrittenDownIsHandled, CleanCallIsGood, AnsweredIsHandled, Busy, Left, Current
<1>8. ASSUME NEW w \in Workers, WriteDown(w) PROVE HandledInv'
  <2> DEFINE s == Store(w)
             kept == IF Memory = "none" THEN memory[s]
                     ELSE Remember(memory[s], Id[Current(w)])
  <2>1. Current(w) \in handled /\ handled' = handled /\ answered' = answered
    BY <1>8 DEF WriteDown, HandledInv, WrittenDownIsHandled
  <2>2. BehindIsHandled'
    BY <1>8, <2>1, MovingOn DEF WriteDown
  <2>3. RememberedIsHandled'
    <3>1. Current(w) \in Updates /\ Id[Current(w)] \in Ids
      BY <1>8, CurrentIsUpdate DEF WriteDown
    <3>2. s \in Stores /\ memory[s] \in Seq(Ids)
          /\ (Memory = "in_process" => Len(memory[s]) <= MaxSize)
      BY StoreIsOne DEF TypeOK
    <3>3. Remembered(kept) \subseteq Remembered(memory[s]) \cup {Id[Current(w)]}
      BY <3>1, <3>2, Remembering
    <3>4. memory' = [memory EXCEPT ![s] = kept]
      BY <1>8 DEF WriteDown
    <3>5. \A t \in Stores : memory'[t] = IF t = s THEN kept ELSE memory[t]
      BY <3>2, <3>4 DEF TypeOK
    <3>6. \A u \in Updates : Id[u] = Id[Current(w)] => u \in handled
      BY <2>1, <3>1 DEF DistinctIds
    <3>7. ASSUME NEW t \in Stores, NEW u \in Updates, Id[u] \in Remembered(memory'[t])
          PROVE  u \in handled
      <4>1. Id[u] \in Remembered(memory[t]) \/ Id[u] = Id[Current(w)]
        BY <3>3, <3>5, <3>7
      <4>2. QED
        BY <3>6, <4>1 DEF HandledInv, RememberedIsHandled
    <3>8. QED
      BY <2>1, <3>7 DEF RememberedIsHandled
  <2>4. AnsweredIsHandled'
    BY <2>1 DEF HandledInv, AnsweredIsHandled
  <2>5. WrittenDownIsHandled' /\ CleanCallIsGood'
    BY <1>8 DEF WriteDown, TypeOK, HandledInv, WrittenDownIsHandled, CleanCallIsGood, Busy,
       Left, Current
  <2>6. QED
    BY <2>2, <2>3, <2>4, <2>5 DEF HandledInv
<1>9. ASSUME NEW w \in Workers, FailToRemember(w) PROVE HandledInv'
  BY <1>9 DEF FailToRemember, Abandon, TypeOK, HandledInv, RememberedIsHandled,
     BehindIsHandled, WrittenDownIsHandled, CleanCallIsGood, AnsweredIsHandled, Busy, Left,
     Current
<1>10. ASSUME NEW w \in Workers, Answer(w) PROVE HandledInv'
  <2>1. \A i \in DOMAIN Carries[job[w]] : Carries[job[w]][i] \in handled
    <3>1. job[w] \in Messages /\ Carries[job[w]] \in Seq(Updates) /\ at[w] \in Nat
      BY <1>10 DEF Answer, Busy, TypeOK
    <3>2. \A i \in DOMAIN Carries[job[w]] : i < at[w]
      BY <1>10, <3>1 DEF Answer, Left
    <3>3. QED
      BY <1>10, <3>2 DEF Answer, HandledInv, BehindIsHandled
  <2>2. handled' = handled /\ answered' = answered \cup {job[w]}
    BY <1>10 DEF Answer
  <2>3. AnsweredIsHandled'
    BY <2>1, <2>2 DEF HandledInv, AnsweredIsHandled
  <2>4. RememberedIsHandled' /\ BehindIsHandled' /\ WrittenDownIsHandled' /\ CleanCallIsGood'
    BY <1>10 DEF Answer, TypeOK, HandledInv, RememberedIsHandled, BehindIsHandled,
       WrittenDownIsHandled, CleanCallIsGood, Busy, Left, Current
  <2>5. QED
    BY <2>3, <2>4 DEF HandledInv
<1>11. ASSUME NEW w \in Workers, CutOff(w) PROVE HandledInv'
  BY <1>11 DEF CutOff, Abandon, TypeOK, HandledInv, RememberedIsHandled, BehindIsHandled,
     WrittenDownIsHandled, CleanCallIsGood, AnsweredIsHandled, Busy, Left, Current
<1>12. ASSUME NEW p \in Procs, Restart(p) PROVE HandledInv'
  <2>1. RememberedIsHandled'
    <3>1. Remembered(<<>>) = {}
      BY DEF Remembered
    <3>2. memory' = [memory EXCEPT ![p] = <<>>] /\ handled' = handled
      BY <1>12 DEF Restart
    <3>3. QED
      BY <3>1, <3>2 DEF TypeOK, HandledInv, RememberedIsHandled
  <2>2. BehindIsHandled' /\ WrittenDownIsHandled' /\ CleanCallIsGood' /\ AnsweredIsHandled'
    BY <1>12 DEF Restart, TypeOK, HandledInv, BehindIsHandled, WrittenDownIsHandled,
       CleanCallIsGood, AnsweredIsHandled, Busy, Left, Current
  <2>3. QED
    BY <2>1, <2>2 DEF HandledInv
<1>13. QED
  BY <1>1, <1>2, <1>3, <1>4, <1>5, <1>6, <1>7, <1>8, <1>9, <1>10, <1>11, <1>12
  DEF Next, Work

\* Whatever is lost, repeated, cut off or restarted, a message is answered 200
\* only when all its updates have been handled.
THEOREM AnswersAreHonest == Spec => []AnswerMeansHandled
<1>1. CASE ~DistinctIds
  <2>1. AnswerMeansHandled
    BY <1>1 DEF AnswerMeansHandled
  <2>2. QED
    BY <2>1, PTL
<1>2. CASE DistinctIds
  <2>1. Init => HandledInv
    BY DEF Init, HandledInv, RememberedIsHandled, BehindIsHandled, WrittenDownIsHandled,
       CleanCallIsGood, AnsweredIsHandled, Busy, Left, Remembered
  <2>2. TypeOK /\ HandledInv /\ [Next]_vars => HandledInv'
    BY <1>2, HandledStep
  <2>3. HandledInv => AnswerMeansHandled
    BY DEF HandledInv, AnsweredIsHandled, AnswerMeansHandled
  <2>4. QED
    BY <2>1, <2>2, <2>3, Typing, PTL DEF Spec
<1>3. QED
  BY <1>1, <1>2

-----------------------------------------------------------------------------
\* Why a second run needs a cause.  Of an update that no two calls of deliver
\* had at once and no memory lost: one call has it at most, it is remembered
\* once that call is over, and a call that has it is the one that handled it.
Clear(u) == u \notin overlapped \cup forgotten
OneCallAtATime ==
  \A u \in Updates : Clear(u) => \A v, w \in InDeliver(u) : v = w
HandledIsKept ==
  \A u \in Updates : Clear(u) /\ u \in handled =>
    \/ \A w \in Workers : Id[u] \in Remembered(memory[Store(w)])
    \/ \E w \in InDeliver(u) : step[w] = "remember"
HandledNotBegunAgain ==
  \A u \in Updates : Clear(u) /\ u \in handled => \A w \in InDeliver(u) : step[w] = "remember"
OnlyOnce == again \subseteq overlapped \cup forgotten

OnceInv == OneCallAtATime /\ HandledIsKept /\ HandledNotBegunAgain /\ OnlyOnce

\* A step that only moves calls outside deliver, or inside it without ending
\* them, leaves all of this as it was.
LEMMA SameCalls ==
  ASSUME OnceInv, handled' = handled, again' = again, memory' = memory,
         overlapped' = overlapped, forgotten' = forgotten,
         \A u \in Updates : InDeliver(u)' = InDeliver(u),
         \A u \in Updates : \A w \in InDeliver(u) : step'[w] = step[w]
  PROVE  OnceInv'
<1>1. \A u : Clear(u)' <=> Clear(u)
  BY DEF Clear
<1>2. OneCallAtATime'
  BY <1>1 DEF OnceInv, OneCallAtATime
<1>3. HandledIsKept'
  BY <1>1 DEF OnceInv, HandledIsKept
<1>4. HandledNotBegunAgain'
  BY <1>1 DEF OnceInv, HandledNotBegunAgain
<1>5. OnlyOnce'
  BY DEF OnceInv, OnlyOnce
<1>6. QED
  BY <1>2, <1>3, <1>4, <1>5 DEF OnceInv

\* A call that ends without writing its update down: either its handlers were
\* not through, or the update counts as forgotten.
LEMMA FewerCalls ==
  ASSUME OnceInv, handled' = handled, again' = again, overlapped' = overlapped,
         forgotten \subseteq forgotten',
         \A u \in Updates : InDeliver(u)' \subseteq InDeliver(u),
         \A u \in Updates : \A w \in InDeliver(u) : step'[w] = step[w],
         \A u \in Updates : \A w \in InDeliver(u) \ InDeliver(u)' :
           step[w] = "remember" => u \in forgotten',
         \A u \in Updates \ forgotten' : \A w \in Workers :
           Id[u] \in Remembered(memory[Store(w)]) =>
             Id[u] \in Remembered(memory'[Store(w)])
  PROVE  OnceInv'
<1>1. \A u \in Updates : Clear(u)' => Clear(u) /\ u \in Updates \ forgotten'
  BY DEF Clear
<1>2. OneCallAtATime' /\ HandledNotBegunAgain'
  BY <1>1 DEF OnceInv, OneCallAtATime, HandledNotBegunAgain, Clear
<1>3. HandledIsKept'
  BY <1>1 DEF OnceInv, HandledIsKept, Clear
<1>4. OnlyOnce'
  BY DEF OnceInv, OnlyOnce
<1>5. QED
  BY <1>2, <1>3, <1>4 DEF OnceInv

\* Every step keeps the account of second times: an update handled already is
\* remembered, forgotten, or in the hands of the call that will remember it.
LEMMA OnceStep ==
  ASSUME TypeOK, HandledInv, OnceInv, DistinctIds, OneMemory, [Next]_vars
  PROVE  OnceInv'
<1> USE DEF network, history
<1>1. CASE UNCHANGED vars
  BY <1>1, SameCalls DEF vars, InDeliver, Left, Busy, Current
<1>2. ASSUME NEW w \in Workers, NEW m \in Messages, Arrive(w, m) PROVE OnceInv'
  <2>1. \A u \in Updates : InDeliver(u)' = InDeliver(u)
    BY <1>2 DEF Arrive, TypeOK, InDeliver, Left, Busy, Current
  <2>2. \A u \in Updates : \A v \in InDeliver(u) : step'[v] = step[v]
    BY <1>2 DEF Arrive, TypeOK, InDeliver, Left
  <2>3. QED
    BY <1>2, <2>1, <2>2, SameCalls DEF Arrive
<1>3. ASSUME NEW w \in Workers, Skip(w) PROVE OnceInv'
  <2>1. \A u \in Updates : InDeliver(u)' = InDeliver(u)
    BY <1>3 DEF Skip, TypeOK, InDeliver, Left, Busy, Current
  <2>2. QED
    BY <1>3, <2>1, SameCalls DEF Skip
<1>4. ASSUME NEW w \in Workers, Start(w) PROVE OnceInv'
  <2>0. PICK c \in Updates : c = Current(w)
    BY CurrentIsUpdate, <1>4 DEF Start, GetThrough, AllRan, WriteDown
  <2>1. c \in Updates /\ Id[c] \notin Remembered(memory[Store(w)])
    BY <1>4, <2>0, CurrentIsUpdate DEF Start, Seen, OneMemory
  <2>2. \A v \in Workers : v # w => step'[v] = step[v]
    BY <1>4 DEF Start, TypeOK
  <2>3. step[w] = "seen" /\ step'[w] = "handlers" /\ job' = job /\ at' = at /\ Left(w)
    BY <1>4 DEF Start, TypeOK
  <2>4. \A u \in Updates : InDeliver(u)' = InDeliver(u) \cup (IF u = c THEN {w} ELSE {})
    BY <2>0, <2>2, <2>3 DEF InDeliver, Left, Busy, Current
  <2>5. \A u \in Updates : w \notin InDeliver(u)
    BY <2>3 DEF InDeliver
  <2>6. /\ handled' = handled /\ again' = again /\ memory' = memory
        /\ forgotten' = forgotten
    BY <1>4 DEF Start
  <2>7. overlapped \subseteq overlapped' /\ (InDeliver(c) = {} \/ c \in overlapped')
    BY <1>4, <2>0 DEF Start
  <2>8. ASSUME NEW u \in Updates, Clear(u)', u # c
        PROVE  Clear(u) /\ InDeliver(u)' = InDeliver(u)
               /\ \A v \in InDeliver(u) : step'[v] = step[v]
    BY <2>2, <2>4, <2>5, <2>6, <2>7, <2>8 DEF Clear, InDeliver
  <2>9. ASSUME Clear(c)'
        PROVE  InDeliver(c)' = {w} /\ c \notin handled
    <3>1. Clear(c) /\ InDeliver(c) = {}
      BY <2>6, <2>7, <2>9 DEF Clear
    <3>2. c \notin handled
      BY <2>1, <3>1 DEF OnceInv, HandledIsKept
    <3>3. QED
      BY <2>1, <2>4, <3>1, <3>2
  <2>10. OneCallAtATime' /\ HandledNotBegunAgain'
    BY <2>6, <2>8, <2>9 DEF OnceInv, OneCallAtATime, HandledNotBegunAgain
  <2>11. HandledIsKept'
    BY <2>6, <2>8, <2>9 DEF OnceInv, HandledIsKept
  <2>12. OnlyOnce'
    BY <2>6, <2>7 DEF OnceInv, OnlyOnce
  <2>13. QED
    BY <2>10, <2>11, <2>12 DEF OnceInv
<1>5. ASSUME NEW w \in Workers, RunHandler(w) PROVE OnceInv'
  <2>1. \A u \in Updates : InDeliver(u)' = InDeliver(u)
    BY <1>5 DEF RunHandler, InDeliver, Left, Busy, Current
  <2>2. QED
    BY <1>5, <2>1, SameCalls DEF RunHandler
<1>6. ASSUME NEW w \in Workers, Raise(w) PROVE OnceInv'
  <2>1. /\ \A u \in Updates : InDeliver(u)' \subseteq InDeliver(u)
        /\ \A u \in Updates : \A v \in InDeliver(u) \ InDeliver(u)' : v = w
    BY <1>6 DEF Raise, Abandon, TypeOK, InDeliver, Left, Busy, Current
  <2>2. step[w] = "handlers" /\ step' = step
    BY <1>6 DEF Raise, AllRan
  <2>3. QED
    BY <1>6, <2>1, <2>2, FewerCalls DEF Raise
<1>7. ASSUME NEW w \in Workers, GetThrough(w) PROVE OnceInv'
  <2>0. PICK c \in Updates : c = Current(w)
    BY CurrentIsUpdate, <1>7 DEF Start, GetThrough, AllRan, WriteDown
  <2>1. c \in Updates /\ w \in InDeliver(c)
    BY <1>7, <2>0, CurrentIsUpdate DEF GetThrough, AllRan, InDeliver
  <2>2. \A v \in Workers : v # w => step'[v] = step[v]
    BY <1>7 DEF GetThrough, TypeOK
  <2>3. /\ step[w] = "handlers" /\ step'[w] = "remember" /\ job' = job /\ at' = at
        /\ memory' = memory /\ overlapped' = overlapped /\ forgotten' = forgotten
        /\ handled \subseteq handled' /\ handled' \subseteq handled \cup {c}
        /\ again' \subseteq again \cup ({c} \cap handled)
    BY <1>7, <2>0 DEF GetThrough, AllRan, TypeOK
  <2>4. \A u \in Updates : InDeliver(u)' = InDeliver(u)
    BY <2>0, <2>2, <2>3 DEF InDeliver, Left, Busy, Current
  <2>5. \A u \in Updates : Clear(u)' <=> Clear(u)
    BY <2>3 DEF Clear
  <2>6. Clear(c) => c \notin handled /\ InDeliver(c) = {w}
    BY <2>1, <2>3 DEF OnceInv, HandledNotBegunAgain, OneCallAtATime
  <2>7. OneCallAtATime'
    BY <2>4, <2>5 DEF OnceInv, OneCallAtATime, Clear
  <2>8. \A u \in Updates : u # c => w \notin InDeliver(u)
    BY <2>0 DEF InDeliver
  <2>9. HandledNotBegunAgain'
    BY <2>2, <2>3, <2>4, <2>5, <2>6, <2>8
    DEF OnceInv, HandledNotBegunAgain, Clear, InDeliver
  <2>10. HandledIsKept'
    <3>1. ASSUME NEW u \in Updates, Clear(u), u \in handled', u = c
          PROVE  \E v \in InDeliver(u)' : step'[v] = "remember"
      BY <2>1, <2>3, <2>4, <3>1
    <3>2. ASSUME NEW u \in Updates, Clear(u), u \in handled', u # c
          PROVE  \/ \A v \in Workers : Id[u] \in Remembered(memory'[Store(v)])
                 \/ \E v \in InDeliver(u)' : step'[v] = "remember"
      <4>1. u \in handled /\ u \in Updates
        BY <2>3, <3>2 DEF Clear
      <4>2. \A v \in InDeliver(u) : step'[v] = step[v]
        BY <2>2, <2>8, <3>2, <4>1 DEF InDeliver
      <4>3. QED
        BY <2>3, <2>4, <3>2, <4>1, <4>2 DEF OnceInv, HandledIsKept
    <3>3. QED
      BY <2>3, <2>5, <3>1, <3>2 DEF HandledIsKept
  <2>11. OnlyOnce'
    <3>1. c \in handled => c \in overlapped \cup forgotten
      BY <2>1, <2>6 DEF Clear
    <3>2. QED
      BY <2>3, <3>1 DEF OnceInv, OnlyOnce
  <2>12. QED
    BY <2>7, <2>9, <2>10, <2>11 DEF OnceInv
<1>8. ASSUME NEW w \in Workers, WriteDown(w) PROVE OnceInv'
  <2>0. PICK c \in Updates : c = Current(w)
    BY CurrentIsUpdate, <1>8 DEF WriteDown
  <2> DEFINE s == Store(w)
             kept == Remember(memory[s], Id[c])
  <2>1. c \in Updates /\ w \in InDeliver(c) /\ Id[c] \in Ids /\ s \in Stores
    BY <1>8, <2>0, CurrentIsUpdate, StoreIsOne DEF WriteDown, InDeliver
  <2>2. /\ memory' = [memory EXCEPT ![s] = kept]
        /\ forgotten' = forgotten \cup Lost(memory[s], kept) \cup
             (IF Id[c] \in Remembered(kept) THEN {} ELSE {c})
    BY <1>8, <2>0 DEF WriteDown, OneMemory
  <2>3. /\ handled' = handled /\ again' = again /\ overlapped' = overlapped
        /\ job' = job /\ at' = [at EXCEPT ![w] = @ + 1]
        /\ step' = [step EXCEPT ![w] = "seen"] /\ step[w] = "remember"
    BY <1>8 DEF WriteDown
  <2>4. \A v \in Workers : v # w => step'[v] = step[v] /\ at'[v] = at[v]
    BY <2>3 DEF TypeOK
  <2>5. step'[w] = "seen"
    BY <2>3 DEF TypeOK
  <2>6. \A u \in Updates : InDeliver(u)' = InDeliver(u) \ {w}
    BY <2>0, <2>3, <2>4, <2>5 DEF InDeliver, Left, Busy, Current
  <2>7. \A u \in Updates : u # c => w \notin InDeliver(u)
    BY <2>0 DEF InDeliver
  <2>8. \A v \in Workers : memory'[Store(v)] = kept
    BY <2>1, <2>2 DEF OneMemory, TypeOK
  <2>9. \A u \in Updates : Clear(u)' => Clear(u)
    BY <2>2, <2>3 DEF Clear
  <2>10. \A u \in Updates : Clear(u)' /\ Id[u] \in Remembered(memory[s]) => Id[u] \in Remembered(kept)
    BY <2>2 DEF Clear, Lost
  <2>11. Clear(c)' => Id[c] \in Remembered(kept)
    BY <2>2 DEF Clear
  <2>12. OneCallAtATime'
    BY <2>6, <2>9 DEF OnceInv, OneCallAtATime, Clear
  <2>13. HandledNotBegunAgain'
    BY <2>3, <2>4, <2>6, <2>9 DEF OnceInv, HandledNotBegunAgain, Clear, InDeliver
  <2>14. HandledIsKept'
    <3>1. ASSUME NEW u \in Updates, Clear(u)', u \in handled, u # c
          PROVE  \/ \A v \in Workers : Id[u] \in Remembered(memory'[Store(v)])
                 \/ \E v \in InDeliver(u)' : step'[v] = "remember"
      <4>1. u \in Updates /\ Clear(u)
        BY <2>9, <3>1 DEF Clear
      <4>2. CASE \A v \in Workers : Id[u] \in Remembered(memory[Store(v)])
        BY <2>1, <2>8, <2>10, <3>1, <4>2
      <4>3. CASE \E v \in InDeliver(u) : step[v] = "remember"
        <5>1. PICK v \in InDeliver(u) : step[v] = "remember"
          BY <4>3
        <5>2. v \in Workers /\ v # w
          BY <2>7, <3>1, <4>1, <5>1 DEF InDeliver
        <5>3. v \in InDeliver(u)' /\ step'[v] = "remember"
          BY <2>4, <2>6, <4>1, <5>1, <5>2
        <5>4. QED
          BY <5>3
      <4>4. QED
        BY <3>1, <4>1, <4>2, <4>3 DEF OnceInv, HandledIsKept
    <3>2. ASSUME Clear(c)'
          PROVE  \A v \in Workers : Id[c] \in Remembered(memory'[Store(v)])
      BY <2>8, <2>11, <3>2
    <3>3. QED
      BY <2>3, <3>1, <3>2 DEF HandledIsKept
  <2>15. OnlyOnce'
    BY <2>2, <2>3 DEF OnceInv, OnlyOnce
  <2>16. QED
    BY <2>12, <2>13, <2>14, <2>15 DEF OnceInv
<1>9. ASSUME NEW w \in Workers, FailToRemember(w) PROVE OnceInv'
  <2>1. /\ \A u \in Updates : InDeliver(u)' \subseteq InDeliver(u)
        /\ \A u \in Updates : \A v \in InDeliver(u) \ InDeliver(u)' : v = w /\ u = Current(w)
    BY <1>9 DEF FailToRemember, Abandon, TypeOK, InDeliver, Left, Busy, Current
  <2>2. Current(w) \in forgotten' /\ forgotten \subseteq forgotten' /\ step' = step
    BY <1>9 DEF FailToRemember
  <2>3. QED
    BY <1>9, <2>1, <2>2, FewerCalls DEF FailToRemember
<1>10. ASSUME NEW w \in Workers, Answer(w) PROVE OnceInv'
  <2>1. \A u \in Updates : InDeliver(u)' = InDeliver(u)
    BY <1>10 DEF Answer, TypeOK, InDeliver, Left, Busy, Current
  <2>2. QED
    BY <1>10, <2>1, SameCalls DEF Answer
<1>11. ASSUME NEW w \in Workers, CutOff(w) PROVE OnceInv'
  <2>1. /\ \A u \in Updates : InDeliver(u)' \subseteq InDeliver(u)
        /\ \A u \in Updates : \A v \in InDeliver(u) \ InDeliver(u)' :
             v = w /\ u = Current(w) /\ Left(w)
    BY <1>11 DEF CutOff, Abandon, TypeOK, InDeliver, Left, Busy, Current
  <2>2. /\ Left(w) /\ step[w] = "remember" => Current(w) \in forgotten'
        /\ forgotten \subseteq forgotten' /\ step' = step
    BY <1>11 DEF CutOff
  <2>3. QED
    BY <1>11, <2>1, <2>2, FewerCalls DEF CutOff
<1>12. ASSUME NEW p \in Procs, Restart(p) PROVE OnceInv'
  <2> DEFINE gone == {w \in Workers : ProcOf[w] = p}
  <2>1. /\ \A u \in Updates : InDeliver(u)' \subseteq InDeliver(u)
        /\ \A u \in Updates : \A v \in InDeliver(u) \ InDeliver(u)' : v \in gone
    BY <1>12 DEF Restart, TypeOK, InDeliver, Left, Busy, Current
  <2>2. /\ \A u \in Updates : \A v \in InDeliver(u) \cap gone :
             step[v] = "remember" => u \in forgotten'
        /\ forgotten \subseteq forgotten' /\ step' = step
    BY <1>12 DEF Restart
  <2>3. Lost(memory[p], <<>>) \subseteq forgotten' /\ memory' = [memory EXCEPT ![p] = <<>>]
    BY <1>12 DEF Restart
  <2>4. Remembered(<<>>) = {}
    BY DEF Remembered
  <2>5. \A u \in Updates \ forgotten' : \A v \in Workers :
           Id[u] \in Remembered(memory[Store(v)]) =>
             Id[u] \in Remembered(memory'[Store(v)])
    <3>1. \A u \in Updates : Id[u] \in Remembered(memory[p]) => u \in forgotten'
      BY <2>3, <2>4 DEF Lost
    <3>2. \A v \in Workers : Store(v) = p \/ memory'[Store(v)] = memory[Store(v)]
      BY <2>3, StoreIsOne DEF TypeOK
    <3>3. QED
      BY <3>1, <3>2
  <2>6. QED
    BY <1>12, <2>1, <2>2, <2>5, FewerCalls DEF Restart
<1>13. QED
  BY <1>1, <1>2, <1>3, <1>4, <1>5, <1>6, <1>7, <1>8, <1>9, <1>10, <1>11, <1>12
  DEF Next, Work

\* With one memory for every worker, an update is handled a second time only
\* if two copies were in deliver at once or the memory lost it.
THEOREM SecondTimeHasACause == Spec => []HandledAgainHasACause
<1>1. CASE ~(OneMemory /\ DistinctIds)
  <2>1. HandledAgainHasACause
    BY <1>1 DEF HandledAgainHasACause
  <2>2. QED
    BY <2>1, PTL
<1>2. CASE OneMemory /\ DistinctIds
  <2>1. Init => HandledInv /\ OnceInv
    BY DEF Init, HandledInv, RememberedIsHandled, BehindIsHandled, WrittenDownIsHandled,
       CleanCallIsGood, AnsweredIsHandled, OnceInv, OneCallAtATime, HandledIsKept,
       HandledNotBegunAgain, OnlyOnce, InDeliver, Busy, Left, Remembered
  <2>2. TypeOK /\ HandledInv /\ OnceInv /\ [Next]_vars => HandledInv' /\ OnceInv'
    BY <1>2, HandledStep, OnceStep
  <2>3. OnceInv => HandledAgainHasACause
    BY DEF OnceInv, OnlyOnce, HandledAgainHasACause
  <2>4. QED
    BY <2>1, <2>2, <2>3, Typing, PTL DEF Spec
<1>3. QED
  BY <1>1, <1>2

-----------------------------------------------------------------------------
\* Inbox's words for Delivery: what handlers have, and what is not coming.
Given == {u \in Updates : InDeliver(u) # {}}
NotComing == {u \in Updates : Carrying(u) # {} /\ Carrying(u) \subseteq Settled}

\* What a worker has come to is coming still: it has a message that carries it.
LEMMA CurrentIsComing ==
  ASSUME TypeOK, NEW w \in Workers, Left(w)
  PROVE  Current(w) \notin NotComing
<1>1. job[w] \in Messages /\ Carries[job[w]] \in Seq(Updates) /\ at[w] \in Nat \ {0}
  BY CurrentIsUpdate DEF TypeOK
<1>2. at[w] \in DOMAIN Carries[job[w]]
  BY <1>1 DEF Left
<1>3. job[w] \in Carrying(Current(w)) /\ job[w] \notin Settled
  BY <1>1, <1>2 DEF Carrying, Current, Settled
<1> QED
  BY <1>3 DEF NotComing

\* Only Start brings an update to the handlers.
LEMMA OnlyStartGives ==
  ASSUME TypeOK, [Next]_vars, \A w \in Workers : ~Start(w)
  PROVE  Given' \subseteq Given
<1> SUFFICES \A u \in Updates : InDeliver(u)' \subseteq InDeliver(u)
  BY DEF Given
<1> USE DEF TypeOK, InDeliver, Left, Busy, Current
<1>1. ASSUME NEW w \in Workers, NEW m \in Messages, Arrive(w, m)
      PROVE  \A u \in Updates : InDeliver(u)' \subseteq InDeliver(u)
  BY <1>1 DEF Arrive
<1>2. ASSUME NEW w \in Workers, Skip(w)
      PROVE  \A u \in Updates : InDeliver(u)' \subseteq InDeliver(u)
  BY <1>2 DEF Skip
<1>3. ASSUME NEW w \in Workers, RunHandler(w)
      PROVE  \A u \in Updates : InDeliver(u)' \subseteq InDeliver(u)
  BY <1>3 DEF RunHandler
<1>4. ASSUME NEW w \in Workers, GetThrough(w)
      PROVE  \A u \in Updates : InDeliver(u)' \subseteq InDeliver(u)
  BY <1>4 DEF GetThrough, AllRan
<1>5. ASSUME NEW w \in Workers, WriteDown(w)
      PROVE  \A u \in Updates : InDeliver(u)' \subseteq InDeliver(u)
  BY <1>5 DEF WriteDown
<1>6. ASSUME NEW w \in Workers, Raise(w) \/ FailToRemember(w) \/ CutOff(w)
      PROVE  \A u \in Updates : InDeliver(u)' \subseteq InDeliver(u)
  BY <1>6 DEF Raise, FailToRemember, CutOff, Abandon
<1>7. ASSUME NEW w \in Workers, Answer(w)
      PROVE  \A u \in Updates : InDeliver(u)' \subseteq InDeliver(u)
  BY <1>7 DEF Answer
<1>8. ASSUME NEW p \in Procs, Restart(p)
      PROVE  \A u \in Updates : InDeliver(u)' \subseteq InDeliver(u)
  BY <1>8 DEF Restart
<1>9. CASE UNCHANGED vars
  BY <1>9 DEF vars
<1> QED
  BY <1>1, <1>2, <1>3, <1>4, <1>5, <1>6, <1>7, <1>8, <1>9 DEF Next, Work

\* Start gives the app the update its worker has come to, GetThrough handles it,
\* and every other step takes nothing away but what was handled.
LEMMA StepOfInbox ==
  ASSUME TypeOK, HandledInv', [Next]_vars
  PROVE  [Inbox!Next]_(Inbox!vars)
<1>1. CASE \E w \in Workers : Start(w)
  <2>1. PICK w \in Workers : Start(w)
    BY <1>1
  <2>2. /\ Left(w) /\ step[w] = "seen" /\ Current(w) \in Updates
        /\ step' = [step EXCEPT ![w] = "handlers"]
        /\ UNCHANGED <<owed, answered, job, at, handled>>
    BY <2>1, CurrentIsUpdate DEF Start, network
  <2>3. \A u \in Updates : InDeliver(u)' = IF u = Current(w) THEN InDeliver(u) \cup {w}
                                         ELSE InDeliver(u)
    BY <2>2 DEF TypeOK, InDeliver, Left, Busy, Current
  <2>4. Given \subseteq Given' /\ Given' \subseteq Given \cup {Current(w)}
    BY <2>3 DEF Given
  <2>5. NotComing' = NotComing
    BY <2>2 DEF NotComing, Settled, Carrying
  <2>6. Given' \cap NotComing \subseteq Given
    BY <2>2, <2>4, CurrentIsComing
  <2>7. Inbox!Give
    BY <2>2, <2>4, <2>5, <2>6 DEF Inbox!Give, Given, NotComing
  <2> QED
    BY <2>7 DEF Inbox!Next
<1>2. CASE \E w \in Workers : GetThrough(w)
  <2>1. PICK w \in Workers : GetThrough(w)
    BY <1>2
  <2>2. /\ Left(w) /\ step[w] = "handlers" /\ Current(w) \in Updates
        /\ handled' \in {handled, handled \cup {Current(w)}}
        /\ step' = [step EXCEPT ![w] = "remember"]
        /\ UNCHANGED <<owed, answered, job, at>>
    <3>1. Left(w)
      BY <2>1 DEF GetThrough, AllRan
    <3> QED
      BY <2>1, <3>1, CurrentIsUpdate, SMTT(20) DEF GetThrough, AllRan, network
  <2>3. \A u \in Updates : InDeliver(u)' = InDeliver(u)
    BY <2>2 DEF TypeOK, InDeliver, Left, Busy, Current
  <2>4. Given' = Given /\ Current(w) \in Given
    BY <2>2, <2>3 DEF Given, InDeliver
  <2>5. NotComing' = NotComing
    BY <2>2 DEF NotComing, Settled, Carrying
  <2>6. Inbox!Handle(Current(w)) \/ UNCHANGED Inbox!vars
    BY <2>2, <2>4, <2>5 DEF Inbox!Handle, Inbox!vars, Given, NotComing
  <2> QED
    BY <2>2, <2>6 DEF Inbox!Next
<1>3. CASE ~(\E w \in Workers : Start(w) \/ GetThrough(w))
  <2>1. handled' = handled
    BY <1>3 DEF Next, vars, network, history, Arrive, Work, Skip, RunHandler, Raise,
       WriteDown, FailToRemember, Answer, CutOff, Restart
  <2>2. Given' \subseteq Given
    BY <1>3, OnlyStartGives
  <2>3. NotComing' \subseteq handled
    <3>1. NotComing' \subseteq handled'     \* a message that carries it was answered
      BY DEF HandledInv, AnsweredIsHandled, NotComing, Carrying, Settled
    <3> QED
      BY <2>1, <3>1
  <2>4. Inbox!MoveOn
    BY <2>1, <2>2, <2>3 DEF Inbox!MoveOn, Given, NotComing
  <2> QED
    BY <2>4 DEF Inbox!Next
<1> QED
  BY <1>1, <1>2, <1>3

\* Pushed updates get to the app as Inbox promises, where ids tell them apart:
\* one that no message will bring again was handled (Routes.webhook,
\* Dispatcher.deliver).
THEOREM ImplementsInbox ==
  ASSUME DistinctIds
  PROVE  Spec => KeepsInbox
<1>1. Init => Inbox!Init
  <2> SUFFICES ASSUME Init PROVE Inbox!Init
    OBVIOUS
  <2>1. \A u \in Updates : InDeliver(u) = {}
    BY DEF Init, InDeliver, Left, Busy
  <2>2. Settled = {}
    BY DEF Init, Settled
  <2> QED
    BY <2>1, <2>2 DEF Init, Inbox!Init
<1>2. Init => HandledInv
  BY DEF Init, HandledInv, RememberedIsHandled, BehindIsHandled, WrittenDownIsHandled,
     CleanCallIsGood, AnsweredIsHandled, Busy, Left, Remembered
<1>3. TypeOK /\ HandledInv /\ [Next]_vars => HandledInv'
  BY HandledStep
<1>4. TypeOK /\ HandledInv' /\ [Next]_vars => [Inbox!Next]_(Inbox!vars)
  BY StepOfInbox
<1>5. QED
  BY <1>1, <1>2, <1>3, <1>4, Typing, PTL DEF Spec, KeepsInbox, Inbox!Spec
=============================================================================
