---------------------------- MODULE Calls_proofs ----------------------------
(***************************************************************************)
(* Proofs about Calls, for every script that is well built: any number of  *)
(* callers, of steps, of attempts and of misfortunes of every kind.        *)
(***************************************************************************)
EXTENDS Calls, FiniteSetTheorems, SequenceTheorems, WellFoundedInduction, TLAPS

\* What a step of a call does to where it is.
Stays(c) == at' = at /\ ended' = ended
Ends(c) == at' = at /\ \E how : how # "running" /\ ended' = [ended EXCEPT ![c] = how]
GoesOn(c) == at' = [at EXCEPT ![c] = @ + 1] /\ ended' = ended

\* And to what the network holds and what was said of it, when nothing is made.
Silent(c) ==
  /\ UNCHANGED <<made, out, keys, told, world>>
  /\ \/ finished' = finished
     \/ Now(c).does \in Waits /\ finished' = [finished EXCEPT ![c] = @ \cup {Now(c).what}]

\* All that the scripts of a behaviour name.
Names == UNION {{steps[c][i].what : i \in DOMAIN steps[c]} : c \in DOMAIN asked}
Parts == UNION {UNION {steps[c][i].uses : i \in DOMAIN steps[c]} : c \in DOMAIN asked}
Pieces == [what : Names, early : SUBSET Parts]

Shape ==
  /\ asked \in Asked
  /\ steps = [c \in DOMAIN asked |-> Script[asked[c]]]
  /\ at \in [DOMAIN asked -> Nat]
  /\ DOMAIN ended = DOMAIN asked /\ DOMAIN known = DOMAIN asked
  /\ DOMAIN made = DOMAIN asked /\ DOMAIN finished = DOMAIN asked
  /\ told \in [DOMAIN asked -> Seq(Names)]
  /\ out \in [DOMAIN asked -> Seq(Pieces)]
  /\ DOMAIN world = Facts
  /\ \A c \in DOMAIN asked : at[c] \in DOMAIN steps[c]

-----------------------------------------------------------------------------
\* The script of each call has all the marks of a well built one.
LEMMA WellBuiltSteps ==
  ASSUME ScriptsAreWellBuilt, Shape, NEW c \in DOMAIN asked
  PROVE  /\ steps[c] = Script[asked[c]]
         /\ HasAnEnd(steps[c]) /\ NamesErrors(steps[c], ErrorsFor[asked[c].net])
         /\ UsesWhatIsFinished(steps[c]) /\ AwaitsWhatItMade(steps[c])
         /\ TrustsSilence(asked[c], steps[c])
         /\ ChecksFirst(asked[c], steps[c])
         /\ SendsEachOnce(asked[c], steps[c]) /\ IsDoneOnceSent(asked[c], steps[c])
         /\ Fingerprinted(asked[c]) => IsFingerprinted(steps[c])
         /\ LeavesPublicAlone(steps[c])
         /\ SignsInForACause(asked[c], steps[c], ErrorsFor[asked[c].net])
         /\ LikesOnce(steps[c])
BY DEF ScriptsAreWellBuilt, WellBuilt, WellBuiltScript, Shape

\* What a reply to a wait says, or does not say.
LEMMA SilenceKept ==
  ASSUME NEW c, SaysReady(c) \/ SaysNothing(c)
  PROVE  /\ history \subseteq history'
         /\ finished' = finished \/ finished' = [finished EXCEPT ![c] = @ \cup {Now(c).what}]
BY DEF SaysReady, SaysNothing

\* No error is taken for a call that goes on.
LEMMA Raised ==
  ASSUME NEW c, NEW error, error # "running", Raise(c, error)
  PROVE  Ends(c)
BY DEF Raise, RaisedAs, End, Ends

LEMMA GivenUp ==
  ASSUME NEW c, NEW error, error # "running", Now(c).as # "running", GiveUp(c, error)
  PROVE  /\ GoesOn(c) \/ Ends(c)
         /\ error \notin Now(c).soft => Ends(c)
<1>1. NamedAs(c, error) # "running"
  BY DEF NamedAs
<1> QED
  BY <1>1, Raised DEF GiveUp, Advance, GoesOn

LEMMA TriedAgain ==
  ASSUME NEW c, NEW error, error # "running", Now(c).as # "running", TryAgainOr(c, error)
  PROVE  /\ (Stays(c) /\ ~Now(c).once) \/ GoesOn(c) \/ Ends(c)
         /\ error \notin Now(c).soft => (Stays(c) /\ ~Now(c).once) \/ Ends(c)
BY GivenUp DEF TryAgainOr, MayTryAgain, Stays

\* No result and no error is called "running".
Named(c) ==
  /\ Now(c).as # "running"
  /\ Now(c).does = "refuse" => Now(c).what # "running"
  /\ Now(c).does = "return" => Now(c).what \subseteq Results
  /\ "running" \notin ErrorsFor[asked[c].net].busy
  /\ "running" \notin ErrorsFor[asked[c].net].refused
  /\ "running" \notin Results
LEMMA ErrorsAreNamed ==
  ASSUME ScriptsAreWellBuilt, Shape, NEW c \in DOMAIN asked
  PROVE  Named(c)
BY WellBuiltSteps DEF NamesErrors, Now, Named, Shape, Results

\* Where a step of a call leaves it.
LEMMA Moves ==
  ASSUME ScriptsAreWellBuilt, Shape, NEW c \in DOMAIN asked, Work(c)
  PROVE  /\ Running(c) /\ UNCHANGED <<asked, steps>> /\ history \subseteq history'
         /\ Stays(c) \/ Ends(c) \/ GoesOn(c)
<1>0. Named(c)
  BY ErrorsAreNamed
<1> USE DEF Named
<1>1. CASE Omit(c)
  BY <1>1 DEF Omit, Advance, GoesOn
<1>2. CASE FailCheck(c)
  BY <1>0, <1>2, Raised DEF FailCheck, Does
<1>3. CASE Finish(c)
  BY <1>0, <1>3 DEF Finish, Does, End, Ends
<1>4. CASE UseKept(c)
  BY <1>4 DEF UseKept, Does, Advance, GoesOn
<1>5. CASE Serve(c)
  BY <1>5 DEF Serve, Requesting, Advance, GoesOn
<1>6. CASE TurnPage(c)
  BY <1>6 DEF TurnPage, Does, Stays
<1>7. CASE Ready(c)
  BY <1>7, SilenceKept DEF Ready, Does, Advance, GoesOn
<1>8. CASE StillWorking(c)
  BY <1>8, Raised DEF StillWorking, Does, Stays
<1>9. CASE Unusable(c)
  BY <1>9, Raised DEF Unusable, Does
<1>10. CASE LookReady(c)
  BY <1>10, SilenceKept DEF LookReady, Does, Advance, GoesOn
<1>11. CASE AskAgain(c)
  BY <1>11 DEF AskAgain, Does, Stays
<1>12. CASE StopWatching(c)
  BY <1>12, Raised DEF StopWatching, Does
<1>13. CASE LoseRequest(c)
  BY <1>0, <1>13, TriedAgain DEF LoseRequest, Requesting
<1>14. CASE LoseReply(c)
  BY <1>0, <1>14, TriedAgain DEF LoseReply, Requesting
<1>15. CASE Overloaded(c)
  BY <1>0, <1>15, TriedAgain DEF Overloaded, Requesting
<1>16. CASE BeRefused(c)
  BY <1>0, <1>16, GivenUp DEF BeRefused, Requesting
<1>17. CASE NotYet(c)
  BY <1>17, Raised DEF NotYet, Does, Stays
<1>18. CASE Unreadable(c)
  BY <1>0, <1>18, GivenUp, Raised DEF Unreadable, Requesting
<1> QED
  BY <1>1, <1>2, <1>3, <1>4, <1>5, <1>6, <1>7, <1>8, <1>9, <1>10, <1>11, <1>12, <1>13,
     <1>14, <1>15, <1>16, <1>17, <1>18 DEF Work

\* Only a request that is served makes anything, told or not.
Makes(c) == Serve(c) \/ LoseReply(c) \/ Unreadable(c)
LEMMA MadeOrSilent ==
  ASSUME NEW c, Work(c)
  PROVE  Makes(c) \/ Silent(c)
<1> USE DEF Makes, Silent, network, Does, Waits
<1>1. CASE Omit(c)
  BY <1>1 DEF Omit
<1>2. CASE FailCheck(c)
  BY <1>2 DEF FailCheck
<1>3. CASE Finish(c)
  BY <1>3 DEF Finish
<1>4. CASE UseKept(c)
  BY <1>4 DEF UseKept
<1>5. CASE Serve(c)
  BY <1>5
<1>6. CASE TurnPage(c)
  BY <1>6 DEF TurnPage
<1>7. CASE Ready(c)
  BY <1>7, SilenceKept DEF Ready
<1>8. CASE StillWorking(c)
  BY <1>8 DEF StillWorking
<1>9. CASE Unusable(c)
  BY <1>9 DEF Unusable
<1>10. CASE LookReady(c)
  BY <1>10, SilenceKept DEF LookReady
<1>11. CASE AskAgain(c)
  BY <1>11 DEF AskAgain
<1>12. CASE StopWatching(c)
  BY <1>12 DEF StopWatching
<1>13. CASE LoseRequest(c)
  BY <1>13 DEF LoseRequest
<1>14. CASE LoseReply(c)
  BY <1>14
<1>15. CASE Overloaded(c)
  BY <1>15 DEF Overloaded
<1>16. CASE BeRefused(c)
  BY <1>16 DEF BeRefused
<1>17. CASE NotYet(c)
  BY <1>17 DEF NotYet
<1>18. CASE Unreadable(c)
  BY <1>18
<1> QED
  BY <1>1, <1>2, <1>3, <1>4, <1>5, <1>6, <1>7, <1>8, <1>9, <1>10, <1>11, <1>12,
     <1>13, <1>14, <1>15, <1>16, <1>17, <1>18 DEF Work

LEMMA MakesWhenAsked ==
  ASSUME NEW c, Makes(c)
  PROVE  Requesting(c) /\ Effect(c) /\ UNCHANGED <<asked, steps>>
BY DEF Makes, Serve, LoseReply, Unreadable

\* What is made of a step that sends, and of any other.
LEMMA Effects ==
  ASSUME NEW c, Effect(c)
  PROVE  /\ Now(c).does = "send" => Published(c)
         /\ Now(c).does # "send" => UNCHANGED <<out, keys>>
         /\ Now(c).does \in {"make", "begin"} => Created(c)
         /\ Now(c).does \notin {"make", "begin"} => UNCHANGED <<made, finished>>
         /\ UNCHANGED world \/ (Changed(c) /\
              Now(c).does \in {"add", "set", "unset", "drop", "spend"})
BY DEF Effect, Created, Published, Changed, network

-----------------------------------------------------------------------------
\* A wait that went on without a word of what it waited for.
Trusted(c, k) ==
  steps[c][k].silent = "trusts" /\ <<c, "unsaid", steps[c][k].what>> \in history
Heeded(c) == Now(c).silent = "trusts" /\ <<c, "unsaid", Now(c).what>> \in history'

\* A call that goes on has not been at its last step, nor at a check that fails;
\* and it has what it waited for.
LEMMA GoesOnWell ==
  ASSUME ScriptsAreWellBuilt, Shape, NEW c \in DOMAIN asked, Work(c), GoesOn(c)
  PROVE  /\ ~(Now(c).does \in Local /\ Always(steps[c], at[c]))
         /\ Finishes(steps[c], at[c]) => Now(c).what \in finished'[c] \/ Heeded(c)
         /\ (Now(c).does \in Creates /\ Surely(steps[c], at[c])) => Now(c).what \in made'[c]
         /\ (Now(c).does \in Reads /\ Surely(steps[c], at[c])) => Serve(c)
         /\ (Now(c).does \in Local /\ Now(c).unless = "") => Now(c).only \notin known[c]
<1> USE DEF Always, Surely, Finishes, Reads, Waits, Creates, Now, Local
<1>0. at[c] \in Nat /\ at'[c] # at[c] /\ Running(c)
  <2>1. at[c] \in Nat /\ c \in DOMAIN at
    BY DEF Shape
  <2>2. at'[c] = at[c] + 1
    BY <2>1 DEF GoesOn
  <2> QED
    BY <2>1, <2>2, Moves
<1>a. ~Ends(c) /\ ~Stays(c)
  BY <1>0 DEF Ends, Stays
<1>b. Named(c)
  BY ErrorsAreNamed
<1> USE DEF Named
<1>c. \A error : error # "running" /\ TryAgainOr(c, error) => Now(c).soft # {}
  BY <1>a, <1>b, TriedAgain
<1>d. \A error : error # "running" /\ GiveUp(c, error) => Now(c).soft # {}
  BY <1>a, <1>b, GivenUp
<1>e. \A error : error # "running" => ~Raise(c, error)
  BY <1>a, Raised
<1>s. SaysReady(c) \/ SaysNothing(c) => Now(c).what \in finished'[c] \/ Heeded(c)
  BY DEF SaysReady, SaysNothing, Heeded, Shape
<1>1. CASE Omit(c)
  BY <1>1 DEF Omit, Omitted
<1>2. CASE FailCheck(c)
  BY <1>b, <1>e, <1>2 DEF FailCheck, Does
<1>3. CASE Finish(c)
  BY <1>a, <1>b, <1>3 DEF Finish, Does, End, Ends
<1>4. CASE UseKept(c)
  BY <1>4 DEF UseKept, Does
<1>5. CASE Serve(c)
  <2>1. Now(c).does = "make" => Now(c).what \in finished'[c]
    <3>1. ASSUME Now(c).does = "make"
          PROVE  finished' = [finished EXCEPT ![c] = @ \cup {Now(c).what}]
      BY <1>5, <3>1, Effects DEF Serve, Created
    <3> QED
      BY <3>1 DEF Shape
  <2>2. Now(c).does \in {"make", "begin"} => Now(c).what \in made'[c]
    <3>1. ASSUME Now(c).does \in {"make", "begin"}
          PROVE  made' = [made EXCEPT ![c] = @ \cup {Now(c).what}]
      BY <1>5, <3>1, Effects DEF Serve, Created
    <3> QED
      BY <3>1 DEF Shape
  <2> QED
    BY <1>5, <2>1, <2>2 DEF Serve, Requesting
<1>6. CASE TurnPage(c)
  BY <1>a, <1>6 DEF TurnPage, Stays
<1>7. CASE Ready(c)
  BY <1>7, <1>s DEF Ready, Does
<1>8. CASE StillWorking(c)
  BY <1>a, <1>e, <1>8 DEF StillWorking, Does, Stays
<1>9. CASE Unusable(c)
  BY <1>e, <1>9 DEF Unusable, Does
<1>10. CASE LookReady(c)
  BY <1>10, <1>s DEF LookReady, Does
<1>11. CASE AskAgain(c)
  BY <1>a, <1>11 DEF AskAgain, Stays
<1>12. CASE StopWatching(c)
  BY <1>e, <1>12 DEF StopWatching, Does
<1>13. CASE LoseRequest(c)
  BY <1>c, <1>13 DEF LoseRequest, Requesting
<1>14. CASE LoseReply(c)
  BY <1>c, <1>14 DEF LoseReply, Requesting
<1>15. CASE Overloaded(c)
  BY <1>b, <1>c, <1>15 DEF Overloaded, Requesting
<1>16. CASE BeRefused(c)
  BY <1>b, <1>d, <1>16 DEF BeRefused, Requesting
<1>17. CASE NotYet(c)
  BY <1>a, <1>e, <1>17 DEF NotYet, Does, Stays
<1>18. CASE Unreadable(c)
  BY <1>d, <1>e, <1>18 DEF Unreadable, Requesting
<1> QED
  BY <1>1, <1>2, <1>3, <1>4, <1>5, <1>6, <1>7, <1>8, <1>9, <1>10, <1>11, <1>12,
     <1>13, <1>14, <1>15, <1>16, <1>17, <1>18 DEF Work

-----------------------------------------------------------------------------
\* What a call has read changes with a reply; whether a fact is so, only with one
\* that says so.
LEMMA Read ==
  ASSUME NEW c, Work(c)
  PROVE  \/ known' = known
         \/ /\ GoesOn(c) \/ Now(c).does = "watch"
            /\ \E new : /\ known' = [known EXCEPT ![c] = new]
                       /\ \/ \A f : f \notin {"news", "refused"} => (f \in new <=> f \in known[c])
                          \/ Serve(c) /\ new = Learned(c)
<1>1. CASE Omit(c)
  BY <1>1 DEF Omit
<1>2. CASE FailCheck(c)
  BY <1>2 DEF FailCheck
<1>3. CASE Finish(c)
  BY <1>3 DEF Finish
<1>4. CASE UseKept(c)
  BY <1>4 DEF UseKept
<1>5. CASE Serve(c)
  BY <1>5 DEF Serve, Advance, GoesOn
<1>6. CASE TurnPage(c)
  BY <1>6 DEF TurnPage
<1>7. CASE Ready(c)
  BY <1>7 DEF Ready
<1>8. CASE StillWorking(c)
  BY <1>8 DEF StillWorking
<1>9. CASE Unusable(c)
  BY <1>9 DEF Unusable
<1>10. CASE LookReady(c)
  BY <1>10 DEF LookReady, Does
<1>11. CASE AskAgain(c)
  BY <1>11 DEF AskAgain, Does
<1>12. CASE StopWatching(c)
  BY <1>12 DEF StopWatching
<1>13. CASE LoseRequest(c)
  BY <1>13 DEF LoseRequest
<1>14. CASE LoseReply(c)
  BY <1>14 DEF LoseReply
<1>15. CASE Overloaded(c)
  BY <1>15 DEF Overloaded
<1>16. CASE BeRefused(c)
  BY <1>16 DEF BeRefused, GiveUp, Advance, GoesOn
<1>17. CASE NotYet(c)
  BY <1>17 DEF NotYet
<1>18. CASE Unreadable(c)
  BY <1>18 DEF Unreadable
<1> QED
  BY <1>1, <1>2, <1>3, <1>4, <1>5, <1>6, <1>7, <1>8, <1>9, <1>10, <1>11, <1>12,
     <1>13, <1>14, <1>15, <1>16, <1>17, <1>18 DEF Work

LEMMA Told ==
  ASSUME NEW c, Work(c)
  PROVE  told' = told \/ (Serve(c) /\ Now(c).does = "send"
                          /\ told' = [told EXCEPT ![c] = Append(@, Now(c).what)])
<1>1. CASE Omit(c)
  BY <1>1 DEF Omit
<1>2. CASE FailCheck(c)
  BY <1>2 DEF FailCheck
<1>3. CASE Finish(c)
  BY <1>3 DEF Finish
<1>4. CASE UseKept(c)
  BY <1>4 DEF UseKept
<1>5. CASE Serve(c)
  BY <1>5 DEF Serve
<1>6. CASE TurnPage(c)
  BY <1>6 DEF TurnPage
<1>7. CASE Ready(c)
  BY <1>7 DEF Ready
<1>8. CASE StillWorking(c)
  BY <1>8 DEF StillWorking
<1>9. CASE Unusable(c)
  BY <1>9 DEF Unusable
<1>10. CASE LookReady(c)
  BY <1>10 DEF LookReady
<1>11. CASE AskAgain(c)
  BY <1>11 DEF AskAgain
<1>12. CASE StopWatching(c)
  BY <1>12 DEF StopWatching
<1>13. CASE LoseRequest(c)
  BY <1>13 DEF LoseRequest
<1>14. CASE LoseReply(c)
  BY <1>14 DEF LoseReply
<1>15. CASE Overloaded(c)
  BY <1>15 DEF Overloaded
<1>16. CASE BeRefused(c)
  BY <1>16 DEF BeRefused
<1>17. CASE NotYet(c)
  BY <1>17 DEF NotYet
<1>18. CASE Unreadable(c)
  BY <1>18 DEF Unreadable
<1> QED
  BY <1>1, <1>2, <1>3, <1>4, <1>5, <1>6, <1>7, <1>8, <1>9, <1>10, <1>11, <1>12,
     <1>13, <1>14, <1>15, <1>16, <1>17, <1>18 DEF Work

-----------------------------------------------------------------------------
LEMMA ShapeKept ==
  ASSUME ScriptsAreWellBuilt, Shape, [Next]_vars
  PROVE  Shape'
<1>1. ASSUME NEW c \in DOMAIN asked, Work(c)
      PROVE  Shape'
  <2>1. UNCHANGED <<asked, steps>> /\ (Stays(c) \/ Ends(c) \/ GoesOn(c))
    BY <1>1, Moves
  <2>2. Names' = Names /\ Pieces' = Pieces /\ Facts' = Facts
    BY <2>1 DEF Names, Parts, Pieces, Facts, FactsRead, FactsIn
  <2>3. Now(c).what \in Names /\ Now(c).uses \subseteq Parts
    BY DEF Names, Parts, Now, Shape
  <2>4. told' \in [DOMAIN asked -> Seq(Names)]
    <3> HIDE DEF Names
    <3>1. CASE told' = told
      BY <3>1 DEF Shape
    <3>2. CASE told' = [told EXCEPT ![c] = Append(@, Now(c).what)]
      <4>1. told[c] \in Seq(Names)
        BY DEF Shape
      <4>2. Append(told[c], Now(c).what) \in Seq(Names)
        BY <2>3, <4>1
      <4> QED
        BY <3>2, <4>2 DEF Shape
    <3> QED
      BY <1>1, <3>1, <3>2, Told
  <2>5. out' \in [DOMAIN asked -> Seq(Pieces)]
    <3>1. CASE out' = out
      BY <3>1 DEF Shape
    <3>2. CASE Published(c)
      <4> DEFINE piece == [what |-> Now(c).what, early |-> Now(c).uses \ finished[c]]
      <4>1. out' = out \/ out' = [out EXCEPT ![c] = Append(@, piece)]
        BY <3>2 DEF Published
      <4>2. piece \in Pieces
        BY <2>3 DEF Pieces
      <4>3. out \in [DOMAIN asked -> Seq(Pieces)]
        BY DEF Shape
      <4> HIDE DEF piece
      <4>4. Append(out[c], piece) \in Seq(Pieces)
        BY <4>2, <4>3
      <4>5. out' \in [DOMAIN asked -> Seq(Pieces)]
        BY <4>1, <4>3, <4>4
      <4> QED
        BY <4>5
    <3>3. CASE Makes(c)
      BY <3>1, <3>2, <3>3, MakesWhenAsked, Effects
    <3>4. CASE Silent(c)
      BY <3>1, <3>4 DEF Silent
    <3> QED
      BY <1>1, <3>3, <3>4, MadeOrSilent
  <2>6. DOMAIN world' = Facts
    <3>1. CASE Makes(c)
      BY <3>1, MakesWhenAsked, Effects DEF Changed, Shape
    <3>2. CASE Silent(c)
      BY <3>2 DEF Silent, Shape
    <3> QED
      BY <1>1, <3>1, <3>2, MadeOrSilent
  <2>7. DOMAIN made' = DOMAIN asked /\ DOMAIN finished' = DOMAIN asked
    <3>1. CASE Makes(c)
      BY <3>1, MakesWhenAsked, Effects DEF Created, Shape
    <3>2. CASE Silent(c)
      BY <3>2 DEF Silent, Shape
    <3> QED
      BY <1>1, <3>1, <3>2, MadeOrSilent
  <2>8. at' \in [DOMAIN asked -> Nat] /\ DOMAIN ended' = DOMAIN asked
    <3> USE DEF Shape
    <3>1. CASE Stays(c)
      BY <3>1 DEF Stays
    <3>2. CASE Ends(c)
      BY <3>2 DEF Ends
    <3>3. CASE GoesOn(c)
      BY <3>3 DEF GoesOn
    <3> QED
      BY <2>1, <3>1, <3>2, <3>3
  <2>9. DOMAIN known' = DOMAIN asked
    BY <1>1, Read DEF Shape
  <2>10. \A d \in DOMAIN asked : at'[d] \in DOMAIN steps[d]
    <3>1. CASE at' = at
      BY <3>1 DEF Shape
    <3>2. CASE GoesOn(c)
      <4>1. /\ at[c] \in DOMAIN steps[c] /\ DOMAIN steps[c] = 1..Len(steps[c])
            /\ Len(steps[c]) \in Nat /\ at[c] \in Nat
            /\ steps[c][Len(steps[c])].does \in Local /\ Always(steps[c], Len(steps[c]))
        BY WellBuiltSteps DEF Shape, HasAnEnd
      <4>2. at[c] # Len(steps[c])
        BY <1>1, <3>2, <4>1, GoesOnWell DEF Now
      <4>3. at[c] + 1 \in DOMAIN steps[c]
        BY <4>1, <4>2
      <4> QED
        BY <3>2, <4>3 DEF GoesOn, Shape
    <3> QED
      BY <2>1, <3>1, <3>2 DEF Stays, Ends
  <2> QED
    BY <2>1, <2>2, <2>4, <2>5, <2>6, <2>7, <2>8, <2>9, <2>10 DEF Shape
<1>2. ASSUME UNCHANGED <<asked, steps, at, ended, known, told, made, finished, out>>,
             DOMAIN world' = DOMAIN world
      PROVE  Shape'
  <2>1. Names' = Names /\ Pieces' = Pieces /\ Facts' = Facts
    BY <1>2 DEF Names, Parts, Pieces, Facts, FactsRead, FactsIn
  <2> QED
    BY <1>2, <2>1 DEF Shape
<1>3. ASSUME NEW f \in FactsRead, Edit(f)
      PROVE  Shape'
  BY <1>2, <1>3 DEF Edit, caller
<1>4. CASE UNCHANGED vars
  BY <1>2, <1>4 DEF vars
<1> QED
  BY <1>1, <1>3, <1>4 DEF Next, Done

-----------------------------------------------------------------------------
\* Behind a call are no checks that failed, and all that it waited for.
Passed ==
  \A c \in DOMAIN asked : \A k \in 1..at[c] - 1 :
    /\ ~(steps[c][k].does = "refuse" /\ Always(steps[c], k))
    /\ Finishes(steps[c], k) => steps[c][k].what \in finished[c] \/ Trusted(c, k)

\* What goes out, and what stays finished.
Sent(c) == [what |-> Now(c).what, early |-> Now(c).uses \ finished[c]]
LEMMA OutGrows ==
  ASSUME NEW c, Work(c)
  PROVE  \/ UNCHANGED <<out, keys>>
         \/ Makes(c) /\ Now(c).does = "send" /\ Published(c)
BY MadeOrSilent, MakesWhenAsked, Effects DEF Silent

LEMMA StaysFinished ==
  ASSUME Shape, NEW c \in DOMAIN asked, Work(c), NEW d \in DOMAIN asked, NEW thing,
         thing \in finished[d], ~(d = c /\ Now(c).does = "begin" /\ thing = Now(c).what)
  PROVE  thing \in finished'[d]
<1>1. CASE finished' = finished
  BY <1>1
<1>2. CASE Created(c)
  BY <1>2 DEF Created, Shape
<1>3. CASE Silent(c)
  BY <1>3 DEF Silent, Shape
<1> QED
  BY <1>1, <1>2, <1>3, MadeOrSilent, MakesWhenAsked, Effects

LEMMA PassedKept ==
  ASSUME ScriptsAreWellBuilt, Shape, Passed, NEW c \in DOMAIN asked, Work(c)
  PROVE  Passed'
<1>1. UNCHANGED <<asked, steps>> /\ (Stays(c) \/ Ends(c) \/ GoesOn(c))
  BY Moves
<1> SUFFICES ASSUME NEW d \in DOMAIN asked, NEW k \in 1..at'[d] - 1
             PROVE  /\ ~(steps[d][k].does = "refuse" /\ Always(steps[d], k))
                    /\ Finishes(steps[d], k) => \/ steps[d][k].what \in finished'[d]
                                               \/ Trusted(d, k)'
  BY <1>1 DEF Passed, Always, Surely, Finishes
<1>2. at[d] \in Nat /\ (at'[d] = at[d] \/ (d = c /\ GoesOn(c) /\ at'[d] = at[d] + 1))
  BY <1>1 DEF Stays, Ends, GoesOn, Shape
<1>3. CASE k \in 1..at[d] - 1
  <2>1. at[d] \in DOMAIN steps[d] /\ at[d] > k
    BY <1>2, <1>3 DEF Shape
  <2>2. Finishes(steps[d], k) => ~(d = c /\ Now(c).does = "begin"
                                   /\ steps[d][k].what = Now(c).what)
    BY <2>1 DEF Finishes, Now
  <2> QED
    BY <1>1, <1>3, <2>2, StaysFinished, Moves DEF Passed, Trusted
<1>4. CASE k = at[c] /\ d = c /\ GoesOn(c)
  BY <1>1, <1>4, GoesOnWell DEF Local, Now, Trusted, Heeded
<1> QED
  BY <1>2, <1>3, <1>4

-----------------------------------------------------------------------------
\* What a call has sent: by a send it is past, or is at, and then it did not
\* hear of it and may send it again.
SentBy(c, what) ==
  \E i \in SendsOf(steps[c]) :
    /\ steps[c][i].what = what /\ i <= at[c]
    /\ (i = at[c] /\ Running(c))
         => Befell(c, "lost") /\ ~Now(c).once /\ (Now(c).key # <<>> => KeyOf(c) \in keys)
SentSoFar == \A c \in DOMAIN asked : \A what \in Items(c) : SentBy(c, what)

SentTwice ==
  \A c \in DOMAIN asked : \A i, j \in DOMAIN out[c] :
    (i # j /\ out[c][i].what = out[c][j].what)
      => Befell(c, "lost") /\ ~Protected(asked[c])

LEMMA Appended ==
  ASSUME Shape, NEW c \in DOMAIN asked, Work(c), out' # out
  PROVE  /\ out'[c] = Append(out[c], Sent(c)) /\ \A d \in DOMAIN asked : d # c => out'[d] = out[d]
         /\ Items(c)' = Items(c) \cup {Now(c).what}
         /\ DOMAIN out'[c] = DOMAIN out[c] \cup {Len(out[c]) + 1}
         /\ Len(out[c]) + 1 \notin DOMAIN out[c]
         /\ \A i \in DOMAIN out[c] : out'[c][i] = out[c][i]
         /\ out'[c][Len(out[c]) + 1] = Sent(c)
         /\ Makes(c) /\ Now(c).does = "send"
         /\ ~(Now(c).key # <<>> /\ KeyOf(c) \in keys)
<1>1. Makes(c) /\ Now(c).does = "send" /\ Published(c)
  BY OutGrows
<1>2. out' = [out EXCEPT ![c] = Append(@, Sent(c))] /\ ~(Now(c).key # <<>> /\ KeyOf(c) \in keys)
  BY <1>1 DEF Published, Sent
<1>3. out'[c] = Append(out[c], Sent(c)) /\ \A d \in DOMAIN asked : d # c => out'[d] = out[d]
  BY <1>2 DEF Shape
<1>4. out[c] \in Seq(Pieces)
  BY DEF Shape
<1>5. /\ DOMAIN out'[c] = DOMAIN out[c] \cup {Len(out[c]) + 1}
      /\ Len(out[c]) + 1 \notin DOMAIN out[c]
      /\ \A i \in DOMAIN out[c] : out'[c][i] = out[c][i]
      /\ out'[c][Len(out[c]) + 1] = Sent(c)
  BY <1>3, <1>4
<1>6. Items(c)' = Items(c) \cup {Now(c).what}
  <2>1. Sent(c).what = Now(c).what
    BY DEF Sent
  <2> QED
    BY <1>5, <2>1 DEF Items
<1> QED
  BY <1>1, <1>2, <1>3, <1>5, <1>6

\* What went out early did so because nothing was said of it.
MayBeEarly(c, part) == <<c, "unsaid", part>> \in history /\ MayGoOutEarly(asked[c], part)

LEMMA WholeKept ==
  ASSUME ScriptsAreWellBuilt, Shape, Passed, OutIsWhole, NEW c \in DOMAIN asked, Work(c)
  PROVE  OutIsWhole'
<1>1. asked' = asked /\ history \subseteq history'
  BY Moves
<1>2. \A d \in DOMAIN asked : \A i \in DOMAIN out[d] : \A part \in out[d][i].early :
        MayBeEarly(d, part)'
  BY <1>1 DEF OutIsWhole, Active, MayBeEarly
<1>3. CASE out' = out
  BY <1>1, <1>2, <1>3 DEF OutIsWhole, Active, MayBeEarly
<1>4. CASE out' # out
  <2>1. /\ out'[c] = Append(out[c], Sent(c)) /\ \A d \in DOMAIN asked : d # c => out'[d] = out[d]
        /\ DOMAIN out'[c] = DOMAIN out[c] \cup {Len(out[c]) + 1}
        /\ \A i \in DOMAIN out[c] : out'[c][i] = out[c][i]
        /\ out'[c][Len(out[c]) + 1] = Sent(c) /\ Now(c).does = "send"
    BY <1>4, Appended
  <2>2. at[c] \in SendsOf(steps[c]) /\ at[c] \in Nat
    BY <2>1 DEF SendsOf, Now, Shape
  <2>3. ~Barred(steps[c], at[c])
    BY DEF Barred, Passed
  <2>4. ASSUME NEW part \in Sent(c).early
        PROVE  MayBeEarly(c, part)'
    <3>1. part \in Now(c).uses /\ part \notin finished[c]
      BY DEF Sent
    <3>2. PICK j \in 1..at[c] - 1 : Finishes(steps[c], j) /\ steps[c][j].what = part
      BY <2>2, <2>3, <3>1, WellBuiltSteps DEF UsesWhatIsFinished, Now
    <3>3. Trusted(c, j)
      BY <3>1, <3>2 DEF Passed
    <3>4. j \in DOMAIN steps[c]
      BY <2>2, <3>2, WellBuiltSteps DEF HasAnEnd, Shape
    <3> QED
      BY <1>1, <3>2, <3>3, <3>4, WellBuiltSteps DEF Trusted, TrustsSilence, MayBeEarly
  <2>5. \A d \in DOMAIN asked : \A i \in DOMAIN out'[d] : \A part \in out'[d][i].early :
          MayBeEarly(d, part)'
    <3> SUFFICES ASSUME NEW d \in DOMAIN asked, NEW i \in DOMAIN out'[d],
                        NEW part \in out'[d][i].early
                 PROVE  MayBeEarly(d, part)'
      OBVIOUS
    <3>1. CASE d # c \/ i \in DOMAIN out[c]
      BY <1>2, <2>1, <3>1
    <3>2. CASE d = c /\ i = Len(out[c]) + 1
      BY <2>1, <2>4, <3>2
    <3> QED
      BY <2>1, <3>1, <3>2
  <2> QED
    BY <1>1, <2>5 DEF OutIsWhole, Active, MayBeEarly
<1> QED
  BY <1>3, <1>4

LEMMA KeysGrow ==
  ASSUME NEW c, Work(c)
  PROVE  /\ keys \subseteq keys'
         /\ (Makes(c) /\ Now(c).does = "send" /\ Now(c).key # <<>>) => KeyOf(c) \in keys'
BY OutGrows, MakesWhenAsked, Effects DEF Published

\* A request that was served is sent again only when its reply got lost.
LEMMA MakesMoves ==
  ASSUME ScriptsAreWellBuilt, Shape, NEW c \in DOMAIN asked, Makes(c)
  PROVE  GoesOn(c) \/ Ends(c) \/ (Stays(c) /\ ~Now(c).once /\ <<c, "lost">> \in history')
<1>1. Named(c)
  BY ErrorsAreNamed
<1>2. CASE Serve(c)
  BY <1>2 DEF Serve, Advance, GoesOn
<1>3. CASE LoseReply(c)
  BY <1>1, <1>3, TriedAgain DEF LoseReply, Named
<1>4. CASE Unreadable(c)
  BY <1>1, <1>4, GivenUp, Raised DEF Unreadable, Named
<1> QED
  BY <1>2, <1>3, <1>4 DEF Makes

LEMMA SentSoFarKept ==
  ASSUME ScriptsAreWellBuilt, Shape, SentSoFar, NEW c \in DOMAIN asked, Work(c)
  PROVE  SentSoFar'
<1>1. UNCHANGED <<asked, steps>> /\ (Stays(c) \/ Ends(c) \/ GoesOn(c)) /\ Running(c)
      /\ history \subseteq history'
  BY Moves
<1>2. \A d \in DOMAIN asked : d # c => /\ Items(d)' = Items(d) /\ at'[d] = at[d]
                                       /\ ended'[d] = ended[d] /\ known'[d] = known[d]
  <2>1. \A d \in DOMAIN asked : d # c => out'[d] = out[d]
    BY Appended
  <2>2. \A d \in DOMAIN asked : d # c => at'[d] = at[d] /\ ended'[d] = ended[d]
    <3>1. CASE Stays(c)
      BY <3>1 DEF Stays
    <3>2. CASE Ends(c)
      BY <3>2 DEF Ends, Shape
    <3>3. CASE GoesOn(c)
      BY <3>3 DEF GoesOn, Shape
    <3> QED
      BY <1>1, <3>1, <3>2, <3>3
  <2>3. \A d \in DOMAIN asked : d # c => known'[d] = known[d]
    <3>1. DOMAIN known = DOMAIN asked
      BY DEF Shape
    <3> QED
      BY <3>1, Read
  <2> QED
    BY <2>1, <2>2, <2>3 DEF Items
<1>3. ASSUME NEW d \in DOMAIN asked, d # c, NEW what \in Items(d)'
      PROVE  SentBy(d, what)'
  <2>1. Now(d)' = Now(d) /\ KeyOf(d)' = KeyOf(d) /\ Running(d)' = Running(d)
        /\ (Befell(d, "lost") => Befell(d, "lost")')
    BY <1>1, <1>2, <1>3 DEF Now, KeyOf, Running, Befell
  <2> QED
    BY <1>1, <1>2, <1>3, <2>1, KeysGrow DEF SentSoFar, SentBy, SendsOf
<1>4. at[c] \in Nat
      /\ (Stays(c) => at'[c] = at[c] /\ ended'[c] = ended[c])
      /\ (GoesOn(c) => at'[c] = at[c] + 1) /\ (Ends(c) => at'[c] = at[c] /\ ended'[c] # "running")
  BY DEF Stays, Ends, GoesOn, Shape
<1>5. ASSUME NEW what \in Items(c)'
      PROVE  SentBy(c, what)'
  <2>1. CASE what \in Items(c)
    <3>1. PICK i \in SendsOf(steps[c]) :
            /\ steps[c][i].what = what /\ i <= at[c]
            /\ i = at[c] => /\ Befell(c, "lost") /\ ~Now(c).once
                            /\ Now(c).key # <<>> => KeyOf(c) \in keys
      BY <1>1, <2>1 DEF SentSoFar, SentBy
    <3>2. i \in Nat
      BY WellBuiltSteps DEF SendsOf, HasAnEnd
    <3>3. ASSUME i = at'[c], Running(c)'
          PROVE  /\ Befell(c, "lost")' /\ ~Now(c)'.once
                 /\ Now(c)'.key # <<>> => KeyOf(c)' \in keys'
      <4>1. Stays(c) /\ i = at[c] /\ Now(c)' = Now(c) /\ ~GoesOn(c)
        BY <1>1, <1>4, <3>1, <3>2, <3>3 DEF Running, Now
      <4>2. Now(c).does = "send"
        BY <4>1 DEF SendsOf, Now
      <4>3. KeyOf(c)' = KeyOf(c)
        BY <4>1, <4>2, Read DEF KeyOf
      <4> QED
        BY <1>1, <3>1, <4>1, <4>3, KeysGrow DEF Befell
    <3> QED
      BY <1>1, <1>4, <3>1, <3>2, <3>3 DEF SentBy, SendsOf
  <2>2. CASE what \notin Items(c)
    <3>1. out' # out
      BY <2>2 DEF Items
    <3>2. what = Now(c).what /\ Makes(c) /\ Now(c).does = "send"
      BY <2>2, <3>1, Appended
    <3>3. at[c] \in SendsOf(steps[c]) /\ steps[c][at[c]].what = what
      BY <3>2 DEF SendsOf, Now, Shape
    <3>4. ASSUME at[c] = at'[c], Running(c)'
          PROVE  /\ Befell(c, "lost")' /\ ~Now(c)'.once
                 /\ Now(c)'.key # <<>> => KeyOf(c)' \in keys'
      <4>1. Stays(c) /\ ~GoesOn(c) /\ Now(c)' = Now(c) /\ ~Ends(c)
        BY <1>1, <1>4, <3>4 DEF Running, Now
      <4>2. KeyOf(c)' = KeyOf(c)
        BY <3>2, <4>1, Read DEF KeyOf
      <4> QED
        BY <3>2, <4>1, <4>2, MakesMoves, KeysGrow DEF Befell
    <3> QED
      BY <1>1, <1>4, <3>3, <3>4 DEF SentBy, SendsOf
  <2> QED
    BY <2>1, <2>2
<1> QED
  BY <1>1, <1>3, <1>5 DEF SentSoFar

LEMMA SentTwiceKept ==
  ASSUME ScriptsAreWellBuilt, Shape, SentSoFar, SentTwice, NEW c \in DOMAIN asked, Work(c)
  PROVE  SentTwice'
<1>1. UNCHANGED <<asked, steps>> /\ Running(c) /\ history \subseteq history'
  BY Moves
<1>2. CASE out' = out
  BY <1>1, <1>2 DEF SentTwice, Befell
<1>3. CASE out' # out
  <2>1. ASSUME NEW d \in DOMAIN asked, d # c
        PROVE  \A i, j \in DOMAIN out'[d] : (i # j /\ out'[d][i].what = out'[d][j].what)
                 => Befell(d, "lost")' /\ ~Protected(asked[d])
    BY <1>1, <1>3, <2>1, Appended DEF SentTwice, Befell
  <2>2. ASSUME Now(c).what \in Items(c)
        PROVE  Befell(c, "lost")' /\ ~Protected(asked[c])
    <3>1. at[c] \in SendsOf(steps[c])
      BY <1>3, Appended DEF SendsOf, Now, Shape
    <3>2. PICK i \in SendsOf(steps[c]) :
            /\ steps[c][i].what = Now(c).what
            /\ i = at[c] => /\ Befell(c, "lost") /\ ~Now(c).once
                            /\ Now(c).key # <<>> => KeyOf(c) \in keys
      BY <1>1, <2>2 DEF SentSoFar, SentBy
    <3>3. i = at[c]
      BY <3>1, <3>2, WellBuiltSteps DEF SendsEachOnce, Now
    <3>4. Now(c).key = <<>>
      BY <1>3, <3>2, <3>3, Appended
    <3> QED
      BY <1>1, <3>1, <3>2, <3>3, <3>4, WellBuiltSteps DEF SendsEachOnce, Now, Befell
  <2>3. ASSUME NEW i \in DOMAIN out'[c], NEW j \in DOMAIN out'[c], i # j,
               out'[c][i].what = out'[c][j].what
        PROVE  Befell(c, "lost")' /\ ~Protected(asked[c])
    <3>1. Sent(c).what = Now(c).what
      BY DEF Sent
    <3>2. CASE i \in DOMAIN out[c] /\ j \in DOMAIN out[c]
      BY <1>1, <1>3, <2>3, <3>2, Appended DEF SentTwice, Befell
    <3>3. CASE i \notin DOMAIN out[c]
      BY <1>3, <2>2, <2>3, <3>1, <3>3, Appended DEF Items
    <3>4. CASE j \notin DOMAIN out[c]
      BY <1>3, <2>2, <2>3, <3>1, <3>4, Appended DEF Items
    <3> QED
      BY <3>2, <3>3, <3>4
  <2> QED
    BY <1>1, <2>1, <2>3 DEF SentTwice
<1> QED
  BY <1>2, <1>3

-----------------------------------------------------------------------------
\* A key that was seen is that of something that is out.
KeysAreOut ==
  \A k \in keys : \E d \in DOMAIN asked : \E j \in SendsOf(steps[d]) :
    /\ steps[d][j].key = k[1] /\ steps[d][j].what \in Items(d)
    /\ k[1] = Session => k[2] = {d}

LEMMA ItemsGrow ==
  ASSUME Shape, NEW c \in DOMAIN asked, Work(c), NEW d \in DOMAIN asked
  PROVE  Items(d) \subseteq Items(d)'
<1>1. CASE out' = out
  BY <1>1 DEF Items
<1>2. CASE out' # out
  BY <1>2, Appended DEF Items
<1> QED
  BY <1>1, <1>2

LEMMA KeysAreOutKept ==
  ASSUME ScriptsAreWellBuilt, Shape, KeysAreOut, NEW c \in DOMAIN asked, Work(c)
  PROVE  KeysAreOut'
<1>1. UNCHANGED <<asked, steps>>
  BY Moves
<1>2. \A k \in keys : \E d \in DOMAIN asked : \E j \in SendsOf(steps[d]) :
        /\ steps[d][j].key = k[1] /\ steps[d][j].what \in Items(d)'
        /\ k[1] = Session => k[2] = {d}
  BY ItemsGrow DEF KeysAreOut
<1>3. ASSUME NEW k \in keys' \ keys
      PROVE  \E j \in SendsOf(steps[c]) :
               /\ steps[c][j].key = k[1] /\ steps[c][j].what \in Items(c)'
               /\ k[1] = Session => k[2] = {c}
  <2>1. Makes(c) /\ Now(c).does = "send" /\ Published(c)
    BY <1>3, OutGrows
  <2>2. k = KeyOf(c)
    BY <1>3, <2>1 DEF Published
  <2>3. out'[c] = Append(out[c], Sent(c)) /\ out[c] \in Seq(Pieces)
    BY <1>3, <2>1 DEF Published, Sent, Shape
  <2>4. out' # out
    BY <2>3
  <2>5. /\ at[c] \in SendsOf(steps[c]) /\ KeyOf(c)[1] = Now(c).key
        /\ Now(c).key = Session => KeyOf(c)[2] = {c}
    BY <2>1 DEF SendsOf, Now, KeyOf, Shape
  <2> QED
    BY <2>2, <2>4, <2>5, Appended DEF Now
<1>4. \A d : SendsOf(steps[d])' = SendsOf(steps[d])
  BY <1>1 DEF SendsOf
<1> QED
  BY <1>1, <1>2, <1>3, <1>4 DEF KeysAreOut

\* What a served request tells of, its own call has sent, or another one for the
\* same thing.
IsOut(c, what) ==
  \/ what \in Items(c)'
  \/ \E d \in DOMAIN asked : SameByName(asked[c], asked[d]) /\ what \in Items(d)'
LEMMA ServedIsOut ==
  ASSUME ScriptsAreWellBuilt, Shape, KeysAreOut, NEW c \in DOMAIN asked, Work(c), Makes(c),
         Now(c).does = "send"
  PROVE  IsOut(c, Now(c).what)
<1>0. asked' = asked
  BY Moves
<1>1. CASE out' # out
  BY <1>1, Appended DEF IsOut
<1>2. CASE out' = out
  <2>1. ~(out[c] = Append(out[c], Sent(c)))
    BY DEF Shape
  <2>2. Now(c).key # <<>> /\ KeyOf(c) \in keys
    <3>1. Published(c)
      BY MakesWhenAsked, Effects
    <3>2. c \in DOMAIN out
      BY DEF Shape
    <3>3. out' # [out EXCEPT ![c] = Append(@, Sent(c))]
      BY <1>2, <2>1, <3>2
    <3> QED
      BY <3>1, <3>3 DEF Published, Sent
  <2>3. KeyOf(c)[1] = Now(c).key /\ (Now(c).key = Session => KeyOf(c)[2] = {c})
    BY DEF KeyOf
  <2>4. PICK d \in DOMAIN asked : \E j \in SendsOf(steps[d]) :
          /\ steps[d][j].key = Now(c).key /\ steps[d][j].what \in Items(d)
          /\ Now(c).key = Session => d = c
    BY <2>2, <2>3 DEF KeysAreOut
  <2>5. PICK j \in SendsOf(steps[d]) :
          steps[d][j].key = Now(c).key /\ steps[d][j].what \in Items(d)
    BY <2>4
  <2>6. at[c] \in SendsOf(steps[c]) /\ Now(c) = steps[c][at[c]]
    BY DEF SendsOf, Now, Shape
  <2>7. KeysTellApart(asked[c], steps[c], asked[d], steps[d])
    BY DEF ScriptsAreWellBuilt, WellBuilt, Shape
  <2>8. Now(c).what = steps[d][j].what
    BY <2>2, <2>5, <2>6, <2>7 DEF KeysTellApart
  <2>9. d = c \/ SameByName(asked[c], asked[d])
    <3>1. CASE Now(c).key = Session
      BY <2>4, <3>1
    <3>2. CASE Now(c).key # Session
      BY <2>2, <2>5, <2>6, <2>7, <3>2 DEF KeysTellApart
    <3> QED
      BY <3>1, <3>2
  <2> QED
    BY <1>0, <2>5, <2>8, <2>9, ItemsGrow DEF IsOut
<1> QED
  BY <1>1, <1>2

LEMMA ToldIsOutKept ==
  ASSUME ScriptsAreWellBuilt, Shape, KeysAreOut, ToldIsOut, NEW c \in DOMAIN asked, Work(c)
  PROVE  ToldIsOut'
<1>1. asked' = asked
  BY Moves
<1>2. \A d \in DOMAIN asked : \A i \in DOMAIN told[d] : IsOut(d, told[d][i])
  <2> SUFFICES ASSUME NEW d \in DOMAIN asked, NEW i \in DOMAIN told[d]
               PROVE  IsOut(d, told[d][i])
    OBVIOUS
  <2> QED
    BY ItemsGrow DEF ToldIsOut, IsOut, Active
<1>3. CASE told' = told
  BY <1>1, <1>2, <1>3 DEF ToldIsOut, IsOut, Active
<1>4. CASE Serve(c) /\ Now(c).does = "send" /\ told' = [told EXCEPT ![c] = Append(@, Now(c).what)]
  <2>1. told[c] \in Seq(Names) /\ c \in DOMAIN told
    BY DEF Shape
  <2>2. told'[c] = Append(told[c], Now(c).what) /\ \A d \in DOMAIN asked : d # c => told'[d] = told[d]
    BY <1>4, <2>1 DEF Shape
  <2>3. \A i \in DOMAIN told'[c] : (i \in DOMAIN told[c] /\ told'[c][i] = told[c][i])
                                  \/ told'[c][i] = Now(c).what
    BY <2>1, <2>2
  <2>4. IsOut(c, Now(c).what)
    BY <1>4, ServedIsOut DEF Makes
  <2>5. ASSUME NEW d \in DOMAIN asked, NEW i \in DOMAIN told'[d]
        PROVE  IsOut(d, told'[d][i])
    <3>1. CASE d = c
      BY <1>2, <2>3, <2>4, <2>5, <3>1
    <3>2. CASE d # c
      BY <1>2, <2>2, <2>5, <3>2
    <3> QED
      BY <3>1, <3>2
  <2> QED
    BY <1>1, <2>5 DEF ToldIsOut, IsOut, Active
<1> QED
  BY <1>3, <1>4, Told

-----------------------------------------------------------------------------
\* A call that fails says what it was told of, and it was told of everything but
\* what a lost or unreadable reply hides.
Honest ==
  \A c \in DOMAIN asked :
    /\ Befell(c, "lost") \/ Befell(c, "garbled") \/ Items(c) \subseteq Range(told[c])
    /\ told[c] # <<>> => \E i \in SendsOf(steps[c]) : i < at[c]
    /\ (Failed(c) /\ told[c] # <<>> /\ ~LooksAfterwards(asked[c]))
         => ended[c] = "PartialThreadError"

\* A call ends at its result, or with an error.
LEMMA EndsHow ==
  ASSUME ScriptsAreWellBuilt, Shape, NEW c \in DOMAIN asked, Work(c), ended' # ended
  PROVE  (Finish(c) /\ Now(c).does = "return") \/ \E error : Raise(c, error)
<1>1. CASE Omit(c)
  BY <1>1 DEF Omit, Advance
<1>2. CASE FailCheck(c)
  BY <1>2 DEF FailCheck
<1>3. CASE Finish(c)
  BY <1>3 DEF Finish, Does
<1>4. CASE UseKept(c)
  BY <1>4 DEF UseKept, Advance
<1>5. CASE Serve(c)
  BY <1>5 DEF Serve, Advance
<1>6. CASE TurnPage(c)
  BY <1>6 DEF TurnPage
<1>7. CASE Ready(c)
  BY <1>7 DEF Ready, Advance
<1>8. CASE StillWorking(c)
  BY <1>8 DEF StillWorking
<1>9. CASE Unusable(c)
  BY <1>9 DEF Unusable
<1>10. CASE LookReady(c)
  BY <1>10 DEF LookReady, Advance
<1>11. CASE AskAgain(c)
  BY <1>11 DEF AskAgain
<1>12. CASE StopWatching(c)
  BY <1>12 DEF StopWatching
<1>13. CASE LoseRequest(c)
  BY <1>13 DEF LoseRequest, TryAgainOr, GiveUp, Advance
<1>14. CASE LoseReply(c)
  BY <1>14 DEF LoseReply, TryAgainOr, GiveUp, Advance
<1>15. CASE Overloaded(c)
  BY <1>15 DEF Overloaded, TryAgainOr, GiveUp, Advance
<1>16. CASE BeRefused(c)
  BY <1>16 DEF BeRefused, GiveUp, Advance
<1>17. CASE NotYet(c)
  BY <1>17 DEF NotYet
<1>18. CASE Unreadable(c)
  BY <1>18 DEF Unreadable, GiveUp, Advance
<1> QED
  BY <1>1, <1>2, <1>3, <1>4, <1>5, <1>6, <1>7, <1>8, <1>9, <1>10, <1>11, <1>12,
     <1>13, <1>14, <1>15, <1>16, <1>17, <1>18 DEF Work

\* At its result it can only end, or go past it.
LEMMA AtReturn ==
  ASSUME NEW c, Work(c), Now(c).does = "return", ended' # ended
  PROVE  Finish(c)
<1> USE DEF Does, Requesting, Local
<1>1. CASE Omit(c)
  BY <1>1 DEF Omit, Advance
<1>2. CASE FailCheck(c)
  BY <1>2 DEF FailCheck
<1>3. CASE Finish(c)
  BY <1>3
<1>4. CASE UseKept(c)
  BY <1>4 DEF UseKept
<1>5. CASE Serve(c)
  BY <1>5 DEF Serve
<1>6. CASE TurnPage(c)
  BY <1>6 DEF TurnPage
<1>7. CASE Ready(c)
  BY <1>7 DEF Ready
<1>8. CASE StillWorking(c)
  BY <1>8 DEF StillWorking
<1>9. CASE Unusable(c)
  BY <1>9 DEF Unusable
<1>10. CASE LookReady(c)
  BY <1>10 DEF LookReady
<1>11. CASE AskAgain(c)
  BY <1>11 DEF AskAgain
<1>12. CASE StopWatching(c)
  BY <1>12 DEF StopWatching
<1>13. CASE LoseRequest(c)
  BY <1>13 DEF LoseRequest
<1>14. CASE LoseReply(c)
  BY <1>14 DEF LoseReply
<1>15. CASE Overloaded(c)
  BY <1>15 DEF Overloaded
<1>16. CASE BeRefused(c)
  BY <1>16 DEF BeRefused
<1>17. CASE NotYet(c)
  BY <1>17 DEF NotYet
<1>18. CASE Unreadable(c)
  BY <1>18 DEF Unreadable
<1> QED
  BY <1>1, <1>2, <1>3, <1>4, <1>5, <1>6, <1>7, <1>8, <1>9, <1>10, <1>11, <1>12,
     <1>13, <1>14, <1>15, <1>16, <1>17, <1>18 DEF Work

LEMMA HonestKept ==
  ASSUME ScriptsAreWellBuilt, Shape, Honest, NEW c \in DOMAIN asked, Work(c)
  PROVE  Honest'
<1>1. UNCHANGED <<asked, steps>> /\ history \subseteq history' /\ Running(c)
      /\ (Stays(c) \/ Ends(c) \/ GoesOn(c))
  BY Moves
<1>2. /\ at[c] \in Nat /\ c \in DOMAIN told /\ told[c] \in Seq(Names)
      /\ \A d \in DOMAIN asked : d # c => at'[d] = at[d] /\ ended'[d] = ended[d] /\ told'[d] = told[d]
  <2>1. at[c] \in Nat /\ c \in DOMAIN told /\ told[c] \in Seq(Names)
    BY DEF Shape
  <2>2. \A d \in DOMAIN asked : d # c => told'[d] = told[d]
    <3>1. DOMAIN told = DOMAIN asked
      BY DEF Shape
    <3> QED
      BY <2>1, <3>1, Told
  <2>3. CASE Stays(c)
    BY <2>1, <2>2, <2>3 DEF Stays
  <2>4. CASE Ends(c)
    BY <2>1, <2>2, <2>4 DEF Ends, Shape
  <2>5. CASE GoesOn(c)
    BY <2>1, <2>2, <2>5 DEF GoesOn, Shape
  <2> QED
    BY <1>1, <2>3, <2>4, <2>5
<1>3. ASSUME NEW d \in DOMAIN asked, d # c
      PROVE  /\ Befell(d, "lost")' \/ Befell(d, "garbled")' \/ Items(d)' \subseteq Range(told'[d])
             /\ told'[d] # <<>> => \E i \in SendsOf(steps[d]) : i < at'[d]
             /\ (Failed(d)' /\ told'[d] # <<>> /\ ~LooksAfterwards(asked[d]))
                  => ended'[d] = "PartialThreadError"
  <2>1. Items(d)' = Items(d)
    BY <1>3, Appended DEF Items
  <2> QED
    BY <1>1, <1>2, <1>3, <2>1 DEF Honest, Befell, Failed
<1>4. Befell(c, "lost")' \/ Befell(c, "garbled")' \/ Items(c)' \subseteq Range(told'[c])
  <2>1. Range(told[c]) \subseteq Range(told'[c])
    BY <1>2, Told DEF Range
  <2>2. CASE out' = out
    BY <1>1, <2>1, <2>2 DEF Honest, Befell, Items
  <2>3. CASE out' # out /\ Serve(c)
    <3>1. Now(c).does = "send" /\ Items(c)' = Items(c) \cup {Now(c).what}
      BY <2>3, Appended
    <3>2. told'[c] = Append(told[c], Now(c).what)
      BY <1>2, <2>3, <3>1 DEF Serve
    <3>3. Now(c).what \in Range(told'[c])
      BY <1>2, <3>2 DEF Range
    <3> QED
      BY <1>1, <2>1, <3>1, <3>3 DEF Honest, Befell
  <2>4. CASE LoseReply(c) \/ Unreadable(c)
    BY <2>4 DEF LoseReply, Unreadable, Befell
  <2> QED
    BY <2>2, <2>3, <2>4, Appended DEF Makes
<1>5. told'[c] # <<>> => \E i \in SendsOf(steps[c]) : i < at'[c]
  <2>1. \A i \in SendsOf(steps[c]) : i < at[c] => i < at'[c]
    <3>1. at'[c] = at[c] \/ at'[c] = at[c] + 1
      BY <1>1, <1>2 DEF Stays, Ends, GoesOn, Shape
    <3>2. SendsOf(steps[c]) \subseteq Nat
      BY WellBuiltSteps DEF SendsOf, HasAnEnd
    <3> QED
      BY <1>2, <3>1, <3>2
  <2>2. CASE told' = told
    BY <2>1, <2>2 DEF Honest
  <2>3. CASE Serve(c) /\ Now(c).does = "send"
    <3>1. at'[c] = at[c] + 1
      BY <2>3 DEF Serve, Advance, Shape
    <3>2. at[c] \in SendsOf(steps[c])
      BY <2>3 DEF SendsOf, Now, Shape
    <3> QED
      BY <1>2, <3>1, <3>2
  <2> QED
    BY <2>2, <2>3, Told
<1>6. ASSUME Failed(c)', told'[c] # <<>>, ~LooksAfterwards(asked[c])
      PROVE  ended'[c] = "PartialThreadError"
  <2>1. ended' # ended
    BY <1>1, <1>6 DEF Failed, Running
  <2>2. told' = told
    BY <2>1, Told DEF Serve, Advance
  <2>3. CASE Finish(c) /\ Now(c).does = "return"
    <3>1. Now(c).what \subseteq Results
      BY <2>3, ErrorsAreNamed DEF Named
    <3> QED
      BY <1>6, <2>3, <3>1 DEF Finish, End, Failed, Shape
  <2>4. ASSUME NEW error, Raise(c, error)
        PROVE  ended'[c] = "PartialThreadError"
    <3>1. CASE TellsWhatWentOut(asked[c])
      BY <1>6, <2>2, <2>4, <3>1 DEF Raise, RaisedAs, End, Shape
    <3>2. CASE ~TellsWhatWentOut(asked[c]) /\ Now(c).does # "return"
      <4>1. PICK i \in SendsOf(steps[c]) : i < at[c]
        BY <1>6, <2>2 DEF Honest
      <4>2. Now(c).does = "return"
        BY <1>2, <1>6, <3>2, <4>1, WellBuiltSteps DEF IsDoneOnceSent, Now, Shape
      <4> QED
        BY <3>2, <4>2
    <3>3. CASE Now(c).does = "return"
      <4>1. Finish(c)
        BY <2>1, <3>3, AtReturn
      <4> QED
        BY <2>3, <3>3, <4>1
    <3> QED
      BY <3>1, <3>2, <3>3
  <2> QED
    BY <2>1, <2>3, <2>4, EndsHow
<1>7. \A d : SendsOf(steps[d])' = SendsOf(steps[d])
  BY <1>1 DEF SendsOf
<1> QED
  BY <1>1, <1>3, <1>4, <1>5, <1>6, <1>7 DEF Honest

-----------------------------------------------------------------------------
\* As long as nobody edits it, a call that has read whether a thing is public
\* knows it, and only such a call does.
Unedited == <<"public", "edited">> \notin history
ReadsIt(c) == \E j \in DOMAIN steps[c] : ReadsPublic(steps[c], j)
MustRead(c, j) == ReadsPublic(steps[c], j) /\ Surely(steps[c], j)
KnowsPublic(c) ==
  /\ "public" \in known[c] => ReadsIt(c) /\ Holds("public")
  /\ \A j \in 1..at[c] - 1 : MustRead(c, j) => (Holds("public") => "public" \in known[c])
PublicRead == Unedited => \A c \in DOMAIN asked : KnowsPublic(c)

LEMMA ReadFacts ==
  ASSUME Shape, NEW d \in DOMAIN asked, ReadsIt(d)
  PROVE  "public" \in DOMAIN world
<1>1. PICK j \in DOMAIN steps[d] : ReadsPublic(steps[d], j)
  BY DEF ReadsIt
<1>2. d \in DOMAIN steps
  BY DEF Shape
<1>3. "public" \in FactsIn(Reads)
  BY <1>1, <1>2 DEF FactsIn, ReadsPublic
<1> QED
  BY <1>3 DEF Shape, Facts, FactsRead, Reads

LEMMA PublicStays ==
  ASSUME ScriptsAreWellBuilt, Shape, NEW c \in DOMAIN asked, Work(c),
         NEW d \in DOMAIN asked, ReadsIt(d)
  PROVE  Holds("public")' = Holds("public")
<1>1. "public" \in DOMAIN world
  BY ReadFacts
<1>2. CASE world' = world
  BY <1>2 DEF Holds
<1>3. CASE Changed(c) /\ Now(c).does \in {"add", "set", "unset", "drop", "spend"}
  <2>1. Now(c).what # "public"
    BY <1>3, WellBuiltSteps DEF LeavesPublicAlone, Changing, Now, Shape
  <2> QED
    BY <1>1, <1>3, <2>1 DEF Changed, Holds
<1> QED
  BY <1>2, <1>3, MadeOrSilent, MakesWhenAsked, Effects DEF Silent

LEMMA PublicReadKept ==
  ASSUME ScriptsAreWellBuilt, Shape, PublicRead, NEW c \in DOMAIN asked, Work(c)
  PROVE  PublicRead'
<1>1. UNCHANGED <<asked, steps>> /\ history \subseteq history'
      /\ (Stays(c) \/ Ends(c) \/ GoesOn(c))
  BY Moves
<1> SUFFICES ASSUME Unedited', NEW d \in DOMAIN asked
             PROVE  KnowsPublic(d)'
  BY <1>1 DEF PublicRead
<1>2. KnowsPublic(d)
  BY <1>1 DEF PublicRead, Unedited
<1>3. ReadsIt(d)' = ReadsIt(d) /\ \A j : MustRead(d, j)' = MustRead(d, j)
  BY <1>1 DEF ReadsIt, MustRead, ReadsPublic, Surely, Always
<1>4. ReadsIt(d) => Holds("public")' = Holds("public")
  BY PublicStays
<1>5. \A j \in DOMAIN steps[d] : MustRead(d, j) => ReadsIt(d)
  BY DEF MustRead, ReadsIt
<1>6. /\ at[d] \in DOMAIN steps[d] /\ DOMAIN steps[d] = 1..Len(steps[d])
      /\ Len(steps[d]) \in Nat /\ at[d] \in Nat
  BY WellBuiltSteps DEF HasAnEnd, Shape
<1>7. at'[d] = at[d] \/ (d = c /\ GoesOn(c) /\ at'[d] = at[d] + 1)
  BY <1>1 DEF Stays, Ends, GoesOn, Shape
<1>8. ("public" \in known'[d] <=> "public" \in known[d])
      \/ (d = c /\ Serve(c) /\ known'[c] = Learned(c))
  <2>1. DOMAIN known = DOMAIN asked
    BY DEF Shape
  <2> QED
    BY <2>1, Read
<1>9. "public" \in known'[d] => ReadsIt(d) /\ Holds("public")
  <2>1. CASE "public" \in known'[d] <=> "public" \in known[d]
    BY <1>2, <2>1 DEF KnowsPublic
  <2>2. CASE d = c /\ known'[c] = Learned(c)
    <3>1. Reading(c) /\ Now(c).what = "public" => ReadsIt(c)
      BY <1>6, <2>2 DEF ReadsIt, ReadsPublic, Reads, Reading, Now
    <3> QED
      BY <1>2, <2>2, <3>1 DEF Learned, KnowsPublic
  <2> QED
    BY <1>8, <2>1, <2>2
<1>10. ASSUME NEW j \in 1..at'[d] - 1, MustRead(d, j), Holds("public")
       PROVE  "public" \in known'[d]
  <2>1. CASE j \in 1..at[d] - 1
    <3>1. "public" \in known[d]
      BY <1>2, <1>10, <2>1 DEF KnowsPublic
    <3> QED
      BY <1>8, <1>10, <3>1 DEF Learned
  <2>2. CASE j = at[d] /\ d = c /\ GoesOn(c)
    <3>1. Serve(c)
      BY <1>10, <2>2, GoesOnWell DEF MustRead, ReadsPublic, Now
    <3>2. Now(c).what = "public" /\ Reading(c)
      BY <1>10, <2>2 DEF MustRead, ReadsPublic, Reads, Reading, Now
    <3>3. known'[c] = Learned(c)
      BY <3>1 DEF Serve, Shape
    <3> QED
      BY <1>10, <2>2, <3>2, <3>3 DEF Learned
  <2> QED
    BY <1>6, <1>7, <2>1, <2>2
<1>11. \A j \in 1..at'[d] - 1 : j \in DOMAIN steps[d]
  BY <1>6, <1>7
<1> QED
  BY <1>3, <1>4, <1>5, <1>9, <1>10, <1>11 DEF KnowsPublic

-----------------------------------------------------------------------------
\* The fingerprint of a post that is out is among the keys.
PublicKey(c) == IF ReadsIt(c) /\ Holds("public") THEN {"public"} ELSE {}
PostKeyed(c) ==
  (Fingerprinted(asked[c]) /\ Items(c) # {})
    => \E i \in SendsOf(steps[c]) : <<steps[c][i].key, PublicKey(c)>> \in keys
PostsKeyed == Unedited => \A c \in DOMAIN asked : PostKeyed(c)

LEMMA KeyOfPost ==
  ASSUME ScriptsAreWellBuilt, Shape, PublicRead, Unedited, NEW c \in DOMAIN asked,
         Fingerprinted(asked[c]), Now(c).does = "send"
  PROVE  Now(c).key # <<>> /\ KeyOf(c) = <<Now(c).key, PublicKey(c)>>
<1>1. at[c] \in SendsOf(steps[c]) /\ Now(c) = steps[c][at[c]]
  BY DEF SendsOf, Now, Shape
<1>2. IsFingerprinted(steps[c])
  BY WellBuiltSteps
<1>3. Now(c).key \notin {<<>>, Session}
  BY <1>1, <1>2 DEF IsFingerprinted
<1>4. KnowsPublic(c)
  BY DEF PublicRead
<1>5. CASE ~ReadsIt(c)
  BY <1>3, <1>4, <1>5 DEF KeyOf, PublicKey, KnowsPublic
<1>6. CASE ReadsIt(c)
  <2>1. PICK j \in 1..at[c] - 1 : MustRead(c, j)
    BY <1>1, <1>2, <1>6 DEF IsFingerprinted, ReadsIt, MustRead
  <2>2. "public" \in known[c] <=> Holds("public")
    BY <1>4, <2>1 DEF KnowsPublic
  <2>3. known[c] \cap {"public"} = PublicKey(c)
    BY <1>6, <2>2 DEF PublicKey
  <2> QED
    BY <1>3, <2>3 DEF KeyOf
<1> QED
  BY <1>5, <1>6

LEMMA PostsKeyedKept ==
  ASSUME ScriptsAreWellBuilt, Shape, PublicRead, PostsKeyed, NEW c \in DOMAIN asked, Work(c)
  PROVE  PostsKeyed'
<1>1. UNCHANGED <<asked, steps>> /\ history \subseteq history'
  BY Moves
<1> SUFFICES ASSUME Unedited', NEW d \in DOMAIN asked
             PROVE  PostKeyed(d)'
  BY <1>1 DEF PostsKeyed
<1>2. Unedited /\ PostKeyed(d)
  BY <1>1 DEF PostsKeyed, Unedited
<1>3. PublicKey(d)' = PublicKey(d)
  <2>1. ReadsIt(d)' = ReadsIt(d)
    BY <1>1 DEF ReadsIt, ReadsPublic
  <2> QED
    BY <2>1, PublicStays DEF PublicKey
<1>4. SendsOf(steps[d])' = SendsOf(steps[d]) /\ keys \subseteq keys'
  BY <1>1, KeysGrow DEF SendsOf
<1>5. CASE Items(d)' = Items(d)
  BY <1>1, <1>2, <1>3, <1>4, <1>5 DEF PostKeyed
<1>6. CASE d = c /\ out' # out /\ Fingerprinted(asked[c])
  <2>1. Makes(c) /\ Now(c).does = "send"
    BY <1>6, Appended
  <2>2. KeyOf(c) = <<Now(c).key, PublicKey(c)>> /\ KeyOf(c) \in keys'
    BY <1>2, <1>6, <2>1, KeyOfPost, KeysGrow
  <2>3. at[c] \in SendsOf(steps[c]) /\ Now(c) = steps[c][at[c]]
    BY <2>1 DEF SendsOf, Now, Shape
  <2> QED
    BY <1>1, <1>3, <1>4, <1>6, <2>2, <2>3 DEF PostKeyed
<1>7. Items(d)' = Items(d) \/ (d = c /\ out' # out)
  BY Appended DEF Items
<1> QED
  BY <1>1, <1>5, <1>6, <1>7 DEF PostKeyed

LEMMA SamePostKept ==
  ASSUME ScriptsAreWellBuilt, Shape, PublicRead, PostsKeyed, SamePostOnce,
         NEW c \in DOMAIN asked, Work(c)
  PROVE  SamePostOnce'
<1>1. UNCHANGED <<asked, steps>> /\ history \subseteq history'
  BY Moves
<1>2. CASE out' = out
  <2>1. \A d : Items(d)' = Items(d)
    BY <1>2 DEF Items
  <2> QED
    BY <1>1, <2>1 DEF SamePostOnce, Active
<1>3. CASE out' # out
  <2>1. Now(c).does = "send" /\ ~(Now(c).key # <<>> /\ KeyOf(c) \in keys)
    BY <1>3, Appended
  <2>2. \A d \in DOMAIN asked : d # c => Items(d)' = Items(d)
    BY <1>3, Appended DEF Items
  <2>3. ASSUME NEW d \in DOMAIN asked, d # c, asked[d] = asked[c], Fingerprinted(asked[c]),
               Unedited
        PROVE  Items(d) = {}
    <3> SUFFICES ASSUME Items(d) # {} PROVE FALSE
      OBVIOUS
    <3>1. steps[d] = steps[c]
      BY <2>3 DEF Shape
    <3>2. PICK i \in SendsOf(steps[c]) : <<steps[c][i].key, PublicKey(d)>> \in keys
      BY <2>3, <3>1 DEF PostsKeyed, PostKeyed
    <3>3. at[c] \in SendsOf(steps[c]) /\ Now(c) = steps[c][at[c]]
      BY <2>1 DEF SendsOf, Now, Shape
    <3>4. i = at[c]
      BY <2>3, <3>3, WellBuiltSteps DEF IsFingerprinted
    <3>5. PublicKey(d) = PublicKey(c)
      BY <3>1 DEF PublicKey, ReadsIt
    <3>6. Now(c).key # <<>> /\ KeyOf(c) = <<Now(c).key, PublicKey(c)>>
      BY <2>1, <2>3, KeyOfPost
    <3> QED
      BY <2>1, <3>2, <3>3, <3>4, <3>5, <3>6
  <2> QED
    BY <1>1, <2>2, <2>3 DEF SamePostOnce, Active, Unedited
<1> QED
  BY <1>2, <1>3

-----------------------------------------------------------------------------
\* Every set of numbers that is not empty has a least one; and a greatest, if it
\* is bounded.
LEMMA Least ==
  ASSUME NEW T, T \subseteq Nat, T # {}
  PROVE  \E x \in T : \A y \in T : x <= y
<1> DEFINE Below(n) == 1..n
           Starts == {Below(n) : n \in T}
<1>1. Starts \subseteq FiniteSubsetsOf(Nat) /\ Starts # {}
  <2>1. ASSUME NEW n \in T
        PROVE  Below(n) \in FiniteSubsetsOf(Nat)
    <3>1. n \in Int /\ 1 \in Int
      OBVIOUS
    <3>2. IsFiniteSet(Below(n)) /\ Below(n) \subseteq Nat
      BY <3>1, FS_Interval
    <3> QED
      BY <3>2 DEF FiniteSubsetsOf
  <2> QED
    BY <2>1
<1>2. PICK X \in Starts : \A Y \in Starts : ~(<<Y, X>> \in StrictSubsetOrdering(Nat))
  <2> HIDE DEF Starts
  <2> QED
    BY <1>1, FS_StrictSubsetOrderingWellFounded, WFMin, Zenon
<1>3. PICK n \in T : X = Below(n)
  OBVIOUS
<1>4. ASSUME NEW m \in T, m < n
      PROVE  FALSE
  <2>1. Below(m) \subseteq X /\ n \in X /\ n \notin Below(m)
    BY <1>3, <1>4
  <2>2. <<Below(m), X>> \in StrictSubsetOrdering(Nat)
    BY <1>3, <2>1 DEF StrictSubsetOrdering
  <2> QED
    BY <1>2, <2>2
<1> QED
  BY <1>4

Bounded(numbers) == \E n \in Nat : numbers \subseteq 1..n
LEMMA Greatest ==
  ASSUME NEW S, Bounded(S), S # {}
  PROVE  Newest(S) \in Nat /\ Newest(S) \in S
<1> DEFINE T == {n \in Nat : S \subseteq 1..n}
<1>1. PICK n \in T : \A m \in T : n <= m
  <2>1. T \subseteq Nat /\ T # {}
    BY DEF Bounded
  <2> HIDE DEF T
  <2> QED
    BY <2>1, Least
<1>2. n \in S
  <2> SUFFICES ASSUME n \notin S PROVE FALSE
    OBVIOUS
  <2>1. n # 0
    OBVIOUS
  <2>2. n - 1 \in Nat /\ S \subseteq 1..n - 1
    BY <2>1
  <2> QED
    BY <1>1, <2>2
<1>3. \A m \in S : m <= n
  OBVIOUS
<1>4. \E k \in S : \A m \in S : m <= k
  BY <1>2, <1>3
<1>5. Newest(S) \in S
  BY <1>4 DEF Newest
<1> QED
  BY <1>5

\* What the network counts up to a bound, it can go on with.
LEMMA NewNumberIsNew ==
  ASSUME NEW fact, IsFiniteSet(world[fact]), IsFiniteSet(Range(ref))
  PROVE  NewNumber(fact) \in Nat \ {0}
<1> DEFINE taken == world[fact] \cup Range(ref)
<1>1. IsFiniteSet(taken) /\ Cardinality(taken) \in Nat
  BY FS_Union, FS_CardinalityType
<1>2. \E n \in 1..Cardinality(taken) + 1 : n \notin taken
  <2> SUFFICES ASSUME 1..Cardinality(taken) + 1 \subseteq taken PROVE FALSE
    OBVIOUS
  <2> HIDE DEF taken
  <2>1. Cardinality(1..Cardinality(taken) + 1) = Cardinality(taken) + 1
    <3>1. \A b \in Int : Cardinality(1..b) = IF 1 > b THEN 0 ELSE b - 1 + 1
      BY FS_Interval
    <3> QED
      BY <1>1, <3>1
  <2>2. Cardinality(1..Cardinality(taken) + 1) <= Cardinality(taken)
    BY <1>1, FS_Subset
  <2> QED
    BY <1>1, <2>1, <2>2
<1>3. NewNumber(fact) \in 1..Cardinality(taken) + 1
  BY <1>2 DEF NewNumber
<1> QED
  BY <1>1, <1>3

-----------------------------------------------------------------------------
\* Failures of a request, rounds of a wait and misfortunes stay within bounds.
Counts ==
  /\ tries \in [DOMAIN asked -> 0..Attempts - 1]
  /\ rounds \in [DOMAIN asked -> 0..Patience]
  /\ faults \in 0..MaxFaults

Counting(c) ==
  /\ \/ UNCHANGED tries \/ tries' = [tries EXCEPT ![c] = 0]
     \/ tries' = [tries EXCEPT ![c] = @ + 1] /\ tries[c] + 1 < Attempts
  /\ \/ UNCHANGED rounds \/ rounds' = [rounds EXCEPT ![c] = 0]
     \/ rounds' = [rounds EXCEPT ![c] = @ + 1] /\ (rounds[c] < Patience \/ rounds[c] + 1 < Patience \/ ~LastRound(c))
LEMMA Counted ==
  ASSUME NEW c, Work(c)
  PROVE  Counting(c) /\ (faults' = faults \/ (faults' = faults + 1 /\ faults < MaxFaults))
<1>a. Advance(c) => Counting(c)
  BY DEF Advance, Counting
<1>b. \A error : Raise(c, error) => Counting(c)
  BY DEF Raise, End, Counting
<1>c. \A error : GiveUp(c, error) => Counting(c)
  BY <1>a, <1>b DEF GiveUp
<1>d. \A error : TryAgainOr(c, error) => Counting(c)
  BY <1>c DEF TryAgainOr, MayTryAgain, Counting
<1>1. CASE Omit(c)
  BY <1>a, <1>1 DEF Omit
<1>2. CASE FailCheck(c)
  BY <1>b, <1>2 DEF FailCheck
<1>3. CASE Finish(c)
  BY <1>3 DEF Finish, End, Counting
<1>4. CASE UseKept(c)
  BY <1>a, <1>4 DEF UseKept
<1>5. CASE Serve(c)
  BY <1>a, <1>5 DEF Serve
<1>6. CASE TurnPage(c)
  BY <1>6 DEF TurnPage, Counting
<1>7. CASE Ready(c)
  BY <1>a, <1>7 DEF Ready
<1>8. CASE StillWorking(c)
  BY <1>b, <1>8 DEF StillWorking, Misfortune, Counting
<1>9. CASE Unusable(c)
  BY <1>b, <1>9 DEF Unusable, Misfortune
<1>10. CASE LookReady(c)
  BY <1>a, <1>10 DEF LookReady
<1>11. CASE AskAgain(c)
  BY <1>11 DEF AskAgain, MayAsk, Does, Misfortune, Counting
<1>12. CASE StopWatching(c)
  BY <1>b, <1>12 DEF StopWatching
<1>13. CASE LoseRequest(c)
  BY <1>d, <1>13 DEF LoseRequest, Misfortune
<1>14. CASE LoseReply(c)
  BY <1>d, <1>14 DEF LoseReply, Misfortune
<1>15. CASE Overloaded(c)
  BY <1>d, <1>15 DEF Overloaded, Misfortune
<1>16. CASE BeRefused(c)
  BY <1>c, <1>16 DEF BeRefused, Misfortune
<1>17. CASE NotYet(c)
  BY <1>b, <1>17 DEF NotYet, Misfortune, Counting
<1>18. CASE Unreadable(c)
  BY <1>b, <1>c, <1>18 DEF Unreadable, Misfortune
<1> QED
  BY <1>1, <1>2, <1>3, <1>4, <1>5, <1>6, <1>7, <1>8, <1>9, <1>10, <1>11, <1>12,
     <1>13, <1>14, <1>15, <1>16, <1>17, <1>18 DEF Work

LEMMA CountsKept ==
  ASSUME ScriptsAreWellBuilt, Shape, Counts, NEW c \in DOMAIN asked, Work(c)
  PROVE  Counts'
<1>1. asked' = asked
  BY Moves
<1>2. /\ Attempts \in Nat \ {0} /\ Patience \in Nat /\ MaxFaults \in Nat
      /\ tries[c] \in 0..Attempts - 1 /\ rounds[c] \in 0..Patience
  BY CallsAssumption DEF Counts
<1>3. tries[c] + 1 < Attempts => tries[c] + 1 \in 0..Attempts - 1
  BY <1>2
<1>4. (rounds[c] < Patience \/ rounds[c] + 1 < Patience \/ ~LastRound(c))
        => rounds[c] + 1 \in 0..Patience
  BY <1>2 DEF LastRound
<1>5. 0 \in 0..Attempts - 1 /\ 0 \in 0..Patience
  BY <1>2
<1>6. tries' \in [DOMAIN asked -> 0..Attempts - 1]
  BY <1>3, <1>5, Counted DEF Counts, Counting
<1>7. rounds' \in [DOMAIN asked -> 0..Patience]
  BY <1>4, <1>5, Counted DEF Counts, Counting
<1>8. faults' \in 0..MaxFaults
  BY <1>2, Counted DEF Counts
<1> QED
  BY <1>1, <1>6, <1>7, <1>8 DEF Counts

LEMMA FactsAreThere ==
  ASSUME Shape, NEW c \in DOMAIN asked, NEW i \in DOMAIN steps[c],
         steps[c][i].does \in Reads \cup Changing
  PROVE  steps[c][i].what \in DOMAIN world
<1>1. c \in DOMAIN steps /\ DOMAIN world = Facts
  BY DEF Shape
<1>2. ASSUME NEW kinds, steps[c][i].does \in kinds
      PROVE  steps[c][i].what \in FactsIn(kinds)
  BY <1>1, <1>2 DEF FactsIn
<1>3. Facts = FactsIn(Reads) \cup FactsIn(Changing)
  BY DEF Facts, FactsRead, Reads, Changing
<1> HIDE DEF Reads, Changing
<1> QED
  BY <1>1, <1>2, <1>3

\* Of a fact there is a finite number, counted from 1.
Numbered ==
  /\ ref \in [DOMAIN asked -> Nat]
  /\ \A f \in DOMAIN world : Bounded(world[f])

LEMMA RefMoves ==
  ASSUME NEW c, Work(c)
  PROVE  \/ ref' = ref
         \/ /\ Serve(c) /\ Reading(c) /\ Holds(Now(c).what)
            /\ ref' = [ref EXCEPT ![c] = Newest(world[Now(c).what])]
<1>1. CASE Omit(c)
  BY <1>1 DEF Omit
<1>2. CASE FailCheck(c)
  BY <1>2 DEF FailCheck
<1>3. CASE Finish(c)
  BY <1>3 DEF Finish
<1>4. CASE UseKept(c)
  BY <1>4 DEF UseKept
<1>5. CASE Serve(c)
  BY <1>5 DEF Serve
<1>6. CASE TurnPage(c)
  BY <1>6 DEF TurnPage
<1>7. CASE Ready(c)
  BY <1>7 DEF Ready
<1>8. CASE StillWorking(c)
  BY <1>8 DEF StillWorking
<1>9. CASE Unusable(c)
  BY <1>9 DEF Unusable
<1>10. CASE LookReady(c)
  BY <1>10 DEF LookReady
<1>11. CASE AskAgain(c)
  BY <1>11 DEF AskAgain
<1>12. CASE StopWatching(c)
  BY <1>12 DEF StopWatching
<1>13. CASE LoseRequest(c)
  BY <1>13 DEF LoseRequest
<1>14. CASE LoseReply(c)
  BY <1>14 DEF LoseReply
<1>15. CASE Overloaded(c)
  BY <1>15 DEF Overloaded
<1>16. CASE BeRefused(c)
  BY <1>16 DEF BeRefused
<1>17. CASE NotYet(c)
  BY <1>17 DEF NotYet
<1>18. CASE Unreadable(c)
  BY <1>18 DEF Unreadable
<1> QED
  BY <1>1, <1>2, <1>3, <1>4, <1>5, <1>6, <1>7, <1>8, <1>9, <1>10, <1>11, <1>12,
     <1>13, <1>14, <1>15, <1>16, <1>17, <1>18 DEF Work

LEMMA FiniteNumbers ==
  ASSUME Shape, Numbered
  PROVE  /\ IsFiniteSet(DOMAIN asked) /\ IsFiniteSet(Range(ref))
         /\ \A f \in DOMAIN world : IsFiniteSet(world[f]) /\ world[f] \subseteq Nat
<1>1. IsFiniteSet(DOMAIN asked)
  BY CallsAssumption, FS_Subset DEF Shape
<1>2. IsFiniteSet(Range(ref))
  <2>1. ref \in Surjection(DOMAIN ref, Range(ref))
    BY DEF Surjection, Range, Numbered
  <2> QED
    BY <1>1, <2>1, FS_Surjection DEF Numbered
<1>3. ASSUME NEW f \in DOMAIN world
      PROVE  IsFiniteSet(world[f]) /\ world[f] \subseteq Nat
  <2>1. PICK n \in Nat : world[f] \subseteq 1..n
    BY DEF Numbered, Bounded
  <2>2. IsFiniteSet(1..n)
    BY FS_Interval
  <2> QED
    BY <2>1, <2>2, FS_Subset
<1> QED
  BY <1>1, <1>2, <1>3

LEMMA NumberedKept ==
  ASSUME ScriptsAreWellBuilt, Shape, Numbered, NEW c \in DOMAIN asked, Work(c)
  PROVE  Numbered'
<1>1. asked' = asked /\ steps' = steps
  BY Moves
<1>2. Now(c).does \in Reads \cup Changing => Now(c).what \in DOMAIN world
  BY FactsAreThere DEF Now, Shape
<1>3. ref' \in [DOMAIN asked -> Nat]
  <2>1. CASE ref' = ref
    BY <2>1 DEF Numbered
  <2>2. CASE Reading(c) /\ Holds(Now(c).what)
             /\ ref' = [ref EXCEPT ![c] = Newest(world[Now(c).what])]
    <3>1. Newest(world[Now(c).what]) \in Nat
      BY <1>2, <2>2, Greatest DEF Numbered, Holds, Reading, Reads
    <3> QED
      BY <2>2, <3>1 DEF Numbered
  <2> QED
    BY <2>1, <2>2, RefMoves
<1>4. CASE world' = world
  BY <1>1, <1>3, <1>4 DEF Numbered
<1>5. CASE Changed(c) /\ Now(c).does \in Changing
  <2>1. Now(c).what \in DOMAIN world
    BY <1>2, <1>5
  <2>2. PICK n \in Nat : world[Now(c).what] \subseteq 1..n
    BY <2>1 DEF Numbered, Bounded
  <2>3. NewNumber(Now(c).what) \in Nat \ {0}
    BY <2>1, FiniteNumbers, NewNumberIsNew
  <2> DEFINE new == NewNumber(Now(c).what)
             more == IF new > n THEN new ELSE n
  <2> HIDE DEF new
  <2>4. more \in Nat /\ 1..n \subseteq 1..more /\ new \in 1..more
    BY <2>3 DEF new
  <2>5. Bounded(world[Now(c).what] \cup {new})
    BY <2>2, <2>4 DEF Bounded
  <2>6. Bounded({1}) /\ Bounded({}) /\ Bounded(world[Now(c).what] \ {ref[c]})
    <3>1. {1} \subseteq 1..1
      OBVIOUS
    <3> QED
      BY <2>2, <3>1 DEF Bounded
  <2>7. /\ Bounded(world'[Now(c).what]) /\ DOMAIN world' = DOMAIN world
        /\ \A f \in DOMAIN world : f # Now(c).what => world'[f] = world[f]
    BY <1>5, <2>1, <2>5, <2>6 DEF Changed, Changing, new
  <2> QED
    BY <1>1, <1>3, <2>7 DEF Numbered
<1> QED
  BY <1>4, <1>5, MadeOrSilent, MakesWhenAsked, Effects DEF Silent, Changing

-----------------------------------------------------------------------------
\* What the network has finished it holds; a call that is past the making of a
\* thing has made it, and one that has made anything is not before that.
MadeInTime ==
  \A c \in DOMAIN asked :
    /\ finished[c] \subseteq made[c]
    /\ \A k \in 1..at[c] - 1 : (steps[c][k].does \in Creates /\ Surely(steps[c], k))
         => steps[c][k].what \in made[c]
    /\ made[c] # {} => \E j \in DOMAIN steps[c] : j <= at[c] /\ steps[c][j].does \in Creates

LEMMA MadeGrows ==
  ASSUME Shape, NEW c \in DOMAIN asked, Work(c)
  PROVE  /\ \A d \in DOMAIN asked : d # c => made'[d] = made[d] /\ finished'[d] = finished[d]
         /\ \/ UNCHANGED <<made, finished>>
            \/ Now(c).does \in Waits /\ made' = made /\ finished'[c] = finished[c] \cup {Now(c).what}
            \/ /\ Now(c).does \in Creates /\ made'[c] = made[c] \cup {Now(c).what}
               /\ finished'[c] \subseteq finished[c] \cup {Now(c).what}
<1>1. DOMAIN made = DOMAIN asked /\ DOMAIN finished = DOMAIN asked
  BY DEF Shape
<1>2. CASE UNCHANGED <<made, finished>>
  BY <1>2
<1>3. CASE Silent(c)
  BY <1>1, <1>3 DEF Silent
<1>4. CASE Created(c) /\ Now(c).does \in Creates
  BY <1>1, <1>4 DEF Created
<1> QED
  BY <1>2, <1>3, <1>4, MadeOrSilent, MakesWhenAsked, Effects DEF Creates

LEMMA MadeInTimeKept ==
  ASSUME ScriptsAreWellBuilt, Shape, Passed, MadeInTime, NEW c \in DOMAIN asked, Work(c)
  PROVE  MadeInTime'
<1>1. UNCHANGED <<asked, steps>> /\ (Stays(c) \/ Ends(c) \/ GoesOn(c))
  BY Moves
<1> SUFFICES ASSUME NEW d \in DOMAIN asked
             PROVE  /\ finished'[d] \subseteq made'[d]
                    /\ \A k \in 1..at'[d] - 1 :
                         (steps[d][k].does \in Creates /\ Surely(steps[d], k))
                           => steps[d][k].what \in made'[d]
                    /\ made'[d] # {} => \E j \in DOMAIN steps[d] :
                                         j <= at'[d] /\ steps[d][j].does \in Creates
  BY <1>1 DEF MadeInTime, Surely, Always
<1>2. /\ at[d] \in DOMAIN steps[d] /\ DOMAIN steps[d] = 1..Len(steps[d])
      /\ Len(steps[d]) \in Nat /\ at[d] \in Nat
  BY WellBuiltSteps DEF HasAnEnd, Shape
<1>3. at'[d] = at[d] \/ (d = c /\ GoesOn(c) /\ at'[d] = at[d] + 1)
  BY <1>1 DEF Stays, Ends, GoesOn, Shape
<1>4. made[d] \subseteq made'[d]
  BY MadeGrows
<1>5. finished'[d] \subseteq made'[d]
  <2>1. ASSUME d = c, Now(c).does \in Waits
        PROVE  Now(c).what \in made[c]
    <3>1. ~Barred(steps[c], at[c])
      BY DEF Barred, Passed
    <3>2. PICK j \in 1..at[c] - 1 :
            steps[c][j].does \in Creates /\ Surely(steps[c], j) /\ steps[c][j].what = Now(c).what
      BY <1>2, <2>1, <3>1, WellBuiltSteps DEF AwaitsWhatItMade, Now
    <3> QED
      BY <3>2 DEF MadeInTime
  <2>2. finished[d] \subseteq made[d]
    BY DEF MadeInTime
  <2> QED
    BY <1>4, <2>1, <2>2, MadeGrows
<1>6. ASSUME NEW k \in 1..at'[d] - 1, steps[d][k].does \in Creates, Surely(steps[d], k)
      PROVE  steps[d][k].what \in made'[d]
  <2>1. CASE k \in 1..at[d] - 1
    BY <1>4, <1>6, <2>1 DEF MadeInTime
  <2>2. CASE k = at[c] /\ d = c /\ GoesOn(c)
    BY <1>6, <2>2, GoesOnWell DEF Now
  <2> QED
    BY <1>2, <1>3, <2>1, <2>2
<1>7. made'[d] # {} => \E j \in DOMAIN steps[d] : j <= at'[d] /\ steps[d][j].does \in Creates
  <2>1. ASSUME made'[d] = made[d], made[d] # {}
        PROVE  \E j \in DOMAIN steps[d] : j <= at'[d] /\ steps[d][j].does \in Creates
    <3>1. PICK j \in DOMAIN steps[d] : j <= at[d] /\ steps[d][j].does \in Creates
      BY <2>1 DEF MadeInTime
    <3>2. j <= at'[d]
      BY <1>2, <1>3, <3>1
    <3> QED
      BY <3>1, <3>2
  <2>2. CASE d = c /\ Now(c).does \in Creates
    BY <1>2, <1>3, <2>2 DEF Now
  <2> QED
    BY <2>1, <2>2, MadeGrows
<1> QED
  BY <1>5, <1>6, <1>7

\* Before a key was seen, a call was told of nothing but its own.
ToldOwn == \A c \in DOMAIN asked : told[c] \in Seq(Items(c)) \/ keys # {}

LEMMA ToldOwnKept ==
  ASSUME ScriptsAreWellBuilt, Shape, ToldOwn, NEW c \in DOMAIN asked, Work(c)
  PROVE  ToldOwn'
<1>1. asked' = asked
  BY Moves
<1> SUFFICES ASSUME NEW d \in DOMAIN asked, keys' = {}
             PROVE  told'[d] \in Seq(Items(d)')
  BY <1>1 DEF ToldOwn
<1>2. keys = {} /\ told[d] \in Seq(Items(d))
  BY KeysGrow DEF ToldOwn
<1>3. told[d] \in Seq(Items(d)')
  <2> DEFINE before == Items(d)  after == Items(d)'
  <2>1. before \subseteq after /\ told[d] \in Seq(before)
    BY <1>2, ItemsGrow
  <2> HIDE DEF before, after
  <2>2. told[d] \in Seq(after)
    BY <2>1
  <2> QED
    BY <2>2 DEF after
<1>4. CASE told'[d] = told[d]
  BY <1>3, <1>4
<1>5. CASE d = c /\ Serve(c) /\ Now(c).does = "send" /\ told'[c] = Append(told[c], Now(c).what)
  <2>1. out' # out
    <3>1. Published(c)
      BY <1>5, MakesWhenAsked, Effects DEF Makes
    <3>2. out' = [out EXCEPT ![c] = Append(@, Sent(c))]
      BY <1>2, <3>1 DEF Published, Sent
    <3>3. out'[c] = Append(out[c], Sent(c)) /\ out[c] \in Seq(Pieces)
      BY <3>2 DEF Shape
    <3> QED
      BY <3>3
  <2> DEFINE after == Items(d)'
  <2>2. Now(c).what \in after /\ told[c] \in Seq(after)
    BY <1>3, <1>5, <2>1, Appended
  <2> HIDE DEF after
  <2>3. told'[d] \in Seq(after)
    BY <1>5, <2>2
  <2> QED
    BY <2>3 DEF after
<1> QED
  <2>1. DOMAIN told = DOMAIN asked
    BY DEF Shape
  <2> QED
    BY <1>4, <1>5, <2>1, Told

-----------------------------------------------------------------------------
\* With which error a call ends, and what befell it if that is to sign in again.
LEMMA RaisedIs ==
  ASSUME Shape, NEW c \in DOMAIN asked, NEW error, Raise(c, error)
  PROVE  ended'[c] \in {"PartialThreadError", error}
BY DEF Raise, RaisedAs, End, Shape

LEMMA GivenUpIs ==
  ASSUME Shape, NEW c \in DOMAIN asked, NEW error, GiveUp(c, error), ended' # ended
  PROVE  \/ ended'[c] \in {"PartialThreadError", "PlatformError"}
         \/ error \in Now(c).caught /\ ended'[c] = Now(c).as
         \/ error \notin Now(c).caught /\ ended'[c] = error
BY RaisedIs DEF GiveUp, NamedAs, Advance

LEMMA TriedAgainIs ==
  ASSUME Shape, NEW c \in DOMAIN asked, NEW error, TryAgainOr(c, error), ended' # ended
  PROVE  \/ ended'[c] \in {"PartialThreadError", "PlatformError"}
         \/ error \in Now(c).caught /\ ended'[c] = Now(c).as
         \/ error \notin Now(c).caught /\ ended'[c] = error
BY GivenUpIs DEF TryAgainOr

SaysWhy(c) ==
  \/ Is(asked[c], "no_refresh_token")
  \/ <<c, "refused">> \in history' \/ <<c, "garbled">> \in history'
  \/ /\ <<c, "spent">> \in history' /\ ~Holds("refresh_token")
     /\ Now(c).does = "spend" /\ Now(c).what = "refresh_token"
LEMMA EndsWith ==
  ASSUME ScriptsAreWellBuilt, Shape, Passed, NEW c \in DOMAIN asked, Work(c), ended' # ended
  PROVE  /\ ended'[c] # "missing_method"
         /\ ended'[c] = "TokenExpiredError" => SaysWhy(c)
<1> DEFINE errors == ErrorsFor[asked[c].net]
<1>a. /\ "missing_method" \notin errors.busy \cup errors.refused \cup {Now(c).as}
      /\ "TokenExpiredError" \notin errors.busy \cup errors.refused
      /\ Now(c).as = "TokenExpiredError"
           => /\ Now(c).caught \cap {"Trouble", "RateLimitError"} = {}
              /\ Now(c).does = "spend" => Now(c).what = "refresh_token"
  <2>1. at[c] \in DOMAIN steps[c]
    BY DEF Shape
  <2>2. NamesErrors(steps[c], errors) /\ SignsInForACause(asked[c], steps[c], errors)
    BY WellBuiltSteps
  <2> HIDE DEF errors
  <2> QED
    BY <2>1, <2>2 DEF NamesErrors, SignsInForACause, Now
<1>b. Now(c).does = "refuse"
        => /\ Now(c).what # "missing_method"
           /\ Now(c).what = "TokenExpiredError" => Is(asked[c], "no_refresh_token")
  <2>1. ~Barred(steps[c], at[c])
    BY DEF Barred, Passed
  <2>2. at[c] \in DOMAIN steps[c]
    BY DEF Shape
  <2> QED
    BY <2>1, <2>2, WellBuiltSteps DEF NamesErrors, SignsInForACause, Now
<1>c. Now(c).does = "return" => Now(c).what \subseteq Results
  BY ErrorsAreNamed DEF Named
<1> HIDE DEF errors
<1> USE DEF SaysWhy
<1>1. CASE Omit(c)
  BY <1>1 DEF Omit, Advance
<1>2. CASE FailCheck(c)
  BY <1>b, RaisedIs, <1>2 DEF FailCheck, Does
<1>3. CASE Finish(c)
  <2>1. PICK state \in Now(c).what : End(c, state)
    BY <1>3 DEF Finish
  <2>2. state \in Results /\ ended'[c] = state
    BY <1>3, <1>c, <2>1 DEF Finish, Does, End, Shape
  <2> QED
    BY <2>2 DEF Results
<1>4. CASE UseKept(c)
  BY <1>4 DEF UseKept, Advance
<1>5. CASE Serve(c)
  BY <1>5 DEF Serve, Advance
<1>6. CASE TurnPage(c)
  BY <1>6 DEF TurnPage
<1>7. CASE Ready(c)
  BY <1>7 DEF Ready, Advance
<1>8. CASE StillWorking(c)
  BY RaisedIs, <1>8 DEF StillWorking
<1>9. CASE Unusable(c)
  BY RaisedIs, <1>9 DEF Unusable
<1>10. CASE LookReady(c)
  BY <1>10 DEF LookReady, Advance
<1>11. CASE AskAgain(c)
  BY <1>11 DEF AskAgain
<1>12. CASE StopWatching(c)
  BY RaisedIs, <1>12 DEF StopWatching
<1>13. CASE LoseRequest(c)
  BY <1>a, TriedAgainIs, <1>13 DEF LoseRequest
<1>14. CASE LoseReply(c)
  BY <1>a, TriedAgainIs, <1>14 DEF LoseReply
<1>15. CASE Overloaded(c)
  <2>1. PICK error \in errors.busy :
          /\ TryAgainOr(c, error)
          /\ error \in {"RateLimitError", "Trouble"} \/ <<c, "refused">> \in history'
    BY <1>15 DEF Overloaded, errors
  <2> QED
    BY <1>a, <2>1, TriedAgainIs
<1>16. CASE BeRefused(c)
  <2>1. \E error \in errors.refused : GiveUp(c, error)
    BY <1>16 DEF BeRefused, errors
  <2>2. \/ <<c, "refused">> \in history'
        \/ /\ <<c, "spent">> \in history'
           /\ Now(c).does = "spend" /\ world[Now(c).what] = {}
    BY <1>16 DEF BeRefused, Refusable
  <2> QED
    BY <1>a, <2>1, <2>2, GivenUpIs DEF Holds
<1>17. CASE NotYet(c)
  BY RaisedIs, <1>17 DEF NotYet
<1>18. CASE Unreadable(c)
  BY <1>a, GivenUpIs, RaisedIs, <1>18 DEF Unreadable
<1> QED
  BY <1>1, <1>2, <1>3, <1>4, <1>5, <1>6, <1>7, <1>8, <1>9, <1>10, <1>11, <1>12,
     <1>13, <1>14, <1>15, <1>16, <1>17, <1>18 DEF Work

\* A fact changes with a request that arrives: one that is answered, or whose
\* reply is missed.
LEMMA WorldChanges ==
  ASSUME Shape, NEW c \in DOMAIN asked, Work(c), NEW f \in DOMAIN world, world'[f] # world[f]
  PROVE  /\ Changed(c) /\ Now(c).does \in Changing /\ Now(c).what = f
         /\ \/ Serve(c) /\ GoesOn(c)
            \/ <<c, "lost">> \in history' \/ <<c, "garbled">> \in history'
<1>1. Makes(c) /\ Changed(c) /\ Now(c).does \in Changing
  BY MadeOrSilent, MakesWhenAsked, Effects DEF Silent, Changing
<1>2. Now(c).what = f
  BY <1>1 DEF Changed
<1>3. \/ Serve(c) /\ GoesOn(c)
      \/ <<c, "lost">> \in history' \/ <<c, "garbled">> \in history'
  BY <1>1 DEF Makes, Serve, LoseReply, Unreadable, Advance, GoesOn
<1> QED
  BY <1>1, <1>2, <1>3

\* A caller alone, whose refresh token is gone and whose replies have all come,
\* has spent it itself, and is past that.
Spends(script, i) == script[i].does = "spend" /\ script[i].what = "refresh_token"
TokenSpent ==
  \A c \in DOMAIN asked :
    (/\ DOMAIN asked = {c} /\ "refresh_token" \in DOMAIN world /\ ~Holds("refresh_token")
     /\ <<"refresh_token", "absent">> \notin history
     /\ ~Befell(c, "lost") /\ ~Befell(c, "garbled"))
      => \E i \in DOMAIN steps[c] : i < at[c] /\ Spends(steps[c], i)

LEMMA TokenSpentKept ==
  ASSUME ScriptsAreWellBuilt, Shape, TokenSpent, NEW c \in DOMAIN asked, Work(c)
  PROVE  TokenSpent'
<1>1. /\ UNCHANGED <<asked, steps>> /\ history \subseteq history'
      /\ (Stays(c) \/ Ends(c) \/ GoesOn(c))
  BY Moves
<1>2. DOMAIN world' = DOMAIN world
  BY MadeOrSilent, MakesWhenAsked, Effects DEF Silent, Changed
<1> SUFFICES ASSUME NEW d \in DOMAIN asked, DOMAIN asked = {d},
                    "refresh_token" \in DOMAIN world, ~Holds("refresh_token")',
                    <<"refresh_token", "absent">> \notin history',
                    ~Befell(d, "lost")', ~Befell(d, "garbled")'
             PROVE  \E i \in DOMAIN steps[d] : i < at'[d] /\ Spends(steps[d], i)
  BY <1>1, <1>2 DEF TokenSpent, Spends
<1>3. d = c
  OBVIOUS
<1>4. /\ at[c] \in DOMAIN steps[c] /\ DOMAIN steps[c] = 1..Len(steps[c])
      /\ Len(steps[c]) \in Nat /\ at[c] \in Nat
  BY WellBuiltSteps DEF HasAnEnd, Shape
<1>5. CASE world'["refresh_token"] = world["refresh_token"]
  <2>1. PICK i \in DOMAIN steps[c] : i < at[c] /\ Spends(steps[c], i)
    BY <1>1, <1>3, <1>5 DEF TokenSpent, Holds, Befell
  <2>2. at'[c] = at[c] \/ at'[c] = at[c] + 1
    BY <1>1 DEF Stays, Ends, GoesOn, Shape
  <2>3. i < at'[c]
    BY <1>4, <2>1, <2>2
  <2> QED
    BY <1>3, <2>1, <2>3
<1>6. CASE world'["refresh_token"] # world["refresh_token"]
  <2>1. Now(c).does \in Changing /\ Now(c).what = "refresh_token" /\ GoesOn(c)
    BY <1>3, <1>6, WorldChanges DEF Befell
  <2>2. Spends(steps[c], at[c])
    BY <1>4, <2>1, WellBuiltSteps DEF SignsInForACause, Spends, Now
  <2>3. at'[c] = at[c] + 1
    BY <2>1 DEF GoesOn, Shape
  <2>4. at[c] < at'[c]
    BY <1>4, <2>3
  <2> QED
    BY <1>3, <1>4, <2>2, <2>4
<1> QED
  BY <1>5, <1>6

LEMMA SignInKept ==
  ASSUME ScriptsAreWellBuilt, Shape, Passed, TokenSpent, SignInAgainHasACause,
         DeclaredMethodsExist, NEW c \in DOMAIN asked, Work(c)
  PROVE  SignInAgainHasACause' /\ DeclaredMethodsExist'
<1>1. /\ UNCHANGED <<asked, steps>> /\ history \subseteq history' /\ Running(c)
      /\ (Stays(c) \/ Ends(c) \/ GoesOn(c))
  BY Moves
<1>2. \A d \in DOMAIN asked : d # c => ended'[d] = ended[d]
  BY <1>1 DEF Stays, Ends, GoesOn, Shape
<1>3. ASSUME NEW d \in DOMAIN asked
      PROVE  /\ ended'[d] # "missing_method"
             /\ (ended'[d] = "TokenExpiredError" /\ ~Is(asked[d], "no_refresh_token"))
                  => \/ Befell(d, "refused")' \/ Befell(d, "garbled")'
                     \/ /\ Befell(d, "spent")'
                        /\ \/ <<"refresh_token", "absent">> \in history'
                           \/ Befell(d, "lost")' \/ DOMAIN asked # {d}
  <2>1. CASE ended'[d] = ended[d]
    BY <1>1, <2>1 DEF SignInAgainHasACause, DeclaredMethodsExist, Active, Befell
  <2>2. CASE d = c /\ ended' # ended
    <3>1. /\ ended'[c] # "missing_method"
          /\ ended'[c] = "TokenExpiredError" => SaysWhy(c)
      BY <2>2, EndsWith
    <3>2. ASSUME ~Holds("refresh_token"), Spends(steps[c], at[c]),
                 DOMAIN asked = {c}, <<"refresh_token", "absent">> \notin history',
                 ~Befell(c, "lost")', ~Befell(c, "garbled")'
          PROVE  FALSE
      <4>0. at[c] \in DOMAIN steps[c] /\ at[c] \in Nat
        BY DEF Shape
      <4>1. "refresh_token" \in DOMAIN world
        BY <3>2, <4>0, FactsAreThere DEF Spends, Changing
      <4>2. PICK i \in DOMAIN steps[c] : i < at[c] /\ Spends(steps[c], i)
        BY <1>1, <3>2, <4>1 DEF TokenSpent, Befell
      <4>3. i = at[c]
        BY <3>2, <4>0, <4>2, WellBuiltSteps DEF SignsInForACause, Spends, Changing
      <4> QED
        BY <4>0, <4>2, <4>3
    <3> QED
      BY <2>2, <3>1, <3>2 DEF SaysWhy, Befell, Spends, Now
  <2> QED
    BY <1>2, <2>1, <2>2
<1> QED
  BY <1>1, <1>3 DEF SignInAgainHasACause, DeclaredMethodsExist, Active

-----------------------------------------------------------------------------
\* A caller alone and undisturbed, having looked for a like, knows of the one there
\* is; and goes on to add one only where there is none.
Undisturbed ==
  /\ "like" \in DOMAIN world /\ <<"like", "edited">> \notin history
  /\ \A c \in DOMAIN asked : ~Befell(c, "lost") /\ ~Befell(c, "garbled")
  /\ \A c, d \in DOMAIN asked : c = d
ChangesLikes(step) == step.does \in Changing /\ step.what = "like"
Looked(c, j) ==
  LooksForALike(steps[c], j) /\ \A m \in j + 1..at[c] - 1 : ~ChangesLikes(steps[c][m])
LikesKnown(c) ==
  \A j \in 1..at[c] - 1 : Looked(c, j) =>
    /\ Holds("like") => "like" \in known[c]
    /\ \A k \in j + 1..at[c] - 1 : EndsForALike(steps[c], k) => ~Holds("like")
OneLike ==
  Undisturbed => /\ \E n : world["like"] \subseteq {n}
                 /\ \A c \in DOMAIN asked : LikesKnown(c)

LEMMA OneLikeKept ==
  ASSUME ScriptsAreWellBuilt, Shape, OneLike, NEW c \in DOMAIN asked, Work(c)
  PROVE  OneLike'
<1>1. /\ UNCHANGED <<asked, steps>> /\ history \subseteq history'
      /\ (Stays(c) \/ Ends(c) \/ GoesOn(c))
  BY Moves
<1>2. DOMAIN world' = DOMAIN world
  BY MadeOrSilent, MakesWhenAsked, Effects DEF Silent, Changed
<1> SUFFICES ASSUME Undisturbed'
             PROVE  (\E n : world'["like"] \subseteq {n}) /\ LikesKnown(c)'
  BY <1>1 DEF OneLike, Undisturbed
<1>3. /\ "like" \in DOMAIN world /\ ~Befell(c, "lost")' /\ ~Befell(c, "garbled")'
      /\ (\E n : world["like"] \subseteq {n}) /\ LikesKnown(c)
  BY <1>1, <1>2 DEF OneLike, Undisturbed, Befell
<1>4. /\ at[c] \in DOMAIN steps[c] /\ DOMAIN steps[c] = 1..Len(steps[c])
      /\ Len(steps[c]) \in Nat /\ at[c] \in Nat /\ Now(c) = steps[c][at[c]]
  BY WellBuiltSteps DEF HasAnEnd, Shape, Now
<1>5. at'[c] = at[c] \/ (GoesOn(c) /\ at'[c] = at[c] + 1)
  BY <1>1 DEF Stays, Ends, GoesOn, Shape
<1>6. CASE world'["like"] # world["like"]
  <2>1. Changed(c) /\ ChangesLikes(Now(c)) /\ GoesOn(c)
    BY <1>3, <1>6, WorldChanges DEF Befell, ChangesLikes
  <2>2. at'[c] = at[c] + 1
    BY <2>1 DEF GoesOn, Shape
  <2>3. \E n : world'["like"] \subseteq {n}
    <3>1. CASE Now(c).does = "add"
      <4>1. PICK k \in 1..at[c] - 1 : \E j \in 1..k - 1 :
              /\ LooksForALike(steps[c], j) /\ EndsForALike(steps[c], k)
              /\ \A m \in j + 1..at[c] - 1 : ~ChangesLikes(steps[c][m])
        BY <1>4, <2>1, <3>1, WellBuiltSteps DEF LikesOnce, AddsALike, ChangesLikes
      <4>2. PICK j \in 1..k - 1 :
              /\ LooksForALike(steps[c], j) /\ EndsForALike(steps[c], k)
              /\ \A m \in j + 1..at[c] - 1 : ~ChangesLikes(steps[c][m])
        BY <4>1
      <4>3. j \in 1..at[c] - 1 /\ k \in j + 1..at[c] - 1
        BY <1>4
      <4>4. ~Holds("like")
        BY <1>3, <4>2, <4>3 DEF LikesKnown, Looked
      <4>5. world'["like"] = world["like"] \cup {NewNumber("like")}
        BY <1>3, <2>1, <3>1 DEF Changed, ChangesLikes
      <4> QED
        BY <4>4, <4>5 DEF Holds
    <3>2. CASE Now(c).does \in {"set", "unset", "spend"}
      <4>1. world'["like"] \subseteq {1}
        BY <1>3, <2>1, <3>2 DEF Changed, ChangesLikes
      <4> QED
        BY <4>1
    <3>3. CASE Now(c).does = "drop"
      <4>1. world'["like"] = world["like"] \ {ref[c]}
        BY <1>3, <2>1, <3>3 DEF Changed, ChangesLikes
      <4> QED
        BY <1>3, <4>1
    <3> QED
      BY <2>1, <3>1, <3>2, <3>3 DEF ChangesLikes, Changing
  <2>4. ASSUME NEW j \in 1..at'[c] - 1, Looked(c, j)'
        PROVE  FALSE
    <3>1. CASE j = at[c]
      BY <1>1, <1>4, <2>1, <2>4, <3>1 DEF Looked, LooksForALike, ChangesLikes, Reads, Changing
    <3>2. CASE j < at[c]
      <4>1. at[c] \in j + 1..at'[c] - 1
        BY <1>4, <2>2, <3>2
      <4> QED
        BY <1>1, <1>4, <2>1, <2>4, <4>1 DEF Looked
    <3> QED
      BY <1>4, <2>2, <3>1, <3>2
  <2> QED
    BY <2>3, <2>4 DEF LikesKnown
<1>7. CASE world'["like"] = world["like"]
  <2>1. Holds("like")' = Holds("like")
    BY <1>7 DEF Holds
  <2>2. \/ "like" \in known'[c] <=> "like" \in known[c]
        \/ Serve(c) /\ known'[c] = Learned(c)
    <3>1. c \in DOMAIN known
      BY DEF Shape
    <3> QED
      BY <3>1, Read
  <2>3. ASSUME NEW j \in 1..at'[c] - 1, Looked(c, j)'
        PROVE  /\ Holds("like") => "like" \in known'[c]
               /\ \A k \in j + 1..at'[c] - 1 : EndsForALike(steps[c], k) => ~Holds("like")
    <3>1. CASE j \in 1..at[c] - 1
      <4>1. Looked(c, j)
        <5>1. j + 1..at[c] - 1 \subseteq j + 1..at'[c] - 1
          BY <1>4, <1>5
        <5> QED
          BY <1>1, <2>3, <5>1 DEF Looked, LooksForALike, Surely, Always
      <4>2. Holds("like") => "like" \in known[c]
        BY <1>3, <3>1, <4>1 DEF LikesKnown
      <4>3. Holds("like") => "like" \in known'[c]
        BY <2>2, <4>2 DEF Learned
      <4>4. ASSUME NEW k \in j + 1..at'[c] - 1, EndsForALike(steps[c], k)
            PROVE  ~Holds("like")
        <5>1. CASE k \in j + 1..at[c] - 1
          BY <1>3, <3>1, <4>1, <4>4, <5>1 DEF LikesKnown
        <5>2. CASE k = at[c] /\ GoesOn(c)
          <6>1. "like" \notin known[c]
            BY <1>4, <4>4, <5>2, GoesOnWell DEF EndsForALike
          <6> QED
            BY <4>2, <6>1
        <5> QED
          BY <1>4, <1>5, <3>1, <5>1, <5>2
      <4> QED
        BY <4>3, <4>4
    <3>2. CASE j = at[c] /\ GoesOn(c) /\ at'[c] = at[c] + 1
      <4>1. Now(c).does \in Reads /\ Now(c).what = "like" /\ Surely(steps[c], at[c])
        BY <1>1, <1>4, <2>3, <3>2 DEF Looked, LooksForALike, Surely, Always
      <4>2. Serve(c)
        BY <3>2, <4>1, GoesOnWell
      <4>3. known'[c] = Learned(c)
        BY <4>2 DEF Serve, Shape
      <4>4. Holds("like") => "like" \in known'[c]
        BY <4>1, <4>3 DEF Learned, Reading, Reads
      <4>5. j + 1..at'[c] - 1 = {}
        BY <1>4, <3>2
      <4> QED
        BY <4>4, <4>5
    <3> QED
      BY <1>4, <1>5, <3>1, <3>2
  <2>4. LikesKnown(c)'
    BY <1>1, <2>1, <2>3 DEF LikesKnown, EndsForALike
  <2> QED
    BY <1>3, <1>7, <2>4
<1> QED
  BY <1>6, <1>7

-----------------------------------------------------------------------------
IInv ==
  /\ Shape /\ Passed /\ OutIsWhole
  /\ SentSoFar /\ SentTwice
  /\ KeysAreOut /\ ToldIsOut /\ Honest
  /\ PublicRead /\ PostsKeyed /\ SamePostOnce
  /\ Counts /\ Numbered /\ MadeInTime /\ ToldOwn
  /\ TokenSpent /\ SignInAgainHasACause /\ DeclaredMethodsExist /\ OneLike

LEMMA InitHolds ==
  ASSUME ScriptsAreWellBuilt, Init
  PROVE  IInv
<1>1. Shape
  <2>1. \A c \in DOMAIN asked : at[c] \in DOMAIN steps[c]
    BY DEF Init, ScriptsAreWellBuilt, WellBuilt, WellBuiltScript, HasAnEnd
  <2>2. told \in [DOMAIN asked -> Seq(Names)]
    BY DEF Init
  <2>3. out \in [DOMAIN asked -> Seq(Pieces)]
    BY DEF Init
  <2> QED
    BY <2>1, <2>2, <2>3 DEF Init, Shape
<1>2. \A c \in DOMAIN asked : /\ out[c] = <<>> /\ told[c] = <<>> /\ at[c] = 1
                             /\ known[c] = {} /\ Items(c) = {} /\ keys = {}
  BY DEF Init, Items
<1>3. Passed /\ OutIsWhole /\ SentSoFar /\ SentTwice
  BY <1>2 DEF Passed, OutIsWhole, SentSoFar, SentTwice, Active
<1>4. KeysAreOut /\ ToldIsOut /\ Honest
  BY <1>2 DEF Init, KeysAreOut, ToldIsOut, Honest, Active
<1>5. PublicRead /\ PostsKeyed /\ SamePostOnce
  BY <1>2 DEF PublicRead, KnowsPublic, PostsKeyed, PostKeyed, SamePostOnce, Active
<1>6. Counts /\ Numbered
  <2>1. 0 \in 0..Attempts - 1 /\ 0 \in 0..Patience /\ 0 \in 0..MaxFaults
    BY CallsAssumption
  <2>2. Bounded({1}) /\ Bounded({})
    <3>1. {1} \subseteq 1..1
      OBVIOUS
    <3> QED
      BY <3>1 DEF Bounded
  <2> QED
    BY <2>1, <2>2 DEF Init, Counts, Numbered
<1>7. MadeInTime /\ ToldOwn
  BY <1>2 DEF Init, MadeInTime, ToldOwn
<1>8. TokenSpent /\ SignInAgainHasACause /\ DeclaredMethodsExist
  <2>1. \A f \in DOMAIN world : ~Holds(f) => <<f, "absent">> \in history
    BY DEF Init, Holds
  <2>2. \A c \in DOMAIN asked : ended[c] = "running"
    BY DEF Init
  <2> QED
    BY <2>1, <2>2 DEF TokenSpent, SignInAgainHasACause, DeclaredMethodsExist, Active
<1>9. OneLike
  <2>1. "like" \in DOMAIN world => world["like"] \subseteq {1}
    BY DEF Init
  <2>2. \A c \in DOMAIN asked : LikesKnown(c)
    BY <1>2 DEF LikesKnown
  <2> QED
    BY <2>1, <2>2 DEF OneLike, Undisturbed
<1> QED
  BY <1>1, <1>3, <1>4, <1>5, <1>6, <1>7, <1>8, <1>9 DEF IInv

\* What happens elsewhere leaves a call where it is.
LEMMA Elsewhere ==
  ASSUME ScriptsAreWellBuilt, IInv, Shape', history \subseteq history',
         UNCHANGED <<asked, steps, at, ended, known, told, made, finished, out, keys>>,
         Unedited' => \A c \in DOMAIN asked : ReadsIt(c) => Holds("public")' = Holds("public")
  PROVE  /\ Passed' /\ OutIsWhole' /\ SentSoFar' /\ SentTwice' /\ KeysAreOut' /\ ToldIsOut'
         /\ Honest' /\ PublicRead' /\ PostsKeyed' /\ SamePostOnce'
<1> USE DEF IInv
<1>1. \A c : /\ Items(c)' = Items(c) /\ SendsOf(steps[c])' = SendsOf(steps[c])
            /\ Now(c)' = Now(c) /\ KeyOf(c)' = KeyOf(c) /\ Running(c)' = Running(c)
            /\ Failed(c)' = Failed(c)
  BY DEF Items, SendsOf, Now, KeyOf, Running, Failed
<1>2. \A c, what : Befell(c, what) => Befell(c, what)'
  BY DEF Befell
<1>3. Passed' /\ OutIsWhole'
  <2>1. \A c, k : Finishes(steps[c], k)' = Finishes(steps[c], k)
    BY DEF Finishes, Surely, Always
  <2>2. Passed'
    BY <2>1 DEF Passed, Trusted
  <2>3. OutIsWhole'
    BY DEF OutIsWhole, Active
  <2> QED
    BY <2>2, <2>3
<1>4. SentSoFar'
  <2>1. ASSUME NEW c \in DOMAIN asked, NEW what \in Items(c)
        PROVE  SentBy(c, what)'
    BY <1>1, <1>2, <2>1 DEF SentSoFar, SentBy
  <2> QED
    BY <1>1, <2>1 DEF SentSoFar
<1>5. SentTwice'
  BY <1>2 DEF SentTwice
<1>6. KeysAreOut' /\ ToldIsOut'
  BY <1>1 DEF KeysAreOut, ToldIsOut, Active
<1>7. Honest'
  BY <1>1, <1>2 DEF Honest
<1>8. Unedited' => Unedited
  BY DEF Unedited
<1>9. \A c : ReadsIt(c)' = ReadsIt(c) /\ \A j : MustRead(c, j)' = MustRead(c, j)
  BY DEF ReadsIt, MustRead, ReadsPublic, Surely, Always
<1>10. PublicRead'
  <2>1. ASSUME Unedited', NEW c \in DOMAIN asked
        PROVE  KnowsPublic(c)'
    <3>1. \A j \in 1..at[c] - 1 : MustRead(c, j) => ReadsIt(c)
      <4>1. /\ DOMAIN steps[c] = 1..Len(steps[c]) /\ Len(steps[c]) \in Nat
            /\ at[c] \in Nat /\ at[c] \in DOMAIN steps[c]
        BY <2>1, WellBuiltSteps DEF HasAnEnd, Shape
      <4>2. 1..at[c] - 1 \subseteq DOMAIN steps[c]
        BY <4>1
      <4> QED
        BY <4>2 DEF MustRead, ReadsIt, ReadsPublic
    <3> QED
      BY <1>8, <1>9, <2>1, <3>1 DEF PublicRead, KnowsPublic
  <2> QED
    BY <2>1 DEF PublicRead
<1>11. PostsKeyed'
  <2>1. ASSUME Unedited', NEW c \in DOMAIN asked
        PROVE  PostKeyed(c)'
    <3>1. PublicKey(c)' = PublicKey(c)
      BY <1>9, <2>1 DEF PublicKey
    <3> QED
      BY <1>1, <1>8, <2>1, <3>1 DEF PostsKeyed, PostKeyed
  <2> QED
    BY <2>1 DEF PostsKeyed
<1>12. SamePostOnce'
  BY <1>1 DEF SamePostOnce, Active
<1> QED
  BY <1>3, <1>4, <1>5, <1>6, <1>7, <1>10, <1>11, <1>12

\* Nor does an edit, or nothing at all, disturb what is counted and caused.
LEMMA EditsDisturbNothing ==
  ASSUME ScriptsAreWellBuilt, IInv, (\E f \in FactsRead : Edit(f)) \/ UNCHANGED vars
  PROVE  /\ Counts' /\ Numbered' /\ MadeInTime' /\ ToldOwn'
         /\ TokenSpent' /\ SignInAgainHasACause' /\ DeclaredMethodsExist' /\ OneLike'
<1> USE DEF IInv
<1>1. /\ UNCHANGED <<asked, steps, at, tries, rounds, known, ref, told, ended>>
      /\ UNCHANGED <<made, finished, out, keys>>
      /\ history \subseteq history' /\ DOMAIN world' = DOMAIN world
  BY DEF Edit, vars, caller
<1>2. \A c, what : Befell(c, what) => Befell(c, what)'
  BY <1>1 DEF Befell
<1>3. Counts'
  <2>1. MaxFaults \in Nat /\ faults \in 0..MaxFaults
    BY CallsAssumption DEF Counts
  <2>2. faults' \in 0..MaxFaults
    BY <2>1 DEF Edit, Misfortune, vars
  <2> QED
    BY <1>1, <2>2 DEF Counts
<1>4. Numbered'
  <2>1. \A f \in DOMAIN world : world'[f] = world[f] \/ world'[f] = {} \/ world'[f] = {1}
    BY DEF Edit, vars
  <2>2. Bounded({1}) /\ Bounded({})
    <3>1. {1} \subseteq 1..1
      OBVIOUS
    <3> QED
      BY <3>1 DEF Bounded
  <2> QED
    BY <1>1, <2>1, <2>2 DEF Numbered
<1>5. MadeInTime'
  BY <1>1 DEF MadeInTime, Surely, Always
<1>6. ToldOwn'
  <2>1. \A c : Items(c)' = Items(c)
    BY <1>1 DEF Items
  <2> QED
    BY <1>1, <2>1 DEF ToldOwn
<1>7. TokenSpent'
  <2>1. "refresh_token" \notin FactsRead
    <3> SUFFICES ASSUME "refresh_token" \in FactsRead PROVE FALSE
      OBVIOUS
    <3>1. PICK c \in DOMAIN asked : \E i \in DOMAIN steps[c] :
            steps[c][i].does \in Reads /\ steps[c][i].what = "refresh_token"
      BY DEF FactsRead, FactsIn, Reads, Shape
    <3> QED
      BY <3>1, WellBuiltSteps DEF SignsInForACause, Reads
  <2>2. "refresh_token" \in DOMAIN world => Holds("refresh_token")' = Holds("refresh_token")
    BY <2>1 DEF Edit, vars, Holds
  <2> QED
    BY <1>1, <1>2, <2>2 DEF TokenSpent, Spends
<1>8. SignInAgainHasACause' /\ DeclaredMethodsExist'
  BY <1>1, <1>2 DEF SignInAgainHasACause, DeclaredMethodsExist, Active
<1>9. OneLike'
  <2> SUFFICES ASSUME Undisturbed'
               PROVE  (\E n : world'["like"] \subseteq {n}) /\ \A c \in DOMAIN asked : LikesKnown(c)'
    BY <1>1 DEF OneLike
  <2>1. Undisturbed
    BY <1>1, <1>2 DEF Undisturbed
  <2>2. world'["like"] = world["like"]
    BY DEF Undisturbed, Edit, vars
  <2>3. \A c \in DOMAIN asked : LikesKnown(c)'
    <3>1. Holds("like")' = Holds("like")
      BY <2>2 DEF Holds
    <3>2. \A c, j : Looked(c, j)' = Looked(c, j)
      BY <1>1 DEF Looked, LooksForALike, Surely, Always
    <3> QED
      BY <1>1, <2>1, <3>1, <3>2 DEF OneLike, LikesKnown, EndsForALike
  <2> QED
    BY <2>1, <2>2, <2>3 DEF OneLike
<1> QED
  BY <1>3, <1>4, <1>5, <1>6, <1>7, <1>8, <1>9

\* What is so of every call, whatever befalls it and whoever else is at work.
THEOREM Invariance ==
  ASSUME ScriptsAreWellBuilt
  PROVE  Spec => []IInv
<1>1. IInv /\ [Next]_vars => IInv'
  <2> SUFFICES ASSUME IInv, [Next]_vars PROVE IInv'
    OBVIOUS
  <2>1. Shape /\ Shape'
    BY ShapeKept DEF IInv
  <2>2. ASSUME NEW c \in DOMAIN asked, Work(c)
        PROVE  IInv'
    <3>1. Passed' /\ OutIsWhole' /\ SentSoFar' /\ SentTwice'
      BY <2>2, PassedKept, WholeKept, SentSoFarKept, SentTwiceKept DEF IInv
    <3>2. KeysAreOut' /\ ToldIsOut' /\ Honest'
      BY <2>2, KeysAreOutKept, ToldIsOutKept, HonestKept DEF IInv
    <3>3. PublicRead' /\ PostsKeyed' /\ SamePostOnce'
      BY <2>2, PublicReadKept, PostsKeyedKept, SamePostKept DEF IInv
    <3>4. Counts' /\ Numbered' /\ MadeInTime' /\ ToldOwn'
      BY <2>2, CountsKept, NumberedKept, MadeInTimeKept, ToldOwnKept DEF IInv
    <3>5. TokenSpent' /\ SignInAgainHasACause' /\ DeclaredMethodsExist' /\ OneLike'
      BY <2>2, TokenSpentKept, SignInKept, OneLikeKept DEF IInv
    <3> QED
      BY <2>1, <3>1, <3>2, <3>3, <3>4, <3>5 DEF IInv
  <2>3. ASSUME NEW f \in FactsRead, Edit(f)
        PROVE  IInv'
    <3>1. Unedited' => f # "public"
      BY <2>3 DEF Edit, Unedited
    <3>2. ASSUME Unedited', NEW c \in DOMAIN asked, ReadsIt(c)
          PROVE  Holds("public")' = Holds("public")
      BY <2>1, <2>3, <3>1, <3>2, ReadFacts DEF Edit, Holds
    <3> QED
      <4>1. /\ UNCHANGED <<asked, steps, at, ended, known, told, made, finished, out, keys>>
            /\ history \subseteq history'
        BY <2>3 DEF Edit, caller
      <4> QED
        BY <2>1, <2>3, <3>2, <4>1, Elsewhere, EditsDisturbNothing DEF IInv
  <2>4. CASE UNCHANGED vars
    <3>1. /\ UNCHANGED <<asked, steps, at, ended, known, told, made, finished, out, keys>>
          /\ history \subseteq history' /\ Holds("public")' = Holds("public")
      BY <2>4 DEF vars, Holds
    <3> QED
      BY <2>1, <2>4, <3>1, Elsewhere, EditsDisturbNothing DEF IInv
  <2> QED
    BY <2>2, <2>3, <2>4 DEF Next, Done
<1> QED
  BY InitHolds, <1>1, PTL DEF Spec

-----------------------------------------------------------------------------
\* What everybody can see was made of files the network had finished with, but for
\* those of which a status reply said nothing and which their network's code does
\* not wait for then (_wait_for: never a video) - whatever fails, however many call.
THEOREM WhatIsOutIsWhole ==
  ASSUME ScriptsAreWellBuilt
  PROVE  Spec => []OutIsWhole
<1>1. IInv => OutIsWhole
  BY DEF IInv
<1> QED
  BY Invariance, <1>1, PTL

\* Nothing goes out twice but for a lost reply, and never where a key or a single
\* try prevents it (HttpClient.request, post_fingerprint).
THEOREM SecondCopyHasACause ==
  ASSUME ScriptsAreWellBuilt
  PROVE  Spec => []TwiceHasACause
<1>1. IInv => TwiceHasACause
  <2> SUFFICES ASSUME IInv, NEW c \in Active, NEW what \in Items(c), Copies(c, what) > 1
               PROVE  Befell(c, "lost") /\ ~Protected(asked[c])
    BY DEF TwiceHasACause
  <2> DEFINE copies == {i \in DOMAIN out[c] : out[c][i].what = what}
  <2>1. PICK i \in copies : TRUE
    BY DEF Items
  <2>2. copies # {i}
    <3>1. Cardinality({i}) = 1
      BY FS_Singleton
    <3> QED
      BY <3>1 DEF Copies
  <2>3. PICK j \in copies : j # i
    BY <2>1, <2>2
  <2> QED
    BY <2>3 DEF IInv, SentTwice, Active
<1> QED
  BY Invariance, <1>1, PTL

\* Two calls for one Mastodon post make one (post_fingerprint, Idempotency-Key).
THEOREM OnePostForTwo ==
  ASSUME ScriptsAreWellBuilt
  PROVE  Spec => []SamePostOnce
<1>1. IInv => SamePostOnce
  BY DEF IInv
<1> QED
  BY Invariance, <1>1, PTL

\* What a call was told is out is out: its own post, or one with the same words and
\* files of the same names, which is all that the key can tell (post_fingerprint).
THEOREM WhatIsToldIsOut ==
  ASSUME ScriptsAreWellBuilt
  PROVE  Spec => []ToldIsOut
<1>1. IInv => ToldIsOut
  BY DEF IInv
<1> QED
  BY Invariance, <1>1, PTL

\* An error says what went out, but for what lost and unreadable replies hide
\* (PartialThreadError, already_sent).
THEOREM ErrorsAreHonest ==
  ASSUME ScriptsAreWellBuilt
  PROVE  Spec => []ErrorsSayWhatWentOut
<1>1. IInv => ErrorsSayWhatWentOut
  BY DEF IInv, Honest, ErrorsSayWhatWentOut, Active
<1> QED
  BY Invariance, <1>1, PTL

\* The types, the bounds of HttpClient.request and of the waits, and what the
\* network holds of what it has finished.
THEOREM TypesHold ==
  ASSUME ScriptsAreWellBuilt
  PROVE  Spec => []TypeOK
<1>1. IInv => TypeOK
  <2> SUFFICES ASSUME IInv PROVE TypeOK
    OBVIOUS
  <2> USE DEF IInv
  <2>1. asked \in Asked /\ WellBuilt(asked)
    BY DEF Shape, ScriptsAreWellBuilt
  <2>2. ASSUME NEW c \in Active
        PROVE  /\ at[c] \in 1..Len(steps[c])
               /\ tries[c] \in 0..Attempts - 1 /\ rounds[c] \in 0..Patience
               /\ finished[c] \subseteq made[c]
               /\ told[c] \in Seq(Items(c)) \/ keys # {}
    <3>1. at[c] \in 1..Len(steps[c])
      BY <2>2, WellBuiltSteps DEF HasAnEnd, Shape, Active
    <3> QED
      BY <2>2, <3>1 DEF Counts, MadeInTime, ToldOwn, Active
  <2>3. \A f \in DOMAIN world : world[f] \subseteq Nat
    BY FiniteNumbers
  <2>4. faults \in 0..MaxFaults
    BY DEF Counts
  <2> QED
    BY <2>1, <2>2, <2>3, <2>4 DEF TypeOK
<1> QED
  BY Invariance, <1>1, PTL

\* Nobody is sent to sign in again without a cause: a refusal, a reply that could
\* not be understood, or a refresh token that was used up (_is_xs_own_fault).
THEOREM SigningInHasACause ==
  ASSUME ScriptsAreWellBuilt
  PROVE  Spec => []SignInAgainHasACause
<1>1. IInv => SignInAgainHasACause
  BY DEF IInv
<1> QED
  BY Invariance, <1>1, PTL

\* One like is one record, but for a lost reply, somebody else's edit, or two calls
\* at once (the like operations look for one before they add one).
THEOREM OneLikeIsOneRecord ==
  ASSUME ScriptsAreWellBuilt
  PROVE  Spec => []LikedTwiceHasACause
<1>1. IInv => LikedTwiceHasACause
  <2> SUFFICES ASSUME IInv, "like" \in DOMAIN world, Cardinality(world["like"]) > 1,
                      <<"like", "edited">> \notin history, ~(Cardinality(Active) > 1),
                      \A c \in Active : ~Befell(c, "lost") /\ ~Befell(c, "garbled")
               PROVE  FALSE
    BY DEF LikedTwiceHasACause
  <2>1. \A c, d \in DOMAIN asked : c = d
    <3> SUFFICES ASSUME NEW c \in DOMAIN asked, NEW d \in DOMAIN asked, c # d PROVE FALSE
      OBVIOUS
    <3>1. IsFiniteSet({c}) /\ Cardinality({c}) = 1
      BY FS_Singleton
    <3>2. Cardinality({c} \cup {d}) = 2
      <4>1. Cardinality({c} \cup {d})
              = IF d \in {c} THEN Cardinality({c}) ELSE Cardinality({c}) + 1
        BY <3>1, FS_AddElement, Zenon
      <4> QED
        BY <3>1, <4>1
    <3>3. IsFiniteSet(DOMAIN asked) /\ {c} \cup {d} \subseteq DOMAIN asked
      BY FiniteNumbers DEF IInv
    <3>4. 2 <= Cardinality(DOMAIN asked) /\ Cardinality(DOMAIN asked) \in Nat
      BY <3>2, <3>3, FS_Subset, FS_CardinalityType
    <3> QED
      BY <3>4 DEF Active
  <2>2. PICK n : world["like"] \subseteq {n}
    BY <2>1 DEF IInv, OneLike, Undisturbed, Active
  <2>3. IsFiniteSet({n}) /\ Cardinality({n}) = 1
    BY FS_Singleton
  <2>4. Cardinality(world["like"]) <= 1 /\ Cardinality(world["like"]) \in Nat
    BY <2>2, <2>3, FS_Subset, FS_CardinalityType
  <2> QED
    BY <2>4
<1> QED
  BY Invariance, <1>1, PTL

\* What our own checks refuse has put nothing before the public, and left no file
\* at the network but in front of one that is given by its address.
THEOREM ChecksAreFirst ==
  ASSUME ScriptsAreWellBuilt
  PROVE  Spec => []ChecksComeFirst
<1>1. IInv => ChecksComeFirst
  <2> SUFFICES ASSUME IInv, NEW c \in DOMAIN asked, Now(c).does = "refuse"
               PROVE  out[c] = <<>> /\ (made[c] # {} => AnyFrom(asked[c], "url"))
    BY DEF ChecksComeFirst, Active
  <2> USE DEF IInv
  <2>1. /\ at[c] \in DOMAIN steps[c] /\ DOMAIN steps[c] = 1..Len(steps[c])
        /\ Len(steps[c]) \in Nat /\ at[c] \in Nat /\ Now(c) = steps[c][at[c]]
    BY WellBuiltSteps DEF HasAnEnd, Shape, Now
  <2>2. \A j \in 1..at[c] - 1 :
          /\ steps[c][j].does # "send"
          /\ steps[c][j].does \in Creates => AnyFrom(asked[c], "url")
    BY <2>1, WellBuiltSteps DEF ChecksFirst
  <2>3. out[c] = <<>>
    <3> SUFFICES ASSUME out[c] # <<>> PROVE FALSE
      OBVIOUS
    <3>1. out[c] \in Seq(Pieces)
      BY DEF Shape
    <3>2. PICK i \in DOMAIN out[c] : TRUE
      <4>1. Len(out[c]) # 0 /\ Len(out[c]) \in Nat /\ DOMAIN out[c] = 1..Len(out[c])
        BY <3>1, EmptySeq
      <4>2. 1 \in DOMAIN out[c]
        BY <4>1
      <4> QED
        BY <4>2
    <3>3. out[c][i].what \in Items(c)
      BY DEF Items
    <3>4. PICK k \in SendsOf(steps[c]) : k <= at[c]
      BY <3>3 DEF SentSoFar, SentBy
    <3>5. k \in 1..at[c] - 1
      BY <2>1, <3>4 DEF SendsOf
    <3> QED
      BY <2>2, <3>5 DEF SendsOf
  <2>4. made[c] # {} => AnyFrom(asked[c], "url")
    <3> SUFFICES ASSUME made[c] # {} PROVE AnyFrom(asked[c], "url")
      OBVIOUS
    <3>1. PICK j \in DOMAIN steps[c] : j <= at[c] /\ steps[c][j].does \in Creates
      BY DEF MadeInTime
    <3>2. j \in 1..at[c] - 1
      BY <2>1, <3>1 DEF Creates
    <3> QED
      BY <2>2, <3>1, <3>2
  <2> QED
    BY <2>3, <2>4
<1> QED
  BY Invariance, <1>1, PTL

\* No network's operation comes to a method that it declares and does not have
\* (MissingMethod).
THEOREM NoMethodIsMissing ==
  ASSUME ScriptsAreWellBuilt
  PROVE  Spec => []DeclaredMethodsExist
<1>1. IInv => DeclaredMethodsExist
  BY DEF IInv
<1> QED
  BY Invariance, <1>1, PTL
=============================================================================
