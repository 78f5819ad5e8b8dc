------------------------ MODULE TokenRenewal_proofs ------------------------
(***************************************************************************)
(* Proofs about TokenRenewal, for every set of calls and processes, every  *)
(* kind of network, every set of faults and every bound.                   *)
(***************************************************************************)
EXTENDS TokenRenewal, TLAPS

USE TokenAssumption DEF Token, States, Outcomes, Kinds, NoConnection

\* Counting a failure stays within Retries.attempts, and the request that uses
\* the last of them ends.  (HttpClient.request)
LEMMA Retrying ==
  ASSUME TypeOK, NEW t \in Tasks, pc[t] \in {"ask", "reply"}, TryAgain(t)
  PROVE  /\ tries' \in [Tasks -> 0..Attempts]
         /\ pc' \in [Tasks -> States]
         /\ outcome' \in [Tasks -> Outcomes]
         /\ held' = held /\ orphaned' = orphaned
         /\ \A u \in Tasks : tries'[u] = Attempts => pc'[u] = "release"
         /\ \A u \in Tasks : pc'[u] \in {"idle", "load", "lock", "reload"} => tries'[u] = 0
         /\ \A u \in Tasks : pc[u] \in {"idle", "load", "lock"} <=> pc'[u] \in {"idle", "load", "lock"}
<1>1. tries[t] \in Nat /\ tries[t] < Attempts /\ Attempts \in Nat
  <2>1. tries[t] \in 0..Attempts
    BY DEF TypeOK
  <2>2. tries[t] = Attempts => pc[t] = "release"
    BY DEF TypeOK
  <2>3. tries[t] # Attempts
    BY <2>2
  <2>4. Attempts \in Nat
    OBVIOUS
  <2>5. QED
    BY <2>1, <2>3, <2>4
<1>2. tries[t] + 1 \in 0..Attempts /\ (tries[t] + 1 >= Attempts => tries[t] + 1 = Attempts)
  BY <1>1
<1> USE DEF TypeOK, TryAgain, CountFailure, MayTryAgain, Leave, Goto, locks
<1>3. tries' = [tries EXCEPT ![t] = tries[t] + 1]
  OBVIOUS
<1>4. CASE tries[t] + 1 < Attempts
  <2>1. pc' = [pc EXCEPT ![t] = "ask"] /\ outcome' = outcome /\ held' = held /\ orphaned' = orphaned
    BY <1>4, <1>2
  <2>2. tries[t] + 1 # Attempts
    BY <1>4, <1>1
  <2>3. QED
    BY <1>2, <1>3, <2>1, <2>2
<1>5. CASE tries[t] + 1 >= Attempts
  <2>1. /\ pc' = [pc EXCEPT ![t] = "release"] /\ held' = held /\ orphaned' = orphaned
        /\ outcome' = [outcome EXCEPT ![t] = "raised"]
    BY <1>5, <1>1
  <2>2. QED
    BY <1>2, <1>3, <2>1
<1>6. QED
  BY <1>4, <1>5, <1>1

\* The first sign-in leaves a state of the right types.
LEMMA InitTyping ==
  ASSUME Init
  PROVE  TypeOK
<1>1. FirstPair(1) \in Token
  BY DEF FirstPair
<1>2. /\ tries \in [Tasks -> 0..Attempts]
      /\ \A t \in Tasks : tries[t] # Attempts /\ tries[t] = 0
  BY DEF Init
<1>3. live \subseteq 1..issued /\ aged \in 0..issued /\ lapsed \in 0..aged
  BY DEF Init
<1>4. QED
  <2>1. store \in Token /\ late \subseteq Token /\ issued \in Nat
    BY <1>1 DEF Init
  <2>2. pc \in [Tasks -> States] /\ conn \in [Tasks -> Token] /\ got \in [Tasks -> Token]
    BY DEF Init
  <2>3. outcome \in [Tasks -> Outcomes] /\ held = {} /\ orphaned \in BOOLEAN /\ mishap \in BOOLEAN
    BY DEF Init
  <2>4. QED
    BY <2>1, <2>2, <2>3, <1>2, <1>3 DEF TypeOK

\* Every step keeps the types, the bound on retries among them.
LEMMA TypingStep ==
  ASSUME TypeOK, [Next]_vars
  PROVE  TypeOK'
<1> USE DEF TypeOK, network, locks, Goto, Leave, Finish, Blame
<1>1. ASSUME NEW t \in Tasks, LookUp(t) PROVE TypeOK'
  BY <1>1 DEF LookUp
<1>2. ASSUME NEW t \in Tasks, Load(t) PROVE TypeOK'
  BY <1>2 DEF Load
<1>3. ASSUME NEW t \in Tasks, Acquire(t) PROVE TypeOK'
  BY <1>3 DEF Acquire
<1>4. ASSUME NEW t \in Tasks, Reload(t) PROVE TypeOK'
  BY <1>4 DEF Reload, ReadAgain
<1>5. ASSUME NEW t \in Tasks, NoAppSaved(t) PROVE TypeOK'
  BY <1>5 DEF NoAppSaved
<1>6. ASSUME NEW t \in Tasks, Serve(t) PROVE TypeOK'
  <2>1. Renewed(conn[t], issued + 1) \in Token
    <3>1. conn[t] \in Token /\ issued + 1 \in Nat
      OBVIOUS
    <3>2. QED
      BY <3>1 DEF Renewed
  <2>2. live' \subseteq 1..issued'
    <3>1. \A n \in 1..issued : n \in 1..(issued + 1)
      OBVIOUS
    <3>2. live' \subseteq live \cup {issued + 1}
      BY <1>6 DEF Serve
    <3>3. issued' = issued + 1 /\ issued + 1 \in 1..(issued + 1)
      BY <1>6 DEF Serve
    <3>4. QED
      BY <3>1, <3>2, <3>3
  <2>3. aged \in 0..issued' /\ issued' \in Nat /\ tries[t] # Attempts
    BY <1>6 DEF Serve
  <2>4. QED
    BY <1>6, <2>1, <2>2, <2>3 DEF Serve
<1>7. ASSUME NEW t \in Tasks, Refuse(t) PROVE TypeOK'
  BY <1>7 DEF Refuse
<1>8. ASSUME NEW t \in Tasks, Unserved(t) PROVE TypeOK'
  BY <1>8, Retrying DEF Unserved
<1>9. ASSUME NEW t \in Tasks, LoseReply(t) PROVE TypeOK'
  BY <1>9, Retrying DEF LoseReply
<1>10. ASSUME NEW t \in Tasks, Receive(t) PROVE TypeOK'
  BY <1>10 DEF Receive
<1>11. ASSUME NEW t \in Tasks, Save(t) PROVE TypeOK'
  BY <1>11 DEF Save, SavedToken
<1>12. ASSUME NEW t \in Tasks, FailToSave(t) PROVE TypeOK'
  BY <1>12 DEF FailToSave
<1>13. ASSUME NEW t \in Tasks, Release(t) PROVE TypeOK'
  BY <1>13 DEF Release, LetGo
<1>14. ASSUME NEW t \in Tasks, Cancel(t) PROVE TypeOK'
  <2>1. late' \subseteq Token
    <3>1. late' = late \/ late' = late \cup {got[t]}
      BY <1>14 DEF Cancel
    <3>2. got[t] \in Token /\ late \subseteq Token
      OBVIOUS
    <3>3. QED
      BY <3>1, <3>2
  <2>2. /\ tries' = tries /\ held' = held
        /\ got' = got \/ got' = [got EXCEPT ![t] = NoConnection]
        /\ mishap' = mishap \/ mishap' = TRUE
    BY <1>14 DEF Cancel
  <2>3. pc' \in [Tasks -> States] /\ outcome' \in [Tasks -> Outcomes]
    BY <1>14 DEF Cancel
  <2>4. \/ pc[t] \in {"load", "lock"} /\ pc' = [pc EXCEPT ![t] = "idle"]
        \/ pc[t] \in {"reload", "ask", "reply", "save"} /\ pc' = [pc EXCEPT ![t] = "release"]
    BY <1>14 DEF Cancel
  <2>5. held' \subseteq {u \in Tasks : pc'[u] \notin {"idle", "load", "lock"}}
    BY <2>2, <2>4
  <2>6. \A u \in Tasks : tries'[u] = Attempts => pc'[u] = "release"
    BY <2>2, <2>4
  <2>7. \A u \in Tasks :
          pc'[u] \in {"idle", "load", "lock", "reload"} => tries'[u] = 0
    BY <2>2, <2>4
  <2>8. /\ store' = store /\ issued' = issued /\ live' = live /\ aged' = aged
        /\ lapsed' = lapsed /\ conn' = conn /\ orphaned' = orphaned
    BY <1>14 DEF Cancel
  <2>9. got' \in [Tasks -> Token] /\ mishap' \in BOOLEAN
    <3>1. got' \in [Tasks -> Token]
      BY <2>2
    <3>2. mishap' \in BOOLEAN
      BY <2>2, Zenon
    <3>3. QED
      BY <3>1, <3>2
  <2>10. QED
    BY <2>1, <2>2, <2>3, <2>5, <2>6, <2>7, <2>8, <2>9
<1>15. ASSUME NEW token \in late, LateSave(token) PROVE TypeOK'
  BY <1>15 DEF LateSave
<1>16. ASSUME NEW p \in Procs, Crash(p) PROVE TypeOK'
  BY <1>16 DEF Crash
<1>17. CASE LeaseRunsOut
  BY <1>17 DEF LeaseRunsOut
<1>18. CASE Disconnect
  BY <1>18 DEF Disconnect
<1>19. CASE Reconnect
  BY <1>19 DEF Reconnect, FirstPair
<1>20. CASE Age
  BY <1>20 DEF Age
<1>21. CASE Lapse
  BY <1>21 DEF Lapse
<1>22. CASE Revoke
  BY <1>22 DEF Revoke
<1>23. CASE UNCHANGED vars
  BY <1>23 DEF vars
<1>24. QED
  BY <1>1, <1>2, <1>3, <1>4, <1>5, <1>6, <1>7, <1>8, <1>9, <1>10, <1>11,
     <1>12, <1>13, <1>14, <1>15, <1>16, <1>17, <1>18, <1>19, <1>20, <1>21,
     <1>22, <1>23 DEF Next, CallStep

\* The types hold throughout, and no request fails more often than
\* Retries.attempts allows.
THEOREM Typing == Spec => []TypeOK
<1>1. QED
  BY InitTyping, TypingStep, PTL DEF Spec

-----------------------------------------------------------------------------
(***************************************************************************)
(* The inductive invariant behind AccountKept and SignInAgainIsFinal.      *)
(***************************************************************************)

\* No lock is held twice, whatever happens.
HeldOnce == \A t, u \in held : SameLock(t, u) => t = u

\* Without a fault, a call between the second read and the save holds its lock.
HeldWhileRenewing == ~mishap => \A t \in Renewing : t \in held

\* A call has a pair in hand exactly while it waits for the reply or saves it.
PairInHand == \A t \in Tasks : got[t] # NoConnection <=> pc[t] \in {"reply", "save"}

\* A network that hands out no refresh token never hears of a renewal.
NeverAsked ==
  Kind = "extends" =>
    /\ store.refresh = 0
    /\ late = {}
    /\ \A t \in Tasks : pc[t] \notin {"ask", "reply", "save"}

\* What the network honours has not lapsed.
LiveNotLapsed == Kind # "extends" => \A n \in live : n > lapsed

\* Without a fault the network honours at most the stored key while nothing
\* is in hand, and at most the key in hand otherwise.
OneKey ==
  Undisturbed =>
    /\ late = {}
    /\ \A t \in Tasks :
         pc[t] = "ask" => conn[t] = store /\ store # NoConnection /\ RunningOut(store)
    /\ InHand = {} /\ store # NoConnection => live \subseteq {Key(store)}
    /\ \A t \in InHand : live \subseteq {Key(got[t])}

IInv == TypeOK /\ HeldOnce /\ HeldWhileRenewing /\ PairInHand /\ NeverAsked
        /\ LiveNotLapsed /\ OneKey

\* A lock is taken only when nobody holds it.  (_lock_for, `async with`)
LEMMA HeldOnceStep ==
  ASSUME TypeOK, HeldOnce, [Next]_vars
  PROVE  HeldOnce'
<1> USE DEF TypeOK, network, locks, Goto, Leave, Finish, Blame, HeldOnce, SameLock
<1>1. ASSUME NEW t \in Tasks, LookUp(t) PROVE HeldOnce'
  BY <1>1 DEF LookUp
<1>2. ASSUME NEW t \in Tasks, Load(t) PROVE HeldOnce'
  BY <1>2 DEF Load
<1>3. ASSUME NEW t \in Tasks, Acquire(t) PROVE HeldOnce'
  BY <1>3 DEF Acquire, LockFree
<1>4. ASSUME NEW t \in Tasks, Reload(t) PROVE HeldOnce'
  BY <1>4 DEF Reload, ReadAgain
<1>5. ASSUME NEW t \in Tasks, NoAppSaved(t) PROVE HeldOnce'
  BY <1>5 DEF NoAppSaved
<1>6. ASSUME NEW t \in Tasks, Serve(t) PROVE HeldOnce'
  BY <1>6 DEF Serve
<1>7. ASSUME NEW t \in Tasks, Refuse(t) PROVE HeldOnce'
  BY <1>7 DEF Refuse
<1>8. ASSUME NEW t \in Tasks, Unserved(t) PROVE HeldOnce'
  BY <1>8 DEF Unserved, TryAgain, CountFailure
<1>9. ASSUME NEW t \in Tasks, LoseReply(t) PROVE HeldOnce'
  BY <1>9 DEF LoseReply, TryAgain, CountFailure
<1>10. ASSUME NEW t \in Tasks, Receive(t) PROVE HeldOnce'
  BY <1>10 DEF Receive
<1>11. ASSUME NEW t \in Tasks, Save(t) PROVE HeldOnce'
  BY <1>11 DEF Save, SavedToken
<1>12. ASSUME NEW t \in Tasks, FailToSave(t) PROVE HeldOnce'
  BY <1>12 DEF FailToSave
<1>13. ASSUME NEW t \in Tasks, Release(t) PROVE HeldOnce'
  BY <1>13 DEF Release, LetGo
<1>14. ASSUME NEW t \in Tasks, Cancel(t) PROVE HeldOnce'
  BY <1>14 DEF Cancel
<1>15. ASSUME NEW token \in late, LateSave(token) PROVE HeldOnce'
  BY <1>15 DEF LateSave
<1>16. ASSUME NEW p \in Procs, Crash(p) PROVE HeldOnce'
  BY <1>16 DEF Crash
<1>17. CASE LeaseRunsOut
  BY <1>17 DEF LeaseRunsOut
<1>18. CASE Disconnect
  BY <1>18 DEF Disconnect
<1>19. CASE Reconnect
  BY <1>19 DEF Reconnect, FirstPair
<1>20. CASE Age
  BY <1>20 DEF Age
<1>21. CASE Lapse
  BY <1>21 DEF Lapse
<1>22. CASE Revoke
  BY <1>22 DEF Revoke
<1>23. CASE UNCHANGED vars
  BY <1>23 DEF vars
<1>24. QED
  BY <1>1, <1>2, <1>3, <1>4, <1>5, <1>6, <1>7, <1>8, <1>9, <1>10, <1>11,
     <1>12, <1>13, <1>14, <1>15, <1>16, <1>17, <1>18, <1>19, <1>20, <1>21,
     <1>22, <1>23
  DEF Next, CallStep

\* Only a lease that runs out takes the lock from a renewal.
LEMMA HeldWhileRenewingStep ==
  ASSUME TypeOK, HeldWhileRenewing, [Next]_vars
  PROVE  HeldWhileRenewing'
<1> USE DEF TypeOK, network, locks, Goto, Leave, Finish, Blame, HeldWhileRenewing, Renewing
<1>1. ASSUME NEW t \in Tasks, LookUp(t) PROVE HeldWhileRenewing'
  BY <1>1 DEF LookUp
<1>2. ASSUME NEW t \in Tasks, Load(t) PROVE HeldWhileRenewing'
  BY <1>2 DEF Load
<1>3. ASSUME NEW t \in Tasks, Acquire(t) PROVE HeldWhileRenewing'
  BY <1>3 DEF Acquire, LockFree
<1>4. ASSUME NEW t \in Tasks, Reload(t) PROVE HeldWhileRenewing'
  BY <1>4 DEF Reload, ReadAgain
<1>5. ASSUME NEW t \in Tasks, NoAppSaved(t) PROVE HeldWhileRenewing'
  BY <1>5 DEF NoAppSaved
<1>6. ASSUME NEW t \in Tasks, Serve(t) PROVE HeldWhileRenewing'
  BY <1>6 DEF Serve
<1>7. ASSUME NEW t \in Tasks, Refuse(t) PROVE HeldWhileRenewing'
  BY <1>7 DEF Refuse
<1>8. ASSUME NEW t \in Tasks, Unserved(t) PROVE HeldWhileRenewing'
  BY <1>8 DEF Unserved, TryAgain, CountFailure
<1>9. ASSUME NEW t \in Tasks, LoseReply(t) PROVE HeldWhileRenewing'
  BY <1>9 DEF LoseReply, TryAgain, CountFailure
<1>10. ASSUME NEW t \in Tasks, Receive(t) PROVE HeldWhileRenewing'
  BY <1>10 DEF Receive
<1>11. ASSUME NEW t \in Tasks, Save(t) PROVE HeldWhileRenewing'
  BY <1>11 DEF Save, SavedToken
<1>12. ASSUME NEW t \in Tasks, FailToSave(t) PROVE HeldWhileRenewing'
  BY <1>12 DEF FailToSave
<1>13. ASSUME NEW t \in Tasks, Release(t) PROVE HeldWhileRenewing'
  BY <1>13 DEF Release, LetGo
<1>14. ASSUME NEW t \in Tasks, Cancel(t) PROVE HeldWhileRenewing'
  BY <1>14 DEF Cancel
<1>15. ASSUME NEW token \in late, LateSave(token) PROVE HeldWhileRenewing'
  BY <1>15 DEF LateSave
<1>16. ASSUME NEW p \in Procs, Crash(p) PROVE HeldWhileRenewing'
  BY <1>16 DEF Crash
<1>17. CASE LeaseRunsOut
  BY <1>17 DEF LeaseRunsOut
<1>18. CASE Disconnect
  BY <1>18 DEF Disconnect
<1>19. CASE Reconnect
  BY <1>19 DEF Reconnect, FirstPair
<1>20. CASE Age
  BY <1>20 DEF Age
<1>21. CASE Lapse
  BY <1>21 DEF Lapse
<1>22. CASE Revoke
  BY <1>22 DEF Revoke
<1>23. CASE UNCHANGED vars
  BY <1>23 DEF vars
<1>24. QED
  BY <1>1, <1>2, <1>3, <1>4, <1>5, <1>6, <1>7, <1>8, <1>9, <1>10, <1>11,
     <1>12, <1>13, <1>14, <1>15, <1>16, <1>17, <1>18, <1>19, <1>20, <1>21,
     <1>22, <1>23
  DEF Next, CallStep

\* A pair leaves a call's hand by being saved, or by a fault.
LEMMA PairInHandStep ==
  ASSUME TypeOK, PairInHand, [Next]_vars
  PROVE  PairInHand'
<1> USE DEF TypeOK, network, locks, Goto, Leave, Finish, Blame, PairInHand
<1>1. ASSUME NEW t \in Tasks, LookUp(t) PROVE PairInHand'
  BY <1>1 DEF LookUp
<1>2. ASSUME NEW t \in Tasks, Load(t) PROVE PairInHand'
  BY <1>2 DEF Load
<1>3. ASSUME NEW t \in Tasks, Acquire(t) PROVE PairInHand'
  BY <1>3 DEF Acquire, LockFree
<1>4. ASSUME NEW t \in Tasks, Reload(t) PROVE PairInHand'
  BY <1>4 DEF Reload, ReadAgain
<1>5. ASSUME NEW t \in Tasks, NoAppSaved(t) PROVE PairInHand'
  BY <1>5 DEF NoAppSaved
<1>6. ASSUME NEW t \in Tasks, Serve(t) PROVE PairInHand'
  <2>1. Renewed(conn[t], issued + 1).access = issued + 1 /\ issued + 1 # 0
    BY DEF Renewed
  <2>2. Renewed(conn[t], issued + 1) # NoConnection
    BY <2>1
  <2>3. QED
    BY <1>6, <2>2 DEF Serve
<1>7. ASSUME NEW t \in Tasks, Refuse(t) PROVE PairInHand'
  BY <1>7 DEF Refuse
<1>8. ASSUME NEW t \in Tasks, Unserved(t) PROVE PairInHand'
  BY <1>8 DEF Unserved, TryAgain, CountFailure
<1>9. ASSUME NEW t \in Tasks, LoseReply(t) PROVE PairInHand'
  BY <1>9 DEF LoseReply, TryAgain, CountFailure
<1>10. ASSUME NEW t \in Tasks, Receive(t) PROVE PairInHand'
  BY <1>10 DEF Receive
<1>11. ASSUME NEW t \in Tasks, Save(t) PROVE PairInHand'
  BY <1>11 DEF Save, SavedToken
<1>12. ASSUME NEW t \in Tasks, FailToSave(t) PROVE PairInHand'
  BY <1>12 DEF FailToSave
<1>13. ASSUME NEW t \in Tasks, Release(t) PROVE PairInHand'
  BY <1>13 DEF Release, LetGo
<1>14. ASSUME NEW t \in Tasks, Cancel(t) PROVE PairInHand'
  BY <1>14 DEF Cancel
<1>15. ASSUME NEW token \in late, LateSave(token) PROVE PairInHand'
  BY <1>15 DEF LateSave
<1>16. ASSUME NEW p \in Procs, Crash(p) PROVE PairInHand'
  BY <1>16 DEF Crash
<1>17. CASE LeaseRunsOut
  BY <1>17 DEF LeaseRunsOut
<1>18. CASE Disconnect
  BY <1>18 DEF Disconnect
<1>19. CASE Reconnect
  BY <1>19 DEF Reconnect, FirstPair
<1>20. CASE Age
  BY <1>20 DEF Age
<1>21. CASE Lapse
  BY <1>21 DEF Lapse
<1>22. CASE Revoke
  BY <1>22 DEF Revoke
<1>23. CASE UNCHANGED vars
  BY <1>23 DEF vars
<1>24. QED
  BY <1>1, <1>2, <1>3, <1>4, <1>5, <1>6, <1>7, <1>8, <1>9, <1>10, <1>11,
     <1>12, <1>13, <1>14, <1>15, <1>16, <1>17, <1>18, <1>19, <1>20, <1>21,
     <1>22, <1>23
  DEF Next, CallStep

\* Without a refresh token _renew raises before anything is sent.
LEMMA NeverAskedStep ==
  ASSUME TypeOK, NeverAsked, [Next]_vars
  PROVE  NeverAsked'
<1> USE DEF TypeOK, network, locks, Goto, Leave, Finish, Blame, NeverAsked
<1>1. ASSUME NEW t \in Tasks, LookUp(t) PROVE NeverAsked'
  BY <1>1 DEF LookUp
<1>2. ASSUME NEW t \in Tasks, Load(t) PROVE NeverAsked'
  BY <1>2 DEF Load
<1>3. ASSUME NEW t \in Tasks, Acquire(t) PROVE NeverAsked'
  BY <1>3 DEF Acquire, LockFree
<1>4. ASSUME NEW t \in Tasks, Reload(t) PROVE NeverAsked'
  BY <1>4 DEF Reload, ReadAgain, NothingToRenewWith
<1>5. ASSUME NEW t \in Tasks, NoAppSaved(t) PROVE NeverAsked'
  BY <1>5 DEF NoAppSaved
<1>6. ASSUME NEW t \in Tasks, Serve(t) PROVE NeverAsked'
  BY <1>6 DEF Serve
<1>7. ASSUME NEW t \in Tasks, Refuse(t) PROVE NeverAsked'
  BY <1>7 DEF Refuse
<1>8. ASSUME NEW t \in Tasks, Unserved(t) PROVE NeverAsked'
  BY <1>8 DEF Unserved, TryAgain, CountFailure
<1>9. ASSUME NEW t \in Tasks, LoseReply(t) PROVE NeverAsked'
  BY <1>9 DEF LoseReply, TryAgain, CountFailure
<1>10. ASSUME NEW t \in Tasks, Receive(t) PROVE NeverAsked'
  BY <1>10 DEF Receive
<1>11. ASSUME NEW t \in Tasks, Save(t) PROVE NeverAsked'
  BY <1>11 DEF Save, SavedToken
<1>12. ASSUME NEW t \in Tasks, FailToSave(t) PROVE NeverAsked'
  BY <1>12 DEF FailToSave
<1>13. ASSUME NEW t \in Tasks, Release(t) PROVE NeverAsked'
  BY <1>13 DEF Release, LetGo
<1>14. ASSUME NEW t \in Tasks, Cancel(t) PROVE NeverAsked'
  BY <1>14 DEF Cancel
<1>15. ASSUME NEW token \in late, LateSave(token) PROVE NeverAsked'
  BY <1>15 DEF LateSave
<1>16. ASSUME NEW p \in Procs, Crash(p) PROVE NeverAsked'
  BY <1>16 DEF Crash
<1>17. CASE LeaseRunsOut
  BY <1>17 DEF LeaseRunsOut
<1>18. CASE Disconnect
  BY <1>18 DEF Disconnect
<1>19. CASE Reconnect
  BY <1>19 DEF Reconnect, FirstPair
<1>20. CASE Age
  BY <1>20 DEF Age
<1>21. CASE Lapse
  BY <1>21 DEF Lapse
<1>22. CASE Revoke
  BY <1>22 DEF Revoke
<1>23. CASE UNCHANGED vars
  BY <1>23 DEF vars
<1>24. QED
  BY <1>1, <1>2, <1>3, <1>4, <1>5, <1>6, <1>7, <1>8, <1>9, <1>10, <1>11,
     <1>12, <1>13, <1>14, <1>15, <1>16, <1>17, <1>18, <1>19, <1>20, <1>21,
     <1>22, <1>23
  DEF Next, CallStep

\* A refresh token past its date is dead at the network too.
LEMMA LiveNotLapsedStep ==
  ASSUME TypeOK, LiveNotLapsed, [Next]_vars
  PROVE  LiveNotLapsed'
<1> USE DEF TypeOK, network, locks, Goto, Leave, Finish, Blame, LiveNotLapsed
<1>1. ASSUME NEW t \in Tasks, LookUp(t) PROVE LiveNotLapsed'
  BY <1>1 DEF LookUp
<1>2. ASSUME NEW t \in Tasks, Load(t) PROVE LiveNotLapsed'
  BY <1>2 DEF Load
<1>3. ASSUME NEW t \in Tasks, Acquire(t) PROVE LiveNotLapsed'
  BY <1>3 DEF Acquire, LockFree
<1>4. ASSUME NEW t \in Tasks, Reload(t) PROVE LiveNotLapsed'
  BY <1>4 DEF Reload, ReadAgain
<1>5. ASSUME NEW t \in Tasks, NoAppSaved(t) PROVE LiveNotLapsed'
  BY <1>5 DEF NoAppSaved
<1>6. ASSUME NEW t \in Tasks, Serve(t) PROVE LiveNotLapsed'
  BY <1>6 DEF Serve
<1>7. ASSUME NEW t \in Tasks, Refuse(t) PROVE LiveNotLapsed'
  BY <1>7 DEF Refuse
<1>8. ASSUME NEW t \in Tasks, Unserved(t) PROVE LiveNotLapsed'
  BY <1>8 DEF Unserved, TryAgain, CountFailure
<1>9. ASSUME NEW t \in Tasks, LoseReply(t) PROVE LiveNotLapsed'
  BY <1>9 DEF LoseReply, TryAgain, CountFailure
<1>10. ASSUME NEW t \in Tasks, Receive(t) PROVE LiveNotLapsed'
  BY <1>10 DEF Receive
<1>11. ASSUME NEW t \in Tasks, Save(t) PROVE LiveNotLapsed'
  BY <1>11 DEF Save, SavedToken
<1>12. ASSUME NEW t \in Tasks, FailToSave(t) PROVE LiveNotLapsed'
  BY <1>12 DEF FailToSave
<1>13. ASSUME NEW t \in Tasks, Release(t) PROVE LiveNotLapsed'
  BY <1>13 DEF Release, LetGo
<1>14. ASSUME NEW t \in Tasks, Cancel(t) PROVE LiveNotLapsed'
  BY <1>14 DEF Cancel
<1>15. ASSUME NEW token \in late, LateSave(token) PROVE LiveNotLapsed'
  BY <1>15 DEF LateSave
<1>16. ASSUME NEW p \in Procs, Crash(p) PROVE LiveNotLapsed'
  BY <1>16 DEF Crash
<1>17. CASE LeaseRunsOut
  BY <1>17 DEF LeaseRunsOut
<1>18. CASE Disconnect
  BY <1>18 DEF Disconnect
<1>19. CASE Reconnect
  BY <1>19 DEF Reconnect, FirstPair
<1>20. CASE Age
  BY <1>20 DEF Age
<1>21. CASE Lapse
  BY <1>21 DEF Lapse
<1>22. CASE Revoke
  BY <1>22 DEF Revoke
<1>23. CASE UNCHANGED vars
  BY <1>23 DEF vars
<1>24. QED
  BY <1>1, <1>2, <1>3, <1>4, <1>5, <1>6, <1>7, <1>8, <1>9, <1>10, <1>11,
     <1>12, <1>13, <1>14, <1>15, <1>16, <1>17, <1>18, <1>19, <1>20, <1>21,
     <1>22, <1>23
  DEF Next, CallStep

\* Without a fault the pair moves from storage into one hand and back.
LEMMA OneKeyStep ==
  ASSUME IInv, [Next]_vars
  PROVE  OneKey'
<1> USE DEF IInv, TypeOK, network, locks, Goto, Leave, Finish, Blame, OneKey,
            Undisturbed, OneLock, InHand, RunningOut
<1>1. OneLock /\ ~mishap => \A t, u \in Renewing : t = u
  BY DEF HeldOnce, HeldWhileRenewing, Renewing
<1>2. \A t \in Tasks : (t \in InHand <=> pc[t] \in {"reply", "save"})
  BY DEF PairInHand
<1>3. \A t \in Tasks : (t \in Renewing <=> pc[t] \in {"reload", "ask", "reply", "save"})
  BY DEF Renewing
<1>4. ASSUME NEW t \in Tasks, LookUp(t) PROVE OneKey'
  BY <1>1, <1>2, <1>3, <1>4 DEF LookUp
<1>5. ASSUME NEW t \in Tasks, Load(t) PROVE OneKey'
  BY <1>1, <1>2, <1>3, <1>5 DEF Load
<1>6. ASSUME NEW t \in Tasks, Acquire(t) PROVE OneKey'
  BY <1>1, <1>2, <1>3, <1>6 DEF Acquire
<1>7. ASSUME NEW t \in Tasks, Reload(t) PROVE OneKey'
  BY <1>1, <1>2, <1>3, <1>7 DEF Reload, ReadAgain, StillRunningOut
<1>8. ASSUME NEW t \in Tasks, NoAppSaved(t) PROVE OneKey'
  BY <1>1, <1>2, <1>3, <1>8 DEF NoAppSaved
<1>9. ASSUME NEW t \in Tasks, Serve(t) PROVE OneKey'
  <2> SUFFICES ASSUME Undisturbed' PROVE OneKey'
    OBVIOUS
  <2>1. /\ Undisturbed /\ conn[t] = store /\ store # NoConnection
        /\ InHand = {} /\ late = {} /\ live \subseteq {Key(store)}
    <3>1. Undisturbed /\ pc[t] = "ask"
      BY <1>9 DEF Serve
    <3>2. \A u \in Tasks : u \in Renewing => u = t
      BY <1>1, <1>3, <3>1
    <3>3. InHand = {}
      BY <1>2, <1>3, <3>1, <3>2
    <3>4. QED
      BY <3>1, <3>3
  <2>2. InHand' = {t} /\ \A u \in Tasks : pc'[u] # "ask"
    <3>1. \A u \in Tasks : u # t => got[u] = NoConnection /\ pc[u] # "ask"
      BY <1>1, <1>3, <1>9, <2>1 DEF Serve
    <3>2. got' = [got EXCEPT ![t] = Renewed(conn[t], issued + 1)]
      BY <1>9 DEF Serve
    <3>3. Renewed(conn[t], issued + 1).access = issued + 1 /\ issued + 1 # 0
      BY DEF Renewed
    <3>4. QED
      BY <1>9, <3>1, <3>2, <3>3 DEF Serve
  <2>3. Kind # "extends"
    BY <1>9 DEF NeverAsked, Serve
  <2>4. live' \subseteq {Key(got'[t])}
    <3>1. got'[t] = Renewed(store, issued + 1)
      BY <1>9, <2>1 DEF Serve
    <3>2. CASE Kind = "rotates"
      <4>1. Key(got'[t]) = issued + 1
        BY <3>1, <3>2 DEF Key, Renewed
      <4>2. live' = (live \ {Key(store)}) \cup {issued + 1}
        BY <1>9, <2>1, <3>2 DEF Serve
      <4>3. QED
        BY <4>1, <4>2, <2>1
    <3>3. CASE Kind = "keeps"
      <4>1. Key(got'[t]) = Key(store)
        BY <3>1, <3>3 DEF Key, Renewed
      <4>2. live' = live
        BY <1>9, <3>3 DEF Serve
      <4>3. QED
        BY <4>1, <4>2, <2>1
    <3>4. QED
      BY <2>3, <3>2, <3>3
  <2>5. late' = {}
    BY <1>9, <2>1 DEF Serve
  <2>6. QED
    BY <2>2, <2>4, <2>5
<1>10. ASSUME NEW t \in Tasks, Refuse(t) PROVE OneKey'
  BY <1>1, <1>2, <1>3, <1>10 DEF Refuse
<1>11. ASSUME NEW t \in Tasks, Unserved(t) PROVE OneKey'
  BY <1>1, <1>2, <1>3, <1>11 DEF Unserved, TryAgain, CountFailure
<1>12. ASSUME NEW t \in Tasks, LoseReply(t) PROVE OneKey'
  BY <1>1, <1>2, <1>3, <1>12 DEF LoseReply, TryAgain, CountFailure
<1>13. ASSUME NEW t \in Tasks, Receive(t) PROVE OneKey'
  BY <1>1, <1>2, <1>3, <1>13 DEF Receive
<1>14. ASSUME NEW t \in Tasks, Save(t) PROVE OneKey'
  BY <1>1, <1>2, <1>3, <1>14 DEF Save, SavedToken
<1>15. ASSUME NEW t \in Tasks, FailToSave(t) PROVE OneKey'
  BY <1>1, <1>2, <1>3, <1>15 DEF FailToSave
<1>16. ASSUME NEW t \in Tasks, Release(t) PROVE OneKey'
  BY <1>1, <1>2, <1>3, <1>16 DEF Release, LetGo
<1>17. ASSUME NEW t \in Tasks, Cancel(t) PROVE OneKey'
  BY <1>1, <1>2, <1>3, <1>17 DEF Cancel
<1>18. ASSUME NEW token \in late, LateSave(token) PROVE OneKey'
  BY <1>1, <1>2, <1>3, <1>18 DEF LateSave
<1>19. ASSUME NEW p \in Procs, Crash(p) PROVE OneKey'
  <2> SUFFICES ASSUME Undisturbed' PROVE OneKey'
    OBVIOUS
  <2> DEFINE dead == {t \in Tasks : ProcOf[t] = p}
  <2>1. Undisturbed /\ \A t \in dead : got[t] = NoConnection
    BY <1>19 DEF Crash
  <2>2. got' = got /\ InHand' = InHand
    BY <1>19, <2>1 DEF Crash
  <2>3. live' = live /\ store' = store /\ late' = late
    BY <1>19 DEF Crash
  <2>4. \A t \in Tasks : pc'[t] = "ask" => pc[t] = "ask" /\ conn'[t] = conn[t]
    BY <1>19 DEF Crash
  <2>5. \A t \in Tasks : pc'[t] = "ask" =>
          conn'[t] = store' /\ store' # NoConnection /\ RunningOut(store)'
    BY <1>19, <2>1, <2>3, <2>4 DEF Crash
  <2>6. late' = {} /\ (InHand' = {} /\ store' # NoConnection => live' \subseteq {Key(store')})
    BY <2>1, <2>2, <2>3 DEF Key
  <2>7. \A t \in InHand' : live' \subseteq {Key(got'[t])}
    BY <2>1, <2>2, <2>3 DEF Key
  <2>8. QED
    BY <2>5, <2>6, <2>7 DEF Key
<1>20. CASE LeaseRunsOut
  BY <1>1, <1>2, <1>3, <1>20 DEF LeaseRunsOut
<1>21. CASE Disconnect
  BY <1>1, <1>2, <1>3, <1>21 DEF Disconnect
<1>22. CASE Reconnect
  BY <1>1, <1>2, <1>3, <1>22 DEF Reconnect, FirstPair, Key
<1>23. CASE Age
  BY <1>1, <1>2, <1>3, <1>23 DEF Age
<1>24. CASE Lapse
  BY <1>1, <1>2, <1>3, <1>24 DEF Lapse
<1>25. CASE Revoke
  BY <1>1, <1>2, <1>3, <1>25 DEF Revoke
<1>26. CASE UNCHANGED vars
  BY <1>26 DEF vars, Key
<1>27. QED
  BY <1>4, <1>5, <1>6, <1>7, <1>8, <1>9, <1>10, <1>11, <1>12, <1>13, <1>14,
     <1>15, <1>16, <1>17, <1>18, <1>19, <1>20, <1>21, <1>22, <1>23, <1>24,
     <1>25, <1>26
  DEF Next, CallStep

\* The inductive invariant: where the newest pair is, who holds the lock, and
\* that nothing is asked without a refresh token.  (TokenManager)
THEOREM Invariance == Spec => []IInv
<1>1. Init => IInv
  <2> SUFFICES ASSUME Init PROVE IInv
    OBVIOUS
  <2>1. TypeOK
    BY InitTyping
  <2>2. HeldOnce /\ HeldWhileRenewing /\ PairInHand
    BY DEF Init, HeldOnce, HeldWhileRenewing, PairInHand, Renewing
  <2>3. NeverAsked /\ LiveNotLapsed
    BY DEF Init, NeverAsked, LiveNotLapsed, FirstPair
  <2>4. OneKey
    BY DEF Init, OneKey, InHand, Key, FirstPair
  <2>5. QED
    BY <2>1, <2>2, <2>3, <2>4 DEF IInv
<1>2. IInv /\ [Next]_vars => IInv'
  BY TypingStep, HeldOnceStep, HeldWhileRenewingStep, PairInHandStep,
     NeverAskedStep, LiveNotLapsedStep, OneKeyStep DEF IInv
<1>3. QED
  BY <1>1, <1>2, PTL DEF Spec

\* With one lock for every worker and no fault, the account is never lost: what
\* the network honours is stored, or in the hand of the call that stores it.
THEOREM AccountIsKept == Spec => []AccountKept
<1>1. IInv => AccountKept
  BY DEF IInv, OneKey, AccountKept, InHand
<1>2. QED
  BY <1>1, Invariance, PTL

\* On a network that gives refresh tokens, nobody is sent to sign in again
\* while the network would still renew the account, but by that network's own
\* refusal of the key that is good.
THEOREM ExpiredIsFinal ==
  ASSUME Kind # "extends"
  PROVE  Spec => SignInAgainIsFinal
<1> DEFINE Final == \A t \in Tasks :
             /\ outcome'[t] = "token_expired" /\ outcome[t] # "token_expired"
             /\ Undisturbed /\ store # NoConnection
             => live = {} \/ (pc[t] = "ask" /\ Key(conn[t]) \in live)
<1>1. IInv /\ [Next]_vars => [Final]_vars
  <2> SUFFICES ASSUME IInv, Next, NEW t \in Tasks,
                      outcome'[t] = "token_expired", outcome[t] # "token_expired",
                      Undisturbed, store # NoConnection
               PROVE  live = {} \/ (pc[t] = "ask" /\ Key(conn[t]) \in live)
    BY DEF vars
  <2> USE DEF IInv, TypeOK, network, locks, Goto, Leave, Finish, Blame
  <2>1. pc[t] \in {"reload", "ask"} => InHand = {}
    <3>1. \A u, v \in Renewing : u = v
      BY DEF HeldOnce, HeldWhileRenewing, Undisturbed, OneLock, Renewing
    <3>2. QED
      BY <3>1 DEF PairInHand, Renewing, InHand
  <2>2. pc[t] \in {"reload", "ask"} => live \subseteq {Key(store)}
    BY <2>1 DEF OneKey
  <2>3. Reload(t) \/ Refuse(t)
    BY DEF Next, CallStep, LookUp, Load, Acquire, Reload, NoAppSaved, Serve, Refuse,
           Unserved, LoseReply, TryAgain, Receive, Save, FailToSave, Release, LetGo, Cancel,
           LateSave, Crash, LeaseRunsOut, Disconnect, Reconnect, Age, Lapse, Revoke
  <2>4. CASE Reload(t)
    <3>1. store.refresh <= lapsed /\ live \subseteq {store.refresh}
      BY <2>2, <2>4 DEF Reload, ReadAgain, NothingToRenewWith, Key
    <3>2. QED
      BY <3>1 DEF LiveNotLapsed
  <2>5. CASE Refuse(t)
    BY <2>2, <2>5 DEF Refuse, OneKey
  <2>6. QED
    BY <2>3, <2>4, <2>5
<1>2. QED
  BY <1>1, Invariance, PTL DEF Spec, SignInAgainIsFinal

\* Whatever goes wrong, a call settles only on what storage holds by then.
THEOREM HandsBackWhatIsSaved == Spec => SavedBeforeHandedBack
<1> DEFINE Saved == \A t \in Tasks :
             outcome'[t] = "ok" /\ outcome[t] # "ok" => store' = conn'[t]
<1>1. TypeOK /\ [Next]_vars => [Saved]_vars
  <2> SUFFICES ASSUME TypeOK, Next, NEW t \in Tasks,
                      outcome'[t] = "ok", outcome[t] # "ok"
               PROVE  store' = conn'[t]
    BY DEF vars
  <2> USE DEF TypeOK, network, locks, Goto, Leave, Finish, Blame
  <2>1. Load(t) \/ Reload(t) \/ Save(t)
    BY DEF Next, CallStep, LookUp, Load, Acquire, Reload, NoAppSaved, Serve, Refuse,
           Unserved, LoseReply, TryAgain, Receive, Save, FailToSave, Release, LetGo, Cancel,
           LateSave, Crash, LeaseRunsOut, Disconnect, Reconnect, Age, Lapse, Revoke
  <2>2. QED
    BY <2>1 DEF Load, Reload, ReadAgain, Save, SavedToken
<1>2. QED
  BY <1>1, Typing, PTL DEF Spec, SavedBeforeHandedBack

\* With one lock and no fault, a renewal the network honours is for the stored
\* connection, and for one that is running out.
THEOREM RenewsTheStoredToken == Spec => RenewsOnlyWhatIsStored
<1> DEFINE Needed == \A t \in Tasks :
             /\ pc[t] = "ask" /\ pc'[t] = "reply" /\ Undisturbed
             => conn[t] = store /\ RunningOut(store)
<1>1. IInv => [Needed]_vars
  BY DEF IInv, OneKey
<1>2. QED
  BY <1>1, Invariance, PTL DEF RenewsOnlyWhatIsStored

\* Where the network gives no refresh token, no renewal is ever sent.
THEOREM NothingIsExtended ==
  ASSUME Kind = "extends"
  PROVE  Spec => [](\A t \in Tasks : pc[t] \notin {"ask", "reply", "save"})
<1>1. IInv => \A t \in Tasks : pc[t] \notin {"ask", "reply", "save"}
  BY DEF IInv, NeverAsked
<1>2. QED
  BY <1>1, Invariance, PTL

-----------------------------------------------------------------------------
\* Tokens are of pairs the network issued; only no connection is of none.
Numbered(token) ==
  token.access \in 0..issued /\ (token.access = 0 => token = NoConnection)
AllNumbered ==
  /\ Numbered(store)
  /\ \A token \in late : Numbered(token)
  /\ \A t \in Tasks : Numbered(got[t])

\* A step that puts no new token anywhere keeps their numbers.
LEMMA NothingNewIsNumbered ==
  ASSUME TypeOK, AllNumbered, issued' \in Nat, issued <= issued',
         store' \in {store, NoConnection} \cup late \cup {got[t] : t \in Tasks},
         late' \subseteq late \cup {got[t] : t \in Tasks},
         \A t \in Tasks : got'[t] \in {got[t], NoConnection}
  PROVE  AllNumbered'
<1>1. \A token \in Token : Numbered(token) => Numbered(token)'
  <2>1. \A n \in 0..issued : n \in 0..issued'
    BY DEF TypeOK
  <2>2. QED
    BY <2>1 DEF Numbered
<1>2. /\ store \in Token /\ Numbered(store)
      /\ NoConnection \in Token /\ Numbered(NoConnection)
      /\ \A token \in late : token \in Token /\ Numbered(token)
      /\ \A t \in Tasks : got[t] \in Token /\ Numbered(got[t])
  <2>1. 0 \in 0..issued
    BY DEF TypeOK
  <2>2. Numbered(NoConnection)
    BY <2>1 DEF Numbered
  <2>3. QED
    BY <2>2 DEF TypeOK, AllNumbered
<1> DEFINE Known == {store, NoConnection} \cup late \cup {got[t] : t \in Tasks}
<1>3. \A token \in Known : token \in Token /\ Numbered(token)
  BY <1>2
<1>4. \A token \in Known : token.access \in 0..issued' /\ (token.access = 0 => token = NoConnection)
  BY <1>1, <1>3 DEF Numbered
<1>5. store' \in Known
  OBVIOUS
<1>6. \A token \in late' : token \in Known
  OBVIOUS
<1>7. \A t \in Tasks : got'[t] \in Known
  OBVIOUS
<1> HIDE DEF Known
<1>8. QED
  BY <1>4, <1>5, <1>6, <1>7 DEF AllNumbered, Numbered

\* A renewal and a new sign-in give a token the next number.
LEMMA NumberedStep ==
  ASSUME TypeOK, AllNumbered, [Next]_vars
  PROVE  AllNumbered'
<1> USE DEF network, locks, Goto, Leave, Finish, Blame
<1>1. ASSUME NEW t \in Tasks, Serve(t) PROVE AllNumbered'
  <2>1. Renewed(conn[t], issued + 1).access = issued + 1 /\ issued \in Nat
    BY DEF Renewed, TypeOK
  <2>2. /\ issued' = issued + 1 /\ store' = store /\ late' = late
        /\ got' = [got EXCEPT ![t] = Renewed(conn[t], issued + 1)]
    BY <1>1 DEF Serve
  <2>3. \A token \in Token : Numbered(token) => Numbered(token)'
    BY <2>1, <2>2 DEF Numbered
  <2>4. got'[t].access \in 0..issued' /\ got'[t].access # 0
    BY <2>1, <2>2 DEF TypeOK
  <2>5. \A u \in Tasks \ {t} : got'[u] = got[u] /\ got[u] \in Token
    BY <2>2 DEF TypeOK
  <2>6. Numbered(store)' /\ \A token \in late' : Numbered(token)'
    <3>1. store \in Token /\ late \subseteq Token
      BY DEF TypeOK
    <3>2. QED
      BY <2>2, <2>3, <3>1 DEF AllNumbered, Numbered
  <2>7. \A u \in Tasks : Numbered(got[u])'
    <3>1. CASE \E u \in Tasks : u = t
      BY <2>2, <2>3, <2>4, <2>5 DEF AllNumbered, Numbered
    <3>2. QED
      BY <3>1
  <2>8. QED
    BY <2>6, <2>7 DEF AllNumbered
<1>2. CASE Reconnect
  <2>1. issued \in Nat /\ store' = FirstPair(issued + 1) /\ issued' = issued + 1
        /\ late' = late /\ got' = got
    BY <1>2 DEF Reconnect, TypeOK
  <2>2. store'.access = issued + 1
    BY <2>1 DEF FirstPair
  <2>3. \A token \in Token : Numbered(token) => Numbered(token)'
    BY <2>1 DEF Numbered
  <2>4. /\ \A token \in late : Numbered(token)'
        /\ \A t \in Tasks : Numbered(got[t])'
    <3>1. late \subseteq Token /\ \A t \in Tasks : got[t] \in Token
      BY DEF TypeOK
    <3>2. QED
      BY <2>1, <2>3, <3>1 DEF AllNumbered, Numbered
  <2>5. Numbered(store)'
    BY <2>1, <2>2 DEF Numbered
  <2>6. QED
    BY <2>1, <2>4, <2>5 DEF AllNumbered
<1>3. CASE ~Reconnect /\ \A t \in Tasks : ~Serve(t)
  <2>1. issued' = issued /\ issued \in Nat
    BY <1>3 DEF TypeOK, vars, Next, CallStep, LookUp, Load, Acquire, Reload, NoAppSaved,
       Refuse, Unserved, LoseReply, TryAgain, Receive, Save, FailToSave, Release, Cancel,
       LateSave, Crash, LeaseRunsOut, Disconnect, Age, Lapse, Revoke
  <2>2. store' \in {store, NoConnection} \cup late \cup {got[t] : t \in Tasks}
    BY <1>3 DEF TypeOK, vars, Next, CallStep, LookUp, Load, Acquire, Reload, NoAppSaved,
       Refuse, Unserved, LoseReply, TryAgain, Receive, Save, SavedToken, FailToSave,
       Release, Cancel, LateSave, Crash, LeaseRunsOut, Disconnect, Age, Lapse, Revoke
  <2>3. late' \subseteq late \cup {got[t] : t \in Tasks}
    BY <1>3 DEF TypeOK, vars, Next, CallStep, LookUp, Load, Acquire, Reload, NoAppSaved,
       Refuse, Unserved, LoseReply, TryAgain, Receive, Save, FailToSave, Release, Cancel,
       LateSave, Crash, LeaseRunsOut, Disconnect, Age, Lapse, Revoke
  <2>4. \A t \in Tasks : got'[t] \in {got[t], NoConnection}
    BY <1>3 DEF TypeOK, vars, Next, CallStep, LookUp, Load, Acquire, Reload, NoAppSaved,
       Refuse, Unserved, LoseReply, TryAgain, Receive, Save, FailToSave, Release, Cancel,
       LateSave, Crash, LeaseRunsOut, Disconnect, Age, Lapse, Revoke
  <2>5. QED
    BY <2>1, <2>2, <2>3, <2>4, NothingNewIsNumbered
<1>4. QED
  BY <1>1, <1>2, <1>3

\* Without a fault, a call between the second read and the save is the only one,
\* and a pair in hand is in its hand.
LEMMA OneHand ==
  ASSUME OneLock, IInv, ~mishap, NEW t \in Renewing
  PROVE  /\ got[t] = NoConnection => InHand = {} /\ PairInOneHand = 0
         /\ got[t] # NoConnection => InHand = {t} /\ PairInOneHand = got[t].access
<1>1. \A u \in Renewing : u = t
  BY DEF IInv, HeldOnce, HeldWhileRenewing, OneLock, Renewing
<1>2. InHand \subseteq Renewing
  BY DEF IInv, PairInHand, InHand, Renewing
<1>3. InHand \subseteq {t} /\ (t \in InHand <=> got[t] # NoConnection)
  BY <1>1, <1>2 DEF InHand, Renewing
<1>4. InHand = {t} => (CHOOSE u \in InHand : TRUE) = t
  OBVIOUS
<1>5. QED
  BY <1>3, <1>4 DEF PairInOneHand

\* A step that is part of no abstract one moves neither pair.
LEMMA Unmoved ==
  ASSUME UNCHANGED <<store, got, mishap>>
  PROVE  UNCHANGED <<SavedPair, PairInOneHand>>
BY DEF SavedPair, PairInOneHand, InHand

\* A renewal that is served is a Trade.
LEMMA ServeTrades ==
  ASSUME OneLock, IInv, IInv', AllNumbered, ~mishap, NEW t \in Tasks, Serve(t)
  PROVE  Custody!Trade
<1> USE DEF Serve, network, locks, Goto
<1>1. /\ t \in Renewing /\ t \in Renewing' /\ mishap' = mishap /\ store' = store
      /\ got[t] = NoConnection /\ got'[t] = Renewed(conn[t], issued + 1)
  BY DEF Renewing, IInv, PairInHand, TypeOK
<1>2. got'[t].access = issued + 1 /\ got'[t] # NoConnection /\ issued \in Nat
      /\ issued + 1 \in 1..MaxIssued
  BY <1>1 DEF Renewed, IInv, TypeOK
<1>3. PairInOneHand = 0 /\ PairInOneHand' = issued + 1
  <2>1. PairInOneHand = 0
    BY <1>1, OneHand
  <2>2. InHand' = {t}
    <3>1. \A u \in Tasks : u \in Renewing' => u = t
      BY <1>1 DEF IInv, HeldOnce, HeldWhileRenewing, OneLock, SameLock, Renewing
    <3>2. \A u \in Tasks : u \in InHand' => u \in Renewing'
      BY DEF IInv, PairInHand, InHand, Renewing
    <3>3. QED
      BY <1>2, <3>1, <3>2 DEF InHand
  <2>3. (CHOOSE u \in InHand' : TRUE) = t
    BY <2>2
  <2>4. PairInOneHand' = got'[t].access
    BY <1>1, <2>2, <2>3 DEF PairInOneHand
  <2>5. QED
    BY <1>2, <2>1, <2>4
<1>4. SavedPair = store.access /\ SavedPair' = SavedPair
  BY <1>1 DEF SavedPair
<1>5. store.access \in 1..issued
  <2>1. store # NoConnection
    BY DEF IInv, OneKey, Undisturbed
  <2>2. QED
    BY <1>2, <2>1 DEF AllNumbered, Numbered
<1>6. QED
  BY <1>1, <1>2, <1>3, <1>4, <1>5 DEF Custody!Trade

\* A save is a Deposit.
LEMMA SaveDeposits ==
  ASSUME OneLock, IInv, IInv', AllNumbered, ~mishap, NEW t \in Tasks, Save(t)
  PROVE  Custody!Deposit
<1> USE DEF Save, SavedToken, Leave, network, locks, Goto
<1>1. /\ t \in Renewing /\ got[t] # NoConnection /\ mishap' = mishap
      /\ store' = got[t] /\ got' = [got EXCEPT ![t] = NoConnection]
  BY DEF Renewing, IInv, PairInHand
<1>2. InHand = {t} /\ PairInOneHand = got[t].access
  BY <1>1, OneHand
<1>3. InHand' = {}
  BY <1>1, <1>2 DEF InHand, IInv, TypeOK
<1>4. PairInOneHand' = 0 /\ SavedPair' = got[t].access
  BY <1>1, <1>3 DEF PairInOneHand, SavedPair
<1>5. got[t].access # 0
  BY <1>1 DEF AllNumbered, Numbered
<1>6. QED
  BY <1>1, <1>2, <1>4, <1>5 DEF Custody!Deposit

\* A new sign-in, whatever happened to the account before, is a SignIn; unless a
\* renewal of the old one is under way, which may yet undo it.
LEMMA ReconnectSignsIn ==
  ASSUME IInv, AllNumbered, Reconnect, ~mishap'
  PROVE  Custody!SignIn
<1> USE DEF Reconnect, network, locks
<1>1. Renewing = {} /\ got' = got /\ store' = FirstPair(issued + 1) /\ issued < MaxIssued
  OBVIOUS
<1>2. InHand = {} /\ InHand' = {}
  BY <1>1 DEF InHand, Renewing, IInv, PairInHand
<1>3. PairInOneHand = 0 /\ PairInOneHand' = 0
  BY <1>2 DEF PairInOneHand
<1>4. issued \in Nat /\ issued + 1 \in 1..MaxIssued
  BY <1>1 DEF IInv, TypeOK
<1>5. SavedPair' = issued + 1
  BY <1>1 DEF SavedPair, FirstPair
<1>6. SavedPair \in 0..issued
  BY <1>4 DEF SavedPair, AllNumbered, Numbered
<1>7. QED
  BY <1>3, <1>4, <1>5, <1>6 DEF Custody!SignIn

\* Deleting a connection nobody is renewing is a Forget.
LEMMA DisconnectForgets ==
  ASSUME IInv, Disconnect, ~mishap, ~mishap'
  PROVE  Custody!Forget
<1> USE DEF Disconnect, network, locks
<1>1. Renewing = {} /\ got' = got /\ store' = NoConnection /\ mishap' = mishap
  BY DEF IInv, TypeOK
<1>2. InHand = {} /\ InHand' = {}
  BY <1>1 DEF InHand, Renewing, IInv, PairInHand
<1>3. PairInOneHand = 0 /\ PairInOneHand' = 0 /\ SavedPair' = 0
  BY <1>1, <1>2 DEF PairInOneHand, SavedPair
<1>4. QED
  BY <1>1, <1>3 DEF Custody!Forget

\* Any other step that no fault goes with leaves both pairs where they are.
LEMMA OthersStutter ==
  ASSUME OneLock, IInv, [Next]_vars, ~mishap, ~mishap', ~Reconnect, ~Disconnect,
         \A t \in Tasks : ~Serve(t) /\ ~Save(t)
  PROVE  UNCHANGED <<store, got, mishap>>
<1> USE DEF network, locks, Goto, Leave, Finish, Blame
<1>1. late = {}
  BY DEF IInv, OneKey, Undisturbed
<1>2. \A p \in Procs : Crash(p) => UNCHANGED <<store, got, mishap>>
  <2> SUFFICES ASSUME NEW p \in Procs, Crash(p) PROVE UNCHANGED <<store, got, mishap>>
    OBVIOUS
  <2>1. \A t \in Tasks : ProcOf[t] = p => got[t] = NoConnection
    BY DEF Crash
  <2>2. got' = got /\ mishap' = mishap
    <3>1. \A t \in Tasks : got'[t] = got[t]
      BY <2>1 DEF Crash
    <3>2. mishap \in BOOLEAN /\ mishap' \in BOOLEAN
      BY DEF Crash, IInv, TypeOK
    <3>3. QED
      BY <3>1, <3>2 DEF Crash, IInv, TypeOK
  <2>3. QED
    BY <2>2 DEF Crash
<1>3. QED
  BY <1>1, <1>2 DEF vars, Next, CallStep, LookUp, Load, Acquire, Reload, NoAppSaved,
     Refuse, Unserved, LoseReply, TryAgain, Receive, FailToSave, Release, Cancel,
     LeaseRunsOut, Age, Lapse, Revoke

\* Every step is one of AccountCustody's, or none.
LEMMA StepOfCustody ==
  ASSUME OneLock, IInv, IInv', AllNumbered, [Next]_vars
  PROVE  [Custody!Next]_(Custody!vars)
<1>1. CASE mishap /\ mishap'
  BY <1>1 DEF SavedPair, PairInOneHand, Custody!vars
<1>2. CASE ~mishap /\ mishap'
  BY <1>2 DEF SavedPair, PairInOneHand, Custody!Next, Custody!Lose
<1>3. CASE mishap /\ ~mishap'
  <2>1. Reconnect
    BY <1>3 DEF vars, Next, CallStep, LookUp, Load, Acquire, Reload, NoAppSaved, Serve,
       Refuse, Unserved, LoseReply, TryAgain, Receive, Save, FailToSave, Release, Cancel,
       LateSave, Crash, LeaseRunsOut, Disconnect, Age, Lapse, Revoke, network, locks,
       Goto, Leave, Finish, Blame
  <2>2. QED
    BY <1>3, <2>1, ReconnectSignsIn DEF Custody!Next
<1>4. CASE ~mishap /\ ~mishap'
  <2>1. CASE \E t \in Tasks : Serve(t)
    BY <1>4, <2>1, ServeTrades DEF Custody!Next
  <2>2. CASE \E t \in Tasks : Save(t)
    BY <1>4, <2>2, SaveDeposits DEF Custody!Next
  <2>3. CASE Reconnect
    BY <1>4, <2>3, ReconnectSignsIn DEF Custody!Next
  <2>4. CASE Disconnect
    BY <1>4, <2>4, DisconnectForgets DEF Custody!Next
  <2>5. CASE ~Reconnect /\ ~Disconnect /\ \A t \in Tasks : ~Serve(t) /\ ~Save(t)
    BY <1>4, <2>5, OthersStutter, Unmoved DEF Custody!vars
  <2>6. QED
    BY <2>1, <2>2, <2>3, <2>4, <2>5
<1>5. QED
  BY <1>1, <1>2, <1>3, <1>4

\* With one lock for every worker, the token manager implements AccountCustody
\* but for its liveness: the newest pair is saved, or in the hand of the one
\* renewal that saves it next, or a fault has separated the two.
THEOREM ImplementsCustody ==
  ASSUME OneLock
  PROVE  Spec => Custody!SafeSpec
<1>1. Init => Custody!Init
  <2> SUFFICES ASSUME Init PROVE Custody!Init
    OBVIOUS
  <2>1. InHand = {} /\ ~mishap /\ store.access = 1 /\ 1 \in 1..MaxIssued
    BY DEF Init, InHand, FirstPair
  <2>2. QED
    BY <2>1 DEF Init, Custody!Init, SavedPair, PairInOneHand
<1>2. Init => AllNumbered
  BY DEF Init, AllNumbered, Numbered, FirstPair
<1>3. TypeOK /\ AllNumbered /\ [Next]_vars => AllNumbered'
  BY NumberedStep
<1>4. Spec => []AllNumbered
  BY <1>2, <1>3, Typing, PTL DEF Spec
<1>5. IInv /\ IInv' /\ AllNumbered /\ [Next]_vars => [Custody!Next]_(Custody!vars)
  BY StepOfCustody
<1>6. QED
  BY <1>1, <1>4, <1>5, Invariance, PTL DEF Spec, Custody!SafeSpec
=============================================================================
