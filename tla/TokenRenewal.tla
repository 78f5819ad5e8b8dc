---------------------------- MODULE TokenRenewal ----------------------------
(***************************************************************************)
(* The token manager of socialchimp (tokens.py) with what it touches: the  *)
(* app's storage, the lock, HttpClient's retries and the network's refresh *)
(* endpoint.  Several calls of SocialChimp.fresh_connection run at once    *)
(* for ONE connection id: calls for different ids share no lock, no row    *)
(* and no refresh token.                                                   *)
(*                                                                         *)
(* A token is [access, refresh]: the number of the pair it came with, and  *)
(* the number of its refresh token (0 when the network gave none).         *)
(***************************************************************************)
EXTENDS Naturals, FiniteSets

CONSTANTS
  Tasks,       \* concurrent calls
  Procs,       \* Python processes (each has a TokenManager of its own)
  ProcOf,      \* the process a call runs in
  SharedLock,  \* make_lock was given and its lock spans every process
  Kind,        \* what the network does with the key a renewal sends
  Faults,      \* which misfortunes the environment may produce
  MaxIssued,   \* bound: pairs the network ever issues
  Attempts     \* Retries.attempts: sends of one request

Kinds == {"rotates", "keeps", "extends"}
AllFaults == {"reply_lost", "save_failed", "cancelled", "crashed",
              "lease_ran_out", "overtaken", "refused"}

ASSUME TokenAssumption ==
  /\ ProcOf \in [Tasks -> Procs]
  /\ SharedLock \in BOOLEAN
  /\ Kind \in Kinds
  /\ Faults \subseteq AllFaults
  /\ MaxIssued \in Nat \ {0}
  /\ Attempts \in Nat \ {0}

VARIABLES
  store,      \* Storage: the saved token of the connection, or NoConnection
  late,       \* saves a cancelled call left running on a storage thread
  live,       \* network: the keys it will still renew
  issued,     \* network: pairs issued so far
  aged,       \* pairs 1..aged: access token inside refresh_before_seconds
  lapsed,     \* pairs 1..lapsed: past Token.refresh_token_expires_at
  pc,         \* where each call is
  conn,       \* the connection each call last read, and what it hands back
  got,        \* the pair the network issued to a call and nothing saved yet
  tries,      \* HttpClient.request: failures of the current request
  outcome,    \* how a call ended
  held,       \* calls holding their lock
  orphaned,   \* a shared lock whose holder's process died
  mishap      \* history: a fault hit the account since its last sign-in

vars == <<store, late, live, issued, aged, lapsed, pc, conn, got, tries,
          outcome, held, orphaned, mishap>>
network == <<live, issued, aged, lapsed>>
locks == <<held, orphaned>>

NoConnection == [access |-> 0, refresh |-> 0]
Token == [access : Nat, refresh : Nat]

States == {"idle", "load", "lock", "reload", "ask", "reply", "save",
           "release"}
\* How a call ends: with a connection, with TokenExpiredError, or with anything
\* else (ConfigError, PlatformError, what storage raised, a cancellation).
Outcomes == {"none", "ok", "token_expired", "raised"}

\* Platform.refresh sends the refresh token; Meta's three networks have none
\* and send the access token itself.
Key(token) == IF Kind = "extends" THEN token.access ELSE token.refresh

\* The pair the network answers a renewal of `token` with, the n-th it issues.
Renewed(token, n) ==
  [access |-> n,
   refresh |-> IF Kind = "rotates" THEN n
               ELSE IF Kind = "keeps" THEN token.refresh ELSE 0]

\* TokenManager._running_out.  Pairs of one network live equally long, so they
\* run out in the order they were issued.
RunningOut(token) == token.access <= aged

FirstPair(n) == [access |-> n, refresh |-> IF Kind = "extends" THEN 0 ELSE n]

\* TokenManager._lock_for: one lock per connection id and manager, so per
\* process, unless make_lock hands every process the same one.
SameLock(t, u) == SharedLock \/ ProcOf[t] = ProcOf[u]

LockFree(t) == ~orphaned /\ \A u \in held : ~SameLock(t, u)

\* Calls that were issued a pair nothing has saved yet.
InHand == {t \in Tasks : got[t] # NoConnection}

\* Calls between the second read and the save.
Renewing == {t \in Tasks : pc[t] \in {"reload", "ask", "reply", "save"}}

Goto(t, where) == pc' = [pc EXCEPT ![t] = where]

\* A call that ends without holding the lock, and one that ends inside it.
Finish(t, how) ==
  Goto(t, "idle") /\ outcome' = [outcome EXCEPT ![t] = how] /\ UNCHANGED locks
Leave(t, how) ==
  Goto(t, "release") /\ outcome' = [outcome EXCEPT ![t] = how] /\ UNCHANGED locks

Blame(fault) == fault \in Faults /\ mishap' = TRUE

-----------------------------------------------------------------------------
Init ==
  /\ store = FirstPair(1)
  /\ late = {}
  /\ live = {1}
  /\ issued = 1
  /\ aged = 0
  /\ lapsed = 0
  /\ pc = [t \in Tasks |-> "idle"]
  /\ conn = [t \in Tasks |-> NoConnection]
  /\ got = [t \in Tasks |-> NoConnection]
  /\ tries = [t \in Tasks |-> 0]
  /\ outcome = [t \in Tasks |-> "none"]
  /\ held = {}
  /\ orphaned = FALSE
  /\ mishap = FALSE

\* fresh_connection: the read that only learns which network this is.
LookUp(t) ==
  /\ pc[t] = "idle"
  /\ \/ /\ store = NoConnection
        /\ Finish(t, "raised")
     \/ /\ store # NoConnection
        /\ Goto(t, "load")
        /\ outcome' = [outcome EXCEPT ![t] = "none"]
        /\ UNCHANGED locks
  /\ conn' = [conn EXCEPT ![t] = NoConnection]
  /\ UNCHANGED <<store, late, network, got, tries, mishap>>

\* valid_token: the read outside the lock.
Load(t) ==
  /\ pc[t] = "load"
  /\ conn' = [conn EXCEPT ![t] = store]
  /\ \/ store = NoConnection /\ Finish(t, "raised")
     \/ /\ store # NoConnection
        /\ ~RunningOut(store)
        /\ Finish(t, "ok")
     \/ /\ store # NoConnection
        /\ RunningOut(store)
        /\ Goto(t, "lock")
        /\ UNCHANGED <<outcome, locks>>
  /\ UNCHANGED <<store, late, network, got, tries, mishap>>

Acquire(t) ==
  /\ pc[t] = "lock"
  /\ LockFree(t)
  /\ held' = held \cup {t}
  /\ Goto(t, "reload")
  /\ UNCHANGED <<store, late, network, conn, got, tries, outcome, orphaned,
                 mishap>>

\* valid_token reads the connection again once it holds the lock.
ReadAgain_TrustsFirstRead(t) == conn[t]
ReadAgain(t) == store

\* valid_token: nothing to do when the other worker has already renewed.
StillRunningOut_NotAsked(token) == TRUE
StillRunningOut(token) == RunningOut(token)

\* _renew: turned away without a request: no refresh token (0), or one past its
\* date.
NothingToRenewWith(token) == token.refresh <= lapsed

\* valid_token and _renew from the second read to the request.
Reload(t) ==
  /\ pc[t] = "reload"
  /\ LET token == ReadAgain(t) IN
     /\ conn' = [conn EXCEPT ![t] = token]
     /\ \/ token = NoConnection /\ Leave(t, "raised")
        \/ /\ token # NoConnection
           /\ ~StillRunningOut(token)
           /\ Leave(t, "ok")
        \/ /\ token # NoConnection
           /\ StillRunningOut(token)
           /\ NothingToRenewWith(token)
           /\ Leave(t, "token_expired")
        \/ /\ token # NoConnection
           /\ StillRunningOut(token)
           /\ ~NothingToRenewWith(token)
           /\ Goto(t, "ask")
           /\ UNCHANGED <<outcome, locks>>
  /\ UNCHANGED <<store, late, network, got, tries, mishap>>

\* SocialChimp._renewal_for reads the app's credentials on every renewal; a
\* network that signs renewals turns a missing app away with a ConfigError.
NoAppSaved(t) ==
  /\ pc[t] = "ask"
  /\ tries[t] = 0
  /\ Leave(t, "raised")
  /\ UNCHANGED <<store, late, network, conn, got, tries, mishap>>

\* The network honours the request: a rotating network stops the old refresh
\* token here, before anybody on this side has heard of the new one.
Serve(t) ==
  /\ pc[t] = "ask"
  /\ Key(conn[t]) \in live
  /\ issued < MaxIssued
  /\ issued' = issued + 1
  /\ got' = [got EXCEPT ![t] = Renewed(conn[t], issued + 1)]
  /\ live' = IF Kind = "rotates" THEN (live \ {Key(conn[t])}) \cup {issued + 1}
             ELSE IF Kind = "extends" THEN live \cup {issued + 1}
             ELSE live
  /\ Goto(t, "reply")
  /\ UNCHANGED <<store, late, aged, lapsed, conn, tries, outcome, locks,
                 mishap>>

\* The network refuses the key: whatever the AuthError is about, _renew says the
\* person has to sign in again.
Refuse(t) ==
  /\ pc[t] = "ask"
  /\ Key(conn[t]) \notin live \/ "refused" \in Faults
  /\ Leave(t, "token_expired")
  /\ UNCHANGED <<store, late, network, conn, got, tries, mishap>>

CountFailure(n) == n + 1

MayTryAgain(failures) == failures < Attempts

\* HttpClient.request after a TransportError or a reply worth another try:
\* send the same request again, or give up with a PlatformError that _renew
\* lets through.
TryAgain(t) ==
  /\ tries' = [tries EXCEPT ![t] = CountFailure(@)]
  /\ \/ /\ MayTryAgain(CountFailure(tries[t]))
        /\ Goto(t, "ask")
        /\ UNCHANGED <<outcome, locks>>
     \/ /\ ~MayTryAgain(CountFailure(tries[t]))
        /\ Leave(t, "raised")

\* A request that never got there, or a 429 or 500.
Unserved(t) ==
  /\ pc[t] = "ask"
  /\ TryAgain(t)
  /\ UNCHANGED <<store, late, network, conn, got, mishap>>

\* The reply to a served request never arrives; only the retry is left, and
\* it carries the key that was just spent.
LoseReply(t) ==
  /\ pc[t] = "reply"
  /\ TryAgain(t)
  /\ Blame("reply_lost")
  /\ got' = [got EXCEPT ![t] = NoConnection]
  /\ UNCHANGED <<store, late, network, conn>>

Receive(t) ==
  /\ pc[t] = "reply"
  /\ Goto(t, "save")
  /\ UNCHANGED <<store, late, network, conn, got, tries, outcome, locks,
                 mishap>>

\* Connection.with_token, and what _renew writes.
SavedToken_OldConnection(t) == conn[t]
SavedToken(t) == got[t]

\* _renew: the new token is saved before it is handed back.  Listeners are
\* told afterwards, without an await, and what they raise is dropped.
Save(t) ==
  /\ pc[t] = "save"
  /\ store' = SavedToken(t)
  /\ conn' = [conn EXCEPT ![t] = got[t]]
  /\ got' = [got EXCEPT ![t] = NoConnection]
  /\ Leave(t, "ok")
  /\ UNCHANGED <<late, network, tries, mishap>>

\* save_connection raises: the exception goes up through valid_token.
FailToSave(t) ==
  /\ pc[t] = "save"
  /\ Blame("save_failed")
  /\ got' = [got EXCEPT ![t] = NoConnection]
  /\ Leave(t, "raised")
  /\ UNCHANGED <<store, late, network, conn, tries>>

\* `async with` lets go of the lock however its block ends.
LetGo_OnlyAfterSuccess(t) == {u \in {t} : outcome[u] = "ok"}
LetGo(t) == {t}

\* Leaving the block.  A shared lock whose lease ran out raises on release.
Release(t) ==
  /\ pc[t] = "release"
  /\ held' = held \ LetGo(t)
  /\ outcome' = [outcome EXCEPT ![t] = IF t \in held THEN @ ELSE "raised"]
  /\ Goto(t, "idle")
  /\ tries' = [tries EXCEPT ![t] = 0]
  /\ conn' = [conn EXCEPT ![t] = IF outcome'[t] = "ok" THEN @ ELSE NoConnection]
  /\ UNCHANGED <<store, late, network, got, orphaned, mishap>>

-----------------------------------------------------------------------------
\* The caller is cancelled at an await.  `async with` lets go of the lock; a
\* save already handed to a storage thread (storage.in_a_thread) runs on.
Cancel(t) ==
  /\ "cancelled" \in Faults
  /\ \/ /\ pc[t] \in {"load", "lock"}
        /\ Finish(t, "raised")
        /\ UNCHANGED <<late, mishap, got>>
     \/ /\ pc[t] \in {"reload", "ask"}
        /\ Leave(t, "raised")
        /\ UNCHANGED <<late, mishap, got>>
     \/ /\ pc[t] \in {"reply", "save"}
        /\ Leave(t, "raised")
        /\ Blame("cancelled")
        /\ got' = [got EXCEPT ![t] = NoConnection]
        /\ \/ UNCHANGED late
           \/ pc[t] = "save" /\ late' = late \cup {got[t]}
  /\ UNCHANGED <<store, network, conn, tries>>

LateSave(token) ==
  /\ store' = token
  /\ late' = late \ {token}
  /\ UNCHANGED <<network, pc, conn, got, tries, outcome, locks, mishap>>

\* A process dies and is started again: its calls are gone, its own locks
\* with them; a shared lock it held stays taken.
Crash(p) ==
  LET dead == {t \in Tasks : ProcOf[t] = p} IN
  /\ "crashed" \in Faults
  /\ pc' = [t \in Tasks |-> IF t \in dead THEN "idle" ELSE pc[t]]
  /\ outcome' = [t \in Tasks |-> IF t \in dead THEN "raised" ELSE outcome[t]]
  /\ got' = [t \in Tasks |-> IF t \in dead THEN NoConnection ELSE got[t]]
  /\ conn' = [t \in Tasks |-> IF t \in dead THEN NoConnection ELSE conn[t]]
  /\ tries' = [t \in Tasks |-> IF t \in dead THEN 0 ELSE tries[t]]
  /\ held' = held \ dead
  /\ orphaned' = (orphaned \/ (SharedLock /\ held \cap dead # {}))
  /\ mishap' = (mishap \/ \E t \in dead : got[t] # NoConnection)
  /\ UNCHANGED <<store, late, network>>

\* A shared lock made with a timeout (docs/tutorial.md: redis.lock(...,
\* timeout=30)) is handed on whether or not its holder has finished.
LeaseRunsOut ==
  /\ SharedLock
  /\ "lease_ran_out" \in Faults
  /\ \/ /\ orphaned
        /\ orphaned' = FALSE
        /\ UNCHANGED <<held, mishap>>
     \/ \E t \in held :
          /\ held' = held \ {t}
          /\ Blame("lease_ran_out")
          /\ UNCHANGED orphaned
  /\ UNCHANGED <<store, late, network, pc, conn, got, tries, outcome>>

\* The app deletes the connection; the token manager takes no part in it.
Disconnect ==
  /\ "overtaken" \in Faults
  /\ store # NoConnection
  /\ store' = NoConnection
  /\ mishap' = (mishap \/ Renewing # {})
  /\ UNCHANGED <<late, network, pc, conn, got, tries, outcome, locks>>

\* The person signs in again and SocialChimp._save_if_finished saves the
\* connection, without the renewal lock.  The earlier session counts for
\* nothing from here on.
Reconnect ==
  /\ "overtaken" \in Faults
  /\ issued < MaxIssued
  /\ issued' = issued + 1
  /\ live' = {issued + 1}
  /\ store' = FirstPair(issued + 1)
  /\ mishap' = (Renewing # {} \/ late # {})
  /\ UNCHANGED <<late, aged, lapsed, pc, conn, got, tries, outcome, locks>>

\* Time passes: an access token comes within the window, a refresh token
\* passes its date, or the person takes the app's access away.
Age ==
  /\ aged < issued
  /\ aged' = aged + 1
  /\ UNCHANGED <<store, late, live, issued, lapsed, pc, conn, got, tries,
                 outcome, locks, mishap>>

Lapse ==
  /\ Kind # "extends"
  /\ lapsed < aged
  /\ lapsed' = lapsed + 1
  /\ live' = live \ {lapsed + 1}
  /\ UNCHANGED <<store, late, issued, aged, pc, conn, got, tries, outcome,
                 locks, mishap>>

Revoke ==
  /\ live # {}
  /\ live' = {}
  /\ UNCHANGED <<store, late, issued, aged, lapsed, pc, conn, got, tries,
                 outcome, locks, mishap>>

-----------------------------------------------------------------------------
CallStep(t) ==
  \/ Load(t) \/ Reload(t) \/ NoAppSaved(t)
  \/ Serve(t) \/ Refuse(t) \/ Unserved(t) \/ LoseReply(t) \/ Receive(t)
  \/ Save(t) \/ FailToSave(t) \/ Release(t)

Next ==
  \/ \E t \in Tasks : LookUp(t) \/ Acquire(t) \/ CallStep(t) \/ Cancel(t)
  \/ \E token \in late : LateSave(token)
  \/ \E p \in Procs : Crash(p)
  \/ LeaseRunsOut \/ Disconnect \/ Reconnect \/ Age \/ Lapse \/ Revoke

Spec == Init /\ [][Next]_vars

\* Every request ends (HttpClient's timeout), storage answers, and the waiters
\* of an asyncio.Lock are served in turn.  The lock of a process that died is
\* handed on when its lease runs out; nobody relies on one of a living holder.
Fairness ==
  \A t \in Tasks : WF_vars(CallStep(t)) /\ SF_vars(Acquire(t))

FairSpec == Spec /\ Fairness /\ WF_vars(orphaned /\ LeaseRunsOut)

-----------------------------------------------------------------------------
TypeOK ==
  /\ store \in Token
  /\ late \subseteq Token
  /\ issued \in Nat
  /\ live \subseteq 1..issued
  /\ aged \in 0..issued
  /\ lapsed \in 0..aged
  /\ pc \in [Tasks -> States]
  /\ conn \in [Tasks -> Token]
  /\ got \in [Tasks -> Token]
  /\ tries \in [Tasks -> 0..Attempts]
  /\ \A t \in Tasks : tries[t] = Attempts => pc[t] = "release"
  /\ \A t \in Tasks : pc[t] \in {"idle", "load", "lock", "reload"} => tries[t] = 0
  /\ outcome \in [Tasks -> Outcomes]
  /\ held \subseteq {t \in Tasks : pc[t] \notin {"idle", "load", "lock"}}
  /\ orphaned \in BOOLEAN
  /\ mishap \in BOOLEAN

\* What the docs ask of a deployment: one lock spans everybody who renews.
OneLock == \A t, u \in Tasks : SameLock(t, u)
Undisturbed == OneLock /\ ~mishap

\* "Losing the new one loses the account" (tokens.py): as long as one lock
\* spans every worker and no fault is to blame, whatever key the network
\* still honours is the stored one, or on its way into storage in the hands
\* of exactly the call that was issued it.
AccountKept ==
  Undisturbed /\ store # NoConnection =>
    live \subseteq {Key(store)} \cup {Key(got[t]) : t \in InHand}

\* "Saved ... before it is handed back, always" (tokens.py): whatever else
\* goes wrong, what a call settles on is what storage holds at that moment.
SavedBeforeHandedBack ==
  [][\A t \in Tasks :
       outcome'[t] = "ok" /\ outcome[t] # "ok" => store' = conn'[t]]_vars

\* TokenExpiredError is "narrower and final" (docs/tutorial.md): with one lock
\* and no fault, a call ends with it only when there is nothing left that the
\* network would still renew - or when the network refused the very key that
\* was still good, of which _renew makes the same error.  It never comes of a
\* key that another call had replaced, or without asking while one was good.
SignInAgainIsFinal ==
  [][\A t \in Tasks :
       /\ outcome'[t] = "token_expired" /\ outcome[t] # "token_expired"
       /\ Undisturbed /\ store # NoConnection
       => live = {} \/ (pc[t] = "ask" /\ Key(conn[t]) \in live)]_vars

\* The second read: a renewal that waited for another one does not renew the
\* token that other one has just saved.
RenewsOnlyWhatIsStored ==
  [][\A t \in Tasks :
       /\ pc[t] = "ask" /\ pc'[t] = "reply" /\ Undisturbed
       => conn[t] = store /\ RunningOut(store)]_vars

\* Every call of fresh_connection returns or raises: the retries end, and no
\* call waits for ever behind a lock whose holder is gone.
EveryCallEnds == \A t \in Tasks : pc[t] = "load" ~> pc[t] = "idle"

\* The whole manager does what AccountCustody promises, of the pair in storage
\* and the one a renewal was issued and has yet to save.
SavedPair == IF mishap THEN 0 ELSE store.access
PairInOneHand ==
  IF mishap \/ InHand = {} THEN 0 ELSE got[CHOOSE t \in InHand : TRUE].access
Custody == INSTANCE AccountCustody WITH
  Pairs <- 1..MaxIssued, saved <- SavedPair, hand <- PairInOneHand, lost <- mishap
KeepsCustody == Custody!Spec
=============================================================================
