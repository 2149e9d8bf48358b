-------------------------- MODULE DanalockControl --------------------------
(***************************************************************************)
(* The command executor of one lock (control.py) together with the key     *)
(* refresh it shares with the background cycle (keymanager.py, refresh).   *)
(*                                                                         *)
(* A task is one asyncio task that uses the control: a lock or unlock call *)
(* (Operates), any other command call (Calls), the refresh of this serial  *)
(* by the background cycle (Refreshers), the unload of the entry           *)
(* (Unloader).  An action is what a task does between two awaits.          *)
(*                                                                         *)
(* Every forced fetch yields a key of its own, so a key is its version and *)
(* a library facade (self._lock) is the version of the key it was built    *)
(* with.  The facade, the radio and the cloud are not part of the source:  *)
(* the facade serialises its operations, disconnect included, with one     *)
(* FIFO lock, connects on demand and stays connected until a disconnect,   *)
(* which is assumed not to fail.                                           *)
(***************************************************************************)
EXTENDS Naturals, Sequences

CONSTANTS Operates,    \* lock and unlock calls: DanalockControl.operate
          Calls,       \* the other commands: DanalockControl._run_command
          Refreshers,  \* DanalockKeyManager.refresh from the background cycle
          Unloader,    \* async_unload_entry
          MaxVersion   \* bound on the keys the cloud issues

Commands == Operates \cup Calls
Tasks == Commands \cup Refreshers \cup {Unloader}

ASSUME TasksAssumption ==
  /\ Operates \cap Calls = {}
  /\ Commands \cap Refreshers = {}
  /\ Unloader \notin Commands \cup Refreshers

ASSUME VersionAssumption == MaxVersion \in Nat \ {0}

VARIABLES cloud,        \* version of the last key the cloud issued
          cache,        \* DanalockKeyManager._keys[serial]
          lock,         \* DanalockControl._lock
          expiry,       \* the key whose end of validity the sensor shows
          telling,      \* whether the event loop has yet to run the sensor's listener
          refreshLock,  \* _refresh_locks[serial]: its holder, then the waiters
          commandLock,  \* the lock inside each facade: its holder, then the waiters
          session,      \* whether a facade has a BLE session open
          pc,           \* what each task awaits
          on,           \* the facade whose method a task has called
          attempt,      \* attempts a command has begun
          answer,       \* key the cloud has issued to a task and it has not installed
          result,       \* how a command's last attempt ended
          outcome,      \* how a command's call ended
          executed,     \* history: times the lock has carried the command out
          rejected      \* history: token of the attempt rejected with TOKEN_VALIDITY

locks == <<refreshLock, commandLock, session>>
keys == <<cloud, cache, lock, expiry, telling>>
history == <<executed, rejected>>
vars == <<keys, locks, pc, on, attempt, answer, result, outcome, history>>

Versions == 1 .. MaxVersion
NoKey == 0

Places == {"idle", "refresh", "swapping", "attempt", "running", "closing",
           "unloading", "unloaded"}
Results == {"none", "ok", "nothing_changed", "token", "status", "transport"}
Outcomes == {"none", "ok", "error", "foreign"}

TypeOK ==
  /\ cloud \in Versions
  /\ cache \in Versions
  /\ lock \in Versions
  /\ expiry \in Versions \cup {NoKey}
  /\ telling \in BOOLEAN
  /\ refreshLock \in Seq(Tasks)
  /\ commandLock \in [Versions -> Seq(Tasks)]
  /\ session \in [Versions -> BOOLEAN]
  /\ pc \in [Tasks -> Places]
  /\ on \in [Tasks -> Versions]
  /\ attempt \in [Commands -> 0 .. 2]
  /\ answer \in [Tasks -> Versions \cup {NoKey}]
  /\ result \in [Commands -> Results]
  /\ outcome \in [Commands -> Outcomes]
  /\ executed \in [Commands -> Nat]
  /\ rejected \in [Commands -> Versions \cup {NoKey}]

\* After setup: every key fetched once, the facade built from it.
Init ==
  /\ cloud = 1
  /\ cache = 1
  /\ lock = 1
  /\ expiry = 1
  /\ telling = FALSE
  /\ refreshLock = <<>>
  /\ commandLock = [v \in Versions |-> <<>>]
  /\ session = [v \in Versions |-> FALSE]
  /\ pc = [p \in Tasks |-> "idle"]
  /\ on = [p \in Tasks |-> 1]
  /\ attempt = [p \in Commands |-> 0]
  /\ answer = [p \in Tasks |-> NoKey]
  /\ result = [p \in Commands |-> "none"]
  /\ outcome = [p \in Commands |-> "none"]
  /\ executed = [p \in Commands |-> 0]
  /\ rejected = [p \in Commands |-> NoKey]

-----------------------------------------------------------------------------
(* The locks.                                                              *)

Enqueue(queues, f, p) == [queues EXCEPT ![f] = Append(@, p)]
Release(queues, f) == [queues EXCEPT ![f] = Tail(@)]

\* Mutant: no single-flight; whoever asked for a refresh runs at once.
HoldsRefreshUnlocked(p) == \E i \in 1 .. Len(refreshLock) : refreshLock[i] = p

HoldsRefresh(p) == refreshLock # <<>> /\ Head(refreshLock) = p
HoldsCommand(p) == commandLock[on[p]] # <<>> /\ Head(commandLock[on[p]]) = p

\* A disconnect of such a facade returns without suspending its caller.
AtRest(f) == commandLock[f] = <<>> /\ ~session[f]

\* The entry's platforms are loaded: the unload has not begun.
Loaded == pc[Unloader] = "idle"
ClientClosed == pc[Unloader] = "unloaded"

-----------------------------------------------------------------------------
(* The attempt: connect, run, disconnect.                                  *)

\* p calls a method of facade f and queues for its lock.
Attempt(p, f, queues) ==
  /\ pc' = [pc EXCEPT ![p] = "attempt"]
  /\ on' = [on EXCEPT ![p] = f]
  /\ attempt' = [attempt EXCEPT ![p] = @ + 1]
  /\ commandLock' = Enqueue(queues, f, p)

\* p asks the key manager for a forced refresh.
AskRefresh(p) ==
  /\ pc' = [pc EXCEPT ![p] = "refresh"]
  /\ refreshLock' = Append(refreshLock, p)

\* The call of p returns (or raises) to the entity; its locals are gone.
Return(p, how) ==
  /\ pc' = [pc EXCEPT ![p] = "idle"]
  /\ outcome' = [outcome EXCEPT ![p] = how]
  /\ attempt' = [attempt EXCEPT ![p] = 0]
  /\ result' = [result EXCEPT ![p] = "none"]
  /\ executed' = [executed EXCEPT ![p] = 0]
  /\ rejected' = [rejected EXCEPT ![p] = NoKey]

\* A command is called, by an entity that is loaded or by a firmware check that
\* the unload found in flight; _refresh_if_expired looks at the cached key.
StartCommand(p) ==
  /\ pc[p] = "idle"
  /\ Loaded \/ p \in Calls
  /\ outcome' = [outcome EXCEPT ![p] = "none"]
  /\ \/ Attempt(p, lock, commandLock) /\ UNCHANGED refreshLock    \* a valid key
     \/ AskRefresh(p) /\ UNCHANGED <<on, attempt, commandLock>>   \* an expired one
  /\ UNCHANGED <<keys, session, answer, result, history>>

\* The facade connects through _transport_factory and logs in.
Connect(p) ==
  /\ pc[p] = "attempt"
  /\ HoldsCommand(p)
  /\ session' = [session EXCEPT ![on[p]] = TRUE]
  /\ pc' = [pc EXCEPT ![p] = "running"]
  /\ UNCHANGED <<keys, refreshLock, commandLock, on, attempt, answer, result,
                 outcome, history>>

\* The facade method ends with r and releases the facade; the finally clause
\* calls disconnect on whatever facade self._lock names now.
EndAttempt(p, r) ==
  /\ result' = [result EXCEPT ![p] = r]
  /\ commandLock' = Enqueue(Release(commandLock, on[p]), lock, p)
  /\ on' = [on EXCEPT ![p] = lock]
  /\ pc' = [pc EXCEPT ![p] = "closing"]

\* The address is unknown, or the connection or the secure session fails;
\* the disconnect then returns at once if nobody else waits for the facade.
ConnectFails(p) ==
  /\ pc[p] = "attempt"
  /\ HoldsCommand(p)
  /\ ~session[on[p]]
  /\ LET alone == on[p] = lock /\ Len(commandLock[lock]) = 1
     IN \/ /\ alone
           /\ Return(p, "error")
           /\ commandLock' = Release(commandLock, lock)
           /\ UNCHANGED on
        \/ /\ ~alone
           /\ EndAttempt(p, "transport")
           /\ UNCHANGED <<attempt, outcome, history>>
  /\ UNCHANGED <<keys, refreshLock, session, answer>>

\* The lock answers r, or the connection breaks before or after it acted.
Run(p, r) ==
  /\ pc[p] = "running"
  /\ HoldsCommand(p)
  /\ EndAttempt(p, r)
  /\ \/ r \in {"ok", "transport"} /\ executed' = [executed EXCEPT ![p] = @ + 1]
     \/ r # "ok" /\ UNCHANGED executed
  /\ rejected' = IF r = "token" THEN [rejected EXCEPT ![p] = on[p]] ELSE rejected
  /\ UNCHANGED <<keys, refreshLock, session, attempt, answer, outcome>>

Succeeded(p) ==
  \/ result[p] = "ok"
  \/ result[p] = "nothing_changed" /\ p \in Operates

\* Mutants: retries without end; retries what the lock may have done.
RetryWithoutEnd(p) == result[p] = "token"
RetryLostConnection(p) == result[p] \in {"token", "transport"} /\ attempt[p] = 1

MayRetry(p) == result[p] = "token" /\ attempt[p] = 1

\* Mutant: the disconnect is not in a finally clause.
DisconnectAfterSuccess(p) ==
  /\ pc[p] = "closing"
  /\ HoldsCommand(p)
  /\ session' = IF Succeeded(p) THEN [session EXCEPT ![on[p]] = FALSE] ELSE session
  /\ commandLock' = Release(commandLock, on[p])
  /\ \/ Succeeded(p) /\ Return(p, "ok") /\ UNCHANGED refreshLock
     \/ MayRetry(p) /\ AskRefresh(p) /\ UNCHANGED <<attempt, result, outcome, history>>
     \/ ~Succeeded(p) /\ ~MayRetry(p) /\ Return(p, "error") /\ UNCHANGED refreshLock
  /\ UNCHANGED <<keys, on, answer>>

\* Mutant: the retry is prepared while the facade is still held.
DisconnectAfterRefresh(p) ==
  /\ pc[p] = "closing"
  /\ HoldsCommand(p)
  /\ session' = [session EXCEPT ![on[p]] = FALSE]
  /\ \/ /\ Succeeded(p) /\ Return(p, "ok") /\ UNCHANGED refreshLock
        /\ commandLock' = Release(commandLock, on[p])
     \/ /\ MayRetry(p) /\ AskRefresh(p)
        /\ UNCHANGED <<attempt, result, outcome, history, commandLock>>
     \/ /\ ~Succeeded(p) /\ ~MayRetry(p) /\ Return(p, "error") /\ UNCHANGED refreshLock
        /\ commandLock' = Release(commandLock, on[p])
  /\ UNCHANGED <<keys, on, answer>>

\* The disconnect in the finally clause returns; the handlers around the
\* attempt return, retry after a refresh, or raise.
Disconnect(p) ==
  /\ pc[p] = "closing"
  /\ HoldsCommand(p)
  /\ session' = [session EXCEPT ![on[p]] = FALSE]
  /\ commandLock' = Release(commandLock, on[p])
  /\ \/ Succeeded(p) /\ Return(p, "ok") /\ UNCHANGED refreshLock
     \/ MayRetry(p) /\ AskRefresh(p) /\ UNCHANGED <<attempt, result, outcome, history>>
     \/ ~Succeeded(p) /\ ~MayRetry(p) /\ Return(p, "error") /\ UNCHANGED refreshLock
  /\ UNCHANGED <<keys, on, answer>>

-----------------------------------------------------------------------------
(* The key refresh.                                                        *)

\* The background cycle refreshes this serial (refresh_all), one that the unload
\* found in flight too.
StartRefresh(p) ==
  /\ pc[p] = "idle"
  /\ AskRefresh(p)
  /\ UNCHANGED <<keys, commandLock, session, on, attempt, answer, result,
                 outcome, history>>

\* The cloud handles the get_key request of the task inside the refresh lock.
IssueKey(p) ==
  /\ pc[p] = "refresh"
  /\ HoldsRefresh(p)
  /\ answer[p] = NoKey
  /\ ~ClientClosed
  /\ cloud < MaxVersion
  /\ cloud' = cloud + 1
  /\ answer' = [answer EXCEPT ![p] = cloud + 1]
  /\ UNCHANGED <<cache, lock, expiry, telling, locks, pc, on, attempt, result, outcome, history>>

\* The key expiry sensor listens while its platform is loaded: to the key manager,
\* which schedules its listener when it has refreshed a key, and to the monitor,
\* whose updates make it write the end of validity of whatever key is cached.
Notify ==
  /\ telling' = Loaded
  /\ UNCHANGED expiry

\* The event loop runs the listener.
ListenerRuns ==
  /\ telling
  /\ telling' = FALSE
  /\ expiry' = cache
  /\ UNCHANGED <<cloud, cache, lock, locks, pc, on, attempt, answer, result, outcome,
                 history>>

SensorWrites ==
  /\ Loaded
  /\ expiry # cache
  /\ expiry' = cache
  /\ UNCHANGED <<cloud, cache, lock, telling, locks, pc, on, attempt, answer, result,
                 outcome, history>>

\* Mutant: the key is cached, the facade keeps its token.
InstallInCacheOnly(p, queues) ==
  /\ refreshLock' = Tail(refreshLock)
  /\ answer' = [answer EXCEPT ![p] = NoKey]
  /\ \/ p \in Commands /\ Attempt(p, lock, queues)
     \/ /\ p \in Refreshers
        /\ pc' = [pc EXCEPT ![p] = "idle"]
        /\ commandLock' = queues
        /\ UNCHANGED <<on, attempt>>
  /\ Notify
  /\ UNCHANGED lock

\* Mutant: the listeners are not notified.
InstallSilently(p, queues) ==
  /\ lock' = answer[p]
  /\ refreshLock' = Tail(refreshLock)
  /\ answer' = [answer EXCEPT ![p] = NoKey]
  /\ \/ p \in Commands /\ Attempt(p, answer[p], queues)
     \/ /\ p \in Refreshers
        /\ pc' = [pc EXCEPT ![p] = "idle"]
        /\ commandLock' = queues
        /\ UNCHANGED <<on, attempt>>
  /\ UNCHANGED <<expiry, telling>>

\* set_key rebuilds the facade, the listeners are scheduled, refresh releases its
\* lock, and a command goes on to its attempt with the new facade, all without
\* another await.
Install(p, queues) ==
  /\ lock' = answer[p]
  /\ Notify
  /\ refreshLock' = Tail(refreshLock)
  /\ answer' = [answer EXCEPT ![p] = NoKey]
  /\ \/ p \in Commands /\ Attempt(p, answer[p], queues)
     \/ /\ p \in Refreshers
        /\ pc' = [pc EXCEPT ![p] = "idle"]
        /\ commandLock' = queues
        /\ UNCHANGED <<on, attempt>>

\* The response arrives: the cache entry is replaced and set_key calls
\* disconnect on the current facade, ...
ReceiveKey(p) ==
  /\ pc[p] = "refresh"
  /\ HoldsRefresh(p)
  /\ answer[p] # NoKey
  /\ cache' = answer[p]
  /\ \/ AtRest(lock) /\ Install(p, commandLock)
     \/ /\ ~AtRest(lock)
        /\ pc' = [pc EXCEPT ![p] = "swapping"]
        /\ on' = [on EXCEPT ![p] = lock]
        /\ commandLock' = Enqueue(commandLock, lock, p)
        /\ UNCHANGED <<lock, expiry, telling, refreshLock, attempt, answer>>
  /\ UNCHANGED <<cloud, session, result, outcome, history>>

\* ... which may have to wait for the facade's lock.
Swap(p) ==
  /\ pc[p] = "swapping"
  /\ HoldsCommand(p)
  /\ session' = [session EXCEPT ![on[p]] = FALSE]
  /\ Install(p, Release(commandLock, on[p]))
  /\ UNCHANGED <<cloud, cache, result, outcome, history>>

\* Mutant: a failed refresh after a rejection lets the call try again.
FetchFailsAndRetries(p) ==
  /\ pc[p] = "refresh"
  /\ HoldsRefresh(p)
  /\ refreshLock' = Tail(refreshLock)
  /\ answer' = [answer EXCEPT ![p] = NoKey]
  /\ IF p \in Commands
     THEN Attempt(p, lock, commandLock)
     ELSE pc' = [pc EXCEPT ![p] = "idle"] /\ UNCHANGED <<on, attempt, commandLock>>
  /\ UNCHANGED <<keys, session, result, outcome, history>>

\* Mutant: and such an attempt is not counted.
FetchFailsUncounted(p) ==
  /\ pc[p] = "refresh"
  /\ HoldsRefresh(p)
  /\ refreshLock' = Tail(refreshLock)
  /\ answer' = [answer EXCEPT ![p] = NoKey]
  /\ IF p \in Commands
     THEN /\ pc' = [pc EXCEPT ![p] = "attempt"]
          /\ on' = [on EXCEPT ![p] = lock]
          /\ attempt' = [attempt EXCEPT ![p] = 1]
          /\ commandLock' = Enqueue(commandLock, lock, p)
     ELSE pc' = [pc EXCEPT ![p] = "idle"] /\ UNCHANGED <<on, attempt, commandLock>>
  /\ UNCHANGED <<keys, session, result, outcome, history>>

\* The request or its response is lost, or the cloud refuses: before a first
\* attempt the stored key is used, after a rejection the call raises.
FetchFails(p) ==
  /\ pc[p] = "refresh"
  /\ HoldsRefresh(p)
  /\ refreshLock' = Tail(refreshLock)
  /\ answer' = [answer EXCEPT ![p] = NoKey]
  /\ \/ /\ p \in Commands
        /\ attempt[p] = 0
        /\ Attempt(p, lock, commandLock)
        /\ UNCHANGED <<result, outcome, history>>
     \/ /\ p \in Commands
        /\ attempt[p] = 1
        /\ Return(p, "error")
        /\ UNCHANGED <<on, commandLock>>
     \/ /\ p \in Refreshers
        /\ pc' = [pc EXCEPT ![p] = "idle"]
        /\ UNCHANGED <<on, attempt, commandLock, result, outcome, history>>
  /\ UNCHANGED <<keys, session>>

\* The HTTP client is closed: get_key raises a RuntimeError, which neither
\* _refresh_if_expired nor _refresh_after_rejection catches.
FetchOnClosedClient(p) ==
  /\ pc[p] = "refresh"
  /\ HoldsRefresh(p)
  /\ answer[p] = NoKey
  /\ ClientClosed
  /\ refreshLock' = Tail(refreshLock)
  /\ \/ p \in Commands /\ Return(p, "foreign")
     \/ /\ p \in Refreshers
        /\ pc' = [pc EXCEPT ![p] = "idle"]
        /\ UNCHANGED <<attempt, result, outcome, history>>
  /\ UNCHANGED <<keys, commandLock, session, on, answer>>

-----------------------------------------------------------------------------
(* The unload of the entry: disconnect the control, close the client.      *)
(* The platforms go first: the sensor is unavailable, and its listener     *)
(* writes nothing any more.                                                *)

StartUnload ==
  /\ Loaded
  /\ \/ /\ AtRest(lock)
        /\ pc' = [pc EXCEPT ![Unloader] = "unloaded"]
        /\ UNCHANGED <<on, commandLock>>
     \/ /\ ~AtRest(lock)
        /\ pc' = [pc EXCEPT ![Unloader] = "unloading"]
        /\ on' = [on EXCEPT ![Unloader] = lock]
        /\ commandLock' = Enqueue(commandLock, lock, Unloader)
  /\ expiry' = NoKey
  /\ telling' = FALSE
  /\ UNCHANGED <<cloud, cache, lock, refreshLock, session, attempt, answer, result,
                 outcome, history>>

FinishUnload ==
  /\ pc[Unloader] = "unloading"
  /\ HoldsCommand(Unloader)
  /\ session' = [session EXCEPT ![on[Unloader]] = FALSE]
  /\ commandLock' = Release(commandLock, on[Unloader])
  /\ pc' = [pc EXCEPT ![Unloader] = "unloaded"]
  /\ UNCHANGED <<keys, refreshLock, on, attempt, answer, result, outcome, history>>

-----------------------------------------------------------------------------
RefreshStep(p) ==
  \/ IssueKey(p)
  \/ ReceiveKey(p)
  \/ Swap(p)
  \/ FetchFails(p)
  \/ FetchOnClosedClient(p)

CommandStep(p) ==
  \/ Connect(p)
  \/ ConnectFails(p)
  \/ \E r \in Results \ {"none"} : Run(p, r)
  \/ Disconnect(p)

AllIdle == \A p \in Commands \cup Refreshers : pc[p] = "idle"

\* The unloaded entry at rest: nothing is left to do.
Finished == AllIdle /\ ClientClosed /\ UNCHANGED vars

Next ==
  \/ \E p \in Commands : StartCommand(p) \/ CommandStep(p) \/ RefreshStep(p)
  \/ \E p \in Refreshers : StartRefresh(p) \/ RefreshStep(p)
  \/ ListenerRuns
  \/ SensorWrites
  \/ StartUnload
  \/ FinishUnload
  \/ Finished

Spec == Init /\ [][Next]_vars

\* A task that can go on does: the event loop runs every ready task, the BLE
\* connect has a timeout (const.py), and the library's reads and the HTTP
\* client time out (the code handles TimeoutError and httpx.HTTPError).
Fairness ==
  /\ \A p \in Commands : WF_vars(CommandStep(p)) /\ WF_vars(RefreshStep(p))
  /\ \A p \in Refreshers : WF_vars(RefreshStep(p))
  /\ WF_vars(FinishUnload)

FairSpec == Spec /\ Fairness

-----------------------------------------------------------------------------
(* Properties.                                                             *)

\* Unless a set_key is waiting for the old facade, the facade holds the token
\* of the cached key: what refresh stored is what the next command logs in with.
KeyAgreement == (\A p \in Tasks : pc[p] # "swapping") => lock = cache

\* The sensor shows when the key in use ends: it is never left with the expiry of
\* a key that was replaced, whoever refreshed it, unless set_key is waiting or the
\* listener is about to run.
ExpiryShown ==
  (Loaded /\ ~telling /\ \A p \in Tasks : pc[p] # "swapping") => expiry = cache

\* Refreshes of several tasks never put an older key back, neither in the
\* shared cache nor in the facade (refresh is single-flight per serial).
KeyNeverGoesBack == [][cache' >= cache /\ lock' >= lock]_vars

\* The attempt after a TOKEN_VALIDITY rejection logs in with a token issued
\* after the rejected one, whatever other tasks refreshed in between.
RetryHasNewToken ==
  \A p \in Commands :
    (attempt[p] = 2 /\ pc[p] \in {"attempt", "running"}) => on[p] > rejected[p]

\* One call makes the lock act at most once: only an attempt the lock turned
\* down before acting is repeated.
AtMostOneExecution == \A p \in Commands : executed[p] <= 1

\* A session of the current facade is never forgotten: while it is open, some
\* task is using it or is about to disconnect it.
CurrentSessionAttended ==
  session[lock] =>
    \E p \in Tasks :
      on[p] = lock /\ pc[p] \in {"running", "closing", "swapping", "unloading"}

\* Where a task is while it awaits or holds the refresh lock, or a facade's.
Refreshing == {"refresh", "swapping"}
Waiting == {"attempt", "running", "closing", "swapping", "unloading"}

Queued(queue, p) == \E i \in 1 .. Len(queue) : queue[i] = p

\* A task stands in the queue of a lock exactly while it awaits or holds it: however
\* attempts and refreshes fail, no lock is left with a task that has gone on, nobody
\* waits for one in vain, and a task that awaits a refresh neither holds nor awaits
\* a facade; set_key does the converse, which is then free of deadlock.
QueuedAsAwaited ==
  \A p \in Tasks :
    /\ Queued(refreshLock, p) <=> pc[p] \in Refreshing
    /\ \A f \in Versions : Queued(commandLock[f], p) <=> on[p] = f /\ pc[p] \in Waiting

\* Every call ends: returns or raises to its entity.
CallsEnd == \A p \in Commands : (pc[p] # "idle") ~> (pc[p] = "idle")

\* Refreshing is what a key service promises: a key is stored only after it
\* was issued and when its predecessor is installed, and then it is installed.
KeyService == INSTANCE KeyService WITH
  issued <- cloud, stored <- cache, installed <- lock
RefreshIsKeyService == KeyService!Spec

(* What the documents say and the code does not do.                        *)

\* "Each command connects on demand and disconnects after the command":
\* when no task is running, no session is open.
NoSessionLeft == AllIdle => \A f \in Versions : ~session[f]
=============================================================================
