----------------------- MODULE DanalockControlProofs -----------------------
(***************************************************************************)
(* Theorems about DanalockControl, for any tasks and any number of keys.   *)
(*                                                                         *)
(* Everything rests on Inv.  Its core is KeyInv: the refresh lock makes    *)
(* the task at its head the only one that has been issued a key and not    *)
(* installed it, so cache and facade move forward one key at a time, the   *)
(* cache first.  LocalInv ties a command's locals to where it is; without  *)
(* it a third attempt could not be excluded.  ExecutedInv, SessionInv and  *)
(* RejectedInv strengthen the properties they are named after.  QueueInv   *)
(* says who is in which queue, RunningInv that a running command keeps its *)
(* facade and session; each is inductive together with Inv.                *)
(***************************************************************************)
EXTENDS DanalockControl, TLAPS

HolderInv ==
  \A p \in Tasks :
    /\ (answer[p] # NoKey \/ pc[p] = "swapping") => HoldsRefresh(p)
    /\ pc[p] = "swapping" => answer[p] = cache /\ lock < cache
    /\ (answer[p] # NoKey /\ pc[p] # "swapping") => pc[p] = "refresh" /\ cache < answer[p]

KeyInv ==
  /\ HolderInv
  /\ KeyAgreement
  /\ lock <= cache
  /\ cache <= cloud
  /\ \A p \in Tasks : answer[p] <= cloud /\ on[p] <= lock

LocalInv ==
  /\ pc[Unloader] \in {"idle", "unloading", "unloaded"}
  /\ \A p \in Refreshers : pc[p] \in {"idle", "refresh", "swapping"}
  /\ \A p \in Commands :
       /\ pc[p] \notin {"unloading", "unloaded"}
       /\ pc[p] = "idle" => attempt[p] = 0
       /\ pc[p] \in {"refresh", "swapping"} => attempt[p] \in {0, 1}
       /\ pc[p] \in {"attempt", "running", "closing"} => attempt[p] \in {1, 2}

ExecutedInv ==
  \A p \in Commands :
    executed[p] # 0 => /\ executed[p] = 1
                       /\ pc[p] = "closing"
                       /\ result[p] \in {"ok", "transport"}

SessionInv ==
  /\ CurrentSessionAttended
  /\ \A f \in Versions : session[f] => f <= lock

RejectedInv ==
  /\ \A p \in Commands : rejected[p] <= lock
  /\ RetryHasNewToken

Inv == TypeOK /\ KeyInv /\ LocalInv /\ ExecutedInv /\ SessionInv /\ RejectedInv

-----------------------------------------------------------------------------
(* The queues.                                                             *)

Queues == [Versions -> Seq(Tasks)]

\* Taking the lock of a facade keeps the queues sequences of tasks.
LEMMA EnqueueType ==
  ASSUME NEW queues \in Queues, NEW f \in Versions, NEW p \in Tasks
  PROVE  Enqueue(queues, f, p) \in Queues
  BY DEF Queues, Enqueue

\* So does leaving it.
LEMMA ReleaseType ==
  ASSUME NEW queues \in Queues, NEW f \in Versions, queues[f] # <<>>
  PROVE  Release(queues, f) \in Queues
  BY DEF Queues, Release

\* A command leaves the lock of its facade and takes that of f.
LEMMA MoveType ==
  ASSUME NEW p \in Tasks, NEW f \in Versions, TypeOK, HoldsCommand(p)
  PROVE  /\ Release(commandLock, on[p]) \in Queues
         /\ Enqueue(Release(commandLock, on[p]), f, p) \in Queues
  <1>1. commandLock \in Queues /\ on[p] \in Versions /\ commandLock[on[p]] # <<>>
    BY DEF TypeOK, Queues, HoldsCommand
  <1>2. Release(commandLock, on[p]) \in Queues
    BY <1>1, ReleaseType
  <1> QED BY <1>2, EnqueueType

-----------------------------------------------------------------------------
(* The initial state.                                                      *)

\* The state after setup satisfies the invariant.
LEMMA InitInv == Init => Inv
  <1> SUFFICES ASSUME Init PROVE Inv
    OBVIOUS
  <1> USE VersionAssumption
  <1>1. TypeOK
    <2>1. 1 \in Versions
      BY DEF Versions
    <2>2. expiry \in Versions \cup {NoKey} /\ telling \in BOOLEAN
      BY <2>1, Zenon DEF Init
    <2> QED BY <2>1, <2>2 DEF Init, TypeOK, NoKey, Places, Results, Outcomes
  <1>2. KeyInv
    BY DEF Init, KeyInv, HolderInv, KeyAgreement, NoKey
  <1>3. LocalInv
    BY DEF Init, LocalInv, Tasks, Commands
  <1>4. ExecutedInv /\ SessionInv /\ RejectedInv
    BY DEF Init, ExecutedInv, SessionInv, CurrentSessionAttended, RejectedInv,
           RetryHasNewToken, Versions, NoKey
  <1> QED BY <1>1, <1>2, <1>3, <1>4 DEF Inv

-----------------------------------------------------------------------------
(* The steps.                                                              *)

\* The kinds of tasks are kinds of tasks, and differ.
LEMMA TaskKinds ==
  /\ Commands \subseteq Tasks /\ Refreshers \subseteq Tasks /\ Unloader \in Tasks
  /\ \A p \in Commands : p \notin Refreshers /\ p # Unloader
  /\ \A p \in Refreshers : p \notin Commands /\ p # Unloader
  /\ Unloader \notin Commands /\ Unloader \notin Refreshers
  BY TasksAssumption DEF Tasks, Commands

\* A task that joins the queue of the refresh lock does not displace its holder.
LEMMA HolderStays ==
  ASSUME TypeOK, NEW p \in Tasks, AskRefresh(p), NEW q \in Tasks, HoldsRefresh(q)
  PROVE  HoldsRefresh(q)'
  <1>1. refreshLock \in Seq(Tasks) /\ refreshLock # <<>>
    BY DEF TypeOK, HoldsRefresh
  <1>2. refreshLock' # <<>> /\ Head(refreshLock') = Head(refreshLock)
    BY <1>1 DEF AskRefresh
  <1> QED BY <1>2 DEF HoldsRefresh

\* A step that touches no key keeps KeyInv, if the tasks with an answer stay where
\* they are and the others do not begin to swap.
LEMMA KeysStay ==
  ASSUME Inv, UNCHANGED <<keys, answer>>,
         \A q \in Tasks : HoldsRefresh(q) => HoldsRefresh(q)',
         \A q \in Tasks :
           /\ pc'[q] = pc[q] \/ (pc'[q] # "swapping" /\ pc[q] # "swapping" /\ answer[q] = NoKey)
           /\ on'[q] <= lock
  PROVE  KeyInv'
  <1>1. /\ cloud' = cloud /\ cache' = cache /\ lock' = lock /\ answer' = answer
    BY DEF keys
  <1>2. HolderInv'
    BY <1>1 DEF Inv, KeyInv, HolderInv
  <1>3. KeyAgreement'
    BY <1>1 DEF Inv, KeyInv, KeyAgreement
  <1> QED BY <1>1, <1>2, <1>3 DEF Inv, KeyInv

\* A call begins.
LEMMA StartCommandInv ==
  ASSUME Inv, NEW p \in Commands, StartCommand(p)
  PROVE  Inv'
  <1> USE TaskKinds DEF NoKey
  <1>1. TypeOK'
    <2>1. CASE Attempt(p, lock, commandLock) /\ UNCHANGED refreshLock
      <3>1. commandLock' \in Queues
        BY <2>1, EnqueueType DEF Inv, TypeOK, Attempt, Queues
      <3>2. /\ pc' \in [Tasks -> Places] /\ on' \in [Tasks -> Versions]
            /\ attempt' \in [Commands -> 0 .. 2]
        BY <2>1 DEF Inv, TypeOK, LocalInv, StartCommand, Attempt, Places
      <3>3. outcome' \in [Commands -> Outcomes]
        BY DEF Inv, TypeOK, StartCommand, Outcomes
      <3> QED BY <2>1, <3>1, <3>2, <3>3 DEF Inv, TypeOK, StartCommand, Queues, keys, history
    <2>2. CASE AskRefresh(p) /\ UNCHANGED <<on, attempt, commandLock>>
      BY <2>2 DEF Inv, TypeOK, StartCommand, AskRefresh, Outcomes, Places, keys, history
    <2> QED BY <2>1, <2>2 DEF StartCommand
  <1>2. KeyInv'
    <2>1. CASE Attempt(p, lock, commandLock) /\ UNCHANGED refreshLock
      BY <2>1 DEF Inv, TypeOK, KeyInv, HolderInv, HoldsRefresh, KeyAgreement, StartCommand,
         Attempt, keys, Versions
    <2>2. CASE AskRefresh(p) /\ UNCHANGED <<on, attempt, commandLock>>
      <3>1. \A q \in Tasks : HoldsRefresh(q) => HoldsRefresh(q)'
        BY <2>2, HolderStays DEF Inv
      <3> QED BY <2>2, <3>1 DEF Inv, TypeOK, KeyInv, HolderInv, KeyAgreement,
            StartCommand, AskRefresh, keys, Versions
    <2> QED BY <2>1, <2>2 DEF StartCommand
  <1>3. LocalInv'
    <2>1. CASE Attempt(p, lock, commandLock) /\ UNCHANGED refreshLock
      BY <2>1 DEF Inv, TypeOK, LocalInv, StartCommand, Attempt
    <2>2. CASE AskRefresh(p) /\ UNCHANGED <<on, attempt, commandLock>>
      BY <2>2 DEF Inv, TypeOK, LocalInv, StartCommand, AskRefresh
    <2> QED BY <2>1, <2>2 DEF StartCommand
  <1>4. ExecutedInv'
    BY DEF Inv, TypeOK, ExecutedInv, StartCommand, Attempt, AskRefresh, history
  <1>5. SessionInv'
    BY DEF Inv, TypeOK, SessionInv, CurrentSessionAttended, StartCommand, Attempt,
       AskRefresh, keys
  <1>6. RejectedInv'
    BY DEF Inv, TypeOK, RejectedInv, RetryHasNewToken, LocalInv, StartCommand,
       Attempt, AskRefresh, keys, history
  <1> QED BY <1>1, <1>2, <1>3, <1>4, <1>5, <1>6 DEF Inv

\* The facade is connected.
LEMMA ConnectInv ==
  ASSUME Inv, NEW p \in Commands, Connect(p)
  PROVE  Inv'
  <1> USE TaskKinds DEF NoKey
  <1>1. TypeOK'
    BY DEF Inv, TypeOK, Connect, Places, keys, history
  <1>2. KeyInv'
    BY DEF Inv, TypeOK, KeyInv, HolderInv, HoldsRefresh, KeyAgreement, Connect, keys
  <1>3. LocalInv'
    BY DEF Inv, TypeOK, LocalInv, Connect
  <1>4. ExecutedInv'
    BY DEF Inv, TypeOK, ExecutedInv, Connect, history
  <1>5. SessionInv'
    <2>1. CurrentSessionAttended'
      BY DEF Inv, TypeOK, KeyInv, SessionInv, CurrentSessionAttended, Connect, keys
    <2>2. \A f \in Versions : session'[f] => f <= lock'
      BY DEF Inv, TypeOK, KeyInv, SessionInv, Connect, keys
    <2> QED BY <2>1, <2>2 DEF SessionInv
  <1>6. RejectedInv'
    BY DEF Inv, TypeOK, RejectedInv, RetryHasNewToken, Connect, keys, history
  <1> QED BY <1>1, <1>2, <1>3, <1>4, <1>5, <1>6 DEF Inv

\* No connection: the call ends, or p waits to disconnect.
LEMMA ConnectFailsInv ==
  ASSUME Inv, NEW p \in Commands, ConnectFails(p)
  PROVE  Inv'
  <1> USE TaskKinds DEF NoKey
  <1>1. CASE Return(p, "error") /\ commandLock' = Release(commandLock, lock)
             /\ UNCHANGED on /\ on[p] = lock
    <2>1. TypeOK'
      <3>1. commandLock' \in Queues
        BY <1>1, MoveType DEF Inv, TypeOK, ConnectFails
      <3> QED BY <1>1, <3>1 DEF Inv, TypeOK, ConnectFails, Return, Queues, Places, Outcomes,
            Results, keys
    <2>2. KeyInv'
      BY <1>1 DEF Inv, TypeOK, KeyInv, HolderInv, HoldsRefresh, KeyAgreement, ConnectFails,
         Return, keys
    <2>3. LocalInv'
      BY <1>1 DEF Inv, TypeOK, LocalInv, ConnectFails, Return
    <2>4. ExecutedInv'
      BY <1>1 DEF Inv, TypeOK, ExecutedInv, ConnectFails, Return
    <2>5. SessionInv'
      BY <1>1 DEF Inv, TypeOK, SessionInv, CurrentSessionAttended, ConnectFails, Return, keys
    <2>6. RejectedInv'
      BY <1>1 DEF Inv, TypeOK, RejectedInv, RetryHasNewToken, ConnectFails, Return, keys,
         Versions
    <2> QED BY <2>1, <2>2, <2>3, <2>4, <2>5, <2>6 DEF Inv
  <1>2. CASE EndAttempt(p, "transport") /\ UNCHANGED <<attempt, outcome, history>>
    <2>1. TypeOK'
      <3>1. commandLock' \in Queues
        BY <1>2, MoveType DEF Inv, TypeOK, ConnectFails, EndAttempt
      <3> QED BY <1>2, <3>1 DEF Inv, TypeOK, ConnectFails, EndAttempt, Queues, Places,
            Results, keys, history
    <2>2. KeyInv'
      <3>1. UNCHANGED <<keys, refreshLock, answer>> /\ pc[p] = "attempt"
        BY DEF ConnectFails
      <3>2. \A q \in Tasks : /\ pc'[q] = IF q = p THEN "closing" ELSE pc[q]
                            /\ on'[q] = IF q = p THEN lock ELSE on[q]
        BY <1>2 DEF Inv, TypeOK, EndAttempt
      <3>3. answer[p] = NoKey
        BY <3>1 DEF Inv, KeyInv, HolderInv
      <3>4. lock \in Nat /\ \A q \in Tasks : on[q] <= lock
        BY DEF Inv, TypeOK, KeyInv, Versions
      <3> QED BY <3>1, <3>2, <3>3, <3>4, KeysStay DEF HoldsRefresh
    <2>3. LocalInv'
      BY <1>2 DEF Inv, TypeOK, LocalInv, ConnectFails, EndAttempt
    <2>4. ExecutedInv'
      BY <1>2 DEF Inv, TypeOK, ExecutedInv, ConnectFails, EndAttempt, history
    <2>5. SessionInv'
      BY <1>2 DEF Inv, TypeOK, SessionInv, CurrentSessionAttended, ConnectFails, EndAttempt,
         keys
    <2>6. RejectedInv'
      BY <1>2 DEF Inv, TypeOK, RejectedInv, RetryHasNewToken, ConnectFails, EndAttempt,
         keys, history
    <2> QED BY <2>1, <2>2, <2>3, <2>4, <2>5, <2>6 DEF Inv
  <1> QED BY <1>1, <1>2 DEF ConnectFails

\* The lock answers, or the connection breaks.
LEMMA RunInv ==
  ASSUME Inv, NEW p \in Commands, NEW r \in Results \ {"none"}, Run(p, r)
  PROVE  Inv'
  <1> USE TaskKinds DEF NoKey
  <1>1. TypeOK'
    <2>1. commandLock' \in Queues
      BY MoveType DEF Inv, TypeOK, Run, EndAttempt
    <2>2. executed' \in [Commands -> Nat]
      <3>1. executed \in [Commands -> Nat]
        BY DEF Inv, TypeOK
      <3>2. executed' = [executed EXCEPT ![p] = @ + 1] \/ executed' = executed
        BY DEF Run
      <3> QED BY <3>1, <3>2
    <2>3. rejected' \in [Commands -> Versions \cup {NoKey}]
      BY DEF Inv, TypeOK, Run
    <2> QED BY <2>1, <2>2, <2>3 DEF Inv, TypeOK, Run, EndAttempt, Queues, Places, keys
  <1>2. KeyInv'
    <2>1. UNCHANGED <<keys, refreshLock, answer>> /\ pc[p] = "running"
      BY DEF Run
    <2>2. /\ pc' = [pc EXCEPT ![p] = "closing"] /\ on' = [on EXCEPT ![p] = lock]
          /\ \A q \in Tasks : on'[q] \in {on[q], lock}
      BY DEF Inv, TypeOK, Run, EndAttempt
    <2>3. HolderInv' /\ KeyAgreement'
      BY <2>1, <2>2 DEF Inv, TypeOK, KeyInv, HolderInv, HoldsRefresh, KeyAgreement, keys
    <2>4. \A q \in Tasks : on'[q] <= lock'
      BY <2>1, <2>2 DEF Inv, TypeOK, KeyInv, keys, Versions
    <2> QED BY <2>1, <2>3, <2>4 DEF Inv, KeyInv, keys
  <1>3. LocalInv'
    BY DEF Inv, TypeOK, LocalInv, Run, EndAttempt
  <1>4. ExecutedInv'
    <2>1. executed[p] = 0
      BY DEF Inv, ExecutedInv, Run
    <2>2. pc'[p] = "closing" /\ result'[p] = r
      BY DEF Inv, TypeOK, Run, EndAttempt
    <2>3. executed'[p] # 0 => executed'[p] = 1 /\ r \in {"ok", "transport"}
      BY <2>1 DEF Inv, TypeOK, Run
    <2> QED BY <2>2, <2>3 DEF Inv, TypeOK, ExecutedInv, Run, EndAttempt
  <1>5. SessionInv'
    BY DEF Inv, TypeOK, SessionInv, CurrentSessionAttended, Run, EndAttempt, keys
  <1>6. RejectedInv'
    BY DEF Inv, TypeOK, KeyInv, RejectedInv, RetryHasNewToken, Run, EndAttempt, keys
  <1> QED BY <1>1, <1>2, <1>3, <1>4, <1>5, <1>6 DEF Inv

\* The session is closed; the call returns, raises, or asks for a newer key.
LEMMA DisconnectInv ==
  ASSUME Inv, NEW p \in Commands, Disconnect(p)
  PROVE  Inv'
  <1> USE TaskKinds DEF NoKey
  <1>1. commandLock' \in Queues
    BY MoveType DEF Inv, TypeOK, Disconnect
  <1>2. SessionInv'
    <2>1. session' = [session EXCEPT ![on[p]] = FALSE] /\ on' = on /\ lock' = lock
      BY DEF Disconnect, keys
    <2>2. \A q \in Tasks : q # p => pc'[q] = pc[q]
      BY DEF Inv, TypeOK, Disconnect, Return, AskRefresh
    <2> QED BY <2>1, <2>2 DEF Inv, TypeOK, SessionInv, CurrentSessionAttended
  <1>3. ASSUME NEW how \in Outcomes, Return(p, how), UNCHANGED refreshLock
        PROVE  Inv'
    <2>1. TypeOK'
      <3>1. pc' \in [Tasks -> Places] /\ attempt' \in [Commands -> 0 .. 2]
        BY <1>3 DEF Inv, TypeOK, Return, Places
      <3>2. /\ outcome' \in [Commands -> Outcomes] /\ result' \in [Commands -> Results]
            /\ executed' \in [Commands -> Nat]
            /\ rejected' \in [Commands -> Versions \cup {NoKey}]
        BY <1>3 DEF Inv, TypeOK, Return, Results
      <3>3. session' \in [Versions -> BOOLEAN] /\ UNCHANGED <<keys, on, answer>>
        BY DEF Inv, TypeOK, Disconnect
      <3> QED BY <1>1, <1>3, <3>1, <3>2, <3>3 DEF Inv, TypeOK, Queues, keys
    <2>2. KeyInv'
      BY <1>3 DEF Inv, TypeOK, KeyInv, HolderInv, HoldsRefresh, KeyAgreement, Disconnect,
         Return, keys
    <2>3. LocalInv'
      BY <1>3 DEF Inv, TypeOK, LocalInv, Return
    <2>4. ExecutedInv'
      BY <1>3 DEF Inv, TypeOK, ExecutedInv, Return
    <2>5. RejectedInv'
      BY <1>3 DEF Inv, TypeOK, RejectedInv, RetryHasNewToken, Disconnect, Return, keys,
         Versions
    <2> QED BY <1>2, <2>1, <2>2, <2>3, <2>4, <2>5 DEF Inv
  <1>4. CASE MayRetry(p) /\ AskRefresh(p) /\ UNCHANGED <<attempt, result, outcome, history>>
    <2>1. TypeOK'
      <3>1. pc' \in [Tasks -> Places] /\ refreshLock' \in Seq(Tasks)
        BY <1>4 DEF Inv, TypeOK, AskRefresh, Places
      <3>2. session' \in [Versions -> BOOLEAN] /\ UNCHANGED <<keys, on, answer>>
        BY DEF Inv, TypeOK, Disconnect
      <3> QED BY <1>1, <1>4, <3>1, <3>2 DEF Inv, TypeOK, Queues, keys, history
    <2>2. KeyInv'
      <3>1. \A q \in Tasks : HoldsRefresh(q) => HoldsRefresh(q)'
        BY <1>4, HolderStays DEF Inv
      <3>2. UNCHANGED <<keys, on, answer>> /\ pc[p] = "closing"
        BY DEF Disconnect
      <3>3. \A q \in Tasks : pc'[q] = IF q = p THEN "refresh" ELSE pc[q]
        BY <1>4 DEF Inv, TypeOK, AskRefresh
      <3>4. answer[p] = NoKey /\ \A q \in Tasks : on[q] <= lock
        BY <3>2 DEF Inv, KeyInv, HolderInv
      <3> QED BY <3>1, <3>2, <3>3, <3>4, KeysStay
    <2>3. LocalInv'
      BY <1>4 DEF Inv, TypeOK, LocalInv, AskRefresh, MayRetry
    <2>4. ExecutedInv'
      BY <1>4 DEF Inv, TypeOK, ExecutedInv, AskRefresh, MayRetry, history
    <2>5. RejectedInv'
      BY <1>4 DEF Inv, TypeOK, RejectedInv, RetryHasNewToken, Disconnect, AskRefresh, keys,
         history
    <2> QED BY <1>2, <2>1, <2>2, <2>3, <2>4, <2>5 DEF Inv
  <1> QED BY <1>3, <1>4 DEF Disconnect, Outcomes

\* The background cycle reaches this serial.
LEMMA StartRefreshInv ==
  ASSUME Inv, NEW p \in Refreshers, StartRefresh(p)
  PROVE  Inv'
  <1> USE TaskKinds DEF NoKey
  <1>1. TypeOK'
    <2>1. pc' \in [Tasks -> Places] /\ refreshLock' \in Seq(Tasks)
      BY DEF Inv, TypeOK, StartRefresh, AskRefresh, Places
    <2>2. UNCHANGED <<keys, commandLock, session, on, attempt, answer, result, outcome,
                      history>>
      BY DEF StartRefresh
    <2> QED BY <2>1, <2>2 DEF Inv, TypeOK, keys, history
  <1>2. KeyInv'
    <2>1. \A q \in Tasks : HoldsRefresh(q) => HoldsRefresh(q)'
      BY HolderStays DEF Inv, StartRefresh
    <2>2. UNCHANGED <<keys, on, answer>> /\ pc[p] = "idle"
      BY DEF StartRefresh
    <2>3. \A q \in Tasks : pc'[q] = IF q = p THEN "refresh" ELSE pc[q]
      BY DEF Inv, TypeOK, StartRefresh, AskRefresh
    <2>4. answer[p] = NoKey /\ \A q \in Tasks : on[q] <= lock
      BY <2>2 DEF Inv, KeyInv, HolderInv
    <2> QED BY <2>1, <2>2, <2>3, <2>4, KeysStay
  <1>3. LocalInv'
    BY DEF Inv, TypeOK, LocalInv, StartRefresh, AskRefresh
  <1>4. ExecutedInv'
    BY DEF Inv, TypeOK, ExecutedInv, StartRefresh, AskRefresh, history
  <1>5. SessionInv'
    BY DEF Inv, TypeOK, SessionInv, CurrentSessionAttended, StartRefresh, AskRefresh, keys
  <1>6. RejectedInv'
    BY DEF Inv, TypeOK, RejectedInv, RetryHasNewToken, StartRefresh, AskRefresh, keys,
       history
  <1> QED BY <1>1, <1>2, <1>3, <1>4, <1>5, <1>6 DEF Inv

\* The cloud issues the next key to the task that holds the refresh lock.
LEMMA IssueKeyInv ==
  ASSUME Inv, NEW p \in Commands \cup Refreshers, IssueKey(p)
  PROVE  Inv'
  <1> USE TaskKinds, VersionAssumption DEF NoKey
  <1>1. TypeOK'
    <2>1. cloud' \in Versions /\ answer' \in [Tasks -> Versions \cup {NoKey}]
      BY DEF Inv, TypeOK, IssueKey, Versions
    <2>2. UNCHANGED <<cache, lock, expiry, telling, locks, pc, on, attempt, result, outcome,
                      history>>
      BY DEF IssueKey
    <2> QED BY <2>1, <2>2 DEF Inv, TypeOK, locks, history
  <1>2. KeyInv'
    <2>1. /\ cloud \in Nat /\ cache \in Nat /\ cache <= cloud
          /\ answer' = [answer EXCEPT ![p] = cloud + 1]
          /\ cloud' = cloud + 1 /\ cache' = cache /\ lock' = lock
          /\ refreshLock' = refreshLock /\ pc' = pc /\ on' = on
      BY DEF Inv, TypeOK, KeyInv, IssueKey, locks, Versions
    <2>2. HolderInv'
      BY <2>1 DEF Inv, TypeOK, KeyInv, HolderInv, HoldsRefresh, IssueKey
    <2>3. \A q \in Tasks : answer'[q] <= cloud' /\ on'[q] <= lock'
      <3> SUFFICES ASSUME NEW q \in Tasks PROVE answer'[q] <= cloud' /\ on'[q] <= lock'
        OBVIOUS
      <3>1. answer[q] \in Nat /\ answer[q] <= cloud /\ on[q] <= lock
        BY DEF Inv, TypeOK, KeyInv, Versions
      <3>2. answer'[q] \in {answer[q], cloud + 1}
        BY <2>1 DEF Inv, TypeOK
      <3> QED BY <2>1, <3>1, <3>2
    <2> QED BY <2>1, <2>2, <2>3 DEF Inv, KeyInv, KeyAgreement
  <1>3. LocalInv' /\ ExecutedInv' /\ SessionInv' /\ RejectedInv'
    BY DEF Inv, LocalInv, ExecutedInv, SessionInv, CurrentSessionAttended, RejectedInv,
       RetryHasNewToken, IssueKey, locks, history
  <1> QED BY <1>1, <1>2, <1>3 DEF Inv

-----------------------------------------------------------------------------
(* The installation of a key.                                              *)

\* The key a task has been issued is newer than every key in use.
LEMMA HolderFacts ==
  ASSUME Inv, NEW p \in Tasks, answer[p] # NoKey
  PROVE  /\ HoldsRefresh(p)
         /\ answer[p] \in Versions /\ lock < answer[p] /\ answer[p] <= cloud
         /\ \A q \in Tasks : q # p => answer[q] = NoKey /\ pc[q] # "swapping"
  <1>1. HoldsRefresh(p)
    BY DEF Inv, KeyInv, HolderInv
  <1>2. \A q \in Tasks : q # p => answer[q] = NoKey /\ pc[q] # "swapping"
    BY <1>1 DEF Inv, KeyInv, HolderInv, HoldsRefresh
  <1>3. answer[p] \in Versions /\ answer[p] <= cloud
    BY DEF Inv, TypeOK, KeyInv
  <1>4. lock < answer[p]
    <2>1. CASE pc[p] = "swapping"
      BY <2>1 DEF Inv, KeyInv, HolderInv
    <2>2. CASE pc[p] # "swapping"
      BY <1>3, <2>2 DEF Inv, TypeOK, KeyInv, HolderInv, Versions
    <2> QED BY <2>1, <2>2
  <1> QED BY <1>1, <1>2, <1>3, <1>4

\* Installing that key re-establishes the invariant, whether the old facade was
\* at rest (ReceiveKey) or its lock was held (Swap).
LEMMA InstallInv ==
  ASSUME Inv, NEW p \in Commands \cup Refreshers, NEW queues \in Queues,
         pc[p] \in {"refresh", "swapping"}, answer[p] # NoKey,
         Install(p, queues), cache' = answer[p],
         session' \in [Versions -> BOOLEAN],
         \A f \in Versions : session'[f] => session[f],
         UNCHANGED <<cloud, result, outcome, history>>
  PROVE  Inv'
  <1> USE TaskKinds DEF NoKey
  <1>1. /\ HoldsRefresh(p)
        /\ answer[p] \in Versions /\ lock < answer[p] /\ answer[p] <= cloud
        /\ \A q \in Tasks : q # p => answer[q] = NoKey /\ pc[q] # "swapping"
    BY HolderFacts
  <1>2. pc'[p] \in {"attempt", "idle"} /\ \A q \in Tasks : q # p => pc'[q] = pc[q]
    BY DEF Inv, TypeOK, Install, Attempt
  <1>3. lock' = answer[p] /\ answer' = [answer EXCEPT ![p] = NoKey]
    BY DEF Install
  <1>4. lock \in Nat /\ answer[p] \in Nat /\ lock' \in Versions
    BY <1>1, <1>3 DEF Inv, TypeOK, Versions
  <1>5. /\ pc' \in [Tasks -> Places]
        /\ attempt' \in [Commands -> 0 .. 2]
        /\ on' \in [Tasks -> Versions]
        /\ \A q \in Tasks : on'[q] \in {on[q], answer[p]}
        /\ \A q \in Commands : q # p => on'[q] = on[q] /\ attempt'[q] = attempt[q]
        /\ p \in Commands => /\ pc'[p] = "attempt" /\ on'[p] = answer[p]
                             /\ attempt'[p] \in {1, 2}
        /\ p \in Refreshers => pc'[p] = "idle"
    <2>1. CASE p \in Commands /\ Attempt(p, answer[p], queues)
      <3>1. attempt[p] \in {0, 1}
        BY <2>1 DEF Inv, LocalInv
      <3> QED BY <1>1, <2>1, <3>1 DEF Inv, TypeOK, Attempt, Places
    <2>2. CASE p \in Refreshers /\ pc' = [pc EXCEPT ![p] = "idle"]
               /\ UNCHANGED <<on, attempt>>
      BY <2>2 DEF Inv, TypeOK, Places
    <2> QED BY <2>1, <2>2 DEF Install
  <1>6. TypeOK'
    <2>1. refreshLock' \in Seq(Tasks)
      BY <1>1 DEF Inv, TypeOK, Install, HoldsRefresh
    <2>2. commandLock' \in Queues
      BY <1>1, EnqueueType DEF Install, Attempt
    <2>3. answer' \in [Tasks -> Versions \cup {NoKey}]
      BY <1>3 DEF Inv, TypeOK
    <2>4. expiry' \in Versions \cup {NoKey} /\ telling' \in BOOLEAN
      <3>1. expiry' = expiry
        BY <1>1 DEF Install, Notify
      <3>2. telling' = (pc[Unloader] = "idle")
        BY <1>1, Zenon DEF Install, Notify, Loaded
      <3> QED BY <3>1, <3>2 DEF Inv, TypeOK
    <2> QED BY <1>1, <1>4, <1>5, <2>1, <2>2, <2>3, <2>4 DEF Inv, TypeOK, Queues, history
  <1>7. KeyInv'
    <2>1. HolderInv'
      BY <1>1, <1>2, <1>3 DEF Inv, TypeOK, HolderInv
    <2>2. \A q \in Tasks : on'[q] <= lock'
      <3> SUFFICES ASSUME NEW q \in Tasks PROVE on'[q] <= lock'
        OBVIOUS
      <3>1. on[q] \in Nat /\ on[q] <= lock
        BY DEF Inv, TypeOK, KeyInv, Versions
      <3> QED BY <1>1, <1>3, <1>4, <1>5, <3>1
    <2>3. \A q \in Tasks : answer'[q] <= cloud'
      BY <1>3 DEF Inv, TypeOK, KeyInv, Versions
    <2> QED BY <1>1, <1>3, <2>1, <2>2, <2>3 DEF KeyInv, KeyAgreement, Versions
  <1>8. LocalInv'
    BY <1>2, <1>5 DEF Inv, LocalInv
  <1>9. ExecutedInv'
    BY <1>2 DEF Inv, TypeOK, ExecutedInv, history
  <1>10. SessionInv'
    BY <1>3, <1>4, <1>1 DEF Inv, SessionInv, CurrentSessionAttended, Versions
  <1>11. RejectedInv'
    <2>1. \A q \in Commands : rejected'[q] <= lock /\ rejected'[q] \in Nat
      <3>1. rejected' = rejected
        BY DEF history
      <3>2. rejected \in [Commands -> Versions \cup {NoKey}]
        BY DEF Inv, TypeOK
      <3> QED BY <3>1, <3>2 DEF Inv, RejectedInv, Versions
    <2>2. \A q \in Commands : rejected'[q] <= lock'
      BY <1>1, <1>3, <1>4, <2>1
    <2>3. RetryHasNewToken'
      BY <1>1, <1>2, <1>4, <1>5, <2>1 DEF Inv, RejectedInv, RetryHasNewToken, history
    <2> QED BY <2>2, <2>3 DEF RejectedInv
  <1> QED BY <1>6, <1>7, <1>8, <1>9, <1>10, <1>11 DEF Inv

\* The response arrives: the key is cached, and installed unless p must wait.
LEMMA ReceiveKeyInv ==
  ASSUME Inv, NEW p \in Commands \cup Refreshers, ReceiveKey(p)
  PROVE  Inv'
  <1> USE TaskKinds DEF NoKey
  <1>1. /\ HoldsRefresh(p)
        /\ answer[p] \in Versions /\ lock < answer[p] /\ answer[p] <= cloud
        /\ \A q \in Tasks : q # p => answer[q] = NoKey /\ pc[q] # "swapping"
    BY HolderFacts DEF ReceiveKey
  <1>2. CASE Install(p, commandLock)
    <2>1. commandLock \in Queues
      BY DEF Inv, TypeOK, Queues
    <2>2. session' \in [Versions -> BOOLEAN] /\ \A f \in Versions : session'[f] => session[f]
      BY DEF Inv, TypeOK, ReceiveKey
    <2> QED BY <1>2, <2>1, <2>2, InstallInv DEF ReceiveKey
  <1>3. CASE /\ pc' = [pc EXCEPT ![p] = "swapping"]
             /\ on' = [on EXCEPT ![p] = lock]
             /\ commandLock' = Enqueue(commandLock, lock, p)
             /\ UNCHANGED <<lock, expiry, telling, refreshLock, attempt, answer>>
    <2>1. TypeOK'
      <3>1. commandLock' \in Queues
        BY <1>3, EnqueueType DEF Inv, TypeOK, Queues
      <3> QED BY <1>1, <1>3, <3>1 DEF Inv, TypeOK, ReceiveKey, Queues, Places, history
    <2>2. KeyInv'
      <3>1. HolderInv'
        BY <1>1, <1>3 DEF Inv, TypeOK, HolderInv, HoldsRefresh, ReceiveKey
      <3>2. pc'[p] = "swapping"
        BY <1>3 DEF Inv, TypeOK
      <3>3. \A q \in Tasks : answer'[q] <= cloud' /\ on'[q] <= lock'
        BY <1>3 DEF Inv, TypeOK, KeyInv, ReceiveKey, Versions
      <3>4. lock' <= cache' /\ cache' <= cloud'
        BY <1>1, <1>3 DEF Inv, TypeOK, ReceiveKey, Versions
      <3> QED BY <3>1, <3>2, <3>3, <3>4 DEF KeyInv, KeyAgreement
    <2>3. LocalInv'
      BY <1>3 DEF Inv, TypeOK, LocalInv, ReceiveKey
    <2>4. ExecutedInv'
      BY <1>3 DEF Inv, TypeOK, ExecutedInv, ReceiveKey, history
    <2>5. SessionInv'
      BY <1>3 DEF Inv, TypeOK, SessionInv, CurrentSessionAttended, ReceiveKey
    <2>6. RejectedInv'
      BY <1>3 DEF Inv, TypeOK, RejectedInv, RetryHasNewToken, ReceiveKey, history
    <2> QED BY <2>1, <2>2, <2>3, <2>4, <2>5, <2>6 DEF Inv
  <1> QED BY <1>2, <1>3 DEF ReceiveKey

\* The old facade is disconnected and the key installed.
LEMMA SwapInv ==
  ASSUME Inv, NEW p \in Commands \cup Refreshers, Swap(p)
  PROVE  Inv'
  <1> USE TaskKinds
  <1>1. Release(commandLock, on[p]) \in Queues
    BY MoveType DEF Inv, TypeOK, Swap
  <1>2. session' \in [Versions -> BOOLEAN] /\ \A f \in Versions : session'[f] => session[f]
    BY DEF Inv, TypeOK, Swap
  <1>3. answer[p] # NoKey /\ cache' = answer[p]
    BY DEF Inv, TypeOK, KeyInv, HolderInv, Swap, Versions, NoKey
  <1> QED BY <1>1, <1>2, <1>3, InstallInv DEF Swap

\* The refresh fails: p goes on with the stored key, gives up, or is done.
LEMMA FetchFailsInv ==
  ASSUME Inv, NEW p \in Commands \cup Refreshers, FetchFails(p)
  PROVE  Inv'
  <1> USE TaskKinds DEF NoKey
  <1>1. \A q \in Tasks : q # p => answer[q] = NoKey /\ pc[q] # "swapping"
    BY DEF Inv, KeyInv, HolderInv, HoldsRefresh, FetchFails
  <1>2. refreshLock' \in Seq(Tasks) /\ answer' = [answer EXCEPT ![p] = NoKey]
    BY DEF Inv, TypeOK, HoldsRefresh, FetchFails
  <1>3. pc'[p] \in {"attempt", "idle"} /\ \A q \in Tasks : q # p => pc'[q] = pc[q]
    BY DEF Inv, TypeOK, FetchFails, Attempt, Return
  <1>4. HolderInv'
    BY <1>1, <1>2, <1>3 DEF Inv, TypeOK, HolderInv
  <1>5. \A q \in Tasks : pc[q] # "swapping"
    BY <1>1 DEF FetchFails
  <1>6. CASE p \in Commands /\ attempt[p] = 0 /\ Attempt(p, lock, commandLock)
             /\ UNCHANGED <<result, outcome, history>>
    <2>1. TypeOK'
      <3>1. commandLock' \in Queues
        BY <1>6, EnqueueType DEF Inv, TypeOK, Attempt, Queues
      <3>2. /\ pc' \in [Tasks -> Places] /\ on' \in [Tasks -> Versions]
            /\ answer' \in [Tasks -> Versions \cup {NoKey}]
        BY <1>2, <1>6 DEF Inv, TypeOK, Attempt, Places
      <3>3. attempt' \in [Commands -> 0 .. 2]
        BY <1>6 DEF Inv, TypeOK, Attempt
      <3>4. UNCHANGED <<keys, session, result, outcome, history>>
        BY <1>6 DEF FetchFails
      <3> QED BY <1>2, <3>1, <3>2, <3>3, <3>4 DEF Inv, TypeOK, Queues, keys, history
    <2>2. KeyInv'
      BY <1>2, <1>4, <1>5, <1>6 DEF Inv, TypeOK, KeyInv, KeyAgreement, FetchFails, Attempt,
         keys, Versions
    <2>3. LocalInv'
      BY <1>6 DEF Inv, TypeOK, LocalInv, Attempt
    <2>4. ExecutedInv'
      BY <1>6 DEF Inv, TypeOK, ExecutedInv, FetchFails, Attempt, history
    <2>5. SessionInv'
      BY <1>5, <1>6 DEF Inv, TypeOK, SessionInv, CurrentSessionAttended, FetchFails, Attempt,
         keys
    <2>6. RejectedInv'
      BY <1>6 DEF Inv, TypeOK, RejectedInv, RetryHasNewToken, FetchFails, Attempt, keys,
         history
    <2> QED BY <2>1, <2>2, <2>3, <2>4, <2>5, <2>6 DEF Inv
  <1>7. CASE p \in Commands /\ Return(p, "error") /\ UNCHANGED <<on, commandLock>>
    <2>1. TypeOK'
      BY <1>2, <1>7 DEF Inv, TypeOK, FetchFails, Return, Places, Outcomes, Results, keys
    <2>2. KeyInv'
      BY <1>2, <1>4, <1>5, <1>7 DEF Inv, TypeOK, KeyInv, KeyAgreement, FetchFails, Versions,
         keys
    <2>3. LocalInv'
      BY <1>7 DEF Inv, TypeOK, LocalInv, Return
    <2>4. ExecutedInv'
      BY <1>7 DEF Inv, TypeOK, ExecutedInv, Return
    <2>5. SessionInv'
      BY <1>7 DEF Inv, TypeOK, SessionInv, CurrentSessionAttended, FetchFails, Return, keys
    <2>6. RejectedInv'
      BY <1>7 DEF Inv, TypeOK, RejectedInv, RetryHasNewToken, FetchFails, Return, keys,
         Versions
    <2> QED BY <2>1, <2>2, <2>3, <2>4, <2>5, <2>6 DEF Inv
  <1>8. CASE p \in Refreshers /\ pc' = [pc EXCEPT ![p] = "idle"]
             /\ UNCHANGED <<on, attempt, commandLock, result, outcome, history>>
    <2>1. TypeOK'
      BY <1>2, <1>8 DEF Inv, TypeOK, FetchFails, Places, keys, history
    <2>2. KeyInv'
      BY <1>2, <1>4, <1>5, <1>8 DEF Inv, TypeOK, KeyInv, KeyAgreement, FetchFails, Versions,
         keys
    <2>3. LocalInv'
      BY <1>8 DEF Inv, TypeOK, LocalInv
    <2>4. ExecutedInv' /\ RejectedInv'
      BY <1>8 DEF Inv, TypeOK, ExecutedInv, RejectedInv, RetryHasNewToken, FetchFails, keys,
         history
    <2>5. SessionInv'
      BY <1>8 DEF Inv, TypeOK, SessionInv, CurrentSessionAttended, FetchFails, keys
    <2> QED BY <2>1, <2>2, <2>3, <2>4, <2>5 DEF Inv
  <1> QED BY <1>6, <1>7, <1>8 DEF FetchFails

\* The client is closed: the refresh of p raises.
LEMMA FetchOnClosedClientInv ==
  ASSUME Inv, NEW p \in Commands \cup Refreshers, FetchOnClosedClient(p)
  PROVE  Inv'
  <1> USE TaskKinds DEF NoKey
  <1>1. refreshLock' \in Seq(Tasks) /\ answer' = answer
    BY DEF Inv, TypeOK, HoldsRefresh, FetchOnClosedClient
  <1>2. \A q \in Tasks : answer[q] = NoKey /\ pc[q] # "swapping"
    BY DEF Inv, KeyInv, HolderInv, HoldsRefresh, FetchOnClosedClient
  <1>3. pc' = [pc EXCEPT ![p] = "idle"]
    BY DEF FetchOnClosedClient, Return
  <1>4. KeyInv'
    BY <1>1, <1>2, <1>3 DEF Inv, TypeOK, KeyInv, HolderInv, KeyAgreement,
       FetchOnClosedClient, keys
  <1>5. SessionInv'
    BY <1>3 DEF Inv, TypeOK, SessionInv, CurrentSessionAttended, FetchOnClosedClient, keys
  <1>6. CASE p \in Commands /\ Return(p, "foreign")
    <2>1. TypeOK'
      BY <1>1, <1>6 DEF Inv, TypeOK, FetchOnClosedClient, Return, Places, Outcomes, Results,
         keys
    <2>2. LocalInv'
      BY <1>6 DEF Inv, TypeOK, LocalInv, Return
    <2>3. ExecutedInv'
      BY <1>6 DEF Inv, TypeOK, ExecutedInv, Return
    <2>4. RejectedInv'
      BY <1>6 DEF Inv, TypeOK, RejectedInv, RetryHasNewToken, FetchOnClosedClient, Return,
         keys, Versions
    <2> QED BY <1>4, <1>5, <2>1, <2>2, <2>3, <2>4 DEF Inv
  <1>7. CASE p \in Refreshers /\ UNCHANGED <<attempt, result, outcome, history>>
    <2>1. TypeOK'
      BY <1>1, <1>3, <1>7 DEF Inv, TypeOK, FetchOnClosedClient, Places, keys, history
    <2>2. LocalInv'
      BY <1>3, <1>7 DEF Inv, TypeOK, LocalInv
    <2>3. ExecutedInv' /\ RejectedInv'
      BY <1>3, <1>7 DEF Inv, TypeOK, ExecutedInv, RejectedInv, RetryHasNewToken,
         FetchOnClosedClient, keys, history
    <2> QED BY <1>4, <1>5, <2>1, <2>2, <2>3 DEF Inv
  <1> QED BY <1>6, <1>7 DEF FetchOnClosedClient

\* The unload begins, and ends.
LEMMA UnloadInv ==
  ASSUME Inv, StartUnload \/ FinishUnload
  PROVE  Inv'
  <1> USE TaskKinds DEF NoKey
  <1>1. commandLock' \in Queues
    <2>1. CASE StartUnload
      <3>1. lock \in Versions /\ commandLock \in Queues
        BY DEF Inv, TypeOK, Queues
      <3>2. Enqueue(commandLock, lock, Unloader) \in Queues
        BY <3>1, EnqueueType
      <3> QED BY <2>1, <3>1, <3>2 DEF StartUnload
    <2>2. CASE FinishUnload
      BY <2>2, MoveType DEF Inv, TypeOK, FinishUnload
    <2> QED BY <2>1, <2>2
  <1>2. TypeOK'
    <2>1. pc' \in [Tasks -> Places] /\ on' \in [Tasks -> Versions]
      <3>1. /\ pc' = [pc EXCEPT ![Unloader] = "unloading"]
               \/ pc' = [pc EXCEPT ![Unloader] = "unloaded"]
            /\ on' = on \/ on' = [on EXCEPT ![Unloader] = lock]
        BY DEF StartUnload, FinishUnload
      <3>2. pc \in [Tasks -> Places] /\ on \in [Tasks -> Versions] /\ lock \in Versions
        BY DEF Inv, TypeOK
      <3> QED BY <3>1, <3>2 DEF Places
    <2>2. session' \in [Versions -> BOOLEAN]
      BY DEF Inv, TypeOK, StartUnload, FinishUnload
    <2>3. UNCHANGED <<cloud, cache, lock, refreshLock, attempt, answer, result, outcome,
                      history>>
      BY DEF StartUnload, FinishUnload, keys
    <2>4. expiry' \in Versions \cup {NoKey} /\ telling' \in BOOLEAN
      BY DEF Inv, TypeOK, StartUnload, FinishUnload, keys
    <2> QED BY <1>1, <2>1, <2>2, <2>3, <2>4 DEF Inv, TypeOK, Queues, history
  <1>3. KeyInv'
    <2>1. /\ \A q \in Tasks : q # Unloader => pc'[q] = pc[q]
          /\ pc[Unloader] # "swapping" /\ pc'[Unloader] # "swapping"
          /\ pc[Unloader] # "refresh"
      BY DEF Inv, TypeOK, LocalInv, StartUnload, FinishUnload
    <2>2. UNCHANGED <<cloud, cache, lock, refreshLock, answer>>
      BY DEF StartUnload, FinishUnload, keys
    <2>3. HolderInv'
      BY <2>1, <2>2 DEF Inv, KeyInv, HolderInv, HoldsRefresh
    <2>4. KeyAgreement'
      BY <2>1, <2>2 DEF Inv, KeyInv, KeyAgreement
    <2>5. \A q \in Tasks : on'[q] <= lock'
      <3>1. on' = on \/ on' = [on EXCEPT ![Unloader] = lock]
        BY DEF StartUnload, FinishUnload
      <3>2. lock \in Nat /\ lock' = lock /\ \A q \in Tasks : on[q] <= lock
        BY <2>2 DEF Inv, TypeOK, KeyInv, Versions
      <3>3. on \in [Tasks -> Versions]
        BY DEF Inv, TypeOK
      <3>4. ASSUME NEW q \in Tasks PROVE on'[q] <= lock
        <4>1. on'[q] \in {on[q], lock}
          BY <3>1, <3>3
        <4> QED BY <3>2, <4>1
      <3> QED BY <3>2, <3>4
    <2> QED BY <2>2, <2>3, <2>4, <2>5 DEF Inv, KeyInv
  <1>4. LocalInv'
    BY DEF Inv, TypeOK, LocalInv, StartUnload, FinishUnload
  <1>5. ExecutedInv'
    BY DEF Inv, TypeOK, ExecutedInv, StartUnload, FinishUnload, history
  <1>6. SessionInv'
    <2>1. CASE StartUnload
      BY <2>1 DEF Inv, TypeOK, SessionInv, CurrentSessionAttended, StartUnload, Loaded, keys
    <2>2. CASE FinishUnload
      BY <2>2 DEF Inv, TypeOK, SessionInv, CurrentSessionAttended, FinishUnload, keys
    <2> QED BY <2>1, <2>2
  <1>7. RejectedInv'
    BY DEF Inv, TypeOK, RejectedInv, RetryHasNewToken, StartUnload, FinishUnload, keys,
       history
  <1> QED BY <1>2, <1>3, <1>4, <1>5, <1>6, <1>7 DEF Inv

\* The expiry sensor writes, by itself or as a listener.
LEMMA SensorWritesInv == Inv /\ (SensorWrites \/ ListenerRuns) => Inv'
  <1> SUFFICES ASSUME Inv, SensorWrites \/ ListenerRuns PROVE Inv'
    OBVIOUS
  <1>1. /\ UNCHANGED <<cloud, cache, lock, refreshLock, commandLock, session, pc, on, attempt>>
        /\ UNCHANGED <<answer, result, outcome, executed, rejected>>
    BY DEF SensorWrites, ListenerRuns, locks, history
  <1>2. TypeOK'
    <2>1. expiry' \in Versions \cup {NoKey} /\ telling' \in BOOLEAN
      BY DEF SensorWrites, ListenerRuns, Inv, TypeOK
    <2> QED BY <1>1, <2>1 DEF Inv, TypeOK
  <1> QED BY <1>1, <1>2 DEF Inv, KeyInv, HolderInv, HoldsRefresh, KeyAgreement, LocalInv,
             ExecutedInv, SessionInv, CurrentSessionAttended, RejectedInv, RetryHasNewToken

\* A step that changes nothing.
LEMMA StutterInv == Inv /\ UNCHANGED vars => Inv'
  BY DEF vars, keys, locks, history, Inv, TypeOK, KeyInv, HolderInv, HoldsRefresh,
     KeyAgreement, LocalInv, ExecutedInv, SessionInv, CurrentSessionAttended, RejectedInv,
     RetryHasNewToken

-----------------------------------------------------------------------------
(* The theorems.                                                           *)

\* Every step preserves the invariant.
LEMMA NextInv == Inv /\ [Next]_vars => Inv'
  <1> SUFFICES ASSUME Inv, [Next]_vars PROVE Inv'
    OBVIOUS
  <1>1. ASSUME NEW p \in Commands \cup Refreshers, RefreshStep(p) PROVE Inv'
    BY <1>1, IssueKeyInv, ReceiveKeyInv, SwapInv, FetchFailsInv, FetchOnClosedClientInv
       DEF RefreshStep
  <1>2. ASSUME NEW p \in Commands, StartCommand(p) \/ CommandStep(p) PROVE Inv'
    BY <1>2, StartCommandInv, ConnectInv, ConnectFailsInv, RunInv, DisconnectInv
       DEF CommandStep
  <1>3. ASSUME NEW p \in Refreshers, StartRefresh(p) PROVE Inv'
    BY <1>3, StartRefreshInv
  <1>4. CASE StartUnload \/ FinishUnload \/ SensorWrites \/ ListenerRuns
    BY <1>4, UnloadInv, SensorWritesInv
  <1>5. CASE UNCHANGED vars
    BY <1>5, StutterInv
  <1> QED BY <1>1, <1>2, <1>3, <1>4, <1>5 DEF Next, Finished

\* The invariant holds throughout.
THEOREM Invariance == Spec => []Inv
  <1> QED BY InitInv, NextInv, PTL DEF Spec

\* Every variable keeps its type; among others, no command makes a third attempt.
THEOREM TypeCorrect == Spec => []TypeOK
  <1>1. Inv => TypeOK
    BY DEF Inv
  <1> QED BY <1>1, Invariance, PTL

\* The facade holds the token of the cached key unless set_key is waiting.
THEOREM KeysAgree == Spec => []KeyAgreement
  <1>1. Inv => KeyAgreement
    BY DEF Inv, KeyInv
  <1> QED BY <1>1, Invariance, PTL

\* A retry logs in with a token issued after the rejected one.
THEOREM RetriesAreNewer == Spec => []RetryHasNewToken
  <1>1. Inv => RetryHasNewToken
    BY DEF Inv, RejectedInv
  <1> QED BY <1>1, Invariance, PTL

\* A call makes the lock act at most once.
THEOREM AtMostOnce == Spec => []AtMostOneExecution
  <1>1. Inv => AtMostOneExecution
    <2> SUFFICES ASSUME Inv, NEW p \in Commands PROVE executed[p] <= 1
      BY DEF AtMostOneExecution
    <2>1. executed[p] \in {0, 1}
      BY DEF Inv, ExecutedInv
    <2> QED BY <2>1
  <1> QED BY <1>1, Invariance, PTL

\* An open session of the current facade is attended by some task.
THEOREM SessionsAttended == Spec => []CurrentSessionAttended
  <1>1. Inv => CurrentSessionAttended
    BY DEF Inv, SessionInv
  <1> QED BY <1>1, Invariance, PTL

\* A step leaves the sensor right: only set_key's wait and the event loop come between
\* a new cached key and the listener.
LEMMA ExpiryStep == Inv /\ ExpiryShown /\ [Next]_vars => ExpiryShown'
  <1> SUFFICES ASSUME Inv, ExpiryShown, [Next]_vars, Loaded', ~telling',
                      \A q \in Tasks : pc'[q] # "swapping"
               PROVE  expiry' = cache'
    BY DEF ExpiryShown
  <1> USE TaskKinds
  <1>1. ASSUME NEW p \in Commands \cup Refreshers, ReceiveKey(p) PROVE expiry' = cache'
    <2>1. pc'[p] # "swapping" /\ pc'[Unloader] = pc[Unloader]
      BY <1>1 DEF Inv, TypeOK, ReceiveKey, Install, Attempt
    <2>2. Install(p, commandLock)
      BY <1>1, <2>1 DEF Inv, TypeOK, ReceiveKey
    <2> QED BY <2>1, <2>2, Zenon DEF Install, Notify, Loaded
  <1>2. ASSUME NEW p \in Commands \cup Refreshers, Swap(p) PROVE expiry' = cache'
    <2>1. pc'[Unloader] = pc[Unloader]
      BY <1>2 DEF Inv, TypeOK, Swap, Install, Attempt
    <2>2. Install(p, Release(commandLock, on[p]))
      BY <1>2 DEF Swap
    <2> QED BY <2>1, <2>2, Zenon DEF Install, Notify, Loaded
  <1>3. CASE SensorWrites \/ ListenerRuns
    BY <1>3 DEF SensorWrites, ListenerRuns
  <1>4. ASSUME UNCHANGED <<cache, expiry, telling>>, Loaded, \A q \in Tasks : pc[q] # "swapping"
        PROVE  expiry' = cache'
    BY <1>4 DEF ExpiryShown
  <1>5. ASSUME NEW p \in Commands \cup Refreshers, UNCHANGED <<cache, expiry, telling>>,
               pc[p] # "swapping", \A q \in Tasks : q # p => pc'[q] = pc[q]
        PROVE  expiry' = cache'
    BY <1>4, <1>5 DEF Loaded
  <1>6. ASSUME NEW p \in Commands \cup Refreshers,
               IssueKey(p) \/ FetchFails(p) \/ FetchOnClosedClient(p)
        PROVE  expiry' = cache'
    BY <1>5, <1>6 DEF Inv, TypeOK, IssueKey, FetchFails, FetchOnClosedClient, Return,
                      Attempt, keys, locks
  <1>7. ASSUME NEW p \in Commands, StartCommand(p) \/ CommandStep(p)
        PROVE  expiry' = cache'
    <2>1. UNCHANGED <<cache, expiry, telling>> /\ pc[p] # "swapping"
      BY <1>7 DEF StartCommand, CommandStep, Connect, ConnectFails, Run, Disconnect, keys
    <2>2. \A q \in Tasks : q # p => pc'[q] = pc[q]
      <3>1. \E place \in Places : pc' = [pc EXCEPT ![p] = place]
        BY <1>7 DEF StartCommand, CommandStep, Connect, ConnectFails, Run, Disconnect,
                    Return, AskRefresh, Attempt, EndAttempt, Places
      <3> QED BY <3>1 DEF Inv, TypeOK
    <2> QED BY <1>5, <2>1, <2>2
  <1>8. ASSUME NEW p \in Refreshers, StartRefresh(p) PROVE expiry' = cache'
    BY <1>5, <1>8 DEF Inv, TypeOK, StartRefresh, AskRefresh, keys
  <1>9. CASE StartUnload \/ FinishUnload
    <2>1. CASE StartUnload
      <3>1. pc'[Unloader] \in {"unloaded", "unloading"}
        BY <2>1 DEF Inv, TypeOK, StartUnload
      <3> QED BY <3>1 DEF Loaded
    <2>2. CASE FinishUnload
      <3>1. pc'[Unloader] = "unloaded"
        BY <2>2 DEF Inv, TypeOK, FinishUnload
      <3> QED BY <3>1 DEF Loaded
    <2> QED BY <1>9, <2>1, <2>2
  <1>10. CASE UNCHANGED vars
    BY <1>4, <1>10 DEF vars, keys, Loaded
  <1> QED BY <1>1, <1>2, <1>3, <1>6, <1>7, <1>8, <1>9, <1>10
             DEF Next, RefreshStep, Finished

\* The key expiry sensor shows the cached key's expiry unless set_key is waiting or
\* the listener is about to run.
THEOREM ExpiryIsShown == Spec => []ExpiryShown
  <1>1. Init => ExpiryShown
    BY DEF Init, ExpiryShown
  <1> QED BY <1>1, ExpiryStep, Invariance, PTL DEF Spec

-----------------------------------------------------------------------------
(* Who stands in the queues of the locks.                                  *)

\* A queue lists each task of a set once and no other.
Lists(queue, S) ==
  /\ \A p \in Tasks : Queued(queue, p) <=> p \in S
  /\ \A i, j \in 1 .. Len(queue) : queue[i] = queue[j] => i = j

Awaiting(facade, place, f) == {p \in Tasks : facade[p] = f /\ place[p] \in Waiting}

RefreshQueue == Lists(refreshLock, {p \in Tasks : pc[p] \in Refreshing})
FacadeQueues == \A f \in Versions : Lists(commandLock[f], Awaiting(on, pc, f))

\* The head leaves the queue: it stands nowhere else in it.
LEMMA TailLists ==
  ASSUME NEW queue \in Seq(Tasks), NEW S, Lists(queue, S), queue # <<>>
  PROVE  Lists(Tail(queue), S \ {Head(queue)})
  <1> DEFINE left == Tail(queue)
  <1>1. /\ Len(queue) \in Nat \ {0} /\ Len(left) = Len(queue) - 1 /\ Head(queue) = queue[1]
        /\ \A i \in 1 .. Len(left) : left[i] = queue[i + 1]
    OBVIOUS
  <1>2. \A i \in 1 .. Len(left) : i + 1 \in 1 .. Len(queue) /\ i + 1 # 1 /\ i \in Nat
    BY <1>1
  <1>3. \A i \in 1 .. Len(queue) : i # 1 => i - 1 \in 1 .. Len(left) /\ i = (i - 1) + 1
    BY <1>1
  <1>4. 1 \in 1 .. Len(queue)
    BY <1>1
  <1>5. ASSUME NEW p \in Tasks, Queued(left, p) PROVE p \in S \ {Head(queue)}
    <2>1. PICK i \in 1 .. Len(left) : left[i] = p
      BY <1>5 DEF Queued
    <2>2. i + 1 \in 1 .. Len(queue) /\ queue[i + 1] = p /\ i + 1 # 1
      BY <1>1, <1>2, <2>1
    <2>3. p # queue[1]
      BY <1>4, <2>2 DEF Lists
    <2>4. Queued(queue, p)
      BY <2>2 DEF Queued
    <2> QED BY <1>1, <2>3, <2>4 DEF Lists
  <1>6. ASSUME NEW p \in Tasks, p \in S \ {Head(queue)} PROVE Queued(left, p)
    <2>1. PICK i \in 1 .. Len(queue) : queue[i] = p
      BY <1>6 DEF Lists, Queued
    <2>2. i # 1
      BY <1>1, <1>6, <2>1
    <2>3. i - 1 \in 1 .. Len(left) /\ i = (i - 1) + 1
      BY <1>3, <2>2
    <2>4. left[i - 1] = p
      BY <1>1, <2>1, <2>3
    <2> QED BY <2>3, <2>4 DEF Queued
  <1>7. ASSUME NEW i \in 1 .. Len(left), NEW j \in 1 .. Len(left), left[i] = left[j]
        PROVE  i = j
    <2>1. queue[i + 1] = queue[j + 1]
      BY <1>1, <1>7
    <2>2. i + 1 = j + 1
      BY <1>2, <2>1 DEF Lists
    <2> QED BY <1>2, <2>2
  <1> QED BY <1>5, <1>6, <1>7 DEF Lists

\* A task that is not in the queue joins it.
LEMMA AppendLists ==
  ASSUME NEW queue \in Seq(Tasks), NEW S, Lists(queue, S), NEW p \in Tasks \ S
  PROVE  Lists(Append(queue, p), S \cup {p})
  <1> DEFINE more == Append(queue, p)
             n == Len(queue) + 1
  <1>1. /\ Len(queue) \in Nat /\ Len(more) = n /\ more[n] = p
        /\ \A i \in 1 .. Len(queue) : more[i] = queue[i]
    OBVIOUS
  <1>2. /\ \A i \in 1 .. Len(more) : i \in 1 .. Len(queue) \/ i = n
        /\ \A i \in 1 .. Len(queue) : i \in 1 .. Len(more)
        /\ n \in 1 .. Len(more)
    BY <1>1
  <1>3. \A i \in 1 .. Len(queue) : queue[i] # p
    BY DEF Lists, Queued
  <1>4. ASSUME NEW q \in Tasks PROVE Queued(more, q) <=> q \in S \cup {p}
    BY <1>1, <1>2 DEF Lists, Queued
  <1>5. \A i, j \in 1 .. Len(more) : more[i] = more[j] => i = j
    BY <1>1, <1>2, <1>3 DEF Lists
  <1> QED BY <1>4, <1>5 DEF Lists

\* A step in which one task, which stands in the queue of no facade or leaves the
\* head of one, may go on to the queue of the facade it then has called.
LEMMA MoveFacade ==
  ASSUME Inv, FacadeQueues, NEW p \in Tasks, NEW queues,
         \/ queues = commandLock /\ pc[p] \notin Waiting
         \/ queues = Release(commandLock, on[p]) /\ HoldsCommand(p),
         on'[p] \in Versions,
         \A q \in Tasks : q # p => pc'[q] = pc[q] /\ on'[q] = on[q],
         \/ commandLock' = queues /\ pc'[p] \notin Waiting
         \/ commandLock' = Enqueue(queues, on'[p], p) /\ pc'[p] \in Waiting
  PROVE  FacadeQueues'
  <1>1. commandLock \in Queues /\ on[p] \in Versions
    BY DEF Inv, TypeOK, Queues
  <1>2. queues \in Queues
    BY <1>1, ReleaseType DEF HoldsCommand
  <1>3. ASSUME NEW f \in Versions PROVE Lists(queues[f], Awaiting(on, pc, f) \ {p})
    <2>1. CASE queues = commandLock /\ pc[p] \notin Waiting
      <3>1. Awaiting(on, pc, f) \ {p} = Awaiting(on, pc, f)
        BY <2>1 DEF Awaiting
      <3> QED BY <2>1, <3>1 DEF FacadeQueues
    <2>2. CASE queues = Release(commandLock, on[p]) /\ HoldsCommand(p) /\ f = on[p]
      <3>1. /\ queues[f] = Tail(commandLock[f]) /\ Head(commandLock[f]) = p
            /\ commandLock[f] \in Seq(Tasks) /\ commandLock[f] # <<>>
        BY <1>1, <2>2 DEF Release, Queues, HoldsCommand
      <3> QED BY <3>1, TailLists DEF FacadeQueues
    <2>3. CASE queues = Release(commandLock, on[p]) /\ HoldsCommand(p) /\ f # on[p]
      <3>1. queues[f] = commandLock[f]
        BY <1>1, <2>3 DEF Release, Queues
      <3>2. Awaiting(on, pc, f) \ {p} = Awaiting(on, pc, f)
        BY <2>3 DEF Awaiting
      <3> QED BY <3>1, <3>2 DEF FacadeQueues
    <2> QED BY <2>1, <2>2, <2>3
  <1>4. ASSUME NEW f \in Versions PROVE Lists(commandLock'[f], Awaiting(on', pc', f))
    <2>1. Awaiting(on', pc', f) =
            (Awaiting(on, pc, f) \ {p})
              \cup IF on'[p] = f /\ pc'[p] \in Waiting THEN {p} ELSE {}
      BY DEF Awaiting
    <2>2. CASE commandLock' = queues /\ pc'[p] \notin Waiting
      <3>1. Awaiting(on', pc', f) = Awaiting(on, pc, f) \ {p}
        BY <2>1, <2>2
      <3> QED BY <1>3, <2>2, <3>1
    <2>3. CASE commandLock' = Enqueue(queues, on'[p], p) /\ pc'[p] \in Waiting /\ f # on'[p]
      <3>1. Awaiting(on', pc', f) = Awaiting(on, pc, f) \ {p}
        BY <2>1, <2>3
      <3>2. commandLock'[f] = queues[f]
        BY <1>2, <2>3 DEF Enqueue, Queues
      <3> QED BY <1>3, <3>1, <3>2
    <2>4. CASE commandLock' = Enqueue(queues, on'[p], p) /\ pc'[p] \in Waiting /\ f = on'[p]
      <3>1. Awaiting(on', pc', f) = (Awaiting(on, pc, f) \ {p}) \cup {p}
        BY <2>1, <2>4
      <3>2. commandLock'[f] = Append(queues[f], p) /\ queues[f] \in Seq(Tasks)
        BY <1>2, <2>4 DEF Enqueue, Queues
      <3>3. Lists(queues[f], Awaiting(on, pc, f) \ {p}) /\ p \in Tasks \ (Awaiting(on, pc, f) \ {p})
        BY <1>3
      <3>4. Lists(Append(queues[f], p), (Awaiting(on, pc, f) \ {p}) \cup {p})
        BY <3>2, <3>3, AppendLists
      <3> QED BY <3>1, <3>2, <3>4
    <2> QED BY <2>2, <2>3, <2>4
  <1> QED BY <1>4 DEF FacadeQueues

\* A step in which no task joins or leaves the queue of a facade.
LEMMA KeepFacade ==
  ASSUME FacadeQueues, UNCHANGED <<commandLock, on>>,
         \A q \in Tasks : pc[q] \in Waiting <=> pc'[q] \in Waiting
  PROVE  FacadeQueues'
  <1>1. \A f \in Versions : Awaiting(on', pc', f) = Awaiting(on, pc, f)
    BY DEF Awaiting
  <1> QED BY <1>1 DEF FacadeQueues

\* A step in which one task joins the refresh queue, leaves its head or stays.
LEMMA MoveRefresh ==
  ASSUME Inv, RefreshQueue, NEW p \in Tasks, \A q \in Tasks : q # p => pc'[q] = pc[q],
         \/ /\ refreshLock' = refreshLock
            /\ pc'[p] \in Refreshing <=> pc[p] \in Refreshing
         \/ /\ refreshLock' = Append(refreshLock, p)
            /\ pc[p] \notin Refreshing /\ pc'[p] \in Refreshing
         \/ /\ refreshLock' = Tail(refreshLock) /\ HoldsRefresh(p)
            /\ pc'[p] \notin Refreshing
  PROVE  RefreshQueue'
  <1> DEFINE S(place) == {q \in Tasks : place[q] \in Refreshing}
  <1>1. refreshLock \in Seq(Tasks) /\ Lists(refreshLock, S(pc))
    BY DEF Inv, TypeOK, RefreshQueue
  <1> SUFFICES Lists(refreshLock', S(pc'))
    BY DEF RefreshQueue
  <1>2. CASE refreshLock' = refreshLock /\ (pc'[p] \in Refreshing <=> pc[p] \in Refreshing)
    <2>1. S(pc') = S(pc)
      BY <1>2
    <2> QED BY <1>1, <1>2, <2>1
  <1>3. CASE /\ refreshLock' = Append(refreshLock, p)
             /\ pc[p] \notin Refreshing /\ pc'[p] \in Refreshing
    <2>1. S(pc') = S(pc) \cup {p} /\ p \in Tasks \ S(pc)
      BY <1>3
    <2> HIDE DEF S
    <2> QED BY <1>1, <1>3, <2>1, AppendLists
  <1>4. CASE refreshLock' = Tail(refreshLock) /\ HoldsRefresh(p) /\ pc'[p] \notin Refreshing
    <2>1. S(pc') = S(pc) \ {p} /\ refreshLock # <<>> /\ p = Head(refreshLock)
      BY <1>4 DEF HoldsRefresh
    <2> HIDE DEF S
    <2> QED BY <1>1, <1>4, <2>1, TailLists
  <1> QED BY <1>2, <1>3, <1>4

\* In every step a task is in the queue of the facade it awaits or holds.
LEMMA FacadeStep == Inv /\ Inv' /\ FacadeQueues /\ [Next]_vars => FacadeQueues'
  <1> SUFFICES ASSUME Inv, Inv', FacadeQueues, [Next]_vars PROVE FacadeQueues'
    OBVIOUS
  <1> USE TaskKinds
  <1>1. on' \in [Tasks -> Versions] /\ lock \in Versions
    BY DEF Inv, TypeOK
  <1>2. ASSUME NEW p \in Tasks, NEW place, pc' = [pc EXCEPT ![p] = place],
               UNCHANGED on \/ on' = [on EXCEPT ![p] = on'[p]]
        PROVE  \A q \in Tasks : q # p => pc'[q] = pc[q] /\ on'[q] = on[q]
    BY <1>2 DEF Inv, TypeOK
  <1>3. ASSUME NEW p \in Commands, NEW f \in Versions, NEW queues, Attempt(p, f, queues),
               \/ queues = commandLock /\ pc[p] \notin Waiting
               \/ queues = Release(commandLock, on[p]) /\ HoldsCommand(p)
        PROVE  FacadeQueues'
    <2>1. on'[p] = f /\ pc'[p] = "attempt"
      BY <1>3 DEF Attempt, Inv, TypeOK
    <2>2. \A q \in Tasks : q # p => pc'[q] = pc[q] /\ on'[q] = on[q]
      BY <1>2, <1>3, <2>1 DEF Attempt
    <2> QED BY <1>1, <1>3, <2>1, <2>2, MoveFacade DEF Attempt, Waiting
  <1>4. ASSUME NEW p \in Tasks, NEW place \in Places \ Waiting, pc[p] \notin Waiting,
               pc' = [pc EXCEPT ![p] = place], UNCHANGED <<on, commandLock>>
        PROVE  FacadeQueues'
    <2>1. \A q \in Tasks : q # p => pc'[q] = pc[q] /\ on'[q] = on[q]
      BY <1>2, <1>4
    <2> QED BY <1>1, <1>4, <2>1, MoveFacade
  <1>5. ASSUME NEW p \in Tasks, NEW place \in Places \ Waiting, HoldsCommand(p),
               pc' = [pc EXCEPT ![p] = place], UNCHANGED on,
               commandLock' = Release(commandLock, on[p])
        PROVE  FacadeQueues'
    <2>1. \A q \in Tasks : q # p => pc'[q] = pc[q] /\ on'[q] = on[q]
      BY <1>2, <1>5
    <2>2. pc'[p] = place
      BY <1>5 DEF Inv, TypeOK
    <2> QED BY <1>1, <1>5, <2>1, <2>2, MoveFacade
  <1>6. ASSUME NEW p \in Commands, NEW r, HoldsCommand(p), EndAttempt(p, r)
        PROVE  FacadeQueues'
    <2>1. on'[p] = lock /\ pc'[p] = "closing"
      BY <1>6 DEF EndAttempt, Inv, TypeOK
    <2>2. \A q \in Tasks : q # p => pc'[q] = pc[q] /\ on'[q] = on[q]
      BY <1>2, <1>6, <2>1 DEF EndAttempt
    <2> QED BY <1>1, <1>6, <2>1, <2>2, MoveFacade DEF EndAttempt, Waiting
  <1>7. ASSUME NEW p \in Tasks, NEW place \in Waiting, pc[p] \notin Waiting,
               pc' = [pc EXCEPT ![p] = place], on' = [on EXCEPT ![p] = lock],
               commandLock' = Enqueue(commandLock, lock, p)
        PROVE  FacadeQueues'
    <2>1. on'[p] = lock /\ pc'[p] = place
      BY <1>7 DEF Inv, TypeOK
    <2>2. \A q \in Tasks : q # p => pc'[q] = pc[q] /\ on'[q] = on[q]
      BY <1>2, <1>7, <2>1
    <2> QED BY <1>1, <1>7, <2>1, <2>2, MoveFacade
  <1>8. ASSUME NEW p \in Commands, StartCommand(p) PROVE FacadeQueues'
    <2>1. pc[p] \notin Waiting
      BY <1>8 DEF StartCommand, Waiting
    <2>2. CASE Attempt(p, lock, commandLock)
      BY <1>1, <1>3, <2>1, <2>2
    <2>3. CASE AskRefresh(p) /\ UNCHANGED <<on, attempt, commandLock>>
      BY <1>4, <2>1, <2>3 DEF AskRefresh, Places, Waiting
    <2> QED BY <1>8, <2>2, <2>3 DEF StartCommand
  <1>9. ASSUME NEW p \in Commands, Connect(p) PROVE FacadeQueues'
    <2>1. UNCHANGED <<commandLock, on>>
      BY <1>9 DEF Connect
    <2>2. \A q \in Tasks : pc[q] \in Waiting <=> pc'[q] \in Waiting
      BY <1>9 DEF Connect, Inv, TypeOK, Waiting
    <2> QED BY <2>1, <2>2, KeepFacade
  <1>10. ASSUME NEW p \in Commands, ConnectFails(p) PROVE FacadeQueues'
    <2>1. CASE Return(p, "error") /\ commandLock' = Release(commandLock, lock)
               /\ UNCHANGED on /\ on[p] = lock
      BY <1>5, <1>10, <2>1 DEF ConnectFails, Return, Places, Waiting
    <2>2. CASE EndAttempt(p, "transport")
      BY <1>6, <1>10, <2>2 DEF ConnectFails
    <2> QED BY <1>10, <2>1, <2>2 DEF ConnectFails
  <1>11. ASSUME NEW p \in Commands, NEW r, Run(p, r) PROVE FacadeQueues'
    BY <1>6, <1>11 DEF Run
  <1>12. ASSUME NEW p \in Commands, Disconnect(p) PROVE FacadeQueues'
    <2>1. \E place \in Places \ Waiting : pc' = [pc EXCEPT ![p] = place]
      BY <1>12 DEF Disconnect, Return, AskRefresh, Places, Waiting
    <2> QED BY <1>5, <1>12, <2>1 DEF Disconnect
  <1>13. ASSUME NEW p \in Refreshers, StartRefresh(p) PROVE FacadeQueues'
    BY <1>4, <1>13 DEF StartRefresh, AskRefresh, Places, Waiting
  <1>14. ASSUME NEW p \in Commands \cup Refreshers, NEW queues, Install(p, queues),
                \/ queues = commandLock /\ pc[p] \notin Waiting
                \/ queues = Release(commandLock, on[p]) /\ HoldsCommand(p),
                answer[p] \in Versions
         PROVE  FacadeQueues'
    <2>1. CASE p \in Commands /\ Attempt(p, answer[p], queues)
      BY <1>3, <1>14, <2>1
    <2>2. CASE /\ pc' = [pc EXCEPT ![p] = "idle"]
               /\ commandLock' = queues
               /\ UNCHANGED <<on, attempt>>
      BY <1>4, <1>5, <1>14, <2>2 DEF Places, Waiting
    <2> QED BY <1>14, <2>1, <2>2 DEF Install
  <1>15. ASSUME NEW p \in Commands \cup Refreshers, ReceiveKey(p) PROVE FacadeQueues'
    <2>1. pc[p] \notin Waiting /\ answer[p] \in Versions
      BY <1>15 DEF ReceiveKey, Waiting, Inv, TypeOK
    <2>2. CASE Install(p, commandLock)
      BY <1>14, <2>1, <2>2
    <2>3. CASE ~Install(p, commandLock)
      BY <1>7, <1>15, <2>1, <2>3 DEF ReceiveKey, Waiting
    <2> QED BY <2>2, <2>3
  <1>16. ASSUME NEW p \in Commands \cup Refreshers, Swap(p) PROVE FacadeQueues'
    <2>1. answer[p] \in Versions
      BY <1>16 DEF Swap, Inv, TypeOK, KeyInv, HolderInv
    <2> QED BY <1>14, <1>16, <2>1 DEF Swap
  <1>17. ASSUME NEW p \in Commands \cup Refreshers, FetchFails(p) PROVE FacadeQueues'
    <2>1. pc[p] \notin Waiting
      BY <1>17 DEF FetchFails, Waiting
    <2>2. CASE p \in Commands /\ Attempt(p, lock, commandLock)
      BY <1>1, <1>3, <2>1, <2>2
    <2>3. CASE pc' = [pc EXCEPT ![p] = "idle"] /\ UNCHANGED <<on, commandLock>>
      BY <1>4, <2>1, <2>3 DEF Places, Waiting
    <2> QED BY <1>17, <2>2, <2>3 DEF FetchFails, Return
  <1>18. ASSUME NEW p \in Commands \cup Refreshers, IssueKey(p) PROVE FacadeQueues'
    BY <1>18 DEF IssueKey, locks, FacadeQueues
  <1>19. ASSUME NEW p \in Commands \cup Refreshers, FetchOnClosedClient(p) PROVE FacadeQueues'
    <2>1. pc[p] \notin Waiting
      BY <1>19 DEF FetchOnClosedClient, Waiting
    <2>2. pc' = [pc EXCEPT ![p] = "idle"] /\ UNCHANGED <<on, commandLock>>
      BY <1>19 DEF FetchOnClosedClient, Return
    <2> QED BY <1>4, <2>1, <2>2 DEF Places, Waiting
  <1>20. CASE StartUnload
    <2>1. pc[Unloader] \notin Waiting
      BY <1>20 DEF StartUnload, Loaded, Waiting
    <2>2. CASE pc' = [pc EXCEPT ![Unloader] = "unloaded"] /\ UNCHANGED <<on, commandLock>>
      BY <1>4, <2>1, <2>2 DEF Places, Waiting
    <2>3. CASE /\ pc' = [pc EXCEPT ![Unloader] = "unloading"]
               /\ on' = [on EXCEPT ![Unloader] = lock]
               /\ commandLock' = Enqueue(commandLock, lock, Unloader)
      BY <1>7, <2>1, <2>3 DEF Waiting
    <2> QED BY <1>20, <2>2, <2>3 DEF StartUnload
  <1>21. CASE FinishUnload
    BY <1>5, <1>21 DEF FinishUnload, Places, Waiting
  <1>22. CASE SensorWrites \/ ListenerRuns \/ UNCHANGED vars
    BY <1>22 DEF SensorWrites, ListenerRuns, vars, locks, FacadeQueues
  <1> QED BY <1>8, <1>9, <1>10, <1>11, <1>12, <1>13, <1>15, <1>16, <1>17, <1>18, <1>19,
             <1>20, <1>21, <1>22 DEF Next, RefreshStep, CommandStep, Finished

\* In every step a task is in the refresh queue while it refreshes.
LEMMA RefreshQueueStep == Inv /\ Inv' /\ RefreshQueue /\ [Next]_vars => RefreshQueue'
  <1> SUFFICES ASSUME Inv, Inv', RefreshQueue, [Next]_vars PROVE RefreshQueue'
    OBVIOUS
  <1> USE TaskKinds DEF Refreshing
  <1>1. ASSUME NEW p \in Tasks, NEW place \in Places, pc' = [pc EXCEPT ![p] = place],
               \/ /\ refreshLock' = refreshLock
                  /\ place \in Refreshing <=> pc[p] \in Refreshing
               \/ /\ refreshLock' = Append(refreshLock, p)
                  /\ pc[p] \notin Refreshing /\ place \in Refreshing
               \/ /\ refreshLock' = Tail(refreshLock) /\ HoldsRefresh(p)
                  /\ place \notin Refreshing
        PROVE  RefreshQueue'
    <2>1. pc'[p] = place /\ \A q \in Tasks : q # p => pc'[q] = pc[q]
      BY <1>1 DEF Inv, TypeOK
    <2> QED BY <1>1, <2>1, MoveRefresh
  <1>2. ASSUME UNCHANGED <<refreshLock, pc>> PROVE RefreshQueue'
    BY <1>2 DEF RefreshQueue
  <1>3. ASSUME NEW p \in Tasks, AskRefresh(p), pc[p] \notin Refreshing PROVE RefreshQueue'
    BY <1>1, <1>3 DEF AskRefresh, Places
  <1>4. ASSUME NEW p \in Tasks, NEW place \in Places, pc' = [pc EXCEPT ![p] = place],
               UNCHANGED refreshLock, pc[p] \notin Refreshing, place \notin Refreshing
        PROVE  RefreshQueue'
    BY <1>1, <1>4
  <1>5. ASSUME NEW p \in Tasks, NEW place \in {"idle", "attempt"},
               pc' = [pc EXCEPT ![p] = place],
               refreshLock' = Tail(refreshLock), HoldsRefresh(p)
        PROVE  RefreshQueue'
    BY <1>1, <1>5 DEF Places
  <1>6. ASSUME NEW p \in Commands, StartCommand(p) PROVE RefreshQueue'
    <2>1. CASE Attempt(p, lock, commandLock) /\ UNCHANGED refreshLock
      BY <1>4, <1>6, <2>1 DEF StartCommand, Attempt, Places
    <2>2. CASE AskRefresh(p)
      BY <1>3, <1>6, <2>2 DEF StartCommand
    <2> QED BY <1>6, <2>1, <2>2 DEF StartCommand
  <1>7. ASSUME NEW p \in Commands, Connect(p) PROVE RefreshQueue'
    BY <1>4, <1>7 DEF Connect, Places
  <1>8. ASSUME NEW p \in Commands, ConnectFails(p) PROVE RefreshQueue'
    BY <1>4, <1>8 DEF ConnectFails, Return, EndAttempt, Places
  <1>9. ASSUME NEW p \in Commands, NEW r, Run(p, r) PROVE RefreshQueue'
    BY <1>4, <1>9 DEF Run, EndAttempt, Places
  <1>10. ASSUME NEW p \in Commands, Disconnect(p) PROVE RefreshQueue'
    <2>1. CASE AskRefresh(p)
      BY <1>3, <1>10, <2>1 DEF Disconnect
    <2>2. CASE UNCHANGED refreshLock /\ pc' = [pc EXCEPT ![p] = "idle"]
      BY <1>4, <1>10, <2>2 DEF Disconnect, Places
    <2> QED BY <1>10, <2>1, <2>2 DEF Disconnect, Return
  <1>11. ASSUME NEW p \in Refreshers, StartRefresh(p) PROVE RefreshQueue'
    BY <1>3, <1>11 DEF StartRefresh
  <1>12. ASSUME NEW p \in Commands \cup Refreshers, NEW queues, Install(p, queues),
                HoldsRefresh(p)
         PROVE  RefreshQueue'
    BY <1>5, <1>12 DEF Install, Attempt
  <1>13. ASSUME NEW p \in Commands \cup Refreshers, ReceiveKey(p) PROVE RefreshQueue'
    <2>1. CASE Install(p, commandLock)
      BY <1>12, <1>13, <2>1 DEF ReceiveKey
    <2>2. CASE pc' = [pc EXCEPT ![p] = "swapping"] /\ UNCHANGED refreshLock
      BY <1>1, <1>13, <2>2 DEF ReceiveKey, Places
    <2> QED BY <1>13, <2>1, <2>2 DEF ReceiveKey
  <1>14. ASSUME NEW p \in Commands \cup Refreshers, Swap(p) PROVE RefreshQueue'
    <2>1. HoldsRefresh(p)
      BY <1>14 DEF Swap, Inv, KeyInv, HolderInv
    <2> QED BY <1>12, <1>14, <2>1 DEF Swap
  <1>15. ASSUME NEW p \in Commands \cup Refreshers, FetchFails(p) PROVE RefreshQueue'
    BY <1>5, <1>15 DEF FetchFails, Attempt, Return
  <1>16. ASSUME NEW p \in Commands \cup Refreshers, FetchOnClosedClient(p) PROVE RefreshQueue'
    BY <1>5, <1>16 DEF FetchOnClosedClient, Return
  <1>17. ASSUME NEW p \in Commands \cup Refreshers, IssueKey(p) PROVE RefreshQueue'
    BY <1>2, <1>17 DEF IssueKey, locks
  <1>18. CASE StartUnload
    BY <1>4, <1>18 DEF StartUnload, Loaded, Places
  <1>19. CASE FinishUnload
    BY <1>4, <1>19 DEF FinishUnload, Places
  <1>20. CASE SensorWrites \/ ListenerRuns \/ UNCHANGED vars
    BY <1>2, <1>20 DEF SensorWrites, ListenerRuns, vars, locks
  <1> QED BY <1>6, <1>7, <1>8, <1>9, <1>10, <1>11, <1>13, <1>14, <1>15, <1>16, <1>17, <1>18,
             <1>19, <1>20 DEF Next, RefreshStep, CommandStep, Finished

QueueInv == RefreshQueue /\ FacadeQueues

\* The tasks in the queues are those that await or hold the locks.
LEMMA QueueInvariance == Spec => []QueueInv
  <1>1. Init => QueueInv
    BY DEF Init, QueueInv, RefreshQueue, FacadeQueues, Lists, Queued, Awaiting, Refreshing,
           Waiting
  <1> QED BY <1>1, FacadeStep, RefreshQueueStep, Invariance, PTL DEF Spec, QueueInv

\* A task stands in the queue of a lock exactly while it awaits or holds the lock;
\* none awaits a refresh while it holds or awaits a facade.
THEOREM QueuesFollowTasks == Spec => []QueuedAsAwaited
  <1>1. QueueInv => QueuedAsAwaited
    BY DEF QueueInv, RefreshQueue, FacadeQueues, Lists, Awaiting, QueuedAsAwaited
  <1> QED BY <1>1, QueueInvariance, PTL

\* A task that has the lock it needs for its next step.
CanGoOn(p) ==
  \/ pc[p] = "refresh" /\ HoldsRefresh(p)
  \/ pc[p] \in Waiting /\ HoldsCommand(p)

\* There is no deadlock among the locks: while a task is under way, one of those
\* under way has the lock it needs.
THEOREM NoDeadlock ==
  Spec => []((\E p \in Tasks : pc[p] \notin {"idle", "unloaded"}) => \E q \in Tasks : CanGoOn(q))
  <1>1. Inv /\ QueueInv
          => ((\E p \in Tasks : pc[p] \notin {"idle", "unloaded"}) => \E q \in Tasks : CanGoOn(q))
    <2> SUFFICES ASSUME Inv, QueueInv, NEW p \in Tasks, pc[p] \notin {"idle", "unloaded"}
                 PROVE  \E q \in Tasks : CanGoOn(q)
      OBVIOUS
    <2>1. ASSUME NEW q \in Tasks, pc[q] \in Waiting PROVE \E h \in Tasks : CanGoOn(h)
      <3> DEFINE f == on[q]
                 h == Head(commandLock[f])
      <3>1. /\ f \in Versions /\ commandLock[f] \in Seq(Tasks)
            /\ Lists(commandLock[f], Awaiting(on, pc, f)) /\ q \in Awaiting(on, pc, f)
        BY <2>1 DEF Inv, TypeOK, QueueInv, FacadeQueues, Awaiting
      <3>2. commandLock[f] # <<>> /\ 1 \in 1 .. Len(commandLock[f]) /\ h = commandLock[f][1]
        BY <3>1 DEF Lists, Queued
      <3>3. h \in Tasks /\ h \in Awaiting(on, pc, f)
        BY <3>1, <3>2 DEF Lists, Queued
      <3>4. CanGoOn(h)
        BY <3>2, <3>3 DEF Awaiting, CanGoOn, HoldsCommand
      <3> QED BY <3>3, <3>4
    <2>2. CASE pc[p] = "refresh"
      <3> DEFINE h == Head(refreshLock)
                 S == {q \in Tasks : pc[q] \in Refreshing}
      <3>1. refreshLock \in Seq(Tasks) /\ Lists(refreshLock, S) /\ p \in S
        BY <2>2 DEF Inv, TypeOK, QueueInv, RefreshQueue, Refreshing
      <3>2. refreshLock # <<>> /\ 1 \in 1 .. Len(refreshLock) /\ h = refreshLock[1]
        BY <3>1 DEF Lists, Queued
      <3>3. h \in Tasks /\ h \in S
        BY <3>1, <3>2 DEF Lists, Queued
      <3>4. CASE pc[h] = "refresh"
        BY <3>2, <3>3, <3>4 DEF CanGoOn, HoldsRefresh
      <3>5. CASE pc[h] # "refresh"
        BY <2>1, <3>3, <3>5 DEF Refreshing, Waiting
      <3> QED BY <3>4, <3>5
    <2>3. CASE pc[p] # "refresh"
      <3>1. pc[p] \in Waiting
        BY <2>3 DEF Inv, TypeOK, Places, Waiting
      <3> QED BY <2>1, <3>1
    <2> QED BY <2>2, <2>3
  <1> QED BY <1>1, QueueInvariance, Invariance, PTL

-----------------------------------------------------------------------------
(* A command that runs is left alone.                                      *)

\* A running command has the lock of its facade, and the facade's session is open.
RunningInv == \A p \in Commands : pc[p] = "running" => HoldsCommand(p) /\ session[on[p]]

\* A task that is not running at the end of its step, and that closes no session but
\* that of a facade it has, leaves every running command alone.
LEMMA OthersRunOn ==
  ASSUME TypeOK, RunningInv, NEW p \in Tasks, pc'[p] # "running",
         \A q \in Tasks : q # p => pc'[q] = pc[q] /\ on'[q] = on[q],
         NEW f, NEW queues \in {commandLock, Release(commandLock, on[p])},
         commandLock' \in {queues, Enqueue(queues, f, p)},
         session' \in {session, [session EXCEPT ![on[p]] = FALSE]},
         (queues # commandLock \/ session' # session) => HoldsCommand(p)
  PROVE  RunningInv'
  <1> SUFFICES ASSUME NEW q \in Commands, pc'[q] = "running"
               PROVE  HoldsCommand(q)' /\ session'[on'[q]]
    BY DEF RunningInv
  <1> DEFINE own == on[q]
  <1>1. q \in Tasks /\ q # p /\ on'[q] = own /\ own \in Versions /\ on[p] \in Versions
    BY TaskKinds DEF TypeOK
  <1>2. /\ commandLock \in Queues /\ session \in [Versions -> BOOLEAN]
        /\ commandLock[own] # <<>> /\ Head(commandLock[own]) = q /\ session[own]
    BY <1>1 DEF RunningInv, HoldsCommand, TypeOK, Queues
  <1>3. HoldsCommand(p) => on[p] # own
    BY <1>1, <1>2 DEF HoldsCommand
  <1>4. session'[own]
    BY <1>1, <1>2, <1>3
  <1>5. queues[own] = commandLock[own] /\ own \in DOMAIN queues
    BY <1>1, <1>2, <1>3 DEF Release, Queues
  <1>6. commandLock'[own] \in {commandLock[own], Append(commandLock[own], p)}
    BY <1>5 DEF Enqueue
  <1>7. commandLock'[own] # <<>> /\ Head(commandLock'[own]) = q
    <2>1. commandLock[own] \in Seq(Tasks)
      BY <1>1, <1>2 DEF Queues
    <2> QED BY <1>2, <1>6, <2>1
  <1> QED BY <1>1, <1>4, <1>7 DEF HoldsCommand

\* In every step the commands that run keep their facades and sessions.
LEMMA RunningStep == Inv /\ RunningInv /\ [Next]_vars => RunningInv'
  <1> SUFFICES ASSUME Inv, RunningInv, [Next]_vars PROVE RunningInv'
    OBVIOUS
  <1> USE TaskKinds
  <1>1. TypeOK
    BY DEF Inv
  <1>2. ASSUME NEW p \in Tasks, NEW place \in Places \ {"running"},
               pc' = [pc EXCEPT ![p] = place],
               on' = on \/ (\E f : on' = [on EXCEPT ![p] = f])
        PROVE  pc'[p] # "running" /\ \A q \in Tasks : q # p => pc'[q] = pc[q] /\ on'[q] = on[q]
    BY <1>1, <1>2 DEF TypeOK
  <1>3. ASSUME NEW p \in Tasks, NEW place \in Places \ {"running"}, NEW f,
               pc' = [pc EXCEPT ![p] = place],
               on' = on \/ (\E g : on' = [on EXCEPT ![p] = g]),
               commandLock' \in {commandLock, Enqueue(commandLock, f, p)},
               UNCHANGED session
        PROVE  RunningInv'
    <2>1. pc'[p] # "running" /\ \A q \in Tasks : q # p => pc'[q] = pc[q] /\ on'[q] = on[q]
      BY <1>2, <1>3
    <2> QED BY <1>1, <1>3, <2>1, OthersRunOn
  <1>4. ASSUME NEW p \in Tasks, HoldsCommand(p), NEW place \in Places \ {"running"}, NEW f,
               pc' = [pc EXCEPT ![p] = place],
               on' = on \/ (\E g : on' = [on EXCEPT ![p] = g]),
               \/ commandLock' = Release(commandLock, on[p])
               \/ commandLock' = Enqueue(Release(commandLock, on[p]), f, p),
               session' \in {session, [session EXCEPT ![on[p]] = FALSE]}
        PROVE  RunningInv'
    <2>1. pc'[p] # "running" /\ \A q \in Tasks : q # p => pc'[q] = pc[q] /\ on'[q] = on[q]
      BY <1>2, <1>4
    <2> QED BY <1>1, <1>4, <2>1, OthersRunOn
  <1>5. ASSUME NEW p \in Commands, StartCommand(p) PROVE RunningInv'
    <2>1. CASE Attempt(p, lock, commandLock)
      BY <1>3, <1>5, <2>1 DEF StartCommand, Attempt, Places
    <2>2. CASE AskRefresh(p) /\ UNCHANGED <<on, commandLock>>
      BY <1>3, <1>5, <2>2 DEF StartCommand, AskRefresh, Places
    <2> QED BY <1>5, <2>1, <2>2 DEF StartCommand
  <1>6. ASSUME NEW p \in Commands, Connect(p) PROVE RunningInv'
    <2>1. HoldsCommand(p) /\ UNCHANGED <<commandLock, on>>
      BY <1>6 DEF Connect
    <2>2. \A q \in Tasks : q # p => pc'[q] = pc[q]
      BY <1>1, <1>6 DEF Connect, TypeOK
    <2>3. session'[on[p]] /\ \A f \in Versions : session[f] => session'[f]
      BY <1>1, <1>6 DEF Connect, TypeOK
    <2>4. \A q \in Commands : on[q] \in Versions
      BY <1>1 DEF TypeOK
    <2> QED BY <2>1, <2>2, <2>3, <2>4 DEF RunningInv, HoldsCommand
  <1>7. ASSUME NEW p \in Commands, ConnectFails(p) PROVE RunningInv'
    <2>1. CASE Return(p, "error") /\ commandLock' = Release(commandLock, lock)
               /\ UNCHANGED on /\ on[p] = lock
      BY <1>4, <1>7, <2>1 DEF ConnectFails, Return, Places
    <2>2. CASE EndAttempt(p, "transport")
      BY <1>4, <1>7, <2>2 DEF ConnectFails, EndAttempt, Places
    <2> QED BY <1>7, <2>1, <2>2 DEF ConnectFails
  <1>8. ASSUME NEW p \in Commands, NEW r, Run(p, r) PROVE RunningInv'
    BY <1>4, <1>8 DEF Run, EndAttempt, Places
  <1>9. ASSUME NEW p \in Commands, Disconnect(p) PROVE RunningInv'
    <2>1. \E place \in Places \ {"running"} : pc' = [pc EXCEPT ![p] = place]
      BY <1>9 DEF Disconnect, Return, AskRefresh, Places
    <2> QED BY <1>4, <1>9, <2>1 DEF Disconnect
  <1>10. ASSUME NEW p \in Refreshers, StartRefresh(p) PROVE RunningInv'
    BY <1>3, <1>10 DEF StartRefresh, AskRefresh, Places
  <1>11. ASSUME NEW p \in Commands \cup Refreshers, NEW queues, Install(p, queues)
         PROVE  /\ \E place \in Places \ {"running"} : pc' = [pc EXCEPT ![p] = place]
                /\ on' = on \/ (\E g : on' = [on EXCEPT ![p] = g])
                /\ \E f : commandLock' \in {queues, Enqueue(queues, f, p)}
    BY <1>11 DEF Install, Attempt, Places
  <1>12. ASSUME NEW p \in Commands \cup Refreshers, ReceiveKey(p) PROVE RunningInv'
    <2>1. CASE Install(p, commandLock)
      BY <1>3, <1>11, <1>12, <2>1 DEF ReceiveKey
    <2>2. CASE ~Install(p, commandLock)
      BY <1>3, <1>12, <2>2 DEF ReceiveKey, Places
    <2> QED BY <2>1, <2>2
  <1>13. ASSUME NEW p \in Commands \cup Refreshers, Swap(p) PROVE RunningInv'
    BY <1>4, <1>11, <1>13 DEF Swap
  <1>14. ASSUME NEW p \in Commands \cup Refreshers, FetchFails(p) PROVE RunningInv'
    <2>1. CASE p \in Commands /\ Attempt(p, lock, commandLock)
      BY <1>3, <1>14, <2>1 DEF FetchFails, Attempt, Places
    <2>2. CASE pc' = [pc EXCEPT ![p] = "idle"] /\ UNCHANGED <<on, commandLock>>
      BY <1>3, <1>14, <2>2 DEF FetchFails, Places
    <2> QED BY <1>14, <2>1, <2>2 DEF FetchFails, Return
  <1>15. ASSUME NEW p \in Commands \cup Refreshers, FetchOnClosedClient(p) PROVE RunningInv'
    BY <1>3, <1>15 DEF FetchOnClosedClient, Return, Places
  <1>16. CASE StartUnload
    BY <1>3, <1>16 DEF StartUnload, Places
  <1>17. CASE FinishUnload
    BY <1>4, <1>17 DEF FinishUnload, Places
  <1>18. ASSUME UNCHANGED <<pc, on, commandLock, session>> PROVE RunningInv'
    BY <1>18 DEF RunningInv, HoldsCommand
  <1>19. ASSUME NEW p \in Commands \cup Refreshers, IssueKey(p) PROVE RunningInv'
    BY <1>18, <1>19 DEF IssueKey, locks
  <1>20. CASE SensorWrites \/ ListenerRuns \/ UNCHANGED vars
    BY <1>18, <1>20 DEF SensorWrites, ListenerRuns, vars, locks
  <1> QED BY <1>5, <1>6, <1>7, <1>8, <1>9, <1>10, <1>12, <1>13, <1>14, <1>15, <1>16, <1>17,
             <1>19, <1>20 DEF Next, RefreshStep, CommandStep, Finished

\* No disconnect cuts a running command short, whoever asked for it: that of another
\* command, of set_key or of the unload waits for the facade the command is on.
THEOREM CommandUndisturbed == Spec => []RunningInv
  <1>1. Init => RunningInv
    BY TaskKinds DEF Init, RunningInv
  <1> QED BY <1>1, RunningStep, Invariance, PTL DEF Spec

\* Two commands of one lock run at once only on different facades, so that at least one
\* of them is on a facade that set_key has replaced since its call (control.py:238).
THEOREM OneCommandPerFacade ==
  Spec => [](\A p, q \in Commands :
               pc[p] = "running" /\ pc[q] = "running" /\ p # q => on[p] # on[q])
  <1>1. RunningInv => \A p, q \in Commands :
               pc[p] = "running" /\ pc[q] = "running" /\ p # q => on[p] # on[q]
    BY DEF RunningInv, HoldsCommand
  <1> QED BY <1>1, CommandUndisturbed, PTL

-----------------------------------------------------------------------------
(* Refreshing implements the key service.                                  *)

\* The response stores a newer key, alone or together with its installation.
LEMMA ReceiveKeyStores ==
  ASSUME Inv, NEW p \in Commands \cup Refreshers, ReceiveKey(p)
  PROVE  KeyService!Store
  <1> USE TaskKinds
  <1>1. /\ answer[p] \in Versions /\ lock < answer[p] /\ answer[p] <= cloud
        /\ \A q \in Tasks : q # p => pc[q] # "swapping"
    BY HolderFacts DEF ReceiveKey
  <1>2. lock = cache
    BY <1>1 DEF Inv, KeyInv, KeyAgreement, ReceiveKey
  <1>3. cloud \in Nat /\ cache \in Nat /\ answer[p] \in (cache + 1) .. cloud
    BY <1>1, <1>2 DEF Inv, TypeOK, Versions
  <1>4. cache' = answer[p] /\ cloud' = cloud /\ lock' \in {lock, answer[p]}
    BY DEF ReceiveKey, Install
  <1> QED BY <1>2, <1>3, <1>4 DEF KeyService!Store

\* Swap installs the key that is stored.
LEMMA SwapInstalls ==
  ASSUME Inv, NEW p \in Commands \cup Refreshers, Swap(p)
  PROVE  KeyService!Install
  <1>1. answer[p] = cache /\ lock < cache
    BY TaskKinds DEF Inv, KeyInv, HolderInv, Swap
  <1>2. lock' = answer[p] /\ cache' = cache /\ cloud' = cloud
    BY DEF Swap, Install
  <1>3. lock # cache
    BY <1>1 DEF Inv, TypeOK, Versions
  <1> QED BY <1>1, <1>2, <1>3 DEF KeyService!Install

\* Every step is a step of the key service or leaves the keys alone.
LEMMA KeyServiceStep ==
  ASSUME Inv, [Next]_vars
  PROVE  [KeyService!Next]_(KeyService!vars)
  <1> USE DEF KeyService!Next, KeyService!vars
  <1>1. ASSUME NEW p \in Commands \cup Refreshers, RefreshStep(p)
        PROVE  [KeyService!Next]_(KeyService!vars)
    <2>1. CASE IssueKey(p)
      BY <2>1 DEF IssueKey, KeyService!Issue
    <2>2. CASE ReceiveKey(p)
      BY <2>2, ReceiveKeyStores
    <2>3. CASE Swap(p)
      BY <2>3, SwapInstalls
    <2>4. CASE FetchFails(p) \/ FetchOnClosedClient(p)
      BY <2>4 DEF FetchFails, FetchOnClosedClient, keys
    <2> QED BY <1>1, <2>1, <2>2, <2>3, <2>4 DEF RefreshStep
  <1>2. ASSUME NEW p \in Commands, StartCommand(p) \/ CommandStep(p) PROVE UNCHANGED keys
    BY <1>2 DEF StartCommand, CommandStep, Connect, ConnectFails, Run, Disconnect, keys
  <1>3. ASSUME NEW p \in Refreshers, StartRefresh(p) PROVE UNCHANGED keys
    BY <1>3 DEF StartRefresh, keys
  <1>4. CASE StartUnload \/ FinishUnload \/ SensorWrites \/ ListenerRuns
    BY <1>4 DEF StartUnload, FinishUnload, SensorWrites, ListenerRuns, keys
  <1>5. CASE UNCHANGED vars
    BY <1>5 DEF vars, keys
  <1> QED BY <1>1, <1>2, <1>3, <1>4, <1>5 DEF Next, Finished, keys

\* The control and the key manager together implement the key service.
THEOREM Refinement == Spec => RefreshIsKeyService
  <1>1. Init => KeyService!Init
    BY DEF Init, KeyService!Init
  <1>2. Inv /\ [Next]_vars => [KeyService!Next]_(KeyService!vars)
    BY KeyServiceStep
  <1> QED BY <1>1, <1>2, Invariance, PTL DEF Spec, RefreshIsKeyService, KeyService!Spec

\* Neither the cached key nor the facade's ever goes back to an older one.
THEOREM KeysOnlyAdvance == Spec => KeyNeverGoesBack
  <1>1. Inv /\ Inv' /\ [Next]_vars => [cache' >= cache /\ lock' >= lock]_vars
    <2> SUFFICES ASSUME Inv, Inv', [Next]_vars PROVE cache' >= cache /\ lock' >= lock
      OBVIOUS
    <2>1. /\ cache \in Nat /\ lock \in Nat /\ lock <= cache
          /\ cache' \in Nat /\ lock' \in Nat /\ cloud \in Nat
      BY DEF Inv, TypeOK, KeyInv, Versions
    <2>2. [KeyService!Next]_(KeyService!vars)
      BY KeyServiceStep
    <2> QED BY <2>1, <2>2 DEF KeyService!Next, KeyService!vars, KeyService!Issue,
          KeyService!Store, KeyService!Install
  <1> QED BY <1>1, Invariance, PTL DEF Spec, KeyNeverGoesBack
=============================================================================
