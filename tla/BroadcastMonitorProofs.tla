----------------------- MODULE BroadcastMonitorProofs -----------------------
(***************************************************************************)
(* Theorems about the broadcast monitor, for every set of devices, every   *)
(* modulus of the counter and every timing, and their proofs.              *)
(***************************************************************************)
EXTENDS BroadcastMonitor, DeviceStateProofs

-----------------------------------------------------------------------------
(* The operators on a device's state.                                      *)

\* None and Unavailable are no values of anything else.
LEMMA NoneFacts ==
  /\ None \notin Int /\ None \notin BOOLEAN
  /\ None \notin Payloads /\ None \notin Advertisements
  /\ None \notin SettingValues
  /\ Unavailable \notin Int /\ Unavailable \notin BOOLEAN /\ Unavailable # None
  BY NoneAssumption, NoReportAssumption, UnavailableAssumption

\* The periods of the monitor are positive.
LEMMA TimeFacts ==
  /\ Timeout \in Nat /\ Timeout > 0 /\ StaleEvery \in Nat /\ StaleEvery > 0
  /\ MaxAge \in Nat /\ MaxAge = Timeout + StaleEvery
  BY TimeoutAssumption, MonitorAssumption

\* A tick makes an age older, up to MaxAge.
LEMMA OlderAgeType ==
  ASSUME NEW age \in Ages
  PROVE  /\ OlderAge(age) \in Ages
         /\ age = None <=> OlderAge(age) = None
         /\ age # None => OlderAge(age) = IF age = MaxAge THEN MaxAge ELSE age + 1
  BY TimeFacts, NoneFacts DEF OlderAge, Ages

\* What the entities of a state show.
LEMMA ViewType ==
  ASSUME NEW st \in States
  PROVE  View(st) \in Views
  <1>1. LockView(st) \in BOOLEAN \cup {None, Unavailable}
    BY DEF LockView, IsLocked, States, Payloads
  <1>2. SignalView(st) \in (0 .. 100) \cup {None, Unavailable}
    BY PercentType, RssisAssumption DEF SignalView, States
  <1>3. ReportView(st) \in
          [unlocked: BOOLEAN, flags: SUBSET SettingNames, counter: 0 .. Modulus - 1]
             \cup {None, Unavailable}
    <2>1. CASE ~IsFresh(st) \/ st.report = None
      BY <2>1 DEF ReportView
    <2>2. CASE IsFresh(st) /\ st.report # None
      <3>1. st.report \in Payloads
        BY <2>2 DEF States
      <3>2. Counter(st.report) \in 0 .. Modulus - 1
        BY <3>1, ModulusAssumption DEF Counter, Payloads
      <3> QED BY <2>2, <3>1, <3>2 DEF ReportView, Payloads
    <2> QED BY <2>1, <2>2
  <1>4. ButtonView(st) \in {None, Unavailable}
    BY DEF ButtonView
  <1> QED BY <1>1, <1>2, <1>3, <1>4 DEF View, Views

-----------------------------------------------------------------------------
(* Type correctness.                                                       *)

\* What is on the air are payloads,
LEMMA AirTypes ==
  ASSUME TypeOK, NEW s \in Serials, NEW i \in 1 .. Len(air[s])
  PROVE  air[s][i] \in Payloads
  BY DEF TypeOK

\* ... the newest among them,
LEMMA NewestType ==
  ASSUME TypeOK, NEW s \in Serials
  PROVE  Newest(s) \in Payloads
  <1>1. Len(air[s]) \in 1 .. Len(air[s])
    BY DEF TypeOK
  <1> QED BY <1>1, AirTypes DEF Newest

\* ... also after the lock has regenerated its payload.
LEMMA BroadcastType ==
  ASSUME TypeOK, NEW s \in Serials, NEW payload \in Payloads, Broadcast(s, payload)
  PROVE  TypeOK'
  <1> DEFINE kept == IF Len(air[s]) > Window THEN Tail(air[s]) ELSE air[s]
  <1>1. /\ kept \in Seq(Payloads)
        /\ Len(kept) \in 0 .. Window
    BY MonitorAssumption DEF TypeOK
  <1>2. air' = [air EXCEPT ![s] = Append(kept, payload)]
    BY DEF Broadcast
  <1> HIDE DEF kept
  <1>3. /\ Append(kept, payload) \in Seq(Payloads)
        /\ Len(Append(kept, payload)) \in 1 .. Window + 1
    BY <1>1, MonitorAssumption
  <1>4. /\ air' \in [Serials -> Seq(Payloads)]
        /\ \A r \in Serials : Len(air'[r]) \in 1 .. Window + 1
    BY <1>2, <1>3 DEF TypeOK
  <1> QED BY <1>4 DEF Broadcast, TypeOK, timers, past

\* A scanner hears one of the payloads on the air.
LEMMA AdvertisementTypes ==
  ASSUME TypeOK, NEW s \in Serials, ReceiveAny(s)
  PROVE  \E ad \in Advertisements :
           /\ Receive(s, ad)
           /\ \E i \in 1 .. Len(air[s]) : ad.payload = air[s][i]
  BY AirTypes DEF ReceiveAny, Advertisements

\* What the handler does with a payload it has decoded keeps the types,
LEMMA AcceptType ==
  ASSUME TypeOK, NEW s \in Serials, NEW ad \in Advertisements, Accept(s, ad)
  PROVE  /\ state' \in [Serials -> States]
         /\ newInfo' \in [Serials -> BOOLEAN]
         /\ unavailable' \in [Serials -> BOOLEAN]
         /\ revived' \in [Serials -> BOOLEAN]
         /\ undecoded' \in [Serials -> BOOLEAN]
         /\ notified' \in [Serials -> BOOLEAN]
         /\ writes' \in [Serials -> BOOLEAN]
  <1>1. state' \in [Serials -> States]
    BY AcceptedType DEF Accept, TypeOK
  <1>2. SyncedAvailability(s, state'[s]) \in BOOLEAN
    BY DEF SyncedAvailability
  <1>3. unavailable' \in [Serials -> BOOLEAN]
    BY <1>2 DEF Accept, TypeOK
  <1>4. newInfo' \in [Serials -> BOOLEAN]
    BY DEF Accept, TypeOK
  <1>5. revived' \in [Serials -> BOOLEAN] /\ undecoded' \in [Serials -> BOOLEAN]
    BY DEF Accept, TypeOK
  <1>6. notified' \in [Serials -> BOOLEAN] /\ writes' \in [Serials -> BOOLEAN]
    BY DEF Accept, TypeOK
  <1> QED BY <1>1, <1>3, <1>4, <1>5, <1>6

\* ... as does everything it does with an advertisement.
LEMMA ReceiveType ==
  ASSUME TypeOK, NEW s \in Serials, NEW ad \in Advertisements, Receive(s, ad)
  PROVE  TypeOK'
  <1>1. history' \in [Serials -> Advertisements \cup {None}]
    BY DEF Receive, TypeOK
  <1>2. validAge' \in [Serials -> Ages]
    <2>1. 0 \in Ages
      BY TimeFacts DEF Ages
    <2> QED BY <2>1 DEF Receive, TypeOK
  <1>3. /\ state' \in [Serials -> States]
        /\ newInfo' \in [Serials -> BOOLEAN]
        /\ unavailable' \in [Serials -> BOOLEAN]
        /\ revived' \in [Serials -> BOOLEAN]
        /\ undecoded' \in [Serials -> BOOLEAN]
        /\ notified' \in [Serials -> BOOLEAN]
        /\ writes' \in [Serials -> BOOLEAN]
    <2>1. CASE Accept(s, ad)
      BY <2>1, AcceptType
    <2>2. CASE /\ newInfo' = [newInfo EXCEPT ![s] = TRUE]
               /\ undecoded' = [undecoded EXCEPT ![s] = @ \/ ~Valid(s, ad)]
               /\ UNCHANGED <<state, notified, unavailable, writes, revived>>
      BY <2>2 DEF TypeOK, Valid
    <2> QED BY <2>1, <2>2 DEF Receive
  <1>4. UNCHANGED <<air, keys, uptime, phase, sinceCheck, sincePoll, shown>>
    BY DEF Receive, timers
  <1> QED BY <1>1, <1>2, <1>3, <1>4 DEF TypeOK

\* The poll finds an advertisement where it looks for one.
HistoryInv == \A s \in Serials : newInfo[s] => history[s] # None

\* A device known to the scanners has a last advertisement.
LEMMA ReceiveHistory ==
  ASSUME TypeOK, HistoryInv, NEW s \in Serials, NEW ad \in Advertisements, Receive(s, ad)
  PROVE  HistoryInv'
  <1>1. ad # None
    BY NoneFacts
  <1> QED BY <1>1 DEF Receive, Accept, HistoryInv, TypeOK

\* The poll keeps the types,
LEMMA RefreshStatesType ==
  ASSUME TypeOK, HistoryInv, RefreshStates
  PROVE  TypeOK' /\ HistoryInv'
  <1> DEFINE polled == {s \in Serials : state[s].address /\ newInfo[s]}
  <1>1. \A s \in polled : history[s] \in Advertisements
    BY DEF TypeOK, HistoryInv
  <1>2. state' = [s \in Serials |->
                    IF s \in polled THEN Seen(state[s], history[s]) ELSE state[s]]
    BY DEF RefreshStates
  <1>3. /\ newInfo' = [s \in Serials |-> newInfo[s] /\ s \notin polled]
        /\ unavailable' = [s \in Serials |->
                             IF s \in polled THEN SyncedAvailability(s, state'[s])
                             ELSE unavailable[s]]
        /\ writes' = [s \in Serials |->
                        writes[s] \/ (s \in polled /\ SignalChanged(state[s], history[s]))]
        /\ revived' = [s \in Serials |->
                         revived[s] \/ (s \in polled /\ ~IsFresh(state[s]))]
        /\ sincePoll' = 0
        /\ UNCHANGED <<air, history, keys, notified, uptime, phase, sinceCheck, shown,
                       validAge, undecoded>>
    BY DEF RefreshStates
  <1> HIDE DEF polled
  <1>4. state' \in [Serials -> States]
    BY <1>1, <1>2, SeenType DEF TypeOK
  <1>5. \A s \in Serials : SyncedAvailability(s, state'[s]) \in BOOLEAN
    BY DEF SyncedAvailability
  <1>6. unavailable' \in [Serials -> BOOLEAN]
    BY <1>3, <1>5 DEF TypeOK
  <1>7. /\ newInfo' \in [Serials -> BOOLEAN] /\ writes' \in [Serials -> BOOLEAN]
        /\ revived' \in [Serials -> BOOLEAN]
    BY <1>3
  <1>8. HistoryInv'
    BY <1>3 DEF HistoryInv
  <1> QED BY <1>3, <1>4, <1>6, <1>7, <1>8 DEF TypeOK

\* ... the availability check does,
LEMMA CheckStaleType ==
  ASSUME TypeOK, CheckStale
  PROVE  TypeOK'
  <1>1. \A s \in Serials : SyncedAvailability(s, state[s]) \in BOOLEAN
    BY DEF SyncedAvailability
  <1>2. /\ unavailable' \in [Serials -> BOOLEAN]
        /\ notified' \in [Serials -> BOOLEAN]
        /\ writes' \in [Serials -> BOOLEAN]
    BY <1>1 DEF CheckStale
  <1>3. sinceCheck' \in 0 .. StaleEvery
    BY TimeFacts DEF CheckStale
  <1>4. UNCHANGED <<air, history, newInfo, keys, state, uptime, phase, sincePoll,
                    shown, validAge, revived, undecoded>>
    BY DEF CheckStale, past
  <1> QED BY <1>2, <1>3, <1>4 DEF TypeOK

\* A state a tick later is a state.
LEMMA AgedType ==
  ASSUME NEW st \in States
  PROVE  [st EXCEPT !.age = OlderAge(@)] \in States
  <1>1. st.age \in Ages
    BY DEF States, Ages
  <1>2. OlderAge(st.age) \in Ages
    BY <1>1, OlderAgeType
  <1> QED BY <1>2 DEF States, Ages

\* ... and the passing of time.
LEMMA TickType ==
  ASSUME TypeOK, Tick
  PROVE  TypeOK'
  <1>1. state' \in [Serials -> States]
    <2>1. \A s \in Serials : [state[s] EXCEPT !.age = OlderAge(@)] \in States
      BY AgedType DEF TypeOK
    <2> QED BY <2>1 DEF Tick
  <1>2. validAge' \in [Serials -> Ages] /\ uptime' \in Ages
    BY OlderAgeType DEF Tick, TypeOK
  <1>3. sinceCheck' \in 0 .. StaleEvery /\ sincePoll' \in 0 .. 1
    BY TimeFacts DEF Tick, TypeOK
  <1>4. UNCHANGED <<air, history, newInfo, keys, notified, unavailable, phase, writes,
                    shown, revived, undecoded>>
    BY DEF Tick
  <1> QED BY <1>1, <1>2, <1>3, <1>4 DEF TypeOK

\* The lock entity alone may write its state.
LEMMA LockShownType ==
  ASSUME NEW view \in Views, NEW lock \in BOOLEAN \cup {None, Unavailable}
  PROVE  [view EXCEPT !.lock = lock] \in Views
  BY DEF Views

\* A state with an optimistic lock state is a state.
LEMMA PendingType ==
  ASSUME NEW st \in States, NEW locked \in BOOLEAN
  PROVE  [st EXCEPT !.pending = locked] \in States
  BY DEF States

\* A state with other settings is a state.
LEMMA SettingsType ==
  ASSUME NEW st \in States, NEW values \in [SettingNames -> SettingValues]
  PROVE  ApplySettings(st, values) \in States
  <1>1. values \in [SettingNames -> SettingValues \cup {None}]
    OBVIOUS
  <1> QED BY <1>1 DEF ApplySettings, States

\* The steps that change one or two variables.
LEMMA SmallSteps ==
  ASSUME TypeOK, NEW s \in Serials,
         \/ RefreshKey(s) \/ Forget(s) \/ WriteEntities(s)
         \/ \E locked \in BOOLEAN : CommandSucceeded(s, locked)
         \/ \E values \in [SettingNames -> SettingValues] : SettingsVerified(s, values)
  PROVE  TypeOK'
  <1>1. CASE RefreshKey(s)
    <2>1. keys' \in [Serials -> Keys]
      BY <1>1, NewestType DEF RefreshKey, TypeOK, Payloads
    <2> QED BY <1>1, <2>1 DEF RefreshKey, TypeOK, timers, past
  <1>2. CASE Forget(s)
    BY <1>2 DEF Forget, TypeOK, timers, past
  <1>3. CASE WriteEntities(s)
    <2>1. shown' \in [Serials -> Views]
      BY <1>3, ViewType DEF WriteEntities, TypeOK
    <2> QED BY <1>3, <2>1 DEF WriteEntities, TypeOK, timers, past
  <1>4. ASSUME NEW locked \in BOOLEAN, CommandSucceeded(s, locked)
        PROVE  TypeOK'
    <2>0. [state[s] EXCEPT !.pending = locked] \in States
      BY PendingType DEF TypeOK
    <2>1. state' \in [Serials -> States]
      BY <1>4, <2>0 DEF CommandSucceeded, TypeOK
    <2>2. LockView(state'[s]) \in BOOLEAN \cup {None, Unavailable}
      BY <2>1 DEF LockView, IsLocked, States, Payloads
    <2>3. [shown[s] EXCEPT !.lock = LockView(state'[s])] \in Views
      BY <2>2, LockShownType DEF TypeOK
    <2>4. shown' \in [Serials -> Views]
      BY <1>4, <2>3 DEF CommandSucceeded, TypeOK
    <2> QED BY <1>4, <2>1, <2>4 DEF CommandSucceeded, TypeOK, timers, past
  <1>5. ASSUME NEW values \in [SettingNames -> SettingValues], SettingsVerified(s, values)
        PROVE  TypeOK'
    <2>0. ApplySettings(state[s], values) \in States
      BY SettingsType DEF TypeOK
    <2>1. state' \in [Serials -> States]
      BY <1>5, <2>0 DEF SettingsVerified, TypeOK
    <2> QED BY <1>5, <2>1 DEF SettingsVerified, TypeOK, timers, past
  <1> QED BY <1>1, <1>2, <1>3, <1>4, <1>5

\* A payload under another key is the next payload.
LEMMA RekeyedType ==
  ASSUME NEW payload \in Payloads, NEW key \in Keys
  PROVE  /\ [payload EXCEPT !.gen = @ + 1, !.key = key] \in Payloads
         /\ [payload EXCEPT !.gen = @ + 1, !.key = key].gen = payload.gen + 1
  <1>1. payload.gen + 1 \in Nat
    BY DEF Payloads
  <1> QED BY <1>1 DEF Payloads

\* The payloads a lock goes on to broadcast.
LEMMA NewPayloads ==
  ASSUME TypeOK, NEW s \in Serials, Regenerate(s) \/ Rekey(s)
  PROVE  \E payload \in Payloads :
           /\ Broadcast(s, payload)
           /\ MayRegenerate(s)
           /\ payload.gen = Newest(s).gen + 1
  <1>1. Newest(s) \in Payloads
    BY NewestType
  <1>2. CASE Regenerate(s)
    BY <1>1, <1>2 DEF Regenerate, Payloads
  <1>3. CASE Rekey(s)
    <2>1. PICK key \in Keys :
            Broadcast(s, [Newest(s) EXCEPT !.gen = @ + 1, !.key = key])
      BY <1>3 DEF Rekey
    <2>2. /\ [Newest(s) EXCEPT !.gen = @ + 1, !.key = key] \in Payloads
          /\ [Newest(s) EXCEPT !.gen = @ + 1, !.key = key].gen = Newest(s).gen + 1
      BY <1>1, RekeyedType
    <2> QED BY <1>3, <2>1, <2>2 DEF Rekey
  <1> QED BY <1>2, <1>3

\* Every step keeps the types and the scanners' history.
LEMMA StepTypes == TypeOK /\ HistoryInv /\ [Next]_vars => TypeOK' /\ HistoryInv'
  <1> SUFFICES ASSUME TypeOK, HistoryInv, [Next]_vars
               PROVE  TypeOK' /\ HistoryInv'
    OBVIOUS
  <1>1. ASSUME NEW s \in Serials, Regenerate(s) \/ Rekey(s)
        PROVE  TypeOK' /\ HistoryInv'
    <2>1. PICK payload \in Payloads : Broadcast(s, payload)
      BY <1>1, NewPayloads
    <2> QED BY <2>1, BroadcastType DEF Broadcast, HistoryInv
  <1>2. ASSUME NEW s \in Serials, ReceiveAny(s)
        PROVE  TypeOK' /\ HistoryInv'
    BY <1>2, AdvertisementTypes, ReceiveType, ReceiveHistory
  <1>3. ASSUME NEW s \in Serials, RefreshKey(s) \/ Forget(s) \/ WriteEntities(s)
        PROVE  TypeOK' /\ HistoryInv'
    <2>1. TypeOK'
      BY <1>3, SmallSteps
    <2>2. HistoryInv'
      BY <1>3 DEF RefreshKey, Forget, WriteEntities, HistoryInv, TypeOK
    <2> QED BY <2>1, <2>2
  <1>4. ASSUME NEW s \in Serials, NEW locked \in BOOLEAN, CommandSucceeded(s, locked)
        PROVE  TypeOK' /\ HistoryInv'
    BY <1>4, SmallSteps DEF CommandSucceeded, HistoryInv
  <1>5. ASSUME NEW s \in Serials, NEW values \in [SettingNames -> SettingValues],
               SettingsVerified(s, values)
        PROVE  TypeOK' /\ HistoryInv'
    BY <1>5, SmallSteps DEF SettingsVerified, HistoryInv
  <1>6. CASE RefreshStates
    BY <1>6, RefreshStatesType
  <1>7. CASE CheckStale
    BY <1>7, CheckStaleType DEF CheckStale, HistoryInv
  <1>8. CASE Tick
    BY <1>8, TickType DEF Tick, HistoryInv
  <1>9. CASE Stop
    BY <1>9 DEF Stop, TypeOK, HistoryInv, timers, past
  <1>10. CASE UNCHANGED vars
    BY <1>10 DEF vars, TypeOK, HistoryInv, timers, past
  <1> QED BY <1>1, <1>2, <1>3, <1>4, <1>5, <1>6, <1>7, <1>8, <1>9, <1>10
          DEF Next, MonitorStep, Stopped

\* They hold at the start.
LEMMA InitTypes == Init => TypeOK /\ HistoryInv
  <1> SUFFICES ASSUME Init PROVE TypeOK /\ HistoryInv
    OBVIOUS
  <1>1. PICK locked \in [Serials -> BOOLEAN], key \in [Serials -> Keys] :
          /\ air = [s \in Serials |->
                      <<[gen |-> FirstGen, locked |-> locked[s], flags |-> {}, key |-> key[s]]>>]
          /\ keys = key
    BY DEF Init
  <1>2. \A s \in Serials :
          [gen |-> FirstGen, locked |-> locked[s], flags |-> {}, key |-> key[s]] \in Payloads
    BY MonitorAssumption DEF Payloads
  <1>3. /\ air \in [Serials -> Seq(Payloads)]
        /\ \A s \in Serials : Len(air[s]) \in 1 .. Window + 1
    BY <1>1, <1>2, MonitorAssumption
  <1>4. shown \in [Serials -> Views] /\ state \in [Serials -> States]
    BY NewStateType, ViewType DEF Init
  <1>5. uptime \in Ages /\ validAge \in [Serials -> Ages]
    BY TimeFacts DEF Init, Ages
  <1>6. sinceCheck \in 0 .. StaleEvery /\ sincePoll \in 0 .. 1
    BY TimeFacts DEF Init
  <1> QED BY <1>1, <1>3, <1>4, <1>5, <1>6 DEF Init, TypeOK, HistoryInv

\* TypeOK: the monitor's state is well typed in every reachable state, for any set
\* of devices and any timing; what the entities show has the range of its entity.
THEOREM TypeCorrect == Spec => []TypeOK
  <1>1. Spec => [](TypeOK /\ HistoryInv)
    BY InitTypes, StepTypes, PTL DEF Spec
  <1> QED BY <1>1, PTL

-----------------------------------------------------------------------------
(* What the entities show and what the log says of one device.             *)

\* Whoever has been heard has left its address.
AddressInv(s) == state[s].age # None => state[s].address

ShownInv(s) ==
  ~writes[s] => /\ IsFresh(state[s]) => shown[s] = View(state[s])
                /\ shown[s].button = ButtonView(state[s])

\* The check marks the device when it has been silent for Timeout; that much
\* and the ticks since the check later, it is marked.
Silent(s) ==
  \/ state[s].age # None /\ state[s].age >= Timeout + sinceCheck
  \/ state[s].age = None /\ uptime # None /\ uptime >= Timeout + sinceCheck

LogInv(s) ==
  /\ unavailable[s] => /\ ~IsFresh(state[s])
                       /\ state[s].age = None => uptime # None /\ uptime >= Timeout
  /\ Silent(s) => unavailable[s]

\* notified is what lets the check write a stale device: an advertisement that
\* makes it fresh sets it, the poll does not.
RevivedInv(s) ==
  /\ state[s].age # None /\ state[s].age >= Timeout + sinceCheck => ~notified[s]
  /\ IsFresh(state[s]) /\ ~revived[s] => notified[s]
  /\ ~IsFresh(state[s]) /\ ~revived[s] /\ ~notified[s] /\ ~writes[s]
       => shown[s] = View(state[s])

DeviceInv(s) == AddressInv(s) /\ ShownInv(s) /\ LogInv(s) /\ RevivedInv(s)

\* The view depends on these fields only, and of a silent device on the address.
LEMMA SameView ==
  ASSUME NEW old, NEW new, IsFresh(old) = IsFresh(new), old.address = new.address,
         \/ ~IsFresh(old)
         \/ /\ old.rssi = new.rssi /\ old.report = new.report
            /\ old.pending = new.pending
  PROVE  View(old) = View(new)
  BY DEF View, LockView, SignalView, ReportView, ButtonView, IsLocked

\* What a view is made of.
LEMMA ViewFields ==
  ASSUME NEW st
  PROVE  /\ View(st).lock = LockView(st)
         /\ View(st).button = ButtonView(st)
         /\ \A view \in Views : [view EXCEPT !.lock = LockView(st)].button = view.button
  BY DEF View, Views

\* A fresh device has been heard within the timeout.
LEMMA FreshFacts ==
  ASSUME NEW st, IsFresh(st)
  PROVE  st.age # None /\ st.age < Timeout
  BY DEF IsFresh

\* A step that leaves a device alone.
LEMMA Untouched ==
  ASSUME NEW s \in Serials, DeviceInv(s),
         state'[s] = state[s], shown'[s] = shown[s], writes'[s] = writes[s],
         notified'[s] = notified[s], unavailable'[s] = unavailable[s],
         revived'[s] = revived[s], sinceCheck' = sinceCheck, uptime' = uptime
  PROVE  DeviceInv(s)'
  BY DEF DeviceInv, AddressInv, ShownInv, LogInv, Silent, RevivedInv

\* An advertisement that changes nothing on display finds the device fresh, with
\* this signal and a report that stays.
LEMMA AcceptDevice ==
  ASSUME TypeOK, NEW s \in Serials, NEW ad \in Advertisements, Accept(s, ad),
         DeviceInv(s), UNCHANGED <<shown, sinceCheck, uptime>>
  PROVE  DeviceInv(s)'
  <1>1. state'[s] = Accepted(state[s], ad) /\ state[s] \in States
    BY DEF Accept, TypeOK
  <1>2. /\ state'[s].age = 0 /\ state'[s].address = TRUE
        /\ IsFresh(state'[s])
    <2>1. \A st \in States : Accepted(st, ad).age = 0 /\ Accepted(st, ad).address = TRUE
      BY AcceptedFields
    <2>2. state'[s].age = 0 /\ state'[s].address = TRUE
      BY <1>1, <2>1
    <2> QED BY <2>2, TimeFacts, NoneFacts DEF IsFresh
  <1>3. unavailable'[s] = FALSE
    BY <1>2 DEF Accept, SyncedAvailability, TypeOK
  <1>4. ~Silent(s)'
    BY <1>2, TimeFacts, NoneFacts DEF Silent, TypeOK
  <1>5. revived'[s] = (revived[s] /\ IsFresh(state[s]))
    BY DEF Accept, TypeOK
  <1>6. CASE ReportChanged(state[s], ad.payload) \/ SignalChanged(state[s], ad)
    <2>1. notified'[s] = TRUE /\ writes'[s] = TRUE
      BY <1>6 DEF Accept, TypeOK
    <2> QED BY <2>1, <1>2, <1>3, <1>4
            DEF DeviceInv, AddressInv, ShownInv, LogInv, RevivedInv, Silent
  <1>7. CASE ~(ReportChanged(state[s], ad.payload) \/ SignalChanged(state[s], ad))
    <2>1. /\ notified'[s] = notified[s] /\ writes'[s] = writes[s]
          /\ IsFresh(state[s]) /\ state[s].rssi = ad.rssi
      BY <1>7 DEF Accept, SignalChanged
    <2>2. /\ state'[s].report = state[s].report
          /\ state'[s].pending = state[s].pending
          /\ state'[s].rssi = state[s].rssi
      <3>1. /\ Accepted(state[s], ad).report =
                IF ReportChanged(state[s], ad.payload) THEN ad.payload ELSE state[s].report
            /\ Accepted(state[s], ad).pending =
                IF ReportChanged(state[s], ad.payload) THEN None ELSE state[s].pending
            /\ Accepted(state[s], ad).rssi = ad.rssi
        BY <1>1, AcceptedFields
      <3> QED BY <1>1, <1>7, <2>1, <3>1
    <2>3. state[s].address = TRUE
      BY <1>1, <2>1, FreshFacts DEF DeviceInv, AddressInv, States
    <2>4. View(state'[s]) = View(state[s])
      BY <1>2, <2>1, <2>2, <2>3, SameView
    <2>5. ButtonView(state'[s]) = ButtonView(state[s])
      BY <1>2, <2>3 DEF ButtonView
    <2>6. AddressInv(s)' /\ LogInv(s)'
      BY <1>2, <1>3, <1>4 DEF AddressInv, LogInv
    <2>7. ShownInv(s)'
      BY <2>1, <2>4, <2>5 DEF DeviceInv, ShownInv
    <2>8. RevivedInv(s)'
      BY <1>2, <1>4, <1>5, <2>1 DEF DeviceInv, RevivedInv, Silent
    <2> QED BY <2>6, <2>7, <2>8 DEF DeviceInv
  <1> QED BY <1>6, <1>7

\* An advertisement keeps the invariant of every device,
LEMMA ReceiveDevice ==
  ASSUME TypeOK, NEW s \in Serials, NEW r \in Serials, NEW ad \in Advertisements,
         Receive(r, ad), DeviceInv(s)
  PROVE  DeviceInv(s)'
  <1>0. UNCHANGED <<shown, sinceCheck, uptime>>
    BY DEF Receive, timers
  <1>1. CASE UNCHANGED <<state, notified, unavailable, writes, revived>>
    BY <1>0, <1>1, Untouched
  <1>2. CASE Accept(r, ad) /\ r = s
    BY <1>0, <1>2, AcceptDevice
  <1>3. CASE Accept(r, ad) /\ r # s
    <2>1. /\ state'[s] = state[s] /\ unavailable'[s] = unavailable[s]
          /\ revived'[s] = revived[s]
      BY <1>3 DEF Accept, TypeOK
    <2>2. notified'[s] = notified[s] /\ writes'[s] = writes[s]
      BY <1>3 DEF Accept, TypeOK
    <2> QED BY <1>0, <2>1, <2>2, Untouched
  <1> QED BY <1>1, <1>2, <1>3 DEF Receive

\* ... the poll does, whichever devices it refreshes,
LEMMA PollDevice ==
  ASSUME TypeOK, HistoryInv, NEW s \in Serials, RefreshStates, DeviceInv(s)
  PROVE  DeviceInv(s)'
  <1> DEFINE polled == {r \in Serials : state[r].address /\ newInfo[r]}
  <1>1. /\ state'[s] = IF s \in polled THEN Seen(state[s], history[s]) ELSE state[s]
        /\ unavailable'[s] = IF s \in polled THEN SyncedAvailability(s, state'[s])
                             ELSE unavailable[s]
        /\ writes'[s] = (writes[s] \/ (s \in polled /\ SignalChanged(state[s], history[s])))
        /\ revived'[s] = (revived[s] \/ (s \in polled /\ ~IsFresh(state[s])))
        /\ UNCHANGED <<notified, shown, uptime, sinceCheck>>
    BY DEF RefreshStates
  <1>2. CASE s \notin polled
    <2>1. writes'[s] = writes[s] /\ revived'[s] = revived[s]
      BY <1>1, <1>2 DEF TypeOK
    <2> QED BY <1>1, <1>2, <2>1, Untouched
  <1>3. CASE s \in polled
    <2>1. /\ history[s] \in Advertisements /\ state[s] \in States
          /\ state[s].address = TRUE
      BY <1>3 DEF TypeOK, HistoryInv, States
    <2>2. state'[s] = Seen(state[s], history[s])
      BY <1>1, <1>3
    <2>3. /\ state'[s].age = 0
          /\ state'[s].rssi = history[s].rssi
          /\ state'[s].report = state[s].report
          /\ state'[s].address = state[s].address
          /\ state'[s].pending = state[s].pending
      <3>1. \A st \in States, ad \in Advertisements :
              /\ Seen(st, ad).age = 0
              /\ Seen(st, ad).rssi = ad.rssi
              /\ Seen(st, ad).report = st.report
              /\ Seen(st, ad).address = st.address
              /\ Seen(st, ad).pending = st.pending
        BY SeenFields
      <3> QED BY <2>1, <2>2, <3>1
    <2>4. IsFresh(state'[s]) /\ ~Silent(s)'
      BY <1>1, <2>3, TimeFacts, NoneFacts DEF IsFresh, Silent, TypeOK
    <2>5. ~unavailable'[s]
      BY <1>1, <1>3, <2>4 DEF SyncedAvailability
    <2>6. AddressInv(s)' /\ LogInv(s)'
      BY <2>1, <2>3, <2>4, <2>5 DEF AddressInv, LogInv
    <2>7. ButtonView(state'[s]) = ButtonView(state[s])
      BY <2>3 DEF ButtonView
    <2>8. ShownInv(s)'
      <3>1. ASSUME ~SignalChanged(state[s], history[s])
            PROVE  View(state'[s]) = View(state[s]) /\ IsFresh(state[s])
        BY <2>3, <2>4, <3>1, SameView DEF SignalChanged
      <3> QED BY <1>1, <1>3, <2>7, <3>1 DEF DeviceInv, ShownInv
    <2>9. RevivedInv(s)'
      BY <1>1, <1>3, <2>4 DEF DeviceInv, RevivedInv, Silent
    <2> QED BY <2>6, <2>8, <2>9 DEF DeviceInv
  <1> QED BY <1>2, <1>3

\* ... the availability check does, which logs and writes what is stale,
LEMMA CheckDevice ==
  ASSUME TypeOK, NEW s \in Serials, CheckStale, DeviceInv(s)
  PROVE  DeviceInv(s)'
  <1> DEFINE stale == notified[s] /\ ~IsFresh(state[s])
  <1>1. /\ sinceCheck' = 0
        /\ unavailable'[s] = SyncedAvailability(s, state[s])
        /\ notified'[s] = (notified[s] /\ ~stale)
        /\ writes'[s] = (writes[s] \/ stale)
        /\ UNCHANGED <<state, shown, uptime, revived>>
    BY DEF CheckStale, past
  <1>2. Silent(s)' => ~IsFresh(state[s]) /\ unavailable'[s]
    BY <1>1, TimeFacts, NoneFacts DEF Silent, IsFresh, SyncedAvailability, TypeOK, States, Ages
  <1>3. unavailable'[s] => /\ ~IsFresh(state[s])
                           /\ state[s].age = None => uptime # None /\ uptime >= Timeout
    BY <1>1 DEF DeviceInv, LogInv, SyncedAvailability
  <1>4. LogInv(s)'
    BY <1>1, <1>2, <1>3 DEF LogInv
  <1>5. AddressInv(s)' /\ ShownInv(s)'
    BY <1>1 DEF DeviceInv, AddressInv, ShownInv
  <1>6. RevivedInv(s)'
    <2>1. state'[s].age # None /\ state'[s].age >= Timeout + sinceCheck' => ~IsFresh(state[s])
      BY <1>1, <1>2 DEF Silent
    <2> QED BY <1>1, <2>1 DEF DeviceInv, RevivedInv
  <1> QED BY <1>4, <1>5, <1>6 DEF DeviceInv

\* ... time does, which only the check may let run on,
LEMMA TickDevice ==
  ASSUME TypeOK, NEW s \in Serials, Tick, DeviceInv(s)
  PROVE  DeviceInv(s)'
  <1>1. /\ sinceCheck' = sinceCheck + 1 /\ sinceCheck < StaleEvery
        /\ uptime' = OlderAge(uptime)
        /\ state'[s] = [state[s] EXCEPT !.age = OlderAge(@)]
        /\ ~writes[s]
        /\ UNCHANGED <<shown, writes, notified, unavailable, revived>>
    BY DEF Tick
  <1>2. /\ state[s] \in States /\ state[s].age \in Ages /\ uptime \in Ages
        /\ sinceCheck \in 0 .. StaleEvery
    BY DEF TypeOK, States, Ages
  <1>3. /\ state'[s].age = OlderAge(state[s].age)
        /\ state'[s].address = state[s].address
        /\ state'[s].rssi = state[s].rssi
        /\ state'[s].report = state[s].report
        /\ state'[s].pending = state[s].pending
    BY <1>1, <1>2 DEF States
  <1>4. /\ state'[s].age = None <=> state[s].age = None
        /\ state[s].age # None => \/ state'[s].age = state[s].age + 1
                                  \/ state'[s].age = MaxAge /\ state[s].age = MaxAge
        /\ uptime' = None <=> uptime = None
        /\ uptime # None => \/ uptime' = uptime + 1
                            \/ uptime' = MaxAge /\ uptime = MaxAge
    BY <1>1, <1>2, <1>3, OlderAgeType
  <1>5. IsFresh(state'[s]) => IsFresh(state[s])
    BY <1>2, <1>4, TimeFacts, NoneFacts DEF IsFresh, Ages
  <1>6. IsFresh(state'[s]) \/ ~IsFresh(state[s]) => View(state'[s]) = View(state[s])
    <2>1. ASSUME IsFresh(state'[s]) \/ ~IsFresh(state[s])
          PROVE  IsFresh(state'[s]) = IsFresh(state[s])
      BY <1>5, <2>1 DEF IsFresh
    <2> QED BY <1>3, <2>1, SameView
  <1>7. ButtonView(state'[s]) = ButtonView(state[s])
    BY <1>3 DEF ButtonView
  <1>8. AddressInv(s)'
    BY <1>2, <1>3, OlderAgeType DEF DeviceInv, AddressInv
  <1>9. ShownInv(s)'
    BY <1>1, <1>5, <1>7, <1>6 DEF DeviceInv, ShownInv
  <1>10. /\ state'[s].age # None /\ state'[s].age >= Timeout + sinceCheck'
              => state[s].age # None /\ state[s].age >= Timeout + sinceCheck
         /\ uptime' # None /\ uptime' >= Timeout + sinceCheck'
              => uptime # None /\ uptime >= Timeout + sinceCheck
         /\ uptime # None /\ uptime >= Timeout => uptime' # None /\ uptime' >= Timeout
    BY <1>1, <1>2, <1>4, TimeFacts, NoneFacts DEF Ages
  <1>11. LogInv(s)'
    BY <1>1, <1>4, <1>5, <1>10 DEF DeviceInv, LogInv, Silent
  <1>12. RevivedInv(s)'
    BY <1>1, <1>5, <1>6, <1>10 DEF DeviceInv, RevivedInv
  <1> QED BY <1>8, <1>9, <1>11, <1>12 DEF DeviceInv

\* ... an optimistic lock state does,
LEMMA CommandDevice ==
  ASSUME TypeOK, NEW s \in Serials, NEW locked \in BOOLEAN, CommandSucceeded(s, locked),
         DeviceInv(s)
  PROVE  DeviceInv(s)'
  <1>1. /\ state'[s] = [state[s] EXCEPT !.pending = locked]
        /\ shown'[s] = [shown[s] EXCEPT !.lock = LockView(state'[s])]
        /\ state[s] \in States /\ shown[s] \in Views
    BY DEF CommandSucceeded, TypeOK
  <1>2. UNCHANGED <<notified, unavailable, uptime, writes, sinceCheck, revived>>
    BY DEF CommandSucceeded, timers, past
  <1>3. /\ state'[s].age = state[s].age
        /\ state'[s].address = state[s].address
        /\ state'[s].rssi = state[s].rssi
        /\ state'[s].report = state[s].report
    BY <1>1 DEF States
  <1>4. IsFresh(state'[s]) = IsFresh(state[s])
    BY <1>3 DEF IsFresh
  <1>5. /\ ButtonView(state'[s]) = ButtonView(state[s])
        /\ SignalView(state'[s]) = SignalView(state[s])
        /\ ReportView(state'[s]) = ReportView(state[s])
    BY <1>3, <1>4 DEF ButtonView, SignalView, ReportView
  <1>6. View(state'[s]) = [View(state[s]) EXCEPT !.lock = LockView(state'[s])]
    BY <1>5 DEF View
  <1>7. shown'[s].button = shown[s].button
    BY <1>1 DEF Views
  <1>8. shown[s] = View(state[s]) => shown'[s] = View(state'[s])
    BY <1>1, <1>6
  <1>9. AddressInv(s)' /\ LogInv(s)'
    BY <1>2, <1>3, <1>4 DEF DeviceInv, AddressInv, LogInv, Silent
  <1>10. ShownInv(s)'
    BY <1>2, <1>4, <1>5, <1>7, <1>8 DEF DeviceInv, ShownInv
  <1>11. RevivedInv(s)'
    BY <1>2, <1>3, <1>4, <1>8 DEF DeviceInv, RevivedInv
  <1> QED BY <1>9, <1>10, <1>11 DEF DeviceInv

\* ... and verified settings do.
LEMMA SettingsDevice ==
  ASSUME TypeOK, NEW s \in Serials, NEW values \in [SettingNames -> SettingValues],
         SettingsVerified(s, values), DeviceInv(s)
  PROVE  DeviceInv(s)'
  <1>1. state'[s] = [state[s] EXCEPT !.values = values] /\ state[s] \in States
    BY DEF SettingsVerified, ApplySettings, TypeOK
  <1>2. UNCHANGED <<notified, unavailable, uptime, writes, shown, sinceCheck, revived>>
    BY DEF SettingsVerified, timers, past
  <1>3. /\ state'[s].age = state[s].age
        /\ state'[s].address = state[s].address
        /\ state'[s].rssi = state[s].rssi
        /\ state'[s].report = state[s].report
        /\ state'[s].pending = state[s].pending
    BY <1>1 DEF States
  <1>4. IsFresh(state'[s]) = IsFresh(state[s])
    BY <1>3 DEF IsFresh
  <1>5. View(state'[s]) = View(state[s]) /\ ButtonView(state'[s]) = ButtonView(state[s])
    BY <1>3, <1>4, SameView DEF ButtonView
  <1> QED BY <1>2, <1>3, <1>4, <1>5
          DEF DeviceInv, AddressInv, ShownInv, LogInv, Silent, RevivedInv

Inv == TypeOK /\ HistoryInv /\ \A s \in Serials : DeviceInv(s)

\* Every step keeps the invariant of every device.
LEMMA StepInv == Inv /\ [Next]_vars => Inv'
  <1> SUFFICES ASSUME Inv, [Next]_vars
               PROVE  Inv'
    OBVIOUS
  <1>1. TypeOK' /\ HistoryInv'
    BY StepTypes DEF Inv
  <1> SUFFICES ASSUME NEW s \in Serials PROVE DeviceInv(s)'
    BY <1>1 DEF Inv
  <1>2. DeviceInv(s) /\ TypeOK /\ HistoryInv
    BY DEF Inv
  <1>3. ASSUME NEW r \in Serials, Regenerate(r) \/ Rekey(r)
        PROVE  DeviceInv(s)'
    <2>1. PICK payload \in Payloads : Broadcast(r, payload)
      BY <1>2, <1>3, NewPayloads
    <2> QED BY <1>2, <2>1, Untouched DEF Broadcast, timers, past
  <1>4. ASSUME NEW r \in Serials, ReceiveAny(r)
        PROVE  DeviceInv(s)'
    BY <1>2, <1>4, AdvertisementTypes, ReceiveDevice
  <1>5. ASSUME NEW r \in Serials, RefreshKey(r) \/ Forget(r)
        PROVE  DeviceInv(s)'
    BY <1>2, <1>5, Untouched DEF RefreshKey, Forget, timers, past
  <1>6. ASSUME NEW r \in Serials, WriteEntities(r)
        PROVE  DeviceInv(s)'
    <2>1. UNCHANGED <<state, notified, unavailable, uptime, sinceCheck, revived>>
      BY <1>6 DEF WriteEntities, timers, past
    <2>2. CASE r = s
      <3>1. shown'[s] = View(state'[s])
        BY <1>2, <1>6, <2>1, <2>2 DEF WriteEntities, TypeOK
      <3>2. shown'[s].button = ButtonView(state'[s])
        BY <3>1, ViewFields
      <3> QED BY <1>2, <2>1, <3>1, <3>2
              DEF DeviceInv, AddressInv, ShownInv, LogInv, Silent, RevivedInv
    <2>3. CASE r # s
      BY <1>2, <1>6, <2>1, <2>3, Untouched DEF WriteEntities, TypeOK
    <2> QED BY <2>2, <2>3
  <1>7. ASSUME NEW r \in Serials, NEW locked \in BOOLEAN, CommandSucceeded(r, locked)
        PROVE  DeviceInv(s)'
    <2>1. CASE r = s
      BY <1>2, <1>7, <2>1, CommandDevice
    <2>2. CASE r # s
      <3>1. /\ state'[s] = state[s] /\ shown'[s] = shown[s]
            /\ UNCHANGED <<notified, unavailable, uptime, writes, sinceCheck, revived>>
        BY <1>2, <1>7, <2>2 DEF CommandSucceeded, TypeOK, timers, past
      <3> QED BY <1>2, <3>1, Untouched
    <2> QED BY <2>1, <2>2
  <1>8. ASSUME NEW r \in Serials, NEW values \in [SettingNames -> SettingValues],
               SettingsVerified(r, values)
        PROVE  DeviceInv(s)'
    <2>1. CASE r = s
      BY <1>2, <1>8, <2>1, SettingsDevice
    <2>2. CASE r # s
      <3>1. /\ state'[s] = state[s]
            /\ UNCHANGED <<notified, unavailable, uptime, writes, shown, sinceCheck, revived>>
        BY <1>2, <1>8, <2>2 DEF SettingsVerified, TypeOK, timers, past
      <3> QED BY <1>2, <3>1, Untouched
    <2> QED BY <2>1, <2>2
  <1>9. CASE RefreshStates
    BY <1>2, <1>9, PollDevice
  <1>10. CASE CheckStale
    BY <1>2, <1>10, CheckDevice
  <1>11. CASE Tick
    BY <1>2, <1>11, TickDevice
  <1>12. CASE Stop
    BY <1>2, <1>12, Untouched DEF Stop, timers, past
  <1>13. CASE UNCHANGED vars
    BY <1>2, <1>13, Untouched DEF vars, timers, past
  <1> QED BY <1>3, <1>4, <1>5, <1>6, <1>7, <1>8, <1>9, <1>10, <1>11, <1>12, <1>13
          DEF Next, MonitorStep, Stopped

\* It holds at the start,
LEMMA InitInv == Init => Inv
  <1> SUFFICES ASSUME Init, NEW s \in Serials PROVE DeviceInv(s)
    BY InitTypes DEF Inv
  <1>1. /\ state[s] = NewState /\ shown[s] = View(NewState)
        /\ unavailable[s] = FALSE /\ writes[s] = FALSE
        /\ uptime \in {0, None} /\ sinceCheck = 0
    BY DEF Init
  <1>2. state[s].age = None /\ ~IsFresh(state[s])
    BY <1>1 DEF NewState, IsFresh
  <1>3. ~Silent(s)
    BY <1>1, <1>2, TimeFacts, NoneFacts DEF Silent
  <1>4. shown[s].button = ButtonView(state[s])
    BY <1>1, ViewFields
  <1> QED BY <1>1, <1>2, <1>3, <1>4
          DEF DeviceInv, AddressInv, ShownInv, LogInv, RevivedInv

\* ... and so always.
LEMMA Invariance == Spec => []Inv
  BY InitInv, StepInv, PTL DEF Spec

\* Between two handlers the entities of a fresh device show its state, and the
\* calibration buttons whether its address is known.
THEOREM WhatIsShownIsCurrent == Spec => []ShownIsCurrent
  <1>1. Inv => ShownIsCurrent
    BY DEF Inv, DeviceInv, ShownInv, ShownIsCurrent
  <1> QED BY <1>1, Invariance, PTL

\* A device marked unavailable in the log is not fresh, and one silent for the
\* timeout and a check interval is marked.
THEOREM LogTellsTheTruth == Spec => []AvailabilityLogged
  <1>1. Inv => AvailabilityLogged
    <2> SUFFICES ASSUME Inv, NEW s \in Serials
                 PROVE  /\ unavailable[s] =>
                             /\ ~IsFresh(state[s])
                             /\ state[s].age = None => uptime # None /\ uptime >= Timeout
                        /\ state[s].age = MaxAge => unavailable[s]
                        /\ state[s].age = None /\ uptime = MaxAge => unavailable[s]
      BY DEF AvailabilityLogged
    <2>1. LogInv(s) /\ sinceCheck \in 0 .. StaleEvery
      BY DEF Inv, DeviceInv, TypeOK
    <2> QED BY <2>1, TimeFacts, NoneFacts DEF LogInv, Silent
  <1> QED BY <1>1, Invariance, PTL

\* An overdue device is shown unavailable unless the poll had made it fresh.
THEOREM OverdueIsShown == Spec => []OverdueShownOnlyAfterPoll
  <1>1. Inv => OverdueShownOnlyAfterPoll
    <2> SUFFICES ASSUME Inv, NEW s \in Serials, state[s].age = MaxAge, ~writes[s],
                        ~revived[s]
                 PROVE  shown[s] = View(state[s])
      BY DEF OverdueShownOnlyAfterPoll
    <2>1. RevivedInv(s) /\ sinceCheck \in 0 .. StaleEvery
      BY DEF Inv, DeviceInv, TypeOK
    <2>2. ~IsFresh(state[s]) /\ ~notified[s]
      BY <2>1, TimeFacts, NoneFacts DEF RevivedInv, IsFresh
    <2> QED BY <2>1, <2>2 DEF RevivedInv
  <1> QED BY <1>1, Invariance, PTL

-----------------------------------------------------------------------------
(* The counter gate.                                                       *)

\* Division with remainder,
LEMMA DivMod ==
  ASSUME NEW m \in Nat \ {0}, NEW a \in Nat
  PROVE  \E q \in Int, r \in 0 .. m - 1 : a = m * q + r /\ a % m = r
  <1>1. /\ a % m \in 0 .. m - 1
        /\ a \div m \in Int
        /\ a = m * (a \div m) + (a % m)
    OBVIOUS
  <1> QED BY <1>1

\* ... the remainder of a number less than the modulus and of one turn more,
LEMMA SmallMod ==
  ASSUME NEW m \in Nat \ {0}, NEW d \in 0 .. m - 1
  PROVE  d % m = d /\ (d + m) % m = d
  OBVIOUS

\* ... the multiples of the modulus between minus one turn and two,
LEMMA WholeTurns ==
  ASSUME NEW m \in Nat \ {0}, NEW q \in Int, m * q > -m, m * q < 2 * m
  PROVE  q \in {0, 1}
  OBVIOUS

\* ... and multiplication over a difference.
LEMMA Distribute ==
  ASSUME NEW m \in Int, NEW x \in Int, NEW y \in Int
  PROVE  m * (x - y) = m * x - m * y
  OBVIOUS

\* How far the counter of b is ahead of that of a, around a turn of m.
Delta(m, a, b) == ((b % m) + m - (a % m)) % m

\* Less than a turn ahead, the distance of the counters is that of the generations.
LEMMA Distance ==
  ASSUME NEW m \in Nat \ {0}, NEW a \in Nat, NEW b \in Nat, a <= b, b - a < m
  PROVE  Delta(m, a, b) = b - a
  <1>1. PICK p \in Int, r \in 0 .. m - 1 : a = m * p + r /\ a % m = r
    BY DivMod
  <1>2. PICK q \in Int, t \in 0 .. m - 1 : b = m * q + t /\ b % m = t
    BY DivMod
  <1>3. m * (q - p) = (b - a) - (t - r)
    BY <1>1, <1>2, Distribute
  <1>4. q - p \in {0, 1}
    <2>1. m * (q - p) > -m /\ m * (q - p) < 2 * m /\ q - p \in Int
      BY <1>3
    <2> QED BY <2>1, WholeTurns
  <1>5. t + m - r \in {b - a, (b - a) + m}
    BY <1>3, <1>4
  <1> QED BY <1>1, <1>2, <1>5, SmallMod DEF Delta

\* A whole turn does not change the distance of the counters.
LEMMA OneTurn ==
  ASSUME NEW m \in Nat \ {0}, NEW a \in Nat, NEW b \in Nat
  PROVE  Delta(m, a, b + m) = Delta(m, a, b)
  <1>1. PICK q \in Int, r \in 0 .. m - 1 : b = m * q + r /\ b % m = r
    BY DivMod
  <1>2. PICK p \in Int, t \in 0 .. m - 1 : b + m = m * p + t /\ (b + m) % m = t
    <2>1. b + m \in Nat
      OBVIOUS
    <2> QED BY <2>1, DivMod
  <1>3. m * (p - q) = m - (t - r)
    BY <1>1, <1>2, Distribute
  <1>4. p - q \in {0, 1}
    <2>1. m * (p - q) > -m /\ m * (p - q) < 2 * m /\ p - q \in Int
      BY <1>3
    <2> QED BY <2>1, WholeTurns
  <1>5. t = r
    BY <1>3, <1>4
  <1> QED BY <1>1, <1>2, <1>5 DEF Delta

\* The gate tells newer from older when either leads by less than half a turn.
LEMMA GateDelta ==
  ASSUME NEW m \in Nat \ {0}, NEW a \in Nat, NEW b \in Nat, NEW lead \in Nat,
         lead < m \div 2, b <= a + lead, a <= b + lead
  PROVE  0 < Delta(m, a, b) /\ Delta(m, a, b) < m \div 2 <=> b > a
  <1>1. m \div 2 \in Nat /\ 2 * (m \div 2) <= m
    OBVIOUS
  <1> DEFINE h == m \div 2
  <1> HIDE DEF h
  <1>2. lead < h /\ h \in Nat /\ 2 * h <= m
    BY <1>1 DEF h
  <1>3. CASE b >= a
    <2>1. Delta(m, a, b) = b - a
      BY <1>2, <1>3, Distance
    <2> QED BY <1>2, <1>3, <2>1 DEF h
  <1>4. CASE b < a
    <2>1. b + m \in Nat /\ a <= b + m /\ (b + m) - a < m
      BY <1>2, <1>4
    <2>2. Delta(m, a, b + m) = (b + m) - a
      BY <2>1, Distance
    <2>3. Delta(m, a, b) = (b + m) - a
      BY <2>2, OneTurn
    <2>4. (b + m) - a >= h
      BY <1>2
    <2> QED BY <1>2, <1>4, <2>3, <2>4 DEF h
  <1> QED BY <1>3, <1>4

\* Across any number of wraps the gate lets through the newer payload, and only it,
\* if no receivable payload is half the counter's range away from the report.
LEMMA Gate ==
  ASSUME NEW old \in Payloads, NEW new \in Payloads,
         new.gen <= old.gen + MaxLead, old.gen <= new.gen + Window
  PROVE  CounterIncreased(Counter(old), Counter(new)) <=> new.gen > old.gen
  <1>1. /\ Modulus \in Nat \ {0} /\ old.gen \in Nat /\ new.gen \in Nat /\ MaxLead \in Nat
        /\ MaxLead < Modulus \div 2
        /\ new.gen <= old.gen + MaxLead /\ old.gen <= new.gen + MaxLead
    BY ModulusAssumption, MonitorAssumption, GateAssumption DEF Payloads
  <1>2. CounterIncreased(Counter(old), Counter(new)) <=>
          0 < Delta(Modulus, old.gen, new.gen)
            /\ Delta(Modulus, old.gen, new.gen) < Modulus \div 2
    BY DEF CounterIncreased, Counter, Delta
  <1> QED BY <1>1, <1>2, GateDelta

\* The payloads in the air have consecutive generations, and the lock is at most
\* MaxLead ahead of the report.
GateInv(s) ==
  /\ \A i \in 1 .. Len(air[s]) : air[s][i].gen + Len(air[s]) = Newest(s).gen + i
  /\ state[s].report # None => /\ state[s].report.gen <= Newest(s).gen
                               /\ Newest(s).gen <= state[s].report.gen + MaxLead

\* What is received is at most Window older than the newest payload.
LEMMA Receivable ==
  ASSUME TypeOK, NEW s \in Serials, GateInv(s), NEW i \in 1 .. Len(air[s])
  PROVE  /\ air[s][i].gen <= Newest(s).gen
         /\ Newest(s).gen <= air[s][i].gen + Window
  <1>1. air[s][i] \in Payloads /\ Newest(s) \in Payloads
    BY AirTypes, NewestType
  <1>2. /\ air[s][i].gen + Len(air[s]) = Newest(s).gen + i
        /\ Len(air[s]) \in 1 .. Window + 1
    BY DEF GateInv, TypeOK
  <1>3. air[s][i].gen \in Nat /\ Newest(s).gen \in Nat /\ Window \in Nat
    BY <1>1, MonitorAssumption DEF Payloads
  <1>4. ASSUME NEW old \in Nat, NEW new \in Nat, NEW width \in Nat,
               NEW len \in 1 .. width + 1, NEW j \in 1 .. len, old + len = new + j
        PROVE  old <= new /\ new <= old + width
    BY <1>4
  <1> QED BY <1>2, <1>3, <1>4

\* Two generations near the newest are near each other.
LEMMA Between ==
  ASSUME NEW x \in Nat, NEW y \in Nat, NEW top \in Nat, NEW window \in Nat, NEW lead \in Nat,
         x <= top, top <= x + window, y <= top, top <= y + lead
  PROVE  x <= y + lead /\ y <= x + window
  OBVIOUS

\* The report follows exactly the payloads that are newer.
LEMMA ReportFollows ==
  ASSUME TypeOK, NEW s \in Serials, GateInv(s), NEW ad \in Advertisements,
         NEW i \in 1 .. Len(air[s]), ad.payload = air[s][i]
  PROVE  ReportChanged(state[s], ad.payload) <=>
           state[s].report = None \/ ad.payload.gen > state[s].report.gen
  <1>1. CASE state[s].report = None
    BY <1>1 DEF ReportChanged
  <1>2. CASE state[s].report # None
    <2>1. state[s].report \in Payloads /\ ad.payload \in Payloads /\ Newest(s) \in Payloads
      BY <1>2, NewestType DEF TypeOK, States, Advertisements
    <2>2. /\ ad.payload.gen <= state[s].report.gen + MaxLead
          /\ state[s].report.gen <= ad.payload.gen + Window
      <3>1. /\ ad.payload.gen <= Newest(s).gen
            /\ Newest(s).gen <= ad.payload.gen + Window
        BY Receivable
      <3>2. /\ state[s].report.gen <= Newest(s).gen
            /\ Newest(s).gen <= state[s].report.gen + MaxLead
        BY <1>2 DEF GateInv
      <3>3. /\ ad.payload.gen \in Nat /\ Newest(s).gen \in Nat
            /\ state[s].report.gen \in Nat /\ Window \in Nat /\ MaxLead \in Nat
        BY <2>1, MonitorAssumption DEF Payloads
      <3> HIDE DEF Newest
      <3> QED BY <3>1, <3>2, <3>3, Between
    <2> QED BY <1>2, <2>1, <2>2, Gate DEF ReportChanged
  <1> QED BY <1>1, <1>2

\* Sums over one place less.
LEMMA Shift ==
  ASSUME NEW x \in Nat, NEW y \in Nat, NEW n \in Nat, NEW i \in Nat
  PROVE  x + n = y + (i + 1) => x + (n - 1) = y + i
  OBVIOUS

\* A regeneration keeps the air in order and within the window,
LEMMA BroadcastGate ==
  ASSUME TypeOK, NEW s \in Serials, NEW payload \in Payloads, Broadcast(s, payload),
         MayRegenerate(s), payload.gen = Newest(s).gen + 1, GateInv(s)
  PROVE  GateInv(s)'
  <1> DEFINE kept == IF Len(air[s]) > Window THEN Tail(air[s]) ELSE air[s]
             n == Len(air[s])
  <1>1. air[s] \in Seq(Payloads) /\ n \in Nat /\ n >= 1
    BY DEF TypeOK
  <1>2. air'[s] = Append(kept, payload) /\ state' = state
    BY DEF Broadcast, TypeOK
  <1>3. kept \in Seq(Payloads)
    BY <1>1
  <1>4. \A i \in 1 .. Len(kept) : kept[i].gen + Len(kept) = Newest(s).gen + i
    <2>1. CASE n > Window
      <3>1. /\ kept = Tail(air[s]) /\ Len(kept) = n - 1
            /\ \A i \in 1 .. n - 1 : kept[i] = air[s][i + 1]
        BY <1>1, <2>1
      <3>2. \A i \in 1 .. n - 1 : air[s][i + 1] \in Payloads
        BY <1>1
      <3>3. \A i \in 1 .. n - 1 : air[s][i + 1].gen + n = Newest(s).gen + (i + 1)
        BY <1>1 DEF GateInv
      <3>4. Newest(s).gen \in Nat /\ \A i \in 1 .. n - 1 : air[s][i + 1].gen \in Nat
        BY <3>2, NewestType DEF Payloads
      <3>5. ASSUME NEW i \in 1 .. n - 1
            PROVE  air[s][i + 1].gen + (n - 1) = Newest(s).gen + i
        <4>1. air[s][i + 1].gen + n = Newest(s).gen + (i + 1)
          BY <3>3
        <4>2. air[s][i + 1].gen \in Nat /\ Newest(s).gen \in Nat
          BY <3>4
        <4>3. n \in Nat /\ i \in Nat
          BY <1>1
        <4> HIDE DEF n
        <4> QED BY <4>1, <4>2, <4>3, Shift
      <3> QED BY <3>1, <3>5
    <2>2. CASE ~(n > Window)
      BY <2>2 DEF GateInv
    <2> QED BY <2>1, <2>2
  <1> HIDE DEF kept, n
  <1>5. /\ Len(air'[s]) = Len(kept) + 1
        /\ air'[s][Len(kept) + 1] = payload
        /\ \A i \in 1 .. Len(kept) : air'[s][i] = kept[i] /\ kept[i] \in Payloads
    BY <1>2, <1>3
  <1>6. Newest(s)' = payload
    BY <1>5 DEF Newest
  <1>7. ASSUME NEW i \in 1 .. Len(air'[s])
        PROVE  air'[s][i].gen + Len(air'[s]) = Newest(s)'.gen + i
    <2>1. CASE i = Len(kept) + 1
      BY <1>3, <1>5, <1>6, <2>1 DEF Payloads
    <2>2. CASE i # Len(kept) + 1
      <3>0. Len(kept) \in Nat
        BY <1>3
      <3>1. i \in 1 .. Len(kept)
        BY <1>5, <2>2, <3>0
      <3>2. kept[i].gen + Len(kept) = Newest(s).gen + i
        BY <1>4, <3>1
      <3>3. air'[s][i] = kept[i] /\ kept[i] \in Payloads
        BY <1>5, <3>1
      <3>4. /\ kept[i].gen \in Nat /\ Newest(s).gen \in Nat /\ Len(kept) \in Nat
            /\ i \in Nat
        <4>1. kept[i].gen \in Nat
          BY <3>3 DEF Payloads
        <4>2. Newest(s).gen \in Nat
          BY NewestType DEF Payloads
        <4> QED BY <3>0, <3>1, <4>1, <4>2
      <3>5. kept[i].gen + (Len(kept) + 1) = payload.gen + i
        <4> DEFINE x == kept[i].gen
                   y == Newest(s).gen
                   l == Len(kept)
        <4>1. x \in Nat /\ y \in Nat /\ l \in Nat /\ i \in Nat /\ x + l = y + i
          BY <3>2, <3>4
        <4> HIDE DEF x, y, l
        <4>2. x + (l + 1) = (y + 1) + i
          BY <4>1
        <4> QED BY <4>2 DEF x, y, l
      <3>6. air'[s][i].gen = kept[i].gen /\ Newest(s)'.gen = payload.gen
        BY <1>6, <3>3
      <3>7. Len(air'[s]) = Len(kept) + 1
        BY <1>5
      <3> QED BY <3>5, <3>6, <3>7
    <2> QED BY <2>1, <2>2
  <1>8. ASSUME state[s].report # None
        PROVE  /\ state[s].report.gen <= payload.gen
               /\ payload.gen <= state[s].report.gen + MaxLead
    <2>1. state[s].report \in Payloads /\ Newest(s) \in Payloads
      BY <1>8, NewestType DEF TypeOK, States
    <2> QED BY <1>8, <2>1, MonitorAssumption DEF GateInv, MayRegenerate, Payloads
  <1> QED BY <1>2, <1>6, <1>7, <1>8 DEF GateInv

\* The report of s goes only from a payload to a newer one.
Advances(s) ==
  state[s].report # None => /\ state'[s].report # None
                            /\ state'[s].report.gen >= state[s].report.gen

\* ... a step that keeps the report keeps the gate,
LEMMA ReportKept ==
  ASSUME TypeOK, NEW s \in Serials, state'[s].report = state[s].report
  PROVE  Advances(s) /\ (air'[s] = air[s] /\ GateInv(s) => GateInv(s)')
  <1>1. state[s].report # None => state[s].report.gen \in Nat
    BY DEF TypeOK, States, Payloads
  <1> QED BY <1>1 DEF Advances, GateInv, Newest

\* ... and an accepted payload moves the report forward only.
LEMMA AcceptGate ==
  ASSUME TypeOK, NEW s \in Serials, NEW ad \in Advertisements, Accept(s, ad), GateInv(s),
         NEW i \in 1 .. Len(air[s]), ad.payload = air[s][i], air'[s] = air[s]
  PROVE  Advances(s) /\ GateInv(s)'
  <1>1. state'[s] = Accepted(state[s], ad) /\ state[s] \in States
    BY DEF Accept, TypeOK
  <1>2. state'[s].report =
          IF ReportChanged(state[s], ad.payload) THEN ad.payload ELSE state[s].report
    <2>1. Accepted(state[s], ad).report =
            IF ReportChanged(state[s], ad.payload) THEN ad.payload ELSE state[s].report
      BY <1>1, AcceptedFields
    <2> QED BY <1>1, <2>1
  <1>3. CASE ~ReportChanged(state[s], ad.payload)
    BY <1>2, <1>3, ReportKept
  <1>4. CASE ReportChanged(state[s], ad.payload)
    <2>1. state'[s].report = ad.payload
      BY <1>2, <1>4
    <2>2. /\ ad.payload.gen <= Newest(s).gen
          /\ Newest(s).gen <= ad.payload.gen + Window
      BY Receivable
    <2>3. /\ ad.payload.gen \in Nat /\ Newest(s).gen \in Nat
          /\ Window \in Nat /\ MaxLead \in Nat /\ Window <= MaxLead
      BY NewestType, MonitorAssumption, GateAssumption DEF Advertisements, Payloads
    <2>4. Newest(s).gen <= ad.payload.gen + MaxLead
      BY <2>2, <2>3
    <2>5. state[s].report = None \/ ad.payload.gen > state[s].report.gen
      BY <1>4, ReportFollows
    <2>6. ad.payload # None
      BY NoneFacts DEF Advertisements
    <2>7. Newest(s)' = Newest(s)
      BY DEF Newest
    <2>8. GateInv(s)'
      BY <2>1, <2>2, <2>4, <2>7 DEF GateInv
    <2>9. state[s].report # None => state[s].report.gen \in Nat
      BY <1>1 DEF States, Payloads
    <2> QED BY <2>1, <2>3, <2>5, <2>6, <2>8, <2>9 DEF Advances
  <1> QED BY <1>3, <1>4

\* Every step keeps the gate, and no report goes back.
LEMMA StepGate ==
  ASSUME TypeOK, HistoryInv, [Next]_vars, NEW s \in Serials, GateInv(s)
  PROVE  Advances(s) /\ GateInv(s)'
  <1>1. ASSUME NEW r \in Serials, Regenerate(r) \/ Rekey(r)
        PROVE  Advances(s) /\ GateInv(s)'
    <2>1. PICK payload \in Payloads :
            Broadcast(r, payload) /\ MayRegenerate(r) /\ payload.gen = Newest(r).gen + 1
      BY <1>1, NewPayloads
    <2>2. CASE r = s
      BY <2>1, <2>2, BroadcastGate, ReportKept DEF Broadcast
    <2>3. CASE r # s
      <3>1. air'[s] = air[s] /\ state' = state
        BY <2>1, <2>3 DEF Broadcast, TypeOK
      <3> QED BY <3>1, ReportKept
    <2> QED BY <2>2, <2>3
  <1>2. ASSUME NEW r \in Serials, ReceiveAny(r)
        PROVE  Advances(s) /\ GateInv(s)'
    <2>1. PICK ad \in Advertisements :
            /\ Receive(r, ad)
            /\ \E i \in 1 .. Len(air[r]) : ad.payload = air[r][i]
      BY <1>2, AdvertisementTypes
    <2>2. air' = air
      BY <2>1 DEF Receive
    <2>3. CASE Accept(r, ad) /\ r = s
      BY <2>1, <2>2, <2>3, AcceptGate
    <2>4. CASE Accept(r, ad) /\ r # s
      <3>1. state'[s] = state[s]
        BY <2>4 DEF Accept, TypeOK
      <3> QED BY <2>2, <3>1, ReportKept
    <2>5. CASE UNCHANGED state
      BY <2>2, <2>5, ReportKept
    <2> QED BY <2>1, <2>3, <2>4, <2>5 DEF Receive
  <1>3. ASSUME NEW r \in Serials, RefreshKey(r) \/ Forget(r) \/ WriteEntities(r)
        PROVE  Advances(s) /\ GateInv(s)'
    BY <1>3, ReportKept DEF RefreshKey, Forget, WriteEntities
  <1>4. ASSUME NEW r \in Serials, NEW locked \in BOOLEAN, CommandSucceeded(r, locked)
        PROVE  Advances(s) /\ GateInv(s)'
    <2>1. state' = [state EXCEPT ![r].pending = locked] /\ air' = air
      BY <1>4 DEF CommandSucceeded
    <2>2. state'[s].report = state[s].report
      BY <2>1 DEF TypeOK, States
    <2> QED BY <2>1, <2>2, ReportKept
  <1>5. ASSUME NEW r \in Serials, NEW values \in [SettingNames -> SettingValues],
               SettingsVerified(r, values)
        PROVE  Advances(s) /\ GateInv(s)'
    <2>1. state' = [state EXCEPT ![r] = [@ EXCEPT !.values = values]] /\ air' = air
      BY <1>5 DEF SettingsVerified, ApplySettings
    <2>2. state'[s].report = state[s].report
      BY <2>1 DEF TypeOK, States
    <2> QED BY <2>1, <2>2, ReportKept
  <1>6. CASE RefreshStates
    <2> DEFINE polled == {r \in Serials : state[r].address /\ newInfo[r]}
    <2>1. /\ state'[s] = IF s \in polled THEN Seen(state[s], history[s]) ELSE state[s]
          /\ air' = air
      BY <1>6 DEF RefreshStates
    <2>2. s \in polled => history[s] \in Advertisements
      BY DEF TypeOK, HistoryInv
    <2>3. state[s] \in States
      BY DEF TypeOK
    <2>4. state'[s].report = state[s].report
      <3>1. \A st \in States, ad \in Advertisements : Seen(st, ad).report = st.report
        BY SeenFields
      <3> QED BY <2>1, <2>2, <2>3, <3>1
    <2> QED BY <2>1, <2>4, ReportKept
  <1>7. CASE CheckStale
    BY <1>7, ReportKept DEF CheckStale
  <1>8. CASE Tick
    <2>1. state'[s] = [state[s] EXCEPT !.age = OlderAge(@)] /\ air' = air
      BY <1>8 DEF Tick
    <2>2. state'[s].report = state[s].report
      BY <2>1 DEF TypeOK, States
    <2> QED BY <2>1, <2>2, ReportKept
  <1>9. CASE Stop \/ UNCHANGED vars
    BY <1>9, ReportKept DEF Stop, vars
  <1> QED BY <1>1, <1>2, <1>3, <1>4, <1>5, <1>6, <1>7, <1>8, <1>9
          DEF Next, MonitorStep, Stopped

\* The gate holds at the start
LEMMA InitGate == Init => \A s \in Serials : GateInv(s)
  <1> SUFFICES ASSUME Init, NEW s \in Serials PROVE GateInv(s)
    OBVIOUS
  <1>1. TypeOK
    BY InitTypes
  <1>2. Len(air[s]) = 1 /\ state[s].report = None
    BY DEF Init, NewState
  <1>3. \A i \in 1 .. Len(air[s]) : i = 1 /\ air[s][i] = Newest(s)
    BY <1>2 DEF Newest
  <1> QED BY <1>2, <1>3 DEF GateInv

\* ... and always.
LEMMA GateInvariance ==
  Spec => [](TypeOK /\ HistoryInv /\ \A s \in Serials : GateInv(s))
  <1> DEFINE GInv == TypeOK /\ HistoryInv /\ \A s \in Serials : GateInv(s)
  <1>1. Init => GInv
    BY InitTypes, InitGate
  <1>2. GInv /\ [Next]_vars => GInv'
    BY StepTypes, StepGate
  <1> QED BY <1>1, <1>2, PTL DEF Spec

\* Whatever is lost, repeated or reordered on the air and however often the counter
\* wraps, the counter gate never replaces a report by an older one.
THEOREM ReportsOnlyAdvance == Spec => [][\A s \in Serials : Advances(s)]_vars
  <1>1. TypeOK /\ HistoryInv /\ (\A s \in Serials : GateInv(s)) /\ [Next]_vars
          => [\A s \in Serials : Advances(s)]_vars
    BY StepGate
  <1> QED BY <1>1, GateInvariance, PTL DEF Spec

-----------------------------------------------------------------------------
(* The monitor implements LatestReport.                                    *)

OnAir(s) == {air[s][i] : i \in 1 .. Len(air[s])}

\* A regenerated payload is newer than all that are on the air,
LEMMA Regenerated ==
  ASSUME TypeOK, NEW s \in Serials, NEW payload \in Payloads, Broadcast(s, payload),
         payload.gen = Newest(s).gen + 1, GateInv(s)
  PROVE  LatestReport!Broadcast(s)
  <1> DEFINE kept == IF Len(air[s]) > Window THEN Tail(air[s]) ELSE air[s]
             old == {kept[i] : i \in 1 .. Len(kept)}
  <1>1. air[s] \in Seq(Payloads) /\ Len(air[s]) >= 1
    BY DEF TypeOK
  <1>2. kept \in Seq(Payloads) /\ old \in SUBSET OnAir(s)
    <2>1. CASE ~(Len(air[s]) > Window)
      BY <1>1, <2>1 DEF OnAir
    <2>2. CASE Len(air[s]) > Window
      <3>1. /\ kept = Tail(air[s]) /\ kept \in Seq(Payloads)
            /\ Len(kept) = Len(air[s]) - 1
            /\ \A i \in 1 .. Len(air[s]) - 1 : kept[i] = air[s][i + 1]
        BY <1>1, <2>2
      <3>2. \A i \in 1 .. Len(kept) : i + 1 \in 1 .. Len(air[s])
        BY <1>1, <3>1
      <3> QED BY <3>1, <3>2 DEF OnAir
    <2> QED BY <2>1, <2>2
  <1>3. air' = [air EXCEPT ![s] = Append(kept, payload)] /\ UNCHANGED state
    BY DEF Broadcast
  <1> HIDE DEF kept
  <1>4. OnAir(s)' = old \cup {payload}
    <2>1. air'[s] = Append(kept, payload)
      BY <1>3 DEF TypeOK
    <2>2. /\ Len(Append(kept, payload)) = Len(kept) + 1 /\ Len(kept) \in Nat
          /\ Append(kept, payload)[Len(kept) + 1] = payload
          /\ \A i \in 1 .. Len(kept) : Append(kept, payload)[i] = kept[i]
      BY <1>2
    <2>3. 1 .. Len(kept) + 1 = (1 .. Len(kept)) \cup {Len(kept) + 1}
      BY <2>2
    <2> QED BY <2>1, <2>2, <2>3 DEF OnAir
  <1>5. \A r \in Serials : r # s => OnAir(r)' = OnAir(r)
    BY <1>3 DEF OnAir, TypeOK
  <1>6. \A q \in OnAir(s) : q.gen < payload.gen
    <2> SUFFICES ASSUME NEW i \in 1 .. Len(air[s]) PROVE air[s][i].gen < payload.gen
      BY DEF OnAir
    <2>1. air[s][i].gen <= Newest(s).gen
      BY Receivable
    <2>2. air[s][i] \in Payloads /\ Newest(s) \in Payloads
      BY AirTypes, NewestType
    <2> QED BY <2>1, <2>2 DEF Payloads
  <1> HIDE DEF old
  <1>7. [r \in Serials |-> OnAir(r)'] = [[r \in Serials |-> OnAir(r)] EXCEPT ![s] = old \cup {payload}]
    BY <1>4, <1>5
  <1> QED BY <1>2, <1>3, <1>4, <1>6, <1>7 DEF LatestReport!Broadcast, OnAir

\* ... what is decoded and newer becomes the report, and the state shown with it,
LEMMA Reported ==
  ASSUME TypeOK, NEW s \in Serials, NEW ad \in Advertisements, Accept(s, ad), GateInv(s),
         NEW i \in 1 .. Len(air[s]), ad.payload = air[s][i], air' = air,
         ReportChanged(state[s], ad.payload)
  PROVE  LatestReport!Report(s)
  <1>1. state' = [state EXCEPT ![s] = Accepted(state[s], ad)] /\ state[s] \in States
    BY DEF Accept, TypeOK
  <1>2. Accepted(state[s], ad).report = ad.payload /\ Accepted(state[s], ad).pending = None
    BY <1>1, AcceptedFields
  <1>3. ad.payload \in OnAir(s) /\ ad.payload # None
    BY NoneFacts DEF OnAir, Advertisements
  <1>4. state[s].report # None => ad.payload.gen > state[s].report.gen
    BY ReportFollows
  <1>5. IsLocked(Accepted(state[s], ad)) = ad.payload.locked
    BY <1>2, <1>3 DEF IsLocked
  <1>6. /\ [r \in Serials |-> state[r].report]' =
             [[r \in Serials |-> state[r].report] EXCEPT ![s] = ad.payload]
        /\ [r \in Serials |-> IsLocked(state[r])]' =
             [[r \in Serials |-> IsLocked(state[r])] EXCEPT ![s] = ad.payload.locked]
    BY <1>1, <1>2, <1>5 DEF TypeOK, IsLocked
  <1>7. UNCHANGED [r \in Serials |-> OnAir(r)]
    BY DEF OnAir
  <1>8. \E p \in OnAir(s) :
          /\ state[s].report # None => p.gen > state[s].report.gen
          /\ [r \in Serials |-> state[r].report]' =
               [[r \in Serials |-> state[r].report] EXCEPT ![s] = p]
          /\ [r \in Serials |-> IsLocked(state[r])]' =
               [[r \in Serials |-> IsLocked(state[r])] EXCEPT ![s] = p.locked]
    BY <1>3, <1>4, <1>6
  <1>9. /\ [r \in Serials |-> OnAir(r)][s] = OnAir(s)
        /\ [r \in Serials |-> state[r].report][s] = state[s].report
    OBVIOUS
  <1> QED BY <1>7, <1>8, <1>9 DEF LatestReport!Report, OnAir

\* ... and otherwise neither changes.
LEMMA NothingReported ==
  ASSUME air' = air,
         \A s \in Serials : /\ state'[s].report = state[s].report
                            /\ state'[s].pending = state[s].pending
  PROVE  UNCHANGED LatestReport!vars
  BY DEF LatestReport!vars, IsLocked

\* Every step of the monitor and around it is one of LatestReport, or none.
LEMMA StepLatest ==
  ASSUME TypeOK, HistoryInv, \A s \in Serials : GateInv(s), [Next]_vars
  PROVE  [LatestReport!Next]_(LatestReport!vars)
  <1>1. ASSUME NEW s \in Serials, Regenerate(s) \/ Rekey(s)
        PROVE  LatestReport!Next
    BY <1>1, NewPayloads, Regenerated DEF LatestReport!Next
  <1>2. ASSUME NEW s \in Serials, ReceiveAny(s)
        PROVE  [LatestReport!Next]_(LatestReport!vars)
    <2>1. PICK ad \in Advertisements :
            /\ Receive(s, ad)
            /\ \E i \in 1 .. Len(air[s]) : ad.payload = air[s][i]
      BY <1>2, AdvertisementTypes
    <2>2. air' = air
      BY <2>1 DEF Receive
    <2>3. CASE Accept(s, ad) /\ ReportChanged(state[s], ad.payload)
      BY <2>1, <2>2, <2>3, Reported DEF LatestReport!Next
    <2>4. CASE Accept(s, ad) /\ ~ReportChanged(state[s], ad.payload)
      <3>1. state' = [state EXCEPT ![s] = Accepted(state[s], ad)] /\ state[s] \in States
        BY <2>4 DEF Accept, TypeOK
      <3>2. /\ Accepted(state[s], ad).report = state[s].report
            /\ Accepted(state[s], ad).pending = state[s].pending
        BY <2>4, <3>1, AcceptedFields
      <3> QED BY <2>2, <3>1, <3>2, NothingReported DEF TypeOK
    <2>5. CASE UNCHANGED state
      BY <2>2, <2>5, NothingReported
    <2> QED BY <2>1, <2>3, <2>4, <2>5 DEF Receive
  <1>3. ASSUME NEW s \in Serials, NEW locked \in BOOLEAN, CommandSucceeded(s, locked)
        PROVE  LatestReport!Next
    <2>1. state' = [state EXCEPT ![s].pending = locked] /\ air' = air
      BY <1>3 DEF CommandSucceeded
    <2>2. locked # None
      BY NoneFacts
    <2>3. /\ \A r \in Serials : state'[r].report = state[r].report
          /\ \A r \in Serials \ {s} : state'[r] = state[r]
          /\ state'[s].pending = locked
      BY <2>1 DEF TypeOK, States
    <2>4. [r \in Serials |-> IsLocked(state[r])]' =
            [[r \in Serials |-> IsLocked(state[r])] EXCEPT ![s] = locked]
      BY <2>2, <2>3 DEF IsLocked
    <2>5. UNCHANGED <<[r \in Serials |-> OnAir(r)], [r \in Serials |-> state[r].report]>>
      BY <2>1, <2>3 DEF OnAir
    <2>6. LatestReport!Command(s)
      BY <2>4, <2>5 DEF LatestReport!Command, OnAir
    <2> QED BY <2>6 DEF LatestReport!Next
  <1>4. ASSUME NEW s \in Serials, NEW values \in [SettingNames -> SettingValues],
               SettingsVerified(s, values)
        PROVE  UNCHANGED LatestReport!vars
    <2>1. state' = [state EXCEPT ![s] = [@ EXCEPT !.values = values]] /\ air' = air
      BY <1>4 DEF SettingsVerified, ApplySettings
    <2>2. \A r \in Serials : /\ state'[r].report = state[r].report
                             /\ state'[r].pending = state[r].pending
      BY <2>1 DEF TypeOK, States
    <2> QED BY <2>1, <2>2, NothingReported
  <1>5. CASE RefreshStates
    <2> DEFINE polled == {r \in Serials : state[r].address /\ newInfo[r]}
    <2>1. /\ state' = [r \in Serials |->
                         IF r \in polled THEN Seen(state[r], history[r]) ELSE state[r]]
          /\ air' = air
      BY <1>5 DEF RefreshStates
    <2>2. \A r \in polled : history[r] \in Advertisements /\ state[r] \in States
      BY DEF TypeOK, HistoryInv
    <2>3. \A r \in polled : /\ Seen(state[r], history[r]).report = state[r].report
                            /\ Seen(state[r], history[r]).pending = state[r].pending
      BY <2>2, SeenFields
    <2> HIDE DEF polled
    <2> QED BY <2>1, <2>3, NothingReported
  <1>6. CASE Tick
    <2>1. \A r \in Serials : /\ state'[r] = [state[r] EXCEPT !.age = OlderAge(@)]
                             /\ state[r] \in States
      BY <1>6 DEF Tick, TypeOK
    <2>2. \A r \in Serials : /\ state'[r].report = state[r].report
                             /\ state'[r].pending = state[r].pending
      BY <2>1 DEF States
    <2>3. air' = air
      BY <1>6 DEF Tick
    <2> QED BY <2>2, <2>3, NothingReported
  <1>7. ASSUME UNCHANGED <<air, state>>
        PROVE  UNCHANGED LatestReport!vars
    BY <1>7, NothingReported
  <1>8. ASSUME NEW s \in Serials, RefreshKey(s) \/ Forget(s) \/ WriteEntities(s)
        PROVE  UNCHANGED LatestReport!vars
    BY <1>7, <1>8 DEF RefreshKey, Forget, WriteEntities
  <1>9. CASE CheckStale \/ Stop \/ UNCHANGED vars
    BY <1>7, <1>9 DEF CheckStale, Stop, vars
  <1> QED BY <1>1, <1>2, <1>3, <1>4, <1>5, <1>6, <1>8, <1>9
          DEF Next, MonitorStep, Stopped

\* A lock starts with one payload on the air and no report,
LEMMA InitLatest == Init => LatestReport!Init
  <1> SUFFICES ASSUME Init PROVE LatestReport!Init
    OBVIOUS
  <1>1. \A s \in Serials : OnAir(s) = {air[s][1]}
    <2> SUFFICES ASSUME NEW s \in Serials PROVE OnAir(s) = {air[s][1]}
      OBVIOUS
    <2>1. Len(air[s]) = 1
      BY DEF Init
    <2>2. \A i : i \in 1 .. Len(air[s]) <=> i = 1
      BY <2>1
    <2> QED BY <2>2 DEF OnAir
  <1>2. \A s \in Serials : state[s].report = None /\ IsLocked(state[s]) = None
    BY DEF Init, NewState, IsLocked
  <1> QED BY <1>1, <1>2 DEF LatestReport!Init, OnAir

\* ... and goes on as LatestReport says, for every counter, window and number of wraps:
\* reports are payloads of the lock and go forward only, and a late payload undoes
\* neither a report nor what a command showed.
THEOREM MonitorImplementsLatestReport == Spec => ReportIsLatest
  <1>1. TypeOK /\ HistoryInv /\ (\A s \in Serials : GateInv(s)) /\ [Next]_vars
          => [LatestReport!Next]_(LatestReport!vars)
    BY StepLatest
  <1> QED BY <1>1, InitLatest, GateInvariance, PTL
          DEF Spec, ReportIsLatest, LatestReport!Spec

-----------------------------------------------------------------------------
(* What the key decodes.                                                   *)

\* While all that is received decodes: an advertisement the poll has not seen yet is
\* no older than the last poll, and the manager holds none the report is behind of.
HeardInv(s) ==
  ~undecoded[s] =>
    /\ newInfo[s] => validAge[s] # None /\ validAge[s] <= sincePoll
    /\ state[s].age # None => validAge[s] # None /\ validAge[s] <= state[s].age + 1
    /\ history[s] # None => /\ state[s].address
                            /\ state[s].report # None
                            /\ state[s].report.gen >= history[s].payload.gen

\* An advertisement that decodes is heard, and makes the device fresh: from now on
\* what was received before does not matter,
LEMMA AcceptHeard ==
  ASSUME TypeOK, NEW s \in Serials, NEW ad \in Advertisements, Receive(s, ad),
         Valid(s, ad), ~Suppressed(s, ad),
         GateInv(s), NEW i \in 1 .. Len(air[s]), ad.payload = air[s][i]
  PROVE  HeardInv(s)'
  <1>1. /\ validAge'[s] = 0 /\ history'[s] = ad
        /\ state'[s] = Accepted(state[s], ad) /\ newInfo'[s] = FALSE
    BY DEF Receive, Accept, TypeOK
  <1>2. 0 # None /\ state[s] \in States
    BY NoneFacts DEF TypeOK
  <1>3. \A st \in States :
          /\ Accepted(st, ad).age = 0 /\ Accepted(st, ad).address = TRUE
          /\ Accepted(st, ad).report =
               IF ReportChanged(st, ad.payload) THEN ad.payload ELSE st.report
    BY AcceptedFields
  <1>4. /\ state'[s].age = 0 /\ state'[s].address = TRUE
        /\ state'[s].report =
             IF ReportChanged(state[s], ad.payload) THEN ad.payload ELSE state[s].report
    BY <1>1, <1>2, <1>3
  <1>5. ReportChanged(state[s], ad.payload) <=>
          state[s].report = None \/ ad.payload.gen > state[s].report.gen
    BY ReportFollows
  <1>6. /\ ad.payload.gen \in Nat /\ ad.payload # None
        /\ state[s].report # None => state[s].report.gen \in Nat
    BY <1>2, NoneFacts DEF Advertisements, States, Payloads
  <1>7. state'[s].report # None /\ state'[s].report.gen >= ad.payload.gen
    BY <1>4, <1>5, <1>6
  <1> QED BY <1>1, <1>2, <1>4, <1>7 DEF HeardInv

\* ... and one the manager keeps to itself is known already, or does not decode.
LEMMA IgnoreHeard ==
  ASSUME TypeOK, NEW s \in Serials, NEW ad \in Advertisements, Receive(s, ad),
         ~(Valid(s, ad) /\ ~Suppressed(s, ad)), HeardInv(s)
  PROVE  HeardInv(s)'
  <1>1. /\ state' = state /\ history'[s] = ad
        /\ undecoded'[s] = (undecoded[s] \/ ~Valid(s, ad))
    BY DEF Receive, TypeOK
  <1> SUFFICES ASSUME ~undecoded'[s] PROVE HeardInv(s)'
    BY DEF HeardInv
  <1>2. Valid(s, ad) /\ Suppressed(s, ad) /\ ~undecoded[s]
    BY <1>1
  <1>3. validAge'[s] = 0 /\ sincePoll' = sincePoll /\ sincePoll \in 0 .. 1
    BY <1>2 DEF Receive, timers, TypeOK
  <1>4. 0 # None /\ (state[s].age # None => state[s].age \in Nat)
    BY NoneFacts DEF TypeOK, States
  <1> QED BY <1>1, <1>2, <1>3, <1>4 DEF HeardInv, Suppressed

\* A step that leaves the device alone, or only lets the manager forget it.
LEMMA HeardKept ==
  ASSUME NEW s \in Serials, HeardInv(s), sincePoll' = sincePoll,
         validAge'[s] = validAge[s], undecoded'[s] = undecoded[s],
         state'[s].age = state[s].age,
         state'[s].address = state[s].address, state'[s].report = state[s].report,
         \/ newInfo'[s] = newInfo[s] /\ history'[s] = history[s]
         \/ newInfo'[s] = FALSE /\ history'[s] = None
  PROVE  HeardInv(s)'
  BY DEF HeardInv

\* ... the poll refreshes what was heard since the last poll,
LEMMA PollHeard ==
  ASSUME TypeOK, HistoryInv, RefreshStates, NEW s \in Serials, HeardInv(s)
  PROVE  HeardInv(s)'
  <1> DEFINE polled == {r \in Serials : state[r].address /\ newInfo[r]}
  <1>1. /\ state'[s] = IF s \in polled THEN Seen(state[s], history[s]) ELSE state[s]
        /\ newInfo'[s] = (newInfo[s] /\ s \notin polled)
        /\ sincePoll = 1
        /\ UNCHANGED <<history, validAge, undecoded>>
    BY DEF RefreshStates
  <1> SUFFICES ASSUME ~undecoded[s] PROVE HeardInv(s)'
    BY <1>1 DEF HeardInv
  <1>2. newInfo[s] => s \in polled
    BY DEF HeardInv, HistoryInv
  <1>3. ~newInfo'[s]
    BY <1>1, <1>2
  <1>4. CASE s \notin polled
    BY <1>1, <1>3, <1>4 DEF HeardInv
  <1>5. CASE s \in polled
    <2>1. history[s] \in Advertisements /\ state[s] \in States /\ newInfo[s]
      BY <1>5 DEF TypeOK, HistoryInv
    <2>2. \A st \in States, ad \in Advertisements :
            /\ Seen(st, ad).age = 0
            /\ Seen(st, ad).report = st.report
            /\ Seen(st, ad).address = st.address
      BY SeenFields
    <2>3. /\ state'[s].age = 0
          /\ state'[s].report = state[s].report
          /\ state'[s].address = state[s].address
      BY <1>1, <1>5, <2>1, <2>2
    <2>4. validAge'[s] # None /\ validAge'[s] <= 1
      BY <1>1, <2>1 DEF HeardInv
    <2> QED BY <1>1, <1>3, <2>3, <2>4 DEF HeardInv
  <1> QED BY <1>4, <1>5

\* ... and time passes for what was heard and for the state alike.
LEMMA TickHeard ==
  ASSUME TypeOK, Tick, NEW s \in Serials, HeardInv(s)
  PROVE  HeardInv(s)'
  <1>1. /\ state'[s] = [state[s] EXCEPT !.age = OlderAge(@)]
        /\ validAge'[s] = OlderAge(validAge[s])
        /\ sincePoll' = sincePoll + 1
        /\ UNCHANGED <<history, newInfo, undecoded>>
    BY DEF Tick
  <1> SUFFICES ASSUME ~undecoded[s] PROVE HeardInv(s)'
    BY <1>1 DEF HeardInv
  <1>2. /\ state[s] \in States /\ state[s].age \in Ages /\ validAge[s] \in Ages
        /\ sincePoll \in 0 .. 1
    BY DEF TypeOK, States, Ages
  <1>3. /\ state'[s].age = OlderAge(state[s].age)
        /\ state'[s].address = state[s].address
        /\ state'[s].report = state[s].report
    BY <1>1, <1>2 DEF States
  <1>4. /\ state[s].age # None => state[s].age \in 0 .. MaxAge
        /\ validAge[s] # None => validAge[s] \in 0 .. MaxAge
    BY <1>2 DEF Ages
  <1>5. /\ state'[s].age = None <=> state[s].age = None
        /\ state[s].age # None =>
             state'[s].age = IF state[s].age = MaxAge THEN MaxAge ELSE state[s].age + 1
        /\ validAge'[s] = None <=> validAge[s] = None
        /\ validAge[s] # None =>
             validAge'[s] = IF validAge[s] = MaxAge THEN MaxAge ELSE validAge[s] + 1
    BY <1>1, <1>2, <1>3, OlderAgeType
  <1>6. newInfo[s] => validAge'[s] # None /\ validAge'[s] <= sincePoll'
    BY <1>1, <1>2, <1>4, <1>5, TimeFacts DEF HeardInv
  <1>7. state'[s].age # None => validAge'[s] # None /\ validAge'[s] <= state'[s].age + 1
    BY <1>4, <1>5, TimeFacts DEF HeardInv
  <1> QED BY <1>1, <1>3, <1>6, <1>7 DEF HeardInv

\* Every step keeps what was heard.
LEMMA StepHeard ==
  ASSUME TypeOK, HistoryInv, [Next]_vars, NEW s \in Serials, GateInv(s), HeardInv(s)
  PROVE  HeardInv(s)'
  <1>1. ASSUME NEW r \in Serials, Regenerate(r) \/ Rekey(r)
        PROVE  HeardInv(s)'
    <2>1. PICK payload \in Payloads : Broadcast(r, payload)
      BY <1>1, NewPayloads
    <2> QED BY <2>1, HeardKept DEF Broadcast, timers, past
  <1>2. ASSUME NEW r \in Serials, ReceiveAny(r)
        PROVE  HeardInv(s)'
    <2>1. PICK ad \in Advertisements :
            /\ Receive(r, ad)
            /\ \E i \in 1 .. Len(air[r]) : ad.payload = air[r][i]
      BY <1>2, AdvertisementTypes
    <2>2. CASE r = s
      BY <2>1, <2>2, AcceptHeard, IgnoreHeard
    <2>3. CASE r # s
      <3>1. /\ state'[s] = state[s] /\ newInfo'[s] = newInfo[s]
            /\ undecoded'[s] = undecoded[s]
        BY <2>1, <2>3 DEF Receive, Accept, TypeOK
      <3>2. history'[s] = history[s] /\ validAge'[s] = validAge[s] /\ sincePoll' = sincePoll
        BY <2>1, <2>3 DEF Receive, TypeOK, timers
      <3> QED BY <3>1, <3>2, HeardKept
    <2> QED BY <2>2, <2>3
  <1>3. ASSUME NEW r \in Serials, Forget(r)
        PROVE  HeardInv(s)'
    <2>1. /\ history' = [history EXCEPT ![r] = None]
          /\ newInfo' = [newInfo EXCEPT ![r] = FALSE]
          /\ UNCHANGED <<state, validAge, undecoded, sincePoll>>
      BY <1>3 DEF Forget, timers, past
    <2> QED BY <2>1, HeardKept DEF TypeOK
  <1>4. ASSUME NEW r \in Serials, RefreshKey(r) \/ WriteEntities(r)
        PROVE  HeardInv(s)'
    <2>1. UNCHANGED <<state, history, newInfo, validAge, undecoded, sincePoll>>
      BY <1>4 DEF RefreshKey, WriteEntities, timers, past
    <2> QED BY <2>1, HeardKept
  <1>5. ASSUME NEW r \in Serials, NEW locked \in BOOLEAN, CommandSucceeded(r, locked)
        PROVE  HeardInv(s)'
    <2>1. /\ state' = [state EXCEPT ![r].pending = locked]
          /\ UNCHANGED <<history, newInfo, validAge, undecoded, sincePoll>>
      BY <1>5 DEF CommandSucceeded, timers, past
    <2>2. /\ state'[s].report = state[s].report /\ state'[s].age = state[s].age
          /\ state'[s].address = state[s].address
      BY <2>1 DEF TypeOK, States
    <2> QED BY <2>1, <2>2, HeardKept
  <1>6. ASSUME NEW r \in Serials, NEW values \in [SettingNames -> SettingValues],
               SettingsVerified(r, values)
        PROVE  HeardInv(s)'
    <2>1. /\ state' = [state EXCEPT ![r] = [@ EXCEPT !.values = values]]
          /\ UNCHANGED <<history, newInfo, validAge, undecoded, sincePoll>>
      BY <1>6 DEF SettingsVerified, ApplySettings, timers, past
    <2>2. /\ state'[s].report = state[s].report /\ state'[s].age = state[s].age
          /\ state'[s].address = state[s].address
      BY <2>1 DEF TypeOK, States
    <2> QED BY <2>1, <2>2, HeardKept
  <1>7. CASE RefreshStates
    BY <1>7, PollHeard
  <1>8. CASE Tick
    BY <1>8, TickHeard
  <1>9. CASE CheckStale \/ Stop \/ UNCHANGED vars
    <2>1. UNCHANGED <<state, history, newInfo, validAge, undecoded, sincePoll>>
      BY <1>9 DEF CheckStale, Stop, vars, timers, past
    <2> QED BY <2>1, HeardKept
  <1> QED BY <1>1, <1>2, <1>3, <1>4, <1>5, <1>6, <1>7, <1>8, <1>9
          DEF Next, MonitorStep, Stopped

\* All of it, always.
LEMMA HeardInvariance == Spec => [](TypeOK /\ \A s \in Serials : HeardInv(s))
  <1> DEFINE HInv == /\ TypeOK /\ HistoryInv
                     /\ \A s \in Serials : GateInv(s) /\ HeardInv(s)
  <1>1. Init => HInv
    <2>1. Init => \A s \in Serials : HeardInv(s)
      BY DEF Init, HeardInv, NewState
    <2> QED BY <2>1, InitTypes, InitGate
  <1>2. HInv /\ [Next]_vars => HInv'
    BY StepTypes, StepGate, StepHeard
  <1>3. HInv => TypeOK /\ \A s \in Serials : HeardInv(s)
    OBVIOUS
  <1> QED BY <1>1, <1>2, <1>3, PTL DEF Spec

\* The gate never rejects news: the report is at least as new as the last advertisement
\* the manager has received, from the first accepted one to the next that the cached
\* key does not decode, however often the lock is enrolled again.
THEOREM NewsIsReported == Spec => []ReceivedIsReported
  <1>1. TypeOK /\ (\A s \in Serials : HeardInv(s)) => ReceivedIsReported
    BY DEF HeardInv, ReceivedIsReported
  <1> QED BY <1>1, HeardInvariance, PTL

\* A fresh device has been heard within the timeout, unless an advertisement came that
\* did not decode: the poll makes it look at most one tick younger than it is.
THEOREM FreshDevicesWereHeard == Spec => []FreshIsHeard
  <1>1. TypeOK /\ (\A s \in Serials : HeardInv(s)) => FreshIsHeard
    <2> SUFFICES ASSUME TypeOK, NEW s \in Serials, HeardInv(s), IsFresh(state[s]),
                        ~undecoded[s]
                 PROVE  validAge[s] # None /\ validAge[s] <= Timeout
      BY DEF FreshIsHeard
    <2>1. state[s].age # None /\ state[s].age < Timeout
      BY DEF IsFresh
    <2>2. state[s].age \in Nat /\ validAge[s] \in Ages
      BY <2>1 DEF TypeOK, States
    <2>3. validAge[s] # None /\ validAge[s] <= state[s].age + 1
      BY <2>1 DEF HeardInv
    <2> QED BY <2>1, <2>2, <2>3, TimeFacts DEF Ages
  <1> QED BY <1>1, HeardInvariance, PTL
=============================================================================
