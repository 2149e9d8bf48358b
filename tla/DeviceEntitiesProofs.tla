------------------------ MODULE DeviceEntitiesProofs ------------------------
(***************************************************************************)
(* Theorems about DeviceEntities, for any settings, any values and any     *)
(* number of payload generations.                                          *)
(*                                                                         *)
(* LagInv strengthens OnlyLagsBehind: an optimistic state that no newer    *)
(* report has overtaken is the lock's own position while the last report   *)
(* is the payload on the air.  SettingsInv strengthens SettingsShownAreSet *)
(* and rests on AnswerInv: an answer on its way is what the lock is set to *)
(* now, unless the cache could not know, or a write that is applied after  *)
(* it has changed that; QueueInv keeps the answers in their order.         *)
(* ProgressIsCalled needs the types of the calls' targets only.            *)
(***************************************************************************)
EXTENDS DeviceEntities, DeviceStateProofs, SequenceTheorems

CallInv ==
  /\ target \in [Callers -> BOOLEAN \cup (SettingNames \X SettingValues) \cup {None}]
  /\ answer \in [Callers -> Nat \cup Readings \cup {None}]
  /\ pc[Operator] = "call" => target[Operator] \in BOOLEAN
  /\ pc[Writer] = "call" => target[Writer] \in SettingNames \X SettingValues
  /\ \A c \in Callers : answer[c] # None => pc[c] = "closing"

-----------------------------------------------------------------------------
(* Types.                                                                  *)

\* The three callers differ, and None is none of the values.
LEMMA Facts ==
  /\ Operator # Writer /\ Operator # Reader /\ Writer # Reader
  /\ Callers = {Operator, Writer, Reader}
  /\ None \notin SettingValues /\ None \notin BOOLEAN /\ None \notin Nat
  /\ None \notin Payloads /\ None \notin Readings /\ Rssi \in Rssis
  BY CallersAssumption, NoneAssumption, NoReportAssumption, RssisAssumption
     DEF Callers, Rssi

\* A payload regenerated at a position with some flags.
Regenerated(q, position, flags) ==
  [q EXCEPT !.gen = @ + 1, !.locked = position, !.flags = flags]

\* Such a payload is a payload.
LEMMA RegeneratedType ==
  ASSUME NEW q \in Payloads, NEW position \in BOOLEAN, NEW flags \in SUBSET SettingNames
  PROVE  /\ Regenerated(q, position, flags) \in Payloads
         /\ Regenerated(q, position, flags).gen = q.gen + 1
         /\ Regenerated(q, position, flags).locked = position
         /\ Regenerated(q, position, flags).flags = flags
  <1>1. \A n \in Nat :
          /\ [q EXCEPT !.gen = n, !.locked = position, !.flags = flags] \in Payloads
          /\ [q EXCEPT !.gen = n, !.locked = position, !.flags = flags].gen = n
          /\ [q EXCEPT !.gen = n, !.locked = position, !.flags = flags].locked = position
          /\ [q EXCEPT !.gen = n, !.locked = position, !.flags = flags].flags = flags
    BY DEF Payloads
  <1>2. q.gen + 1 \in Nat
    BY DEF Payloads
  <1> QED BY <1>1, <1>2 DEF Regenerated

\* The lock's payload after a move.
LEMMA Moved ==
  ASSUME NEW position \in BOOLEAN, payload \in Payloads, MoveTo(position)
  PROVE  /\ payload' \in Payloads /\ locked' = position
         /\ position = locked => payload' = payload
         /\ position # locked => /\ payload'.gen = payload.gen + 1
                                 /\ payload'.locked = position
                                 /\ payload'.flags = FlagsOf(config)
  <1>1. FlagsOf(config) \in SUBSET SettingNames
    BY DEF FlagsOf
  <1>2. /\ locked' = position
        /\ payload' = IF position = locked THEN payload
                      ELSE Regenerated(payload, position, FlagsOf(config))
    BY DEF MoveTo, Regenerated
  <1> QED BY <1>1, <1>2, RegeneratedType

\* What the monitor hears now.
LEMMA Heard ==
  ASSUME payload \in Payloads
  PROVE  /\ [payload |-> payload, rssi |-> Rssi] \in Advertisements
         /\ [payload |-> payload, rssi |-> Rssi].payload = payload
  BY Facts DEF Advertisements

\* An answer that no longer is sound.
LEMMA Unsound ==
  \A r \in Readings :
    /\ [r EXCEPT !.sound = FALSE] \in Readings
    /\ [r EXCEPT !.sound = FALSE].values = r.values
    /\ [r EXCEPT !.sound = FALSE].gen = r.gen
    /\ ~[r EXCEPT !.sound = FALSE].sound
  BY DEF Readings

\* A state of the device with another optimistic state.
LEMMA PendingField ==
  ASSUME NEW st \in States, NEW p \in BOOLEAN \cup {None}
  PROVE  /\ [st EXCEPT !.pending = p] \in States
         /\ [st EXCEPT !.pending = p].pending = p
         /\ [st EXCEPT !.pending = p].report = st.report
         /\ [st EXCEPT !.pending = p].values = st.values
  <1> DEFINE B == BOOLEAN \cup {None}
  <1>1. p \in B /\ B = BOOLEAN \cup {None}
    OBVIOUS
  <1> HIDE DEF B
  <1>2. [st EXCEPT !.pending = p] \in States
    BY <1>1 DEF States
  <1>3. [st EXCEPT !.pending = p].report = st.report
    BY <1>1 DEF States
  <1>4. [st EXCEPT !.pending = p].values = st.values
    BY <1>1 DEF States
  <1>5. [st EXCEPT !.pending = p].pending = p
    BY <1>1 DEF States
  <1> QED BY <1>2, <1>3, <1>4, <1>5

\* A state of the device with other values of its settings.
LEMMA ValuesField ==
  ASSUME NEW st \in States, NEW v \in Configs
  PROVE  /\ [st EXCEPT !.values = v] \in States
         /\ [st EXCEPT !.values = v].values = v
         /\ [st EXCEPT !.values = v].report = st.report
         /\ [st EXCEPT !.values = v].pending = st.pending
  <1> DEFINE V == [SettingNames -> SettingValues \cup {None}]
  <1>1. v \in V /\ V = [SettingNames -> SettingValues \cup {None}]
    BY DEF Configs
  <1> HIDE DEF V
  <1>2. [st EXCEPT !.values = v] \in States
    BY <1>1 DEF States
  <1> QED BY <1>1, <1>2 DEF States

\* What a call reads back.
LEMMA SettingsType ==
  ASSUME NEW values \in Configs, payload \in Payloads
  PROVE  /\ Settings(values) \in Readings /\ Settings(values) # None
         /\ Settings(values).values = values /\ Settings(values).gen = payload.gen
         /\ Settings(values).sound
  <1>1. payload.gen \in Nat
    BY DEF Payloads
  <1>2. Settings(values) \in Readings
    BY <1>1 DEF Settings, Readings
  <1>3. Settings(values).values = values /\ Settings(values).gen = payload.gen
    BY DEF Settings
  <1>4. Settings(values).sound
    BY DEF Settings
  <1> QED BY <1>2, <1>3, <1>4, Facts

\* A setting is a configuration again.
LEMMA SetToType ==
  ASSUME config \in Configs, NEW setting \in SettingNames \X SettingValues, SetTo(setting)
  PROVE  config' \in Configs
  BY DEF SetTo, Configs

TypeInv == TypeOK /\ CallInv

\* The lock, and others, move and change it; the monitor hears it.
LEMMA OutsideType ==
  ASSUME TypeInv, Turn \/ Reconfigure \/ Receive
  PROVE  TypeInv'
  <1> USE Facts
  <1>1. CASE Turn
    <2>1. payload \in Payloads /\ locked \in BOOLEAN /\ MoveTo(~locked)
      BY <1>1 DEF TypeInv, TypeOK, Turn
    <2>2. payload' \in Payloads /\ locked' \in BOOLEAN
      BY <2>1, Moved
    <2> QED BY <1>1, <2>2 DEF TypeInv, TypeOK, CallInv, Turn, calls, history
  <1>2. CASE Reconfigure
    <2>1. config' \in Configs /\ disturbed' \in BOOLEAN
          /\ UNCHANGED <<locked, payload, state, pc, target, order, inProgress, overtaken,
                         answeredGen, cut>>
      BY <1>2 DEF Reconfigure, Unnoticed
    <2>2. \A c \in Callers :
            answer'[c] = IF c = Operator \/ answer[c] = None THEN answer[c]
                         ELSE [answer[c] EXCEPT !.sound = FALSE]
      BY <1>2 DEF Reconfigure, Unnoticed
    <2>3. /\ answer'[Operator] \in Nat \cup {None}
          /\ {answer'[Writer], answer'[Reader]} \subseteq Readings \cup {None}
          /\ \A c \in Callers : answer'[c] # None => answer[c] # None
      BY <2>2, Unsound DEF TypeInv, TypeOK
    <2>4. answer' \in [Callers -> Nat \cup Readings \cup {None}]
      BY <1>2, <2>3 DEF Reconfigure, Unnoticed
    <2> QED BY <2>1, <2>3, <2>4 DEF TypeInv, TypeOK, CallInv
  <1>3. CASE Receive
    <2>1. state' \in States
      BY <1>3, AcceptedType, Heard DEF Receive, TypeInv, TypeOK
    <2>2. overtaken' \in BOOLEAN /\ disturbed' \in BOOLEAN
      BY <1>3 DEF Receive
    <2> QED BY <1>3, <2>1, <2>2 DEF TypeInv, TypeOK, CallInv, Receive, calls
  <1> QED BY <1>1, <1>2, <1>3

\* A call begins.
LEMMA CallType ==
  ASSUME TypeInv, CallLock \/ CallSelect \/ CallRead
  PROVE  TypeInv'
  <1> USE Facts
  <1>1. ASSUME NEW c \in Callers, NEW what, Call(c, what),
               c = Operator => what \in BOOLEAN,
               c = Writer => what \in SettingNames \X SettingValues,
               c = Reader => what = None,
               inProgress' \in InProgress, cut' \in BOOLEAN,
               UNCHANGED <<locked, config, payload, state, order, overtaken, answeredGen,
                           disturbed>>
        PROVE  TypeInv'
    <2>1. /\ pc' \in [Callers -> {"idle", "call", "closing"}]
          /\ target' \in [Callers -> BOOLEAN \cup (SettingNames \X SettingValues) \cup {None}]
          /\ answer' \in [Callers -> Nat \cup Readings \cup {None}]
      BY <1>1 DEF TypeInv, TypeOK, CallInv, Call
    <2>2. \A d \in Callers : /\ pc'[d] = IF d = c THEN "call" ELSE pc[d]
                             /\ target'[d] = IF d = c THEN what ELSE target[d]
                             /\ answer'[d] = IF d = c THEN None ELSE answer[d]
      BY <1>1 DEF TypeInv, TypeOK, CallInv, Call
    <2>3. CallInv'
      BY <1>1, <2>1, <2>2 DEF TypeInv, CallInv
    <2> QED BY <1>1, <2>1, <2>2, <2>3 DEF TypeInv, TypeOK
  <1>2. CASE CallLock
    BY <1>1, <1>2 DEF CallLock, InProgress
  <1>3. CASE CallSelect
    BY <1>1, <1>3 DEF CallSelect, TypeInv, TypeOK, history
  <1>4. CASE CallRead
    BY <1>1, <1>4 DEF CallRead, TypeInv, TypeOK, history
  <1> QED BY <1>2, <1>3, <1>4

\* The session of a call is over, and has set its answer, if any.
LEMMA CloseType ==
  ASSUME TypeInv, NEW c \in Callers, Close(c), locked' \in BOOLEAN, config' \in Configs,
         payload' \in Payloads, disturbed' \in BOOLEAN,
         answer' \in [Callers -> Nat \cup Readings \cup {None}],
         answer'[Operator] \in Nat \cup {None},
         {answer'[Writer], answer'[Reader]} \subseteq Readings \cup {None},
         \A d \in Callers : d # c => (answer'[d] # None => answer[d] # None)
  PROVE  TypeInv'
  <1> USE Facts
  <1>1. /\ pc' \in [Callers -> {"idle", "call", "closing"}] /\ order' \in Seq(Callers)
        /\ \A d \in Callers : pc'[d] = IF d = c THEN "closing" ELSE pc[d]
    BY DEF TypeInv, TypeOK, Close
  <1> QED BY <1>1 DEF TypeInv, TypeOK, CallInv, Close

\* The session does what it was called for, or fails.
LEMMA SessionType ==
  ASSUME TypeInv, Operate \/ Write \/ Read \/ (\E c \in Callers : Fail(c))
  PROVE  TypeInv'
  <1> USE Facts
  <1>1. /\ locked \in BOOLEAN /\ config \in Configs /\ payload \in Payloads
        /\ disturbed \in BOOLEAN /\ answer \in [Callers -> Nat \cup Readings \cup {None}]
        /\ answer[Operator] \in Nat \cup {None}
        /\ {answer[Writer], answer[Reader]} \subseteq Readings \cup {None}
    BY DEF TypeInv, TypeOK, CallInv
  <1>2. pc[Operator] = "call" => target[Operator] \in BOOLEAN
    BY DEF TypeInv, CallInv
  <1>3. pc[Writer] = "call" => target[Writer] \in SettingNames \X SettingValues
    BY DEF TypeInv, CallInv
  <1>4. \A c \in Callers : \A what :
          Answer(c, what) => \A d \in Callers : answer'[d] = IF d = c THEN what ELSE answer[d]
    BY <1>1 DEF Answer
  <1>5. CASE Operate
    <2>1. payload' \in Payloads /\ locked' \in BOOLEAN
      BY <1>1, <1>2, <1>5, Moved DEF Operate, Close
    <2>2. payload'.gen \in Nat
      BY <2>1 DEF Payloads
    <2>3. answer' \in [Callers -> Nat \cup Readings \cup {None}]
      BY <1>1, <1>5, <2>2 DEF Operate, Answer
    <2> QED BY <1>1, <1>4, <1>5, <2>1, <2>2, <2>3, CloseType DEF Operate
  <1>6. CASE Write
    <2>1. config' \in Configs
      BY <1>1, <1>3, <1>6, SetToType DEF Write, Close
    <2>2. Settings(config') \in Readings
      BY <1>1, <2>1, SettingsType
    <2>3. answer' \in [Callers -> Nat \cup Readings \cup {None}]
      BY <1>1, <1>6, <2>2 DEF Write, Answer
    <2> QED BY <1>1, <1>4, <1>6, <2>1, <2>2, <2>3, CloseType DEF Write
  <1>7. CASE Read
    <2>1. Settings(config) \in Readings
      BY <1>1, SettingsType
    <2>2. answer' \in [Callers -> Nat \cup Readings \cup {None}]
      BY <1>1, <1>7, <2>1 DEF Read, Answer
    <2> QED BY <1>1, <1>4, <1>7, <2>1, <2>2, CloseType DEF Read
  <1>8. ASSUME NEW c \in Callers, Fail(c) PROVE TypeInv'
    <2>1. CASE UNCHANGED <<locked, config, payload, answer, disturbed>>
      BY <1>1, <1>8, <2>1, CloseType DEF Fail
    <2>2. CASE c = Operator /\ MoveTo(target[c]) /\ UNCHANGED <<config, answer, disturbed>>
      <3>1. payload' \in Payloads /\ locked' \in BOOLEAN
        BY <1>1, <1>2, <1>8, <2>2, Moved DEF Fail, Close
      <3> QED BY <1>1, <1>8, <2>2, <3>1, CloseType DEF Fail
    <2>3. CASE c = Writer /\ SetTo(target[c]) /\ Unnoticed /\ UNCHANGED <<locked, payload>>
      <3>1. config' \in Configs
        BY <1>1, <1>3, <1>8, <2>3, SetToType DEF Fail, Close
      <3>2. \A d \in Callers :
              answer'[d] = IF d = Operator \/ answer[d] = None THEN answer[d]
                           ELSE [answer[d] EXCEPT !.sound = FALSE]
        BY <2>3 DEF Unnoticed
      <3>3. /\ answer'[Operator] \in Nat \cup {None}
            /\ {answer'[Writer], answer'[Reader]} \subseteq Readings \cup {None}
            /\ \A d \in Callers : answer'[d] # None => answer[d] # None
        BY <1>1, <3>2, Unsound
      <3>4. answer' \in [Callers -> Nat \cup Readings \cup {None}]
        BY <2>3, <3>3 DEF Unnoticed
      <3> QED BY <1>1, <1>8, <2>3, <3>1, <3>3, <3>4, CloseType DEF Fail, Unnoticed
    <2> QED BY <1>8, <2>1, <2>2, <2>3 DEF Fail
  <1> QED BY <1>5, <1>6, <1>7, <1>8

\* The call ends.
LEMMA EndType ==
  ASSUME TypeInv, EndLock \/ EndSettings
  PROVE  TypeInv'
  <1> USE Facts
  <1>1. ASSUME NEW c \in Callers, End(c), state' \in States, inProgress' \in InProgress,
               overtaken' \in BOOLEAN, answeredGen' \in Nat, disturbed' \in BOOLEAN,
               UNCHANGED <<locked, config, payload, cut>>
        PROVE  TypeInv'
    <2>1. /\ pc' \in [Callers -> {"idle", "call", "closing"}] /\ order' \in Seq(Callers)
          /\ target' \in [Callers -> BOOLEAN \cup (SettingNames \X SettingValues) \cup {None}]
          /\ answer' \in [Callers -> Nat \cup Readings \cup {None}]
      BY <1>1 DEF TypeInv, TypeOK, CallInv, End
    <2>2. \A d \in Callers : /\ pc'[d] = IF d = c THEN "idle" ELSE pc[d]
                             /\ target'[d] = IF d = c THEN None ELSE target[d]
                             /\ answer'[d] = IF d = c THEN None ELSE answer[d]
      BY <1>1 DEF TypeInv, TypeOK, CallInv, End
    <2>3. CallInv'
      BY <2>1, <2>2 DEF TypeInv, CallInv
    <2> QED BY <1>1, <2>1, <2>2, <2>3 DEF TypeInv, TypeOK
  <1>2. state \in States /\ answeredGen \in Nat /\ overtaken \in BOOLEAN /\ disturbed \in BOOLEAN
    BY DEF TypeInv, TypeOK
  <1>3. CASE EndLock
    <2>1. CASE answer[Operator] = None
      BY <1>1, <1>2, <1>3, <2>1 DEF EndLock, InProgress
    <2>2. CASE answer[Operator] # None
      <3>1. [state EXCEPT !.pending = target[Operator]] \in States
        BY <1>2, PendingField DEF TypeInv, TypeOK
      <3> QED BY <1>1, <1>2, <1>3, <2>2, <3>1 DEF EndLock, InProgress
    <2> QED BY <2>1, <2>2
  <1>4. ASSUME NEW c \in {Writer, Reader}, End(c), Apply(c),
               UNCHANGED <<locked, config, payload, inProgress, overtaken, cut>>
        PROVE  TypeInv'
    <2>1. CASE answer[c] = None
      BY <1>1, <1>2, <1>4, <2>1 DEF Apply, TypeInv, TypeOK
    <2>2. CASE answer[c] # None
      <3>1. answer[c] \in Readings
        BY <2>2 DEF TypeInv, TypeOK
      <3>2. answer[c].values \in Configs /\ answer[c].gen \in Nat /\ answer[c].sound \in BOOLEAN
        BY <3>1 DEF Readings
      <3>3. ApplySettings(state, answer[c].values) \in States
        BY <1>2, <3>2, ValuesField DEF ApplySettings
      <3> QED BY <1>1, <1>2, <1>4, <2>2, <3>2, <3>3 DEF Apply, TypeInv, TypeOK
    <2> QED BY <2>1, <2>2
  <1> QED BY <1>3, <1>4 DEF EndSettings

\* The place of a call in the queue is closed up when it is cancelled.
LEMMA Removed ==
  ASSUME NEW s \in Seq(Callers), NEW k \in 1 .. Len(s)
  PROVE  /\ RemoveAt(s, k) \in Seq(Callers)
         /\ Len(RemoveAt(s, k)) = Len(s) - 1
         /\ \A i \in 1 .. Len(s) - 1 : RemoveAt(s, k)[i] = IF i < k THEN s[i] ELSE s[i + 1]
  <1> DEFINE a == SubSeq(s, 1, k - 1)
             b == SubSeq(s, k + 1, Len(s))
  <1>1. Len(s) \in Nat /\ k \in Nat /\ 1 <= k /\ k <= Len(s)
    OBVIOUS
  <1>2. /\ a \in Seq(Callers) /\ Len(a) = k - 1
        /\ \A i \in 1 .. k - 1 : a[i] = s[i]
    BY <1>1
  <1>3. /\ b \in Seq(Callers) /\ Len(b) = Len(s) - k
        /\ \A i \in 1 .. Len(s) - k : b[i] = s[k + i]
    BY <1>1
  <1> HIDE DEF a, b
  <1>4. /\ a \o b \in Seq(Callers) /\ Len(a \o b) = Len(s) - 1
        /\ \A i \in 1 .. Len(s) - 1 : (a \o b)[i] = IF i < k THEN a[i] ELSE b[i - (k - 1)]
    <2>1. a \o b \in Seq(Callers) /\ Len(a \o b) = Len(a) + Len(b)
      BY <1>2, <1>3, ConcatProperties
    <2>2. \A i \in 1 .. Len(a) + Len(b) :
            (a \o b)[i] = IF i <= Len(a) THEN a[i] ELSE b[i - Len(a)]
      BY <1>2, <1>3, ConcatProperties
    <2>3. Len(a) + Len(b) = Len(s) - 1 /\ Len(a) = k - 1
      BY <1>1, <1>2, <1>3
    <2> QED BY <1>1, <2>1, <2>2, <2>3
  <1>5. \A i \in 1 .. Len(s) - 1 : (a \o b)[i] = IF i < k THEN s[i] ELSE s[i + 1]
    BY <1>1, <1>2, <1>3, <1>4
  <1> QED BY <1>4, <1>5 DEF RemoveAt, a, b

\* The call is cancelled.
LEMMA CancelType ==
  ASSUME TypeInv, NEW c \in Callers, Cancel(c)
  PROVE  TypeInv'
  <1> USE Facts
  <1>1. order' \in Seq(Callers)
    BY Removed DEF Cancel, TypeInv, TypeOK
  <1>2. /\ pc' \in [Callers -> {"idle", "call", "closing"}]
        /\ target' \in [Callers -> BOOLEAN \cup (SettingNames \X SettingValues) \cup {None}]
        /\ \A d \in Callers : /\ pc'[d] = IF d = c THEN "idle" ELSE pc[d]
                             /\ target'[d] = IF d = c THEN None ELSE target[d]
    BY DEF Cancel, TypeInv, TypeOK, CallInv
  <1>3. \A d \in Callers : \/ answer'[d] = IF d = c THEN None ELSE answer[d]
                          \/ /\ d = Reader /\ c # Reader /\ answer[d] # None
                             /\ answer'[d] = [answer[d] EXCEPT !.sound = FALSE]
    <2>1. DOMAIN answer = Callers
      BY DEF TypeInv, CallInv
    <2>2. CASE c = Writer /\ answer[c] # None
      BY <2>1, <2>2 DEF Cancel
    <2>3. CASE ~(c = Writer /\ answer[c] # None)
      BY <2>1, <2>3 DEF Cancel
    <2> QED BY <2>2, <2>3
  <1>4. answer[Reader] # None => /\ answer[Reader] \in Readings
                                 /\ [answer[Reader] EXCEPT !.sound = FALSE] \in Readings
    BY Unsound DEF TypeInv, TypeOK
  <1>5. /\ answer'[Operator] \in Nat \cup {None}
        /\ {answer'[Writer], answer'[Reader]} \subseteq Readings \cup {None}
    BY <1>3, <1>4 DEF TypeInv, TypeOK
  <1>6. answer' \in [Callers -> Nat \cup Readings \cup {None}]
    <2>1. DOMAIN answer' = Callers /\ answer' = [d \in Callers |-> answer'[d]]
      BY DEF Cancel, TypeInv, CallInv
    <2> QED BY <1>5, <2>1
  <1>7. \A d \in Callers : answer'[d] # None => d # c /\ answer[d] # None
    BY <1>3
  <1>8. disturbed' \in BOOLEAN /\ cut' \in BOOLEAN
    BY DEF Cancel, TypeInv, TypeOK
  <1>9. UNCHANGED <<locked, config, payload, state, inProgress, overtaken, answeredGen>>
    BY DEF Cancel
  <1>10. CallInv'
    BY <1>2, <1>6, <1>7 DEF CallInv, TypeInv
  <1> QED BY <1>1, <1>2, <1>5, <1>8, <1>9, <1>10 DEF TypeInv, TypeOK

\* The lock starts with the right types,
LEMMA InitType ==
  ASSUME Init
  PROVE  TypeInv
  <1>1. payload \in Payloads
    BY DEF Init, Payloads
  <1>2. answer[Operator] = None /\ answer[Writer] = None /\ answer[Reader] = None
    BY Facts DEF Init
  <1>3. target[Operator] = None /\ target[Writer] = None /\ target[Reader] = None
    BY Facts DEF Init
  <1>4. /\ target \in [Callers -> BOOLEAN \cup (SettingNames \X SettingValues) \cup {None}]
        /\ answer \in [Callers -> Nat \cup Readings \cup {None}]
        /\ \A c \in Callers : pc[c] = "idle" /\ answer[c] = None
    BY DEF Init
  <1>5. CallInv
    BY <1>4, Facts DEF CallInv
  <1>6. /\ locked \in BOOLEAN /\ config \in Configs /\ state \in States
        /\ pc \in [Callers -> {"idle", "call", "closing"}]
    BY NewStateType DEF Init
  <1>7. /\ order \in Seq(Callers) /\ inProgress \in InProgress /\ answeredGen \in Nat
        /\ overtaken \in BOOLEAN /\ disturbed \in BOOLEAN /\ cut \in BOOLEAN
    <2>1. <<>> \in Seq(Callers) /\ 0 \in Nat
      OBVIOUS
    <2> QED BY <2>1 DEF Init, InProgress
  <1>8. {answer[Writer], answer[Reader]} \subseteq Readings \cup {None}
    BY <1>2
  <1> QED BY <1>1, <1>2, <1>3, <1>5, <1>6, <1>7, <1>8 DEF TypeInv, TypeOK

\* ... and every step keeps them.
LEMMA NextType ==
  ASSUME TypeInv, [Next]_vars
  PROVE  TypeInv'
  <1>1. CASE UNCHANGED vars
    BY <1>1 DEF vars, calls, history, TypeInv, TypeOK, CallInv
  <1> QED BY <1>1, OutsideType, CallType, SessionType, EndType, CancelType DEF Next

\* Every variable keeps its type.
THEOREM TypeCorrect == Spec => []TypeOK
  <1>1. Init => TypeInv
    BY InitType
  <1>2. TypeInv /\ [Next]_vars => TypeInv'
    BY NextType
  <1>3. TypeInv => TypeOK
    BY DEF TypeInv
  <1> QED BY <1>1, <1>2, <1>3, PTL DEF Spec

-----------------------------------------------------------------------------
(* The lock entity is only behind.                                         *)

\* A report is no newer than the payload, and the same is at the same position.
ReportLags ==
  state.report # None =>
    /\ state.report.gen <= payload.gen
    /\ state.report.gen = payload.gen => state.report.locked = locked

\* An operation that succeeded left the lock where it was asked to, until the
\* lock moves again.
AnswerLags ==
  answer[Operator] # None =>
    /\ target[Operator] # None
    /\ answer[Operator] <= payload.gen
    /\ answer[Operator] = payload.gen => target[Operator] = locked

\* An optimistic state is where the lock is, while the last report is current.
PendingLags ==
  /\ state.pending # None /\ ~overtaken
  /\ state.report # None /\ state.report.gen = payload.gen
  => state.pending = locked

LagInv == payload.locked = locked /\ ReportLags /\ AnswerLags /\ PendingLags

\* A move regenerates the payload, or there is none.
LEMMA MovedLag ==
  ASSUME NEW position \in BOOLEAN, payload \in Payloads, payload.locked = locked,
         MoveTo(position)
  PROVE  /\ payload'.locked = locked' /\ locked' = position
         /\ payload'.gen \in Nat /\ payload.gen \in Nat /\ payload'.gen >= payload.gen
         /\ payload'.gen = payload.gen => locked' = locked
  <1>1. payload.gen \in Nat
    BY DEF Payloads
  <1>2. CASE position = locked
    <2>1. payload' = payload /\ locked' = position
      BY <1>2, Moved
    <2> QED BY <1>1, <1>2, <2>1
  <1>3. CASE position # locked
    <2>1. payload'.gen = payload.gen + 1 /\ payload'.locked = position /\ locked' = position
      BY <1>3, Moved
    <2>2. payload'.gen \in Nat /\ payload'.gen > payload.gen
      BY <1>1, <2>1
    <2>3. payload'.gen # payload.gen
      BY <1>1, <2>2
    <2> QED BY <1>1, <2>1, <2>2, <2>3
  <1> QED BY <1>2, <1>3

\* What leaves the entity alone leaves it behind, at most.
LEMMA StillLags ==
  ASSUME TypeInv, LagInv, payload'.locked = locked',
         payload'.gen \in Nat, payload'.gen >= payload.gen,
         payload'.gen = payload.gen => locked' = locked,
         state'.report = state.report, state'.pending = state.pending,
         overtaken' = overtaken,
         \/ answer'[Operator] = None
         \/ answer'[Operator] = answer[Operator] /\ target'[Operator] = target[Operator]
         \/ /\ answer'[Operator] = payload'.gen
            /\ target'[Operator] = locked' /\ target'[Operator] # None
  PROVE  LagInv'
  <1>1. payload.gen \in Nat
    BY DEF TypeInv, TypeOK, Payloads
  <1>2. state.report # None => state.report.gen \in Nat
    BY DEF TypeInv, TypeOK, States, Payloads
  <1>3. answer[Operator] # None => answer[Operator] \in Nat
    BY DEF TypeInv, TypeOK
  <1>4. ReportLags'
    BY <1>1, <1>2 DEF LagInv, ReportLags
  <1>5. AnswerLags'
    BY <1>1, <1>3 DEF LagInv, AnswerLags
  <1>6. PendingLags'
    BY <1>1, <1>2 DEF LagInv, ReportLags, PendingLags
  <1> QED BY <1>4, <1>5, <1>6 DEF LagInv

\* A report that is news clears the optimistic state.
LEMMA ReceiveLags ==
  ASSUME TypeInv, LagInv, Receive
  PROVE  LagInv'
  <1> DEFINE ad == [payload |-> payload, rssi |-> Rssi]
  <1>1. state \in States /\ payload \in Payloads
    BY DEF TypeInv, TypeOK
  <1>2. ad \in Advertisements /\ ad.payload = payload
    BY <1>1, Heard
  <1>3. /\ state' = Accepted(state, ad) /\ UNCHANGED <<locked, payload>>
        /\ overtaken' = (overtaken /\ ~ReportChanged(state, payload))
        /\ answer' = answer /\ target' = target
    BY DEF Receive, calls
  <1> HIDE DEF ad
  <1>4. /\ state'.report = IF ReportChanged(state, payload) THEN payload ELSE state.report
        /\ state'.pending = IF ReportChanged(state, payload) THEN None ELSE state.pending
    BY <1>1, <1>2, <1>3, AcceptedFields
  <1>5. payload.gen \in Nat
    BY <1>1 DEF Payloads
  <1>6. CASE ReportChanged(state, payload)
    <2>1. state'.report = payload /\ state'.pending = None
      BY <1>4, <1>6
    <2>2. ReportLags'
      BY <1>3, <1>5, <2>1 DEF LagInv, ReportLags
    <2>3. AnswerLags' /\ PendingLags' /\ payload'.locked = locked'
      BY <1>3, <2>1 DEF LagInv, AnswerLags, PendingLags
    <2> QED BY <2>2, <2>3 DEF LagInv
  <1>7. CASE ~ReportChanged(state, payload)
    <2>1. UNCHANGED <<state.report, state.pending>>
      BY <1>4, <1>7
    <2>2. ReportLags' /\ AnswerLags' /\ payload'.locked = locked'
      BY <1>3, <2>1 DEF LagInv, ReportLags, AnswerLags
    <2>3. overtaken' => overtaken
      BY <1>3
    <2>4. overtaken => overtaken'
      BY <1>3, <1>7
    <2>5. PendingLags'
      BY <1>3, <2>1, <2>4 DEF LagInv, PendingLags
    <2> QED BY <2>2, <2>5 DEF LagInv
  <1> QED BY <1>6, <1>7

\* The optimistic state is where the lock went, unless a newer report overtook it.
LEMMA EndLockLags ==
  ASSUME TypeInv, LagInv, EndLock
  PROVE  LagInv'
  <1> USE Facts
  <1>1. /\ UNCHANGED <<locked, payload>> /\ payload.locked = locked
        /\ answer'[Operator] = None
    BY DEF EndLock, End, TypeInv, CallInv, LagInv
  <1>2. payload.gen \in Nat /\ state \in States /\ payload.gen >= payload.gen
    BY DEF TypeInv, TypeOK, Payloads
  <1>3. CASE answer[Operator] = None
    <2>1. UNCHANGED <<state, overtaken>>
      BY <1>3 DEF EndLock
    <2> QED BY <1>1, <1>2, <2>1, StillLags
  <1>4. CASE answer[Operator] # None
    <2>1. /\ state' = [state EXCEPT !.pending = target[Operator]]
          /\ overtaken' = (state.report # None /\ state.report.gen > answer[Operator])
      BY <1>4 DEF EndLock
    <2>2. target[Operator] \in BOOLEAN \cup {None}
      BY DEF TypeInv, TypeOK
    <2>3. state'.pending = target[Operator] /\ state'.report = state.report
      BY <1>2, <2>1, <2>2, PendingField
    <2>4. answer[Operator] \in Nat
      BY <1>4 DEF TypeInv, TypeOK
    <2>5. ReportLags'
      BY <1>1, <2>3 DEF LagInv, ReportLags
    <2>6. AnswerLags'
      BY <1>1 DEF AnswerLags
    <2>7. ASSUME ~overtaken', state.report # None, state.report.gen = payload.gen
          PROVE  target[Operator] = locked
      <3>1. ~(payload.gen > answer[Operator])
        BY <2>1, <2>7
      <3>2. answer[Operator] = payload.gen
        BY <1>2, <1>4, <2>4, <3>1 DEF LagInv, AnswerLags
      <3> QED BY <1>4, <3>2 DEF LagInv, AnswerLags
    <2>8. PendingLags'
      BY <1>1, <2>3, <2>7 DEF PendingLags
    <2> QED BY <1>1, <2>5, <2>6, <2>8 DEF LagInv
  <1> QED BY <1>3, <1>4

\* The lock entity is behind the lock only while there is news on the air
\* (pending_locked and the report in async_lock, async_unlock and _accept).
THEOREM EntityOnlyLagsBehind == Spec => []OnlyLagsBehind
  <1> USE Facts
  <1>1. Init => TypeInv /\ LagInv
    <2> SUFFICES ASSUME Init PROVE LagInv
      BY InitType
    <2>1. payload.locked = locked
      BY DEF Init
    <2>2. state.report = None /\ state.pending = None
      BY DEF Init, NewState
    <2>3. answer[Operator] = None
      BY DEF Init
    <2> QED BY <2>1, <2>2, <2>3 DEF LagInv, ReportLags, AnswerLags, PendingLags
  <1>2. TypeInv /\ LagInv /\ [Next]_vars => TypeInv' /\ LagInv'
    <2> SUFFICES ASSUME TypeInv, LagInv, [Next]_vars PROVE LagInv'
      BY NextType
    <2>1. /\ payload \in Payloads /\ payload.gen \in Nat /\ payload.locked = locked
          /\ locked \in BOOLEAN /\ state \in States /\ payload.gen >= payload.gen
      BY DEF TypeInv, TypeOK, LagInv, Payloads
    <2>2. answer \in [Callers -> Nat \cup Readings \cup {None}] /\ DOMAIN target = Callers
      BY DEF TypeInv, CallInv
    <2>3. pc[Operator] = "call" => target[Operator] \in BOOLEAN /\ target[Operator] # None
      BY DEF TypeInv, CallInv
    <2>4. CASE UNCHANGED vars
      <3>1. UNCHANGED <<locked, payload, state, answer, target, overtaken>>
        BY <2>4 DEF vars, calls, history
      <3> QED BY <2>1, <3>1, StillLags
    <2>5. CASE Turn
      <3>1. /\ MoveTo(~locked) /\ UNCHANGED <<state, answer, target, overtaken>>
            /\ (~locked) \in BOOLEAN
        BY <2>5, <2>1 DEF Turn, calls, history
      <3>2. /\ payload'.locked = locked' /\ payload'.gen \in Nat /\ payload'.gen >= payload.gen
            /\ payload'.gen = payload.gen => locked' = locked
        BY <2>1, <3>1, MovedLag
      <3> QED BY <3>1, <3>2, StillLags
    <2>6. CASE Reconfigure
      <3>1. UNCHANGED <<locked, payload, state, target, overtaken>>
        BY <2>6 DEF Reconfigure
      <3>2. answer'[Operator] = answer[Operator]
        BY <2>6 DEF Reconfigure, Unnoticed
      <3> QED BY <2>1, <3>1, <3>2, StillLags
    <2>7. CASE Receive
      BY <2>7, ReceiveLags
    <2>8. CASE CallLock \/ CallSelect \/ CallRead
      <3>1. UNCHANGED <<locked, payload, state, overtaken>>
        BY <2>8 DEF CallLock, CallSelect, CallRead, history
      <3>2. PICK c \in Callers : \E what : Call(c, what)
        BY <2>8 DEF CallLock, CallSelect, CallRead
      <3>3. \/ answer'[Operator] = None
            \/ answer'[Operator] = answer[Operator] /\ target'[Operator] = target[Operator]
        BY <2>2, <3>2 DEF Call
      <3> QED BY <2>1, <3>1, <3>3, StillLags
    <2>9. CASE Operate
      <3>1. /\ MoveTo(target[Operator]) /\ UNCHANGED <<state, target, overtaken>>
            /\ answer'[Operator] = payload'.gen /\ pc[Operator] = "call"
        BY <2>2, <2>9 DEF Operate, Close, Answer
      <3>2. /\ payload'.locked = locked' /\ payload'.gen \in Nat /\ payload'.gen >= payload.gen
            /\ payload'.gen = payload.gen => locked' = locked
            /\ locked' = target[Operator]
        BY <2>1, <2>3, <3>1, MovedLag
      <3> QED BY <2>3, <3>1, <3>2, StillLags
    <2>10. CASE Write \/ Read
      <3>1. UNCHANGED <<locked, payload, state, target, overtaken>>
        BY <2>10 DEF Write, Read, Close
      <3>2. answer'[Operator] = answer[Operator]
        BY <2>2, <2>10 DEF Write, Read, Answer
      <3> QED BY <2>1, <3>1, <3>2, StillLags
    <2>11. ASSUME NEW c \in Callers, Fail(c) PROVE LagInv'
      <3>1. UNCHANGED <<state, target, overtaken>> /\ pc[c] = "call"
        BY <2>11 DEF Fail, Close
      <3>2. answer'[Operator] = answer[Operator]
        BY <2>2, <2>11 DEF Fail, Unnoticed
      <3>3. CASE UNCHANGED <<locked, payload>>
        BY <2>1, <3>1, <3>2, <3>3, StillLags
      <3>4. CASE c = Operator /\ MoveTo(target[c])
        <4>1. /\ payload'.locked = locked' /\ payload'.gen \in Nat
              /\ payload'.gen >= payload.gen
              /\ payload'.gen = payload.gen => locked' = locked
          BY <2>1, <2>3, <3>1, <3>4, MovedLag
        <4> QED BY <3>1, <3>2, <4>1, StillLags
      <3> QED BY <2>11, <3>3, <3>4 DEF Fail
    <2>12. CASE EndLock
      BY <2>12, EndLockLags
    <2>13. ASSUME NEW c \in {Writer, Reader}, End(c), Apply(c),
                  UNCHANGED <<locked, config, payload, inProgress, overtaken>>
           PROVE  LagInv'
      <3>1. answer'[Operator] = answer[Operator] /\ target'[Operator] = target[Operator]
        BY <2>2, <2>13 DEF End
      <3>2. state'.report = state.report /\ state'.pending = state.pending
        <4>1. CASE answer[c] = None
          BY <2>13, <4>1 DEF Apply
        <4>2. CASE answer[c] # None
          <5>1. answer[c].values \in Configs
            BY <4>2 DEF TypeInv, TypeOK, Readings
          <5>2. state' = [state EXCEPT !.values = answer[c].values]
            BY <2>13, <4>2 DEF Apply, ApplySettings
          <5> QED BY <2>1, <5>1, <5>2, ValuesField
        <4> QED BY <4>1, <4>2
      <3> QED BY <2>1, <2>13, <3>1, <3>2, StillLags
    <2>14. ASSUME NEW c \in Callers, Cancel(c) PROVE LagInv'
      <3>1. UNCHANGED <<locked, payload, state, overtaken>>
        BY <2>14 DEF Cancel
      <3>2. \/ answer'[Operator] = None
            \/ answer'[Operator] = answer[Operator] /\ target'[Operator] = target[Operator]
        BY <2>2, <2>14 DEF Cancel
      <3> QED BY <2>1, <3>1, <3>2, StillLags
    <2> QED BY <2>4, <2>5, <2>6, <2>7, <2>8, <2>9, <2>10, <2>11, <2>12, <2>13, <2>14
          DEF Next, EndSettings
  <1>3. TypeInv /\ LagInv => OnlyLagsBehind
    <2> SUFFICES ASSUME TypeInv, LagInv, state.report # None,
                        ~(state.report.gen < payload.gen), ~overtaken
                 PROVE  IsLocked(state) \in {None, locked}
      BY DEF OnlyLagsBehind
    <2>1. state.report.gen \in Nat /\ payload.gen \in Nat
      BY DEF TypeInv, TypeOK, States, Payloads
    <2>2. state.report.gen = payload.gen
      BY <2>1 DEF LagInv, ReportLags
    <2>3. state.report.locked = locked
      BY <2>2 DEF LagInv, ReportLags
    <2>4. state.pending # None => state.pending = locked
      BY <2>2 DEF LagInv, PendingLags
    <2> QED BY <2>3, <2>4 DEF IsLocked
  <1> QED BY <1>1, <1>2, <1>3, PTL DEF Spec

-----------------------------------------------------------------------------
(* The selects show what the lock is set to.                               *)

\* The calls whose session is over wait in a queue, once each.
QueueInv ==
  /\ \A i, j \in 1 .. Len(order) : order[i] = order[j] => i = j
  /\ \A c \in Callers : pc[c] = "closing" <=> \E i \in 1 .. Len(order) : order[i] = c

Before(c, d) == \E i, j \in 1 .. Len(order) : i < j /\ order[i] = c /\ order[j] = d

\* A write whose answer is still to be applied.
Written == pc[Writer] = "closing" /\ answer[Writer] # None

\* What the lock answered is what it is set to, and what it broadcasts since.
Right(c) ==
  /\ answer[c].values = config
  /\ payload.gen > answer[c].gen => payload.flags = FlagsOf(config)

\* A sound answer is right, unless it was read before a write that follows it.
AnswerInv ==
  \A c \in {Writer, Reader} : answer[c] # None =>
    /\ answer[c].gen <= payload.gen
    /\ answer[c].sound => \/ Right(c)
                          \/ c = Reader /\ Written /\ Before(Reader, Writer)

\* What the cache knows is right, and what the lock broadcasts since; where it
\* does not know, the payload that went with the answer holds no news.
Cached ==
  ~disturbed /\ ~Written =>
    /\ \A name \in SettingNames : state.values[name] \in {None, config[name]}
    /\ payload.gen > answeredGen => payload.flags = FlagsOf(config)

Unknown ==
  \A name \in SettingNames :
    state.values[name] = None /\ payload.gen = answeredGen =>
      state.report = None \/ state.report.gen = payload.gen

SettingsInv == answeredGen <= payload.gen /\ Cached /\ Unknown

\* A call joins the queue at the end,
LEMMA CloseQueue ==
  ASSUME TypeInv, QueueInv, NEW c \in Callers, Close(c)
  PROVE  /\ QueueInv'
         /\ Before(Reader, Writer) => Before(Reader, Writer)'
         /\ c = Writer /\ pc[Reader] = "closing" => Before(Reader, Writer)'
  <1>1. order \in Seq(Callers) /\ Len(order) \in Nat
    BY DEF TypeInv, TypeOK
  <1>2. /\ Len(order') = Len(order) + 1 /\ order'[Len(order) + 1] = c
        /\ \A i \in 1 .. Len(order) : order'[i] = order[i]
    BY <1>1 DEF Close
  <1>3. \A d \in Callers : pc'[d] = IF d = c THEN "closing" ELSE pc[d]
    BY DEF Close, TypeInv, TypeOK
  <1>4. \A i \in 1 .. Len(order) : order[i] # c
    BY DEF Close, QueueInv
  <1>5. \A i \in 1 .. Len(order') : i \in 1 .. Len(order) \/ i = Len(order) + 1
    BY <1>1, <1>2
  <1>6. 1 .. Len(order) \subseteq 1 .. Len(order') /\ Len(order) + 1 \in 1 .. Len(order')
    BY <1>1, <1>2
  <1>7. \A i, j \in 1 .. Len(order') : order'[i] = order'[j] => i = j
    BY <1>2, <1>4, <1>5 DEF QueueInv
  <1>8. \A d \in Callers : pc'[d] = "closing" <=> \E i \in 1 .. Len(order') : order'[i] = d
    BY <1>2, <1>3, <1>4, <1>5, <1>6 DEF QueueInv
  <1>9. Before(Reader, Writer) => Before(Reader, Writer)'
    BY <1>2, <1>6 DEF Before
  <1>10. ASSUME c = Writer, pc[Reader] = "closing" PROVE Before(Reader, Writer)'
    <2>1. PICK i \in 1 .. Len(order) : order[i] = Reader
      BY <1>10, Facts DEF QueueInv
    <2>2. i < Len(order) + 1 /\ i \in 1 .. Len(order')
      BY <1>1, <1>6, <2>1
    <2> QED BY <1>2, <1>6, <1>10, <2>1, <2>2 DEF Before
  <1> QED BY <1>7, <1>8, <1>9, <1>10 DEF QueueInv

\* ... and leaves it from the front.
LEMMA EndQueue ==
  ASSUME TypeInv, QueueInv, NEW c \in Callers, End(c)
  PROVE  /\ QueueInv'
         /\ Before(Reader, Writer) /\ c # Reader => Before(Reader, Writer)' /\ c # Writer
  <1>1. order \in Seq(Callers) /\ order # <<>> /\ Len(order) \in Nat /\ Len(order) >= 1
    BY DEF TypeInv, TypeOK, End
  <1>2. /\ Len(order') = Len(order) - 1 /\ order[1] = c
        /\ \A i \in 1 .. Len(order') : order'[i] = order[i + 1]
    BY <1>1 DEF End
  <1>3. \A d \in Callers : pc'[d] = IF d = c THEN "idle" ELSE pc[d]
    BY DEF End, TypeInv, TypeOK
  <1>4. 1 \in 1 .. Len(order)
    BY <1>1
  <1>5. \A i \in 1 .. Len(order') : i + 1 \in 1 .. Len(order) /\ i + 1 # 1
    BY <1>1, <1>2
  <1>6. \A i \in 1 .. Len(order) :
          i # 1 => i - 1 \in 1 .. Len(order') /\ order'[i - 1] = order[i]
    BY <1>1, <1>2
  <1>7. \A i, j \in 1 .. Len(order') : order'[i] = order'[j] => i = j
    <2> SUFFICES ASSUME NEW i \in 1 .. Len(order'), NEW j \in 1 .. Len(order'),
                        order'[i] = order'[j]
                 PROVE  i = j
      OBVIOUS
    <2>1. /\ i + 1 \in 1 .. Len(order) /\ j + 1 \in 1 .. Len(order)
          /\ order[i + 1] = order[j + 1]
      BY <1>2, <1>5
    <2>2. \A k, l \in 1 .. Len(order) : order[k] = order[l] => k = l
      BY DEF QueueInv
    <2>3. i + 1 = j + 1
      BY ONLY <2>1, <2>2
    <2> QED BY <2>3
  <1>8. \A d \in Callers : pc'[d] = "closing" <=> \E i \in 1 .. Len(order') : order'[i] = d
    <2> SUFFICES ASSUME NEW d \in Callers
                 PROVE  pc'[d] = "closing" <=> \E i \in 1 .. Len(order') : order'[i] = d
      OBVIOUS
    <2>1. CASE d = c
      <3>1. \A i \in 1 .. Len(order') : order'[i] # c
        BY <1>2, <1>4, <1>5 DEF QueueInv
      <3> QED BY <1>3, <2>1, <3>1
    <2>2. CASE d # c
      <3>1. pc'[d] = "closing" <=> \E i \in 1 .. Len(order) : order[i] = d
        BY <1>3, <2>2 DEF QueueInv
      <3>2. \A i \in 1 .. Len(order) : order[i] = d => i # 1
        BY <1>2, <2>2
      <3>3. (\E i \in 1 .. Len(order) : order[i] = d)
              => \E i \in 1 .. Len(order') : order'[i] = d
        BY <1>6, <3>2
      <3>4. (\E i \in 1 .. Len(order') : order'[i] = d)
              => \E i \in 1 .. Len(order) : order[i] = d
        BY <1>2, <1>5
      <3> QED BY <3>1, <3>3, <3>4
    <2> QED BY <2>1, <2>2
  <1>9. ASSUME Before(Reader, Writer), c # Reader
        PROVE  Before(Reader, Writer)' /\ c # Writer
    <2>1. PICK i \in 1 .. Len(order), j \in 1 .. Len(order) :
            i < j /\ order[i] = Reader /\ order[j] = Writer
      BY <1>9 DEF Before
    <2>2. i # 1 /\ j # 1
      BY <1>2, <1>9, <2>1
    <2>3. i - 1 < j - 1
      BY <2>1
    <2>4. Before(Reader, Writer)'
      BY <1>6, <2>1, <2>2, <2>3 DEF Before
    <2>5. c # Writer
      BY <1>2, <1>4, <2>1, <2>2 DEF QueueInv
    <2> QED BY <2>4, <2>5
  <1> QED BY <1>7, <1>8, <1>9 DEF QueueInv

SetInv == QueueInv /\ AnswerInv /\ SettingsInv

\* What the types say of the payload, the answers and the cache.
LEMMA SettingsFacts ==
  ASSUME TypeInv
  PROVE  /\ payload.gen \in Nat /\ answeredGen \in Nat /\ state \in States
         /\ state.report # None => state.report.gen \in Nat
         /\ \A c \in {Writer, Reader} : answer[c] # None =>
              answer[c] \in Readings /\ answer[c].gen \in Nat /\ answer[c].values \in Configs
  <1>1. payload.gen \in Nat /\ answeredGen \in Nat /\ state \in States
    BY DEF TypeInv, TypeOK, Payloads
  <1>2. state.report # None => state.report.gen \in Nat
    BY DEF TypeInv, TypeOK, States, Payloads
  <1>3. \A c \in {Writer, Reader} : answer[c] # None => answer[c] \in Readings
    BY DEF TypeInv, TypeOK
  <1> QED BY <1>1, <1>2, <1>3 DEF Readings

\* A move regenerates the payload with the flags of the settings, or there is none.
LEMMA MovedFlags ==
  ASSUME payload \in Payloads, NEW position \in BOOLEAN, MoveTo(position)
  PROVE  \/ payload' = payload
         \/ /\ payload'.gen \in Nat /\ payload'.gen > payload.gen
            /\ payload'.flags = FlagsOf(config)
  <1>1. payload.gen \in Nat
    BY DEF Payloads
  <1>2. CASE position = locked
    BY <1>2, Moved
  <1>3. CASE position # locked
    <2>1. payload'.gen = payload.gen + 1 /\ payload'.flags = FlagsOf(config)
      BY <1>3, Moved
    <2> QED BY <1>1, <2>1
  <1> QED BY <1>2, <1>3

\* What leaves the settings and what is known of them alone leaves them right.
LEMMA StillSet ==
  ASSUME TypeInv, AnswerInv, SettingsInv,
         config' = config, state'.values = state.values, state'.report = state.report,
         UNCHANGED <<answeredGen, disturbed>>,
         answer'[Writer] = answer[Writer], answer'[Reader] = answer[Reader],
         Written' <=> Written, Before(Reader, Writer) => Before(Reader, Writer)',
         \/ payload' = payload
         \/ /\ payload'.gen \in Nat /\ payload'.gen > payload.gen
            /\ payload'.flags = FlagsOf(config)
  PROVE  AnswerInv' /\ SettingsInv'
  <1>1. payload.gen \in Nat /\ payload'.gen \in Nat /\ payload'.gen >= payload.gen
        /\ answeredGen \in Nat
    BY SettingsFacts
  <1>2. payload'.gen # payload.gen => payload'.flags = FlagsOf(config)
    OBVIOUS
  <1>3. payload'.gen = payload.gen => payload' = payload
    BY <1>1
  <1>4. FlagsOf(config)' = FlagsOf(config)
    BY DEF FlagsOf
  <1>5. AnswerInv'
    <2> SUFFICES ASSUME NEW c \in {Writer, Reader}, answer[c] # None
                 PROVE  /\ answer[c].gen <= payload'.gen
                        /\ answer[c].sound => \/ Right(c)'
                                              \/ c = Reader /\ Written' /\ Before(Reader, Writer)'
      BY DEF AnswerInv
    <2>1. answer[c].gen \in Nat /\ answer[c].gen <= payload.gen /\ answer'[c] = answer[c]
      BY SettingsFacts DEF AnswerInv
    <2>2. Right(c) => Right(c)'
      BY <1>1, <1>2, <1>3, <1>4, <2>1 DEF Right
    <2> QED BY <1>1, <2>1, <2>2 DEF AnswerInv
  <1>6. Cached'
    <2>1. \A name \in SettingNames :
            ~disturbed /\ ~Written => state'.values[name] \in {None, config'[name]}
      BY DEF SettingsInv, Cached
    <2>2. ~disturbed /\ ~Written /\ payload'.gen > answeredGen
            => payload'.flags = FlagsOf(config)'
      <3>1. CASE payload' = payload
        BY <1>4, <3>1 DEF SettingsInv, Cached
      <3>2. CASE payload'.flags = FlagsOf(config)
        BY <1>4, <3>2
      <3> QED BY <3>1, <3>2
    <2> QED BY <2>1, <2>2 DEF Cached
  <1>7. Unknown'
    BY <1>1, <1>3 DEF SettingsInv, Unknown
  <1> QED BY <1>1, <1>5, <1>6, <1>7 DEF SettingsInv

\* What the cache cannot know of disturbs it, and no answer is sound any more.
LEMMA UnnoticedSet ==
  ASSUME TypeInv, AnswerInv, SettingsInv, Unnoticed,
         UNCHANGED <<payload, state, answeredGen>>
  PROVE  AnswerInv' /\ SettingsInv'
  <1>1. \A c \in Callers :
          answer'[c] = IF c = Operator \/ answer[c] = None THEN answer[c]
                       ELSE [answer[c] EXCEPT !.sound = FALSE]
    BY DEF Unnoticed
  <1>2. \A c \in {Writer, Reader} : answer'[c] # None =>
          answer[c] # None /\ answer'[c].gen = answer[c].gen /\ ~answer'[c].sound
    <2> SUFFICES ASSUME NEW c \in {Writer, Reader}, answer'[c] # None
                 PROVE  answer[c] # None /\ answer'[c].gen = answer[c].gen /\ ~answer'[c].sound
      OBVIOUS
    <2>1. answer[c] # None /\ answer'[c] = [answer[c] EXCEPT !.sound = FALSE]
      BY <1>1, Facts
    <2>2. answer[c] \in Readings
      BY <2>1, SettingsFacts
    <2> QED BY <2>1, <2>2, Unsound
  <1>3. AnswerInv'
    <2> SUFFICES ASSUME NEW c \in {Writer, Reader}, answer'[c] # None
                 PROVE  answer'[c].gen <= payload'.gen /\ ~answer'[c].sound
      BY DEF AnswerInv
    <2>1. answer[c].gen <= payload.gen
      BY <1>2 DEF AnswerInv
    <2> QED BY <1>2, <2>1
  <1>4. disturbed'
    BY DEF Unnoticed
  <1>5. SettingsInv'
    BY <1>4 DEF SettingsInv, Cached, Unknown
  <1> QED BY <1>3, <1>5

\* A payload that is received zeroes the values its flags have turned off.
LEMMA ReceiveSet ==
  ASSUME TypeInv, SetInv, Receive
  PROVE  SetInv'
  <1> DEFINE ad == [payload |-> payload, rssi |-> Rssi]
  <1>1. /\ state \in States /\ payload \in Payloads /\ payload.gen \in Nat
        /\ answeredGen \in Nat
    BY SettingsFacts DEF TypeInv, TypeOK
  <1>2. ad \in Advertisements /\ ad.payload = payload
    BY <1>1, Heard
  <1>3. /\ state' = Accepted(state, ad) /\ UNCHANGED <<locked, payload, config, answeredGen>>
        /\ disturbed' = (disturbed \/ Outdated(state, state'))
        /\ UNCHANGED <<pc, answer, order>>
    BY DEF Receive, calls
  <1> HIDE DEF ad
  <1>4. /\ state'.report = IF ReportChanged(state, payload) THEN payload ELSE state.report
        /\ state'.values = IF ReportChanged(state, payload)
                           THEN UpdatedSettingValues(state, payload) ELSE state.values
    BY <1>1, <1>2, <1>3, AcceptedFields
  <1>5. QueueInv' /\ AnswerInv'
    BY <1>3 DEF SetInv, QueueInv, AnswerInv, Right, Before, Written, FlagsOf
  <1>6. CASE ~ReportChanged(state, payload)
    <2>1. state'.report = state.report /\ state'.values = state.values
      BY <1>4, <1>6
    <2>2. Unknown'
      BY <1>3, <2>1 DEF SetInv, SettingsInv, Unknown
    <2>3. Written' <=> Written
      BY <1>3 DEF Written
    <2>4. ~disturbed' => ~disturbed
      BY <1>3
    <2>5. Cached'
      BY <1>3, <2>1, <2>3, <2>4 DEF SetInv, SettingsInv, Cached, FlagsOf
    <2> QED BY <1>3, <1>5, <2>2, <2>5 DEF SetInv, SettingsInv
  <1>7. CASE ReportChanged(state, payload)
    <2>1. state'.report = payload /\ state'.values = UpdatedSettingValues(state, payload)
      BY <1>4, <1>7
    <2>2. Unknown'
      BY <1>3, <2>1 DEF Unknown
    <2>3. Written' <=> Written
      BY <1>3 DEF Written
    <2>4. ~disturbed' => ~disturbed /\ ~Outdated(state, state')
      BY <1>3
    <2>5. ASSUME ~disturbed', ~Written', NEW name \in SettingNames
          PROVE  state'.values[name] \in {None, config[name]}
      <3>1. state.values[name] \in {None, config[name]}
        BY <2>3, <2>4, <2>5 DEF SetInv, SettingsInv, Cached
      <3>2. state'.values[name] = IF name \in Flags(state.report) \ payload.flags THEN 0
                                  ELSE IF name \in payload.flags \ Flags(state.report) THEN None
                                  ELSE state.values[name]
        BY <2>1 DEF UpdatedSettingValues
      <3>3. CASE name \notin Flags(state.report) \ payload.flags
        BY <3>1, <3>2, <3>3
      <3>4. CASE name \in Flags(state.report) \ payload.flags
        <4>1. state'.values[name] = 0 /\ name \notin payload.flags
          BY <3>2, <3>4
        <4>2. CASE payload.gen > answeredGen
          <5>1. payload.flags = FlagsOf(config)
            BY <2>3, <2>4, <2>5, <4>2 DEF SetInv, SettingsInv, Cached
          <5> QED BY <4>1, <5>1 DEF FlagsOf
        <4>3. CASE ~(payload.gen > answeredGen)
          <5>1. payload.gen <= answeredGen /\ payload.gen = answeredGen
            BY <1>1, <4>3 DEF SetInv, SettingsInv
          <5>2. state.values[name] \in {0, None}
            BY <2>4, <2>5, <4>1, <5>1 DEF Outdated
          <5>3. CASE state.values[name] = None
            <6>1. state.report = None \/ state.report.gen = payload.gen
              BY <5>1, <5>3 DEF SetInv, SettingsInv, Unknown
            <6>2. state.report # None
              BY <3>4 DEF Flags
            <6> QED BY <1>1, <1>7, <6>1, <6>2, SameCounter
          <5>4. CASE state.values[name] = 0 /\ state.values[name] # None
            BY <3>1, <4>1, <5>4
          <5> QED BY <5>2, <5>3, <5>4
        <4> QED BY <4>2, <4>3
      <3> QED BY <3>3, <3>4
    <2>6. ~disturbed' /\ ~Written' /\ payload'.gen > answeredGen'
            => payload'.flags = FlagsOf(config)'
      BY <1>3, <2>3, <2>4 DEF SetInv, SettingsInv, Cached, FlagsOf
    <2>7. Cached'
      BY <1>3, <2>5, <2>6 DEF Cached
    <2> QED BY <1>3, <1>5, <2>2, <2>7 DEF SetInv, SettingsInv
  <1> QED BY <1>6, <1>7

\* A call begins with nothing answered.
LEMMA CallSet ==
  ASSUME TypeInv, SetInv, CallLock \/ CallSelect \/ CallRead
  PROVE  SetInv'
  <1>1. /\ UNCHANGED <<config, payload, state, order, answeredGen, disturbed>>
        /\ \E c \in Callers : \E what : Call(c, what)
    BY DEF CallLock, CallSelect, CallRead, Callers, history
  <1>2. PICK c \in Callers : \E what : Call(c, what)
    BY <1>1
  <1>3. answer[c] = None
    BY <1>2 DEF TypeInv, CallInv, Call
  <1>4. \A d \in Callers : /\ answer'[d] = answer[d]
                           /\ pc'[d] = "closing" <=> pc[d] = "closing"
    BY <1>2, <1>3 DEF Call, TypeInv, TypeOK, CallInv
  <1>5. QueueInv'
    BY <1>1, <1>4 DEF SetInv, QueueInv
  <1>6. (Written' <=> Written) /\ (Before(Reader, Writer) => Before(Reader, Writer)')
    BY <1>1, <1>4, Facts DEF Written, Before
  <1>7. /\ answer'[Writer] = answer[Writer] /\ answer'[Reader] = answer[Reader]
        /\ UNCHANGED <<state.values, state.report, answeredGen, disturbed>>
    BY <1>1, <1>4, Facts
  <1> QED BY <1>1, <1>5, <1>6, <1>7, StillSet DEF SetInv

\* A session of the operator, or one that fails before the lock has acted.
LEMMA OtherSessionSet ==
  ASSUME TypeInv, SetInv, NEW c \in Callers, Close(c),
         UNCHANGED <<config, disturbed>>,
         answer'[Writer] = answer[Writer], answer'[Reader] = answer[Reader],
         \/ payload' = payload
         \/ /\ payload'.gen \in Nat /\ payload'.gen > payload.gen
            /\ payload'.flags = FlagsOf(config)
  PROVE  SetInv'
  <1>1. QueueInv' /\ (Before(Reader, Writer) => Before(Reader, Writer)')
    BY CloseQueue DEF SetInv
  <1>2. \A d \in Callers : pc'[d] = IF d = c THEN "closing" ELSE pc[d]
    BY DEF Close, TypeInv, TypeOK
  <1>3. answer[c] = None
    BY DEF Close, TypeInv, CallInv
  <1>4. Written' <=> Written
    BY <1>2, <1>3, Facts DEF Written
  <1>5. UNCHANGED <<state.values, state.report, answeredGen, disturbed>>
    BY DEF Close
  <1> QED BY <1>1, <1>4, <1>5, StillSet DEF SetInv

\* The answer of a settings session is right.
LEMMA SettingsSessionSet ==
  ASSUME TypeInv, SetInv, Write \/ Read
  PROVE  SetInv'
  <1> USE Facts
  <1>1. /\ payload \in Payloads /\ payload.gen \in Nat /\ answeredGen \in Nat
        /\ DOMAIN answer = Callers
    BY SettingsFacts DEF TypeInv, TypeOK, CallInv
  <1>2. UNCHANGED <<payload, state, answeredGen, disturbed>>
    BY DEF Write, Read, Close
  <1>3. CASE Write
    <2>1. Close(Writer) /\ answer'[Writer] = Settings(config') /\ answer'[Reader] = answer[Reader]
      BY <1>1, <1>3 DEF Write, Answer
    <2>2. config' \in Configs
      BY <1>3, SetToType DEF Write, Close, TypeInv, TypeOK, CallInv
    <2>3. /\ Settings(config').values = config' /\ Settings(config').gen = payload.gen
          /\ Settings(config') # None
      BY <1>1, <2>2, SettingsType
    <2>4. pc'[Writer] = "closing"
      BY <2>1 DEF Close, TypeInv, TypeOK
    <2>5. Written'
      BY <2>1, <2>3, <2>4 DEF Written
    <2>6. QueueInv' /\ (pc[Reader] = "closing" => Before(Reader, Writer)')
      BY <2>1, CloseQueue DEF SetInv
    <2>7. answer[Reader] # None => Before(Reader, Writer)'
      BY <2>6 DEF TypeInv, CallInv
    <2>8. Right(Writer)'
      BY <1>1, <1>2, <2>1, <2>3 DEF Right
    <2>9. AnswerInv'
      <3> SUFFICES ASSUME NEW c \in {Writer, Reader}, answer'[c] # None
                   PROVE  /\ answer'[c].gen <= payload'.gen
                          /\ \/ Right(c)'
                             \/ c = Reader /\ Written' /\ Before(Reader, Writer)'
        BY DEF AnswerInv
      <3>1. CASE c = Writer
        BY <1>1, <1>2, <2>1, <2>3, <2>8, <3>1
      <3>2. CASE c = Reader
        BY <1>2, <2>1, <2>5, <2>7, <3>2 DEF SetInv, AnswerInv
      <3> QED BY <3>1, <3>2
    <2>10. SettingsInv'
      BY <1>2, <2>5 DEF SetInv, SettingsInv, Cached, Unknown
    <2> QED BY <2>6, <2>9, <2>10 DEF SetInv
  <1>4. CASE Read
    <2>1. /\ Close(Reader) /\ answer'[Reader] = Settings(config)
          /\ answer'[Writer] = answer[Writer] /\ config' = config
      BY <1>1, <1>4 DEF Read, Answer
    <2>2. Settings(config).values = config /\ Settings(config).gen = payload.gen
      BY <1>1, SettingsType DEF TypeInv, TypeOK
    <2>3. QueueInv' /\ (Before(Reader, Writer) => Before(Reader, Writer)')
      BY <2>1, CloseQueue DEF SetInv
    <2>4. Right(Reader)'
      BY <1>1, <1>2, <2>1, <2>2 DEF Right
    <2>5. Right(Writer) => Right(Writer)'
      BY <1>2, <2>1 DEF Right, FlagsOf
    <2>6. Written' <=> Written
      BY <2>1 DEF Close, Written, TypeInv, TypeOK
    <2>7. AnswerInv'
      <3> SUFFICES ASSUME NEW c \in {Writer, Reader}, answer'[c] # None
                   PROVE  /\ answer'[c].gen <= payload'.gen
                          /\ answer'[c].sound => Right(c)'
        BY DEF AnswerInv
      <3>1. CASE c = Writer
        BY <1>2, <2>1, <2>5, <3>1 DEF SetInv, AnswerInv
      <3>2. CASE c = Reader
        BY <1>1, <1>2, <2>1, <2>2, <2>4, <3>2
      <3> QED BY <3>1, <3>2
    <2>8. SettingsInv'
      BY <1>2, <2>1, <2>6 DEF SetInv, SettingsInv, Cached, Unknown, FlagsOf
    <2> QED BY <2>3, <2>7, <2>8 DEF SetInv
  <1> QED BY <1>3, <1>4

\* The session of any call is over.
LEMMA SessionSet ==
  ASSUME TypeInv, SetInv, Operate \/ Write \/ Read \/ (\E c \in Callers : Fail(c))
  PROVE  SetInv'
  <1> USE Facts
  <1>1. payload \in Payloads /\ DOMAIN answer = Callers
    BY DEF TypeInv, TypeOK, CallInv
  <1>2. pc[Operator] = "call" => target[Operator] \in BOOLEAN
    BY DEF TypeInv, CallInv
  <1>3. CASE Operate
    <2>1. /\ Close(Operator) /\ MoveTo(target[Operator]) /\ UNCHANGED <<config, disturbed>>
          /\ answer'[Writer] = answer[Writer] /\ answer'[Reader] = answer[Reader]
      BY <1>1, <1>3 DEF Operate, Answer
    <2>2. \/ payload' = payload
          \/ /\ payload'.gen \in Nat /\ payload'.gen > payload.gen
             /\ payload'.flags = FlagsOf(config)
      BY <1>1, <1>2, <2>1, MovedFlags DEF Close
    <2> QED BY <2>1, <2>2, OtherSessionSet
  <1>4. CASE Write \/ Read
    BY <1>4, SettingsSessionSet
  <1>5. ASSUME NEW c \in Callers, Fail(c) PROVE SetInv'
    <2>1. Close(c) /\ pc[c] = "call"
      BY <1>5 DEF Fail, Close
    <2>2. CASE UNCHANGED <<locked, config, payload, answer, disturbed>>
      BY <2>1, <2>2, OtherSessionSet
    <2>3. CASE /\ c = Operator /\ MoveTo(target[c])
               /\ UNCHANGED <<config, answer, disturbed>>
      <3>1. \/ payload' = payload
            \/ /\ payload'.gen \in Nat /\ payload'.gen > payload.gen
               /\ payload'.flags = FlagsOf(config)
        BY <1>1, <1>2, <2>1, <2>3, MovedFlags
      <3> QED BY <2>1, <2>3, <3>1, OtherSessionSet
    <2>4. CASE Unnoticed /\ UNCHANGED <<locked, payload>>
      <3>1. UNCHANGED <<payload, state, answeredGen>>
        BY <2>1, <2>4 DEF Close
      <3>2. AnswerInv' /\ SettingsInv'
        BY <2>4, <3>1, UnnoticedSet DEF SetInv
      <3> QED BY <2>1, <3>2, CloseQueue DEF SetInv
    <2> QED BY <1>5, <2>2, <2>3, <2>4 DEF Fail
  <1> QED BY <1>3, <1>4, <1>5

\* A call ends, and its answer goes to the cache.
LEMMA EndSet ==
  ASSUME TypeInv, SetInv, EndLock \/ EndSettings
  PROVE  SetInv'
  <1> USE Facts
  <1>1. /\ state \in States /\ UNCHANGED <<config, payload>> /\ payload.gen \in Nat
      BY SettingsFacts DEF EndLock, EndSettings
  <1>2. ASSUME NEW c \in Callers, End(c)
        PROVE  /\ QueueInv'
               /\ Before(Reader, Writer) /\ c # Reader => Before(Reader, Writer)' /\ c # Writer
               /\ \A d \in Callers : /\ answer'[d] = IF d = c THEN None ELSE answer[d]
                                     /\ pc'[d] = IF d = c THEN "idle" ELSE pc[d]
    BY <1>2, EndQueue DEF SetInv, End, TypeInv, TypeOK, CallInv
  <1>3. CASE EndLock
    <2>1. End(Operator) /\ UNCHANGED <<answeredGen, disturbed>>
      BY <1>3 DEF EndLock
    <2>2. /\ QueueInv' /\ (Before(Reader, Writer) => Before(Reader, Writer)')
          /\ answer'[Writer] = answer[Writer] /\ answer'[Reader] = answer[Reader]
          /\ pc'[Writer] = pc[Writer]
      BY <1>2, <2>1
    <2>3. Written' <=> Written
      BY <2>2 DEF Written
    <2>4. state'.values = state.values /\ state'.report = state.report
      <3>1. CASE answer[Operator] = None
        BY <1>3, <3>1 DEF EndLock
      <3>2. CASE answer[Operator] # None
        <4>1. target[Operator] \in BOOLEAN \cup {None}
          BY DEF TypeInv, TypeOK
        <4>2. state' = [state EXCEPT !.pending = target[Operator]]
          BY <1>3, <3>2 DEF EndLock
        <4> QED BY <1>1, <4>1, <4>2, PendingField
      <3> QED BY <3>1, <3>2
    <2> QED BY <1>1, <2>1, <2>2, <2>3, <2>4, StillSet DEF SetInv
  <1>4. ASSUME NEW c \in {Writer, Reader}, End(c), Apply(c)
        PROVE  SetInv'
    <2>1. /\ QueueInv'
          /\ Before(Reader, Writer) /\ c # Reader => Before(Reader, Writer)' /\ c # Writer
          /\ \A d \in Callers : /\ answer'[d] = IF d = c THEN None ELSE answer[d]
                                /\ pc'[d] = IF d = c THEN "idle" ELSE pc[d]
      BY <1>2, <1>4
    <2>2. c = Reader => (Written' <=> Written)
      BY <2>1 DEF Written
    <2>3. AnswerInv'
      <3> SUFFICES ASSUME NEW d \in {Writer, Reader}, answer'[d] # None
                   PROVE  /\ answer'[d].gen <= payload'.gen
                          /\ answer'[d].sound => Right(d)'
        BY DEF AnswerInv
      <3>1. d # c /\ answer'[d] = answer[d] /\ answer[d] # None
        BY <2>1
      <3>2. d = Reader => ~Before(Reader, Writer)
        BY <1>4, <2>1, <3>1
      <3>3. answer[d].gen <= payload.gen /\ (answer[d].sound => Right(d))
        BY <3>1, <3>2 DEF SetInv, AnswerInv
      <3> QED BY <1>1, <3>1, <3>3 DEF Right, FlagsOf
    <2>4. CASE answer[c] = None
      <3>1. UNCHANGED <<state, answeredGen, disturbed>>
        BY <1>4, <2>4 DEF Apply
      <3>2. Written' <=> Written
        BY <2>1, <2>2, <2>4 DEF Written
      <3>3. SettingsInv'
        BY <1>1, <3>1, <3>2 DEF SetInv, SettingsInv, Cached, Unknown, FlagsOf
      <3> QED BY <2>1, <2>3, <3>3 DEF SetInv
    <2>5. CASE answer[c] # None
      <3>1. /\ state' = [state EXCEPT !.values = answer[c].values]
            /\ answeredGen' = answer[c].gen /\ disturbed' = ~answer[c].sound
        BY <1>4, <2>5 DEF Apply, ApplySettings
      <3>2. answer[c].values \in Configs /\ answer[c].gen <= payload.gen
        BY <2>5, SettingsFacts DEF SetInv, AnswerInv
      <3>3. state'.values = answer[c].values
        BY <1>1, <3>1, <3>2, ValuesField
      <3>4. \A name \in SettingNames : state'.values[name] # None
        BY <3>2, <3>3 DEF Configs
      <3>5. Unknown' /\ answeredGen' <= payload'.gen
        BY <1>1, <3>1, <3>2, <3>4 DEF Unknown
      <3>6. ASSUME ~disturbed', ~Written' PROVE Right(c)
        <4>1. answer[c].sound
          BY <3>1, <3>6
        <4> QED BY <2>2, <2>5, <3>6, <4>1 DEF SetInv, AnswerInv
      <3>7. Cached'
        BY <1>1, <3>1, <3>3, <3>6 DEF Cached, Right, FlagsOf
      <3> QED BY <2>1, <2>3, <3>5, <3>7 DEF SetInv, SettingsInv
    <2> QED BY <2>4, <2>5
  <1> QED BY <1>3, <1>4 DEF EndSettings

\* A call that is cancelled leaves the queue from wherever it is,
LEMMA CancelQueue ==
  ASSUME TypeInv, QueueInv, NEW c \in Callers, Cancel(c)
  PROVE  /\ QueueInv'
         /\ Before(Reader, Writer) /\ c \notin {Reader, Writer} => Before(Reader, Writer)'
  <1> USE Facts
  <1>1. order \in Seq(Callers) /\ Len(order) \in Nat
    BY DEF TypeInv, TypeOK
  <1>2. \A d \in Callers : pc'[d] = IF d = c THEN "idle" ELSE pc[d]
    BY DEF Cancel, TypeInv, TypeOK
  <1>3. CASE pc[c] = "call" /\ UNCHANGED order
    BY <1>2, <1>3 DEF QueueInv, Before
  <1>4. ASSUME NEW k \in 1 .. Len(order), order[k] = c, order' = RemoveAt(order, k)
        PROVE  /\ QueueInv'
               /\ Before(Reader, Writer) /\ c \notin {Reader, Writer}
                    => Before(Reader, Writer)'
    <2> DEFINE Was(i) == IF i < k THEN i ELSE i + 1
               Now(i) == IF i < k THEN i ELSE i - 1
    <2>1. Len(order') = Len(order) - 1
      BY <1>1, <1>4, Removed
    <2>2. \A i \in 1 .. Len(order') : /\ Was(i) \in 1 .. Len(order) /\ Was(i) # k
                                     /\ order'[i] = order[Was(i)]
      BY <1>1, <1>4, <2>1, Removed
    <2>3. \A i \in 1 .. Len(order) : i # k => /\ Now(i) \in 1 .. Len(order')
                                             /\ order'[Now(i)] = order[i]
      <3> SUFFICES ASSUME NEW i \in 1 .. Len(order), i # k
                   PROVE  Now(i) \in 1 .. Len(order') /\ order'[Now(i)] = order[i]
        OBVIOUS
      <3>1. /\ Len(order) \in Nat /\ k \in 1 .. Len(order)
            /\ \A j \in 1 .. Len(order) - 1 :
                  order'[j] = IF j < k THEN order[j] ELSE order[j + 1]
        BY <1>1, <1>4, Removed
      <3>2. Now(i) \in 1 .. Len(order) - 1
        BY <3>1
      <3>3. order'[Now(i)] = IF Now(i) < k THEN order[Now(i)] ELSE order[Now(i) + 1]
        BY <3>1, <3>2
      <3>4. IF Now(i) < k THEN Now(i) = i ELSE Now(i) + 1 = i
        BY <3>1
      <3> QED BY <2>1, <3>2, <3>3, <3>4
    <2>4. \A i, j \in 1 .. Len(order') : Was(i) = Was(j) => i = j
      BY <2>1
    <2>5. \A i, j \in 1 .. Len(order) : i # k /\ j # k /\ i < j => Now(i) < Now(j)
      BY <1>1
    <2> HIDE DEF Was, Now
    <2>6. \A i, j \in 1 .. Len(order) : order[i] = order[j] => i = j
      BY DEF QueueInv
    <2>7. \A i, j \in 1 .. Len(order') : order'[i] = order'[j] => i = j
      BY <2>2, <2>4, <2>6
    <2>8. ASSUME NEW d \in Callers
          PROVE  pc'[d] = "closing" <=> \E i \in 1 .. Len(order') : order'[i] = d
      <3>1. CASE d = c
        <4>1. \A i \in 1 .. Len(order') : order'[i] # c
          BY <1>4, <2>2, <2>6
        <4> QED BY <1>2, <3>1, <4>1
      <3>2. CASE d # c
        <4>1. pc'[d] = "closing" <=> \E i \in 1 .. Len(order) : order[i] = d
          BY <1>2, <3>2 DEF QueueInv
        <4>2. (\E i \in 1 .. Len(order) : order[i] = d)
                => \E i \in 1 .. Len(order') : order'[i] = d
          BY <1>4, <2>3, <3>2
        <4>3. (\E i \in 1 .. Len(order') : order'[i] = d)
                => \E i \in 1 .. Len(order) : order[i] = d
          BY <2>2
        <4> QED BY <4>1, <4>2, <4>3
      <3> QED BY <3>1, <3>2
    <2>9. ASSUME Before(Reader, Writer), c \notin {Reader, Writer}
          PROVE  Before(Reader, Writer)'
      <3>1. PICK i \in 1 .. Len(order), j \in 1 .. Len(order) :
              i < j /\ order[i] = Reader /\ order[j] = Writer
        BY <2>9 DEF Before
      <3>2. i # k /\ j # k
        BY <1>4, <2>9, <3>1
      <3> QED BY <2>3, <2>5, <3>1, <3>2 DEF Before
    <2> QED BY <2>7, <2>8, <2>9 DEF QueueInv
  <1> QED BY <1>3, <1>4 DEF Cancel

\* ... and what it takes with it, if it was a write, disturbs the cache.
LEMMA CancelSet ==
  ASSUME TypeInv, SetInv, NEW c \in Callers, Cancel(c)
  PROVE  SetInv'
  <1> USE Facts
  <1>1. /\ QueueInv'
        /\ Before(Reader, Writer) /\ c \notin {Reader, Writer} => Before(Reader, Writer)'
    BY CancelQueue DEF SetInv
  <1>2. UNCHANGED <<config, payload, state, answeredGen>>
    BY DEF Cancel
  <1>3. \A d \in Callers : pc'[d] = IF d = c THEN "idle" ELSE pc[d]
    BY DEF Cancel, TypeInv, TypeOK
  <1>4. CASE c = Writer /\ answer[c] # None
    <2>1. /\ disturbed' /\ answer'[Writer] = None
          /\ answer'[Reader] = IF answer[Reader] # None
                               THEN [answer[Reader] EXCEPT !.sound = FALSE] ELSE answer[Reader]
      BY <1>4 DEF Cancel
    <2>2. AnswerInv'
      <3> SUFFICES ASSUME NEW d \in {Writer, Reader}, answer'[d] # None
                   PROVE  answer'[d].gen <= payload'.gen /\ ~answer'[d].sound
        BY DEF AnswerInv
      <3>1. /\ d = Reader /\ answer[Reader] # None
            /\ answer'[d] = [answer[Reader] EXCEPT !.sound = FALSE]
        BY <2>1
      <3>2. answer[Reader] \in Readings /\ answer[Reader].gen <= payload.gen
        BY <3>1, SettingsFacts DEF SetInv, AnswerInv
      <3> QED BY <1>2, <3>1, <3>2, Unsound
    <2>3. SettingsInv'
      BY <1>2, <2>1 DEF SetInv, SettingsInv, Cached, Unknown
    <2> QED BY <1>1, <2>2, <2>3 DEF SetInv
  <1>5. CASE ~(c = Writer /\ answer[c] # None)
    <2>1. /\ disturbed' = disturbed
          /\ \A d \in Callers : answer'[d] = IF d = c THEN None ELSE answer[d]
      BY <1>5 DEF Cancel, TypeInv, CallInv
    <2>2. Written' <=> Written
      BY <1>3, <1>5, <2>1 DEF Written
    <2>3. AnswerInv'
      <3> SUFFICES ASSUME NEW d \in {Writer, Reader}, answer'[d] # None
                   PROVE  /\ answer'[d].gen <= payload'.gen
                          /\ answer'[d].sound
                               => \/ Right(d)'
                                  \/ d = Reader /\ Written' /\ Before(Reader, Writer)'
        BY DEF AnswerInv
      <3>1. d # c /\ answer'[d] = answer[d] /\ answer[d] # None
        BY <2>1
      <3>2. Right(d) => Right(d)'
        BY <1>2, <3>1 DEF Right, FlagsOf
      <3>3. d = Reader /\ Written => c \notin {Reader, Writer}
        BY <1>5, <3>1 DEF Written
      <3> QED BY <1>1, <1>2, <2>2, <3>1, <3>2, <3>3 DEF SetInv, AnswerInv
    <2>4. SettingsInv'
      BY <1>2, <2>1, <2>2 DEF SetInv, SettingsInv, Cached, Unknown, FlagsOf
    <2> QED BY <1>1, <2>3, <2>4 DEF SetInv
  <1> QED BY <1>4, <1>5

\* A known value is the lock's, unless a write is still to be applied or the
\* cache had no way to know (apply_settings and _update_flags in broadcast.py).
THEOREM SelectsShowSettings == Spec => []SettingsShownAreSet
  <1> USE Facts
  <1>1. Init => TypeInv /\ SetInv
    <2> SUFFICES ASSUME Init PROVE TypeInv /\ SetInv
      OBVIOUS
    <2>1. TypeInv
      BY InitType
    <2>2. /\ order = <<>> /\ \A c \in Callers : pc[c] = "idle" /\ answer[c] = None
      BY DEF Init
    <2>3. Len(order) = 0
      BY <2>2
    <2>4. QueueInv
      BY <2>2, <2>3 DEF QueueInv
    <2>5. AnswerInv
      BY <2>2 DEF AnswerInv
    <2>6. /\ \A name \in SettingNames : state.values[name] = None
          /\ state.report = None /\ answeredGen = 0 /\ payload.gen = 0
      BY DEF Init, NewState
    <2>7. SettingsInv
      BY <2>6 DEF SettingsInv, Cached, Unknown
    <2> QED BY <2>1, <2>4, <2>5, <2>7 DEF SetInv
  <1>2. TypeInv /\ SetInv /\ [Next]_vars => TypeInv' /\ SetInv'
    <2> SUFFICES ASSUME TypeInv, SetInv, [Next]_vars PROVE SetInv'
      BY NextType
    <2>1. CASE UNCHANGED vars
      BY <2>1 DEF vars, calls, history, SetInv, QueueInv, AnswerInv, Right, Before, Written,
                  FlagsOf, SettingsInv, Cached, Unknown
    <2>2. CASE Turn
      <3>1. /\ MoveTo(~locked) /\ (~locked) \in BOOLEAN /\ payload \in Payloads
            /\ UNCHANGED <<config, state, pc, answer, order, answeredGen, disturbed>>
        BY <2>2 DEF Turn, calls, history, TypeInv, TypeOK
      <3>2. \/ payload' = payload
            \/ /\ payload'.gen \in Nat /\ payload'.gen > payload.gen
               /\ payload'.flags = FlagsOf(config)
        BY <3>1, MovedFlags
      <3>3. /\ QueueInv' /\ (Written' <=> Written)
            /\ Before(Reader, Writer) => Before(Reader, Writer)'
        BY <3>1 DEF SetInv, QueueInv, Written, Before
      <3> QED BY <3>1, <3>2, <3>3, StillSet DEF SetInv
    <2>3. CASE Reconfigure
      <3>1. Unnoticed /\ UNCHANGED <<payload, state, pc, order, answeredGen>>
        BY <2>3 DEF Reconfigure
      <3>2. QueueInv'
        BY <3>1 DEF SetInv, QueueInv
      <3> QED BY <3>1, <3>2, UnnoticedSet DEF SetInv
    <2> QED BY <2>1, <2>2, <2>3, ReceiveSet, CallSet, SessionSet, EndSet, CancelSet DEF Next
  <1>3. TypeInv /\ SetInv => SettingsShownAreSet
    BY DEF SetInv, SettingsInv, Cached, Written, SettingsShownAreSet
  <1> QED BY <1>1, <1>2, <1>3, PTL DEF Spec

-----------------------------------------------------------------------------
(* The entity in progress.                                                 *)

\* The lock entity is locking or unlocking as the call in flight asks, and is
\* neither without one, unless the last call was cancelled (_operate).
THEOREM ProgressIsCalled == Spec => []InProgressIsCalled
  <1> USE Facts
  <1>1. Init => TypeInv /\ InProgressIsCalled
    <2> SUFFICES ASSUME Init PROVE InProgressIsCalled
      BY InitType
    <2>1. pc[Operator] = "idle" /\ inProgress = "none"
      BY DEF Init
    <2> QED BY <2>1 DEF InProgressIsCalled
  <1>2. TypeInv /\ InProgressIsCalled /\ [Next]_vars => TypeInv' /\ InProgressIsCalled'
    <2> SUFFICES ASSUME TypeInv, InProgressIsCalled, [Next]_vars PROVE InProgressIsCalled'
      BY NextType
    <2>1. pc \in [Callers -> {"idle", "call", "closing"}] /\ DOMAIN target = Callers
      BY DEF TypeInv, TypeOK, CallInv
    <2>2. ASSUME UNCHANGED <<inProgress, cut>>, target'[Operator] = target[Operator],
                 pc'[Operator] = "idle" <=> pc[Operator] = "idle"
          PROVE  InProgressIsCalled'
      BY <2>2 DEF InProgressIsCalled
    <2>3. CASE UNCHANGED vars \/ Turn \/ Reconfigure \/ Receive
      <3>1. UNCHANGED <<inProgress, cut, target, pc>>
        BY <2>3 DEF vars, calls, history, Turn, Reconfigure, Receive
      <3> QED BY <2>2, <3>1
    <2>4. CASE CallLock
      <3>1. PICK position \in BOOLEAN :
              /\ Call(Operator, position)
              /\ inProgress' = IF position THEN "locking" ELSE "unlocking"
        BY <2>4 DEF CallLock
      <3>2. pc'[Operator] = "call" /\ target'[Operator] = position
        BY <2>1, <3>1 DEF Call
      <3> QED BY <3>1, <3>2 DEF InProgressIsCalled
    <2>5. CASE CallSelect \/ CallRead
      <3>1. /\ UNCHANGED <<inProgress, cut>>
            /\ \E c \in {Writer, Reader} : \E what : Call(c, what)
        BY <2>5 DEF CallSelect, CallRead, history
      <3>2. target'[Operator] = target[Operator] /\ pc'[Operator] = pc[Operator]
        BY <2>1, <3>1 DEF Call
      <3> QED BY <2>2, <3>1, <3>2
    <2>6. ASSUME NEW c \in Callers, Close(c) PROVE InProgressIsCalled'
      <3>1. UNCHANGED <<inProgress, cut, target>>
        BY <2>6 DEF Close
      <3>2. pc'[Operator] = "idle" <=> pc[Operator] = "idle"
        BY <2>1, <2>6 DEF Close
      <3> QED BY <2>2, <3>1, <3>2
    <2>7. CASE EndLock
      <3>1. pc'[Operator] = "idle" /\ inProgress' = "none"
        BY <2>1, <2>7 DEF EndLock, End
      <3> QED BY <3>1 DEF InProgressIsCalled
    <2>8. CASE EndSettings
      <3>1. UNCHANGED <<inProgress, cut>> /\ \E c \in {Writer, Reader} : End(c)
        BY <2>8 DEF EndSettings
      <3>2. target'[Operator] = target[Operator] /\ pc'[Operator] = pc[Operator]
        BY <2>1, <3>1 DEF End
      <3> QED BY <2>2, <3>1, <3>2
    <2>9. ASSUME NEW c \in Callers, Cancel(c) PROVE InProgressIsCalled'
      <3>1. CASE c = Operator
        <4>1. pc'[Operator] = "idle" /\ cut'
          BY <2>1, <2>9, <3>1 DEF Cancel
        <4> QED BY <4>1 DEF InProgressIsCalled
      <3>2. CASE c # Operator
        <4>1. /\ inProgress' = inProgress /\ cut' = (cut \/ FALSE)
              /\ target'[Operator] = target[Operator] /\ pc'[Operator] = pc[Operator]
          BY <2>1, <2>9, <3>2 DEF Cancel
        <4> QED BY <4>1 DEF InProgressIsCalled
      <3> QED BY <3>1, <3>2
    <2> QED BY <2>3, <2>4, <2>5, <2>6, <2>7, <2>8, <2>9 DEF Next, Operate, Write, Read, Fail
  <1> QED BY <1>1, <1>2, PTL DEF Spec
=============================================================================
