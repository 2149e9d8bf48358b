---------------------------- MODULE DeviceState ----------------------------
(***************************************************************************)
(* What the integration remembers of one lock: DanalockDeviceState and the *)
(* pure part of the monitor's handlers (broadcast.py), as operators on a   *)
(* record.                                                                 *)
(*                                                                         *)
(* A payload is what the lock broadcasts between two regenerations: its    *)
(* lock state, the setting flags that are on, the broadcast key it is      *)
(* encrypted with and its generation.  Only generation % Modulus, the      *)
(* counter, is on the wire; the generation is there for the properties.    *)
(* last_seen is kept as the age of the last decoded advertisement, in      *)
(* ticks, up to MaxAge.                                                    *)
(***************************************************************************)
EXTENDS Integers

CONSTANTS Modulus,       \* COUNTER_MODULUS: the counter's values
          Timeout,       \* BROADCAST_TIMEOUT_SECONDS, in ticks
          MaxAge,        \* bound: older is as old as this
          SettingNames,  \* SETTING_FLAG_NAMES
          SettingValues, \* the values a setting can be configured to, 0 for off
          Keys,          \* broadcast keys
          Rssis,         \* signal strengths, in dBm
          None           \* Python's None

ASSUME ModulusAssumption == Modulus \in Nat \ {0}
ASSUME TimeoutAssumption ==
  Timeout \in Nat \ {0} /\ MaxAge \in Nat /\ Timeout <= MaxAge
ASSUME ValuesAssumption == 0 \in SettingValues
ASSUME NoneAssumption ==
  None \notin SettingValues /\ None \notin BOOLEAN /\ None \notin Int
ASSUME RssisAssumption == Rssis \subseteq Int /\ Rssis # {}

Payloads == [gen: Nat, locked: BOOLEAN, flags: SUBSET SettingNames, key: Keys]
Advertisements == [payload: Payloads, rssi: Rssis]

ASSUME NoReportAssumption == None \notin Payloads \cup Advertisements

States ==
  [report: Payloads \cup {None},
   rssi: Rssis \cup {None},
   age: (0 .. MaxAge) \cup {None},
   address: BOOLEAN,               \* whether the BLE address is known
   pending: BOOLEAN \cup {None},   \* pending_locked
   values: [SettingNames -> SettingValues \cup {None}]]

NewState ==
  [report |-> None, rssi |-> None, age |-> None, address |-> FALSE,
   pending |-> None, values |-> [name \in SettingNames |-> None]]

IsFresh(st) == st.age # None /\ st.age < Timeout

SettingsKnown(st) == \A name \in SettingNames : st.values[name] # None

\* A verified settings result: what the lock itself read back.
ApplySettings(st, values) == [st EXCEPT !.values = values]

\* The state the lock entity shows: the optimistic state before the report's.
IsLocked(st) ==
  IF st.pending # None THEN st.pending
  ELSE IF st.report # None THEN st.report.locked ELSE None

Counter(payload) == payload.gen % Modulus

\* The signal sensor: -100 dBm is 0 %, -30 dBm is 100 %, rounded in between.
RssiToPercent(rssi) ==
  LET percent == (20 * (rssi + 100) + 7) \div 14
  IN IF percent < 0 THEN 0 ELSE IF percent > 100 THEN 100 ELSE percent

\* Mutants: no wrap; no order; off by one.
CounterIncreasedUnwrapped(old, new) == old < new
CounterDiffers(old, new) == old # new
CounterSkips(old, new) ==
  LET delta == (new + Modulus - old) % Modulus
  IN 1 < delta /\ delta <= Modulus \div 2

CounterIncreased(old, new) ==
  LET delta == (new + Modulus - old) % Modulus
  IN 0 < delta /\ delta < Modulus \div 2

Flags(report) == IF report = None THEN {} ELSE report.flags

\* Mutant: the flag itself is stored as the value.
FlagsAsValues(st, payload) ==
  [name \in SettingNames |->
     IF name \in Flags(st.report) \ payload.flags THEN 0
     ELSE IF name \in payload.flags \ Flags(st.report) THEN 1
     ELSE st.values[name]]

\* A flag turning off stores 0, one turning on makes the value unknown.
UpdatedSettingValues(st, payload) ==
  [name \in SettingNames |->
     IF name \in Flags(st.report) \ payload.flags THEN 0
     ELSE IF name \in payload.flags \ Flags(st.report) THEN None
     ELSE st.values[name]]

ReportChanged(st, payload) ==
  st.report = None \/ CounterIncreased(Counter(st.report), Counter(payload))

\* The fields every decoded or polled advertisement refreshes.
Seen(st, ad) == [st EXCEPT !.rssi = ad.rssi, !.age = 0]

\* The state after one decoded advertisement (_accept).
Accepted(st, ad) ==
  LET seen == [Seen(st, ad) EXCEPT !.address = TRUE]
  IN IF ReportChanged(st, ad.payload)
     THEN [seen EXCEPT !.values = UpdatedSettingValues(st, ad.payload),
                       !.report = ad.payload,
                       !.pending = None]
     ELSE seen

\* Mutant: a device that comes back with the same signal is not noticed.
RssiChanged(st, ad) == st.rssi # ad.rssi

\* Whether an advertisement changed what the entities of the device show.
SignalChanged(st, ad) == st.rssi # ad.rssi \/ ~IsFresh(st)
=============================================================================
