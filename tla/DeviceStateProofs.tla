------------------------- MODULE DeviceStateProofs -------------------------
(***************************************************************************)
(* Lemmas about the operators of DeviceState, for the proofs about the     *)
(* modules that share them.                                                *)
(***************************************************************************)
EXTENDS DeviceState, TLAPS

\* A device nobody has heard has a state.
LEMMA NewStateType == NewState \in States
  BY DEF NewState, States

\* An advertisement leaves a device with a state, be it only seen,
LEMMA SeenType ==
  ASSUME NEW st \in States, NEW ad \in Advertisements
  PROVE  Seen(st, ad) \in States
  <1>1. 0 \in 0 .. MaxAge
    BY TimeoutAssumption
  <1> QED BY <1>1 DEF Seen, States, Advertisements

\* What an advertisement that is only seen leaves of a device, field by field.
LEMMA SeenFields ==
  ASSUME NEW st \in States, NEW ad \in Advertisements
  PROVE  /\ Seen(st, ad).age = 0
         /\ Seen(st, ad).rssi = ad.rssi
         /\ Seen(st, ad).report = st.report
         /\ Seen(st, ad).address = st.address
         /\ Seen(st, ad).pending = st.pending
         /\ Seen(st, ad).values = st.values
  BY DEF Seen, States

\* The flags of a payload leave the values of the settings values or unknown.
LEMMA UpdatedValuesType ==
  ASSUME NEW st \in States, NEW payload \in Payloads
  PROVE  UpdatedSettingValues(st, payload)
           \in [SettingNames -> SettingValues \cup {None}]
  BY ValuesAssumption DEF UpdatedSettingValues, States

\* ... or decoded.
LEMMA AcceptedType ==
  ASSUME NEW st \in States, NEW ad \in Advertisements
  PROVE  Accepted(st, ad) \in States
  <1>1. ad.payload \in Payloads
    BY DEF Advertisements
  <1>2. [Seen(st, ad) EXCEPT !.address = TRUE] \in States
    BY SeenType DEF States
  <1>3. UpdatedSettingValues(st, ad.payload) \in [SettingNames -> SettingValues \cup {None}]
    BY <1>1, UpdatedValuesType
  <1> QED
    BY <1>1, <1>2, <1>3 DEF Accepted, States

\* What an accepted advertisement leaves of a device, field by field.
LEMMA AcceptedFields ==
  ASSUME NEW st \in States, NEW ad \in Advertisements
  PROVE  /\ Accepted(st, ad).age = 0
         /\ Accepted(st, ad).address = TRUE
         /\ Accepted(st, ad).rssi = ad.rssi
         /\ Accepted(st, ad).report =
              IF ReportChanged(st, ad.payload) THEN ad.payload ELSE st.report
         /\ Accepted(st, ad).pending =
              IF ReportChanged(st, ad.payload) THEN None ELSE st.pending
         /\ Accepted(st, ad).values =
              IF ReportChanged(st, ad.payload)
              THEN UpdatedSettingValues(st, ad.payload) ELSE st.values
  <1> DEFINE seen == [Seen(st, ad) EXCEPT !.address = TRUE]
  <1>1. /\ seen \in States
        /\ seen.age = 0 /\ seen.address = TRUE /\ seen.rssi = ad.rssi
        /\ seen.report = st.report /\ seen.pending = st.pending /\ seen.values = st.values
    <2>1. Seen(st, ad) \in States
      BY SeenType
    <2>2. seen \in States
      BY <2>1 DEF States
    <2> QED BY <2>1, <2>2, SeenFields DEF States
  <1> HIDE DEF seen
  <1>2. Accepted(st, ad) =
          IF ReportChanged(st, ad.payload)
          THEN [seen EXCEPT !.values = UpdatedSettingValues(st, ad.payload),
                            !.report = ad.payload, !.pending = None]
          ELSE seen
    BY DEF Accepted, seen
  <1> QED BY <1>1, <1>2 DEF States

\* The signal is a percentage.
LEMMA PercentType ==
  ASSUME NEW rssi \in Int
  PROVE  RssiToPercent(rssi) \in 0 .. 100
  <1>1. (20 * (rssi + 100) + 7) \div 14 \in Int
    OBVIOUS
  <1> QED BY <1>1 DEF RssiToPercent

\* The payload that was reported is not news.
LEMMA SameCounter ==
  ASSUME NEW st \in States, NEW payload \in Payloads,
         st.report # None, st.report.gen = payload.gen
  PROVE  ~ReportChanged(st, payload)
  <1>1. Modulus \in Nat \ {0} /\ payload.gen \in Nat
    BY ModulusAssumption DEF Payloads
  <1>2. payload.gen % Modulus \in 0 .. Modulus - 1
    BY <1>1
  <1>3. ((payload.gen % Modulus) + Modulus - (payload.gen % Modulus)) = Modulus
    BY <1>1, <1>2
  <1>4. Modulus % Modulus = 0
    BY <1>1
  <1>5. ~CounterIncreased(Counter(st.report), Counter(payload))
    BY <1>3, <1>4 DEF CounterIncreased, Counter
  <1> QED BY <1>5 DEF ReportChanged
=============================================================================
