---- MODULE UplinkProofs ----
(***************************************************************************)
(* Proofs about the uplink, for every value of the constants.  MqttSession *)
(* on its own: types, the dead error count, the longest silence the two    *)
(* watchdogs allow, and which bridges that are connected they spare.       *)
(* Bridge: in the circle of uplink and BLE link both parts still do what   *)
(* they do alone, so that all this holds there too.                        *)
(***************************************************************************)
EXTENDS Bridge, TLAPS

----------------------------------------------------------------------------

\* The steps of the session, whatever is fair.  All that is proved of it rests on these.
Session == Init /\ [][Next]_vars

\* Every variable keeps its type, for all constants the assumptions allow.
LEMMA SessionTyped == Session => []TypeOK
<1>1. Init => TypeOK
  <2> SUFFICES ASSUME Init PROVE TypeOK
    OBVIOUS
  <2>1. /\ wifi \in BOOLEAN /\ broker \in BOOLEAN /\ refresh \in Periods
        /\ longest \in Periods /\ known = FALSE /\ up = FALSE /\ lastConnected = FALSE
        /\ restart = FALSE
    BY DEF Init
  <2>2. pc = "top" /\ connAge \in Nat /\ silence \in Nat /\ mqttErr \in Nat
        /\ wifiErr \in Nat
    BY DEF Init
  <2> QED
    BY <2>1, <2>2, Zenon DEF TypeOK
<1>2. TypeOK /\ [Next]_vars => TypeOK'
  <2> SUFFICES ASSUME TypeOK, [Next]_vars PROVE TypeOK'
    OBVIOUS
  <2> USE NumbersAssumption DEF TypeOK, Renewed, Changed
  <2>1. CASE Pass
    BY <2>1 DEF Pass, Capped, env
  <2>2. CASE Restart
    BY <2>2 DEF Restart
  <2>3. CASE WifiDown
    <3>1. wifiErr' \in Nat
      BY <2>3 DEF WifiDown
    <3>2. restart' \in BOOLEAN
      <4>1. CASE wifiErr + 1 > MaxWifiErr
        BY <4>1, <2>3, Zenon DEF WifiDown
      <4>2. CASE ~(wifiErr + 1 > MaxWifiErr)
        BY <4>2, <2>3, Zenon DEF WifiDown
      <4> QED
        BY <4>1, <4>2
    <3> QED
      BY <2>3, <3>1, <3>2, Zenon DEF WifiDown
  <2>4. CASE ConnectOk
    BY <2>4 DEF ConnectOk, env
  <2>5. CASE ConnectFails
    BY <2>5 DEF ConnectFails, env
  <2>6. CASE NoConnect
    BY <2>6 DEF NoConnect, env
  <2>7. CASE Watchdog
    BY <2>7 DEF Watchdog, env
  <2>8. CASE Publish
    BY <2>8 DEF Publish, env
  <2>9. CASE NothingToDo
    BY <2>9 DEF NothingToDo, env
  <2>10. CASE ConnectionLost
    BY <2>10 DEF ConnectionLost, env
  <2>11. CASE WifiChanges
    BY <2>11 DEF WifiChanges
  <2>12. CASE BrokerChanges
    BY <2>12 DEF BrokerChanges
  <2>13. CASE BmsKnown
    BY <2>13 DEF BmsKnown
  <2>14. CASE Teleperiod
    BY <2>14 DEF Teleperiod, env
  <2>15. CASE UNCHANGED vars
    BY <2>15 DEF vars
  <2> QED
    BY <2>1, <2>2, <2>3, <2>4, <2>5, <2>6, <2>7, <2>8, <2>9, <2>10, <2>11, <2>12,
       <2>13, <2>14, <2>15 DEF Next, LoopTask, Environment
<1> QED
  BY <1>1, <1>2, PTL DEF Session

----------------------------------------------------------------------------
\* The error count is 0 or 1 at all times, so the second condition of the
\* watchdog, mqttErr > 20, never holds.
LEMMA SessionErr == Session => []ErrNeverTrips
<1>1. Init => ErrNeverTrips
  BY DEF Init, ErrNeverTrips
<1>2. ErrNeverTrips /\ [Next]_vars => ErrNeverTrips'
  BY DEF ErrNeverTrips, Next, LoopTask, Environment, vars, Pass, Restart, WifiDown,
         ConnectOk, ConnectFails, NoConnect, Watchdog, Publish, NothingToDo,
         ConnectionLost, WifiChanges, BrokerChanges, BmsKnown, Teleperiod
<1> QED
  BY <1>1, <1>2, PTL DEF Session

----------------------------------------------------------------------------
\* How much silence there can be where loop() is: LIMIT and a pass for each one without
\* WiFi that wifiErr has counted, and the pass that is under way.
SilenceAt ==
    ~restart =>
        /\ wifiErr <= MaxWifiErr
        /\ pc = "top" => silence <= LIMIT + wifiErr * MaxPass
        /\ pc # "top" => silence <= LIMIT + wifiErr * MaxPass + MaxPass

LEMMA Products ==
    ASSUME NEW n \in Nat, NEW k \in Nat
    PROVE  /\ n * k \in Nat /\ (n + 1) * k = n * k + k
           /\ \A m \in Nat : n <= m => n * k <= m * k
BY Z3

LEMMA SilenceKept ==
    ASSUME TypeOK, SilenceAt, [Next]_vars PROVE SilenceAt'
<1> DEFINE w == wifiErr * MaxPass
<1>1. /\ w \in Nat /\ (wifiErr + 1) * MaxPass = w + MaxPass
      /\ MaxPass \in Nat /\ LIMIT \in Nat /\ MaxWifiErr \in Nat
  BY NumbersAssumption, Products DEF TypeOK
<1>2. CASE Pass \/ ConnectFails \/ NoConnect
  <2>1. wifiErr' * MaxPass = w /\ wifiErr' = wifiErr /\ restart' = restart
    BY <1>2 DEF Pass, ConnectFails, NoConnect
  <2> HIDE DEF w
  <2>2. pc' # "top" /\ (pc = "top" => silence' <= silence + MaxPass)
                    /\ (pc # "top" => silence' = silence)
    BY <1>1, <1>2, NumbersAssumption DEF Pass, ConnectFails, NoConnect, TypeOK
  <2>3. silence' \in Nat
    BY <1>1, <1>2, NumbersAssumption DEF Pass, ConnectFails, NoConnect, TypeOK
  <2>4. ~restart => silence' <= LIMIT + w + MaxPass
    BY <1>1, <2>2, <2>3 DEF SilenceAt, TypeOK, w
  <2> QED
    BY <2>1, <2>2, <2>4 DEF SilenceAt
<1>3. CASE ConnectOk \/ Publish
  <2>1. /\ wifiErr' * MaxPass = w /\ wifiErr' = wifiErr /\ restart' = restart
        /\ silence' = 0
    BY <1>3 DEF ConnectOk, Publish
  <2> HIDE DEF w
  <2> QED
    BY <1>1, <2>1 DEF SilenceAt
<1>4. CASE Restart
  <2>1. wifiErr' = 0 /\ silence' = 0 /\ pc' = "top"
    BY <1>4 DEF Restart
  <2> QED
    BY <1>1, <2>1 DEF SilenceAt
<1>5. CASE WifiDown
  <2>1. CASE wifiErr + 1 > MaxWifiErr
    <3>1. restart'
      BY <1>5, <2>1, Zenon DEF WifiDown
    <3> QED
      BY <3>1 DEF SilenceAt
  <2>2. CASE ~(wifiErr + 1 > MaxWifiErr)
    <3>1. /\ wifiErr' = wifiErr + 1 /\ restart' = restart /\ silence' = silence
          /\ pc = "loop" /\ pc' = "top"
      BY <1>5, <2>2 DEF WifiDown
    <3>2. wifiErr' * MaxPass = w + MaxPass
      BY <1>1, <3>1
    <3>3. wifiErr + 1 <= MaxWifiErr
      BY <1>1, <2>2 DEF TypeOK
    <3>4. ~restart => silence <= LIMIT + w + MaxPass
      BY <3>1 DEF SilenceAt
    <3> HIDE DEF w
    <3>5. LIMIT + w + MaxPass = LIMIT + (w + MaxPass)
      BY <1>1
    <3> QED
      BY <3>1, <3>2, <3>3, <3>4, <3>5 DEF SilenceAt
  <2> QED
    BY <2>1, <2>2
<1>6. CASE Watchdog
  BY <1>6 DEF Watchdog, SilenceAt
<1>7. CASE NothingToDo
  <2>1. /\ wifiErr' * MaxPass = w /\ wifiErr' = wifiErr /\ restart' = restart
        /\ silence' = silence /\ pc' = "top" /\ ~(silence > LIMIT)
    BY <1>7 DEF NothingToDo, TooSilent
  <2> HIDE DEF w
  <2>2. silence <= LIMIT + w
    BY <1>1, <2>1 DEF TypeOK
  <2> QED
    BY <2>1, <2>2 DEF SilenceAt
<1>8. CASE Environment \/ UNCHANGED vars
  <2>1. /\ wifiErr' = wifiErr /\ restart' = restart /\ silence' = silence /\ pc' = pc
    BY <1>8 DEF Environment, ConnectionLost, WifiChanges, BrokerChanges, BmsKnown,
                Teleperiod, vars
  <2> QED
    BY <2>1 DEF SilenceAt
<1> QED
  BY <1>2, <1>3, <1>4, <1>5, <1>6, <1>7, <1>8 DEF Next, LoopTask

\* Between the two watchdogs no silence outlives LIMIT and the passes wifiErr allows.
LEMMA SessionSilence == Session => []SilenceBounded
<1>1. Init => SilenceAt
  <2> SUFFICES ASSUME Init PROVE SilenceAt
    OBVIOUS
  <2>1. wifiErr = 0 /\ silence = 0 /\ pc = "top"
    BY DEF Init
  <2> QED
    BY <2>1, NumbersAssumption DEF SilenceAt
<1>2. TypeOK /\ SilenceAt /\ [Next]_vars => SilenceAt'
  BY SilenceKept
<1>3. TypeOK /\ SilenceAt => SilenceBounded
  <2> SUFFICES ASSUME TypeOK, SilenceAt, ~restart
               PROVE  silence <= LIMIT + (MaxWifiErr + 1) * MaxPass
    BY DEF SilenceBounded
  <2> DEFINE w == wifiErr * MaxPass
             m == MaxWifiErr * MaxPass
  <2>1. /\ w \in Nat /\ m \in Nat /\ (MaxWifiErr + 1) * MaxPass = m + MaxPass
        /\ MaxPass \in Nat /\ LIMIT \in Nat /\ w <= m
    BY NumbersAssumption, Products DEF TypeOK, SilenceAt
  <2>2. silence <= LIMIT + w \/ silence <= LIMIT + w + MaxPass
    BY DEF SilenceAt
  <2> HIDE DEF w, m
  <2> QED
    BY <2>1, <2>2 DEF TypeOK
<1> QED
  BY <1>1, <1>2, <1>3, SessionTyped, PTL DEF Session

----------------------------------------------------------------------------
\* What an open connection guarantees of the silence, if no period in force since the last
\* publish is within a pass of the limit: it was refreshed a period ago at most when
\* the last pass ended, and this pass adds MaxPass at most.
UpFresh ==
    /\ refresh <= longest
    /\ up => wifi
    /\ up /\ longest + MaxPass <= LIMIT =>
        /\ pc = "top" => silence + MaxPass <= LIMIT
        /\ pc # "top" => silence <= LIMIT

\* The longest period only grows, until a publish.
LEMMA Longer ==
    ASSUME TypeOK, Changed
    PROVE  refresh' \in Nat /\ longest' \in Nat /\ refresh' <= longest' /\ longest <= longest'
BY NumbersAssumption DEF TypeOK, Changed

LEMMA Fresh == Session => []UpFresh
<1>1. Init => UpFresh
  <2> SUFFICES ASSUME Init PROVE UpFresh
    OBVIOUS
  <2>1. up = FALSE /\ longest = refresh /\ refresh \in Nat
    BY NumbersAssumption DEF Init
  <2> QED
    BY <2>1 DEF UpFresh
<1>2. TypeOK /\ ErrNeverTrips /\ UpFresh /\ [Next]_vars => UpFresh'
  <2> SUFFICES ASSUME TypeOK, ErrNeverTrips, UpFresh, [Next]_vars PROVE UpFresh'
    OBVIOUS
  <2>0. /\ refresh \in Nat /\ longest \in Nat /\ MaxPass \in Nat /\ LIMIT \in Nat
        /\ silence \in Nat
    BY NumbersAssumption DEF TypeOK
  <2>1. CASE Pass
    <3>1. /\ refresh' = refresh /\ longest' = longest /\ up' = up /\ wifi' = wifi
          /\ pc = "top" /\ pc' = "loop" /\ silence' \in Nat /\ silence' <= silence + MaxPass
      BY <2>0, <2>1, NumbersAssumption DEF Pass, env
    <3> QED
      BY <2>0, <3>1 DEF UpFresh
  <2>2. CASE Restart
    <3>1. refresh' \in Nat /\ longest' = refresh' /\ up' = FALSE
      BY <2>2, NumbersAssumption DEF Restart, Renewed
    <3> QED
      BY <3>1 DEF UpFresh
  <2>3. CASE WifiDown
    BY <2>3 DEF WifiDown, UpFresh
  <2>4. CASE ConnectOk
    <3>1. /\ refresh' \in Nat /\ longest' = refresh' /\ silence' = 0 /\ wifi' /\ pc' = "watch"
      BY <2>4, NumbersAssumption DEF ConnectOk, Renewed, env
    <3>2. refresh' <= longest' /\ silence' <= LIMIT
      BY <2>0, <3>1
    <3> QED
      BY <3>1, <3>2, Zenon DEF UpFresh
  <2>5. CASE ConnectFails
    <3>1. ~up' /\ refresh' <= longest'
      BY <2>5, Longer DEF ConnectFails, Due
    <3> QED
      BY <3>1 DEF UpFresh
  <2>6. CASE NoConnect
    BY <2>6 DEF NoConnect, env, UpFresh
  <2>7. CASE Watchdog
    <3>1. ~(mqttErr > MaxErr)
      BY NumbersAssumption DEF ErrNeverTrips, TypeOK
    <3>2. silence > LIMIT /\ pc = "watch"
      BY <3>1, <2>7 DEF Watchdog, TooSilent
    <3>3. ~(up /\ longest + MaxPass <= LIMIT)
      BY <2>0, <3>2 DEF UpFresh
    <3> QED
      BY <3>3, <2>7 DEF Watchdog, env, UpFresh
  <2>8. CASE Publish
    <3>1. /\ refresh' = refresh /\ longest' = refresh /\ silence' = 0 /\ wifi' = wifi /\ up' = up
          /\ pc' = "top"
      BY <2>8 DEF Publish, env
    <3> QED
      BY <2>0, <3>1 DEF UpFresh
  <2>9. CASE NothingToDo
    <3>1. /\ refresh' = refresh /\ longest' = longest /\ silence' = silence /\ wifi' = wifi
          /\ up' = up /\ pc' = "top" /\ (up => ~(silence >= refresh))
      BY <2>9 DEF NothingToDo, env
    <3> QED
      BY <2>0, <3>1 DEF UpFresh
  <2>10. CASE Teleperiod
    <3>1. /\ silence' = silence /\ pc' = pc /\ (wifi' <=> wifi) /\ (up' <=> up)
      BY <2>10 DEF Teleperiod, env
    <3>2. refresh' <= longest' /\ longest <= longest' /\ longest' \in Nat
      BY <2>10, Longer DEF Teleperiod
    <3>3. longest' + MaxPass <= LIMIT => longest + MaxPass <= LIMIT
      <4>1. \A a, b, m, l \in Nat : a <= b /\ b + m <= l => a + m <= l
        OBVIOUS
      <4> QED
        BY <2>0, <3>2, <4>1, Zenon
    <3>4. up' => wifi'
      BY <3>1, Zenon DEF UpFresh
    <3>5. ASSUME up', longest' + MaxPass <= LIMIT
          PROVE  /\ pc' = "top" => silence' + MaxPass <= LIMIT
                 /\ pc' # "top" => silence' <= LIMIT
      <4>1. up /\ longest + MaxPass <= LIMIT
        BY <3>1, <3>3, <3>5, Zenon
      <4>2. /\ pc = "top" => silence + MaxPass <= LIMIT
            /\ pc # "top" => silence <= LIMIT
        BY <4>1, Zenon DEF UpFresh
      <4> QED
        BY <3>1, <4>2
    <3> QED
      BY <3>2, <3>4, <3>5, Zenon DEF UpFresh
  <2>11. CASE ConnectionLost \/ WifiChanges
    BY <2>11 DEF ConnectionLost, WifiChanges, env, UpFresh
  <2>12. CASE BrokerChanges \/ BmsKnown \/ UNCHANGED vars
    BY <2>12 DEF BrokerChanges, BmsKnown, vars, env, UpFresh
  <2> QED
    BY <2>1, <2>2, <2>3, <2>4, <2>5, <2>6, <2>7, <2>8, <2>9, <2>10, <2>11, <2>12
       DEF Next, LoopTask, Environment
<1> QED
  BY <1>1, <1>2, SessionTyped, SessionErr, PTL DEF Session

----------------------------------------------------------------------------
\* The watchdog reboots only a bridge whose MQTT connection is down, or one that had a
\* period in force that comes within a pass of the limit.
LEMMA SessionSpared == Session => ConnectedNotRebooted
<1>1. TypeOK /\ ErrNeverTrips /\ UpFresh /\ [Next]_vars
        => [WatchdogBites => ~up \/ longest + MaxPass > LIMIT]_vars
  <2> SUFFICES ASSUME TypeOK, ErrNeverTrips, UpFresh, Next, WatchdogBites
               PROVE  ~up \/ longest + MaxPass > LIMIT
    OBVIOUS
  <2>1. TooSilent /\ pc = "watch"
    BY DEF WatchdogBites, Next, LoopTask, Environment, Pass, Restart, WifiDown, ConnectOk,
           ConnectFails, NoConnect, Watchdog, Publish, NothingToDo, ConnectionLost,
           WifiChanges, BrokerChanges, BmsKnown, Teleperiod
  <2>2. ~(mqttErr > MaxErr)
    BY NumbersAssumption DEF TypeOK, ErrNeverTrips
  <2> QED
    BY <2>1, <2>2, NumbersAssumption DEF TooSilent, UpFresh, TypeOK
<1> QED
  BY <1>1, SessionTyped, SessionErr, Fresh, PTL DEF Session, ConnectedNotRebooted

----------------------------------------------------------------------------
\* What this makes of MqttSession.

\* Every variable keeps its type.
THEOREM Typing == Spec => []TypeOK
BY SessionTyped, PTL DEF Spec, Session

\* The error count is 0 or 1 at all times, so the second condition of the
\* watchdog, mqttErr > 20, never holds.
THEOREM ErrCount == Spec => []ErrNeverTrips
BY SessionErr, PTL DEF Spec, Session

\* Whatever the network does, the bridge is silent no longer than LIMIT and the passes
\* wifiErr allows, or about to restart.
THEOREM Silence == Spec => []SilenceBounded
BY SessionSilence, PTL DEF Spec, Session

\* The watchdog reboots only a bridge whose MQTT connection is down, or one that had a
\* period in force that comes within a pass of the limit.
THEOREM Spared == Spec => ConnectedNotRebooted
BY SessionSpared, PTL DEF Spec, Session

----------------------------------------------------------------------------
\* The circle

\* Each step of the bridge is one of its uplink or leaves that alone.
LEMMA UplinkStep == [BridgeNext]_all => [Next]_vars
<1> SUFFICES ASSUME [BridgeNext]_all PROVE [Next]_vars
  OBVIOUS
<1>1. CASE Connect \/ NotWanted \/ Fail \/ Found \/ RunOut \/ LinkChanges
  BY <1>1, Zenon DEF Connect, NotWanted, Fail, Found, RunOut, LinkChanges
<1>2. CASE Serve \/ Wedge
  <2>1. CASE known = TRUE
    BY <1>2, <2>1 DEF Serve, Wedge, vars
  <2>2. CASE ~known
    BY <1>2, <2>2 DEF Serve, Wedge, Next, Environment, BmsKnown
  <2> QED
    BY <2>1, <2>2
<1>3. CASE UplinkAlone \/ Tell \/ Reboot
  BY <1>3, Zenon DEF UplinkAlone, Tell, Reboot, Next, LoopTask
<1>4. CASE UplinkChanges
  BY <1>4, Zenon DEF UplinkChanges, Next, Environment
<1>5. CASE UNCHANGED all
  BY <1>5, Zenon DEF all
<1> QED
  BY <1>1, <1>2, <1>3, <1>4, <1>5, Zenon DEF BridgeNext, BridgeLoop

LEMMA LinkStep == [BridgeNext]_all => [Link!Next]_Link!vars
<1> SUFFICES ASSUME [BridgeNext]_all PROVE [Link!Next]_Link!vars
  OBVIOUS
<1> USE DEF Link!Next, Link!vars, linkVars
<1>1. CASE Connect \/ Serve \/ Wedge \/ Fail \/ Reboot
  BY <1>1, Zenon DEF Connect, Serve, Wedge, Fail, Reboot
<1>2. CASE Found \/ RunOut \/ LinkChanges
  BY <1>2, Zenon DEF Found, RunOut, LinkChanges
<1>3. CASE NotWanted \/ UplinkAlone \/ UplinkChanges
  BY <1>3, Zenon DEF NotWanted, UplinkAlone, UplinkChanges
<1>4. CASE Tell
  BY <1>4, Zenon DEF Tell
<1>5. CASE UNCHANGED all
  BY <1>5, Zenon DEF all
<1> QED
  BY <1>1, <1>2, <1>3, <1>4, <1>5, Zenon DEF BridgeNext, BridgeLoop

\* In the circle the uplink does nothing it does not do alone.
THEOREM BridgeIsSession == BridgeSpec => Session
<1>1. BridgeInit => Init
  BY Zenon DEF BridgeInit
<1> QED
  BY <1>1, UplinkStep, PTL DEF BridgeSpec, Session

\* And the link does nothing LinkService does not promise.
THEOREM BridgeKeepsLink == BridgeSpec => Link!Init /\ [][Link!Next]_Link!vars
<1>1. BridgeInit => Link!Init
  BY Zenon DEF BridgeInit
<1> QED
  BY <1>1, LinkStep, PTL DEF BridgeSpec

\* Whatever the BLE link does to the passes of loop(), the bridge is silent no longer than
\* the two watchdogs allow.
THEOREM BridgeSilence == BridgeSpec => []SilenceBounded
BY BridgeIsSession, SessionSilence, PTL

\* Whatever the BMS does, a bridge whose uplink is up is not rebooted for silence unless
\* a period in force comes within a pass of the limit.
THEOREM BridgeSpared == BridgeSpec => ConnectedNotRebooted
BY BridgeIsSession, SessionSpared, PTL

====
