---- MODULE MqttSession ----
(***************************************************************************)
(* The uplink of the bridge and its watchdogs: the WiFi and MQTT part of   *)
(* loop() (main.cpp), processMQTT(), connectMQTT() and setupMQTTClient()   *)
(* (Mqtt.cpp), all run by the loop task, pass after pass.                  *)
(*                                                                         *)
(* A pass takes 1..MaxPass units of time, whatever it blocks in: a connect *)
(* attempt, a BLE scan, a web update.  processMQTT() takes the time once,  *)
(* at its start; time is kept as the ages it computes from it.  The rest   *)
(* of the system is three facts that change under the loop's feet: WiFi is *)
(* up, the broker accepts, the BMS has told its name.                      *)
(***************************************************************************)
EXTENDS Naturals

CONSTANTS
    LIMIT,      \* silence after which processMQTT() reboots (two minutes)
    RECONNECT,  \* age of a connection before it is renewed (five minutes)
    Periods,    \* values of refresh: settings, teleperiod commands
    MaxPass,    \* longest pass of loop()
    MaxErr,     \* limit of mqttErr (20)
    MaxWifiErr  \* limit of wifiErr (20)

ASSUME NumbersAssumption ==
    /\ LIMIT \in Nat /\ RECONNECT \in Nat /\ MaxErr \in Nat \ {0} /\ MaxWifiErr \in Nat
    /\ MaxPass \in Nat \ {0}
    /\ Periods \subseteq Nat /\ Periods # {}

VARIABLES
    pc,             \* "top" of loop(), "loop" in it, "watch" in processMQTT()
    wifi, broker,   \* the network is up, the broker accepts connections
    known,          \* Bms.data.Alias does not end in '0'
    up,             \* mqttClient.connected()
    lastConnected,  \* FALSE for 0: connect at the next pass
    connAge,        \* ms - lastConnected, no further than RECONNECT is compared with
    silence,        \* ms - lastPublished
    refresh,
    mqttErr, wifiErr,
    restart,
    longest         \* history: the longest period in force since lastPublished

env == <<wifi, broker, known>>
vars == <<pc, wifi, broker, known, up, lastConnected, connAge, silence, refresh,
          mqttErr, wifiErr, restart, longest>>

TypeOK ==
    /\ pc \in {"top", "loop", "watch"}
    /\ wifi \in BOOLEAN /\ broker \in BOOLEAN /\ known \in BOOLEAN
    /\ up \in BOOLEAN /\ lastConnected \in BOOLEAN
    /\ connAge \in Nat /\ silence \in Nat /\ refresh \in Periods
    /\ mqttErr \in Nat /\ wifiErr \in Nat
    /\ restart \in BOOLEAN /\ longest \in Periods

Init ==
    /\ pc = "top" /\ known = FALSE /\ up = FALSE
    /\ lastConnected = FALSE /\ connAge = 0 /\ silence = 0
    /\ mqttErr = 0 /\ wifiErr = 0 /\ restart = FALSE
    /\ wifi \in BOOLEAN /\ broker \in BOOLEAN /\ refresh \in Periods /\ longest = refresh

Capped(n) == IF n > RECONNECT THEN RECONNECT + 1 ELSE n

\* Another period is taken, with or without a publish.
Renewed == refresh' \in Periods /\ longest' = refresh'
Changed ==
    /\ refresh' \in Periods
    /\ longest' = IF refresh' > longest THEN refresh' ELSE longest

----------------------------------------------------------------------------
\* loop()

\* Time goes on by what the last pass took.
Pass ==
    /\ pc = "top" /\ ~restart
    /\ \E d \in 1..MaxPass :
        /\ connAge' = Capped(connAge + d)
        /\ silence' = silence + d
    /\ pc' = "loop"
    /\ UNCHANGED <<env, up, lastConnected, refresh, mqttErr, wifiErr, restart, longest>>

\* ESP.restart(): restartTime was set back, so the next pass does it.  The RAM is
\* as after any boot, the settings are those of the flash.
Restart ==
    /\ pc = "top" /\ restart
    /\ pc' = "top" /\ known' = FALSE /\ up' = FALSE
    /\ lastConnected' = FALSE /\ connAge' = 0 /\ silence' = 0
    /\ mqttErr' = 0 /\ wifiErr' = 0 /\ restart' = FALSE
    /\ Renewed
    /\ UNCHANGED <<wifi, broker>>

\* Mutant: a reconnect that works takes the count back.
MutWifiDown ==
    /\ pc = "loop" /\ ~wifi
    /\ wifi' \in BOOLEAN
    /\ IF wifiErr + 1 > MaxWifiErr
       THEN wifiErr' = 0 /\ restart' = TRUE
       ELSE wifiErr' = (IF wifi' THEN 0 ELSE wifiErr + 1) /\ UNCHANGED restart
    /\ pc' = "top"
    /\ UNCHANGED <<broker, known, up, lastConnected, connAge, silence, refresh,
                   mqttErr, longest>>

\* WiFi.status() is not WL_CONNECTED: count it and try to reconnect, with or
\* without success.  wifiErr is reset by the restart it leads to and by nothing else.
WifiDown ==
    /\ pc = "loop" /\ ~wifi
    /\ wifi' \in BOOLEAN
    /\ IF wifiErr + 1 > MaxWifiErr
       THEN wifiErr' = 0 /\ restart' = TRUE
       ELSE wifiErr' = wifiErr + 1 /\ UNCHANGED restart
    /\ pc' = "top"
    /\ UNCHANGED <<broker, known, up, lastConnected, connAge, silence, refresh,
                   mqttErr, longest>>

----------------------------------------------------------------------------
\* processMQTT(), first part: connect if there is no connection and it is time

\* Mutant: a bridge that has never been connected waits like one that has.
MutDue == ~up /\ connAge > RECONNECT

Due == ~up /\ (~lastConnected \/ connAge > RECONNECT)

\* connectMQTT() after setupMQTTClient(), which clears mqttErr and takes refresh
\* from the settings; the page may have saved another one since.
ConnectOk ==
    /\ pc = "loop" /\ wifi /\ Due
    /\ known /\ broker
    /\ up' = TRUE /\ mqttErr' = 0
    /\ lastConnected' = TRUE /\ connAge' = 0 /\ silence' = 0
    /\ Renewed
    /\ pc' = "watch"
    /\ UNCHANGED <<env, wifiErr, restart>>

\* The broker does not answer, or the BMS has not told its name: then the
\* attempt ends before it counts as an error.
ConnectFails ==
    /\ pc = "loop" /\ wifi /\ Due
    /\ ~known \/ ~broker
    /\ mqttErr' = IF known THEN 1 ELSE 0
    /\ lastConnected' = FALSE
    /\ Changed
    /\ pc' = "watch"
    /\ UNCHANGED <<env, up, connAge, silence, wifiErr, restart>>

NoConnect ==
    /\ pc = "loop" /\ wifi /\ ~Due
    /\ pc' = "watch"
    /\ UNCHANGED <<env, up, lastConnected, connAge, silence, refresh, mqttErr, wifiErr,
                   restart, longest>>

----------------------------------------------------------------------------
\* Second part: watchdog and publish

TooSilent == silence > LIMIT \/ mqttErr > MaxErr

Watchdog ==
    /\ pc = "watch" /\ TooSilent
    /\ mqttErr' = 0 /\ restart' = TRUE
    /\ pc' = "top"
    /\ UNCHANGED <<env, up, lastConnected, connAge, silence, refresh, wifiErr, longest>>

\* Mutant: publishing does not renew lastPublished.
MutPublish ==
    /\ pc = "watch" /\ ~TooSilent
    /\ up /\ silence >= refresh
    /\ pc' = "top"
    /\ UNCHANGED <<env, up, lastConnected, connAge, silence, refresh, mqttErr, wifiErr,
                   restart, longest>>

\* lastPublished is set whatever there is to publish and whether it gets through.
Publish ==
    /\ pc = "watch" /\ ~TooSilent
    /\ up /\ silence >= refresh
    /\ silence' = 0 /\ longest' = refresh
    /\ pc' = "top"
    /\ UNCHANGED <<env, up, lastConnected, connAge, refresh, mqttErr, wifiErr, restart>>

NothingToDo ==
    /\ pc = "watch" /\ ~TooSilent
    /\ ~(up /\ silence >= refresh)
    /\ pc' = "top"
    /\ UNCHANGED <<env, up, lastConnected, connAge, silence, refresh, mqttErr, wifiErr,
                   restart, longest>>

LoopTask == Pass \/ Restart \/ WifiDown \/ ConnectOk \/ ConnectFails \/ NoConnect
              \/ Watchdog \/ Publish \/ NothingToDo

----------------------------------------------------------------------------
\* Everything else

\* The connection breaks: the broker or the path to it fails, or PubSubClient or the
\* broker gives it up over a long pass (MqttClient).
ConnectionLost ==
    /\ up
    /\ up' = FALSE
    /\ UNCHANGED <<pc, env, lastConnected, connAge, silence, refresh, mqttErr, wifiErr,
                   restart, longest>>

\* WiFi goes, and the connection with it, or comes back by itself.
WifiChanges ==
    /\ wifi' = ~wifi
    /\ up' = FALSE
    /\ UNCHANGED <<pc, broker, known, lastConnected, connAge, silence, refresh, mqttErr,
                   wifiErr, restart, longest>>

BrokerChanges ==
    /\ broker' = ~broker
    /\ UNCHANGED <<pc, wifi, known, up, lastConnected, connAge, silence, refresh,
                   mqttErr, wifiErr, restart, longest>>

\* process() has connected the BMS and derived the alias from its name.
BmsKnown ==
    /\ ~known
    /\ known' = TRUE
    /\ UNCHANGED <<pc, wifi, broker, up, lastConnected, connAge, silence, refresh,
                   mqttErr, wifiErr, restart, longest>>

\* teleperiod, by MQTT or web.
Teleperiod ==
    /\ Changed
    /\ UNCHANGED <<pc, env, up, lastConnected, connAge, silence, mqttErr, wifiErr,
                   restart>>

Environment == ConnectionLost \/ WifiChanges \/ BrokerChanges \/ BmsKnown \/ Teleperiod

Next == LoopTask \/ Environment

\* The loop task runs.  Nothing is promised of the network or the BMS.
Spec == Init /\ [][Next]_vars /\ WF_vars(LoopTask)

----------------------------------------------------------------------------
\* Properties

\* processMQTT() asks for a reboot.
WatchdogBites == pc = "watch" /\ ~restart /\ restart'

\* A bridge whose MQTT connection is up is rebooted for silence only when a period that
\* does not leave a pass to the limit has been in force since the last publish: page and
\* teleperiod command allow that (processMQTT()).
ConnectedNotRebooted ==
    [][WatchdogBites => ~up \/ longest + MaxPass > LIMIT]_vars

\* The error count never gets near its limit: setupMQTTClient() clears it before
\* every attempt.  Silence alone reboots (proved in UplinkProofs).
ErrNeverTrips == mqttErr <= 1

\* How long the bridge can be silent, whatever WiFi, broker and BMS do.  A pass without
\* WiFi does not look at the silence, but it counts; so between the two watchdogs LIMIT
\* and one pass more than wifiErr allows are the longest silence without a restart under
\* way (loop(), processMQTT()).
SilenceBounded == ~restart => silence <= LIMIT + (MaxWifiErr + 1) * MaxPass

\* With network and broker up for good, and the BMS known at some pass after
\* every boot, MQTT is connected again and again: by a retry or by a reboot.
Reconnects ==
    <>[](wifi /\ broker) /\ []<>(pc = "loop" /\ known) => []<>up

====
