---- MODULE Bridge ----
(***************************************************************************)
(* The two halves of the bridge together: the uplink of MqttSession and    *)
(* the BLE link as LinkService describes it (BmsLink implements that), run *)
(* by the one loop task: setup(), then process() and the rest of loop() in *)
(* turn.                                                                   *)
(*                                                                         *)
(* They wait for each other.  connectMQTT() needs the alias of the BMS,    *)
(* which process() learns when it has connected; a scan that has run out   *)
(* is repeated by processMQTT(), when it publishes over a connection that  *)
(* is up.                                                                  *)
(***************************************************************************)
EXTENDS MqttSession

VARIABLES
    turn,                   \* what the loop task does next: "process", "rest"
    phase, user, inRange    \* of LinkService; the loop task is free, waits or tries

linkVars == <<phase, user, inRange>>
all == <<vars, turn, linkVars>>

Link == INSTANCE LinkService

\* main setup() ends with the first scan.
BridgeInit == Init /\ Link!Init /\ turn = "process"

----------------------------------------------------------------------------
\* The loop task

\* process() enters connect() for a BMS that was found.
Connect ==
    /\ turn = "process" /\ Link!Try
    /\ turn' = "rest"
    /\ UNCHANGED vars

NotWanted ==
    /\ turn = "process" /\ user = "free" /\ phase # "wanted"
    /\ turn' = "rest"
    /\ UNCHANGED <<vars, linkVars>>

\* It has connected the BMS and derives the alias from its name; or it believes so ...
Serve ==
    /\ Link!Serve
    /\ known' = TRUE
    /\ UNCHANGED <<pc, wifi, broker, up, lastConnected, connAge, silence, refresh,
                   mqttErr, wifiErr, restart, longest, turn>>

Wedge ==
    /\ Link!Wedge
    /\ known' = TRUE
    /\ UNCHANGED <<pc, wifi, broker, up, lastConnected, connAge, silence, refresh,
                   mqttErr, wifiErr, restart, longest, turn>>

\* ... or it has not.
Fail == Link!Fail /\ UNCHANGED <<vars, turn>>

\* The rest of a pass, up to the end of loop().
UplinkAlone ==
    /\ turn = "rest" /\ user = "free"
    /\ \/ Pass \/ WifiDown \/ ConnectOk \/ ConnectFails \/ NoConnect
       \/ Watchdog \/ NothingToDo
    /\ turn' = IF pc' = "top" THEN "process" ELSE "rest"
    /\ UNCHANGED linkVars

\* Mutant: without a BMS it says so and does not scan.
MutTell ==
    /\ turn = "rest" /\ user = "free" /\ Publish
    /\ turn' = "process"
    /\ UNCHANGED linkVars

\* processMQTT() publishes; while the BMS does not count as connected it calls setup(),
\* which scans and blocks.  (A BMS that is wanted may be one that does.)
Tell ==
    /\ turn = "rest" /\ user = "free" /\ Publish
    /\ turn' = "process"
    /\ Link!Setup \/ (phase \notin {"quiet", "scanning"} /\ UNCHANGED linkVars)

Reboot ==
    /\ turn = "rest" /\ user = "free" /\ Restart /\ Link!Boot
    /\ turn' = "process"

BridgeLoop ==
    Connect \/ NotWanted \/ Serve \/ Wedge \/ Fail \/ UplinkAlone \/ Tell \/ Reboot

----------------------------------------------------------------------------
\* The host task, and what goes on outside

\* A scan is over, and whoever waits for it goes on or has missed it.
Found == Link!Find /\ UNCHANGED <<vars, turn>>
RunOut == (Link!GiveUp \/ Link!Return) /\ UNCHANGED <<vars, turn>>

LinkChanges ==
    /\ Link!Scan \/ Link!Lose \/ Link!Move
    /\ UNCHANGED <<vars, turn>>

UplinkChanges ==
    /\ ConnectionLost \/ WifiChanges \/ BrokerChanges \/ Teleperiod
    /\ UNCHANGED <<turn, linkVars>>

BridgeNext == BridgeLoop \/ Found \/ RunOut \/ LinkChanges \/ UplinkChanges

\* The loop task runs, and scans that run end.  A BMS in reach is found by one of the scans that
\* setup() waits for, and setup() sees it; sooner or later nothing comes between that
\* and connect() or goes wrong in it; not only when the watchdog has already decided on
\* a restart.
BridgeSpec ==
    /\ BridgeInit /\ [][BridgeNext]_all
    /\ WF_all(BridgeLoop) /\ WF_all(phase = "scanning" /\ (Found \/ RunOut))
    /\ SF_all(user = "waiting" /\ Found /\ user' = "free")
    /\ SF_all(~restart /\ Connect) /\ SF_all(~restart /\ Serve)

----------------------------------------------------------------------------
\* Properties

\* "request bms data, connects/reconnects bms", "handle mqtt, reconnects mqtt-server"
\* (loop()): with network, broker and BMS there for good the bridge has both its
\* connections again and again, whatever happened before and however often they break,
\* unless it is caught in one of two states: the loop task waits in setup() for a scan
\* that is over (ScanWait), or the BMS counts as connected over no link (BmsLink).
\* When each half waits for the other, only the watchdog of processMQTT() gets them out.
Bridges ==
    /\ <>[](wifi /\ broker /\ inRange)
    /\ []<>(user # "waiting") /\ []<>(phase # "hollow")
    => []<>up /\ []<>(phase = "served")

====
