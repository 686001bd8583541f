---- MODULE Publish ----
(***************************************************************************)
(* What the broker is told: the second half of processMQTT() with          *)
(* mqttPublishBasicData() and mqttPublishCellData() (Mqtt.cpp).            *)
(*                                                                         *)
(* The loop task compares the BMS data with a copy it took after the last  *)
(* publish, sends what differs by more than minDiff, everything at every   *)
(* tenth call, and takes the next copy: not from what it sent, but once    *)
(* more from the data, which the BLE host task may have changed meanwhile. *)
(* A publish() that fails is not noticed.                                  *)
(*                                                                         *)
(* One value stands for all; when a publish is due is left to MqttSession. *)
(***************************************************************************)
EXTENDS Integers

CONSTANTS
    MaxValue,   \* values are 0..MaxValue
    MinDiff,    \* minDiff: 100 for the current and the charge, 0 for the rest
    Every       \* every Every-th call sends everything (10)

ASSUME PublishAssumption ==
    MaxValue \in Nat /\ MinDiff \in Nat /\ Every \in Nat \ {0}

Values == 0..MaxValue

VARIABLES
    doing,      \* "due", or "copy": sent, and the next copy not yet taken
    value,      \* in Bms.basicData or Bms.cellData
    old,        \* the same in oldbasicData or oldcellData
    sent,       \* what the broker has, -1 for nothing
    cnt,        \* publishCnt modulo Every
    json,       \* Settings.data.mqttJson
    connected, bmsPaused, ok, \* Bms.connected, bmsCmd = PAUSE, dataOk > 5
    state,      \* what the broker has of stat/BMS/state, "" for nothing
    lossy,      \* a publish may get lost
    clean       \* no publish lost and no value changed under a copy since everything
                \* was sent: kept for the properties

bms == <<connected, bmsPaused, ok>>
publishVars ==
    <<doing, value, old, sent, cnt, json, connected, bmsPaused, ok, state, lossy, clean>>

PublishTypeOK ==
    /\ doing \in {"due", "copy"}
    /\ value \in Values /\ old \in Values /\ sent \in Values \cup {-1}
    /\ cnt \in 0..(Every - 1)
    /\ json \in BOOLEAN /\ connected \in BOOLEAN /\ bmsPaused \in BOOLEAN /\ ok \in BOOLEAN
    /\ state \in {"", "paired", "connected", "disconnected"}
    /\ lossy \in BOOLEAN /\ clean \in BOOLEAN

PublishInit ==
    /\ doing = "due" /\ value = 0 /\ old = 0 /\ sent = -1 /\ cnt = 0
    /\ json \in BOOLEAN /\ lossy \in BOOLEAN
    /\ connected = FALSE /\ bmsPaused = FALSE /\ ok = FALSE
    /\ state = "" /\ clean = FALSE

Diff(a, b) == IF a > b THEN a - b ELSE b - a

\* Mutant: everything is sent once.
MutForceUpdate == sent = -1
ForceUpdate == cnt = 0

\* Mutant: a difference of minDiff is overlooked twice.
MutToSend == ForceUpdate \/ json \/ Diff(value, old) > 2 * MinDiff
ToSend == ForceUpdate \/ json \/ Diff(value, old) > MinDiff

\* publish(): received, or lost without a trace.
Received == {TRUE} \cup (IF lossy THEN {FALSE} ELSE {})

----------------------------------------------------------------------------
\* Loop task

\* BMS connected, requests active and data ok.
Send ==
    /\ doing = "due" /\ connected /\ ~bmsPaused /\ ok
    /\ \E received \in Received :
        /\ sent' = IF ToSend /\ received THEN value ELSE sent
        /\ clean' = (received /\ (clean \/ ForceUpdate))
    /\ doing' = "copy"
    /\ UNCHANGED <<value, old, cnt, json, bms, state, lossy>>

\* publishCnt++ and the two memcpy().
Copy ==
    /\ doing = "copy"
    /\ old' = value /\ cnt' = (cnt + 1) % Every
    /\ doing' = "due"
    /\ UNCHANGED <<value, sent, json, bms, state, lossy, clean>>

Word == IF connected /\ bmsPaused THEN "paired"
        ELSE IF ~connected THEN "disconnected" ELSE "connected"

\* Otherwise a word on the BMS.
SendState ==
    /\ doing = "due" /\ ~(connected /\ ~bmsPaused /\ ok)
    /\ \E received \in Received : state' = IF received THEN Word ELSE state
    /\ UNCHANGED <<doing, value, old, sent, cnt, json, bms, lossy, clean>>

----------------------------------------------------------------------------
\* Everything else

\* A reply, at any moment.
Reply ==
    /\ connected
    /\ \E v \in Values : value' = v /\ clean' = (clean /\ (doing = "copy" => v = value))
    /\ UNCHANGED <<doing, old, sent, cnt, json, bms, state, lossy>>

\* process() counts the replies in dataOk, up to where they are enough, and starts
\* again at nought when one is missing or disconnect() was asked for.
Poll ==
    /\ doing = "due" /\ connected
    /\ ok' \in BOOLEAN
    /\ UNCHANGED <<doing, value, old, sent, cnt, json, connected, bmsPaused, state, lossy, clean>>

\* Connected, paused or disconnected.  A link that is lost does not reset dataOk.
BmsChanges ==
    /\ connected' \in BOOLEAN /\ bmsPaused' \in BOOLEAN
    /\ UNCHANGED <<doing, value, old, sent, cnt, json, ok, state, lossy, clean>>

\* debug 86
Json ==
    /\ json' = ~json
    /\ UNCHANGED <<doing, value, old, sent, cnt, bms, state, lossy, clean>>

Network ==
    /\ lossy' = ~lossy
    /\ UNCHANGED <<doing, value, old, sent, cnt, json, bms, state, clean>>

PublishLoop == Send \/ Copy \/ SendState
PublishNext == PublishLoop \/ Reply \/ Poll \/ BmsChanges \/ Json \/ Network

\* Publishing is due again and again while MQTT is up.
PublishSpec == PublishInit /\ [][PublishNext]_publishVars /\ WF_publishVars(PublishLoop)

----------------------------------------------------------------------------
\* Properties

\* Publishes since the one that sent everything.
Since == IF cnt = 0 THEN Every - 1 ELSE cnt - 1

\* A value that moves by minDiff at most from one publish to the next is not sent, and
\* the copy goes with it: between two full publishes the broker's value falls behind
\* by minDiff per publish and no more.
DriftBounded ==
    clean /\ doing = "due" => Diff(sent, old) <= Since * MinDiff

\* A value that stays as it is gets to the broker and stays there, although it changed
\* by less than minDiff, while the copy was taken, or with a publish that got lost.
Settles ==
    \A v \in Values :
        <>[](value = v /\ connected /\ ~bmsPaused /\ ok /\ ~lossy) => <>[](sent = v)

====
