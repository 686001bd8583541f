---- MODULE Relay ----
(***************************************************************************)
(* processRelay() (main.cpp), called in every pass of loop(): the relay    *)
(* follows a manual wish or a reading of the BMS compared with a setting,  *)
(* looked at once per RELAY_REFRESH.                                       *)
(*                                                                         *)
(* A reading is a whole number of small units (mV), the setting it is      *)
(* compared with of large ones (V), Unit of the small each; the division   *)
(* is that of integers.  Modes whose reading is not divided have Unit 1.   *)
(* Everything the relay depends on is written by other tasks at any time:  *)
(* settings by the web server, the wish by web and MQTT, readings by the   *)
(* BLE task.                                                               *)
(***************************************************************************)
EXTENDS Integers

CONSTANTS
    Refresh,    \* RELAY_REFRESH
    MaxPass,    \* longest pass of loop()
    Readings,   \* readings the BMS sends, in small units
    Unit,       \* small units to a large one
    Settings    \* what may be saved on the settings page

ASSUME RelayAssumption ==
    /\ Refresh \in Nat \ {0} /\ MaxPass \in Nat \ {0} /\ Unit \in Nat \ {0}
    /\ Readings \subseteq Nat /\ Settings # {}
    /\ Settings \subseteq [enable : BOOLEAN, failsafe : BOOLEAN, invert : BOOLEAN,
                           auto : BOOLEAN, compare : {0, 1}, value : Int, hysteresis : Int]

VARIABLES
    pc,         \* "loop", or "relay" in processRelay()
    set,        \* Settings.relay; auto for function > 0
    relay,      \* the manual wish
    reading,    \* what the mode reads, 0 before the BMS has sent any
    paused,     \* bmsCmd = PAUSE
    relayState, \* the pin
    age,        \* millis() - lastSwitched, no further than Refresh is compared with
    still,      \* history: time since the pin changed, as far
    turned      \* history: inversion has turned the pin over since lastSwitched

relayVars == <<pc, set, relay, reading, paused, relayState, age, still, turned>>

RelayTypeOK ==
    /\ pc \in {"loop", "relay"} /\ set \in Settings
    /\ relay \in BOOLEAN /\ paused \in BOOLEAN /\ relayState \in BOOLEAN
    /\ reading \in Readings \cup {0}
    /\ age \in 0..(Refresh + 1) /\ still \in 0..(Refresh + 1) /\ turned \in BOOLEAN

RelayInit ==
    /\ pc = "loop" /\ set \in Settings
    /\ relay = FALSE /\ paused = TRUE /\ relayState = FALSE
    /\ reading = 0
    /\ age = 0 /\ still = Refresh + 1 /\ turned = FALSE

Capped(t) == IF t > Refresh THEN Refresh + 1 ELSE t

----------------------------------------------------------------------------
\* The loop task

RelayPass ==
    /\ pc = "loop"
    /\ \E d \in 1..MaxPass : age' = Capped(age + d) /\ still' = Capped(still + d)
    /\ pc' = "relay"
    /\ UNCHANGED <<set, relay, reading, paused, relayState, turned>>

Due == set.enable /\ age > Refresh

val == reading \div Unit

\* The end of processRelay(): inversion, and the pin if it is to change.
Settle(state) ==
    LET pin == (state # set.invert) IN
    /\ relayState' = pin
    /\ still' = IF pin # relayState THEN 0 ELSE still
    /\ pc' = "loop"
    /\ UNCHANGED <<set, relay, reading, paused>>

\* Not yet time, or the relay is not enabled: what is settled is the state it has,
\* turned over by inversion.
NotDue ==
    /\ pc = "relay" /\ ~Due
    /\ Settle(relayState)
    /\ turned' = (turned \/ set.invert)
    /\ UNCHANGED age

Manual ==
    /\ pc = "relay" /\ Due /\ ~set.auto
    /\ age' = 0 /\ turned' = FALSE
    /\ Settle(relay)

\* An early return: polling is paused, or the failsafe mode is set.
Frozen ==
    /\ pc = "relay" /\ Due /\ set.auto
    /\ paused \/ set.failsafe
    /\ age' = 0 /\ turned' = FALSE /\ pc' = "loop"
    /\ UNCHANGED <<set, relay, reading, paused, relayState, still>>

\* Mutant: the hysteresis is on the wrong side.
MutCompared ==
    IF set.compare = 1
    THEN val >= set.value \/ (val >= set.value + set.hysteresis /\ relayState)
    ELSE val <= set.value - set.hysteresis

\* Beyond the value: on.  Beyond the value less the hysteresis: off.  Between them
\* as it is.
Compared ==
    IF set.compare = 1
    THEN val >= set.value \/ (val >= set.value - set.hysteresis /\ relayState)
    ELSE val <= set.value \/ (val <= set.value + set.hysteresis /\ relayState)

\* Mutant: lastSwitched is not set.
MutByReading ==
    /\ pc = "relay" /\ Due /\ set.auto
    /\ ~paused /\ ~set.failsafe
    /\ Settle(Compared)
    /\ turned' = FALSE /\ UNCHANGED age

ByReading ==
    /\ pc = "relay" /\ Due /\ set.auto
    /\ ~paused /\ ~set.failsafe
    /\ age' = 0 /\ turned' = FALSE
    /\ Settle(Compared)

RelayLoop == RelayPass \/ NotDue \/ Manual \/ Frozen \/ ByReading

----------------------------------------------------------------------------
\* The other tasks

\* cmnd/relay, /set?relay, relay_on and relay_off
Wish ==
    /\ relay' = ~relay
    /\ UNCHANGED <<pc, set, reading, paused, relayState, age, still, turned>>

\* /settingssave
Save ==
    /\ set' \in Settings
    /\ UNCHANGED <<pc, relay, reading, paused, relayState, age, still, turned>>

\* A reply of the BMS.
Reading ==
    /\ reading' \in Readings
    /\ UNCHANGED <<pc, set, relay, paused, relayState, age, still, turned>>

\* bms_on and bms_off, connect and disconnect
Pause ==
    /\ paused' = ~paused
    /\ UNCHANGED <<pc, set, relay, reading, relayState, age, still, turned>>

RelayNext == RelayLoop \/ Wish \/ Save \/ Reading \/ Pause

RelaySpec == RelayInit /\ [][RelayNext]_relayVars /\ WF_relayVars(RelayLoop)

----------------------------------------------------------------------------
\* Properties

\* "interval in s for relay process": the contacts are not worked faster than once
\* per RELAY_REFRESH, whatever the readings, the commands and the settings do, but for
\* inversion, which turns them over in every pass that is not due, and by that leaves
\* them as young as a pass when the next one is.
NoChatter ==
    [][relayState' # relayState =>
        still >= Refresh \/ turned \/ (set.invert /\ ~Due)]_relayVars

Following == set.enable /\ set.auto /\ ~set.failsafe /\ ~set.invert /\ ~paused

\* A reading that stays beyond the value switches the relay on for good, one that
\* stays beyond the hysteresis switches it off for good.
Follows ==
    /\ <>[](Following /\ set.compare = 1 /\ val >= set.value) => <>[]relayState
    /\ <>[](Following /\ set.compare = 0 /\ val <= set.value) => <>[]relayState
    /\ <>[](Following /\ set.compare = 1 /\ val < set.value - set.hysteresis) => <>[]~relayState
    /\ <>[](Following /\ set.compare = 0 /\ val > set.value + set.hysteresis) => <>[]~relayState

====
