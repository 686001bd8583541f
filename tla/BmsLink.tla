---- MODULE BmsLink ----
(***************************************************************************)
(* The life of the BLE link: JbdBms::setup() scans, onResult() picks the   *)
(* BMS, process() calls connect(), onDisconnect() scans again.             *)
(*                                                                         *)
(* Two tasks act on the same unprotected variables: the loop task runs     *)
(* setup(), connect() and process() and blocks in them for seconds, the    *)
(* NimBLE host task runs the callbacks meanwhile.  The scanner and the     *)
(* client are those of the vendored NimBLE-Arduino.  One BMS is in reach.  *)
(*                                                                         *)
(* Abstracted: a connection attempt is one step, the link and NimBLE's     *)
(* m_connEstablished change together; GATT work between the link and the   *)
(* end of subscribe() is one step, done over a live link.                  *)
(***************************************************************************)
EXTENDS Naturals

CONSTANTS
    MaxRetries,     \* MAX_RETRIES
    GattFails,      \* service discovery or subscribe may fail on a live link
    BmsLeaves,      \* the BMS may go out of reach (or serve someone else) and return
    Rescan          \* MQTT is up: processMQTT() calls setup() while not connected

ASSUME LinkAssumption ==
    /\ MaxRetries \in Nat /\ GattFails \in BOOLEAN /\ BmsLeaves \in BOOLEAN /\ Rescan \in BOOLEAN

VARIABLES
    pc,         \* where the loop task is
    retries,    \* of the reconnect loop in connect()
    doConnect, connected,
    pClient,    \* a client exists and knows the BMS
    bmsDevice,  \* the scan result it points to: "none" yet, "live", "freed"
    link,       \* the BLE connection is up
    closing,    \* ... and is being terminated by this side
    scan,       \* the scanner is running
    inRange,    \* the BMS advertises within reach
    hpc,        \* "lost": onDisconnect() has stored connected and nothing else yet
    raced       \* history: the last link was lost when connect() had subscribed and
                \* not yet stored connected

loop == <<retries, pClient>>                        \* of the loop task
radio == <<link, closing, inRange, raced>>
vars == <<pc, loop, doConnect, connected, bmsDevice, radio, scan, hpc>>

Places == {"process", "mqtt", "starting", "scanning", "reconnect", "pair", "check",
           "services", "commit", "name"}

TypeOK ==
    /\ pc \in Places /\ retries \in 0..MaxRetries
    /\ doConnect \in BOOLEAN /\ connected \in BOOLEAN /\ pClient \in BOOLEAN
    /\ bmsDevice \in {"none", "live", "freed"}
    /\ link \in BOOLEAN /\ closing \in BOOLEAN
    /\ scan \in BOOLEAN /\ inRange \in BOOLEAN
    /\ hpc \in {"idle", "lost"} /\ raced \in BOOLEAN

\* main setup() runs Bms.setup(), which has started the first scan.
Init ==
    /\ pc = "starting" /\ retries = 0
    /\ doConnect = FALSE /\ connected = FALSE
    /\ pClient = FALSE /\ bmsDevice = "none"
    /\ link = FALSE /\ closing = FALSE
    /\ scan = TRUE /\ inRange \in BOOLEAN
    /\ hpc = "idle" /\ raced = FALSE

----------------------------------------------------------------------------
\* NimBLEScan

\* start(): a scan that is not running yet deletes the results of the last one,
\* and bmsDevice points into them.
StartScan ==
    /\ scan' = TRUE
    /\ bmsDevice' = IF ~scan /\ bmsDevice = "live" THEN "freed" ELSE bmsDevice

\* Whoever sleeps in setup() is woken when the scan ends.  A notification given before
\* the task sleeps is cleared on the way there.
ScanOver ==
    /\ scan' = FALSE
    /\ pc' = IF pc = "scanning" THEN "process" ELSE pc

\* onResult() for the BMS: stop the scan, keep the reference, ask for a connect.
Found ==
    /\ scan /\ inRange /\ ~link /\ hpc = "idle"
    /\ ScanOver
    /\ bmsDevice' = "live" /\ doConnect' = TRUE
    /\ UNCHANGED <<loop, connected, radio, hpc>>

\* Five seconds, and no advertisement of the BMS has come through.
ScanTimeout ==
    /\ scan /\ hpc = "idle"
    /\ ScanOver
    /\ UNCHANGED <<loop, doConnect, connected, bmsDevice, radio, hpc>>

----------------------------------------------------------------------------
\* Loop task

\* processMQTT(): publish is due and the BMS is not connected.
Setup ==
    /\ Rescan /\ pc = "mqtt" /\ ~connected
    /\ StartScan
    /\ pc' = "starting"
    /\ UNCHANGED <<loop, doConnect, connected, radio, hpc>>

\* The blocking start(): the notification is cleared, and the task sleeps until the
\* next one, whether the scan is still running or not.
Sleep ==
    /\ pc = "starting"
    /\ pc' = "scanning"
    /\ UNCHANGED <<loop, doConnect, connected, bmsDevice, radio, scan, hpc>>

\* Publish is not due, or there is no MQTT connection.  loop() starts over.
NextPass ==
    /\ pc = "mqtt"
    /\ pc' = "process"
    /\ UNCHANGED <<loop, doConnect, connected, bmsDevice, radio, scan, hpc>>

\* process() with nothing to connect to.
NoConnect ==
    /\ pc = "process" /\ ~doConnect
    /\ pc' = "mqtt"
    /\ UNCHANGED <<loop, doConnect, connected, bmsDevice, radio, scan, hpc>>

\* process(): connect() with the client it has, or with a new one.
StartConnect ==
    /\ pc = "process" /\ doConnect
    /\ pc' = IF pClient THEN "reconnect" ELSE "pair"
    /\ retries' = 0
    /\ UNCHANGED <<pClient, doConnect, connected, bmsDevice, radio, scan, hpc>>

\* NimBLEClient::connect() refuses while the client has a link.  Otherwise it
\* stops a running scan first, and either gets the link within its timeout: the host
\* task tells it, when it is not in another callback ...
Attempting == pc \in {"reconnect", "pair", "check"}

AttemptOk ==
    /\ Attempting /\ ~link /\ inRange /\ hpc = "idle"
    /\ link' = TRUE /\ scan' = FALSE /\ raced' = FALSE
    /\ pClient' = TRUE
    /\ pc' = IF pc = "check" THEN "services" ELSE "check"
    /\ UNCHANGED <<retries, doConnect, connected, bmsDevice, closing, inRange, hpc>>

\* Mutant: one retry too many.
MutAttemptFails ==
    /\ pc \in {"reconnect", "pair"} \/ (pc = "check" /\ ~link)
    /\ scan' = (scan /\ link)
    /\ IF pc = "reconnect"
       THEN /\ retries' = retries + 1
            /\ pc' = IF retries > MaxRetries THEN "check" ELSE pc
            /\ UNCHANGED pClient
       ELSE /\ pClient' = (pc # "pair" /\ pClient)
            /\ pc' = "mqtt"
            /\ UNCHANGED retries
    /\ UNCHANGED <<doConnect, connected, bmsDevice, radio, hpc>>

\* ... or fails.  The reconnect loop tries again until the retries are used up
\* and goes on as if it had succeeded: retries > MAX_RETRIES is never true.  A
\* new client is deleted, the last try at the check is the end of connect().
AttemptFails ==
    /\ pc \in {"reconnect", "pair"} \/ (pc = "check" /\ ~link)
    /\ scan' = (scan /\ link)
    /\ \/ /\ pc = "reconnect" /\ retries < MaxRetries
          /\ retries' = retries + 1
          /\ UNCHANGED <<pc, pClient>>
       \/ /\ pc = "reconnect" /\ retries = MaxRetries
          /\ pc' = "check"
          /\ UNCHANGED loop
       \/ /\ pc = "pair"
          /\ pClient' = FALSE /\ pc' = "mqtt"
          /\ UNCHANGED retries
       \/ /\ pc = "check"
          /\ pc' = "mqtt"
          /\ UNCHANGED loop
    /\ UNCHANGED <<doConnect, connected, bmsDevice, radio, hpc>>

\* isConnected(): go on with the services.
Linked ==
    /\ pc = "check" /\ link
    /\ pc' = "services"
    /\ UNCHANGED <<loop, doConnect, connected, bmsDevice, radio, scan, hpc>>

\* Mutant: a link that is gone is not noticed by the GATT calls.
MutServicesOk ==
    /\ pc = "services"
    /\ pc' = "commit"
    /\ UNCHANGED <<loop, doConnect, connected, bmsDevice, radio, scan, hpc>>

\* getService(), getCharacteristic(), subscribe() over a live link.
ServicesOk ==
    /\ pc = "services" /\ link /\ ~closing
    /\ pc' = "commit"
    /\ UNCHANGED <<loop, doConnect, connected, bmsDevice, radio, scan, hpc>>

\* One of them fails: the link is given up, doConnect stays set.
ServicesFail ==
    /\ pc = "services" /\ (GattFails \/ closing \/ ~link)
    /\ closing' = link
    /\ pc' = "mqtt"
    /\ UNCHANGED <<loop, doConnect, connected, bmsDevice, link, inRange, raced, scan, hpc>>

\* Mutant: doConnect is left set.
MutCommit ==
    /\ pc = "commit"
    /\ connected' = TRUE
    /\ pc' = "name"
    /\ UNCHANGED <<loop, doConnect, bmsDevice, radio, scan, hpc>>

Commit ==
    /\ pc = "commit"
    /\ connected' = TRUE /\ doConnect' = FALSE
    /\ pc' = "name"
    /\ UNCHANGED <<loop, bmsDevice, radio, scan, hpc>>

\* process() takes name, RSSI and power from bmsDevice and starts polling.
Name ==
    /\ pc = "name"
    /\ pc' = "mqtt"
    /\ UNCHANGED <<loop, doConnect, connected, bmsDevice, radio, scan, hpc>>

\* disconnect(), on command.
Disconnect ==
    /\ pc = "process" /\ connected
    /\ connected' = FALSE
    /\ closing' = link
    /\ UNCHANGED <<pc, loop, doConnect, bmsDevice, link, inRange, raced, scan, hpc>>

\* The RAM after a boot, and setup() scanning again.
Boot ==
    /\ pc' = "starting" /\ retries' = 0
    /\ doConnect' = FALSE /\ connected' = FALSE
    /\ pClient' = FALSE /\ bmsDevice' = "none"
    /\ link' = FALSE /\ closing' = FALSE /\ raced' = FALSE
    /\ scan' = TRUE /\ hpc' = "idle"
    /\ UNCHANGED inRange

\* Reading a freed scan result may give the old bytes, in which case the step
\* goes its way, or not be survived.
Reads == Attempting \/ pc = "name"
Crash == Reads /\ bmsDevice = "freed" /\ Boot

\* loop() restarts the ESP, for a watchdog or on command: after process() and before
\* processMQTT(), whatever the host task is doing.
Restart == pc = "mqtt" /\ Boot

----------------------------------------------------------------------------
\* Host task and radio

\* The link ends: this side terminates it, the BMS leaves, or the radio fails.
LinkLost ==
    /\ link /\ hpc = "idle"
    /\ link' = FALSE /\ closing' = FALSE /\ raced' = (pc = "commit")
    /\ connected' = FALSE
    /\ hpc' = "lost"
    /\ UNCHANGED <<pc, loop, doConnect, bmsDevice, scan, inRange>>

\* The rest of onDisconnect().  The scan does not start during an attempt.
OnDisconnect ==
    /\ hpc = "lost"
    /\ doConnect' = FALSE
    /\ \/ StartScan
       \/ Attempting /\ UNCHANGED <<scan, bmsDevice>>
    /\ hpc' = "idle"
    /\ UNCHANGED <<pc, loop, connected, radio>>

Move ==
    /\ BmsLeaves
    /\ inRange' = ~inRange
    /\ UNCHANGED <<pc, loop, doConnect, connected, bmsDevice, link, closing, raced, scan,
                   hpc>>

LoopTask == Sleep \/ NextPass \/ NoConnect \/ StartConnect \/ AttemptOk \/ AttemptFails
              \/ Linked \/ ServicesOk \/ ServicesFail \/ Commit \/ Name
HostTask == Found \/ ScanTimeout \/ OnDisconnect

Next == LoopTask \/ Setup \/ Disconnect \/ Crash \/ Restart \/ HostTask \/ LinkLost \/ Move

\* Both tasks run.  The radio: an advertisement in reach of a scanner gets through sooner
\* or later, an attempt on a BMS in reach works, the link lives through the steps of
\* connect(), and the GATT server answers; one that is being closed or whose peer is
\* gone ends.  Nothing is assumed of Setup: whether processMQTT() ever
\* calls it is the business of the module Bridge.
Fairness ==
    /\ WF_vars(LoopTask) /\ WF_vars(HostTask)
    /\ SF_vars(Found) /\ SF_vars(AttemptOk) /\ SF_vars(ServicesOk)
    /\ SF_vars(Linked) /\ SF_vars(link /\ Commit)
    /\ WF_vars((closing \/ ~inRange) /\ LinkLost)

Spec == Init /\ [][Next]_vars /\ Fairness

----------------------------------------------------------------------------
\* Properties

\* "Once we are connected we set the connected flag to be true" (process()):
\* the flag is never up without a link, outside the callback that clears it.  The run
\* "wedge" refutes it.
ConnectedIsLinked == connected => link

\* The one way to a connected flag without a link: it was lost between the end of
\* subscribe() and the store of the flag, onDisconnect() has come too early, and neither
\* another link nor disconnect() has been since.  A link lost anywhere else, in
\* connect() or out of it, takes the flag with it (connect(), onDisconnect()).
OneWayToWedge == connected => link \/ raced

\* bmsDevice is read only while the scan result it points to exists: refuted as soon as
\* MQTT scans again (README, divergences).
NoUseAfterFree == Reads => bmsDevice = "live"

\* What process(), processMQTT() and the web pages see of all this.
Phase == IF doConnect THEN "wanted"
         ELSE IF connected THEN (IF link THEN "served" ELSE "hollow")
         ELSE IF scan THEN "scanning" ELSE "quiet"

InSetup == pc \in {"starting", "scanning"}
InConnect == Attempting \/ pc \in {"services", "commit"}
User == IF InSetup THEN "waiting" ELSE IF InConnect THEN "trying" ELSE "free"

\* connect() "connects/reconnects bms" (process()): whatever the two tasks do to the
\* flags, the link is the one LinkService describes.  A BMS is served only out of a
\* connect() that was entered for a BMS a scan found, it is looked for again after
\* every loss, and a BMS that stays in reach is served again and again while
\* somebody scans and no wait for a scan is missed.
Service == INSTANCE LinkService WITH phase <- Phase, user <- User
ServiceSpec == Service!Spec

====
