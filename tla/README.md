# JBDBMS2MQTT in TLA+

The bridge is an ESP32 that talks to a JBD battery management system (BMS) over
Bluetooth LE and passes what it learns on to an MQTT broker and to a web page. It
also drives a relay and a wakeup output. This directory holds models of the parts in
which its correctness lies, the TLC configurations that check them and proofs that
TLAPS checks.

All paths below are relative to the repository. `JbdBms` stands for
`lib/JbdBms/JbdBms.cpp`, `main` for `src/main.cpp`, `Mqtt` for `src/Mqtt.cpp`,
`Webserver` for `src/Webserver.cpp`, `NimBLE` for `lib/NimBLE-Arduino/src`.

    tlc -workers 2 -config BmsLink_recovery.cfg BmsLink      # one run
    tlapm LinkProofs.tla                                     # one module of proofs

## The system

### Who runs

There are three tasks, no mutex and no queue between them:

| task | runs | blocks in |
|---|---|---|
| loop task (Arduino `setup()`, `loop()`) | `JbdBms::process()`, `processMQTT()` and in it `mqttCallback()`, `processRelay()`, `Wakeup(false)`, the WiFi branch and the restart of `loop()` | BLE connection attempts (six seconds each, eleven of them with pauses: up to about 88 s), the blocking scan of `JbdBms::setup()`, MQTT connects |
| NimBLE host task | `notifyCallback()` and in it `collectPacket()`, `PacketOk()`; `onResult()`, `onDisconnect()` | nothing |
| async_tcp task | the handlers of the web server and the web socket | nothing |

They share plain global and static variables: `bmsCmd`, `connected`, `doConnect`,
`newPacketReceived`, `dataErr`, `dataOk`, `basicData`, `cellData`, `bmsDevice`,
`relay`, `lastWakeup`, `Settings`. Every hard behaviour of this program comes from
that, from BLE links that end at any moment, or from the watchdogs that restart the
ESP when something has been wrong for long.

### Components

**BMS packet collector** (JbdBms 244-396). State: the statics `packetstate`,
`packetbuff[44]`, `packetSize` of `collectPacket()`, the verdict
`newPacketReceived`, `dataErr`. A reply comes in notifications of at most 20 bytes;
the first byte STX opens it, a last byte ETX closes it, the checksum decides.
Hard: payload bytes equal to STX or ETX, links lost within a reply, statics that
outlive the link, a buffer without a check. Correct if what is accepted is one whole
reply, if no reply is missed without a reason, and if reception always comes back.

**BMS request cycle** (JbdBms 716-862, 896-968). State: `bmsCmd`, a register of one
command that is at once what to do next and where every command is stored,
`requestCnt`, `dataOk`. Hard: `process()` reads it, acts for a long time and stores
the next request. Correct if commands are not lost, requests keep their order, and
polling does not stop.

**BLE link** (JbdBms 485-713, NimBLE). State: `doConnect`, `connected`, `pClient`,
`bmsDevice`, and the scanner and client of the library. Hard: `connect()` works for a
minute in the loop task, while `onDisconnect()` and `onResult()` of the host task
store the same flags, and a new scan deletes the results `bmsDevice` points into.
Correct if the flags say what the link is, nothing deleted is read, and a BMS in
reach is connected again.

**MQTT session and watchdogs** (Mqtt 595-774, main 480-505). State: `lastConnected`,
`lastPublished`, `refresh`, `mqttErr`, `wifiErr`, `restartTime`. Hard: reconnects,
publish periods and reboots all hang on the same few ages. Correct if an outage ends
in a reconnect or a reboot, and a bridge that works is left alone.

**Packet decoding** (JbdBms 103-242). State: `basicData`, `cellData`. Hard: widths,
signs, indices, the number of cells and sensors that the packet itself names. Correct
if what is stored is what the BMS measured.

**Relay** (main 525-570). State: `relayState`, `lastSwitched`, the wish `relay`,
`Settings.relay`. Hard: what it reads is written by three tasks. Correct if it follows
the reading, respects the hysteresis and does not chatter.

**Wakeup output** (main 507-523). State: the pin, `lastWakeup`. Hard: two tasks turn
the same pin over. Correct if every pulse ends and leaves the output at rest.

**Settings in EEPROM** (`lib/Setup`, main 253-275, 298-418). State: `Settings.data`, the
EEPROM library's buffer, the flash, `bootcount` in RTC memory. `save()` checks, writes
and is followed by `load()`, which clears, reads, checks the version and may save
defaults in turn; the page does this in the async_tcp task, the debug command 99 in the
loop task, `setup()` at every boot. Hard: power failures between the steps, the watchdog
counter that empties the settings, `config.json`, which overrides them. Correct if what
was saved stays, what is in use is in order, and a boot uses what the flash has.

**Publishing** (Mqtt 170-340, 731-774). State: `publishCnt`, the copies `oldbasicData`,
`oldcellData`. Values that differ from the copy by more than `minDiff` are sent,
everything every tenth time. Hard: the copy is taken after the send, from data the host
task writes; publishes get lost. Correct if the broker's values do not drift away and
come to those that stay.

**MQTT client library** (`lib/PubSubClient`, vendored). State: the ages of the last
input and output, `pingOutstanding`, the socket. Hard: keepalive, commands, publishes
and long passes of `loop()` at once; sessions the broker still has. Correct if a live
connection is kept, a dead one noticed, and a bridge that is gone told offline.

**MQTT commands** (Mqtt 440-593), **web server and web sockets** (Webserver): the
writers of `bmsCmd`, `relay`, `refresh`, `Settings` and of the wakeup output. No state
of their own that matters.

**Boot and loop** (main): drive the other components; their parts are in the modules of
those. **LED**, **debug console**, the rest of the vendored **BLE library**, pages and
build tools: see "Not modelled".

### How they interact

    BMS --notifications--> PacketCollector --newPacketReceived, dataErr--> BmsPoll
    BMS <----requests------ BmsPoll <--bmsCmd-- MQTT commands, web handlers
    BmsLink --connected, bmsCmd = CONNECT--> BmsPoll
    ScanWait --the end of a scan--> BmsLink
    MqttSession --setup(): scan again--> BmsLink --alias known--> MqttSession
    PacketCollector --packet--> Decode --cellData, basicData--> Relay, Publish
    MqttSession --publish is due--> Publish --publish()--> MqttClient --> broker
    web page, MQTT, boot --> Settings --> everyone

One dependency runs in a circle: without a BMS found once, the alias of the device
ends in '0' and `connectMQTT()` does not connect (Mqtt 630); without an MQTT
connection `processMQTT()` does not scan again (Mqtt 752). A BMS missed by the one scan
of `setup()` is found only because the watchdog of `processMQTT()` reboots the ESP
after two minutes of silence. The module `Bridge` composes the two halves.

## Modules

| module | models | proofs |
|---|---|---|
| `PacketCollector` (`MCPacketCollector` gives it replies of an eight cell pack) | the receiving half of JbdBms | `PacketCollectorProofs` |
| `BmsPoll` | `process()` and everyone who stores `bmsCmd` | `BmsPollProofs` |
| `LinkService` | what the BLE link promises to its users: the abstract specification | |
| `BmsLink` | scan, connect, disconnect; implements `LinkService` | `LinkProofs` |
| `ScanWait` | the blocking scan of the vendored scanner | `LibraryProofs` |
| `MqttSession` | the uplink and its watchdogs | `UplinkProofs` |
| `Bridge` | `MqttSession` and `LinkService` in one loop task | `UplinkProofs` |
| `MqttClient` | keepalive and will of the MQTT library against a broker | `LibraryProofs` |
| `Settings` | EEPROM settings, who saves them, boots | `SettingsProofs` |
| `Publish` | what of the BMS data the broker is told | `OutputProofs` |
| `Decode` | basic and cell data | `DecodeProofs` |
| `Relay` (`MCRelay` gives it settings) | `processRelay()` | `OutputProofs` |
| `Wakeup` | `Wakeup()` | `OutputProofs` |

Modules that are proved about together carry their name in their definitions
(`RelaySpec`, `WakeupSpec`, `PublishSpec`, `ScanSpec`), so that one module of proofs can
extend them.

Mutants (`Mut...` in the modules) are wrong versions of the definition that follows
them. They take no part in any specification; each one shows that a property can fail.

### PacketCollector

A notification is a record: the reply and the part of it that it carries, and whether
its first byte is STX and its last is ETX. For payload bytes these two flags are free
(`AnyBytes`). `packetbuff` is the sequence of the notifications written to the buffer,
`packetSize` their bytes. `Notify` is one call of `notifyCallback()`: `FirstPart`,
`IgnoredPart`, `MiddlePart` and `LastPart` are the branches of `collectPacket()`,
`Verdict` is what `notifyCallback()` makes of the result. `PacketOk()` looks at the
head of the buffer only, as far as the length in the header says, and so does
`HeadReply`; that a mixture of two replies fails the checksum is an abstraction.
A whole reply may be refused too: for its status (JbdBms 273) or for values that are zero
or do not fit (107-110, 167-169); such a reply is not `sound`.
`Request` is the environment: one request and its reply. `LinkLost` leaves the statics,
`Restart` is the reboot of `loop()` when `dataErr` is beyond its limit, `Overrun` what
may become of a write past the buffer. `Ends` gives the bytes of a reply up to the end of each
of its notifications. Histories: `missed` (sound replies that were not taken), `spoiled` (a
reply that is not sound was among what came since the last one taken), `torn` (a lost link
has left a part behind, or an ETX in the payload has closed a reply early), `odd` (payload has
looked like STX or ETX).

### BmsPoll

`process()` statement by statement: `Connect` (`connected` is set), `Activate` (CONNECT goes
into `bmsCmd`, over whatever has been stored there since), `PollStart` (the count `dataOk`), `Switch` (the
read of `bmsCmd`), `WriteRequest`, `ClearFlag`, `Control`, `Disconnect` or `Nothing`
(the case), `Store` (the next value). `MqttCommand` runs only between passes, because
`mqttCallback()` is called by the same task; `WebCommand` runs anywhere. A poll starts
when the reply to the last request has arrived or will not come: the poll period is
two seconds at least. The link is as `BmsLink` leaves it. Histories: what was requested
and how often (`lastReq`, `sinceHw`), the command not yet seen and its sender
(`pending`, `asker`), the replies of this link (`replies`).

Control packets (MOSFET, BALANCE) are composed and then not sent: the line is commented
out in the source. Their content is not modelled. `BALANCEINFO` has a case and no
writer. That `requestCnt` wraps is ignored; it is kept modulo the period.

### LinkService, BmsLink

`LinkService` has what the users of the link can see: `phase` ("quiet", "scanning",
"wanted", "served", "hollow"), what the loop task is at (`user`: "free", "waiting" in `setup()`,
"trying" in `connect()`), and whether the BMS is in reach. It does not hide the two ways in
which the code fails its users: a wait for a scan may go on when the scan is over (`Over`), and
the BMS may count as connected over no link (`Wedge`, "hollow"). Its liveness `Live` says that
a BMS which stays in reach is served again and again, provided that neither of the two has
happened for good and that somebody gets the scanner going again and again; and that `connect()`
comes to an end.

`BmsLink` is the code. `pc` is the place in the loop task: `process()`, `processMQTT()`, the
blocking scan, and the stages of `connect()`: the loop of reconnects, the first connection,
the check of `isConnected()` with the connect it may make, the services, the store of
`connected`, and `process()` reading name and power from `bmsDevice`. `StartScan` deletes the
old results (`NimBLEScan::start()`), `Found` is `onResult()`. The blocking scan is two steps:
`Sleep` clears the notification and waits, so a scan that ends between the start and `Sleep` is
missed, for ever if no other ends (`ScanWait` has the statements). `onDisconnect()` is two
steps, `LinkLost` and `OnDisconnect`; a link may be lost at any step of either task. One
connection attempt is one step, with NimBLE's `m_connEstablished` taken to change with the
link; the GATT work is one step. `Crash` is what may become of reading a deleted scan result,
`Restart` the restart of `loop()`. History: `raced`, the last link was lost when `connect()` had
subscribed and not yet stored `connected`.

The refinement mapping: `Phase` reads the two flags, the link and the scanner in the order in
which `process()` does, `User` the part of `pc` in `setup()` (`InSetup`) and in `connect()` up to
the store of `connected` (`InConnect`). `ServiceSpec` is `LinkService!Spec` under it.

### ScanWait

The two `start()` of the scanner, `stop()` and the end of a scan, statement by statement
in both tasks. The loop task: `Setup` (m_pTaskData), `LoopIgnore`, `LoopDisc`, `LoopClear`,
`LoopEnable`, `Drain` (`ulTaskNotifyValueClear`), `Wait`, `Return`. The host task: `Report`
and `Stop` (an advertisement, `onResult()`), `Tell` and `Give` (the test of m_pTaskData and
the notification), `Timer` and `Over` (the end by time, with a device whose scan response
is missing), `HostIgnore` to `HostEnable` (`start()` in `onDisconnect()`). `ble_gap_disc()`
and `ble_gap_disc_cancel()` hold the host's lock and are one step. A scan of five seconds
does not time out between being started and being waited for; one that was joined may.

### MqttSession, Bridge

`Pass` lets 1 to `MaxPass` units of time go by; the ages are those that `processMQTT()`
computes from `millis()`. Then WiFi is tested (`WifiDown`), the connection
(`ConnectOk`, `ConnectFails`, `NoConnect`), the watchdog (`Watchdog`) and the publish
(`Publish`, `NothingToDo`). The environment changes WiFi, broker, connection and
`refresh` between any two of these. History: `longest`, the longest period that has been in
force since the last publish or connect.

`Bridge` extends `MqttSession` and instantiates `LinkService`. `turn` says whether the loop task
is at `process()` or at the rest of `loop()`, `user` whether it is blocked in `setup()` or in
`connect()`. What `MqttSession` leaves open is done by the link: `known` is set when `process()`
has connected the BMS or believes so (`Serve`, `Wedge`), a publish without a connected BMS calls
`setup()` (`Tell`), a restart restarts both (`Reboot`). `Found` and `RunOut` end a scan, and the
loop task that waits for it goes on or has missed it.

### MqttClient

`connected()`, `loop()`, `publish()` and `connect()` of PubSubClient with the two ages and
`pingOutstanding`; one packet is read per pass. The broker is external: it answers pings
(`Answer`), passes commands on (`Command`), drops a session that is silent for `Grace` and
publishes its will (`Expire`), and closes the connection (`Hangup`). Because `connectMQTT()`
takes a new client id each time, a session from before is a second one (`left`).

### Settings

One value per field, told apart by what `check()` and a boot make of it: "zero" as in
cleared memory, "default", "file" for what `config.json` has, "user", "odd" for one that
`check()` replaces, "poison" for one that it accepts and that hangs `setup()`. `pc` is the
place of each task in `save()` ("check" to "end") or `load()` ("clear" to "check2"), and both may
be there at a time; `nested` is the `save()` that `checkConfig()` makes within `load()`.
`SettingsSave`, `Set`, `Command` and `Debug99` are the page, the two ways to change a value, and
the debug command. `Set` and `Command` store values that `check()` refuses as well: the page's
ranges are wider, and debug 88 empties the password (Mqtt 586).
`ConfigFile`, `EndSetup`, `Hang`, `Boot` and `Crash` are the boot: `Boot` counts watchdog resets and
resets the settings when there were `WipeAt`; the RTC memory keeps the count or is set up
anew. `commit()` is one step that a power failure does not tear. Histories: `crossed` (both tasks
were in `save()` or `load()` at a time since the boot), `stray` (a refused value was stored
between `check()` and `put()` of a save), `spoiled` (the flash was written from such a save, or
while crossed).

### Publish

One value stands for all. `Send` compares it with `old` and sends it or not, `Copy` takes the
next copy and counts; `Reply` may change it between the two. `SendState` is the word on the
BMS, `Poll` and `BmsChanges` what decides between them, `Network` makes publishes get lost.

### Decode

A packet is a record of its numbers, and 16 bits are `% 65536`. `Scan` is the loop
over the cells, `Look` one turn of it, `TempSum` the loop over the sensors, and `Median` what the sort and the middle make of an array that is indexed
from 1: `Garbage` is the word behind it. Packs of more than eight cells, for which
`CellVolt[8]` is too short, are not in the model.

### Relay, Wakeup

`Relay`: one action per way through `processRelay()`, `Settle` is its common end. A
reading is in small units, a setting in large ones, `Unit` of the small to a large one,
and the division is that of integers. Histories: how long the contacts have rested (`still`),
whether inversion has turned them over since the last decision (`turned`). `Wakeup`: pin, time, the test
for the end and its two stores are steps of their own in either task.

## Runs

Passing runs (`TypeOK` is checked in each but `Bridge_circle`, `Publish_values` and
`Relay_switching`, whose modules have it proved):

| run | properties | instance |
|---|---|---|
| `PacketCollector_drops` | `AcceptedIsOneReply`, `BufferBounded`, `EveryReplyTaken`, `Resync`, `Delivery` | replies of 20+20+5, 20+3 and 20+2 bytes, as an eight cell pack with three sensors sends them (the first is the example at JbdBms 346-348) and a buffer of 44; any boundary bytes, refused replies, links lost at any notification; the error limit is 5 for 100 |
| `BmsPoll_commands` | `NoMqttCommandLost`, `RequestOrder`, `PollingGoesOn` | hardware data every 2 rounds for 10; three commands, from either task; links lost at any time |
| `BmsLink_recovery` | `OneWayToWedge`, `ServiceSpec` | two retries for ten; GATT fails, the BMS comes and goes, MQTT scans again, restarts, links are lost at any step, ends of scans are missed |
| `ScanWait_blocking` | `OneWayToHang`, `Returns` | the whole of it |
| `Bridge_circle` | `SilenceBounded`, `ConnectedNotRebooted`, `Reconnects`, `Bridges` | limits 4 and 6 for 120 s and 300 s, passes of 1 and 2, publish periods of 1 and 6, error limits 2 for 20 |
| `MqttClient_keepalive` | `DeadNoticed`, `NotGivenUp`, `WillTold` | keepalive 2, broker's grace 3, passes of up to 3, two packets in the socket |
| `Settings_saves` | `SettledIsSane`, `BootUsesFlash`, `SettingsKept` | a field that `config.json` has and one it has not; reset after 3 watchdog boots for 10; two power failures or resets besides those a setting causes; saves and stores of both tasks at any time |
| `Publish_values` | `DriftBounded`, `Settles` | five values, `minDiff` 1, everything every 4th time for 10 |
| `Decode_packets` | `AmpsNear`, `AverageInRange`, `LimitsRight`, `MedianInRange` | boundary values of every field, up to three sensors below, at and above freezing, every four cell packet over four voltages |
| `Relay_switching` | `NoChatter`, `Follows` | readings at, inside and beyond value and hysteresis, not divisible ones too; both comparisons, failsafe, manual, disabled, inverted or not |
| `Wakeup_pulses` | `PinRestored`, `PulseEnds` | a duration of 50 and passes of up to 8 |

What they show, and what to keep in mind:

* `PacketCollector_drops`. The collector loses its place (`torn`) when a lost link leaves a part
  behind, or when the second of three notifications ends with a byte like ETX. Until then
  `EveryReplyTaken` has every sound reply taken, and `BufferBounded` has nothing written past
  the buffer but a reply that is itself longer: the basic data of this pack, by one byte. What
  a part left behind costs is bounded: `Resync` says one reply, two before the first basic
  data. `Delivery` says reception comes back in any case, if need be by the reboot. The bound of
  5 errors is small so that the reboot happens; it is beyond the two errors that a healthy
  reply of three notifications makes.
* `BmsPoll_commands`. Two rounds to a hardware request are the shortest period in which
  the counter can be wrong in both directions, too early and too late. Three commands
  let one be stored before the switch, one between switch and store, and one after.
* `BmsLink_recovery`. Two retries have a first, a middle and a last attempt. A link lost in any
  step of `connect()` but between the end of `subscribe()` and the store of the flag leaves no
  trace (`OneWayToWedge`); lost there it is the wedge of `BmsLink_wedge`. `ServiceSpec` holds with
  the wedge, with a loop task that has missed the end of its scan, and with scan results that
  are read after they were deleted; its promise of a served BMS is made for the case that
  the first two have not happened for good.
* `ScanWait_blocking`. `OneWayToHang` says that a waiting loop task has a scan, its end or a
  notification ahead of it, unless `start()` has thrown one away (`missed`); `Returns` that it
  then goes on. A loop task that hangs is a deadlock of the two tasks, so the run does not
  check for deadlock.
* `Bridge_circle`. Everything `MqttSession` does, it does here under `LinkService`, which decides
  when `known` is set; its properties are checked here too. The order of the limits is that
  of the code (silence before the renewal of the connection). A period of 6 is beyond the
  silence limit, as page and command allow: `ConnectedNotRebooted` says that such a
  period, or one that leaves no room for a pass, is the only reason for which a connected
  bridge is rebooted. In real numbers: with passes of up to about 88 s a period above some 32 s
  can be one. `SilenceBounded` counts the passes that have no WiFi: they do not look at the silence,
  and only because `wifiErr` is never reset do they end. The bridge gets out of the circle by
  the watchdog, and back to a BMS it has lost by the scan that `processMQTT()` makes when it
  has nothing to publish: the mutant without that scan has MQTT up, keeps the watchdog quiet
  and never sees the BMS again. `Bridges` says nothing of a bridge that is caught in one of
  the two states nobody gets it out of: a loop task that waits for a scan that is over, and a
  connected flag over no link.
* `MqttClient_keepalive`. Passes are longer than the keepalive, as they are in the code (88 s
  against 15 s), and two packets let a pong come behind a command. The bound of
  `DeadNoticed` is met exactly.
* `Settings_saves`. Three watchdog boots are reached by a setting that hangs `setup()` and by
  two that come from elsewhere, with the counter lost in between or not. Two saves may cross, and
  `SettledIsSane` and `SettingsKept` except that; a boot clears it, and `BootUsesFlash` excepts
  nothing. A value that `check()` refuses is in the flash only if it was stored between
  `check()` and `put()` of a save (`spoiled`); `load()` puts it right at the next boot, so what
  the boot uses is `Checked(flash)`.
* `Publish_values`. Three steps of `minDiff` fit between two full publishes, and more than
  `minDiff` between the ends of the range.
* `Decode_packets`. Currents at 0, the largest, the smallest, -50 A and -10 mA;
  temperatures below, at and above freezing. `AverageInRange` asks for nothing where several
  sensors together are below freezing but that the code never shows it (see "Other
  divergences"). Four voltages to four
  cells give every order, every tie and all equal.
* `Relay_switching`. All settings. An inverted relay changes with every pass that makes no
  decision (see "Other divergences"): `NoChatter` excepts those passes and the
  decision that follows them, and `Follows` speaks of settings without inversion.
* `Wakeup_pulses`. Two commands within one pulse, and two tasks that end the same one, are
  allowed, and counted in the history `overlapped`; no property speaks for what comes after.

A violation, which is a disagreement of the code with what it says of itself:

| run | property | what happens |
|---|---|---|
| `BmsLink_wedge` | `ConnectedIsLinked` | `onDisconnect()` runs before `connect()` stores `connected = true` (JbdBms 696): the flag stands over no link and `process()` polls into nothing. Only the scan that `onDisconnect()` has started can still bring a reconnect; if it misses the BMS, or finds it before the store clears `doConnect`, `processMQTT()` does not scan again, because `connected` is set, and its publishes keep the watchdog quiet. |

## Fairness

* The loop task and the host task are scheduled (weak fairness of `LoopTask`,
  `HostTask`): FreeRTOS runs them on their own cores or at priorities that let them run.
  The async_tcp task finishes what it began (`WebTask`). Nobody is obliged to send a
  command, change a setting or lose a link, and `Settings` assumes nothing at all.
* `PacketCollector`: requests are answered, what arrives is delivered, a reboot that is due
  is made. `Delivery` is conditional on links that hold from some time on.
* `BmsLink`: a scanner in reach of the BMS hears it sooner or later, an attempt on a BMS that is
  in reach works, a link lives through the check and the store of the flag, and the GATT server
  answers (strong fairness of `Found`, `AttemptOk`, `Linked`, `ServicesOk`, `link /\ Commit`): the
  radio's part, not the code's. A link that is being closed or whose peer is gone ends.
  Nothing is assumed of rescans, nor of the wake-up of a task that waits for a scan: `Live` has
  both in its premise.
* `ScanWait`: besides the two tasks, `Timer`: a scan of limited length ends.
* `MqttSession`: nothing is assumed of network, broker or BMS; `Reconnects` has them in
  its premise.
* `Bridge`: the loop goes on while it is not blocked, and scans that run end (`WF`). Of all the
  scans that `setup()` waits for, one finds a BMS that is in reach, and is not missed (`SF`
  of `Found` there); of the connects tried and the links that `process()` finds up, one is not lost
  first (`SF` of `Connect`, `Serve`). The radio and the network again; that there are scans and
  attempts again and again is what the run shows. A loop task asleep over a scan that is over is
  under no fairness: nothing ends that, and `Bridges` has it in its premise.
* `MqttClient`: the loop task goes on, the broker drops silent sessions (`Expire`), and a
  session that it has dropped is closed (`Hangup`).

## Proofs

TLAPS proves for every value of the constants, under the assumptions named in the
modules (`...Assumption`) and the ones given here:

| theorem | says | assumes |
|---|---|---|
| `PacketCollectorProofs!Typing` | `[]TypeOK` | nothing |
| `PacketCollectorProofs!Accepted` | `[]AcceptedIsOneReply` | `TwoParts`: every reply takes two notifications or more |
| `PacketCollectorProofs!Taken`, `Resynced`, `Bounded` | `[]EveryReplyTaken`, `[]Resync`, `[]BufferBounded` | `TwoParts` |
| `BmsPollProofs!Typing`, `Order`, `KeptForMqtt` | `[]TypeOK`, `RequestOrder`, `[]NoMqttCommandLost` | nothing |
| `LinkProofs!Typing` | `[]TypeOK` | nothing |
| `LinkProofs!OneWay` | `[]OneWayToWedge` | nothing |
| `LinkProofs!Implements` | every step of `BmsLink` is a step of `LinkService` or none | nothing |
| `LibraryProofs!ScanTyping`, `OneHang` | `[]ScanTypeOK`, `[]OneWayToHang` | nothing |
| `LibraryProofs!ClientTyping`, `DeadPath`, `NoneGivenUp` | `[]TypeOK`, `[]DeadNoticed`, `NotGivenUp` | nothing |
| `UplinkProofs!Typing`, `ErrCount`, `Silence`, `Spared` | `[]TypeOK`, `[]ErrNeverTrips`, `[]SilenceBounded`, `ConnectedNotRebooted` | nothing |
| `UplinkProofs!BridgeIsSession`, `BridgeKeepsLink` | every step of `Bridge` is a step of `MqttSession` or none, and a step of `LinkService` or none | nothing |
| `UplinkProofs!BridgeSilence`, `BridgeSpared` | `[]SilenceBounded`, `ConnectedNotRebooted`, of `Bridge` | nothing |
| `SettingsProofs!Typing` | `[]TypeOK` | nothing |
| `SettingsProofs!Kept`, `Settled`, `BootsFromFlash` | `SettingsKept`, `[]SettledIsSane`, `[]BootUsesFlash` | nothing |
| `OutputProofs!PublishTyping`, `Drift` | `[]PublishTypeOK`, `[]DriftBounded` | nothing |
| `OutputProofs!RelayTyping`, `Chatter` | `[]RelayTypeOK`, `NoChatter` | nothing |
| `OutputProofs!WakeupTyping`, `Restored` | `[]WakeupTypeOK`, `[]PinRestored` | nothing |
| `DecodeProofs!Typing`, `Current`, `AverageHolds` | `[]TypeOK`, `[]AmpsNear`, `[]AverageInRange` | nothing: every value of every field |
| `DecodeProofs!LimitsHold`, `MedianHolds` | `[]LimitsRight`, `[]MedianInRange` | `CellmV \subseteq Below`: every cell below 5 V |

Two assumptions on the code's surroundings are left, which the code does not check. `TwoParts` is
false of a four cell pack, whose cell data fit into one notification, and of an error reply of
seven bytes: see the next section for what becomes of those. `Below` is what the code takes for
granted when its minimum starts at 5000 mV, and holds of any lithium cell.

How they go:

* `Accepted`. Not inductive by itself: that a packet closed now is whole depends on what
  is in the buffer. `CollectorInv` adds that the notifications are
  typed and that an open packet has a first notification and none behind it that ends
  with ETX. The
  lemma `ClosedAtTheFirstEnd` is the heart: if a head is a whole reply and the packet
  was closed at an ETX and not before, then nothing follows the reply, because the
  last part of a reply always ends with ETX.
* `Bounded`, `Taken`, `Resynced`. `StepInv` says where the collector is relative to the wire: in
  step with it as long as it has not lost its place (`InStep`: the buffer has the parts of one
  reply, and the wire what follows them), and afterwards catching up, one reply behind or two
  (`CatchingUp`, as long as no payload looks like STX or ETX). `Sizes` ties `packetSize` to the
  parts. The lemmas `Accepting`, `Refused` and `NotifyStep` say what the next notification
  makes of each.
* `Order`. `OrderInv` relates the register, the value the switch has read, the last
  request and the counter at each statement. The lemma `CommandsAreNoRequests` is why
  other tasks cannot disturb it: the only request a command stores is `basicinfo`,
  which may always be made. `NextCount` is the arithmetic of the counter.
* `KeptForMqtt`. Inductive once it is known that while the switch has read a value
  and not yet stored the next, a pending command is not of the loop task.
* `OneWay`. `CommitInTime`: at the store of `connected` the link is up, or was lost since
  `subscribe()` and `raced` says so.
* `Implements`. From `FlagsAgree`: each step of either task, looked at through `Phase` and `User`, is
  an action of `LinkService` or changes nothing there. The invariant is needed where a step is
  only right because the other flag is down.
* `Silence`. `SilenceAt` bounds the silence by how many passes without WiFi `wifiErr` has counted, at
  each place of the pass; that is what makes it inductive.
* `Spared`. `UpFresh`: while the connection is up, and no period in force since the last publish comes
  within a pass of the limit, the silence leaves room for the pass. `ErrCount` removes the other half of the watchdog's condition.
* `Kept`, `Settled`, `BootsFromFlash`. `KeptInv`. Until two saves cross, `AloneInv` says for each
  place in `save()`, `load()` and `setup()` what memory, buffer and flash hold (`TaskInv`), and that
  the two tasks are not both within (`OneAtATime`). `BootInv` and `FlashInv` hold regardless: the loop
  task is alone in a boot, and a flash of this version has no refused value but a `spoiled` one.
  The three properties are read off from it.
* `Drift`. The broker's value differs from the copy by no more than one send allows. Between
  send and copy the value itself is what the copy will be, and `DriftInv` says so.
* `Chatter`. `Rested`: the pin has rested at least as long as `lastSwitched` is old, unless inversion
  has turned it over since.
* `Restored`. `PulseInv` says when the output is turned over: from the turn of a command to
  the turn that ends its pulse, in terms of the places of the two tasks, and that the
  places exclude each other (the one task ends a pulse only while the other is not
  starting one, unless two have overlapped). `Aged` is needed because it is the age of
  the pulse that keeps the ending away from a fresh stamp.
* `OneHang`. `OneWayToHang` alone says nothing of the statements before the wait. `Heads`
  adds them: between the start of a scan and the clearing of the notification there is a
  scan, the end of one under way, or the notification.
* `ClientTyping`. The ages are bounded only because no clock gets past the keepalive
  between two passes (`Clocks`), and `OnePong` (at most one pong is in the inbox, and none
  unless a ping waits) is needed for what a `Read` does to them.
* `DeadPath`. `DeafFor` is a budget: what the ping has waited, a keepalive and a pass at
  most, a turn (the lesser of keepalive and pass) for each packet that has been read since,
  and what has gone by since the last. Reading a packet frees a turn and starts the last one again;
  `TurnsLeft` is the arithmetic.
* `NoneGivenUp`. `OnItsWay`: as long as nothing excuses the loss, a ping that waits is either
  with the broker or answered by a pong in the inbox, and that pong is so near its head that
  it is read before a clock is beyond the keepalive (`InTime`). A pass that is not slow costs
  one turn (`OneTurn`).
* `BridgeIsSession`, `BridgeKeepsLink`. Step by step: `UplinkStep` and `LinkStep` look at each
  action of `Bridge` through the variables of the one and of the other. What is proved of
  `MqttSession` then holds of `Bridge` (`BridgeSilence`, `BridgeSpared`).
* `Current`. `Reading` says that what is stored was made by `BasicOf` or `CellsOf` from the
  packet in the history; `AmpsOfWord` is the arithmetic of the complement.
* `AverageHolds`, `LimitsHold`. `Scan` and `TempSum` are recursive functions. That such a
  function exists and obeys its recursion (`LoopRuns`, `ScanRuns`, `TempRuns`) is proved by an induction over
  sets of numbers (`Induct`: a set with 0 and every successor has all of them, since otherwise it
  would lack a least one). `Seen` is the invariant of the loop over the cells, turn by turn
  (`SeenOne`); `Limits` reads the result off. Three sensors are few enough to be written out
  (`TempSums`).
* `MedianHolds`. `RankedIs`: there is a k-th smallest. `RankedWithin`: if all elements but one are
  within limits, so is every one but the first and the last in order, by counting: fewer than
  two places lie under the lower limit, and fewer than two beyond the upper. Median averages the two in the
  middle, and the one foreign word has the last place of the array (`Sorted`).

Only model-checked: every liveness property (`Delivery`, `PollingGoesOn`, the liveness in
`ServiceSpec`, `Returns`, `Reconnects`, `Bridges`, `WillTold`, `Settles`, `Follows`,
`PulseEnds`), which is out of the prover's reach. Every safety property of a passing run is proved.

## Other divergences

Met while modelling, and outside what the passing runs cover. Each bounds a run, an
assumption or a property above. Some are stated in a module and can be seen with TLC by
checking the operator named, with the constants of the module's run but for these:

| operator | constants | what the code does |
|---|---|---|
| `BmsPoll!NoCommandLost` | `WebCommands = {"disconnect"}`, `MaxCommands = 1`, `LinkDrops = FALSE` | a command of the web page that comes while `process()` is busy is overwritten by the next request, or by the CONNECT of a link that has just come up (JbdBms 739); the page has said "disconnect OK" (Webserver 754) |
| `BmsPoll!PublishedIsOfThisLink` | no commands, `HwPeriod = 10`, `MaxCount = 6` | the flags of the last reply survive `onDisconnect()`: data of the last link pass for data of this one (Mqtt 734) |
| `ScanWait!BlocksForScan` | those of the run | `start()` says it blocks "until scanning has been completed" (NimBLEScan 394). The host task finds the BMS and stops the scan after `start()` has enabled results again and before the notification is cleared (411): the loop task waits without a limit for a scan that is over. The same happens when a scan of `onDisconnect()` that `start()` has joined times out there. Nothing on the ESP ends it. |
| `BmsLink!NoUseAfterFree` | those of `BmsLink_recovery` | `connect()` and `process()` read `bmsDevice` in scan results that a new scan has deleted (JbdBms 537, 587) |
| `MqttClient!OnlineWhileUp` | those of the run | the client id is random (Mqtt 633), so the broker publishes the will of the old session after the new one has said "online", which stays wrong (Mqtt 639) |
| `ScanWait!OneWriter` | those of the run | `start()` in one task resets `m_ignoreResults` while the other deletes the results that it guards (NimBLEScan 384) |
| `ScanWait!NobodyGone` | those of the run | a scan's end with a scan response missing tells twice; `m_pTaskData` is tested and then written through, the waiter may be gone (NimBLEScan 185) |

The others:

* A publish period that leaves no pass to the silence limit of 120 s reboots a bridge that works,
  as "disconnected over allowed limit" (Mqtt 724); the page and the command take an hour.
  `ConnectedNotRebooted` without `longest` shows it.
* The page and the debug command may save at a time: cleared memory gets into the flash.
  `SettingsKept` and `SettledIsSane` without `crossed` show it. A value that `check()` refuses,
  stored by the other task between `check()` and `put()` of a save, gets there too and is
  replaced at the next boot: the password that debug 88 empties (Mqtt 586).
* Between the clear and the read in `load()` every task sees empty settings; with an empty
  topic `mqttTopic[-1]` is written. `config.json` overrides at every boot what was saved for
  the fields it has. The relay's settings are not saved: `save()` writes `data`, and not
  `relay`. Some resets set up the RTC memory anew, so the ten boots that empty the
  settings may never be counted.
* The keepalive is 15 s and a pass takes up to about 88 s: a connection that is sound is given
  up by the broker (Mqtt 618). The topic `stat/BMS/state` says
  "disconnected" and is not corrected when the BMS is back.
* The example of a basic packet in JbdBms 346-348 has 45 bytes (eight cells, three
  sensors); `packetbuff` has 44 (359), and the last byte goes behind it with every such reply.
  `BufferBounded` without its second disjunct shows it. After a torn reply any next reply goes
  past the end.
* In a reply of three notifications the second ends with byte 40. When that byte is 0x77 the
  reply is closed there, its checksum is taken over bytes that are not there yet, and the rest
  is ignored or opens a packet of its own (372-388): it is missed with no link lost.
* A reply of one notification (15 bytes of cell data of a four cell pack, 7 bytes of an error)
  takes the branch for a first part, which does not look for ETX (365): it is not judged when it
  comes. `packetstate` stays 1, the next reply is written behind it, and at that one's end the
  head of the buffer, the older reply, is taken; the newer is lost. So cell data of four cells
  come one reply late and in place of the next basic data. Hence `TwoParts`.
* `(byte)charge + (byte)discharge<<1` in `/mosfetCtrl` (Webserver 861) is
  `(charge + discharge) << 1`. `setCharge()` and `setDischarge()` compute the mask from
  the state reported last, so the second of two commands in one period undoes the first.
  Both are without effect while control packets are not sent. The topic "balance" has a handler
  and is not subscribed.
* `retries > MAX_RETRIES` (JbdBms 604) is never true: "reconnected" is printed after the
  last failure.
* Without a live MQTT connection a BMS missed by one scan is not looked for again,
  although `process()` is said to reconnect it (main 434).
* A connection lost is retried after five minutes and the watchdog reboots after two
  (Mqtt 708, 722); the comment at 706 speaks of every minute. `wifiErr` is never reset:
  21 passes without WiFi, however far apart, are a reboot (main 488).
* A BMS whose name has another eighth character than '2' or '3' leaves the alias with its
  '0', and the bridge reboots every two minutes. `setup()` without WiFi does not start
  the web server.
* The median leaves the first cell out and takes the word behind the array in (200-213);
  discharge currents are 10 mA short (117); power overflows beyond 2147 W (120);
  temperatures below freezing are stored unsigned and averaged so (134-153): several sensors
  that are below freezing together average to thousands of degrees, which `AverageInRange` has as its
  second half; the test
  for cells of 0 V reads the second and third (168); more than eight cells are written
  behind `CellVolt[8]` (176).
* A JSON message longer than PubSubClient's 256 bytes is not sent, and nobody looks at the
  result. `int_str()` and `float0()` truncate what does not fit their buffers.
* An inverted relay is inverted again in every pass (main 531, 560): the contacts change with
  every pass that makes no decision. The failsafe mode is
  read the other way round than Setup.h 138 says, or not at all on a paused BMS.
  `compare` means the opposite of Setup.h 141. Cell voltages are divided as integers, so
  3.9 V compares as 3 V. Before the first packet the relay decides on a reading of 0.
* Two wakeups in one pulse leave the output turned over (main 512).

## Not modelled

* Hardware and balance data, more than three sensors and more than eight cells, the
  arithmetic of the checksum.
* The wrap of `millis()` after 49 days; restart requests set in the future.
* The formatting of topics, JSON and pages: no decision of the code hangs on it but those
  named above.
* LED, debug console, OTA update, file system, NTP, mDNS, the pages and the build tools.
* The vendored BLE library beyond the scanner's tasks and what `BmsLink` takes of client and
  scan results: a complete NimBLE stack (controller, host, mesh) that makes up most of
  the repository's lines and of which the bridge uses a small part. The MQTT library beyond its
  keepalive: the wire format, and the streams.

## Plan

Done, in this order: reception and requests, link and uplink, the outputs, then settings,
publishing, the MQTT library, the scanner, the abstract link and the circle.

Next:

1. `Reception`: an abstract module of what the collector promises to the poll (a reply is
   received, is lost, or is counted as an error), implemented by `PacketCollector`; and
   of what `BmsPoll` promises to the publisher (fresh, stale, none), implemented by
   `BmsPoll` over it.
2. `ScanWait` shown to implement the blocking scan of `BmsLink`, whose missed wake-up is one step.
3. `Decode` with hardware and balance data and the layout of the struct.
4. Replies of one notification in `PacketCollector`: what `EveryReplyTaken` becomes for four cell
   packs, and the proofs without `TwoParts`.
5. `Reception` proved to be implemented, once it is stated.
