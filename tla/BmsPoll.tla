---- MODULE BmsPoll ----
(***************************************************************************)
(* The request cycle of lib/JbdBms: the part of process() that polls the   *)
(* BMS once per refresh period, driven by the one-slot command register    *)
(* bmsCmd, and everyone who writes that register or the flags it is        *)
(* polled with:                                                            *)
(*   - the loop task, running process() and, between two passes of it, the *)
(*     MQTT callback;                                                      *)
(*   - the async_tcp task, running the web handlers at any moment;         *)
(*   - the NimBLE host task, running notifyCallback() and onDisconnect()   *)
(*     at any moment.                                                      *)
(* None of them takes a lock: process() reads bmsCmd, acts on it and stores *)
(* the next value in three steps.  The link is as BmsLink leaves it: up or *)
(* down with connected.  What control packets would say is left out: they  *)
(* are composed and never sent.                                            *)
(***************************************************************************)
EXTENDS Naturals

CONSTANTS
    HwPeriod,       \* a hardware request after this many cell requests (10)
    MqttCommands,   \* values commands store in bmsCmd that arrive by MQTT
    WebCommands,    \* ... by HTTP or web socket
    LinkDrops,      \* the link may be lost
    MaxCommands,    \* bound: commands issued in a behaviour
    MaxCount        \* bound: dataOk and the history of it saturate here

Requests == {"basicinfo", "cellinfo", "hwinfo"}

\* The values bmsCmd ever has.  BALANCEINFO has a case in process() and no writer.
Cmds == Requests \cup {"balance", "mosfet", "disconnect", "connect", "pause"}

ASSUME BoundsAssumption ==
    HwPeriod \in Nat \ {0} /\ MaxCommands \in Nat /\ MaxCount \in Nat \ {0}
ASSUME CommandsAssumption ==
    /\ MqttCommands \subseteq {"connect", "disconnect", "basicinfo", "balance", "mosfet"}
    /\ WebCommands \subseteq {"connect", "disconnect", "pause", "balance", "mosfet"}
    /\ LinkDrops \in BOOLEAN

VARIABLES
    connected, bmsCmd, requestCnt,
    newPacketReceived, dataOk,
    dataErr,        \* 0 stands for none, 1 for any
    pc,             \* where process() is; "paired" once connect() has returned
    cmd,            \* the value its switch read
    wire,           \* the reply on its way: what was asked, or "none"
    part,           \* how far the host task is with it
    issued,         \* commands so far
    \* history
    lastReq,        \* the last request written on this link
    sinceHw,        \* cell requests since the last hardware request
    pending,        \* command stored in bmsCmd and not yet seen by the switch
    asker,          \* ... and who stored it: "mqtt" or "web"
    replies         \* replies accepted on this link

task == <<pc, cmd>>
host == <<wire, part, newPacketReceived, dataErr, replies>>
history == <<lastReq, sinceHw>>
command == <<pending, asker>>
vars == <<connected, bmsCmd, requestCnt, newPacketReceived, dataOk, dataErr,
          pc, cmd, wire, part, issued, lastReq, sinceHw, pending, asker, replies>>

TypeOK ==
    /\ connected \in BOOLEAN /\ bmsCmd \in Cmds /\ requestCnt \in 0..(HwPeriod - 1)
    /\ newPacketReceived \in BOOLEAN /\ dataOk \in 0..MaxCount /\ dataErr \in {0, 1}
    /\ pc \in {"idle", "paired", "switch", "act", "clear", "store"} /\ cmd \in Cmds
    /\ wire \in Requests \cup {"none"} /\ part \in 0..2 /\ issued \in 0..MaxCommands
    /\ lastReq \in Requests \cup {"none"} /\ sinceHw \in 0..HwPeriod
    /\ pending \in Cmds \cup {"none"} /\ asker \in {"mqtt", "web"}
    /\ replies \in 0..MaxCount

Init ==
    /\ connected = FALSE /\ bmsCmd = "pause" /\ requestCnt = 0
    /\ newPacketReceived = FALSE /\ dataOk = 0 /\ dataErr = 0
    /\ pc = "idle" /\ cmd = "pause"
    /\ wire = "none" /\ part = 0 /\ issued = 0
    /\ lastReq = "none" /\ sinceHw = 0
    /\ pending = "none" /\ asker = "mqtt" /\ replies = 0

Count(n) == IF n < MaxCount THEN n + 1 ELSE n

----------------------------------------------------------------------------
\* process()

\* connect() succeeds and says so.  Runs in process(), before the poll.
Connect ==
    /\ pc = "idle" /\ ~connected
    /\ connected' = TRUE
    /\ lastReq' = "none" /\ replies' = 0
    /\ pc' = "paired"
    /\ UNCHANGED <<bmsCmd, requestCnt, newPacketReceived, dataOk, dataErr, cmd, wire, part,
                   issued, sinceHw, command>>

\* "activate bms requests", over whatever has been stored since.
Activate ==
    /\ pc = "paired"
    /\ bmsCmd' = "connect"
    /\ pc' = "idle"
    /\ UNCHANGED <<connected, requestCnt, host, dataOk, cmd, issued, history, command>>

\* A refresh period has passed since the last poll.  It is two seconds at least:
\* what the BMS sends in answer to the last request has arrived.
PollStart ==
    /\ pc = "idle" /\ connected /\ wire = "none"
    /\ dataOk' = IF newPacketReceived /\ dataErr = 0 THEN Count(dataOk) ELSE 0
    /\ pc' = "switch"
    /\ UNCHANGED <<connected, bmsCmd, requestCnt, host, cmd, issued, history, command>>

\* switch (bmsCmd)
Switch ==
    /\ pc = "switch"
    /\ cmd' = bmsCmd /\ pending' = "none"
    /\ pc' = "act"
    /\ UNCHANGED <<asker, connected, bmsCmd, requestCnt, host, dataOk, issued, history>>

\* bmsSendCmd(): on a lost link the write fails unnoticed, and the BMS may be silent.
WriteRequest ==
    /\ pc = "act" /\ cmd \in Requests
    /\ wire' \in (IF connected THEN {cmd, "none"} ELSE {"none"}) /\ part' = 0
    /\ lastReq' = cmd
    /\ sinceHw' = CASE cmd = "cellinfo" -> IF sinceHw < HwPeriod THEN sinceHw + 1 ELSE sinceHw
                    [] cmd = "hwinfo" -> 0
                    [] OTHER -> sinceHw
    /\ pc' = "clear"
    /\ UNCHANGED <<connected, bmsCmd, requestCnt, newPacketReceived, dataOk, dataErr,
                   cmd, issued, command, replies>>

\* ... and after the write: newPacketReceived = false.
ClearFlag ==
    /\ pc = "clear"
    /\ newPacketReceived' = FALSE
    /\ requestCnt' = IF cmd = "cellinfo" THEN (requestCnt + 1) % HwPeriod ELSE requestCnt
    /\ pc' = "store"
    /\ UNCHANGED <<connected, bmsCmd, dataOk, dataErr, cmd, wire, part, issued, history,
                   command, replies>>

\* bmsMosfetCtrl(), bmsBalanceCtrl(): the packet is composed; the line that would
\* send it is commented out.
Control ==
    /\ pc = "act" /\ cmd \in {"balance", "mosfet"}
    /\ pc' = "store"
    /\ UNCHANGED <<connected, bmsCmd, requestCnt, host, dataOk, cmd, issued, history,
                   command>>

\* disconnect()
Disconnect ==
    /\ pc = "act" /\ cmd = "disconnect"
    /\ connected' = FALSE /\ bmsCmd' = "pause" /\ dataOk' = 0
    /\ wire' = "none" /\ part' = 0 /\ pending' = "none"
    /\ pc' = "store"
    /\ UNCHANGED <<asker, requestCnt, newPacketReceived, dataErr, cmd, issued, history,
                   replies>>

Nothing ==
    /\ pc = "act" /\ cmd \in {"connect", "pause"}
    /\ pc' = IF cmd = "connect" THEN "store" ELSE "idle"
    /\ UNCHANGED <<connected, bmsCmd, requestCnt, host, dataOk, cmd, issued, history,
                   command>>

\* Mutants: a command code nobody handles; hardware data in every round; CONNECT
\* left in the register.
MutNextCmdCode(c) ==
    CASE c = "basicinfo"  -> "cellinfo"
      [] c = "cellinfo"   -> IF requestCnt = 0 THEN "balanceinfo" ELSE "basicinfo"
      [] c = "disconnect" -> "pause"
      [] OTHER            -> "basicinfo"
MutNextCmdRound(c) ==
    CASE c = "basicinfo"  -> "cellinfo"
      [] c = "cellinfo"   -> "hwinfo"
      [] c = "disconnect" -> "pause"
      [] OTHER            -> "basicinfo"
MutNextCmdConnect(c) ==
    CASE c = "basicinfo"  -> "cellinfo"
      [] c = "cellinfo"   -> IF requestCnt = 0 THEN "hwinfo" ELSE "basicinfo"
      [] c = "disconnect" -> "pause"
      [] c = "connect"    -> "connect"
      [] OTHER            -> "basicinfo"

\* What each case leaves in bmsCmd.
NextCmd(c) ==
    CASE c = "basicinfo"  -> "cellinfo"
      [] c = "cellinfo"   -> IF requestCnt = 0 THEN "hwinfo" ELSE "basicinfo"
      [] c = "disconnect" -> "pause"
      [] OTHER            -> "basicinfo"

Store ==
    /\ pc = "store"
    /\ bmsCmd' = NextCmd(cmd)
    /\ pc' = "idle"
    /\ UNCHANGED <<connected, requestCnt, host, dataOk, cmd, issued, history, command>>

LoopTask == Connect \/ Activate \/ PollStart \/ Switch \/ WriteRequest \/ ClearFlag \/ Control
              \/ Disconnect \/ Nothing \/ Store

----------------------------------------------------------------------------
\* Commands

\* A command is one store.  It outlives a missing link in bmsCmd only until the
\* next connect.
StoreCmd(c, who) ==
    /\ bmsCmd' = c
    /\ pending' = IF connected THEN c ELSE "none"
    /\ asker' = who
    /\ issued < MaxCommands /\ issued' = issued + 1
    /\ UNCHANGED <<connected, requestCnt, host, dataOk, task, history>>

\* Mutant: the callback runs in a task of its own, beside process().
MutMqttCommand == \E c \in MqttCommands : StoreCmd(c, "mqtt")

\* mqttCallback() runs in the loop task, after process().
MqttCommand == pc = "idle" /\ \E c \in MqttCommands : StoreCmd(c, "mqtt")

\* Web handlers run in a task of their own.
WebCommand == \E c \in WebCommands : StoreCmd(c, "web")

----------------------------------------------------------------------------
\* NimBLE host task

\* notifyCallback() for a part that does not end the reply.
FirstNotify ==
    /\ wire # "none" /\ part = 0
    /\ newPacketReceived' = FALSE /\ dataErr' = 1
    /\ part' = 1
    /\ UNCHANGED <<connected, bmsCmd, requestCnt, dataOk, task, wire, issued, history,
                   command, replies>>

\* The reply is complete and accepted: its data are stored, the flag is set ...
LastNotify ==
    /\ wire # "none" /\ part = 1
    /\ newPacketReceived' = TRUE
    /\ replies' = Count(replies)
    /\ part' = 2
    /\ UNCHANGED <<connected, bmsCmd, requestCnt, dataOk, dataErr, task, wire, issued,
                   history, command>>

\* ... and then the error count is cleared.
ClearErr ==
    /\ wire # "none" /\ part = 2
    /\ dataErr' = 0
    /\ wire' = "none" /\ part' = 0
    /\ UNCHANGED <<connected, bmsCmd, requestCnt, newPacketReceived, dataOk, task,
                   issued, history, command, replies>>

\* onDisconnect(): connected and nothing else.
LinkLost ==
    /\ LinkDrops /\ connected /\ part # 2
    /\ connected' = FALSE
    /\ wire' = "none" /\ part' = 0 /\ pending' = "none"
    /\ UNCHANGED <<asker, bmsCmd, requestCnt, newPacketReceived, dataOk, dataErr, task,
                   issued, history, replies>>

HostTask == FirstNotify \/ LastNotify \/ ClearErr

Next == LoopTask \/ MqttCommand \/ WebCommand \/ HostTask \/ LinkLost

\* Each task is scheduled; nobody is obliged to send a command or lose the link.
Fairness == WF_vars(LoopTask) /\ WF_vars(HostTask)

Spec == Init /\ [][Next]_vars /\ Fairness

----------------------------------------------------------------------------
\* Properties

\* On every link the first request is for basic data, cell data are asked for
\* right after basic data, hardware data right after cell data, and no two
\* hardware requests have fewer than HwPeriod cell requests between them,
\* whoever writes bmsCmd in between ("HWINFO only after 10th loop",
\* JbdBms::process()).
RequestOrder ==
    [][pc = "act" /\ pc' = "clear" =>
        /\ cmd = "cellinfo" => lastReq = "basicinfo"
        /\ cmd = "hwinfo" => lastReq = "cellinfo" /\ sinceHw = HwPeriod]_vars

\* A command that came by MQTT stays in bmsCmd until the switch has seen it or a
\* later command has replaced it: the loop task that stores the next request never
\* overwrites it (mqttCallback, process).
NoMqttCommandLost == pending # "none" /\ asker = "mqtt" => bmsCmd = pending

\* The same of every command: a web handler that answers "disconnect OK" has stored a
\* command that will be seen.  The code does not keep this one (README, divergences).
NoCommandLost == pending # "none" => bmsCmd = pending

\* What lets processMQTT() publish the data of the BMS: "BMS connected, requests
\* activ and data ok?"  They are then of the link that is up.  Nor does it keep this.
Published == pc = "idle" /\ connected /\ bmsCmd # "pause" /\ dataOk > 5
PublishedIsOfThisLink == Published => replies > 0

\* Whatever the commands, polling goes on unless it was paused or the link is down.
PollingGoesOn ==
    \/ []<>(pc = "clear")
    \/ []<>~connected
    \/ []<>(bmsCmd = "pause")

====
