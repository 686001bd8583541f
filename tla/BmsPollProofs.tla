---- MODULE BmsPollProofs ----
(***************************************************************************)
(* Proofs about BmsPoll for every hardware period and every set of         *)
(* commands, with the web server writing bmsCmd between any two statements *)
(* of process() and the link lost at any time: the requests still go out   *)
(* in the order the cycle means them to, and commands by MQTT are kept.    *)
(***************************************************************************)
EXTENDS BmsPoll, TLAPS

Counters == requestCnt \in 0..(HwPeriod - 1) /\ sinceHw \in 0..HwPeriod

\* sinceHw, the history, tells the same story as requestCnt, the variable, until
\* it has reached the period and stays there.
Counted ==
    /\ pc = "clear" /\ cmd = "cellinfo" => sinceHw \in {requestCnt + 1, HwPeriod}
    /\ ~(pc = "clear" /\ cmd = "cellinfo") => sinceHw \in {requestCnt, HwPeriod}
    /\ pc = "store" /\ cmd = "cellinfo" /\ requestCnt = 0 => sinceHw = HwPeriod

\* When a request may be written.
MayFollow(c) ==
    /\ c = "cellinfo" => lastReq = "basicinfo"
    /\ c = "hwinfo" => lastReq = "cellinfo" /\ sinceHw = HwPeriod /\ requestCnt = 0

\* The register holds a request that may be written, or one the switch has read;
\* what the switch has read may be written, and was written last when it is done.
Register ==
    /\ pc \in {"idle", "switch"} => MayFollow(bmsCmd)
    /\ pc \notin {"idle", "paired", "switch"} /\ bmsCmd \in {"cellinfo", "hwinfo"} => bmsCmd = cmd
    /\ pc = "act" => MayFollow(cmd)
    /\ pc \in {"clear", "store"} /\ cmd \in Requests => lastReq = cmd
    /\ pc \in {"clear", "store"} /\ cmd = "hwinfo" => requestCnt = 0
    /\ pc = "clear" => cmd \in Requests

OrderInv == Counters /\ Counted /\ Register

\* Counting the cell requests round the period.
LEMMA NextCount ==
    ASSUME NEW n \in 0..(HwPeriod - 1)
    PROVE  (n + 1) % HwPeriod = IF n + 1 = HwPeriod THEN 0 ELSE n + 1
<1>1. HwPeriod \in Nat \ {0}
  BY BoundsAssumption
<1>2. CASE n + 1 = HwPeriod
  BY <1>1, <1>2
<1>3. CASE n + 1 # HwPeriod
  BY <1>1, <1>3
<1> QED
  BY <1>2, <1>3

\* A command never puts a cell or a hardware request into the register.
LEMMA CommandsAreNoRequests ==
    ASSUME NEW c \in MqttCommands \cup WebCommands
    PROVE  c \in Cmds /\ c \notin {"cellinfo", "hwinfo"}
BY CommandsAssumption DEF Cmds, Requests

----------------------------------------------------------------------------
\* What a request leaves in bmsCmd is one of its values.
LEMMA NextIsCmd == ASSUME NEW c \in Cmds PROVE NextCmd(c) \in Cmds
BY DEF NextCmd, Cmds, Requests

\* The two flags, and all other variables.
Flags == connected \in BOOLEAN /\ newPacketReceived \in BOOLEAN
Values ==
    /\ bmsCmd \in Cmds /\ requestCnt \in 0..(HwPeriod - 1)
    /\ dataOk \in 0..MaxCount /\ dataErr \in {0, 1}
    /\ pc \in {"idle", "paired", "switch", "act", "clear", "store"} /\ cmd \in Cmds
    /\ wire \in Requests \cup {"none"} /\ part \in 0..2 /\ issued \in 0..MaxCommands
    /\ lastReq \in Requests \cup {"none"} /\ sinceHw \in 0..HwPeriod
    /\ pending \in Cmds \cup {"none"} /\ asker \in {"mqtt", "web"}
    /\ replies \in 0..MaxCount

LEMMA FlagsKept == ASSUME Flags, [Next]_vars PROVE Flags'
<1> USE DEF Flags
<1>1. CASE Connect \/ Disconnect \/ LinkLost
  BY <1>1, Zenon DEF Connect, Disconnect, LinkLost
<1>2. CASE ClearFlag \/ HostTask
  BY <1>2, Zenon DEF ClearFlag, HostTask, FirstNotify, LastNotify, ClearErr
<1>3. CASE Activate \/ PollStart \/ Switch \/ WriteRequest \/ Control \/ Nothing \/ Store
  BY <1>3, Zenon DEF Activate, PollStart, Switch, WriteRequest, Control, Nothing, Store, host
<1>4. CASE MqttCommand \/ WebCommand
  BY <1>4, Zenon DEF MqttCommand, WebCommand, StoreCmd, host
<1>5. CASE UNCHANGED vars
  BY <1>5, Zenon DEF vars
<1> QED
  BY <1>1, <1>2, <1>3, <1>4, <1>5 DEF Next, LoopTask

LEMMA ValuesKept == ASSUME Values, [Next]_vars PROVE Values'
<1> USE BoundsAssumption DEF Values, Count
<1>1. CASE Connect \/ Activate
  BY <1>1 DEF Connect, Activate, host, history, command, Cmds
<1>2. CASE PollStart
  BY <1>2 DEF PollStart, host, history, command
<1>3. CASE Switch
  BY <1>3 DEF Switch, host, history
<1>4. CASE WriteRequest
  <2>1. sinceHw' \in 0..HwPeriod
    BY <1>4 DEF WriteRequest
  <2>2. wire' \in Requests \cup {"none"} /\ lastReq' \in Requests
    BY <1>4 DEF WriteRequest
  <2> QED
    BY <1>4, <2>1, <2>2 DEF WriteRequest, command
<1>5. CASE ClearFlag
  <2>1. requestCnt' \in 0..(HwPeriod - 1)
    BY <1>5, NextCount DEF ClearFlag
  <2> QED
    BY <1>5, <2>1 DEF ClearFlag, history, command
<1>6. CASE Control \/ Nothing
  BY <1>6 DEF Control, Nothing, host, history, command
<1>7. CASE Disconnect
  BY <1>7 DEF Disconnect, history, Cmds
<1>8. CASE Store
  BY <1>8, NextIsCmd DEF Store, host, history, command
<1>9. CASE MqttCommand \/ WebCommand
  <2>1. PICK c \in MqttCommands \cup WebCommands, who \in {"mqtt", "web"} : StoreCmd(c, who)
    BY <1>9 DEF MqttCommand, WebCommand
  <2> QED
    BY <2>1, CommandsAreNoRequests DEF StoreCmd, host, task, history
<1>10. CASE HostTask
  BY <1>10 DEF HostTask, FirstNotify, LastNotify, ClearErr, task, history, command
<1>11. CASE LinkLost
  BY <1>11 DEF LinkLost, task, history
<1>12. CASE UNCHANGED vars
  BY <1>12 DEF vars
<1> QED
  BY <1>1, <1>2, <1>3, <1>4, <1>5, <1>6, <1>7, <1>8, <1>9, <1>10, <1>11, <1>12
  DEF Next, LoopTask

\* Every variable keeps its type; requestCnt stays below the period.
THEOREM Typing == Spec => []TypeOK
<1>1. Init => Flags
  BY Zenon DEF Init, Flags
<1>2. Init => Values
  BY BoundsAssumption DEF Init, Values, Cmds, Requests
<1>3. Flags /\ Values => TypeOK
  BY Zenon DEF Flags, Values, TypeOK
<1> QED
  BY <1>1, <1>2, <1>3, FlagsKept, ValuesKept, PTL DEF Spec

----------------------------------------------------------------------------

LEMMA Ordering == Spec => []OrderInv
<1>1. Init => OrderInv
  BY BoundsAssumption DEF Init, OrderInv, Counters, Counted, Register, MayFollow, Requests
<1>2. OrderInv /\ [Next]_vars => OrderInv'
  <2> SUFFICES ASSUME OrderInv, [Next]_vars
               PROVE  OrderInv'
    OBVIOUS
  <2> USE BoundsAssumption
      DEF OrderInv, Counters, Counted, Register, MayFollow, Requests
  <2>1. CASE Connect \/ Activate
    BY <2>1 DEF Connect, Activate, host, history
  <2>2. CASE PollStart
    BY <2>2 DEF PollStart, host, history
  <2>3. CASE Switch
    BY <2>3 DEF Switch, host, history
  <2>4. CASE WriteRequest
    BY <2>4 DEF WriteRequest
  <2>5. CASE ClearFlag
    BY <2>5, NextCount DEF ClearFlag, history
  <2>6. CASE Control \/ Nothing
    BY <2>6 DEF Control, Nothing, host, history
  <2>7. CASE Disconnect
    BY <2>7 DEF Disconnect, history
  <2>8. CASE Store
    BY <2>8 DEF Store, NextCmd, host, history
  <2>9. CASE MqttCommand \/ WebCommand
    <3>1. PICK c \in MqttCommands \cup WebCommands, who \in {"mqtt", "web"} : StoreCmd(c, who)
      BY <2>9 DEF MqttCommand, WebCommand
    <3> QED
      BY <3>1, CommandsAreNoRequests DEF StoreCmd, task, history
  <2>10. CASE HostTask
    BY <2>10 DEF HostTask, FirstNotify, LastNotify, ClearErr, task, history
  <2>11. CASE LinkLost
    BY <2>11 DEF LinkLost, task, history
  <2>12. CASE UNCHANGED vars
    BY <2>12 DEF vars
  <2> QED
    BY <2>1, <2>2, <2>3, <2>4, <2>5, <2>6, <2>7, <2>8, <2>9, <2>10, <2>11, <2>12
    DEF Next, LoopTask
<1> QED
  BY <1>1, <1>2, PTL DEF Spec

\* Whoever writes bmsCmd, cell data are asked for after basic data, and hardware
\* data after HwPeriod cell requests.
THEOREM Order == Spec => RequestOrder
<1>1. OrderInv /\ [Next]_vars =>
        [pc = "act" /\ pc' = "clear" =>
            /\ cmd = "cellinfo" => lastReq = "basicinfo"
            /\ cmd = "hwinfo" => lastReq = "cellinfo" /\ sinceHw = HwPeriod]_vars
  BY DEF OrderInv, Register, MayFollow
<1> QED
  BY <1>1, Ordering, PTL DEF Spec, RequestOrder

----------------------------------------------------------------------------
\* While a command by MQTT waits, the loop task is not between reading bmsCmd and
\* storing its next value: it read the command, or the command came after.  None is
\* counted while the link is down, so none waits when connect() returns.
Waits ==
    /\ pending # "none" /\ asker = "mqtt" => bmsCmd = pending /\ pc \in {"idle", "switch"}
    /\ ~connected => pending = "none"

\* The loop task, which stores the next request unasked, never overwrites a command
\* that came by MQTT, whatever the web server does.
THEOREM KeptForMqtt == Spec => []NoMqttCommandLost
<1>1. Init => Waits
  BY DEF Init, Waits
<1>2. Waits /\ [Next]_vars => Waits'
  <2> SUFFICES ASSUME Waits, [Next]_vars PROVE Waits'
    OBVIOUS
  <2> USE DEF Waits
  <2>1. CASE Connect \/ Activate
    BY <2>1 DEF Connect, Activate, command
  <2>2. CASE PollStart \/ Switch \/ WriteRequest \/ ClearFlag
    BY <2>2 DEF PollStart, Switch, WriteRequest, ClearFlag, command
  <2>3. CASE Control \/ Disconnect \/ Nothing \/ Store
    BY <2>3 DEF Control, Disconnect, Nothing, Store, command
  <2>4. CASE MqttCommand
    BY <2>4 DEF MqttCommand, StoreCmd, task
  <2>5. CASE WebCommand
    BY <2>5 DEF WebCommand, StoreCmd, task
  <2>6. CASE HostTask
    BY <2>6 DEF HostTask, FirstNotify, LastNotify, ClearErr, task, command
  <2>7. CASE LinkLost
    BY <2>7 DEF LinkLost, task
  <2>8. CASE UNCHANGED vars
    BY <2>8 DEF vars
  <2> QED
    BY <2>1, <2>2, <2>3, <2>4, <2>5, <2>6, <2>7, <2>8 DEF Next, LoopTask
<1>3. Waits => NoMqttCommandLost
  BY DEF Waits, NoMqttCommandLost
<1> QED
  BY <1>1, <1>2, <1>3, PTL DEF Spec

====
