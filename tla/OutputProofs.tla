---- MODULE OutputProofs ----
(***************************************************************************)
(* Proofs about what loop() puts out: the relay, the wakeup output and the *)
(* values for the broker.                                                  *)
(*                                                                         *)
(* Relay, for every setting, reading and pass of loop(): types are kept,   *)
(* and the relay is not switched twice within RELAY_REFRESH, but by        *)
(* inversion.  Wakeup, for every duration of the pulse and pass of loop(): *)
(* types are kept, and the output comes back to its rest.  Publish, for    *)
(* every range of values, every minDiff and every distance of full         *)
(* publishes: how far behind the broker can fall.                          *)
(***************************************************************************)
EXTENDS Relay, Wakeup, Publish, TLAPS

----------------------------------------------------------------------------
\* Relay

\* Whatever is settled, the pin is on or off.
LEMMA PinTyped ==
    ASSUME NEW wish, Settle(wish) PROVE relayState' \in BOOLEAN
<1>1. relayState' = (wish # set.invert)
  BY Zenon DEF Settle
<1>2. CASE wish # set.invert
  <2>1. relayState' = TRUE
    BY <1>1, <1>2, Zenon
  <2> QED
    BY <2>1, Zenon
<1>3. CASE wish = set.invert
  <2>1. relayState' = FALSE
    BY <1>1, <1>3, Zenon
  <2> QED
    BY <2>1, Zenon
<1> QED
  BY <1>2, <1>3

\* A state that is there already moves nothing.
LEMMA SettleUpright ==
    ASSUME ~set.invert, set.invert \in BOOLEAN, relayState \in BOOLEAN, Settle(relayState)
    PROVE  relayState' = relayState /\ still' = still
<1>1. set.invert = FALSE
  OBVIOUS
<1>2. relayState' = (relayState # FALSE)
  BY <1>1, Zenon DEF Settle
<1>3. CASE relayState = TRUE
  <2>1. relayState' = TRUE
    BY <1>2, <1>3, Zenon
  <2>2. (relayState # set.invert) = relayState
    BY <1>1, <1>3, Zenon
  <2> QED
    BY <2>1, <2>2, <1>3, Zenon DEF Settle
<1>4. CASE relayState = FALSE
  <2>1. relayState' = FALSE
    BY <1>2, <1>4, Zenon
  <2>2. (relayState # set.invert) = relayState
    BY <1>1, <1>4, Zenon
  <2> QED
    BY <2>1, <2>2, <1>4, Zenon DEF Settle
<1> QED
  BY <1>3, <1>4

\* The pin has rested since lastSwitched, at least, unless it was turned over.
Switch == set \in Settings /\ relayState \in BOOLEAN
Rested == age \in Nat /\ still \in Nat /\ (turned \/ age <= still)

LEMMA Switching == RelaySpec => []Switch
<1>1. RelayInit => Switch
  BY Zenon DEF RelayInit, Switch
<1>2. Switch /\ [RelayNext]_relayVars => Switch'
  <2> SUFFICES ASSUME Switch, [RelayNext]_relayVars PROVE Switch'
    OBVIOUS
  <2> USE DEF Switch
  <2>1. CASE NotDue \/ Manual \/ ByReading
    <3>1. Settle(relayState) \/ Settle(relay) \/ Settle(Compared)
      BY <2>1, Zenon DEF NotDue, Manual, ByReading
    <3>2. relayState' \in BOOLEAN
      BY <3>1, PinTyped, Zenon
    <3>3. set' = set
      BY <3>1, Zenon DEF Settle
    <3> QED
      BY <3>2, <3>3
  <2>2. CASE RelayPass \/ Frozen \/ Wish \/ Reading \/ Pause
    BY <2>2 DEF RelayPass, Frozen, Wish, Reading, Pause
  <2>3. CASE Save
    BY <2>3 DEF Save
  <2>4. CASE UNCHANGED relayVars
    BY <2>4 DEF relayVars
  <2> QED
    BY <2>1, <2>2, <2>3, <2>4 DEF RelayNext, RelayLoop
<1> QED
  BY <1>1, <1>2, PTL DEF RelaySpec

LEMMA Resting == RelaySpec => []Rested
<1>1. RelayInit => Rested
  BY RelayAssumption DEF RelayInit, Rested
<1>2. Switch /\ Rested /\ [RelayNext]_relayVars => Rested'
  <2> SUFFICES ASSUME Switch, Rested, [RelayNext]_relayVars PROVE Rested'
    OBVIOUS
  <2> USE RelayAssumption DEF Rested
  <2>1. CASE RelayPass
    BY <2>1 DEF RelayPass, Capped
  <2>2. CASE NotDue
    <3>1. Settle(relayState) /\ age' = age /\ set.invert \in BOOLEAN
      BY <2>2 DEF NotDue, Switch
    <3>2. turned' <=> turned \/ set.invert
      BY <2>2, Zenon DEF NotDue
    <3>3. CASE set.invert
      <4>1. still' \in {0, still}
        BY <3>1 DEF Settle
      <4> QED
        BY <3>1, <3>2, <3>3, <4>1
    <3>4. CASE ~set.invert
      <4>1. still' = still
        BY <3>1, <3>4, SettleUpright DEF Switch
      <4> QED
        BY <3>1, <3>2, <4>1
    <3> QED
      BY <3>3, <3>4
  <2>3. CASE Manual \/ Frozen \/ ByReading
    BY <2>3 DEF Manual, Frozen, ByReading, Settle
  <2>4. CASE Wish \/ Save \/ Reading \/ Pause
    <3>1. age' = age /\ still' = still /\ turned' = turned
      BY <2>4, Zenon DEF Wish, Save, Reading, Pause
    <3> QED
      BY <3>1
  <2>5. CASE UNCHANGED relayVars
    BY <2>5 DEF relayVars
  <2> QED
    BY <2>1, <2>2, <2>3, <2>4, <2>5 DEF RelayNext, RelayLoop
<1> QED
  BY <1>1, <1>2, Switching, PTL DEF RelaySpec

\* Neither readings, commands nor saved settings work the contacts faster, but for
\* inversion.
THEOREM Chatter == RelaySpec => NoChatter
<1> DEFINE Late == still >= Refresh \/ turned \/ (set.invert /\ ~Due)
<1>1. Switch /\ Rested /\ [RelayNext]_relayVars => [relayState' # relayState => Late]_relayVars
  <2> SUFFICES ASSUME Switch, Rested, RelayNext, relayState' # relayState, ~turned,
                      ~(set.invert /\ ~Due)
               PROVE  still >= Refresh
    OBVIOUS
  <2> USE RelayAssumption DEF Rested
  <2>1. ~NotDue
    <3> SUFFICES ASSUME NotDue PROVE FALSE
      OBVIOUS
    <3>1. ~set.invert /\ set.invert \in BOOLEAN /\ Settle(relayState)
      BY DEF NotDue, Switch
    <3> QED
      BY <3>1, SettleUpright DEF Switch
  <2>2. Manual \/ ByReading
    BY <2>1, Zenon DEF RelayNext, RelayLoop, RelayPass, Frozen, Wish, Save, Reading, Pause
  <2>3. age > Refresh
    BY <2>2 DEF Manual, ByReading, Due
  <2> QED
    BY <2>3
<1> QED
  BY <1>1, Switching, Resting, PTL DEF RelaySpec, NoChatter

\* Settling keeps the types.
LEMMA SettleTyped ==
    ASSUME RelayTypeOK, NEW wish, Settle(wish), age' \in 0..(Refresh + 1),
           turned' \in BOOLEAN
    PROVE  RelayTypeOK'
<1>1. relayState' \in BOOLEAN
  BY PinTyped
<1>2. still' \in 0..(Refresh + 1)
  BY RelayAssumption DEF RelayTypeOK, Settle
<1>3. pc' = "loop" /\ UNCHANGED <<set, relay, reading, paused>>
  BY Zenon DEF Settle
<1> QED
  BY <1>1, <1>2, <1>3 DEF RelayTypeOK

\* Whatever is saved, read and wished, state and ages keep their types.
THEOREM RelayTyping == RelaySpec => []RelayTypeOK
<1>1. RelayInit => RelayTypeOK
  <2> SUFFICES ASSUME RelayInit PROVE RelayTypeOK
    OBVIOUS
  <2>1. age \in 0..(Refresh + 1) /\ still \in 0..(Refresh + 1)
    BY RelayAssumption DEF RelayInit
  <2>2. pc \in {"loop", "relay"} /\ set \in Settings /\ reading \in Readings \cup {0}
    BY DEF RelayInit
  <2>3. relay \in BOOLEAN /\ paused \in BOOLEAN /\ relayState \in BOOLEAN /\ turned \in BOOLEAN
    BY DEF RelayInit
  <2> QED
    BY <2>1, <2>2, <2>3 DEF RelayTypeOK
<1>2. RelayTypeOK /\ [RelayNext]_relayVars => RelayTypeOK'
  <2> SUFFICES ASSUME RelayTypeOK, [RelayNext]_relayVars PROVE RelayTypeOK'
    OBVIOUS
  <2> USE RelayAssumption
  <2>1. CASE NotDue \/ Manual \/ ByReading
    <3>1. PICK wish : Settle(wish)
      BY <2>1, Zenon DEF NotDue, Manual, ByReading
    <3>2. age' \in 0..(Refresh + 1)
      BY <2>1 DEF NotDue, Manual, ByReading, RelayTypeOK
    <3>3. turned' \in BOOLEAN
      <4>1. CASE NotDue
        <5>1. turned' = (turned \/ set.invert)
          BY <4>1, Zenon DEF NotDue
        <5> QED
          BY <5>1, Zenon
      <4>2. CASE Manual \/ ByReading
        BY <4>2 DEF Manual, ByReading
      <4> QED
        BY <2>1, <4>1, <4>2
    <3> QED
      BY <3>1, <3>2, <3>3, SettleTyped
  <2>2. CASE RelayPass
    <3>1. age' \in 0..(Refresh + 1) /\ still' \in 0..(Refresh + 1)
      BY <2>2 DEF RelayPass, Capped, RelayTypeOK
    <3> QED
      BY <2>2, <3>1 DEF RelayPass, RelayTypeOK
  <2>3. CASE Frozen
    <3>1. /\ age' = 0 /\ turned' = FALSE /\ pc' = "loop"
          /\ UNCHANGED <<set, relay, reading, paused, relayState, still>>
      BY <2>3, Zenon DEF Frozen
    <3>2. 0 \in 0..(Refresh + 1)
      OBVIOUS
    <3>3. age' \in 0..(Refresh + 1) /\ turned' \in BOOLEAN
      BY <3>1, <3>2, Zenon
    <3> QED
      BY <3>1, <3>3, Zenon DEF RelayTypeOK
  <2>4. CASE Wish
    <3>1. relay' \in BOOLEAN /\ UNCHANGED <<pc, set, reading, paused, relayState, age, still, turned>>
      BY <2>4, Zenon DEF Wish
    <3> QED
      BY <3>1 DEF RelayTypeOK
  <2>5. CASE Save \/ Reading
    BY <2>5 DEF Save, Reading, RelayTypeOK
  <2>6. CASE Pause
    <3>1. paused' \in BOOLEAN /\ UNCHANGED <<pc, set, relay, reading, relayState, age, still, turned>>
      BY <2>6, Zenon DEF Pause
    <3> QED
      BY <3>1 DEF RelayTypeOK
  <2>7. CASE UNCHANGED relayVars
    BY <2>7 DEF relayVars, RelayTypeOK
  <2> QED
    BY <2>1, <2>2, <2>3, <2>4, <2>5, <2>6, <2>7 DEF RelayNext, RelayLoop
<1> QED
  BY <1>1, <1>2, PTL DEF RelaySpec

----------------------------------------------------------------------------
\* Wakeup

\* A pulse that is older than Duration is being ended, or about to be.
Aged ==
    /\ WakeupTypeOK
    /\ loop \in {"pass", "stamp"} \/ ~lastWakeup => pulseAge <= Duration

LEMMA OutputAges == WakeupSpec => []Aged
<1> USE WakeupAssumption DEF WakeupAssumption
<1>1. WakeupInit => Aged
  <2>1. 0 \in 0..(Duration + LongestPass) /\ 0 <= Duration
    OBVIOUS
  <2> QED
    BY <2>1, Zenon DEF WakeupInit, Aged, WakeupTypeOK
<1>2. Aged /\ [WakeupNext]_wakeupVars => Aged'
  <2> SUFFICES ASSUME Aged, [WakeupNext]_wakeupVars PROVE Aged'
    OBVIOUS
  <2> USE DEF Aged, WakeupTypeOK
  <2>1. CASE WakeupPass
    <3>1. pulseAge' \in 0..(Duration + LongestPass)
      BY <2>1 DEF WakeupPass
    <3>2. ~lastWakeup => pulseAge' <= Duration
      BY <2>1 DEF WakeupPass
    <3> QED
      BY <2>1, <3>1, <3>2, Zenon DEF WakeupPass
  <2>2. CASE Check
    <3>1. pulseAge' = pulseAge /\ web' = web
      BY <2>2, Zenon DEF Check
    <3>2. /\ pin' \in BOOLEAN /\ lastWakeup' \in BOOLEAN /\ overlapped' \in BOOLEAN
      BY <2>2, Zenon DEF Check
    <3>3. CASE Over
      <4>1. loop' = "toggle"
        BY <2>2, <3>3, Zenon DEF Check
      <4>2. lastWakeup'
        BY <2>2, <3>3, Zenon DEF Check, Over
      <4> QED
        BY <3>1, <3>2, <4>1, <4>2, Zenon
    <3>4. CASE ~Over
      <4>1. loop' = "pass"
        BY <2>2, <3>4, Zenon DEF Check
      <4>2. pulseAge <= Duration
        BY <3>4 DEF Over
      <4> QED
        BY <3>1, <3>2, <4>1, <4>2, Zenon
    <3> QED
      BY <3>3, <3>4, Zenon
  <2>3. CASE Toggle
    BY <2>3 DEF Toggle
  <2>4. CASE Clear
    <3>1. pulseAge' \in 0..(Duration + LongestPass) /\ pulseAge' <= Duration
      BY <2>4 DEF Clear
    <3> QED
      BY <2>4, <3>1, Zenon DEF Clear
  <2>5. CASE MqttWakeup
    BY <2>5 DEF MqttWakeup
  <2>6. CASE MqttStamp
    <3>1. pulseAge' \in 0..(Duration + LongestPass) /\ pulseAge' <= Duration
      BY <2>6 DEF MqttStamp
    <3> QED
      BY <2>6, <3>1, Zenon DEF MqttStamp
  <2>7. CASE WebWakeup
    BY <2>7 DEF WebWakeup
  <2>8. CASE WebStamp
    <3>1. pulseAge' \in 0..(Duration + LongestPass) /\ pulseAge' <= Duration
      BY <2>8 DEF WebStamp
    <3> QED
      BY <2>8, <3>1, Zenon DEF WebStamp
  <2>9. CASE WebCheck
    <3>1. web' \in {"toggle", "idle"} /\ UNCHANGED <<pin, lastWakeup, pulseAge, loop>>
      BY <2>9, Zenon DEF WebCheck
    <3>2. overlapped' \in BOOLEAN
      BY <2>9, Zenon DEF WebCheck
    <3> QED
      BY <3>1, <3>2
  <2>10. CASE WebToggle
    BY <2>10 DEF WebToggle
  <2>11. CASE WebClear
    <3>1. pulseAge' \in 0..(Duration + LongestPass) /\ pulseAge' <= Duration
      BY <2>11 DEF WebClear
    <3> QED
      BY <2>11, <3>1, Zenon DEF WebClear
  <2>12. CASE UNCHANGED wakeupVars
    BY <2>12 DEF wakeupVars
  <2> QED
    BY <2>1, <2>2, <2>3, <2>4, <2>5, <2>6, <2>7, <2>8, <2>9, <2>10, <2>11, <2>12, Zenon
       DEF WakeupNext, WakeupLoop, WebTask
<1> QED
  BY <1>1, <1>2, PTL DEF WakeupSpec

\* Whatever two tasks make of a pulse, the state of the output keeps its types.
THEOREM WakeupTyping == WakeupSpec => []WakeupTypeOK
<1>1. Aged => WakeupTypeOK
  BY DEF Aged
<1> QED
  BY <1>1, OutputAges, PTL

\* Unless two pulses have overlapped or one is ended twice: the output is turned over
\* from the turn of a command until the turn that ends the pulse, and nobody else turns
\* it.
PulseInv ==
    ~overlapped =>
        /\ pin <=> \/ loop = "stamp" \/ web = "stamp"
                   \/ lastWakeup /\ loop # "clear" /\ web # "clear"
        /\ loop \in {"toggle", "clear"} => lastWakeup /\ web \in {"idle", "check"}
        /\ web \in {"toggle", "clear"} => lastWakeup /\ loop \in {"pass", "check"}
        /\ web = "stamp" => ~lastWakeup /\ loop \in {"pass", "check"}
        /\ loop = "stamp" => ~lastWakeup /\ web = "idle"

\* However the two tasks interleave: if no two pulses overlap, the output is at rest
\* whenever none is pending.
THEOREM Restored == WakeupSpec => []PinRestored
<1>1. WakeupInit => PulseInv
  BY Zenon DEF WakeupInit, PulseInv
<1>2. Aged /\ PulseInv /\ [WakeupNext]_wakeupVars => PulseInv'
  <2> SUFFICES ASSUME Aged, PulseInv, [WakeupNext]_wakeupVars PROVE PulseInv'
    OBVIOUS
  <2> USE DEF PulseInv
  <2>1. CASE WakeupPass
    BY <2>1, Zenon DEF WakeupPass
  <2>2. CASE Check
    <3>1. CASE Over /\ web \in {"toggle", "clear"}
      BY <2>2, <3>1, Zenon DEF Check
    <3>2. CASE Over /\ web \notin {"toggle", "clear"}
      <4>1. /\ loop' = "toggle" /\ loop = "check" /\ lastWakeup
            /\ UNCHANGED <<pin, lastWakeup, web>> /\ (overlapped' <=> overlapped)
        BY <2>2, <3>2, Zenon DEF Check, Over
      <4>2. ~overlapped => web \in {"idle", "check"}
        BY <3>2, <4>1 DEF Aged, WakeupTypeOK
      <4> QED
        BY <4>1, <4>2, Zenon
    <3>3. CASE ~Over
      <4>1. /\ loop' = "pass" /\ loop = "check"
            /\ UNCHANGED <<pin, lastWakeup, web>> /\ (overlapped' <=> overlapped)
        BY <2>2, <3>3, Zenon DEF Check
      <4> QED
        BY <4>1, Zenon
    <3> QED
      BY <3>1, <3>2, <3>3
  <2>3. CASE Toggle
    BY <2>3, Zenon DEF Toggle
  <2>4. CASE Clear
    BY <2>4, Zenon DEF Clear
  <2>5. CASE MqttWakeup
    BY <2>5, Zenon DEF MqttWakeup, Calm
  <2>6. CASE MqttStamp
    BY <2>6, Zenon DEF MqttStamp
  <2>7. CASE WebWakeup
    BY <2>7, Zenon DEF WebWakeup, Calm
  <2>8. CASE WebStamp
    BY <2>8, Zenon DEF WebStamp
  <2>9. CASE WebCheck
    <3>1. CASE Over /\ loop \in {"toggle", "clear"}
      BY <2>9, <3>1, Zenon DEF WebCheck
    <3>2. CASE Over /\ loop \notin {"toggle", "clear"}
      <4>1. ~overlapped => loop # "stamp"
        BY <3>2, Zenon DEF Over
      <4>2. ~overlapped => loop \in {"pass", "check"}
        BY <3>2, <4>1 DEF Aged, WakeupTypeOK
      <4>3. /\ web' = "toggle" /\ web = "check" /\ lastWakeup
            /\ UNCHANGED <<pin, lastWakeup, loop>> /\ (overlapped' <=> overlapped)
        BY <2>9, <3>2, Zenon DEF WebCheck, Over
      <4> QED
        BY <4>2, <4>3, Zenon
    <3>3. CASE ~Over
      <4>1. /\ web' = "idle" /\ web = "check"
            /\ UNCHANGED <<pin, lastWakeup, loop>> /\ (overlapped' <=> overlapped)
        BY <2>9, <3>3, Zenon DEF WebCheck
      <4> QED
        BY <4>1, Zenon
    <3> QED
      BY <3>1, <3>2, <3>3
  <2>10. CASE WebToggle
    BY <2>10, Zenon DEF WebToggle
  <2>11. CASE WebClear
    BY <2>11, Zenon DEF WebClear
  <2>12. CASE UNCHANGED wakeupVars
    BY <2>12, Zenon DEF wakeupVars
  <2> QED
    BY <2>1, <2>2, <2>3, <2>4, <2>5, <2>6, <2>7, <2>8, <2>9, <2>10, <2>11, <2>12, Zenon
       DEF WakeupNext, WakeupLoop, WebTask
<1>3. PulseInv => PinRestored
  BY Zenon DEF PulseInv, PinRestored, Calm
<1> QED
  BY <1>1, <1>2, <1>3, OutputAges, PTL DEF WakeupSpec

----------------------------------------------------------------------------
\* Publish

\* The values are numbers and the counter is below its modulus: what DriftBounded
\* counts with.
Numbers ==
    /\ doing \in {"due", "copy"}
    /\ value \in Values /\ old \in Values /\ sent \in Values \cup {-1}
    /\ cnt \in 0..(Every - 1)

\* publishCnt modulo Every.
LEMMA NextCnt ==
    ASSUME NEW n \in 0..(Every - 1)
    PROVE  (n + 1) % Every = IF n + 1 = Every THEN 0 ELSE n + 1
<1>1. Every \in Nat \ {0}
  BY PublishAssumption DEF PublishAssumption
<1>2. CASE n + 1 = Every
  BY <1>1, <1>2
<1>3. CASE n + 1 # Every
  BY <1>1, <1>3
<1> QED
  BY <1>2, <1>3

\* Another publish allows for minDiff more.
LEMMA OneMore ==
    ASSUME NEW n \in Nat
    PROVE  /\ n * MinDiff \in Nat
           /\ (n + 1) * MinDiff = n * MinDiff + MinDiff
<1>1. MinDiff \in Nat
  BY PublishAssumption DEF PublishAssumption
<1> QED
  BY <1>1

LEMMA FirstNumbers == PublishInit => Numbers
<1> SUFFICES ASSUME PublishInit PROVE Numbers
  OBVIOUS
<1>1. doing = "due" /\ value = 0 /\ old = 0 /\ sent = -1 /\ cnt = 0
  BY DEF PublishInit
<1>2. 0 \in Values /\ 0 \in 0..(Every - 1)
  BY PublishAssumption DEF Values, PublishAssumption
<1> QED
  BY <1>1, <1>2 DEF Numbers

LEMMA NumbersInvariant == PublishSpec => []Numbers
<1>1. PublishInit => Numbers
  BY FirstNumbers
<1>2. Numbers /\ [PublishNext]_publishVars => Numbers'
  <2> SUFFICES ASSUME Numbers, [PublishNext]_publishVars PROVE Numbers'
    OBVIOUS
  <2> USE DEF Numbers
  <2>1. CASE Send
    <3>1. sent' = value \/ sent' = sent
      BY <2>1 DEF Send
    <3> QED
      BY <2>1, <3>1 DEF Send, bms
  <2>2. CASE Copy
    <3>1. cnt' \in 0..(Every - 1)
      BY <2>2, NextCnt, PublishAssumption DEF Copy, PublishAssumption
    <3> QED
      BY <2>2, <3>1 DEF Copy
  <2>3. CASE SendState
    BY <2>3 DEF SendState
  <2>4. CASE Reply
    BY <2>4 DEF Reply
  <2>5. CASE Poll \/ BmsChanges \/ Json \/ Network
    BY <2>5 DEF Poll, BmsChanges, Json, Network
  <2>6. CASE UNCHANGED publishVars
    BY <2>6 DEF publishVars
  <2> QED
    BY <2>1, <2>2, <2>3, <2>4, <2>5, <2>6 DEF PublishNext, PublishLoop
<1> QED
  BY <1>1, <1>2, PTL DEF PublishSpec

\* The flags are flags: what TypeOK adds to the numbers.
THEOREM PublishTyping == PublishSpec => []PublishTypeOK
<1>1. PublishInit => PublishTypeOK
  <2> SUFFICES ASSUME PublishInit PROVE PublishTypeOK
    OBVIOUS
  <2>1. Numbers
    BY FirstNumbers
  <2> QED
    BY <2>1, Zenon DEF PublishInit, PublishTypeOK, Numbers
<1>2. PublishTypeOK /\ Numbers' /\ [PublishNext]_publishVars => PublishTypeOK'
  <2> SUFFICES ASSUME PublishTypeOK, Numbers', [PublishNext]_publishVars PROVE PublishTypeOK'
    OBVIOUS
  <2> USE DEF PublishTypeOK, Numbers
  <2>1. CASE Send
    <3>1. clean' \in BOOLEAN
      <4>1. PICK received \in Received : clean' = (received /\ (clean \/ ForceUpdate))
        BY <2>1 DEF Send
      <4> QED
        BY <4>1, Zenon
    <3> QED
      BY <2>1, <3>1, Zenon DEF Send, bms
  <2>2. CASE Copy
    BY <2>2, Zenon DEF Copy, bms
  <2>3. CASE SendState
    <3>1. state' \in {"", "paired", "connected", "disconnected"}
      BY <2>3, Zenon DEF SendState, Word
    <3> QED
      BY <2>3, <3>1, Zenon DEF SendState, bms
  <2>4. CASE Reply
    <3>1. clean' \in BOOLEAN
      BY <2>4, Zenon DEF Reply
    <3> QED
      BY <2>4, <3>1, Zenon DEF Reply, bms
  <2>5. CASE Poll \/ BmsChanges
    BY <2>5, Zenon DEF Poll, BmsChanges
  <2>6. CASE Json
    BY <2>6, Zenon DEF Json, bms
  <2>7. CASE Network
    BY <2>7, Zenon DEF Network, bms
  <2>8. CASE UNCHANGED publishVars
    BY <2>8, Zenon DEF publishVars, bms
  <2> QED
    BY <2>1, <2>2, <2>3, <2>4, <2>5, <2>6, <2>7, <2>8 DEF PublishNext, PublishLoop
<1> QED
  BY <1>1, <1>2, NumbersInvariant, PTL DEF PublishSpec

\* Between sending and the next copy the value itself is what the copy will be: cnt
\* publishes since the full one have left the broker behind by minDiff each.
DriftInv ==
    clean => IF doing = "due" THEN Diff(sent, old) <= Since * MinDiff
                           ELSE Diff(sent, value) <= cnt * MinDiff

\* A value the broker has is never off by more than minDiff for each publish since
\* everything was sent, whatever the BMS does to the value in between.
THEOREM Drift == PublishSpec => []DriftBounded
<1> USE DEF DriftInv, Diff
<1>1. PublishInit => DriftInv
  BY DEF PublishInit
<1>2. Numbers /\ DriftInv /\ [PublishNext]_publishVars => DriftInv'
  <2> SUFFICES ASSUME Numbers, DriftInv, [PublishNext]_publishVars PROVE DriftInv'
    OBVIOUS
  <2>1. /\ value \in Nat /\ old \in Nat /\ sent \in Int /\ cnt \in Nat
        /\ MinDiff \in Nat /\ Every \in Nat \ {0} /\ cnt \in 0..(Every - 1)
    BY PublishAssumption DEF Numbers, Values, PublishAssumption
  <2>2. CASE Send
    <3>1. PICK received \in Received :
            /\ sent' = IF ToSend /\ received THEN value ELSE sent
            /\ clean' = (received /\ (clean \/ ForceUpdate))
      BY <2>2 DEF Send
    <3>2. /\ doing = "due" /\ doing' = "copy"
          /\ value' = value /\ old' = old /\ cnt' = cnt
      BY <2>2 DEF Send
    <3>3. CASE ~clean'
      BY <3>3
    <3>4. CASE ToSend /\ clean'
      <4>1. sent' = value
        BY <3>1, <3>4
      <4> QED
        BY <4>1, <3>2, <2>1, OneMore
    <3>5. CASE ~ToSend /\ clean'
      <4>1. sent' = sent /\ clean /\ cnt # 0
        BY <3>1, <3>5 DEF ToSend, ForceUpdate
      <4>2. Diff(value, old) <= MinDiff
        BY <3>5, <2>1 DEF ToSend
      <4>3. Diff(sent, old) <= (cnt - 1) * MinDiff
        BY <4>1, <3>2, <2>1 DEF Since
      <4>4. cnt * MinDiff = (cnt - 1) * MinDiff + MinDiff /\ (cnt - 1) * MinDiff \in Nat
        <5>1. cnt - 1 \in Nat /\ (cnt - 1) + 1 = cnt
          BY <4>1, <2>1
        <5> QED
          BY <5>1, OneMore
      <4> QED
        BY <4>1, <4>2, <4>3, <4>4, <3>2, <2>1
    <3> QED
      BY <3>3, <3>4, <3>5
  <2>3. CASE Copy
    <3>1. /\ doing = "copy" /\ doing' = "due"
          /\ old' = value /\ sent' = sent /\ clean' = clean /\ cnt' = (cnt + 1) % Every
      BY <2>3 DEF Copy
    <3>2. Since' = cnt
      BY <3>1, <2>1, NextCnt DEF Since
    <3> QED
      BY <3>1, <3>2
  <2>4. CASE SendState
    BY <2>4 DEF SendState, Since
  <2>5. CASE Reply
    <3>1. /\ doing' = doing /\ old' = old /\ sent' = sent /\ cnt' = cnt
          /\ clean' => clean /\ (doing = "copy" => value' = value)
      BY <2>5 DEF Reply
    <3>2. doing \in {"due", "copy"}
      BY DEF Numbers
    <3> QED
      BY <3>1, <3>2 DEF Since
  <2>6. CASE Poll \/ BmsChanges \/ Json \/ Network
    BY <2>6 DEF Poll, BmsChanges, Json, Network, Since
  <2>7. CASE UNCHANGED publishVars
    BY <2>7 DEF publishVars, Since
  <2> QED
    BY <2>2, <2>3, <2>4, <2>5, <2>6, <2>7 DEF PublishNext, PublishLoop
<1>3. DriftInv => DriftBounded
  BY DEF DriftBounded
<1> QED
  BY <1>1, <1>2, <1>3, NumbersInvariant, PTL DEF PublishSpec

====
