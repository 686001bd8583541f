---- MODULE Wakeup ----
(***************************************************************************)
(* Wakeup() (main.cpp): a command turns the wakeup output over, loop()     *)
(* turns it back when WAKEUP_DURATION has passed.  A command comes by MQTT *)
(* in the loop task, or by web socket or HTTP in the async_tcp task, which *)
(* may run between any two statements of the other: turning the output     *)
(* over and keeping the time are two stores, and the end of a pulse, which *)
(* the task of a command looks for too, is a test and two stores.          *)
(*                                                                         *)
(* Time is kept as the age of lastWakeup, which matters while it is not 0. *)
(***************************************************************************)
EXTENDS Naturals

CONSTANTS
    Duration,   \* WAKEUP_DURATION
    LongestPass \* longest pass of loop()

ASSUME WakeupAssumption == Duration \in Nat /\ LongestPass \in Nat \ {0}

VARIABLES
    pin,        \* the output is not at the level of its rest
    lastWakeup, \* FALSE for 0: no pulse to end
    pulseAge,   \* millis() - lastWakeup
    loop,       \* loop task: "pass" elsewhere, "check", "toggle", "clear" in
                \* Wakeup(false), "stamp" in Wakeup(true)
    web,        \* async_tcp task: "idle", "stamp", "check", "toggle", "clear" in Wakeup(true)
    overlapped  \* history: a command has come before the pulse of the last was over,
                \* or both tasks have set out to end the same one

wakeupVars == <<pin, lastWakeup, pulseAge, loop, web, overlapped>>

WakeupTypeOK ==
    /\ pin \in BOOLEAN /\ lastWakeup \in BOOLEAN /\ pulseAge \in 0..(Duration + LongestPass)
    /\ loop \in {"pass", "check", "toggle", "clear", "stamp"}
    /\ web \in {"idle", "stamp", "check", "toggle", "clear"} /\ overlapped \in BOOLEAN

WakeupInit ==
    /\ pin = FALSE /\ lastWakeup = FALSE /\ pulseAge = 0
    /\ loop = "pass" /\ web = "idle" /\ overlapped = FALSE

\* No pulse has begun or is being ended.
Calm == ~lastWakeup /\ loop \in {"pass", "check"} /\ web = "idle"

----------------------------------------------------------------------------
\* Loop task

\* The rest of loop() takes time.
WakeupPass ==
    /\ loop = "pass"
    /\ \E d \in 1..LongestPass : pulseAge' = IF lastWakeup THEN pulseAge + d ELSE 0
    /\ loop' = "check"
    /\ UNCHANGED <<pin, lastWakeup, web, overlapped>>

Over == lastWakeup /\ pulseAge > Duration

Check ==
    /\ loop = "check"
    /\ loop' = IF Over THEN "toggle" ELSE "pass"
    /\ overlapped' = (overlapped \/ (Over /\ web \in {"toggle", "clear"}))
    /\ UNCHANGED <<pin, lastWakeup, pulseAge, web>>

Toggle ==
    /\ loop = "toggle"
    /\ pin' = ~pin
    /\ loop' = "clear"
    /\ UNCHANGED <<lastWakeup, pulseAge, web, overlapped>>

\* Mutant: lastWakeup is not cleared.
MutClear ==
    /\ loop = "clear"
    /\ loop' = "pass"
    /\ UNCHANGED <<pin, lastWakeup, pulseAge, web, overlapped>>

Clear ==
    /\ loop = "clear"
    /\ lastWakeup' = FALSE /\ pulseAge' = 0
    /\ loop' = "pass"
    /\ UNCHANGED <<pin, web, overlapped>>

\* cmnd/wakeup: processMQTT() is part of the pass.
MqttWakeup ==
    /\ loop = "pass"
    /\ pin' = ~pin
    /\ loop' = "stamp"
    /\ overlapped' = (overlapped \/ ~Calm)
    /\ UNCHANGED <<lastWakeup, pulseAge, web>>

\* Just stamped is not over, so the second half of Wakeup() has nothing to do.
MqttStamp ==
    /\ loop = "stamp"
    /\ lastWakeup' = TRUE /\ pulseAge' = 0
    /\ loop' = "pass"
    /\ UNCHANGED <<pin, web, overlapped>>

WakeupLoop == WakeupPass \/ Check \/ Toggle \/ Clear \/ MqttStamp

----------------------------------------------------------------------------
\* async_tcp task: wakebms, /set?bmswakeup

WebWakeup ==
    /\ web = "idle"
    /\ pin' = ~pin
    /\ web' = "stamp"
    /\ overlapped' = (overlapped \/ ~Calm)
    /\ UNCHANGED <<lastWakeup, pulseAge, loop>>

\* Mutant: the time is not kept.
MutWebStamp ==
    /\ web = "stamp"
    /\ web' = "idle"
    /\ UNCHANGED <<pin, lastWakeup, pulseAge, loop, overlapped>>

WebStamp ==
    /\ web = "stamp"
    /\ lastWakeup' = TRUE /\ pulseAge' = 0
    /\ web' = "check"
    /\ UNCHANGED <<pin, loop, overlapped>>

\* The second half of Wakeup(true): passes of loop() may have gone by.
WebCheck ==
    /\ web = "check"
    /\ web' = IF Over THEN "toggle" ELSE "idle"
    /\ overlapped' = (overlapped \/ (Over /\ loop \in {"toggle", "clear"}))
    /\ UNCHANGED <<pin, lastWakeup, pulseAge, loop>>

WebToggle ==
    /\ web = "toggle"
    /\ pin' = ~pin
    /\ web' = "clear"
    /\ UNCHANGED <<lastWakeup, pulseAge, loop, overlapped>>

WebClear ==
    /\ web = "clear"
    /\ lastWakeup' = FALSE /\ pulseAge' = 0
    /\ web' = "idle"
    /\ UNCHANGED <<pin, loop, overlapped>>

WebTask == WebStamp \/ WebCheck \/ WebToggle \/ WebClear

WakeupNext == WakeupLoop \/ MqttWakeup \/ WebWakeup \/ WebTask

WakeupSpec == WakeupInit /\ [][WakeupNext]_wakeupVars /\ WF_wakeupVars(WakeupLoop) /\ WF_wakeupVars(WebTask)

----------------------------------------------------------------------------
\* Properties

\* "Wakeup deactivated!": with no pulse pending the output is at rest, unless two
\* pulses have overlapped, or one was ended twice: the last end then turns the output
\* the wrong way (Wakeup()).
PinRestored == Calm /\ ~overlapped => ~pin

\* Every pulse ends by itself, unless a command comes into it.
PulseEnds == pin ~> ~pin \/ overlapped

====
