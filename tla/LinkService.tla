---- MODULE LinkService ----
(***************************************************************************)
(* What the BLE link of JbdBms amounts to for those who use it: process(), *)
(* processMQTT() and the web pages look at connected and call setup(), and *)
(* know nothing of clients, scan results, retries and callbacks.           *)
(*                                                                         *)
(* It is not all a user could wish for.  A wait for a scan may go on when  *)
(* the scan is over, and the BMS may count as connected over no link.      *)
(*                                                                         *)
(* BmsLink implements this; Bridge composes it with the MQTT session.      *)
(***************************************************************************)

VARIABLES
    phase,      \* what the two flags, the link and the scanner amount to
    user,       \* the loop task: "free", "waiting" in setup() or "trying" in connect()
    inRange     \* the BMS advertises within reach

vars == <<phase, user, inRange>>

\* "quiet": nobody looks for the BMS.  "scanning": the scanner does.  "wanted": it was
\* found and process() is to connect.  "served": it is connected.  "hollow": it counts
\* as connected and the link is gone; whether the scanner runs cannot be seen.
Phases == {"quiet", "scanning", "wanted", "served", "hollow"}

TypeOK == phase \in Phases /\ user \in {"free", "waiting", "trying"} /\ inRange \in BOOLEAN

Init == phase = "scanning" /\ user = "waiting" /\ inRange \in BOOLEAN

\* The user calls setup() for want of a connection, and waits for a scan.
Setup ==
    /\ user = "free" /\ user' = "waiting"
    /\ \/ phase = "quiet" /\ phase' = "scanning"
       \/ phase \in {"scanning", "wanted"} /\ phase' = phase
    /\ UNCHANGED inRange

\* onDisconnect() scans again.
Scan == phase = "quiet" /\ phase' = "scanning" /\ UNCHANGED <<user, inRange>>

\* A scan that is over releases a user who waits, or the user misses it.
Over == user' = user \/ (user = "waiting" /\ user' = "free")

\* A scan finds what is there.
Find ==
    /\ phase \in {"scanning", "hollow"} /\ inRange
    /\ phase' = "wanted" /\ Over
    /\ UNCHANGED inRange

\* The scan runs out.
GiveUp == phase = "scanning" /\ phase' = "quiet" /\ Over /\ UNCHANGED inRange
Return ==
    /\ phase = "wanted" /\ user = "waiting"
    /\ user' = "free"
    /\ UNCHANGED <<phase, inRange>>

\* connect() is entered for a BMS that was found, and left by either end: the flag is
\* set, over the link or too late for it, or it is not.  Its attempts stop a scan.
Try == phase = "wanted" /\ user = "free" /\ user' = "trying" /\ UNCHANGED <<phase, inRange>>
Serve == user = "trying" /\ user' = "free" /\ phase' = "served" /\ UNCHANGED inRange
Wedge == user = "trying" /\ user' = "free" /\ phase' = "hollow" /\ UNCHANGED inRange
Fail ==
    /\ user = "trying" /\ user' = "free"
    /\ phase' = phase \/ (phase = "scanning" /\ phase' = "quiet")
    /\ UNCHANGED inRange

\* The link goes down, or is given up: the scanner is not running, or already is
\* again.  What was found before has to be found again.
Lose ==
    /\ phase \in {"wanted", "served", "hollow"}
    /\ phase' \in {"quiet", "scanning"}
    /\ UNCHANGED <<user, inRange>>

\* The ESP restarts, or does not survive something.
Boot == phase' = "scanning" /\ user' = "waiting" /\ UNCHANGED inRange

Move == inRange' = ~inRange /\ UNCHANGED <<phase, user>>

Next == Setup \/ Scan \/ Find \/ GiveUp \/ Return \/ Try \/ Serve \/ Wedge \/ Fail
          \/ Lose \/ Boot \/ Move

\* A BMS that stays in reach is served again and again, provided that the user is not
\* left waiting for a scan that is over, and that somebody gets the scanner going again
\* and again, which nobody does as long as the BMS counts as connected.  And connect()
\* always comes to an end.  (No fairness of actions: what the implementation does to
\* phase is not one action of its own.)
Live ==
    /\ /\ <>[]inRange
       /\ []<>(user # "waiting")
       /\ []<>(phase \notin {"quiet", "hollow"})
       => []<>(phase = "served")
    /\ []<>(user # "trying")

Spec == Init /\ [][Next]_vars /\ Live

====
