---- MODULE MqttClient ----
(***************************************************************************)
(* The MQTT connection itself: PubSubClient's connect(), loop() and        *)
(* publish() with their keepalive, as processMQTT() and connectMQTT() use  *)
(* them, and the broker's side of it, which is external: a broker that     *)
(* hears nothing from a session for Grace drops it and publishes its will. *)
(*                                                                         *)
(* The will is "offline" on tele/LWT, retained; connectMQTT() publishes    *)
(* "online" there.  The client id is another one at every connect, so that *)
(* the broker does not take a new session for the old one come back.       *)
(*                                                                         *)
(* Bounds: one session at a time is left behind, MaxInbox packets wait in  *)
(* the socket.  loop() reads one of them a pass.                           *)
(***************************************************************************)
EXTENDS Naturals, Sequences

CONSTANTS
    KeepAlive,  \* setKeepAlive()
    Grace,      \* the broker's: one and a half times as long
    MaxPass,    \* longest pass of loop()
    MaxInbox    \* packets in the socket

ASSUME ClientAssumption ==
    /\ KeepAlive \in Nat \ {0} /\ Grace \in Nat /\ Grace >= KeepAlive
    /\ MaxPass \in Nat \ {0} /\ MaxInbox \in Nat \ {0}

VARIABLES
    pc,             \* "pass", "work" in processMQTT(), "idle" and "read" in loop()
    up,             \* connected()
    inAge, outAge,  \* time since lastInActivity, lastOutActivity
    pingOutstanding,
    inbox,          \* what has come in: a "pong" or a "cmd"
    asked,          \* the broker has a ping to answer
    net,            \* the path to the broker works
    deaf,           \* time since it broke down under an open connection
    session,        \* time since the broker heard of it, Gone if it has none
    left,           \* the same for a session the bridge has left behind
    lwt,            \* retained on tele/LWT: "", "online", "offline"
    excused         \* history: since the ping the path was down or somebody was slow

Gone == Grace + 2
ages == <<inAge, outAge>>
broker == <<session, left, lwt>>
vars == <<pc, up, ages, pingOutstanding, inbox, asked, net, deaf, broker, excused>>

TypeOK ==
    /\ pc \in {"pass", "work", "idle", "read"} /\ up \in BOOLEAN
    /\ inAge \in 0..(KeepAlive + MaxPass) /\ outAge \in 0..(KeepAlive + MaxPass)
    /\ pingOutstanding \in BOOLEAN
    /\ inbox \in Seq({"pong", "cmd"}) /\ Len(inbox) <= MaxInbox /\ asked \in BOOLEAN
    /\ net \in BOOLEAN /\ deaf \in Nat
    /\ session \in 0..Gone /\ left \in 0..Gone
    /\ lwt \in {"", "online", "offline"} /\ excused \in BOOLEAN

Init ==
    /\ pc = "pass" /\ up = FALSE /\ inAge = 0 /\ outAge = 0
    /\ pingOutstanding = FALSE /\ inbox = <<>> /\ asked = FALSE
    /\ net \in BOOLEAN /\ deaf = 0
    /\ session = Gone /\ left = Gone /\ lwt = "" /\ excused = FALSE

\* The broker counts no further than it has to.
Older(age, d) == IF age = Gone THEN Gone ELSE IF age + d > Grace THEN Grace + 1 ELSE age + d

\* The connection is no more: what was under way is lost with it.
Closed ==
    /\ up' = FALSE /\ inbox' = <<>> /\ asked' = FALSE
    /\ inAge' = 0 /\ outAge' = 0 /\ deaf' = 0

\* What the client writes reaches the broker, or does not.
Written ==
    /\ outAge' = 0
    /\ session' = IF net /\ session # Gone THEN 0 ELSE session
    /\ UNCHANGED <<left, lwt>>

\* So long that a full inbox is not read in time.
Slow(d) == d * MaxInbox > KeepAlive

----------------------------------------------------------------------------
\* Loop task

\* Time goes by, in what loop() does besides MQTT.
Pass ==
    /\ pc = "pass"
    /\ \E d \in 1..MaxPass :
        /\ inAge' = IF up THEN inAge + d ELSE 0
        /\ outAge' = IF up THEN outAge + d ELSE 0
        /\ deaf' = IF up /\ ~net THEN deaf + d ELSE 0
        /\ session' = Older(session, d) /\ left' = Older(left, d)
        /\ excused' = (excused \/ asked \/ Slow(d))
    /\ pc' = "work"
    /\ UNCHANGED <<up, pingOutstanding, inbox, asked, net, lwt>>

\* connectMQTT(): connect() and "online".  A session the broker still has from before
\* is left behind.
Connect ==
    /\ pc = "work" /\ ~up /\ net
    /\ session = Gone \/ left = Gone
    /\ up' = TRUE /\ inAge' = 0 /\ outAge' = 0
    /\ pingOutstanding' = FALSE
    /\ left' = IF session # Gone THEN session ELSE left
    /\ session' = 0 /\ lwt' = "online"
    /\ pc' = "idle"
    /\ UNCHANGED <<inbox, asked, net, deaf, excused>>

\* Not due, or it fails.
NoConnect ==
    /\ pc = "work" /\ ~up
    /\ pc' = "pass"
    /\ UNCHANGED <<up, ages, pingOutstanding, inbox, asked, net, deaf, broker, excused>>

\* publish(): only what comes in shows that somebody is there.
Publish ==
    /\ pc = "work" /\ up
    /\ Written
    /\ pc' = "idle"
    /\ UNCHANGED <<up, inAge, pingOutstanding, inbox, asked, net, deaf, excused>>

NoPublish ==
    /\ pc = "work" /\ up
    /\ pc' = "idle"
    /\ UNCHANGED <<up, ages, pingOutstanding, inbox, asked, net, deaf, broker, excused>>

\* Mutant: a ping is due when nothing was written for long.
MutIdle == outAge > KeepAlive
Idle == inAge > KeepAlive \/ outAge > KeepAlive

\* Mutant: the client says goodbye, and the broker keeps the will to itself.
MutGiveUp ==
    /\ pc = "idle" /\ up /\ Idle /\ pingOutstanding
    /\ Closed
    /\ session' = IF net THEN Gone ELSE session
    /\ pc' = "pass"
    /\ UNCHANGED <<pingOutstanding, net, left, lwt, excused>>

\* loop(): a ping that was not answered in time closes the connection, before what has
\* come in is looked at.  The broker sees stop(), if it gets there, and tells the will.
GiveUp ==
    /\ pc = "idle" /\ up /\ Idle /\ pingOutstanding
    /\ Closed
    /\ IF net /\ session # Gone
       THEN session' = Gone /\ lwt' = "offline" /\ UNCHANGED left
       ELSE UNCHANGED broker
    /\ pc' = "pass"
    /\ UNCHANGED <<pingOutstanding, net, excused>>

\* Mutant: nobody notes that an answer is due.
MutPing ==
    /\ pc = "idle" /\ up /\ Idle /\ ~pingOutstanding
    /\ Written /\ inAge' = 0
    /\ asked' = TRUE /\ excused' = ~net
    /\ pc' = "read"
    /\ UNCHANGED <<up, pingOutstanding, inbox, net, deaf>>

\* loop(): time for a ping.
Ping ==
    /\ pc = "idle" /\ up /\ Idle /\ ~pingOutstanding
    /\ Written /\ inAge' = 0 /\ pingOutstanding' = TRUE
    /\ asked' = TRUE /\ excused' = ~net
    /\ pc' = "read"
    /\ UNCHANGED <<up, inbox, net, deaf>>

NoPing ==
    /\ pc = "idle" /\ up /\ ~Idle
    /\ pc' = "read"
    /\ UNCHANGED <<up, ages, pingOutstanding, inbox, asked, net, deaf, broker, excused>>

\* connected() finds the socket closed.
NotUp ==
    /\ pc \in {"idle", "read"} /\ ~up
    /\ pc' = "pass"
    /\ UNCHANGED <<up, ages, pingOutstanding, inbox, asked, net, deaf, broker, excused>>

\* Mutant: no packet answers the ping.
MutRead ==
    /\ pc = "read" /\ up
    /\ IF inbox = <<>>
       THEN UNCHANGED <<inbox, inAge>>
       ELSE inbox' = Tail(inbox) /\ inAge' = 0
    /\ pc' = "pass"
    /\ UNCHANGED <<up, outAge, pingOutstanding, asked, net, deaf, broker, excused>>

\* loop(): one packet, if there is one.
Read ==
    /\ pc = "read" /\ up
    /\ IF inbox = <<>>
       THEN UNCHANGED <<inbox, inAge, pingOutstanding>>
       ELSE /\ inbox' = Tail(inbox) /\ inAge' = 0
            /\ pingOutstanding' = (pingOutstanding /\ Head(inbox) # "pong")
    /\ pc' = "pass"
    /\ UNCHANGED <<up, outAge, asked, net, deaf, broker, excused>>

LoopTask == Pass \/ Connect \/ NoConnect \/ Publish \/ NoPublish
              \/ GiveUp \/ Ping \/ NoPing \/ NotUp \/ Read

----------------------------------------------------------------------------
\* Broker and path

\* A ping that has got there is answered.
Answer ==
    /\ asked /\ net /\ session # Gone /\ Len(inbox) < MaxInbox
    /\ asked' = FALSE /\ inbox' = Append(inbox, "pong")
    /\ UNCHANGED <<pc, up, ages, pingOutstanding, net, deaf, broker, excused>>

\* Somebody publishes on a topic the bridge has subscribed to.
Command ==
    /\ up /\ net /\ session # Gone /\ Len(inbox) < MaxInbox - 1
    /\ inbox' = Append(inbox, "cmd")
    /\ UNCHANGED <<pc, up, ages, pingOutstanding, asked, net, deaf, broker, excused>>

\* Nothing heard for Grace: the broker drops the session and publishes its will.
Expire ==
    /\ \/ session = Grace + 1 /\ session' = Gone /\ UNCHANGED left
       \/ left = Grace + 1 /\ left' = Gone /\ UNCHANGED session
    /\ lwt' = "offline"
    /\ UNCHANGED <<pc, up, ages, pingOutstanding, inbox, asked, net, deaf, excused>>

\* ... and closes its end of the connection.
Hangup ==
    /\ up /\ net /\ session = Gone
    /\ Closed
    /\ UNCHANGED <<pc, pingOutstanding, net, broker, excused>>

\* The path breaks down, and what is on its way is lost with it, or works again.
NetChanges ==
    /\ net' = ~net
    /\ asked' = FALSE
    /\ deaf' = 0
    /\ excused' = TRUE
    /\ UNCHANGED <<pc, up, ages, pingOutstanding, inbox, broker>>

\* The watchdog reboots the ESP.  The broker is not told.
Restart ==
    /\ pc = "pass"
    /\ Closed /\ pingOutstanding' = FALSE
    /\ UNCHANGED <<pc, net, broker, excused>>

Next == LoopTask \/ Answer \/ Command \/ Expire \/ Hangup \/ NetChanges \/ Restart

\* The loop task runs, and the broker keeps its own rules.
Spec == Init /\ [][Next]_vars /\ WF_vars(LoopTask) /\ WF_vars(Expire) /\ WF_vars(Hangup)

----------------------------------------------------------------------------
\* Properties

\* loop() gives a connection up only for a reason: since the ping the path was down,
\* the broker took longer than a pass to answer, or a pass was slow.  A pong that has
\* come is not overlooked, however it falls between commands, publishes and passes.
NotGivenUp == [][pc = "idle" /\ up /\ ~up' /\ pc' = "pass" => excused]_vars

\* A path that is dead is noticed in bounded time, although publish() goes on writing
\* into it: a keepalive to the ping and one to the end of it, each noticed in the pass
\* that exceeds it, and a pass for every packet that is left in the socket, unless
\* that pass is long enough for a ping.
DeadNoticed ==
    LET aPacket == IF KeepAlive < MaxPass THEN KeepAlive ELSE MaxPass
    IN deaf <= 2 * (KeepAlive + MaxPass) + MaxInbox * aPacket

\* A bridge that is gone for good is told "offline", however it went: given up, cut off,
\* hung up on or rebooted, with another session left behind or not.
WillTold == <>[]~up => <>[](lwt # "online")

\* "LWT online message must be retained!" (connectMQTT()): while the bridge stays
\* connected, the broker has "online" for whoever subscribes.  A session left behind
\* refutes it (README, divergences).
OnlineWhileUp == <>[](up /\ net) => <>[](lwt = "online")

====
