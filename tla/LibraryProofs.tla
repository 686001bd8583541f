---- MODULE LibraryProofs ----
(***************************************************************************)
(* Proofs about the two libraries loop() waits in.  MqttClient, for every  *)
(* keepalive, inbox and pass of loop(): types are kept, a dead path is     *)
(* given up in bounded time, a path that works is not.  ScanWait, however  *)
(* loop task and host task interleave: types are kept, and there is one    *)
(* way only to wait for a scan that is over.                               *)
(***************************************************************************)
EXTENDS MqttClient, ScanWait, TLAPS

----------------------------------------------------------------------------
\* MqttClient

\* The types, in parts.
Flags ==
    /\ pc \in {"pass", "work", "idle", "read"} /\ up \in BOOLEAN
    /\ pingOutstanding \in BOOLEAN /\ asked \in BOOLEAN /\ net \in BOOLEAN
    /\ lwt \in {"", "online", "offline"} /\ excused \in BOOLEAN
Counts ==
    /\ inAge \in 0..(KeepAlive + MaxPass) /\ outAge \in 0..(KeepAlive + MaxPass)
    /\ deaf \in Nat /\ session \in 0..Gone /\ left \in 0..Gone
Mail == inbox \in Seq({"pong", "cmd"}) /\ Len(inbox) <= MaxInbox

\* Without a connection its clocks stand still and nothing is under way; between passes
\* no clock is beyond the keepalive.
Clocks ==
    /\ ~up => inAge = 0 /\ outAge = 0 /\ inbox = <<>> /\ ~asked /\ deaf = 0
    /\ net => deaf = 0
    /\ pc \in {"pass", "read"} => inAge <= KeepAlive /\ outAge <= KeepAlive

\* The steps keep the types, part by part, and the clocks.
LEMMA FlagsStep ==
    ASSUME Flags, [Next]_vars
    PROVE  Flags'
<1> USE DEF Flags, ages, broker
<1>1. CASE Pass
  BY <1>1, Zenon DEF Pass, Older
<1>2. CASE Connect
  BY <1>2, Zenon DEF Connect
<1>3. CASE NoConnect
  BY <1>3, Zenon DEF NoConnect
<1>4. CASE Publish
  BY <1>4, Zenon DEF Publish, Written
<1>5. CASE NoPublish
  BY <1>5, Zenon DEF NoPublish
<1>6. CASE GiveUp
  BY <1>6, Zenon DEF GiveUp, Closed
<1>7. CASE Ping
  BY <1>7, Zenon DEF Ping, Written
<1>8. CASE NoPing
  BY <1>8, Zenon DEF NoPing
<1>9. CASE NotUp
  BY <1>9, Zenon DEF NotUp
<1>10. CASE Read
  BY <1>10, Zenon DEF Read
<1>11. CASE Answer
  BY <1>11, Zenon DEF Answer
<1>12. CASE Command
  BY <1>12, Zenon DEF Command
<1>13. CASE Expire
  BY <1>13, Zenon DEF Expire
<1>14. CASE Hangup
  BY <1>14, Zenon DEF Hangup, Closed
<1>15. CASE NetChanges
  BY <1>15, Zenon DEF NetChanges
<1>16. CASE Restart
  BY <1>16, Zenon DEF Restart, Closed
<1>17. CASE UNCHANGED vars
  BY <1>17, Zenon DEF vars
<1> QED
  BY <1>1, <1>2, <1>3, <1>4, <1>5, <1>6, <1>7, <1>8, <1>9, <1>10,
     <1>11, <1>12, <1>13, <1>14, <1>15, <1>16, <1>17, Zenon DEF Next, LoopTask

LEMMA CountsStep ==
    ASSUME Flags, Counts, Clocks, [Next]_vars
    PROVE  Counts'
<1> USE ClientAssumption DEF Counts, Clocks, ages, broker, Gone, ClientAssumption
<1>1. CASE Pass
  BY <1>1 DEF Pass, Older
<1>2. CASE Connect
  BY <1>2 DEF Connect
<1>3. CASE NoConnect
  BY <1>3 DEF NoConnect
<1>4. CASE Publish
  BY <1>4 DEF Publish, Written
<1>5. CASE NoPublish
  BY <1>5 DEF NoPublish
<1>6. CASE GiveUp
  BY <1>6 DEF GiveUp, Closed
<1>7. CASE Ping
  BY <1>7 DEF Ping, Written
<1>8. CASE NoPing
  BY <1>8 DEF NoPing
<1>9. CASE NotUp
  BY <1>9 DEF NotUp
<1>10. CASE Read
  BY <1>10 DEF Read
<1>11. CASE Answer
  BY <1>11 DEF Answer
<1>12. CASE Command
  BY <1>12 DEF Command
<1>13. CASE Expire
  BY <1>13 DEF Expire
<1>14. CASE Hangup
  BY <1>14 DEF Hangup, Closed
<1>15. CASE NetChanges
  BY <1>15 DEF NetChanges
<1>16. CASE Restart
  BY <1>16 DEF Restart, Closed
<1>17. CASE UNCHANGED vars
  BY <1>17 DEF vars
<1> QED
  BY <1>1, <1>2, <1>3, <1>4, <1>5, <1>6, <1>7, <1>8, <1>9, <1>10,
     <1>11, <1>12, <1>13, <1>14, <1>15, <1>16, <1>17, Zenon DEF Next, LoopTask

LEMMA MailStep ==
    ASSUME Mail, [Next]_vars
    PROVE  Mail'
<1> USE ClientAssumption DEF Mail, ages, broker, ClientAssumption
<1>1. CASE Pass
  BY <1>1 DEF Pass, Older
<1>2. CASE Connect
  BY <1>2 DEF Connect
<1>3. CASE NoConnect
  BY <1>3 DEF NoConnect
<1>4. CASE Publish
  BY <1>4 DEF Publish, Written
<1>5. CASE NoPublish
  BY <1>5 DEF NoPublish
<1>6. CASE GiveUp
  BY <1>6 DEF GiveUp, Closed
<1>7. CASE Ping
  BY <1>7 DEF Ping, Written
<1>8. CASE NoPing
  BY <1>8 DEF NoPing
<1>9. CASE NotUp
  BY <1>9 DEF NotUp
<1>10. CASE Read
  BY <1>10 DEF Read
<1>11. CASE Answer
  BY <1>11 DEF Answer
<1>12. CASE Command
  BY <1>12 DEF Command
<1>13. CASE Expire
  BY <1>13 DEF Expire
<1>14. CASE Hangup
  BY <1>14 DEF Hangup, Closed
<1>15. CASE NetChanges
  BY <1>15 DEF NetChanges
<1>16. CASE Restart
  BY <1>16 DEF Restart, Closed
<1>17. CASE UNCHANGED vars
  BY <1>17 DEF vars
<1> QED
  BY <1>1, <1>2, <1>3, <1>4, <1>5, <1>6, <1>7, <1>8, <1>9, <1>10,
     <1>11, <1>12, <1>13, <1>14, <1>15, <1>16, <1>17, Zenon DEF Next, LoopTask

LEMMA ClocksStep ==
    ASSUME Flags, Counts, Mail, Clocks, [Next]_vars
    PROVE  Clocks'
<1> USE ClientAssumption DEF Clocks, Counts, ages, broker, ClientAssumption
<1>1. CASE Pass
  BY <1>1 DEF Pass, Older
<1>2. CASE Connect
  BY <1>2 DEF Connect
<1>3. CASE NoConnect
  BY <1>3 DEF NoConnect
<1>4. CASE Publish
  BY <1>4 DEF Publish, Written
<1>5. CASE NoPublish
  BY <1>5 DEF NoPublish
<1>6. CASE GiveUp
  BY <1>6 DEF GiveUp, Closed
<1>7. CASE Ping
  BY <1>7 DEF Ping, Written
<1>8. CASE NoPing
  BY <1>8 DEF NoPing, Idle
<1>9. CASE NotUp
  BY <1>9 DEF NotUp
<1>10. CASE Read
  BY <1>10 DEF Read
<1>11. CASE Answer
  BY <1>11 DEF Answer
<1>12. CASE Command
  BY <1>12 DEF Command
<1>13. CASE Expire
  BY <1>13 DEF Expire
<1>14. CASE Hangup
  BY <1>14 DEF Hangup, Closed
<1>15. CASE NetChanges
  BY <1>15 DEF NetChanges
<1>16. CASE Restart
  BY <1>16 DEF Restart, Closed
<1>17. CASE UNCHANGED vars
  BY <1>17 DEF vars
<1> QED
  BY <1>1, <1>2, <1>3, <1>4, <1>5, <1>6, <1>7, <1>8, <1>9, <1>10,
     <1>11, <1>12, <1>13, <1>14, <1>15, <1>16, <1>17, Zenon DEF Next, LoopTask

\* Where the pongs lie, in an inbox that a packet comes into or is read from.
Pongs(s) == {i \in 1..Len(s) : s[i] = "pong"}

LEMMA PongsAppended ==
    ASSUME NEW s \in Seq({"pong", "cmd"})
    PROVE  /\ Pongs(Append(s, "cmd")) = Pongs(s)
           /\ Pongs(Append(s, "pong")) = Pongs(s) \cup {Len(s) + 1}
<1> USE DEF Pongs
<1>1. ASSUME NEW x \in {"pong", "cmd"}
      PROVE  /\ Len(Append(s, x)) = Len(s) + 1
             /\ Append(s, x)[Len(s) + 1] = x
             /\ \A i \in 1..Len(s) : Append(s, x)[i] = s[i]
  OBVIOUS
<1> QED
  BY <1>1

LEMMA PongsRead ==
    ASSUME NEW s \in Seq({"pong", "cmd"}), s # <<>>
    PROVE  /\ \A i \in Nat : i \in Pongs(Tail(s)) <=> i >= 1 /\ i + 1 \in Pongs(s)
           /\ 1 \in Pongs(s) <=> Head(s) = "pong"
           /\ Len(Tail(s)) = Len(s) - 1 /\ Len(s) >= 1
<1>1. Len(Tail(s)) = Len(s) - 1 /\ Len(s) \in Nat /\ Len(s) >= 1
  OBVIOUS
<1>2. \A i \in 1..(Len(s) - 1) : Tail(s)[i] = s[i + 1]
  OBVIOUS
<1>3. Head(s) = s[1]
  OBVIOUS
<1> QED
  BY <1>1, <1>2, <1>3 DEF Pongs

\* One ping at a time, and one pong: while the ping is on its way, or its pong is, an
\* answer is due.
OnePong ==
    /\ asked => pingOutstanding
    /\ \A i \in Pongs(inbox) : pingOutstanding /\ ~asked
    /\ \A i, j \in Pongs(inbox) : i = j

LEMMA OnePongStep ==
    ASSUME Flags, Mail, Clocks, OnePong, [Next]_vars
    PROVE  OnePong'
<1> USE DEF OnePong, ages, broker
<1>1. CASE Pass
  BY <1>1, Zenon DEF Pass, Older
<1>2. CASE Connect
  <2>1. inbox' = <<>> /\ ~asked'
    BY <1>2, Zenon DEF Connect, Clocks
  <2>2. Pongs(inbox') = {}
    BY <2>1 DEF Pongs
  <2> QED
    BY <2>1, <2>2, Zenon
<1>3. CASE NoConnect
  BY <1>3, Zenon DEF NoConnect
<1>4. CASE Publish
  BY <1>4, Zenon DEF Publish, Written
<1>5. CASE NoPublish
  BY <1>5, Zenon DEF NoPublish
<1>6. CASE GiveUp
  <2>1. inbox' = <<>> /\ ~asked'
    BY <1>6, Zenon DEF GiveUp, Closed, Clocks
  <2>2. Pongs(inbox') = {}
    BY <2>1 DEF Pongs
  <2> QED
    BY <2>1, <2>2, Zenon
<1>7. CASE Ping
  <2>1. inbox' = inbox /\ asked' /\ pingOutstanding' /\ ~pingOutstanding
    BY <1>7, Zenon DEF Ping
  <2> QED
    BY <2>1, Zenon
<1>8. CASE NoPing
  BY <1>8, Zenon DEF NoPing
<1>9. CASE NotUp
  BY <1>9, Zenon DEF NotUp
<1>10. CASE Read
  <2>1. CASE inbox = <<>>
    BY <1>10, <2>1 DEF Read
  <2>2. CASE inbox # <<>>
    <3>1. inbox' = Tail(inbox) /\ asked' = asked
      BY <1>10, <2>2 DEF Read
    <3>2. pingOutstanding' <=> pingOutstanding /\ Head(inbox) # "pong"
      BY <1>10, <2>2, Zenon DEF Read
    <3> HIDE DEF Pongs
    <3>3. \A i \in Pongs(inbox') : i \in Nat /\ i >= 1 /\ i + 1 \in Pongs(inbox)
      BY <3>1, <2>2, PongsRead DEF Pongs, Mail
    <3> QED
      BY <3>1, <3>2, <3>3, <2>2, PongsRead DEF Mail
  <2> QED
    BY <2>1, <2>2
<1>11. CASE Answer
  <2>1. Pongs(inbox') = Pongs(inbox) \cup {Len(inbox) + 1}
    BY <1>11, PongsAppended DEF Answer, Mail
  <2> QED
    BY <1>11, <2>1, Zenon DEF Answer
<1>12. CASE Command
  <2>1. Pongs(inbox') = Pongs(inbox)
    BY <1>12, PongsAppended DEF Command, Mail
  <2> QED
    BY <1>12, <2>1, Zenon DEF Command
<1>13. CASE Expire
  BY <1>13, Zenon DEF Expire
<1>14. CASE Hangup
  <2>1. inbox' = <<>> /\ ~asked'
    BY <1>14, Zenon DEF Hangup, Closed, Clocks
  <2>2. Pongs(inbox') = {}
    BY <2>1 DEF Pongs
  <2> QED
    BY <2>1, <2>2, Zenon
<1>15. CASE NetChanges
  BY <1>15, Zenon DEF NetChanges
<1>16. CASE Restart
  <2>1. inbox' = <<>> /\ ~asked'
    BY <1>16, Zenon DEF Restart, Closed, Clocks
  <2>2. Pongs(inbox') = {}
    BY <2>1 DEF Pongs
  <2> QED
    BY <2>1, <2>2, Zenon
<1>17. CASE UNCHANGED vars
  BY <1>17, Zenon DEF vars
<1> QED
  BY <1>1, <1>2, <1>3, <1>4, <1>5, <1>6, <1>7, <1>8, <1>9, <1>10,
     <1>11, <1>12, <1>13, <1>14, <1>15, <1>16, <1>17, Zenon DEF Next, LoopTask

\* How long a path may have been dead: what the ping has waited, a keepalive less than a
\* pass for every packet that was read since, and this pass.
APacket == IF KeepAlive < MaxPass THEN KeepAlive ELSE MaxPass
Waited(ping, s) == IF ping /\ Pongs(s) = {} THEN KeepAlive + MaxPass ELSE 0
Turns(s) == (MaxInbox - Len(s)) * APacket
ThisPass(s, place, age) ==
    IF s = <<>> THEN age
    ELSE IF place = "pass" THEN 0
    ELSE IF age < MaxPass THEN age ELSE MaxPass

DeafFor ==
    deaf <= Waited(pingOutstanding, inbox) + Turns(inbox) + ThisPass(inbox, pc, inAge)

LEMMA TurnsLeft ==
    ASSUME NEW s \in Seq({"pong", "cmd"}), Len(s) <= MaxInbox
    PROVE  /\ APacket \in Nat /\ APacket <= MaxPass /\ APacket <= KeepAlive
           /\ Turns(s) \in Nat /\ Turns(s) <= MaxInbox * APacket
           /\ s = <<>> => Turns(s) = MaxInbox * APacket
           /\ s # <<>> => Turns(Tail(s)) = Turns(s) + APacket
<1>1. APacket \in Nat /\ APacket <= MaxPass /\ APacket <= KeepAlive
  BY ClientAssumption DEF APacket, ClientAssumption
<1>2. \A k, a \in Nat : k * a \in Nat /\ (k + 1) * a = k * a + a
  OBVIOUS
<1>3. \A k, m, a \in Nat : k <= m => k * a <= m * a
  OBVIOUS
<1>4. Len(s) \in Nat /\ MaxInbox \in Nat
  BY ClientAssumption DEF ClientAssumption
<1>5. MaxInbox - Len(s) \in Nat /\ MaxInbox - Len(s) <= MaxInbox
  BY <1>4
<1>6. Turns(s) \in Nat /\ Turns(s) <= MaxInbox * APacket
  <2> DEFINE r == MaxInbox - Len(s)
  <2>1. r * APacket \in Nat
    BY <1>1, <1>2, <1>5
  <2>2. r * APacket <= MaxInbox * APacket
    BY <1>1, <1>3, <1>4, <1>5
  <2> QED
    BY <2>1, <2>2 DEF Turns
<1>7. ASSUME s = <<>> PROVE Turns(s) = MaxInbox * APacket
  <2>1. MaxInbox - Len(s) = MaxInbox
    BY <1>7, <1>4
  <2> QED
    BY <2>1 DEF Turns
<1>8. ASSUME s # <<>> PROVE Turns(Tail(s)) = Turns(s) + APacket
  <2>1. MaxInbox - Len(Tail(s)) = (MaxInbox - Len(s)) + 1
    BY <1>8, <1>4
  <2> QED
    BY <2>1, <1>1, <1>2, <1>5 DEF Turns
<1> QED
  BY <1>1, <1>6, <1>7, <1>8

\* A path that works, or a connection that is closed, leaves nothing to be deaf to.
LEMMA Heard ==
    ASSUME Counts', Mail', deaf' = 0 PROVE DeafFor'
<1>1. Turns(inbox') \in Nat
  BY TurnsLeft DEF Mail
<1>2. Waited(pingOutstanding', inbox') \in Nat
  BY ClientAssumption DEF Waited, ClientAssumption
<1>3. ThisPass(inbox', pc', inAge') \in Nat
  BY ClientAssumption DEF ThisPass, Counts, ClientAssumption
<1> QED
  BY <1>1, <1>2, <1>3 DEF DeafFor

LEMMA DeafStep ==
    ASSUME Flags, Counts, Mail, Clocks, OnePong, DeafFor,
           Counts', Mail', [Next]_vars
    PROVE  DeafFor'
<1> USE DEF ages, broker
<1>1. CASE Pass
  <2>1. CASE ~(up /\ ~net)
    <3>1. deaf' = 0
      BY <1>1, <2>1 DEF Pass
    <3> QED
      BY <3>1, Heard
  <2>2. CASE up /\ ~net
    <3>1. PICK d \in 1..MaxPass : inAge' = inAge + d /\ deaf' = deaf + d
      BY <1>1, <2>2 DEF Pass
    <3>2. /\ pc = "pass" /\ pc' = "work"
          /\ pingOutstanding' = pingOutstanding /\ inbox' = inbox
      BY <1>1 DEF Pass
    <3>3. ThisPass(inbox, pc', inAge') >= ThisPass(inbox, pc, inAge) + d
      BY <3>1, <3>2, ClientAssumption DEF ThisPass, Counts, ClientAssumption
    <3>4. /\ ThisPass(inbox, pc, inAge) \in Nat /\ ThisPass(inbox, pc', inAge') \in Nat
          /\ Waited(pingOutstanding, inbox) \in Nat
      BY <3>1, <3>2, ClientAssumption DEF ThisPass, Waited, Counts, ClientAssumption
    <3>5. Turns(inbox) \in Nat
      BY TurnsLeft DEF Mail
    <3> QED
      BY <3>1, <3>2, <3>3, <3>4, <3>5 DEF DeafFor, Counts
  <2> QED
    BY <2>1, <2>2
<1>2. CASE Connect
  <2>1. deaf' = 0
    BY <1>2, Zenon DEF Connect, Clocks
  <2> QED
    BY <2>1, Heard
<1>3. CASE NoConnect
  <2>1. deaf' = 0
    BY <1>3, Zenon DEF NoConnect, Clocks
  <2> QED
    BY <2>1, Heard
<1>4. CASE Publish
  <2>1. /\ pc # "pass" /\ pc' # "pass"
        /\ UNCHANGED <<deaf, pingOutstanding, inbox, inAge>>
    BY <1>4, Zenon DEF Publish, ages
  <2>2. ThisPass(inbox, pc', inAge) = ThisPass(inbox, pc, inAge)
    BY <2>1, Zenon DEF ThisPass
  <2> QED
    BY <2>1, <2>2 DEF DeafFor
<1>5. CASE NoPublish
  <2>1. /\ pc # "pass" /\ pc' # "pass"
        /\ UNCHANGED <<deaf, pingOutstanding, inbox, inAge>>
    BY <1>5, Zenon DEF NoPublish, ages
  <2>2. ThisPass(inbox, pc', inAge) = ThisPass(inbox, pc, inAge)
    BY <2>1, Zenon DEF ThisPass
  <2> QED
    BY <2>1, <2>2 DEF DeafFor
<1>6. CASE GiveUp
  <2>1. deaf' = 0
    BY <1>6, Zenon DEF GiveUp, Closed, Clocks
  <2> QED
    BY <2>1, Heard
<1>7. CASE Ping
  <2>1. /\ UNCHANGED <<deaf, inbox>> /\ pc = "idle" /\ pc' = "read" /\ inAge' = 0
        /\ ~pingOutstanding /\ pingOutstanding'
    BY <1>7, Zenon DEF Ping
  <2>2. Pongs(inbox) = {}
    BY <2>1, Zenon DEF OnePong
  <2>3. /\ Waited(pingOutstanding, inbox) = 0
        /\ Waited(pingOutstanding', inbox') = KeepAlive + MaxPass
    BY <2>1, <2>2, Zenon DEF Waited
  <2>4. /\ ThisPass(inbox, pc, inAge) \in 0..(KeepAlive + MaxPass)
        /\ ThisPass(inbox', pc', inAge') = 0
    BY <2>1, ClientAssumption DEF ThisPass, Counts, ClientAssumption
  <2>5. Turns(inbox) \in Nat
    BY TurnsLeft DEF Mail
  <2>6. deaf <= Turns(inbox) + ThisPass(inbox, pc, inAge)
    BY <2>3, <2>4, <2>5 DEF DeafFor
  <2>7. deaf' <= KeepAlive + MaxPass + Turns(inbox')
    BY <2>1, <2>4, <2>5, <2>6, ClientAssumption DEF Counts, ClientAssumption
  <2>8. Turns(inbox') \in Nat
    BY <2>1, <2>5
  <2> QED
    BY <2>3, <2>4, <2>7, <2>8, ClientAssumption DEF DeafFor, ClientAssumption
<1>8. CASE NoPing
  <2>1. /\ pc # "pass" /\ pc' # "pass"
        /\ UNCHANGED <<deaf, pingOutstanding, inbox, inAge>>
    BY <1>8, Zenon DEF NoPing, ages
  <2>2. ThisPass(inbox, pc', inAge) = ThisPass(inbox, pc, inAge)
    BY <2>1, Zenon DEF ThisPass
  <2> QED
    BY <2>1, <2>2 DEF DeafFor
<1>9. CASE NotUp
  <2>1. deaf' = 0
    BY <1>9, Zenon DEF NotUp, Clocks
  <2> QED
    BY <2>1, Heard
<1>10. CASE Read
  <2>1. /\ pc = "read" /\ pc' = "pass" /\ deaf' = deaf
        /\ inbox = <<>> => UNCHANGED <<inbox, inAge, pingOutstanding>>
        /\ inbox # <<>> => /\ inbox' = Tail(inbox) /\ inAge' = 0
                           /\ pingOutstanding' <=> pingOutstanding /\ Head(inbox) # "pong"
    BY <1>10, Zenon DEF Read
  <2>2. CASE inbox = <<>>
    BY <2>1, <2>2 DEF DeafFor, ThisPass
  <2>3. CASE inbox # <<>>
    <3>1. Turns(inbox') = Turns(inbox) + APacket /\ Turns(inbox) \in Nat /\ APacket \in Nat
      BY <2>1, <2>3, TurnsLeft DEF Mail
    <3>2. ThisPass(inbox, pc, inAge) \in 0..APacket
      BY <2>1, <2>3, ClientAssumption DEF ThisPass, APacket, Clocks, Counts, ClientAssumption
    <3>3. ThisPass(inbox', pc', inAge') = 0
      BY <2>1, <2>3 DEF ThisPass
    <3>4. Waited(pingOutstanding, inbox) <= Waited(pingOutstanding', inbox')
      <4>1. CASE pingOutstanding /\ Pongs(inbox) = {}
        <5>1. Head(inbox) # "pong"
          BY <4>1, <2>3, PongsRead DEF Mail
        <5>2. Pongs(inbox') = {}
          <6>1. \A i \in Pongs(inbox') : i \in Nat
            BY DEF Pongs
          <6> QED
            BY <6>1, <4>1, <2>1, <2>3, PongsRead DEF Mail
        <5> QED
          BY <4>1, <5>1, <5>2, <2>1, <2>3, ClientAssumption DEF Waited, ClientAssumption
      <4>2. CASE ~(pingOutstanding /\ Pongs(inbox) = {})
        BY <4>2, ClientAssumption DEF Waited, ClientAssumption
      <4> QED
        BY <4>1, <4>2
    <3>5. Waited(pingOutstanding, inbox) \in Nat /\ Waited(pingOutstanding', inbox') \in Nat
      BY ClientAssumption DEF Waited, ClientAssumption
    <3> QED
      BY <2>1, <3>1, <3>2, <3>3, <3>4, <3>5 DEF DeafFor, Counts
  <2> QED
    BY <2>2, <2>3
<1>11. CASE Answer
  <2>1. deaf' = 0
    BY <1>11, Zenon DEF Answer, Clocks
  <2> QED
    BY <2>1, Heard
<1>12. CASE Command
  <2>1. deaf' = 0
    BY <1>12, Zenon DEF Command, Clocks
  <2> QED
    BY <2>1, Heard
<1>13. CASE Expire
  <2>1. UNCHANGED <<pc, deaf, pingOutstanding, inbox, inAge>>
    BY <1>13, Zenon DEF Expire, ages
  <2> QED
    BY <2>1 DEF DeafFor
<1>14. CASE Hangup
  <2>1. deaf' = 0
    BY <1>14, Zenon DEF Hangup, Closed, Clocks
  <2> QED
    BY <2>1, Heard
<1>15. CASE NetChanges
  <2>1. deaf' = 0
    BY <1>15, Zenon DEF NetChanges, Clocks
  <2> QED
    BY <2>1, Heard
<1>16. CASE Restart
  <2>1. deaf' = 0
    BY <1>16, Zenon DEF Restart, Closed, Clocks
  <2> QED
    BY <2>1, Heard
<1>17. CASE UNCHANGED vars
  BY <1>17 DEF vars, DeafFor
<1> QED
  BY <1>1, <1>2, <1>3, <1>4, <1>5, <1>6, <1>7, <1>8, <1>9, <1>10,
     <1>11, <1>12, <1>13, <1>14, <1>15, <1>16, <1>17, Zenon DEF Next, LoopTask

\* Unless somebody was slow: the ping has just gone out, or its pong lies so far ahead in
\* the inbox that it is read before a clock is beyond the keepalive.
TurnsTo(p, place) == IF place = "pass" THEN MaxInbox - p ELSE MaxInbox - p + 1
InTime(age, p, place) == age * MaxInbox <= TurnsTo(p, place) * KeepAlive

OnItsWay ==
    up /\ pingOutstanding /\ ~excused =>
        \/ asked /\ inAge = 0 /\ outAge = 0 /\ pc \in {"read", "pass"}
        \/ \E p \in Pongs(inbox) : InTime(inAge, p, pc) /\ InTime(outAge, p, pc)

LEMMA PongPlace ==
    ASSUME Mail, NEW p \in Pongs(inbox)
    PROVE  p \in 1..MaxInbox /\ p \in Nat
BY ClientAssumption DEF Mail, Pongs, ClientAssumption

LEMMA AtOnce ==
    ASSUME NEW p \in 1..MaxInbox, NEW place
    PROVE  InTime(0, p, place)
<1>1. TurnsTo(p, place) \in Nat
  BY ClientAssumption DEF TurnsTo, ClientAssumption
<1>2. \A t, k \in Nat : 0 <= t * k
  OBVIOUS
<1>3. KeepAlive \in Nat /\ MaxInbox \in Nat /\ 0 * MaxInbox = 0
  BY ClientAssumption DEF ClientAssumption
<1> QED
  BY <1>1, <1>2, <1>3 DEF InTime

\* A pass that is not slow costs one turn.
LEMMA OneTurn ==
    ASSUME NEW p \in 1..MaxInbox, NEW age \in Nat, NEW d \in Nat,
           ~Slow(d), InTime(age, p, "pass")
    PROVE  InTime(age + d, p, "work")
<1>1. MaxInbox \in Nat /\ KeepAlive \in Nat /\ MaxInbox - p \in Nat
  BY ClientAssumption DEF ClientAssumption
<1>2. d * MaxInbox <= KeepAlive
  <2>1. d * MaxInbox \in Nat
    BY <1>1
  <2> QED
    BY <1>1, <2>1 DEF Slow
<1>3. \A x, y, z \in Nat : (x + y) * z = x * z + y * z
  OBVIOUS
<1>4. (age + d) * MaxInbox = age * MaxInbox + d * MaxInbox
  BY <1>1, <1>3
<1>5. (MaxInbox - p + 1) * KeepAlive = (MaxInbox - p) * KeepAlive + KeepAlive
  <2>1. 1 * KeepAlive = KeepAlive
    BY <1>1
  <2> QED
    BY <1>1, <1>3, <2>1
<1>6. age * MaxInbox <= (MaxInbox - p) * KeepAlive
  BY DEF InTime, TurnsTo
<1>7. \A x, y \in Nat : x * y \in Nat
  OBVIOUS
<1>8. /\ age * MaxInbox \in Nat /\ d * MaxInbox \in Nat /\ (MaxInbox - p) * KeepAlive \in Nat
  BY <1>1, <1>7
<1>9. (age + d) * MaxInbox <= (MaxInbox - p + 1) * KeepAlive
  BY <1>1, <1>2, <1>4, <1>5, <1>6, <1>8
<1> QED
  BY <1>9 DEF InTime, TurnsTo

\* A clock that is in time is not beyond the keepalive.
LEMMA NotIdleYet ==
    ASSUME NEW p \in 1..MaxInbox, NEW age \in Nat,
           InTime(age, p, "idle")
    PROVE  age <= KeepAlive
<1>1. /\ MaxInbox \in Nat /\ MaxInbox >= 1 /\ KeepAlive \in Nat /\ MaxInbox - p + 1 \in Nat
      /\ MaxInbox - p + 1 <= MaxInbox
  BY ClientAssumption DEF ClientAssumption
<1>2. age * MaxInbox <= (MaxInbox - p + 1) * KeepAlive
  BY DEF InTime, TurnsTo
<1>3. \A k, m, a \in Nat : k <= m => k * a <= m * a
  OBVIOUS
<1>4. (MaxInbox - p + 1) * KeepAlive <= MaxInbox * KeepAlive
  BY <1>1, <1>3
<1>5. SUFFICES ASSUME KeepAlive + 1 <= age PROVE FALSE
  BY <1>1
<1>6. (KeepAlive + 1) * MaxInbox <= age * MaxInbox
  BY <1>1, <1>3, <1>5
<1>7. (KeepAlive + 1) * MaxInbox = MaxInbox * KeepAlive + MaxInbox
  BY <1>1
<1>8. \A x, y \in Nat : x * y \in Nat
  OBVIOUS
<1>9. /\ age * MaxInbox \in Nat /\ (MaxInbox - p + 1) * KeepAlive \in Nat
      /\ MaxInbox * KeepAlive \in Nat
  BY <1>1, <1>8
<1> QED
  BY <1>1, <1>2, <1>4, <1>6, <1>7, <1>9

LEMMA OnItsWayStep ==
    ASSUME Flags, Counts, Mail, OnePong, OnItsWay,
           [Next]_vars
    PROVE  OnItsWay'
<1> USE DEF ages, broker
<1>1. CASE Pass
  <2> SUFFICES ASSUME up', pingOutstanding', ~excused' PROVE OnItsWay'
    BY DEF OnItsWay
  <2>1. /\ up /\ pingOutstanding /\ inbox' = inbox /\ pc = "pass" /\ pc' = "work"
    BY <1>1, Zenon DEF Pass
  <2>2. PICK d \in 1..MaxPass :
            /\ inAge' = inAge + d /\ outAge' = outAge + d
            /\ ~excused /\ ~asked /\ ~Slow(d)
    BY <1>1, <2>1, Zenon DEF Pass
  <2>3. PICK p \in Pongs(inbox) : InTime(inAge, p, pc) /\ InTime(outAge, p, pc)
    BY <2>1, <2>2, Zenon DEF OnItsWay
  <2>4. p \in 1..MaxInbox /\ d \in Nat /\ inAge \in Nat /\ outAge \in Nat
    BY PongPlace, ClientAssumption DEF Counts, ClientAssumption
  <2>5. InTime(inAge', p, pc') /\ InTime(outAge', p, pc')
    BY <2>1, <2>2, <2>3, <2>4, OneTurn
  <2> QED
    BY <2>1, <2>5, Zenon DEF OnItsWay
<1>2. CASE Connect
  <2>1. ~pingOutstanding'
    BY <1>2, Zenon DEF Connect
  <2> QED
    BY <2>1, Zenon DEF OnItsWay
<1>3. CASE NoConnect
  <2>1. ~up'
    BY <1>3, Zenon DEF NoConnect
  <2> QED
    BY <2>1, Zenon DEF OnItsWay
<1>4. CASE Publish
  <2> SUFFICES ASSUME up', pingOutstanding', ~excused' PROVE OnItsWay'
    BY DEF OnItsWay
  <2>1. /\ up /\ pingOutstanding /\ ~excused /\ inbox' = inbox /\ inAge' = inAge
        /\ pc \in {"work", "idle"} /\ pc' \in {"idle", "read"} /\ outAge' = 0
    BY <1>4, Zenon DEF Publish, Written
  <2>2. PICK p \in Pongs(inbox) : InTime(inAge, p, pc) /\ InTime(outAge, p, pc)
    BY <2>1 DEF OnItsWay
  <2>3. TurnsTo(p, pc') = TurnsTo(p, pc)
    BY <2>1 DEF TurnsTo
  <2>4. InTime(inAge', p, pc')
    BY <2>1, <2>2, <2>3 DEF InTime
  <2>5. InTime(outAge', p, pc')
    BY <2>1, <2>2, <2>3, PongPlace, AtOnce DEF InTime
  <2> QED
    BY <2>1, <2>4, <2>5, Zenon DEF OnItsWay
<1>5. CASE NoPublish
  <2> SUFFICES ASSUME up', pingOutstanding', ~excused' PROVE OnItsWay'
    BY DEF OnItsWay
  <2>1. /\ up /\ pingOutstanding /\ ~excused /\ inbox' = inbox /\ inAge' = inAge
        /\ pc \in {"work", "idle"} /\ pc' \in {"idle", "read"} /\ outAge' = outAge
    BY <1>5, Zenon DEF NoPublish, ages
  <2>2. PICK p \in Pongs(inbox) : InTime(inAge, p, pc) /\ InTime(outAge, p, pc)
    BY <2>1 DEF OnItsWay
  <2>3. TurnsTo(p, pc') = TurnsTo(p, pc)
    BY <2>1 DEF TurnsTo
  <2>4. InTime(inAge', p, pc')
    BY <2>1, <2>2, <2>3 DEF InTime
  <2>5. InTime(outAge', p, pc')
    BY <2>1, <2>2, <2>3 DEF InTime
  <2> QED
    BY <2>1, <2>4, <2>5, Zenon DEF OnItsWay
<1>6. CASE GiveUp
  <2>1. ~up'
    BY <1>6, Zenon DEF GiveUp, Closed
  <2> QED
    BY <2>1, Zenon DEF OnItsWay
<1>7. CASE Ping
  <2>1. asked' /\ inAge' = 0 /\ outAge' = 0 /\ pc' = "read"
    BY <1>7, Zenon DEF Ping, Written
  <2> QED
    BY <2>1, Zenon DEF OnItsWay
<1>8. CASE NoPing
  <2> SUFFICES ASSUME up', pingOutstanding', ~excused' PROVE OnItsWay'
    BY DEF OnItsWay
  <2>1. /\ up /\ pingOutstanding /\ ~excused /\ inbox' = inbox /\ inAge' = inAge
        /\ pc \in {"work", "idle"} /\ pc' \in {"idle", "read"} /\ outAge' = outAge
    BY <1>8, Zenon DEF NoPing, ages
  <2>2. PICK p \in Pongs(inbox) : InTime(inAge, p, pc) /\ InTime(outAge, p, pc)
    BY <2>1 DEF OnItsWay
  <2>3. TurnsTo(p, pc') = TurnsTo(p, pc)
    BY <2>1 DEF TurnsTo
  <2>4. InTime(inAge', p, pc')
    BY <2>1, <2>2, <2>3 DEF InTime
  <2>5. InTime(outAge', p, pc')
    BY <2>1, <2>2, <2>3 DEF InTime
  <2> QED
    BY <2>1, <2>4, <2>5, Zenon DEF OnItsWay
<1>9. CASE NotUp
  <2>1. ~up'
    BY <1>9, Zenon DEF NotUp
  <2> QED
    BY <2>1, Zenon DEF OnItsWay
<1>10. CASE Read
  <2> SUFFICES ASSUME up', pingOutstanding', ~excused' PROVE OnItsWay'
    BY DEF OnItsWay
  <2>1. /\ up /\ ~excused /\ pc = "read" /\ pc' = "pass"
        /\ asked' = asked /\ outAge' = outAge
        /\ inbox = <<>> => UNCHANGED <<inbox, inAge, pingOutstanding>>
        /\ inbox # <<>> => /\ inbox' = Tail(inbox) /\ inAge' = 0
                           /\ pingOutstanding /\ Head(inbox) # "pong"
    BY <1>10, Zenon DEF Read
  <2>2. pingOutstanding
    BY <2>1, Zenon
  <2>3. CASE asked /\ inAge = 0 /\ outAge = 0
    <3>1. asked' /\ outAge' = 0 /\ inAge' = 0
      BY <2>1, <2>3, Zenon
    <3> QED
      BY <2>1, <3>1, Zenon DEF OnItsWay
  <2>4. CASE \E p \in Pongs(inbox) : InTime(inAge, p, pc) /\ InTime(outAge, p, pc)
    <3>1. PICK p \in Pongs(inbox) : InTime(outAge, p, pc)
      BY <2>4
    <3>2. inbox # <<>>
      BY <3>1 DEF Pongs
    <3>3. p \in 1..MaxInbox /\ p # 1
      BY <2>1, <3>2, PongPlace, PongsRead DEF Mail
    <3>4. p - 1 \in Pongs(inbox')
      <4>1. p - 1 \in Nat /\ p - 1 >= 1 /\ (p - 1) + 1 = p
        BY <3>3
      <4> QED
        BY <2>1, <3>2, <4>1, PongsRead DEF Mail
    <3>5. TurnsTo(p - 1, pc') = TurnsTo(p, pc)
      BY <2>1, <3>3, ClientAssumption DEF TurnsTo, ClientAssumption
    <3>6. InTime(outAge', p - 1, pc')
      BY <2>1, <3>1, <3>5 DEF InTime
    <3>7. InTime(inAge', p - 1, pc')
      <4>1. p - 1 \in 1..MaxInbox
        BY <3>3, ClientAssumption DEF ClientAssumption
      <4> QED
        BY <2>1, <3>2, <4>1, AtOnce
    <3> QED
      BY <3>4, <3>6, <3>7 DEF OnItsWay
  <2> QED
    BY <2>1, <2>2, <2>3, <2>4, Zenon DEF OnItsWay
<1>11. CASE Answer
  <2> SUFFICES ASSUME up', pingOutstanding', ~excused' PROVE OnItsWay'
    BY DEF OnItsWay
  <2>1. /\ up /\ ~excused /\ pingOutstanding /\ UNCHANGED <<pc, inAge, outAge>>
        /\ asked /\ inbox' = Append(inbox, "pong") /\ Len(inbox) < MaxInbox
    BY <1>11, Zenon DEF Answer, ages
  <2>2. inAge = 0 /\ outAge = 0
    BY <2>1, Zenon DEF OnItsWay, OnePong
  <2> DEFINE p == Len(inbox) + 1
  <2>3. p \in Pongs(inbox')
    BY <2>1, PongsAppended DEF Mail
  <2>4. p \in 1..MaxInbox
    BY <2>1, ClientAssumption DEF Mail, ClientAssumption
  <2>5. InTime(inAge', p, pc') /\ InTime(outAge', p, pc')
    <3> HIDE DEF p
    <3> QED
      BY <2>1, <2>2, <2>4, AtOnce
  <2> HIDE DEF p
  <2> QED
    BY <2>3, <2>5 DEF OnItsWay
<1>12. CASE Command
  <2>1. /\ Pongs(inbox') = Pongs(inbox)
        /\ UNCHANGED <<pc, up, pingOutstanding, excused, asked, inAge, outAge>>
    BY <1>12, PongsAppended DEF Command, Mail, ages
  <2> QED
    BY <2>1, Zenon DEF OnItsWay
<1>13. CASE Expire
  <2>1. UNCHANGED <<pc, up, pingOutstanding, excused, asked, inAge, outAge, inbox>>
    BY <1>13, Zenon DEF Expire, ages
  <2> QED
    BY <2>1, Zenon DEF OnItsWay
<1>14. CASE Hangup
  <2>1. ~up'
    BY <1>14, Zenon DEF Hangup, Closed
  <2> QED
    BY <2>1, Zenon DEF OnItsWay
<1>15. CASE NetChanges
  <2>1. excused'
    BY <1>15, Zenon DEF NetChanges
  <2> QED
    BY <2>1, Zenon DEF OnItsWay
<1>16. CASE Restart
  <2>1. ~up'
    BY <1>16, Zenon DEF Restart, Closed
  <2> QED
    BY <2>1, Zenon DEF OnItsWay
<1>17. CASE UNCHANGED vars
  BY <1>17, Zenon DEF vars, OnItsWay
<1> QED
  BY <1>1, <1>2, <1>3, <1>4, <1>5, <1>6, <1>7, <1>8, <1>9, <1>10,
     <1>11, <1>12, <1>13, <1>14, <1>15, <1>16, <1>17, Zenon DEF Next, LoopTask

\* Everything a step of client, broker and path keeps.
ClientInv == Flags /\ Counts /\ Mail /\ Clocks /\ OnePong

LEMMA ClientSteps ==
    Spec => [](ClientInv /\ DeafFor /\ OnItsWay)
<1>1. Init => ClientInv /\ DeafFor /\ OnItsWay
  <2> SUFFICES ASSUME Init PROVE ClientInv /\ DeafFor /\ OnItsWay
    OBVIOUS
  <2>1. /\ pc = "pass" /\ ~up /\ ~pingOutstanding /\ ~asked
        /\ inbox = <<>> /\ inAge = 0 /\ outAge = 0 /\ deaf = 0
    BY DEF Init
  <2>2. Flags
    BY Zenon DEF Init, Flags
  <2>3. Counts /\ Clocks
    <3>1. session = Gone /\ left = Gone
      BY DEF Init
    <3>2. Gone \in 0..Gone /\ KeepAlive \in Nat /\ KeepAlive + MaxPass \in Nat
      BY ClientAssumption DEF Gone, ClientAssumption
    <3> QED
      BY <2>1, <3>1, <3>2 DEF Counts, Clocks
  <2>4. Mail /\ OnePong
    BY <2>1, ClientAssumption DEF Mail, OnePong, Pongs, ClientAssumption
  <2>5. DeafFor
    <3>1. Waited(pingOutstanding, inbox) = 0 /\ ThisPass(inbox, pc, inAge) = 0
      BY <2>1 DEF Waited, ThisPass
    <3>2. Turns(inbox) \in Nat
      BY <2>4, TurnsLeft DEF Mail
    <3> QED
      BY <2>1, <3>1, <3>2 DEF DeafFor
  <2> QED
    BY <2>1, <2>2, <2>3, <2>4, <2>5 DEF ClientInv, OnItsWay
<1>2. ClientInv /\ DeafFor /\ OnItsWay /\ [Next]_vars
        => (ClientInv /\ DeafFor /\ OnItsWay)'
  BY FlagsStep, CountsStep, MailStep, ClocksStep, OnePongStep, DeafStep, OnItsWayStep
     DEF ClientInv
<1> QED
  BY <1>1, <1>2, PTL DEF Spec

\* Whatever client, broker and path do in whichever order, their state keeps its types:
\* the inbox never holds more than the socket does, and no clock runs beyond a keepalive
\* and a pass.
THEOREM ClientTyping ==
    Spec => []TypeOK
<1>1. ClientInv => TypeOK
  BY DEF ClientInv, Flags, Counts, Mail, TypeOK
<1> QED
  BY <1>1, ClientSteps, PTL

\* For every keepalive, length of a pass and size of the inbox: a dead path is noticed
\* within two keepalives, a pass after each, and a turn for each packet in the inbox.
THEOREM DeadPath ==
    Spec => []DeadNoticed
<1>1. ClientInv /\ DeafFor => DeadNoticed
  <2> SUFFICES ASSUME ClientInv, DeafFor
               PROVE  deaf <= 2 * (KeepAlive + MaxPass) + MaxInbox * APacket
    BY DEF DeadNoticed, APacket
  <2>1. Waited(pingOutstanding, inbox) \in 0..(KeepAlive + MaxPass)
    BY ClientAssumption DEF Waited, ClientAssumption
  <2>2. ThisPass(inbox, pc, inAge) \in 0..(KeepAlive + MaxPass)
    BY ClientAssumption DEF ThisPass, ClientInv, Counts, ClientAssumption
  <2>3. Turns(inbox) \in Nat /\ Turns(inbox) <= MaxInbox * APacket
    BY TurnsLeft DEF ClientInv, Mail
  <2>4. MaxInbox * APacket \in Nat
    <3>1. MaxInbox \in Nat /\ APacket \in Nat
      BY ClientAssumption DEF APacket, ClientAssumption
    <3>2. \A x, y \in Nat : x * y \in Nat
      OBVIOUS
    <3> QED
      BY <3>1, <3>2
  <2> QED
    BY <2>1, <2>2, <2>3, <2>4, ClientAssumption DEF DeafFor, ClientInv, Counts, ClientAssumption
<1> QED
  BY <1>1, ClientSteps, PTL

\* For every keepalive, length of a pass and size of the inbox: as long as passes are
\* short enough to read a full inbox within a keepalive, the broker answers within a
\* pass and the path holds, no connection is given up.
THEOREM NoneGivenUp ==
    Spec => NotGivenUp
<1>1. ClientInv /\ OnItsWay /\ [Next]_vars
        => [pc = "idle" /\ up /\ ~up' /\ pc' = "pass" => excused]_vars
  <2> SUFFICES ASSUME ClientInv, OnItsWay, Next,
                      pc = "idle", up, ~up', pc' = "pass", ~excused
               PROVE  FALSE
    BY Zenon
  <2>1. GiveUp
    BY Zenon DEF Next, LoopTask, Pass, Connect, NoConnect,
       Publish, NoPublish, Ping, NoPing, NotUp, Read,
       Answer, Command, Expire, Hangup, NetChanges,
       Restart
  <2>2. Idle /\ pingOutstanding
    BY <2>1, Zenon DEF GiveUp
  <2>3. PICK p \in Pongs(inbox) : InTime(inAge, p, pc) /\ InTime(outAge, p, pc)
    BY <2>2, Zenon DEF OnItsWay
  <2>4. p \in 1..MaxInbox /\ inAge \in Nat /\ outAge \in Nat
    BY PongPlace DEF ClientInv, Counts
  <2>5. inAge <= KeepAlive /\ outAge <= KeepAlive
    BY <2>3, <2>4, NotIdleYet
  <2> QED
    BY <2>2, <2>4, <2>5, ClientAssumption DEF Idle, ClientAssumption
<1> QED
  BY <1>1, ClientSteps, PTL DEF Spec, NotGivenUp

----------------------------------------------------------------------------
\* ScanWait

\* Whatever the two tasks interleave, the scanner's state keeps its types, and
\* m_pTaskData holds the loop task's handle exactly while that is in start().
THEOREM ScanTyping ==
    ScanSpec => []ScanTypeOK
<1> USE DEF ScanTypeOK
<1>1. ScanInit => ScanTypeOK
  BY DEF ScanInit
<1>2. ScanTypeOK /\ [ScanNext]_scanVars => ScanTypeOK'
  <2> SUFFICES ASSUME ScanTypeOK, [ScanNext]_scanVars PROVE ScanTypeOK'
    OBVIOUS
  <2> USE DEF shared, outside, history
  <2>1. CASE LoopIgnore
    BY <2>1 DEF LoopIgnore
  <2>2. CASE LoopDisc
    <3>1. CASE ~op /\ op' = TRUE /\ loop' = "clear"
      BY <2>2, <3>1 DEF LoopDisc
    <3>2. CASE op' = op /\ loop' \in {"enable", "refused"}
      BY <2>2, <3>2 DEF LoopDisc
    <3> QED
      BY <2>2, <3>1, <3>2, Zenon DEF LoopDisc, Disc
  <2>3. CASE LoopClear
    BY <2>3 DEF LoopClear
  <2>4. CASE LoopEnable
    <3>1. CASE loop = "enable"
      BY <2>4, <3>1 DEF LoopEnable
    <3>2. CASE loop = "refused"
      BY <2>4, <3>2 DEF LoopEnable
    <3> QED
      BY <2>4, <3>1, <3>2, Zenon DEF LoopEnable
  <2>5. CASE Drain
    BY <2>5 DEF Drain
  <2>6. CASE Wait
    BY <2>6 DEF Wait
  <2>7. CASE Return
    <3>1. (loop' # "idle") = FALSE
      BY <2>7, Zenon DEF Return
    <3>2. m_pTaskData' = (loop' # "idle")
      BY <2>7, <3>1, Zenon DEF Return
    <3>3. /\ loop' = "idle"
          /\ UNCHANGED <<host, completing, op, m_ignoreResults, note, bms, doConnect, link,
                         joined, missed>>
      BY <2>7, Zenon DEF Return
    <3> QED
      BY <3>2, <3>3
  <2>8. CASE Setup
    <3>1. (loop' # "idle") = TRUE
      BY <2>8, Zenon DEF Setup
    <3>2. m_pTaskData' = (loop' # "idle")
      BY <2>8, <3>1, Zenon DEF Setup
    <3>3. /\ loop' = "ignore"
          /\ UNCHANGED <<host, completing, op, m_ignoreResults, note, bms, doConnect, link,
                         joined, missed>>
      BY <2>8, Zenon DEF Setup
    <3> QED
      BY <3>2, <3>3
  <2>9. CASE ClientConnect
    <3>1. CASE link' = "up" /\ doConnect' = FALSE
      BY <2>9, <3>1 DEF ClientConnect
    <3>2. CASE UNCHANGED <<doConnect, link>>
      BY <2>9, <3>2 DEF ClientConnect
    <3> QED
      BY <2>9, <3>1, <3>2, Zenon DEF ClientConnect
  <2>10. CASE Disconnect
    BY <2>10 DEF Disconnect
  <2>11. CASE Stop
    BY <2>11 DEF Stop
  <2>12. CASE Tell
    BY <2>12 DEF Tell
  <2>13. CASE Give
    BY <2>13 DEF Give
  <2>14. CASE Found
    BY <2>14 DEF Found
  <2>15. CASE Over
    <3>1. CASE bms = "pending"
      BY <2>15, <3>1 DEF Over
    <3>2. CASE bms # "pending"
      BY <2>15, <3>2 DEF Over
    <3> QED
      BY <2>15, <3>1, <3>2, Zenon DEF Over
  <2>16. CASE HostIgnore
    BY <2>16 DEF HostIgnore
  <2>17. CASE HostDisc
    <3>1. CASE op' = TRUE /\ host' = "clear"
      BY <2>17, <3>1 DEF HostDisc
    <3>2. CASE op' = op /\ host' = "enable"
      BY <2>17, <3>2 DEF HostDisc
    <3> QED
      BY <2>17, <3>1, <3>2, Zenon DEF HostDisc, Disc
  <2>18. CASE HostClear
    BY <2>18 DEF HostClear
  <2>19. CASE HostEnable
    BY <2>19 DEF HostEnable
  <2>20. CASE Crash
    BY <2>20 DEF Crash
  <2>21. CASE Report
    BY <2>21 DEF Report
  <2>22. CASE Timer
    BY <2>22 DEF Timer
  <2>23. CASE LinkLost
    BY <2>23 DEF LinkLost
  <2>24. CASE UNCHANGED scanVars
    BY <2>24 DEF scanVars
  <2> QED
    BY <2>1, <2>2, <2>3, <2>4, <2>5, <2>6, <2>7, <2>8, <2>9, <2>10, <2>11, <2>12,
       <2>13, <2>14, <2>15, <2>16, <2>17, <2>18, <2>19, <2>20, <2>21, <2>22, <2>23,
       <2>24,
       Zenon DEF ScanNext, ScanLoop, HostTask
<1> QED
  BY <1>1, <1>2, PTL DEF ScanSpec

\* Between the start of a scan and the clearing of the notification there is a scan,
\* the end of one, or a notification.
Heads == loop \in {"clear", "enable", "drain"} => note \/ op \/ Ending

LEMMA Waiting ==
    ASSUME ScanTypeOK, Heads, OneWayToHang, [ScanNext]_scanVars
    PROVE  (Heads /\ OneWayToHang)'
<1> USE DEF Heads, OneWayToHang, BlocksForScan, Ending,
            shared, outside, history
<1>1. CASE LoopIgnore
  BY <1>1, Zenon DEF LoopIgnore, ScanTypeOK
<1>2. CASE LoopDisc
  BY <1>2, Zenon DEF LoopDisc, ScanTypeOK, Disc
<1>3. CASE LoopClear
  BY <1>3, Zenon DEF LoopClear, ScanTypeOK
<1>4. CASE LoopEnable
  BY <1>4, Zenon DEF LoopEnable, ScanTypeOK
<1>5. CASE Drain
  BY <1>5, Zenon DEF Drain, ScanTypeOK
<1>6. CASE Wait
  BY <1>6, Zenon DEF Wait, ScanTypeOK
<1>7. CASE Return
  BY <1>7, Zenon DEF Return, ScanTypeOK
<1>8. CASE Setup
  BY <1>8, Zenon DEF Setup, ScanTypeOK
<1>9. CASE ClientConnect
  BY <1>9, Zenon DEF ClientConnect, ScanTypeOK
<1>10. CASE Disconnect
  BY <1>10, Zenon DEF Disconnect, ScanTypeOK
<1>11. CASE Stop
  BY <1>11, Zenon DEF Stop, ScanTypeOK
<1>12. CASE Tell
  BY <1>12, Zenon DEF Tell, ScanTypeOK
<1>13. CASE Give
  BY <1>13, Zenon DEF Give, ScanTypeOK
<1>14. CASE Found
  BY <1>14, Zenon DEF Found, ScanTypeOK
<1>15. CASE Over
  BY <1>15, Zenon DEF Over, ScanTypeOK
<1>16. CASE HostIgnore
  BY <1>16, Zenon DEF HostIgnore, ScanTypeOK
<1>17. CASE HostDisc
  BY <1>17, Zenon DEF HostDisc, ScanTypeOK, Disc
<1>18. CASE HostClear
  BY <1>18, Zenon DEF HostClear, ScanTypeOK
<1>19. CASE HostEnable
  BY <1>19, Zenon DEF HostEnable, ScanTypeOK
<1>20. CASE Crash
  BY <1>20, Zenon DEF Crash, ScanTypeOK
<1>21. CASE Report
  BY <1>21, Zenon DEF Report, ScanTypeOK
<1>22. CASE Timer
  BY <1>22, Zenon DEF Timer, ScanTypeOK
<1>23. CASE LinkLost
  BY <1>23, Zenon DEF LinkLost, ScanTypeOK
<1>24. CASE UNCHANGED scanVars
  BY <1>24, Zenon DEF scanVars
<1> QED
  BY <1>1, <1>2, <1>3, <1>4, <1>5, <1>6, <1>7, <1>8, <1>9, <1>10, <1>11, <1>12, <1>13,
     <1>14, <1>15, <1>16, <1>17, <1>18, <1>19, <1>20, <1>21, <1>22, <1>23, <1>24, Zenon
     DEF ScanNext, ScanLoop, HostTask

\* However the two tasks interleave: who waits for nothing has thrown a notification away.
THEOREM OneHang ==
    ScanSpec => []OneWayToHang
<1>1. ScanInit => Heads /\ OneWayToHang
  BY Zenon DEF ScanInit, Heads, OneWayToHang, BlocksForScan
<1>2. ScanTypeOK /\ Heads /\ OneWayToHang /\ [ScanNext]_scanVars
        => (Heads /\ OneWayToHang)'
  BY Waiting, Zenon
<1> QED
  BY <1>1, <1>2, ScanTyping, PTL DEF ScanSpec

====
