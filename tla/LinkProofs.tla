---- MODULE LinkProofs ----
(***************************************************************************)
(* Proofs about BmsLink, whatever the radio does and however the two tasks *)
(* interleave: every step is one that LinkService knows, and there is one  *)
(* way only to a connected flag without a link.                            *)
(***************************************************************************)
EXTENDS BmsLink, TLAPS

\* The variables keep their types: the reconnect loop never counts beyond MAX_RETRIES.
THEOREM Typing == Spec => []TypeOK
<1>1. Init => TypeOK
  <2> SUFFICES ASSUME Init PROVE TypeOK
    OBVIOUS
  <2>1. retries \in 0..MaxRetries
    BY LinkAssumption DEF Init, LinkAssumption
  <2> QED
    BY <2>1, Zenon DEF Init, TypeOK, Places
<1>2. TypeOK /\ [Next]_vars => TypeOK'
  <2> SUFFICES ASSUME TypeOK, [Next]_vars PROVE TypeOK'
    OBVIOUS
  <2>1. retries' \in 0..MaxRetries
    <3>1. retries' \in {retries, 0} \/ (retries < MaxRetries /\ retries' = retries + 1)
      BY DEF Next, vars, LoopTask, HostTask, NextPass, NoConnect, StartConnect,
             AttemptOk, AttemptFails, Linked, ServicesOk, ServicesFail, Commit, Name,
             Sleep, loop, Setup, Disconnect, Crash, Restart, Boot, Found, ScanTimeout,
             OnDisconnect, LinkLost, Move
    <3> QED
      BY <3>1, LinkAssumption DEF TypeOK, LinkAssumption
  <2> USE <2>1 DEF TypeOK, Places, loop, radio
  <2>2. CASE Sleep \/ NextPass \/ NoConnect \/ StartConnect
    <3>1. CASE Sleep
      BY <3>1, Zenon DEF Sleep
    <3>2. CASE NextPass
      BY <3>2, Zenon DEF NextPass
    <3>3. CASE NoConnect
      BY <3>3, Zenon DEF NoConnect
    <3>4. CASE StartConnect
      BY <3>4, Zenon DEF StartConnect
    <3> QED
      BY <2>2, <3>1, <3>2, <3>3, <3>4
  <2>3. CASE AttemptOk
    <3>1. pc' \in Places
      BY <2>3, Zenon DEF AttemptOk
    <3> QED
      BY <2>3, <3>1, Zenon DEF AttemptOk
  <2>4. CASE AttemptFails
    <3>1. scan' \in BOOLEAN /\ pClient' \in BOOLEAN /\ pc' \in Places
      BY <2>4, Zenon DEF AttemptFails
    <3> QED
      BY <2>4, <3>1, Zenon DEF AttemptFails
  <2>5. CASE Linked \/ ServicesOk \/ ServicesFail \/ Commit \/ Name
    <3>1. CASE Linked
      BY <3>1, Zenon DEF Linked
    <3>2. CASE ServicesOk
      BY <3>2, Zenon DEF ServicesOk
    <3>3. CASE ServicesFail
      BY <3>3, Zenon DEF ServicesFail
    <3>4. CASE Commit
      BY <3>4, Zenon DEF Commit
    <3>5. CASE Name
      BY <3>5, Zenon DEF Name
    <3> QED
      BY <2>5, <3>1, <3>2, <3>3, <3>4, <3>5
  <2>6. CASE Setup \/ OnDisconnect
    <3>1. scan' \in BOOLEAN /\ bmsDevice' \in {"none", "live", "freed"}
      BY <2>6, Zenon DEF Setup, OnDisconnect, StartScan
    <3> QED
      BY <2>6, <3>1, Zenon DEF Setup, OnDisconnect
  <2>7. CASE Disconnect
    BY <2>7, Zenon DEF Disconnect
  <2>8. CASE Crash \/ Restart
    BY <2>8, Zenon DEF Crash, Restart, Boot
  <2>9. CASE Found \/ ScanTimeout
    BY <2>9, Zenon DEF Found, ScanTimeout, ScanOver
  <2>10. CASE LinkLost
    <3>1. raced' \in BOOLEAN
      BY <2>10, Zenon DEF LinkLost
    <3> QED
      BY <2>10, <3>1, Zenon DEF LinkLost
  <2>11. CASE Move
    BY <2>11, Zenon DEF Move
  <2>12. CASE UNCHANGED vars
    <3>1. /\ pc' = pc /\ pClient' = pClient /\ doConnect' = doConnect
          /\ connected' = connected /\ bmsDevice' = bmsDevice
      BY <2>12 DEF vars
    <3>2. /\ link' = link /\ closing' = closing /\ inRange' = inRange
          /\ raced' = raced /\ scan' = scan /\ hpc' = hpc
      BY <2>12 DEF vars
    <3> QED
      BY <3>1, <3>2, SMT
  <2> QED
    BY <2>2, <2>3, <2>4, <2>5, <2>6, <2>7, <2>8, <2>9, <2>10, <2>11, <2>12, Zenon
       DEF Next, LoopTask, HostTask
<1> QED
  BY <1>1, <1>2, PTL DEF Spec

\* connected is about to be set over a link, or too late for it.
CommitInTime == pc = "commit" => link \/ raced

\* There is one way to a connected flag without a link: connect() has subscribed, the link
\* goes and onDisconnect() clears the flag, connect() sets it.
THEOREM OneWay == Spec => []OneWayToWedge
<1>1. Init => CommitInTime /\ OneWayToWedge
  BY DEF Init, CommitInTime, OneWayToWedge
<1>2. CommitInTime /\ OneWayToWedge /\ [Next]_vars => CommitInTime' /\ OneWayToWedge'
  <2> SUFFICES ASSUME CommitInTime, OneWayToWedge, [Next]_vars
               PROVE  CommitInTime' /\ OneWayToWedge'
    OBVIOUS
  <2> USE DEF CommitInTime, OneWayToWedge, loop, radio
  <2>1. CASE Sleep \/ NextPass \/ NoConnect \/ Linked \/ Name \/ Move
    BY <2>1 DEF Sleep, NextPass, NoConnect, Linked, Name, Move
  <2>2. CASE StartConnect
    BY <2>2 DEF StartConnect
  <2>3. CASE AttemptOk
    BY <2>3 DEF AttemptOk
  <2>4. CASE AttemptFails
    BY <2>4 DEF AttemptFails
  <2>5. CASE ServicesOk
    BY <2>5 DEF ServicesOk
  <2>6. CASE ServicesFail
    BY <2>6 DEF ServicesFail
  <2>7. CASE Commit
    BY <2>7 DEF Commit
  <2>8. CASE Setup
    BY <2>8 DEF Setup, StartScan
  <2>9. CASE Disconnect
    BY <2>9 DEF Disconnect
  <2>10. CASE Crash \/ Restart
    BY <2>10 DEF Crash, Restart, Boot
  <2>11. CASE Found
    BY <2>11 DEF Found, ScanOver
  <2>12. CASE ScanTimeout
    BY <2>12 DEF ScanTimeout, ScanOver
  <2>13. CASE LinkLost
    BY <2>13 DEF LinkLost
  <2>14. CASE OnDisconnect
    BY <2>14 DEF OnDisconnect, StartScan
  <2>15. CASE UNCHANGED vars
    BY <2>15 DEF vars
  <2> QED
    BY <2>1, <2>2, <2>3, <2>4, <2>5, <2>6, <2>7, <2>8, <2>9, <2>10, <2>11, <2>12,
       <2>13, <2>14, <2>15
       DEF Next, LoopTask, HostTask
<1> QED
  BY <1>1, <1>2, PTL DEF Spec

\* The flags agree with what the two tasks are at.  The loop task waits in setup() only
\* without a connection; a flag that was set within onDisconnect() asks for no connect();
\* and a connect() over a flag that is set is one the flags still ask for.
FlagsAgree ==
    /\ InSetup => ~connected
    /\ hpc = "lost" => ~link
    /\ hpc = "lost" /\ connected => ~doConnect
    /\ InConnect /\ connected => doConnect

LEMMA FlagsInvariant == Spec => []FlagsAgree
<1>1. Init => FlagsAgree
  BY DEF Init, FlagsAgree, InConnect, Attempting
<1>2. FlagsAgree /\ [Next]_vars => FlagsAgree'
  <2> SUFFICES ASSUME FlagsAgree, [Next]_vars PROVE FlagsAgree'
    OBVIOUS
  <2> USE DEF FlagsAgree, InSetup, InConnect, Attempting, loop, radio
  <2>1. CASE Sleep \/ NextPass \/ NoConnect \/ Linked \/ Name \/ Move
    BY <2>1 DEF Sleep, NextPass, NoConnect, Linked, Name, Move
  <2>2. CASE StartConnect
    BY <2>2 DEF StartConnect
  <2>3. CASE AttemptOk
    BY <2>3 DEF AttemptOk
  <2>4. CASE AttemptFails
    BY <2>4 DEF AttemptFails
  <2>5. CASE ServicesOk
    BY <2>5 DEF ServicesOk
  <2>6. CASE ServicesFail
    BY <2>6 DEF ServicesFail
  <2>7. CASE Commit
    BY <2>7 DEF Commit
  <2>8. CASE Setup
    BY <2>8 DEF Setup, StartScan
  <2>9. CASE Disconnect
    BY <2>9 DEF Disconnect
  <2>10. CASE Crash \/ Restart
    BY <2>10 DEF Crash, Restart, Boot
  <2>11. CASE Found
    BY <2>11 DEF Found, ScanOver
  <2>12. CASE ScanTimeout
    BY <2>12 DEF ScanTimeout, ScanOver
  <2>13. CASE LinkLost
    BY <2>13 DEF LinkLost
  <2>14. CASE OnDisconnect
    BY <2>14 DEF OnDisconnect, StartScan
  <2>15. CASE UNCHANGED vars
    BY <2>15 DEF vars
  <2> QED
    BY <2>1, <2>2, <2>3, <2>4, <2>5, <2>6, <2>7, <2>8, <2>9, <2>10, <2>11, <2>12,
       <2>13, <2>14, <2>15
       DEF Next, LoopTask, HostTask
<1> QED
  BY <1>1, <1>2, PTL DEF Spec

\* The flags the two tasks store at different times amount to the service that
\* LinkService describes: every step of BmsLink is a step of the service or none,
\* wherever links are lost and notifications missed.
THEOREM Implements == Spec => Service!Init /\ [][Service!Next]_Service!vars
<1>1. Init => Service!Init
  BY DEF Init, Service!Init, Phase, User, InSetup, InConnect, Attempting
<1>2. FlagsAgree /\ [Next]_vars => [Service!Next]_Service!vars
  <2> SUFFICES ASSUME FlagsAgree, [Next]_vars PROVE [Service!Next]_Service!vars
    OBVIOUS
  <2> USE DEF FlagsAgree, Phase, User, InSetup, InConnect, Attempting, Service!vars,
              loop, radio
  <2>1. CASE Sleep \/ NextPass \/ NoConnect \/ Linked \/ Name
    BY <2>1 DEF Sleep, NextPass, NoConnect, Linked, Name
  <2>2. CASE StartConnect
    BY <2>2 DEF StartConnect, Service!Next, Service!Try
  <2>3. CASE AttemptOk
    BY <2>3 DEF AttemptOk, Service!Next, Service!GiveUp, Service!Over
  <2>4. CASE AttemptFails
    BY <2>4 DEF AttemptFails, Service!Next, Service!GiveUp, Service!Over, Service!Fail
  <2>5. CASE ServicesOk
    BY <2>5 DEF ServicesOk
  <2>6. CASE ServicesFail
    BY <2>6 DEF ServicesFail, Service!Next, Service!Fail
  <2>7. CASE Commit
    BY <2>7 DEF Commit, Service!Next, Service!Serve, Service!Wedge
  <2>8. CASE Setup
    BY <2>8 DEF Setup, StartScan, Service!Next, Service!Setup
  <2>9. CASE Disconnect
    BY <2>9 DEF Disconnect, Service!Next, Service!Lose
  <2>10. CASE Crash \/ Restart
    BY <2>10 DEF Crash, Restart, Boot, Service!Next, Service!Boot
  <2>11. CASE Found
    BY <2>11 DEF Found, ScanOver, Service!Next, Service!Find, Service!Over, Service!Return
  <2>12. CASE ScanTimeout
    BY <2>12 DEF ScanTimeout, ScanOver, Service!Next, Service!GiveUp, Service!Over, Service!Return
  <2>13. CASE LinkLost
    BY <2>13 DEF LinkLost, Service!Next, Service!Lose
  <2>14. CASE OnDisconnect
    BY <2>14 DEF OnDisconnect, StartScan, Service!Next, Service!Lose, Service!Scan
  <2>15. CASE Move
    BY <2>15 DEF Move, Service!Next, Service!Move
  <2>16. CASE UNCHANGED vars
    BY <2>16 DEF vars
  <2> QED
    BY <2>1, <2>2, <2>3, <2>4, <2>5, <2>6, <2>7, <2>8, <2>9, <2>10, <2>11, <2>12,
       <2>13, <2>14, <2>15, <2>16
       DEF Next, LoopTask, HostTask
<1> QED
  BY <1>1, <1>2, FlagsInvariant, PTL DEF Spec

====
