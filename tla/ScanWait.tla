---- MODULE ScanWait ----
(***************************************************************************)
(* How the vendored scanner makes a task wait: NimBLEScan.cpp, and the     *)
(* discovery procedure of ble_gap.c below it.                              *)
(*                                                                         *)
(* The loop task calls the blocking start() in JbdBms::setup(): it leaves  *)
(* its handle in m_pTaskData, starts a scan or joins the one that runs,    *)
(* throws away any notification and waits for one without a limit.  The    *)
(* host task ends scans, by timer or by stop(), notifies whom it finds in  *)
(* m_pTaskData, and starts scans of its own in onDisconnect().  Both work  *)
(* on m_ignoreResults, m_pTaskData and the results without a lock; only    *)
(* the procedure itself has one.                                           *)
(*                                                                         *)
(* Abstracted: only the BMS advertises, with a scan response; connecting   *)
(* is one step here (see BmsLink).                                         *)
(***************************************************************************)

VARIABLES
    loop,       \* where the loop task is in start(), or "idle"
    host,       \* where the host task is in its callbacks, or "idle"
    completing, \* ... and whether they are those of BLE_GAP_EVENT_DISC_COMPLETE
    op,         \* ble_gap_master.op: a scan runs
    m_ignoreResults,
    m_pTaskData, \* holds the loop task
    note,       \* it has been notified
    bms,        \* in the results: "no", "pending" its scan response, or "told"
    doConnect,
    link,       \* "up", "closing" after disconnect(), "down"
    joined,     \* the blocking start() has found a scan running
    missed      \* history: it has thrown a notification away

shared == <<op, m_ignoreResults, m_pTaskData, note, bms>>
outside == <<doConnect, link>>
history == <<joined, missed>>
scanVars == <<loop, host, completing, shared, outside, history>>

ScanTypeOK ==
    /\ loop \in {"idle", "ignore", "disc", "clear", "refused", "enable", "drain", "wait",
                 "return"}
    /\ host \in {"idle", "stop", "tell", "give", "found", "over", "tellOver", "giveOver",
                 "ignore", "disc", "clear", "enable"}
    /\ completing \in BOOLEAN /\ op \in BOOLEAN /\ m_ignoreResults \in BOOLEAN
    /\ m_pTaskData = (loop # "idle") /\ note \in BOOLEAN
    /\ bms \in {"no", "pending", "told"}
    /\ doConnect \in BOOLEAN /\ link \in {"up", "closing", "down"}
    /\ joined \in BOOLEAN /\ missed \in BOOLEAN

ScanInit ==
    /\ loop = "idle" /\ host = "idle" /\ completing = FALSE
    /\ op = FALSE /\ m_ignoreResults = FALSE /\ m_pTaskData = FALSE /\ note = FALSE
    /\ bms = "no" /\ doConnect = FALSE /\ link = "down"
    /\ joined = FALSE /\ missed = FALSE

----------------------------------------------------------------------------
\* Loop task: the blocking start(), and start() in it

\* JbdBms::setup(), while not connected.
Setup ==
    /\ loop = "idle" /\ link # "up"
    /\ m_pTaskData' = TRUE
    /\ loop' = "ignore"
    /\ UNCHANGED <<host, completing, op, m_ignoreResults, note, bms, outside, history>>

LoopIgnore ==
    /\ loop = "ignore"
    /\ m_ignoreResults' = TRUE
    /\ loop' = "disc"
    /\ UNCHANGED <<host, completing, op, m_pTaskData, note, bms, outside, history>>

\* ble_gap_disc(), under the lock: a scan is started, one runs already, or the host
\* refuses, after a reset or because of a connection being made.
Disc(next, started, refused) ==
    \/ ~op /\ op' = TRUE /\ next = started
    \/ op /\ op' = op /\ next = "enable"
    \/ ~op /\ op' = op /\ next = refused

LoopDisc ==
    /\ loop = "disc"
    /\ Disc(loop', "clear", "refused")
    /\ joined' = op
    /\ UNCHANGED <<host, completing, m_ignoreResults, m_pTaskData, note, bms, outside, missed>>

LoopClear ==
    /\ loop = "clear"
    /\ bms' = "no"
    /\ loop' = "enable"
    /\ UNCHANGED <<host, completing, op, m_ignoreResults, m_pTaskData, note, outside, history>>

\* Mutant: a scan that was refused leaves m_pTaskData set.
MutLoopEnable ==
    /\ loop \in {"enable", "refused"}
    /\ m_ignoreResults' = FALSE
    /\ loop' = IF loop = "enable" THEN "drain" ELSE "idle"
    /\ UNCHANGED <<host, completing, op, m_pTaskData, note, bms, outside, history>>

LoopEnable ==
    /\ loop \in {"enable", "refused"}
    /\ m_ignoreResults' = FALSE
    /\ loop' = IF loop = "enable" THEN "drain" ELSE "return"
    /\ UNCHANGED <<host, completing, op, m_pTaskData, note, bms, outside, history>>

\* "Clear the task notification value to ensure we block"
Drain ==
    /\ loop = "drain"
    /\ note' = FALSE /\ missed' = note
    /\ loop' = "wait"
    /\ UNCHANGED <<host, completing, op, m_ignoreResults, m_pTaskData, bms, outside, joined>>

\* ulTaskNotifyTake()
Wait ==
    /\ loop = "wait" /\ note
    /\ note' = FALSE
    /\ loop' = "return"
    /\ UNCHANGED <<host, completing, op, m_ignoreResults, m_pTaskData, bms, outside, history>>

Return ==
    /\ loop = "return"
    /\ m_pTaskData' = FALSE
    /\ loop' = "idle"
    /\ UNCHANGED <<host, completing, op, m_ignoreResults, note, bms, outside, history>>

ScanLoop == LoopIgnore \/ LoopDisc \/ LoopClear \/ LoopEnable \/ Drain \/ Wait \/ Return

\* NimBLEClient::connect() stops a scan, waits on the same notification and gets the
\* link or does not; disconnect() begins to close it.
ClientConnect ==
    /\ loop = "idle" /\ doConnect /\ link = "down"
    /\ op' = FALSE /\ note' = FALSE
    /\ \/ link' = "up" /\ doConnect' = FALSE
       \/ UNCHANGED outside
    /\ UNCHANGED <<loop, host, completing, m_ignoreResults, m_pTaskData, bms, history>>

Disconnect ==
    /\ loop = "idle" /\ link = "up"
    /\ link' = "closing"
    /\ UNCHANGED <<loop, host, completing, shared, doConnect, history>>

----------------------------------------------------------------------------
\* Host task

\* BLE_GAP_EVENT_DISC: an advertisement of the BMS waits for its scan response, with
\* which onResult() is called, once.  A device that is connected is ignored.
Report ==
    /\ host = "idle" /\ op /\ ~m_ignoreResults /\ link = "down"
    /\ \/ bms = "no" /\ bms' = "pending" /\ host' = "idle"
       \/ bms = "pending" /\ bms' = "told" /\ host' = "stop"
    /\ UNCHANGED <<loop, completing, op, m_ignoreResults, m_pTaskData, note, outside, history>>

\* Mutant: a scan that was stopped is not told to who waits for its end.
MutStop ==
    /\ host = "stop"
    /\ op' = FALSE
    /\ host' = "found"
    /\ UNCHANGED <<loop, completing, m_ignoreResults, m_pTaskData, note, bms, outside, history>>

\* onResult() calls stop(): ble_gap_disc_cancel() under the lock ...
Stop ==
    /\ host = "stop"
    /\ op' = FALSE
    /\ host' = "tell"
    /\ UNCHANGED <<loop, completing, m_ignoreResults, m_pTaskData, note, bms, outside, history>>

\* ... and the notification, if m_pTaskData is set, in a statement of its own.
Tell ==
    /\ \/ /\ host = "tell"
          /\ host' = IF m_pTaskData THEN "give" ELSE "found"
       \/ /\ host = "tellOver"
          /\ host' = IF m_pTaskData THEN "giveOver" ELSE "idle"
    /\ UNCHANGED <<loop, completing, shared, outside, history>>

Give ==
    /\ host \in {"give", "giveOver"}
    /\ note' = TRUE
    /\ host' = IF host = "give" THEN "found" ELSE "idle"
    /\ UNCHANGED <<loop, completing, op, m_ignoreResults, m_pTaskData, bms, outside, history>>

\* The loop task has gone on since, and what m_pTaskData pointed to with it: writing
\* there may end in a restart.
Crash ==
    /\ host \in {"give", "giveOver"} /\ ~m_pTaskData
    /\ loop' = "idle" /\ host' = "idle" /\ completing' = FALSE
    /\ op' = FALSE /\ m_ignoreResults' = FALSE /\ m_pTaskData' = FALSE /\ note' = FALSE
    /\ bms' = "no" /\ doConnect' = FALSE /\ link' = "down"
    /\ joined' = FALSE /\ missed' = FALSE

\* The rest of onResult().
Found ==
    /\ host = "found"
    /\ doConnect' = TRUE
    /\ host' = IF completing THEN "tellOver" ELSE "idle"
    /\ completing' = FALSE
    /\ UNCHANGED <<loop, shared, link, history>>

\* Mutant: who waits is told of a discovery that failed, not of one that timed out.
MutTimer ==
    /\ host = "idle" /\ op
    /\ loop \in {"clear", "enable", "drain"} => joined
    /\ op' = FALSE
    /\ host' = IF bms = "pending" THEN "over" ELSE "idle"
    /\ UNCHANGED <<loop, completing, m_ignoreResults, m_pTaskData, note, bms, outside, history>>

\* The timer of the procedure: its state is reset under the lock ...  Five seconds are
\* longer than what start() does between starting a scan and waiting for it.
Timer ==
    /\ host = "idle" /\ op
    /\ loop \in {"clear", "enable", "drain"} => joined
    /\ op' = FALSE
    /\ host' = "over"
    /\ UNCHANGED <<loop, completing, m_ignoreResults, m_pTaskData, note, bms, outside, history>>

\* ... then BLE_GAP_EVENT_DISC_COMPLETE.  A BMS whose scan response did not come is
\* given to onResult() now, which stops a scan once more and notifies once more.
Over ==
    /\ host = "over"
    /\ IF bms = "pending"
       THEN host' = "stop" /\ completing' = TRUE
       ELSE host' = "tellOver" /\ UNCHANGED completing
    /\ UNCHANGED <<loop, shared, outside, history>>

\* The link is lost: onDisconnect() calls start().
LinkLost ==
    /\ host = "idle" /\ link # "down"
    /\ link' = "down" /\ doConnect' = FALSE
    /\ host' = "ignore"
    /\ UNCHANGED <<loop, completing, shared, history>>

HostIgnore ==
    /\ host = "ignore"
    /\ m_ignoreResults' = TRUE
    /\ host' = "disc"
    /\ UNCHANGED <<loop, completing, op, m_pTaskData, note, bms, outside, history>>

HostDisc ==
    /\ host = "disc"
    /\ Disc(host', "clear", "enable")
    /\ UNCHANGED <<loop, completing, m_ignoreResults, m_pTaskData, note, bms, outside, history>>

HostClear ==
    /\ host = "clear"
    /\ bms' = "no"
    /\ host' = "enable"
    /\ UNCHANGED <<loop, completing, op, m_ignoreResults, m_pTaskData, note, outside, history>>

HostEnable ==
    /\ host = "enable"
    /\ m_ignoreResults' = FALSE
    /\ host' = "idle"
    /\ UNCHANGED <<loop, completing, op, m_pTaskData, note, bms, outside, history>>

HostTask == Stop \/ Tell \/ Give \/ Found \/ Over
              \/ HostIgnore \/ HostDisc \/ HostClear \/ HostEnable

ScanNext == ScanLoop \/ Setup \/ ClientConnect \/ Disconnect
          \/ HostTask \/ Crash \/ Report \/ Timer \/ LinkLost

\* Both tasks go on with what they are in, and the timer of a scan expires.
ScanSpec ==
    /\ ScanInit /\ [][ScanNext]_scanVars
    /\ WF_scanVars(ScanLoop) /\ WF_scanVars(HostTask) /\ WF_scanVars(Timer)

----------------------------------------------------------------------------
\* Properties

\* The host task is about to notify.
Ending == host \in {"over", "stop", "tell", "give", "tellOver", "giveOver"}

\* "Start scanning and block until scanning has been completed" (start()): who waits
\* waits for a scan, for the end of one, or has been told of it.  Refuted by Drain
\* (README, divergences).
BlocksForScan == loop = "wait" => note \/ op \/ Ending

\* However the two tasks meet in start(), stop() and the end of a scan, there is one way
\* only to wait for nothing: the scan ends before the notification is cleared.
OneWayToHang == missed \/ BlocksForScan

\* In every other case setup() comes back, with a BMS or without.
Returns == []<>(loop # "wait" \/ missed)

\* Results are not stored "while we are deleting the vector" (start()): refuted when
\* onDisconnect() resets m_ignoreResults in the middle (README, divergences).
OneWriter == [][Report /\ bms' # bms => loop # "clear"]_scanVars

\* Who is notified still waits: refuted by the second notification at the end of a scan
\* with a BMS whose scan response is missing (README, divergences).
NobodyGone == host \in {"give", "giveOver"} => m_pTaskData

====
