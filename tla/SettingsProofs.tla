---- MODULE SettingsProofs ----
(***************************************************************************)
(* Proofs about Settings for any number of fields, resets and power        *)
(* failures: the bridge comes up with what the flash has, and unless the   *)
(* two tasks have saved or loaded at a time since the boot, the flash      *)
(* holds settings that are in order and keeps what was saved.              *)
(***************************************************************************)
EXTENDS Settings, TLAPS

Fine(d) == \A f \in Fields : d.field[f] \notin {"zero", "odd"}

LEMMA Constant == Cleared \in Data /\ Defaults \in Data /\ Fine(Defaults)
  BY DEF Cleared, Defaults, Data, Values, Fine

\* check() leaves settings that are in order as they are.
LEMMA CheckedIsFine ==
    ASSUME NEW d \in Data
    PROVE  /\ Checked(d) \in Data /\ Checked(d).config = d.config
           /\ Fine(Checked(d))
           /\ Fine(d) => Checked(d) = d
<1> DEFINE g == [f \in Fields |-> IF d.field[f] \in {"zero", "odd"} THEN "default" ELSE d.field[f]]
<1>1. d.field \in [Fields -> Values] /\ d.config \in BOOLEAN /\ d = [config |-> d.config, field |-> d.field]
  BY DEF Data
<1>2. Checked(d) = [config |-> d.config, field |-> g]
  BY <1>1 DEF Checked
<1>3. g \in [Fields -> Values]
  BY <1>1 DEF Values
<1>4. ASSUME Fine(d) PROVE g = d.field
  BY <1>1, <1>4 DEF Fine
<1>5. Fine(Checked(d))
  <2>1. Checked(d).field = g
    BY <1>2
  <2>2. \A f \in Fields : g[f] \notin {"zero", "odd"}
    OBVIOUS
  <2> QED
    BY <2>1, <2>2, Zenon DEF Fine
<1> HIDE DEF g
<1>6. Checked(d) \in Data /\ Checked(d).config = d.config
  BY <1>1, <1>2, <1>3 DEF Data
<1>7. ASSUME Fine(d) PROVE Checked(d) = d
  BY <1>1, <1>2, <1>4, <1>7
<1> QED
  BY <1>5, <1>6, <1>7

\* The variables keep their types.
THEOREM Typing == Spec => []TypeOK
<1> USE DEF TypeOK
<1>1. Init => TypeOK
  <2> SUFFICES ASSUME Init PROVE TypeOK
    OBVIOUS
  <2>1. 0 \in 0..WipeAt /\ 0 \in 0..(WipeAt + 1) /\ 0 \in 0..MaxCrash
    BY SettingsAssumption DEF SettingsAssumption
  <2>2. pc \in [Tasks -> Steps] /\ nested \in [Tasks -> BOOLEAN] /\ pc["web"] = "idle"
    BY DEF Init, Tasks, Steps
  <2> QED
    BY <2>1, <2>2, Constant, Zenon DEF Init
<1>2. TypeOK /\ [Next]_vars => TypeOK'
  <2> SUFFICES ASSUME TypeOK, [Next]_vars PROVE TypeOK'
    OBVIOUS
  <2> USE DEF Goto, eeprom, counters, history
  <2>1. ASSUME NEW t \in Tasks, Step(t) PROVE TypeOK'
    <3> USE <2>1 DEF Tasks
    <3>1. CASE Check(t)
      <4>1. data' \in Data
        BY <3>1, CheckedIsFine DEF Check
      <4>2. pc' \in [Tasks -> Steps] /\ pc'["web"] \notin {"file", "setup"}
        BY <3>1 DEF Check, Steps
      <4> QED
        BY <3>1, <4>1, <4>2, Zenon DEF Check
    <3>2. CASE Begin(t)
      <4>2. pc' \in [Tasks -> Steps] /\ pc'["web"] \notin {"file", "setup"}
        BY <3>2 DEF Begin, Steps
      <4> QED
        BY <3>2, <4>2, Zenon DEF Begin
    <3>3. CASE Put(t)
      <4>2. pc' \in [Tasks -> Steps] /\ pc'["web"] \notin {"file", "setup"}
        BY <3>3 DEF Put, Steps
      <4>3. buffer' \in Data
        BY <3>3, Zenon DEF Put
      <4> QED
        BY <3>3, <4>2, <4>3, Zenon DEF Put
    <3>4. CASE Commit(t)
      <4>2. pc' \in [Tasks -> Steps] /\ pc'["web"] \notin {"file", "setup"}
        BY <3>4 DEF Commit, Steps
      <4>3. flash' \in Data
        BY <3>4, Zenon DEF Commit, Written
      <4>4. spoiled' \in BOOLEAN
        BY <3>4 DEF Commit, Written
      <4> QED
        BY <3>4, <4>2, <4>3, <4>4, Zenon DEF Commit
    <3>5. CASE End(t)
      <4>2. pc' \in [Tasks -> Steps] /\ pc'["web"] \notin {"file", "setup"}
        BY <3>5 DEF End, Steps
      <4>3. flash' \in Data
        BY <3>5, Zenon DEF End, Written
      <4>4. spoiled' \in BOOLEAN
        BY <3>5 DEF End, Written
      <4> QED
        BY <3>5, <4>2, <4>3, <4>4, Constant, Zenon DEF End
    <3>6. CASE Clear(t)
      <4>2. pc' \in [Tasks -> Steps] /\ pc'["web"] \notin {"file", "setup"}
        BY <3>6 DEF Clear, Steps
      <4> QED
        BY <3>6, <4>2, Constant, Zenon DEF Clear
    <3>7. CASE Get(t)
      <4>2. pc' \in [Tasks -> Steps] /\ pc'["web"] \notin {"file", "setup"}
        BY <3>7 DEF Get, Steps
      <4>3. data' \in Data
        BY <3>7, Zenon DEF Get
      <4> QED
        BY <3>7, <4>2, <4>3, Zenon DEF Get
    <3>8. CASE Config(t)
      <4>2. pc' \in [Tasks -> Steps] /\ pc'["web"] \notin {"file", "setup"}
        BY <3>8 DEF Config, Steps
      <4>3. data' \in Data
        BY <3>8, Constant, Zenon DEF Config
      <4>4. nested' \in [Tasks -> BOOLEAN]
        BY <3>8 DEF Config
      <4> QED
        BY <3>8, <4>2, <4>3, <4>4, Zenon DEF Config
    <3>9. CASE Check2(t)
      <4>2. pc' \in [Tasks -> Steps] /\ pc'["web"] \notin {"file", "setup"}
        BY <3>9 DEF Check2, Steps
      <4>3. data' \in Data
        BY <3>9, CheckedIsFine DEF Check2
      <4>4. nested' \in [Tasks -> BOOLEAN]
        BY <3>9 DEF Check2
      <4> QED
        BY <3>9, <4>2, <4>3, <4>4, Zenon DEF Check2
    <3> QED
      BY <3>1, <3>2, <3>3, <3>4, <3>5, <3>6, <3>7, <3>8, <3>9 DEF Step
  <2>2. CASE ConfigFile
    <3>1. pc' \in [Tasks -> Steps] /\ pc'["web"] \notin {"file", "setup"}
      BY <2>2 DEF ConfigFile, Steps, Tasks
    <3>2. data' \in Data
      BY <2>2 DEF ConfigFile, Data, Values
    <3> QED
      BY <2>2, <3>1, <3>2, Zenon DEF ConfigFile
  <2>3. CASE EndSetup
    <3>1. pc' \in [Tasks -> Steps] /\ pc'["web"] \notin {"file", "setup"}
      BY <2>3 DEF EndSetup, Steps, Tasks
    <3>2. 0 \in 0..WipeAt /\ 0 \in 0..(WipeAt + 1)
      BY SettingsAssumption DEF SettingsAssumption
    <3> QED
      BY <2>3, <3>1, <3>2, Zenon DEF EndSetup
  <2>4. ASSUME NEW reason \in {"power", "watchdog"}, Boot(reason), crashes' \in 0..MaxCrash
        PROVE  TypeOK'
    <3> DEFINE wipe(n) == reason = "watchdog" /\ Due(n)
    <3>1. PICK count \in {bootcount, 0} :
            /\ pc' = [t \in Tasks |-> IF t = "web" THEN "idle"
                                      ELSE IF wipe(count) THEN "check" ELSE "clear"]
            /\ bootcount' = IF ~(reason = "watchdog") THEN 0
                            ELSE IF wipe(count) THEN count ELSE count + 1
      BY <2>4, Zenon DEF Boot
    <3>2. pc' \in [Tasks -> Steps] /\ pc'["web"] \notin {"file", "setup"}
      BY <3>1 DEF Steps, Tasks
    <3>3. bootcount' \in 0..WipeAt
      BY <3>1, SettingsAssumption DEF Due, SettingsAssumption
    <3>4. streak' \in 0..(WipeAt + 1)
      <4>1. streak' \in {0, streak} \/ (~(streak > WipeAt) /\ streak' = streak + 1)
        BY <2>4 DEF Boot
      <4> QED
        BY <4>1, SettingsAssumption DEF SettingsAssumption
    <3>5. nested' \in [Tasks -> BOOLEAN]
      BY <2>4 DEF Boot
    <3>6. /\ data' = Cleared /\ buffer' = Cleared /\ flash' = flash /\ open' = FALSE /\ booting' = TRUE
          /\ crossed' = FALSE /\ stray' = FALSE /\ spoiled' = spoiled
      BY <2>4, Zenon DEF Boot
    <3> QED
      BY <2>4, <3>2, <3>3, <3>4, <3>5, <3>6, Constant, Zenon
  <2>5. CASE Hang
    BY <2>5, <2>4, Zenon DEF Hang
  <2>6. ASSUME NEW t \in Tasks, Save(t), data' \in Data PROVE TypeOK'
    <3>1. pc' \in [Tasks -> Steps] /\ pc'["web"] \notin {"file", "setup"}
      BY <2>6 DEF Save, Steps, Tasks
    <3>2. crossed' \in BOOLEAN
      BY <2>6, Zenon DEF Save
    <3> QED
      BY <2>6, <3>1, <3>2, Zenon DEF Save
  <2>7. CASE SettingsSave
    <3>1. PICK form \in [Fields -> {"user", "odd", "poison"}] : data' = [data EXCEPT !.field = form]
      BY <2>7 DEF SettingsSave
    <3>2. form \in [Fields -> Values]
      BY DEF Values
    <3>3. data' \in Data
      BY <3>1, <3>2 DEF Data
    <3> QED
      BY <2>7, <3>3, <2>6 DEF SettingsSave, Tasks
  <2>8. CASE Debug99
    BY <2>8, <2>6 DEF Debug99, Tasks
  <2>9. ASSUME NEW t \in Tasks, Store(t) PROVE TypeOK'
    <3>1. data' \in Data
      BY <2>9 DEF Store, Data, Values
    <3>2. stray' \in BOOLEAN
      BY <2>9, Zenon DEF Store
    <3> QED
      BY <2>9, <3>1, <3>2, Zenon DEF Store
  <2>10. CASE Crash
    <3>1. crashes' \in 0..MaxCrash
      BY <2>10, SettingsAssumption DEF Crash, SettingsAssumption
    <3> QED
      BY <2>10, <3>1, <2>4, Zenon DEF Crash
  <2>11. CASE UNCHANGED vars
    BY <2>11, Zenon DEF vars
  <2> QED
    BY <2>1, <2>2, <2>3, <2>5, <2>7, <2>8, <2>9, <2>10, <2>11 DEF Next, Set, Command, Tasks
<1> QED
  BY <1>1, <1>2, PTL DEF Spec

----------------------------------------------------------------------------

\* Why the settings are where they should be: what memory, buffer and flash have at
\* each step of save() and load(), in a save somebody has asked for (Owed) and in a
\* boot, which may find an empty flash or empty it.
Owed(t) == nested[t] \/ ~booting
Saving == {"check", "begin", "put", "commit"}

TaskInv(t) ==
    /\ pc[t] \in {"check", "begin", "put"} /\ Owed(t) => data.config
    /\ pc[t] \in {"begin", "put"} => Fine(data) \/ stray
    /\ pc[t] \in {"put", "commit", "end", "get", "end2"} => open
    /\ pc[t] = "commit" => (Fine(buffer) \/ stray) /\ (Owed(t) => buffer.config)
    /\ pc[t] \in {"end", "get", "end2"} => buffer = flash
    /\ pc[t] \in {"end", "clear", "begin2", "get", "end2", "config"} /\ Owed(t) => flash.config
    /\ pc[t] \in {"end2", "config"} => data.config = flash.config
    /\ pc[t] \in {"check2", "file", "setup"} => data.config /\ flash.config
    /\ pc[t] \in {"end2", "config"} /\ booting => data = flash
    /\ pc[t] = "check2" /\ booting => data \in {flash, Checked(flash)}
    /\ pc[t] = "file" => data = Checked(flash)
    /\ pc[t] = "setup" => \A f \in Fields \ InFile : data.field[f] = Checked(flash).field[f]
    /\ pc[t] \in Saving /\ nested[t] => ~flash.config
    /\ pc[t] \in Saving /\ ~Owed(t) => streak > WipeAt
    /\ pc[t] \in {"idle", "file", "setup"} => ~nested[t]

OneAtATime == \A t, u \in Tasks : t # u => pc[t] = "idle" \/ pc[u] = "idle"

BootInv ==
    /\ booting => pc["web"] = "idle" /\ pc["loop"] # "idle" /\ ~crossed
    /\ ~booting => pc["loop"] \notin {"file", "setup"}
    /\ bootcount <= streak

FlashInv == flash.config => Fine(flash) \/ spoiled

SettledInv == (\A t \in Tasks : pc[t] = "idle") => data.config /\ flash.config

AloneInv == (\A t \in Tasks : TaskInv(t)) /\ OneAtATime /\ SettledInv

\* What two saves at a time leave behind is right again with the next boot.
KeptInv == BootInv /\ FlashInv /\ (crossed \/ AloneInv)

\* A task that has nothing to do with the settings owes nothing.
LEMMA IdleTaskNext ==
    ASSUME NEW u \in Tasks, pc'[u] = "idle", ~nested'[u] PROVE TaskInv(u)'
  BY Zenon DEF TaskInv, Saving

\* One step of a task leaves the other where it is.
LEMMA Frame ==
    ASSUME TypeOK, KeptInv, ~crossed, NEW t \in Tasks, NEW step \in Steps, NEW n \in BOOLEAN,
           pc[t] # "idle", pc' = [pc EXCEPT ![t] = step], nested' = [nested EXCEPT ![t] = n],
           UNCHANGED <<counters, crossed>>,
           booting => step # "idle", ~booting => step \notin {"file", "setup"},
           TaskInv(t)', FlashInv',
           step = "idle" => data'.config /\ flash'.config
    PROVE  KeptInv'
<1>1. \A u \in Tasks \ {t} : pc[u] = "idle" /\ ~nested[u]
  BY DEF KeptInv, AloneInv, OneAtATime, TaskInv
<1>2. pc \in [Tasks -> Steps] /\ nested \in [Tasks -> BOOLEAN]
  BY DEF TypeOK
<1>3. pc'[t] = step /\ \A u \in Tasks \ {t} : pc'[u] = "idle" /\ ~nested'[u]
  BY <1>1, <1>2
<1>4. \A u \in Tasks : TaskInv(u)'
  BY <1>3, IdleTaskNext
<1>5. OneAtATime'
  BY <1>3, Zenon DEF OneAtATime
<1>6. BootInv'
  <2>1. bootcount' <= streak' /\ booting' = booting /\ ~crossed'
    BY DEF KeptInv, BootInv, counters
  <2>2. CASE t = "loop"
    <3>1. pc'["web"] = "idle" /\ pc'["loop"] = step
      BY <1>3, <2>2 DEF Tasks
    <3> QED
      BY <2>1, <3>1, Zenon DEF BootInv
  <2>3. CASE t = "web"
    <3>1. pc'["loop"] = "idle" /\ ~booting
      BY <1>3, <2>3 DEF Tasks, KeptInv, BootInv
    <3> QED
      BY <2>1, <3>1, Zenon DEF BootInv
  <2> QED
    BY <2>2, <2>3 DEF Tasks
<1>7. SettledInv'
  BY <1>3 DEF SettledInv
<1> QED
  BY <1>4, <1>5, <1>6, <1>7, Zenon DEF KeptInv, AloneInv

\* save() and load(), step by step, in either task.
LEMMA StepKeeps ==
    ASSUME TypeOK, KeptInv, ~crossed, NEW t \in Tasks, Step(t) PROVE KeptInv'
<1> USE DEF Goto, history
<1>1. /\ TaskInv(t) /\ t \in {"loop", "web"}
      /\ pc \in [Tasks -> Steps] /\ nested \in [Tasks -> BOOLEAN]
      /\ data \in Data /\ flash \in Data /\ buffer \in Data
      /\ flash.config => Fine(flash) \/ spoiled
  BY DEF KeptInv, AloneInv, TypeOK, Tasks, FlashInv
<1>2. nested[t] \in BOOLEAN /\ nested = [nested EXCEPT ![t] = nested[t]]
  BY <1>1
<1> DEFINE To(step) == pc' = [pc EXCEPT ![t] = step]
<1>3. ASSUME NEW step \in Steps \ {"idle", "file", "setup"}, To(step), pc[t] # "idle",
             UNCHANGED <<nested, counters, crossed>>, TaskInv(t)', FlashInv'
      PROVE  KeptInv'
  BY <1>2, <1>3, Frame
<1>14. ASSUME UNCHANGED <<flash, spoiled>> PROVE FlashInv'
  BY <1>14, <1>1 DEF FlashInv, Fine
<1>4. ASSUME NEW step \in Steps, To(step) PROVE pc'[t] = step
  BY <1>1, <1>4
<1>5. CASE Check(t)
  <2>1. pc[t] = "check" /\ To("begin") /\ data' = Checked(data)
        /\ UNCHANGED <<flash, nested, counters, crossed, spoiled>>
    BY <1>5 DEF Check
  <2>2. pc'[t] = "begin"
    BY <2>1, <1>4 DEF Steps
  <2>3. TaskInv(t)'
    BY <2>1, <2>2, <1>1, CheckedIsFine DEF TaskInv, Owed, Saving, counters, Fine
  <2> QED
    BY <2>1, <2>3, <1>3, <1>14 DEF Steps
<1>6. CASE Begin(t)
  <2>1. CASE pc[t] = "begin"
    <3>1. To("put") /\ open' = TRUE /\ buffer' = flash /\ UNCHANGED <<data, flash, nested, counters, history>>
      BY <2>1, <1>6 DEF Begin
    <3>2. pc'[t] = "put"
      BY <3>1, <1>4 DEF Steps
    <3>3. TaskInv(t)'
      BY <3>1, <3>2, <2>1, <1>1 DEF TaskInv, Owed, Saving, counters, Fine
    <3> QED
      BY <3>1, <3>3, <2>1, <1>3, <1>14 DEF Steps
  <2>2. CASE pc[t] = "begin2"
    <3>1. To("get") /\ open' = TRUE /\ buffer' = flash /\ UNCHANGED <<data, flash, nested, counters, history>>
      BY <2>2, <1>6 DEF Begin
    <3>2. pc'[t] = "get"
      BY <3>1, <1>4 DEF Steps
    <3>3. TaskInv(t)'
      BY <3>1, <3>2, <2>2, <1>1 DEF TaskInv, Owed, Saving, counters, Fine
    <3> QED
      BY <3>1, <3>3, <2>2, <1>3, <1>14 DEF Steps
  <2> QED
    BY <2>1, <2>2, <1>6 DEF Begin
<1>7. CASE Put(t)
  <2>1. pc[t] = "put" /\ To("commit") /\ UNCHANGED <<data, flash, open, nested, counters, history>>
    BY <1>7 DEF Put
  <2>2. pc'[t] = "commit" /\ buffer' = data
    BY <2>1, <1>4, <1>1, <1>7 DEF Steps, TaskInv, Put
  <2>3. TaskInv(t)'
    BY <2>1, <2>2, <1>1 DEF TaskInv, Owed, Saving, counters, Fine
  <2> QED
    BY <2>1, <2>3, <1>3, <1>14 DEF Steps
<1>8. CASE Commit(t)
  <2>1. pc[t] = "commit" /\ To("end") /\ UNCHANGED <<data, eeprom, nested, counters, crossed, stray>>
    BY <1>8 DEF Commit
  <2>2. pc'[t] = "end" /\ flash' = buffer
    BY <2>1, <1>4, <1>1, <1>8 DEF Steps, TaskInv, Commit, Written
  <2>3. TaskInv(t)'
    BY <2>1, <2>2, <1>1 DEF TaskInv, Owed, Saving, counters, Fine, eeprom
  <2>4. FlashInv'
    <3>1. spoiled' = IF flash' = flash THEN spoiled ELSE stray \/ crossed
      BY <1>8 DEF Commit, Written
    <3>2. flash'.config => Fine(flash)' \/ spoiled'
      <4>1. CASE flash' = flash
        BY <3>1, <4>1, <1>1 DEF Fine
      <4>2. CASE flash' # flash
        BY <3>1, <4>2, <2>1, <2>2, <1>1 DEF Fine, TaskInv
      <4> QED
        BY <4>1, <4>2
    <3> QED
      BY <3>2, Zenon DEF FlashInv
  <2> QED
    BY <2>1, <2>3, <2>4, <1>3, <1>14 DEF Steps
<1>9. CASE End(t)
  <2>1. flash' = flash /\ spoiled' = spoiled /\ open' = FALSE
        /\ UNCHANGED <<data, nested, counters, crossed, stray>>
    BY <1>9, <1>1 DEF End, Written, TaskInv
  <2>2. CASE pc[t] = "end"
    <3>1. To("clear")
      BY <2>2, <1>9 DEF End
    <3>2. pc'[t] = "clear"
      BY <3>1, <1>4 DEF Steps
    <3>3. TaskInv(t)'
      BY <3>2, <2>1, <2>2, <1>1 DEF TaskInv, Owed, Saving, counters
    <3> QED
      BY <3>1, <3>3, <2>1, <2>2, <1>3, <1>14 DEF Steps
  <2>3. CASE pc[t] = "end2"
    <3>1. To("config")
      BY <2>3, <1>9 DEF End
    <3>2. pc'[t] = "config"
      BY <3>1, <1>4 DEF Steps
    <3>3. TaskInv(t)'
      BY <3>2, <2>1, <2>3, <1>1 DEF TaskInv, Owed, Saving, counters
    <3> QED
      BY <3>1, <3>3, <2>1, <2>3, <1>3, <1>14 DEF Steps
  <2> QED
    BY <2>2, <2>3, <1>9 DEF End
<1>10. CASE Clear(t)
  <2>1. pc[t] = "clear" /\ To("begin2") /\ UNCHANGED <<flash, nested, counters, history>>
    BY <1>10 DEF Clear
  <2>2. pc'[t] = "begin2"
    BY <2>1, <1>4 DEF Steps
  <2>3. TaskInv(t)'
    BY <2>1, <2>2, <1>1 DEF TaskInv, Owed, Saving, counters
  <2> QED
    BY <2>1, <2>3, <1>3, <1>14 DEF Steps
<1>11. CASE Get(t)
  <2>1. pc[t] = "get" /\ To("end2") /\ UNCHANGED <<flash, eeprom, nested, counters, history>>
    BY <1>11 DEF Get
  <2>2. pc'[t] = "end2" /\ data' = flash
    BY <2>1, <1>4, <1>1, <1>11 DEF Steps, TaskInv, Get
  <2>3. TaskInv(t)'
    BY <2>1, <2>2, <1>1 DEF TaskInv, Owed, Saving, counters, eeprom
  <2> QED
    BY <2>1, <2>3, <1>3, <1>14 DEF Steps
<1>12. CASE Config(t)
  <2>1. pc[t] = "config" /\ UNCHANGED <<flash, counters, history>>
    BY <1>12 DEF Config
  <2>2. CASE data.config
    <3>1. To("check2") /\ UNCHANGED <<data, nested>>
      BY <2>2, <1>12 DEF Config
    <3>2. pc'[t] = "check2"
      BY <3>1, <1>4 DEF Steps
    <3>3. TaskInv(t)'
      BY <3>1, <3>2, <2>1, <2>2, <1>1 DEF TaskInv, Owed, Saving, counters
    <3> QED
      BY <3>1, <3>3, <2>1, <1>3, <1>14 DEF Steps
  <2>3. CASE ~data.config
    <3>1. To("check") /\ data' = Defaults /\ nested' = [nested EXCEPT ![t] = TRUE]
      BY <2>3, <1>12 DEF Config
    <3>2. pc'[t] = "check" /\ nested'[t]
      BY <3>1, <1>4, <1>1 DEF Steps
    <3>3. data'.config
      BY <3>1 DEF Defaults
    <3>4. TaskInv(t)'
      BY <3>2, <3>3, <2>1, <2>3, <1>1 DEF TaskInv, Owed, Saving, counters
    <3> QED
      BY <3>1, <3>4, <2>1, <1>14, Frame DEF Steps
  <2> QED
    BY <2>2, <2>3
<1>13. CASE Check2(t)
  <2>1. /\ pc[t] = "check2" /\ data' = Checked(data) /\ UNCHANGED <<flash, counters, history>>
        /\ nested' = [nested EXCEPT ![t] = FALSE]
    BY <1>13 DEF Check2
  <2>2. /\ ~nested'[t] /\ data'.config /\ flash'.config
        /\ booting => data' = Checked(flash)'
    <3>1. data'.config = data.config /\ Checked(Checked(flash)) = Checked(flash)
      BY <2>1, <1>1, CheckedIsFine
    <3>2. ~nested'[t] /\ data'.config /\ flash'.config
      BY <2>1, <3>1, <1>1 DEF TaskInv
    <3>3. booting => data' = Checked(flash')
      BY <2>1, <3>1, <1>1 DEF TaskInv
    <3> QED
      BY <3>2, <3>3 DEF Checked
  <2>3. CASE nested[t]
    <3>1. To("check2") /\ pc'[t] = "check2"
      BY <2>1, <2>3, <1>1, <1>13 DEF Check2
    <3>2. TaskInv(t)'
      BY <3>1, <2>1, <2>2, <1>1 DEF TaskInv, Owed, Saving, counters
    <3> QED
      BY <3>1, <3>2, <2>1, <1>14, Frame DEF Steps
  <2>4. CASE ~nested[t] /\ t = "loop" /\ booting
    <3>1. To("file") /\ pc'[t] = "file"
      BY <2>1, <2>4, <1>1, <1>13 DEF Check2
    <3>2. TaskInv(t)'
      BY <3>1, <2>1, <2>2, <2>4, <1>1 DEF TaskInv, Owed, Saving, counters
    <3> QED
      BY <3>1, <3>2, <2>1, <2>4, <1>14, Frame DEF Steps
  <2>5. CASE ~nested[t] /\ ~(t = "loop" /\ booting)
    <3>1. To("idle") /\ pc'[t] = "idle"
      BY <2>1, <2>5, <1>1, <1>13 DEF Check2
    <3>2. ~booting
      BY <2>1, <2>5, <1>1 DEF KeptInv, BootInv
    <3>3. TaskInv(t)'
      BY <3>1, <2>2, IdleTaskNext
    <3> QED
      BY <3>1, <3>2, <3>3, <2>1, <2>2, <1>14, Frame DEF Steps
  <2> QED
    BY <2>3, <2>4, <2>5
<1> QED
  BY <1>5, <1>6, <1>7, <1>8, <1>9, <1>10, <1>11, <1>12, <1>13 DEF Step

\* One field changes: harmless, but for a refused value between check() and put().
LEMMA StoreKeeps ==
    ASSUME TypeOK, KeptInv, ~crossed, NEW t \in Tasks, Store(t) PROVE KeptInv'
<1>1. /\ ~booting /\ pc[t] = "idle" /\ data \in Data
      /\ UNCHANGED <<flash, eeprom, pc, nested, counters, crossed, spoiled>>
  BY DEF Store, Free, TypeOK
<1>2. AloneInv
  BY Zenon DEF KeptInv
<1>3. PICK f \in Fields, v \in {"user", "odd"} :
        /\ data' = [data EXCEPT !.field[f] = v]
        /\ stray' = (stray \/ (v = "odd" /\ \E u \in Tasks : pc[u] \in {"begin", "put"}))
  BY DEF Store
<1>4. data'.config = data.config /\ \A g \in Fields : data'.field[g] \in {data.field[g], v}
  BY <1>1, <1>3 DEF Data
<1>5. ASSUME NEW u \in Tasks PROVE TaskInv(u)'
  <2>1. TaskInv(u) /\ pc[u] \notin {"file", "setup"}
    BY <1>1, <1>2 DEF AloneInv, KeptInv, BootInv, TypeOK, Tasks
  <2>2. pc[u] \in {"begin", "put"} /\ (Fine(data) \/ stray) => Fine(data)' \/ stray'
    BY <1>3, <1>4 DEF Fine
  <2>3. stray => stray'
    BY <1>3
  <2>4. ~booting' /\ Owed(u)' /\ Owed(u)
    BY <1>1 DEF Owed, counters
  <2>5. Fine(buffer) => Fine(buffer')
    BY <1>1 DEF eeprom
  <2> QED
    BY <1>1, <1>4, <2>1, <2>2, <2>3, <2>4, <2>5 DEF TaskInv, Saving, eeprom, Fine
<1>6. OneAtATime' /\ BootInv' /\ FlashInv'
  BY <1>1, <1>2 DEF AloneInv, OneAtATime, KeptInv, BootInv, FlashInv, Fine, counters
<1>7. SettledInv'
  BY <1>1, <1>2, <1>4 DEF AloneInv, SettledInv
<1> QED
  BY <1>5, <1>6, <1>7 DEF KeptInv, AloneInv

\* A save begins while the other task is done with the settings, or crosses its way.
LEMMA SaveKeeps ==
    ASSUME TypeOK, KeptInv, ~crossed, NEW t \in Tasks, Save(t), data'.config = data.config
    PROVE  KeptInv'
<1>1. /\ pc[t] = "idle" /\ ~booting /\ pc' = [pc EXCEPT ![t] = "check"]
      /\ UNCHANGED <<flash, eeprom, nested, counters, stray, spoiled>>
      /\ crossed' = (crossed \/ \E u \in Tasks : pc[u] # "idle")
      /\ pc \in [Tasks -> Steps]
  BY DEF Save, Free, Goto, TypeOK
<1>2. BootInv' /\ FlashInv'
  BY <1>1 DEF KeptInv, BootInv, FlashInv, Fine, counters, Tasks
<1>3. CASE crossed'
  BY <1>2, <1>3, Zenon DEF KeptInv
<1>4. CASE ~crossed'
  <2>1. \A u \in Tasks : pc[u] = "idle"
    BY <1>1, <1>4
  <2>2. data.config /\ flash.config /\ \A u \in Tasks : ~nested[u]
    BY <2>1 DEF KeptInv, AloneInv, SettledInv, TaskInv
  <2>3. pc'[t] = "check" /\ \A u \in Tasks \ {t} : pc'[u] = "idle" /\ ~nested'[u]
    BY <1>1, <2>1, <2>2
  <2>4. TaskInv(t)'
    BY <1>1, <2>2, <2>3 DEF TaskInv, Owed, Saving, counters
  <2>5. \A u \in Tasks : TaskInv(u)'
    BY <2>3, <2>4, IdleTaskNext
  <2>6. OneAtATime' /\ SettledInv'
    BY <2>3 DEF OneAtATime, SettledInv
  <2> QED
    BY <1>2, <2>5, <2>6, Zenon DEF KeptInv, AloneInv
<1> QED
  BY <1>3, <1>4

\* A boot finds the flash as it was left, by whatever was going on, and empties it only
\* when it has counted enough of them.
LEMMA BootKeeps ==
    ASSUME TypeOK, KeptInv, NEW reason, Boot(reason) PROVE KeptInv'
<1>1. /\ WipeAt \in Nat \ {0}
      /\ bootcount \in Nat /\ streak \in Nat /\ bootcount <= streak
  BY SettingsAssumption DEF SettingsAssumption, TypeOK, KeptInv, BootInv
<1>2. /\ flash' = flash /\ spoiled' = spoiled /\ ~crossed' /\ booting'
      /\ \A u \in Tasks : ~nested'[u]
      /\ pc'["web"] = "idle" /\ pc'["loop"] \in {"check", "clear"}
  BY Zenon DEF Boot, Tasks
<1>3. pc'["loop"] = "check" => streak' > WipeAt
  <2>1. SUFFICES ASSUME pc'["loop"] = "check" PROVE streak' > WipeAt
    OBVIOUS
  <2>2. /\ bootcount >= WipeAt \/ 0 >= WipeAt
        /\ streak' = IF streak > WipeAt THEN streak ELSE streak + 1
    BY <2>1 DEF Boot, Due, Tasks
  <2> QED
    BY <2>2, <1>1
<1>4. bootcount' <= streak'
  <2>1. PICK count \in {bootcount, 0} :
          /\ bootcount' \in {0, count, count + 1}
          /\ streak' \in {0, streak, streak + 1}
          /\ bootcount' # 0 => /\ streak' = IF streak > WipeAt THEN streak ELSE streak + 1
                               /\ bootcount' = count + 1 => count < WipeAt
    BY <1>1 DEF Boot, Due
  <2>2. bootcount' <= streak'
    BY <2>1, <1>1
  <2> QED
    BY <2>2
<1>5. TaskInv("web")'
  BY <1>2, IdleTaskNext DEF Tasks
<1>6. TaskInv("loop")'
  BY <1>2, <1>3 DEF TaskInv, Owed, Saving, Tasks
<1>7. OneAtATime' /\ BootInv' /\ SettledInv'
  BY <1>2, <1>4 DEF OneAtATime, BootInv, SettledInv, Tasks
<1>8. FlashInv'
  BY <1>2 DEF KeptInv, FlashInv, Fine
<1> QED
  BY <1>5, <1>6, <1>7, <1>8 DEF KeptInv, AloneInv, Tasks

\* Whatever two saves at a time do, they mark the flash they write.
LEMMA CrossedKeeps ==
    ASSUME TypeOK, KeptInv, crossed, [Next]_vars PROVE KeptInv'
<1>1. ~booting /\ pc["loop"] \notin {"file", "setup"} /\ bootcount <= streak
  BY DEF KeptInv, BootInv
<1>2. pc \in [Tasks -> Steps]
  BY DEF TypeOK
<1>3. ASSUME crossed', UNCHANGED counters, pc'["loop"] \notin {"file", "setup"},
             UNCHANGED <<flash, spoiled>> \/ spoiled'
      PROVE  KeptInv'
  <2>1. BootInv'
    BY <1>1, <1>3 DEF BootInv, counters
  <2>2. FlashInv'
    BY <1>3 DEF KeptInv, FlashInv, Fine
  <2> QED
    BY <1>3, <2>1, <2>2, Zenon DEF KeptInv
<1>4. ASSUME NEW t \in Tasks, Step(t) PROVE KeptInv'
  <2>1. PICK step \in Steps \ {"file", "setup"} : pc' = [pc EXCEPT ![t] = step]
    <3>1. CASE Check2(t)
      <4>1. CASE nested[t]
        <5>1. pc' = [pc EXCEPT ![t] = "check2"]
          BY <3>1, <4>1, <1>2 DEF Check2
        <5> QED
          BY <5>1 DEF Steps
      <4>2. CASE ~nested[t]
        BY <3>1, <4>2, <1>1 DEF Check2, Goto, Steps
      <4> QED
        BY <4>1, <4>2
    <3>2. CASE ~Check2(t)
      BY <1>4, <3>2 DEF Step, Check, Begin, Put, Commit, End, Clear, Get, Config, Goto, Steps
    <3> QED
      BY <3>1, <3>2
  <2>2. pc'["loop"] \notin {"file", "setup"}
    BY <2>1, <1>1, <1>2 DEF Tasks
  <2>3. crossed' /\ UNCHANGED counters
    BY <1>4 DEF Step, Check, Begin, Put, Commit, End, Clear, Get, Config, Check2, history
  <2>4. UNCHANGED <<flash, spoiled>> \/ spoiled'
    BY <1>4 DEF Step, Check, Begin, Put, Commit, End, Clear, Get, Config, Check2, Written, history
  <2> QED
    BY <1>3, <2>2, <2>3, <2>4
<1>5. ASSUME NEW t \in Tasks, Save(t) PROVE KeptInv'
  <2>1. pc' = [pc EXCEPT ![t] = "check"] /\ crossed' /\ UNCHANGED <<flash, spoiled, counters>>
    BY <1>5 DEF Save, Goto
  <2>2. pc'["loop"] \notin {"file", "setup"}
    BY <2>1, <1>1, <1>2 DEF Tasks
  <2> QED
    BY <1>3, <2>1, <2>2
<1>6. ASSUME NEW t \in Tasks, Store(t) PROVE KeptInv'
  <2>1. crossed' /\ pc' = pc /\ UNCHANGED <<flash, spoiled, counters>>
    BY <1>6 DEF Store
  <2> QED
    BY <1>1, <1>3, <2>1
<1>7. CASE ConfigFile \/ EndSetup \/ Hang
  BY <1>7, <1>1 DEF ConfigFile, EndSetup, Hang
<1>8. CASE Crash
  BY <1>8, BootKeeps DEF Crash
<1>9. CASE UNCHANGED vars
  BY <1>9, <1>1, <1>3 DEF vars, history
<1> QED
  BY <1>4, <1>5, <1>6, <1>7, <1>8, <1>9 DEF Next, SettingsSave, Debug99, Set, Command, Tasks

LEMMA KeptInvariant == Spec => []KeptInv
<1>1. Init => KeptInv
  <2> SUFFICES ASSUME Init PROVE KeptInv
    OBVIOUS
  <2>1. /\ pc["loop"] = "clear" /\ pc["web"] = "idle" /\ booting /\ ~crossed
        /\ \A u \in Tasks : ~nested[u]
    BY DEF Init, Tasks
  <2>2. ~flash.config /\ bootcount <= streak
    BY DEF Init, Cleared
  <2>3. \A u \in Tasks : TaskInv(u)
    BY <2>1 DEF TaskInv, Owed, Saving, Tasks
  <2> QED
    BY <2>1, <2>2, <2>3 DEF KeptInv, AloneInv, OneAtATime, BootInv, FlashInv, SettledInv, Tasks
<1>2. TypeOK /\ KeptInv /\ [Next]_vars => KeptInv'
  <2> SUFFICES ASSUME TypeOK, KeptInv, ~crossed, [Next]_vars PROVE KeptInv'
    BY CrossedKeeps
  <2>0. /\ \A t \in Tasks : TaskInv(t)
        /\ OneAtATime /\ BootInv /\ FlashInv
        /\ pc \in [Tasks -> Steps] /\ nested \in [Tasks -> BOOLEAN]
        /\ data \in Data /\ flash \in Data /\ Checked(flash) \in Data
    BY CheckedIsFine DEF KeptInv, AloneInv, TypeOK
  <2>1. CASE \E t \in Tasks : Step(t)
    BY <2>1, StepKeeps
  <2>2. CASE ConfigFile
    <3>1. /\ pc["loop"] = "file" /\ pc' = [pc EXCEPT !["loop"] = "setup"]
          /\ UNCHANGED <<flash, nested, counters, history>>
      BY <2>2 DEF ConfigFile, Goto
    <3>2. data = Checked(flash) /\ data.config /\ flash.config /\ ~nested["loop"] /\ booting
      BY <3>1, <2>0 DEF TaskInv, Tasks, BootInv
    <3>3. data'.config /\ \A f \in Fields \ InFile : data'.field[f] = Checked(flash).field[f]
      BY <2>2, <3>2, <2>0 DEF ConfigFile, Data
    <3>4. pc'["loop"] = "setup"
      BY <3>1, <2>0 DEF Tasks
    <3>5. \A f \in Fields \ InFile : data'.field[f] = Checked(flash').field[f]
      BY <3>1, <3>3
    <3>6. TaskInv("loop")'
      BY <3>1, <3>2, <3>3, <3>4, <3>5 DEF TaskInv, Owed, Saving, Checked
    <3>7. nested = [nested EXCEPT !["loop"] = FALSE] /\ FlashInv'
      BY <3>1, <3>2, <2>0 DEF FlashInv, Fine, history
    <3> QED
      BY <3>1, <3>2, <3>6, <3>7, Frame DEF Tasks, Steps, history
  <2>3. CASE EndSetup
    <3>1. /\ pc["loop"] = "setup" /\ pc' = [pc EXCEPT !["loop"] = "idle"] /\ ~booting'
          /\ bootcount' = 0 /\ streak' = 0 /\ UNCHANGED <<data, flash, nested, history>>
      BY <2>3, Zenon DEF EndSetup, Goto
    <3>2. /\ pc["web"] = "idle" /\ data.config /\ flash.config
          /\ \A u \in Tasks : ~nested[u]
      BY <3>1, <2>0 DEF TaskInv, Tasks, OneAtATime
    <3>3. \A u \in Tasks : pc'[u] = "idle" /\ ~nested'[u]
      BY <3>1, <3>2, <2>0 DEF Tasks
    <3>4. \A u \in Tasks : TaskInv(u)'
      BY <3>3, IdleTaskNext
    <3>5. OneAtATime' /\ BootInv' /\ SettledInv'
      BY <3>1, <3>2, <3>3 DEF OneAtATime, BootInv, SettledInv, Tasks
    <3>6. FlashInv'
      BY <3>1, <2>0 DEF FlashInv, Fine, history
    <3> QED
      BY <3>4, <3>5, <3>6 DEF KeptInv, AloneInv
  <2>4. CASE Hang
    BY <2>4, BootKeeps DEF Hang
  <2>5. CASE SettingsSave
    <3>1. data'.config = data.config
      BY <2>5, <2>0 DEF SettingsSave, Data
    <3> QED
      BY <2>5, <3>1, SaveKeeps DEF SettingsSave, Tasks
  <2>6. CASE Debug99
    BY <2>6, SaveKeeps DEF Debug99, Tasks
  <2>7. CASE Set \/ Command
    BY <2>7, StoreKeeps DEF Set, Command, Tasks
  <2>8. CASE Crash
    BY <2>8, BootKeeps DEF Crash
  <2>9. CASE UNCHANGED vars
    BY <2>9 DEF vars, eeprom, counters, history, KeptInv, AloneInv, TaskInv, Owed, OneAtATime,
                BootInv, FlashInv, SettledInv, Fine, Checked
  <2> QED
    BY <2>1, <2>2, <2>3, <2>4, <2>5, <2>6, <2>7, <2>8, <2>9 DEF Next
<1> QED
  BY <1>1, <1>2, Typing, PTL DEF Spec

----------------------------------------------------------------------------

\* Memory and flash are in order when both tasks are done, unless both have saved or
\* loaded at a time since the boot; and check() keeps what it refuses out of the flash.
THEOREM Settled == Spec => []SettledIsSane
<1>1. KeptInv => SettledIsSane
  BY DEF KeptInv, AloneInv, FlashInv, SettledInv, Fine, SettledIsSane
<1> QED
  BY <1>1, KeptInvariant, PTL

\* The bridge comes up with what the flash has, put in order by check(), in every boot.
THEOREM BootsFromFlash == Spec => []BootUsesFlash
<1>1. KeptInv => BootUsesFlash
  BY DEF KeptInv, AloneInv, BootInv, TaskInv, Tasks, BootUsesFlash
<1> QED
  BY <1>1, KeptInvariant, PTL

\* No power failure in the middle of save() and load() loses what was saved: unless two
\* saves cross, the flash changes in commit(), and there to settings of this version
\* until the watchdog has bitten WipeAt times.
THEOREM Kept == Spec => SettingsKept
<1> DEFINE Change == flash.config /\ flash' # flash =>
                       \/ streak > WipeAt
                       \/ crossed
                       \/ flash'.config /\ \A t \in Tasks : ~nested[t]
<1>1. TypeOK /\ KeptInv /\ [Next]_vars => [Change]_vars
  <2> SUFFICES ASSUME TypeOK, KeptInv, [Next]_vars, flash.config, flash' # flash, ~crossed
               PROVE  streak > WipeAt \/ (flash'.config /\ \A t \in Tasks : ~nested[t])
    OBVIOUS
  <2>1. PICK t \in Tasks : Commit(t) \/ End(t)
    BY Zenon DEF Next, Step, Check, Begin, Put, Clear, Get, Config, Check2, ConfigFile,
                 EndSetup, Hang, SettingsSave, Set, Command, Debug99, Save, Store, Crash, Boot,
                 vars
  <2>2. TaskInv(t) /\ \A u \in Tasks \ {t} : pc[t] = "idle" \/ (pc[u] = "idle" /\ ~nested[u])
    BY DEF KeptInv, AloneInv, OneAtATime, TaskInv
  <2>3. CASE Commit(t)
    <3>1. pc[t] = "commit" /\ flash' = buffer
      BY <2>2, <2>3 DEF Commit, Written, TaskInv
    <3>2. ~nested[t]
      BY <3>1, <2>2 DEF TaskInv, Saving
    <3>3. booting => streak > WipeAt
      BY <3>1, <3>2, <2>2 DEF TaskInv, Saving, Owed
    <3>4. ~booting => flash'.config
      BY <3>1, <2>2 DEF TaskInv, Owed
    <3> QED
      BY <3>1, <3>2, <3>3, <3>4, <2>2
  <2>4. CASE End(t)
    BY <2>2, <2>4 DEF End, Written, TaskInv
  <2> QED
    BY <2>1, <2>3, <2>4
<1> QED
  BY <1>1, KeptInvariant, Typing, PTL DEF Spec, SettingsKept

====
