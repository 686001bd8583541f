---- MODULE Settings ----
(***************************************************************************)
(* The settings and their copy in the flash: Setup::load(), save(),        *)
(* check(), checkConfig() and reset() (Setup.cpp), the boot that reads     *)
(* them and counts watchdog resets (main.cpp), and the two tasks that save *)
(* them: the page /settingssave runs in the web server's task, the debug   *)
(* command 99 in the loop task.  Power may fail between any two steps.     *)
(*                                                                         *)
(* Abstracted: a setting is one of a few values, told apart by what        *)
(* check() and a boot make of them.  The EEPROM library is external: one   *)
(* RAM buffer, which begin() fills from the flash, get() and put() use,    *)
(* commit() writes in one step that a power failure does not tear, and     *)
(* end() frees; without a buffer get() and put() do nothing.               *)
(***************************************************************************)
EXTENDS Naturals

CONSTANTS
    Fields,     \* the settings told apart
    InFile,     \* ... those that config.json gives a value
    WipeAt,     \* watchdog boots in a row after which the settings are reset (10)
    MaxCrash    \* power failures and resets, besides those a setting causes

ASSUME SettingsAssumption ==
    /\ InFile \subseteq Fields
    /\ WipeAt \in Nat \ {0} /\ MaxCrash \in Nat

\* "zero" as memory is at boot, "odd" for one that check() refuses, "poison" for one
\* that it accepts and that hangs setup().
Values == {"zero", "default", "file", "user", "odd", "poison"}
Data == [config : BOOLEAN, field : [Fields -> Values]]  \* config is configVersion

Tasks == {"loop", "web"}
Steps == {"idle",
          "check", "begin", "put", "commit", "end",                     \* save()
          "clear", "begin2", "get", "end2", "config", "check2",         \* load()
          "file", "setup"}                                              \* of main

VARIABLES
    data, flash,
    open,       \* EEPROM has its buffer
    buffer,
    pc,
    booting,    \* setup() of main has not come to its end
    nested,     \* the task is in the save() and load() of checkConfig()
    bootcount,
    streak,     \* watchdog boots since setup() was last completed
    crashes,
    crossed,    \* history: both tasks were in save() or load() at a time since the boot
    stray,      \* history: a refused value came between check() and put() of a save
    spoiled     \* history: ... and so may be in the flash

eeprom == <<open, buffer>>
counters == <<booting, bootcount, streak, crashes>>
history == <<crossed, stray, spoiled>>
vars == <<data, flash, eeprom, pc, nested, counters, history>>

Cleared == [config |-> FALSE, field |-> [f \in Fields |-> "zero"]]
Defaults == [config |-> TRUE, field |-> [f \in Fields |-> "default"]]

TypeOK ==
    /\ data \in Data /\ flash \in Data /\ buffer \in Data /\ open \in BOOLEAN
    /\ pc \in [Tasks -> Steps] /\ nested \in [Tasks -> BOOLEAN]
    /\ pc["web"] \notin {"file", "setup"}
    /\ booting \in BOOLEAN
    /\ bootcount \in 0..WipeAt /\ streak \in 0..(WipeAt + 1) /\ crashes \in 0..MaxCrash
    /\ crossed \in BOOLEAN /\ stray \in BOOLEAN /\ spoiled \in BOOLEAN

\* A new device: nothing in the flash.
Init ==
    /\ data = Cleared /\ flash = Cleared /\ open = FALSE /\ buffer = Cleared
    /\ pc = [t \in Tasks |-> IF t = "loop" THEN "clear" ELSE "idle"]
    /\ nested = [t \in Tasks |-> FALSE] /\ booting = TRUE
    /\ bootcount = 0 /\ streak = 0 /\ crashes = 0
    /\ crossed = FALSE /\ stray = FALSE /\ spoiled = FALSE

\* check(): what is out of range is replaced.
Checked(d) ==
    [d EXCEPT !.field = [f \in Fields |-> IF @[f] \in {"zero", "odd"} THEN "default" ELSE @[f]]]

Goto(t, step) == pc' = [pc EXCEPT ![t] = step]

----------------------------------------------------------------------------
\* save()

\* Mutant: the settings are saved as they are.
MutCheck(t) ==
    /\ pc[t] = "check" /\ stray' = FALSE
    /\ Goto(t, "begin")
    /\ UNCHANGED <<data, flash, eeprom, nested, counters, crossed, spoiled>>

Check(t) ==
    /\ pc[t] = "check"
    /\ data' = Checked(data) /\ stray' = FALSE
    /\ Goto(t, "begin")
    /\ UNCHANGED <<flash, eeprom, nested, counters, crossed, spoiled>>

Begin(t) ==
    /\ pc[t] \in {"begin", "begin2"}
    /\ open' = TRUE /\ buffer' = flash
    /\ Goto(t, IF pc[t] = "begin" THEN "put" ELSE "get")
    /\ UNCHANGED <<data, flash, nested, counters, history>>

Put(t) ==
    /\ pc[t] = "put"
    /\ buffer' = IF open THEN data ELSE buffer
    /\ Goto(t, "commit")
    /\ UNCHANGED <<data, flash, open, nested, counters, history>>

Written ==
    /\ flash' = IF open THEN buffer ELSE flash
    /\ spoiled' = IF flash' = flash THEN spoiled ELSE stray \/ crossed

Commit(t) ==
    /\ pc[t] = "commit"
    /\ Written
    /\ Goto(t, "end")
    /\ UNCHANGED <<data, eeprom, nested, counters, crossed, stray>>

\* end() writes what is not yet written.  Every save() is followed by a load().
End(t) ==
    /\ pc[t] \in {"end", "end2"}
    /\ Written /\ open' = FALSE /\ buffer' = Cleared
    /\ Goto(t, IF pc[t] = "end" THEN "clear" ELSE "config")
    /\ UNCHANGED <<data, nested, counters, crossed, stray>>

----------------------------------------------------------------------------
\* load()

Clear(t) ==
    /\ pc[t] = "clear"
    /\ data' = Cleared
    /\ Goto(t, "begin2")
    /\ UNCHANGED <<flash, eeprom, nested, counters, history>>

Get(t) ==
    /\ pc[t] = "get"
    /\ data' = IF open THEN buffer ELSE data
    /\ Goto(t, "end2")
    /\ UNCHANGED <<flash, eeprom, nested, counters, history>>

\* Mutant: the defaults are for this time only.
MutConfig(t) ==
    /\ pc[t] = "config"
    /\ data' = IF data.config THEN data ELSE Defaults
    /\ Goto(t, "check2")
    /\ UNCHANGED <<flash, eeprom, nested, counters, history>>

\* checkConfig(): settings of another version give way to the defaults, which are
\* saved and loaded in turn.
Config(t) ==
    /\ pc[t] = "config"
    /\ \/ /\ data.config
          /\ Goto(t, "check2")
          /\ UNCHANGED <<data, nested>>
       \/ /\ ~data.config
          /\ data' = Defaults
          /\ nested' = [nested EXCEPT ![t] = TRUE]
          /\ Goto(t, "check")
    /\ UNCHANGED <<flash, eeprom, counters, history>>

\* The last line of load(): once for the nested one, once for the outer.  The loop
\* task goes on in setup() if that is where it came from.
Check2(t) ==
    /\ pc[t] = "check2"
    /\ data' = Checked(data)
    /\ nested' = [nested EXCEPT ![t] = FALSE]
    /\ \/ nested[t] /\ UNCHANGED pc
       \/ ~nested[t] /\ Goto(t, IF t = "loop" /\ booting THEN "file" ELSE "idle")
    /\ UNCHANGED <<flash, eeprom, counters, history>>

Step(t) == Check(t) \/ Begin(t) \/ Put(t) \/ Commit(t) \/ End(t)
             \/ Clear(t) \/ Get(t) \/ Config(t) \/ Check2(t)

----------------------------------------------------------------------------
\* Those who change and save the settings

Free(t) == pc[t] = "idle" /\ ~booting

\* A save begins, whether the other task is in the middle of one or not.
Save(t) ==
    /\ Free(t) /\ Goto(t, "check")
    /\ crossed' = (crossed \/ \E u \in Tasks : pc[u] # "idle")
    /\ UNCHANGED <<flash, eeprom, nested, counters, stray, spoiled>>

\* /settingssave stores every field of the form, then saves and loads.
SettingsSave ==
    /\ \E form \in [Fields -> {"user", "odd", "poison"}] : data' = [data EXCEPT !.field = form]
    /\ Save("web")

\* debug 99: save what there is.
Debug99 == Save("loop") /\ UNCHANGED data

\* One field changes for the time being, whatever the other task is doing.
Store(t) ==
    /\ Free(t)
    /\ \E f \in Fields, v \in {"user", "odd"} :
        /\ data' = [data EXCEPT !.field[f] = v]
        /\ stray' = (stray \/ (v = "odd" /\ \E u \in Tasks : pc[u] \in {"begin", "put"}))
    /\ UNCHANGED <<flash, eeprom, pc, nested, counters, crossed, spoiled>>

\* /set, in wider ranges than check() knows.
Set == Store("web")

\* teleperiod, bmsperiod, socmin and socmax by MQTT; debug 88 leaves a password that
\* check() refuses.
Command == Store("loop")

----------------------------------------------------------------------------
\* The boot

\* config.json has the last word on its fields, and is not saved.
ConfigFile ==
    /\ pc["loop"] = "file"
    /\ data' = [data EXCEPT !.field = [f \in Fields |-> IF f \in InFile THEN "file" ELSE @[f]]]
    /\ Goto("loop", "setup")
    /\ UNCHANGED <<flash, eeprom, nested, counters, history>>

Hangs == \E f \in Fields : data.field[f] = "poison"

\* Mutant: loop() does not clear the count.
MutEndSetup ==
    /\ pc["loop"] = "setup" /\ ~Hangs
    /\ booting' = FALSE /\ streak' = 0
    /\ Goto("loop", "idle")
    /\ UNCHANGED <<data, flash, eeprom, nested, bootcount, crashes, history>>

\* resetCounter(false), at the end of setup() and in every pass of loop().
EndSetup ==
    /\ pc["loop"] = "setup" /\ ~Hangs
    /\ booting' = FALSE /\ bootcount' = 0 /\ streak' = 0
    /\ Goto("loop", "idle")
    /\ UNCHANGED <<data, flash, eeprom, nested, crashes, history>>

\* Mutant: one more.
MutDue(count) == count > WipeAt
Due(count) == count >= WipeAt

\* resetCounter(true), and Settings.reset() when it has counted enough: clear, save,
\* and load like at every boot.  The RTC memory keeps its count over the reset, or is
\* set up anew.
Boot(reason) ==
    LET watchdog == reason = "watchdog" IN
    \E count \in {bootcount, 0} :
      LET wipe == watchdog /\ Due(count) IN
        /\ data' = Cleared /\ open' = FALSE /\ buffer' = Cleared /\ UNCHANGED flash
        /\ nested' = [t \in Tasks |-> FALSE] /\ booting' = TRUE
        /\ crossed' = FALSE /\ stray' = FALSE /\ UNCHANGED spoiled
        /\ pc' = [t \in Tasks |-> IF t = "web" THEN "idle"
                                  ELSE IF wipe THEN "check" ELSE "clear"]
        /\ bootcount' = IF ~watchdog THEN 0 ELSE IF wipe THEN count ELSE count + 1
        /\ streak' = IF ~watchdog THEN 0 ELSE IF streak > WipeAt THEN streak ELSE streak + 1

\* Power fails, or the watchdog bites for a reason of its own.
Crash ==
    /\ crashes < MaxCrash /\ crashes' = crashes + 1
    /\ \E reason \in {"power", "watchdog"} : Boot(reason)

\* A setting hangs setup(): the watchdog resets.
Hang ==
    /\ pc["loop"] = "setup" /\ Hangs
    /\ Boot("watchdog") /\ UNCHANGED crashes

Next ==
    \/ \E t \in Tasks : Step(t)
    \/ ConfigFile \/ EndSetup \/ Hang
    \/ SettingsSave \/ Set \/ Command \/ Debug99
    \/ Crash

Spec == Init /\ [][Next]_vars

----------------------------------------------------------------------------
\* Properties

\* Unless both tasks have saved or loaded at a time since the boot, memory and flash
\* hold settings of this version when both are done, whatever the power did before;
\* and check() keeps what it refuses out of the flash, but for what the other task
\* stores between check() and put().
SettledIsSane ==
    (\A t \in Tasks : pc[t] = "idle") /\ ~crossed =>
        /\ data.config /\ flash.config
        /\ spoiled \/ \A f \in Fields : flash.field[f] \notin {"zero", "odd"}

\* Settings once in the flash stay there, through power failures in the middle of
\* save() and load(), until somebody saves others, or the watchdog has bitten WipeAt
\* times in a row without setup() coming to its end, or both tasks save at a time.
SettingsKept ==
    [][flash.config /\ flash' # flash =>
        \/ streak > WipeAt
        \/ crossed
        \/ flash'.config /\ \A t \in Tasks : ~nested[t]]_vars

\* The bridge comes up with what the flash has, put in order by check(), or with
\* defaults it has saved there first: in every boot, after a save that was cut off in
\* the middle or two that got in each other's way, and but for what config.json has
\* the last word on.
BootUsesFlash ==
    pc["loop"] = "setup" =>
        /\ data.config /\ flash.config
        /\ \A f \in Fields \ InFile : data.field[f] = Checked(flash).field[f]

====
