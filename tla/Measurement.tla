----------------------------- MODULE Measurement -----------------------------
(* Choosing a meter, measuring it and giving up on it: set_device_model and the *)
(* two timers of src/src/devices/device.c, the measure_meter_* function of every *)
(* driver, the settings the coordinator writes (app_zclWriteReqCmd) and their    *)
(* copy in flash (app_dev_config.c).  Everything runs to completion in the main  *)
(* loop; what the meter answers, and when the power fails, is left open.         *)
EXTENDS Integers

CONSTANTS
  Models,        \* the meters the coordinator may choose
  Junk,          \* a manufacturer byte that names no meter
  Addresses,     \* meter addresses it may write
  Minutes,       \* measurement periods it may write, in minutes
  Sizes,         \* lengths of the passwords it may write
  Ninth,         \* the ninth character of a password that has one
  StartDelay,    \* TIMEOUT_1SEC: from choosing a meter to measuring it
  FaultPeriod,   \* FAULT_MEASUREMENT_PERIOD
  Minute,        \* DEFAULT_MEASUREMENT_PERIOD
  ReloadDelay,   \* TIMEOUT_10MIN: from a failure to the reload
  MaxWrites,     \* bound: settings written in one behaviour
  MaxRestarts    \* bound: power failures in one behaviour

Nartis    == {"NARTIS_100", "NARTIS_I100"}
AllModels == {"KASKAD_1_MT", "KASKAD_11", "MERCURY_206", "ENERGOMERA_CE102M",
              "ENERGOMERA_CE208BY", "NEVA_MT124"} \cup Nartis
Undefined == "UNDEFINED"
Off       == -1

ASSUME ModelAssumption ==
  /\ Models \subseteq AllModels
  /\ Junk \notin AllModels \cup {Undefined}

ASSUME SettingAssumption ==
  /\ Minutes \subseteq 0 .. 255
  /\ Sizes \subseteq 0 .. 16
  /\ Ninth \in 0 .. 255
  /\ 0 \in Addresses

ASSUME TimeAssumption ==
  /\ StartDelay \in Nat \ {0}
  /\ FaultPeriod \in Nat \ {0}
  /\ Minute \in Nat
  /\ ReloadDelay \in Nat
  /\ StartDelay <= Minute
  /\ FaultPeriod <= Minute

ASSUME BoundAssumption == MaxWrites \in Nat /\ MaxRestarts \in Nat

VARIABLES
  config,      \* dev_config
  saved,       \* the copy of it in flash
  preset,      \* the setting attributes, as the coordinator reads them
  driver,      \* measure_meter
  link,        \* what the Nartis driver logs in with: its meter structure
  newStart,    \* new_start
  fault,       \* fault_measure_flag
  measure,     \* what is left of timerMeasurementEvt
  reload,      \* what is left of timerFaultMeasurementEvt, or Off
  buffer,      \* what is in the static serial_number and date_release of a driver
  shown,       \* the attributes that hold what the meter said
  last,        \* history: how the last measurement of this meter ended
  answers,     \* the meter answers everything it is asked
  writes,      \* bound: settings written so far
  restarts     \* bound: power failures so far

vars == <<config, saved, preset, driver, link, newStart, fault, measure, reload,
          buffer, shown, last, answers, writes, restarts>>

settings == <<config, saved, preset, link, writes>>

Identity == {"serial_number", "date_release"}
Data     == {"electrical", "tariffs_1_2", "tariffs_3_4"}

PasswordSize == 16

Config == [model : Models \cup {Undefined}, address : Addresses,
           period : {Minute * n : n \in 1 .. 255}, password : 0 .. PasswordSize]

DefaultConfig == [model |-> Undefined, address |-> 0, period |-> Minute, password |-> 0]

DefaultPreset == [model |-> Undefined, period |-> 1]

-----------------------------------------------------------------------------
(* The drivers: how many steps a measurement takes before it counts as made     *)
(* (sessions for Nartis; the session and its acknowledgement where there is     *)
(* one), from which of them on the meter is read, and what is read when.        *)

Steps(m) == CASE m \in Nartis -> 3
              [] m \in {"ENERGOMERA_CE102M", "NEVA_MT124"} -> 2
              [] OTHER -> 1

ReadStep(m) == IF m \in Nartis THEN 1 ELSE Steps(m)

(* Drivers of one source file share their static buffers. *)
File(m) == IF m \in Nartis THEN "NARTIS_100" ELSE m

(* new_start empties the buffers of these... *)
Forgetful == {"KASKAD_1_MT", "KASKAD_11"} \cup Nartis

(* ... these have none: they read when new_start is set... *)
Bufferless == {"MERCURY_206", "ENERGOMERA_CE102M"}

(* ... and this one declares local buffers of the same names over its own. *)
Shadowing == {"KASKAD_11"}

(* Variant with a fault: nothing empties the buffers. *)
KeptForever(m) == buffer[File(m)]

Kept(m) == IF newStart /\ m \in Forgetful THEN {} ELSE buffer[File(m)]

(* Variant with a fault: what new_start did not bring is not asked for again. *)
WantedOnce(m) == IF newStart THEN Identity ELSE {}

(* The identity fields a measurement asks for. *)
Wanted(m) == IF m \in Bufferless
             THEN IF newStart THEN Identity ELSE {}
             ELSE Identity \ Kept(m)

(* What needs no exchange beyond the session. *)
Given(m) == CASE m = "ENERGOMERA_CE208BY" -> Identity
              [] m \in {"ENERGOMERA_CE102M", "NEVA_MT124"} -> {"date_release"}
              [] OTHER -> {}

(* What can be read in a measurement that gets as far as the given step. *)
Readable(m, step) ==
  IF step < ReadStep(m) THEN {}
  ELSE Wanted(m) \cup
       IF m \in Nartis
       THEN {"electrical"} \cup (IF step >= 2 THEN {"tariffs_1_2"} ELSE {})
                           \cup (IF step >= 3 THEN {"tariffs_3_4"} ELSE {})
       ELSE Data

(* The one failure that leaves the fault flag as it was. *)
Unnoticed(m, step) == m = "NEVA_MT124" /\ step = 1

-----------------------------------------------------------------------------
(* set_device_model, but for the settings.                                      *)

(* Variant with a fault: the byte is stored as it came. *)
NormalizedNever(m) == m

Normalized(m) == IF m \in Models THEN m ELSE Undefined

(* nartis_100_init, nartis_i100_init *)
LinkFor(m, size) == [model |-> m, password |-> size]

Load(m, size) ==
  /\ driver' = Normalized(m)
  /\ link' = IF Normalized(m) \in Nartis THEN LinkFor(Normalized(m), size) ELSE link
  /\ newStart' = TRUE
  /\ fault' = FALSE
  /\ shown' = {}
  /\ last' = "none"
  /\ measure' = StartDelay

-----------------------------------------------------------------------------
Init ==
  /\ config = DefaultConfig
  /\ saved = DefaultConfig
  /\ preset = DefaultPreset
  /\ driver = Undefined
  /\ link = LinkFor(Undefined, 0)
  /\ newStart = TRUE
  /\ fault = FALSE
  /\ measure = StartDelay
  /\ reload = Off
  /\ buffer = [f \in {File(m) : m \in Models} |-> {}]
  /\ shown = {}
  /\ last = "none"
  /\ answers = TRUE
  /\ writes = 0
  /\ restarts = 0

(* Time passes; a timer that has run out waits for the main loop. *)
Tick ==
  /\ measure > 0 \/ reload > 0
  /\ measure' = IF measure > 0 THEN measure - 1 ELSE measure
  /\ reload' = IF reload > 0 THEN reload - 1 ELSE reload
  /\ UNCHANGED <<settings, driver, newStart, fault, buffer, shown, last, answers, restarts>>

(* The meter starts to answer, or no longer does. *)
MeterChanges ==
  /\ answers' = ~answers
  /\ UNCHANGED <<settings, driver, newStart, fault, measure, reload, buffer, shown, last,
                 restarts>>

-----------------------------------------------------------------------------
(* measure_meterCb *)

(* Variants with a fault: every failure starts the ten minutes again; a failure *)
(* after the session was opened starts nothing.                                 *)
ReloadRestarted(m, step) ==
  IF step = Steps(m) \/ Unnoticed(m, step) THEN reload ELSE ReloadDelay
ReloadForgotten(m, step) ==
  IF step > 0 \/ reload # Off THEN reload ELSE ReloadDelay

(* A failure starts the reload timer unless it runs. *)
ReloadAfter(m, step) ==
  IF step = Steps(m) \/ Unnoticed(m, step) \/ reload # Off THEN reload ELSE ReloadDelay

(* Variant with a fault: only a failure of the first step is noted.             *)
FaultBefore(m, step) ==
  IF step = Steps(m) THEN FALSE ELSE step = 0 \/ fault

FaultAfter(m, step) ==
  IF step = Steps(m) THEN FALSE ELSE ~Unnoticed(m, step) \/ fault

Ending(m, step, read) ==
  CASE step # Steps(m)                             -> "failed"
    [] step = Steps(m) /\ read # Readable(m, step) -> "partial"
    [] step = Steps(m) /\ read = Readable(m, step) -> "ok"

(* measure_meter() reads what the meter answers, and is called again after the  *)
(* measurement period or, when it failed, much sooner.                          *)
MeasureMeter(m, step, read) ==
  /\ shown' = shown \cup read
  /\ buffer' = IF step < ReadStep(m) \/ m \in Bufferless THEN buffer
               ELSE [buffer EXCEPT ![File(m)] =
                       Kept(m) \cup (IF m \in Shadowing THEN {} ELSE read \cap Identity)]
  /\ newStart' = (newStart /\ step < ReadStep(m))
  /\ fault' = FaultAfter(m, step)
  /\ reload' = ReloadAfter(m, step)
  /\ measure' = IF step = Steps(m) THEN config.period ELSE FaultPeriod
  /\ last' = Ending(m, step, read)

(* With no meter chosen there is nothing to measure. *)
Idle ==
  /\ measure' = Minute
  /\ UNCHANGED <<newStart, fault, reload, buffer, shown, last>>

MeasureMeterCb ==
  /\ measure = 0
  /\ IF config.model = Undefined \/ driver = Undefined THEN Idle
     ELSE \E step \in 0 .. Steps(driver) :
            \E read \in SUBSET Readable(driver, step) :
              /\ Readable(driver, step) \cap Given(driver) \subseteq read
              /\ answers => step = Steps(driver) /\ read = Readable(driver, step)
              /\ MeasureMeter(driver, step, read)
  /\ UNCHANGED <<settings, driver, answers, restarts>>

(* fault_measure_meterCb: still failing, so the meter is set up from scratch.   *)
FaultMeasureMeterCb ==
  /\ reload = 0
  /\ reload' = Off
  /\ IF fault THEN Load(config.model, config.password)
     ELSE UNCHANGED <<driver, link, newStart, fault, shown, last, measure>>
  /\ UNCHANGED <<config, saved, preset, buffer, answers, writes, restarts>>

-----------------------------------------------------------------------------
(* app_zclWriteReqCmd, one attribute at a time.  The ZCL layer has stored the   *)
(* attribute as it came before the handler runs.                                *)

Write ==
  /\ writes < MaxWrites
  /\ writes' = writes + 1

WriteManufacturer(m) ==
  /\ Write
  /\ config' = [config EXCEPT !.model = Normalized(m)]
  /\ saved' = IF config.model # Normalized(m) THEN config' ELSE saved
  /\ preset' = [preset EXCEPT !.model = m]
  /\ Load(m, config.password)
  /\ UNCHANGED <<reload, buffer, answers, restarts>>

WriteAddress(a) ==
  /\ Write
  /\ config' = [config EXCEPT !.address = a]
  /\ saved' = IF config.address # a THEN config' ELSE saved
  /\ UNCHANGED <<preset, driver, link, newStart, fault, measure, reload, buffer, shown,
                 last, answers, restarts>>

Longest == IF config.model = "KASKAD_1_MT" THEN 8 ELSE PasswordSize

Accepted(size) == IF size > Longest THEN Longest ELSE size

(* Variant with a fault: the driver is not set up again. *)
RelinkedNever(size) == link

(* A Nartis driver is set up again with the new password. *)
Relinked(size) ==
  IF config.model \in Nartis THEN LinkFor(config.model, Accepted(size)) ELSE link

(* An attribute of nine bytes receives it: longer ones run into the period. *)
WritePassword(size) ==
  /\ Write
  /\ config' = [config EXCEPT !.password = Accepted(size)]
  /\ saved' = config'
  /\ link' = Relinked(size)
  /\ preset' = [preset EXCEPT !.period = IF size > 8 THEN Ninth ELSE @]
  /\ UNCHANGED <<driver, newStart, fault, measure, reload, buffer, shown, last, answers,
                 restarts>>

PeriodOf(minutes) == Minute * (IF minutes = 0 THEN 1 ELSE minutes)

(* Variants with a fault: the timer runs on; the setting is not saved. *)
MeasureRunsOn(minutes)  == measure
SavedNever(minutes)     == saved

MeasureAfter(minutes) ==
  IF config.period # PeriodOf(minutes) THEN PeriodOf(minutes) ELSE measure

SavedAfter(minutes) ==
  IF config.period # PeriodOf(minutes)
  THEN [config EXCEPT !.period = PeriodOf(minutes)] ELSE saved

WritePeriod(minutes) ==
  /\ Write
  /\ config' = [config EXCEPT !.period = PeriodOf(minutes)]
  /\ saved' = SavedAfter(minutes)
  /\ preset' = [preset EXCEPT !.period =
                  IF config.period # PeriodOf(minutes) /\ minutes = 0 THEN 1 ELSE minutes]
  /\ measure' = MeasureAfter(minutes)
  /\ UNCHANGED <<driver, link, newStart, fault, reload, buffer, shown, last, answers,
                 restarts>>

(* The power fails and returns: init_config, then set_device_model. *)
Restart ==
  /\ restarts < MaxRestarts
  /\ restarts' = restarts + 1
  /\ config' = saved
  /\ preset' = DefaultPreset
  /\ driver' = saved.model
  /\ link' = IF saved.model \in Nartis THEN LinkFor(saved.model, saved.password)
             ELSE LinkFor(Undefined, 0)
  /\ newStart' = TRUE
  /\ fault' = FALSE
  /\ measure' = StartDelay
  /\ reload' = Off
  /\ buffer' = [f \in DOMAIN buffer |-> {}]
  /\ shown' = {}
  /\ last' = "none"
  /\ UNCHANGED <<saved, answers, writes>>

-----------------------------------------------------------------------------
Coordinator ==
  \/ \E m \in Models \cup {Undefined, Junk} : WriteManufacturer(m)
  \/ \E a \in Addresses : WriteAddress(a)
  \/ \E size \in Sizes : WritePassword(size)
  \/ \E minutes \in Minutes : WritePeriod(minutes)

Next ==
  \/ MeasureMeterCb
  \/ FaultMeasureMeterCb
  \/ Tick
  \/ MeterChanges
  \/ Coordinator
  \/ Restart

Spec == Init /\ [][Next]_vars

(* The timer queue is served and time passes; nothing is assumed of the meter,  *)
(* the coordinator or the power supply.                                         *)
FairSpec ==
  /\ Spec
  /\ WF_vars(Tick) /\ WF_vars(MeasureMeterCb) /\ WF_vars(FaultMeasureMeterCb)

-----------------------------------------------------------------------------
(* flashLedStatusCb: how many times the status LED blinks. *)

Blinks(online) ==
  IF fault \/ config.model = Undefined
  THEN IF online THEN 2 ELSE 4
  ELSE IF online THEN 1 ELSE 3

-----------------------------------------------------------------------------
(* Every variable stays in its domain: the settings are ones a driver can use.  *)
TypeOK ==
  /\ config \in Config
  /\ saved \in Config
  /\ preset \in [model : Models \cup {Undefined, Junk}, period : 0 .. 255]
  /\ driver \in Models \cup {Undefined}
  /\ link \in [model : Models \cup {Undefined}, password : 0 .. PasswordSize]
  /\ newStart \in BOOLEAN
  /\ fault \in BOOLEAN
  /\ measure \in Nat
  /\ reload \in Off .. ReloadDelay
  /\ buffer \in [{File(m) : m \in Models} -> SUBSET Identity]
  /\ shown \subseteq Identity \cup Data
  /\ last \in {"none", "ok", "partial", "failed"}
  /\ answers \in BOOLEAN
  /\ writes \in 0 .. MaxWrites
  /\ restarts \in 0 .. MaxRestarts

(* A power failure loses no setting the coordinator has written.                *)
SettingsSaved == saved = config

(* The driver that measures is that of the configured meter and logs in as the  *)
(* settings say, whichever order they were written in and whatever was reloaded. *)
DriverConfigured ==
  /\ driver = config.model
  /\ driver \in Nartis => link = LinkFor(driver, config.password)

(* The next measurement is never further away than one measurement period: a    *)
(* new period counts at once.                                                   *)
MeasurementDue == measure <= config.period

(* While the fault flag is up the reload timer runs.                            *)
FaultWatched == fault => reload # Off

(* A meter that answered everything has its serial number and date shown.       *)
IdentityShown == last = "ok" => Identity \subseteq shown

(* The LED shows one or three blinks after a measurement that was made and two  *)
(* or four after one that failed.                                               *)
LedHonest ==
  \A online \in BOOLEAN :
    /\ last \in {"ok", "partial"} => Blinks(online) \in {1, 3}
    /\ last = "failed" => Blinks(online) \in {2, 4}

(* A fault does not last: the meter is read again or set up again.              *)
FaultEnds == fault ~> ~fault

(* A meter that answers for good is measured for good, all of it.               *)
Recovers ==
  (<>[]answers /\ <>[](config.model # Undefined))
    => <>[](last = "ok" /\ ~fault /\ Identity \cup Data \subseteq shown)

=============================================================================
