--------------------------- MODULE MeasurementProof ---------------------------
(* Proofs about Measurement, for every set of meters and settings and for all   *)
(* delays: its state is well typed, no written setting is lost, the driver that *)
(* measures is the configured one, the next measurement is never further away   *)
(* than a period and a fault is always being watched.  For the drivers of which *)
(* it is true, the LED shows the outcome of the last measurement, and a meter   *)
(* that answered everything has its serial number and date shown.               *)
EXTENDS Measurement, TLAPS

Periods == {Minute * n : n \in 1 .. 255}

(* A period is a whole number of minutes, so at least one.                      *)
LEMMA PeriodsArePositive ==
  ASSUME NEW p \in Periods
  PROVE  p \in Nat \ {0} /\ Minute <= p
<1>1. PICK n \in 1 .. 255 : p = Minute * n
  BY DEF Periods
<1>2. Minute \in Nat \ {0}
  BY TimeAssumption
<1>3. Minute * n >= Minute
  BY <1>2, n \in 1 .. 255, SMT
<1>4. Minute * n \in Nat
  BY <1>2, SMT
<1>. QED BY <1>1, <1>2, <1>3, <1>4

LEMMA MinuteIsAPeriod == Minute \in Periods
<1>1. Minute = Minute * 1
  BY TimeAssumption
<1>. QED BY <1>1 DEF Periods

(* The minutes that can be written give a period, 0 standing for 1.             *)
LEMMA PeriodOfMinutes ==
  ASSUME NEW minutes \in Minutes
  PROVE  PeriodOf(minutes) \in Periods
<1>1. minutes \in 0 .. 255
  BY SettingAssumption
<1>2. (IF minutes = 0 THEN 1 ELSE minutes) \in 1 .. 255
  BY <1>1
<1>. QED BY <1>2 DEF Periods, PeriodOf

(* No password is stored longer than the settings have room for.                *)
LEMMA AcceptedFits ==
  ASSUME NEW size \in Sizes
  PROVE  Accepted(size) \in 0 .. PasswordSize
<1>1. size \in 0 .. 16
  BY SettingAssumption
<1>2. Longest \in {8, 16}
  BY DEF Longest, PasswordSize
<1>. QED BY <1>1, <1>2 DEF Accepted, PasswordSize

LEMMA NormalizedIsKnown ==
  ASSUME NEW m
  PROVE  Normalized(m) \in Models \cup {Undefined}
BY DEF Normalized

(* Neither a meter nor the lack of one needs normalising: a second              *)
(* set_device_model sees the model the first one stored.                        *)
LEMMA NormalizedIsFixed ==
  ASSUME NEW m \in Models \cup {Undefined}
  PROVE  Normalized(m) = m
BY DEF Normalized

LEMMA StepsArePositive ==
  ASSUME NEW m
  PROVE  Steps(m) \in 1 .. 3
BY DEF Steps

LEMMA ReadableIsKnown ==
  ASSUME NEW m, NEW step
  PROVE  Readable(m, step) \subseteq Identity \cup Data
BY DEF Readable, Wanted, Identity, Data

-----------------------------------------------------------------------------
(* The type invariant. *)

LEMMA TypeInit == Init => TypeOK
<1> SUFFICES ASSUME Init PROVE TypeOK
  OBVIOUS
<1>1. DefaultConfig \in Config
  BY MinuteIsAPeriod, SettingAssumption
  DEF DefaultConfig, Config, Periods, PasswordSize
<1>2. buffer \in [{File(m) : m \in Models} -> SUBSET Identity]
  BY DEF Init
<1>3. writes \in 0 .. MaxWrites /\ restarts \in 0 .. MaxRestarts
  BY BoundAssumption DEF Init
<1>4. reload \in Off .. ReloadDelay /\ measure \in Nat
  BY TimeAssumption DEF Init, Off
<1>5. preset \in [model : Models \cup {Undefined, Junk}, period : 0 .. 255]
  BY DEF Init, DefaultPreset
<1>6. link \in [model : Models \cup {Undefined}, password : 0 .. PasswordSize]
  BY DEF Init, LinkFor, PasswordSize
<1>. QED BY <1>1, <1>2, <1>3, <1>4, <1>5, <1>6 DEF Init, TypeOK

(* Setting a meter up, whatever the manufacturer byte.                          *)
LEMMA LoadType ==
  ASSUME TypeOK, NEW m, NEW size \in 0 .. PasswordSize, Load(m, size)
  PROVE  /\ driver' \in Models \cup {Undefined}
         /\ link' \in [model : Models \cup {Undefined}, password : 0 .. PasswordSize]
         /\ newStart' \in BOOLEAN
         /\ fault' \in BOOLEAN
         /\ measure' \in Nat
         /\ shown' \subseteq Identity \cup Data
         /\ last' \in {"none", "ok", "partial", "failed"}
BY NormalizedIsKnown, TimeAssumption DEF TypeOK, Load, LinkFor

LEMMA MeasureType == TypeOK /\ MeasureMeterCb => TypeOK'
<1> SUFFICES ASSUME TypeOK, MeasureMeterCb PROVE TypeOK'
  OBVIOUS
<1>1. CASE config.model = Undefined \/ driver = Undefined
  <2>1. Idle
    BY <1>1 DEF MeasureMeterCb
  <2>. QED BY <2>1, TimeAssumption DEF TypeOK, MeasureMeterCb, Idle, settings
<1>2. CASE ~(config.model = Undefined \/ driver = Undefined)
  <2>0. PICK step \in 0 .. Steps(driver) :
           \E read \in SUBSET Readable(driver, step) : MeasureMeter(driver, step, read)
    BY <1>2 DEF MeasureMeterCb
  <2>1. PICK read \in SUBSET Readable(driver, step) : MeasureMeter(driver, step, read)
    BY <2>0
  <2>2. driver \in Models
    BY <1>2 DEF TypeOK
  <2>3. read \subseteq Identity \cup Data
    BY <2>1, ReadableIsKnown
  <2>4. buffer' \in [{File(m) : m \in Models} -> SUBSET Identity]
    <3>1. File(driver) \in {File(m) : m \in Models}
      BY <2>2
    <3>2. buffer[File(driver)] \subseteq Identity
      BY <3>1 DEF TypeOK
    <3>3. Kept(driver) \cup (IF driver \in Shadowing THEN {} ELSE read \cap Identity)
            \in SUBSET Identity
      BY <3>2 DEF Kept
    <3>. QED BY <2>1, <3>1, <3>3 DEF TypeOK, MeasureMeter
  <2>5. reload' \in Off .. ReloadDelay
    BY <2>1, TimeAssumption DEF TypeOK, MeasureMeter, ReloadAfter, Off
  <2>6. measure' \in Nat
    <3>1. config.period \in Periods
      BY DEF TypeOK, Config, Periods
    <3>. QED BY <2>1, <3>1, PeriodsArePositive, TimeAssumption DEF MeasureMeter
  <2>7. newStart' \in BOOLEAN /\ fault' \in BOOLEAN
    BY <2>1 DEF TypeOK, MeasureMeter, FaultAfter
  <2>8. last' \in {"none", "ok", "partial", "failed"}
    BY <2>1 DEF MeasureMeter, Ending
  <2>9. shown' \subseteq Identity \cup Data
    BY <2>1, <2>3 DEF TypeOK, MeasureMeter
  <2>. QED BY <2>4, <2>5, <2>6, <2>7, <2>8, <2>9 DEF TypeOK, MeasureMeterCb, settings
<1>. QED BY <1>1, <1>2

LEMMA ReloadType == TypeOK /\ FaultMeasureMeterCb => TypeOK'
<1> SUFFICES ASSUME TypeOK, FaultMeasureMeterCb PROVE TypeOK'
  OBVIOUS
<1>1. reload' \in Off .. ReloadDelay
  BY TimeAssumption DEF FaultMeasureMeterCb, Off
<1>2. CASE fault
  <2>1. Load(config.model, config.password)
    BY <1>2 DEF FaultMeasureMeterCb
  <2>2. config.password \in 0 .. PasswordSize
    BY DEF TypeOK, Config
  <2>. QED BY <1>1, <2>1, <2>2, LoadType DEF TypeOK, FaultMeasureMeterCb
<1>3. CASE ~fault
  BY <1>1, <1>3 DEF TypeOK, FaultMeasureMeterCb
<1>. QED BY <1>2, <1>3

LEMMA WriteType == TypeOK /\ Coordinator => TypeOK'
<1> SUFFICES ASSUME TypeOK, Coordinator PROVE TypeOK'
  OBVIOUS
<1>1. writes' \in 0 .. MaxWrites
  BY BoundAssumption
  DEF TypeOK, Coordinator, Write, WriteManufacturer, WriteAddress, WritePassword, WritePeriod
<1>2. ASSUME NEW m \in Models \cup {Undefined, Junk}, WriteManufacturer(m) PROVE TypeOK'
  <2>1. config' \in Config
    BY <1>2, NormalizedIsKnown DEF TypeOK, WriteManufacturer, Config
  <2>2. config.password \in 0 .. PasswordSize
    BY DEF TypeOK, Config
  <2>3. Load(m, config.password)
    BY <1>2 DEF WriteManufacturer
  <2>. QED BY <1>1, <1>2, <2>1, <2>2, <2>3, LoadType DEF TypeOK, WriteManufacturer
<1>3. ASSUME NEW a \in Addresses, WriteAddress(a) PROVE TypeOK'
  <2>1. config' \in Config
    BY <1>3 DEF TypeOK, WriteAddress, Config
  <2>. QED BY <1>1, <1>3, <2>1 DEF TypeOK, WriteAddress
<1>4. ASSUME NEW size \in Sizes, WritePassword(size) PROVE TypeOK'
  <2>1. config' \in Config
    BY <1>4, AcceptedFits DEF TypeOK, WritePassword, Config
  <2>2. link' \in [model : Models \cup {Undefined}, password : 0 .. PasswordSize]
    BY <1>4, AcceptedFits DEF TypeOK, WritePassword, Relinked, LinkFor, Config
  <2>3. preset' \in [model : Models \cup {Undefined, Junk}, period : 0 .. 255]
    BY <1>4, SettingAssumption DEF TypeOK, WritePassword
  <2>. QED BY <1>1, <1>4, <2>1, <2>2, <2>3 DEF TypeOK, WritePassword
<1>5. ASSUME NEW minutes \in Minutes, WritePeriod(minutes) PROVE TypeOK'
  <2>1. PeriodOf(minutes) \in Periods
    BY PeriodOfMinutes
  <2>2. config' \in Config
    BY <1>5, <2>1 DEF TypeOK, WritePeriod, Config, Periods
  <2>3. saved' \in Config
    BY <1>5, <2>1 DEF TypeOK, WritePeriod, SavedAfter, Config, Periods
  <2>4. measure' \in Nat
    BY <1>5, <2>1, PeriodsArePositive DEF TypeOK, WritePeriod, MeasureAfter
  <2>5. preset' \in [model : Models \cup {Undefined, Junk}, period : 0 .. 255]
    BY <1>5, SettingAssumption DEF TypeOK, WritePeriod
  <2>. QED BY <1>1, <1>5, <2>2, <2>3, <2>4, <2>5 DEF TypeOK, WritePeriod
<1>. QED BY <1>2, <1>3, <1>4, <1>5 DEF Coordinator

LEMMA RestartType == TypeOK /\ Restart => TypeOK'
<1> SUFFICES ASSUME TypeOK, Restart PROVE TypeOK'
  OBVIOUS
<1>1. saved.model \in Models \cup {Undefined} /\ saved.password \in 0 .. PasswordSize
  BY DEF TypeOK, Config
<1>2. link' \in [model : Models \cup {Undefined}, password : 0 .. PasswordSize]
  BY <1>1 DEF Restart, LinkFor, PasswordSize
<1>3. restarts' \in 0 .. MaxRestarts
  BY BoundAssumption DEF TypeOK, Restart
<1>4. measure' \in Nat /\ reload' \in Off .. ReloadDelay
  BY TimeAssumption DEF Restart, Off
<1>5. buffer' \in [{File(m) : m \in Models} -> SUBSET Identity]
  BY DEF TypeOK, Restart
<1>6. preset' \in [model : Models \cup {Undefined, Junk}, period : 0 .. 255]
  BY DEF Restart, DefaultPreset
<1>. QED BY <1>1, <1>2, <1>3, <1>4, <1>5, <1>6 DEF TypeOK, Restart

LEMMA TypeNext == TypeOK /\ [Next]_vars => TypeOK'
<1> SUFFICES ASSUME TypeOK, [Next]_vars PROVE TypeOK'
  OBVIOUS
<1>1. CASE Tick
  BY <1>1, TimeAssumption DEF TypeOK, Tick, settings, Off
<1>2. CASE MeterChanges
  BY <1>2 DEF TypeOK, MeterChanges, settings
<1>3. CASE UNCHANGED vars
  BY <1>3 DEF TypeOK, vars
<1>. QED BY <1>1, <1>2, <1>3, MeasureType, ReloadType, WriteType, RestartType DEF Next

(* The state of the measurement stays in its domain: with every driver, every   *)
(* order of settings, failures and restarts.                                    *)
THEOREM TypeCorrect == Spec => []TypeOK
<1>. QED BY TypeInit, TypeNext, PTL DEF Spec

-----------------------------------------------------------------------------
(* Settings, driver, timers.  Each conjunct leans on others: after a restart    *)
(* the driver is that of the saved settings, so DriverConfigured needs          *)
(* SettingsSaved; MeasurementDue needs periods of at least a minute.            *)

Configured == TypeOK /\ SettingsSaved /\ DriverConfigured /\ MeasurementDue /\ FaultWatched

LEMMA ConfiguredInit == Init => Configured
<1> SUFFICES ASSUME Init PROVE Configured
  OBVIOUS
<1>1. TypeOK
  BY TypeInit
<1>2. DriverConfigured
  BY DEF Init, DriverConfigured, DefaultConfig, Nartis, Undefined
<1>3. MeasurementDue
  BY TimeAssumption DEF Init, MeasurementDue, DefaultConfig
<1>4. SettingsSaved /\ FaultWatched
  BY DEF Init, SettingsSaved, FaultWatched
<1>. QED BY <1>1, <1>2, <1>3, <1>4 DEF Configured

LEMMA PeriodIsAtLeastAMinute ==
  ASSUME TypeOK
  PROVE  config.period \in Nat /\ Minute <= config.period
<1>1. config.period \in Periods
  BY DEF TypeOK, Config, Periods
<1>. QED BY <1>1, PeriodsArePositive

LEMMA ConfiguredNext == Configured /\ [Next]_vars => Configured'
<1> SUFFICES ASSUME Configured, [Next]_vars PROVE Configured'
  OBVIOUS
<1>0. TypeOK' /\ config.model \in Models \cup {Undefined}
  BY TypeNext DEF Configured, TypeOK, Config
<1>a. config.period \in Nat /\ Minute <= config.period
  BY PeriodIsAtLeastAMinute DEF Configured
<1>1. CASE MeasureMeterCb
  <2>1. SettingsSaved' /\ DriverConfigured'
    BY <1>1 DEF Configured, SettingsSaved, DriverConfigured, MeasureMeterCb, settings, LinkFor
  <2>2. MeasurementDue' /\ FaultWatched'
    <3>1. CASE config.model = Undefined \/ driver = Undefined
      BY <1>1, <1>a, <3>1
      DEF Configured, MeasurementDue, FaultWatched, MeasureMeterCb, Idle, settings
    <3>2. CASE ~(config.model = Undefined \/ driver = Undefined)
      <4>0. PICK step \in 0 .. Steps(driver) :
               \E read \in SUBSET Readable(driver, step) : MeasureMeter(driver, step, read)
        BY <1>1, <3>2 DEF MeasureMeterCb
      <4>1. PICK read \in SUBSET Readable(driver, step) : MeasureMeter(driver, step, read)
        BY <4>0
      <4>2. config' = config
        BY <1>1 DEF MeasureMeterCb, settings
      <4>3. MeasurementDue'
        BY <1>a, <4>1, <4>2, TimeAssumption DEF MeasurementDue, MeasureMeter
      <4>4. FaultWatched'
        <5>1. CASE step = Steps(driver)
          BY <4>1, <5>1 DEF FaultWatched, MeasureMeter, FaultAfter
        <5>2. CASE step # Steps(driver) /\ Unnoticed(driver, step)
          <6>1. reload' = reload /\ (fault' => fault)
            BY <4>1, <5>2 DEF MeasureMeter, FaultAfter, ReloadAfter
          <6>. QED BY <6>1 DEF Configured, FaultWatched
        <5>3. CASE step # Steps(driver) /\ ~Unnoticed(driver, step)
          <6>1. reload' = (IF reload # Off THEN reload ELSE ReloadDelay)
            BY <4>1, <5>3 DEF MeasureMeter, ReloadAfter
          <6>. QED BY <6>1, TimeAssumption DEF FaultWatched, Off
        <5>. QED BY <5>1, <5>2, <5>3
      <4>. QED BY <4>3, <4>4
    <3>. QED BY <3>1, <3>2
  <2>. QED BY <1>0, <2>1, <2>2 DEF Configured
<1>2. CASE FaultMeasureMeterCb
  <2>1. CASE fault
    <3>1. Load(config.model, config.password)
      BY <1>2, <2>1 DEF FaultMeasureMeterCb
    <3>2. DriverConfigured'
      BY <1>0, <1>2, <3>1, NormalizedIsFixed
      DEF Load, DriverConfigured, LinkFor, FaultMeasureMeterCb
    <3>3. MeasurementDue' /\ FaultWatched'
      BY <1>2, <1>a, <3>1, TimeAssumption
      DEF Load, MeasurementDue, FaultWatched, FaultMeasureMeterCb
    <3>. QED BY <1>0, <1>2, <3>2, <3>3 DEF Configured, SettingsSaved, FaultMeasureMeterCb
  <2>2. CASE ~fault
    BY <1>0, <1>2, <2>2
    DEF Configured, SettingsSaved, DriverConfigured, MeasurementDue, FaultWatched,
        FaultMeasureMeterCb, LinkFor
  <2>. QED BY <2>1, <2>2
<1>3. CASE Tick
  <2>1. MeasurementDue' /\ FaultWatched'
    BY <1>3, <1>a
    DEF Configured, TypeOK, MeasurementDue, FaultWatched, Tick, settings, Off
  <2>. QED BY <1>0, <1>3, <2>1
       DEF Configured, SettingsSaved, DriverConfigured, Tick, settings, LinkFor
<1>4. CASE MeterChanges
  BY <1>0, <1>4
  DEF Configured, SettingsSaved, DriverConfigured, MeasurementDue, FaultWatched,
      MeterChanges, settings, LinkFor
<1>5. ASSUME NEW m \in Models \cup {Undefined, Junk}, WriteManufacturer(m)
      PROVE  Configured'
  <2>0. config' = [config EXCEPT !.model = Normalized(m)] /\ config \in Config
    BY <1>5 DEF Configured, TypeOK, WriteManufacturer
  <2>1. SettingsSaved'
    BY <1>5, <2>0 DEF Configured, SettingsSaved, WriteManufacturer, Config
  <2>2. DriverConfigured'
    BY <1>5, <2>0 DEF Load, DriverConfigured, LinkFor, WriteManufacturer, Config
  <2>3. MeasurementDue' /\ FaultWatched'
    BY <1>5, <1>a, <2>0, TimeAssumption
    DEF Load, MeasurementDue, FaultWatched, WriteManufacturer, Config
  <2>. QED BY <1>0, <2>1, <2>2, <2>3 DEF Configured
<1>6. ASSUME NEW a \in Addresses, WriteAddress(a) PROVE Configured'
  <2>0. config' = [config EXCEPT !.address = a] /\ config \in Config
    BY <1>6 DEF Configured, TypeOK, WriteAddress
  <2>1. SettingsSaved'
    BY <1>6, <2>0 DEF Configured, SettingsSaved, WriteAddress, Config
  <2>. QED BY <1>0, <1>6, <2>0, <2>1
       DEF Configured, DriverConfigured, MeasurementDue, FaultWatched, WriteAddress,
           LinkFor, Config
<1>7. ASSUME NEW size \in Sizes, WritePassword(size) PROVE Configured'
  <2>0. config' = [config EXCEPT !.password = Accepted(size)] /\ config \in Config
    BY <1>7 DEF Configured, TypeOK, WritePassword
  <2>1. DriverConfigured'
    BY <1>7, <2>0
    DEF Configured, DriverConfigured, WritePassword, Relinked, LinkFor, Config
  <2>. QED BY <1>0, <1>7, <2>0, <2>1
       DEF Configured, SettingsSaved, MeasurementDue, FaultWatched, WritePassword, Config
<1>8. ASSUME NEW minutes \in Minutes, WritePeriod(minutes) PROVE Configured'
  <2>0. /\ config' = [config EXCEPT !.period = PeriodOf(minutes)]
        /\ config \in Config
        /\ PeriodOf(minutes) \in Nat
    BY <1>8, PeriodOfMinutes, PeriodsArePositive DEF Configured, TypeOK, WritePeriod
  <2>1. SettingsSaved'
    BY <1>8, <2>0 DEF Configured, SettingsSaved, WritePeriod, SavedAfter, Config
  <2>2. MeasurementDue'
    BY <1>8, <2>0 DEF Configured, TypeOK, MeasurementDue, WritePeriod, MeasureAfter, Config
  <2>. QED BY <1>0, <1>8, <2>0, <2>1, <2>2
       DEF Configured, DriverConfigured, FaultWatched, WritePeriod, LinkFor, Config
<1>9. CASE Restart
  <2>1. DriverConfigured'
    BY <1>9 DEF DriverConfigured, Restart, LinkFor
  <2>2. MeasurementDue'
    BY <1>9, <1>a, TimeAssumption DEF Configured, SettingsSaved, MeasurementDue, Restart
  <2>. QED BY <1>0, <1>9, <2>1, <2>2 DEF Configured, SettingsSaved, FaultWatched, Restart
<1>10. CASE UNCHANGED vars
  BY <1>0, <1>10
  DEF Configured, SettingsSaved, DriverConfigured, MeasurementDue, FaultWatched, vars, LinkFor
<1>. QED BY <1>1, <1>2, <1>3, <1>4, <1>5, <1>6, <1>7, <1>8, <1>9, <1>10 DEF Next, Coordinator

LEMMA ConfiguredAlways == Spec => []Configured
<1>. QED BY ConfiguredInit, ConfiguredNext, PTL DEF Spec

(* What a restart reads from flash is what the coordinator last wrote.          *)
THEOREM SettingsAreSaved == Spec => []SettingsSaved
<1>1. Configured => SettingsSaved
  BY DEF Configured
<1>. QED BY <1>1, ConfiguredAlways, PTL

(* The driver and its login follow the settings through every reload, write and *)
(* restart.                                                                     *)
THEOREM DriverFollowsSettings == Spec => []DriverConfigured
<1>1. Configured => DriverConfigured
  BY DEF Configured
<1>. QED BY <1>1, ConfiguredAlways, PTL

(* The measurement timer never has more than one measurement period to run.     *)
THEOREM MeasurementsStayDue == Spec => []MeasurementDue
<1>1. Configured => MeasurementDue
  BY DEF Configured
<1>. QED BY <1>1, ConfiguredAlways, PTL

(* A fault flag that is up has a reload coming.                                 *)
THEOREM FaultsAreWatched == Spec => []FaultWatched
<1>1. Configured => FaultWatched
  BY DEF Configured
<1>. QED BY <1>1, ConfiguredAlways, PTL

-----------------------------------------------------------------------------
(* The LED.  What it shows of a measurement is the fault flag and the chosen    *)
(* meter, so how the last measurement ended must never be at odds with them.    *)
(* One driver fails without raising the flag.                                   *)

Reported ==
  /\ last \in {"ok", "partial"} => ~fault /\ config.model # Undefined
  /\ last = "failed" => fault \/ driver = "NEVA_MT124"

(* Only a complete measurement lowers the flag, and only Unnoticed failures     *)
(* do not raise it.                                                             *)
LEMMA EndingIsReported ==
  ASSUME NEW step \in 0 .. Steps(driver), NEW read, MeasureMeter(driver, step, read)
  PROVE  /\ last' \in {"ok", "partial"} => ~fault'
         /\ last' = "failed" => fault' \/ driver = "NEVA_MT124"
<1>0. Steps(driver) \in 1 .. 3
  BY StepsArePositive
<1>1. CASE step = Steps(driver)
  <2>1. ~fault'
    BY <1>1 DEF MeasureMeter, FaultAfter
  <2>2. last' \in {"ok", "partial"}
    BY <1>0, <1>1 DEF MeasureMeter, Ending
  <2>. QED BY <2>1, <2>2
<1>2. CASE step # Steps(driver)
  <2>1. step < Steps(driver)
    BY <1>0, <1>2
  <2>2. last' = "failed"
    BY <2>1 DEF MeasureMeter, Ending
  <2>3. fault' = (~Unnoticed(driver, step) \/ fault)
    BY <1>2 DEF MeasureMeter, FaultAfter
  <2>. QED BY <2>2, <2>3 DEF Unnoticed
<1>. QED BY <1>1, <1>2

LEMMA ReportedNext == Configured /\ Reported /\ [Next]_vars => Reported'
<1> SUFFICES ASSUME Configured, Reported, [Next]_vars PROVE Reported'
  OBVIOUS
<1>1. CASE MeasureMeterCb
  <2>1. config' = config /\ driver' = driver
    BY <1>1 DEF MeasureMeterCb, settings
  <2>2. CASE config.model = Undefined \/ driver = Undefined
    BY <1>1, <2>1, <2>2 DEF MeasureMeterCb, Idle, Reported
  <2>3. CASE ~(config.model = Undefined \/ driver = Undefined)
    <3>0. PICK step \in 0 .. Steps(driver) :
             \E read \in SUBSET Readable(driver, step) : MeasureMeter(driver, step, read)
      BY <1>1, <2>3 DEF MeasureMeterCb
    <3>1. PICK read \in SUBSET Readable(driver, step) : MeasureMeter(driver, step, read)
      BY <3>0
    <3>. QED BY <2>1, <2>3, <3>1, EndingIsReported DEF Reported
  <2>. QED BY <2>2, <2>3
<1>2. CASE FaultMeasureMeterCb
  <2>1. CASE fault
    BY <1>2, <2>1 DEF FaultMeasureMeterCb, Load, Reported
  <2>2. CASE ~fault
    BY <1>2, <2>2 DEF FaultMeasureMeterCb, Reported
  <2>. QED BY <2>1, <2>2
<1>3. ASSUME NEW m \in Models \cup {Undefined, Junk}, WriteManufacturer(m)
      PROVE  Reported'
  BY <1>3 DEF WriteManufacturer, Load, Reported
<1>4. CASE Restart
  BY <1>4 DEF Restart, Reported
<1>5. CASE Tick \/ MeterChanges \/ UNCHANGED vars
  BY <1>5 DEF Tick, MeterChanges, vars, settings, Reported
<1>6. ASSUME /\ \/ \E a \in Addresses : WriteAddress(a)
                \/ \E size \in Sizes : WritePassword(size)
                \/ \E minutes \in Minutes : WritePeriod(minutes)
      PROVE  Reported'
  <2>1. config \in Config
    BY DEF Configured, TypeOK
  <2>2. config'.model = config.model
    BY <1>6, <2>1 DEF WriteAddress, WritePassword, WritePeriod, Config
  <2>3. UNCHANGED <<last, fault, driver>>
    BY <1>6 DEF WriteAddress, WritePassword, WritePeriod
  <2>. QED BY <2>2, <2>3 DEF Reported
<1>. QED BY <1>1, <1>2, <1>3, <1>4, <1>5, <1>6 DEF Next, Coordinator

(* Whatever the meters, after a measurement that was made the LED blinks once   *)
(* or three times; after one that failed twice or four times, unless the meter  *)
(* is a NEVA MT124.                                                             *)
THEOREM LedShowsFault == Spec => []Reported
<1>1. Init => Reported
  BY DEF Init, Reported
<1>. QED BY <1>1, ReportedNext, ConfiguredAlways, PTL DEF Spec

(* The LED is honest about every driver but the NEVA MT124's, whose session may *)
(* be refused without anyone noticing (neva_mt124.c returns before the flag).   *)
THEOREM LedIsHonest ==
  ASSUME "NEVA_MT124" \notin Models
  PROVE  Spec => []LedHonest
<1>1. TypeOK /\ Reported => LedHonest
  <2> SUFFICES ASSUME TypeOK, Reported, NEW online \in BOOLEAN
               PROVE  /\ last \in {"ok", "partial"} => Blinks(online) \in {1, 3}
                      /\ last = "failed" => Blinks(online) \in {2, 4}
    BY DEF LedHonest
  <2>1. driver # "NEVA_MT124"
    BY DEF TypeOK, Undefined
  <2>. QED BY <2>1 DEF Reported, Blinks
<1>. QED BY <1>1, LedShowsFault, TypeCorrect, PTL

-----------------------------------------------------------------------------
(* Serial number and date.  A driver that empties its buffers with new_start    *)
(* never has something in them that is not shown; so what it no longer asks for *)
(* is there.                                                                    *)

BufferShown == ~newStart /\ driver \in Models => buffer[File(driver)] \subseteq shown

LEMMA MeasuringShows ==
  ASSUME TypeOK, BufferShown, IdentityShown, driver \in Models, Models \subseteq Forgetful,
         NEW step \in 0 .. Steps(driver), NEW read \in SUBSET Readable(driver, step),
         MeasureMeter(driver, step, read), driver' = driver
  PROVE  BufferShown' /\ IdentityShown'
<1>0. Steps(driver) \in 1 .. 3 /\ ~(Steps(driver) < ReadStep(driver))
  BY StepsArePositive DEF ReadStep
<1>1. driver \notin Bufferless /\ driver \in Forgetful
  BY DEF Forgetful, Bufferless, Nartis
<1>2. Kept(driver) \subseteq shown
  BY <1>1 DEF Kept, BufferShown, TypeOK
<1>3. shown' = shown \cup read
  BY DEF MeasureMeter
<1>4. BufferShown'
  <2>1. CASE step < ReadStep(driver)
    BY <1>3, <2>1 DEF MeasureMeter, BufferShown
  <2>2. CASE ~(step < ReadStep(driver))
    <3>1. buffer' = [buffer EXCEPT ![File(driver)] =
                       Kept(driver) \cup (IF driver \in Shadowing THEN {}
                                          ELSE read \cap Identity)]
      BY <1>1, <2>2 DEF MeasureMeter
    <3>2. File(driver) \in DOMAIN buffer
      BY DEF TypeOK
    <3>. QED BY <1>2, <1>3, <3>1, <3>2 DEF BufferShown
  <2>. QED BY <2>1, <2>2
<1>5. IdentityShown'
  <2> SUFFICES ASSUME last' = "ok" PROVE Identity \subseteq shown'
    BY DEF IdentityShown
  <2>1. step = Steps(driver) /\ read = Readable(driver, step)
    BY <1>0 DEF MeasureMeter, Ending
  <2>2. Wanted(driver) = Identity \ Kept(driver)
    BY <1>1 DEF Wanted
  <2>3. Wanted(driver) \subseteq read
    BY <1>0, <2>1 DEF Readable
  <2>. QED BY <1>2, <1>3, <2>2, <2>3
<1>. QED BY <1>4, <1>5

LEMMA ShownNext ==
  ASSUME Models \subseteq Forgetful
  PROVE  TypeOK /\ BufferShown /\ IdentityShown /\ [Next]_vars
           => BufferShown' /\ IdentityShown'
<1> SUFFICES ASSUME TypeOK, BufferShown, IdentityShown, [Next]_vars
             PROVE  BufferShown' /\ IdentityShown'
  OBVIOUS
<1>1. CASE MeasureMeterCb
  <2>1. driver' = driver
    BY <1>1 DEF MeasureMeterCb
  <2>2. CASE config.model = Undefined \/ driver = Undefined
    BY <1>1, <2>1, <2>2 DEF MeasureMeterCb, Idle, BufferShown, IdentityShown
  <2>3. CASE ~(config.model = Undefined \/ driver = Undefined)
    <3>0. PICK step \in 0 .. Steps(driver) :
             \E read \in SUBSET Readable(driver, step) : MeasureMeter(driver, step, read)
      BY <1>1, <2>3 DEF MeasureMeterCb
    <3>1. PICK read \in SUBSET Readable(driver, step) : MeasureMeter(driver, step, read)
      BY <3>0
    <3>2. driver \in Models
      BY <2>3 DEF TypeOK
    <3>. QED BY <2>1, <3>1, <3>2, MeasuringShows
  <2>. QED BY <2>2, <2>3
<1>2. CASE FaultMeasureMeterCb
  <2>1. CASE fault
    BY <1>2, <2>1 DEF FaultMeasureMeterCb, Load, BufferShown, IdentityShown
  <2>2. CASE ~fault
    BY <1>2, <2>2 DEF FaultMeasureMeterCb, BufferShown, IdentityShown
  <2>. QED BY <2>1, <2>2
<1>3. ASSUME NEW m \in Models \cup {Undefined, Junk}, WriteManufacturer(m)
      PROVE  BufferShown' /\ IdentityShown'
  BY <1>3 DEF WriteManufacturer, Load, BufferShown, IdentityShown
<1>4. CASE Restart
  BY <1>4 DEF Restart, BufferShown, IdentityShown
<1>5. CASE \/ Tick \/ MeterChanges \/ UNCHANGED vars
           \/ \E a \in Addresses : WriteAddress(a)
           \/ \E size \in Sizes : WritePassword(size)
           \/ \E minutes \in Minutes : WritePeriod(minutes)
  <2>1. UNCHANGED <<newStart, driver, buffer, shown, last>>
    BY <1>5
    DEF Tick, MeterChanges, WriteAddress, WritePassword, WritePeriod, vars
  <2>. QED BY <2>1 DEF BufferShown, IdentityShown
<1>. QED BY <1>1, <1>2, <1>3, <1>4, <1>5 DEF Next, Coordinator

(* With drivers that empty their buffers when a meter is chosen, a meter that   *)
(* answered everything has its serial number and its date shown, whichever      *)
(* meters were chosen before, on the same buffers or on others.                 *)
THEOREM IdentityIsShown ==
  ASSUME Models \subseteq Forgetful
  PROVE  Spec => []IdentityShown
<1>1. Init => BufferShown /\ IdentityShown
  BY DEF Init, BufferShown, IdentityShown
<1>2. TypeOK /\ BufferShown /\ IdentityShown /\ [Next]_vars
        => BufferShown' /\ IdentityShown'
  BY ShownNext
<1>. QED BY <1>1, <1>2, TypeCorrect, PTL DEF Spec

=============================================================================
