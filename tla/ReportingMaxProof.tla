-------------------------- MODULE ReportingMaxProof --------------------------
(* Proof about Reporting: no slot with a periodic report stays silent longer    *)
(* than its maximum interval, if no interval that can be configured has minimum *)
(* 0, or if all that can be configured have the same maximum.                   *)
EXTENDS ReportingProof

(* The intervals a slot can come to have: of a request that is stored, or of a  *)
(* table found in flash.                                                        *)
Storable(r) == ~IsReset(r) /\ (r.max = 0 \/ r.min <= r.max)

Offered(min, max) ==
  \/ \E r \in Requests : Storable(r) /\ min = r.min /\ max = r.max
  \/ \E t \in SavedTables, i \in Slot :
       /\ t[i].used
       /\ \/ min = t[i].min /\ max = t[i].max
          \/ min = t[i].minDft /\ max = t[i].maxDft

Periodic(max) == max \notin {0, NoReport}

NoZeroMinimum ==
  \A min, max \in Interval : Offered(min, max) /\ max # NoReport => min # 0

(* What the converter of the repository configures: 300 seconds for everything. *)
OneMaximum ==
  \A min, max, n, m \in Interval :
    Offered(min, max) /\ Periodic(max) /\ Offered(n, m) /\ m # NoReport
      => n <= max /\ m <= max

(* Counters never exceed what they count down from.                             *)
Fits(e) == e.minCnt <= e.min /\ e.maxCnt <= e.max

FittingTables == \A t \in SavedTables, i \in Slot : t[i].used => Fits(t[i])

-----------------------------------------------------------------------------
(* The inductive invariant.  The silence of a slot and what its counter has     *)
(* left make up at most its maximum, as far as the counter is up to date; and   *)
(* while the timer runs, what is left of it must fit in as well, although the   *)
(* timer may have been started for the counters of other slots.                 *)

Timed(i) == Eligible(table, i) /\ table[i].max # 0

Plain(e) == e.used => /\ Fits(e)
                      /\ Offered(e.min, e.max) /\ Offered(e.minDft, e.maxDft)

TablesPlain == \A i \in Slot : Plain(table[i]) /\ Plain(nv[i])

SilenceCounted(i) ==
  /\ quiet[i] + table[i].maxCnt - Elapsed <= table[i].max
  /\ timer.on /\ table[i].maxCnt # 0 => quiet[i] + timer.left <= table[i].max
  /\ timer.on /\ Elapsed > 0 /\ table[i].maxCnt = 0 => quiet[i] <= 0
  /\ ~ready => quiet[i] <= 0

AllCounted == \A i \in Slot : Timed(i) => SilenceCounted(i)

(* Why a report in the middle of a period does no harm: there is none, or no    *)
(* period is longer than any maximum.                                           *)
NoneDue == NoZeroMinimum /\ timer.on => \A i \in Slot : Timed(i) => Waiting(table[i])

ShortPeriods ==
  OneMaximum /\ timer.on =>
    \A min, max \in Interval : Offered(min, max) /\ Periodic(max) => timer.seconds <= max

MaxInv == MinInv /\ TablesPlain /\ AllCounted /\ NoneDue /\ ShortPeriods

(* The numbers of a slot, typed.                                                *)
LEMMA SlotNumbers ==
  ASSUME TypeOK, NEW i \in Slot
  PROVE  /\ table[i] \in Entry
         /\ table[i].min \in Nat /\ table[i].max \in Nat
         /\ table[i].minCnt \in Nat /\ table[i].maxCnt \in Nat
         /\ table[i].min \in Interval /\ table[i].max \in Interval
         /\ quiet[i] \in Int
         /\ Elapsed \in Nat /\ timer.left \in Nat /\ timer.seconds \in Nat
         /\ timer.left <= timer.seconds
         /\ timer.on => Elapsed = timer.seconds - timer.left
         /\ ~timer.on => Elapsed = 0
<1>1. table[i] \in Entry /\ quiet[i] \in Int /\ timer.left <= timer.seconds
  BY DEF TypeOK
<1>2. table[i].min \in Interval /\ table[i].max \in Interval
  BY <1>1 DEF Entry
<1> QED BY <1>1, <1>2, EntryNumbers, ElapsedIsNatural DEF Elapsed

LEMMA TimedIsPeriodic ==
  ASSUME MaxInv, NEW i \in Slot, Timed(i)
  PROVE  /\ Periodic(table[i].max) /\ Offered(table[i].min, table[i].max)
         /\ Fits(table[i])
         /\ table[i].maxCnt # NoReport
         /\ NoZeroMinimum => Limited(table[i])
<1>1. Plain(table[i]) /\ table[i].used /\ table[i].max \notin {0, NoReport}
      /\ table[i].attr \in Attr
  BY DEF MaxInv, TablesPlain, Timed, Eligible
<1>2. /\ table[i].min \in Interval /\ table[i].max \in Interval
      /\ table[i].max \in Nat /\ table[i].maxCnt \in Nat
  BY SlotNumbers DEF MaxInv, MinInv
<1>3. Fits(table[i]) /\ Offered(table[i].min, table[i].max)
  BY <1>1 DEF Plain
<1>4. table[i].maxCnt # NoReport
  BY <1>1, <1>2, <1>3, NoReportIsPositive DEF Fits, Interval
<1>5. NoZeroMinimum => table[i].min # 0
  BY <1>1, <1>2, <1>3 DEF NoZeroMinimum
<1> QED BY <1>1, <1>3, <1>4, <1>5 DEF Periodic, Limited

(* A report while the timer runs finds a maximum the timer does not outlast.    *)
LEMMA PeriodFits ==
  ASSUME MaxInv, NoZeroMinimum \/ OneMaximum, timer.on,
         NEW i \in Slot, Timed(i), ~Waiting(table[i])
  PROVE  timer.seconds <= table[i].max
<1>1. OneMaximum
  BY DEF MaxInv, NoneDue
<1>2. Periodic(table[i].max) /\ Offered(table[i].min, table[i].max)
  BY TimedIsPeriodic
<1>3. table[i].min \in Interval /\ table[i].max \in Interval
  BY SlotNumbers DEF MaxInv, MinInv
<1> QED BY <1>1, <1>2, <1>3 DEF MaxInv, ShortPeriods

LEMMA MaxInvImplies ==
  ASSUME MaxInv
  PROVE  MaxIntervalKept
<1> SUFFICES ASSUME NEW i \in Slot, Scheduled(i) PROVE quiet[i] <= table[i].max
  BY DEF MaxIntervalKept
<1>1. Timed(i) /\ SilenceCounted(i)
  BY DEF MaxInv, AllCounted, Scheduled, Timed
<1>2. TypeOK
  BY DEF MaxInv, MinInv
<1>3. CASE ~timer.on
  BY <1>1, <1>2, <1>3, SlotNumbers DEF SilenceCounted
<1>4. CASE timer.on /\ table[i].maxCnt # 0
  BY <1>1, <1>2, <1>4, SlotNumbers DEF SilenceCounted
<1>5. CASE timer.on /\ table[i].maxCnt = 0
  BY <1>1, <1>2, <1>5, SlotNumbers DEF SilenceCounted
<1> QED BY <1>3, <1>4, <1>5

-----------------------------------------------------------------------------
(* The tables: settings that were offered, counters that fit.                   *)

LEMMA PlainIfCountedDown ==
  ASSUME NEW e \in Entry, NEW d \in Entry, Plain(e), d.used = e.used,
         \A f \in {"min", "max", "minDft", "maxDft"} : d[f] = e[f],
         d.minCnt \in {e.min, e.minCnt} \/ d.minCnt <= e.minCnt,
         d.maxCnt \in {e.max, e.maxCnt} \/ d.maxCnt <= e.maxCnt
  PROVE  Plain(d)
<1>1. /\ e.min \in Nat /\ e.max \in Nat /\ e.minCnt \in Nat /\ e.maxCnt \in Nat
      /\ d.minCnt \in Nat /\ d.maxCnt \in Nat
  BY EntryNumbers
<1>2. Fits(e) => Fits(d)
  BY <1>1 DEF Fits
<1> QED BY <1>2 DEF Plain

LEMMA StoredIsPlain ==
  ASSUME TypeOK, WithinHorizon(table), NEW a \in Attr, NEW r \in Requests, ~Rejected(a, r),
         Plain(table[SlotFor(a)]), NEW e, e = Configured(a, r)[SlotFor(a)]
  PROVE  Plain(e)
<1> DEFINE k == SlotFor(a)
<1>1. k \in Slot /\ table[k] \in Entry
  BY SlotForAttribute DEF TypeOK
<1>2. e.minCnt = e.min /\ e.maxCnt = e.max /\ e \in Entry
  BY <1>1, StoredIsFresh, ConfiguredType
<1>3. Fits(e)
  BY <1>2, EntryNumbers DEF Fits
<1>4. CASE IsReset(r)
  <2>1. table[k].used
    BY <1>4, SlotForAttribute DEF EntriesOf
  <2>2. e = Reset(table[k])
    BY <1>1, <1>4, ConfiguredSlot
  <2>3. /\ e.min = table[k].minDft /\ e.max = table[k].maxDft
        /\ e.minDft = table[k].minDft /\ e.maxDft = table[k].maxDft
    BY <1>1, <2>2 DEF Reset, Entry
  <2> QED BY <1>3, <2>1, <2>3 DEF Plain
<1>5. CASE ~IsReset(r)
  <2>1. e = Update(table[k], a, r)
    BY <1>1, <1>5, ConfiguredSlot
  <2>2. Storable(r)
    <3>1. r.min \in Int /\ r.max \in Int
      BY RequestAssumption, NoReportIsPositive
    <3> QED BY <1>5, <3>1 DEF Storable, Rejected
  <2>3. Offered(r.min, r.max)
    BY <2>2 DEF Offered
  <2>4. e.min = r.min /\ e.max = r.max
    BY <1>1, <2>1, UpdateFields
  <2>5. CASE table[k].used
    <3>1. e.minDft = table[k].minDft /\ e.maxDft = table[k].maxDft
      BY <1>1, <2>1, <2>5, UpdateFields
    <3> QED BY <1>3, <2>3, <2>4, <2>5, <3>1 DEF Plain
  <2>6. CASE ~table[k].used
    <3>1. e.minDft = r.min /\ e.maxDft = r.max
      BY <1>1, <2>1, <2>6, UpdateFields
    <3> QED BY <1>3, <2>3, <2>4, <3>1 DEF Plain
  <2> QED BY <2>5, <2>6
<1> QED BY <1>4, <1>5

LEMMA PlainStep ==
  ASSUME MinInv, TypeOK', TablesPlain, Long = {}, [Next]_vars
  PROVE  TablesPlain'
<1>1. TypeOK /\ WithinHorizon(table)
  BY DEF MinInv
<1>2. \A i \in Slot : /\ table[i] \in Entry /\ table'[i] \in Entry
                      /\ Plain(table[i]) /\ Plain(nv[i])
  BY <1>1 DEF TypeOK, TablesPlain
<1>3. CASE ReportHandler
  <2>1. table' = AfterPass /\ nv' = nv
    BY <1>3 DEF ReportHandler
  <2>2. ASSUME NEW i \in Slot PROVE Plain(table'[i])
    <3>1. /\ table'[i].minCnt \in {table[i].min, table[i].minCnt}
          /\ table'[i].maxCnt \in {table[i].max, table[i].maxCnt}
      BY <1>1, <1>2, <2>1, AfterPassSlot DEF Entry
    <3> QED BY <1>1, <1>2, <2>1, <3>1, HandlerKeepsSettings, PlainIfCountedDown
  <2> QED BY <1>2, <2>1, <2>2 DEF TablesPlain
<1>4. CASE TimerCb
  <2>1. ASSUME NEW i \in Slot PROVE Plain(table'[i])
    <3>1. timer.seconds \in Nat /\ table[i].minCnt \in Nat /\ table[i].maxCnt \in Nat
      BY <1>1, SlotNumbers
    <3>2. /\ CountDown(table[i].minCnt) <= table[i].minCnt
          /\ CountDown(table[i].maxCnt) <= table[i].maxCnt
      BY <3>1 DEF CountDown
    <3>3. /\ table'[i].used = table[i].used
          /\ \A f \in {"min", "max", "minDft", "maxDft"} : table'[i][f] = table[i][f]
          /\ table'[i].minCnt \in {table[i].minCnt, CountDown(table[i].minCnt)}
          /\ table'[i].maxCnt \in {table[i].maxCnt, CountDown(table[i].maxCnt)}
      BY <1>2, <1>4 DEF TimerCb, Entry
    <3> QED BY <1>2, <3>2, <3>3, PlainIfCountedDown
  <2> QED BY <1>2, <1>4, <2>1 DEF TimerCb, TablesPlain
<1>5. ASSUME NEW a \in Attr, NEW r \in Requests, Configure(a, r) PROVE TablesPlain'
  <2>1. CASE Rejected(a, r)
    BY <1>2, <1>5, <2>1 DEF Configure, Configured, SavedAfter, TablesPlain
  <2>2. CASE ~Rejected(a, r)
    <3>1. /\ table' = Configured(a, r) /\ nv' = Restored(table')
          /\ table' \in [Slot -> Entry]
      BY <1>1, <1>5, <2>2, ConfiguredType DEF Configure, SavedAfter
    <3>2. ASSUME NEW i \in Slot PROVE Plain(table'[i])
      <4>1. CASE i = SlotFor(a)
        BY <1>1, <1>2, <2>2, <3>1, <4>1, StoredIsPlain
      <4>2. CASE i # SlotFor(a)
        BY <1>1, <1>2, <2>2, <3>1, <4>2, ConfiguredSlot
      <4> QED BY <4>1, <4>2
    <3>3. ASSUME NEW i \in Slot PROVE Plain(nv'[i])
      BY <3>1, <3>2, RestoreKeepsSettings DEF Plain, Fits
    <3> QED BY <3>2, <3>3 DEF TablesPlain
  <2> QED BY <2>1, <2>2
<1>6. CASE Restart
  BY <1>2, <1>6 DEF Restart, TablesPlain
<1>7. CASE UNCHANGED <<table, nv>>
  BY <1>2, <1>7 DEF TablesPlain
<1>8. CASE Tick \/ Join \/ Leave \/ UNCHANGED vars
  BY <1>7, <1>8 DEF Tick, Join, Leave, vars
<1>9. ASSUME \/ \E a \in Attr, v \in Value : Measure(a, v)
             \/ \E g \in Group : Bind(g) \/ Unbind(g)
      PROVE  TablesPlain'
  BY <1>7, <1>9 DEF Measure, Bind, Unbind
<1> QED BY <1>3, <1>4, <1>5, <1>6, <1>8, <1>9 DEF Next, Environment

-----------------------------------------------------------------------------
(* The timer. *)

(* A timer that is started is not longer than any counter it counts for.        *)
LEMMA StartedTimer ==
  ASSUME TypeOK, NEW t \in [Slot -> Entry], ~timer.on, TimerStart(t) # timer
  PROVE  /\ TimerStart(t).on /\ TimerStart(t).left = TimerStart(t).seconds
         /\ TimerStart(t).seconds \in Timeouts(t)
         /\ \A n \in Timeouts(t) : TimerStart(t).seconds <= n
<1>1. Timeouts(t) # {}
  BY DEF TimerStart
<1>2. Timeouts(t) \subseteq Nat
  BY DEF Timeouts, Entry, Interval
<1>3. TimerStart(t) = [on |-> TRUE, seconds |-> Min(Timeouts(t)), left |-> Min(Timeouts(t))]
  BY <1>1 DEF TimerStart
<1> QED BY <1>1, <1>2, <1>3, MinOfNaturals

LEMMA CounterIsTimeout ==
  ASSUME NEW t, NEW i \in Slot, Eligible(t, i), t[i].maxCnt \notin {0, NoReport}
  PROVE  t[i].maxCnt \in Timeouts(t)
BY DEF Timeouts

(* What the engine waits for is an interval, or part of one, of a slot.         *)
LEMMA TimeoutIsOffered ==
  ASSUME NEW t \in [Slot -> Entry], \A i \in Slot : Plain(t[i]), NEW s \in Timeouts(t)
  PROVE  \E n, m \in Interval : Offered(n, m) /\ m # NoReport /\ (s <= n \/ s <= m)
<1>1. PICK j \in Slot : Eligible(t, j) /\ s \in {t[j].minCnt, t[j].maxCnt}
  BY DEF Timeouts
<1>2. /\ t[j].min \in Interval /\ t[j].max \in Interval
      /\ Offered(t[j].min, t[j].max) /\ t[j].max # NoReport
      /\ t[j].minCnt <= t[j].min /\ t[j].maxCnt <= t[j].max
  BY <1>1 DEF Eligible, Plain, Fits, Entry
<1> QED BY <1>1, <1>2

LEMMA ShortStep ==
  ASSUME MaxInv, TypeOK', TablesPlain', [Next]_vars
  PROVE  ShortPeriods'
<1>0. TypeOK
  BY DEF MaxInv, MinInv
<1> SUFFICES ASSUME OneMaximum, timer'.on,
                    NEW min \in Interval, NEW max \in Interval,
                    Offered(min, max), Periodic(max)
             PROVE  timer'.seconds <= max
  BY DEF ShortPeriods
<1>1. CASE timer.on /\ timer'.seconds = timer.seconds
  BY <1>1 DEF MaxInv, ShortPeriods
<1>2. CASE timer' = timer
  BY <1>1, <1>2
<1>3. CASE timer' = TimerOff
  BY <1>3 DEF TimerOff
<1>4. CASE Tick
  <2>1. timer'.seconds = timer.seconds /\ timer'.on = timer.on
    BY <1>0, <1>4 DEF Tick, TypeOK, TimerType
  <2> QED BY <1>1, <2>1
<1>5. CASE ReportHandler /\ timer' # timer
  <2>1. /\ AfterPass \in [Slot -> Entry] /\ table' = AfterPass
        /\ timer' = TimerStart(AfterPass) /\ ~timer.on
    BY <1>0, <1>5, AfterPassType, TimerStartType DEF ReportHandler
  <2>2. timer'.seconds \in Timeouts(AfterPass)
    BY <1>0, <1>5, <2>1, StartedTimer
  <2>3. PICK n \in Interval, m \in Interval :
           Offered(n, m) /\ m # NoReport /\ (timer'.seconds <= n \/ timer'.seconds <= m)
    BY <2>1, <2>2, TimeoutIsOffered DEF TablesPlain
  <2>4. n <= max /\ m <= max
    BY <2>3 DEF OneMaximum
  <2>5. timer'.seconds \in Nat /\ n \in Nat /\ m \in Nat /\ max \in Nat
    BY NoReportIsPositive DEF TypeOK, TimerType, Interval
  <2> QED BY <2>3, <2>4, <2>5
<1>6. CASE TimerCb \/ Restart
  BY <1>3, <1>6 DEF TimerCb, Restart
<1>7. ASSUME NEW a \in Attr, NEW r \in Requests, Configure(a, r)
      PROVE  timer'.seconds <= max
  BY <1>3, <1>7 DEF Configure
<1>8. CASE Join \/ Leave \/ UNCHANGED vars
  BY <1>2, <1>8 DEF Join, Leave, vars
<1>9. ASSUME \/ \E a \in Attr, v \in Value : Measure(a, v)
             \/ \E g \in Group : Bind(g) \/ Unbind(g)
      PROVE  timer'.seconds <= max
  BY <1>2, <1>9 DEF Measure, Bind, Unbind
<1> QED BY <1>2, <1>4, <1>5, <1>6, <1>7, <1>8, <1>9 DEF Next, Environment

-----------------------------------------------------------------------------
(* Without a minimum of 0, the handler leaves nothing due behind when its loop  *)
(* ends, so nothing is due while the timer it starts is running.                *)

LEMMA LoopEndsSettled ==
  ASSUME MaxInv, NoZeroMinimum, Long = {}, ~PassAgain, NEW i \in Slot, Timed(i)
  PROVE  i \in Scanned /\ (i \in DueSlots => i \in Batch)
<1>1. TypeOK /\ DueSlots \subseteq Nat
  BY SizesAssumption DEF MaxInv, MinInv, DueSlots, Slot
<1>2. CASE DueSlots = {}
  BY <1>2 DEF Scanned
<1>3. CASE DueSlots # {}
  <2>1. First \in DueSlots /\ \A j \in DueSlots : First <= j
    BY <1>1, <1>3, MinOfNaturals DEF First
  <2>2. Overrun(First) = {}
    BY DEF Overrun, Outgrown
  <2>3. ASSUME Mates # {} PROVE FALSE
    <3>1. Mates \subseteq DueSlots
      BY DEF Mates
    <3>2. Min(Mates) \in Mates /\ Min(Mates) \in DueSlots
      BY <1>1, <2>3, <3>1, MinOfNaturals
    <3>3. MateIfAny = {Min(Mates)}
      BY <2>3 DEF MateIfAny
    <3>4. table[Min(Mates)].min = 0
      BY <1>3, <3>3 DEF PassAgain
    <3>5. Min(Mates) \in Slot /\ Eligible(table, Min(Mates))
      BY <3>2, DueIsEligible
    <3>6. Offered(0, table[Min(Mates)].max) /\ table[Min(Mates)].max # NoReport
      BY <3>4, <3>5 DEF MaxInv, TablesPlain, Plain, Eligible
    <3>7. table[Min(Mates)].max \in Interval /\ 0 \in Interval
      BY <1>1, <3>4, <3>5, SlotNumbers
    <3> QED BY <3>6, <3>7 DEF NoZeroMinimum
  <2>4. Scanned = Slot
    BY <1>3, <2>2, <2>3 DEF Scanned, MateIfAny
  <2>5. ASSUME i \in DueSlots PROVE i = First
    <3>1. SameGroup(i, First)
      BY <1>3, <2>4, <2>5 DEF PassAgain
    <3>2. i > First => i \in Mates
      BY <2>2, <2>5, <3>1 DEF Mates
    <3> QED BY <1>1, <2>1, <2>3, <2>5, <3>2
  <2> QED BY <1>3, <2>4, <2>5 DEF Batch
<1> QED BY <1>2, <1>3

LEMMA WaitingAfterLoop ==
  ASSUME MaxInv, NoZeroMinimum, Long = {}, ~PassAgain, NEW i \in Slot, Timed(i)
  PROVE  Waiting(AfterPass[i])
<1>1. TypeOK /\ Limited(table[i]) /\ Eligible(table, i) /\ table[i] \in Entry
  BY TimedIsPeriodic, SlotNumbers DEF MaxInv, MinInv, Timed
<1>2. i \in Scanned /\ (i \in DueSlots => i \in Batch)
  BY LoopEndsSettled
<1>3. CASE i \in Batch
  <2>1. AfterPass[i].minCnt = table[i].min /\ AfterPass[i].maxCnt = table[i].max
    BY <1>1, <1>3, AfterPassSlot DEF Entry
  <2> QED BY <1>1, <2>1 DEF Waiting, Limited
<1>4. CASE i \notin Batch
  <2>1. ~Due(i)
    BY <1>2, <1>4 DEF DueSlots
  <2>2. table[i].maxCnt # 0
    BY <1>1, <2>1 DEF Due, Limited
  <2>3. CASE Rearms(i)
    <3>1. AfterPass[i].minCnt = table[i].min /\ AfterPass[i].maxCnt = table[i].maxCnt
      BY <1>1, <1>2, <1>4, <2>3, AfterPassSlot DEF Entry
    <3> QED BY <1>1, <2>2, <3>1 DEF Waiting, Limited
  <2>4. CASE ~Rearms(i)
    <3>1. AfterPass[i] = table[i]
      BY <1>1, <1>4, <2>4, AfterPassSlot
    <3>2. table[i].minCnt # 0
      BY <1>1, <2>1, <2>2, <2>4 DEF Due, Rearms
    <3> QED BY <2>2, <3>1, <3>2 DEF Waiting
  <2> QED BY <2>3, <2>4
<1> QED BY <1>3, <1>4

(* Which slots are timed depends on what the handler leaves alone.              *)
LEMMA TimedInHandler ==
  ASSUME TypeOK, Long = {}, ReportHandler, NEW i \in Slot
  PROVE  Timed(i)' <=> Timed(i)
<1>1. table[i] \in Entry /\ table' = AfterPass /\ bound' = bound
  BY DEF TypeOK, ReportHandler
<1>2. /\ table'[i].used = table[i].used /\ table'[i].attr = table[i].attr
      /\ table'[i].max = table[i].max
  BY <1>1, AfterPassSlot DEF Entry
<1> QED BY <1>1, <1>2 DEF Timed, Eligible

LEMMA NoneDueStep ==
  ASSUME MaxInv, Long = {}, ~MayUnbind, [Next]_vars
  PROVE  NoneDue'
<1>0. TypeOK /\ UntouchedWhileUnbound
  BY DEF MaxInv, MinInv
<1> SUFFICES ASSUME NoZeroMinimum, timer'.on, NEW i \in Slot, Timed(i)'
             PROVE  Waiting(table'[i])
  BY DEF NoneDue
<1>1. CASE timer.on /\ Timed(i) /\ table'[i] = table[i]
  BY <1>1 DEF MaxInv, NoneDue
<1>2. CASE UNCHANGED <<table, bound>> /\ timer'.on = timer.on
  BY <1>1, <1>2 DEF Timed, Eligible
<1>3. CASE ReportHandler
  <2>1. Timed(i) /\ table' = AfterPass
    BY <1>0, <1>3, TimedInHandler DEF ReportHandler
  <2>2. CASE timer.on
    <3>1. Waiting(table[i])
      BY <2>1, <2>2 DEF MaxInv, NoneDue
    <3>2. i \notin Batch /\ ~Rearms(i)
      BY <1>0, <3>1, BatchIsDue, DueIsEligible DEF Due, Rearms, Waiting
    <3> QED BY <1>0, <2>1, <3>1, <3>2, AfterPassSlot
  <2>3. CASE ~timer.on
    <3>1. ~PassAgain
      BY <1>3, <2>3 DEF ReportHandler
    <3> QED BY <2>1, <3>1, WaitingAfterLoop
  <2> QED BY <2>2, <2>3
<1>4. CASE TimerCb \/ Restart
  <2>1. timer' = TimerOff
    BY <1>4 DEF TimerCb, Restart
  <2> QED BY <2>1 DEF TimerOff
<1>5. CASE Tick
  <2>1. timer'.on = timer.on
    BY <1>0, <1>5 DEF Tick, TypeOK, TimerType
  <2> QED BY <1>2, <1>5, <2>1 DEF Tick
<1>6. ASSUME NEW a \in Attr, NEW r \in Requests, Configure(a, r)
      PROVE  Waiting(table'[i])
  BY <1>6 DEF Configure, TimerOff
<1>7. ASSUME NEW g \in Group, Bind(g) PROVE Waiting(table'[i])
  <2>1. UNCHANGED <<table, timer>>
    BY <1>7 DEF Bind
  <2>2. CASE Timed(i)
    BY <1>1, <2>1, <2>2
  <2>3. CASE ~Timed(i)
    <3>1. /\ table[i].used /\ table[i].attr \in Attr /\ table[i].max \notin {0, NoReport}
      BY <2>1 DEF Timed, Eligible
    <3>2. Unbound(table, i)
      BY <2>3, <3>1 DEF Timed, Eligible, Unbound
    <3>3. table[i].min \in Interval /\ table[i].max \in Interval
      BY <1>0, SlotNumbers
    <3>4. Offered(table[i].min, table[i].max)
      BY <3>1 DEF MaxInv, TablesPlain, Plain
    <3>5. Limited(table[i])
      BY <3>1, <3>3, <3>4 DEF NoZeroMinimum, Limited
    <3> QED BY <1>0, <2>1, <3>2, <3>5 DEF UntouchedWhileUnbound
  <2> QED BY <2>2, <2>3
<1>8. CASE Join \/ Leave \/ UNCHANGED vars
  BY <1>2, <1>8 DEF Join, Leave, vars
<1>9. ASSUME \/ \E a \in Attr, v \in Value : Measure(a, v)
             \/ \E g \in Group : Unbind(g)
      PROVE  Waiting(table'[i])
  BY <1>2, <1>9 DEF Measure, Unbind
<1> QED BY <1>3, <1>4, <1>5, <1>6, <1>7, <1>8, <1>9 DEF Next, Environment

-----------------------------------------------------------------------------
(* The silence of a slot, action by action. *)

LEMMA CountedHandler ==
  ASSUME MaxInv, TypeOK', Long = {}, NoZeroMinimum \/ OneMaximum, ReportHandler
  PROVE  AllCounted'
<1>1. TypeOK /\ AfterPass \in [Slot -> Entry] /\ table' = AfterPass
  BY AfterPassType DEF MaxInv, MinInv, ReportHandler
<1>2. Elapsed' = Elapsed /\ ready' = ready /\ ready
  BY <1>1, ElapsedInHandler DEF ReportHandler
<1> SUFFICES ASSUME NEW i \in Slot, Timed(i)' PROVE SilenceCounted(i)'
  BY DEF AllCounted
<1>3. Timed(i) /\ SilenceCounted(i) /\ Fits(table[i]) /\ Eligible(table, i)
  BY <1>1, TimedInHandler, TimedIsPeriodic DEF MaxInv, AllCounted, Timed
<1>4. /\ table'[i].max = table[i].max
      /\ i \in Batch => table'[i].maxCnt = table[i].max /\ quiet'[i] = 0
      /\ i \notin Batch => table'[i].maxCnt = table[i].maxCnt /\ quiet'[i] = quiet[i]
  <2>1. table[i] \in Entry
    BY <1>1 DEF TypeOK
  <2> QED BY <1>1, <2>1, AfterPassSlot DEF ReportHandler, Entry
<1>5. /\ table[i].max \in Nat /\ table[i].maxCnt \in Nat /\ quiet[i] \in Int
      /\ Elapsed \in Nat /\ timer.left \in Nat /\ timer.seconds \in Nat
      /\ timer.left <= timer.seconds
      /\ timer'.left \in Nat /\ timer'.seconds \in Nat
      /\ ~timer.on => Elapsed = 0
  <2>1. timer'.left \in Interval /\ timer'.seconds \in Interval
    BY DEF TypeOK, TimerType
  <2> QED BY <1>1, <2>1, SlotNumbers, NoReportIsPositive DEF Interval
<1>6. quiet'[i] + table'[i].maxCnt - Elapsed' <= table'[i].max
  BY <1>2, <1>3, <1>4, <1>5 DEF SilenceCounted, Fits
<1>7. ASSUME timer'.on, table'[i].maxCnt # 0
      PROVE  quiet'[i] + timer'.left <= table'[i].max
  <2>1. CASE timer' = timer
    <3>1. CASE i \in Batch
      <4>1. ~Waiting(table[i])
        BY <1>1, <3>1, BatchIsDue, DueIsEligible DEF Due, Waiting
      <4>2. timer.seconds <= table[i].max
        BY <1>3, <1>7, <2>1, <4>1, PeriodFits
      <4> QED BY <1>4, <1>5, <2>1, <3>1, <4>2
    <3>2. CASE i \notin Batch
      BY <1>3, <1>4, <1>7, <2>1, <3>2 DEF SilenceCounted
    <3> QED BY <3>1, <3>2
  <2>2. CASE timer' # timer
    <3>1. ~timer.on /\ timer' = TimerStart(AfterPass)
      BY <1>1, <2>2, TimerStartType DEF ReportHandler
    <3>2. /\ timer'.left = timer'.seconds
          /\ \A n \in Timeouts(AfterPass) : timer'.seconds <= n
      BY <1>1, <2>2, <3>1, StartedTimer
    <3>3. AfterPass[i].maxCnt # NoReport
      BY <1>1, <1>3, <1>4, TimedIsPeriodic DEF Periodic, Timed
    <3>4. Eligible(AfterPass, i)
      BY <1>1 DEF Timed, Eligible, ReportHandler
    <3>5. AfterPass[i].maxCnt \in Timeouts(AfterPass)
      BY <1>1, <1>7, <3>3, <3>4, CounterIsTimeout
    <3>6. timer'.left <= table'[i].maxCnt
      BY <1>1, <3>2, <3>5
    <3> QED BY <1>2, <1>4, <1>5, <1>6, <3>1, <3>6
  <2> QED BY <2>1, <2>2
<1>8. ASSUME timer'.on, Elapsed' > 0, table'[i].maxCnt = 0 PROVE quiet'[i] <= 0
  <2>1. timer.on
    BY <1>2, <1>5, <1>8
  <2> QED BY <1>2, <1>3, <1>4, <1>5, <1>8, <2>1 DEF SilenceCounted
<1> QED BY <1>2, <1>6, <1>7, <1>8 DEF SilenceCounted

LEMMA CountedTimerCb ==
  ASSUME MaxInv, TypeOK', TimerCb
  PROVE  AllCounted'
<1>1. TypeOK /\ timer.on /\ timer.left = 0 /\ timer' = TimerOff
  BY DEF MaxInv, MinInv, TimerCb
<1> SUFFICES ASSUME NEW i \in Slot, Timed(i)' PROVE SilenceCounted(i)'
  BY DEF AllCounted
<1>2. table[i] \in Entry /\ bound' = bound
  BY <1>1 DEF TypeOK, TimerCb
<1>3. /\ table'[i].used = table[i].used /\ table'[i].attr = table[i].attr
      /\ table'[i].max = table[i].max
  BY <1>2 DEF TimerCb, Entry
<1>4. Timed(i) /\ Eligible(table, i)
  BY <1>2, <1>3 DEF Timed, Eligible
<1>5. SilenceCounted(i)
  BY <1>4 DEF MaxInv, AllCounted
<1>6. table'[i].maxCnt = CountDown(table[i].maxCnt)
      /\ quiet' = quiet /\ ready' = ready
  BY <1>2, <1>4 DEF TimerCb, Entry
<1>7. /\ table[i].max \in Nat /\ table[i].maxCnt \in Nat /\ quiet[i] \in Int
      /\ Elapsed \in Nat /\ timer.left \in Nat /\ timer.seconds \in Nat
      /\ Elapsed = timer.seconds
  BY <1>1, SlotNumbers
<1>8. ~timer'.on /\ Elapsed' = 0
  BY <1>1 DEF TimerOff, Elapsed
<1>9. quiet[i] + table'[i].maxCnt <= table[i].max
  <2>1. CASE table[i].maxCnt >= timer.seconds
    BY <1>5, <1>6, <1>7, <2>1 DEF SilenceCounted, CountDown
  <2>2. CASE table[i].maxCnt < timer.seconds
    <3>1. table'[i].maxCnt = 0
      BY <1>6, <1>7, <2>2 DEF CountDown
    <3>2. quiet[i] <= table[i].max
      BY <1>1, <1>5, <1>7, <2>2 DEF SilenceCounted
    <3> QED BY <1>7, <3>1, <3>2
  <2> QED BY <1>7, <2>1, <2>2
<1>10. table'[i].maxCnt \in Nat /\ (~ready => quiet[i] <= 0)
  BY <1>5, <1>6, <1>7 DEF SilenceCounted, CountDown
<1> QED BY <1>3, <1>6, <1>7, <1>8, <1>9, <1>10 DEF SilenceCounted

LEMMA CountedTick ==
  ASSUME MaxInv, TypeOK', Prompt, Tick
  PROVE  AllCounted'
<1>1. /\ TypeOK /\ Settled /\ UNCHANGED <<table, bound, ready>>
      /\ timer' = IF timer.left > 0 THEN [timer EXCEPT !.left = @ - 1] ELSE timer
  BY DEF MaxInv, MinInv, Tick
<1> SUFFICES ASSUME NEW i \in Slot, Timed(i)' PROVE SilenceCounted(i)'
  BY DEF AllCounted
<1>2. Timed(i) /\ Eligible(table, i) /\ table[i].max # 0
  BY <1>1 DEF Timed, Eligible
<1>3. SilenceCounted(i) /\ Fits(table[i]) /\ table[i].maxCnt # NoReport
  BY <1>2, TimedIsPeriodic DEF MaxInv, AllCounted
<1>4. /\ table[i].max \in Nat /\ table[i].maxCnt \in Nat /\ quiet[i] \in Int
      /\ Elapsed \in Nat /\ timer.left \in Nat /\ timer.seconds \in Nat
      /\ timer.left <= timer.seconds
      /\ timer.on => Elapsed = timer.seconds - timer.left
      /\ ~timer.on => Elapsed = 0
  BY <1>1, SlotNumbers
<1>5. /\ quiet'[i] \in Int /\ quiet'[i] <= quiet[i] + 1
      /\ ~ready => quiet'[i] <= 0
  <2>1. quiet' = [j \in Slot |-> IF Scheduled(j) \/ quiet[j] < 0
                                THEN Older(quiet[j]) ELSE 0]
    BY DEF Tick
  <2>2. Horizon \in Nat
    BY SizesAssumption
  <2>3. Older(quiet[i]) \in Int /\ Older(quiet[i]) <= quiet[i] + 1
    BY <1>4, <2>2 DEF Older
  <2>4. CASE Scheduled(i)
    BY <2>1, <2>3, <2>4 DEF Scheduled
  <2>5. CASE ~Scheduled(i)
    <3>1. quiet[i] < 0 => Older(quiet[i]) <= 0
      BY <1>4, <2>3
    <3> QED BY <1>4, <2>1, <2>3, <2>5, <3>1
  <2> QED BY <2>4, <2>5
<1>6. ready => table[i].maxCnt # 0
  BY <1>1, <1>2 DEF Settled, Due
<1>7. CASE timer.on
  <2>1. timer.left > 0
    BY <1>1, <1>4, <1>7 DEF Settled
  <2>2. timer'.on /\ timer'.left = timer.left - 1 /\ timer'.seconds = timer.seconds
    BY <1>1, <1>7, <2>1 DEF TypeOK, TimerType
  <2>3. Elapsed' = Elapsed + 1
    BY <1>4, <1>7, <2>2 DEF Elapsed
  <2>4. quiet'[i] + table'[i].maxCnt - Elapsed' <= table'[i].max
    BY <1>1, <1>3, <1>4, <1>5, <2>3 DEF SilenceCounted
  <2>5. table'[i].maxCnt # 0 => quiet'[i] + timer'.left <= table'[i].max
    BY <1>1, <1>3, <1>4, <1>5, <1>7, <2>2 DEF SilenceCounted
  <2>6. table'[i].maxCnt = 0 => quiet'[i] <= 0
    BY <1>1, <1>5, <1>6
  <2> QED BY <1>1, <1>5, <2>4, <2>5, <2>6 DEF SilenceCounted
<1>8. CASE ~timer.on
  <2>1. timer'.on = timer.on
    BY <1>1 DEF TypeOK, TimerType
  <2>2. ~timer'.on /\ Elapsed' = 0 /\ Elapsed = 0
    BY <1>8, <2>1 DEF Elapsed
  <2>3. ~ready
    <3>1. SUFFICES ASSUME ready PROVE FALSE
      OBVIOUS
    <3>2. timer = TimerStart(table)
      BY <1>1, <3>1 DEF Settled
    <3>3. table[i].maxCnt \in Timeouts(table)
      BY <1>2, <1>3, <1>6, <3>1, CounterIsTimeout
    <3> QED BY <1>8, <3>2, <3>3 DEF TimerStart
  <2>4. quiet'[i] <= 0 /\ table[i].maxCnt <= table[i].max
    BY <1>3, <1>5, <2>3 DEF Fits
  <2> QED BY <1>1, <1>4, <1>5, <2>2, <2>4 DEF SilenceCounted
<1> QED BY <1>7, <1>8

(* What stops the timer and starts the silences over needs no counting.         *)
LEMMA CountedAfresh ==
  ASSUME TypeOK', TablesPlain', timer' = TimerOff, quiet' = [i \in Slot |-> 0]
  PROVE  AllCounted'
<1> SUFFICES ASSUME NEW i \in Slot, Timed(i)' PROVE SilenceCounted(i)'
  BY DEF AllCounted
<1>1. Fits(table'[i])
  BY DEF TablesPlain, Plain, Timed, Eligible
<1>2. table'[i].max \in Nat /\ table'[i].maxCnt \in Nat
  BY EntryNumbers DEF TypeOK
<1>3. ~timer'.on /\ Elapsed' = 0
  BY DEF TimerOff, Elapsed
<1>4. quiet'[i] = 0
  OBVIOUS
<1> QED BY <1>1, <1>2, <1>3, <1>4 DEF SilenceCounted, Fits

LEMMA CountedBind ==
  ASSUME MaxInv, NEW g \in Group, Bind(g)
  PROVE  AllCounted'
<1>1. TypeOK /\ UNCHANGED <<table, timer, ready>> /\ bound' = bound \cup {g}
  BY DEF MaxInv, MinInv, Bind
<1> SUFFICES ASSUME NEW i \in Slot, Timed(i)' PROVE SilenceCounted(i)'
  BY DEF AllCounted
<1>2. /\ table[i].used /\ table[i].attr \in Attr /\ table[i].max \notin {0, NoReport}
      /\ GroupOf[table[i].attr] \in bound \cup {g}
  BY <1>1 DEF Timed, Eligible
<1>3. Elapsed' = Elapsed
  BY <1>1 DEF Elapsed
<1>4. CASE GroupOf[table[i].attr] = g
  <2>1. quiet'[i] = 0 - timer.left
    BY <1>2, <1>4 DEF Bind
  <2>2. Fits(table[i])
    BY <1>2 DEF MaxInv, TablesPlain, Plain
  <2>3. /\ table[i].max \in Nat /\ table[i].maxCnt \in Nat
        /\ Elapsed \in Nat /\ timer.left \in Nat
    BY <1>1, SlotNumbers
  <2> QED BY <1>1, <1>3, <2>1, <2>2, <2>3 DEF SilenceCounted, Fits
<1>5. CASE GroupOf[table[i].attr] # g
  <2>1. Timed(i)
    BY <1>2, <1>5 DEF Timed, Eligible
  <2>2. quiet'[i] = quiet[i]
    BY <1>2, <1>5 DEF Bind
  <2> QED BY <1>1, <1>3, <2>1, <2>2 DEF MaxInv, AllCounted, SilenceCounted
<1> QED BY <1>4, <1>5

(* A silence that does not grow, in a network that may be lost or found.        *)
LEMMA CountedIfQuieter ==
  ASSUME MaxInv, UNCHANGED <<table, timer, bound>>,
         \A i \in Slot : quiet'[i] \in Int /\ quiet'[i] <= quiet[i],
         ~ready' => ~ready \/ \A i \in Slot : quiet'[i] <= 0
  PROVE  AllCounted'
<1> SUFFICES ASSUME NEW i \in Slot, Timed(i)' PROVE SilenceCounted(i)'
  BY DEF AllCounted
<1>1. TypeOK /\ Timed(i) /\ Elapsed' = Elapsed
  BY DEF MaxInv, MinInv, Timed, Eligible, Elapsed
<1>2. SilenceCounted(i) /\ Fits(table[i])
  BY <1>1, TimedIsPeriodic DEF MaxInv, AllCounted
<1>3. /\ table[i].max \in Nat /\ table[i].maxCnt \in Nat /\ quiet[i] \in Int
      /\ Elapsed \in Nat /\ timer.left \in Nat
  BY <1>1, SlotNumbers
<1> QED BY <1>1, <1>2, <1>3 DEF SilenceCounted

LEMMA CountedStep ==
  ASSUME MaxInv, TypeOK', TablesPlain', Prompt, ~MayUnbind, Long = {},
         NoZeroMinimum \/ OneMaximum, [Next]_vars
  PROVE  AllCounted'
<1>1. TypeOK /\ TypeOK'
  BY DEF MaxInv, MinInv
<1>2. CASE UNCHANGED <<table, timer, bound, ready, quiet>>
  BY <1>1, <1>2, CountedIfQuieter DEF TypeOK
<1>3. CASE Leave
  <2>1. \A i \in Slot : /\ quiet'[i] \in Int /\ quiet'[i] <= quiet[i]
                       /\ quiet'[i] <= 0
    BY <1>1, <1>3 DEF Leave, TypeOK
  <2> QED BY <1>3, <2>1, CountedIfQuieter DEF Leave
<1>4. CASE Join
  BY <1>1, <1>4, CountedIfQuieter DEF Join, TypeOK
<1>5. CASE Restart
  BY <1>1, <1>5, CountedAfresh DEF Restart
<1>6. ASSUME NEW a \in Attr, NEW r \in Requests, Configure(a, r) PROVE AllCounted'
  BY <1>1, <1>6, CountedAfresh DEF Configure
<1>7. ASSUME \/ \E a \in Attr, v \in Value : Measure(a, v)
             \/ \E g \in Group : Unbind(g)
      PROVE  AllCounted'
  BY <1>2, <1>7 DEF Measure, Unbind
<1>8. CASE UNCHANGED vars
  BY <1>2, <1>8 DEF vars
<1>9. CASE ReportHandler \/ TimerCb \/ Tick
  BY <1>9, CountedHandler, CountedTimerCb, CountedTick
<1> QED BY <1>3, <1>4, <1>5, <1>6, <1>7, <1>8, <1>9, CountedBind DEF Next, Environment

-----------------------------------------------------------------------------
LEMMA MaxInit ==
  ASSUME Long = {}, FreshTables, FittingTables
  PROVE  Init => MaxInv
<1> SUFFICES ASSUME Init PROVE MaxInv
  OBVIOUS
<1>1. MinInv /\ TypeOK
  BY MinInit, TypeInit
<1>2. ASSUME NEW i \in Slot PROVE Plain(table[i]) /\ Plain(nv[i])
  <2>1. table \in SavedTables /\ nv = table
    BY DEF Init
  <2>2. table[i].used => /\ Fits(table[i])
                         /\ Offered(table[i].min, table[i].max)
                         /\ Offered(table[i].minDft, table[i].maxDft)
    BY <2>1 DEF FittingTables, Offered
  <2> QED BY <2>1, <2>2 DEF Plain
<1>3. ~timer.on /\ Elapsed = 0
  BY DEF Init, TimerOff, Elapsed
<1>4. ASSUME NEW i \in Slot, Timed(i) PROVE SilenceCounted(i)
  <2>1. Fits(table[i]) /\ quiet[i] = 0
    BY <1>2, <1>4 DEF Plain, Timed, Eligible, Init
  <2> QED BY <1>1, <1>3, <2>1, SlotNumbers DEF SilenceCounted, Fits
<1> QED BY <1>1, <1>2, <1>3, <1>4 DEF MaxInv, TablesPlain, AllCounted, NoneDue, ShortPeriods

(* While the device is in its network, bound and left alone, a slot with a      *)
(* periodic report is reported at least once in its maximum interval, however   *)
(* many slots, groups and intervals compete for the one timer, if the intervals *)
(* are those the converter sets or none has minimum 0: the second frame of a    *)
(* pass may otherwise be left to the next poll with the timer already running   *)
(* (zcl_reporting.c:637, 684).  The main loop must not be held up for a second. *)
THEOREM MaximumIntervals ==
  ASSUME Prompt, ~MayUnbind, Long = {}, FreshTables, FittingTables,
         NoZeroMinimum \/ OneMaximum
  PROVE  Spec => []MaxIntervalKept
<1>1. Init => MaxInv
  BY MaxInit
<1>2. MaxInv /\ [Next]_vars => MaxInv'
  <2> SUFFICES ASSUME MaxInv, [Next]_vars PROVE MaxInv'
    OBVIOUS
  <2>1. MinInv' /\ TypeOK'
    BY MinStep DEF MaxInv, MinInv
  <2>2. TablesPlain'
    BY <2>1, PlainStep DEF MaxInv
  <2>3. AllCounted' /\ NoneDue' /\ ShortPeriods'
    BY <2>1, <2>2, CountedStep, NoneDueStep, ShortStep
  <2> QED BY <2>1, <2>2, <2>3 DEF MaxInv
<1>3. MaxInv => MaxIntervalKept
  BY MaxInvImplies
<1> QED BY <1>1, <1>2, <1>3, PTL DEF Spec

=============================================================================
