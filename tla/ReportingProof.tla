--------------------------- MODULE ReportingProof ---------------------------
(* Proofs about Reporting, for every table size, every set of attributes and    *)
(* requests: type correctness, passes that leave less to do, the sanity of both *)
(* tables, a configuration that is saved and stays, and that no slot with a     *)
(* periodic report is sent before its minimum interval.                         *)
EXTENDS Reporting, WellFoundedInduction, TLAPS

-----------------------------------------------------------------------------
(* All that the proofs use of the value of NoReport.                            *)
LEMMA NoReportIsPositive == NoReport \in Nat /\ NoReport > 0
BY DEF NoReport

LEMMA TimerOffType == TimerOff \in TimerType /\ TimerOff.left <= TimerOff.seconds
BY NoReportIsPositive DEF TimerOff, TimerType, Interval

LEMMA BoundsAreNaturals ==
  TableNum \in Nat /\ Horizon \in Nat /\ MaxConfigures \in Nat /\ MaxFaults \in Nat
BY SizesAssumption

LEMMA FaultCount == TypeOK /\ Fault => faults' \in 0 .. MaxFaults
BY BoundsAreNaturals DEF TypeOK, Fault

-----------------------------------------------------------------------------
(* Minima. *)

(* A nonempty set of naturals has a least element, which Min returns.           *)
LEMMA MinOfNaturals ==
  ASSUME NEW S, S \subseteq Nat, S # {}
  PROVE  Min(S) \in S /\ \A y \in S : Min(S) <= y
<1>1. \E x \in S : \A y \in S : ~(<<y, x>> \in OpToRel(<, Nat))
  BY NatLessThanWellFounded, WFMin
<1>2. PICK x \in S : \A y \in S : ~(<<y, x>> \in OpToRel(<, Nat))
  BY <1>1
<1>3. ASSUME NEW y \in S PROVE x <= y
  <2>1. x \in Nat /\ y \in Nat
    BY <1>3
  <2>2. ~(y < x)
    <3>1. y < x => <<y, x>> \in OpToRel(<, Nat)
      BY <2>1 DEF OpToRel
    <3> QED BY <1>2, <3>1
  <2> QED BY <2>1, <2>2
<1> QED
  BY <1>3 DEF Min

-----------------------------------------------------------------------------
(* What the pieces of the handler return. *)

(* The frame of a pass is made of due slots.                                    *)
LEMMA BatchIsDue ==
  ASSUME TypeOK
  PROVE  Batch \subseteq DueSlots
<1>1. DueSlots \subseteq Nat
  BY SizesAssumption DEF DueSlots, Slot
<1>2. CASE DueSlots = {}
  BY <1>2 DEF Batch
<1>3. CASE DueSlots # {}
  <2>1. First \in DueSlots
    BY <1>1, <1>3, MinOfNaturals DEF First
  <2>2. Mates \subseteq DueSlots
    BY DEF Mates
  <2>3. MateIfAny \subseteq DueSlots
    <3>1. CASE Mates = {}
      BY <3>1 DEF MateIfAny
    <3>2. CASE Mates # {}
      <4>1. Min(Mates) \in Mates
        BY <1>1, <2>2, <3>2, MinOfNaturals
      <4> QED BY <2>2, <3>2, <4>1 DEF MateIfAny
    <3> QED BY <3>1, <3>2
  <2> QED BY <1>3, <2>1, <2>3 DEF Batch
<1> QED BY <1>2, <1>3

(* A due slot is in use and holds an attribute.                                 *)
LEMMA DueIsEligible ==
  ASSUME NEW i \in DueSlots
  PROVE  i \in Slot /\ Due(i) /\ Eligible(table, i)
BY DEF DueSlots, Due

(* A pass leaves a well-typed table.                                            *)
LEMMA AfterPassType ==
  ASSUME TypeOK
  PROVE  AfterPass \in [Slot -> Entry]
<1>1. ASSUME NEW i \in Slot
      PROVE  AfterPass[i] \in Entry
  <2>1. table[i] \in Entry
    BY DEF TypeOK
  <2>2. [table[i] EXCEPT !.attr = Garbled] \in Entry
    BY <2>1 DEF Entry
  <2>3. [table[i] EXCEPT !.minCnt = table[i].min] \in Entry
    BY <2>1 DEF Entry
  <2>4. ASSUME i \in Batch
        PROVE  [table[i] EXCEPT !.prev = value[table[i].attr],
                                !.minCnt = table[i].min, !.maxCnt = table[i].max] \in Entry
    <3>1. table[i].attr \in Attr
      BY <2>4, BatchIsDue, DueIsEligible DEF Eligible
    <3>2. value[table[i].attr] \in Nat
      BY <3>1, ValueAssumption DEF TypeOK
    <3> QED BY <2>1, <3>2 DEF Entry
  <2> QED BY <2>1, <2>2, <2>3, <2>4 DEF AfterPass
<1> QED BY <1>1 DEF AfterPass

(* Without long strings a pass touches only what it sends and what it rearms.   *)
LEMMA AfterPassSlot ==
  ASSUME TypeOK, Long = {}, NEW i \in Slot
  PROVE  /\ i \in Batch => AfterPass[i] = [table[i] EXCEPT !.prev = value[table[i].attr],
                                         !.minCnt = table[i].min, !.maxCnt = table[i].max]
         /\ i \notin Batch /\ Rearms(i) => AfterPass[i] \in
                             {table[i], [table[i] EXCEPT !.minCnt = table[i].min]}
         /\ i \notin Batch /\ Rearms(i) /\ i \in Scanned =>
                             AfterPass[i] = [table[i] EXCEPT !.minCnt = table[i].min]
         /\ i \notin Batch /\ ~Rearms(i) => AfterPass[i] = table[i]
<1>1. UNION {Overrun(j) : j \in Batch} = {}
  <2>1. \A j : Overrun(j) = {}
    BY DEF Overrun, Outgrown
  <2> QED BY <2>1
<1>2. CASE i \in Batch
  <2>1. ~Rearms(i)
    BY <1>2, BatchIsDue, DueIsEligible DEF Due, Rearms
  <2> QED BY <1>1, <1>2, <2>1 DEF AfterPass
<1>3. CASE i \notin Batch /\ Rearms(i)
  <2>1. CASE i \in Scanned
    BY <1>1, <1>3, <2>1 DEF AfterPass
  <2>2. CASE i \notin Scanned
    BY <1>1, <1>3, <2>2 DEF AfterPass
  <2> QED BY <1>3, <2>1, <2>2
<1>4. CASE i \notin Batch /\ ~Rearms(i)
  BY <1>1, <1>4 DEF AfterPass
<1> QED BY <1>2, <1>3, <1>4

(* The timer is started for an interval that fits its argument.                 *)
LEMMA TimerStartType ==
  ASSUME TypeOK, NEW t \in [Slot -> Entry]
  PROVE  /\ TimerStart(t) \in TimerType
         /\ TimerStart(t).left <= TimerStart(t).seconds
         /\ TimerStart(t) # timer => ~timer.on /\ TimerStart(t).left = TimerStart(t).seconds
<1>1. Timeouts(t) \subseteq Interval
  BY DEF Timeouts, Entry
<1>2. Timeouts(t) \subseteq Nat
  BY <1>1 DEF Interval
<1>3. CASE timer.on \/ Timeouts(t) = {}
  <2>1. TimerStart(t) = timer
    BY <1>3 DEF TimerStart
  <2>2. timer \in TimerType /\ timer.left <= timer.seconds
    BY DEF TypeOK
  <2> QED BY <2>1, <2>2
<1>4. CASE ~timer.on /\ Timeouts(t) # {}
  <2>1. Min(Timeouts(t)) \in Interval
    BY <1>1, <1>2, <1>4, MinOfNaturals
  <2>2. TimerStart(t) = [on |-> TRUE, seconds |-> Min(Timeouts(t)), left |-> Min(Timeouts(t))]
    BY <1>4 DEF TimerStart
  <2> QED BY <1>4, <2>1, <2>2, NoReportIsPositive DEF TimerType, Interval
<1> QED BY <1>3, <1>4

(* The slot a command is stored in: the attribute's own, or else a free one.    *)
LEMMA SlotForAttribute ==
  ASSUME TypeOK, NEW a \in Attr, NEW r \in Requests, ~Rejected(a, r)
  PROVE  /\ SlotFor(a) \in Slot
         /\ EntriesOf(a) # {} => SlotFor(a) \in EntriesOf(a)
         /\ EntriesOf(a) = {} => SlotFor(a) \in FreeSlots /\ ~IsReset(r)
<1>1. EntriesOf(a) \subseteq Nat /\ FreeSlots \subseteq Nat
  BY SizesAssumption DEF EntriesOf, FreeSlots, Slot
<1>2. EntriesOf(a) = {} => FreeSlots # {} /\ ~IsReset(r)
  BY DEF Rejected
<1>3. EntriesOf(a) # {} => SlotFor(a) \in EntriesOf(a)
  BY <1>1, MinOfNaturals DEF SlotFor
<1>4. EntriesOf(a) = {} => SlotFor(a) \in FreeSlots
  BY <1>1, <1>2, MinOfNaturals DEF SlotFor
<1> QED BY <1>2, <1>3, <1>4 DEF EntriesOf, FreeSlots

(* Reset and Update leave a well-typed slot.                                    *)
LEMMA StoredType ==
  ASSUME NEW e \in Entry, NEW a \in Attr, NEW r \in Requests
  PROVE  Reset(e) \in Entry /\ Update(e, a, r) \in Entry
<1>1. r.min \in Interval /\ r.max \in Interval /\ r.rc \in Nat
  BY RequestAssumption DEF Interval
<1>2. Reset(e) \in Entry
  BY DEF Reset, Entry
<1>3. Update(e, a, r) \in Entry
  BY <1>1 DEF Update, Entry
<1> QED BY <1>2, <1>3

LEMMA ConfiguredType ==
  ASSUME TypeOK, NEW a \in Attr, NEW r \in Requests
  PROVE  /\ Configured(a, r) \in [Slot -> Entry]
         /\ Restored(Configured(a, r)) \in [Slot -> Entry]
<1>1. Configured(a, r) \in [Slot -> Entry]
  <2>1. CASE Rejected(a, r)
    BY <2>1 DEF Configured, TypeOK
  <2>2. CASE ~Rejected(a, r)
    <3>1. SlotFor(a) \in Slot
      BY <2>2, SlotForAttribute
    <3>2. table[SlotFor(a)] \in Entry
      BY <3>1 DEF TypeOK
    <3> QED BY <2>2, <3>1, <3>2, StoredType DEF Configured, TypeOK
  <2> QED BY <2>1, <2>2
<1>2. ASSUME NEW i \in Slot
      PROVE  Restored(Configured(a, r))[i] \in Entry
  <2>1. Configured(a, r)[i] \in Entry
    BY <1>1
  <2> QED BY <2>1, ValueAssumption DEF Restored, Entry
<1> QED BY <1>1, <1>2 DEF Restored

-----------------------------------------------------------------------------
(* Type correctness. *)

LEMMA TypeInit == Init => TypeOK
<1> SUFFICES ASSUME Init PROVE TypeOK
  OBVIOUS
<1>1. table \in [Slot -> Entry] /\ nv \in [Slot -> Entry]
  BY SavedAssumption DEF Init
<1>2. timer \in TimerType /\ timer.left <= timer.seconds
  BY TimerOffType DEF Init
<1>3. age \in [Slot -> 0 .. Horizon] /\ quiet \in [Slot -> Int]
  BY BoundsAreNaturals DEF Init
<1>4. value \in [Attr -> Value]
  BY ValueAssumption DEF Init
<1>5. configures \in 0 .. MaxConfigures /\ faults \in 0 .. MaxFaults
  BY BoundsAreNaturals DEF Init
<1> QED BY <1>1, <1>2, <1>3, <1>4, <1>5 DEF Init, TypeOK

LEMMA TypeHandler == TypeOK /\ ReportHandler => TypeOK'
<1> SUFFICES ASSUME TypeOK, ReportHandler PROVE TypeOK'
  OBVIOUS
<1>1. table' \in [Slot -> Entry]
  BY AfterPassType DEF ReportHandler
<1>2. timer' \in TimerType /\ timer'.left <= timer'.seconds
  <2>1. CASE PassAgain
    BY <2>1 DEF ReportHandler, TypeOK
  <2>2. CASE ~PassAgain
    BY <2>2, AfterPassType, TimerStartType DEF ReportHandler
  <2> QED BY <2>1, <2>2
<1>3. again' \in BOOLEAN
  BY DEF ReportHandler, PassAgain
<1>4. age' \in [Slot -> 0 .. Horizon] /\ quiet' \in [Slot -> Int]
  BY SizesAssumption DEF ReportHandler, TypeOK
<1> QED BY <1>1, <1>2, <1>3, <1>4 DEF ReportHandler, TypeOK

LEMMA TypeTimerCb == TypeOK /\ TimerCb => TypeOK'
<1> SUFFICES ASSUME TypeOK, TimerCb PROVE TypeOK'
  OBVIOUS
<1>1. ASSUME NEW n \in Interval PROVE CountDown(n) \in Interval
  <2>1. timer.seconds \in Interval
    BY DEF TypeOK, TimerType
  <2> QED BY <1>1, <2>1, NoReportIsPositive DEF CountDown, Interval
<1>2. table' \in [Slot -> Entry]
  <2>1. ASSUME NEW i \in Slot PROVE table'[i] \in Entry
    <3>1. table[i] \in Entry
      BY DEF TypeOK
    <3>2. CountDown(table[i].minCnt) \in Interval /\ CountDown(table[i].maxCnt) \in Interval
      BY <1>1, <3>1 DEF Entry
    <3> QED BY <3>1, <3>2 DEF TimerCb, Entry
  <2> QED BY <2>1 DEF TimerCb
<1>3. timer' \in TimerType /\ timer'.left <= timer'.seconds
  BY TimerOffType DEF TimerCb
<1> QED BY <1>2, <1>3 DEF TimerCb, TypeOK

LEMMA TypeTick == TypeOK /\ Tick => TypeOK'
<1> SUFFICES ASSUME TypeOK, Tick PROVE TypeOK'
  OBVIOUS
<1>1. timer' \in TimerType /\ timer'.left <= timer'.seconds
  BY NoReportIsPositive DEF Tick, TypeOK, TimerType, Interval
<1>2. age' \in [Slot -> 0 .. Horizon]
  BY SizesAssumption DEF Tick, TypeOK, Older
<1>3. quiet' \in [Slot -> Int]
  BY SizesAssumption DEF Tick, TypeOK, Older
<1> QED BY <1>1, <1>2, <1>3 DEF Tick, TypeOK

LEMMA TypeConfigure ==
  ASSUME TypeOK, NEW a \in Attr, NEW r \in Requests, Configure(a, r)
  PROVE  TypeOK'
<1>1. table' \in [Slot -> Entry]
  BY ConfiguredType DEF Configure
<1>2. nv' \in [Slot -> Entry]
  BY ConfiguredType DEF Configure, SavedAfter, TypeOK
<1>3. timer' \in TimerType /\ timer'.left <= timer'.seconds
  BY TimerOffType DEF Configure
<1>4. quiet' \in [Slot -> Int] /\ configures' \in 0 .. MaxConfigures
  BY SizesAssumption DEF Configure, TypeOK
<1> QED BY <1>1, <1>2, <1>3, <1>4 DEF Configure, TypeOK

LEMMA TypeNetwork ==
  ASSUME TypeOK, \/ \E a \in Attr, v \in Value : Measure(a, v)
                 \/ \E g \in Group : Bind(g) \/ Unbind(g)
                 \/ Join \/ Leave \/ Restart
  PROVE  TypeOK'
<1>1. ASSUME NEW a \in Attr, NEW v \in Value, Measure(a, v) PROVE TypeOK'
  BY <1>1 DEF Measure, TypeOK
<1>2. ASSUME NEW g \in Group, Bind(g) PROVE TypeOK'
  <2>1. quiet' \in [Slot -> Int]
    <3>1. 0 - timer.left \in Int
      BY NoReportIsPositive DEF TypeOK, TimerType, Interval
    <3> QED BY <1>2, <3>1 DEF Bind, TypeOK
  <2> QED BY <1>2, <2>1 DEF Bind, TypeOK
<1>3. ASSUME NEW g \in Group, Unbind(g) PROVE TypeOK'
  <2>1. faults' \in 0 .. MaxFaults
    BY <1>3, FaultCount DEF Unbind
  <2> QED BY <1>3, <2>1 DEF Unbind, TypeOK
<1>4. CASE Join
  BY <1>4 DEF Join, TypeOK
<1>5. CASE Leave
  <2>1. faults' \in 0 .. MaxFaults
    BY <1>5, FaultCount DEF Leave
  <2>2. quiet' \in [Slot -> Int]
    BY <1>5 DEF Leave, TypeOK
  <2> QED BY <1>5, <2>1, <2>2 DEF Leave, TypeOK
<1>6. CASE Restart
  <2>1. timer' \in TimerType /\ timer'.left <= timer'.seconds
    BY <1>6, TimerOffType DEF Restart
  <2>2. faults' \in 0 .. MaxFaults
    BY <1>6, FaultCount DEF Restart
  <2>3. age' \in [Slot -> 0 .. Horizon] /\ quiet' \in [Slot -> Int]
    BY <1>6, BoundsAreNaturals DEF Restart
  <2>4. value' \in [Attr -> Value]
    BY <1>6, ValueAssumption DEF Restart
  <2> QED BY <1>6, <2>1, <2>2, <2>3, <2>4 DEF Restart, TypeOK
<1> QED BY <1>1, <1>2, <1>3, <1>4, <1>5, <1>6

LEMMA TypeStep == TypeOK /\ [Next]_vars => TypeOK'
<1> SUFFICES ASSUME TypeOK, [Next]_vars PROVE TypeOK'
  OBVIOUS
<1>1. CASE UNCHANGED vars
  BY <1>1 DEF vars, TypeOK
<1>2. CASE ReportHandler
  BY <1>2, TypeHandler
<1>3. CASE TimerCb
  BY <1>3, TypeTimerCb
<1>4. CASE Tick
  BY <1>4, TypeTick
<1>5. CASE Environment
  BY <1>5, TypeConfigure, TypeNetwork DEF Environment
<1> QED BY <1>1, <1>2, <1>3, <1>4, <1>5 DEF Next

(* Every variable stays in its domain, whatever the sizes and the requests: in  *)
(* particular no interval counter of reportingTab wraps below zero.             *)
THEOREM TypeCorrect == Spec => []TypeOK
<1> QED BY TypeInit, TypeStep, PTL DEF Spec

-----------------------------------------------------------------------------
(* The loop of reportAttrs. *)

(* What a long string runs over is neither sent nor rearmed in the same pass.   *)
LEMMA BatchApart ==
  ASSUME TypeOK, DueSlots # {}
  PROVE  /\ First \in DueSlots /\ First \in Batch
         /\ \A j \in Batch : Overrun(j) \cap Batch = {} /\ Overrun(j) \cap Scanned = {}
<1>1. DueSlots \subseteq Nat /\ Mates \subseteq DueSlots
  BY SizesAssumption DEF DueSlots, Slot, Mates
<1>2. First \in DueSlots /\ First \in Nat /\ First \in Batch
  BY <1>1, MinOfNaturals DEF First, Batch
<1>3. \A i : Overrun(i) \subseteq {i + 1}
  BY DEF Overrun
<1>4. CASE Mates = {}
  <2>1. Batch = {First} /\ Scanned = Slot \ Overrun(First)
    BY <1>4 DEF Batch, MateIfAny, Scanned
  <2> QED BY <1>2, <1>3, <2>1
<1>5. CASE Mates # {}
  <2> DEFINE m == Min(Mates)
  <2>1. m \in Mates /\ m \in Nat
    BY <1>1, <1>5, MinOfNaturals
  <2>2. m > First /\ m \notin Overrun(First)
    BY <2>1 DEF Mates
  <2>3. Batch = {First, m} /\ Scanned = {i \in Slot \ Overrun(First) : i <= m}
    BY <1>5 DEF Batch, MateIfAny, Scanned
  <2> HIDE DEF m
  <2>4. Overrun(First) \cap Batch = {} /\ Overrun(First) \cap Scanned = {}
    BY <1>2, <1>3, <2>2, <2>3
  <2>5. Overrun(m) \cap Batch = {} /\ Overrun(m) \cap Scanned = {}
    <3>1. m + 1 # First /\ m + 1 # m /\ ~(m + 1 <= m)
      BY <1>2, <2>1, <2>2
    <3> QED BY <1>3, <2>3, <3>1
  <2> QED BY <1>2, <2>3, <2>4, <2>5
<1> QED BY <1>4, <1>5

(* What a pass makes of a slot, whatever the strings are.                       *)
LEMMA PassSlot ==
  ASSUME TypeOK, DueSlots # {}, NEW i \in Slot
  PROVE  /\ i \in Batch => AfterPass[i] = [table[i] EXCEPT !.prev = value[table[i].attr],
                                             !.minCnt = table[i].min, !.maxCnt = table[i].max]
         /\ (\E j \in Batch : i \in Overrun(j)) => AfterPass[i] = [table[i] EXCEPT !.attr = Garbled]
         /\ i \notin Batch /\ ~(\E j \in Batch : i \in Overrun(j)) =>
              \/ AfterPass[i] = table[i]
              \/ Rearms(i) /\ AfterPass[i] = [table[i] EXCEPT !.minCnt = table[i].min]
<1> DEFINE lost == UNION {Overrun(j) : j \in Batch}
<1>1. i \in lost <=> \E j \in Batch : i \in Overrun(j)
  OBVIOUS
<1>2. CASE i \in Batch
  <2>1. i \notin lost /\ ~Rearms(i)
    BY <1>2, BatchApart, BatchIsDue, DueIsEligible DEF Due, Rearms
  <2> QED BY <1>1, <1>2, <2>1 DEF AfterPass
<1>3. CASE i \in lost
  <2>1. i \notin Batch /\ i \notin Scanned
    BY <1>1, <1>3, BatchApart
  <2> QED BY <1>1, <1>3, <2>1 DEF AfterPass
<1>4. CASE i \notin Batch /\ i \notin lost
  BY <1>1, <1>4 DEF AfterPass
<1> QED BY <1>2, <1>3, <1>4, <1>1

(* What has been sent is not due again, and nothing becomes due by it.          *)
LEMMA PassKeepsDue ==
  ASSUME TypeOK, DueSlots # {}, table' = AfterPass, UNCHANGED <<value, bound>>
  PROVE  DueSlots' \subseteq DueSlots \ Batch
<1> SUFFICES ASSUME NEW i \in Slot, Due(i)' PROVE i \in DueSlots /\ i \notin Batch
  BY DEF DueSlots
<1>1. table[i] \in Entry /\ table'[i] = AfterPass[i] /\ Eligible(table, i)' /\ table'[i].attr \in Attr
  BY DEF TypeOK, Due, Eligible
<1>2. ~\E j \in Batch : i \in Overrun(j)
  <2>1. table'[i].attr # Garbled
    BY <1>1, AttributeAssumption
  <2> QED BY <1>1, <2>1, PassSlot DEF Entry
<1>3. table'[i].attr = table[i].attr
  BY <1>1, <1>2, PassSlot DEF Entry
<1>4. Overrun(i)' = Overrun(i)
  BY <1>3 DEF Overrun, Outgrown
<1>5. \A k \in Overrun(i) : table'[k].attr # Garbled => table[k].attr # Garbled
  <2> SUFFICES ASSUME NEW k \in Overrun(i), table[k].attr = Garbled PROVE table'[k].attr = Garbled
    OBVIOUS
  <2>1. k \in Slot /\ table[k] \in Entry
    BY DEF Overrun, TypeOK
  <2> QED BY <2>1, PassSlot DEF Entry
<1>6. CASE i \in Batch
  <2>1. AfterPass[i] = [table[i] EXCEPT !.prev = value[table[i].attr],
                                        !.minCnt = table[i].min, !.maxCnt = table[i].max]
    BY <1>6, PassSlot
  <2>2. table'[i].prev = value[table[i].attr] /\ table'[i].maxCnt = table[i].max
        /\ table'[i].max = table[i].max
    BY <1>1, <2>1 DEF Entry
  <2>3. \A k \in Overrun(i) : table'[k].attr = Garbled
    <3> SUFFICES ASSUME NEW k \in Overrun(i) PROVE table'[k].attr = Garbled
      OBVIOUS
    <3>1. k \in Slot /\ table[k] \in Entry
      BY DEF Overrun, TypeOK
    <3> QED BY <1>6, <3>1, PassSlot DEF Entry
  <2>4. ~Changed(i)'
    BY <1>3, <1>4, <2>2, <2>3 DEF Changed
  <2> QED BY <2>2, <2>4 DEF Due
<1>7. CASE i \notin Batch
  <2>1. Changed(i)' => Changed(i)
    <3>1. table'[i].prev = table[i].prev /\ table'[i].rc = table[i].rc
      BY <1>1, <1>2, <1>7, PassSlot DEF Entry
    <3> QED BY <1>3, <1>4, <1>5, <3>1 DEF Changed
  <2>2. Eligible(table, i)
    <3>1. table'[i].used = table[i].used /\ table'[i].max = table[i].max
      BY <1>1, <1>2, <1>7, PassSlot DEF Entry
    <3> QED BY <1>1, <1>3, <3>1 DEF Eligible
  <2>3. CASE AfterPass[i] = table[i]
    BY <1>1, <1>7, <2>1, <2>2, <2>3 DEF Due, DueSlots
  <2>4. CASE Rearms(i) /\ AfterPass[i] = [table[i] EXCEPT !.minCnt = table[i].min]
    <3>1. table'[i].maxCnt = table[i].maxCnt
      BY <1>1, <2>4 DEF Entry
    <3> QED BY <2>1, <2>4, <3>1 DEF Due, Rearms
  <2> QED BY <1>2, <1>7, <2>3, <2>4, PassSlot
<1> QED BY <1>6, <1>7

(* A pass that asks for another leaves fewer slots due, so that the loop of     *)
(* reportAttrs makes at most one pass more than there are slots, whatever their *)
(* intervals and values: zcl_reporting.c:577-662.                               *)
THEOREM LoopShrinks == Spec => PassesShrink
<1>1. TypeOK /\ [Next]_vars => [again' => DueSlots' \subseteq DueSlots /\ DueSlots' # DueSlots]_vars
  <2> SUFFICES ASSUME TypeOK, Next, again'
               PROVE  DueSlots' \subseteq DueSlots /\ DueSlots' # DueSlots
    BY DEF vars
  <2>1. CASE ReportHandler
    <3>1. table' = AfterPass /\ PassAgain /\ UNCHANGED <<value, bound>>
      BY <2>1 DEF ReportHandler
    <3>2. DueSlots # {}
      BY <3>1 DEF PassAgain
    <3>3. DueSlots' \subseteq DueSlots \ Batch
      BY <3>1, <3>2, PassKeepsDue
    <3> QED BY <3>2, <3>3, BatchApart
  <2>2. CASE ~ReportHandler
    <3>1. ~again'
      BY <2>2 DEF Next, TimerCb, Tick, Environment, Measure, Configure, Bind, Unbind, Join, Leave, Restart
    <3> QED BY <3>1
  <2> QED BY <2>1, <2>2
<1> QED BY <1>1, TypeCorrect, PTL DEF Spec, PassesShrink

-----------------------------------------------------------------------------
(* Both tables stay sane. *)

(* A table that differs from a sane one only in its counters, and in slots that *)
(* lose their attribute, is sane.                                               *)
LEMMA SaneIfSameSettings ==
  ASSUME NEW t, NEW u, SaneTable(t),
         \A i \in Slot : /\ u[i].used = t[i].used
                         /\ u[i].attr = t[i].attr \/ u[i].attr = Garbled
                         /\ \A f \in {"min", "max", "minDft", "maxDft"} : u[i][f] = t[i][f]
  PROVE  SaneTable(u)
<1>1. ASSUME NEW i \in Slot PROVE SaneEntry(u[i])
  BY <1>1 DEF SaneTable, SaneEntry
<1>2. ASSUME NEW i \in Slot, NEW j \in Slot, u[i].used, u[j].used,
             u[i].attr = u[j].attr, u[i].attr \in Attr
      PROVE  i = j
  BY <1>2, AttributeAssumption DEF SaneTable
<1> QED BY <1>1, <1>2 DEF SaneTable

(* A report changes counters and prevData, and may cost the next slot its       *)
(* attribute; the timer changes counters; a save changes prevData.              *)
LEMMA HandlerKeepsSettings ==
  ASSUME TypeOK, NEW i \in Slot
  PROVE  /\ AfterPass[i].used = table[i].used
         /\ AfterPass[i].attr = table[i].attr \/ AfterPass[i].attr = Garbled
         /\ \A f \in {"min", "max", "minDft", "maxDft"} : AfterPass[i][f] = table[i][f]
<1>1. table[i] \in Entry
  BY DEF TypeOK
<1> QED BY <1>1 DEF AfterPass, Entry

LEMMA RestoreKeepsSettings ==
  ASSUME NEW t \in [Slot -> Entry], NEW i \in Slot
  PROVE  /\ Restored(t)[i].used = t[i].used
         /\ Restored(t)[i].attr = t[i].attr
         /\ \A f \in {"min", "max", "minDft", "maxDft", "minCnt", "maxCnt"} :
              Restored(t)[i][f] = t[i][f]
<1>1. t[i] \in Entry
  OBVIOUS
<1> QED BY <1>1 DEF Restored, Entry

(* What Configured leaves in a slot.                                            *)
LEMMA ConfiguredSlot ==
  ASSUME TypeOK, NEW a \in Attr, NEW r \in Requests, ~Rejected(a, r), NEW i \in Slot
  PROVE  /\ i # SlotFor(a) => Configured(a, r)[i] = table[i]
         /\ i = SlotFor(a) => /\ IsReset(r) => Configured(a, r)[i] = Reset(table[i])
                              /\ ~IsReset(r) => Configured(a, r)[i] = Update(table[i], a, r)
BY SlotForAttribute DEF Configured, TypeOK

LEMMA UpdateFields ==
  ASSUME NEW e \in Entry, NEW a \in Attr, NEW r \in Requests
  PROVE  /\ Update(e, a, r).used
         /\ Update(e, a, r).attr = (IF e.used THEN e.attr ELSE a)
         /\ Update(e, a, r).min = r.min /\ Update(e, a, r).minCnt = r.min
         /\ Update(e, a, r).max = r.max /\ Update(e, a, r).maxCnt = r.max
         /\ Update(e, a, r).minDft = (IF e.used THEN e.minDft ELSE r.min)
         /\ Update(e, a, r).maxDft = (IF e.used THEN e.maxDft ELSE r.max)
<1>1. CASE e.used
  BY <1>1 DEF Update, Entry
<1>2. CASE ~e.used
  BY <1>2 DEF Update, Entry
<1> QED BY <1>1, <1>2

LEMMA StoredIsSane ==
  ASSUME NEW e \in Entry, NEW a \in Attr, NEW r \in Requests, ~Rejected(a, r), SaneEntry(e)
  PROVE  /\ SaneEntry(Reset(e)) /\ Reset(e).used = e.used /\ Reset(e).attr = e.attr
         /\ SaneEntry(Update(e, a, r)) /\ Update(e, a, r).used
         /\ Update(e, a, r).attr = (IF e.used THEN e.attr ELSE a)
<1>1. r.min \in Int /\ r.max \in Int
  BY RequestAssumption, NoReportIsPositive
<1>2. r.max = 0 \/ r.min <= r.max
  BY <1>1 DEF Rejected
<1>3. SaneEntry(Reset(e)) /\ Reset(e).used = e.used /\ Reset(e).attr = e.attr
  BY DEF SaneEntry, Reset, Entry
<1> QED BY <1>2, <1>3, UpdateFields DEF SaneEntry

LEMMA ConfiguredIsSane ==
  ASSUME TypeOK, NEW a \in Attr, NEW r \in Requests, SaneTable(table)
  PROVE  SaneTable(Configured(a, r))
<1>1. CASE Rejected(a, r)
  BY <1>1 DEF Configured
<1>2. CASE ~Rejected(a, r)
  <2> DEFINE k == SlotFor(a)
             u == Configured(a, r)
  <2>1. k \in Slot /\ table[k] \in Entry /\ SaneEntry(table[k])
    BY <1>2, SlotForAttribute DEF TypeOK, SaneTable
  <2>2. EntriesOf(a) # {} => table[k].used /\ table[k].attr = a
    BY <1>2, SlotForAttribute DEF EntriesOf
  <2>3. EntriesOf(a) = {} => ~table[k].used /\ ~IsReset(r)
    BY <1>2, SlotForAttribute DEF FreeSlots
  <2>4. SaneEntry(u[k]) /\ u[k].used /\ u[k].attr = a
    BY <1>2, <2>1, <2>2, <2>3, StoredIsSane, ConfiguredSlot
  <2>5. \A i \in Slot : i # k => u[i] = table[i]
    BY <1>2, ConfiguredSlot
  <2>6. \A i \in Slot : table[i].used /\ table[i].attr = a => i = k
    <3> SUFFICES ASSUME NEW i \in Slot, table[i].used, table[i].attr = a
                 PROVE  i = k
      OBVIOUS
    <3>1. EntriesOf(a) # {}
      BY DEF EntriesOf
    <3> QED BY <2>1, <2>2, <3>1 DEF SaneTable
  <2>7. ASSUME NEW i \in Slot PROVE SaneEntry(u[i])
    BY <2>4, <2>5 DEF SaneTable
  <2>8. ASSUME NEW i \in Slot, NEW j \in Slot, u[i].used, u[j].used,
               u[i].attr = u[j].attr, u[i].attr \in Attr
        PROVE  i = j
    <3>1. CASE i = k
      BY <2>4, <2>5, <2>6, <2>8, <3>1
    <3>2. CASE j = k
      BY <2>4, <2>5, <2>6, <2>8, <3>2
    <3>3. CASE i # k /\ j # k
      BY <2>5, <2>8, <3>3 DEF SaneTable
    <3> QED BY <3>1, <3>2, <3>3
  <2> HIDE DEF u, k
  <2> QED BY <2>7, <2>8 DEF SaneTable, u
<1> QED BY <1>1, <1>2

LEMMA SaneStep == TypeOK /\ TablesSane /\ [Next]_vars => TablesSane'
<1> SUFFICES ASSUME TypeOK, TablesSane, [Next]_vars PROVE TablesSane'
  OBVIOUS
<1>1. SaneTable(table) /\ SaneTable(nv)
  BY DEF TablesSane
<1>2. CASE ReportHandler
  <2>1. SaneTable(AfterPass)
    BY <1>1, HandlerKeepsSettings, SaneIfSameSettings
  <2> QED BY <1>1, <1>2, <2>1 DEF ReportHandler, TablesSane, SaneTable
<1>3. CASE TimerCb
  <2>1. ASSUME NEW i \in Slot
        PROVE  /\ table'[i].used = table[i].used
               /\ table'[i].attr = table[i].attr
               /\ \A f \in {"min", "max", "minDft", "maxDft"} : table'[i][f] = table[i][f]
    <3>1. table[i] \in Entry
      BY DEF TypeOK
    <3> QED BY <1>3, <3>1 DEF TimerCb, Entry
  <2>2. SaneTable(table')
    BY <1>1, <2>1, SaneIfSameSettings
  <2> QED BY <1>1, <1>3, <2>2 DEF TimerCb, TablesSane, SaneTable
<1>4. ASSUME NEW a \in Attr, NEW r \in Requests, Configure(a, r) PROVE TablesSane'
  <2>1. SaneTable(Configured(a, r))
    BY <1>1, ConfiguredIsSane
  <2>2. SaneTable(Restored(Configured(a, r)))
    BY <2>1, ConfiguredType, RestoreKeepsSettings, SaneIfSameSettings
  <2> QED BY <1>1, <1>4, <2>1, <2>2 DEF Configure, SavedAfter, TablesSane, SaneTable
<1>5. CASE Restart
  BY <1>1, <1>5 DEF Restart, TablesSane, SaneTable
<1>6. CASE UNCHANGED <<table, nv>>
  BY <1>1, <1>6 DEF TablesSane, SaneTable
<1>7. CASE Tick
  BY <1>6, <1>7 DEF Tick
<1>8. ASSUME NEW a \in Attr, NEW v \in Value, Measure(a, v) PROVE TablesSane'
  BY <1>6, <1>8 DEF Measure
<1>9. ASSUME NEW g \in Group, Bind(g) \/ Unbind(g) PROVE TablesSane'
  BY <1>6, <1>9 DEF Bind, Unbind
<1>10. CASE Join \/ Leave
  BY <1>6, <1>10 DEF Join, Leave
<1>11. CASE UNCHANGED vars
  BY <1>6, <1>11 DEF vars
<1> QED BY <1>2, <1>3, <1>4, <1>5, <1>7, <1>8, <1>9, <1>10, <1>11 DEF Next, Environment

(* Whatever is configured, an attribute has one slot at most and a maximum      *)
(* interval is not below the minimum, in memory and in the copy a reset starts  *)
(* from: EntryFind returns the slot the handler reports.                        *)
THEOREM TablesStaySane == Spec => []TablesSane
<1>1. Init => TablesSane
  BY SavedAssumption DEF Init, TablesSane
<1> QED BY <1>1, TypeCorrect, SaneStep, PTL DEF Spec

-----------------------------------------------------------------------------
(* What a reset finds in flash. *)

KeptFields == {"attr", "min", "max", "minDft", "maxDft", "rc"}

(* The copy of a slot that is in use: complete, unless a string was copied over *)
(* the slot since.                                                              *)
SavedSlot(e, copy) ==
  e.used => /\ copy.used
            /\ e.attr \in Attr => \A f \in KeptFields : copy[f] = e[f]

LEMMA SavedSlots == SavedConfiguration <=> \A i \in Slot : SavedSlot(table[i], nv[i])
BY DEF SavedConfiguration, SavedSlot, KeptFields

(* The handler and the timer leave what is configured as it was, or without its *)
(* attribute.                                                                   *)
LEMMA CountingKeepsSaved ==
  ASSUME NEW e \in Entry, NEW d \in Entry, NEW copy, SavedSlot(e, copy), d.used = e.used,
         d.attr = e.attr \/ d.attr = Garbled,
         \A f \in KeptFields \ {"attr"} : d[f] = e[f]
  PROVE  SavedSlot(d, copy)
BY AttributeAssumption DEF SavedSlot, KeptFields

LEMMA HandlerKeepsConfigured ==
  ASSUME TypeOK, NEW i \in Slot
  PROVE  \A f \in KeptFields \ {"attr"} : AfterPass[i][f] = table[i][f]
<1>1. table[i] \in Entry
  BY DEF TypeOK
<1> QED BY <1>1 DEF AfterPass, Entry, KeptFields

LEMMA RestoreKeepsConfigured ==
  ASSUME NEW t \in [Slot -> Entry], NEW i \in Slot
  PROVE  SavedSlot(t[i], Restored(t)[i])
<1>1. t[i] \in Entry
  OBVIOUS
<1> QED BY <1>1 DEF Restored, Entry, SavedSlot, KeptFields

LEMMA SavedStep == TypeOK /\ SavedConfiguration /\ [Next]_vars => SavedConfiguration'
<1> SUFFICES ASSUME TypeOK, SavedConfiguration, [Next]_vars, NEW i \in Slot
             PROVE  SavedSlot(table'[i], nv'[i])
  BY DEF SavedConfiguration, SavedSlot, KeptFields
<1>1. SavedSlot(table[i], nv[i]) /\ table[i] \in Entry
  BY SavedSlots DEF TypeOK
<1>2. CASE ReportHandler
  <2>1. table'[i] \in Entry /\ table' = AfterPass /\ nv' = nv
    BY <1>2, AfterPassType DEF ReportHandler
  <2> QED BY <1>1, <2>1, HandlerKeepsSettings, HandlerKeepsConfigured, CountingKeepsSaved
<1>3. CASE TimerCb
  <2>1. table'[i] \in Entry /\ nv' = nv
    BY <1>3, TypeTimerCb DEF TypeOK, TimerCb
  <2>2. /\ table'[i].used = table[i].used
        /\ table'[i].attr = table[i].attr
        /\ \A f \in KeptFields \ {"attr"} : table'[i][f] = table[i][f]
    BY <1>1, <1>3 DEF TimerCb, Entry, KeptFields
  <2> QED BY <1>1, <2>1, <2>2, CountingKeepsSaved
<1>4. ASSUME NEW a \in Attr, NEW r \in Requests, Configure(a, r)
      PROVE  SavedSlot(table'[i], nv'[i])
  <2>1. CASE Rejected(a, r)
    BY <1>1, <1>4, <2>1 DEF Configure, Configured, SavedAfter
  <2>2. CASE ~Rejected(a, r)
    <3>1. table' \in [Slot -> Entry] /\ nv' = Restored(table')
      BY <1>4, <2>2, ConfiguredType DEF Configure, SavedAfter
    <3> QED BY <3>1, RestoreKeepsConfigured
  <2> QED BY <2>1, <2>2
<1>5. CASE Restart
  BY <1>5 DEF Restart, SavedSlot
<1>6. CASE UNCHANGED <<table, nv>>
  BY <1>1, <1>6
<1>7. CASE Tick \/ Join \/ Leave \/ UNCHANGED vars
  BY <1>6, <1>7 DEF Tick, Join, Leave, vars
<1>8. ASSUME \/ \E a \in Attr, v \in Value : Measure(a, v)
             \/ \E g \in Group : Bind(g) \/ Unbind(g)
      PROVE  SavedSlot(table'[i], nv'[i])
  BY <1>6, <1>8 DEF Measure, Bind, Unbind
<1> QED BY <1>2, <1>3, <1>4, <1>5, <1>7, <1>8 DEF Next, Environment

(* After a reset the engine reports what the coordinator last asked for: every  *)
(* slot in use is in flash with its attribute, intervals, defaults and change.  *)
THEOREM ConfigurationIsSaved == Spec => []SavedConfiguration
<1>1. Init => SavedConfiguration
  BY DEF Init, SavedConfiguration
<1> QED BY <1>1, TypeCorrect, SavedStep, PTL DEF Spec

(* A Configure Reporting that is stored for an attribute is stored in its slot  *)
(* or in a free one.                                                            *)
LEMMA ConfigureKeepsAttribute ==
  ASSUME TypeOK, NEW a \in Attr, NEW r \in Requests, NEW i \in Slot, table[i].used
  PROVE  Configured(a, r)[i].attr = table[i].attr
<1>1. CASE Rejected(a, r)
  BY <1>1 DEF Configured
<1>2. CASE ~Rejected(a, r) /\ i # SlotFor(a)
  BY <1>2, ConfiguredSlot
<1>3. CASE ~Rejected(a, r) /\ i = SlotFor(a)
  <2>1. table[i] \in Entry
    BY DEF TypeOK
  <2>2. CASE IsReset(r)
    <3>1. Configured(a, r)[i] = Reset(table[i])
      BY <1>3, <2>2, ConfiguredSlot
    <3> QED BY <2>1, <3>1 DEF Reset, Entry
  <2>3. CASE ~IsReset(r)
    <3>1. Configured(a, r)[i] = Update(table[i], a, r)
      BY <1>3, <2>3, ConfiguredSlot
    <3> QED BY <2>1, <3>1, UpdateFields
  <2> QED BY <2>2, <2>3
<1> QED BY <1>1, <1>2, <1>3

(* A configured slot keeps its attribute in every step, resets included, as     *)
(* long as no attribute is a string that outgrows prevData.                     *)
THEOREM ConfigurationStays ==
  ASSUME Long = {}
  PROVE  Spec => ConfigurationKept
<1> DEFINE Kept == \A i \in Slot : table[i].used /\ table[i].attr \in Attr
                                   => table'[i].attr = table[i].attr
<1>1. TypeOK /\ SavedConfiguration /\ [Next]_vars => Kept
  <2> SUFFICES ASSUME TypeOK, SavedConfiguration, [Next]_vars, NEW i \in Slot,
                      table[i].used, table[i].attr \in Attr
               PROVE  table'[i].attr = table[i].attr
    OBVIOUS
  <2>1. table[i] \in Entry
    BY DEF TypeOK
  <2>2. CASE ReportHandler
    <3>1. AfterPass[i].attr = table[i].attr
      BY <2>1, AfterPassSlot DEF Entry
    <3> QED BY <2>2, <3>1 DEF ReportHandler
  <2>3. CASE TimerCb
    BY <2>1, <2>3 DEF TimerCb, Entry
  <2>4. ASSUME NEW a \in Attr, NEW r \in Requests, Configure(a, r)
        PROVE  table'[i].attr = table[i].attr
    BY <2>4, ConfigureKeepsAttribute DEF Configure
  <2>5. CASE Restart
    BY <2>5 DEF Restart, SavedConfiguration
  <2>6. CASE Tick \/ Join \/ Leave \/ UNCHANGED vars
    BY <2>6 DEF Tick, Join, Leave, vars
  <2>7. ASSUME \/ \E a \in Attr, v \in Value : Measure(a, v)
               \/ \E g \in Group : Bind(g) \/ Unbind(g)
        PROVE  table'[i].attr = table[i].attr
    BY <2>7 DEF Measure, Bind, Unbind
  <2> QED BY <2>2, <2>3, <2>4, <2>5, <2>6, <2>7 DEF Next, Environment
<1>2. TypeOK /\ SavedConfiguration /\ [Next]_vars => [Kept]_vars
  BY <1>1
<1> QED BY <1>2, TypeCorrect, ConfigurationIsSaved, PTL DEF Spec, ConfigurationKept

-----------------------------------------------------------------------------
(* The minimum interval.  A counter says how long a slot must still wait, but   *)
(* it is brought up to date only when the timer ends: in between it is behind   *)
(* by the part of the period that has passed.  A report in the middle of a      *)
(* period would start a counter that the end of the period takes too much from, *)
(* so no slot that has a minimum may become due there.                          *)

Elapsed == IF timer.on THEN timer.seconds - timer.left ELSE 0

Limited(e) == e.used /\ e.attr \in Attr /\ e.max \notin {0, NoReport} /\ e.min # 0

Waiting(e) == e.minCnt # 0 /\ e.maxCnt # 0

Unbound(t, i) == t[i].attr \in Attr /\ GroupOf[t[i].attr] \notin bound

(* The time since the last report covers what the counters have counted.        *)
CountersHonest ==
  \A i \in Slot : Limited(table[i]) =>
    \/ age[i] = Horizon
    \/ /\ table[i].min - table[i].minCnt <= age[i] - Elapsed
       /\ table[i].max - table[i].maxCnt <= age[i] - Elapsed

(* Nothing limited is due while part of a period is over, nor when the network  *)
(* comes back in the middle of one.                                             *)
PeriodUndisturbed ==
  timer.on /\ (Elapsed > 0 \/ ~ready) =>
    \A i \in Slot : Eligible(table, i) /\ Limited(table[i]) => Waiting(table[i])

(* Slots that were never reported or never counted down.                        *)
UntouchedWhileUnbound ==
  \A i \in Slot :
    /\ ~table[i].used \/ Unbound(table, i) => age[i] = Horizon
    /\ Unbound(table, i) /\ Limited(table[i]) => Waiting(table[i])
    /\ Unbound(nv, i) /\ Limited(nv[i]) => Waiting(nv[i])

WithinHorizon(t) ==
  \A i \in Slot : \A m \in {t[i].max, t[i].maxDft} \ {NoReport} : m < Horizon

MinInv ==
  /\ TypeOK
  /\ TablesSane
  /\ CountersHonest
  /\ PeriodUndisturbed
  /\ UntouchedWhileUnbound
  /\ WithinHorizon(table)
  /\ WithinHorizon(nv)

FreshTables == \A t \in SavedTables, i \in Slot : Limited(t[i]) => Waiting(t[i])

LEMMA EntryNumbers ==
  ASSUME NEW e \in Entry
  PROVE  /\ e.min \in Nat /\ e.max \in Nat /\ e.minDft \in Nat /\ e.maxDft \in Nat
         /\ e.minCnt \in Nat /\ e.maxCnt \in Nat
         /\ e.used \in BOOLEAN
BY NoReportIsPositive DEF Entry, Interval

LEMMA ElapsedIsNatural ==
  ASSUME TypeOK
  PROVE  /\ Elapsed \in Nat
         /\ timer.seconds \in Nat /\ timer.left \in Nat
         /\ ~timer.on => Elapsed = 0
<1>1. timer.seconds \in Nat /\ timer.left \in Nat /\ timer.left <= timer.seconds
  BY NoReportIsPositive DEF TypeOK, TimerType, Interval
<1> QED BY <1>1 DEF Elapsed

LEMMA AgeIsNatural ==
  ASSUME TypeOK, NEW i \in Slot
  PROVE  age[i] \in Nat /\ age[i] <= Horizon
BY BoundsAreNaturals DEF TypeOK

(* In a settled state every limited slot has something left to wait for.        *)
LEMMA SettledIsWaiting ==
  ASSUME Settled, ready, NEW i \in Slot, Eligible(table, i), Limited(table[i])
  PROVE  Waiting(table[i])
<1>1. ~Due(i) /\ (Rearms(i) => table[i].min = 0)
  BY DEF Settled
<1>2. table[i].maxCnt # 0
  BY <1>1 DEF Due, Limited
<1>3. table[i].minCnt # 0
  BY <1>1, <1>2 DEF Due, Rearms, Limited
<1> QED BY <1>2, <1>3 DEF Waiting

(* A due or rearming slot with a minimum is only met at the start of a period.  *)
LEMMA OnlyAtStart ==
  ASSUME MinInv, ready, NEW i \in Slot, Eligible(table, i), Limited(table[i]),
         ~Waiting(table[i])
  PROVE  Elapsed = 0
<1>1. Elapsed \in Nat /\ (~timer.on => Elapsed = 0)
  BY ElapsedIsNatural DEF MinInv
<1>2. ~(timer.on /\ Elapsed > 0)
  BY DEF MinInv, PeriodUndisturbed
<1> QED BY <1>1, <1>2

(* What MinInv says of the next frame.                                          *)
LEMMA MinInvImplies ==
  ASSUME MinInv
  PROVE  MinIntervalKept
<1> SUFFICES ASSUME ready, NEW i \in Batch, table[i].max # 0
             PROVE  age[i] >= table[i].min
  BY DEF MinIntervalKept
<1>1. i \in Slot /\ Due(i) /\ Eligible(table, i)
  BY BatchIsDue, DueIsEligible DEF MinInv
<1>2. table[i] \in Entry
  BY <1>1 DEF MinInv, TypeOK
<1>3. age[i] \in Nat /\ Elapsed \in Nat
  BY <1>1, AgeIsNatural, ElapsedIsNatural DEF MinInv
<1>4. CASE table[i].min = 0
  BY <1>3, <1>4
<1>5. CASE table[i].min # 0
  <2>1. Limited(table[i])
    BY <1>1, <1>5 DEF Limited, Eligible
  <2>2. table[i].min <= table[i].max /\ table[i].max < Horizon
    BY <1>1, <2>1 DEF MinInv, TablesSane, SaneTable, SaneEntry, WithinHorizon, Limited
  <2>3. CASE age[i] = Horizon
    BY <1>2, <2>2, <2>3, EntryNumbers, BoundsAreNaturals
  <2>4. CASE age[i] # Horizon
    <3>1. /\ table[i].min - table[i].minCnt <= age[i] - Elapsed
          /\ table[i].max - table[i].maxCnt <= age[i] - Elapsed
      BY <1>1, <2>1, <2>4 DEF MinInv, CountersHonest
    <3>2. table[i].minCnt = 0 \/ table[i].maxCnt = 0
      BY <1>1 DEF Due
    <3> QED BY <1>2, <1>3, <2>2, <3>1, <3>2, EntryNumbers
  <2> QED BY <2>3, <2>4
<1> QED BY <1>4, <1>5

-----------------------------------------------------------------------------
(* MinInv is inductive: one lemma per action. *)

LEMMA MinInit ==
  ASSUME Init, FreshTables
  PROVE  MinInv
<1>1. TypeOK /\ TablesSane
  BY TypeInit, SavedAssumption DEF Init, TablesSane
<1>2. CountersHonest /\ PeriodUndisturbed
  BY DEF Init, CountersHonest, PeriodUndisturbed, TimerOff
<1>3. UntouchedWhileUnbound
  BY DEF Init, UntouchedWhileUnbound, FreshTables
<1>4. WithinHorizon(table) /\ WithinHorizon(nv)
  BY HorizonAssumption DEF Init, WithinHorizon
<1> QED BY <1>1, <1>2, <1>3, <1>4 DEF MinInv

(* A timer the handler starts has all of its period before it.                  *)
LEMMA ElapsedInHandler ==
  ASSUME TypeOK, TypeOK', ReportHandler
  PROVE  Elapsed' = Elapsed
<1>1. CASE timer' = timer
  BY <1>1 DEF Elapsed
<1>2. CASE timer' # timer
  <2>1. timer' = TimerStart(AfterPass) /\ AfterPass \in [Slot -> Entry]
    BY <1>2, AfterPassType DEF ReportHandler
  <2>2. ~timer.on /\ timer'.left = timer'.seconds
    BY <1>2, <2>1, TimerStartType
  <2>3. timer' \in TimerType
    BY DEF TypeOK
  <2> QED BY <2>2, <2>3, NoReportIsPositive DEF Elapsed, TimerType, Interval
<1> QED BY <1>1, <1>2

LEMMA MinHandler ==
  ASSUME MinInv, TypeOK', TablesSane', Long = {}, ReportHandler
  PROVE  MinInv'
<1>1. /\ TypeOK /\ CountersHonest /\ PeriodUndisturbed /\ UntouchedWhileUnbound
      /\ WithinHorizon(table) /\ WithinHorizon(nv)
  BY DEF MinInv
<1>2. ready /\ ready' = ready /\ table' = AfterPass /\ UNCHANGED <<nv, bound>>
  BY DEF ReportHandler
<1>3. Elapsed' = Elapsed
  BY <1>1, ElapsedInHandler
<1>4. ASSUME NEW i \in Slot
      PROVE  /\ age'[i] = IF i \in Batch THEN 0 ELSE age[i]
             /\ table[i] \in Entry /\ age[i] \in Nat /\ Elapsed \in Nat
             /\ table'[i].used = table[i].used /\ table'[i].attr = table[i].attr
             /\ table'[i].min = table[i].min /\ table'[i].max = table[i].max
             /\ table'[i].maxDft = table[i].maxDft
             /\ Limited(table'[i]) = Limited(table[i])
             /\ Unbound(table, i)' = Unbound(table, i)
  <2>1. table[i] \in Entry /\ age[i] \in Nat /\ Elapsed \in Nat
    BY <1>1, AgeIsNatural, ElapsedIsNatural DEF TypeOK
  <2>2. age'[i] = IF i \in Batch THEN 0 ELSE age[i]
    BY DEF ReportHandler
  <2>3. /\ table'[i].used = table[i].used /\ table'[i].attr = table[i].attr
        /\ table'[i].min = table[i].min /\ table'[i].max = table[i].max
        /\ table'[i].maxDft = table[i].maxDft
    BY <1>1, <1>2, <2>1, AfterPassSlot DEF Entry
  <2> QED BY <1>2, <2>1, <2>2, <2>3 DEF Limited, Unbound
<1>5. CountersHonest'
  <2> SUFFICES ASSUME NEW i \in Slot, Limited(table'[i]), age'[i] # Horizon
               PROVE  /\ table'[i].min - table'[i].minCnt <= age'[i] - Elapsed'
                      /\ table'[i].max - table'[i].maxCnt <= age'[i] - Elapsed'
    BY DEF CountersHonest
  <2>1. Limited(table[i])
    BY <1>4
  <2>2. CASE i \in Batch
    <3>1. Eligible(table, i) /\ Due(i)
      BY <1>1, <2>2, BatchIsDue, DueIsEligible
    <3>2. ~Waiting(table[i])
      BY <3>1 DEF Due, Waiting
    <3>3. Elapsed = 0
      BY <1>2, <2>1, <3>1, <3>2, OnlyAtStart
    <3>4. table'[i].minCnt = table[i].min /\ table'[i].maxCnt = table[i].max
      BY <1>1, <1>2, <1>4, <2>2, AfterPassSlot DEF Entry
    <3> QED BY <1>3, <1>4, <2>2, <3>3, <3>4, EntryNumbers
  <2>3. CASE i \notin Batch /\ Rearms(i)
    <3>1. Eligible(table, i) /\ ~Waiting(table[i])
      BY <2>3 DEF Rearms, Waiting
    <3>2. Elapsed = 0
      BY <1>2, <2>1, <3>1, OnlyAtStart
    <3>3. /\ table[i].min - table[i].minCnt <= age[i] - Elapsed
          /\ table[i].max - table[i].maxCnt <= age[i] - Elapsed
      BY <1>1, <1>4, <2>1, <2>3 DEF CountersHonest
    <3>4. /\ table'[i].minCnt \in {table[i].minCnt, table[i].min}
          /\ table'[i].maxCnt = table[i].maxCnt
      BY <1>1, <1>2, <1>4, <2>3, AfterPassSlot DEF Entry
    <3> QED BY <1>3, <1>4, <2>3, <3>2, <3>3, <3>4, EntryNumbers
  <2>4. CASE i \notin Batch /\ ~Rearms(i)
    <3>1. table'[i] = table[i]
      BY <1>1, <1>2, <2>4, AfterPassSlot
    <3> QED BY <1>1, <1>3, <1>4, <2>1, <2>4, <3>1 DEF CountersHonest
  <2> QED BY <2>2, <2>3, <2>4
<1>6. PeriodUndisturbed'
  <2> SUFFICES ASSUME Elapsed' > 0, NEW i \in Slot, Eligible(table, i)', Limited(table'[i])
               PROVE  Waiting(table'[i])
    BY <1>2 DEF PeriodUndisturbed
  <2>1. Eligible(table, i) /\ Limited(table[i])
    BY <1>2, <1>4 DEF Eligible
  <2>2. Waiting(table[i])
    BY <1>2, <1>3, <1>4, <2>1, OnlyAtStart
  <2>3. i \notin Batch /\ ~Rearms(i)
    BY <1>1, <2>2, BatchIsDue, DueIsEligible DEF Due, Rearms, Waiting
  <2> QED BY <1>1, <1>2, <2>2, <2>3, AfterPassSlot
<1>7. UntouchedWhileUnbound'
  <2> SUFFICES ASSUME NEW i \in Slot, ~table'[i].used \/ Unbound(table, i)'
               PROVE  table'[i] = table[i] /\ age'[i] = age[i]
    BY <1>1, <1>2, <1>4 DEF UntouchedWhileUnbound, Unbound
  <2>1. ~Eligible(table, i)
    BY <1>4 DEF Eligible, Unbound
  <2>2. i \notin Batch /\ ~Rearms(i)
    BY <1>1, <2>1, BatchIsDue, DueIsEligible DEF Rearms
  <2> QED BY <1>1, <1>2, <1>4, <2>2, AfterPassSlot
<1>8. WithinHorizon(table')
  BY <1>1, <1>4 DEF WithinHorizon
<1> QED BY <1>1, <1>2, <1>5, <1>6, <1>7, <1>8 DEF MinInv, WithinHorizon

LEMMA MinTimerCb ==
  ASSUME MinInv, TypeOK', TablesSane', TimerCb
  PROVE  MinInv'
<1>1. /\ TypeOK /\ CountersHonest /\ UntouchedWhileUnbound
      /\ WithinHorizon(table) /\ WithinHorizon(nv)
  BY DEF MinInv
<1>2. /\ timer.on /\ timer.left = 0 /\ timer' = TimerOff
      /\ UNCHANGED <<nv, ready, bound, age>>
  BY DEF TimerCb
<1>3. /\ timer.seconds \in Nat /\ Elapsed = timer.seconds
      /\ Elapsed' = 0 /\ ~timer'.on
  BY <1>1, <1>2, ElapsedIsNatural DEF Elapsed, TimerOff
<1>4. ASSUME NEW i \in Slot
      PROVE  /\ table[i] \in Entry /\ age[i] \in Nat
             /\ table'[i].used = table[i].used /\ table'[i].attr = table[i].attr
             /\ table'[i].min = table[i].min /\ table'[i].max = table[i].max
             /\ table'[i].maxDft = table[i].maxDft
             /\ Eligible(table, i) =>
                  /\ table'[i].minCnt = CountDown(table[i].minCnt)
                  /\ table'[i].maxCnt = CountDown(table[i].maxCnt)
             /\ ~Eligible(table, i) => table'[i] = table[i]
  <2>1. table[i] \in Entry /\ age[i] \in Nat
    BY <1>1, AgeIsNatural DEF TypeOK
  <2> QED BY <2>1 DEF TimerCb, Entry
<1>5. CountersHonest'
  <2> SUFFICES ASSUME NEW i \in Slot, Limited(table'[i]), age'[i] # Horizon
               PROVE  /\ table'[i].min - table'[i].minCnt <= age'[i] - Elapsed'
                      /\ table'[i].max - table'[i].maxCnt <= age'[i] - Elapsed'
    BY DEF CountersHonest
  <2>1. Limited(table[i]) /\ age[i] # Horizon
    BY <1>2, <1>4 DEF Limited
  <2>2. Eligible(table, i)
    BY <1>1, <2>1 DEF UntouchedWhileUnbound, Unbound, Limited, Eligible
  <2>3. /\ table[i].min - table[i].minCnt <= age[i] - Elapsed
        /\ table[i].max - table[i].maxCnt <= age[i] - Elapsed
    BY <1>1, <2>1 DEF CountersHonest
  <2>4. ASSUME NEW n \in Nat, NEW m \in Nat, m - n <= age[i] - timer.seconds
        PROVE  m - CountDown(n) <= age[i]
    BY <1>3, <1>4, <2>4 DEF CountDown
  <2> QED BY <1>2, <1>3, <1>4, <2>2, <2>3, <2>4, EntryNumbers
<1>6. PeriodUndisturbed'
  BY <1>3 DEF PeriodUndisturbed
<1>7. UntouchedWhileUnbound'
  <2> SUFFICES ASSUME NEW i \in Slot, ~table'[i].used \/ Unbound(table, i)'
               PROVE  table'[i] = table[i]
    BY <1>1, <1>2, <1>4 DEF UntouchedWhileUnbound, Unbound
  <2>1. ~Eligible(table, i)
    BY <1>2, <1>4 DEF Eligible, Unbound
  <2> QED BY <1>4, <2>1
<1>8. WithinHorizon(table')
  BY <1>1, <1>4 DEF WithinHorizon
<1> QED BY <1>1, <1>2, <1>5, <1>6, <1>7, <1>8 DEF MinInv, WithinHorizon

LEMMA MinTick ==
  ASSUME MinInv, TypeOK', TablesSane', Prompt, Tick
  PROVE  MinInv'
<1>1. /\ TypeOK /\ CountersHonest /\ PeriodUndisturbed /\ UntouchedWhileUnbound
      /\ WithinHorizon(table) /\ WithinHorizon(nv)
  BY DEF MinInv
<1>2. Settled /\ UNCHANGED <<table, nv, ready, bound>>
  BY DEF Tick
<1>3. Elapsed' <= Elapsed + 1 /\ Elapsed \in Nat /\ Elapsed' \in Nat /\ timer'.on = timer.on
  <2>1. /\ timer \in TimerType /\ timer.seconds \in Nat /\ timer.left \in Nat
        /\ Elapsed \in Nat /\ timer.left <= timer.seconds
    BY <1>1, ElapsedIsNatural DEF TypeOK
  <2>2. /\ timer'.on = timer.on /\ timer'.seconds = timer.seconds
        /\ timer'.left \in {timer.left, timer.left - 1} /\ timer'.left >= 0
    BY <2>1 DEF Tick, TimerType
  <2> QED BY <2>1, <2>2 DEF Elapsed
<1>4. ASSUME NEW i \in Slot, age'[i] # Horizon
      PROVE  age[i] # Horizon /\ age'[i] = age[i] + 1 /\ age[i] \in Nat
  <2>1. age[i] \in Nat /\ age[i] <= Horizon
    BY <1>1, AgeIsNatural
  <2>2. age'[i] = Older(age[i])
    BY DEF Tick
  <2> QED BY <1>4, <2>1, <2>2, BoundsAreNaturals DEF Older
<1>5. CountersHonest'
  <2> SUFFICES ASSUME NEW i \in Slot, Limited(table'[i]), age'[i] # Horizon
               PROVE  /\ table'[i].min - table'[i].minCnt <= age'[i] - Elapsed'
                      /\ table'[i].max - table'[i].maxCnt <= age'[i] - Elapsed'
    BY DEF CountersHonest
  <2>1. /\ table[i].min - table[i].minCnt <= age[i] - Elapsed
        /\ table[i].max - table[i].maxCnt <= age[i] - Elapsed
    BY <1>1, <1>2, <1>4 DEF CountersHonest
  <2>2. table[i] \in Entry
    BY <1>1 DEF TypeOK
  <2> QED BY <1>2, <1>3, <1>4, <2>1, <2>2, EntryNumbers
<1>6. PeriodUndisturbed'
  <2> SUFFICES ASSUME timer'.on, NEW i \in Slot, Eligible(table, i)', Limited(table'[i])
               PROVE  Waiting(table'[i])
    BY DEF PeriodUndisturbed
  <2>1. Eligible(table, i) /\ Limited(table[i])
    BY <1>2 DEF Eligible
  <2>2. CASE ready
    BY <1>2, <2>1, <2>2, SettledIsWaiting
  <2>3. CASE ~ready
    BY <1>1, <1>2, <1>3, <2>1, <2>3 DEF PeriodUndisturbed
  <2> QED BY <2>2, <2>3
<1>7. UntouchedWhileUnbound'
  BY <1>1, <1>2, <1>4 DEF UntouchedWhileUnbound, Unbound
<1> QED BY <1>1, <1>2, <1>5, <1>6, <1>7 DEF MinInv, WithinHorizon

(* A configured slot starts its counters afresh.                                *)
LEMMA StoredIsFresh ==
  ASSUME TypeOK, NEW a \in Attr, NEW r \in Requests, ~Rejected(a, r),
         WithinHorizon(table), NEW e, e = Configured(a, r)[SlotFor(a)]
  PROVE  /\ e.minCnt = e.min /\ e.maxCnt = e.max
         /\ e.used
         /\ e.attr = a
         /\ \A m \in {e.max, e.maxDft} \ {NoReport} : m < Horizon
<1> DEFINE k == SlotFor(a)
<1>1. k \in Slot /\ table[k] \in Entry
  BY SlotForAttribute DEF TypeOK
<1>2. CASE EntriesOf(a) # {}
  <2>1. table[k].used /\ table[k].attr = a
    BY <1>2, SlotForAttribute DEF EntriesOf
  <2>2. CASE IsReset(r)
    <3>1. e = Reset(table[k])
      BY <1>1, <2>2, ConfiguredSlot
    <3> QED BY <1>1, <2>1, <3>1 DEF Reset, Entry, WithinHorizon
  <2>3. CASE ~IsReset(r)
    <3>1. e = Update(table[k], a, r)
      BY <1>1, <2>3, ConfiguredSlot
    <3>2. r.max # NoReport => r.max < Horizon
      BY HorizonAssumption
    <3> QED BY <1>1, <2>1, <3>1, <3>2, UpdateFields DEF WithinHorizon
  <2> QED BY <2>2, <2>3
<1>3. CASE EntriesOf(a) = {}
  <2>1. ~table[k].used /\ ~IsReset(r)
    BY <1>3, SlotForAttribute DEF FreeSlots
  <2>2. e = Update(table[k], a, r)
    BY <1>1, <2>1, ConfiguredSlot
  <2>3. r.max # NoReport => r.max < Horizon
    BY HorizonAssumption
  <2> QED BY <1>1, <2>1, <2>2, <2>3, UpdateFields
<1> QED BY <1>2, <1>3

LEMMA MinConfigure ==
  ASSUME MinInv, TypeOK', TablesSane',
         NEW a \in Attr, NEW r \in Requests, Configure(a, r)
  PROVE  MinInv'
<1> DEFINE k == SlotFor(a)
<1>1. /\ TypeOK /\ CountersHonest /\ UntouchedWhileUnbound
      /\ WithinHorizon(table) /\ WithinHorizon(nv)
  BY DEF MinInv
<1>2. /\ table' = Configured(a, r) /\ nv' = SavedAfter(a, r) /\ timer' = TimerOff
      /\ UNCHANGED <<bound, age>>
  BY DEF Configure
<1>3. Elapsed' = 0 /\ ~timer'.on /\ Elapsed \in Nat
  BY <1>1, <1>2, ElapsedIsNatural DEF Elapsed, TimerOff
<1>4. PeriodUndisturbed'
  BY <1>3 DEF PeriodUndisturbed
<1>5. ASSUME NEW i \in Slot
      PROVE  table[i] \in Entry /\ table'[i] \in Entry /\ age[i] \in Nat
  BY <1>1, AgeIsNatural DEF TypeOK
<1>6. ASSUME NEW i \in Slot, table[i] = table'[i], Limited(table[i]), age[i] # Horizon
      PROVE  /\ table'[i].min - table'[i].minCnt <= age'[i] - Elapsed'
             /\ table'[i].max - table'[i].maxCnt <= age'[i] - Elapsed'
  <2>1. /\ table[i].min - table[i].minCnt <= age[i] - Elapsed
        /\ table[i].max - table[i].maxCnt <= age[i] - Elapsed
    BY <1>1, <1>6 DEF CountersHonest
  <2> QED BY <1>2, <1>3, <1>5, <1>6, <2>1, EntryNumbers
<1>7. CASE Rejected(a, r)
  <2>1. table' = table /\ nv' = nv
    BY <1>2, <1>7 DEF Configured, SavedAfter
  <2>2. CountersHonest'
    BY <1>2, <1>6, <2>1 DEF CountersHonest
  <2>3. UntouchedWhileUnbound' /\ WithinHorizon(table') /\ WithinHorizon(nv')
    BY <1>1, <1>2, <2>1 DEF UntouchedWhileUnbound, Unbound
  <2> QED BY <1>4, <2>2, <2>3 DEF MinInv, WithinHorizon
<1>8. CASE ~Rejected(a, r)
  <2>1. /\ k \in Slot
        /\ table'[k].minCnt = table'[k].min /\ table'[k].maxCnt = table'[k].max
        /\ table'[k].used /\ table'[k].attr = a
        /\ \A m \in {table'[k].max, table'[k].maxDft} \ {NoReport} : m < Horizon
    BY <1>1, <1>2, <1>8, SlotForAttribute, StoredIsFresh
  <2>2. \A i \in Slot : i # k => table'[i] = table[i]
    BY <1>1, <1>2, <1>8, ConfiguredSlot
  <2>3. table[k].used => table[k].attr = a
    BY <1>1, <1>8, SlotForAttribute DEF EntriesOf, FreeSlots
  <2>4. CountersHonest'
    <3> SUFFICES ASSUME NEW i \in Slot, Limited(table'[i]), age'[i] # Horizon
                 PROVE  /\ table'[i].min - table'[i].minCnt <= age'[i] - Elapsed'
                        /\ table'[i].max - table'[i].maxCnt <= age'[i] - Elapsed'
      BY DEF CountersHonest
    <3>1. CASE i = k
      BY <1>2, <1>3, <1>5, <2>1, <3>1, EntryNumbers
    <3>2. CASE i # k
      BY <1>2, <1>6, <2>2, <3>2
    <3> QED BY <3>1, <3>2
  <2>5. ASSUME NEW i \in Slot
        PROVE  /\ (~table[i].used \/ Unbound(table, i))' => age'[i] = Horizon
               /\ Unbound(table, i)' /\ Limited(table'[i]) => Waiting(table'[i])
    <3>1. CASE i = k
      <4>1. Unbound(table, i)' => ~table[k].used \/ Unbound(table, k)
        BY <1>2, <2>1, <2>3, <3>1 DEF Unbound
      <4> QED BY <1>1, <1>2, <2>1, <3>1, <4>1 DEF UntouchedWhileUnbound, Limited, Waiting
    <3>2. CASE i # k
      BY <1>1, <1>2, <2>2, <3>2 DEF UntouchedWhileUnbound, Unbound
    <3> QED BY <3>1, <3>2
  <2>6. ASSUME NEW i \in Slot
        PROVE  /\ nv'[i].used = table'[i].used /\ nv'[i].attr = table'[i].attr
               /\ \A f \in {"min", "max", "maxDft", "minCnt", "maxCnt"} :
                    nv'[i][f] = table'[i][f]
    BY <1>1, <1>2, <1>8, ConfiguredType, RestoreKeepsSettings DEF SavedAfter
  <2>7. UntouchedWhileUnbound'
    BY <2>5, <2>6 DEF UntouchedWhileUnbound, Unbound, Limited, Waiting
  <2>8. WithinHorizon(table')
    BY <1>1, <2>1, <2>2 DEF WithinHorizon
  <2>9. WithinHorizon(nv')
    BY <2>6, <2>8 DEF WithinHorizon
  <2> QED BY <1>4, <2>4, <2>7, <2>8, <2>9 DEF MinInv, WithinHorizon
<1> QED BY <1>7, <1>8

LEMMA MinNetwork ==
  ASSUME MinInv, TypeOK', TablesSane', Prompt, ~MayUnbind,
         \/ \E a \in Attr, v \in Value : Measure(a, v)
         \/ \E g \in Group : Bind(g) \/ Unbind(g)
         \/ Join \/ Leave \/ Restart
  PROVE  MinInv'
<1>1. /\ TypeOK /\ CountersHonest /\ PeriodUndisturbed /\ UntouchedWhileUnbound
      /\ WithinHorizon(table) /\ WithinHorizon(nv)
  BY DEF MinInv
<1>2. ASSUME UNCHANGED <<table, nv, timer, age>>, bound \subseteq bound', PeriodUndisturbed'
      PROVE  MinInv'
  <2>1. CountersHonest'
    BY <1>1, <1>2 DEF CountersHonest, Elapsed
  <2>2. UntouchedWhileUnbound'
    BY <1>1, <1>2 DEF UntouchedWhileUnbound, Unbound
  <2> QED BY <1>1, <1>2, <2>1, <2>2 DEF MinInv, WithinHorizon
<1>3. ASSUME NEW a \in Attr, NEW v \in Value, Measure(a, v) PROVE MinInv'
  <2>1. PeriodUndisturbed'
    BY <1>1, <1>3 DEF Measure, PeriodUndisturbed, Elapsed, Eligible
  <2> QED BY <1>2, <1>3, <2>1 DEF Measure
<1>4. ASSUME NEW g \in Group, Bind(g) PROVE MinInv'
  <2>1. /\ UNCHANGED <<table, nv, timer, age, ready>> /\ bound \subseteq bound'
        /\ Elapsed' = Elapsed
    BY <1>4 DEF Bind, Elapsed
  <2>2. PeriodUndisturbed'
    <3> SUFFICES ASSUME timer.on, Elapsed > 0 \/ ~ready, NEW i \in Slot,
                        Eligible(table, i)', Limited(table[i])
                 PROVE  Waiting(table[i])
      BY <2>1 DEF PeriodUndisturbed
    <3>1. CASE Unbound(table, i)
      BY <1>1, <3>1 DEF UntouchedWhileUnbound
    <3>2. CASE ~Unbound(table, i)
      <4>1. Eligible(table, i)
        BY <2>1, <3>2 DEF Eligible, Unbound
      <4> QED BY <1>1, <4>1 DEF PeriodUndisturbed
    <3> QED BY <3>1, <3>2
  <2> QED BY <1>2, <2>1, <2>2
<1>5. ASSUME NEW g \in Group, Unbind(g) PROVE MinInv'
  BY <1>5 DEF Unbind
<1>6. CASE Join
  <2>1. /\ UNCHANGED <<table, nv, timer, age, bound>> /\ ~ready /\ ready'
        /\ Elapsed' = Elapsed
    BY <1>6 DEF Join, Elapsed
  <2>2. PeriodUndisturbed'
    BY <1>1, <2>1 DEF PeriodUndisturbed, Eligible
  <2> QED BY <1>2, <2>1, <2>2
<1>7. CASE Leave
  <2>1. /\ UNCHANGED <<table, nv, timer, age, bound>> /\ ready /\ Settled
    BY <1>7 DEF Leave
  <2>2. \A i \in Slot : Eligible(table, i) /\ Limited(table[i]) => Waiting(table[i])
    BY <2>1, SettledIsWaiting
  <2>3. PeriodUndisturbed'
    BY <2>1, <2>2 DEF PeriodUndisturbed, Eligible
  <2> QED BY <1>2, <2>1, <2>3
<1>8. CASE Restart
  <2>1. /\ table' = nv /\ timer' = TimerOff /\ age' = [i \in Slot |-> Horizon]
        /\ UNCHANGED <<nv, bound>>
    BY <1>8 DEF Restart
  <2>2. CountersHonest' /\ PeriodUndisturbed'
    BY <2>1 DEF CountersHonest, PeriodUndisturbed, TimerOff
  <2>3. UntouchedWhileUnbound'
    BY <1>1, <2>1 DEF UntouchedWhileUnbound, Unbound
  <2> QED BY <1>1, <2>1, <2>2, <2>3 DEF MinInv, WithinHorizon
<1> QED BY <1>3, <1>4, <1>5, <1>6, <1>7, <1>8

LEMMA MinStep ==
  ASSUME MinInv, [Next]_vars, Prompt, ~MayUnbind, Long = {}
  PROVE  MinInv'
<1>1. TypeOK' /\ TablesSane'
  BY TypeStep, SaneStep DEF MinInv
<1>2. CASE UNCHANGED vars
  BY <1>1, <1>2 DEF vars, MinInv, CountersHonest, PeriodUndisturbed,
     UntouchedWhileUnbound, WithinHorizon, Elapsed, Unbound, Eligible
<1>3. CASE ReportHandler
  BY <1>1, <1>3, MinHandler
<1>4. CASE TimerCb
  BY <1>1, <1>4, MinTimerCb
<1>5. CASE Tick
  BY <1>1, <1>5, MinTick
<1>6. CASE Environment
  BY <1>1, <1>6, MinConfigure, MinNetwork DEF Environment
<1> QED BY <1>2, <1>3, <1>4, <1>5, <1>6 DEF Next

(* No frame carries a slot with a periodic report before the minimum interval   *)
(* since its last report is over, if the main loop keeps up, bindings are not   *)
(* removed, no attribute is a string that outgrows prevData, and no table is    *)
(* found in flash with a counter at zero.                                       *)
THEOREM MinimumIntervals ==
  ASSUME Prompt, ~MayUnbind, Long = {}, FreshTables
  PROVE  Spec => []MinIntervalKept
<1>1. Init => MinInv
  BY MinInit
<1>2. MinInv /\ [Next]_vars => MinInv'
  BY MinStep
<1>3. MinInv => MinIntervalKept
  BY MinInvImplies
<1> QED BY <1>1, <1>2, <1>3, PTL DEF Spec
=============================================================================
