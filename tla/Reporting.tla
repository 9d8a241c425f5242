------------------------------ MODULE Reporting ------------------------------
(* The attribute reporting engine of the firmware (src/src/zcl/zcl_reporting.c) *)
(* with the Configure Reporting path of the SDK that feeds its table            *)
(* (zcl_configureReporting) and the NV copy of that table.  One main loop polls *)
(* report_handler; one software timer counts the intervals down, in seconds.    *)
EXTENDS Integers, FiniteSetsExt

CONSTANTS
  TableNum,     \* slots of reportingTab, ZCL_REPORTING_TABLE_NUM
  Attr,         \* the reportable attributes
  GroupOf,      \* the cluster and endpoint an attribute belongs to
  Analog,       \* attributes whose changes are measured against reportableChange
  Long,         \* strings that may be 12 bytes or longer: 8 fill prevData, the rest
                \* reaches past used and profileID into the clusterID of the next slot
  Value,        \* attribute values; 0 is what an attribute holds after a reset
  Erased,       \* prevData after a restore: all bytes 0xFF
  Requests,     \* the Configure Reporting records the coordinator sends
  SavedTables,  \* tables that flash may hold at the first start
  NoAttr,       \* the attrID of a cleared slot
  Garbled,      \* clusterID and attrID of a slot a long string was copied over
  Horizon,      \* ages and silences are not counted beyond it
  MaxConfigures, \* bound: Configure Reporting commands in one behaviour
  MaxFaults,    \* bound: resets, network losses and unbindings in one behaviour
  Prompt,       \* report_handler has no work left when a second passes or the
                \* network goes: the main loop is not held up in between
  MayUnbind     \* the coordinator may also remove bindings

NoReport == 65535               \* maxInterval 0xFFFF: not to be reported

Slot  == 1 .. TableNum
Group == {GroupOf[a] : a \in Attr}

ASSUME SizesAssumption ==
  /\ TableNum \in Nat
  /\ Horizon \in Nat
  /\ MaxConfigures \in Nat
  /\ MaxFaults \in Nat
  /\ Prompt \in BOOLEAN
  /\ MayUnbind \in BOOLEAN

ASSUME AttributeAssumption ==
  /\ Analog \subseteq Attr
  /\ Long \subseteq Attr \ Analog
  /\ GroupOf \in [Attr -> Group]
  /\ NoAttr \notin Attr
  /\ Garbled \notin Attr

ASSUME ValueAssumption ==
  /\ Value \subseteq Nat
  /\ 0 \in Value
  /\ Erased \in Nat \ Value

ASSUME RequestAssumption ==
  Requests \subseteq [min : 0 .. NoReport, max : 0 .. NoReport, rc : Nat]

Interval == 0 .. NoReport

Entry == [used : BOOLEAN, attr : Attr \cup {NoAttr, Garbled},
          min : Interval, max : Interval, minDft : Interval, maxDft : Interval,
          minCnt : Interval, maxCnt : Interval, rc : Nat, prev : Nat]

Cleared == [used |-> FALSE, attr |-> NoAttr, min |-> 0, max |-> 0,
            minDft |-> 0, maxDft |-> 0, minCnt |-> 0, maxCnt |-> 0,
            rc |-> 0, prev |-> 0]

(* A table the engine can have saved: an attribute has one slot, a maximum      *)
(* interval other than 0 is not below the minimum.                              *)
SaneEntry(e) ==
  /\ e.max = 0 \/ e.min <= e.max
  /\ e.maxDft = 0 \/ e.minDft <= e.maxDft

SaneTable(t) ==
  /\ \A i \in Slot : SaneEntry(t[i])
  /\ \A i, j \in Slot : t[i].used /\ t[j].used /\ t[i].attr = t[j].attr
                         /\ t[i].attr \in Attr => i = j

ASSUME SavedAssumption ==
  \A t \in SavedTables : t \in [Slot -> Entry] /\ SaneTable(t)

ASSUME HorizonAssumption ==
  /\ \A r \in Requests : r.max # NoReport => r.max < Horizon
  /\ \A t \in SavedTables, i \in Slot :
       \A m \in {t[i].max, t[i].maxDft} \ {NoReport} : m < Horizon

VARIABLES
  table,        \* reportingTab, slot by slot
  nv,           \* the copy of it in flash
  timer,        \* reportAttrTimerEvt: its argument and what is left of it
  again,        \* the do-while of reportAttrs has another pass to make
  value,        \* the attributes
  ready,        \* joined to a network and BDB idle
  bound,        \* the groups the binding table has an entry for
  age,          \* history: seconds since a slot was last reported
  quiet,        \* history: seconds a slot has been due its periodic report
  configures,   \* bound: commands so far
  faults        \* bound: faults so far

vars == <<table, nv, timer, again, value, ready, bound,
          age, quiet, configures, faults>>

TimerType == [on : BOOLEAN, seconds : Interval, left : Interval]

TimerOff == [on |-> FALSE, seconds |-> 0, left |-> 0]

-----------------------------------------------------------------------------
(* What a slot is worth when the handler looks at it. *)

Eligible(t, i) ==
  /\ t[i].used
  /\ t[i].max # NoReport
  /\ t[i].attr \in Attr
  /\ GroupOf[t[i].attr] \in bound

(* The value of a is a string now so much longer than prevData that copying it  *)
(* runs into the clusterID, and from 14 bytes on the attrID, of the slot that   *)
(* follows.  (Shorter ones reach used, which stays set, and profileID, which    *)
(* does not decide what a slot reports.)                                        *)
Outgrown(a) == a \in Long /\ value[a] # 0

Overrun(i) == IF Outgrown(table[i].attr) THEN {i + 1} \cap Slot ELSE {}

Distance(x, y) == IF x > y THEN x - y ELSE y - x

(* reportableChangeValueChk for analog types; a memcmp over the length of the   *)
(* attribute for the others, which for a long string also compares the start of *)
(* the following slot.                                                          *)
Changed(i) ==
  LET e == table[i]
      v == value[e.attr]
  IN \/ e.attr \in Analog /\ v # e.prev /\ Distance(v, e.prev) >= e.rc
     \/ e.attr \notin Analog /\ v # e.prev
     \/ \E j \in Overrun(i) : table[j].attr # Garbled

(* Variant with a fault: the periodic report waits for a change as well. *)
DueOnlyChanged(i) ==
  /\ Eligible(table, i)
  /\ table[i].maxCnt = 0 \/ table[i].minCnt = 0
  /\ Changed(i)

Due(i) ==
  /\ Eligible(table, i)
  /\ \/ table[i].maxCnt = 0 /\ (table[i].max # 0 \/ Changed(i))
     \/ table[i].maxCnt # 0 /\ table[i].minCnt = 0 /\ Changed(i)

(* The minimum interval ran out with nothing to say: it starts over. *)
Rearms(i) ==
  /\ Eligible(table, i)
  /\ table[i].maxCnt # 0
  /\ table[i].minCnt = 0
  /\ ~Changed(i)

-----------------------------------------------------------------------------
(* One pass of the loop in reportAttrs: a frame holds the first due slot and at *)
(* most one more of its group.                                                  *)

DueSlots == {i \in Slot : Due(i)}
First    == Min(DueSlots)

SameGroup(i, j) == GroupOf[table[i].attr] = GroupOf[table[j].attr]

Mates == {i \in DueSlots \ Overrun(First) : i > First /\ SameGroup(i, First)}

MateIfAny == IF Mates = {} THEN {} ELSE {Min(Mates)}

Batch == IF DueSlots = {} THEN {} ELSE {First} \cup MateIfAny

Scanned == IF DueSlots = {} THEN Slot
           ELSE {i \in Slot \ Overrun(First) : \A j \in MateIfAny : i <= j}

(* "again": another group is waiting, or a full frame was closed by a slot that *)
(* has a minimum interval.                                                      *)
PassAgain ==
  /\ DueSlots # {}
  /\ \/ \E i \in Scanned \cap DueSlots : ~SameGroup(i, First)
     \/ \E i \in MateIfAny : table[i].min # 0

(* Variants with a fault: a report leaves one of the counters as it was. *)
AfterPassKeepsMin ==
  [i \in Slot |->
     IF i \in Batch
     THEN [table[i] EXCEPT !.prev = value[table[i].attr], !.maxCnt = table[i].max]
     ELSE table[i]]

AfterPassKeepsMax ==
  [i \in Slot |->
     IF i \in Batch
     THEN [table[i] EXCEPT !.prev = value[table[i].attr], !.minCnt = table[i].min]
     ELSE table[i]]

AfterPass ==
  LET sent == Batch
      lost == UNION {Overrun(j) : j \in sent}
      seen == Scanned
  IN [i \in Slot |->
        CASE i \in sent ->
               [table[i] EXCEPT !.prev = value[table[i].attr],
                                !.minCnt = table[i].min, !.maxCnt = table[i].max]
          [] i \in lost -> [table[i] EXCEPT !.attr = Garbled]
          [] i \in seen /\ Rearms(i) -> [table[i] EXCEPT !.minCnt = table[i].min]
          [] OTHER -> table[i]]

(* Variant with a fault: maximum intervals do not wake the engine. *)
TimeoutsOfMinimum(t) ==
  {t[i].minCnt : i \in {j \in Slot : Eligible(t, j)}} \ {0, NoReport}

(* reportAttrTimerStart: the shortest nonzero counter, unless a timer runs. *)
Timeouts(t) ==
  (UNION {{t[i].minCnt, t[i].maxCnt} : i \in {j \in Slot : Eligible(t, j)}})
    \ {0, NoReport}

TimerStart(t) ==
  IF timer.on \/ Timeouts(t) = {} THEN timer
  ELSE [on |-> TRUE, seconds |-> Min(Timeouts(t)), left |-> Min(Timeouts(t))]

-----------------------------------------------------------------------------
(* History: what the properties measure time with. *)

Scheduled(i) ==
  /\ ready
  /\ Eligible(table, i)
  /\ table[i].max # 0

Older(n) == IF n < Horizon THEN n + 1 ELSE Horizon

-----------------------------------------------------------------------------
Init ==
  /\ nv \in SavedTables
  /\ table = nv
  /\ timer = TimerOff
  /\ again = FALSE
  /\ value = [a \in Attr |-> 0]
  /\ ready = FALSE
  /\ bound = {}
  /\ age = [i \in Slot |-> Horizon]
  /\ quiet = [i \in Slot |-> 0]
  /\ configures = 0
  /\ faults = 0

(* One pass of report_handler: reportAttrs, and reportAttrTimerStart once the   *)
(* loop ends.                                                                   *)
ReportHandler ==
  /\ ready
  /\ \E next \in {AfterPass}, sent \in {Batch} :
       /\ table' = next
       /\ again' = PassAgain
       /\ timer' = IF PassAgain THEN timer ELSE TimerStart(next)
       /\ age' = [i \in Slot |-> IF i \in sent THEN 0 ELSE age[i]]
       /\ quiet' = [i \in Slot |-> IF i \in sent THEN 0 ELSE quiet[i]]
  /\ UNCHANGED <<nv, value, ready, bound, configures, faults>>

(* Variants with a fault: no floor at zero; a second lost. *)
CountDownPastZero(n) == n - timer.seconds
CountDownShort(n)    == IF n >= timer.seconds THEN n - timer.seconds + 1 ELSE 0

CountDown(n) == IF n >= timer.seconds THEN n - timer.seconds ELSE 0

(* reportAttrTimerCb *)
TimerCb ==
  /\ ~again
  /\ timer.on /\ timer.left = 0
  /\ table' = [i \in Slot |->
                 IF Eligible(table, i)
                 THEN [table[i] EXCEPT !.minCnt = CountDown(@), !.maxCnt = CountDown(@)]
                 ELSE table[i]]
  /\ timer' = TimerOff
  /\ UNCHANGED <<nv, again, value, ready, bound, age, quiet, configures, faults>>

(* Nothing is left for the main loop to do before time passes. *)
Settled ==
  /\ ~again
  /\ ~(timer.on /\ timer.left = 0)
  /\ ready => /\ \A i \in Slot : ~Due(i) /\ (Rearms(i) => table[i].min = 0)
              /\ timer = TimerStart(table)

(* A second passes. *)
Tick ==
  /\ ~again
  /\ Prompt => Settled
  /\ timer' = IF timer.left > 0 THEN [timer EXCEPT !.left = @ - 1] ELSE timer
  /\ age' = [i \in Slot |-> Older(age[i])]
  /\ quiet' = [i \in Slot |-> IF Scheduled(i) \/ quiet[i] < 0 THEN Older(quiet[i]) ELSE 0]
  /\ UNCHANGED <<table, nv, again, value, ready, bound, configures, faults>>

(* A measurement stores another value. *)
Measure(a, v) ==
  /\ ~again
  /\ v # value[a]
  /\ value' = [value EXCEPT ![a] = v]
  /\ UNCHANGED <<table, nv, timer, again, ready, bound, age, quiet, configures, faults>>

Fault ==
  /\ faults < MaxFaults
  /\ faults' = faults + 1

-----------------------------------------------------------------------------
(* Configure Reporting. *)

EntriesOf(a) == {i \in Slot : table[i].used /\ table[i].attr = a}
FreeSlots    == {i \in Slot : ~table[i].used}

(* Variant with a fault: a slot that is reset is given up. *)
ResetClears(e) == Cleared

(* zcl_reportCfgInfoEntryRst *)
Reset(e) ==
  [e EXCEPT !.min = e.minDft, !.max = e.maxDft,
            !.minCnt = e.minDft, !.maxCnt = e.maxDft, !.rc = 0]

(* Variant with a fault: the minimum counter goes on from where it was. *)
UpdateKeepsMin(e, a, r) ==
  [e EXCEPT !.used = TRUE, !.attr = a, !.min = r.min, !.max = r.max, !.maxCnt = r.max,
            !.minDft = IF e.used THEN @ ELSE r.min,
            !.maxDft = IF e.used THEN @ ELSE r.max]

(* zcl_reportCfgInfoEntryUpdate *)
Update(e, a, r) ==
  LET fresh == [e EXCEPT !.min = r.min, !.max = r.max,
                         !.minCnt = r.min, !.maxCnt = r.max,
                         !.rc = IF a \in Analog THEN r.rc ELSE @]
  IN IF e.used THEN fresh
     ELSE [fresh EXCEPT !.used = TRUE, !.attr = a,
                        !.minDft = r.min, !.maxDft = r.max]

IsReset(r) == r.max = 0 /\ r.min = NoReport

(* Variant with a fault: the intervals are not compared. *)
RejectedNever(a, r) ==
  EntriesOf(a) = {} /\ (IsReset(r) \/ r.max = NoReport \/ FreeSlots = {})

Rejected(a, r) ==
  \/ r.max # 0 /\ r.max < r.min
  \/ EntriesOf(a) = {} /\ (IsReset(r) \/ r.max = NoReport \/ FreeSlots = {})

(* zcl_reportCfgInfoEntryFind, and zcl_reportCfgInfoEntryFreeGet when it fails. *)
SlotFor(a) == IF EntriesOf(a) # {} THEN Min(EntriesOf(a)) ELSE Min(FreeSlots)

(* zcl_configureReporting *)
Configured(a, r) ==
  IF Rejected(a, r) THEN table
  ELSE [table EXCEPT ![SlotFor(a)] = IF IsReset(r) THEN Reset(@) ELSE Update(@, a, r)]

(* What zcl_reportingTab_restore makes of a table saved to flash. *)
Restored(t) ==
  [i \in Slot |-> IF t[i].used THEN [t[i] EXCEPT !.prev = Erased] ELSE t[i]]

(* Variant with a fault: only new slots are written to flash. *)
SavedOnlyNew(a, r) == IF Rejected(a, r) \/ EntriesOf(a) # {} THEN nv
                      ELSE Restored(Configured(a, r))

(* The NV copy after zcl_configReportHandler. *)
SavedAfter(a, r) == IF Rejected(a, r) THEN nv ELSE Restored(Configured(a, r))

(* zcl_configReportHandler with one record; app_zclCfgReportCmd then stops the  *)
(* timer whatever the outcome, and the elapsed part of its period is lost.      *)
Configure(a, r) ==
  /\ ~again
  /\ configures < MaxConfigures
  /\ configures' = configures + 1
  /\ table' = Configured(a, r)
  /\ nv' = SavedAfter(a, r)
  /\ timer' = TimerOff
  /\ quiet' = [i \in Slot |-> 0]
  /\ UNCHANGED <<again, value, ready, bound, age, faults>>

-----------------------------------------------------------------------------
(* The network and the power supply. *)

(* A group bound while a timer runs is first looked at when that timer ends:    *)
(* its silence counts from then.                                                *)
Bind(g) ==
  /\ ~again
  /\ g \notin bound
  /\ bound' = bound \cup {g}
  /\ quiet' = [i \in Slot |-> IF table[i].attr \in Attr /\ GroupOf[table[i].attr] = g
                              THEN 0 - timer.left ELSE quiet[i]]
  /\ UNCHANGED <<table, nv, timer, again, value, ready, age, configures, faults>>

Unbind(g) ==
  /\ MayUnbind /\ ~again
  /\ Fault
  /\ g \in bound
  /\ bound' = bound \ {g}
  /\ UNCHANGED <<table, nv, timer, again, value, ready, age, quiet, configures>>

(* The device joins a network and BDB falls idle... *)
Join ==
  /\ ~again
  /\ ~ready
  /\ ready' = TRUE
  /\ UNCHANGED <<table, nv, timer, again, value, bound, age, quiet, configures, faults>>

(* ... or loses it, or BDB has work again: the handler is not polled. *)
Leave ==
  /\ ~again
  /\ ready
  /\ Prompt => Settled
  /\ Fault
  /\ ready' = FALSE
  /\ quiet' = [i \in Slot |-> IF quiet[i] < 0 THEN quiet[i] ELSE 0]
  /\ UNCHANGED <<table, nv, timer, again, value, bound, age, configures>>

(* A reset at any point: zcl_reportingTabInit reads the table back, the         *)
(* attributes start from their defaults.                                        *)
Restart ==
  /\ ~again
  /\ Fault
  /\ table' = nv
  /\ timer' = TimerOff
  /\ value' = [a \in Attr |-> 0]
  /\ ready' = FALSE
  /\ age' = [i \in Slot |-> Horizon]
  /\ quiet' = [i \in Slot |-> 0]
  /\ UNCHANGED <<nv, again, bound, configures>>

-----------------------------------------------------------------------------
Environment ==
  \/ \E a \in Attr, v \in Value : Measure(a, v)
  \/ \E a \in Attr, r \in Requests : Configure(a, r)
  \/ \E g \in Group : Bind(g) \/ Unbind(g)
  \/ Join
  \/ Leave
  \/ Restart

Next == ReportHandler \/ TimerCb \/ Tick \/ Environment

Spec == Init /\ [][Next]_vars

(* The main loop keeps polling, the timer queue is served and time passes; the  *)
(* coordinator, the network and the meter owe nothing.                          *)
FairSpec == Spec /\ WF_vars(ReportHandler) /\ WF_vars(TimerCb) /\ WF_vars(Tick)

-----------------------------------------------------------------------------
(* Every variable stays in its domain; a running timer never has more left than *)
(* it was started with.                                                         *)
TypeOK ==
  /\ table \in [Slot -> Entry]
  /\ nv \in [Slot -> Entry]
  /\ timer \in TimerType
  /\ timer.left <= timer.seconds
  /\ again \in BOOLEAN
  /\ value \in [Attr -> Value]
  /\ ready \in BOOLEAN
  /\ bound \subseteq Group
  /\ age \in [Slot -> 0 .. Horizon]
  /\ quiet \in [Slot -> Int]
  /\ configures \in 0 .. MaxConfigures
  /\ faults \in 0 .. MaxFaults

(* An attribute never has two slots, in memory or in flash: EntryFind is enough *)
(* to update the one the handler uses.                                          *)
TablesSane == SaneTable(table) /\ SaneTable(nv)

(* What the handler is about to send for a slot with a periodic report has been *)
(* unsent for at least its minimum interval, in spite of frames of two, groups  *)
(* that wait a pass and slots that start over in the middle of a timer period.  *)
MinIntervalKept ==
  ready => \A i \in Batch : table[i].max # 0 => age[i] >= table[i].min

(* A slot with a periodic report never stays silent longer than its maximum     *)
(* interval while the network is there and the coordinator leaves it alone.     *)
MaxIntervalKept ==
  \A i \in Slot : Scheduled(i) => quiet[i] <= table[i].max

(* The configuration a reset finds is the one the coordinator set.              *)
SavedConfiguration ==
  \A i \in Slot : table[i].used =>
    /\ nv[i].used
    /\ table[i].attr \in Attr =>
         \A f \in {"attr", "min", "max", "minDft", "maxDft", "rc"} : nv[i][f] = table[i][f]

(* A slot the coordinator configured keeps its attribute.                       *)
ConfigurationKept ==
  [][\A i \in Slot : table[i].used /\ table[i].attr \in Attr
                      => table'[i].attr = table[i].attr]_vars

(* A pass that asks for another leaves fewer slots due: the loop of reportAttrs *)
(* makes at most one pass more than there are slots, zcl_reporting.c:577-662.   *)
PassesShrink ==
  [][again' => DueSlots' \subseteq DueSlots /\ DueSlots' # DueSlots]_vars

(* The loop of reportAttrs ends.                                                *)
HandlerReturns == again ~> ~again

(* The coordinator learns a value that stays, if its slot has a periodic        *)
(* report and stays reportable.                                                 *)
Delivered ==
  \A i \in Slot, v \in Value :
    (Scheduled(i) /\ value[table[i].attr] = v)
      ~> \/ age[i] < Horizon /\ table[i].prev = v
         \/ ~Scheduled(i)
         \/ value[table[i].attr] # v

=============================================================================
