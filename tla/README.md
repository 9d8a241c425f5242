# Formal model of the electricity meter module

The repository holds the firmware of a Zigbee router (Telink TLSR8258) that reads
an electricity meter over a serial line and reports what it reads. This directory
models its logic in TLA+, checks it with TLC on small instances and proves part of
it with TLAPS for every value of the constants. Paths below are relative to `src/`.

## 1. The system

One main loop (`src/app_main.c:136-146`) polls the button, the tamper contact and,
while the BDB layer is idle, the reporting engine. Everything else runs in software
timers of the same loop (`ev_timer.c`: a callback returns <0 to be deleted, 0 to be
repeated, >0 for another period) and in ZCL callbacks. Nothing in the loop preempts
anything else; only the UART receive interrupt does. A measurement is synchronous:
`measure_meter()` talks to the meter with busy waits and holds up the loop meanwhile.

| component | state | operations | interacts through | hard behaviour | what makes it correct |
|---|---|---|---|---|---|
| Attribute reporting `src/zcl/zcl_reporting.c`, `zcl_nv.c` | `reportingTab`, one timer, NV copy | `reportAttrs`, timer start, stop, callback, entry find/free/update/reset, save/restore | attribute values, binding table, ZCL frames | several slots and clusters due at once, one timer for all counters, reset, reconfiguration in the middle of a period | intervals kept, values delivered, configuration survives, loop ends |
| Configure Reporting `tl_zigbee_sdk/zigbee/zcl/zcl.c` | none of its own | `zcl_configReportHandler`, `zcl_configureReporting` | table, NV, application hook that stops the timer | special values 0 and 0xFFFF, full table | no slot twice, no contradiction stored |
| Measurement `src/devices/device.c` | `measure_meter`, `new_start`, `fault_measure_flag`, two timers | `set_device_model`, `measure_meterCb`, `fault_measure_meterCb` | drivers, `dev_config`, attributes, LED | failures at any step, reload timer against success, change of meter in between | reload iff failing, complete data after recovery |
| Drivers `src/devices/*.c` (8 meters, 7 files) | static serial number, date, session data | `measure_meter_*` | UART, attributes, fault flag, reload timer | lost, late or cut answers; one read of several failing | shown data is the meter's |
| Settings `src/app_dev_config.c`, `src/zcl_appCb.c:165-251` | `dev_config`, NV item, setting attributes | write request, `init_config` | drivers, measurement timer | power failure, order of writes | flash, memory, driver and attributes agree |
| UART `src/app_uart.c` | ring buffer, head, tail, DMA record | receive callback, read, flush | drivers | interrupt between any two steps, ring full | bytes in order, none invented |
| NV storage `drv_nv.c` | index and items in two sectors | read, write, move to the other sector | settings, reporting, power counter | power failure between any two flash writes | old or new item, never neither |
| OTA client `tl_zigbee_sdk/zigbee/ota/ota.c` | download state, one timer, two NV items, the new image | query, block requests, upgrade end, resume after a reset | server, NV, bootloader, `app_otaProcessMsgHandler` | lost and late answers, a reset in the middle, saved progress against saved header | the device ends with what the server offers |
| Bootloader `src/bootLoader` | flash images, OTA flag | check, copy, wipe, start | OTA client | power failure in the copy | always one complete firmware |
| Network `src/zb_appCb.c`, `src/zcl_appCb.c:514-574` | `device_online`, steering timer, silence count | commissioning callbacks, time requests | LED, reporting | answers that race the 2 s check | online iff the coordinator answers |
| LED `src/app_led.c` | blink state, timers | start, stop, status pattern | fault flag, network | a blink started over another | pattern says what the README says |
| Button `src/app_button.c` | key state, press count | scan, commands, factory reset | LED, network, forced reports | long press against counted presses | one action per gesture |
| Tamper `src/app_tamper.c`, temperature `src/app_temperature.c` | debounce counter; last three readings | handler, filter | attributes | bouncing; outliers in a row | status follows the contact; no outlier shown |
| Forced reports `src/app_reporting.c` | one static record | three tasks, `app_forcedReport` | drivers, queue of tasks | the record shared by queued tasks | every attribute sent once |

## 2. Modules

### Reporting

`Reporting.tla` models the whole engine. A slot is the record `Entry` (the fields of
`reportCfgInfo_t`; cluster and endpoint are `GroupOf[attr]`), `timer` is
`reportAttrTimerEvt` with its argument and the time left, `nv` is the saved table as
`zcl_reportingTab_restore` would read it.

| action | code |
|---|---|
| `ReportHandler` | one pass of the loop of `reportAttrs`, and `reportAttrTimerStart` after the last pass. `again` tells whether the loop goes on: while it is TRUE nothing else of the main loop can happen. |
| `TimerCb` | `reportAttrTimerCb` |
| `Configure` | `zcl_configReportHandler` with one record, the update of the table, the save, and the hook `app_zclCfgReportCmd`, which stops the timer |
| `Restart` | reset: `zcl_reportingTabInit` restores the table, attributes start over |
| `Measure`, `Bind`, `Unbind`, `Join`, `Leave`, `Tick` | environment: values, binding table, network, a second |

The length of a string is abstracted to whether it reaches the clusterID of the next
slot (`Long`, `Outgrown`): 12 bytes and more, since the slots are packed and 8 fill
`prevData`, one `used` and two `profileID`; from 14 bytes on the attrID is hit as well.
A shorter one that reaches `profileID` changes the frame a slot is reported in, which is
not modelled. `Settled` and `Prompt` state how fast the main loop is compared
to the clock: with `Prompt` a second passes, and the network goes, only when the
handler has no work left. That is the normal case, a loop iteration taking far less
than a second; a measurement can hold it up for longer, and the run `live` therefore
checks delivery without it. `age` and `quiet` are history variables: seconds since
the last report of a slot, and seconds it has been due a periodic one; `quiet` is
negative for a group that waits to be looked at.

`age` says nothing about reports before a reset (it starts at `Horizon`): the engine
keeps no memory of them. `quiet` starts over at a Configure Reporting, because the
code stops the timer and loses its elapsed part (`zcl_appCb.c:305`), and, for a group
bound in the middle of a timer period, at the end of that period.

### Measurement

`Measurement.tla` models choosing a meter, measuring it, giving up on it, and the
settings. A driver is described by its model: how many steps it takes before a
measurement counts as made (`Steps`: three sessions for Nartis, session and
acknowledgement for CE102M and NEVA, the session for the others), which of the reads
depend on what (`Readable`, `Wanted`, `Given`), and how it treats its static buffers
(`Forgetful`, `Bufferless`, `Shadowing`, `File`). A measurement picks the step it gets
to and the set of values that were answered; everything the handlers assign follows.

| action | code |
|---|---|
| `MeasureMeterCb` | `measure_meterCb` with the whole `measure_meter_*` of the chosen driver |
| `FaultMeasureMeterCb` | `fault_measure_meterCb`, with `set_device_model` when the flag is up |
| `WriteManufacturer`, `WriteAddress`, `WritePassword`, `WritePeriod` | the branches of `app_zclWriteReqCmd`, after the ZCL layer stored the raw attribute |
| `Restart` | power failure, `init_config`, `set_device_model` |
| `Tick`, `MeterChanges` | time; the meter answers everything, or possibly not |

Abstractions: the address does not influence what a meter answers; a KASKAD-1-MT or
NEVA of unknown version and a three-phase KASKAD-11 are measurements in which not
everything is read; a password is its length; the NV write is atomic (shown in
NvModule, and `init_config` checks id and CRC again);
`forcedReportCb` and multipliers have no part in the properties. `shown` gains what was
answered and tells nothing of the numbers: that `nartis_100.c:1066-1167` writes 0 for a
measurement that could not be read, and that `kaskad_11.c:303` stores the sum of the
tariffs it got, is not told apart from not writing them.

### Exchange over UartRing, ByteQueue

`UartRing.tla` is `app_uart.c`: the functions of the main loop are split into their
memory accesses, `Receive` (the interrupt) is one step, since nothing interrupts it.
`Exchange.tla` EXTENDS it with a driver that asks for the values of a measurement one
after the other, after `kaskad_1_mt.c`, and a meter that answers with whole or damaged
frames, late or never. No other driver is modelled here, and they differ: KASKAD-11 does
not flush and asks again by recursion, MERCURY has no frame delimiters, CE208BY has one.
`ByteQueue.tla` is what the ring promises; `RingIsAQueue` is the
refinement, with the bytes between tail and head as the queue.

| action | code |
|---|---|
| `Interrupt` / `Receive` | `app_uartRecvCb`, `write_bytes_to_buff_uart`, with any number of bytes the DMA has gathered |
| `Call`, `Flush` | `flush_buff_uart` at the start of `send_command`: tail, head, then `memset` byte by byte |
| `Send`, `SendFails` | the rest of `send_command`; the meter answers, or does not |
| `PollByte`, `LoadByte` | `available_buff_uart` and `read_byte_from_buff_uart` in the inner loop of `response_meter` |
| `PollAgain` | the end of one of the 100 polls, `load_size = 0` |
| `Judge` | the checks after the loop, and the next command of the measurement |

A frame has four bytes here: `START BOUNDARY body BOUNDARY`. Stuffing is left out, since
it only keeps `BOUNDARY` out of a body; the checksum is whether a body is `Damaged`.
`ByteQueue` says what the ring does *not* promise as well: filled to its last byte it is
worth nothing, and while it is emptied arriving bytes may vanish or read as zero.

The byte of the command that an answer carries does not tell serial number and date
apart (`Code`), so what keeps an earlier answer out is the emptying of the ring.
`AnswerIsFresh` says how far that goes: if nothing was on its way from the meter when the
head was reset (`fresh`), a frame that is judged is not an answer to another command.
The cells behind the tail count as well, where a read overtaken by an overrun would find
what is left of earlier answers. An answer that is still on the way at that
moment is not covered, and run `late` shows what then happens.

One late answer costs more than itself: `response_meter` stops at the first complete
frame, so the answer of the command before is taken off the ring, rejected, and the
right one stays for the next flush. The comment "trying to read for 1 seconds"
(`kaskad_1_mt.c:223`) holds only if nothing foreign is received; `AnswerTaken` has as
its premise that nothing older is in the way.

### Upgrade and AtomicUpgrade

`Upgrade.tla` is the client of `ota.c`, the flash both share, and
`bootloader_with_ota_check`. A sector of flash holds a block of a version, nothing, or
something half written; a checksum is what it was computed over. `AtomicUpgrade.tla` is
the device seen from outside: one firmware, replaced at once by one that was offered.
The moment is the writing of the start-up flag in `ota_mcuReboot`.

| action | code |
|---|---|
| `CheckImage`, `EraseSector`, `WriteSector`, `FillSector`, `CopyFails`, `ClearFlag`, `WipeSector` | `bootloader_with_ota_check`; the last of them starts the application, `StartUp` |
| `PeriodicQuery`, `Notified` | `ota_periodicQueryServerCb`, `ota_imageNotifyHandler`, answered by `ota_queryNextImageRspHandler`: `Resume`, `Finish` or `Restart` |
| `ImageBlockRsp` | `ota_imageBlockRspHandler` with `ota_imageDataProcess` and the scheduled `ota_saveUpdateInfo2NV` |
| `WrongBlockRsp`, `WaitRsp`, `AbortRsp` | its other branches |
| `UpgradeEndAborted` | `app_zclDfltRspCmd`: the server refuses the upgrade-end request |
| `BlockTimeout`, `WaitOver`, `UpgradeTimer` | the callbacks of `otaTimer` |
| `UpgradeEndRsp` | `ota_upgradeEndRspHandler`, at once, later, not yet |
| `Release`, `PowerFails` | environment; power fails anywhere, also between erased sectors |

Abstractions: a block of image fills a sector, so that one partly written at a loss of
power counts as not written: a download resumes at or before it and writes the same
bytes. The server has the last release only. Every block of header is checked as a
whole; the header is saved at its end as in the code. The save that a block schedules
(`ota.c:1537`) is one step with the block. `Success` is one step as well: erasing the NV
module (`ota.c:600`) and writing the flag (`ota.c:211`), a write that does not fail. A loss
of power between the two leaves the image without flag and without NV data, a state from
which the client starts over as after any lost download.

**The one timer.** `otaTimer` serves the query, the blocks, the wait and the end of the
upgrade, and `ota_queryStart` (`ota.c:571`) starts the query timer only if it is free.
`Abort` therefore takes what its caller has left of it. There are two ways in which a
server strands a client, a state without any timer, until the next reset or notify:

* it refuses the upgrade-end request of a whole file (`zcl_appCb.c:283-288`): the state
  becomes normal while the end timer runs, no query timer is started, and `ota_upgrade`
  (`ota.c:733-750`) then finds nothing to do and returns -1;
* it answers `WAIT_FOR_DATA`, and a late block of another version ends the download while
  the wait runs: `ota_imageBlockWaitCb` finds it ended and returns -1.

Both are actions of the model and happen in the run `upgrade`; `stranded` records them,
and `Updated` excepts exactly these states: the client does stay behind there.

What the model shows and the passing run leaves out:

* After a reset, the header of a small release may meet the progress of a larger one
  before it. The client then asks beyond the end of the file, gives up and resumes there
  again, for ever. The releases of `upgrade` grow, so that this does not happen.
* If `pOtaUpdateInfo` cannot be allocated (`ota.c:1483-1489`) the download stays "in
  progress" without a timer. Allocation does not fail in the model.
* `Restart` erases `size / 4096 + 1` sectors. For a file of exactly
  `FLASH_OTA_IMAGE_MAX_SIZE` that is one sector too many, the first of the NV area. The
  model has no sector there; `Erased` stops at the last of the image area.

### NvModule and AtomicStore

`NvModule.tla` is one module of `drv_nv.c`: two sectors used in turn, each a header and
a log of entries. An entry stands for its index entry, its item header and its payload.
Power may fail between any two writes to the flash and within the writing of an entry
(`torn`). `AtomicStore.tla` is an array of registers whose writes take effect at one
moment or never.

| action | code |
|---|---|
| `Settle` | `nv_sector_read` on a sector that is ready but not yet valid, by a read or by the next write |
| `Begin`, `Format`, `Append`, `ChangeSector` | the beginning of `nv_flashWriteNewHandler`, up to the place where the item will go |
| `DropDuplicate` | `nv_exceptionDataHandler` |
| `CopyEntry`, `CopyEnds` | the loop that moves what is valid |
| `Index`, `Mark` | `nv_write_item`: index entry under operation; payload, item header, valid |
| `Old` | the older entry of the item is invalidated |
| `Header`, `Ready`, `Retire`, `Promote` | the sector headers |

Abstractions: the entries of an item have the same size, so that `Slots` stands for both
limits of a sector, index and space; a torn index entry and a torn item header are one
state, because the next write changes sector on either; the copying of an entry to the
new sector is one step, because a cut there only leaves a sector without a header, which
is erased before it is used again. `Measurement` and `Reporting` write their items in
one step; `StoreIsAtomic` is the ground for it.

Left out: worn-out flash (`drv_nv.c:699-701` gives up copying and then commits the
sector, which loses what was not copied); the forced change of sector of
`nv_flashWriteNew` (the same as `ChangeSector` after a torn entry); a two-byte flag or
an erase cut short in the middle; `nv_resetModule`, which erases a module; a failing
`ev_buf_allocate` in `nv_exceptionDataHandler`; the frame counter, which has a format of
its own.

## 3. Model checking

| run | question | result |
|---|---|---|
| `frames` | three slots in two clusters, frames of two, changing values, one reset or network loss | `TypeOK`, `MinIntervalKept`, `MaxIntervalKept`, `PassesShrink` hold |
| `configure` | two commands out of six kinds (also a minimum above the maximum, "forget", "reset to default") around a reset | `TablesSane`, `SavedConfiguration`, `ConfigurationKept` and both intervals hold |
| `live` | main loop held up at will, bindings made and removed | `HandlerReturns`, `Delivered` hold |
| `strings` | a string of 12 bytes or more in a slot that is not the last | `ConfigurationKept` **violated** |
| `hasty` | three slots with minimum 0 and different maxima | `MaxIntervalKept` **violated** |
| `measuring` | KASKAD-11 and both NARTIS (buffers that shadow the attributes, one and three steps), three settings written in any order, failures at any step, reloads, a power failure, under fairness | `TypeOK`, `SettingsSaved`, `DriverConfigured`, `MeasurementDue`, `FaultWatched`, `LedHonest`, `IdentityShown`, `FaultEnds`, `Recovers` hold |
| `kept` | CE208BY, a reload after a series of failures | `IdentityShown` **violated** |
| `exchange` | a meter that answers anything at any time, the interrupt anywhere, a ring too small for two frames, answers that carry no byte to tell them apart | `TypeOK`, `AnswerIsFresh`, `AnswerTaken`, `RingIsAQueue`, `ExchangeEnds` hold |
| `late` | the command bytes of KASKAD-1-MT | `AnswerOfItsCommand` **violated** |
| `upgrade` | four releases, five losses anywhere, two stray answers (a wait, a refusal in the download or at its end, another version's block) | `TypeOK`, `StartsWholeFirmware`, `CompleteIsWhole`, `UpgradeIsAtomic`, `Updated` hold |
| `rollback` | a release withdrawn and offered again | `CompleteIsWhole` **violated** |
| `store` | three items, any writes, power lost anywhere and any number of times | `TypeOK`, `NeverFull`, `StoreIsAtomic` hold |

The violated ones are findings of `PROJECT.json`, each against a line of the
repository's documentation or comments. `MERCURY_206` (`mercury_206.c:466`) and
`ENERGOMERA_CE102M` break `IdentityShown` too, by asking for the serial number in the
first measurement only, and `NEVA_MT124` in the way CE208BY does. NEVA-MT124 breaks
`LedHonest` as well: when its session opens and the acknowledgement fails
(`neva_mt124.c:895-917`) neither success nor fault is recorded, the LED blinks once, as
if the meter were read, and no reload timer starts. `measuring` has none of these
drivers; which drivers a property needs is a hypothesis of its theorem (section 4), and
the other safety properties are proved for all eight meters. The setting attributes are
not restored at boot (`preset` in `Restart`): the measurement period reads one minute
after a power failure, whatever the period in use.

In `hasty` a frame is filled by a slot with minimum interval 0. The loop then ends
without looking at the slots after it, and one of them, due at that moment, waits for the
next poll, while the timer has been started from the counters of the others. A frame is
sent, its counter starts over, and the timer that counts it down may be longer than its
maximum interval. One maximum for all slots, which the converter of the repository
configures, hides it, and so does the absence of a minimum 0: the tables of `frames` and
`configure` are such tables, and the theorem says that nothing else is needed.

In `rollback` the version offered again finds its own header and its own earlier
progress in flash, but sectors erased in between. The checksum of the stream covers
what was received, not what is in flash, and only `ota_mcuReboot` reads the image back:
it refuses, and no query follows until the next reset.

**Bounds.** `MaxConfigures`, `MaxFaults`, `MaxWrites`, `MaxRestarts` cap the commands
and faults of one behaviour; measurements, value changes and time are unbounded. Three
slots in two clusters are the least with which a frame is full, another cluster waits
and a third slot is left over; two slots are the least for two counters in one timer
period. Intervals of 0 to 3 seconds give every order of expiry of two slots,
`Horizon` lies above every interval, so that no comparison with `age` is cut off.
Attribute values 0 and 1 (or 2, where a reportable change of 3 must not be exceeded)
distinguish changed, unchanged and below the threshold; `Erased` stands for the 0xFF
bytes of a restored slot. In Measurement the four times keep the order of the real
ones (1 s < 15 s < 60 s < 10 min as 1 < 2 < 3 < 4 units, 5 for the last in `kept`). Three
writes allow choosing a meter, a setting and a second choice; the password written has 16
characters, the most the code takes, the one before it none.

In Exchange a ring of five cells with a reception of up to four bytes is overrun,
filled exactly and wrapped; two commands that share the byte of their answers are the least
for one to be taken for the other; two polls are the least for an answer that comes in pieces;
`MaxLine` keeps two frames on the way, the late one and the right one, and `MaxLoad` is one
byte more than a frame. In Upgrade a header of two blocks, images of two to five blocks
and progress saved every fourth block give a reset before, at and after every saved
state; the resume threshold lies at the end of the header, as 4096 lies beyond the real
one. `MaxLosses` = 5 lets power fail in the download, twice in the copying and once in
what repairs it; with `MaxRetries` = 2 two lost answers end a download. `MaxStrays` = 2
is what both ways of stranding a client need. NvModule needs no
bound: its states are finite, losses of power unlimited. Three slots for three items are
the tightest log in which there is room at all. Items and values are interchangeable
there, which is the symmetry used.

**Fairness.** `FairSpec` of both modules is weak fairness of the clock and of what the
main loop does by itself: polling the handler and serving the timer queue, which
`tl_zbTaskProcedure` and `app_task` do in an endless loop. Nothing is assumed of the
coordinator, the network, the power supply or the meter; `Recovers` has as its
hypothesis a meter that answers for good and a model that stays chosen, and is
empty otherwise. The faults that could repeat for ever are bounded.

In Exchange it is weak fairness of the driver alone: its loops run, and `ExchangeEnds`
asks nothing of the meter or the interrupt. In Upgrade it is weak fairness of the
bootloader, of the timers (`PeriodicQuery`, `BlockTimeout`, `WaitOver`, `UpgradeTimer`)
and of a server that has the block it is asked for (`ImageBlockRsp`); an answer can be
lost as long as `MaxLosses` allows. What the server does of its own accord, notifying,
ordering a wait or refusing, is under no fairness; a client it has stranded is excepted
from `Updated`.

**Deadlock** is checked in every run but `upgrade` and `rollback`, where a device that
runs what is offered has nothing left to do.

## 4. Proofs

Seven modules hold the theorems: `ReportingProof`, `ReportingMaxProof`,
`MeasurementProof`, `ExchangeProof`, `UpgradeProof`, `ResumeProof` and `NvModuleProof`.
Every obligation is proved. The theorems hold for every value of the constants that
satisfies the assumptions of the modules; where a theorem has a hypothesis of its own, a
run or the text below shows what happens without it.

**Reporting.** `TypeCorrect`, `TablesStaySane`, `ConfigurationIsSaved` and `LoopShrinks`
use only the assumptions on the constants.

* `LoopShrinks`: a pass of `reportAttrs` that asks for another one leaves fewer slots due.
  What was sent equals its `prev` and has a full counter; what a long string ran over has
  lost its attribute and is neither sent nor rearmed in the same pass (`BatchApart`); and
  nothing becomes due by a pass. This is the safety half of `HandlerReturns`: at most
  one pass more than there are slots.
* `ConfigurationIsSaved`: flash and memory agree slot by slot; the handler changes nothing
  of what is saved except through an overrun, which is outside of the property.
  `ConfigurationStays` has `Long = {}` as its hypothesis; the run `strings` is the reason.
* `MinimumIntervals` assumes `Prompt`, bindings that are not removed (`~MayUnbind`),
  `Long = {}` and saved tables whose counters are full: each excludes a way in which the
  code does break the interval. The inductive invariant `MinInv` adds to the type and table
  invariants that a counter plus the age of its slot covers the minimum interval, with the
  elapsed part of a running timer period charged (`CountersHonest`), that no period is
  disturbed (`PeriodUndisturbed`), that slots of unbound groups have not been touched
  (`UntouchedWhileUnbound`) and that intervals lie within `Horizon` (`WithinHorizon`).
* `MaximumIntervals` assumes the same, counters that do not exceed their intervals, and that
  no configured minimum is 0 (`NoZeroMinimum`) or no configured maximum differs from another
  (`OneMaximum`); the run `hasty` has neither. Its invariant `MaxInv` says, besides
  `MinInv`, that the silence of a slot and what is left of its counter add up to its maximum
  at most (`AllCounted`). A timer that runs has to fit in as well, although it was started
  for other slots: it does because no slot is due while it runs (`NoneDue`, the first
  hypothesis) or because no timer is longer than any maximum (`ShortPeriods`, the second).

**Measurement.** `TypeCorrect`, `SettingsAreSaved`, `DriverFollowsSettings`,
`MeasurementsStayDue` and `FaultsAreWatched` hold for any set of meters, settings and
times, from one inductive invariant, the conjunction of the five: the measurement timer is
bounded only because the period in use is one `Config` allows, and the reload restores the
driver only because the model is a known one.

* `LedShowsFault`, for all meters: after a measurement that was made the fault flag is down,
  after a failed one it is up, unless the driver is NEVA-MT124's. `LedIsHonest` draws the
  conclusion about the LED for any set of meters without it.
* `IdentityIsShown`, for drivers that empty their buffers with `new_start` (`Forgetful`): a
  complete measurement has serial number and date in the attributes. Its invariant
  `BufferShown` says that what such a driver has in its buffer is shown, so that what it no
  longer asks for is there, also when two drivers share a buffer. The other drivers break
  it: run `kept`.

**Exchange.** `RingRefinesQueue` shows for any ring larger than a reception that every
access to the ring is a step of `ByteQueue` or none. It needs that the modulus of a sum is
taken once (`Wrap` of at most twice the ring) and that the reader holds a promise of one
byte while `op` is "read"; the ring is then full, not empty, if head has come round to tail.

* `LeftoversAreGone` is `AnswerIsFresh` without any assumption on `Code`, so that it holds
  for KASKAD-1-MT, whose commands share a byte. While the ring is being cleared after a
  quiet line its front holds nothing of another command, when the request goes out no cell
  does, and from then on neither the line nor the ring nor the load buffer (`FreshInv`);
  all cells count, not only those between tail and head.
* `LoneAnswerIsTaken` assumes a ring and a buffer that a frame fits into (`4 < Size`,
  `4 <= MaxLoad`). While an answer is on its way alone the ring is empty and nothing is
  loaded (`AloneInv`); when it has arrived, what is loaded and what is outstanding make up
  its frame (`InParts`), so that a byte is available until it is complete, and the poll
  cannot end before. That the reader never sees a byte it was not sent comes from the
  refinement.

**Upgrade.** `AlwaysStarts` and `RefinesAtomicUpgrade` need no bound on losses. The
inductive invariant says what the flag means: while it is set the new image is whole and
nobody touches it, at every stage of the bootloader the running area is a prefix of it and
a rest, and without it the running area is whole. That the download may have gone wrong
does not matter, because `Success` looks at the image itself.

* `CompletesWhole` says that the download has not gone wrong, if no version is offered twice
  (`OffersDiffer`; run `rollback` is the counterexample without it). A checksum that has no
  gap fixes offset, position and length (`Fits`), and what it covers is in flash: for the
  progress in memory while a download is under way or can be resumed (`InMemory`), and for
  the progress that was saved, beyond the threshold, together with the header of the same
  version (`InFlash`). The second needs that memory is ahead of flash as long as the device
  runs (`Ahead`), since the client looks at memory alone when it decides whether to erase:
  so it never erases under a progress that a reset would find (`NothingToErase`). Header and
  progress of different versions may meet after a reset; `WasOffered` says that a version is
  unknown before it is offered, so such a pair is never taken for a whole file.

**NvModule.** `RefinesAtomicStore` rests on an invariant in three modes, a module that is
fresh, appending, or moving to the other sector: the log is closed at its end, every item
but the one being written reads the same in the sector under construction as in the active
one (`CopyInv`), and the entry being written is the last. `AlwaysRoom` adds that the entries
copied belong to different items, and counts them.

Every safety property of the passing runs is stated by a theorem. Only model-checked is
what holds under fairness, which the prover does not handle: `HandlerReturns`, `Delivered`,
`FaultEnds`, `Recovers`, `ExchangeEnds`, `Updated`.

## 5. Plan

1. **Reporting**, **Measurement** (done), with proofs of both intervals. Next: an abstract
   contract per slot that Reporting refines, from `MinInv` and `MaxInv`.
2. **UartRing**, **Exchange** (done), with the refinement of a queue.
3. **NvModule** (done), **Upgrade** (done), each refining an atomic specification.
4. Proofs still worth having: the safety halves of the other liveness properties, a variant
   for the polls of an exchange and for the bootloader's copying, as `LoopShrinks` is for
   the loop of `reportAttrs`.

## 6. Not modelled

* Button, tamper, temperature, forced reports, network supervision, the timers of the
  LED: sequential callbacks in which one variable is written and read by the same loop. A
  model would repeat the few lines of code; their unit tests would reach what can go
  wrong.
* Frames, stuffing, checksums and number formats of the drivers: functions of bytes,
  abstracted to whether an answer is whole and whose it is.
* `nv_resetModule`, the frame counter and worn-out flash (see NvModule); finding the
  OTA server, encrypted images, and the upgrade over UART, which is compiled out.
* The Zigbee stack (a library), the one-wire and GPIO timing, `app_arith64.c`,
  `module_test.c`, `firmwareEncryptChk.c`, the flashing tools and the zigbee2mqtt
  converter, whose requests are the inputs of the models.
