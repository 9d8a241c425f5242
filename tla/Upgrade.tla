------------------------------- MODULE Upgrade --------------------------------
(* The upgrade over the air: the client that downloads an image in blocks and   *)
(* keeps its progress in flash (src/tl_zigbee_sdk/zigbee/ota/ota.c), the reboot *)
(* into the bootloader, and the bootloader that copies the image over the one   *)
(* that runs (src/src/bootLoader/bootloader.c).  Power may fail at any point.   *)
(* A file is some blocks of header, then the image; a block of image is what    *)
(* fills a sector of flash.                                                     *)
EXTENDS Naturals, Sequences

CONSTANTS
  Version,     \* firmware versions
  Factory,     \* the one the device was made with
  Blocks,      \* per version: blocks of its image
  MaxBlocks,   \* FLASH_OTA_IMAGE_MAX_SIZE
  HeadBlocks,  \* blocks of header in a file
  Threshold,   \* a download is resumed beyond this offset, 4096 bytes in the code
  SaveEvery,   \* blocks between two writes of the progress, FLASH_WRITE_COUNT_GET
  MaxRetries,  \* OTA_MAX_IMAGE_BLOCK_RETRIES
  MaxEndRetries, \* OTA_MAX_UPGRADE_END_REQ_RETRIES
  Releases,    \* what the server offers, one after the other
  MaxLosses,   \* bound: failures of power or flash, and answers that are lost
  MaxStrays    \* bound: answers that are late, refuse or ask to wait

None == "none"

ASSUME UpgradeAssumption ==
  /\ Factory \in Version
  /\ MaxBlocks \in Nat \ {0} /\ Blocks \in [Version -> 1 .. MaxBlocks]
  /\ HeadBlocks \in Nat \ {0} /\ Threshold \in Nat /\ HeadBlocks <= Threshold
  /\ SaveEvery \in Nat \ {0}
  /\ MaxRetries \in Nat /\ MaxEndRetries \in Nat
  /\ Releases \in Seq(Version) /\ Len(Releases) > 0
  /\ MaxLosses \in Nat /\ MaxStrays \in Nat
  /\ Version \cap {None, "blank", "half", "bad"} = {}

VARIABLES
  running,    \* the sectors at APP_RUNNING_ADDR
  new,        \* the sectors at FLASH_ADDR_OF_OTA_IMAGE
  flag,       \* the start-up flag of the new image is whole
  nvHdr,      \* NV_ITEM_OTA_HDR_SERVERINFO: the version of the file under way
  nvCode,     \* NV_ITEM_OTA_CODE: otaClientInfo as last saved
  boot,       \* "run" while the application runs, else what the bootloader does
  at, size,   \* the sector it is at, of how many
  ram,        \* the client's variables
  release,    \* how far the server is in Releases
  losses, strays

flash  == <<running, new, flag, nvHdr, nvCode>>
loader == <<boot, at, size>>
vars   == <<flash, loader, ram, release, losses, strays>>

published == Releases[release]
offered   == {Releases[i] : i \in 1 .. release}

-----------------------------------------------------------------------------
(* Sectors, images and checksums. *)

Sector == 0 .. MaxBlocks - 1
Block  == Version \X Sector
Blank  == <<"blank", 0>>      \* erased
Half   == <<"half", 0>>       \* partly written

Holds(area, v) == \A i \in Sector : i < Blocks[v] => area[i] = <<v, i>>

(* The version an image area says it holds; sector 0 has size and version.      *)
Titled(area) == area[0][1]
Titles(area) == Titled(area) \in Version

(* ota_newImageValid, and the same check in the bootloader.                     *)
Valid(area) == Titles(area) /\ Holds(area, Titled(area))

(* The checksum of a stream is what it covers: the first k blocks of v, or junk.*)
NoCrc  == <<None, 0>>
BadCrc == <<"bad", 0>>
Extended(crc, b) ==
  IF crc = b \/ (b[2] = 0 /\ crc = NoCrc) THEN <<b[1], b[2] + 1>> ELSE BadCrc

(* The image in flash starts like one and ends with the checksum of the stream. *)
CrcIgnored(area, len, crc) == area[0] # Blank   \* mutant
CrcMatches(area, len, crc) ==
  /\ area[0] # Blank
  /\ len - 1 \in Sector
  /\ \E v \in Version : area[len - 1] = <<v, Blocks[v] - 1>> /\ crc = <<v, Blocks[v]>>

FileLen(v) == HeadBlocks + Blocks[v]
NoOffset   == HeadBlocks + MaxBlocks + 1      \* 0xffffffff, beyond every file

-----------------------------------------------------------------------------
(* The client's variables.  info is otaClientInfo with clientOtaFlg as flg and  *)
(* otaElementPos, otaElementLen as pos, len; upd is pOtaUpdateInfo # NULL.      *)
(* stranded is history: the timer has run down for a download given up before,  *)
(* and nothing has been heard from the server since.                            *)

NoInfo == [flg |-> "init", offset |-> 0, pos |-> 0, len |-> 0, crc |-> NoCrc]

Idle == [status |-> "normal", timer |-> "off", retry |-> 0, endRetry |-> 0, offset |-> NoOffset,
         ver |-> None, info |-> NoInfo, upd |-> FALSE, cnt |-> 0, stranded |-> FALSE]

Flags    == {"init", "magic", "header", "element"}
Statuses == {"normal", "progress", "complete", "waiting", "countdown"}
Timers   == {"off", "query", "block", "wait", "end"}
Offset   == 0 .. HeadBlocks + MaxBlocks
Crc      == (Version \X (1 .. MaxBlocks)) \cup {NoCrc, BadCrc}
Info     == [flg : Flags, offset : Offset, pos : Offset, len : Offset, crc : Crc]
Ram      == [status : Statuses, timer : Timers, retry : 0 .. MaxRetries, endRetry : 0 .. MaxEndRetries,
             offset : Offset \cup {NoOffset}, ver : Version \cup {None}, info : Info,
             upd : BOOLEAN, cnt : 0 .. SaveEvery - 1, stranded : BOOLEAN]
Area     == [Sector -> Block \cup {Blank, Half}]

TypeOK ==
  /\ running \in Area /\ new \in Area
  /\ flag \in BOOLEAN
  /\ nvHdr \in Version \cup {None}
  /\ nvCode \in Info
  /\ boot \in {"check", "erase", "write", "fill", "clear", "wipe", "run", "dead"}
  /\ at \in Sector
  /\ size \in 0 .. MaxBlocks
  /\ ram \in Ram
  /\ release \in 1 .. Len(Releases)
  /\ losses \in 0 .. MaxLosses /\ strays \in 0 .. MaxStrays

Init ==
  /\ running = [i \in Sector |-> IF i < Blocks[Factory] THEN <<Factory, i>> ELSE Blank]
  /\ new = [i \in Sector |-> Blank]
  /\ flag = FALSE
  /\ nvHdr = None
  /\ nvCode = NoInfo
  /\ boot = "check" /\ at = 0 /\ size = 0
  /\ ram = Idle
  /\ release = 1 /\ losses = 0 /\ strays = 0

-----------------------------------------------------------------------------
(* The bootloader. *)

(* The application starts: ota_init with ota_clientInfoRecover, and the query   *)
(* timer once the network is there.                                             *)
Recovered ==
  IF nvHdr # None /\ nvCode # NoInfo
    THEN [Idle EXCEPT !.info = nvCode, !.offset = nvCode.offset, !.ver = nvHdr, !.timer = "query"]
    ELSE [Idle EXCEPT !.timer = "query"]

StartUp ==
  IF running[0] # Blank
    THEN boot' = "run" /\ ram' = Recovered
    ELSE boot' = "dead" /\ UNCHANGED ram

ClearsFirst ==   \* mutant: the flag is cleared before the image is copied
  /\ boot = "check"
  /\ at' = 0
  /\ size' = IF Titles(new) THEN Blocks[Titled(new)] ELSE MaxBlocks
  /\ IF flag THEN boot' = (IF Valid(new) THEN "erase" ELSE "clear") /\ UNCHANGED ram
             ELSE StartUp
  /\ flag' = FALSE
  /\ UNCHANGED <<running, new, nvHdr, nvCode, release, losses, strays>>

CheckImage ==
  /\ boot = "check"
  /\ at' = 0
  /\ size' = IF Titles(new) THEN Blocks[Titled(new)] ELSE MaxBlocks
  /\ IF flag THEN boot' = (IF Valid(new) THEN "erase" ELSE "clear") /\ UNCHANGED ram
             ELSE StartUp
  /\ UNCHANGED <<flash, release, losses, strays>>

BeyondLast == at = size   \* mutant
LastSector == at + 1 = size

EraseSector ==
  /\ boot = "erase"
  /\ boot' = "write"
  /\ running' = [running EXCEPT ![at] = Blank]
  /\ UNCHANGED <<new, flag, nvHdr, nvCode, at, size, ram, release, losses, strays>>

WriteSector ==
  /\ boot = "write"
  /\ boot' = "fill"
  /\ running' = [running EXCEPT ![at] = Half]
  /\ UNCHANGED <<new, flag, nvHdr, nvCode, at, size, ram, release, losses, strays>>

FillSector ==
  /\ boot = "fill"
  /\ running' = [running EXCEPT ![at] = new[at]]
  /\ IF LastSector THEN boot' = "clear" /\ at' = at
                   ELSE boot' = "erase" /\ at' = at + 1
  /\ UNCHANGED <<new, flag, nvHdr, nvCode, size, ram, release, losses, strays>>

(* What was written does not read back: SYSTEM_RESET.                           *)
GivesUp ==   \* mutant: goes on
  /\ boot = "fill"
  /\ losses < MaxLosses
  /\ losses' = losses + 1
  /\ boot' = "clear"
  /\ UNCHANGED <<flash, at, size, ram, release, strays>>

CopyFails ==
  /\ boot = "fill"
  /\ losses < MaxLosses
  /\ losses' = losses + 1
  /\ boot' = "check"
  /\ UNCHANGED <<flash, at, size, ram, release, strays>>

ClearFlag ==
  /\ boot = "clear"
  /\ flag' = FALSE
  /\ boot' = "wipe" /\ at' = 0
  /\ UNCHANGED <<running, new, nvHdr, nvCode, size, ram, release, losses, strays>>

WipeSector ==
  /\ boot = "wipe"
  /\ new' = [new EXCEPT ![at] = Blank]
  /\ IF LastSector THEN StartUp /\ at' = at
                   ELSE boot' = boot /\ at' = at + 1 /\ UNCHANGED ram
  /\ UNCHANGED <<running, flag, nvHdr, nvCode, size, release, losses, strays>>

Bootloader ==
  CheckImage \/ EraseSector \/ WriteSector \/ FillSector \/ ClearFlag \/ WipeSector

-----------------------------------------------------------------------------
(* The end of a download: ota_upgradeComplete and what the application does     *)
(* about it in app_otaProcessMsgHandler.                                        *)

AbortAndRest(timer) ==   \* mutant: no query timer
  /\ ram' = [ram EXCEPT !.status = "normal", !.timer = timer, !.upd = FALSE]
  /\ UNCHANGED <<nvHdr, nvCode>>

(* timer is what the caller has left of otaTimer: ota_queryStart starts the     *)
(* query timer only if there is none.                                           *)
Abort(timer) ==
  /\ ram' = [ram EXCEPT !.status = "normal", !.timer = IF timer = "off" THEN "query" ELSE timer, !.upd = FALSE]
  /\ UNCHANGED <<nvHdr, nvCode>>

Invalid ==
  /\ ram' = [ram EXCEPT !.status = "normal", !.timer = "query", !.upd = FALSE, !.info = NoInfo,
                        !.offset = NoOffset, !.ver = None]
  /\ nvHdr' = None
  /\ nvCode' = NoInfo

(* ota_mcuReboot sets the flag of an image that is whole, and the chip is reset;*)
(* it returns if the image is not, and nobody starts the query timer again.     *)
Success ==
  /\ nvHdr' = None
  /\ nvCode' = NoInfo
  /\ IF Valid(new)
       THEN flag' = TRUE /\ boot' = "check" /\ ram' = Idle
       ELSE UNCHANGED <<flag, boot>> /\ ram' = [ram EXCEPT !.status = "normal", !.timer = "off", !.upd = FALSE]
  /\ UNCHANGED <<running, new, at, size>>

-----------------------------------------------------------------------------
(* The server answers a query: ota_queryNextImageRspHandler. *)

Resumable == ram.ver = published /\ ram.offset > Threshold
WholeFile == ram.info.offset = FileLen(published)
Checked   == ram.info.pos = ram.info.len /\ CrcMatches(new, ram.info.len, ram.info.crc)

Erased(n) == [i \in Sector |-> IF i < n THEN Blank ELSE new[i]]

Resume ==
  /\ Resumable /\ ~WholeFile
  /\ ram' = [ram EXCEPT !.status = "progress", !.timer = "block", !.retry = 0, !.stranded = FALSE]
  /\ UNCHANGED <<flash, loader>>

Finish == Resumable /\ WholeFile /\ Checked /\ Success

(* The sectors of the file are erased, one more than it fills.                  *)
Restart ==
  /\ Resumable => WholeFile /\ ~Checked
  /\ new' = Erased(Blocks[published] + 1)
  /\ ram' = [ram EXCEPT !.status = "progress", !.timer = "block", !.retry = 0, !.offset = 0,
                        !.ver = published, !.upd = TRUE, !.info.crc = NoCrc, !.info.flg = "magic",
                        !.stranded = FALSE]
  /\ UNCHANGED <<running, flag, nvHdr, nvCode, loader>>

QueryNextImageRsp ==
  /\ boot = "run"
  /\ ram.status # "progress"
  /\ published # Titled(running)
  /\ Resume \/ Finish \/ Restart

(* The query timer has sent the request.                                        *)
PeriodicQuery ==
  /\ ram.timer = "query"
  /\ QueryNextImageRsp
  /\ UNCHANGED <<release, losses, strays>>

(* The server has asked for it with an image notify, or the answer is late.     *)
Notified ==
  /\ strays < MaxStrays
  /\ strays' = strays + 1
  /\ QueryNextImageRsp
  /\ UNCHANGED <<release, losses>>

-----------------------------------------------------------------------------
(* The server answers a request for a block: ota_imageBlockRspHandler. *)

Downloading == boot = "run" /\ ram.status = "progress"

(* ota_saveUpdateInfo2NV, which the handler schedules.                          *)
Saved(r) ==
  IF r.cnt + 1 >= SaveEvery \/ r.status = "complete"
    THEN nvCode' = r.info /\ ram' = [r EXCEPT !.cnt = 0]
    ELSE nvCode' = nvCode /\ ram' = [r EXCEPT !.cnt = r.cnt + 1]

(* ota_imageDataProcess in the header: it is collected in a buffer and saved at *)
(* its end.                                                                     *)
HeaderBlock ==
  /\ ram.info.flg # "element"
  /\ UNCHANGED new
  /\ IF ~ram.upd
       THEN Invalid
       ELSE IF ram.offset + 1 = HeadBlocks
         THEN /\ nvHdr' = ram.ver
              /\ Saved([ram EXCEPT !.offset = ram.offset + 1, !.retry = 0, !.upd = FALSE, !.info.flg = "element",
                                   !.info.pos = 0, !.info.len = Blocks[ram.ver]])
         ELSE /\ nvHdr' = nvHdr
              /\ Saved([ram EXCEPT !.offset = ram.offset + 1, !.retry = 0, !.info.flg = "header"])

(* ota_imageDataProcess in the image: checksum, flash, and at the end of the    *)
(* image or of the file the comparison with the checksum received.              *)
DataBlock ==
  LET b    == <<ram.ver, ram.offset - HeadBlocks>>
      pos  == ram.info.pos
      fits == pos < ram.info.len /\ new[pos] \in {Blank, b}
      crc  == Extended(ram.info.crc, b)
      ends == ram.offset + 1 = FileLen(ram.ver)
      last == pos + 1 = ram.info.len
      good == last /\ CrcMatches(new', ram.info.len, crc)
  IN
  /\ ram.info.flg = "element"
  /\ new' = IF pos < ram.info.len THEN [new EXCEPT ![pos] = IF fits THEN b ELSE Half] ELSE new
  /\ IF ~fits \/ (last /\ ~good) \/ (ends /\ ~last)
       THEN Invalid
       ELSE /\ nvHdr' = nvHdr
            /\ Saved([ram EXCEPT !.offset = ram.offset + 1, !.retry = 0, !.endRetry = IF ends THEN 0 ELSE ram.endRetry,
                                 !.status = IF ends THEN "complete" ELSE "progress",
                                 !.timer = IF ends THEN "end" ELSE "block",
                                 !.info.offset = ram.offset + 1, !.info.pos = pos + 1, !.info.crc = crc])

(* The block asked for, from a server that still has the file.                  *)
Served ==
  /\ Downloading
  /\ ram.ver = published
  /\ ram.offset < FileLen(published)

ImageBlockRsp ==
  /\ Served
  /\ ram.timer = "block"
  /\ HeaderBlock \/ DataBlock
  /\ UNCHANGED <<running, flag, loader, release, losses, strays>>

(* A block of another version: the download ends, its timer goes on.            *)
WrongBlockRsp ==
  /\ Downloading
  /\ offered # {ram.ver}
  /\ strays < MaxStrays
  /\ strays' = strays + 1
  /\ ram' = [ram EXCEPT !.status = "normal"]
  /\ UNCHANGED <<flash, loader, release, losses>>

(* WAIT_FOR_DATA.                                                               *)
WaitRsp ==
  /\ Downloading
  /\ strays < MaxStrays
  /\ strays' = strays + 1
  /\ ram' = [ram EXCEPT !.timer = "wait", !.retry = 0]
  /\ UNCHANGED <<flash, loader, release, losses>>

AbortRsp ==
  /\ Downloading
  /\ strays < MaxStrays
  /\ strays' = strays + 1
  /\ Abort("off")
  /\ UNCHANGED <<running, new, flag, loader, release, losses>>

(* ota_imageBlockRspWait, when no answer comes: ask again, or give up.          *)
BlockTimeout ==
  /\ boot = "run" /\ ram.timer = "block"
  /\ IF Served THEN losses < MaxLosses /\ losses' = losses + 1 ELSE UNCHANGED losses
  /\ IF ram.retry + 1 >= MaxRetries
       THEN Abort("off")
       ELSE ram' = [ram EXCEPT !.retry = ram.retry + 1] /\ UNCHANGED <<nvHdr, nvCode>>
  /\ UNCHANGED <<running, new, flag, loader, release, strays>>

(* ota_imageBlockWaitCb.                                                        *)
WaitOver ==
  /\ boot = "run" /\ ram.timer = "wait"
  /\ ram' = [ram EXCEPT !.timer = IF ram.status = "progress" THEN "block" ELSE "off",
                        !.stranded = ram.status # "progress"]
  /\ UNCHANGED <<flash, loader, release, losses, strays>>

-----------------------------------------------------------------------------
(* After the last block. *)

(* ota_upgrade, when the timer has run down: another request, the upgrade, or   *)
(* nothing at all if the download has been given up in the meantime.            *)
UpgradeTimer ==
  /\ boot = "run" /\ ram.timer = "end"
  /\ \/ /\ ram.status \in {"complete", "waiting"} /\ ram.endRetry + 1 < MaxEndRetries
        /\ ram' = [ram EXCEPT !.endRetry = ram.endRetry + 1]
        /\ UNCHANGED <<flash, loader>>
     \/ /\ \/ ram.status = "countdown"
           \/ ram.status \in {"complete", "waiting"} /\ ram.endRetry + 1 >= MaxEndRetries
        /\ Success
     \/ /\ ram.status \in {"normal", "progress"}
        /\ ram' = [ram EXCEPT !.timer = "off", !.stranded = TRUE]
        /\ UNCHANGED <<flash, loader>>
  /\ UNCHANGED <<release, losses, strays>>

(* ota_upgradeEndRspHandler: at once, later, or not yet.                        *)
UpgradeEndRsp ==
  /\ boot = "run" /\ ram.status \in {"complete", "waiting"}
  /\ \/ Success
     \/ ram' = [ram EXCEPT !.status = "countdown", !.timer = "end"] /\ UNCHANGED <<flash, loader>>
     \/ /\ ram.status = "complete"
        /\ ram' = [ram EXCEPT !.status = "waiting", !.timer = "end", !.endRetry = 0]
        /\ UNCHANGED <<flash, loader>>
  /\ UNCHANGED <<release, losses, strays>>

(* A Default Response ABORT to the upgrade-end request, in app_zclDfltRspCmd.   *)
(* The timer that is to repeat the request runs, so no query timer is started.  *)
UpgradeEndAborted ==
  /\ boot = "run" /\ ram.status = "complete"
  /\ strays < MaxStrays
  /\ strays' = strays + 1
  /\ Abort(ram.timer)
  /\ UNCHANGED <<running, new, flag, loader, release, losses>>

-----------------------------------------------------------------------------
(* Everything else. *)

(* The server offers another version.                                           *)
Release ==
  /\ release < Len(Releases)
  /\ release' = release + 1
  /\ UNCHANGED <<flash, loader, ram, losses, strays>>

(* Power fails, at any step; also after some of the sectors have been erased.   *)
PowerFails ==
  /\ losses < MaxLosses
  /\ losses' = losses + 1
  /\ \/ UNCHANGED new
     \/ /\ boot = "run" /\ ram.status # "progress" /\ published # Titled(running)
        /\ Resumable => WholeFile /\ ~Checked
        /\ \E n \in 1 .. Blocks[published] : new' = Erased(n)
  /\ boot' = "check"
  /\ ram' = Idle
  /\ UNCHANGED <<running, flag, nvHdr, nvCode, at, size, release, strays>>

Next ==
  \/ Bootloader \/ CopyFails
  \/ PeriodicQuery \/ Notified
  \/ ImageBlockRsp \/ WrongBlockRsp \/ WaitRsp \/ AbortRsp \/ BlockTimeout \/ WaitOver
  \/ UpgradeTimer \/ UpgradeEndRsp \/ UpgradeEndAborted
  \/ Release \/ PowerFails

Spec == Init /\ [][Next]_vars

(* The chip runs its code and its timers, and the server answers what it can.   *)
FairSpec ==
  /\ Spec
  /\ WF_vars(Bootloader)
  /\ WF_vars(PeriodicQuery) /\ WF_vars(ImageBlockRsp)
  /\ WF_vars(BlockTimeout) /\ WF_vars(WaitOver) /\ WF_vars(UpgradeTimer)

-----------------------------------------------------------------------------
(* Whatever fails and when, the bootloader finds a firmware to start, and what  *)
(* it starts is complete: bootloader.c:129-211.                                 *)
StartsWholeFirmware ==
  /\ boot # "dead"
  /\ boot = "run" => Valid(running)

(* Seen from outside a device changes from one released firmware to the next at *)
(* once: ota.c:196-244, bootloader.c:129-211.                                   *)
Installed == IF flag THEN Titled(new) ELSE Titled(running)
Firmware == INSTANCE AtomicUpgrade WITH installed <- Installed
UpgradeIsAtomic == Firmware!Spec

(* A download that is complete is an image that can be installed, whatever was  *)
(* resumed, thrown away or offered in between: ota.c:794-1135, 1368-1505.       *)
CompleteIsWhole == ram.status \in {"complete", "waiting", "countdown"} => Valid(new)

(* Once the server stays with a version, the device comes to run it, whatever   *)
(* power, flash or an answer may have failed before, unless the server has      *)
(* stranded it: by refusing the upgrade of a whole file, or with a block of     *)
(* another version after asking the client to wait.  Either leaves the client   *)
(* without a timer until the next reset or notify: ota.c:568-765, 1368-1606.    *)
Updated == <>[](ram.stranded \/ (boot = "run" /\ Valid(running) /\ Titled(running) = published))
==============================================================================
