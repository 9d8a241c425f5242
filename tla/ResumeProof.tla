----------------------------- MODULE ResumeProof ------------------------------
(* A download that is complete is a whole image, although the checksum that is  *)
(* compared covers what was received and not what is in flash, and although a   *)
(* download goes on after a reset from a header and a progress that were saved  *)
(* apart: proved for servers that offer no version twice, with images of every  *)
(* size, any list of such releases and any number of failures.                  *)
EXTENDS UpgradeProof

(* The run rollback shows that it takes this: what a version left behind in     *)
(* flash may otherwise be found again after its sectors have been erased.       *)
OffersDiffer == \A i, j \in 1 .. Len(Releases) : Releases[i] = Releases[j] => i = j

Ended == {"complete", "waiting", "countdown"}

-----------------------------------------------------------------------------
(* The invariant. *)

(* The progress that a checksum without gaps implies.                           *)
CrcFits(info) ==
  info.crc[1] \in Version =>
    /\ info.flg = "element" /\ info.len = Blocks[info.crc[1]]
    /\ info.offset = HeadBlocks + info.crc[2] /\ info.pos = info.crc[2]

Fits ==
  /\ CrcFits(ram.info) /\ CrcFits(nvCode)
  /\ ram.info.crc[1] \in Version => ram.offset = ram.info.offset

(* Nothing is known of a version before it is offered.                          *)
Known == offered \cup {None}
Past  == Known \cup {"bad"}

WasOffered ==
  /\ ram.ver \in Known /\ nvHdr \in Known
  /\ ram.info.crc[1] \in Past /\ nvCode.crc[1] \in Past

(* While the bootloader runs the client has no memory; and no saved state       *)
(* either, if there is an image to install.                                     *)
Cleared ==
  /\ boot # "run" => ram = Idle
  /\ flag \/ boot \in Copying \cup {"clear", "wipe"} => nvHdr = None /\ nvCode = NoInfo

(* The buffer for the header exists only within the header.                     *)
InHeader == ram.upd => ram.info.flg # "element" /\ ram.info.crc = NoCrc /\ ram.offset < HeadBlocks

(* What the end of the header leaves to the first block of the image.           *)
AtData ==
  ram.status = "progress" /\ ram.info.flg = "element" /\ ram.info.crc = NoCrc /\ ram.offset = HeadBlocks =>
    ram.info.pos = 0 /\ ram.info.len = Blocks[ram.ver] /\ nvHdr = ram.ver

EndTimer == ram.timer = "end" => ram.status # "progress"

(* What a checksum covers is in flash.                                          *)
Covers(crc) == \A i \in Sector : i < crc[2] => new[i] = <<crc[1], i>>

(* A download of what is offered that is under way, or can be taken up again.   *)
Continued ==
  /\ boot = "run" /\ ram.ver = published /\ ram.info.crc[1] = published
  /\ ram.status = "progress" \/ ram.offset > Threshold

InMemory == Continued => nvHdr = published /\ Covers(ram.info.crc)

(* The same of what would be found after a reset, and until then memory is      *)
(* ahead of it, so that its sectors are not erased.                             *)
Saves == nvCode.crc[1] = published /\ nvCode.offset > Threshold

Ahead ==
  boot = "run" => ram.ver = published /\ ram.info.crc[1] = published /\ ram.info.crc[2] >= nvCode.crc[2]

InFlash == Saves => nvHdr = published /\ Covers(nvCode.crc) /\ Ahead

ResumeInv ==
  /\ Fits /\ WasOffered /\ Cleared /\ InHeader /\ AtData /\ EndTimer
  /\ InMemory /\ InFlash /\ CompleteIsWhole

RInv == Inv /\ ResumeInv

-----------------------------------------------------------------------------
(* Types and values. *)

LEMMA InfoTypes ==
  ASSUME NEW i \in Info
  PROVE  /\ i.flg \in Flags /\ i.offset \in Nat /\ i.pos \in Nat /\ i.len \in Nat
         /\ i.crc[2] \in Nat /\ i.crc[1] \in Version \cup {None, "bad"}
         /\ i.crc = NoCrc <=> i.crc[1] = None
         /\ i.crc[1] \in Version => i.crc = <<i.crc[1], i.crc[2]>> /\ i.crc[2] >= 1 /\ i.crc[2] <= MaxBlocks
<1>1. i.crc \in Crc /\ i.flg \in Flags /\ i.offset \in Offset /\ i.pos \in Offset /\ i.len \in Offset
  BY DEF Info
<1>2. i.offset \in Nat /\ i.pos \in Nat /\ i.len \in Nat
  BY <1>1, Sizes DEF Offset
<1>3. CASE i.crc \in {NoCrc, BadCrc}
  BY <1>1, <1>2, <1>3, Sizes, UpgradeAssumption DEF NoCrc, BadCrc, None
<1>4. CASE i.crc \in Version \X (1 .. MaxBlocks)
  <2>1. PICK v \in Version, k \in 1 .. MaxBlocks : i.crc = <<v, k>>
    BY <1>4
  <2> QED BY <1>1, <1>2, <2>1, Sizes DEF NoCrc
<1> QED BY <1>1, <1>3, <1>4 DEF Crc

LEMMA RamTypes ==
  ASSUME Inv
  PROVE  /\ ram \in Ram /\ ram.info \in Info /\ nvCode \in Info /\ ram.offset \in Nat
         /\ published \in Version /\ published \in offered /\ None \notin Version /\ "bad" \notin Version
<1>1. ram \in Ram /\ nvCode \in Info
  BY DEF Inv, TypeInv, TypeOK
<1>2. ram.offset \in Offset \cup {NoOffset} /\ ram.info \in Info
  BY <1>1 DEF Ram
<1>3. published \in Version /\ published \in offered
  BY PublishedType DEF Inv, TypeInv, TypeOK, published, offered
<1> QED BY <1>1, <1>2, <1>3, UpgradeAssumption, Sizes DEF Offset, NoOffset, None

LEMMA Empty ==
  /\ Idle.status = "normal" /\ Idle.timer = "off" /\ Idle.offset = NoOffset /\ Idle.ver = None
  /\ Idle.info = NoInfo /\ Idle.upd = FALSE
  /\ NoInfo.crc = NoCrc /\ NoCrc[1] = None /\ NoInfo.flg = "init" /\ NoInfo.offset = 0
  /\ None \notin Version
BY Sizes DEF Idle, NoInfo, NoCrc

LEMMA ResumeInitially == Init => ResumeInv
<1> SUFFICES ASSUME Init PROVE ResumeInv
  OBVIOUS
<1>1. ram = Idle /\ nvHdr = None /\ nvCode = NoInfo /\ boot = "check" /\ ~flag
  BY DEF Init
<1>2. published \in Version
  BY Initially, PublishedType DEF Inv, TypeInv
<1>3. Fits /\ WasOffered /\ Cleared /\ InHeader /\ AtData /\ EndTimer
  BY <1>1, Empty DEF Fits, CrcFits, WasOffered, Known, Past, Cleared, Copying, InHeader, AtData, EndTimer
<1>4. InMemory /\ InFlash /\ CompleteIsWhole
  BY <1>1, <1>2, Empty DEF InMemory, Continued, InFlash, Saves, CompleteIsWhole
<1> QED BY <1>3, <1>4 DEF ResumeInv

-----------------------------------------------------------------------------
(* Steps of the client that neither read nor write what is in flash.            *)

LEMMA SameImage ==
  ASSUME UNCHANGED <<new, release>>
  PROVE  /\ published' = published /\ offered' = offered /\ Valid(new)' = Valid(new)
         /\ Known' = Known /\ Past' = Past
BY DEF published, offered, Known, Past, Valid, Titles, Titled, Holds

LEMMA Waits ==
  ASSUME RInv, UNCHANGED <<new, flag, boot, nvHdr, nvCode, release>>, boot = "run",
         UNCHANGED <<ram.ver, ram.info, ram.offset>>, ram'.upd => ram.upd,
         ram'.status = "progress" => ram.status = "progress" \/ ram.offset > Threshold,
         ram'.status \in Ended => ram.status \in Ended,
         ram'.timer = "end" => ram'.status # "progress"
  PROVE  ResumeInv'
<1> USE DEF RInv, ResumeInv
<1>1. published' = published /\ Known' = Known /\ Past' = Past /\ Valid(new)' = Valid(new)
  BY SameImage
<1>2. Fits' /\ WasOffered' /\ Cleared' /\ InHeader' /\ EndTimer'
  BY <1>1 DEF Fits, CrcFits, WasOffered, Cleared, InHeader, EndTimer
<1>3. AtData'
  <2>1. ram.offset > Threshold => ram.offset # HeadBlocks
    BY RamTypes, Sizes
  <2> QED BY <2>1 DEF AtData
<1>4. Continued' => Continued
  BY <1>1 DEF Continued
<1>5. InMemory'
  BY <1>1, <1>4 DEF InMemory, Covers
<1>6. InFlash'
  BY <1>1 DEF InFlash, Saves, Ahead, Covers
<1>7. CompleteIsWhole'
  BY <1>1 DEF CompleteIsWhole, Ended
<1> QED BY <1>2, <1>3, <1>5, <1>6, <1>7

LEMMA TimersKeepResume ==
  ASSUME RInv, WrongBlockRsp \/ WaitRsp \/ AbortRsp \/ UpgradeEndAborted \/ BlockTimeout \/ WaitOver
  PROVE  ResumeInv'
<1>1. UNCHANGED <<new, flag, boot, nvHdr, nvCode, release>> /\ boot = "run"
  BY DEF WrongBlockRsp, WaitRsp, AbortRsp, UpgradeEndAborted, BlockTimeout, WaitOver, Downloading, Abort, flash, loader
<1>2. ram \in Ram /\ (ram.timer = "end" => ram.status # "progress")
  BY RamTypes DEF RInv, ResumeInv, EndTimer
<1>3. CASE Abort("off") \/ Abort(ram.timer)
  BY <1>1, <1>2, <1>3, Waits DEF Abort, Ram, Ended
<1>4. CASE WrongBlockRsp
  <2>1. ram' = [ram EXCEPT !.status = "normal"] /\ ram.timer # "end"
    BY <1>2, <1>4 DEF WrongBlockRsp, Downloading, Ended
  <2> QED BY <1>1, <1>2, <2>1, Waits DEF Ram, Ended
<1>5. CASE WaitRsp
  BY <1>1, <1>2, <1>5, Waits DEF WaitRsp, Downloading, Ram, Ended
<1>6. CASE BlockTimeout /\ ~Abort("off")
  BY <1>1, <1>2, <1>6, Waits DEF BlockTimeout, Ram, Ended
<1>7. CASE WaitOver
  BY <1>1, <1>2, <1>7, Waits DEF WaitOver, Ram, Ended
<1> QED BY <1>3, <1>4, <1>5, <1>6, <1>7 DEF AbortRsp, UpgradeEndAborted

(* The image is given up.                                                       *)
LEMMA InvalidKeepsResume ==
  ASSUME RInv, Invalid, UNCHANGED <<flag, boot, release>>, boot = "run"
  PROVE  ResumeInv'
<1> USE DEF RInv, ResumeInv
<1>1. /\ nvHdr' = None /\ nvCode' = NoInfo /\ ram'.status = "normal" /\ ram'.timer = "query" /\ ~ram'.upd
      /\ ram'.info = NoInfo /\ ram'.offset = NoOffset /\ ram'.ver = None
  BY RamTypes DEF Invalid, Ram
<1>2. published' \in Version
  BY RamTypes DEF published
<1>3. Fits' /\ WasOffered' /\ Cleared' /\ InHeader' /\ AtData' /\ EndTimer'
  BY <1>1, Empty DEF Fits, CrcFits, WasOffered, Known, Past, Cleared, InHeader, AtData, EndTimer
<1>4. InMemory' /\ InFlash' /\ CompleteIsWhole'
  BY <1>1, <1>2, Empty DEF InMemory, Continued, InFlash, Saves, CompleteIsWhole
<1> QED BY <1>3, <1>4

(* Success forgets everything that was saved; it may leave an image that is not *)
(* whole behind if it is not one of the version that is offered.                *)
LEMMA SuccessKeepsResume ==
  ASSUME RInv, Success, UNCHANGED release, boot = "run",
         Valid(new) \/ ~(ram.ver = published /\ ram.info.crc[1] = published /\ ram.offset > Threshold)
  PROVE  ResumeInv'
<1> USE DEF RInv, ResumeInv
<1>1. nvHdr' = None /\ nvCode' = NoInfo /\ new' = new
  BY DEF Success
<1>2. published' = published /\ published \in Version /\ Known' = Known /\ Past' = Past
  BY <1>1, RamTypes, SameImage
<1>3. CASE Valid(new)
  <2>1. boot' = "check" /\ ram' = Idle
    BY <1>3 DEF Success
  <2>2. Fits' /\ WasOffered' /\ Cleared' /\ InHeader' /\ AtData' /\ EndTimer'
    BY <1>1, <2>1, Empty DEF Fits, CrcFits, WasOffered, Known, Past, Cleared, InHeader, AtData, EndTimer
  <2> QED BY <1>1, <1>2, <2>1, <2>2, Empty DEF InMemory, Continued, InFlash, Saves, CompleteIsWhole
<1>4. CASE ~Valid(new)
  <2>1. /\ UNCHANGED <<flag, boot>>
        /\ ram' = [ram EXCEPT !.status = "normal", !.timer = "off", !.upd = FALSE]
    BY <1>4 DEF Success
  <2>2. /\ ram'.status = "normal" /\ ram'.timer = "off" /\ ~ram'.upd
        /\ ram'.info = ram.info /\ ram'.offset = ram.offset /\ ram'.ver = ram.ver
    BY <2>1, RamTypes DEF Ram
  <2>3. Fits' /\ WasOffered' /\ Cleared' /\ InHeader' /\ AtData' /\ EndTimer'
    BY <1>1, <1>2, <2>1, <2>2, Empty
       DEF Fits, CrcFits, WasOffered, Known, Past, Cleared, InHeader, AtData, EndTimer
  <2> QED BY <1>1, <1>2, <1>4, <2>2, <2>3, Empty DEF InMemory, Continued, InFlash, Saves, CompleteIsWhole
<1> QED BY <1>3, <1>4

LEMMA EndKeepsResume ==
  ASSUME RInv, UpgradeTimer \/ UpgradeEndRsp
  PROVE  ResumeInv'
<1>1. ram \in Ram /\ boot = "run" /\ UNCHANGED release
  BY RamTypes DEF RInv, UpgradeTimer, UpgradeEndRsp, Success
<1>2. CASE ram.status \in Ended /\ Success
  <2>1. Valid(new)
    BY <1>2 DEF RInv, ResumeInv, CompleteIsWhole, Ended
  <2> QED BY <1>1, <1>2, <2>1, SuccessKeepsResume
<1>3. CASE ~(ram.status \in Ended /\ Success)
  <2>1. UNCHANGED <<new, flag, boot, nvHdr, nvCode>>
    BY <1>3 DEF UpgradeTimer, UpgradeEndRsp, Ended, flash, loader
  <2>2. CASE UpgradeTimer
    BY <1>1, <1>3, <2>1, <2>2, Waits DEF UpgradeTimer, Ram, Ended, RInv, ResumeInv, EndTimer
  <2>3. CASE UpgradeEndRsp
    BY <1>1, <1>3, <2>1, <2>3, Waits DEF UpgradeEndRsp, Ram, Ended
  <2> QED BY <2>2, <2>3
<1> QED BY <1>2, <1>3

-----------------------------------------------------------------------------
(* The server answers a query. *)

(* Sectors that are covered to the last block of a version are a whole image.   *)
LEMMA CoveredIsWhole ==
  ASSUME NEW area, NEW v \in Version, \A i \in Sector : i < Blocks[v] => area[i] = <<v, i>>
  PROVE  Valid(area) /\ area[0] # Blank /\ Blocks[v] - 1 \in Sector /\ area[Blocks[v] - 1] = <<v, Blocks[v] - 1>>
<1>1. 0 < Blocks[v] /\ Blocks[v] - 1 \in Sector
  BY Sizes DEF Sector
<1>2. area[0] = <<v, 0>> /\ area[Blocks[v] - 1] = <<v, Blocks[v] - 1>>
  BY <1>1, Sizes
<1> QED BY <1>1, <1>2, Sizes DEF Valid, Titles, Titled, Holds, Blank

LEMMA WholeIsChecked ==
  ASSUME RInv, boot = "run", Resumable, WholeFile, ram.info.crc[1] = published
  PROVE  Checked /\ Valid(new)
<1>1. /\ published \in Version /\ Blocks[published] \in Nat /\ HeadBlocks \in Nat
      /\ ram.info.crc[2] \in Nat /\ ram.info.crc = <<published, ram.info.crc[2]>>
  BY RamTypes, InfoTypes, Sizes DEF RInv
<1>2. ram.info.crc[2] = Blocks[published] /\ ram.info.pos = Blocks[published] /\ ram.info.len = Blocks[published]
  BY <1>1 DEF RInv, ResumeInv, Fits, CrcFits, WholeFile, FileLen
<1>3. \A i \in Sector : i < Blocks[published] => new[i] = <<published, i>>
  BY <1>1, <1>2 DEF RInv, ResumeInv, InMemory, Continued, Resumable, Covers
<1>4. Valid(new) /\ new[0] # Blank /\ Blocks[published] - 1 \in Sector
      /\ new[Blocks[published] - 1] = <<published, Blocks[published] - 1>>
  BY <1>1, <1>3, CoveredIsWhole
<1> QED BY <1>1, <1>2, <1>4 DEF Checked, CrcMatches

(* The sectors are not erased as long as a reset would find progress in them.   *)
LEMMA NothingToErase ==
  ASSUME RInv, boot = "run", Resumable => WholeFile /\ ~Checked
  PROVE  ~Saves
<1> SUFFICES ASSUME Saves PROVE FALSE
  OBVIOUS
<1>1. ram.ver = published /\ ram.info.crc[1] = published /\ ram.info.crc[2] >= nvCode.crc[2]
  BY DEF RInv, ResumeInv, InFlash, Ahead
<1>2. ram.offset = HeadBlocks + ram.info.crc[2] /\ nvCode.offset = HeadBlocks + nvCode.crc[2]
  BY <1>1, RamTypes DEF RInv, ResumeInv, Fits, CrcFits, Saves
<1>3. ram.info.crc[2] \in Nat /\ nvCode.crc[2] \in Nat
  BY RamTypes, InfoTypes DEF RInv
<1>4. Resumable
  BY <1>1, <1>2, <1>3, Sizes DEF Resumable, Saves
<1> QED BY <1>1, <1>4, WholeIsChecked

LEMMA RestartKeepsResume ==
  ASSUME RInv, boot = "run", Restart, UNCHANGED release
  PROVE  ResumeInv'
<1> USE DEF RInv, ResumeInv
<1>1. UNCHANGED <<flag, boot, nvHdr, nvCode>> /\ ~Saves
  BY NothingToErase DEF Restart, loader
<1>2. /\ ram'.status = "progress" /\ ram'.timer = "block" /\ ram'.offset = 0 /\ ram'.ver = published
      /\ ram'.info.crc = NoCrc /\ ram'.info.flg = "magic"
  BY RamTypes DEF Restart, Ram, Info
<1>3. published' = published /\ Known' = Known /\ Past' = Past /\ published \in Known /\ published \in Version
  BY RamTypes DEF published, Known, Past, offered
<1>4. Fits' /\ WasOffered' /\ Cleared' /\ InHeader' /\ AtData' /\ EndTimer'
  BY <1>1, <1>2, <1>3, Empty, Sizes
     DEF Fits, CrcFits, WasOffered, Known, Past, Cleared, InHeader, AtData, EndTimer
<1>5. InMemory' /\ InFlash' /\ CompleteIsWhole'
  BY <1>1, <1>2, <1>3, Empty DEF InMemory, Continued, InFlash, Saves, CompleteIsWhole
<1> QED BY <1>4, <1>5

LEMMA QueryKeepsResume ==
  ASSUME RInv, PeriodicQuery \/ Notified
  PROVE  ResumeInv'
<1>1. QueryNextImageRsp /\ boot = "run" /\ release' = release
  BY DEF PeriodicQuery, Notified, QueryNextImageRsp
<1>2. CASE Resume
  <2>1. UNCHANGED <<new, flag, boot, nvHdr, nvCode>> /\ ram.offset > Threshold
    BY <1>2 DEF Resume, Resumable, flash, loader
  <2>2. ram' = [ram EXCEPT !.status = "progress", !.timer = "block", !.retry = 0, !.stranded = FALSE]
    BY <1>2 DEF Resume
  <2> QED BY <1>1, <2>1, <2>2, RamTypes, Waits DEF RInv, Ram, Ended
<1>3. CASE Finish
  <2>1. Valid(new) \/ ~(ram.ver = published /\ ram.info.crc[1] = published /\ ram.offset > Threshold)
    BY <1>1, <1>3, WholeIsChecked DEF Finish
  <2> QED BY <1>1, <1>3, <2>1, SuccessKeepsResume DEF Finish
<1>4. CASE Restart
  BY <1>1, <1>4, RestartKeepsResume
<1> QED BY <1>1, <1>2, <1>3, <1>4 DEF QueryNextImageRsp

-----------------------------------------------------------------------------
(* Resets, the bootloader and releases. *)

LEMMA PowerKeepsResume ==
  ASSUME RInv, PowerFails
  PROVE  ResumeInv'
<1> USE DEF RInv, ResumeInv
<1>1. UNCHANGED <<flag, nvHdr, nvCode, release>> /\ boot' = "check" /\ ram' = Idle
  BY DEF PowerFails
<1>2. published' = published /\ Known' = Known /\ Past' = Past /\ published \in Version
  BY <1>1, RamTypes DEF published, Known, Past, offered
<1>3. Fits' /\ WasOffered' /\ Cleared' /\ InHeader' /\ AtData' /\ EndTimer'
  BY <1>1, <1>2, Empty
     DEF Fits, CrcFits, WasOffered, Known, Past, Cleared, Copying, InHeader, AtData, EndTimer
<1>4. InMemory' /\ CompleteIsWhole'
  BY <1>1, Empty DEF InMemory, Continued, CompleteIsWhole
<1>5. InFlash'
  <2>1. CASE new' = new
    BY <1>1, <1>2, <2>1 DEF InFlash, Saves, Covers, Ahead
  <2>2. CASE new' # new
    <3>1. ~Saves
      BY <2>2, NothingToErase DEF PowerFails
    <3> QED BY <1>1, <1>2, <3>1 DEF InFlash, Saves
  <2> QED BY <2>1, <2>2
<1> QED BY <1>3, <1>4, <1>5

(* A new version is one of which nothing is known.                              *)
LEMMA ReleaseKeepsResume ==
  ASSUME RInv, Release, OffersDiffer
  PROVE  ResumeInv'
<1> USE DEF RInv, ResumeInv
<1>1. UNCHANGED <<new, flag, nvHdr, nvCode, boot, ram>> /\ release' = release + 1
      /\ release \in 1 .. Len(Releases) /\ release' \in 1 .. Len(Releases)
  BY Sizes DEF Release, flash, loader, Inv, TypeInv, TypeOK
<1>2. published' \in Version /\ published' # "bad" /\ published' # None /\ published' \notin offered
  <2>1. published' = Releases[release + 1]
    BY <1>1 DEF published
  <2> QED BY <1>1, <2>1, Sizes, RamTypes DEF OffersDiffer, offered
<1>3. Known \subseteq Known' /\ Past \subseteq Past'
  <2>1. offered \subseteq offered'
    BY <1>1, Offers DEF Inv, TypeInv
  <2> QED BY <2>1 DEF Known, Past
<1>4. Fits' /\ WasOffered' /\ Cleared' /\ InHeader' /\ AtData' /\ EndTimer'
  BY <1>1, <1>3 DEF Fits, CrcFits, WasOffered, Cleared, InHeader, AtData, EndTimer
<1>5. ~Continued' /\ ~Saves'
  BY <1>1, <1>2 DEF Continued, Saves, WasOffered, Known, Past
<1>6. CompleteIsWhole'
  BY <1>1 DEF CompleteIsWhole, Valid, Titles, Titled, Holds
<1> QED BY <1>4, <1>5, <1>6 DEF InMemory, InFlash

(* What is found after a reset is what was saved.                               *)
LEMMA StartUpKeepsResume ==
  ASSUME RInv, StartUp, boot # "run", ~flag, UNCHANGED <<flag, nvHdr, nvCode, release>>,
         new' = new \/ nvCode = NoInfo
  PROVE  ResumeInv'
<1> USE DEF RInv, ResumeInv
<1>1. boot' = "run" /\ ram' = Recovered
  BY StartsKeepFlash DEF StartUp
<1>2. published' = published /\ Known' = Known /\ Past' = Past /\ published \in Version
  BY RamTypes DEF published, Known, Past, offered
<1>3. /\ ram'.status = "normal" /\ ram'.timer = "query" /\ ~ram'.upd
      /\ \/ nvHdr # None /\ ram'.info = nvCode /\ ram'.offset = nvCode.offset /\ ram'.ver = nvHdr
         \/ (nvHdr = None \/ nvCode = NoInfo) /\ ram'.info = NoInfo /\ ram'.ver = None
  BY <1>1, Empty DEF Recovered, Idle
<1>4. Fits' /\ WasOffered' /\ Cleared' /\ InHeader' /\ AtData' /\ EndTimer'
  BY <1>1, <1>2, <1>3, Empty
     DEF Fits, CrcFits, WasOffered, Known, Past, Cleared, Copying, InHeader, AtData, EndTimer
<1>5. Saves => new' = new /\ nvHdr = published /\ Covers(nvCode.crc) /\ nvHdr # None /\ nvCode # NoInfo
  BY <1>2, Empty, RamTypes DEF InFlash, Saves
<1>6. InFlash'
  BY <1>1, <1>2, <1>3, <1>5, RamTypes, InfoTypes DEF InFlash, Saves, Covers, Ahead
<1>7. InMemory'
  <2>1. Continued' => Saves /\ ram'.info = nvCode
    BY <1>2, <1>3, Empty, RamTypes DEF Continued, Saves
  <2> QED BY <1>2, <1>5, <2>1 DEF InMemory, Covers
<1>8. CompleteIsWhole'
  BY <1>3 DEF CompleteIsWhole
<1> QED BY <1>4, <1>6, <1>7, <1>8

LEMMA BootKeepsResume ==
  ASSUME RInv, Bootloader \/ CopyFails
  PROVE  ResumeInv'
<1> USE DEF RInv, ResumeInv
<1>1. /\ UNCHANGED <<nvHdr, nvCode, release>> /\ boot # "run" /\ ram = Idle
      /\ boot \in Copying \cup {"clear"} => flag
      /\ boot = "wipe" => ~flag
  BY DEF Bootloader, CheckImage, EraseSector, WriteSector, FillSector, ClearFlag, WipeSector, CopyFails, flash,
         Cleared, Inv, FlashInv, Loading
<1>2. CASE boot' # "run"
  <2>1. ram' = Idle
    BY <1>1, <1>2, StartsKeepFlash
       DEF Bootloader, CheckImage, EraseSector, WriteSector, FillSector, ClearFlag, WipeSector, CopyFails, StartUp
  <2>2. (new' = new \/ nvCode = NoInfo)
        /\ (flag' \/ boot' \in Copying \cup {"clear", "wipe"} => flag \/ boot \in Copying \cup {"clear", "wipe"})
    BY <1>1, <1>2, StartsKeepFlash
       DEF Bootloader, CheckImage, EraseSector, WriteSector, FillSector, ClearFlag, WipeSector, CopyFails, StartUp,
           Copying, Cleared, flash
  <2>3. published' = published /\ Known' = Known /\ Past' = Past /\ published \in Version
    BY <1>1, RamTypes DEF published, Known, Past, offered
  <2>4. Fits' /\ WasOffered' /\ InHeader' /\ AtData' /\ EndTimer'
    BY <1>1, <2>1, <2>3, Empty DEF Fits, CrcFits, WasOffered, InHeader, AtData, EndTimer
  <2>5. Cleared'
    BY <1>1, <2>1, <2>2 DEF Cleared
  <2>6. InMemory' /\ CompleteIsWhole'
    BY <1>2, <2>1, Empty DEF InMemory, Continued, CompleteIsWhole
  <2>7. InFlash'
    BY <1>1, <1>2, <2>2, <2>3, Empty DEF InFlash, Saves, Covers, Ahead
  <2> QED BY <2>4, <2>5, <2>6, <2>7
<1>3. CASE boot' = "run"
  <2>1. StartUp /\ ~flag /\ UNCHANGED flag /\ (new' = new \/ boot = "wipe")
    BY <1>1, <1>3 DEF Bootloader, CheckImage, EraseSector, WriteSector, FillSector, ClearFlag, WipeSector, CopyFails,
                      flash
  <2>2. boot = "wipe" => nvCode = NoInfo
    BY DEF Cleared
  <2> QED BY <1>1, <2>1, <2>2, StartUpKeepsResume
<1> QED BY <1>2, <1>3

-----------------------------------------------------------------------------
(* The server answers a request for a block. *)

LEMMA SavedKeeps ==
  ASSUME NEW r \in Ram, Saved(r)
  PROVE  /\ ram'.status = r.status /\ ram'.timer = r.timer /\ ram'.offset = r.offset /\ ram'.ver = r.ver
         /\ ram'.info = r.info /\ ram'.upd = r.upd
         /\ nvCode' \in {nvCode, r.info}
BY DEF Saved, Ram

(* In the header: nothing is saved of the version yet, and its checksum is that *)
(* of nothing.                                                                  *)
LEMMA HeaderKeepsResume ==
  ASSUME RInv, Served, ram.timer = "block", HeaderBlock, UNCHANGED <<flag, boot, release>>
  PROVE  ResumeInv'
<1> USE DEF RInv, ResumeInv
<1>1. boot = "run" /\ ram.status = "progress" /\ ram.ver = published /\ published \in offered /\ published \in Version
  BY RamTypes DEF Served, Downloading
<1>2. CASE ~ram.upd
  BY <1>1, <1>2, InvalidKeepsResume DEF HeaderBlock
<1>3. CASE ram.upd
  <2>1. ram.info.crc = NoCrc /\ ram.info.flg # "element" /\ ~Saves /\ ~flag /\ new' = new
    BY <1>1, <1>3, Empty DEF HeaderBlock, InHeader, InFlash, Ahead, Inv, FlashInv, Loading
  <2>2. /\ ram'.status = "progress" /\ ram'.timer = "block" /\ ram'.ver = published /\ ram'.info.crc = NoCrc
        /\ nvCode' = nvCode \/ nvCode'.crc = NoCrc
        /\ \/ /\ nvHdr' = published /\ ~ram'.upd
              /\ ram'.info.pos = 0 /\ ram'.info.len = Blocks[published]
           \/ /\ nvHdr' = nvHdr /\ ram'.upd /\ ram'.info.flg = "header"
              /\ ram'.offset < HeadBlocks
    <3>1. CASE ram.offset + 1 = HeadBlocks
      <4> DEFINE i == [ram.info EXCEPT !.flg = "element", !.pos = 0, !.len = Blocks[ram.ver]]
                 r == [ram EXCEPT !.offset = ram.offset + 1, !.retry = 0, !.upd = FALSE, !.info = i]
      <4>1. nvHdr' = ram.ver /\ Saved(r)
        BY <1>3, <3>1, RamTypes DEF HeaderBlock, Ram, Info
      <4>2. i \in Info /\ i.crc = NoCrc /\ i.pos = 0 /\ i.len = Blocks[published]
        <5>1. Blocks[ram.ver] \in Offset
          BY <1>1, Sizes DEF Offset
        <5> QED BY <1>1, <2>1, <5>1, Zeros, RamTypes DEF Info, Flags
      <4>3. ram.offset + 1 \in Offset
        BY <3>1, Sizes DEF Offset
      <4>4. r \in Ram /\ r.status = "progress" /\ r.timer = "block" /\ r.ver = published /\ r.info = i /\ ~r.upd
        BY <1>1, <4>2, <4>3, Zeros, RamTypes DEF Ram
      <4> HIDE DEF r
      <4> QED BY <1>1, <4>1, <4>2, <4>4, SavedKeeps
    <3>2. CASE ram.offset + 1 # HeadBlocks
      <4> DEFINE i == [ram.info EXCEPT !.flg = "header"]
                 r == [ram EXCEPT !.offset = ram.offset + 1, !.retry = 0, !.info = i]
      <4>1. nvHdr' = nvHdr /\ Saved(r)
        BY <1>3, <3>2, RamTypes DEF HeaderBlock, Ram, Info
      <4>2. i \in Info /\ i.crc = NoCrc /\ i.flg = "header"
        BY <2>1, RamTypes DEF Info, Flags
      <4>3. ram.offset + 1 \in Offset /\ ram.offset + 1 < HeadBlocks
        BY <1>3, <3>2, RamTypes, Sizes DEF InHeader, Offset
      <4>4. r \in Ram /\ r.status = "progress" /\ r.timer = "block" /\ r.ver = published /\ r.info = i /\ r.upd
            /\ r.offset = ram.offset + 1
        BY <1>1, <1>3, <4>2, <4>3, Zeros, RamTypes DEF Ram
      <4> HIDE DEF r
      <4> QED BY <1>1, <4>1, <4>2, <4>3, <4>4, SavedKeeps
    <3> QED BY <3>1, <3>2
  <2>3. published' = published /\ Known' = Known /\ Past' = Past
    BY <2>1, SameImage
  <2>4. Fits' /\ WasOffered' /\ Cleared' /\ InHeader' /\ AtData' /\ EndTimer'
    BY <1>1, <2>1, <2>2, <2>3, Empty
       DEF Fits, CrcFits, WasOffered, Known, Past, Cleared, Copying, InHeader, AtData, EndTimer
  <2>5. InMemory' /\ InFlash' /\ CompleteIsWhole'
    BY <1>1, <2>1, <2>2, <2>3, Empty DEF InMemory, Continued, InFlash, Saves, CompleteIsWhole
  <2> QED BY <2>4, <2>5
<1> QED BY <1>2, <1>3

(* In the image: if the checksum has no gap the block goes where it belongs.    *)
LEMMA DataKeepsResume ==
  ASSUME RInv, Served, ram.timer = "block", DataBlock, UNCHANGED <<flag, boot, release>>
  PROVE  ResumeInv'
<1> USE DEF RInv, ResumeInv
<1> DEFINE k    == ram.offset - HeadBlocks
           b    == <<ram.ver, k>>
           pos  == ram.info.pos
           fits == pos < ram.info.len /\ new[pos] \in {Blank, b}
           crc  == Extended(ram.info.crc, b)
           ends == ram.offset + 1 = FileLen(ram.ver)
           last == pos + 1 = ram.info.len
           i    == [ram.info EXCEPT !.offset = ram.offset + 1, !.pos = pos + 1, !.crc = crc]
           r    == [ram EXCEPT !.offset = ram.offset + 1, !.retry = 0,
                               !.endRetry = IF ends THEN 0 ELSE ram.endRetry,
                               !.status = IF ends THEN "complete" ELSE "progress",
                               !.timer = IF ends THEN "end" ELSE "block", !.info = i]
<1>1. /\ boot = "run" /\ ~flag /\ ram.status = "progress" /\ ram.ver = published /\ ram.info.flg = "element"
      /\ published \in offered /\ published \in Version /\ published # "bad" /\ published # None
  BY RamTypes DEF Served, Downloading, DataBlock, Inv, FlashInv, Loading
<1>2. CASE Invalid
  BY <1>1, <1>2, InvalidKeepsResume
<1>3. CASE ~Invalid
  <2>1. nvHdr' = nvHdr /\ fits /\ Saved(r) /\ (ends => last /\ CrcMatches(new', ram.info.len, crc))
    BY <1>3, RamTypes DEF DataBlock, Ram, Info
  <2>2. new' = [new EXCEPT ![pos] = b]
    BY <2>1 DEF DataBlock
  <2>3. k \in Sector /\ ram.offset = HeadBlocks + k /\ k \in Nat /\ b[1] = published /\ b[2] = k
    BY <1>1, RamTypes, Sizes DEF Inv, TypeInv, PastHeader, Served, FileLen, Sector
  <2>4. /\ crc[1] = published => /\ crc = <<published, k + 1>>
                                 /\ ram.info.crc = <<published, k>> \/ (k = 0 /\ ram.info.crc = NoCrc)
        /\ crc[1] # published => crc[1] = "bad" /\ ram.info.crc # <<published, k>>
    BY <1>1, <2>3 DEF Extended, BadCrc
  <2> HIDE DEF k, crc
  <2>5. crc[1] = published => /\ pos = k /\ ram.info.len = Blocks[published] /\ nvHdr = published
                              /\ \A j \in Sector : j < k => new[j] = <<published, j>>
    <3>1. CASE ram.info.crc = <<published, k>>
      BY <1>1, <2>3, <3>1, Sizes DEF Fits, CrcFits, InMemory, Continued, Covers
    <3>2. CASE k = 0 /\ ram.info.crc = NoCrc
      BY <1>1, <2>3, <3>2, Sizes DEF AtData, Sector
    <3> QED BY <2>4, <3>1, <3>2
  <2>6. crc[1] = published => \A j \in Sector : j < k + 1 => new'[j] = <<published, j>>
    <3> SUFFICES ASSUME crc[1] = published, NEW j \in Sector, j < k + 1 PROVE new'[j] = <<published, j>>
      OBVIOUS
    <3>1. new' = [new EXCEPT ![k] = <<published, k>>] /\ new \in Area
      BY <1>1, <2>2, <2>5 DEF Inv, TypeInv, TypeOK
    <3>2. j = k \/ j < k
      BY <2>3 DEF Sector
    <3> QED BY <2>3, <2>5, <3>1, <3>2 DEF Area
  <2>7. /\ i.flg = "element" /\ i.crc = crc /\ i.offset = ram.offset + 1 /\ i.pos = pos + 1
        /\ i.len = ram.info.len
    BY <1>1, RamTypes DEF Info
  <2>8. i \in Info /\ r \in Ram
    <3>1. crc \in Crc
      BY <1>1, <2>3, Sizes DEF crc, Extended, Crc, Sector
    <3>2. ram.offset + 1 \in Offset
      BY <1>1, RamTypes, Sizes DEF Served, FileLen, Offset
    <3>3. pos + 1 \in Offset
      <4>1. pos \in Offset /\ ram.info.len \in Offset
        BY RamTypes DEF Info
      <4> QED BY <2>1, <4>1, Sizes DEF Offset
    <3>4. i \in Info
      BY <3>1, <3>2, <3>3, RamTypes DEF Info
    <3> QED BY <3>2, <3>4, Zeros, RamTypes DEF Ram, Statuses, Timers
  <2>9. /\ r.ver = ram.ver /\ r.info = i /\ r.offset = ram.offset + 1 /\ r.upd = ram.upd
        /\ r.status = (IF ends THEN "complete" ELSE "progress")
        /\ r.timer = (IF ends THEN "end" ELSE "block")
    BY RamTypes DEF Ram
  <2> HIDE DEF i, r
  <2>10. /\ ram'.ver = published /\ ram'.info = i /\ ram'.offset = ram.offset + 1 /\ ram'.upd = ram.upd
         /\ ram'.status = (IF ends THEN "complete" ELSE "progress")
         /\ ram'.timer = (IF ends THEN "end" ELSE "block")
         /\ nvCode' \in {nvCode, i}
    BY <1>1, <2>1, <2>8, <2>9, SavedKeeps
  <2> HIDE DEF ends
  <2>11. published' = published /\ Known' = Known /\ Past' = Past
    BY DEF published, Known, Past, offered
  <2>12. CrcFits(i)
    BY <1>1, <2>3, <2>4, <2>5, <2>7, Sizes, RamTypes DEF CrcFits
  <2>13. Fits'
    BY <2>7, <2>10, <2>12 DEF Fits, CrcFits
  <2>14. WasOffered'
    BY <1>1, <2>1, <2>4, <2>7, <2>10, <2>11 DEF WasOffered, Known, Past
  <2>15. Cleared' /\ InHeader' /\ AtData' /\ EndTimer'
    BY <1>1, <2>3, <2>10, Sizes DEF Cleared, Copying, InHeader, AtData, EndTimer, Ended
  <2>16. InMemory'
    BY <2>1, <2>4, <2>5, <2>6, <2>7, <2>10, <2>11 DEF InMemory, Continued, Covers
  <2>17. InFlash'
    <3>1. CASE nvCode' = i
      BY <2>1, <2>3, <2>4, <2>5, <2>6, <2>7, <2>10, <2>11, <3>1 DEF InFlash, Saves, Covers, Ahead
    <3>2. CASE nvCode' = nvCode
      <4> SUFFICES ASSUME Saves' PROVE nvHdr' = published /\ Covers(nvCode.crc)' /\ Ahead'
        BY <2>11 DEF InFlash
      <4>1. Saves
        BY <2>11, <3>2 DEF Saves
      <4>2. nvHdr = published /\ Covers(nvCode.crc) /\ ram.info.crc[1] = published
            /\ ram.info.crc[2] >= nvCode.crc[2]
        BY <1>1, <4>1 DEF InFlash, Ahead
      <4>3. ram.info.crc[2] = k /\ ram.info.crc = <<published, k>> /\ nvCode.crc[2] \in Nat
        BY <1>1, <2>3, <4>2, RamTypes, InfoTypes, Sizes DEF Fits, CrcFits
      <4>4. crc = <<published, k + 1>>
        BY <1>1, <2>4, <4>3
      <4>5. Covers(nvCode.crc)'
        BY <2>3, <2>6, <3>2, <4>1, <4>2, <4>3, <4>4 DEF Covers, Saves, Sector
      <4> QED BY <2>1, <2>3, <2>7, <2>10, <2>11, <3>2, <4>2, <4>3, <4>4, <4>5 DEF Ahead
    <3> QED BY <2>10, <3>1, <3>2
  <2>18. CompleteIsWhole'
    <3>1. CASE ~ends
      BY <2>10, <3>1 DEF CompleteIsWhole
    <3>2. CASE ends
      <4>1. PICK v \in Version : crc = <<v, Blocks[v]>>
        BY <2>1, <3>2 DEF CrcMatches
      <4>2. v = published /\ Blocks[v] = k + 1
        BY <2>4, <4>1, RamTypes
      <4>3. Valid(new')
        BY <2>6, <4>1, <4>2, CoveredIsWhole
      <4> QED BY <4>3 DEF CompleteIsWhole, Valid, Titles, Titled, Holds
    <3> QED BY <3>1, <3>2
  <2> QED BY <2>13, <2>14, <2>15, <2>16, <2>17, <2>18
<1> QED BY <1>2, <1>3

-----------------------------------------------------------------------------
LEMMA StepKeepsResume == OffersDiffer /\ RInv /\ [Next]_vars => ResumeInv'
<1> SUFFICES ASSUME OffersDiffer, RInv, [Next]_vars PROVE ResumeInv'
  OBVIOUS
<1>1. CASE ImageBlockRsp
  BY <1>1, HeaderKeepsResume, DataKeepsResume DEF ImageBlockRsp, loader
<1>2. CASE UNCHANGED vars
  <2>1. UNCHANGED <<new, flag, nvHdr, nvCode, boot, ram, release>>
    BY <1>2 DEF vars, flash, loader
  <2> QED BY <2>1 DEF RInv, ResumeInv, Fits, CrcFits, WasOffered, Known, Past, Cleared, InHeader, AtData, EndTimer,
                      InMemory, Continued, InFlash, Saves, Ahead, Covers, CompleteIsWhole, published, offered,
                      Valid, Titles, Titled, Holds
<1> QED BY <1>1, <1>2, BootKeepsResume, QueryKeepsResume, TimersKeepResume, EndKeepsResume, ReleaseKeepsResume,
           PowerKeepsResume DEF Next

(* A download that is complete is an image that can be installed, whatever was  *)
(* resumed, thrown away or lost in between, if no version is offered twice:     *)
(* ota.c:794-1135, 1368-1505.                                                   *)
THEOREM CompletesWhole ==
  ASSUME OffersDiffer
  PROVE  Spec => []CompleteIsWhole
<1>1. Init => RInv
  BY Initially, ResumeInitially DEF RInv
<1>2. RInv /\ [Next]_vars => RInv'
  BY StepKeepsInv, StepKeepsResume DEF RInv
<1>3. RInv => CompleteIsWhole
  BY DEF RInv, ResumeInv
<1> QED BY <1>1, <1>2, <1>3, PTL DEF Spec
==============================================================================
