---------------------------- MODULE UpgradeProof -----------------------------
(* Proofs about the upgrade over the air, for images of every size, every list  *)
(* of releases and any number of failures: what the bootloader starts is whole, *)
(* and the device changes from one released firmware to another at once.        *)
EXTENDS Upgrade, TLAPS

LEMMA Sizes ==
  /\ Factory \in Version
  /\ MaxBlocks \in Nat /\ MaxBlocks >= 1 /\ 0 \in Sector
  /\ \A v \in Version : Blocks[v] \in Nat /\ 1 <= Blocks[v] /\ Blocks[v] <= MaxBlocks
  /\ HeadBlocks \in Nat /\ HeadBlocks >= 1 /\ Threshold \in Nat /\ HeadBlocks <= Threshold
  /\ SaveEvery \in Nat /\ SaveEvery >= 1 /\ MaxRetries \in Nat /\ MaxEndRetries \in Nat
  /\ MaxLosses \in Nat /\ MaxStrays \in Nat
  /\ Len(Releases) \in Nat /\ Len(Releases) >= 1
  /\ \A i \in 1 .. Len(Releases) : Releases[i] \in Version
  /\ None \notin Version /\ "blank" \notin Version /\ "half" \notin Version
BY UpgradeAssumption DEF Sector

-----------------------------------------------------------------------------
(* Types.  A download whose header is complete is behind the header: a resumed  *)
(* one because of the threshold.                                                *)

PastHeader == ram.status = "progress" /\ ram.info.flg = "element" => ram.offset >= HeadBlocks

TypeInv == TypeOK /\ PastHeader

LEMMA PublishedType == TypeOK => published \in Version
BY Sizes DEF TypeOK, published

LEMMA Zeros == 0 \in 0 .. MaxRetries /\ 0 \in 0 .. MaxEndRetries /\ 0 \in 0 .. SaveEvery - 1 /\ 0 \in Offset
BY Sizes DEF Offset

LEMMA IdleType == Idle \in Ram /\ NoInfo \in Info
<1>1. NoInfo \in Info
  BY Sizes DEF NoInfo, Info, Flags, Offset, Crc
<1>2. Idle \in Ram
  BY <1>1, Sizes DEF Idle, Ram, Statuses, Timers
<1> QED BY <1>1, <1>2

LEMMA RecoveredType == TypeOK => Recovered \in Ram /\ Recovered.status = "normal"
<1> SUFFICES ASSUME TypeOK PROVE Recovered \in Ram /\ Recovered.status = "normal"
  OBVIOUS
<1>1. nvCode.offset \in Offset
  BY DEF TypeOK, Info
<1> QED BY <1>1, IdleType DEF TypeOK, Recovered, Ram, Idle, Statuses, Timers

LEMMA ErasedType ==
  ASSUME TypeOK, NEW n
  PROVE  Erased(n) \in Area
BY DEF TypeOK, Erased, Area

LEMMA Copies ==
  ASSUME TypeOK, NEW i \in Sector, NEW b \in Block \cup {Blank, Half}
  PROVE  [running EXCEPT ![i] = b] \in Area /\ [new EXCEPT ![i] = b] \in Area
BY DEF TypeOK, Area

LEMMA StartUpType == TypeOK /\ StartUp => boot' \in {"run", "dead"} /\ ram' \in Ram /\ (boot' = "run" => ram'.status = "normal")
BY RecoveredType DEF StartUp, TypeOK

(* What the handlers of the client do with its variables and its flash.         *)
ClientKeeps ==
  /\ new' \in Area /\ flag' \in BOOLEAN
  /\ nvHdr' \in Version \cup {None} /\ nvCode' \in Info
  /\ boot' \in {boot, "check"}
  /\ ram' \in Ram /\ PastHeader'

LEMMA SavedTypes ==
  ASSUME TypeOK, NEW r \in Ram, Saved(r)
  PROVE  /\ nvCode' \in Info
         /\ ram' \in Ram
         /\ ram'.status = r.status /\ ram'.info = r.info /\ ram'.offset = r.offset
<1>1. r.info \in Info /\ r.cnt \in 0 .. SaveEvery - 1
  BY DEF Ram
<1>2. CASE r.cnt + 1 >= SaveEvery \/ r.status = "complete"
  BY <1>1, <1>2, Zeros DEF Saved, Ram, TypeOK
<1>3. CASE ~(r.cnt + 1 >= SaveEvery \/ r.status = "complete")
  <2>1. r.cnt + 1 \in 0 .. SaveEvery - 1
    BY <1>1, <1>3, Sizes
  <2> QED BY <1>3, <2>1 DEF Saved, Ram, TypeOK
<1> QED BY <1>2, <1>3

LEMMA SuccessTypes ==
  ASSUME TypeInv, Success
  PROVE  ClientKeeps
<1>1. CASE Valid(new)
  <2>1. ram' = Idle /\ Idle.status = "normal"
    BY <1>1 DEF Success, Idle
  <2> QED BY <1>1, <2>1, IdleType DEF ClientKeeps, TypeInv, TypeOK, Success, PastHeader
<1>2. CASE ~Valid(new)
  <2>1. ram' = [ram EXCEPT !.status = "normal", !.timer = "off", !.upd = FALSE]
    BY <1>2 DEF Success
  <2>2. ram' \in Ram /\ ram'.status = "normal"
    BY <2>1 DEF TypeInv, TypeOK, Ram, Statuses, Timers
  <2> QED BY <1>2, <2>2, IdleType DEF ClientKeeps, TypeInv, TypeOK, Success, PastHeader
<1> QED BY <1>1, <1>2

LEMMA InvalidTypes ==
  ASSUME TypeInv, Invalid
  PROVE  nvHdr' = None /\ nvCode' \in Info /\ ram' \in Ram /\ PastHeader'
<1>1. ram' \in Ram /\ ram'.status = "normal"
  BY IdleType DEF TypeInv, TypeOK, Invalid, Ram, Statuses, Timers
<1> QED BY <1>1, IdleType DEF Invalid, PastHeader

LEMMA AbortTypes ==
  ASSUME TypeInv, NEW timer \in Timers, Abort(timer)
  PROVE  nvHdr' = nvHdr /\ nvCode' = nvCode /\ ram' \in Ram /\ PastHeader'
<1>1. ram' \in Ram /\ ram'.status = "normal"
  BY DEF TypeInv, TypeOK, Abort, Ram, Statuses, Timers
<1> QED BY <1>1 DEF Abort, PastHeader

LEMMA QueryTypes ==
  ASSUME TypeInv, QueryNextImageRsp
  PROVE  ClientKeeps
<1>1. CASE Resume
  <2>1. ram' \in Ram /\ ram'.offset = ram.offset
    <3>1. ram' = [ram EXCEPT !.status = "progress", !.timer = "block", !.retry = 0, !.stranded = FALSE]
      BY <1>1 DEF Resume
    <3> QED BY <3>1, Zeros DEF TypeInv, TypeOK, Ram, Statuses, Timers
  <2>2. ram'.offset >= HeadBlocks
    <3>1. ram.offset > Threshold
      BY <1>1 DEF Resume, Resumable
    <3>2. ram.offset \in Nat
      <4>1. ram.offset \in Offset \cup {NoOffset}
        BY DEF TypeInv, TypeOK, Ram
      <4> QED BY <4>1, Sizes DEF Offset, NoOffset
    <3> QED BY <2>1, <3>1, <3>2, Sizes
  <2>3. UNCHANGED <<new, flag, nvHdr, nvCode, boot>>
    BY <1>1 DEF Resume, flash, loader
  <2> QED BY <2>1, <2>2, <2>3 DEF ClientKeeps, TypeInv, TypeOK, PastHeader
<1>2. CASE Finish
  BY <1>2, SuccessTypes DEF Finish
<1>3. CASE Restart
  <2>1. ram' \in Ram /\ ram'.info.flg = "magic"
    <3>1. [ram.info EXCEPT !.crc = NoCrc, !.flg = "magic"] \in Info
      BY DEF TypeInv, TypeOK, Ram, Info, Flags, Crc
    <3>2. ram' = [ram EXCEPT !.status = "progress", !.timer = "block", !.retry = 0, !.offset = 0, !.ver = published,
                             !.upd = TRUE, !.info = [ram.info EXCEPT !.crc = NoCrc, !.flg = "magic"],
                             !.stranded = FALSE]
      BY <1>3 DEF Restart, TypeInv, TypeOK, Ram, Info
    <3>3. published \in Version
      BY PublishedType DEF TypeInv
    <3> QED BY <3>1, <3>2, <3>3, Zeros DEF TypeInv, TypeOK, Ram, Info, Statuses, Timers
  <2>2. new' \in Area
    BY <1>3, ErasedType DEF Restart, TypeInv
  <2>3. UNCHANGED <<flag, nvHdr, nvCode, boot>>
    BY <1>3 DEF Restart, loader
  <2> QED BY <2>1, <2>2, <2>3 DEF ClientKeeps, TypeInv, TypeOK, PastHeader
<1> QED BY <1>1, <1>2, <1>3 DEF QueryNextImageRsp

LEMMA BlockTypes ==
  ASSUME TypeInv, Served, HeaderBlock \/ DataBlock, UNCHANGED <<flag, boot>>
  PROVE  ClientKeeps
<1>1. /\ published \in Version /\ ram.ver = published /\ ram.offset \in Nat /\ ram.offset < FileLen(published)
      /\ FileLen(published) = HeadBlocks + Blocks[published] /\ FileLen(published) \in Offset
      /\ Blocks[published] \in Offset
  <2>1. ram.offset \in Offset \cup {NoOffset}
    BY DEF TypeInv, TypeOK, Ram
  <2>2. published \in Version /\ ram.ver = published /\ ram.offset < FileLen(published)
    BY PublishedType DEF TypeInv, Served
  <2> QED BY <2>1, <2>2, Sizes DEF FileLen, Offset, NoOffset
<1>2. ram.offset + 1 \in Offset
  BY <1>1, Sizes DEF Offset
<1>3. CASE HeaderBlock
  <2>1. CASE ~ram.upd
    BY <1>3, <2>1, InvalidTypes DEF HeaderBlock, ClientKeeps, TypeInv, TypeOK
  <2>2. CASE ram.upd /\ ram.offset + 1 = HeadBlocks
    <3> DEFINE i == [ram.info EXCEPT !.flg = "element", !.pos = 0, !.len = Blocks[ram.ver]]
               r == [ram EXCEPT !.offset = ram.offset + 1, !.retry = 0, !.upd = FALSE, !.info = i]
    <3>1. nvHdr' = ram.ver /\ Saved(r) /\ new' = new
      BY <1>3, <2>2 DEF HeaderBlock, TypeInv, TypeOK, Ram, Info
    <3>2. i \in Info
      BY <1>1, Zeros DEF TypeInv, TypeOK, Ram, Info, Flags
    <3>3. r \in Ram /\ r.offset = HeadBlocks
      BY <1>2, <2>2, <3>2, Zeros DEF TypeInv, TypeOK, Ram
    <3> HIDE DEF r
    <3>4. nvCode' \in Info /\ ram' \in Ram /\ ram'.offset = HeadBlocks
      BY <3>1, <3>3, SavedTypes DEF TypeInv
    <3> QED BY <1>1, <3>1, <3>4, Sizes DEF ClientKeeps, PastHeader, TypeInv, TypeOK
  <2>3. CASE ram.upd /\ ram.offset + 1 # HeadBlocks
    <3> DEFINE i == [ram.info EXCEPT !.flg = "header"]
               r == [ram EXCEPT !.offset = ram.offset + 1, !.retry = 0, !.info = i]
    <3>1. nvHdr' = nvHdr /\ Saved(r) /\ new' = new
      BY <1>3, <2>3 DEF HeaderBlock, TypeInv, TypeOK, Ram, Info
    <3>2. i \in Info /\ i.flg = "header"
      BY DEF TypeInv, TypeOK, Ram, Info, Flags
    <3>3. r \in Ram /\ r.info.flg = "header"
      BY <1>2, <3>2, Zeros DEF TypeInv, TypeOK, Ram
    <3> HIDE DEF r
    <3>4. nvCode' \in Info /\ ram' \in Ram /\ ram'.info.flg = "header"
      BY <3>1, <3>3, SavedTypes DEF TypeInv
    <3> QED BY <3>1, <3>4 DEF ClientKeeps, PastHeader, TypeInv, TypeOK
  <2> QED BY <2>1, <2>2, <2>3 DEF TypeInv, TypeOK, Ram
<1>4. CASE DataBlock
  <2> DEFINE b    == <<ram.ver, ram.offset - HeadBlocks>>
             pos  == ram.info.pos
             fits == pos < ram.info.len /\ new[pos] \in {Blank, b}
             crc  == Extended(ram.info.crc, b)
             ends == ram.offset + 1 = FileLen(ram.ver)
             i    == [ram.info EXCEPT !.offset = ram.offset + 1, !.pos = pos + 1, !.crc = crc]
             r    == [ram EXCEPT !.offset = ram.offset + 1, !.retry = 0,
                                 !.endRetry = IF ends THEN 0 ELSE ram.endRetry,
                                 !.status = IF ends THEN "complete" ELSE "progress",
                                 !.timer = IF ends THEN "end" ELSE "block", !.info = i]
  <2>1. ram.offset >= HeadBlocks
    BY <1>4 DEF DataBlock, TypeInv, PastHeader, Served, Downloading
  <2>2. b \in Block /\ b[2] = ram.offset - HeadBlocks
    BY <1>1, <2>1, Sizes DEF Block, Sector
  <2>3. new' \in Area
    <3>1. b \in Block \cup {Blank, Half} /\ Half \in Block \cup {Blank, Half}
      BY <2>2
    <3>2. new' = [new EXCEPT ![pos] = b] \/ new' = [new EXCEPT ![pos] = Half] \/ new' = new
      BY <1>4 DEF DataBlock
    <3> QED BY <3>1, <3>2 DEF TypeInv, TypeOK, Area
  <2>4. CASE nvHdr' = nvHdr /\ fits /\ Saved(r)
    <3>1. crc \in Crc
      BY <2>2, Sizes DEF Extended, Crc, Block, Sector
    <3>2. pos \in Offset /\ ram.info.len \in Offset
      BY DEF TypeInv, TypeOK, Ram, Info
    <3>3. pos + 1 \in Offset
      BY <2>4, <3>2, Sizes DEF Offset
    <3>4. i \in Info
      BY <1>2, <3>1, <3>3 DEF TypeInv, TypeOK, Ram, Info
    <3>5. r \in Ram /\ r.offset = ram.offset + 1
      BY <1>2, <3>4, Zeros DEF TypeInv, TypeOK, Ram, Statuses, Timers
    <3> HIDE DEF r
    <3>6. nvCode' \in Info /\ ram' \in Ram /\ ram'.offset = ram.offset + 1
      BY <2>4, <3>5, SavedTypes DEF TypeInv
    <3>7. ram'.offset >= HeadBlocks
      BY <1>1, <2>1, <3>6, Sizes
    <3> QED BY <2>3, <2>4, <3>6, <3>7 DEF ClientKeeps, PastHeader, TypeInv, TypeOK
  <2>5. CASE Invalid
    BY <2>3, <2>5, InvalidTypes DEF ClientKeeps, TypeInv, TypeOK
  <2>6. Invalid \/ (nvHdr' = nvHdr /\ fits /\ Saved(r))
    BY <1>4 DEF DataBlock, TypeInv, TypeOK, Ram, Info
  <2> QED BY <2>4, <2>5, <2>6
<1> QED BY <1>3, <1>4

-----------------------------------------------------------------------------
(* What the flash and the bootloader keep.                                      *)

(* Only what has been offered is in the area of the new image.                  *)
FromServer == \A i \in Sector : new[i] \in {Blank, Half} \/ new[i][1] \in offered

(* There is a whole firmware in one area or the other.                          *)
OneWhole == IF flag THEN Valid(new) ELSE Valid(running)

Copying == {"erase", "write", "fill"}

Loading ==
  /\ boot # "dead"
  /\ boot \in Copying \cup {"clear"} => flag /\ size = Blocks[Titled(new)]
  /\ boot \in {"wipe", "run"} => ~flag
  /\ boot \in Copying \cup {"clear", "wipe"} => at < size

(* What has been copied is what is in the new image.                            *)
Copied ==
  /\ boot \in Copying => \A i \in Sector : i < at => running[i] = new[i]
  /\ boot = "clear" => \A i \in Sector : i < size => running[i] = new[i]

FlashInv == FromServer /\ OneWhole /\ Loading /\ Copied

Inv == TypeInv /\ FlashInv

LEMMA Initially == Init => Inv
<1> SUFFICES ASSUME Init PROVE Inv
  OBVIOUS
<1>1. running \in Area /\ new \in Area
  BY Sizes DEF Init, Area, Sector, Block
<1>2. TypeInv
  <2>1. release \in 1 .. Len(Releases) /\ losses \in 0 .. MaxLosses /\ strays \in 0 .. MaxStrays
        /\ at \in Sector /\ size \in 0 .. MaxBlocks
    BY Sizes DEF Init
  <2>2. ram.status = "normal"
    BY DEF Init, Idle
  <2> QED BY <1>1, <2>1, <2>2, IdleType DEF Init, TypeInv, TypeOK, PastHeader
<1>3. Valid(running)
  <2>1. Titled(running) = Factory
    BY Sizes DEF Init, Titled
  <2> QED BY <2>1, Sizes DEF Init, Valid, Titles, Holds
<1> QED BY <1>2, <1>3 DEF Init, Inv, FlashInv, FromServer, OneWhole, Loading, Copied, Copying

(* A whole image starts with a block, so the bootloader starts it.              *)
LEMMA WholeStarts ==
  ASSUME NEW area, Valid(area)
  PROVE  area[0] = <<Titled(area), 0>> /\ area[0] # Blank /\ area[0] # Half /\ Titled(area) \in Version
<1>1. Titled(area) \in Version
  BY DEF Valid, Titles
<1>2. 0 < Blocks[Titled(area)]
  BY <1>1, Sizes
<1>3. area[0] = <<Titled(area), 0>>
  BY <1>2, Sizes DEF Valid, Holds
<1> QED BY <1>1, <1>3, Sizes DEF Blank, Half

LEMMA SameWhole ==
  ASSUME NEW a, NEW b, Valid(a), \A i \in Sector : i < Blocks[Titled(a)] => b[i] = a[i]
  PROVE  Valid(b) /\ Titled(b) = Titled(a)
<1>1. Titled(a) \in Version /\ 0 < Blocks[Titled(a)]
  BY WholeStarts, Sizes
<1>2. Titled(b) = Titled(a)
  BY <1>1, Sizes DEF Titled
<1> QED BY <1>1, <1>2 DEF Valid, Titles, Holds

LEMMA Offers ==
  ASSUME TypeOK, release' \in {release, release + 1}
  PROVE  offered \subseteq offered' /\ published \in offered
BY Sizes DEF TypeOK, offered, published

(* Nothing the client does while the flag is down can harm what runs.           *)
LEMMA ClientKeepsFlash ==
  ASSUME Inv, boot = "run", ClientKeeps, UNCHANGED <<running, at, size, release, flag, boot>>,
         \A i \in Sector : new'[i] \in {new[i], Blank, Half} \/ new'[i][1] = published
  PROVE  FlashInv'
<1>1. ~flag /\ ~flag' /\ boot' = "run"
  BY DEF Inv, FlashInv, Loading
<1>2. offered' = offered /\ published \in offered
  BY Offers DEF Inv, TypeInv, offered
<1>3. FromServer'
  BY <1>2 DEF Inv, FlashInv, FromServer
<1>4. OneWhole'
  BY <1>1 DEF Inv, FlashInv, OneWhole, Valid, Titles, Titled, Holds
<1> QED BY <1>1, <1>3, <1>4 DEF FlashInv, Loading, Copied, Copying

LEMMA SuccessKeepsFlash ==
  ASSUME Inv, boot = "run", Success, UNCHANGED release
  PROVE  FlashInv'
<1>1. new' = new /\ running' = running /\ offered' = offered
  BY DEF Success, offered
<1>2. FromServer'
  BY <1>1 DEF Inv, FlashInv, FromServer
<1>3. CASE Valid(new)
  <2>1. flag' = TRUE /\ boot' = "check"
    BY <1>3 DEF Success
  <2> QED BY <1>1, <1>2, <1>3, <2>1 DEF FlashInv, OneWhole, Valid, Titles, Titled, Holds, Loading, Copied, Copying
<1>4. CASE ~Valid(new)
  <2>1. flag' = flag /\ boot' = boot
    BY <1>4 DEF Success
  <2> QED BY <1>1, <1>2, <2>1 DEF Inv, FlashInv, OneWhole, Valid, Titles, Titled, Holds, Loading, Copied, Copying
<1> QED BY <1>3, <1>4

LEMMA StartsKeepFlash ==
  ASSUME Inv, ~flag, StartUp
  PROVE  boot' = "run"
BY WholeStarts DEF Inv, FlashInv, OneWhole, StartUp

(* One step of the bootloader per case.                                         *)
LEMMA BootKeepsInv ==
  ASSUME Inv, Bootloader \/ CopyFails
  PROVE  Inv'
<1>1. TypeOK /\ PastHeader /\ FlashInv
  BY DEF Inv, TypeInv
<1>2. release' = release /\ offered' = offered
  BY DEF Bootloader, CheckImage, EraseSector, WriteSector, FillSector, ClearFlag, WipeSector, CopyFails, offered
<1>3. CASE CheckImage
  <2>1. at' \in Sector /\ size' \in 0 .. MaxBlocks /\ 0 <= at'
    BY <1>3, Sizes DEF CheckImage, Titles
  <2>2. UNCHANGED <<running, new, flag, nvHdr, nvCode, release, losses, strays>>
    BY <1>3 DEF CheckImage, flash
  <2>3. CASE flag
    <3>1. Valid(new) /\ Titles(new) /\ Titled(new) \in Version
      BY <1>1, <2>3, WholeStarts DEF FlashInv, OneWhole, Titles
    <3>2. boot' = "erase" /\ at' = 0 /\ size' = Blocks[Titled(new)] /\ ram' = ram
      BY <1>3, <2>3, <3>1 DEF CheckImage
    <3>3. TypeInv'
      BY <1>1, <2>1, <2>2, <3>2 DEF TypeInv, TypeOK, PastHeader
    <3>4. Loading' /\ Copied'
      BY <2>2, <2>3, <3>1, <3>2, Sizes DEF Loading, Copied, Copying, Titled, Sector
    <3> QED BY <1>1, <1>2, <2>2, <3>3, <3>4 DEF Inv, FlashInv, FromServer, OneWhole, Valid, Titles, Titled, Holds
  <2>4. CASE ~flag
    <3>1. StartUp
      BY <1>3, <2>4 DEF CheckImage
    <3>2. boot' = "run" /\ ram' \in Ram /\ ram'.status = "normal"
      BY <1>1, <2>4, <3>1, StartsKeepFlash, StartUpType
    <3>3. TypeInv'
      BY <1>1, <2>1, <2>2, <3>2 DEF TypeInv, TypeOK, PastHeader
    <3>4. Loading' /\ Copied'
      BY <2>2, <2>4, <3>2 DEF Loading, Copied, Copying
    <3> QED BY <1>1, <1>2, <2>2, <3>3, <3>4 DEF Inv, FlashInv, FromServer, OneWhole, Valid, Titles, Titled, Holds
  <2> QED BY <2>3, <2>4
<1>4. CASE EraseSector
  <2>1. running' \in Area /\ \A i \in Sector : i < at => running'[i] = running[i]
    <3>1. running' = [running EXCEPT ![at] = Blank]
      BY <1>4 DEF EraseSector
    <3> QED BY <1>1, <3>1, Copies, Sizes DEF TypeOK, Area, Sector
  <2>2. TypeInv'
    BY <1>1, <1>4, <2>1 DEF EraseSector, TypeInv, TypeOK, PastHeader
  <2> QED BY <1>1, <1>2, <1>4, <2>1, <2>2
         DEF EraseSector, Inv, FlashInv, FromServer, OneWhole, Valid, Titles, Titled, Holds, Loading, Copied, Copying
<1>5. CASE WriteSector
  <2>1. running' \in Area /\ \A i \in Sector : i < at => running'[i] = running[i]
    <3>1. running' = [running EXCEPT ![at] = Half]
      BY <1>5 DEF WriteSector
    <3> QED BY <1>1, <3>1, Copies, Sizes DEF TypeOK, Area, Sector
  <2>2. TypeInv'
    BY <1>1, <1>5, <2>1 DEF WriteSector, TypeInv, TypeOK, PastHeader
  <2> QED BY <1>1, <1>2, <1>5, <2>1, <2>2
         DEF WriteSector, Inv, FlashInv, FromServer, OneWhole, Valid, Titles, Titled, Holds, Loading, Copied, Copying
<1>6. CASE FillSector
  <2>1. at \in Sector /\ at < size /\ flag /\ size = Blocks[Titled(new)] /\ size \in Nat /\ size <= MaxBlocks
    BY <1>1, <1>6, Sizes DEF FillSector, FlashInv, Loading, Copying, TypeOK
  <2>2. running' \in Area /\ \A i \in Sector : i < at + 1 => running'[i] = new[i]
    <3>1. running' = [running EXCEPT ![at] = new[at]]
      BY <1>6 DEF FillSector
    <3>2. new[at] \in Block \cup {Blank, Half}
      BY <1>1, <2>1 DEF TypeOK, Area
    <3>3. \A i \in Sector : i < at => running[i] = new[i]
      BY <1>1, <1>6 DEF FillSector, FlashInv, Copied, Copying
    <3>4. running' \in Area
      BY <1>1, <2>1, <3>1, <3>2, Copies
    <3>5. ASSUME NEW i \in Sector, i < at + 1 PROVE running'[i] = new[i]
      <4>1. i < at \/ i = at
        BY <2>1, <3>5, Sizes DEF Sector
      <4> QED BY <1>1, <3>1, <3>3, <4>1 DEF TypeOK, Area
    <3> QED BY <3>4, <3>5
  <2>3. UNCHANGED <<new, flag, nvHdr, nvCode, size, ram, release, losses, strays>>
    BY <1>6 DEF FillSector
  <2>4. FromServer' /\ OneWhole'
    BY <1>1, <1>2, <2>1, <2>3 DEF FlashInv, FromServer, OneWhole, Valid, Titles, Titled, Holds
  <2>5. CASE LastSector
    <3>1. boot' = "clear" /\ at' = at /\ at + 1 = size
      BY <1>6, <2>5 DEF FillSector, LastSector
    <3>2. TypeInv'
      BY <1>1, <2>2, <2>3, <3>1 DEF TypeInv, TypeOK, PastHeader
    <3> QED BY <2>1, <2>2, <2>3, <2>4, <3>1, <3>2 DEF Inv, FlashInv, Loading, Copied, Copying, Titled
  <2>6. CASE ~LastSector
    <3>1. boot' = "erase" /\ at' = at + 1
      BY <1>6, <2>6 DEF FillSector
    <3>2. at' \in Sector /\ at' < size
      BY <2>1, <2>6, <3>1, Sizes DEF LastSector, Sector
    <3>3. TypeInv'
      BY <1>1, <2>2, <2>3, <3>1, <3>2 DEF TypeInv, TypeOK, PastHeader
    <3> QED BY <2>1, <2>2, <2>3, <2>4, <3>1, <3>2, <3>3 DEF Inv, FlashInv, Loading, Copied, Copying, Titled
  <2> QED BY <2>5, <2>6
<1>7. CASE ClearFlag
  <2>1. at \in Sector /\ at < size /\ flag /\ size = Blocks[Titled(new)] /\ size \in Nat /\ Valid(new)
    BY <1>1, <1>7, Sizes DEF ClearFlag, FlashInv, OneWhole, Loading, Copying, TypeOK
  <2>2. Valid(running)
    <3>1. \A i \in Sector : i < Blocks[Titled(new)] => running[i] = new[i]
      BY <1>1, <1>7, <2>1 DEF ClearFlag, FlashInv, Copied
    <3> QED BY <2>1, <3>1, SameWhole
  <2>3. 0 < size
    BY <2>1, Sizes DEF Sector
  <2>4. TypeInv'
    BY <1>1, <1>7, Sizes DEF ClearFlag, TypeInv, TypeOK, PastHeader
  <2> QED BY <1>1, <1>2, <1>7, <2>2, <2>3, <2>4
         DEF ClearFlag, Inv, FlashInv, FromServer, OneWhole, Valid, Titles, Titled, Holds, Loading, Copied, Copying
<1>8. CASE WipeSector
  <2>1. at \in Sector /\ at < size /\ ~flag /\ size \in Nat /\ size <= MaxBlocks
    BY <1>1, <1>8, Sizes DEF WipeSector, FlashInv, Loading, Copying, TypeOK
  <2>2. new' \in Area /\ \A i \in Sector : new'[i] \in {new[i], Blank}
    <3>1. new' = [new EXCEPT ![at] = Blank]
      BY <1>8 DEF WipeSector
    <3> QED BY <1>1, <2>1, <3>1, Copies DEF TypeOK, Area
  <2>3. UNCHANGED <<running, flag, nvHdr, nvCode, size, release, losses, strays>>
    BY <1>8 DEF WipeSector
  <2>4. FromServer' /\ OneWhole'
    BY <1>1, <1>2, <2>1, <2>2, <2>3 DEF FlashInv, FromServer, OneWhole, Valid, Titles, Titled, Holds
  <2>5. CASE LastSector
    <3>1. StartUp /\ at' = at
      BY <1>8, <2>5 DEF WipeSector
    <3>2. boot' = "run" /\ ram' \in Ram /\ ram'.status = "normal"
      BY <1>1, <2>1, <3>1, StartsKeepFlash, StartUpType
    <3>3. TypeInv'
      BY <1>1, <2>2, <2>3, <3>1, <3>2 DEF TypeInv, TypeOK, PastHeader
    <3> QED BY <2>1, <2>3, <2>4, <3>2, <3>3 DEF Inv, FlashInv, Loading, Copied, Copying
  <2>6. CASE ~LastSector
    <3>1. boot' = "wipe" /\ at' = at + 1 /\ ram' = ram
      BY <1>8, <2>6 DEF WipeSector
    <3>2. at' \in Sector /\ at' < size
      BY <2>1, <2>6, <3>1, Sizes DEF LastSector, Sector
    <3>3. TypeInv'
      BY <1>1, <2>2, <2>3, <3>1, <3>2 DEF TypeInv, TypeOK, PastHeader
    <3> QED BY <2>1, <2>3, <2>4, <3>1, <3>2, <3>3 DEF Inv, FlashInv, Loading, Copied, Copying
  <2> QED BY <2>5, <2>6
<1>9. CASE CopyFails
  <2>1. TypeInv'
    BY <1>1, <1>9, Sizes DEF CopyFails, flash, TypeInv, TypeOK, PastHeader
  <2> QED BY <1>1, <1>2, <1>9, <2>1
         DEF CopyFails, flash, Inv, FlashInv, FromServer, OneWhole, Valid, Titles, Titled, Holds, Loading, Copied, Copying
<1> QED BY <1>3, <1>4, <1>5, <1>6, <1>7, <1>8, <1>9 DEF Bootloader

(* What the client keeps, it keeps together with the rest.                      *)
LEMMA ClientKeepsTypes ==
  ASSUME Inv, ClientKeeps, UNCHANGED <<running, at, size, release>>,
         losses' \in 0 .. MaxLosses, strays' \in 0 .. MaxStrays
  PROVE  TypeInv'
BY DEF Inv, TypeInv, TypeOK, ClientKeeps

LEMMA SameFlash ==
  ASSUME Inv, UNCHANGED <<running, new, flag, boot, at, size>>, release' \in {release, release + 1}
  PROVE  FlashInv'
<1>1. offered \subseteq offered'
  BY Offers DEF Inv, TypeInv
<1> QED BY <1>1 DEF Inv, FlashInv, FromServer, OneWhole, Valid, Titles, Titled, Holds, Loading, Copied, Copying

LEMMA QueryKeepsInv ==
  ASSUME Inv, PeriodicQuery \/ Notified
  PROVE  Inv'
<1>1. QueryNextImageRsp /\ boot = "run" /\ release' = release /\ losses' = losses
  BY DEF PeriodicQuery, Notified, QueryNextImageRsp
<1>2. strays' \in 0 .. MaxStrays
  BY Sizes DEF Inv, TypeInv, TypeOK, PeriodicQuery, Notified
<1>3. ClientKeeps
  BY <1>1, QueryTypes DEF Inv
<1>4. UNCHANGED <<running, at, size>>
  BY <1>1 DEF QueryNextImageRsp, Resume, Finish, Restart, Success, flash, loader
<1>5. TypeInv'
  BY <1>1, <1>2, <1>3, <1>4, ClientKeepsTypes DEF Inv, TypeInv, TypeOK
<1>6. CASE Resume
  BY <1>1, <1>5, <1>6, SameFlash DEF Inv, Resume, flash, loader
<1>7. CASE Finish
  BY <1>1, <1>5, <1>7, SuccessKeepsFlash DEF Inv, Finish
<1>8. CASE Restart
  <2>1. \A i \in Sector : new'[i] \in {new[i], Blank}
    BY <1>8 DEF Restart, Erased
  <2>2. flag' = flag /\ boot' = boot
    BY <1>8 DEF Restart, loader
  <2> QED BY <1>1, <1>3, <1>4, <1>5, <2>1, <2>2, ClientKeepsFlash DEF Inv
<1> QED BY <1>1, <1>6, <1>7, <1>8 DEF QueryNextImageRsp

LEMMA BlockKeepsInv ==
  ASSUME Inv, ImageBlockRsp
  PROVE  Inv'
<1>1. UNCHANGED <<running, flag, boot, at, size, release, losses, strays>> /\ boot = "run" /\ Served
  BY DEF ImageBlockRsp, loader, Served, Downloading
<1>2. ClientKeeps
  BY <1>1, BlockTypes DEF ImageBlockRsp, Inv
<1>3. TypeInv'
  BY <1>1, <1>2, ClientKeepsTypes DEF Inv, TypeInv, TypeOK
<1>4. \A i \in Sector : new'[i] \in {new[i], Half} \/ new'[i][1] = published
  <2>1. CASE HeaderBlock
    BY <2>1 DEF HeaderBlock
  <2>2. CASE DataBlock
    <3>1. ram.ver = published
      BY <1>1 DEF Served
    <3>2. \/ new' = new
          \/ \E b \in {Half, <<ram.ver, ram.offset - HeadBlocks>>} : new' = [new EXCEPT ![ram.info.pos] = b]
      BY <2>2 DEF DataBlock
    <3> QED BY <3>1, <3>2 DEF Inv, TypeInv, TypeOK, Area
  <2> QED BY <2>1, <2>2 DEF ImageBlockRsp
<1> QED BY <1>1, <1>2, <1>3, <1>4, ClientKeepsFlash DEF Inv

LEMMA TimersKeepInv ==
  ASSUME Inv, WrongBlockRsp \/ WaitRsp \/ AbortRsp \/ UpgradeEndAborted \/ BlockTimeout \/ WaitOver
  PROVE  Inv'
<1>1. UNCHANGED <<running, new, flag, boot, at, size, release>> /\ boot = "run"
  BY DEF WrongBlockRsp, WaitRsp, AbortRsp, UpgradeEndAborted, BlockTimeout, WaitOver, Downloading, flash, loader
<1>2. losses' \in 0 .. MaxLosses /\ strays' \in 0 .. MaxStrays
  BY Sizes DEF WrongBlockRsp, WaitRsp, AbortRsp, UpgradeEndAborted, BlockTimeout, WaitOver, Inv, TypeInv, TypeOK
<1>3. ram' \in Ram /\ PastHeader' /\ nvHdr' = nvHdr /\ nvCode' = nvCode
  <2>1. CASE Abort("off") \/ Abort(ram.timer)
    <3>1. "off" \in Timers /\ ram.timer \in Timers
      BY DEF Timers, Inv, TypeInv, TypeOK, Ram
    <3> QED BY <2>1, <3>1, AbortTypes DEF Inv
  <2>2. CASE WrongBlockRsp
    <3>1. ram' = [ram EXCEPT !.status = "normal"] /\ nvHdr' = nvHdr /\ nvCode' = nvCode
      BY <2>2 DEF WrongBlockRsp, flash
    <3> QED BY <3>1 DEF Inv, TypeInv, TypeOK, Ram, Statuses, PastHeader
  <2>3. CASE WaitRsp
    <3>1. ram' = [ram EXCEPT !.timer = "wait", !.retry = 0] /\ nvHdr' = nvHdr /\ nvCode' = nvCode
      BY <2>3 DEF WaitRsp, flash
    <3> QED BY <3>1, Zeros DEF Inv, TypeInv, TypeOK, Ram, Timers, PastHeader
  <2>4. CASE BlockTimeout /\ ~Abort("off")
    <3>1. ram' = [ram EXCEPT !.retry = ram.retry + 1] /\ nvHdr' = nvHdr /\ nvCode' = nvCode
          /\ ~(ram.retry + 1 >= MaxRetries)
      BY <2>4 DEF BlockTimeout
    <3>2. ram.retry + 1 \in 0 .. MaxRetries
      <4>1. ram.retry \in 0 .. MaxRetries
        BY DEF Inv, TypeInv, TypeOK, Ram
      <4> QED BY <3>1, <4>1, Sizes
    <3> QED BY <3>1, <3>2 DEF Inv, TypeInv, TypeOK, Ram, PastHeader
  <2>5. CASE WaitOver
    <3>1. PICK t \in {"block", "off"}, b \in BOOLEAN :
            ram' = [ram EXCEPT !.timer = t, !.stranded = b] /\ nvHdr' = nvHdr /\ nvCode' = nvCode
      BY <2>5 DEF WaitOver, flash
    <3> QED BY <3>1 DEF Inv, TypeInv, TypeOK, Ram, Timers, PastHeader
  <2> QED BY <2>1, <2>2, <2>3, <2>4, <2>5 DEF AbortRsp, UpgradeEndAborted
<1>4. TypeInv'
  BY <1>1, <1>2, <1>3, ClientKeepsTypes DEF Inv, TypeInv, TypeOK, ClientKeeps
<1> QED BY <1>1, <1>4, SameFlash DEF Inv

LEMMA EndKeepsInv ==
  ASSUME Inv, UpgradeTimer \/ UpgradeEndRsp
  PROVE  Inv'
<1>1. UNCHANGED <<running, new, at, size, release, losses, strays>> /\ boot = "run"
  BY DEF UpgradeTimer, UpgradeEndRsp, Success, flash, loader
<1>2. CASE Success
  <2>1. ClientKeeps
    BY <1>2, SuccessTypes DEF Inv
  <2>2. TypeInv'
    BY <1>1, <2>1, ClientKeepsTypes DEF Inv, TypeInv, TypeOK
  <2> QED BY <1>1, <1>2, <2>2, SuccessKeepsFlash DEF Inv
<1>3. CASE ~Success
  <2>1. UNCHANGED <<flag, nvHdr, nvCode, boot>>
    BY <1>3 DEF UpgradeTimer, UpgradeEndRsp, flash, loader
  <2>2. ram' \in Ram /\ PastHeader'
    <3>1. ASSUME UpgradeTimer PROVE ram' \in Ram /\ PastHeader'
      <4>1. CASE ram' = [ram EXCEPT !.endRetry = ram.endRetry + 1] /\ ram.endRetry + 1 < MaxEndRetries
        <5>1. ram.endRetry \in 0 .. MaxEndRetries
          BY DEF Inv, TypeInv, TypeOK, Ram
        <5>2. ram.endRetry + 1 \in 0 .. MaxEndRetries
          BY <4>1, <5>1, Sizes
        <5> QED BY <4>1, <5>2 DEF Inv, TypeInv, TypeOK, Ram, PastHeader
      <4>2. CASE ram' = [ram EXCEPT !.timer = "off", !.stranded = TRUE]
        BY <4>2 DEF Inv, TypeInv, TypeOK, Ram, Timers, PastHeader
      <4> QED BY <1>3, <3>1, <4>1, <4>2 DEF UpgradeTimer
    <3>2. ASSUME UpgradeEndRsp PROVE ram' \in Ram /\ PastHeader'
      <4>1. CASE ram' = [ram EXCEPT !.status = "countdown", !.timer = "end"]
        BY <4>1 DEF Inv, TypeInv, TypeOK, Ram, Statuses, Timers, PastHeader
      <4>2. CASE ram' = [ram EXCEPT !.status = "waiting", !.timer = "end", !.endRetry = 0]
        BY <4>2, Zeros DEF Inv, TypeInv, TypeOK, Ram, Statuses, Timers, PastHeader
      <4> QED BY <1>3, <3>2, <4>1, <4>2 DEF UpgradeEndRsp
    <3> QED BY <3>1, <3>2
  <2>3. TypeInv'
    BY <1>1, <2>1, <2>2, ClientKeepsTypes DEF Inv, TypeInv, TypeOK, ClientKeeps
  <2> QED BY <1>1, <2>1, <2>3, SameFlash DEF Inv
<1> QED BY <1>2, <1>3

LEMMA PowerKeepsInv ==
  ASSUME Inv, PowerFails
  PROVE  Inv'
<1>1. /\ UNCHANGED <<running, flag, nvHdr, nvCode, at, size, release, strays>>
      /\ boot' = "check" /\ ram' = Idle /\ losses' \in 0 .. MaxLosses
      /\ new' # new => boot = "run"
  BY Sizes DEF PowerFails, Inv, TypeInv, TypeOK
<1>2. new' \in Area /\ \A i \in Sector : new'[i] \in {new[i], Blank}
  BY ErasedType DEF PowerFails, Erased, Inv, TypeInv, TypeOK
<1>3. TypeInv'
  <2>1. Idle.status = "normal"
    BY DEF Idle
  <2> QED BY <1>1, <1>2, <2>1, IdleType DEF Inv, TypeInv, TypeOK, PastHeader
<1>4. FromServer'
  BY <1>1, <1>2 DEF Inv, FlashInv, FromServer, offered
<1>5. OneWhole'
  <2>1. CASE boot = "run"
    BY <1>1, <2>1 DEF Inv, FlashInv, OneWhole, Loading, Valid, Titles, Titled, Holds
  <2>2. CASE boot # "run"
    BY <1>1, <2>2 DEF Inv, FlashInv, OneWhole, Valid, Titles, Titled, Holds
  <2> QED BY <2>1, <2>2
<1> QED BY <1>1, <1>3, <1>4, <1>5 DEF Inv, FlashInv, Loading, Copied, Copying

LEMMA StepKeepsInv == Inv /\ [Next]_vars => Inv'
<1> SUFFICES ASSUME Inv, [Next]_vars PROVE Inv'
  OBVIOUS
<1>1. CASE Release
  <2>1. UNCHANGED <<running, new, flag, nvHdr, nvCode, boot, at, size, ram, losses, strays>> /\ release' = release + 1
        /\ release' \in 1 .. Len(Releases)
    BY <1>1, Sizes DEF Release, flash, loader, Inv, TypeInv, TypeOK
  <2>2. TypeInv'
    BY <2>1 DEF Inv, TypeInv, TypeOK, PastHeader
  <2> QED BY <2>1, <2>2, SameFlash DEF Inv
<1>2. CASE UNCHANGED vars
  <2>1. UNCHANGED <<running, new, flag, nvHdr, nvCode, boot, at, size, ram, release, losses, strays>>
    BY <1>2 DEF vars, flash, loader
  <2>2. TypeInv'
    BY <2>1 DEF Inv, TypeInv, TypeOK, PastHeader
  <2> QED BY <2>1, <2>2, SameFlash DEF Inv
<1> QED BY <1>1, <1>2, BootKeepsInv, QueryKeepsInv, BlockKeepsInv, TimersKeepInv, EndKeepsInv, PowerKeepsInv DEF Next

LEMMA AlwaysInv == Spec => []Inv
BY Initially, StepKeepsInv, PTL DEF Spec

(* Every variable stays in its domain.                                          *)
THEOREM TypeCorrect == Spec => []TypeOK
<1>1. Inv => TypeOK
  BY DEF Inv, TypeInv
<1> QED BY AlwaysInv, <1>1, PTL

(* Whatever fails and when, the bootloader finds a firmware to start, and what  *)
(* it starts is complete: bootloader.c:129-211.                                 *)
THEOREM AlwaysStarts == Spec => []StartsWholeFirmware
<1>1. Inv => StartsWholeFirmware
  BY DEF Inv, FlashInv, OneWhole, Loading, StartsWholeFirmware
<1> QED BY AlwaysInv, <1>1, PTL

(* The device changes from one firmware to another at once, and only to one     *)
(* that has been released: ota.c:202-245, bootloader.c:129-211.                 *)
THEOREM RefinesAtomicUpgrade == Spec => UpgradeIsAtomic
<1>1. Init => Firmware!Init
  <2> SUFFICES ASSUME Init PROVE Firmware!Init
    OBVIOUS
  <2>1. Installed = Factory
    BY Sizes DEF Init, Installed, Titled
  <2>2. offered \subseteq Version
    BY Sizes DEF Init, offered
  <2> QED BY <2>1, <2>2 DEF Firmware!Init
<1>2. Inv /\ Inv' /\ [Next]_vars => [Firmware!Next]_(Firmware!vars)
  <2> SUFFICES ASSUME Inv, Inv', [Next]_vars PROVE [Firmware!Next]_(Firmware!vars)
    OBVIOUS
  <2>1. CASE Release
    <3>1. release' = release + 1 /\ Installed' = Installed
      BY <2>1 DEF Release, Installed, Titled, flash
    <3>2. offered \subseteq offered'
      BY <3>1, Offers DEF Inv, TypeInv
    <3>3. offered' \subseteq Version
      BY Sizes DEF Inv, TypeInv, TypeOK, offered
    <3> QED BY <3>1, <3>2, <3>3 DEF Firmware!Next, Firmware!Release
  <2>2. CASE ~Release
    <3>1. release' = release /\ offered' = offered
      BY <2>2 DEF Next, vars, Bootloader, CheckImage, EraseSector, WriteSector, FillSector, ClearFlag, WipeSector,
                  CopyFails, PeriodicQuery, Notified, ImageBlockRsp, WrongBlockRsp, WaitRsp, AbortRsp,
                  UpgradeEndAborted, BlockTimeout,
                  WaitOver, UpgradeTimer, UpgradeEndRsp, PowerFails, offered
    <3>2. CASE ~flag /\ flag'
      <4>1. Valid(new')
        BY <3>2 DEF Inv, FlashInv, OneWhole, Valid, Titles, Titled, Holds
      <4>2. Titled(new') \in offered'
        BY <4>1, WholeStarts, Sizes DEF Inv, FlashInv, FromServer
      <4> QED BY <3>1, <3>2, <4>2 DEF Firmware!Next, Firmware!Install, Installed, Titled
    <3>3. /\ running' # running => boot \in Copying
          /\ new' # new => boot \in {"run", "wipe"}
          /\ flag /\ ~flag' => ClearFlag
      BY <2>2 DEF Next, vars, Bootloader, CheckImage, EraseSector, WriteSector, FillSector, ClearFlag, WipeSector,
                  CopyFails, PeriodicQuery, Notified, QueryNextImageRsp, Resume, Finish, Restart, ImageBlockRsp, Served,
                  WrongBlockRsp, WaitRsp, AbortRsp, UpgradeEndAborted, BlockTimeout, WaitOver, Downloading,
                  UpgradeTimer, UpgradeEndRsp, Success, PowerFails, Copying, flash, loader
    <3>4. CASE ~flag /\ ~flag'
      <4>1. running' = running
        BY <3>3, <3>4 DEF Inv, FlashInv, Loading
      <4> QED BY <3>1, <3>4, <4>1 DEF Firmware!vars, Installed, Titled
    <3>5. CASE flag /\ flag'
      <4>1. new' = new
        BY <3>3, <3>5 DEF Inv, FlashInv, Loading
      <4> QED BY <3>1, <3>5, <4>1 DEF Firmware!vars, Installed, Titled
    <3>6. CASE flag /\ ~flag'
      <4>1. running' = running /\ boot = "clear" /\ Valid(new) /\ size = Blocks[Titled(new)]
        BY <3>3, <3>6 DEF ClearFlag, Inv, FlashInv, OneWhole, Loading
      <4>2. \A i \in Sector : i < size => running[i] = new[i]
        BY <4>1 DEF Inv, FlashInv, Copied
      <4>3. Titled(running) = Titled(new)
        BY <4>1, <4>2, SameWhole
      <4> QED BY <3>1, <3>6, <4>1, <4>3 DEF Firmware!vars, Installed, Titled
    <3> QED BY <3>2, <3>4, <3>5, <3>6
  <2> QED BY <2>1, <2>2
<1> QED BY <1>1, <1>2, AlwaysInv, PTL DEF Spec, UpgradeIsAtomic, Firmware!Spec
==============================================================================
