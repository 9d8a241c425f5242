---------------------------- MODULE ExchangeProof ----------------------------
(* Proofs about the receive ring and the exchanges over it, for every size of   *)
(* the ring and of the DMA buffer, every script of commands and every number of *)
(* polls: the ring is the queue ByteQueue describes, an answer from before is   *)
(* out of the way once the ring has been emptied, whatever byte it carries, and *)
(* an answer that comes alone and in one piece is the one that is judged.       *)
EXTENDS Exchange, SequenceTheorems, WellFoundedInduction, TLAPS

Ring == Byte \cup {Blank}

LEMMA Sizes == Size \in Nat /\ DmaLen \in Nat /\ 0 < DmaLen /\ DmaLen < Size
BY RingAssumption

(* Two sequences of the same length and the same elements are equal.            *)
LEMMA SameSeq ==
  ASSUME NEW s \in Seq(Ring), NEW t \in Seq(Ring), Len(s) = Len(t),
         \A i \in 1 .. Len(s) : s[i] = t[i]
  PROVE  s = t
BY SeqEqual

(* Indices in the ring.                                                         *)
LEMMA WrapInCell ==
  ASSUME NEW i \in 0 .. 2 * Size - 1
  PROVE  Wrap(i) \in Cell
BY Sizes DEF Wrap, Cell

LEMMA UsedType ==
  ASSUME RingTypeOK
  PROVE  /\ Used \in Cell
         /\ Free \in 1 .. Size
         /\ Used = 0 <=> head = tail
BY Sizes DEF RingTypeOK, Used, Free, After, Cell

LEMMA CountType ==
  ASSUME RingTypeOK
  PROVE  Count \in 0 .. Size
BY Sizes, UsedType DEF Count, Cell

(* The queue the ring stands for is a sequence of Count bytes.                  *)
QueueTypes ==
  /\ Used \in Cell
  /\ Used = 0 <=> head = tail
  /\ Count \in 0 .. Size
  /\ Outstanding \in Seq(Ring)
  /\ Len(Outstanding) = Count
  /\ \A i \in 1 .. Count : Outstanding[i] = buff[Wrap(tail + i - 1)]

LEMMA OutstandingType == RingTypeOK => QueueTypes
<1> SUFFICES ASSUME RingTypeOK PROVE QueueTypes
  OBVIOUS
<1>1. Count \in Nat /\ Count <= Size
  BY CountType, Sizes
<1>2. ASSUME NEW i \in 1 .. Count PROVE buff[Wrap(tail + i - 1)] \in Ring
  <2>1. Wrap(tail + i - 1) \in Cell
    BY <1>1, Sizes, WrapInCell DEF RingTypeOK, Cell
  <2> QED BY <2>1 DEF RingTypeOK, Ring
<1>3. Outstanding \in [1 .. Count -> Ring]
  BY <1>2 DEF Outstanding
<1>4. Outstanding \in Seq(Ring) /\ Len(Outstanding) = Count
  BY <1>1, <1>3, IsASeq, LenProperties
<1> QED BY <1>1, <1>4, UsedType, CountType DEF Outstanding, QueueTypes

-----------------------------------------------------------------------------
(* Types. *)

(* The k bytes an interrupt takes off the line.                                 *)
LEMMA ReceivedBytes ==
  ASSUME RingTypeOK, NEW k \in 1 .. DmaLen, k <= Len(line)
  PROVE  /\ SubSeq(line, 1, k) \in Seq(Byte)
         /\ Len(SubSeq(line, 1, k)) = k
         /\ \A i \in 1 .. k : SubSeq(line, 1, k)[i] = line[i] /\ line[i] \in Byte
         /\ SubSeq(line, k + 1, Len(line)) \in Seq(Byte)
<1>1. line \in Seq(Byte) /\ Len(line) \in Nat /\ k \in Nat
  BY Sizes, LenProperties DEF RingTypeOK
<1>2. \A i \in 1 .. Len(line) : line[i] \in Byte
  BY <1>1, ElementOfSeq
<1>3. \A i \in 1 .. k : line[i] \in Byte
  BY <1>1, <1>2
<1>4. \A i \in k + 1 .. Len(line) : line[i] \in Byte
  BY <1>1, <1>2
<1>5. /\ SubSeq(line, 1, k) \in Seq(Byte)
      /\ Len(SubSeq(line, 1, k)) = IF 1 <= k THEN k - 1 + 1 ELSE 0
      /\ \A i \in 1 .. k - 1 + 1 : SubSeq(line, 1, k)[i] = line[1 + i - 1]
  BY <1>1, <1>3, SubSeqProperties
<1>6. SubSeq(line, k + 1, Len(line)) \in Seq(Byte)
  BY <1>1, <1>4, SubSeqProperties
<1> QED BY <1>1, <1>3, <1>5, <1>6

LEMMA PutLenType ==
  ASSUME RingTypeOK, NEW k \in 1 .. DmaLen
  PROVE  /\ PutLen(k) \in 1 .. k
         /\ PutLen(k) <= Free
         /\ PutLen(k) = k \/ (PutLen(k) = Free /\ Free < k)
         /\ Free >= k => PutLen(k) = k
BY Sizes, UsedType DEF PutLen

LEMMA ReceiveKeepsTypes ==
  ASSUME RingTypeOK, NEW k \in 1 .. DmaLen, Receive(k)
  PROVE  RingTypeOK'
<1>1. k <= Len(line)
  BY DEF Receive
<1>2. line' \in Seq(Byte)
  BY <1>1, ReceivedBytes DEF Receive
<1>3. PutLen(k) \in 1 .. k /\ PutLen(k) <= Free /\ Free \in 1 .. Size
  BY PutLenType, UsedType
<1>4. head' \in Cell
  BY <1>3, Sizes, WrapInCell DEF Receive, RingTypeOK, Cell
<1>5. ASSUME NEW j \in Cell PROVE buff'[j] \in Byte \cup {Blank}
  <2>1. CASE After(head, j) < PutLen(k)
    <3>1. After(head, j) + 1 \in 1 .. k
      BY <2>1, <1>3, Sizes DEF After, RingTypeOK, Cell
    <3>2. line[After(head, j) + 1] \in Byte
      BY <1>1, <3>1, ReceivedBytes
    <3> QED BY <2>1, <3>2 DEF Receive, Written
  <2>2. CASE ~(After(head, j) < PutLen(k))
    BY <2>2 DEF Receive, Written, RingTypeOK
  <2> QED BY <2>1, <2>2
<1>6. buff' \in [Cell -> Byte \cup {Blank}]
  BY <1>5 DEF Receive, Written
<1> QED BY <1>2, <1>4, <1>6 DEF Receive, RingTypeOK

(* The main loop's half, together with what it needs to know: the tail stays at *)
(* 0 while the ring is being emptied, and memset stops at its end.              *)
RingInv ==
  /\ RingTypeOK
  /\ op \in {"flush", "clear"} => tail = 0
  /\ op = "clear" => cleared < Size

RingStep ==
  \/ \E k \in 1 .. DmaLen : Receive(k)
  \/ Commit \/ ReadByte \/ FlushTail \/ FlushHead \/ FlushClear

LEMMA RingInitially == RingInit => RingInv
BY Sizes, EmptySeq DEF RingInit, RingInv, RingTypeOK, Cell

LEMMA RingStepKeepsInv ==
  ASSUME RingInv, RingStep
  PROVE  RingInv'
<1>1. ASSUME NEW k \in 1 .. DmaLen, Receive(k) PROVE RingInv'
  BY <1>1, ReceiveKeepsTypes DEF RingInv, Receive
<1>2. CASE Commit
  BY <1>2 DEF Commit, RingInv, RingTypeOK
<1>3. CASE ReadByte
  <2>1. Wrap(tail + 1) \in Cell
    BY Sizes, WrapInCell DEF RingInv, RingTypeOK, Cell
  <2> QED BY <1>3, <2>1 DEF ReadByte, RingInv, RingTypeOK
<1>4. CASE FlushTail
  BY <1>4, Sizes DEF FlushTail, RingInv, RingTypeOK, Cell
<1>5. CASE FlushHead
  BY <1>5, Sizes DEF FlushHead, RingInv, RingTypeOK, Cell
<1>6. CASE FlushClear
  <2>1. cleared \in Cell
    BY <1>6, Sizes DEF FlushClear, RingInv, RingTypeOK, Cell
  <2>2. buff' \in [Cell -> Byte \cup {Blank}]
    BY <1>6, <2>1 DEF FlushClear, RingInv, RingTypeOK
  <2>3. cleared' \in 0 .. Size /\ (cleared' # Size => cleared' < Size)
    BY <1>6, <2>1, Sizes DEF FlushClear, Cell
  <2> QED BY <1>6, <2>2, <2>3 DEF FlushClear, RingInv, RingTypeOK
<1> QED BY <1>1, <1>2, <1>3, <1>4, <1>5, <1>6 DEF RingStep

-----------------------------------------------------------------------------
(* The ring is a queue. *)

(* Where the cell of the i-th outstanding byte lies seen from head.             *)
LEMMA CellBehind ==
  ASSUME RingTypeOK, NEW i \in 1 .. Size
  PROVE  /\ Wrap(tail + i - 1) \in Cell
         /\ After(head, Wrap(tail + i - 1)) = IF i > Used THEN i - 1 - Used ELSE i - 1 - Used + Size
BY Sizes DEF RingTypeOK, Cell, Wrap, After, Used

(* What an interrupt that stores n bytes leaves in the cell of the i-th byte.   *)
LEMMA CellAfter ==
  ASSUME RingTypeOK, NEW k \in 1 .. DmaLen, Receive(k), NEW i \in 1 .. Size
  PROVE  /\ i <= Used => buff'[Wrap(tail + i - 1)] = buff[Wrap(tail + i - 1)]
         /\ i > Used /\ i <= Used + PutLen(k) => buff'[Wrap(tail + i - 1)] = SubSeq(line, 1, k)[i - Used]
<1> DEFINE c == Wrap(tail + i - 1)
<1>1. /\ c \in Cell
      /\ After(head, c) = IF i > Used THEN i - 1 - Used ELSE i - 1 - Used + Size
  BY CellBehind
<1>2. Used \in Cell /\ PutLen(k) \in 1 .. k /\ PutLen(k) <= Size - Used
  BY UsedType, PutLenType DEF Free
<1>3. buff'[c] = IF After(head, c) < PutLen(k) THEN line[After(head, c) + 1] ELSE buff[c]
  BY <1>1 DEF Receive, Written
<1>4. CASE i <= Used
  BY <1>1, <1>2, <1>3, <1>4, Sizes DEF Cell
<1>5. CASE i > Used /\ i <= Used + PutLen(k)
  <2>1. i - Used \in 1 .. k /\ After(head, c) + 1 = i - Used /\ After(head, c) < PutLen(k)
    BY <1>1, <1>2, <1>5, Sizes DEF Cell
  <2>2. SubSeq(line, 1, k)[i - Used] = line[i - Used]
    BY <2>1, ReceivedBytes DEF Receive
  <2>3. buff'[c] = SubSeq(line, 1, k)[i - Used]
    BY <1>3, <2>1, <2>2
  <2>4. ~(i <= Used)
    BY <1>2, <1>5, Sizes DEF Cell
  <2> QED BY <2>3, <2>4
<1> QED BY <1>2, <1>4, <1>5, Sizes DEF Cell

(* How the distance from tail to head grows.                                    *)
LEMMA UsedAfter ==
  ASSUME RingTypeOK, NEW k \in 1 .. DmaLen, Receive(k)
  PROVE  /\ Used + k < Size => Used' = Used + k
         /\ Used + k >= Size => Used' = 0
<1>1. Used \in Cell /\ Free = Size - Used /\ (Free >= k => PutLen(k) = k) /\ (Free < k => PutLen(k) = Free)
  BY UsedType, Sizes DEF Free, PutLen, Cell
<1>2. head' = Wrap(head + PutLen(k)) /\ tail' = tail
  BY DEF Receive
<1>3. Used = After(tail, head) /\ Used' = After(tail', head')
  BY DEF Used
<1>4. CASE Used + k < Size
  <2>1. PutLen(k) = k
    BY <1>1, <1>4, Sizes DEF Cell
  <2> QED BY <1>1, <1>2, <1>3, <1>4, <2>1, Sizes DEF RingTypeOK, Cell, Wrap, After
<1>5. CASE Used + k >= Size
  <2>1. PutLen(k) = Size - Used
    BY <1>1, <1>5, Sizes DEF Cell
  <2> QED BY <1>1, <1>2, <1>3, <1>5, <2>1, Sizes DEF RingTypeOK, Cell, Wrap, After
<1> QED BY <1>1, <1>4, <1>5, Sizes DEF Cell

(* A whole interrupt, seen from the queue.                                      *)
LEMMA ReceiveOutcome ==
  ASSUME RingInv, NEW k \in 1 .. DmaLen, Receive(k)
  PROVE  Queue!Put(k) \/ Queue!Overrun(k) \/ Queue!Miss
<1> DEFINE s == SubSeq(line, 1, k)
<1>1. RingTypeOK /\ RingTypeOK'
  BY ReceiveKeepsTypes DEF RingInv
<1>2. QueueTypes
  BY <1>1, OutstandingType
<1>3. QueueTypes'
  BY <1>1, OutstandingType, PTL
<1>4. s \in Seq(Ring) /\ Len(s) = k /\ k \in Nat
  <2>1. s \in Seq(Byte) /\ Len(s) = k
    BY <1>1, ReceivedBytes DEF Receive
  <2> QED BY <2>1, Sizes DEF Ring
<1>5. /\ Outstanding' \in Seq(Ring) /\ Len(Outstanding') = Count'
      /\ \A i \in 1 .. Count' : Outstanding'[i] = buff'[Wrap(tail + i - 1)]
  BY <1>3 DEF QueueTypes, Receive, Wrap
<1>6. /\ Outstanding \o s \in Seq(Ring)
      /\ Len(Outstanding \o s) = Count + k
      /\ \A i \in 1 .. Count + k : (Outstanding \o s)[i] = IF i <= Count THEN Outstanding[i] ELSE s[i - Count]
  <2>1. Outstanding \in Seq(Ring) /\ Len(Outstanding) = Count
    BY <1>2 DEF QueueTypes
  <2>2. Count \in Nat /\ k \in Nat
    BY <1>2, <1>4, Sizes DEF QueueTypes
  <2>3. /\ Outstanding \o s \in Seq(Ring)
        /\ Len(Outstanding \o s) = Len(Outstanding) + Len(s)
        /\ \A i \in 1 .. Len(Outstanding) + Len(s) :
             (Outstanding \o s)[i] = IF i <= Len(Outstanding) THEN Outstanding[i] ELSE s[i - Len(Outstanding)]
    BY <1>4, <2>1, ConcatProperties, Zenon
  <2> HIDE DEF s
  <2> QED BY <1>4, <2>1, <2>2, <2>3
<1>7. /\ Used + k < Size => Used' = Used + k
      /\ Used + k >= Size => Used' = 0
      /\ Used = 0 <=> head = tail
      /\ Used' = 0 <=> head' = tail'
      /\ op' = op
  <2>1. Used' = 0 <=> head' = tail'
    BY <1>3 DEF QueueTypes
  <2> QED BY <1>1, <2>1, UsedAfter, UsedType DEF Receive
<1>8. k \in Nat /\ 0 < k /\ k < Size /\ Size \in Nat /\ Used \in Nat /\ Used < Size
  BY <1>2, Sizes DEF QueueTypes, Cell
<1>11. CASE op # "flush" /\ ~(op = "read" /\ head = tail)
  <2>1. Count = Used
    BY <1>11 DEF Count, Available
  <2>2. CASE Used + k < Size
    <3>1. Count' = Used + k
      BY <1>7, <1>8, <1>11, <2>2 DEF Count, Available
    <3>2. PutLen(k) = k
      BY <1>8, <2>2 DEF PutLen, Free
    <3>3. ASSUME NEW i \in 1 .. Count' PROVE Outstanding'[i] = (Outstanding \o s)[i]
      <4>1. i \in 1 .. Size /\ i \in 1 .. Count + k
        BY <1>8, <2>1, <2>2, <3>1
      <4>2. Outstanding'[i] = buff'[Wrap(tail + i - 1)]
        BY <1>5
      <4>3. CASE i <= Used
        <5>1. Outstanding[i] = buff[Wrap(tail + i - 1)]
          BY <1>2, <1>8, <2>1, <4>1, <4>3 DEF QueueTypes
        <5>2. buff'[Wrap(tail + i - 1)] = buff[Wrap(tail + i - 1)]
          BY <1>1, CellAfter, <4>1, <4>3
        <5>3. (Outstanding \o s)[i] = Outstanding[i]
          BY <1>6, <2>1, <4>1, <4>3
        <5> QED BY <4>2, <5>1, <5>2, <5>3
      <4>4. CASE i > Used
        <5>1. i <= Used + PutLen(k) /\ ~(i <= Count)
          BY <1>8, <2>1, <3>1, <3>2, <4>4
        <5>2. buff'[Wrap(tail + i - 1)] = s[i - Used]
          BY <1>1, CellAfter, <4>1, <4>4, <5>1
        <5>3. (Outstanding \o s)[i] = s[i - Used]
          BY <1>6, <2>1, <4>1, <5>1
        <5>4. Outstanding'[i] = s[i - Used]
          BY <4>2, <5>2
        <5> QED BY <5>3, <5>4
      <4>5. i <= Used \/ i > Used
        BY <1>8, <4>1
      <4> QED BY <4>3, <4>4, <4>5, Zenon
    <3>4. Outstanding' = Outstanding \o s
      BY <1>5, <1>6, <2>1, <3>1, <3>3, SameSeq
    <3> QED BY <1>2, <2>1, <2>2, <3>4 DEF Queue!Put, QueueTypes
  <2>3. CASE Used + k >= Size
    <3>1. Len(Outstanding) + k >= Size
      BY <1>2, <2>1, <2>3 DEF QueueTypes
    <3>2. CASE op # "read"
      <4>1. Count' = 0
        BY <1>7, <1>11, <2>3, <3>2 DEF Count
      <4>2. Outstanding' = <<>>
        BY <1>5, <4>1, EmptySeq
      <4> QED BY <3>1, <4>2 DEF Queue!Overrun
    <3>3. CASE op = "read"
      <4>1. Count' = Size
        BY <1>7, <2>3, <3>3 DEF Count, Available
      <4>2. PutLen(k) = Size - Used
        BY <1>8, <2>3 DEF PutLen, Free
      <4> DEFINE all == Outstanding \o s
      <4>3. /\ SubSeq(all, 1, Size) \in Seq(Ring)
            /\ Len(SubSeq(all, 1, Size)) = Size
            /\ \A i \in 1 .. Size : SubSeq(all, 1, Size)[i] = all[i]
        <5>1. Len(all) >= Size /\ \A i \in 1 .. Size : all[i] \in Ring
          BY <1>6, <1>8, <2>1, <2>3, ElementOfSeq
        <5> QED BY <1>6, <1>8, <5>1, SubSeqProperties
      <4>4. ASSUME NEW i \in 1 .. Count' PROVE Outstanding'[i] = SubSeq(all, 1, Size)[i]
        <5>1. i \in 1 .. Size /\ i \in 1 .. Count + k
          BY <1>8, <2>1, <2>3, <4>1
        <5>2. Outstanding'[i] = buff'[Wrap(tail + i - 1)]
          BY <1>5
        <5>3. CASE i <= Used
          <6>1. Outstanding[i] = buff[Wrap(tail + i - 1)]
            BY <1>2, <1>8, <2>1, <5>1, <5>3 DEF QueueTypes
          <6>2. buff'[Wrap(tail + i - 1)] = buff[Wrap(tail + i - 1)]
            BY <1>1, CellAfter, <5>1, <5>3
          <6>3. all[i] = Outstanding[i]
            BY <1>6, <2>1, <5>1, <5>3
          <6> QED BY <4>3, <5>1, <5>2, <6>1, <6>2, <6>3
        <5>4. CASE i > Used
          <6>1. i <= Used + PutLen(k) /\ ~(i <= Count)
            BY <1>8, <2>1, <4>1, <4>2, <5>4
          <6>2. buff'[Wrap(tail + i - 1)] = s[i - Used]
            BY <1>1, CellAfter, <5>1, <5>4, <6>1
          <6>3. all[i] = s[i - Used]
            BY <1>6, <2>1, <5>1, <6>1
          <6>4. Outstanding'[i] = s[i - Used]
            BY <5>2, <6>2
          <6>5. SubSeq(all, 1, Size)[i] = all[i]
            BY <4>3, <5>1
          <6> QED BY <6>3, <6>4, <6>5
        <5>5. i <= Used \/ i > Used
          BY <1>8, <5>1
        <5> QED BY <5>3, <5>4, <5>5, Zenon
      <4>5. Outstanding' = SubSeq(all, 1, Size)
        BY <1>5, <4>1, <4>3, <4>4, SameSeq
      <4> QED BY <3>1, <4>5 DEF Queue!Overrun
    <3> QED BY <3>2, <3>3
  <2> QED BY <1>8, <2>2, <2>3
<1>12. CASE op = "read" /\ head = tail
  <2>1. Count = Size /\ Used = 0
    BY <1>7, <1>12 DEF Count, Available
  <2>2. Used' = k /\ PutLen(k) = k
    BY <1>7, <1>8, <2>1 DEF PutLen, Free
  <2>3. Count' = k
    BY <1>7, <1>8, <1>12, <2>2 DEF Count, Available
  <2>4. ASSUME NEW i \in 1 .. Count' PROVE Outstanding'[i] = s[i]
    <3>1. i \in 1 .. Size /\ i > Used /\ i <= Used + PutLen(k) /\ i - Used = i
      BY <1>8, <2>1, <2>2, <2>3
    <3>2. Outstanding'[i] = buff'[Wrap(tail + i - 1)]
      BY <1>5
    <3>3. buff'[Wrap(tail + i - 1)] = s[i - Used]
      BY <1>1, CellAfter, <3>1
    <3> QED BY <3>1, <3>2, <3>3
  <2>5. Outstanding' = s
    BY <1>4, <1>5, <2>3, <2>4, SameSeq
  <2>6. Len(Outstanding) + k >= Size
    BY <1>2, <1>8, <2>1 DEF QueueTypes
  <2> QED BY <2>5, <2>6 DEF Queue!Overrun
<1>13. CASE op = "flush"
  <2>1. Count = 0 /\ Count' = 0
    BY <1>7, <1>13 DEF Count
  <2>2. Outstanding = <<>> /\ Outstanding' = <<>>
    BY <1>2, <1>5, <2>1, EmptySeq DEF QueueTypes
  <2> QED BY <1>13, <2>2 DEF Queue!Miss
<1> QED BY <1>11, <1>12, <1>13

LEMMA ReceiveIsArrive ==
  ASSUME RingInv, NEW k \in 1 .. DmaLen, Receive(k)
  PROVE  Queue!Arrive
BY ReceiveOutcome DEF Queue!Arrive, Receive

(* The main loop's half of the ring, seen from the queue.                       *)
LEMMA ReadIsGet ==
  ASSUME RingInv, ReadByte
  PROVE  Queue!Get
<1>1. RingTypeOK /\ RingTypeOK' /\ QueueTypes
  BY RingStepKeepsInv, OutstandingType DEF RingInv, RingStep
<1>2. QueueTypes'
  BY <1>1, OutstandingType, PTL
<1>3. /\ op = "read" /\ op' = "idle"
      /\ tail' = Wrap(tail + 1) /\ head' = head /\ buff' = buff /\ line' = line
  BY DEF ReadByte
<1>4. Count' = Count - 1 /\ 0 < Count
  <2>1. Count' = Used' /\ Count = IF head = tail THEN Size ELSE Used
    BY <1>3 DEF Count, Available
  <2>2. Used = After(tail, head) /\ Used' = After(tail', head)
    BY <1>3 DEF Used
  <2> QED BY <1>1, <1>3, <2>1, <2>2, Sizes DEF QueueTypes, RingTypeOK, Cell, After, Wrap
<1>5. /\ Outstanding \in Seq(Ring) /\ Len(Outstanding) = Count /\ Count \in Nat /\ Count <= Size
      /\ \A i \in 1 .. Count : Outstanding[i] = buff[Wrap(tail + i - 1)]
  BY <1>1, Sizes DEF QueueTypes
<1>6. /\ Outstanding' \in Seq(Ring) /\ Len(Outstanding') = Count'
      /\ \A i \in 1 .. Count' : Outstanding'[i] = buff[Wrap(tail' + i - 1)]
  BY <1>2, <1>3 DEF QueueTypes, Wrap
<1>7. Outstanding # <<>>
  BY <1>4, <1>5
<1>8. /\ Tail(Outstanding) \in Seq(Ring) /\ Len(Tail(Outstanding)) = Count - 1
      /\ \A i \in 1 .. Count - 1 : Tail(Outstanding)[i] = Outstanding[i + 1]
  BY <1>5, <1>7, HeadTailProperties
<1>9. ASSUME NEW i \in 1 .. Count' PROVE Outstanding'[i] = Tail(Outstanding)[i]
  <2>1. i \in 1 .. Count - 1 /\ i + 1 \in 1 .. Count
    BY <1>4, <1>5
  <2>2. Wrap(tail' + i - 1) = Wrap(tail + (i + 1) - 1)
    BY <1>1, <1>3, <1>5, <2>1, Sizes DEF RingTypeOK, Cell, Wrap
  <2>3. Outstanding'[i] = buff[Wrap(tail' + i - 1)]
    BY <1>6
  <2>4. Outstanding[i + 1] = buff[Wrap(tail + (i + 1) - 1)]
    BY <1>5, <2>1
  <2> QED BY <1>8, <2>1, <2>2, <2>3, <2>4
<1>10. Outstanding' = Tail(Outstanding)
  BY <1>4, <1>6, <1>8, <1>9, SameSeq
<1> QED BY <1>3, <1>7, <1>10 DEF Queue!Get

LEMMA CommitIsHidden ==
  ASSUME RingInv, Commit
  PROVE  UNCHANGED Queue!vars
<1>1. Used' = Used /\ Count' = Count
  BY DEF Commit, Count, Used, Available
<1>2. Outstanding' = Outstanding
  BY <1>1 DEF Commit, Outstanding
<1> QED BY <1>2 DEF Commit, Queue!vars

LEMMA FlushTailIsFlushBegin ==
  ASSUME RingInv, FlushTail
  PROVE  Queue!FlushBegin
<1>1. RingTypeOK'
  BY RingStepKeepsInv DEF RingInv, RingStep
<1>2. QueueTypes'
  BY <1>1, OutstandingType, PTL
<1>3. Count' = 0
  BY DEF FlushTail, Count
<1>4. Outstanding' = <<>>
  BY <1>2, <1>3, EmptySeq DEF QueueTypes
<1> QED BY <1>4 DEF FlushTail, Queue!FlushBegin

LEMMA FlushHeadIsWipe ==
  ASSUME RingInv, FlushHead
  PROVE  Queue!Wipe
<1>1. RingTypeOK /\ RingTypeOK' /\ QueueTypes /\ Count = 0
  BY RingStepKeepsInv, OutstandingType DEF RingInv, RingStep, FlushHead, Count
<1>2. QueueTypes'
  BY <1>1, OutstandingType, PTL
<1>3. Count' = 0
  BY Sizes DEF FlushHead, RingInv, Count, Used, After
<1>4. Outstanding = <<>> /\ Outstanding' = <<>>
  BY <1>1, <1>2, <1>3, EmptySeq DEF QueueTypes
<1> QED BY <1>4 DEF FlushHead, Queue!Wipe

LEMMA FlushClearIsWipe ==
  ASSUME RingInv, FlushClear
  PROVE  Queue!Wipe
<1>1. RingTypeOK /\ RingTypeOK' /\ QueueTypes
  BY RingStepKeepsInv, OutstandingType DEF RingInv, RingStep
<1>2. QueueTypes'
  BY <1>1, OutstandingType, PTL
<1>3. /\ op = "clear" /\ op' \in {"clear", "idle"} /\ tail = 0 /\ tail' = 0 /\ cleared < Size
      /\ line' = line /\ head' = head /\ buff' = [buff EXCEPT ![cleared] = Blank]
  BY DEF FlushClear, RingInv
<1>4. Count' = Count
  BY <1>3 DEF Count, Used, Available
<1>5. /\ Outstanding \in Seq(Ring) /\ Len(Outstanding) = Count /\ Count \in Nat /\ Count <= Size
      /\ \A i \in 1 .. Count : Outstanding[i] = buff[Wrap(i - 1)]
  BY <1>1, <1>3, Sizes DEF QueueTypes, RingTypeOK, Cell, Wrap
<1>6. /\ Outstanding' \in Seq(Ring) /\ Len(Outstanding') = Count
      /\ \A i \in 1 .. Count : Outstanding'[i] = buff'[Wrap(i - 1)]
  BY <1>2, <1>3, <1>4, Sizes DEF QueueTypes, RingTypeOK, Cell, Wrap
<1>7. ASSUME NEW i \in 1 .. Count
      PROVE Wrap(i - 1) = i - 1 /\ buff'[i - 1] = IF i - 1 = cleared THEN Blank ELSE buff[i - 1]
  BY <1>1, <1>3, <1>5, Sizes DEF Wrap, RingTypeOK, Cell
<1>8. CASE cleared < Count
  <2> DEFINE wiped == [Outstanding EXCEPT ![cleared + 1] = Blank]
  <2>1. cleared + 1 \in 1 .. Count
    BY <1>1, <1>5, <1>8 DEF RingTypeOK
  <2>2. wiped \in Seq(Ring) /\ Len(wiped) = Count
        /\ \A i \in 1 .. Count : wiped[i] = IF i = cleared + 1 THEN Blank ELSE Outstanding[i]
    BY <1>5, <2>1, ExceptSeq DEF Ring
  <2>3. ASSUME NEW i \in 1 .. Count PROVE Outstanding'[i] = wiped[i]
    <3>1. Outstanding'[i] = buff'[i - 1] /\ Outstanding[i] = buff[i - 1]
      BY <1>5, <1>6, <1>7
    <3>2. i - 1 = cleared <=> i = cleared + 1
      BY <1>1, <1>5 DEF RingTypeOK
    <3> QED BY <1>7, <2>2, <3>1, <3>2
  <2>4. Outstanding' = wiped
    BY <1>6, <2>2, <2>3, SameSeq
  <2>5. cleared + 1 \in DOMAIN Outstanding
    BY <1>5, <2>1
  <2>6. \E i \in DOMAIN Outstanding : Outstanding' = [Outstanding EXCEPT ![i] = Blank]
    BY <2>4, <2>5
  <2>7. (op' \in {"flush", "clear"}) \in BOOLEAN
    OBVIOUS
  <2> QED BY <1>3, <2>6, <2>7 DEF Queue!Wipe
<1>9. CASE ~(cleared < Count)
  <2>1. ASSUME NEW i \in 1 .. Count PROVE Outstanding'[i] = Outstanding[i]
    <3>1. i - 1 # cleared
      BY <1>1, <1>5, <1>9 DEF RingTypeOK
    <3> QED BY <1>5, <1>6, <1>7, <3>1
  <2>2. Outstanding' = Outstanding
    BY <1>5, <1>6, <2>1, SameSeq
  <2> QED BY <1>3, <2>2 DEF Queue!Wipe
<1> QED BY <1>8, <1>9

LEMMA RingStepIsQueueStep ==
  ASSUME RingInv, RingStep
  PROVE  [Queue!Next]_(Queue!vars)
BY ReceiveIsArrive, ReadIsGet, CommitIsHidden, FlushTailIsFlushBegin, FlushHeadIsWipe, FlushClearIsWipe
   DEF RingStep, Queue!Next

-----------------------------------------------------------------------------
(* The driver. *)

LEMMA Commands ==
  /\ Command \subseteq Byte
  /\ Damaged \in Byte /\ Start \in Byte /\ Boundary \in Byte
  /\ DOMAIN Script = 1 .. Len(Script) /\ Len(Script) \in Nat /\ 1 \in DOMAIN Script
  /\ \A i \in DOMAIN Script : Script[i] \in Command
BY ExchangeAssumption DEF Command

LEMMA FrameType ==
  ASSUME NEW body \in Command \cup {Damaged}
  PROVE  Frame(body) \in Seq(Byte) /\ Len(Frame(body)) = 4
BY Commands DEF Frame

(* The queue sees a step of the driver or of the meter as one of the ring, as   *)
(* one of the meter sending, or not at all.                                     *)
LEMMA WhatTheRingSees ==
  ASSUME at \in DOMAIN Script, [Next]_vars
  PROVE  \/ RingStep
         \/ \E body \in Command \cup {Damaged} :
              line' = line \o Frame(body) /\ UNCHANGED <<buff, head, tail, op, cleared>>
         \/ UNCHANGED ringVars
<1>1. CASE Call
  BY <1>1 DEF Call, RingStep
<1>2. CASE Flush
  BY <1>2 DEF Flush, RingStep
<1>3. CASE Send /\ line' = line
  BY <1>3 DEF Send, ringVars
<1>4. CASE Send /\ line' # line
  <2>1. PICK body \in {Script[at], Damaged} : line' = line \o Frame(body)
    BY <1>4 DEF Send
  <2> QED BY <1>4, <2>1, Commands DEF Send
<1>5. CASE SendFails \/ PollAgain \/ Judge \/ UNCHANGED vars
  BY <1>5 DEF SendFails, PollAgain, Judge, vars, ringVars
<1>6. CASE Interrupt
  BY <1>6 DEF Interrupt, RingStep
<1>7. CASE PollByte
  BY <1>7 DEF PollByte, RingStep
<1>8. CASE LoadByte
  BY <1>8 DEF LoadByte, RingStep
<1> QED BY <1>1, <1>2, <1>3, <1>4, <1>5, <1>6, <1>7, <1>8 DEF Next, Driver
(* What the steps keep: types, and that a poll under way is not the last.       *)
Inv ==
  /\ TypeOK
  /\ RingInv
  /\ phase = "poll" => polls < Polls

(* A set of commands to come has a first one.                                   *)
LEMMA FirstWanted ==
  ASSUME NEW i \in DOMAIN Script
  PROVE  NextStep(i) \in DOMAIN Script
<1>1. CASE Wanted(i) = {}
  BY <1>1, Commands DEF NextStep
<1>2. CASE Wanted(i) # {}
  <2>1. Wanted(i) \subseteq DOMAIN Script /\ DOMAIN Script \subseteq Nat
    BY Commands DEF Wanted
  <2>2. PICK j \in Wanted(i) : \A k \in Wanted(i) : ~(<<k, j>> \in OpToRel(<, Nat))
    BY <1>2, <2>1, NatLessThanWellFounded, WFMin
  <2>3. ASSUME NEW k \in Wanted(i) PROVE ~(k < j)
    <3>1. k \in Nat /\ j \in Nat
      BY <2>1
    <3>2. k < j => <<k, j>> \in OpToRel(<, Nat)
      BY <3>1, Zenon DEF OpToRel
    <3> QED BY <2>2, <3>2
  <2>4. \A k \in Wanted(i) : j <= k
    BY <2>1, <2>3
  <2> QED BY <1>2, <2>1, <2>4 DEF NextStep
<1> QED BY <1>1, <1>2

LEMMA Initially == Init => Inv
BY RingInitially, Commands, EmptySeq, ExchangeAssumption DEF Init, Inv, TypeOK, RingInv

LEMMA StepKeepsInv ==
  ASSUME Inv, [Next]_vars
  PROVE  Inv'
<1> USE DEF Inv, TypeOK
<1>0. /\ at \in DOMAIN Script /\ Polls \in Nat \ {0} /\ <<>> \in Seq(Ring) /\ 1 \in DOMAIN Script
      /\ Byte \cup {Blank} = Ring
  BY ExchangeAssumption, Commands, EmptySeq DEF Ring
<1>1. RingInv'
  <2>1. CASE RingStep
    BY <2>1, RingStepKeepsInv
  <2>2. CASE \E body \in Command \cup {Damaged} :
               line' = line \o Frame(body) /\ UNCHANGED <<buff, head, tail, op, cleared>>
    <3>1. PICK body \in Command \cup {Damaged} : line' = line \o Frame(body)
      BY <2>2
    <3>2. line' \in Seq(Byte)
      BY <3>1, FrameType, ConcatProperties DEF RingInv, RingTypeOK
    <3> QED BY <2>2, <3>2 DEF RingInv, RingTypeOK
  <2>3. CASE UNCHANGED ringVars
    BY <2>3 DEF ringVars, RingInv, RingTypeOK
  <2> QED BY <1>0, <2>1, <2>2, <2>3, WhatTheRingSees
<1>2. RingTypeOK'
  BY <1>1 DEF RingInv
<1>3. CASE Call
  BY <1>2, <1>1, <1>3 DEF Call
<1>4. CASE Flush
  BY <1>2, <1>1, <1>4 DEF Flush
<1>5. CASE Send
  BY <1>0, <1>2, <1>1, <1>5 DEF Send
<1>6. CASE SendFails
  BY <1>0, <1>2, <1>1, <1>6 DEF SendFails
<1>7. CASE Interrupt
  BY <1>2, <1>1, <1>7 DEF Interrupt
<1>8. CASE PollByte
  BY <1>2, <1>1, <1>8 DEF PollByte
<1>9. CASE LoadByte
  <2>1. buff[tail] \in Ring
    BY <1>0 DEF RingTypeOK
  <2>2. Loaded(buff[tail]) \in Seq(Ring)
    BY <1>0, <2>1, AppendProperties DEF Loaded
  <2> QED BY <1>0, <1>2, <1>1, <1>9, <2>2 DEF LoadByte
<1>10. CASE PollAgain
  <2>1. polls' \in 0 .. Polls /\ (polls' # Polls => polls' < Polls)
    BY <1>0, <1>10 DEF PollAgain
  <2> QED BY <1>0, <1>2, <1>1, <1>10, <2>1 DEF PollAgain
<1>11. CASE Judge
  <2>1. at' \in DOMAIN Script
    BY <1>0, <1>11, FirstWanted DEF Judge
  <2>2. shown' \in [Command -> Command \cup {None}]
    <3>1. CASE Accepts(Script[at])
      <4>1. load[3] \in Command
        BY <3>1 DEF Accepts, Frame
      <4> QED BY <1>11, <3>1, <4>1 DEF Judge
    <3> QED BY <1>11, <3>1 DEF Judge
  <2> QED BY <1>0, <1>2, <1>1, <1>11, <2>1, <2>2 DEF Judge
<1>12. CASE UNCHANGED vars
  BY <1>2, <1>1, <1>12 DEF vars
<1> QED BY <1>3, <1>4, <1>5, <1>6, <1>7, <1>8, <1>9, <1>10, <1>11, <1>12 DEF Next, Driver

LEMMA AlwaysInv == Spec => []Inv
<1>1. Inv /\ [Next]_vars => Inv'
  BY StepKeepsInv
<1> QED BY Initially, <1>1, PTL DEF Spec

(* Every variable stays in its domain.                                          *)
THEOREM TypeCorrect == Spec => []TypeOK
<1>1. Inv => TypeOK
  BY DEF Inv
<1> QED BY AlwaysInv, <1>1, PTL

(* The ring is a queue of bytes to its reader, at every size of it and of the   *)
(* DMA buffer, wherever the interrupt strikes: app_uart.c:22-65.                *)
THEOREM RingRefinesQueue == Spec => RingIsAQueue
<1>1. Init => Queue!Init
  <2>1. ASSUME Init PROVE Queue!Init
    <3>1. RingTypeOK /\ QueueTypes
      BY <2>1, RingInitially, OutstandingType DEF Init, RingInv
    <3>2. Count = 0
      BY <2>1, Sizes DEF Init, RingInit, Count, Used, After
    <3>3. Outstanding = <<>>
      BY <3>1, <3>2, EmptySeq DEF QueueTypes
    <3> QED BY <2>1, <3>3 DEF Init, RingInit, Queue!Init
  <2> QED BY <2>1
<1>2. Inv /\ [Next]_vars => [Queue!Next]_(Queue!vars)
  <2> SUFFICES ASSUME Inv, [Next]_vars PROVE [Queue!Next]_(Queue!vars)
    OBVIOUS
  <2>1. CASE RingStep
    BY <2>1, RingStepIsQueueStep DEF Inv
  <2>2. CASE \E body \in Command \cup {Damaged} :
               line' = line \o Frame(body) /\ UNCHANGED <<buff, head, tail, op, cleared>>
    <3>1. PICK body \in Command \cup {Damaged} : line' = line \o Frame(body)
      BY <2>2
    <3>2. Outstanding' = Outstanding
      BY <2>2 DEF Outstanding, Count, Used, Available
    <3>3. line \in Seq(Byte) /\ Frame(body) \in Seq(Byte)
      BY FrameType DEF Inv, TypeOK, RingTypeOK
    <3>4. Len(line) <= Len(line') /\ SubSeq(line', 1, Len(line)) = line
      <4>1. /\ line' \in Seq(Byte) /\ Len(line') = Len(line) + Len(Frame(body))
            /\ Len(line) \in Nat /\ Len(Frame(body)) \in Nat
            /\ \A i \in 1 .. Len(line) : line'[i] = line[i]
        BY <3>1, <3>3, ConcatProperties, LenProperties
      <4>2. /\ SubSeq(line', 1, Len(line)) \in Seq(Byte)
            /\ Len(SubSeq(line', 1, Len(line))) = Len(line)
            /\ \A i \in 1 .. Len(line) : SubSeq(line', 1, Len(line))[i] = line'[i]
        <5>1. \A i \in 1 .. Len(line) : line'[i] \in Byte
          BY <3>3, <4>1, ElementOfSeq
        <5> QED BY <4>1, <5>1, SubSeqProperties
      <4>3. SubSeq(line', 1, Len(line)) = line
        BY <3>3, <4>1, <4>2, SeqEqual
      <4> QED BY <4>1, <4>3
    <3> QED BY <2>2, <3>2, <3>4 DEF Queue!Next, Queue!Send
  <2>3. CASE UNCHANGED ringVars
    BY <2>3 DEF ringVars, Queue!vars, Outstanding, Count, Used, Available
  <2> QED BY <2>1, <2>2, <2>3, WhatTheRingSees DEF Inv, TypeOK
<1> QED BY <1>1, <1>2, AlwaysInv, PTL DEF Spec, RingIsAQueue, Queue!Spec

-----------------------------------------------------------------------------
(* An answer that comes whole, alone and in time.  While it is on its way the   *)
(* ring is empty; once it has arrived, what is loaded and what is outstanding   *)
(* make up its frame, so that there is a byte to read until it is complete.     *)

Sent == Frame(Script[at])

InParts ==
  /\ Len(load) \in 0 .. 3
  /\ Len(Outstanding) = 4 - Len(load)
  /\ \A i \in 1 .. Len(load) : load[i] = Sent[i]
  /\ \A i \in 1 .. Len(Outstanding) : Outstanding[i] = Sent[Len(load) + i]

PhaseOp ==
  /\ phase \in {"call", "send", "judge"} => op = "idle"
  /\ phase = "flush" => op \in {"flush", "clear"}
  /\ phase = "poll" => op \in {"idle", "read"}
  /\ phase \in {"call", "flush", "send"} => due = "no"

AloneInv ==
  due = "alone" /\ phase = "poll" =>
    line = Sent /\ ~Available /\ op = "idle" /\ load = <<>>

TakenInv ==
  /\ due = "taken" /\ phase = "poll" => line = <<>> /\ Available /\ InParts
  /\ due = "taken" /\ phase = "judge" => load = Sent

AnswerInv == Inv /\ PhaseOp /\ AloneInv /\ TakenInv

LEMMA SentBytes ==
  ASSUME at \in DOMAIN Script
  PROVE  /\ Sent \in Seq(Byte) /\ Sent \in Seq(Ring) /\ Len(Sent) = 4
         /\ Sent[1] = Start /\ Sent[2] = Boundary /\ Sent[4] = Boundary
         /\ Sent[3] # Boundary
         /\ Start # Boundary
<1>1. Script[at] \in Command /\ Script[at] \in Command \cup {Damaged}
  BY Commands
<1>2. Sent \in Seq(Byte) /\ Len(Sent) = 4
  BY <1>1, FrameType DEF Sent
<1>3. Sent \in Seq(Ring)
  BY <1>1, Commands DEF Sent, Frame, Ring
<1>4. Script[at] # Boundary
  BY <1>1, ExchangeAssumption
<1>5. Start # Boundary
  BY DEF Start, Boundary
<1> QED BY <1>2, <1>3, <1>4, <1>5 DEF Sent, Frame

LEMMA PhaseOpStep ==
  ASSUME Inv, PhaseOp, [Next]_vars
  PROVE  PhaseOp'
<1>1. CASE Call
  BY <1>1 DEF PhaseOp, Call, FlushTail
<1>2. CASE Flush
  <2>1. op' \in {"flush", "clear", "idle"} /\ (op' = "idle" \/ op' = "clear")
    BY <1>2 DEF Flush, FlushHead, FlushClear
  <2> QED BY <1>2, <2>1 DEF PhaseOp, Flush
<1>3. CASE Send \/ SendFails
  BY <1>3 DEF PhaseOp, Send, SendFails
<1>4. CASE Interrupt
  <2>1. UNCHANGED <<op, phase>> /\ (due = "no" => due' = "no")
    BY <1>4 DEF Interrupt, Receive
  <2> QED BY <2>1 DEF PhaseOp
<1>5. CASE PollByte
  BY <1>5 DEF PhaseOp, PollByte, Commit
<1>6. CASE LoadByte
  BY <1>6 DEF PhaseOp, LoadByte, ReadByte
<1>7. CASE PollAgain
  BY <1>7 DEF PhaseOp, PollAgain
<1>8. CASE Judge
  BY <1>8 DEF PhaseOp, Judge
<1>9. CASE UNCHANGED vars
  BY <1>9 DEF PhaseOp, vars
<1> QED BY <1>1, <1>2, <1>3, <1>4, <1>5, <1>6, <1>7, <1>8, <1>9 DEF Next, Driver

(* The interrupt that brings the whole answer.                                  *)
LEMMA AnswerArrives ==
  ASSUME AnswerInv, 4 < Size, Interrupt, due = "alone", due' = "taken"
  PROVE  line' = <<>> /\ Available' /\ InParts'
<1>1. phase = "poll" /\ Receive(4) /\ 4 \in 1 .. DmaLen /\ UNCHANGED <<load, at, op>>
  BY DEF Interrupt, Receive
<1>2. /\ line = Sent /\ ~Available /\ op = "idle" /\ load = <<>>
      /\ RingInv /\ RingTypeOK /\ at \in DOMAIN Script
  BY <1>1 DEF AnswerInv, AloneInv, Inv, TypeOK
<1>3. Sent \in Seq(Ring) /\ Sent \in Seq(Byte) /\ Len(Sent) = 4
  BY <1>2, SentBytes
<1>4. QueueTypes /\ QueueTypes'
  <2>1. RingTypeOK'
    BY <1>1, <1>2, ReceiveKeepsTypes
  <2> QED BY <1>2, <2>1, OutstandingType, PTL
<1>5. Count = 0 /\ Used = 0 /\ Outstanding = <<>>
  BY <1>2, <1>4, EmptySeq DEF Count, QueueTypes, Available
<1>6. SubSeq(line, 1, 4) = line
  <2>1. /\ SubSeq(line, 1, 4) \in Seq(Byte) /\ Len(SubSeq(line, 1, 4)) = 4
        /\ \A i \in 1 .. 4 : SubSeq(line, 1, 4)[i] = line[i]
    BY <1>1, <1>2, <1>3, ReceivedBytes
  <2> QED BY <1>2, <1>3, <2>1, SeqEqual
<1>7. Used' = 4
  BY <1>1, <1>2, <1>5, UsedAfter
<1>8. Count' = 4 /\ Available'
  BY <1>1, <1>2, <1>4, <1>7 DEF Count, QueueTypes, Available
<1>9. Outstanding' = Outstanding \o SubSeq(line, 1, 4)
  <2>1. Queue!Put(4) \/ Queue!Overrun(4) \/ Queue!Miss
    BY <1>1, <1>2, ReceiveOutcome
  <2>2. ~Queue!Overrun(4)
    <3>1. Len(Outstanding) = 0
      BY <1>4, <1>5 DEF QueueTypes
    <3> QED BY <3>1, Sizes DEF Queue!Overrun
  <2>3. ~Queue!Miss
    BY <1>2 DEF Queue!Miss
  <2> QED BY <2>1, <2>2, <2>3 DEF Queue!Put
<1>10. Outstanding' = Sent
  BY <1>2, <1>3, <1>5, <1>6, <1>9
<1>11. line' = <<>>
  BY <1>1, <1>2, <1>3 DEF Receive
<1>12. Sent' = Sent
  BY <1>1 DEF Sent, Frame
<1> QED BY <1>1, <1>2, <1>3, <1>8, <1>10, <1>11, <1>12 DEF InParts

(* One byte of it is loaded.                                                    *)
LEMMA AnswerLoaded ==
  ASSUME AnswerInv, 4 < Size, LoadByte, due = "taken"
  PROVE  /\ phase' = "poll" => line' = <<>> /\ Available' /\ InParts'
         /\ phase' = "judge" => load' = Sent'
<1> DEFINE n == Len(load)
<1>1. /\ RingInv /\ RingTypeOK /\ at \in DOMAIN Script /\ load \in Seq(Ring)
      /\ op = "read" /\ line = <<>> /\ Available /\ InParts
      /\ ReadByte /\ UNCHANGED <<at, line>>
  BY DEF AnswerInv, TakenInv, Inv, TypeOK, Ring, LoadByte, ReadByte
<1>2. Sent' = Sent
  BY <1>1 DEF Sent, Frame
<1>3. QueueTypes /\ QueueTypes'
  <2>1. RingTypeOK'
    BY <1>1, RingStepKeepsInv DEF RingInv, RingStep
  <2> QED BY <1>1, <2>1, OutstandingType, PTL
<1>4. /\ n \in 0 .. 3 /\ Len(Outstanding) = 4 - n /\ Count = 4 - n
      /\ \A i \in 1 .. n : load[i] = Sent[i]
      /\ \A i \in 1 .. 4 - n : Outstanding[i] = Sent[n + i]
  BY <1>1, <1>3 DEF InParts, QueueTypes
<1>5. /\ Outstanding \in Seq(Ring) /\ Outstanding # <<>> /\ Outstanding' = Tail(Outstanding)
  BY <1>1, <1>3, ReadIsGet DEF Queue!Get, QueueTypes
<1>6. /\ Len(Outstanding') = 3 - n
      /\ \A i \in 1 .. 3 - n : Outstanding'[i] = Sent[n + 1 + i]
  <2>1. /\ Len(Tail(Outstanding)) = 3 - n
        /\ \A i \in 1 .. 3 - n : Tail(Outstanding)[i] = Outstanding[i + 1]
    BY <1>4, <1>5, HeadTailProperties
  <2> QED BY <1>4, <1>5, <2>1
<1>7. buff[tail] = Sent[n + 1]
  <2>1. Outstanding[1] = buff[Wrap(tail + 1 - 1)]
    <3>1. 1 \in 1 .. Count
      <4>1. \A m \in 0 .. 3 : 1 \in 1 .. (4 - m)
        OBVIOUS
      <4> QED BY <1>4, <4>1
    <3> QED BY <1>3, <3>1 DEF QueueTypes
  <2>2. Wrap(tail + 1 - 1) = tail
    BY <1>1, Sizes DEF Wrap, RingTypeOK, Cell
  <2> QED BY <1>4, <2>1, <2>2
<1>8. /\ Sent \in Seq(Ring) /\ Len(Sent) = 4 /\ Sent[1] = Start /\ Sent[2] = Boundary
      /\ Sent[3] # Boundary /\ Sent[4] = Boundary
  BY <1>1, SentBytes
<1>9. Loaded(buff[tail]) = Append(load, Sent[n + 1])
  <2>1. CASE n = 0
    BY <1>1, <1>7, <1>8, <2>1 DEF Loaded
  <2>2. CASE n # 0
    BY <1>1, <1>4, <1>7, <1>8, <2>2 DEF Loaded
  <2> QED BY <2>1, <2>2
<1>10. /\ load' \in Seq(Ring) /\ Len(load') = n + 1
       /\ \A i \in 1 .. n + 1 : load'[i] = Sent[i]
  <2>1. Sent[n + 1] \in Ring
    <3>1. n + 1 \in 1 .. Len(Sent)
      BY <1>4, <1>8
    <3> QED BY <1>8, <3>1, ElementOfSeq
  <2>2. load' = Append(load, Sent[n + 1])
    BY <1>9 DEF LoadByte
  <2> QED BY <1>1, <1>4, <2>1, <2>2, AppendProperties
<1>11. Complete(load') <=> n = 3
  <2>1. load'[n + 1] = Sent[n + 1] /\ Len(load') = n + 1
    BY <1>4, <1>10
  <2>2. n = 2 => Sent[n + 1] # Boundary
    BY <1>8
  <2>3. n = 3 => Sent[n + 1] = Boundary
    BY <1>8
  <2> HIDE DEF n
  <2> QED BY <1>4, <2>1, <2>2, <2>3 DEF Complete
<1>12. phase' = IF Complete(load') THEN "judge" ELSE "poll"
  BY DEF LoadByte
<1>13. CASE n = 3
  BY <1>2, <1>8, <1>10, <1>11, <1>12, <1>13, SameSeq
<1>14. CASE n # 3
  <2>1. Count' # 0 /\ op' = "idle"
    BY <1>1, <1>3, <1>4, <1>6, <1>14 DEF QueueTypes, ReadByte
  <2>2. Available'
    BY <1>3, <2>1 DEF Count, QueueTypes, Available
  <2> QED BY <1>1, <1>2, <1>4, <1>6, <1>10, <1>11, <1>12, <1>14, <2>2 DEF InParts
<1> QED BY <1>13, <1>14

LEMMA AloneStep ==
  ASSUME AnswerInv, [Next]_vars
  PROVE  AloneInv'
<1> SUFFICES ASSUME due' = "alone", phase' = "poll"
             PROVE  line' = Sent' /\ ~Available' /\ op' = "idle" /\ load' = <<>>
  BY DEF AloneInv
<1>0. at \in DOMAIN Script
  BY DEF AnswerInv, Inv, TypeOK
<1>1. CASE Send
  <2>1. /\ line' = line \o Frame(Script[at]) /\ line = <<>> /\ ~Available
        /\ UNCHANGED <<head, tail, op, at>> /\ load' = <<>> /\ phase = "send"
    BY <1>1 DEF Send
  <2>2. line' = Sent
    BY <1>0, <2>1, SentBytes DEF Sent
  <2> QED BY <2>1, <2>2 DEF Sent, Frame, Available, AnswerInv, PhaseOp
<1>2. CASE Interrupt
  BY <1>2 DEF Interrupt
<1>3. CASE Call \/ Flush \/ SendFails \/ Judge
  BY <1>3 DEF Call, Flush, SendFails, Judge
<1>4. due = "alone" /\ phase = "poll" =>
        line = Sent /\ ~Available /\ op = "idle" /\ load = <<>>
  BY DEF AnswerInv, AloneInv
<1>5. CASE PollByte
  BY <1>4, <1>5 DEF PollByte, Commit
<1>6. CASE LoadByte
  BY <1>4, <1>6 DEF LoadByte, ReadByte
<1>7. CASE PollAgain
  BY <1>4, <1>7 DEF PollAgain, Sent, Frame, Available
<1>8. CASE UNCHANGED vars
  BY <1>4, <1>8 DEF vars, Sent, Frame, Available
<1> QED BY <1>1, <1>2, <1>3, <1>5, <1>6, <1>7, <1>8 DEF Next, Driver

LEMMA TakenStep ==
  ASSUME AnswerInv, 4 < Size, 4 <= MaxLoad, [Next]_vars
  PROVE  TakenInv'
<1> SUFFICES ASSUME due' = "taken"
             PROVE  /\ phase' = "poll" => line' = <<>> /\ Available' /\ InParts'
                    /\ phase' = "judge" => load' = Sent'
  BY DEF TakenInv
<1>1. CASE Call \/ Flush
  BY <1>1 DEF Call, Flush, AnswerInv, PhaseOp
<1>2. CASE Send \/ Judge
  BY <1>2 DEF Send, Judge
<1>3. CASE SendFails
  BY <1>3 DEF SendFails, AnswerInv, PhaseOp
<1>4. CASE Interrupt
  <2>1. CASE due = "alone"
    <3>1. phase' = "poll"
      BY <1>4, <2>1 DEF Interrupt
    <3> QED BY <1>4, <2>1, <3>1, AnswerArrives
  <2>2. CASE due # "alone"
    <3>1. due = "taken" /\ UNCHANGED <<phase, load, at>> /\ Sent' = Sent
      BY <1>4, <2>2 DEF Interrupt, Sent, Frame
    <3>2. phase # "poll"
      <4>1. line # <<>>
        BY <1>4, Sizes DEF Interrupt, Receive
      <4> QED BY <3>1, <4>1 DEF AnswerInv, TakenInv
    <3> QED BY <3>1, <3>2 DEF AnswerInv, TakenInv
  <2> QED BY <2>1, <2>2
<1>5. CASE PollByte
  <2>1. Outstanding' = Outstanding
    BY <1>5, CommitIsHidden DEF PollByte, Queue!vars, AnswerInv, Inv
  <2>2. UNCHANGED <<line, head, tail, at, load, phase, due>> /\ Sent' = Sent
    BY <1>5 DEF PollByte, Commit, Sent, Frame
  <2> QED BY <1>5, <2>1, <2>2 DEF AnswerInv, TakenInv, InParts, Available, PollByte
<1>6. CASE LoadByte
  BY <1>6, AnswerLoaded DEF LoadByte
<1>7. CASE PollAgain
  <2>1. due = "taken" /\ phase = "poll" /\ Available /\ Len(load) \in 0 .. 3
    BY <1>7 DEF PollAgain, AnswerInv, TakenInv, InParts
  <2>2. Len(load) < MaxLoad
    <3>1. MaxLoad \in Nat
      BY ExchangeAssumption
    <3>2. \A m \in 0 .. 3 : m < MaxLoad
      BY <3>1
    <3> QED BY <2>1, <3>2
  <2> QED BY <1>7, <2>1, <2>2 DEF PollAgain
<1>8. CASE UNCHANGED vars
  <2>1. Outstanding' = Outstanding /\ Sent' = Sent
    BY <1>8 DEF vars, Outstanding, Count, Used, Available, Sent, Frame
  <2> QED BY <1>8, <2>1 DEF vars, AnswerInv, TakenInv, InParts, Available
<1> QED BY <1>1, <1>2, <1>3, <1>4, <1>5, <1>6, <1>7, <1>8 DEF Next, Driver

(* If ring and load buffer hold a frame, the answer that arrives whole and      *)
(* alone while the driver waits is the one it judges, however the polls and the *)
(* interrupt interleave: kaskad_1_mt.c:214-262.                                 *)
THEOREM LoneAnswerIsTaken ==
  ASSUME 4 < Size, 4 <= MaxLoad
  PROVE  Spec => []AnswerTaken
<1>1. Init => AnswerInv
  BY Initially DEF Init, RingInit, AnswerInv, PhaseOp, AloneInv, TakenInv
<1>2. AnswerInv /\ [Next]_vars => AnswerInv'
  BY StepKeepsInv, PhaseOpStep, AloneStep, TakenStep DEF AnswerInv
<1>3. AnswerInv => AnswerTaken
  BY DEF AnswerInv, TakenInv, AnswerTaken, Sent
<1> QED BY <1>1, <1>2, <1>3, PTL DEF Spec
-----------------------------------------------------------------------------
(* No answer from before the request.  Emptying leaves nothing of an earlier    *)
(* answer in the ring, not even behind its tail where a read that has been      *)
(* overtaken by an overrun would find it; what then comes is sent for the       *)
(* command under way.                                                           *)

OwnByte(b) == b \in Command => b = Script[at]
OwnBytes(s) == \A i \in 1 .. Len(s) : OwnByte(s[i])
OwnRing == \A i \in Cell : OwnByte(buff[i])

FreshInv ==
  fresh =>
    /\ op = "clear" => line = <<>> /\ \A i \in Cell : i < cleared => OwnByte(buff[i])
    /\ phase = "send" => line = <<>> /\ OwnRing
    /\ phase \in {"poll", "judge"} => OwnBytes(line) /\ OwnRing /\ OwnBytes(load)

(* What an interrupt leaves on the line.                                        *)
LEMMA RestOfLine ==
  ASSUME NEW s \in Seq(Byte), NEW k \in Nat \ {0}, k <= Len(s)
  PROVE  /\ SubSeq(s, k + 1, Len(s)) \in Seq(Byte)
         /\ Len(SubSeq(s, k + 1, Len(s))) = Len(s) - k
         /\ \A i \in 1 .. Len(s) - k : SubSeq(s, k + 1, Len(s))[i] = s[k + i]
<1>1. Len(s) \in Nat /\ \A i \in k + 1 .. Len(s) : s[i] \in Byte
  BY ElementOfSeq, LenProperties
<1>2. /\ SubSeq(s, k + 1, Len(s)) \in Seq(Byte)
      /\ Len(SubSeq(s, k + 1, Len(s))) = IF k + 1 <= Len(s) THEN Len(s) - (k + 1) + 1 ELSE 0
      /\ \A i \in 1 .. Len(s) - (k + 1) + 1 : SubSeq(s, k + 1, Len(s))[i] = s[(k + 1) + i - 1]
  BY <1>1, SubSeqProperties
<1> QED BY <1>1, <1>2

LEMMA FreshStep ==
  ASSUME Inv, PhaseOp, FreshInv, [Next]_vars
  PROVE  FreshInv'
<1> SUFFICES ASSUME fresh'
    PROVE /\ op' = "clear" => line' = <<>> /\ \A i \in Cell : i < cleared' => OwnByte(buff[i])'
          /\ phase' = "send" => line' = <<>> /\ OwnRing'
          /\ phase' \in {"poll", "judge"} => OwnBytes(line)' /\ OwnRing' /\ OwnBytes(load)'
  BY DEF FreshInv
<1>0. /\ RingTypeOK /\ RingInv /\ line \in Seq(Byte) /\ load \in Seq(Ring)
      /\ Blank \notin Command /\ Start \notin Command /\ Boundary \notin Command /\ Damaged \notin Command
  BY ExchangeAssumption DEF Inv, TypeOK, RingTypeOK, Ring
<1>1. CASE Call
  BY <1>1 DEF Call, FlushTail
<1>2. CASE Flush /\ op = "flush"
  <2>1. op' = "clear" /\ cleared' = 0 /\ line' = <<>> /\ phase' = "flush"
    BY <1>2 DEF Flush, FlushHead, FlushClear
  <2>2. \A i \in Cell : ~(i < 0)
    BY Sizes DEF Cell
  <2> QED BY <2>1, <2>2
<1>3. CASE Flush /\ op = "clear"
  <2>1. /\ FlushClear /\ fresh /\ UNCHANGED <<at, line>> /\ line = <<>>
        /\ \A i \in Cell : i < cleared => OwnByte(buff[i])
    BY <1>3 DEF Flush, FlushHead, FlushClear, FreshInv
  <2>2. cleared \in Cell /\ cleared \in Nat /\ cleared' = cleared + 1
    BY <1>0, <1>3, <2>1, Sizes DEF FlushClear, RingInv, RingTypeOK, Cell
  <2>3. \A i \in Cell : i < cleared' => OwnByte(buff[i])'
    <3> SUFFICES ASSUME NEW i \in Cell, i < cleared' PROVE OwnByte(buff[i])'
      OBVIOUS
    <3>1. i < cleared \/ i = cleared
      BY <2>2, Sizes DEF Cell
    <3>2. CASE i = cleared
      <4>1. buff'[i] = Blank
        BY <1>0, <2>1, <3>2 DEF FlushClear, RingTypeOK
      <4> QED BY <1>0, <4>1 DEF OwnByte, Command
    <3>3. CASE i < cleared /\ i # cleared
      <4>1. buff'[i] = buff[i]
        BY <1>0, <2>1, <3>3 DEF FlushClear, RingTypeOK
      <4> QED BY <2>1, <3>3, <4>1 DEF OwnByte, Command
    <3> QED BY <3>1, <3>2, <3>3
  <2>4. op' = "idle" => OwnRing'
    <3>1. op' = "idle" => cleared' = Size
      BY <2>1 DEF FlushClear
    <3>2. \A i \in Cell : i < Size
      BY Sizes DEF Cell
    <3> QED BY <2>3, <3>1, <3>2 DEF OwnRing
  <2>5. phase' = "send" => op' = "idle"
    BY <1>3 DEF Flush
  <2>6. phase' \in {"flush", "send"}
    BY <1>3 DEF Flush
  <2> QED BY <2>1, <2>3, <2>4, <2>5, <2>6
<1>4. CASE Send
  <2>1. /\ phase' = "poll" /\ op' = op /\ op = "idle" /\ load' = <<>>
        /\ line = <<>> /\ OwnRing /\ UNCHANGED <<buff, at>>
    BY <1>4 DEF Send, FreshInv, PhaseOp
  <2>2. line' = <<>> \/ \E body \in {Script[at], Damaged} : line' = Frame(body)
    <3>1. ASSUME NEW body \in {Script[at], Damaged} PROVE line \o Frame(body) = Frame(body)
      <4>1. Script[at] \in Command
        BY Commands DEF Inv, TypeOK
      <4>2. Frame(body) \in Seq(Byte)
        BY <4>1, FrameType
      <4> QED BY <2>1, <4>2, ConcatEmptySeq
    <3> QED BY <1>4, <2>1, <3>1 DEF Send
  <2>3. OwnBytes(line)'
    <3>1. CASE line' = <<>>
      BY <3>1 DEF OwnBytes
    <3>2. CASE \E body \in {Script[at], Damaged} : line' = Frame(body)
      <4>1. PICK body \in {Script[at], Damaged} : line' = Frame(body)
        BY <3>2
      <4>2. Len(line') = 4 /\ line'[1] = Start /\ line'[2] = Boundary /\ line'[3] = body /\ line'[4] = Boundary
        BY <4>1 DEF Frame
      <4>3. ASSUME NEW i \in 1 .. 4 PROVE OwnByte(line[i])'
        <5>1. line'[i] \in {Start, Boundary, Script[at], Damaged}
          <6>1. i = 1 \/ i = 2 \/ i = 3 \/ i = 4
            OBVIOUS
          <6> QED BY <4>2, <6>1
        <5> QED BY <1>0, <2>1, <5>1 DEF OwnByte, Command
      <4> QED BY <4>2, <4>3 DEF OwnBytes
    <3> QED BY <2>2, <3>1, <3>2
  <2>4. OwnBytes(load)' /\ OwnRing'
    BY <2>1 DEF OwnBytes, OwnRing, OwnByte, Command
  <2> QED BY <2>1, <2>3, <2>4
<1>5. CASE SendFails
  BY <1>5 DEF SendFails, FreshInv, PhaseOp, OwnBytes, OwnRing, OwnByte, Command
<1>6. CASE Interrupt
  <2>1. PICK k \in 1 .. DmaLen : Receive(k)
    BY <1>6 DEF Interrupt
  <2>2. /\ UNCHANGED <<op, cleared, phase, at, load>> /\ fresh
        /\ k \in Nat \ {0} /\ k <= Len(line) /\ Len(line) \in Nat
    BY <1>0, <1>6, <2>1, Sizes, LenProperties DEF Interrupt, Receive
  <2>3. line # <<>>
    BY <2>2
  <2>4. op # "clear" /\ phase # "send"
    BY <2>2, <2>3 DEF FreshInv
  <2>5. ASSUME phase \in {"poll", "judge"}
        PROVE  OwnBytes(line)' /\ OwnRing' /\ OwnBytes(load)'
    <3>1. OwnBytes(line) /\ OwnRing /\ OwnBytes(load)
      BY <2>2, <2>5 DEF FreshInv
    <3>2. OwnBytes(line')
      <4>1. /\ line' \in Seq(Byte) /\ Len(line') = Len(line) - k
            /\ \A i \in 1 .. Len(line) - k : line'[i] = line[k + i]
        BY <1>0, <2>1, <2>2, RestOfLine DEF Receive
      <4>2. \A i \in 1 .. Len(line) - k : k + i \in 1 .. Len(line)
        BY <2>2
      <4> QED BY <3>1, <4>1, <4>2 DEF OwnBytes
    <3>3. ASSUME NEW j \in Cell PROVE OwnByte(buff'[j])
      <4>1. CASE After(head, j) < PutLen(k)
        <5>1. PutLen(k) \in 1 .. k
          BY <1>0, PutLenType
        <5>2. After(head, j) + 1 \in 1 .. Len(line)
          BY <1>0, <2>2, <4>1, <5>1, Sizes DEF After, RingTypeOK, Cell
        <5>3. buff'[j] = line[After(head, j) + 1]
          BY <2>1, <4>1 DEF Receive, Written
        <5> QED BY <3>1, <5>2, <5>3 DEF OwnBytes
      <4>2. CASE ~(After(head, j) < PutLen(k))
        <5>1. buff'[j] = buff[j]
          BY <2>1, <4>2 DEF Receive, Written
        <5> QED BY <3>1, <5>1 DEF OwnRing
      <4> QED BY <4>1, <4>2
    <3> QED BY <2>2, <3>1, <3>2, <3>3 DEF OwnBytes, OwnRing, OwnByte, Command
  <2> QED BY <2>2, <2>4, <2>5
<1>7. CASE PollByte
  BY <1>7 DEF PollByte, Commit, FreshInv, OwnBytes, OwnRing, OwnByte, Command
<1>8. CASE LoadByte
  <2>1. /\ phase = "poll" /\ fresh /\ op' = "idle" /\ load' = Loaded(buff[tail])
        /\ UNCHANGED <<buff, line, at>> /\ phase' \in {"poll", "judge"} /\ tail \in Cell
    BY <1>0, <1>8 DEF LoadByte, ReadByte, RingTypeOK
  <2>2. OwnBytes(line) /\ OwnRing /\ OwnBytes(load)
    BY <2>1 DEF FreshInv
  <2>3. OwnBytes(line)' /\ OwnRing'
    BY <2>1, <2>2 DEF OwnBytes, OwnRing, OwnByte, Command
  <2>4. OwnBytes(load)'
    <3>1. OwnByte(buff[tail]) /\ buff[tail] \in Ring
      BY <1>0, <2>1, <2>2 DEF OwnRing, RingTypeOK, Ring
    <3>2. CASE load' = <<>>
      BY <3>2 DEF OwnBytes
    <3>3. CASE load' = Append(load, buff[tail])
      <4>1. /\ Len(load') = Len(load) + 1 /\ Len(load) \in Nat
            /\ \A i \in 1 .. Len(load) : load'[i] = load[i]
            /\ load'[Len(load) + 1] = buff[tail]
        BY <1>0, <3>1, <3>3, AppendProperties, LenProperties
      <4>2. ASSUME NEW i \in 1 .. Len(load) + 1 PROVE OwnByte(load'[i])
        <5>1. i \in 1 .. Len(load) \/ i = Len(load) + 1
          BY <4>1
        <5> QED BY <2>2, <3>1, <4>1, <5>1 DEF OwnBytes
      <4> QED BY <2>1, <4>1, <4>2 DEF OwnBytes, OwnByte, Command
    <3> QED BY <2>1, <3>2, <3>3 DEF Loaded
  <2> QED BY <2>1, <2>3, <2>4
<1>9. CASE PollAgain
  BY <1>9 DEF PollAgain, FreshInv, PhaseOp, OwnBytes, OwnRing, OwnByte, Command
<1>10. CASE Judge
  BY <1>10 DEF Judge, PhaseOp
<1>11. CASE UNCHANGED vars
  BY <1>11 DEF vars, FreshInv, OwnBytes, OwnRing, OwnByte, Command
<1>12. Flush => op \in {"flush", "clear"}
  BY DEF Flush, PhaseOp
<1> QED BY <1>1, <1>2, <1>3, <1>4, <1>5, <1>6, <1>7, <1>8, <1>9, <1>10, <1>11, <1>12 DEF Next, Driver

(* If nothing was on the way when the ring was emptied, no answer of an earlier *)
(* exchange is judged as the one to this command, even one that carries the     *)
(* same byte, at every size of the ring and for every script, and wherever the  *)
(* interrupt strikes: kaskad_1_mt.c:171-185, app_uart.c:22-31.                  *)
THEOREM LeftoversAreGone == Spec => []AnswerIsFresh
<1> DEFINE J == Inv /\ PhaseOp /\ FreshInv
<1>1. Init => J
  BY Initially DEF Init, RingInit, PhaseOp, FreshInv
<1>2. J /\ [Next]_vars => J'
  BY StepKeepsInv, PhaseOpStep, FreshStep
<1>3. J => AnswerIsFresh
  <2> SUFFICES ASSUME J, phase = "judge", fresh, NEW c \in Command, load = Frame(c) PROVE c = Script[at]
    BY DEF AnswerIsFresh
  <2>1. OwnBytes(load)
    BY DEF FreshInv
  <2>2. load[3] = c /\ 3 \in 1 .. Len(load)
    BY DEF Frame
  <2> QED BY <2>1, <2>2 DEF OwnBytes, OwnByte
<1> HIDE DEF J
<1> QED BY <1>1, <1>2, <1>3, PTL DEF Spec
==============================================================================
