------------------------------ MODULE UartRing -------------------------------
(* The receive buffer of the meter's serial line (src/src/app_uart.c).  The UART *)
(* collects up to DmaLen bytes by DMA and interrupts; app_uartRecvCb copies them *)
(* into a ring while the main loop reads from it or empties it, one memory       *)
(* access after the other, without ever masking the interrupt.                   *)
EXTENDS Naturals, Sequences

CONSTANTS
  Size,     \* UART_BUFF_SIZE
  DmaLen,   \* UART_DATA_LEN, the most one interrupt brings
  Byte,     \* what a meter sends
  Blank     \* the zero that memset leaves

ASSUME RingAssumption ==
  /\ Size \in Nat
  /\ DmaLen \in Nat
  /\ 0 < DmaLen
  /\ DmaLen < Size

VARIABLES
  line,     \* bytes on their way from the meter
  buff,     \* uart_buff
  head,     \* uart_head
  tail,     \* uart_tail
  op,       \* where the main loop is in the functions of this file: "idle",
            \* "flush" (tail is reset, head is not), "clear" (in memset), "read"
            \* (was told that a byte is available and has not fetched it)
  cleared   \* bytes memset has zeroed

ringVars == <<line, buff, head, tail, op, cleared>>

Cell == 0 .. Size - 1

RingTypeOK ==
  /\ line \in Seq(Byte)
  /\ buff \in [Cell -> Byte \cup {Blank}]
  /\ head \in Cell
  /\ tail \in Cell
  /\ op \in {"idle", "flush", "clear", "read"}
  /\ cleared \in 0 .. Size

WrapLate(i) == IF i > Size THEN i - Size ELSE i   \* mutant
(* Masking with UART_BUFF_MASK an index that has run at most one ring too far.  *)
Wrap(i) == IF i >= Size THEN i - Size ELSE i

(* How far cell j lies behind cell i, going round.                              *)
After(i, j) == IF j >= i THEN j - i ELSE j - i + Size

Used == After(tail, head)
Free == Size - Used

RingInit ==
  /\ line = <<>>
  /\ buff = [i \in Cell |-> Blank]
  /\ head = 0
  /\ tail = 0
  /\ op = "idle"
  /\ cleared = 0

-----------------------------------------------------------------------------
(* The interrupt. *)

PutLenAll(k) == k   \* mutant: whether there is room or not

(* What of k bytes write_bytes_to_buff_uart takes.                              *)
PutLen(k) == IF Free >= k THEN k ELSE Free

Written(s, n) == [j \in Cell |-> IF After(head, j) < n THEN s[After(head, j) + 1] ELSE buff[j]]

(* app_uartRecvCb with the k bytes the DMA has gathered.  What the ring does not *)
(* take is moved to the front of the DMA buffer, where the next reception        *)
(* overwrites it: it is gone.                                                    *)
Receive(k) ==
  LET n == PutLen(k) IN
  /\ k <= Len(line)
  /\ line' = SubSeq(line, k + 1, Len(line))
  /\ buff' = Written(line, n)
  /\ head' = Wrap(head + n)
  /\ UNCHANGED <<tail, op, cleared>>

-----------------------------------------------------------------------------
(* The main loop. *)

Available == head # tail

(* available_buff_uart has answered TRUE.                                       *)
Commit ==
  /\ op = "idle"
  /\ Available
  /\ op' = "read"
  /\ UNCHANGED <<line, buff, head, tail, cleared>>

(* read_byte_from_buff_uart; the byte is buff[tail].                            *)
ReadByte ==
  /\ op = "read"
  /\ tail' = Wrap(tail + 1)
  /\ op' = "idle"
  /\ UNCHANGED <<line, buff, head, cleared>>

(* flush_buff_uart: uart_tail = 0, uart_head = 0, memset.                       *)
FlushTail ==
  /\ op = "idle"
  /\ tail' = 0
  /\ op' = "flush"
  /\ UNCHANGED <<line, buff, head, cleared>>

FlushHead ==
  /\ op = "flush"
  /\ head' = 0
  /\ op' = "clear"
  /\ cleared' = 0
  /\ UNCHANGED <<line, buff, tail>>

FlushClear ==
  /\ op = "clear"
  /\ buff' = [buff EXCEPT ![cleared] = Blank]
  /\ cleared' = cleared + 1
  /\ op' = IF cleared' = Size THEN "idle" ELSE "clear"
  /\ UNCHANGED <<line, head, tail>>

-----------------------------------------------------------------------------
(* The queue that the ring stands for. *)

Count == IF op = "flush" THEN 0
         ELSE IF op = "read" /\ ~Available THEN Size
         ELSE Used

Outstanding == [i \in 1 .. Count |-> buff[Wrap(tail + i - 1)]]

(* The ring delivers bytes as ByteQueue promises: app_uart.c:27-65.             *)
Queue == INSTANCE ByteQueue
           WITH Capacity <- Size, q <- Outstanding, flushing <- op \in {"flush", "clear"}

RingIsAQueue == Queue!Spec
==============================================================================
