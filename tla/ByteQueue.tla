------------------------------ MODULE ByteQueue ------------------------------
(* What the receive buffer of src/src/app_uart.c promises the drivers: bytes in *)
(* the order in which the meter sent them, none invented, and nothing lost as   *)
(* long as fewer than Capacity bytes wait to be read.  Two things it does not   *)
(* promise: a buffer filled to its last byte is worth nothing any more, and     *)
(* while it is being emptied bytes that arrive may vanish or turn into Blank.   *)
EXTENDS Naturals, Sequences

CONSTANTS Capacity, DmaLen, Blank

VARIABLES
  line,      \* bytes the meter has sent and the UART has not received
  q,         \* bytes the reader will get
  flushing   \* the reader is emptying the buffer

vars == <<line, q, flushing>>

Init ==
  /\ line = <<>>
  /\ q = <<>>
  /\ flushing = FALSE

(* The meter sends.                                                             *)
Send ==
  /\ Len(line) <= Len(line')
  /\ SubSeq(line', 1, Len(line)) = line
  /\ UNCHANGED <<q, flushing>>

(* The next k bytes arrive and are kept: there is room for them.                *)
Put(k) ==
  /\ Len(q) + k < Capacity
  /\ q' = q \o SubSeq(line, 1, k)

(* They fill the buffer.  It then looks empty, but for a reader that has already*)
(* been told it is not; a buffer that was full starts over with them.           *)
Overrun(k) ==
  /\ Len(q) + k >= Capacity
  /\ q' \in {<<>>, SubSeq(q \o SubSeq(line, 1, k), 1, Capacity), SubSeq(line, 1, k)}

(* They fall between the two steps that reset the buffer.                       *)
Miss == flushing /\ q = <<>> /\ q' = q

Arrive ==
  \E k \in 1 .. DmaLen :
    /\ k <= Len(line)
    /\ line' = SubSeq(line, k + 1, Len(line))
    /\ Put(k) \/ Overrun(k) \/ Miss
    /\ UNCHANGED flushing

Get ==
  /\ q # <<>>
  /\ ~flushing
  /\ q' = Tail(q)
  /\ UNCHANGED <<line, flushing>>

FlushBegin ==
  /\ ~flushing
  /\ q' = <<>>
  /\ flushing' = TRUE
  /\ UNCHANGED line

(* One waiting byte is wiped; the last wipe may end the emptying.               *)
Wipe ==
  /\ flushing
  /\ q' = q \/ \E i \in DOMAIN q : q' = [q EXCEPT ![i] = Blank]
  /\ flushing' \in BOOLEAN
  /\ UNCHANGED line

Next == Send \/ Arrive \/ Get \/ FlushBegin \/ Wipe

Spec == Init /\ [][Next]_vars
==============================================================================
