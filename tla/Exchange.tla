------------------------------- MODULE Exchange ------------------------------
(* A driver asking its meter for one value after the other over the ring buffer *)
(* (send_command, response_meter and measure_meter_kaskad_1_mt of               *)
(* src/src/devices/kaskad_1_mt.c; the other drivers frame, flush and retry in   *)
(* ways of their own, which are not modelled).  The meter is free to answer     *)
(* late, damaged, in pieces or not at all.                                      *)
(* A frame is START BOUNDARY body BOUNDARY, its body one byte here: the command *)
(* it answers with the value that belongs to it, under a checksum.              *)
EXTENDS UartRing

CONSTANTS
  Script,    \* the commands of a measurement in their order, the ping first
  Code,      \* the byte of a command that its answer carries back
  Once,      \* commands whose value is kept and not asked for again
  Damaged,   \* a body whose checksum is wrong
  Polls,     \* how often response_meter looks for bytes, 100 in the code
  MaxLoad,   \* PKT_BUFF_MAX_LEN
  MaxLine    \* bound: bytes on the way

Command == {Script[i] : i \in DOMAIN Script}
Start    == "start"
Boundary == "boundary"
None     == "none"

ASSUME ExchangeAssumption ==
  /\ Len(Script) \in Nat \ {0}
  /\ Script \in Seq(Command)
  /\ Once \subseteq Command
  /\ Byte = Command \cup {Damaged, Start, Boundary}
  /\ Command \cap {Damaged, Start, Boundary, Blank, None} = {}
  /\ Damaged \notin {Start, Boundary, None, Blank}
  /\ Blank \notin {Start, Boundary}
  /\ Polls \in Nat \ {0}
  /\ MaxLoad \in Nat

VARIABLES
  at,      \* the command of Script under way
  phase,   \* "call", "flush", "send", "poll", "judge"
  polls,   \* polls made for this answer
  load,    \* package_buff, as far as it is loaded
  shown,   \* per command: the answer its value was taken from
  due,     \* history: "alone" when the answer is whole and nothing older is on the
           \* way or in the ring, then "taken" if it came in one piece, in time
  fresh    \* history: nothing was on the way when the ring was last emptied

vars == <<line, buff, head, tail, op, cleared, at, phase, polls, load, shown, due, fresh>>

Frame(body) == <<Start, Boundary, body, Boundary>>

TypeOK ==
  /\ RingTypeOK
  /\ at \in DOMAIN Script
  /\ phase \in {"call", "flush", "send", "poll", "judge"}
  /\ polls \in 0 .. Polls
  /\ load \in Seq(Byte \cup {Blank})
  /\ shown \in [Command -> Command \cup {None}]
  /\ due \in {"no", "alone", "taken"}
  /\ fresh \in BOOLEAN

Init ==
  /\ RingInit
  /\ at = 1
  /\ phase = "call"
  /\ polls = 0
  /\ load = <<>>
  /\ shown = [c \in Command |-> None]
  /\ due = "no"
  /\ fresh = TRUE

-----------------------------------------------------------------------------
(* Sending the request. *)

CallUnflushed ==   \* mutant: without flush_buff_uart
  /\ phase = "call"
  /\ phase' = "send"
  /\ fresh' = (line = <<>>)
  /\ UNCHANGED <<line, buff, head, tail, op, cleared, at, polls, load, shown, due>>

Call ==
  /\ phase = "call"
  /\ FlushTail
  /\ phase' = "flush"
  /\ UNCHANGED <<at, polls, load, shown, due, fresh>>

Flush ==
  /\ phase = "flush"
  /\ FlushHead \/ FlushClear
  /\ phase' = IF op' = "idle" THEN "send" ELSE "flush"
  /\ fresh' = IF op = "flush" THEN line = <<>> ELSE fresh
  /\ UNCHANGED <<at, polls, load, shown, due>>

(* The request goes out and the meter takes notice of it, or does not.          *)
Send ==
  /\ phase = "send"
  /\ phase' = "poll"
  /\ polls' = 0
  /\ load' = <<>>
  /\ \/ line' = line /\ due' = "no"
     \/ \E body \in {Script[at], Damaged} :
          /\ Len(line) + 4 <= MaxLine
          /\ line' = line \o Frame(body)
          /\ due' = IF body = Script[at] /\ line = <<>> /\ ~Available THEN "alone" ELSE "no"
  /\ UNCHANGED <<buff, head, tail, op, cleared, at, shown, fresh>>

(* Three attempts to start the transmission have failed.                        *)
SendFails ==
  /\ phase = "send"
  /\ phase' = "judge"
  /\ load' = <<>>
  /\ UNCHANGED <<line, buff, head, tail, op, cleared, at, polls, shown, due, fresh>>

(* The interrupt, at any point of all this.                                     *)
Interrupt ==
  /\ \E k \in 1 .. DmaLen :
       /\ Receive(k)
       /\ due' = IF due = "alone" /\ k = 4 /\ phase = "poll" THEN "taken"
                 ELSE IF due = "alone" THEN "no" ELSE due
  /\ UNCHANGED <<at, phase, polls, load, shown, fresh>>

-----------------------------------------------------------------------------
(* Waiting for the answer. *)

(* The inner loop goes on.                                                      *)
PollByte ==
  /\ phase = "poll"
  /\ Len(load) < MaxLoad
  /\ Commit
  /\ UNCHANGED <<at, phase, polls, load, shown, due, fresh>>

(* Where a byte goes: a frame starts with START and BOUNDARY, and whatever does *)
(* not is skipped.                                                              *)
Loaded(ch) ==
  IF (load = <<>> /\ ch # Start) \/ (Len(load) = 1 /\ ch # Boundary)
    THEN <<>>
    ELSE Append(load, ch)

CompleteEarly(s) == s # <<>> /\ s[Len(s)] = Boundary   \* mutant: at the first BOUNDARY
Complete(s) == Len(s) > 2 /\ s[Len(s)] = Boundary

LoadByte ==
  /\ phase = "poll"
  /\ ReadByte
  /\ load' = Loaded(buff[tail])
  /\ phase' = IF Complete(load') THEN "judge" ELSE "poll"
  /\ UNCHANGED <<at, polls, shown, due, fresh>>

(* mutant: only a poll that has found bytes counts.                             *)
PollAgainSilent ==
  /\ phase = "poll"
  /\ op = "idle"
  /\ ~(Available /\ Len(load) < MaxLoad)
  /\ polls' = IF load = <<>> THEN polls ELSE polls + 1
  /\ load' = <<>>
  /\ phase' = IF polls' = Polls THEN "judge" ELSE "poll"
  /\ UNCHANGED <<line, buff, head, tail, op, cleared, at, shown, due, fresh>>

(* Nothing more to read: sleep_ms(10), and the next poll starts with            *)
(* load_size = 0.                                                               *)
PollAgain ==
  /\ phase = "poll"
  /\ op = "idle"
  /\ ~(Available /\ Len(load) < MaxLoad)
  /\ polls' = polls + 1
  /\ load' = <<>>
  /\ phase' = IF polls' = Polls THEN "judge" ELSE "poll"
  /\ UNCHANGED <<line, buff, head, tail, op, cleared, at, shown, due, fresh>>

-----------------------------------------------------------------------------
(* The end of an exchange. *)

(* The frames response_meter takes for the answer to command c.                 *)
Accepts(c) == \E m \in Command : load = Frame(m) /\ Code[m] = Code[c]

(* What the measurement asks for after step i: the next command it still needs, *)
(* or the ping of the next measurement.                                         *)
Wanted(i) == {j \in DOMAIN Script : j > i /\ ~(Script[j] \in Once /\ shown'[Script[j]] # None)}
NextStep(i) == IF Wanted(i) = {} THEN 1
               ELSE CHOOSE j \in Wanted(i) : \A k \in Wanted(i) : j <= k

Judge ==
  /\ phase = "judge"
  /\ phase' = "call"
  /\ IF Accepts(Script[at])
       THEN shown' = [shown EXCEPT ![Script[at]] = load[3]]
       ELSE UNCHANGED shown
  /\ at' = IF at = 1 /\ ~Accepts(Script[at]) THEN 1 ELSE NextStep(at)
  /\ due' = "no"
  /\ polls' = 0
  /\ load' = <<>>
  /\ UNCHANGED <<line, buff, head, tail, op, cleared, fresh>>

Driver == Call \/ Flush \/ Send \/ SendFails \/ PollByte \/ LoadByte \/ PollAgain \/ Judge

Next == Driver \/ Interrupt

Spec == Init /\ [][Next]_vars

FairSpec == Spec /\ WF_vars(Driver)

-----------------------------------------------------------------------------
(* No value is taken from the answer to another command, however late answers   *)
(* come: kaskad_1_mt.c:263-291.  It does not hold.                              *)
AnswerOfItsCommand == \A c \in Command : shown[c] \in {None, c}

(* What holds: an answer left over from an earlier exchange, which may carry    *)
(* the same byte, is out of the way once the ring has been emptied.  Only one   *)
(* still on its way from the meter at that moment can be taken for the answer   *)
(* to this command: kaskad_1_mt.c:171-185, app_uart.c:22-31.                    *)
AnswerIsFresh ==
  phase = "judge" /\ fresh => \A c \in Command : load = Frame(c) => c = Script[at]

(* An answer that arrives whole, in one piece and while the driver waits, with  *)
(* nothing older in its way, is the one that is judged: kaskad_1_mt.c:214-262.  *)
AnswerTaken == phase = "judge" /\ due = "taken" => load = Frame(Script[at])

(* Whatever the meter sends or does not send, a driver gets out of an exchange  *)
(* and the main loop goes on: kaskad_1_mt.c:224.                                *)
ExchangeEnds == phase = "call" ~> phase = "judge"
==============================================================================
