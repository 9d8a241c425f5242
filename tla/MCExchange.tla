----------------------------- MODULE MCExchange ------------------------------
(* Instances of Exchange for TLC: a frame has four bytes, so two of them       *)
(* do not fit into the ring.                                                    *)
EXTENDS Exchange

(* Two commands whose answers carry the same byte, as those to the serial       *)
(* number and the date of release do.                                           *)
ShortScript == <<"ping", "date">>
Alike == [c \in {"ping", "date"} |-> 10]
ShortBytes  == {"ping", "date", "damaged", "start", "boundary"}

MCScript == <<"ping", "serial", "date">>
MCBytes  == {"ping", "serial", "date", "damaged", "start", "boundary"}

(* KASKAD-1-MT: serial number and date of release are commands 0x010a and       *)
(* 0x020a, and 0x0a is all the answer carries.                                  *)
Kaskad == [c \in {"ping", "serial", "date"} |-> IF c = "ping" THEN 1 ELSE 10]
==============================================================================
