---------------------------- MODULE AtomicUpgrade -----------------------------
(* What an upgrade over the air promises whoever powers the device: it has one  *)
(* complete firmware at any time, the one it was made with until it takes over  *)
(* one that has been released, at once and as a whole.                          *)
CONSTANTS Version, Factory

VARIABLES
  offered,    \* versions the server has released so far
  installed   \* the version the device starts next

vars == <<offered, installed>>

Init ==
  /\ offered \subseteq Version
  /\ installed = Factory

Release ==
  /\ offered \subseteq offered'
  /\ offered' \subseteq Version
  /\ UNCHANGED installed

Install ==
  /\ installed' \in offered
  /\ UNCHANGED offered

Next == Release \/ Install

Spec == Init /\ [][Next]_vars
==============================================================================
