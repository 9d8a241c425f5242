----------------------------- MODULE AtomicStore ------------------------------
(* What the storage of settings promises whoever uses it: a write takes effect  *)
(* as a whole or not at all, at one moment while it runs, and changes no other  *)
(* item; a write that is reported done has taken effect.                        *)
CONSTANTS Item, Value, None

VARIABLES
  stored,   \* the value a read of each item returns
  job,      \* the write under way, or the last one
  status    \* "busy", or how the last write ended

vars == <<stored, job, status>>

Init ==
  /\ stored = [i \in Item |-> None]
  /\ job \in [item : Item, value : Value]
  /\ status = "ok"

Begin ==
  /\ status # "busy" /\ status' = "busy"
  /\ job' \in [item : Item, value : Value]
  /\ UNCHANGED stored

TakeEffect ==
  /\ status = "busy"
  /\ stored' = [stored EXCEPT ![job.item] = job.value]
  /\ UNCHANGED <<job, status>>

\* it may take effect with the last of its steps
Succeed ==
  /\ status = "busy" /\ status' = "ok"
  /\ stored' = [stored EXCEPT ![job.item] = job.value]
  /\ UNCHANGED job

Fail ==
  /\ status = "busy" /\ status' = "failed"
  /\ UNCHANGED <<stored, job>>

Next == Begin \/ TakeEffect \/ Succeed \/ Fail

Spec == Init /\ [][Next]_vars
==============================================================================
