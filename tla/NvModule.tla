------------------------------- MODULE NvModule -------------------------------
(* A module of the flash storage (drv_nv.c): two sectors used in turn, each a   *)
(* header and a log of items. A write appends the item, validates it and then   *)
(* invalidates the older one; when the log is full it moves what is still valid *)
(* to the other sector, writes there, and swaps the headers. A bit of flash is  *)
(* only ever cleared until its sector is erased, so a state goes one way:       *)
(*   sector header: idle -> ready -> valid -> invalid                           *)
(*   item:          idle -> (torn | operation) -> valid -> invalid              *)
(* The program may lose power between any two writes to the flash, or in the    *)
(* middle of writing an item.                                                   *)
EXTENDS Integers, FiniteSets

CONSTANTS
  Item, Value,   \* the items of the module and what can be written to them
  None,          \* what a read finds when there is no item
  Slots          \* MODULE_IDX_NUM: the entries of a sector's log

ASSUME SlotsAssumption == Slots \in Nat \ {0}
ASSUME ItemAssumption == IsFiniteSet(Item) /\ None \notin Item \cup Value

VARIABLES
  hdr,   \* sect_info.usedFlag of each sector
  log,   \* the entries of each sector: index, item header and payload together
  pc,    \* the next write to the flash, or how the last operation ended
  job,   \* the write under way, or the last one
  op     \* the variables of nv_flashWriteNewHandler

vars == <<hdr, log, pc, job, op>>

Sect == {0, 1}
Other(s) == 1 - s

Entry == [item : Item \cup {None}, value : Value \cup {None},
          state : {"idle", "torn", "operation", "valid", "invalid"}]
Blank == [item |-> None, value |-> None, state |-> "idle"]
Erased == [k \in 1..Slots |-> Blank]

Rest == {"ok", "failed", "full"}
NoOp == [sect |-> 0, at |-> 1, next |-> 1, del |-> 0, update |-> FALSE]

-------------------------------------------------------------------------------
(* Reading. *)

\* of a log: the valid entries of an item
Live(l, i) == {k \in 1..Slots : l[k].state = "valid" /\ l[k].item = i}
Highest(S) == CHOOSE k \in S : \A j \in S : j <= k

\* nv_sector_read: the first sector whose header is valid or ready
Usable(s) == hdr[s] \in {"ready", "valid"}
Found == \E s \in Sect : Usable(s)
Active == IF Usable(0) THEN 0 ELSE 1

\* nv_index_read looks from the end of the log
ValueIn(l, i) == IF Live(l, i) = {} THEN None ELSE l[Highest(Live(l, i))].value
Stored == [i \in Item |-> IF Found THEN ValueIn(log[Active], i) ELSE None]

\* A ready sector is one whose swap was cut short: whoever reads it first
\* finishes the swap, and power may be lost between the two writes.
Settle ==
  /\ pc \in Rest \cup {"search"}
  /\ Found /\ hdr[Active] = "ready"
  /\ \E both \in BOOLEAN :
       hdr' = [s \in Sect |-> IF s # Active THEN "invalid"
                              ELSE IF both THEN "valid" ELSE "ready"]
  /\ UNCHANGED <<log, pc, job, op>>

-------------------------------------------------------------------------------
(* Writing. *)

Begin ==
  /\ pc \in Rest /\ pc' = "search"
  /\ job' \in [item : Item, value : Value]
  /\ UNCHANGED <<hdr, log, op>>

Used(l) == {k \in 1..Slots : l[k].state # "idle"}
Last(l) == IF Used(l) = {} THEN 0 ELSE Highest(Used(l))
AppendableTooFar(l) == Last(l) > 0 => l[Last(l)].state # "torn"   \* mutant
Appendable(l) == Last(l) < Slots /\ (Last(l) > 0 => l[Last(l)].state # "torn")

Format ==
  /\ pc = "search" /\ ~Found /\ pc' = "index"
  /\ hdr' = [hdr EXCEPT ![0] = "idle"]
  /\ log' = [log EXCEPT ![0] = Erased]
  /\ op' = NoOp
  /\ UNCHANGED job

Append ==
  /\ pc = "search" /\ Found /\ hdr[Active] = "valid" /\ pc' = "index"
  /\ Appendable(log[Active])
  /\ op' = [NoOp EXCEPT !.sect = Active, !.at = Last(log[Active]) + 1]
  /\ UNCHANGED <<hdr, log, job>>

ChangeSector ==
  /\ pc = "search" /\ Found /\ hdr[Active] = "valid" /\ pc' = "copy"
  /\ ~Appendable(log[Active])
  /\ hdr' = [hdr EXCEPT ![Other(Active)] = "idle"]
  /\ log' = [log EXCEPT ![Other(Active)] = Erased]
  /\ op' = [NoOp EXCEPT !.sect = Other(Active), !.update = TRUE]
  /\ UNCHANGED job

To == log[op.sect]
From == log[Other(op.sect)]

\* nv_exceptionDataHandler: of several valid entries of an item only the last
\* counts; the others are what a loss of power left behind.
NoneDropped(l) == {}   \* mutant
Duplicates(l) == {k \in 1..Slots : l[k].state = "valid" /\ k # Highest(Live(l, l[k].item))}

DropDuplicate ==
  /\ pc = "copy" /\ Duplicates(From) # {}
  /\ log' = [log EXCEPT ![Other(op.sect)][Highest(Duplicates(From))].state = "invalid"]
  /\ UNCHANGED <<hdr, pc, job, op>>

EndOfLog(l, k) == k <= Slots => l[k].state \in {"idle", "torn"}
Kept(e) == e.state = "valid" /\ e.item # job.item

CopyEntry ==
  /\ pc = "copy" /\ Duplicates(From) = {} /\ ~EndOfLog(From, op.next)
  /\ IF Kept(From[op.next])
       THEN /\ log' = [log EXCEPT ![op.sect][op.at] = From[op.next]]
            /\ op' = [op EXCEPT !.at = @ + 1, !.next = @ + 1]
       ELSE op' = [op EXCEPT !.next = @ + 1] /\ UNCHANGED log
  /\ UNCHANGED <<hdr, pc, job>>

CopyEnds ==
  /\ pc = "copy" /\ Duplicates(From) = {} /\ EndOfLog(From, op.next)
  /\ IF op.at > Slots THEN pc' = "full" /\ op' = NoOp
                      ELSE pc' = "index" /\ UNCHANGED op
  /\ UNCHANGED <<hdr, log, job>>

\* the index entry goes first, marked as an operation under way
Index ==
  /\ pc = "index" /\ pc' = "mark"
  /\ op' = [op EXCEPT !.del = IF Live(To, job.item) = {} THEN 0
                              ELSE Highest(Live(To, job.item))]
  /\ log' = [log EXCEPT ![op.sect][op.at] =
               [item |-> job.item, value |-> job.value, state |-> "operation"]]
  /\ UNCHANGED <<hdr, job>>

\* then payload and item header, and the index entry is marked valid
Mark ==
  /\ pc = "mark" /\ pc' = "old"
  /\ log' = [log EXCEPT ![op.sect][op.at].state = "valid"]
  /\ UNCHANGED <<hdr, job, op>>

\* the older entry of the item goes last; a log begun on an erased sector still
\* needs its header
Old ==
  /\ pc = "old"
  /\ log' = IF op.del = 0 THEN log
            ELSE [log EXCEPT ![op.sect][op.del].state = "invalid"]
  /\ pc' = IF op.update THEN "ready" ELSE IF op.at = 1 THEN "header" ELSE "ok"
  /\ op' = IF op.update \/ op.at = 1 THEN op ELSE NoOp
  /\ UNCHANGED <<hdr, job>>

Header ==
  /\ pc = "header" /\ pc' = "ok"
  /\ hdr' = [hdr EXCEPT ![op.sect] = "valid"]
  /\ op' = NoOp
  /\ UNCHANGED <<log, job>>

RetiresFirst ==   \* mutant: the old sector before the new one
  /\ pc = "ready" /\ pc' = "retire"
  /\ hdr' = [hdr EXCEPT ![Other(op.sect)] = "invalid"]
  /\ UNCHANGED <<log, job, op>>
Ready ==
  /\ pc = "ready" /\ pc' = "retire"
  /\ hdr' = [hdr EXCEPT ![op.sect] = "ready"]
  /\ UNCHANGED <<log, job, op>>

Retire ==
  /\ pc = "retire" /\ pc' = "promote"
  /\ hdr' = [hdr EXCEPT ![Other(op.sect)] = "invalid"]
  /\ UNCHANGED <<log, job, op>>

Promote ==
  /\ pc = "promote" /\ pc' = "ok"
  /\ hdr' = [hdr EXCEPT ![op.sect] = "valid"]
  /\ op' = NoOp
  /\ UNCHANGED <<log, job>>

\* An entry cut short, or one whose item header is, can have nothing after it:
\* the next write sees it does not check and changes sector.
PowerFails ==
  /\ pc \notin Rest /\ pc' = "failed"
  /\ op' = NoOp
  /\ \/ UNCHANGED log
     \/ /\ pc \in {"index", "mark"}
        /\ log' = [log EXCEPT ![op.sect][op.at].state = "torn"]
  /\ UNCHANGED <<hdr, job>>

-------------------------------------------------------------------------------
Init ==
  /\ hdr = [s \in Sect |-> "idle"]
  /\ log = [s \in Sect |-> Erased]
  /\ pc = "ok"
  /\ job \in [item : Item, value : Value]
  /\ op = NoOp

Next ==
  \/ Settle \/ Begin \/ Format \/ Append \/ ChangeSector
  \/ DropDuplicate \/ CopyEntry \/ CopyEnds
  \/ Index \/ Mark \/ Old \/ Header \/ Ready \/ Retire \/ Promote
  \/ PowerFails

Spec == Init /\ [][Next]_vars

-------------------------------------------------------------------------------
(* Properties. *)

\* Every write of nv_flashWriteNewHandler goes to an existing entry of an
\* existing sector: the cursor that runs through the full log of one sector and
\* the one that fills the other never leave them.
TypeOK ==
  /\ hdr \in [Sect -> {"idle", "ready", "valid", "invalid"}]
  /\ log \in [Sect -> [1..Slots -> Entry]]
  /\ pc \in Rest \cup {"search", "copy", "index", "mark", "old", "header",
                       "ready", "retire", "promote"}
  /\ job \in [item : Item, value : Value]
  /\ op \in [sect : Sect, at : 1..Slots + 1, next : 1..Slots + 1,
             del : 0..Slots, update : BOOLEAN]
  /\ pc \in {"index", "mark", "old"} => op.at <= Slots

\* A write, with all its copying, invalidating and swapping of sectors, takes
\* effect as a whole or not at all wherever power is lost, and no other item
\* of the module is lost or changed with it.
Store == INSTANCE AtomicStore WITH
  stored <- Stored,
  status <- CASE pc = "ok" -> "ok"
              [] pc \in {"failed", "full"} -> "failed"
              [] OTHER -> "busy"
StoreIsAtomic == Store!Spec

\* As long as there are no more items than entries the write always finds room,
\* whatever losses of power have left in the log (drv_nv.c:716).
NeverFull == Cardinality(Item) <= Slots => pc # "full"
===============================================================================
