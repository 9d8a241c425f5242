---------------------------- MODULE NvModuleProof ------------------------------
(* Proofs about the flash storage, for every set of items and values and every  *)
(* size of a sector: the writes stay inside the sectors, the module never fills *)
(* up, and a write takes effect at one moment or not at all.                    *)
EXTENDS NvModule, NaturalsInduction, WellFoundedInduction, FiniteSetTheorems, TLAPS

-----------------------------------------------------------------------------
(* Logs: constant-level facts about the entries of one sector.                  *)

LEMMA HighestIs ==
  ASSUME NEW S, S \subseteq 1..Slots, S # {}
  PROVE  Highest(S) \in S /\ \A j \in S : j <= Highest(S)
<1>1. Slots \in Nat /\ \A k \in S : k \in Nat /\ k <= Slots
  BY SlotsAssumption
<1> DEFINE T == {Slots - k : k \in S}
<1>2. T \subseteq Nat /\ T # {}
  <2>1. \A k \in S : Slots - k \in Nat
    BY <1>1
  <2>2. PICK k \in S : TRUE
    OBVIOUS
  <2>3. Slots - k \in T
    BY <2>2
  <2> QED BY <2>1, <2>3
<1>3. PICK m \in T : \A n \in T : ~(<<n, m>> \in OpToRel(<, Nat))
  BY <1>2, NatLessThanWellFounded, WFMin
<1>4. ASSUME NEW n \in T PROVE ~(n < m)
  <2>1. n \in Nat /\ m \in Nat
    BY <1>2
  <2>2. n < m => <<n, m>> \in OpToRel(<, Nat)
    BY <2>1, Zenon DEF OpToRel
  <2> QED BY <1>3, <2>2
<1>5. PICK k \in S : m = Slots - k
  OBVIOUS
<1>6. ASSUME NEW j \in S PROVE j <= k
  <2>1. ~(Slots - j < m)
    BY <1>4
  <2> QED BY <1>1, <1>5, <2>1
<1> QED BY <1>5, <1>6 DEF Highest

LEMMA HighestUnique ==
  ASSUME NEW S, S \subseteq 1..Slots, NEW k \in S, \A j \in S : j <= k
  PROVE  Highest(S) = k
<1>1. Highest(S) \in S /\ \A j \in S : j <= Highest(S)
  BY HighestIs
<1>2. \A j \in S : j \in Int
  BY SlotsAssumption
<1> DEFINE h == Highest(S)
<1>3. h \in S /\ h <= k /\ k <= h
  BY <1>1
<1> HIDE DEF h
<1>4. h = k
  BY <1>2, <1>3
<1> QED BY <1>4 DEF h

LEMMA LiveIn == ASSUME NEW l, NEW i PROVE Live(l, i) \subseteq 1..Slots
BY DEF Live

\* two logs with the same valid entries of an item give it the same value
LEMMA SameValue ==
  ASSUME NEW l, NEW m, NEW i, Live(l, i) = Live(m, i),
         \A k \in Live(l, i) : l[k].value = m[k].value
  PROVE  ValueIn(l, i) = ValueIn(m, i)
<1>1. CASE Live(l, i) = {}
  BY <1>1 DEF ValueIn
<1>2. CASE Live(l, i) # {}
  BY <1>2, LiveIn, HighestIs DEF ValueIn
<1> QED BY <1>1, <1>2

\* m is the log l with the entry e in slot k
Put(l, m, k, e) == \A j \in 1..Slots : m[j] = IF j = k THEN e ELSE l[j]

\* an entry that is and stays without effect
LEMMA NoEffect ==
  ASSUME NEW l, NEW m, NEW k \in 1..Slots, NEW e, Put(l, m, k, e),
         l[k].state # "valid", e.state # "valid", NEW i
  PROVE  Live(m, i) = Live(l, i) /\ ValueIn(m, i) = ValueIn(l, i)
<1>1. \A n \in 1..Slots : m[n] = IF n = k THEN e ELSE l[n]
  BY DEF Put
<1>2. Live(m, i) = Live(l, i)
  BY <1>1 DEF Live
<1>3. \A j \in Live(l, i) : m[j] = l[j]
  BY <1>1 DEF Live
<1>4. ValueIn(l, i) = ValueIn(m, i)
  BY <1>2, <1>3, SameValue
<1> QED BY <1>2, <1>4

\* an older entry of the item is invalidated
LEMMA OlderDropped ==
  ASSUME NEW l, NEW m, NEW k \in 1..Slots, NEW e, Put(l, m, k, e), e.state # "valid",
         NEW j \in Live(l, l[k].item), k < j, NEW i
  PROVE  ValueIn(m, i) = ValueIn(l, i)
<1>1. \A n \in 1..Slots : m[n] = IF n = k THEN e ELSE l[n]
  BY DEF Put
<1>2. Live(m, i) = Live(l, i) \ {k}
  BY <1>1 DEF Live
<1>3. CASE i # l[k].item
  <2>1. k \notin Live(l, i)
    BY <1>3 DEF Live
  <2>2. \A n \in Live(l, i) : l[n].value = m[n].value
    BY <1>1, <2>1 DEF Live
  <2>3. Live(l, i) = Live(m, i)
    BY <1>2, <2>1
  <2>4. ValueIn(l, i) = ValueIn(m, i)
    BY <2>2, <2>3, SameValue
  <2> QED BY <2>4
<1>4. CASE i = l[k].item
  <2>0. PICK h : h = Highest(Live(l, i))
    OBVIOUS
  <2>1. h \in Live(l, i) /\ \A n \in Live(l, i) : n <= h
    BY <1>4, <2>0, LiveIn, HighestIs
  <2>2. h # k
    BY <1>4, <2>1, SlotsAssumption, LiveIn
  <2>3. h \in Live(m, i) /\ \A n \in Live(m, i) : n <= h
    BY <1>2, <2>1, <2>2
  <2>4. Highest(Live(m, i)) = h
    BY <2>3, LiveIn, HighestUnique
  <2>5. m[h] = l[h]
    BY <1>1, <2>1, <2>2, LiveIn
  <2> QED BY <2>0, <2>1, <2>3, <2>4, <2>5 DEF ValueIn
<1> QED BY <1>3, <1>4

\* a new entry becomes valid behind all the others
LEMMA NewestWins ==
  ASSUME NEW l, NEW m, NEW k \in 1..Slots, NEW e, Put(l, m, k, e), e.state = "valid",
         \A j \in 1..Slots : j >= k => l[j].state # "valid", NEW i
  PROVE  ValueIn(m, i) = IF i = e.item THEN e.value ELSE ValueIn(l, i)
<1>1. \A n \in 1..Slots : m[n] = IF n = k THEN e ELSE l[n]
  BY DEF Put
<1>2. CASE i = e.item
  <2>1. k \in Live(m, i)
    BY <1>1, <1>2 DEF Live
  <2>2. \A n \in Live(m, i) : n <= k
    <3> SUFFICES ASSUME NEW n \in Live(m, i), ~(n <= k) PROVE FALSE
      OBVIOUS
    <3>1. n \in 1..Slots /\ m[n].state = "valid"
      BY DEF Live
    <3>2. n # k /\ n >= k
      BY <3>1, SlotsAssumption
    <3> QED BY <1>1, <3>1, <3>2
  <2>3. Highest(Live(m, i)) = k
    BY <2>1, <2>2, LiveIn, HighestUnique
  <2> QED BY <1>1, <1>2, <2>1, <2>3 DEF ValueIn
<1>3. CASE i # e.item
  <2>1. k \notin Live(l, i) /\ k \notin Live(m, i)
    <3>1. k >= k
      BY SlotsAssumption
    <3> QED BY <1>1, <1>3, <3>1 DEF Live
  <2>2. Live(l, i) = Live(m, i)
    BY <1>1, <2>1 DEF Live
  <2>3. \A n \in Live(l, i) : l[n].value = m[n].value
    BY <1>1, <2>1, LiveIn
  <2>4. ValueIn(l, i) = ValueIn(m, i)
    BY <2>2, <2>3, SameValue
  <2> QED BY <1>3, <2>4
<1> QED BY <1>2, <1>3

LEMMA ErasedLog == Erased \in [1..Slots -> Entry] /\ \A i : Live(Erased, i) = {}
BY DEF Erased, Blank, Entry, Live

-----------------------------------------------------------------------------
(* The invariant. Of the three ways to write: the first log of the module, the  *)
(* log in use, and the other sector while the log in use stays what it is.      *)

Fresh == ~op.update /\ op.sect = 0 /\ op.at = 1 /\ ~Found
Appending == ~op.update /\ hdr[op.sect] = "valid" /\ Active = op.sect
Moving == op.update /\ hdr[op.sect] = "idle" /\ hdr[Other(op.sect)] = "valid"

\* the entries of a log come before what was cut short, and that before the rest
Closed(l) == \A j, k \in 1..Slots :
               j < k /\ l[j].state \in {"idle", "torn"} => l[k].state = "idle"
\* the next entry of the log goes into slot a
NextIs(l, a) == \A k \in 1..Slots :
               IF k < a THEN l[k].state \notin {"idle", "torn"} ELSE l[k].state = "idle"
\* the entry in slot a is the last of the log
LastIs(l, a) == \A k \in 1..Slots :
               /\ k < a => l[k].state \notin {"idle", "torn"}
               /\ k > a => l[k].state = "idle"

\* what the sector being written holds of the other items, and of the item
Others == \A i \in Item : i # job.item => ValueIn(To, i) = Stored[i]
Written == ValueIn(To, job.item) = job.value
DelOlder == op.del = 0 \/ (op.del < op.at /\ To[op.del].item = job.item)

\* what lies before the cursor is copied, and once anything is, the log it is
\* copied from has one entry of each item
Copied(i) == IF \E k \in Live(From, i) : k < op.next
             THEN ValueIn(To, i) = ValueIn(From, i) ELSE Live(To, i) = {}
CopyInv ==
  /\ Moving /\ NextIs(To, op.at)
  /\ op.next > 1 => Duplicates(From) = {}
  /\ \A i \in Item : i # job.item => Copied(i)

TypeInv ==
  /\ TypeOK
  /\ pc = "copy" => op.at <= op.next

IInv ==
  /\ TypeInv
  /\ \A s \in Sect : Closed(log[s])
  /\ pc = "copy" => CopyInv
  /\ pc \in {"index", "mark", "old"} => (Fresh \/ Appending \/ Moving) /\ Others
  /\ pc = "index" => NextIs(To, op.at)
  /\ pc \in {"mark", "old"} => LastIs(To, op.at) /\ DelOlder
  /\ pc = "mark" => To[op.at] = [item |-> job.item, value |-> job.value, state |-> "operation"]
  /\ pc = "old" => To[op.at] = [item |-> job.item, value |-> job.value, state |-> "valid"]
  /\ pc \in {"header", "ready", "retire", "promote"} => Written /\ Others
  /\ pc = "header" => Fresh \/ Appending
  /\ pc = "ready" => Moving
  /\ pc = "retire" => hdr[op.sect] = "ready" /\ hdr[Other(op.sect)] = "valid"
  /\ pc = "promote" => hdr[op.sect] = "ready" /\ hdr[Other(op.sect)] = "invalid"

-----------------------------------------------------------------------------
(* Types.                                                                        *)

LEMMA Sizes == Slots \in Nat /\ Slots >= 1 /\ 1 \in 1..Slots /\ \A s \in Sect : Other(s) \in Sect /\ Other(s) # s
BY SlotsAssumption DEF Sect, Other

OpType == [sect : Sect, at : 1..Slots + 1, next : 1..Slots + 1, del : 0..Slots, update : BOOLEAN]

LEMMA NoOpType == NoOp \in [sect : Sect, at : 1..Slots + 1, next : 1..Slots + 1, del : 0..Slots, update : BOOLEAN]
BY Sizes DEF NoOp, Sect

\* the sector that is found, and the slot behind the last entry of its log
LEMMA ActiveType == Active \in Sect /\ (Found => Usable(Active))
BY DEF Active, Found, Sect

LEMMA LastType ==
  ASSUME NEW l
  PROVE  /\ Last(l) \in 0..Slots
         /\ \A k \in 1..Slots : k > Last(l) => l[k].state = "idle"
         /\ Last(l) # 0 => l[Last(l)].state # "idle"
<1>1. Used(l) \subseteq 1..Slots
  BY DEF Used
<1>2. CASE Used(l) = {}
  <2>1. \A k \in 1..Slots : l[k].state = "idle"
    BY <1>2 DEF Used
  <2> QED BY <1>2, <2>1, Sizes DEF Last
<1>3. CASE Used(l) # {}
  <2>1. PICK h : h = Highest(Used(l))
    OBVIOUS
  <2>2. h \in Used(l) /\ \A j \in Used(l) : j <= h
    BY <1>1, <1>3, <2>1, HighestIs
  <2>3. Last(l) = h /\ h \in 1..Slots /\ l[h].state # "idle"
    BY <1>3, <2>1, <2>2 DEF Last, Used
  <2>4. \A k \in 1..Slots : k > h => k \notin Used(l)
    BY <2>2, <2>3, Sizes
  <2>5. \A k \in 1..Slots : k > h => l[k].state = "idle"
    BY <2>4 DEF Used
  <2> QED BY <2>3, <2>5, Sizes
<1> QED BY <1>2, <1>3

\* one entry of one sector's log is written
LEMMA Writes ==
  ASSUME TypeOK, NEW s \in Sect, NEW k \in 1..Slots, NEW e \in Entry,
         log' = [log EXCEPT ![s][k] = e]
  PROVE  /\ log' \in [Sect -> [1..Slots -> Entry]]
         /\ Put(log[s], log'[s], k, e)
         /\ log'[Other(s)] = log[Other(s)]
<1>1. log \in [Sect -> [1..Slots -> Entry]]
  BY DEF TypeOK
<1>2. log' = [log EXCEPT ![s] = [log[s] EXCEPT ![k] = e]] /\ log[s] \in [1..Slots -> Entry]
  BY <1>1
<1>3. log'[s] = [log[s] EXCEPT ![k] = e] /\ log'[s] \in [1..Slots -> Entry]
  BY <1>1, <1>2
<1>4. Put(log[s], log'[s], k, e)
  BY <1>2, <1>3 DEF Put
<1>5. log'[Other(s)] = log[Other(s)]
  BY <1>1, <1>2, Sizes
<1> QED BY <1>1, <1>2, <1>3, <1>4, <1>5

States == {"idle", "torn", "operation", "valid", "invalid"}

LEMMA Marks ==
  ASSUME TypeOK, NEW s \in Sect, NEW k \in 1..Slots, NEW x \in States,
         log' = [log EXCEPT ![s][k].state = x]
  PROVE  LET e == [item |-> log[s][k].item, value |-> log[s][k].value, state |-> x]
         IN  /\ e \in Entry
             /\ log' \in [Sect -> [1..Slots -> Entry]]
             /\ Put(log[s], log'[s], k, e)
             /\ log'[Other(s)] = log[Other(s)]
<1> DEFINE e == [item |-> log[s][k].item, value |-> log[s][k].value, state |-> x]
<1>1. log[s][k] \in Entry
  BY DEF TypeOK
<1>2. e \in Entry /\ e = [log[s][k] EXCEPT !.state = x]
  BY <1>1 DEF Entry, States
<1>3. log' = [log EXCEPT ![s][k] = e]
  BY <1>2
<1> HIDE DEF e
<1>4. /\ log' \in [Sect -> [1..Slots -> Entry]]
      /\ Put(log[s], log'[s], k, e)
      /\ log'[Other(s)] = log[Other(s)]
  BY <1>2, <1>3, Writes
<1> QED BY <1>2, <1>4 DEF e

LEMMA LogErased ==
  ASSUME TypeOK, NEW s \in Sect, log' = [log EXCEPT ![s] = Erased]
  PROVE  /\ log' \in [Sect -> [1..Slots -> Entry]]
         /\ log'[s] = Erased /\ log'[Other(s)] = log[Other(s)]
BY ErasedLog, Sizes DEF TypeOK

LEMMA DuplicateType ==
  ASSUME NEW l, Duplicates(l) # {}
  PROVE  /\ Highest(Duplicates(l)) \in 1..Slots
         /\ l[Highest(Duplicates(l))].state = "valid"
         /\ Highest(Duplicates(l)) # Highest(Live(l, l[Highest(Duplicates(l))].item))
<1>1. Duplicates(l) \subseteq 1..Slots
  BY DEF Duplicates
<1>2. Highest(Duplicates(l)) \in Duplicates(l)
  BY <1>1, HighestIs
<1> QED BY <1>2 DEF Duplicates

LEMMA InitialTypes == Init => TypeInv
BY ErasedLog, NoOpType, Sizes DEF Init, TypeInv, TypeOK, Rest, Sect, NoOp

LEMMA StepKeepsTypes ==
  ASSUME TypeInv, [Next]_vars
  PROVE  TypeInv'
<1> USE DEF TypeInv, TypeOK, Rest
<1>1. CASE Settle
  BY <1>1, ActiveType DEF Settle
<1>2. CASE Begin
  BY <1>2 DEF Begin
<1>3. CASE Format
  <2>1. log' \in [Sect -> [1..Slots -> Entry]]
    BY <1>3, LogErased DEF Format, Sect
  <2> QED BY <1>3, <2>1, NoOpType, Sizes DEF Format, NoOp, Sect
<1>4. CASE Append
  <2>1. Last(log[Active]) \in 0..Slots /\ Last(log[Active]) < Slots
    BY <1>4, LastType DEF Append, Appendable
  <2>2. Last(log[Active]) + 1 \in 1..Slots
    BY <2>1, Sizes
  <2>3. op' = [sect |-> Active, at |-> Last(log[Active]) + 1, next |-> 1, del |-> 0, update |-> FALSE]
    BY <1>4 DEF Append, NoOp
  <2>4. op' \in OpType
    BY <2>2, <2>3, ActiveType, Sizes DEF OpType
  <2>5. op'.at \in 1..Slots
    BY <2>2, <2>3
  <2> QED BY <1>4, <2>4, <2>5, Sizes DEF Append, OpType
<1>5. CASE ChangeSector
  <2>1. Other(Active) \in Sect
    BY ActiveType, Sizes
  <2>2. log' \in [Sect -> [1..Slots -> Entry]]
    BY <1>5, <2>1, LogErased DEF ChangeSector
  <2>3. op' = [sect |-> Other(Active), at |-> 1, next |-> 1, del |-> 0, update |-> TRUE]
    BY <1>5 DEF ChangeSector, NoOp
  <2>4. op' \in OpType /\ op'.at <= op'.next
    BY <2>1, <2>3, Sizes DEF OpType
  <2>5. hdr' \in [Sect -> {"idle", "ready", "valid", "invalid"}]
    BY <1>5 DEF ChangeSector
  <2> QED BY <1>5, <2>2, <2>4, <2>5 DEF ChangeSector, OpType
<1>6. CASE DropDuplicate
  <2>1. Highest(Duplicates(From)) \in 1..Slots /\ Other(op.sect) \in Sect
    BY <1>6, DuplicateType, Sizes DEF DropDuplicate
  <2>2. log' \in [Sect -> [1..Slots -> Entry]]
    BY <1>6, <2>1, Marks DEF DropDuplicate, States
  <2> QED BY <1>6, <2>2 DEF DropDuplicate
<1>7. CASE CopyEntry
  <2>1. op.next \in 1..Slots /\ op.at \in 1..Slots /\ op.at <= op.next
    BY <1>7, Sizes DEF CopyEntry, EndOfLog
  <2>2. op' = [op EXCEPT !.at = @ + 1, !.next = @ + 1] \/ op' = [op EXCEPT !.next = @ + 1]
    BY <1>7 DEF CopyEntry
  <2>3. /\ op' \in [sect : Sect, at : 1..Slots + 1, next : 1..Slots + 1, del : 0..Slots, update : BOOLEAN]
        /\ op'.at <= op'.next
    <3>1. op.next + 1 \in 1..Slots + 1 /\ op.at + 1 \in 1..Slots + 1 /\ op.at <= op.next + 1 /\ op.at + 1 <= op.next + 1
      BY <2>1, Sizes
    <3> QED BY <2>2, <3>1
  <2>4. From[op.next] \in Entry
    BY <2>1, Sizes DEF From
  <2>5. log' \in [Sect -> [1..Slots -> Entry]]
    BY <1>7, <2>1, <2>4, Writes DEF CopyEntry
  <2> QED BY <1>7, <2>3, <2>5 DEF CopyEntry
<1>8. CASE CopyEnds
  <2>1. op.at > Slots \/ op.at <= Slots
    BY Sizes
  <2> QED BY <1>8, <2>1, NoOpType, Sizes DEF CopyEnds
<1>9. CASE Index
  <2> DEFINE e == [item |-> job.item, value |-> job.value, state |-> "operation"]
  <2>1. e \in Entry
    BY DEF Entry
  <2>2. op.at \in 1..Slots
    BY <1>9, Sizes DEF Index
  <2>3. log' = [log EXCEPT ![op.sect][op.at] = e]
    BY <1>9 DEF Index
  <2>4. log' \in [Sect -> [1..Slots -> Entry]]
    <3> HIDE DEF e
    <3> QED BY <2>1, <2>2, <2>3, Writes
  <2>5. Live(To, job.item) # {} => Highest(Live(To, job.item)) \in 1..Slots
    BY LiveIn, HighestIs
  <2>6. op' \in [sect : Sect, at : 1..Slots + 1, next : 1..Slots + 1, del : 0..Slots, update : BOOLEAN] /\ op'.at = op.at
    BY <1>9, <2>5, Sizes DEF Index
  <2> QED BY <1>9, <2>2, <2>4, <2>6 DEF Index
<1>10. CASE Mark
  <2>1. op.at \in 1..Slots
    BY <1>10, Sizes DEF Mark
  <2>2. log' \in [Sect -> [1..Slots -> Entry]]
    BY <1>10, <2>1, Marks DEF Mark, States
  <2> QED BY <1>10, <2>2 DEF Mark
<1>11. CASE Old
  <2>1. log' \in [Sect -> [1..Slots -> Entry]]
    <3>1. CASE op.del = 0
      BY <1>11, <3>1 DEF Old
    <3>2. CASE op.del # 0
      <4>1. op.del \in 1..Slots
        BY <3>2, Sizes
      <4> QED BY <1>11, <3>2, <4>1, Marks DEF Old, States
    <3> QED BY <3>1, <3>2
  <2> QED BY <1>11, <2>1, NoOpType DEF Old
<1>12. CASE Header \/ Ready \/ Retire \/ Promote
  BY <1>12, NoOpType, Sizes DEF Header, Ready, Retire, Promote
<1>13. CASE PowerFails
  <2>1. log' \in [Sect -> [1..Slots -> Entry]]
    <3>1. CASE pc \in {"index", "mark"} /\ log' = [log EXCEPT ![op.sect][op.at].state = "torn"]
      <4>1. op.at \in 1..Slots
        BY <3>1, Sizes
      <4> QED BY <3>1, <4>1, Marks DEF States
    <3> QED BY <1>13, <3>1 DEF PowerFails
  <2> QED BY <1>13, <2>1, NoOpType DEF PowerFails
<1>14. CASE UNCHANGED vars
  BY <1>14 DEF vars
<1> QED BY <1>1, <1>2, <1>3, <1>4, <1>5, <1>6, <1>7, <1>8, <1>9, <1>10, <1>11, <1>12, <1>13, <1>14 DEF Next

(* No write of the storage leaves the sectors of the module or their log, for   *)
(* any number of entries and any sequence of writes and losses of power.        *)
THEOREM TypeCorrect == Spec => []TypeOK
<1>1. TypeInv => TypeOK
  BY DEF TypeInv
<1> QED BY <1>1, InitialTypes, StepKeepsTypes, PTL DEF Spec

-----------------------------------------------------------------------------
(* What is stored, and the shape of the logs.                                   *)

LEMMA StoredSame ==
  ASSUME Found' <=> Found,
         Found => Active' = Active /\ \A i : ValueIn(log'[Active], i) = ValueIn(log[Active], i)
  PROVE  Stored' = Stored
BY DEF Stored

\* the sector that was written is the one in use now
LEMMA Switched ==
  ASSUME Written, Others, job \in [item : Item, value : Value], log' = log, Found', Active' = op.sect
  PROVE  /\ Stored' = [Stored EXCEPT ![job.item] = job.value]
         /\ \A i \in Item : Stored'[i] = ValueIn(To, i)
<1>1. Stored' = [i \in Item |-> ValueIn(To, i)]
  BY DEF Stored, To
<1>2. Stored = [i \in Item |-> Stored[i]]
  BY DEF Stored
<1>3. \A i \in Item : ValueIn(To, i) = IF i = job.item THEN job.value ELSE Stored[i]
  BY DEF Written, Others
<1> QED BY <1>1, <1>2, <1>3

LEMMA LastCloses ==
  ASSUME NEW l, NEW a \in Int, LastIs(l, a)
  PROVE  Closed(l)
<1> SUFFICES ASSUME NEW j \in 1..Slots, NEW k \in 1..Slots, j < k, l[j].state \in {"idle", "torn"}
             PROVE  l[k].state = "idle"
  BY DEF Closed
<1>1. ~(j < a)
  BY DEF LastIs
<1>2. k > a
  BY <1>1, Sizes
<1> QED BY <1>2 DEF LastIs

LEMMA NextIsLast == ASSUME NEW l, NEW a \in Int, NextIs(l, a) PROVE LastIs(l, a)
<1>1. \A k \in 1..Slots : k > a => ~(k < a)
  BY Sizes
<1> QED BY <1>1 DEF NextIs, LastIs

\* writing the last slot, or one before it, leaves the log as long as it is
LEMMA PutKeeps ==
  ASSUME NEW l, NEW m, NEW k \in 1..Slots, NEW e, Put(l, m, k, e), NEW a \in Int, LastIs(l, a),
         k = a \/ (k < a /\ e.state \notin {"idle", "torn"})
  PROVE  LastIs(m, a)
<1>1. \A j \in 1..Slots : m[j] = IF j = k THEN e ELSE l[j]
  BY DEF Put
<1> SUFFICES ASSUME NEW j \in 1..Slots
             PROVE  /\ j < a => m[j].state \notin {"idle", "torn"}
                    /\ j > a => m[j].state = "idle"
  BY DEF LastIs
<1>2. CASE j = k
  BY <1>1, <1>2, Sizes
<1>3. CASE j # k
  BY <1>1, <1>3 DEF LastIs
<1> QED BY <1>2, <1>3

LEMMA NewestIs ==
  ASSUME NEW l, NEW k \in 1..Slots, l[k].state = "valid", LastIs(l, k)
  PROVE  k \in Live(l, l[k].item) /\ ValueIn(l, l[k].item) = l[k].value
<1>1. k \in Live(l, l[k].item)
  BY DEF Live
<1>2. ASSUME NEW j \in Live(l, l[k].item) PROVE j <= k
  <2>1. j \in 1..Slots /\ l[j].state = "valid"
    BY DEF Live
  <2>2. ~(j > k)
    BY <2>1 DEF LastIs
  <2> QED BY <2>1, <2>2, Sizes
<1>3. Highest(Live(l, l[k].item)) = k
  BY <1>1, <1>2, LiveIn, HighestUnique
<1> QED BY <1>1, <1>3 DEF ValueIn

-----------------------------------------------------------------------------
(* What a step does to what is stored: nothing, or it makes the write effective. *)

Applied == [Stored EXCEPT ![job.item] = job.value]
Outcome ==
  /\ Stored' = Stored \/ (pc \notin Rest /\ pc' \notin {"failed", "full"} /\ Stored' = Applied)
  /\ pc \notin Rest /\ pc' = "ok" => Stored' = Applied

LEMMA Resting ==
  ASSUME TypeInv', pc' \in Rest \cup {"search"}, \A s \in Sect : Closed(log'[s])
  PROVE  IInv'
BY DEF IInv, Rest

LEMMA SettleStep ==
  ASSUME IInv, TypeInv', Settle
  PROVE  IInv' /\ Outcome
<1>1. PICK both \in BOOLEAN :
        hdr' = [s \in Sect |-> IF s # Active THEN "invalid" ELSE IF both THEN "valid" ELSE "ready"]
  BY DEF Settle
<1>2. Found' /\ Active' = Active
  BY <1>1 DEF Settle, Found, Active, Usable, Sect
<1>3. Stored' = Stored
  BY <1>2, StoredSame DEF Settle
<1>4. IInv'
  BY Resting DEF Settle, IInv
<1> QED BY <1>3, <1>4 DEF Outcome, Settle, Rest

LEMMA BeginStep ==
  ASSUME IInv, TypeInv', Begin
  PROVE  IInv' /\ Stored' = Stored
<1>1. Stored' = Stored
  BY DEF Begin, Stored, Found, Active, Usable
<1> QED BY <1>1, Resting DEF Begin, IInv

LEMMA FormatStep ==
  ASSUME IInv, TypeInv', Format
  PROVE  IInv' /\ Outcome
<1>0. hdr \in [Sect -> {"idle", "ready", "valid", "invalid"}] /\ 0 \in Sect /\ TypeOK /\ Other(0) = 1
  BY DEF IInv, TypeInv, TypeOK, Sect, Other
<1>1. ~Found'
  BY <1>0 DEF Format, Found, Usable
<1>2. Stored' = Stored
  BY <1>1, StoredSame DEF Format
<1>3. log'[0] = Erased /\ log'[1] = log[1]
  BY <1>0, LogErased DEF Format
<1>4. NextIs(Erased, 1)
  BY Sizes DEF NextIs, Erased, Blank
<1>5. \A s \in Sect : Closed(log'[s])
  BY <1>3, <1>4, NextIsLast, LastCloses DEF Sect, IInv
<1>6. op' = NoOp /\ op'.sect = 0 /\ op'.at = 1 /\ op'.update = FALSE
  BY DEF Format, NoOp
<1>7. Fresh'
  BY <1>1, <1>6 DEF Fresh
<1>8. To' = Erased
  BY <1>3, <1>6 DEF To
<1>9. Others'
  <2>1. \A i \in Item : Stored'[i] = None
    BY <1>1 DEF Stored
  <2>2. \A i : ValueIn(Erased, i) = None
    BY ErasedLog DEF ValueIn
  <2> QED BY <1>8, <2>1, <2>2 DEF Others
<1>10. IInv'
  BY <1>4, <1>5, <1>6, <1>7, <1>8, <1>9 DEF IInv, Format
<1> QED BY <1>2, <1>10 DEF Outcome, Format

LEMMA AppendStep ==
  ASSUME IInv, TypeInv', Append
  PROVE  IInv' /\ Outcome
<1>1. UNCHANGED <<hdr, log, job>> /\ pc = "search" /\ pc' = "index" /\ Found /\ hdr[Active] = "valid"
  BY DEF Append
<1>2. Stored' = Stored /\ Active' = Active
  BY <1>1 DEF Stored, Found, Active, Usable
<1>3. op'.sect = Active /\ op'.update = FALSE /\ op'.at = Last(log[Active]) + 1
  BY DEF Append, NoOp
<1>4. Appending'
  BY <1>1, <1>2, <1>3 DEF Appending
<1>5. To' = log[Active]
  BY <1>1, <1>3 DEF To
<1>6. Others'
  BY <1>1, <1>2, <1>5 DEF Others, Stored
<1>7. NextIs(log[Active], Last(log[Active]) + 1)
  <2> DEFINE l == log[Active]
             n == Last(l)
  <2>1. n \in 0..Slots /\ \A k \in 1..Slots : k > n => l[k].state = "idle"
    BY LastType
  <2>2. n # 0 => l[n].state \notin {"idle", "torn"}
    <3>1. Appendable(l)
      BY DEF Append
    <3> QED BY <2>1, <3>1, LastType, Sizes DEF Appendable
  <2>3. Closed(l)
    BY ActiveType DEF IInv
  <2>4. ASSUME NEW k \in 1..Slots, k <= n PROVE l[k].state \notin {"idle", "torn"}
    <3>1. n # 0 /\ n \in 1..Slots /\ (k = n \/ k < n)
      BY <2>1, <2>4, Sizes
    <3> HIDE DEF n, l
    <3> QED BY <2>2, <2>3, <3>1 DEF Closed
  <2> HIDE DEF n, l
  <2>5. \A k \in 1..Slots : (k < n + 1 <=> k <= n) /\ (~(k < n + 1) <=> k > n)
    BY <2>1, Sizes
  <2>6. NextIs(l, n + 1)
    BY <2>1, <2>4, <2>5 DEF NextIs
  <2> QED BY <2>6 DEF l, n
<1>8. IInv'
  BY <1>1, <1>3, <1>4, <1>5, <1>6, <1>7 DEF IInv
<1> QED BY <1>1, <1>2, <1>8 DEF Outcome

LEMMA ChangeSectorStep ==
  ASSUME IInv, TypeInv', ChangeSector
  PROVE  IInv' /\ Outcome
<1>0. PICK s \in Sect : s = Active
  BY ActiveType
<1>1. /\ pc = "search" /\ pc' = "copy" /\ job' = job /\ Found /\ hdr[s] = "valid"
      /\ hdr' = [hdr EXCEPT ![Other(s)] = "idle"] /\ log' = [log EXCEPT ![Other(s)] = Erased]
  BY <1>0 DEF ChangeSector
<1>2. TypeOK /\ Other(s) \in Sect /\ Other(s) # s /\ Other(Other(s)) = s
  BY Sizes DEF IInv, TypeInv, Other, Sect
<1>3. hdr'[s] = "valid" /\ hdr'[Other(s)] = "idle"
  BY <1>1, <1>2 DEF TypeOK
<1>4. Found' /\ Active' = s
  BY <1>0, <1>1, <1>2, <1>3 DEF Found, Active, Usable, Sect, Other
<1>5. log'[Other(s)] = Erased /\ log'[s] = log[s]
  BY <1>1, <1>2, LogErased
<1>6. Stored' = Stored
  BY <1>0, <1>1, <1>4, <1>5, StoredSame
<1>7. op'.sect = Other(s) /\ op'.at = 1 /\ op'.next = 1 /\ op'.update = TRUE
  BY <1>0 DEF ChangeSector, NoOp
<1>8. To' = Erased /\ From' = log[s]
  BY <1>2, <1>5, <1>7 DEF To, From
<1>9. NextIs(Erased, 1)
  BY Sizes DEF NextIs, Erased, Blank
<1>10. Moving'
  BY <1>2, <1>3, <1>7 DEF Moving
<1>11. \A i \in Item : Copied(i)'
  <2>1. \A i : \A k \in Live(log[s], i) : ~(k < 1)
    BY LiveIn, Sizes
  <2> QED BY <1>7, <1>8, <2>1, ErasedLog DEF Copied
<1>12. CopyInv'
  BY <1>7, <1>8, <1>9, <1>10, <1>11 DEF CopyInv
<1>13. \A t \in Sect : Closed(log'[t])
  <2>1. \A t \in Sect : t = s \/ t = Other(s)
    BY DEF Sect, Other
  <2> QED BY <1>5, <1>9, <2>1, NextIsLast, LastCloses DEF IInv
<1>14. IInv'
  BY <1>1, <1>12, <1>13 DEF IInv
<1> QED BY <1>1, <1>6, <1>14 DEF Outcome

LEMMA Sectors ==
  ASSUME IInv
  PROVE  /\ TypeOK /\ op \in OpType /\ op.sect \in Sect /\ Other(op.sect) \in Sect
         /\ Other(op.sect) # op.sect /\ \A t \in Sect : t = op.sect \/ t = Other(op.sect)
BY Sizes DEF IInv, TypeInv, TypeOK, OpType, Sect, Other

\* a write to the sector in use shows, one to the other sector does not
LEMMA OnlyTo ==
  ASSUME IInv, hdr' = hdr, log'[Other(op.sect)] = log[Other(op.sect)],
         (Fresh \/ Moving) \/ (Appending /\ \A i : ValueIn(log'[op.sect], i) = ValueIn(log[op.sect], i))
  PROVE  Stored' = Stored
<1>1. (Found' <=> Found) /\ Active' = Active
  BY DEF Found, Active, Usable
<1>2. CASE Fresh
  BY <1>1, <1>2, StoredSame DEF Fresh
<1>3. CASE Moving
  <2>1. Active = Other(op.sect)
    BY <1>3, Sectors DEF Moving, Active, Usable, Sect, Other
  <2> QED BY <1>1, <2>1, StoredSame
<1>4. CASE Appending /\ \A i : ValueIn(log'[op.sect], i) = ValueIn(log[op.sect], i)
  BY <1>1, <1>4, StoredSame DEF Appending
<1> QED BY <1>2, <1>3, <1>4

LEMMA ModesKept ==
  ASSUME hdr' = hdr, op'.sect = op.sect, op'.at = op.at, op'.update = op.update
  PROVE  /\ Fresh' = Fresh /\ Appending' = Appending /\ Moving' = Moving
         /\ Found' = Found /\ Active' = Active
BY DEF Fresh, Appending, Moving, Found, Active, Usable

LEMMA DropDuplicateStep ==
  ASSUME IInv, TypeInv', DropDuplicate
  PROVE  IInv' /\ Outcome
<1>0. /\ pc = "copy" /\ pc' = "copy" /\ hdr' = hdr /\ job' = job /\ op' = op /\ Duplicates(From) # {}
      /\ TypeOK /\ CopyInv /\ Moving
  BY Sectors DEF DropDuplicate, IInv, CopyInv
<1>1. PICK s \in Sect : s = Other(op.sect)
  BY Sectors
<1>2. PICK k \in 1..Slots : k = Highest(Duplicates(From))
  BY <1>0, DuplicateType
<1>3. From = log[s] /\ log[s][k].state = "valid" /\ k # Highest(Live(log[s], log[s][k].item))
  BY <1>0, <1>1, <1>2, DuplicateType DEF From
<1>4. log' = [log EXCEPT ![s][k].state = "invalid"]
  BY <1>1, <1>2 DEF DropDuplicate
<1> DEFINE e == [item |-> log[s][k].item, value |-> log[s][k].value, state |-> "invalid"]
<1>5. Put(log[s], log'[s], k, e) /\ log'[Other(s)] = log[Other(s)]
  BY <1>0, <1>4, Marks DEF States
<1>6. e.state = "invalid"
  OBVIOUS
<1> HIDE DEF e
<1>7. PICK h \in Live(log[s], log[s][k].item) : k < h
  <2>1. k \in Live(log[s], log[s][k].item)
    BY <1>3 DEF Live
  <2>2. PICK h : h = Highest(Live(log[s], log[s][k].item))
    OBVIOUS
  <2>3. h \in Live(log[s], log[s][k].item) /\ k <= h /\ k # h
    BY <1>3, <2>1, <2>2, LiveIn, HighestIs
  <2>4. k < h
    BY <2>3, LiveIn, Sizes
  <2> QED BY <2>3, <2>4
<1>8. \A i : ValueIn(log'[s], i) = ValueIn(log[s], i)
  BY <1>5, <1>6, <1>7, OlderDropped
<1>9. Other(s) = op.sect /\ log'[op.sect] = log[op.sect]
  BY <1>1, <1>5, Sectors DEF Sect, Other
<1>10. Active = s /\ Active' = s /\ Found' /\ Found
  BY <1>0, <1>1, Sectors DEF Moving, Active, Usable, Found, Sect, Other
<1>11. Stored' = Stored
  BY <1>8, <1>10, StoredSame
<1>12. op.next = 1
  BY <1>0, Sectors, Sizes DEF CopyInv, OpType
<1>13. \A i \in Item : i # job.item => Copied(i)'
  <2>1. To' = To
    BY <1>0, <1>9 DEF To
  <2>2. \A l, i : \A n \in Live(l, i) : ~(n < 1)
    BY LiveIn, Sizes
  <2>3. \A i \in Item : i # job.item => Live(To, i) = {}
    BY <1>0, <1>12, <2>2 DEF CopyInv, Copied
  <2> QED BY <1>0, <1>12, <2>1, <2>2, <2>3 DEF Copied
<1>14. CopyInv'
  <2>1. Moving' /\ op'.next = 1
    BY <1>0, <1>12, ModesKept
  <2>2. NextIs(To', op'.at)
    BY <1>0, <1>9 DEF CopyInv, To
  <2> QED BY <1>0, <1>13, <2>1, <2>2, Sizes DEF CopyInv
<1>15. Closed(log'[s])
  <2>1. Closed(log[s]) /\ \A n \in 1..Slots : log'[s][n] = IF n = k THEN e ELSE log[s][n]
    BY <1>5 DEF IInv, Put
  <2>2. \A n \in 1..Slots : log'[s][n].state \in {"idle", "torn"} => log[s][n].state \in {"idle", "torn"}
    BY <1>6, <2>1
  <2>3. \A n \in 1..Slots : log[s][n].state = "idle" => log'[s][n].state = "idle"
    BY <1>3, <2>1
  <2> QED BY <2>1, <2>2, <2>3 DEF Closed
<1>16. \A t \in Sect : Closed(log'[t])
  BY <1>1, <1>9, <1>15, Sectors DEF IInv
<1>17. IInv'
  BY <1>0, <1>14, <1>16 DEF IInv
<1> QED BY <1>0, <1>11, <1>17 DEF Outcome

LEMMA CopyEntryStep ==
  ASSUME IInv, TypeInv', CopyEntry
  PROVE  IInv' /\ Outcome
<1>0. /\ pc = "copy" /\ pc' = "copy" /\ hdr' = hdr /\ job' = job /\ Duplicates(From) = {}
      /\ ~EndOfLog(From, op.next)
      /\ TypeOK /\ CopyInv /\ Moving /\ op.at <= op.next
  BY Sectors DEF CopyEntry, IInv, CopyInv, TypeInv
<1>1. op \in OpType /\ op.at \in 1..Slots /\ op.next \in 1..Slots /\ op.sect \in Sect
  BY <1>0, Sectors, Sizes DEF EndOfLog, OpType
<1>11. From[op.next] \in Entry
  <2>1. log \in [Sect -> [1..Slots -> Entry]] /\ Other(op.sect) \in Sect
    BY <1>0, Sectors DEF TypeOK
  <2>2. From \in [1..Slots -> Entry]
    BY <2>1 DEF From
  <2> QED BY <1>1, <2>2
<1>2. \A i : \A k \in Live(From, i) : k = Highest(Live(From, i))
  BY <1>0, LiveIn DEF Duplicates, Live
<1>3. \A i : \A k \in Live(From, i) : Live(From, i) = {k} /\ ValueIn(From, i) = From[k].value
  <2> SUFFICES ASSUME NEW i, NEW k \in Live(From, i)
               PROVE  Live(From, i) = {k} /\ ValueIn(From, i) = From[k].value
    OBVIOUS
  <2>1. k = Highest(Live(From, i)) /\ \A n \in Live(From, i) : n = Highest(Live(From, i))
    BY <1>2
  <2>2. \A n \in Live(From, i) : n = k
    BY <2>1
  <2> QED BY <2>1, <2>2 DEF ValueIn
<1>4. op'.sect = op.sect /\ op'.next = op.next + 1 /\ op'.update = op.update
  BY <1>1 DEF CopyEntry, OpType
<1>5. log'[Other(op.sect)] = log[Other(op.sect)] /\ From' = From
  <2>1. log'[Other(op.sect)] = log[Other(op.sect)]
    <3>2. CASE Kept(From[op.next])
      <4>1. log' = [log EXCEPT ![op.sect][op.at] = From[op.next]]
        BY <3>2 DEF CopyEntry
      <4> QED BY <1>0, <1>1, <1>11, <4>1, Writes
    <3>3. CASE ~Kept(From[op.next])
      BY <3>3 DEF CopyEntry
    <3> QED BY <3>2, <3>3
  <2> QED BY <1>4, <2>1 DEF From
<1>6. Stored' = Stored
  BY <1>0, <1>5, OnlyTo
<1>7. Moving'
  BY <1>0, <1>4 DEF Moving
<1>8. \A i : \A k \in Live(From, i) : k < op.next + 1 <=> (k < op.next \/ k = op.next)
  BY <1>1, LiveIn, Sizes
<1>9. CASE ~Kept(From[op.next])
  <2>1. UNCHANGED log /\ op'.at = op.at
    BY <1>1, <1>9 DEF CopyEntry, OpType
  <2>2. To' = To
    BY <1>4, <2>1 DEF To
  <2>3. \A i \in Item : i # job.item => Copied(i)'
    <3> SUFFICES ASSUME NEW i \in Item, i # job.item PROVE Copied(i)'
      OBVIOUS
    <3>1. op.next \notin Live(From, i)
      BY <1>9 DEF Kept, Live
    <3>2. (\E k \in Live(From, i) : k < op.next + 1) <=> (\E k \in Live(From, i) : k < op.next)
      BY <1>8, <3>1
    <3>3. Copied(i)
      BY <1>0 DEF CopyInv
    <3> QED BY <1>4, <1>5, <2>2, <3>2, <3>3 DEF Copied
  <2>4. CopyInv'
    <3>1. NextIs(To', op'.at)
      BY <1>0, <2>1, <2>2 DEF CopyInv
    <3>2. Duplicates(From') = {}
      BY <1>0, <1>5
    <3> QED BY <1>0, <1>7, <2>3, <3>1, <3>2 DEF CopyInv
  <2>5. IInv'
    BY <1>0, <2>1, <2>4 DEF IInv
  <2> QED BY <1>0, <1>6, <2>5 DEF Outcome
<1>10. CASE Kept(From[op.next])
  <2>1. PICK e \in Entry : e = From[op.next]
    BY <1>11
  <2>2. e.state = "valid" /\ e.item # job.item
    BY <1>10, <2>1 DEF Kept
  <2>3. log' = [log EXCEPT ![op.sect][op.at] = e] /\ op'.at = op.at + 1
    BY <1>1, <1>10, <2>1 DEF CopyEntry, OpType
  <2>4. Put(To, log'[op.sect], op.at, e) /\ To' = log'[op.sect]
    BY <1>0, <1>1, <1>4, <2>3, Writes DEF To
  <2>5. NextIs(To, op.at)
    BY <1>0 DEF CopyInv
  <2>6. NextIs(To', op'.at)
    <3> SUFFICES ASSUME NEW k \in 1..Slots
                 PROVE  IF k < op.at + 1 THEN To'[k].state \notin {"idle", "torn"} ELSE To'[k].state = "idle"
      BY <2>3 DEF NextIs
    <3>1. To'[k] = IF k = op.at THEN e ELSE To[k]
      BY <2>4 DEF Put
    <3>2. (k < op.at + 1 <=> k < op.at \/ k = op.at)
      BY <1>1, Sizes
    <3> QED BY <2>2, <2>5, <3>1, <3>2 DEF NextIs
  <2>7. \A i : ValueIn(To', i) = IF i = e.item THEN e.value ELSE ValueIn(To, i)
    <3>1. \A k \in 1..Slots : k >= op.at => To[k].state # "valid"
      <4>1. \A k \in 1..Slots : k >= op.at => ~(k < op.at)
        BY <1>1, Sizes
      <4> QED BY <2>5, <4>1 DEF NextIs
    <3> QED BY <1>1, <2>2, <2>4, <3>1, NewestWins
  <2>8. \A i : i # e.item => Live(To', i) = Live(To, i)
    <3>1. \A k \in 1..Slots : To'[k] = IF k = op.at THEN e ELSE To[k]
      BY <2>4 DEF Put
    <3>2. To[op.at].state = "idle"
      BY <1>1, <2>5, Sizes DEF NextIs
    <3> QED BY <1>1, <3>1, <3>2 DEF Live
  <2>9. op.next \in Live(From, e.item)
    BY <1>1, <2>1, <2>2 DEF Live
  <2>10. \A i \in Item : i # job.item => Copied(i)'
    <3> SUFFICES ASSUME NEW i \in Item, i # job.item PROVE Copied(i)'
      OBVIOUS
    <3>1. Copied(i)
      BY <1>0 DEF CopyInv
    <3>2. CASE i = e.item
      <4>1. ValueIn(From, i) = e.value
        BY <1>3, <2>1, <2>9, <3>2
      <4>2. ValueIn(To', i) = ValueIn(From', i)
        BY <1>5, <2>7, <3>2, <4>1
      <4>3. op.next \in Live(From', i) /\ op.next < op'.next
        BY <1>1, <1>4, <1>5, <2>9, <3>2, Sizes
      <4> QED BY <4>2, <4>3 DEF Copied
    <3>3. CASE i # e.item
      <4>1. op.next \notin Live(From, i)
        BY <2>1, <3>3 DEF Live
      <4>2. (\E k \in Live(From, i) : k < op.next + 1) <=> (\E k \in Live(From, i) : k < op.next)
        BY <1>8, <4>1
      <4>3. ValueIn(To', i) = ValueIn(To, i) /\ Live(To', i) = Live(To, i)
        BY <2>7, <2>8, <3>3
      <4> QED BY <1>4, <1>5, <3>1, <4>2, <4>3 DEF Copied
    <3> QED BY <3>2, <3>3
  <2>11. CopyInv'
    BY <1>0, <1>5, <1>7, <2>6, <2>10 DEF CopyInv
  <2>12. \A t \in Sect : Closed(log'[t])
    <3>1. Closed(To')
      <4>1. op'.at \in Int
        BY <1>1, <2>3, Sizes
      <4> QED BY <2>6, <4>1, NextIsLast, LastCloses
    <3> QED BY <1>5, <2>4, <3>1, Sectors DEF IInv
  <2>13. IInv'
    BY <1>0, <2>11, <2>12 DEF IInv
  <2> QED BY <1>0, <1>6, <2>13 DEF Outcome
<1> QED BY <1>9, <1>10

LEMMA CopyEndsStep ==
  ASSUME IInv, TypeInv', CopyEnds
  PROVE  IInv' /\ Outcome
<1>0. /\ pc = "copy" /\ UNCHANGED <<hdr, log, job>> /\ Duplicates(From) = {} /\ EndOfLog(From, op.next)
      /\ TypeOK /\ CopyInv /\ Moving
  BY Sectors DEF CopyEnds, IInv, CopyInv
<1>1. Stored' = Stored
  BY <1>0 DEF Stored, Found, Active, Usable
<1>2. CASE op.at > Slots
  <2>1. pc' = "full"
    BY <1>2 DEF CopyEnds
  <2>2. IInv'
    BY <1>0, <2>1, Resting DEF IInv, Rest
  <2> QED BY <1>0, <1>1, <2>1, <2>2 DEF Outcome
<1>3. CASE ~(op.at > Slots)
  <2>1. pc' = "index" /\ op' = op
    BY <1>3 DEF CopyEnds
  <2>2. \A i \in Item : i # job.item => ValueIn(To, i) = ValueIn(From, i)
    <3> SUFFICES ASSUME NEW i \in Item, i # job.item PROVE ValueIn(To, i) = ValueIn(From, i)
      OBVIOUS
    <3>1. Copied(i)
      BY <1>0 DEF CopyInv
    <3>2. ASSUME NEW k \in Live(From, i) PROVE k < op.next
      <4>1. k \in 1..Slots /\ From[k].state = "valid" /\ op.next \in 1..Slots + 1 /\ Closed(From)
        BY Sectors DEF Live, OpType, IInv, From
      <4>2. CASE op.next > Slots
        BY <4>1, <4>2, Sizes
      <4>3. CASE op.next <= Slots
        <5>1. op.next \in 1..Slots /\ From[op.next].state \in {"idle", "torn"}
          BY <1>0, <4>1, <4>3, Sizes DEF EndOfLog
        <5>2. ~(op.next < k) /\ op.next # k
          BY <4>1, <5>1 DEF Closed
        <5> QED BY <4>1, <5>1, <5>2, Sizes
      <4> QED BY <4>1, <4>2, <4>3, Sizes
    <3>3. CASE Live(From, i) = {}
      BY <3>1, <3>3 DEF Copied, ValueIn
    <3>4. CASE Live(From, i) # {}
      BY <3>1, <3>2, <3>4 DEF Copied
    <3> QED BY <3>3, <3>4
  <2>3. Active = Other(op.sect) /\ Found
    BY <1>0, Sectors DEF Moving, Active, Usable, Found, Sect, Other
  <2>4. Others
    BY <2>2, <2>3 DEF Others, Stored, From
  <2>5. Others'
    BY <1>0, <1>1, <2>1, <2>4 DEF Others, To
  <2>6. Moving' /\ NextIs(To, op.at)' /\ \A s \in Sect : Closed(log'[s])
    BY <1>0, <2>1 DEF Moving, CopyInv, To, IInv
  <2>7. IInv'
    BY <2>1, <2>5, <2>6 DEF IInv
  <2> QED BY <1>0, <1>1, <2>1, <2>7 DEF Outcome
<1> QED BY <1>2, <1>3

LEMMA IndexStep ==
  ASSUME IInv, TypeInv', Index
  PROVE  IInv' /\ Outcome
<1>0. /\ pc = "index" /\ pc' = "mark" /\ hdr' = hdr /\ job' = job /\ TypeOK
      /\ (Fresh \/ Appending \/ Moving) /\ Others /\ NextIs(To, op.at)
      /\ op.at \in 1..Slots /\ op.sect \in Sect /\ op \in OpType
  BY Sectors, Sizes DEF Index, IInv, TypeOK, OpType
<1>1. op'.sect = op.sect /\ op'.at = op.at /\ op'.update = op.update
      /\ op'.del = IF Live(To, job.item) = {} THEN 0 ELSE Highest(Live(To, job.item))
  BY <1>0 DEF Index, OpType
<1>2. PICK e : e = [item |-> job.item, value |-> job.value, state |-> "operation"]
  OBVIOUS
<1>3. e \in Entry /\ e.state = "operation"
  BY <1>0, <1>2 DEF Entry, TypeOK
<1>4. log' = [log EXCEPT ![op.sect][op.at] = e]
  BY <1>2 DEF Index
<1>5. Put(To, To', op.at, e) /\ To' = log'[op.sect] /\ log'[Other(op.sect)] = log[Other(op.sect)]
  BY <1>0, <1>1, <1>3, <1>4, Writes DEF To
<1>6. To[op.at].state = "idle" /\ \A k \in 1..Slots : To'[k] = IF k = op.at THEN e ELSE To[k]
  <2>1. ~(op.at < op.at)
    BY <1>0, Sizes
  <2> QED BY <1>0, <1>5, <2>1 DEF NextIs, Put
<1>7. \A i : ValueIn(To', i) = ValueIn(To, i)
  BY <1>0, <1>3, <1>5, <1>6, NoEffect
<1>8. Stored' = Stored
  BY <1>0, <1>5, <1>7, OnlyTo DEF To
<1>9. Others'
  BY <1>0, <1>7, <1>8 DEF Others
<1>10. LastIs(To', op'.at)
  <2>1. LastIs(To, op.at)
    BY <1>0, NextIsLast, Sizes
  <2> QED BY <1>0, <1>1, <1>5, <2>1, PutKeeps, Sizes
<1>11. \A t \in Sect : Closed(log'[t])
  <2>1. Closed(To')
    BY <1>0, <1>1, <1>10, LastCloses, Sizes
  <2> QED BY <1>5, <2>1, Sectors DEF IInv
<1>12. DelOlder'
  <2>1. CASE Live(To, job.item) = {}
    BY <1>1, <2>1 DEF DelOlder
  <2>2. CASE Live(To, job.item) # {}
    <3>1. PICK h : h = Highest(Live(To, job.item))
      OBVIOUS
    <3>2. h \in Live(To, job.item)
      BY <2>2, <3>1, LiveIn, HighestIs
    <3>3. h \in 1..Slots /\ To[h].state = "valid" /\ To[h].item = job.item
      BY <3>2 DEF Live
    <3>4. h < op.at
      BY <1>0, <3>3 DEF NextIs
    <3>5. h # op.at
      BY <1>0, <3>3, <3>4, Sizes
    <3>6. To'[h].item = job.item
      BY <1>6, <3>3, <3>5
    <3> QED BY <1>0, <1>1, <2>2, <3>1, <3>4, <3>6 DEF DelOlder
  <2> QED BY <2>1, <2>2
<1>13. To'[op'.at] = [item |-> job'.item, value |-> job'.value, state |-> "operation"]
  BY <1>0, <1>1, <1>2, <1>6
<1>14. Fresh' \/ Appending' \/ Moving'
  BY <1>0, <1>1, ModesKept
<1>15. IInv'
  BY <1>0, <1>9, <1>10, <1>11, <1>12, <1>13, <1>14 DEF IInv
<1> QED BY <1>0, <1>8, <1>15 DEF Outcome

LEMMA MarkStep ==
  ASSUME IInv, TypeInv', Mark
  PROVE  IInv' /\ Outcome
<1>0. /\ pc = "mark" /\ pc' = "old" /\ hdr' = hdr /\ job' = job /\ op' = op /\ TypeOK
      /\ (Fresh \/ Appending \/ Moving) /\ Others /\ LastIs(To, op.at) /\ DelOlder
      /\ To[op.at] = [item |-> job.item, value |-> job.value, state |-> "operation"]
      /\ op.at \in 1..Slots /\ op.sect \in Sect /\ job \in [item : Item, value : Value]
  BY Sectors, Sizes DEF Mark, IInv, TypeOK, OpType
<1>1. PICK e : e = [item |-> job.item, value |-> job.value, state |-> "valid"]
  OBVIOUS
<1>2. e.item = job.item /\ e.value = job.value /\ e.state = "valid"
  BY <1>1
<1>3. Put(To, To', op.at, e) /\ To' = log'[op.sect] /\ log'[Other(op.sect)] = log[Other(op.sect)]
  <2>1. log' = [log EXCEPT ![op.sect][op.at].state = "valid"]
    BY DEF Mark
  <2>2. e = [item |-> log[op.sect][op.at].item, value |-> log[op.sect][op.at].value, state |-> "valid"]
    BY <1>0, <1>1 DEF To
  <2> QED BY <1>0, <2>1, <2>2, Marks DEF States, To
<1>4. \A k \in 1..Slots : To'[k] = IF k = op.at THEN e ELSE To[k]
  BY <1>3 DEF Put
<1>5. \A i : ValueIn(To', i) = IF i = job.item THEN job.value ELSE ValueIn(To, i)
  <2>1. \A k \in 1..Slots : k >= op.at => To[k].state # "valid"
    <3>1. \A k \in 1..Slots : k >= op.at => k = op.at \/ k > op.at
      BY <1>0, Sizes
    <3> QED BY <1>0, <3>1 DEF LastIs
  <2> QED BY <1>0, <1>2, <1>3, <2>1, NewestWins
<1>6. Stored' = Stored \/ Stored' = Applied
  <2>1. CASE Fresh \/ Moving
    BY <1>0, <1>3, <2>1, OnlyTo
  <2>2. CASE Appending
    <3>1. Found /\ Found' /\ Active = op.sect /\ Active' = op.sect
      BY <1>0, <2>2 DEF Appending, Found, Active, Usable
    <3>2. Stored' = [i \in Item |-> ValueIn(To', i)] /\ Stored = [i \in Item |-> ValueIn(To, i)]
      BY <1>0, <3>1 DEF Stored, To
    <3> QED BY <1>0, <1>5, <3>2 DEF Applied
  <2> QED BY <1>0, <2>1, <2>2
<1>7. Others'
  <2>1. \A i \in Item : i # job.item => Stored'[i] = Stored[i]
    BY <1>6 DEF Applied, Stored
  <2> QED BY <1>0, <1>5, <2>1 DEF Others
<1>8. LastIs(To', op'.at)
  BY <1>0, <1>3, PutKeeps, Sizes
<1>9. \A t \in Sect : Closed(log'[t])
  <2>1. Closed(To')
    BY <1>0, <1>8, LastCloses, Sizes
  <2> QED BY <1>3, <2>1, Sectors DEF IInv
<1>10. DelOlder'
  <2>1. CASE op.del = 0
    BY <1>0, <2>1 DEF DelOlder
  <2>2. CASE op.del # 0
    <3>1. op.del \in 1..Slots /\ op.del # op.at /\ op.del < op.at /\ To[op.del].item = job.item
      BY <1>0, <2>2, Sectors, Sizes DEF DelOlder, OpType
    <3> QED BY <1>0, <1>4, <3>1 DEF DelOlder
  <2> QED BY <2>1, <2>2
<1>11. To'[op'.at] = [item |-> job'.item, value |-> job'.value, state |-> "valid"]
  BY <1>0, <1>1, <1>4
<1>12. Fresh' \/ Appending' \/ Moving'
  BY <1>0, ModesKept
<1>13. IInv'
  BY <1>0, <1>7, <1>8, <1>9, <1>10, <1>11, <1>12 DEF IInv
<1> QED BY <1>0, <1>6, <1>13 DEF Outcome, Rest

LEMMA OldStep ==
  ASSUME IInv, TypeInv', Old
  PROVE  IInv' /\ Outcome
<1>0. /\ pc = "old" /\ hdr' = hdr /\ job' = job /\ TypeOK
      /\ (Fresh \/ Appending \/ Moving) /\ Others /\ LastIs(To, op.at) /\ DelOlder
      /\ To[op.at] = [item |-> job.item, value |-> job.value, state |-> "valid"]
      /\ op.at \in 1..Slots /\ op.sect \in Sect /\ job \in [item : Item, value : Value]
  BY Sectors, Sizes DEF Old, IInv, TypeOK, OpType
<1>1. op.at \in Live(To, job.item) /\ ValueIn(To, job.item) = job.value
  BY <1>0, NewestIs
<1> DEFINE new == log'[op.sect]
<1>2. /\ \A i : ValueIn(new, i) = ValueIn(To, i)
      /\ LastIs(new, op.at) /\ log'[Other(op.sect)] = log[Other(op.sect)]
  <2>1. CASE op.del = 0
    BY <1>0, <2>1 DEF Old, To
  <2>2. CASE op.del # 0
    <3>1. op.del \in 1..Slots /\ op.del < op.at /\ To[op.del].item = job.item
      BY <1>0, <2>2, Sectors, Sizes DEF DelOlder, OpType
    <3>2. PICK e : e = [item |-> log[op.sect][op.del].item, value |-> log[op.sect][op.del].value, state |-> "invalid"]
      OBVIOUS
    <3>3. e.state = "invalid"
      BY <3>2
    <3>4. log' = [log EXCEPT ![op.sect][op.del].state = "invalid"]
      BY <2>2 DEF Old
    <3>5. Put(To, new, op.del, e) /\ log'[Other(op.sect)] = log[Other(op.sect)]
      BY <1>0, <3>1, <3>2, <3>4, Marks DEF States, To
    <3> HIDE DEF new
    <3>6. \A i : ValueIn(new, i) = ValueIn(To, i)
      BY <1>1, <3>1, <3>3, <3>5, OlderDropped
    <3>7. LastIs(new, op.at)
      <4>1. op.at \in Int
        BY <1>0, Sizes
      <4> QED BY <1>0, <3>1, <3>3, <3>5, <4>1, PutKeeps
    <3> QED BY <3>5, <3>6, <3>7
  <2> QED BY <2>1, <2>2
<1>3. Stored' = Stored
  BY <1>0, <1>2, OnlyTo DEF To
<1>4. \A t \in Sect : Closed(log'[t])
  <2>1. Closed(new)
    BY <1>0, <1>2, LastCloses, Sizes
  <2> QED BY <1>2, <2>1, Sectors DEF IInv
<1>5. CASE ~op.update /\ op.at # 1
  <2>1. pc' = "ok"
    BY <1>5 DEF Old
  <2>2. Appending
    BY <1>0, <1>5 DEF Fresh, Moving
  <2>3. Stored[job.item] = job.value
    <3>1. Found /\ Active = op.sect
      BY <1>0, <2>2 DEF Appending, Found, Usable
    <3>2. Stored[job.item] = ValueIn(log[Active], job.item)
      BY <1>0, <3>1 DEF Stored
    <3> QED BY <1>1, <3>1, <3>2 DEF To
  <2>4. Stored' = Applied
    BY <1>3, <2>3 DEF Applied, Stored
  <2>5. IInv'
    BY <1>4, <2>1, Resting DEF Rest
  <2> QED BY <1>0, <2>1, <2>4, <2>5 DEF Outcome, Rest
<1>6. CASE op.update \/ op.at = 1
  <2>1. pc' = (IF op.update THEN "ready" ELSE "header") /\ op' = op
    BY <1>6 DEF Old
  <2>2. To' = new
    BY <2>1 DEF To
  <2>3. Written' /\ Others'
    BY <1>0, <1>1, <1>2, <1>3, <2>2 DEF Written, Others
  <2>4. Fresh' = Fresh /\ Appending' = Appending /\ Moving' = Moving
    BY <1>0, <2>1, ModesKept
  <2>5. (op.update => Moving) /\ (~op.update => Fresh \/ Appending)
    BY <1>0 DEF Fresh, Appending, Moving
  <2>6. IInv'
    <3>1. CASE op.update
      BY <1>4, <2>1, <2>3, <2>4, <2>5, <3>1 DEF IInv
    <3>2. CASE ~op.update
      BY <1>4, <2>1, <2>3, <2>4, <2>5, <3>2 DEF IInv
    <3> QED BY <3>1, <3>2
  <2> QED BY <1>0, <1>3, <2>1, <2>6 DEF Outcome
<1> QED BY <1>5, <1>6

LEMMA HeaderStep ==
  ASSUME IInv, TypeInv', Header
  PROVE  IInv' /\ Outcome
<1>0. /\ pc = "header" /\ pc' = "ok" /\ hdr' = [hdr EXCEPT ![op.sect] = "valid"] /\ log' = log
      /\ Written /\ Others /\ (Fresh \/ Appending) /\ TypeOK /\ op.sect \in Sect
      /\ job \in [item : Item, value : Value]
  BY Sectors DEF Header, IInv, TypeOK
<1>1. Found' /\ Active' = op.sect
  BY <1>0 DEF TypeOK, Fresh, Appending, Found, Active, Usable, Sect
<1>2. Stored' = Applied
  BY <1>0, <1>1, Switched DEF Applied
<1>3. IInv'
  BY <1>0, Resting DEF IInv, Rest
<1> QED BY <1>0, <1>2, <1>3 DEF Outcome, Rest

LEMMA ReadyStep ==
  ASSUME IInv, TypeInv', Ready
  PROVE  IInv' /\ Outcome
<1>0. /\ pc = "ready" /\ pc' = "retire" /\ hdr' = [hdr EXCEPT ![op.sect] = "ready"]
      /\ log' = log /\ job' = job /\ op' = op
      /\ Written /\ Others /\ Moving /\ TypeOK /\ op.sect \in Sect /\ Other(op.sect) \in Sect
      /\ Other(op.sect) # op.sect /\ job \in [item : Item, value : Value]
  BY Sectors DEF Ready, IInv, TypeOK
<1>1. hdr'[op.sect] = "ready" /\ hdr'[Other(op.sect)] = "valid"
  BY <1>0 DEF TypeOK, Moving
<1>2. Found' /\ Found /\ Active = Other(op.sect) /\ (Active' = op.sect \/ Active' = Other(op.sect))
  BY <1>0, <1>1 DEF Found, Active, Usable, Moving, Sect, Other
<1>3. Stored' = Applied \/ Stored' = Stored
  <2>1. CASE Active' = op.sect
    BY <1>0, <1>2, <2>1, Switched DEF Applied
  <2>2. CASE Active' = Other(op.sect)
    BY <1>0, <1>2, <2>2, StoredSame
  <2> QED BY <1>2, <2>1, <2>2
<1>4. Written' /\ Others'
  <2>1. \A i \in Item : i # job.item => Stored'[i] = Stored[i]
    BY <1>3 DEF Applied, Stored
  <2>2. To' = To
    BY <1>0 DEF To
  <2> QED BY <1>0, <2>1, <2>2 DEF Written, Others
<1>5. IInv'
  BY <1>0, <1>1, <1>4 DEF IInv
<1> QED BY <1>0, <1>3, <1>5 DEF Outcome, Rest

LEMMA RetireStep ==
  ASSUME IInv, TypeInv', Retire
  PROVE  IInv' /\ Outcome
<1>0. /\ pc = "retire" /\ pc' = "promote" /\ hdr' = [hdr EXCEPT ![Other(op.sect)] = "invalid"]
      /\ log' = log /\ job' = job /\ op' = op
      /\ Written /\ Others /\ TypeOK /\ op.sect \in Sect /\ Other(op.sect) \in Sect
      /\ Other(op.sect) # op.sect /\ hdr[op.sect] = "ready" /\ job \in [item : Item, value : Value]
  BY Sectors DEF Retire, IInv, TypeOK
<1>1. hdr'[op.sect] = "ready" /\ hdr'[Other(op.sect)] = "invalid"
  BY <1>0 DEF TypeOK
<1>2. Found' /\ Active' = op.sect
  BY <1>0, <1>1 DEF Found, Active, Usable, Sect, Other
<1>3. Stored' = Applied /\ \A i \in Item : Stored'[i] = ValueIn(To, i)
  BY <1>0, <1>2, Switched DEF Applied
<1>4. Written' /\ Others'
  BY <1>0, <1>3 DEF Written, Others, To
<1>5. IInv'
  BY <1>0, <1>1, <1>4 DEF IInv
<1> QED BY <1>0, <1>3, <1>5 DEF Outcome, Rest

LEMMA PromoteStep ==
  ASSUME IInv, TypeInv', Promote
  PROVE  IInv' /\ Outcome
<1>0. /\ pc = "promote" /\ pc' = "ok" /\ hdr' = [hdr EXCEPT ![op.sect] = "valid"] /\ log' = log
      /\ Written /\ Others /\ TypeOK /\ op.sect \in Sect /\ Other(op.sect) # op.sect
      /\ hdr[Other(op.sect)] = "invalid" /\ job \in [item : Item, value : Value]
  BY Sectors DEF Promote, IInv, TypeOK
<1>1. hdr'[op.sect] = "valid" /\ hdr'[Other(op.sect)] = "invalid"
  BY <1>0 DEF TypeOK
<1>2. Found' /\ Active' = op.sect
  BY <1>0, <1>1 DEF Found, Active, Usable, Sect, Other
<1>3. Stored' = Applied
  BY <1>0, <1>2, Switched DEF Applied
<1>4. IInv'
  BY <1>0, Resting DEF IInv, Rest
<1> QED BY <1>0, <1>3, <1>4 DEF Outcome, Rest

LEMMA PowerFailsStep ==
  ASSUME IInv, TypeInv', PowerFails
  PROVE  IInv' /\ Outcome
<1>0. pc \notin Rest /\ pc' = "failed" /\ hdr' = hdr /\ job' = job /\ TypeOK
  BY Sectors DEF PowerFails
<1>1. CASE log' = log
  <2>1. Stored' = Stored
    BY <1>0, <1>1 DEF Stored, Found, Active, Usable
  <2>2. IInv'
    BY <1>0, <1>1, Resting DEF IInv, Rest
  <2> QED BY <1>0, <2>1, <2>2 DEF Outcome
<1>2. CASE pc \in {"index", "mark"} /\ log' = [log EXCEPT ![op.sect][op.at].state = "torn"]
  <2>1. /\ op.at \in 1..Slots /\ op.sect \in Sect /\ LastIs(To, op.at)
        /\ To[op.at].state # "valid" /\ (Fresh \/ Appending \/ Moving)
    <3>1. CASE pc = "index"
      <4>1. NextIs(To, op.at) /\ op.at \in 1..Slots /\ (Fresh \/ Appending \/ Moving)
        BY <3>1, Sectors, Sizes DEF IInv, TypeOK, OpType
      <4>2. ~(op.at < op.at)
        BY <4>1, Sizes
      <4> QED BY <4>1, <4>2, NextIsLast, Sectors, Sizes DEF NextIs
    <3>2. CASE pc = "mark"
      BY <3>2, Sectors, Sizes DEF IInv, TypeOK, OpType
    <3> QED BY <1>2, <3>1, <3>2
  <2>2. PICK e : e = [item |-> log[op.sect][op.at].item, value |-> log[op.sect][op.at].value, state |-> "torn"]
    OBVIOUS
  <2>3. e.state = "torn"
    BY <2>2
  <2>4. Put(To, log'[op.sect], op.at, e) /\ log'[Other(op.sect)] = log[Other(op.sect)]
    BY <1>0, <1>2, <2>1, <2>2, Marks DEF States, To
  <2>5. \A i : ValueIn(log'[op.sect], i) = ValueIn(log[op.sect], i)
    BY <2>1, <2>3, <2>4, NoEffect DEF To
  <2>6. Stored' = Stored
    BY <1>0, <2>1, <2>4, <2>5, OnlyTo
  <2>7. \A t \in Sect : Closed(log'[t])
    <3>1. op.at \in Int
      BY <2>1, Sizes
    <3>2. LastIs(log'[op.sect], op.at)
      BY <2>1, <2>4, <3>1, PutKeeps
    <3>3. Closed(log'[op.sect])
      BY <3>1, <3>2, LastCloses
    <3> QED BY <2>4, <3>3, Sectors DEF IInv
  <2>8. IInv'
    BY <1>0, <2>7, Resting DEF Rest
  <2> QED BY <1>0, <2>6, <2>8 DEF Outcome
<1> QED BY <1>1, <1>2 DEF PowerFails

-----------------------------------------------------------------------------
(* The theorems.                                                                *)

LEMMA Initially == Init => IInv /\ Stored = [i \in Item |-> None]
<1> SUFFICES ASSUME Init PROVE IInv /\ Stored = [i \in Item |-> None]
  OBVIOUS
<1>1. ~Found
  BY DEF Init, Found, Usable, Sect
<1>2. \A s \in Sect : Closed(log[s])
  BY DEF Init, Closed, Erased, Blank, Sect
<1> QED BY <1>1, <1>2, InitialTypes DEF Init, IInv, Stored

LEMMA StepKeepsIInv ==
  ASSUME IInv, [Next]_vars
  PROVE  /\ IInv'
         /\ Outcome \/ (Begin /\ Stored' = Stored) \/ (UNCHANGED vars /\ Stored' = Stored)
<1>1. TypeInv'
  BY StepKeepsTypes DEF IInv
<1>2. CASE Begin
  BY <1>1, <1>2, BeginStep
<1>3. CASE UNCHANGED vars
  BY <1>3 DEF vars, IInv, TypeInv, TypeOK, Closed, CopyInv, Copied, Fresh, Appending, Moving, Others, Written,
              NextIs, LastIs, DelOlder, To, From, Stored, Found, Active, Usable, Rest
<1>4. CASE Settle \/ Format \/ Append \/ ChangeSector
  BY <1>1, <1>4, SettleStep, FormatStep, AppendStep, ChangeSectorStep
<1>5. CASE DropDuplicate \/ CopyEntry \/ CopyEnds
  BY <1>1, <1>5, DropDuplicateStep, CopyEntryStep, CopyEndsStep
<1>6. CASE Index \/ Mark \/ Old \/ Header
  BY <1>1, <1>6, IndexStep, MarkStep, OldStep, HeaderStep
<1>7. CASE Ready \/ Retire \/ Promote \/ PowerFails
  BY <1>1, <1>7, ReadyStep, RetireStep, PromoteStep, PowerFailsStep
<1> QED BY <1>2, <1>3, <1>4, <1>5, <1>6, <1>7 DEF Next

LEMMA AlwaysIInv == Spec => []IInv
<1>1. Init => IInv
  BY Initially
<1>2. IInv /\ [Next]_vars => IInv'
  BY StepKeepsIInv
<1> QED BY <1>1, <1>2, PTL DEF Spec

\* how the state of the write is told to the caller
Told == CASE pc = "ok" -> "ok"
          [] pc \in {"failed", "full"} -> "failed"
          [] OTHER -> "busy"

LEMMA ToldIs ==
  /\ Told = "busy" <=> pc \notin Rest
  /\ Told = "ok" <=> pc = "ok"
  /\ Told = "failed" <=> pc \in {"failed", "full"}
BY DEF Told, Rest

(* A write to the flash takes effect at one moment or, if power is lost before, *)
(* not at all, and no other item is disturbed: drv_nv.c:572-782 and 202-257,    *)
(* for any number of entries, items and values and any losses of power.         *)
THEOREM RefinesAtomicStore == Spec => StoreIsAtomic
<1>1. Init => Store!Init
  <2> SUFFICES ASSUME Init PROVE Store!Init
    OBVIOUS
  <2>1. Stored = [i \in Item |-> None]
    BY Initially
  <2> QED BY <2>1 DEF Init, Store!Init
<1>2. IInv /\ [Next]_vars => [Store!Next]_(Store!vars)
  <2> SUFFICES ASSUME IInv, [Next]_vars PROVE [Store!Next]_(Store!vars)
    OBVIOUS
  <2>1. CASE UNCHANGED vars
    <3>1. Stored' = Stored
      BY <2>1 DEF vars, Stored, Found, Active, Usable
    <3>2. Told' = Told /\ job' = job
      BY <2>1 DEF vars, Told
    <3> QED BY <3>1, <3>2 DEF Store!vars, Told
  <2>2. CASE Begin
    <3>1. Stored' = Stored
      BY <2>2 DEF Begin, Stored, Found, Active, Usable
    <3>2. Told # "busy" /\ Told' = "busy"
      BY <2>2 DEF Begin, Told, Rest
    <3>3. job' \in [item : Item, value : Value]
      BY <2>2 DEF Begin
    <3>4. Store!Begin
      BY <3>1, <3>2, <3>3 DEF Store!Begin, Told
    <3> QED BY <3>4 DEF Store!Next
  <2>3. CASE Next /\ ~Begin /\ ~UNCHANGED vars
    <3>1. Outcome
      BY <2>3, StepKeepsIInv
    <3>2. job' = job
      BY <2>3 DEF Next, Settle, Format, Append, ChangeSector, DropDuplicate, CopyEntry, CopyEnds, Index, Mark, Old,
                  Header, Ready, Retire, Promote, PowerFails
    <3>3. pc \in Rest => pc' = pc
      BY <2>3 DEF Next, Rest, Settle, Format, Append, ChangeSector, DropDuplicate, CopyEntry, CopyEnds, Index, Mark, Old,
                  Header, Ready, Retire, Promote, PowerFails
    <3>4. CASE pc \in Rest
      <4>1. Stored' = Stored /\ Told' = Told
        BY <3>1, <3>3, <3>4 DEF Outcome, Told
      <4> QED BY <3>2, <4>1 DEF Store!vars, Told
    <3>5. CASE pc \notin Rest /\ pc' \notin Rest
      <4>1. Told = "busy" /\ Told' = "busy"
        BY <3>5 DEF Told, Rest
      <4>2. CASE Stored' = Stored
        BY <3>2, <4>1, <4>2 DEF Store!vars, Told
      <4>3. CASE Stored' = Applied
        <5>1. Store!TakeEffect
          BY <3>2, <4>1, <4>3 DEF Store!TakeEffect, Told, Applied
        <5> QED BY <5>1 DEF Store!Next
      <4> QED BY <3>1, <4>2, <4>3 DEF Outcome
    <3>6. CASE pc \notin Rest /\ pc' = "ok"
      <4>1. Told = "busy" /\ Told' = "ok" /\ Stored' = Applied
        BY <3>1, <3>6 DEF Told, Rest, Outcome
      <4>2. Store!Succeed
        BY <3>2, <4>1 DEF Store!Succeed, Told, Applied
      <4> QED BY <4>2 DEF Store!Next
    <3>7. CASE pc \notin Rest /\ pc' \in {"failed", "full"}
      <4>1. Told = "busy" /\ Told' = "failed" /\ Stored' = Stored
        BY <3>1, <3>7 DEF Told, Rest, Outcome
      <4>2. Store!Fail
        BY <3>2, <4>1 DEF Store!Fail, Told
      <4> QED BY <4>2 DEF Store!Next
    <3> QED BY <3>4, <3>5, <3>6, <3>7 DEF Rest
  <2> QED BY <2>1, <2>2, <2>3
<1> QED BY <1>1, <1>2, AlwaysIInv, PTL DEF Spec, StoreIsAtomic, Store!Spec

-----------------------------------------------------------------------------
(* Room. What is copied are different items, none of them the one to be written, *)
(* so the sector has a slot left for it.                                         *)

Named == \A s \in Sect : \A k \in 1..Slots :
           log[s][k].state \in {"operation", "valid"} => log[s][k].item \in Item
Distinct ==
  /\ \A k \in 1..Slots : k < op.at => To[k].state = "valid" /\ To[k].item # job.item
  /\ \A j, k \in 1..Slots : j < op.at /\ k < op.at /\ To[j].item = To[k].item => j = k
RoomInv == IInv /\ Named /\ (pc = "copy" => Distinct) /\ NeverFull

LEMMA NamedPut ==
  ASSUME Named, NEW s \in Sect, NEW k \in 1..Slots, NEW e, Put(log[s], log'[s], k, e),
         log'[Other(s)] = log[Other(s)], e.state \in {"operation", "valid"} => e.item \in Item
  PROVE  Named'
<1>1. \A t \in Sect : t = s \/ t = Other(s)
  BY DEF Sect, Other
<1> QED BY <1>1 DEF Named, Put

LEMMA StepKeepsNamed ==
  ASSUME IInv, Named, Next
  PROVE  Named'
<1>0. TypeOK /\ op.sect \in Sect /\ Other(op.sect) \in Sect /\ op \in OpType
  BY Sectors
<1>1. CASE log' = log
  BY <1>1 DEF Named
<1>2. CASE Format \/ ChangeSector
  <2>1. PICK s \in Sect : log' = [log EXCEPT ![s] = Erased]
    BY <1>2, ActiveType, Sizes DEF Format, ChangeSector, Sect
  <2>2. log'[s] = Erased /\ log'[Other(s)] = log[Other(s)]
    BY <1>0, <2>1, LogErased
  <2>3. \A t \in Sect : t = s \/ t = Other(s)
    BY DEF Sect, Other
  <2>4. \A k \in 1..Slots : Erased[k].state \notin {"operation", "valid"}
    BY DEF Erased, Blank
  <2> QED BY <2>2, <2>3, <2>4 DEF Named
<1>3. CASE \E s \in Sect : \E k \in 1..Slots : \E x \in {"torn", "invalid"} : log' = [log EXCEPT ![s][k].state = x]
  <2>1. PICK s \in Sect, k \in 1..Slots, x \in {"torn", "invalid"} : log' = [log EXCEPT ![s][k].state = x]
    BY <1>3
  <2>2. PICK e : e = [item |-> log[s][k].item, value |-> log[s][k].value, state |-> x]
    OBVIOUS
  <2>3. Put(log[s], log'[s], k, e) /\ log'[Other(s)] = log[Other(s)]
    BY <1>0, <2>1, <2>2, Marks DEF States
  <2>4. e.state \notin {"operation", "valid"}
    BY <2>2
  <2> QED BY <2>3, <2>4, NamedPut
<1>4. CASE DropDuplicate
  BY <1>0, <1>3, <1>4, DuplicateType DEF DropDuplicate
<1>5. CASE Old
  <2>1. op.del # 0 => op.del \in 1..Slots
    BY <1>0, Sizes DEF OpType
  <2> QED BY <1>0, <1>1, <1>3, <1>5, <2>1 DEF Old
<1>6. CASE PowerFails
  <2>1. pc \in {"index", "mark"} => op.at \in 1..Slots
    BY <1>0, Sizes DEF TypeOK, OpType
  <2> QED BY <1>0, <1>1, <1>3, <1>6, <2>1 DEF PowerFails
<1>7. CASE CopyEntry /\ log' # log
  <2>1. op.at \in 1..Slots /\ op.next \in 1..Slots
    BY <1>0, <1>7, Sizes DEF CopyEntry, EndOfLog, IInv, TypeInv, OpType
  <2>2. PICK e : e = From[op.next]
    OBVIOUS
  <2>3. log' = [log EXCEPT ![op.sect][op.at] = e]
    BY <1>7, <2>2 DEF CopyEntry
  <2>4. log \in [Sect -> [1..Slots -> Entry]]
    BY <1>0 DEF TypeOK
  <2>5. From \in [1..Slots -> Entry]
    BY <1>0, <2>4 DEF From
  <2>6. e \in Entry
    BY <2>1, <2>2, <2>5
  <2>7. e.state \in {"operation", "valid"} => e.item \in Item
    BY <1>0, <2>1, <2>2 DEF Named, From
  <2> QED BY <1>0, <2>1, <2>3, <2>6, <2>7, Writes, NamedPut
<1>8. CASE Index
  <2>1. op.at \in 1..Slots /\ job \in [item : Item, value : Value]
    BY <1>0, <1>8, Sizes DEF Index, TypeOK, OpType
  <2>2. PICK e : e = [item |-> job.item, value |-> job.value, state |-> "operation"]
    OBVIOUS
  <2>3. e \in Entry /\ e.item \in Item
    BY <2>1, <2>2 DEF Entry
  <2>4. log' = [log EXCEPT ![op.sect][op.at] = e]
    BY <1>8, <2>2 DEF Index
  <2> QED BY <1>0, <2>1, <2>3, <2>4, Writes, NamedPut
<1>9. CASE Mark
  <2>1. op.at \in 1..Slots /\ log[op.sect][op.at].item = job.item /\ job.item \in Item
    BY <1>0, <1>9, Sizes DEF Mark, TypeOK, OpType, IInv, To
  <2>2. PICK e : e = [item |-> log[op.sect][op.at].item, value |-> log[op.sect][op.at].value, state |-> "valid"]
    OBVIOUS
  <2>3. log' = [log EXCEPT ![op.sect][op.at].state = "valid"] /\ e.item \in Item
    BY <1>9, <2>1, <2>2 DEF Mark
  <2>4. Put(log[op.sect], log'[op.sect], op.at, e) /\ log'[Other(op.sect)] = log[Other(op.sect)]
    BY <1>0, <2>1, <2>2, <2>3, Marks DEF States
  <2> QED BY <1>0, <2>1, <2>3, <2>4, NamedPut
<1>10. CASE Settle \/ Begin \/ Append \/ CopyEnds \/ Header \/ Ready \/ Retire \/ Promote
  BY <1>1, <1>10 DEF Settle, Begin, Append, CopyEnds, Header, Ready, Retire, Promote
<1>11. CASE CopyEntry
  BY <1>1, <1>7, <1>11
<1> QED BY <1>2, <1>4, <1>5, <1>6, <1>8, <1>9, <1>10, <1>11 DEF Next

LEMMA StepKeepsDistinct ==
  ASSUME IInv, Named, pc = "copy" => Distinct, Next, pc' = "copy"
  PROVE  Distinct'
<1>0. TypeOK /\ op.sect \in Sect /\ Other(op.sect) \in Sect /\ op \in OpType
  BY Sectors
<1>1. CASE ChangeSector
  <2>1. op'.at = 1
    BY <1>1 DEF ChangeSector, NoOp
  <2>2. \A k \in 1..Slots : ~(k < 1)
    BY Sizes
  <2> QED BY <2>1, <2>2 DEF Distinct
<1>2. CASE DropDuplicate
  <2>1. Highest(Duplicates(From)) \in 1..Slots
    BY <1>2, DuplicateType DEF DropDuplicate
  <2>2. log'[Other(Other(op.sect))] = log[Other(Other(op.sect))]
    BY <1>0, <1>2, <2>1, Marks DEF DropDuplicate, States
  <2>3. log'[op.sect] = log[op.sect] /\ op' = op /\ job' = job /\ pc = "copy"
    BY <1>0, <1>2, <2>2 DEF DropDuplicate, Sect, Other
  <2>4. To' = To
    BY <2>3 DEF To
  <2> QED BY <2>3, <2>4 DEF Distinct
<1>3. CASE CopyEntry
  <2>1. /\ op.at \in 1..Slots /\ op.next \in 1..Slots /\ pc = "copy" /\ job' = job /\ CopyInv
        /\ Duplicates(From) = {} /\ op'.sect = op.sect
    <3>1. op.next <= Slots /\ op.at <= op.next
      BY <1>3 DEF CopyEntry, EndOfLog, IInv, TypeInv
    <3>2. op.at \in 1..Slots /\ op.next \in 1..Slots
      BY <1>0, <3>1, Sizes DEF OpType
    <3>3. op'.sect = op.sect
      BY <1>0, <1>3 DEF CopyEntry, OpType
    <3> QED BY <1>3, <3>2, <3>3 DEF CopyEntry, IInv
  <2>2. CASE ~Kept(From[op.next])
    <3>1. log' = log /\ op'.at = op.at
      BY <1>0, <1>3, <2>2 DEF CopyEntry, OpType
    <3>2. To' = To
      BY <2>1, <3>1 DEF To
    <3> QED BY <2>1, <3>1, <3>2 DEF Distinct
  <2>3. CASE Kept(From[op.next])
    <3>1. PICK e : e = From[op.next]
      OBVIOUS
    <3>2. e.state = "valid" /\ e.item # job.item
      BY <2>3, <3>1 DEF Kept
    <3>3. log' = [log EXCEPT ![op.sect][op.at] = e] /\ op'.at = op.at + 1
      BY <1>0, <1>3, <2>3, <3>1 DEF CopyEntry, OpType
    <3>4. e \in Entry
      <4>1. log \in [Sect -> [1..Slots -> Entry]]
        BY <1>0 DEF TypeOK
      <4>2. From \in [1..Slots -> Entry]
        BY <1>0, <4>1 DEF From
      <4> QED BY <2>1, <3>1, <4>2
    <3>5. Put(To, To', op.at, e)
      BY <1>0, <2>1, <3>3, <3>4, Writes DEF To
    <3>6. \A k \in 1..Slots : To'[k] = IF k = op.at THEN e ELSE To[k]
      BY <3>5 DEF Put
    <3>7. \A k \in 1..Slots : k < op.at + 1 <=> (k < op.at \/ k = op.at)
      BY <2>1, Sizes
    <3>8. \A k \in 1..Slots : k < op.at => To[k].item # e.item
      <4>1. op.next \in Live(From, e.item)
        BY <2>1, <3>1, <3>2 DEF Live
      <4>2. \A k \in Live(From, e.item) : k = Highest(Live(From, e.item))
        BY <2>1, LiveIn DEF Duplicates, Live
      <4>3. ~ \E k \in Live(From, e.item) : k < op.next
        <5>1. \A k \in Live(From, e.item) : k = op.next
          BY <4>1, <4>2
        <5> QED BY <2>1, <5>1, Sizes
      <4>4. e.item \in Item => Live(To, e.item) = {}
        BY <2>1, <3>2, <4>3 DEF CopyInv, Copied
      <4>5. e.item \in Item
        BY <1>0, <2>1, <3>1, <3>2 DEF From, Named
      <4> QED BY <2>1, <4>4, <4>5 DEF Distinct, Live
    <3> QED BY <2>1, <3>2, <3>3, <3>6, <3>7, <3>8 DEF Distinct
  <2> QED BY <2>2, <2>3
<1>4. CASE Settle \/ Begin \/ Format \/ Append \/ CopyEnds
  BY <1>4 DEF Settle, Begin, Format, Append, CopyEnds, Rest
<1>5. CASE Index \/ Mark \/ Old \/ Header \/ Ready \/ Retire \/ Promote \/ PowerFails
  BY <1>5 DEF Index, Mark, Old, Header, Ready, Retire, Promote, PowerFails
<1> QED BY <1>1, <1>2, <1>3, <1>4, <1>5 DEF Next

LEMMA StepKeepsRoom ==
  ASSUME RoomInv, [Next]_vars
  PROVE  RoomInv'
<1>1. IInv'
  BY StepKeepsIInv DEF RoomInv
<1>2. CASE UNCHANGED vars
  BY <1>1, <1>2 DEF vars, RoomInv, Named, Distinct, To, NeverFull
<1>3. CASE Next
  <2>1. Named' /\ (pc' = "copy" => Distinct')
    BY <1>3, StepKeepsNamed, StepKeepsDistinct DEF RoomInv
  <2>2. ASSUME Cardinality(Item) <= Slots PROVE pc' # "full"
    <3>1. CASE CopyEnds /\ op.at > Slots
      <4>1. pc = "copy" /\ Distinct /\ Named /\ job.item \in Item
            /\ op.sect \in Sect /\ \A k \in 1..Slots : k < op.at
        BY <3>1, Sectors, Sizes DEF CopyEnds, RoomInv, TypeOK, OpType
      <4> DEFINE f == [k \in 1..Slots |-> To[k].item]
                 rest == Item \ {job.item}
      <4>2. \A k \in 1..Slots : To[k].item \in rest
        BY <4>1 DEF Distinct, Named, To
      <4>3. f \in [1..Slots -> rest]
        BY <4>2
      <4>4. \A j, k \in 1..Slots : f[j] = f[k] => j = k
        BY <4>1 DEF Distinct
      <4>5. IsFiniteSet(rest) /\ Cardinality(rest) = Cardinality(Item) - 1 /\ Cardinality(Item) \in Nat
        BY <4>1, ItemAssumption, FS_RemoveElement, FS_CardinalityType
      <4>6. IsFiniteSet(1..Slots) /\ Cardinality(1..Slots) = Slots
        <5>1. 1 \in Int /\ Slots \in Int /\ ~(1 > Slots)
          BY Sizes
        <5> QED BY <5>1, FS_Interval, Sizes
      <4>7. Cardinality(rest) < Cardinality(1..Slots)
        BY <2>2, <4>5, <4>6, Sizes
      <4> HIDE DEF f, rest
      <4>8. \E j, k \in 1..Slots : j # k /\ f[j] = f[k]
        BY <4>3, <4>5, <4>6, <4>7, FS_PigeonHole
      <4> QED BY <4>4, <4>8
    <3>2. CASE ~(CopyEnds /\ op.at > Slots)
      BY <1>3, <2>2, <3>2 DEF Next, RoomInv, NeverFull, Settle, Begin, Format, Append, ChangeSector, DropDuplicate,
                  CopyEntry, CopyEnds, Index, Mark, Old, Header, Ready, Retire, Promote, PowerFails
    <3> QED BY <3>1, <3>2
  <2>3. NeverFull'
    BY <2>2 DEF NeverFull
  <2> QED BY <1>1, <2>1, <2>3 DEF RoomInv
<1> QED BY <1>2, <1>3

(* The move to the other sector always leaves room for the entry to be written  *)
(* (drv_nv.c:716), for any number of items that fit the log of a sector and     *)
(* whatever duplicates losses of power have left: nv_exceptionDataHandler.      *)
THEOREM AlwaysRoom == Spec => []NeverFull
<1>1. Init => RoomInv
  <2> SUFFICES ASSUME Init PROVE RoomInv
    OBVIOUS
  <2>1. \A s \in Sect : \A k \in 1..Slots : log[s][k].state = "idle"
    BY DEF Init, Erased, Blank
  <2> QED BY <2>1, Initially DEF Init, RoomInv, Named, NeverFull
<1>2. RoomInv => NeverFull
  BY DEF RoomInv
<1> QED BY <1>1, <1>2, StepKeepsRoom, PTL DEF Spec
===============================================================================
