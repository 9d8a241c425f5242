----------------------------- MODULE MCReporting -----------------------------
(* Instances of Reporting for TLC: two attributes of one cluster and one of     *)
(* another, as many slots as attributes, intervals of a few seconds.            *)
EXTENDS Reporting

CONSTANTS a1, a2, b1

MCAttr    == {a1, a2, b1}
MCGroupOf == [a \in MCAttr |-> IF a = b1 THEN "electrical" ELSE "metering"]
Smallest  == {a1, b1}

SmallGroupOf == [a \in Smallest |-> IF a = b1 THEN "electrical" ELSE "metering"]

Req(min, max, rc) == [min |-> min, max |-> max, rc |-> rc]

(* A slot as it was saved right after its Configure Reporting. *)
Saved(a, r) ==
  [used |-> TRUE, attr |-> a, min |-> r.min, max |-> r.max,
   minDft |-> r.min, maxDft |-> r.max, minCnt |-> r.min, maxCnt |-> r.max,
   rc |-> r.rc, prev |-> Erased]

(* Full tables: one maximum interval for all that have one, as the converter of *)
(* the repository sets them; and minima and maxima of their own, no minimum 0.  *)
FullTables ==
  {<<Saved(a1, Req(0, 3, 0)), Saved(a2, Req(2, 3, 0)), Saved(b1, Req(0, 0, 0))>>,
   <<Saved(a1, Req(1, 3, 0)), Saved(a2, Req(2, 3, 0)), Saved(b1, Req(1, 2, 0))>>}

(* Minimum 0 and maxima that differ. *)
HastyTable ==
  {<<Saved(a1, Req(0, 2, 0)), Saved(a2, Req(0, 3, 0)), Saved(b1, Req(0, 1, 0))>>}

PairTable == {<<Saved(a1, Req(0, 2, 0)), Saved(b1, Req(1, 2, 3))>>}

TightTable == {<<Saved(a1, Req(0, 1, 0)), Saved(b1, Req(1, 1, 0))>>}

EmptyTable    == {[i \in Slot |-> Cleared]}
EmptyOrPaired == EmptyTable \cup PairTable

AllRequests == {Req(0, 2, 0), Req(1, 2, 3), Req(0, 0, 0), Req(3, 2, 0),
                Req(0, NoReport, 0), Req(NoReport, 0, 0)}
==============================================================================
