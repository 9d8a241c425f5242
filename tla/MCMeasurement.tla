---------------------------- MODULE MCMeasurement ----------------------------
(* Instances of Measurement for TLC: a minute is three units of time, a failed  *)
(* measurement is repeated after two, a reload follows after four or five.      *)
EXTENDS Measurement

Nobody   == "a byte no meter has"

(* A driver whose buffers shadow the attributes, and two with a login of their  *)
(* own and three sessions, one of which resets its start with every measurement. *)
Buffered == {"KASKAD_11", "NARTIS_100", "NARTIS_I100"}
CE208BY  == {"ENERGOMERA_CE208BY"}
==============================================================================
