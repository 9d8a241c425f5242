------------------------------ MODULE MCUpgrade -------------------------------
(* Instances of Upgrade for TLC: the firmware of the factory and releases.      *)
EXTENDS Upgrade

MCVersion == {"v1", "v2", "v3", "v4"}
MCBlocks  == [v \in MCVersion |-> CASE v = "v1" -> 2 [] v = "v2" -> 3 [] v = "v3" -> 4 [] v = "v4" -> 5]

(* Each release replaces the one before, none is smaller.                       *)
Updates   == <<"v1", "v2", "v3", "v4">>

(* A release is withdrawn and offered again.                                    *)
Withdrawn == <<"v2", "v3", "v2">>
==============================================================================
