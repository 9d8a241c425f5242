----------------------------- MODULE MCNvModule -------------------------------
(* The model of the flash storage on small sectors. *)
EXTENDS NvModule, TLC

CONSTANTS reporting, settings, counter, old, new

MCItem == {reporting, settings, counter}
MCValue == {old, new}

\* the items and the values are interchangeable
Interchangeable == Permutations(MCItem) \cup Permutations(MCValue)
===============================================================================
