--------------------------- MODULE MCOutputLog ---------------------------
(* Instances of OutputLog for TLC.                                         *)
EXTENDS OutputLog, TLC

Symmetry == Permutations(Data) \cup Permutations(Readers)

(* The properties say nothing of the time after two readers were at work   *)
(* at once.                                                                *)
Lone == ~overlapped
===========================================================================
