------------------------------- MODULE MCEws -------------------------------
(* Instances of Ews for TLC.                                                *)
EXTENDS EwsProps
============================================================================
