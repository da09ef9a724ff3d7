---------------------------- MODULE MCFireAlarm ----------------------------
(* An instance of FireAlarm for TLC.                                         *)
EXTENDS FireAlarm

=============================================================================
