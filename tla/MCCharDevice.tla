---------------------------- MODULE MCCharDevice ----------------------------
(* An instance of CharDevice for TLC.                                        *)
EXTENDS CharDevice

=============================================================================
