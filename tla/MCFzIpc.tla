------------------------------- MODULE MCFzIpc ------------------------------
(* An instance of FzIpc for TLC.                                             *)
EXTENDS FzIpc

=============================================================================
