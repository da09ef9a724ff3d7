---------------------------- MODULE MCRemoteDev ----------------------------
(* An instance of RemoteDev for TLC.                                         *)
EXTENDS RemoteDev

=============================================================================
