------------------------------ MODULE MCDht11 ------------------------------
(* Instances of Dht11 for TLC.                                               *)
EXTENDS Dht11

=============================================================================
