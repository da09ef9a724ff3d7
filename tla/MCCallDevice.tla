---------------------------- MODULE MCCallDevice ----------------------------
(***************************************************************************)
(* An instance of CallDevice for TLC: a gas sensor on two hosts, which the *)
(* first also calls by an alias, and a temperature sensor on the second,   *)
(* whose function is registered under a name that its host has to add.     *)
(***************************************************************************)
EXTENDS CallDevice, TLC

CONSTANTS hA, hB, mq2, dht11, smoke, callDht11

Files == hA :> {mq2} @@ hB :> {mq2, dht11}

Configs ==
  hA :> [extra |-> <<>>, alias |-> <<<<smoke, mq2>>>>, ignore |-> <<>>] @@
  hB :> [extra |-> <<callDht11>>, alias |-> <<>>, ignore |-> <<dht11>>]

Functions == mq2 :> mq2 @@ callDht11 :> dht11

=============================================================================
