----------------------------- MODULE Placement -----------------------------
(***************************************************************************)
(* What process migration promises: a process is on one host at a time, it *)
(* goes from one host to another only through a checkpoint, and one that   *)
(* is lost stays lost: no older copy of it ever comes back.  It does not   *)
(* promise that none is lost.                                              *)
(***************************************************************************)
CONSTANTS Process, Host, Transit, Lost

VARIABLE place   \* where each process is

TypeOK == place \in [Process -> Host \cup {Transit, Lost}]

Init == place \in [Process -> Host]

Dump(p)    == /\ place[p] \in Host
              /\ place' = [place EXCEPT ![p] = Transit]
Restore(p) == /\ place[p] = Transit
              /\ \E h \in Host : place' = [place EXCEPT ![p] = h]
Lose(P)    == place' = [p \in Process |-> IF p \in P THEN Lost ELSE place[p]]

Next ==
  \/ \E p \in Process : Dump(p) \/ Restore(p)
  \/ \E P \in SUBSET Process : Lose(P)

Spec == Init /\ [][Next]_place

=============================================================================
