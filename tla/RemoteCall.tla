----------------------------- MODULE RemoteCall -----------------------------
(***************************************************************************)
(* What the remote device driver promises the process that has it open:    *)
(* reads and writes are made one after the other; each of them reaches the *)
(* device once at most, and before it returns; a read gives its caller     *)
(* what the device gave it, no bytes when the connection broke, and what   *)
(* the device file gave last when the connection was refused.  It does not *)
(* promise that one returns, nor does a write tell whether it reached the  *)
(* device.                                                                 *)
(***************************************************************************)
EXTENDS Integers

CONSTANT MaxRequests

VARIABLES
  state,     \* of each read or write
  runs,      \* how often each has reached the device
  bytes,     \* the one whose bytes the device file gives (0: no bytes)
  returned   \* what each read has returned

Request == 1 .. MaxRequests
NotRead == -2

Init ==
  /\ state = [n \in Request |-> "none"] /\ runs = [n \in Request |-> 0]
  /\ bytes = 0 /\ returned = [n \in Request |-> NotRead]

Moves(n, from, to) == state[n] = from /\ state' = [state EXCEPT ![n] = to]

\* The process waits for its earlier reads and writes.
Ask(n) ==
  /\ Moves(n, "none", "asked")
  /\ \A m \in 1 .. n - 1 : state[m] = "ended"
  /\ UNCHANGED <<runs, bytes, returned>>

Run(n) ==
  /\ state[n] = "asked" /\ runs[n] = 0
  /\ runs' = [runs EXCEPT ![n] = 1]
  /\ UNCHANGED <<state, bytes, returned>>

\* A read of the device may have given no bytes.
Answer(n) ==
  /\ Moves(n, "asked", "done") /\ runs[n] = 1
  /\ bytes' \in {0, n} /\ UNCHANGED <<runs, returned>>

\* The connection breaks, before the device was reached or after it.
Break(n) ==
  /\ Moves(n, "asked", "done")
  /\ bytes' = 0 /\ UNCHANGED <<runs, returned>>

Refuse(n) ==
  /\ Moves(n, "asked", "done") /\ runs[n] = 0
  /\ UNCHANGED <<runs, bytes, returned>>

ReturnRead(n) ==
  /\ Moves(n, "done", "ended")
  /\ returned' = [returned EXCEPT ![n] = bytes] /\ UNCHANGED <<runs, bytes>>

ReturnWrite(n) == Moves(n, "done", "ended") /\ UNCHANGED <<runs, bytes, returned>>

Next ==
  \E n \in Request :
    \/ Ask(n) \/ Run(n) \/ Answer(n) \/ Break(n) \/ Refuse(n)
    \/ ReturnRead(n) \/ ReturnWrite(n)

vars == <<state, runs, bytes, returned>>

Spec == Init /\ [][Next]_vars

=============================================================================
