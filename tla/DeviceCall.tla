----------------------------- MODULE DeviceCall -----------------------------
(***************************************************************************)
(* What fz_call_device promises the programs that use the SDK to reach a   *)
(* device of the local host: the calls of one client are made one after    *)
(* the other, the device function runs at most once per call, a call that  *)
(* returns returns what that run produced, and a call the SDK refuses with *)
(* an exception never runs it.  It does not promise that a call ends.      *)
(***************************************************************************)
EXTENDS Naturals

CONSTANTS Client, MaxCalls

VARIABLE state   \* the state of each call of each client

CallNumber == 1 .. MaxCalls

CallStates == {"none", "asked", "served", "answered", "refused", "broken"}

TypeOK == state \in [Client -> [CallNumber -> CallStates]]

Init == state = [c \in Client |-> [n \in CallNumber |-> "none"]]

\* The calls before n have come back to the client's program.
MayCall(c, n) ==
  /\ state[c][n] = "none"
  /\ \A m \in 1 .. n - 1 : state[c][m] \in {"answered", "refused"}

Step(c, n, from, to) ==
  /\ state[c][n] = from
  /\ state' = [state EXCEPT ![c][n] = to]

Ask(c, n)    == MayCall(c, n) /\ Step(c, n, "none", "asked")
Refuse(c, n) == MayCall(c, n) /\ Step(c, n, "none", "refused")
Run(c, n)    == Step(c, n, "asked", "served")
Break(c, n)  == Step(c, n, "asked", "broken")
Answer(c, n) == Step(c, n, "served", "answered")

Next ==
  \E c \in Client, n \in CallNumber :
    Ask(c, n) \/ Refuse(c, n) \/ Run(c, n) \/ Break(c, n) \/ Answer(c, n)

Spec == Init /\ [][Next]_state

=============================================================================
