----------------------------- MODULE CharDevice -----------------------------
(***************************************************************************)
(* device_open and device_release, which the five drivers have in common:  *)
(* a device file is meant for one process at a time, and a plain integer,  *)
(* Device_Open, says whether one has it.                                   *)
(*                                                                         *)
(* The kernel calls both without a lock.  The test, the increment and the  *)
(* decrement of Device_Open are a data race: each is a load and a store    *)
(* that other processes' loads and stores may come between, and the        *)
(* compiler may increment the value it has tested instead of a fresh one.  *)
(***************************************************************************)
EXTENDS Integers, FiniteSets

CONSTANT Process   \* the processes that open the device file

VARIABLES
  deviceOpen,   \* Device_Open
  place,        \* where each process is
  register,     \* the value it has loaded
  overlap       \* history: a process passed the test while another had passed
                \* it and not stored its increment yet

deviceVars == <<deviceOpen, place, register, overlap>>

Place == {"closed", "tested", "incremented", "open", "decremented"}

DeviceInit ==
  /\ deviceOpen = 0
  /\ place = [p \in Process |-> "closed"]
  /\ register = [p \in Process |-> 0]
  /\ overlap = FALSE

Opening(p) == place[p] \in {"tested", "incremented"}

-----------------------------------------------------------------------------
(* Mutant: device_open without its test.  It is no part of DeviceNext.       *)

OpenWithoutTest(p) ==
  /\ place[p] = "closed"
  /\ place' = [place EXCEPT ![p] = "tested"]
  /\ register' = [register EXCEPT ![p] = deviceOpen]
  /\ overlap' = (overlap \/ \E q \in Process : Opening(q))
  /\ UNCHANGED deviceOpen

-----------------------------------------------------------------------------

\* "if (Device_Open) return -EBUSY"; the error leaves everything as it is.
OpenTest(p) ==
  /\ place[p] = "closed"
  /\ deviceOpen = 0
  /\ place' = [place EXCEPT ![p] = "tested"]
  /\ register' = [register EXCEPT ![p] = deviceOpen]
  /\ overlap' = (overlap \/ \E q \in Process : Opening(q))
  /\ UNCHANGED deviceOpen

\* "Device_Open++": the value tested or a fresh one is incremented ...
OpenIncrement(p) ==
  /\ place[p] = "tested"
  /\ place' = [place EXCEPT ![p] = "incremented"]
  /\ \E value \in {register[p], deviceOpen} :
       register' = [register EXCEPT ![p] = value + 1]
  /\ UNCHANGED <<deviceOpen, overlap>>

\* ... and stored, and the file is open.
OpenStore(p) ==
  /\ place[p] = "incremented"
  /\ place' = [place EXCEPT ![p] = "open"]
  /\ deviceOpen' = register[p]
  /\ UNCHANGED <<register, overlap>>

\* "Device_Open--"
ReleaseDecrement(p) ==
  /\ place[p] = "open"
  /\ place' = [place EXCEPT ![p] = "decremented"]
  /\ register' = [register EXCEPT ![p] = deviceOpen - 1]
  /\ UNCHANGED <<deviceOpen, overlap>>

ReleaseStore(p) ==
  /\ place[p] = "decremented"
  /\ place' = [place EXCEPT ![p] = "closed"]
  /\ deviceOpen' = register[p]
  /\ UNCHANGED <<register, overlap>>

DeviceOpen(p)    == OpenTest(p) \/ OpenIncrement(p) \/ OpenStore(p)
DeviceRelease(p) == ReleaseDecrement(p) \/ ReleaseStore(p)

DeviceNext == \E p \in Process : DeviceOpen(p) \/ DeviceRelease(p)

DeviceSpec == DeviceInit /\ [][DeviceNext]_deviceVars

-----------------------------------------------------------------------------

\* The type invariant; the counter may become any integer, negative ones too.
DeviceTypeOK ==
  /\ deviceOpen \in Int
  /\ place \in [Process -> Place]
  /\ register \in [Process -> Int]
  /\ overlap \in BOOLEAN

\* Two processes are past the test at once only if they tested together: the
\* window of device_open is the only hole, however opens and releases mix.
ExclusiveUnlessOverlap ==
  \A p, q \in Process :
    place[p] # "closed" /\ place[q] # "closed" /\ p # q => overlap

\* As long as that has not happened, the counter is 1 when the file is open
\* and 0 when nobody has it: it never blocks a device nobody uses.
CounterTellsUnlessOverlap ==
  ~overlap =>
    deviceOpen = IF \E p \in Process : place[p] \in {"open", "decremented"} THEN 1 ELSE 0

=============================================================================
