------------------------- MODULE HostManagerProofs -------------------------
(***************************************************************************)
(* Proofs about HostManager for every set of hosts and of devices and      *)
(* every heartbeat limit.  The inductive invariant relates the host the    *)
(* update thread is busy with, and those it still has to ask, to the       *)
(* directory that quit notices change behind its back.                     *)
(***************************************************************************)
EXTENDS HostManager, TLAPS

\* A host of the view is still in the directory, or quit in this round.
ViewPart ==
  /\ \A n \in Other : n \in hostsView => n \in hosts \cup quitInRound
  /\ \A n \in Other : n \in hostsView => n \in hosts \cup departed

\* So is the one being asked, until it is counted out.
BusyPart ==
  /\ updater \in {"await", "timeout"} => hName \in Other
  /\ updater \in {"await", "timeout"} => hName \in hosts \cup quitInRound
  /\ updater \in {"await", "timeout"} => hName \in hosts \cup departed
  /\ updater \in {"await", "timeout"} => hName \notin hostsView
  /\ updater = "timeout" => retDevices = {}
  /\ updater = "update" /\ hName \in Other =>
       hName \in hosts \cup departed \/ retDevices = {}
  /\ updater \in {"timeout", "update"} => retDevices = answered[hName]
  /\ updater = "dead" => answered[hName] = {}
  /\ updater = "sleep" => hostsView = {}

CountPart ==
  \A n \in Other :
    heartbeatTimeoutCount[n] <= HeartbeatMax \/ (updater = "dead" /\ n = hName)

\* The inductive invariant of the directory.
IInv ==
  /\ TypeOK
  /\ ViewPart
  /\ BusyPart
  /\ CountPart
  /\ DeathNeedsQuitNotice
  /\ DanglingEntryNeedsQuitNotice
  /\ EntryFollowsAnswer

-----------------------------------------------------------------------------

LEMMA TypeInit == Init => TypeOK
  BY HeartbeatAssumption, SelfAssumption
  DEF Init, TypeOK, Host, UpdaterPc, InitializerPc

\* TypeOK alone is not inductive: that the count stays in its range and that
\* the host it is kept for is not this one come from the rest of IInv.
LEMMA TypeStep == IInv /\ [Next]_vars => TypeOK'
<1> SUFFICES ASSUME TypeOK, BusyPart, CountPart, [Next]_vars PROVE TypeOK'
  BY DEF IInv
<1> USE HeartbeatAssumption, SelfAssumption
    DEF TypeOK, Host, UpdaterPc, InitializerPc,
        envVars, dirVars, updVars, initVars, histVars
<1>1. CASE UNCHANGED vars
  BY <1>1 DEF vars
<1>2. CASE HostComesOrGoes
  BY <1>2 DEF HostComesOrGoes
<1>3. CASE DriverComesOrGoes
  BY <1>3 DEF DriverComesOrGoes
<1>4. CASE HandleAddNewHost
  BY <1>4 DEF HandleAddNewHost
<1>5. CASE HandleQuitNotice
  BY <1>5 DEF HandleQuitNotice
<1>6. CASE Initializer
  BY <1>6 DEF Initializer, InitializeRequest, InitializeUpdate
<1>7. CASE BeginRound \/ EndRound
  BY <1>7 DEF BeginRound, EndRound
<1>8. CASE AskHost
  BY <1>8 DEF AskHost
<1>9. CASE ReceiveAnswer \/ LoseAnswer
  BY <1>9 DEF ReceiveAnswer, LoseAnswer
<1>10. CASE HandleHeartbeatTimeout
  <2>1. /\ hName \in Other
        /\ heartbeatTimeoutCount[hName] + 1 \in 0 .. HeartbeatMax + 1
    BY <1>10 DEF HandleHeartbeatTimeout, BusyPart, CountPart
  <2>2. /\ hosts' \subseteq Host
        /\ updater' \in UpdaterPc
    BY <1>10 DEF HandleHeartbeatTimeout
  <2>3. PICK missed \in 0 .. HeartbeatMax + 1 :
          heartbeatTimeoutCount' = [heartbeatTimeoutCount EXCEPT ![hName] = missed]
    BY <1>10, <2>1 DEF HandleHeartbeatTimeout
  <2>4. heartbeatTimeoutCount' \in [Other -> 0 .. HeartbeatMax + 1]
    BY <2>3
  <2>5. QED
    BY <1>10, <2>2, <2>4 DEF HandleHeartbeatTimeout
<1>11. CASE UpdateDevices
  BY <1>11 DEF UpdateDevices
<1>12. QED
  BY <1>1, <1>2, <1>3, <1>4, <1>5, <1>6, <1>7, <1>8, <1>9, <1>10, <1>11
  DEF Next, Updater

-----------------------------------------------------------------------------

LEMMA InitIInv == Init => IInv
<1> SUFFICES ASSUME Init PROVE IInv
  OBVIOUS
<1>1. TypeOK
  BY TypeInit
<1>2. ViewPart /\ BusyPart
  BY DEF Init, ViewPart, BusyPart
<1>3. CountPart /\ DeathNeedsQuitNotice
  BY HeartbeatAssumption DEF Init, CountPart, DeathNeedsQuitNotice
<1>4. DanglingEntryNeedsQuitNotice /\ EntryFollowsAnswer
  BY SelfAssumption DEF Init, DanglingEntryNeedsQuitNotice, EntryFollowsAnswer, Host
<1>5. QED
  BY <1>1, <1>2, <1>3, <1>4 DEF IInv

\* Hosts coming, going, joining and quitting, and the initialize thread.
LEMMA KeepsOutside ==
  ASSUME IInv, TypeOK',
         \/ HostComesOrGoes \/ DriverComesOrGoes \/ HandleAddNewHost
         \/ HandleQuitNotice \/ Initializer \/ UNCHANGED vars
  PROVE  IInv'
<1>1. /\ UNCHANGED <<devices, heartbeatTimeoutCount, updater, hostsView, hName,
                     retDevices, answered>>
      /\ hosts \cup departed \subseteq hosts' \cup departed'
      /\ updater # "sleep" => hosts \cup quitInRound \subseteq hosts' \cup quitInRound'
      /\ updater # "sleep" => quitInRound \subseteq quitInRound'
      /\ (hosts' \cup departed') \cap departed \subseteq hosts' \cup departed'
  <2> USE DEF envVars, dirVars, updVars, initVars, histVars
  <2>1. CASE HostComesOrGoes \/ DriverComesOrGoes \/ UNCHANGED vars
    BY <2>1 DEF HostComesOrGoes, DriverComesOrGoes, vars
  <2>2. CASE HandleAddNewHost
    BY <2>2 DEF HandleAddNewHost
  <2>3. CASE HandleQuitNotice
    BY <2>3 DEF HandleQuitNotice
  <2>4. CASE Initializer
    BY <2>4 DEF Initializer, InitializeRequest, InitializeUpdate
  <2>5. QED
    BY <2>1, <2>2, <2>3, <2>4
<1>2. ViewPart' /\ BusyPart'
  BY <1>1 DEF IInv, ViewPart, BusyPart
<1>3. CountPart' /\ DeathNeedsQuitNotice'
  BY <1>1 DEF IInv, CountPart, DeathNeedsQuitNotice
<1>4. DanglingEntryNeedsQuitNotice'
  BY <1>1 DEF IInv, DanglingEntryNeedsQuitNotice
<1>5. EntryFollowsAnswer'
  BY <1>1 DEF IInv, EntryFollowsAnswer
<1>6. QED
  BY <1>2, <1>3, <1>4, <1>5 DEF IInv

LEMMA KeepsRound ==
  ASSUME IInv, TypeOK', BeginRound \/ EndRound
  PROVE  IInv'
<1> USE DEF BeginRound, EndRound, IInv, envVars, dirVars, initVars, histVars
<1>1. ViewPart' /\ BusyPart'
  BY DEF ViewPart, BusyPart
<1>2. CountPart' /\ DeathNeedsQuitNotice'
  BY DEF CountPart, DeathNeedsQuitNotice
<1>3. DanglingEntryNeedsQuitNotice' /\ EntryFollowsAnswer'
  BY DEF DanglingEntryNeedsQuitNotice, EntryFollowsAnswer
<1>4. QED
  BY <1>1, <1>2, <1>3

LEMMA KeepsAsk ==
  ASSUME IInv, TypeOK', AskHost
  PROVE  IInv'
<1>1. PICK n \in hostsView :
        /\ hName' = n
        /\ hostsView' = hostsView \ {n}
        /\ \/ /\ n = Self
              /\ retDevices' = localDevices[Self]
              /\ answered' = [answered EXCEPT ![Self] = localDevices[Self]]
              /\ updater' = "update"
           \/ /\ n \in reachable
              /\ updater' = "await"
              /\ UNCHANGED <<retDevices, answered>>
           \/ /\ n \in Other \ reachable
              /\ retDevices' = {}
              /\ answered' = [answered EXCEPT ![n] = {}]
              /\ updater' = "timeout"
  BY DEF AskHost
<1>2. /\ UNCHANGED <<hosts, devices, heartbeatTimeoutCount, departed, quitInRound>>
      /\ updater = "next"
  BY DEF AskHost, dirVars
<1> USE <1>1, <1>2, SelfAssumption DEF IInv, TypeOK, Host
<1>3. ViewPart'
  BY DEF ViewPart
<1>4. BusyPart'
  BY DEF ViewPart, BusyPart
<1>5. CountPart' /\ DeathNeedsQuitNotice'
  BY DEF CountPart, DeathNeedsQuitNotice
<1>6. DanglingEntryNeedsQuitNotice'
  BY DEF DanglingEntryNeedsQuitNotice
<1>7. EntryFollowsAnswer'
  BY DEF EntryFollowsAnswer
<1>8. QED
  BY <1>3, <1>4, <1>5, <1>6, <1>7

LEMMA KeepsAnswer ==
  ASSUME IInv, TypeOK', ReceiveAnswer \/ LoseAnswer
  PROVE  IInv'
<1> USE SelfAssumption DEF ReceiveAnswer, LoseAnswer, IInv, TypeOK, Host, dirVars
<1>1. ViewPart' /\ BusyPart'
  BY DEF ViewPart, BusyPart
<1>2. CountPart' /\ DeathNeedsQuitNotice'
  BY DEF CountPart, DeathNeedsQuitNotice
<1>3. DanglingEntryNeedsQuitNotice'
  BY DEF DanglingEntryNeedsQuitNotice
<1>4. EntryFollowsAnswer'
  BY DEF EntryFollowsAnswer
<1>5. QED
  BY <1>1, <1>2, <1>3, <1>4

\* The counted-out host leaves with an empty answer, so that the update that
\* follows takes its entries out.
LEMMA KeepsTimeout ==
  ASSUME IInv, TypeOK', HandleHeartbeatTimeout
  PROVE  IInv'
<1>1. /\ UNCHANGED <<devices, hostsView, hName, retDevices, departed, quitInRound, answered>>
      /\ updater = "timeout" /\ updater' \in {"update", "dead"}
      /\ hosts' = hosts \/ (hosts' = hosts \ {hName} /\ updater' = "update")
      /\ updater' = "dead" => hName \notin hosts
  BY DEF HandleHeartbeatTimeout, histVars
<1>2. /\ hName \in Other
      /\ hName \notin hosts => hName \in quitInRound
      /\ hName \notin hostsView
      /\ retDevices = {} /\ answered[hName] = {}
  BY <1>1 DEF IInv, BusyPart
<1>3. \A n \in Other : n # hName =>
        /\ n \in hosts' <=> n \in hosts
        /\ heartbeatTimeoutCount'[n] = heartbeatTimeoutCount[n]
        /\ heartbeatTimeoutCount'[n] <= HeartbeatMax
  BY <1>1, HeartbeatAssumption DEF HandleHeartbeatTimeout, IInv, TypeOK, CountPart
<1>4. updater' = "dead" \/ heartbeatTimeoutCount'[hName] <= HeartbeatMax
  BY <1>2, HeartbeatAssumption DEF HandleHeartbeatTimeout, IInv, TypeOK
<1>5. ViewPart'
  BY <1>1, <1>2, <1>3 DEF IInv, ViewPart
<1>6. BusyPart'
  BY <1>1, <1>2 DEF IInv, BusyPart
<1>7. CountPart' /\ DeathNeedsQuitNotice'
  BY <1>1, <1>2, <1>3, <1>4, HeartbeatAssumption
  DEF IInv, TypeOK, CountPart, DeathNeedsQuitNotice
<1>8. DanglingEntryNeedsQuitNotice'
  BY <1>1, <1>2, <1>3 DEF IInv, DanglingEntryNeedsQuitNotice
<1>9. EntryFollowsAnswer'
  BY <1>1, <1>2 DEF IInv, EntryFollowsAnswer
<1>10. QED
  BY <1>5, <1>6, <1>7, <1>8, <1>9 DEF IInv

\* The entries that the answer does not confirm go, those it brings name a host
\* that is in the directory or has quit.
LEMMA KeepsUpdateDevices ==
  ASSUME IInv, TypeOK', UpdateDevices
  PROVE  IInv'
<1>1. /\ UNCHANGED <<hosts, heartbeatTimeoutCount, hostsView, departed, quitInRound, answered>>
      /\ updater = "update" /\ updater' = "next"
  BY DEF UpdateDevices, histVars
<1>2. \A d \in Device :
        \/ d \in retDevices /\ devices'[d] = hName
        \/ d \notin retDevices /\ devices[d] = hName /\ devices'[d] = Nobody
        \/ d \notin retDevices /\ devices[d] # hName /\ devices'[d] = devices[d]
  BY DEF UpdateDevices
<1>3. ViewPart' /\ BusyPart'
  BY <1>1 DEF IInv, ViewPart, BusyPart
<1>4. CountPart' /\ DeathNeedsQuitNotice'
  BY <1>1 DEF IInv, CountPart, DeathNeedsQuitNotice
<1>5. DanglingEntryNeedsQuitNotice'
  BY <1>1, <1>2, SelfAssumption
  DEF IInv, BusyPart, DanglingEntryNeedsQuitNotice
<1>6. EntryFollowsAnswer'
  BY <1>1, <1>2 DEF IInv, BusyPart, EntryFollowsAnswer
<1>7. QED
  BY <1>3, <1>4, <1>5, <1>6 DEF IInv

LEMMA StepIInv == IInv /\ [Next]_vars => IInv'
<1> SUFFICES ASSUME IInv, [Next]_vars PROVE IInv'
  OBVIOUS
<1>1. TypeOK'
  BY TypeStep
<1>2. CASE \/ HostComesOrGoes \/ DriverComesOrGoes \/ HandleAddNewHost
           \/ HandleQuitNotice \/ Initializer \/ UNCHANGED vars
  BY <1>1, <1>2, KeepsOutside
<1>3. CASE BeginRound \/ EndRound
  BY <1>1, <1>3, KeepsRound
<1>4. CASE AskHost
  BY <1>1, <1>4, KeepsAsk
<1>5. CASE ReceiveAnswer \/ LoseAnswer
  BY <1>1, <1>5, KeepsAnswer
<1>6. CASE HandleHeartbeatTimeout
  BY <1>1, <1>6, KeepsTimeout
<1>7. CASE UpdateDevices
  BY <1>1, <1>7, KeepsUpdateDevices
<1>8. QED
  BY <1>2, <1>3, <1>4, <1>5, <1>6, <1>7 DEF Next, Updater

\* The invariant holds in every state of every cluster.
THEOREM Inductive == Spec => []IInv
  BY InitIInv, StepIInv, PTL DEF Spec

-----------------------------------------------------------------------------

\* Whatever the hosts and devices, every variable keeps to its range.
THEOREM TypeCorrect == Spec => []TypeOK
<1>1. IInv => TypeOK
  BY DEF IInv
<1>2. QED
  BY <1>1, Inductive, PTL

\* Only a quit notice in the middle of a round can kill the heartbeat thread.
THEOREM DeathsAreQuits == Spec => []DeathNeedsQuitNotice
<1>1. IInv => DeathNeedsQuitNotice
  BY DEF IInv
<1>2. QED
  BY <1>1, Inductive, PTL

\* Only a quit notice leaves entries behind that name no known host.
THEOREM DanglersAreDeparted == Spec => []DanglingEntryNeedsQuitNotice
<1>1. IInv => DanglingEntryNeedsQuitNotice
  BY DEF IInv
<1>2. QED
  BY <1>1, Inductive, PTL

\* The device directory never says more than the hosts last answered.
THEOREM EntriesAreAnswers == Spec => []EntryFollowsAnswer
<1>1. IInv => EntryFollowsAnswer
  BY DEF IInv
<1>2. QED
  BY <1>1, Inductive, PTL

=============================================================================
