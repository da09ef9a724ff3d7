----------------------- MODULE ProcessMigrationProofs -----------------------
(***************************************************************************)
(* Proofs about ProcessMigration for every set of processes, hosts, images *)
(* and names and every number of calls.  The services share nothing but    *)
(* files and docker, so that what keeps a process from running twice is    *)
(* the order of one migration's own steps: IInv says how far the handlers  *)
(* of a process can be behind its program, and where it runs meanwhile.    *)
(***************************************************************************)
EXTENDS ProcessMigration, TLAPS

\* The migration of d is the one its process has asked for last and waits for.
Current(d) == pc[d[1]] \in {"post", "poll"} /\ d[2] = hop[d[1]]

\* The handlers of d may still stop, save or start something.
Dumping(d)   == dump[d] \in {"enter", "mkdir", "rmtree", "checkpoint", "post"}
Restoring(d) == restore[d] \in {"stop", "create", "start"}

\* Only the handlers of the current migration are at work, the restore after
\* the dump; those of earlier ones have nothing left to do but clean up.
InStep(d) ==
  /\ d[2] > hop[d[1]] => dump[d] = "none"
  /\ dump[d] \notin {"wait", "done"} => restore[d] = "none"
  /\ dump[d] \in {"none", "enter", "mkdir", "rmtree", "checkpoint"} => d \notin checkpoint
  /\ Dumping(d) \/ Restoring(d) => Current(d)
  /\ Restoring(d) => Target(d) \in Host

HandlerPart == \A d \in Handler : InStep(d)

\* The migration the process has asked for last.
Last(p) == <<p, hop[p]>>

\* A process that waits for a migration runs nowhere but where it asked for it
\* until its restore has started it; one at its device runs nowhere but there.
\* A migration to the device leaves room for the one back.
WaitPart(p) ==
  pc[p] \in {"post", "poll"} =>
    /\ hop[p] \in Hop
    /\ source[Last(p)] # targetHost[p]
    /\ restore[Last(p)] \notin {"rm", "done"} =>
         \A h \in Host : Runs(p, h) => h = source[Last(p)]
    /\ targetHost[p] # oldHost[p] => hop[p] < 2 * MaxCalls

DevicePart(p) ==
  pc[p] = "device" =>
    /\ hop[p] < 2 * MaxCalls
    /\ targetHost[p] # oldHost[p]
    /\ \A h \in Host : Runs(p, h) => h = targetHost[p]

JourneyPart == \A p \in Process : WaitPart(p) /\ DevicePart(p)

\* What a restore will load is there, or its process has failed.
ImagePart ==
  \A d \in Handler :
    restore[d] = "stop" /\ fault[d[1]] = "none" => image[d[1]] \in saved \cup images[Target(d)]

\* The inductive invariant of migration.
IInv ==
  /\ TypeOK
  /\ HandlerPart
  /\ JourneyPart
  /\ NeverTwice
  /\ LossHasACause
  /\ CallLeavesProcessHome
  /\ ImagePart
  /\ ImageComesFirst

-----------------------------------------------------------------------------
(* Handlers, containers and transit.                                        *)

LEMMA HandlerPair ==
  /\ \A d \in Handler : d[1] \in Process /\ d[2] \in Hop /\ d = <<d[1], d[2]>>
  /\ \A p \in Process, k \in Hop :
       <<p, k>> \in Handler /\ <<p, k>>[1] = p /\ <<p, k>>[2] = k
BY DEF Handler

\* A container changes and the others do not.
LEMMA ContainerUpdate ==
  ASSUME NEW S, NEW f \in [Host -> [Name -> S]],
         NEW t \in Host, NEW n \in Name, NEW v \in S
  PROVE  LET g == [f EXCEPT ![t][n] = v]
         IN /\ g \in [Host -> [Name -> S]]
            /\ \A h \in Host, m \in Name :
                 g[h][m] = IF h = t /\ m = n THEN v ELSE f[h][m]
<1>1. f[t] \in [Name -> S]
  OBVIOUS
<1>2. [f[t] EXCEPT ![n] = v] \in [Name -> S]
  BY <1>1
<1>3. [f EXCEPT ![t][n] = v] = [f EXCEPT ![t] = [f[t] EXCEPT ![n] = v]]
  OBVIOUS
<1>4. \A h \in Host, m \in Name :
        [f EXCEPT ![t] = [f[t] EXCEPT ![n] = v]][h][m]
          = IF h = t /\ m = n THEN v ELSE f[h][m]
  BY <1>1
<1>5. QED
  BY <1>2, <1>3, <1>4

\* Being in transit, before and after a step.
LEMMA TransitOf ==
  ASSUME NEW p \in Process
  PROVE  /\ InTransit(p) <=> \E d \in Handler : d[1] = p /\ OnTheWay(d)
         /\ InTransit(p)' <=> \E d \in Handler : d[1] = p /\ OnTheWay(d)'
<1>1. ASSUME NEW d \in Handler, d[1] = p
      PROVE  /\ OnTheWay(d) => InTransit(p)
             /\ OnTheWay(d)' => InTransit(p)'
  <2>1. d[2] \in Hop /\ d = <<p, d[2]>>
    BY <1>1, HandlerPair
  <2>2. OnTheWay(<<p, d[2]>>) => InTransit(p)
    BY <2>1 DEF InTransit
  <2>3. OnTheWay(<<p, d[2]>>)' => InTransit(p)'
    BY <2>1 DEF InTransit
  <2>4. QED
    BY <2>1, <2>2, <2>3 DEF OnTheWay
<1>2. /\ InTransit(p) => \E d \in Handler : d[1] = p /\ OnTheWay(d)
      /\ InTransit(p)' => \E d \in Handler : d[1] = p /\ OnTheWay(d)'
  BY HandlerPair DEF InTransit
<1>3. QED
  BY <1>1, <1>2

-----------------------------------------------------------------------------
(* Type correctness.                                                        *)

LEMMA TypeInit == Init => TypeOK
<1> SUFFICES ASSUME Init PROVE TypeOK
  OBVIOUS
<1> USE NamingAssumption, MaxCallsAssumption, ContainerAssumption DEF Init
<1>1. PICK at \in [Process -> Host] :
        /\ container = [h \in Host |-> [n \in Name |->
                          IF \E p \in Process : at[p] = h /\ name[p] = n
                            THEN CHOOSE p \in Process : at[p] = h /\ name[p] = n
                            ELSE NoContainer]]
        /\ oldHost = at /\ targetHost = at
  BY Zenon
<1>2. name \in [Process -> Name] /\ image \in [Process -> Image]
  OBVIOUS
<1>3. container \in [Host -> [Name -> Process \cup {NoContainer, Idle}]]
  <2>1. \A h \in Host, n \in Name :
          (\E p \in Process : at[p] = h /\ name[p] = n)
            => (CHOOSE p \in Process : at[p] = h /\ name[p] = n) \in Process
    OBVIOUS
  <2>2. QED
    BY <1>1, <2>1
<1>4. Process # {} => (CHOOSE h \in Host : TRUE) \in Host
  <2>1. \A p \in Process : oldHost[p] \in Host
    BY <1>1
  <2>2. QED
    BY <2>1
<1>5. source \in [Handler -> Host]
  BY <1>4 DEF Handler
<1>6. images \in [Host -> SUBSET Image]
  BY <1>2
<1>7. /\ oldHost \in [Process -> Host] /\ targetHost \in [Process -> Host \cup {NoHost}]
      /\ pc \in [Process -> ProcessPc] /\ hop \in [Process -> 0 .. 2 * MaxCalls]
      /\ dump \in [Handler -> DumpPc] /\ restore \in [Handler -> RestorePc]
      /\ filesDir \in [Image -> BOOLEAN] /\ checkpoint \subseteq Handler
      /\ saved \subseteq Image /\ fault \in [Process -> Fault]
  BY <1>1 DEF ProcessPc, DumpPc, RestorePc, Fault
<1>8. QED
  BY <1>2, <1>3, <1>5, <1>6, <1>7 DEF TypeOK

\* The requests of a process that migrates.
LEMMA TypeProgram ==
  ASSUME IInv, NEW p \in Process, CallSpecialDevice(p) \/ Program(p)
  PROVE  TypeOK'
<1> USE MaxCallsAssumption, DeviceHostAssumption
    DEF TypeOK, constVars, shipVars, ProcessPc, DumpPc, Fault
<1>0. TypeOK
  BY DEF IInv
<1>1. ASSUME NEW h \in Host, NEW t \in Host \cup {NoHost}, PostDump(p, h, t),
             hop[p] < 2 * MaxCalls
      PROVE  /\ hop' \in [Process -> 0 .. 2 * MaxCalls]
             /\ targetHost' \in [Process -> Host \cup {NoHost}]
             /\ dump' \in [Handler -> DumpPc]
             /\ source' \in [Handler -> Host]
             /\ pc' \in [Process -> ProcessPc]
  <2>1. hop[p] + 1 \in 0 .. 2 * MaxCalls /\ hop[p] + 1 \in Hop
    BY <1>0, <1>1 DEF Hop
  <2>2. <<p, hop[p] + 1>> \in Handler
    BY <2>1 DEF Handler
  <2>3. QED
    BY <1>0, <1>1, <2>1, <2>2 DEF PostDump
<1>2. CASE CallSpecialDevice(p)
  <2>1. PICK h \in Host, t \in DeviceHost :
          /\ hop[p] + 2 <= 2 * MaxCalls
          /\ oldHost' = [oldHost EXCEPT ![p] = h]
          /\ PostDump(p, h, t)
          /\ UNCHANGED <<constVars, shipVars, container, restore, filesDir, checkpoint, fault>>
    BY <1>2 DEF CallSpecialDevice
  <2>2. hop[p] < 2 * MaxCalls /\ t \in Host \cup {NoHost}
    BY <1>0, <2>1
  <2>3. QED
    BY <1>0, <1>1, <2>1, <2>2
<1>3. CASE PostEnds(p) \/ PollEnds(p)
  BY <1>0, <1>3 DEF PostEnds, PollEnds
<1>4. CASE CallDeviceFunction(p)
  <2>1. PICK h \in Host :
          /\ pc[p] = "device"
          /\ \/ PostDump(p, h, oldHost[p]) /\ UNCHANGED fault
             \/ /\ pc' = [pc EXCEPT ![p] = "program"]
                /\ fault' = [fault EXCEPT ![p] = "stranded"]
                /\ UNCHANGED <<hop, targetHost, dump, source>>
          /\ UNCHANGED <<constVars, shipVars, container, oldHost, restore, filesDir, checkpoint>>
    BY <1>4 DEF CallDeviceFunction
  <2>2. hop[p] < 2 * MaxCalls
    BY <2>1 DEF IInv, JourneyPart, DevicePart
  <2>3. CASE PostDump(p, h, oldHost[p]) /\ UNCHANGED fault
    BY <1>0, <1>1, <2>1, <2>2, <2>3
  <2>4. CASE UNCHANGED <<hop, targetHost, dump, source>>
    BY <1>0, <2>1, <2>4 DEF PostDump
  <2>5. QED
    BY <2>1, <2>3, <2>4
<1>5. QED
  BY <1>2, <1>3, <1>4 DEF Program

LEMMA TypeDump ==
  ASSUME TypeOK, NEW d \in Handler, HandleDump(d)
  PROVE  TypeOK'
<1> USE DEF TypeOK, constVars, shipVars, procVars, DumpPc, RestorePc, Fault, Fails
<1>0. d[1] \in Process
  BY HandlerPair
<1>1. CASE DumpEnter(d) \/ DumpEnds(d)
  BY <1>1 DEF DumpEnter, DumpEnds
<1>2. CASE DumpMakeDirs(d)
  BY <1>2 DEF DumpMakeDirs
<1>3. CASE DumpRmtree(d)
  <2>1. fault' \in [Process -> Fault]
    BY <1>3 DEF DumpRmtree
  <2>2. QED
    BY <1>3, <2>1 DEF DumpRmtree
<1>4. CASE DumpCheckpoint(d)
  <2>1. [container EXCEPT ![source[d]][name[d[1]]] = Idle]
          \in [Host -> [Name -> Process \cup {NoContainer, Idle}]]
    <3>1. source[d] \in Host /\ name[d[1]] \in Name
      BY <1>0
    <3>2. QED
      BY <3>1, ContainerUpdate
  <2>2. QED
    BY <1>4, <2>1 DEF DumpCheckpoint
<1>5. CASE DumpPostRestore(d)
  <2>1. saved' \subseteq Image
    BY <1>0, <1>5 DEF DumpPostRestore
  <2>2. fault' \in [Process -> Fault]
    BY <1>5 DEF DumpPostRestore
  <2>3. QED
    BY <1>5, <2>1, <2>2 DEF DumpPostRestore
<1>6. QED
  BY <1>1, <1>2, <1>3, <1>4, <1>5 DEF HandleDump

LEMMA TypeRestore ==
  ASSUME TypeOK, HandlerPart, NEW d \in Handler, HandleRestore(d)
  PROVE  TypeOK'
<1> USE DEF TypeOK, constVars, shipVars, procVars, RestorePc, Fault, Fails
<1>0. d[1] \in Process
  BY HandlerPair
<1>1. CASE RestoreRm(d)
  BY <1>1 DEF RestoreRm
<1>2. CASE ~RestoreRm(d)
  <2>1. Target(d) \in Host
    BY <1>2 DEF HandleRestore, RestoreStop, RestoreCreate, RestoreStart, HandlerPart, InStep, Restoring
  <2>2. \A v \in Process \cup {NoContainer, Idle} :
          [container EXCEPT ![Target(d)][name[d[1]]] = v]
            \in [Host -> [Name -> Process \cup {NoContainer, Idle}]]
    BY <1>0, <2>1, ContainerUpdate
  <2>3. CASE RestoreStop(d)
    <3>1. images' \in [Host -> SUBSET Image]
      <4>1. PICK loaded \in SUBSET (saved \cap {image[d[1]]}) :
              images' = [images EXCEPT ![Target(d)] = @ \cup loaded]
        BY <2>3 DEF RestoreStop
      <4>2. loaded \subseteq Image
        OBVIOUS
      <4>3. QED
        BY <2>1, <4>1, <4>2
    <3>2. fault' \in [Process -> Fault]
      BY <2>3 DEF RestoreStop, Fault
    <3>3. Box(d) \in Process \cup {NoContainer, Idle}
      BY <1>0, <2>1 DEF Box, TypeOK
    <3>4. container' \in [Host -> [Name -> Process \cup {NoContainer, Idle}]]
      <4>1. PICK left \in {NoContainer, Idle, Box(d)} :
              container' = [container EXCEPT ![Target(d)][name[d[1]]] = left]
        BY <2>3 DEF RestoreStop
      <4>2. left \in Process \cup {NoContainer, Idle}
        BY <3>3
      <4>3. [container EXCEPT ![Target(d)][name[d[1]]] = left]
              \in [Host -> [Name -> Process \cup {NoContainer, Idle}]]
        BY <2>2, <4>2
      <4>4. QED
        BY <4>1, <4>3
    <3>5. QED
      BY <2>3, <3>1, <3>2, <3>4 DEF RestoreStop
  <2>4. CASE RestoreCreate(d)
    <3>0. [container EXCEPT ![Target(d)][name[d[1]]] = Idle]
            \in [Host -> [Name -> Process \cup {NoContainer, Idle}]]
      BY <1>0, <2>2
    <3>1. container' \in [Host -> [Name -> Process \cup {NoContainer, Idle}]]
      BY <2>4, <3>0 DEF RestoreCreate
    <3>2. fault' \in [Process -> Fault]
      BY <2>4 DEF RestoreCreate
    <3>3. QED
      BY <2>4, <3>1, <3>2 DEF RestoreCreate
  <2>5. CASE RestoreStart(d)
    <3>0. [container EXCEPT ![Target(d)][name[d[1]]] = d[1]]
            \in [Host -> [Name -> Process \cup {NoContainer, Idle}]]
      BY <1>0, <2>2
    <3>1. container' \in [Host -> [Name -> Process \cup {NoContainer, Idle}]]
      BY <2>5, <3>0 DEF RestoreStart
    <3>2. fault' \in [Process -> Fault]
      BY <2>5 DEF RestoreStart
    <3>3. QED
      BY <2>5, <3>1, <3>2 DEF RestoreStart
  <2>6. QED
    BY <1>2, <2>3, <2>4, <2>5 DEF HandleRestore
<1>3. QED
  BY <1>1, <1>2

LEMMA TypeStep == IInv /\ [Next]_vars => TypeOK'
<1> SUFFICES ASSUME IInv, [Next]_vars PROVE TypeOK'
  OBVIOUS
<1>1. CASE UNCHANGED vars
  BY <1>1 DEF IInv, TypeOK, vars, constVars, shipVars, procVars
<1>2. ASSUME NEW p \in Process, CallSpecialDevice(p) \/ Program(p) PROVE TypeOK'
  BY <1>2, TypeProgram
<1>3. ASSUME NEW d \in Handler, HandleDump(d) \/ HandleRestore(d) PROVE TypeOK'
  BY <1>3, TypeDump, TypeRestore DEF IInv
<1>4. QED
  BY <1>1, <1>2, <1>3 DEF Next

-----------------------------------------------------------------------------
(* The invariant holds at first: every process runs where it was started.   *)

LEMMA InitPlace ==
  ASSUME Init, NEW p \in Process, NEW h \in Host
  PROVE  Runs(p, h) <=> h = oldHost[p]
<1> USE NamingAssumption, ContainerAssumption
<1>1. PICK at \in [Process -> Host] :
        /\ \A q, r \in Process : at[q] = at[r] /\ name[q] = name[r] => q = r
        /\ container = [g \in Host |-> [n \in Name |->
                          IF \E q \in Process : at[q] = g /\ name[q] = n
                            THEN CHOOSE q \in Process : at[q] = g /\ name[q] = n
                            ELSE NoContainer]]
        /\ oldHost = at
  BY Zenon DEF Init
<1>2. name[p] \in Name
  BY DEF Init
<1>3. container[h][name[p]] = IF \E q \in Process : at[q] = h /\ name[q] = name[p]
                                THEN CHOOSE q \in Process : at[q] = h /\ name[q] = name[p]
                                ELSE NoContainer
  BY <1>1, <1>2
<1>4. CASE at[p] = h
  <2>1. \A q \in Process : at[q] = h /\ name[q] = name[p] => q = p
    BY <1>1, <1>4
  <2>2. (CHOOSE q \in Process : at[q] = h /\ name[q] = name[p]) = p
    BY <1>4, <2>1
  <2>3. QED
    BY <1>1, <1>3, <1>4, <2>2 DEF Runs
<1>5. CASE at[p] # h
  <2>1. \A q \in Process : container[h][name[p]] = q => at[q] = h
    BY <1>3
  <2>2. QED
    BY <1>1, <1>5, <2>1 DEF Runs
<1>6. QED
  BY <1>4, <1>5

LEMMA InitIInv == Init => IInv
<1> SUFFICES ASSUME Init PROVE IInv
  OBVIOUS
<1>1. TypeOK
  BY TypeInit
<1>2. HandlerPart
  BY DEF Init, HandlerPart, InStep, Dumping, Restoring
<1>3. JourneyPart
  BY DEF Init, JourneyPart, WaitPart, DevicePart
<1>4. \A p \in Process : ~InTransit(p)
  BY TransitOf DEF Init, OnTheWay
<1>5. \A p \in Process : oldHost[p] \in Host /\ Runs(p, oldHost[p])
  BY <1>1, InitPlace DEF TypeOK
<1>6. NeverTwice
  BY <1>4, InitPlace DEF NeverTwice
<1>7. LossHasACause /\ CallLeavesProcessHome
  BY <1>5 DEF LossHasACause, CallLeavesProcessHome, Running
<1>8. ImagePart /\ ImageComesFirst
  BY HandlerPair DEF Init, ImagePart, ImageComesFirst
<1>9. QED
  BY <1>1, <1>2, <1>3, <1>6, <1>7, <1>8 DEF IInv

-----------------------------------------------------------------------------
(* What a step does to where the processes are.                              *)

Cause == {"command", "killed", "wiped"}

Stays(p) ==
  /\ \A h \in Host : Runs(p, h)' <=> Runs(p, h)
  /\ InTransit(p)' <=> InTransit(p)

Dumped(p) ==
  /\ pc[p] \in {"post", "poll"}
  /\ Running(p) /\ ~Running(p)' /\ InTransit(p)'

Started(p) ==
  /\ pc[p] \in {"post", "poll"} /\ restore'[Last(p)] = "rm"
  /\ ~Running(p) /\ InTransit(p) /\ ~InTransit(p)'
  /\ \E t \in Host : \A h \in Host : Runs(p, h)' <=> h = t

Vanishes(p) == ~Running(p)' /\ ~InTransit(p)' /\ fault'[p] \in Cause

\* What went wrong last stays so until something else does.
Blamed(p) ==
  fault'[p] \notin Cause \cup {fault[p]} => fault'[p] = "stranded" /\ Running(p) /\ Stays(p)

\* One process is dumped or started, or some vanish, or nobody moves.
Moves ==
  /\ \/ \A p \in Process : Stays(p) \/ Vanishes(p)
     \/ \E p \in Process : /\ Dumped(p) \/ Started(p)
                           /\ \A q \in Process \ {p} : Stays(q)
  /\ \A p \in Process : Blamed(p)

\* A step that leaves containers and checkpoints on their way alone.
LEMMA NobodyMoves ==
  ASSUME UNCHANGED <<name, container>>,
         \A d \in Handler : OnTheWay(d)' <=> OnTheWay(d),
         NEW p \in Process
  PROVE  Stays(p)
<1>1. \A h \in Host : Runs(p, h)' <=> Runs(p, h)
  BY DEF Runs
<1>2. InTransit(p)' <=> InTransit(p)
  BY TransitOf
<1>3. QED
  BY <1>1, <1>2 DEF Stays

LEMMA ProgramMoves ==
  ASSUME IInv, NEW p \in Process, CallSpecialDevice(p) \/ Program(p)
  PROVE  Moves
<1>0. TypeOK /\ HandlerPart
  BY DEF IInv
<1>1. UNCHANGED <<name, container, restore, checkpoint>>
  BY DEF CallSpecialDevice, Program, PostEnds, PollEnds, CallDeviceFunction, constVars
<1>2. \A d \in Handler : dump'[d] = dump[d] \/ (dump[d] # "post" /\ dump'[d] # "post")
  <2>1. CASE dump' = dump
    BY <2>1
  <2>2. CASE dump' # dump
    <3>1. dump' = [dump EXCEPT ![<<p, hop[p] + 1>>] = "enter"]
      BY <2>2 DEF CallSpecialDevice, Program, PostEnds, PollEnds, CallDeviceFunction, PostDump
    <3>2. \A d \in Handler : d = <<p, hop[p] + 1>> => dump[d] = "none"
      BY <1>0, HandlerPair DEF TypeOK, HandlerPart, InStep, Hop
    <3>3. QED
      BY <1>0, <3>1, <3>2 DEF TypeOK
  <2>3. QED
    BY <2>1, <2>2
<1>3. \A d \in Handler : OnTheWay(d)' <=> OnTheWay(d)
  BY <1>1, <1>2 DEF OnTheWay
<1>4. \A q \in Process : Stays(q)
  BY <1>1, <1>3, NobodyMoves
<1>5. fault' = fault \/ (Running(p) /\ fault' = [fault EXCEPT ![p] = "stranded"])
  BY DEF CallSpecialDevice, Program, PostEnds, PollEnds, CallDeviceFunction, Running
<1>6. \A q \in Process : Blamed(q)
  BY <1>0, <1>4, <1>5 DEF TypeOK, Blamed
<1>7. QED
  BY <1>4, <1>6 DEF Moves

\* At most one checkpoint of a process is on its way.
LEMMA OneOnTheWay ==
  ASSUME HandlerPart,
         NEW d \in Handler, NEW e \in Handler, d[1] = e[1], OnTheWay(d), OnTheWay(e)
  PROVE  d = e
<1>1. Current(d) /\ Current(e)
  BY DEF HandlerPart, InStep, OnTheWay, Dumping, Restoring
<1>2. QED
  BY <1>1, HandlerPair DEF Current

\* The handlers' steps that touch neither containers nor checkpoints on their way.
LEMMA QuietMoves ==
  ASSUME IInv, NEW d \in Handler,
         DumpEnter(d) \/ DumpMakeDirs(d) \/ DumpEnds(d) \/ RestoreRm(d)
  PROVE  Moves
<1>0. TypeOK /\ HandlerPart /\ d[1] \in Process
  BY HandlerPair DEF IInv
<1>1. UNCHANGED <<name, container>>
  BY DEF DumpEnter, DumpMakeDirs, DumpEnds, RestoreRm, constVars
<1>2. \A e \in Handler : OnTheWay(e)' <=> OnTheWay(e)
  <2>1. CASE DumpEnter(d) \/ DumpMakeDirs(d) \/ DumpEnds(d)
    <3>1. UNCHANGED <<restore, checkpoint>> /\ dump[d] # "post" /\ dump'[d] # "post"
      BY <1>0, <2>1 DEF DumpEnter, DumpMakeDirs, DumpEnds, TypeOK
    <3>2. \A e \in Handler \ {d} : dump'[e] = dump[e]
      BY <1>0, <2>1 DEF DumpEnter, DumpMakeDirs, DumpEnds, TypeOK
    <3>3. QED
      BY <3>1, <3>2 DEF OnTheWay
  <2>2. CASE RestoreRm(d)
    <3>1. UNCHANGED dump /\ dump[d] # "post" /\ restore[d] = "rm" /\ restore'[d] = "done"
      BY <1>0, <2>2 DEF RestoreRm, TypeOK, HandlerPart, InStep
    <3>2. \A e \in Handler \ {d} : restore'[e] = restore[e] /\ (e \in checkpoint' <=> e \in checkpoint)
      BY <1>0, <2>2 DEF RestoreRm, TypeOK
    <3>3. QED
      BY <3>1, <3>2 DEF OnTheWay
  <2>3. QED
    BY <2>1, <2>2
<1>3. \A p \in Process : Stays(p)
  BY <1>1, <1>2, NobodyMoves
<1>4. \A p \in Process : Blamed(p)
  BY <1>0 DEF DumpEnter, DumpMakeDirs, DumpEnds, RestoreRm, Fails, Cause, TypeOK, Blamed
<1>5. QED
  BY <1>3, <1>4 DEF Moves

\* Those whose checkpoint is removed on its way vanish.
LEMMA RmtreeMoves ==
  ASSUME IInv, NEW d \in Handler, DumpRmtree(d)
  PROVE  Moves
<1>0. TypeOK /\ HandlerPart /\ NeverTwice
  BY DEF IInv
<1>1. UNCHANGED <<name, container, restore>> /\ checkpoint' \subseteq checkpoint
  BY DEF DumpRmtree, constVars
<1>2. \A e \in Handler : OnTheWay(e)' <=> OnTheWay(e) /\ e \in checkpoint'
  <2>1. dump[d] = "rmtree" /\ dump'[d] # "post" /\ \A e \in Handler \ {d} : dump'[e] = dump[e]
    BY <1>0 DEF DumpRmtree, TypeOK
  <2>2. QED
    BY <1>1, <2>1 DEF OnTheWay
<1>3. \A p \in Process :
        fault'[p] = IF \E k \in Hop : OnTheWay(<<p, k>>) /\ <<p, k>> \notin checkpoint' THEN "wiped"
                    ELSE IF p = d[1] /\ dump'[d] = "raised" THEN "command"
                    ELSE fault[p]
  BY DEF DumpRmtree
<1>4. ASSUME NEW p \in Process PROVE Stays(p) \/ Vanishes(p)
  <2>1. \A h \in Host : Runs(p, h)' <=> Runs(p, h)
    BY <1>1 DEF Runs
  <2>2. CASE \A e \in Handler : e[1] = p /\ OnTheWay(e) => e \in checkpoint'
    <3>1. InTransit(p)' <=> InTransit(p)
      BY <1>2, <2>2, TransitOf
    <3>2. QED
      BY <2>1, <3>1 DEF Stays
  <2>3. ASSUME NEW e \in Handler, e[1] = p, OnTheWay(e), e \notin checkpoint'
        PROVE  Vanishes(p)
    <3>1. ~Running(p)'
      BY <1>0, <2>1, <2>3, TransitOf DEF NeverTwice, Running
    <3>2. ~InTransit(p)'
      BY <1>0, <1>2, <2>3, OneOnTheWay, TransitOf
    <3>3. fault'[p] = "wiped"
      BY <1>3, <2>3, HandlerPair
    <3>4. QED
      BY <3>1, <3>2, <3>3 DEF Vanishes, Cause
  <2>4. QED
    BY <2>2, <2>3
<1>5. \A p \in Process : Blamed(p)
  BY <1>3 DEF Cause, Blamed
<1>6. QED
  BY <1>4, <1>5 DEF Moves

\* A dump takes the process from its host into transit, or nobody moves.
LEMMA CheckpointMoves ==
  ASSUME IInv, NEW d \in Handler, DumpCheckpoint(d)
  PROVE  Moves
<1>0. TypeOK /\ HandlerPart /\ NeverTwice /\ d[1] \in Process
  BY HandlerPair DEF IInv
<1>1. /\ UNCHANGED <<name, restore>>
      /\ dump[d] = "checkpoint" /\ dump'[d] = "post" /\ d \notin checkpoint
      /\ \A e \in Handler \ {d} : dump'[e] = dump[e]
      /\ pc[d[1]] \in {"post", "poll"}
  BY <1>0 DEF DumpCheckpoint, TypeOK, constVars, HandlerPart, InStep, Dumping, Current
<1>2. CASE Fails(d) /\ UNCHANGED <<checkpoint, container>>
  <2>1. \A e \in Handler : OnTheWay(e)' <=> OnTheWay(e)
    BY <1>1, <1>2 DEF OnTheWay
  <2>2. \A p \in Process : Stays(p)
    BY <1>1, <1>2, <2>1, NobodyMoves
  <2>3. \A p \in Process : Blamed(p)
    BY <1>0, <1>2 DEF Fails, Cause, TypeOK, Blamed
  <2>4. QED
    BY <2>2, <2>3 DEF Moves
<1>3. CASE /\ Runs(d[1], source[d])
           /\ checkpoint' = checkpoint \cup {d}
           /\ container' = [container EXCEPT ![source[d]][name[d[1]]] = Idle]
           /\ UNCHANGED fault
  <2>1. source[d] \in Host /\ name[d[1]] \in Name
    BY <1>0 DEF TypeOK
  <2>2. \A h \in Host, n \in Name :
          container'[h][n] = IF h = source[d] /\ n = name[d[1]] THEN Idle ELSE container[h][n]
    BY <1>0, <1>3, <2>1, ContainerUpdate DEF TypeOK
  <2>3. \A p \in Process, h \in Host :
          Runs(p, h)' <=> Runs(p, h) /\ ~(h = source[d] /\ name[p] = name[d[1]])
    BY <1>0, <1>1, <2>2, ContainerAssumption DEF Runs, TypeOK
  <2>4. \A p \in Process, h \in Host :
          Runs(p, h) /\ h = source[d] /\ name[p] = name[d[1]] => p = d[1]
    BY <1>3 DEF Runs
  <2>5. ~Running(d[1])'
    <3>1. \A h \in Host : Runs(d[1], h) => h = source[d]
      BY <1>0, <1>3, <2>1 DEF NeverTwice
    <3>2. QED
      BY <1>0, <2>3, <3>1 DEF Running
  <2>6. \A e \in Handler : OnTheWay(e)' <=> OnTheWay(e) \/ e = d
    BY <1>1, <1>3 DEF OnTheWay
  <2>7. Dumped(d[1])
    BY <1>0, <1>1, <1>3, <2>1, <2>5, <2>6, TransitOf DEF Dumped, Running
  <2>8. ASSUME NEW q \in Process \ {d[1]} PROVE Stays(q)
    <3>1. \A h \in Host : Runs(q, h)' <=> Runs(q, h)
      BY <2>3, <2>4
    <3>2. InTransit(q)' <=> InTransit(q)
      BY <2>6, TransitOf
    <3>3. QED
      BY <3>1, <3>2 DEF Stays
  <2>9. QED
    BY <1>0, <1>3, <2>7, <2>8 DEF Moves, Blamed
<1>4. QED
  BY <1>2, <1>3 DEF DumpCheckpoint

\* A checkpoint whose restore nobody is asked for is lost.
LEMMA PostRestoreMoves ==
  ASSUME IInv, NEW d \in Handler, DumpPostRestore(d)
  PROVE  Moves
<1>0. TypeOK /\ HandlerPart /\ NeverTwice /\ d[1] \in Process
  BY HandlerPair DEF IInv
<1>1. /\ UNCHANGED <<name, container, checkpoint>>
      /\ dump[d] = "post" /\ restore[d] = "none"
      /\ \A e \in Handler \ {d} : dump'[e] = dump[e] /\ restore'[e] = restore[e]
  BY <1>0 DEF DumpPostRestore, TypeOK, constVars, HandlerPart, InStep
<1>2. \A p \in Process, h \in Host : Runs(p, h)' <=> Runs(p, h)
  BY <1>1 DEF Runs
<1>3. \A p \in Process : Blamed(p)
  BY <1>0 DEF DumpPostRestore, Fails, Cause, TypeOK, Blamed
<1>4. CASE restore' = [restore EXCEPT ![d] = "stop"]
  <2>1. \A e \in Handler : OnTheWay(e)' <=> OnTheWay(e)
    BY <1>0, <1>1, <1>4 DEF OnTheWay, TypeOK
  <2>2. QED
    BY <1>1, <1>3, <2>1, NobodyMoves DEF Moves
<1>5. CASE dump' = [dump EXCEPT ![d] = "raised"] /\ Fails(d) /\ UNCHANGED restore
  <2>1. \A e \in Handler : OnTheWay(e)' <=> OnTheWay(e) /\ e # d
    BY <1>0, <1>1, <1>5 DEF OnTheWay, TypeOK
  <2>2. CASE OnTheWay(d)
    <3>1. ~Running(d[1])' /\ ~InTransit(d[1])'
      <4>1. ~Running(d[1])
        BY <1>0, <2>2, TransitOf DEF NeverTwice
      <4>2. QED
        BY <1>0, <1>2, <2>1, <2>2, <4>1, OneOnTheWay, TransitOf DEF Running
    <3>2. fault'[d[1]] = "command"
      BY <1>0, <1>5 DEF Fails, TypeOK
    <3>3. ASSUME NEW q \in Process \ {d[1]} PROVE Stays(q)
      BY <1>2, <2>1, TransitOf DEF Stays
    <3>4. QED
      BY <1>0, <1>3, <3>1, <3>2, <3>3 DEF Moves, Vanishes, Cause
  <2>3. CASE ~OnTheWay(d)
    BY <1>1, <1>3, <2>1, <2>3, NobodyMoves DEF Moves
  <2>4. QED
    BY <2>2, <2>3
<1>6. QED
  BY <1>4, <1>5 DEF DumpPostRestore

\* A handler at work restores the last migration of its process, on a host.
LEMMA RestoringFacts ==
  ASSUME IInv, NEW d \in Handler, Restoring(d)
  PROVE  /\ Target(d) \in Host /\ d[1] \in Process /\ name[d[1]] \in Name
         /\ Current(d) /\ dump[d] \in {"wait", "done"}
BY HandlerPair DEF IInv, HandlerPart, InStep, TypeOK, Restoring

\* The process that the container to be replaced runs is killed, or runs on.
LEMMA StopMoves ==
  ASSUME IInv, NEW d \in Handler, RestoreStop(d)
  PROVE  Moves
<1>0. TypeOK /\ HandlerPart /\ NeverTwice
  BY DEF IInv
<1>1. Restoring(d)
  BY DEF RestoreStop, Restoring
<1>2. /\ Target(d) \in Host /\ d[1] \in Process /\ name[d[1]] \in Name
      /\ dump[d] # "post"
  BY <1>1, RestoringFacts
<1>3. PICK left \in {NoContainer, Idle, Box(d)} :
        /\ container' = [container EXCEPT ![Target(d)][name[d[1]]] = left]
        /\ fault' = [p \in Process |->
             IF Box(d) = p /\ left # p THEN "killed"
             ELSE IF p = d[1] /\ image[p] \in saved \ images'[Target(d)] THEN "command"
             ELSE fault[p]]
  BY DEF RestoreStop
<1>4. /\ UNCHANGED <<name, dump, checkpoint>>
      /\ \A p \in Process : Blamed(p)
      /\ \A p \in Process : Box(d) = p /\ left # p => fault'[p] = "killed"
  BY <1>3 DEF RestoreStop, constVars, procVars, Cause, Blamed
<1>5. \A e \in Handler : OnTheWay(e)' <=> OnTheWay(e)
  BY <1>0, <1>2, <1>4 DEF RestoreStop, OnTheWay, TypeOK
<1>6. \A h \in Host, n \in Name :
        container'[h][n] = IF h = Target(d) /\ n = name[d[1]] THEN left
                           ELSE container[h][n]
  <2>1. left \in Process \cup {NoContainer, Idle}
    BY <1>0, <1>2, <1>3 DEF Box, TypeOK
  <2>2. QED
    BY <1>0, <1>2, <1>3, <2>1, ContainerUpdate DEF TypeOK
<1>7. \A p \in Process, h \in Host :
        Runs(p, h)' <=> Runs(p, h) /\ (h = Target(d) /\ name[p] = name[d[1]] => left = p)
  BY <1>0, <1>3, <1>6, <1>4, ContainerAssumption DEF Runs, Box, TypeOK
<1>8. ASSUME NEW p \in Process PROVE Stays(p) \/ Vanishes(p)
  <2>1. InTransit(p)' <=> InTransit(p)
    BY <1>5, TransitOf
  <2>2. CASE Runs(p, Target(d)) /\ name[p] = name[d[1]] /\ left # p
    <3>1. Box(d) = p
      BY <2>2 DEF Runs, Box
    <3>2. Running(p) /\ \A h \in Host : Runs(p, h) => h = Target(d)
      BY <1>0, <1>2, <2>2 DEF Running, NeverTwice
    <3>3. ~Running(p)' /\ ~InTransit(p)'
      BY <1>0, <1>7, <2>1, <2>2, <3>2 DEF Running, NeverTwice
    <3>4. QED
      BY <1>4, <2>2, <3>1, <3>3 DEF Vanishes, Cause
  <2>3. CASE ~(Runs(p, Target(d)) /\ name[p] = name[d[1]] /\ left # p)
    BY <1>7, <2>1, <2>3 DEF Stays
  <2>4. QED
    BY <2>2, <2>3
<1>9. QED
  BY <1>8, <1>4 DEF Moves

LEMMA CreateMoves ==
  ASSUME IInv, NEW d \in Handler, RestoreCreate(d)
  PROVE  Moves
<1>0. TypeOK /\ HandlerPart
  BY DEF IInv
<1>1. Restoring(d)
  BY DEF RestoreCreate, Restoring
<1>2. /\ Target(d) \in Host /\ d[1] \in Process /\ name[d[1]] \in Name
      /\ dump[d] # "post"
  BY <1>1, RestoringFacts
<1>3. /\ UNCHANGED <<name, dump, checkpoint>>
      /\ \A p \in Process : Blamed(p)
  BY <1>0 DEF RestoreCreate, Fails, constVars, procVars, Cause, TypeOK, Blamed
<1>4. \A e \in Handler : OnTheWay(e)' <=> OnTheWay(e)
  BY <1>0, <1>2, <1>3 DEF RestoreCreate, OnTheWay, TypeOK
<1>5. ASSUME NEW p \in Process, NEW h \in Host PROVE Runs(p, h)' <=> Runs(p, h)
  <2>1. CASE UNCHANGED container
    BY <1>3, <2>1 DEF Runs
  <2>2. CASE /\ Box(d) = NoContainer
             /\ container' = [container EXCEPT ![Target(d)][name[d[1]]] = Idle]
    <3>1. name[p] \in Name
      BY <1>0 DEF TypeOK
    <3>2. container'[h][name[p]] = IF h = Target(d) /\ name[p] = name[d[1]] THEN Idle
                                   ELSE container[h][name[p]]
      BY <1>0, <1>2, <2>2, <3>1, ContainerUpdate DEF TypeOK
    <3>3. QED
      BY <1>3, <2>2, <3>2, ContainerAssumption DEF Runs, Box
  <2>3. QED
    BY <2>1, <2>2 DEF RestoreCreate
<1>6. \A p \in Process : Stays(p)
  BY <1>4, <1>5, TransitOf DEF Stays
<1>7. QED
  BY <1>3, <1>6 DEF Moves

\* A restore takes the process from transit to the target, or loses it.
LEMMA StartMoves ==
  ASSUME IInv, NEW d \in Handler, RestoreStart(d)
  PROVE  Moves
<1>0. TypeOK /\ HandlerPart /\ NeverTwice
  BY DEF IInv
<1>1. Restoring(d) /\ restore[d] = "start"
  BY DEF RestoreStart, Restoring
<1>2. /\ Target(d) \in Host /\ d[1] \in Process /\ name[d[1]] \in Name
      /\ dump[d] # "post"
      /\ pc[d[1]] \in {"post", "poll"} /\ d = Last(d[1])
  BY <1>1, RestoringFacts, HandlerPair DEF Current, Last
<1>3. /\ UNCHANGED <<name, dump, checkpoint>>
      /\ restore' = [restore EXCEPT ![d] = "rm"]
      /\ \A p \in Process : Blamed(p)
  BY <1>0 DEF RestoreStart, Fails, constVars, procVars, Cause, TypeOK, Blamed
<1>4. \A e \in Handler : OnTheWay(e)' <=> OnTheWay(e) /\ e # d
  BY <1>0, <1>2, <1>3 DEF OnTheWay, TypeOK
<1>5. OnTheWay(d) <=> d \in checkpoint
  BY <1>1 DEF OnTheWay
<1>6. OnTheWay(d) => ~Running(d[1]) /\ InTransit(d[1]) /\ ~InTransit(d[1])'
  BY <1>0, <1>2, <1>4, OneOnTheWay, TransitOf DEF NeverTwice
<1>7. CASE /\ d \in checkpoint /\ Box(d) = Idle
           /\ container' = [container EXCEPT ![Target(d)][name[d[1]]] = d[1]]
  <2>1. \A h \in Host, n \in Name :
          container'[h][n] = IF h = Target(d) /\ n = name[d[1]] THEN d[1] ELSE container[h][n]
    BY <1>0, <1>2, <1>7, ContainerUpdate DEF TypeOK
  <2>2. \A h \in Host : Runs(d[1], h)' <=> h = Target(d)
    <3>1. \A h \in Host : ~Runs(d[1], h)
      BY <1>5, <1>6, <1>7 DEF Running
    <3>2. QED
      BY <1>2, <1>3, <2>1, <3>1 DEF Runs
  <2>3. Started(d[1])
    <3>1. restore'[Last(d[1])] = "rm"
      BY <1>0, <1>2, <1>3 DEF TypeOK
    <3>2. QED
      BY <1>2, <1>5, <1>6, <1>7, <2>2, <3>1 DEF Started
  <2>4. ASSUME NEW q \in Process \ {d[1]} PROVE Stays(q)
    <3>1. \A h \in Host : Runs(q, h)' <=> Runs(q, h)
      BY <1>0, <1>3, <1>7, <2>1, ContainerAssumption DEF Runs, Box, TypeOK
    <3>2. InTransit(q)' <=> InTransit(q)
      BY <1>4, TransitOf
    <3>3. QED
      BY <3>1, <3>2 DEF Stays
  <2>5. QED
    BY <1>2, <1>3, <2>3, <2>4 DEF Moves
<1>8. CASE Fails(d) /\ UNCHANGED container
  <2>1. \A p \in Process, h \in Host : Runs(p, h)' <=> Runs(p, h)
    BY <1>3, <1>8 DEF Runs
  <2>2. \A q \in Process \ {d[1]} : Stays(q)
    BY <1>4, <2>1, TransitOf DEF Stays
  <2>3. Stays(d[1]) \/ Vanishes(d[1])
    <3>1. fault'[d[1]] = "command"
      BY <1>0, <1>2, <1>8 DEF Fails, TypeOK
    <3>2. CASE OnTheWay(d)
      BY <1>2, <1>6, <2>1, <3>1, <3>2 DEF Vanishes, Cause, Running
    <3>3. CASE ~OnTheWay(d)
      BY <1>2, <1>4, <2>1, <3>3, TransitOf DEF Stays
    <3>4. QED
      BY <3>2, <3>3
  <2>4. QED
    BY <1>3, <2>2, <2>3 DEF Moves
<1>9. QED
  BY <1>7, <1>8 DEF RestoreStart

LEMMA StepMoves ==
  ASSUME IInv, [Next]_vars
  PROVE  Moves
<1>1. CASE UNCHANGED vars
  <2>1. UNCHANGED <<name, container, dump, restore, checkpoint, fault>>
    BY <1>1 DEF vars, constVars
  <2>2. \A d \in Handler : OnTheWay(d)' <=> OnTheWay(d)
    BY <2>1 DEF OnTheWay
  <2>3. QED
    BY <2>1, <2>2, NobodyMoves DEF Moves, Blamed
<1>2. ASSUME NEW p \in Process, CallSpecialDevice(p) \/ Program(p) PROVE Moves
  BY <1>2, ProgramMoves
<1>3. ASSUME NEW d \in Handler, HandleDump(d) PROVE Moves
  BY <1>3, QuietMoves, RmtreeMoves, CheckpointMoves, PostRestoreMoves DEF HandleDump
<1>4. ASSUME NEW d \in Handler, HandleRestore(d) PROVE Moves
  BY <1>4, QuietMoves, StopMoves, CreateMoves, StartMoves DEF HandleRestore
<1>5. QED
  BY <1>1, <1>2, <1>3, <1>4 DEF Next

-----------------------------------------------------------------------------
(* What follows from how processes move.                                     *)

LEMMA MovesKeepPlaces ==
  ASSUME IInv, Moves
  PROVE  NeverTwice' /\ LossHasACause'
<1>0. NeverTwice /\ LossHasACause
  BY DEF IInv
<1>1. ASSUME NEW p \in Process
      PROVE  /\ \A g, h \in Host : Runs(p, g)' /\ Runs(p, h)' => g = h
             /\ Running(p)' => ~InTransit(p)'
             /\ ~Running(p)' /\ ~InTransit(p)' => fault'[p] \in Cause
  <2>1. CASE Stays(p)
    <3>1. Running(p)' <=> Running(p)
      BY <2>1 DEF Stays, Running
    <3>2. QED
      BY <1>0, <2>1, <3>1 DEF Stays, Moves, Blamed, NeverTwice, LossHasACause, Cause
  <2>2. CASE Vanishes(p)
    BY <2>2 DEF Vanishes, Running
  <2>3. CASE Dumped(p)
    BY <2>3 DEF Dumped, Running
  <2>4. CASE Started(p)
    BY <2>4 DEF Started, Running
  <2>5. QED
    BY <2>1, <2>2, <2>3, <2>4 DEF Moves
<1>2. NeverTwice'
  BY <1>1 DEF NeverTwice
<1>3. LossHasACause'
  BY <1>1 DEF LossHasACause, Cause
<1>4. QED
  BY <1>2, <1>3

\* The services' steps leave the programs where they are.
LEMMA ServicesKeepJourneys ==
  ASSUME IInv, Moves, UNCHANGED <<procVars, source>>,
         \A d \in Handler : restore[d] \in {"rm", "done"} => restore'[d] \in {"rm", "done"}
  PROVE  JourneyPart' /\ CallLeavesProcessHome'
<1>0. TypeOK /\ JourneyPart /\ CallLeavesProcessHome
  BY DEF IInv
<1>1. UNCHANGED <<pc, oldHost, targetHost, hop>>
  BY DEF procVars
<1>2. \A p \in Process, h \in Host :
        Runs(p, h)' => Runs(p, h) \/ (pc[p] \in {"post", "poll"} /\ restore'[Last(p)] = "rm")
  BY DEF Moves, Stays, Vanishes, Dumped, Started, Running
<1>3. ASSUME NEW p \in Process PROVE WaitPart(p)'
  <2>1. SUFFICES ASSUME pc[p] \in {"post", "poll"}
                 PROVE  restore'[Last(p)] \notin {"rm", "done"} =>
                          \A h \in Host : Runs(p, h)' => h = source[Last(p)]
    BY <1>0, <1>1 DEF WaitPart, JourneyPart, Last
  <2>2. Last(p) \in Handler
    BY <1>0, <2>1, HandlerPair DEF JourneyPart, WaitPart, Last
  <2>3. QED
    BY <1>0, <1>2, <2>1, <2>2 DEF JourneyPart, WaitPart
<1>4. ASSUME NEW p \in Process PROVE DevicePart(p)'
  BY <1>0, <1>1, <1>2 DEF DevicePart, JourneyPart
<1>5. ASSUME NEW p \in Process, pc[p] = "program", fault'[p] = "none"
      PROVE  Runs(p, oldHost[p])'
  <2>1. fault[p] = "none"
    BY <1>5 DEF Moves, Blamed, Cause
  <2>2. Runs(p, oldHost[p]) /\ oldHost[p] \in Host
    BY <1>0, <1>5, <2>1 DEF CallLeavesProcessHome, TypeOK
  <2>3. Running(p)
    BY <2>2 DEF Running
  <2>4. Stays(p)
    BY <1>5, <2>3 DEF Moves, Vanishes, Cause, Dumped, Started
  <2>5. QED
    BY <1>1, <2>2, <2>4 DEF Stays, Runs
<1>6. CallLeavesProcessHome'
  BY <1>1, <1>5 DEF CallLeavesProcessHome, Runs
<1>7. QED
  BY <1>3, <1>4, <1>6 DEF JourneyPart

-----------------------------------------------------------------------------
(* The steps of the services keep the invariant.                             *)

\* The handlers go forward, the restore after the dump.
LEMMA ServicesKeepHandlers ==
  ASSUME IInv, NEW d \in Handler, HandleDump(d) \/ HandleRestore(d)
  PROVE  /\ HandlerPart'
         /\ \A e \in Handler : restore[e] \in {"rm", "done"} => restore'[e] \in {"rm", "done"}
         /\ UNCHANGED <<constVars, procVars, source>>
<1>0. TypeOK /\ HandlerPart
  BY DEF IInv
<1> USE DEF HandlerPart, InStep, Dumping, Restoring, TypeOK
<1>1. UNCHANGED <<constVars, procVars, source>>
  BY DEF HandleDump, DumpEnter, DumpMakeDirs, DumpRmtree, DumpCheckpoint, DumpPostRestore,
         DumpEnds, HandleRestore, RestoreStop, RestoreCreate, RestoreStart, RestoreRm
<1>2. UNCHANGED <<pc, targetHost, hop>>
  BY <1>1 DEF procVars
<1>3. \A e \in Handler \ {d} :
        dump'[e] = dump[e] /\ restore'[e] = restore[e] /\ (e \in checkpoint' => e \in checkpoint)
  BY <1>0 DEF HandleDump, DumpEnter, DumpMakeDirs, DumpRmtree, DumpCheckpoint,
       DumpPostRestore, DumpEnds, HandleRestore, RestoreStop, RestoreCreate, RestoreStart,
       RestoreRm
<1>4. \A e \in Handler \ {d} : InStep(e)'
  BY <1>0, <1>2, <1>3 DEF Current, Target
<1>5. SUFFICES InStep(d)'
  BY <1>0, <1>1, <1>3, <1>4 DEF HandleDump, DumpEnter, DumpMakeDirs, DumpRmtree, DumpCheckpoint,
       DumpPostRestore, DumpEnds, HandleRestore, RestoreStop, RestoreCreate, RestoreStart,
       RestoreRm
<1>6. CASE HandleDump(d) /\ ~DumpPostRestore(d)
  <2>1. /\ restore' = restore
        /\ \/ /\ Dumping(d) /\ dump'[d] # "none" /\ (d \in checkpoint' => d \in checkpoint)
              /\ dump[d] # "post"
              /\ dump'[d] \in {"mkdir", "rmtree", "checkpoint", "done", "raised"}
           \/ dump[d] = "checkpoint" /\ dump'[d] = "post"
           \/ dump[d] = "wait" /\ dump'[d] = "done" /\ restore[d] = "done"
    BY <1>0, <1>6 DEF HandleDump, DumpEnter, DumpMakeDirs, DumpRmtree, DumpCheckpoint, DumpEnds
  <2>2. CASE /\ Dumping(d) /\ dump'[d] # "none" /\ (d \in checkpoint' => d \in checkpoint)
             /\ dump[d] # "post"
             /\ dump'[d] \in {"mkdir", "rmtree", "checkpoint", "done", "raised"}
    <3>1. restore[d] = "none" /\ Current(d) /\ d \notin checkpoint'
      BY <1>0, <2>2
    <3>2. restore'[d] = "none" /\ Current(d)'
      BY <1>2, <2>1, <3>1 DEF Current
    <3>3. ~(d[2] > hop'[d[1]])
      BY <1>0, <1>2, <2>2
    <3>4. QED
      BY <2>2, <3>1, <3>2, <3>3
  <2>3. CASE dump[d] = "checkpoint" /\ dump'[d] = "post"
    BY <1>0, <1>2, <2>1, <2>3 DEF Current, Target
  <2>4. CASE dump[d] = "wait" /\ dump'[d] = "done" /\ restore[d] = "done"
    BY <1>0, <1>2, <2>1, <2>4 DEF Current, Target
  <2>5. QED
    BY <2>1, <2>2, <2>3, <2>4
<1>7. CASE DumpPostRestore(d)
  <2>1. /\ dump[d] = "post"
        /\ \/ dump'[d] = "wait" /\ restore'[d] = "stop" /\ Target(d) # NoHost
           \/ dump'[d] = "raised" /\ restore'[d] = restore[d]
    BY <1>0, <1>7 DEF DumpPostRestore
  <2>2. d[1] \in Process
    BY HandlerPair
  <2>3. QED
    BY <1>0, <1>2, <2>1, <2>2 DEF Current, Target
<1>8. CASE HandleRestore(d)
  <2>1. /\ dump' = dump
        /\ restore[d] # "none" /\ (d \in checkpoint' => d \in checkpoint)
        /\ \/ Restoring(d) /\ restore'[d] \in {"create", "start", "rm"}
           \/ restore[d] = "rm" /\ restore'[d] = "done"
    BY <1>0, <1>8 DEF HandleRestore, RestoreStop, RestoreCreate, RestoreStart, RestoreRm
  <2>2. QED
    BY <1>0, <1>2, <2>1 DEF Current, Target
<1>9. QED
  BY <1>6, <1>7, <1>8

\* What is saved stays saved, and is loaded before a container is created.
LEMMA ServicesKeepImages ==
  ASSUME IInv, TypeOK', Moves, NEW d \in Handler, HandleDump(d) \/ HandleRestore(d)
  PROVE  ImagePart' /\ ImageComesFirst'
<1>0. TypeOK /\ HandlerPart /\ ImagePart /\ ImageComesFirst
  BY DEF IInv
<1>1. UNCHANGED <<image, targetHost>>
  BY ServicesKeepHandlers DEF constVars, procVars
<1>2. \A p \in Process : fault'[p] = "none" => fault[p] = "none"
  BY DEF Moves, Blamed, Cause
<1>3. saved \subseteq saved' /\ \A h \in Host : images[h] \subseteq images'[h]
  <2>1. CASE RestoreStop(d)
    BY <1>0, <2>1 DEF RestoreStop, TypeOK
  <2>2. CASE ~RestoreStop(d)
    BY <1>0, <2>2 DEF HandleDump, DumpEnter, DumpMakeDirs, DumpRmtree, DumpCheckpoint,
       DumpPostRestore, DumpEnds, HandleRestore, RestoreCreate, RestoreStart, RestoreRm, shipVars,
       TypeOK
  <2>3. QED
    BY <2>1, <2>2
<1>4. ASSUME NEW e \in Handler, restore'[e] = "stop", fault'[e[1]] = "none"
      PROVE  image[e[1]] \in saved' \cup images'[Target(e)]
  <2>0. e[1] \in Process /\ fault[e[1]] = "none"
    BY <1>2, <1>4, HandlerPair
  <2>1. CASE restore[e] = "stop"
    <3>1. Target(e) \in Host
      BY <1>0, <2>1 DEF HandlerPart, InStep, Restoring
    <3>2. QED
      BY <1>0, <1>3, <2>0, <2>1, <3>1 DEF ImagePart
  <2>2. CASE restore[e] # "stop"
    <3>1. e = d /\ DumpPostRestore(d)
      BY <1>0, <1>4, <2>2 DEF HandleDump, DumpEnter, DumpMakeDirs, DumpRmtree, DumpCheckpoint,
       DumpPostRestore, DumpEnds, HandleRestore, RestoreStop, RestoreCreate, RestoreStart,
       RestoreRm, TypeOK
    <3>2. image[d[1]] \in saved' \/ Fails(d)
      BY <3>1 DEF DumpPostRestore
    <3>3. ~Fails(d)
      BY <1>0, <1>4, <2>0, <3>1 DEF Fails, TypeOK
    <3>4. QED
      BY <3>1, <3>2, <3>3
  <2>3. QED
    BY <2>1, <2>2
<1>5. ASSUME NEW e \in Handler, restore'[e] = "create", fault'[e[1]] = "none"
      PROVE  image[e[1]] \in images'[Target(e)]
  <2>0. e[1] \in Process /\ fault[e[1]] = "none"
    BY <1>2, <1>5, HandlerPair
  <2>1. CASE restore[e] = "create"
    <3>1. Target(e) \in Host
      BY <1>0, <2>1 DEF HandlerPart, InStep, Restoring
    <3>2. QED
      BY <1>0, <1>3, <2>0, <2>1, <3>1 DEF ImageComesFirst
  <2>2. CASE restore[e] # "create"
    <3>1. e = d /\ RestoreStop(d)
      BY <1>0, <1>5, <2>2 DEF HandleDump, DumpEnter, DumpMakeDirs, DumpRmtree, DumpCheckpoint,
       DumpPostRestore, DumpEnds, HandleRestore, RestoreStop, RestoreCreate, RestoreStart,
       RestoreRm, TypeOK
    <3>2. restore[d] = "stop" /\ Target(d) \in Host
      BY <1>0, <3>1 DEF RestoreStop, HandlerPart, InStep, Restoring
    <3>3. image[d[1]] \in saved \cup images[Target(d)]
      BY <1>0, <2>0, <3>1, <3>2 DEF ImagePart
    <3>4. ~(image[d[1]] \in saved \ images'[Target(d)])
      BY <1>5, <2>0, <3>1 DEF RestoreStop
    <3>5. QED
      BY <1>3, <3>1, <3>2, <3>3, <3>4
  <2>3. QED
    BY <2>1, <2>2
<1>6. QED
  BY <1>1, <1>4, <1>5 DEF ImagePart, ImageComesFirst, Target

-----------------------------------------------------------------------------
(* The steps of the program keep the invariant.                              *)

\* The process runs on h and nothing is left of its earlier migrations.
LEMMA PostDumpKeeps ==
  ASSUME IInv, TypeOK', NEW p \in Process, NEW h \in Host, NEW t \in Host \cup {NoHost},
         pc[p] \in {"program", "device"}, Runs(p, h), t # h, hop[p] < 2 * MaxCalls,
         PostDump(p, h, t),
         UNCHANGED <<constVars, shipVars, container, restore, checkpoint, fault>>,
         \A q \in Process \ {p} : oldHost'[q] = oldHost[q],
         t # oldHost'[p] => hop[p] + 1 < 2 * MaxCalls
  PROVE  HandlerPart' /\ JourneyPart' /\ CallLeavesProcessHome' /\ ImagePart' /\ ImageComesFirst'
<1>0. TypeOK /\ HandlerPart /\ JourneyPart
  BY DEF IInv
<1>1. PICK n \in Handler : /\ n = <<p, hop[p] + 1>> /\ n[1] = p /\ n[2] = hop[p] + 1
                          /\ hop[p] + 1 \in Hop
  <2>1. hop[p] + 1 \in Hop
    BY <1>0, MaxCallsAssumption DEF TypeOK, Hop
  <2>2. QED
    BY <2>1, HandlerPair
<1>2. /\ hop'[p] = hop[p] + 1 /\ targetHost'[p] = t /\ pc'[p] = "post"
      /\ dump'[n] = "enter" /\ source'[n] = h
      /\ \A q \in Process \ {p} :
           hop'[q] = hop[q] /\ targetHost'[q] = targetHost[q] /\ pc'[q] = pc[q]
      /\ \A d \in Handler \ {n} : dump'[d] = dump[d] /\ source'[d] = source[d]
  BY <1>0, <1>1 DEF PostDump, TypeOK
<1>3. UNCHANGED <<image, name, saved, images, container, restore, checkpoint, fault>>
  BY DEF constVars, shipVars
<1>4. dump[n] = "none" /\ restore[n] = "none" /\ n \notin checkpoint
  <2>1. n[2] > hop[n[1]]
    BY <1>0, <1>1 DEF TypeOK
  <2>2. QED
    BY <1>0, <1>1, <2>1 DEF HandlerPart, InStep
<1>5. \A d \in Handler : d[1] = p => ~Dumping(d) /\ ~Restoring(d)
  BY <1>0 DEF HandlerPart, InStep, Current
<1>6. \A d \in Handler : d[1] \in Process
  BY HandlerPair
<1>7. HandlerPart'
  <2>1. InStep(n)'
    <3>1. ~(n[2] > hop'[n[1]])
      BY <1>0, <1>1, <1>2 DEF TypeOK
    <3>2. QED
      BY <1>1, <1>2, <1>3, <1>4, <3>1 DEF InStep, Dumping, Restoring, Current
  <2>2. ASSUME NEW d \in Handler, d[1] = p, d # n PROVE InStep(d)'
    <3>1. ~Dumping(d)' /\ ~Restoring(d)'
      BY <1>2, <1>3, <1>5, <2>2 DEF Dumping, Restoring
    <3>2. d[2] > hop'[p] => d[2] > hop[p]
      BY <1>0, <1>2, HandlerPair DEF TypeOK, Hop
    <3>3. QED
      BY <1>0, <1>2, <1>3, <2>2, <3>1, <3>2 DEF HandlerPart, InStep
  <2>3. ASSUME NEW d \in Handler, d[1] # p PROVE InStep(d)'
    BY <1>0, <1>1, <1>2, <1>3, <1>6, <2>3
    DEF HandlerPart, InStep, Dumping, Restoring, Current, Target
  <2>4. QED
    BY <2>1, <2>2, <2>3 DEF HandlerPart
<1>8. JourneyPart'
  <2>1. ASSUME NEW q \in Process \ {p} PROVE WaitPart(q)' /\ DevicePart(q)'
    <3>1. (Last(q)' = Last(q) /\ source'[Last(q)] = source[Last(q)]) \/ pc[q] \notin {"post", "poll"}
      <4>1. pc[q] \in {"post", "poll"} => Last(q) \in Handler \ {n}
        BY <1>0, <1>1, HandlerPair DEF JourneyPart, WaitPart, Last
      <4>2. QED
        BY <1>2, <4>1 DEF Last
    <3>2. QED
      BY <1>0, <1>2, <1>3, <3>1 DEF JourneyPart, WaitPart, DevicePart, Runs
  <2>2. WaitPart(p)' /\ DevicePart(p)'
    <3>1. Last(p)' = n
      BY <1>1, <1>2 DEF Last
    <3>2. \A g \in Host : Runs(p, g)' => g = h
      BY <1>3 DEF IInv, NeverTwice, Runs
    <3>3. QED
      BY <1>1, <1>2, <3>1, <3>2 DEF WaitPart, DevicePart
  <2>3. QED
    BY <2>1, <2>2 DEF JourneyPart
<1>9. CallLeavesProcessHome'
  BY <1>2, <1>3 DEF IInv, CallLeavesProcessHome, Runs
<1>10. ImagePart' /\ ImageComesFirst'
  <2>1. \A d \in Handler : restore'[d] \in {"stop", "create"} => restore[d] = restore'[d] /\ Target(d)' = Target(d)
    BY <1>2, <1>3, <1>5, <1>6 DEF Restoring, Target
  <2>2. QED
    BY <1>3, <2>1 DEF IInv, ImagePart, ImageComesFirst
<1>11. QED
  BY <1>7, <1>8, <1>9, <1>10

\* The program goes on without a request: to its device only from where its
\* migration has brought it.
LEMMA GoesOnKeeps ==
  ASSUME IInv, TypeOK', NEW p \in Process, NEW to \in ProcessPc,
         pc' = [pc EXCEPT ![p] = to],
         UNCHANGED <<constVars, shipVars, container, oldHost, targetHost, hop, dump, restore,
                     source, checkpoint>>,
         \/ pc[p] = "post" /\ to = "poll" /\ UNCHANGED fault
         \/ /\ pc[p] = "poll" /\ targetHost[p] \in Host /\ Runs(p, targetHost[p])
            /\ to = IF targetHost[p] = oldHost[p] THEN "program" ELSE "device"
            /\ UNCHANGED fault
         \/ /\ pc[p] = "device" /\ to = "program"
            /\ fault' = [fault EXCEPT ![p] = "stranded"]
  PROVE  HandlerPart' /\ JourneyPart' /\ CallLeavesProcessHome' /\ ImagePart' /\ ImageComesFirst'
<1>0. TypeOK /\ HandlerPart /\ JourneyPart /\ NeverTwice
  BY DEF IInv
<1>1. /\ UNCHANGED <<image, name, saved, images, container, oldHost, targetHost, hop, dump,
                     restore, source, checkpoint>>
      /\ pc'[p] = to /\ \A q \in Process \ {p} : pc'[q] = pc[q]
  BY <1>0 DEF constVars, shipVars, TypeOK
<1>2. \A q \in Process : fault'[q] = "none" => fault[q] = "none"
  BY <1>0 DEF TypeOK
<1>3. ASSUME pc[p] = "poll", Runs(p, targetHost[p]), targetHost[p] \in Host
      PROVE  \A d \in Handler : d[1] = p => ~Dumping(d) /\ ~Restoring(d)
  <2>1. Last(p) \in Handler /\ restore[Last(p)] \in {"rm", "done"}
    BY <1>0, <1>3, HandlerPair DEF JourneyPart, WaitPart, Last
  <2>2. ~Dumping(Last(p)) /\ ~Restoring(Last(p))
    BY <1>0, <2>1 DEF HandlerPart, InStep, Dumping, Restoring
  <2>3. \A d \in Handler : d[1] = p /\ (Dumping(d) \/ Restoring(d)) => d = Last(p)
    BY <1>0, HandlerPair DEF HandlerPart, InStep, Current, Last
  <2>4. QED
    BY <2>2, <2>3
<1>4. HandlerPart'
  <2>1. ASSUME NEW d \in Handler, Dumping(d) \/ Restoring(d) PROVE Current(d)'
    <3>1. Current(d) /\ d[1] \in Process
      BY <1>0, <2>1, HandlerPair DEF HandlerPart, InStep
    <3>2. d[1] = p => pc[p] = "post"
      BY <1>3, <2>1, <3>1 DEF Current
    <3>3. QED
      BY <1>1, <3>1, <3>2 DEF Current
  <2>2. QED
    BY <1>0, <1>1, <2>1 DEF HandlerPart, InStep, Dumping, Restoring, Target
<1>5. JourneyPart'
  <2>1. \A q \in Process : WaitPart(q)'
    BY <1>0, <1>1 DEF JourneyPart, WaitPart, Last, Runs
  <2>2. ASSUME NEW q \in Process, pc'[q] = "device" PROVE DevicePart(q)'
    <3>1. CASE pc[q] = "device"
      BY <1>0, <1>1, <3>1 DEF JourneyPart, DevicePart, Runs
    <3>2. CASE pc[q] # "device"
      <4>1. q = p /\ pc[p] = "poll" /\ Runs(p, targetHost[p]) /\ targetHost[p] # oldHost[p]
            /\ targetHost[p] \in Host
        BY <1>1, <2>2, <3>2
      <4>2. QED
        BY <1>0, <1>1, <4>1 DEF JourneyPart, WaitPart, DevicePart, NeverTwice, Runs
    <3>3. QED
      BY <3>1, <3>2
  <2>3. QED
    BY <2>1, <2>2 DEF JourneyPart, DevicePart
<1>6. CallLeavesProcessHome'
  <2>1. ASSUME NEW q \in Process, pc'[q] = "program", fault'[q] = "none"
        PROVE  Runs(q, oldHost[q])
    <3>1. CASE q = p /\ pc[p] # "program"
      BY <1>0, <1>1, <2>1, <3>1 DEF TypeOK
    <3>2. CASE ~(q = p /\ pc[p] # "program")
      <4>1. pc[q] = "program" /\ fault[q] = "none"
        BY <1>1, <1>2, <2>1, <3>2
      <4>2. QED
        BY <4>1 DEF IInv, CallLeavesProcessHome
    <3>3. QED
      BY <3>1, <3>2
  <2>2. QED
    BY <1>1, <2>1 DEF CallLeavesProcessHome, Runs
<1>7. ImagePart' /\ ImageComesFirst'
  BY <1>1, <1>2, HandlerPair DEF IInv, ImagePart, ImageComesFirst, Target
<1>8. QED
  BY <1>4, <1>5, <1>6, <1>7

LEMMA ProgramKeeps ==
  ASSUME IInv, TypeOK', NEW p \in Process, CallSpecialDevice(p) \/ Program(p)
  PROVE  HandlerPart' /\ JourneyPart' /\ CallLeavesProcessHome' /\ ImagePart' /\ ImageComesFirst'
<1>0. TypeOK /\ JourneyPart
  BY DEF IInv
<1>1. CASE CallSpecialDevice(p)
  <2>1. PICK h \in Host, t \in DeviceHost :
          /\ pc[p] = "program" /\ Runs(p, h) /\ t # h
          /\ hop[p] + 2 <= 2 * MaxCalls
          /\ oldHost' = [oldHost EXCEPT ![p] = h]
          /\ PostDump(p, h, t)
          /\ UNCHANGED <<constVars, shipVars, container, restore, filesDir, checkpoint, fault>>
    BY <1>1 DEF CallSpecialDevice
  <2>2. hop[p] < 2 * MaxCalls /\ hop[p] + 1 < 2 * MaxCalls /\ t \in Host \cup {NoHost}
    BY <1>0, <2>1, MaxCallsAssumption, DeviceHostAssumption DEF TypeOK
  <2>3. \A q \in Process \ {p} : oldHost'[q] = oldHost[q]
    BY <1>0, <2>1 DEF TypeOK
  <2>4. QED
    BY <2>1, <2>2, <2>3, PostDumpKeeps
<1>2. CASE PostEnds(p)
  BY <1>2, GoesOnKeeps DEF PostEnds, ProcessPc
<1>3. CASE PollEnds(p)
  <2>1. targetHost[p] \in Host
    BY <1>0, <1>3 DEF PollEnds, TypeOK
  <2>2. QED
    BY <1>3, <2>1, GoesOnKeeps DEF PollEnds, ProcessPc
<1>4. CASE CallDeviceFunction(p)
  <2>1. PICK h \in Host :
          /\ pc[p] = "device" /\ Runs(p, h)
          /\ \/ PostDump(p, h, oldHost[p]) /\ UNCHANGED fault
             \/ /\ pc' = [pc EXCEPT ![p] = "program"]
                /\ fault' = [fault EXCEPT ![p] = "stranded"]
                /\ UNCHANGED <<hop, targetHost, dump, source>>
          /\ UNCHANGED <<constVars, shipVars, container, oldHost, restore, filesDir, checkpoint>>
    BY <1>4 DEF CallDeviceFunction
  <2>2. CASE PostDump(p, h, oldHost[p]) /\ UNCHANGED fault
    <3>1. hop[p] < 2 * MaxCalls /\ oldHost[p] # h /\ oldHost[p] \in Host
      BY <1>0, <2>1 DEF JourneyPart, DevicePart, TypeOK
    <3>2. QED
      BY <2>1, <2>2, <3>1, PostDumpKeeps
  <2>3. CASE pc' = [pc EXCEPT ![p] = "program"] /\ fault' = [fault EXCEPT ![p] = "stranded"]
             /\ UNCHANGED <<hop, targetHost, dump, source>>
    BY <2>1, <2>3, GoesOnKeeps DEF ProcessPc
  <2>4. QED
    BY <2>1, <2>2, <2>3
<1>5. QED
  BY <1>1, <1>2, <1>3, <1>4 DEF Program

LEMMA StepIInv == IInv /\ [Next]_vars => IInv'
<1> SUFFICES ASSUME IInv, [Next]_vars PROVE IInv'
  OBVIOUS
<1>1. TypeOK' /\ Moves
  BY TypeStep, StepMoves
<1>2. NeverTwice' /\ LossHasACause'
  BY <1>1, MovesKeepPlaces
<1>3. HandlerPart' /\ JourneyPart' /\ CallLeavesProcessHome' /\ ImagePart' /\ ImageComesFirst'
  <2>1. CASE UNCHANGED vars
    BY <2>1 DEF IInv, vars, constVars, shipVars, procVars, HandlerPart, InStep, JourneyPart,
         WaitPart, DevicePart, CallLeavesProcessHome, ImagePart, ImageComesFirst, Runs, Last,
         Dumping, Restoring, Current, Target
  <2>2. ASSUME NEW p \in Process, CallSpecialDevice(p) \/ Program(p)
        PROVE  HandlerPart' /\ JourneyPart' /\ CallLeavesProcessHome' /\ ImagePart' /\ ImageComesFirst'
    BY <1>1, <2>2, ProgramKeeps
  <2>3. ASSUME NEW d \in Handler, HandleDump(d) \/ HandleRestore(d)
        PROVE  HandlerPart' /\ JourneyPart' /\ CallLeavesProcessHome' /\ ImagePart' /\ ImageComesFirst'
    BY <1>1, <2>3, ServicesKeepHandlers, ServicesKeepJourneys, ServicesKeepImages
  <2>4. QED
    BY <2>1, <2>2, <2>3 DEF Next
<1>4. QED
  BY <1>1, <1>2, <1>3 DEF IInv

-----------------------------------------------------------------------------

\* The invariant holds in every state, however many processes migrate.
THEOREM Inductive == Spec => []IInv
  BY InitIInv, StepIInv, PTL DEF Spec

\* No process ever runs twice, nor while a checkpoint of it is on its way,
\* although two services stop and start it and neither asks the other.
THEOREM ProcessesRunOnce == Spec => []NeverTwice
<1>1. IInv => NeverTwice
  BY DEF IInv
<1>2. QED
  BY <1>1, Inductive, PTL

\* A process gets lost only by a failed command, a restore into a container of
\* the same name, or a dump that clears the directory of its image.
THEOREM LossesHaveACause == Spec => []LossHasACause
<1>1. IInv => LossHasACause
  BY DEF IInv
<1>2. QED
  BY <1>1, Inductive, PTL

\* A program that goes on has no dump behind it that could still stop it.
THEOREM DumpsAreInTime == Spec => []NoLateDump
<1>1. IInv => NoLateDump
  <2> SUFFICES ASSUME IInv, NEW p \in Process, pc[p] \in {"program", "device"}, NEW k \in Hop
               PROVE  dump[<<p, k>>] \notin {"enter", "mkdir", "rmtree", "checkpoint"}
    BY DEF NoLateDump
  <2>1. <<p, k>> \in Handler /\ <<p, k>>[1] = p
    BY HandlerPair
  <2>2. ~Current(<<p, k>>)
    BY <2>1 DEF Current
  <2>3. QED
    BY <2>1, <2>2 DEF IInv, HandlerPart, InStep, Dumping
<1>2. QED
  BY <1>1, Inductive, PTL

\* A container is created where its image is, unless a command failed.
THEOREM ImagesComeFirst == Spec => []ImageComesFirst
<1>1. IInv => ImageComesFirst
  BY DEF IInv
<1>2. QED
  BY <1>1, Inductive, PTL

\* A call that nothing disturbed leaves the process where it was made.
THEOREM CallsLeaveProcessesHome == Spec => []CallLeavesProcessHome
<1>1. IInv => CallLeavesProcessHome
  BY DEF IInv
<1>2. QED
  BY <1>1, Inductive, PTL

-----------------------------------------------------------------------------
(* The services keep the promise of Placement: how a process moves decides    *)
(* its next place.                                                           *)

LEMMA PlaceBefore ==
  ASSUME NeverTwice, NEW p \in Process
  PROVE  /\ \A h \in Host : Runs(p, h) => PlaceOf(p) = h
         /\ ~Running(p) => PlaceOf(p) = IF InTransit(p) THEN "transit" ELSE "lost"
<1>1. ASSUME NEW h \in Host, Runs(p, h) PROVE PlaceOf(p) = h
  <2>1. Running(p) /\ \A g \in Host : Runs(p, g) => g = h
    BY <1>1 DEF Running, NeverTwice
  <2>2. (CHOOSE g \in Host : Runs(p, g)) = h
    BY <1>1, <2>1
  <2>3. QED
    BY <2>1, <2>2 DEF PlaceOf
<1>2. QED
  BY <1>1 DEF PlaceOf

\* The same after the step.
LEMMA PlaceAfter ==
  ASSUME NeverTwice', NEW p \in Process
  PROVE  /\ \A h \in Host : Runs(p, h)' => PlaceOf(p)' = h
         /\ ~Running(p)' => PlaceOf(p)' = IF InTransit(p)' THEN "transit" ELSE "lost"
<1>1. ASSUME NEW h \in Host, Runs(p, h)' PROVE PlaceOf(p)' = h
  <2>1. Running(p)' /\ \A g \in Host : Runs(p, g)' => g = h
    BY <1>1 DEF Running, NeverTwice
  <2>2. (CHOOSE g \in Host : Runs(p, g)') = h
    BY <1>1, <2>1
  <2>3. QED
    BY <2>1, <2>2 DEF PlaceOf
<1>2. QED
  BY <1>1 DEF PlaceOf

LEMMA PlaceMoves ==
  ASSUME NeverTwice, NeverTwice', NEW p \in Process
  PROVE  /\ Stays(p) => PlaceOf(p)' = PlaceOf(p)
         /\ Vanishes(p) => PlaceOf(p)' = "lost"
         /\ Dumped(p) => PlaceOf(p) \in Host /\ PlaceOf(p)' = "transit"
         /\ Started(p) => PlaceOf(p) = "transit" /\ PlaceOf(p)' \in Host
<1>1. ASSUME Stays(p) PROVE PlaceOf(p)' = PlaceOf(p)
  <2>1. CASE Running(p)
    <3>1. PICK h \in Host : Runs(p, h)
      BY <2>1 DEF Running
    <3>2. QED
      BY <1>1, <3>1, PlaceBefore, PlaceAfter DEF Stays
  <2>2. CASE ~Running(p)
    <3>1. ~Running(p)'
      BY <1>1, <2>2 DEF Stays, Running
    <3>2. QED
      BY <1>1, <2>2, <3>1, PlaceBefore, PlaceAfter DEF Stays
  <2>3. QED
    BY <2>1, <2>2
<1>2. Vanishes(p) => PlaceOf(p)' = "lost"
  BY PlaceAfter DEF Vanishes
<1>3. Dumped(p) => PlaceOf(p) \in Host /\ PlaceOf(p)' = "transit"
  BY PlaceBefore, PlaceAfter DEF Dumped, Running
<1>4. Started(p) => PlaceOf(p) = "transit" /\ PlaceOf(p)' \in Host
  BY PlaceBefore, PlaceAfter DEF Started
<1>5. QED
  BY <1>1, <1>2, <1>3, <1>4

\* Every step is one that Placement allows, or leaves every place as it is.
LEMMA StepKeepsPlacement ==
  ASSUME IInv, IInv', [Next]_vars
  PROVE  [Promise!Next]_[p \in Process |-> PlaceOf(p)]
<1> DEFINE place == [p \in Process |-> PlaceOf(p)]
<1>0. NeverTwice /\ NeverTwice' /\ Moves
  BY StepMoves DEF IInv
<1>1. CASE \A p \in Process : Stays(p) \/ Vanishes(p)
  <2> DEFINE P == {p \in Process : Vanishes(p) /\ ~Stays(p)}
  <2>1. \A p \in Process : PlaceOf(p)' = IF p \in P THEN "lost" ELSE PlaceOf(p)
    BY <1>0, <1>1, PlaceMoves
  <2>2. place' = [p \in Process |-> IF p \in P THEN "lost" ELSE place[p]]
    BY <2>1
  <2>3. QED
    BY <2>2 DEF Promise!Next, Promise!Lose
<1>2. ASSUME NEW p \in Process, Dumped(p) \/ Started(p), \A q \in Process \ {p} : Stays(q)
      PROVE  Promise!Dump(p) \/ Promise!Restore(p)
  <2>1. place' = [place EXCEPT ![p] = PlaceOf(p)']
    BY <1>0, <1>2, PlaceMoves
  <2>2. \/ place[p] \in Host /\ PlaceOf(p)' = "transit"
        \/ place[p] = "transit" /\ PlaceOf(p)' \in Host
    BY <1>0, <1>2, PlaceMoves
  <2>3. QED
    BY <2>1, <2>2 DEF Promise!Dump, Promise!Restore
<1>3. QED
  BY <1>0, <1>1, <1>2 DEF Moves, Promise!Next

\* Whatever fails and whoever interferes, migration is what Placement says: from
\* a host through a checkpoint to a host, and what is lost never comes back.
THEOREM MigrationKeepsPlacement == Spec => KeepsPlacement
<1>1. Init => Promise!Init
  <2> SUFFICES ASSUME Init PROVE \A p \in Process : PlaceOf(p) \in Host
    BY DEF Promise!Init
  <2>1. NeverTwice /\ oldHost \in [Process -> Host]
    BY InitIInv DEF IInv, TypeOK
  <2>2. ASSUME NEW p \in Process PROVE PlaceOf(p) = oldHost[p]
    <3>1. oldHost[p] \in Host /\ Runs(p, oldHost[p])
      BY <2>1, InitPlace
    <3>2. QED
      BY <2>1, <3>1, PlaceBefore
  <2>3. QED
    BY <2>1, <2>2
<1>2. IInv /\ IInv' /\ [Next]_vars => [Promise!Next]_[p \in Process |-> PlaceOf(p)]
  BY StepKeepsPlacement
<1>3. QED
  BY <1>1, <1>2, Inductive, PTL DEF Spec, KeepsPlacement, Promise!Spec

-----------------------------------------------------------------------------
(* What a waiting process waits for.                                         *)

\* A handler of the migration the process has asked for last is at work.
AtWork(p) == Dumping(Last(p)) \/ Restoring(Last(p))

Waiting(p) == pc[p] \in {"post", "poll"} /\ fault[p] = "none"

\* A process that waits for a migration nothing went wrong with has a handler at
\* work for it, or runs on the target already and will find that out.
WaitStallsForAReason ==
  \A p \in Process :
    Waiting(p) => AtWork(p) \/ (targetHost[p] \in Host /\ Runs(p, targetHost[p]))

\* A checkpoint on its way has its handler at work.
LEMMA TransitIsWork ==
  ASSUME IInv, NEW p \in Process, InTransit(p)
  PROVE  AtWork(p)
<1>1. PICK d \in Handler : d[1] = p /\ OnTheWay(d)
  BY TransitOf
<1>2. Dumping(d) \/ Restoring(d)
  BY <1>1 DEF OnTheWay, Dumping, Restoring
<1>3. d = Last(p)
  BY <1>1, <1>2, HandlerPair DEF IInv, HandlerPart, InStep, Current, Last
<1>4. QED
  BY <1>2, <1>3 DEF AtWork

\* A process that waits with nothing at work for it runs.
LEMMA IdleRuns ==
  ASSUME IInv, NEW p \in Process, Waiting(p), ~AtWork(p)
  PROVE  Running(p)
<1>1. ~InTransit(p)
  BY TransitIsWork
<1>2. QED
  BY <1>1 DEF IInv, LossHasACause, Waiting

\* The program's own steps: a new request is work, the others stay in it.
LEMMA ProgramWaits ==
  ASSUME IInv, NEW q \in Process, CallSpecialDevice(q) \/ Program(q),
         NEW p \in Process, Waiting(p)', ~AtWork(p)'
  PROVE  /\ pc[p] \in {"post", "poll"}
         /\ targetHost'[p] = targetHost[p] /\ Last(p)' = Last(p)
         /\ dump'[Last(p)] = dump[Last(p)] /\ restore'[Last(p)] = restore[Last(p)]
<1>0. TypeOK
  BY DEF IInv
<1>1. ASSUME NEW h \in Host, NEW t, PostDump(q, h, t), hop[q] < 2 * MaxCalls,
             UNCHANGED restore
      PROVE  /\ p # q /\ pc[p] \in {"post", "poll"}
             /\ targetHost'[p] = targetHost[p] /\ Last(p)' = Last(p)
             /\ dump'[Last(p)] = dump[Last(p)]
  <2>1. <<q, hop[q] + 1>> \in Handler /\ Last(q)' = <<q, hop[q] + 1>>
    BY <1>0, <1>1, MaxCallsAssumption, HandlerPair DEF TypeOK, PostDump, Hop, Last
  <2>2. AtWork(q)'
    BY <1>0, <1>1, <2>1 DEF TypeOK, PostDump, AtWork, Dumping
  <2>3. p # q
    BY <2>2
  <2>4. Last(p) # <<q, hop[q] + 1>>
    BY <2>3 DEF Last
  <2>5. hop'[p] = hop[p] /\ pc'[p] = pc[p] /\ targetHost'[p] = targetHost[p]
    BY <1>0, <1>1, <2>3 DEF TypeOK, PostDump
  <2>6. dump'[Last(p)] = dump[Last(p)]
    BY <1>1, <2>4 DEF PostDump
  <2>7. QED
    BY <2>3, <2>5, <2>6 DEF Waiting, Last
<1>2. CASE CallSpecialDevice(q)
  <2>1. PICK h \in Host, t \in DeviceHost :
          /\ hop[q] + 2 <= 2 * MaxCalls /\ PostDump(q, h, t) /\ UNCHANGED restore
    BY <1>2 DEF CallSpecialDevice
  <2>2. hop[q] < 2 * MaxCalls
    BY <1>0, <2>1, MaxCallsAssumption DEF TypeOK
  <2>3. QED
    BY <1>1, <2>1, <2>2
<1>3. CASE PostEnds(q) \/ PollEnds(q)
  <2>1. UNCHANGED <<targetHost, hop, dump, restore>> /\ pc[q] \in {"post", "poll"}
        /\ \E x : pc' = [pc EXCEPT ![q] = x]
    BY <1>3 DEF PostEnds, PollEnds
  <2>2. pc[p] \in {"post", "poll"}
    BY <1>0, <2>1 DEF TypeOK, Waiting
  <2>3. QED
    BY <2>1, <2>2 DEF Last
<1>4. CASE CallDeviceFunction(q)
  <2>1. PICK h \in Host :
          /\ pc[q] = "device"
          /\ \/ PostDump(q, h, oldHost[q])
             \/ pc' = [pc EXCEPT ![q] = "program"] /\ UNCHANGED <<hop, targetHost, dump>>
          /\ UNCHANGED restore
    BY <1>4 DEF CallDeviceFunction
  <2>2. CASE PostDump(q, h, oldHost[q])
    <3>1. hop[q] < 2 * MaxCalls
      BY <2>1 DEF IInv, JourneyPart, DevicePart
    <3>2. QED
      BY <1>1, <2>1, <2>2, <3>1
  <2>3. CASE pc' = [pc EXCEPT ![q] = "program"] /\ UNCHANGED <<hop, targetHost, dump>>
    <3>1. pc[p] \in {"post", "poll"}
      BY <1>0, <2>3 DEF TypeOK, Waiting
    <3>2. QED
      BY <2>1, <2>3, <3>1 DEF Last
  <2>4. QED
    BY <2>1, <2>2, <2>3
<1>5. QED
  BY <1>2, <1>3, <1>4 DEF Program

\* The services' steps: only a migration's own handlers end its work, the dump by
\* a failure, the restore by a failure or on the target.
LEMMA ServicesArrive ==
  ASSUME IInv, NEW d \in Handler, HandleDump(d) \/ HandleRestore(d),
         NEW p \in Process, d = Last(p), Waiting(p), AtWork(p),
         Waiting(p)', Running(p)', ~AtWork(p)'
  PROVE  targetHost[p] \in Host /\ Runs(p, targetHost[p])'
<1>0. TypeOK /\ InStep(d) /\ d[1] = p /\ WaitPart(p)
  BY HandlerPair DEF IInv, HandlerPart, JourneyPart, Last
<1>1. UNCHANGED <<name, procVars>>
  BY DEF HandleDump, HandleRestore, DumpEnter, DumpMakeDirs, DumpRmtree, DumpCheckpoint, DumpPostRestore,
         DumpEnds, RestoreStop, RestoreCreate, RestoreStart, RestoreRm, constVars
<1>2. /\ Dumping(d) \/ Restoring(d)
      /\ ~Dumping(d)' /\ ~Restoring(d)'
      /\ fault'[p] = "none"
  BY <1>1 DEF AtWork, Waiting, Last, procVars
<1>3. ~HandleDump(d)
  <2>1. ~DumpEnter(d)
    <3> SUFFICES ASSUME DumpEnter(d) PROVE FALSE
      OBVIOUS
    <3>1. ~Runs(p, source[d]) /\ restore[d] = "none"
      BY <1>0, <1>2 DEF DumpEnter, Dumping, TypeOK, InStep
    <3>2. Running(p)
      BY <1>1 DEF DumpEnter, Running, Runs
    <3>3. QED
      BY <1>0, <3>1, <3>2 DEF WaitPart, Waiting, Running
  <2>2. ~DumpMakeDirs(d)
    BY <1>0, <1>2 DEF DumpMakeDirs, Dumping, Fails, TypeOK
  <2>3. ~DumpRmtree(d)
    BY <1>0, <1>2 DEF DumpRmtree, Dumping, TypeOK
  <2>4. ~DumpCheckpoint(d)
    BY <1>0, <1>2 DEF DumpCheckpoint, Dumping, TypeOK
  <2>5. ~DumpPostRestore(d)
    BY <1>0, <1>2 DEF DumpPostRestore, Restoring, Fails, TypeOK
  <2>6. ~DumpEnds(d)
    BY <1>2 DEF DumpEnds, Dumping, Restoring
  <2>7. QED
    BY <2>1, <2>2, <2>3, <2>4, <2>5, <2>6 DEF HandleDump
<1>4. RestoreStart(d)
  <2>1. ~RestoreStop(d) /\ ~RestoreCreate(d)
    BY <1>0, <1>2 DEF RestoreStop, RestoreCreate, Restoring, TypeOK
  <2>2. ~RestoreRm(d)
    BY <1>0, <1>2 DEF RestoreRm, Dumping, Restoring, InStep
  <2>3. QED
    BY <1>3, <2>1, <2>2 DEF HandleRestore
<1>5. Target(d) \in Host /\ Target(d) = targetHost[p]
  BY <1>0, <1>4 DEF RestoreStart, InStep, Restoring, Target
<1>6. container' = [container EXCEPT ![Target(d)][name[p]] = p]
  BY <1>0, <1>2, <1>4 DEF RestoreStart, Fails, TypeOK
<1>7. container'[Target(d)][name[p]] = p
  <2>1. container \in [Host -> [Name -> Process \cup {NoContainer, Idle}]] /\ name[p] \in Name
    BY <1>0 DEF TypeOK
  <2>2. QED
    BY <1>5, <1>6, <2>1, ContainerUpdate
<1>8. QED
  BY <1>1, <1>5, <1>7 DEF Runs, procVars

LEMMA StepWaits ==
  ASSUME IInv, IInv', [Next]_vars, WaitStallsForAReason
  PROVE  WaitStallsForAReason'
<1> SUFFICES ASSUME NEW p \in Process, Waiting(p)', ~AtWork(p)'
             PROVE  (targetHost[p] \in Host /\ Runs(p, targetHost[p]))'
  BY DEF WaitStallsForAReason
<1>1. Running(p)' /\ ~InTransit(p)'
  BY IdleRuns, TransitIsWork, PTL
<1>2. Moves
  BY StepMoves
<1>3. fault[p] = "none"
  BY <1>2 DEF Moves, Blamed, Cause, Waiting
<1>4. ASSUME pc[p] \in {"post", "poll"}, ~AtWork(p), targetHost'[p] = targetHost[p]
      PROVE  (targetHost[p] \in Host /\ Runs(p, targetHost[p]))'
  <2>1. targetHost[p] \in Host /\ Runs(p, targetHost[p])
    BY <1>3, <1>4 DEF WaitStallsForAReason, Waiting
  <2>2. ~InTransit(p)
    BY <1>4, TransitIsWork
  <2>3. Stays(p)
    BY <1>1, <1>2, <2>2 DEF Moves, Vanishes, Dumped, Started
  <2>4. QED
    BY <1>4, <2>1, <2>3 DEF Stays, Runs
<1>5. CASE UNCHANGED vars
  BY <1>4, <1>5 DEF vars, procVars, Waiting, AtWork, Dumping, Restoring, Last
<1>6. ASSUME NEW q \in Process, CallSpecialDevice(q) \/ Program(q)
      PROVE  (targetHost[p] \in Host /\ Runs(p, targetHost[p]))'
  <2>1. /\ pc[p] \in {"post", "poll"}
        /\ targetHost'[p] = targetHost[p] /\ Last(p)' = Last(p)
        /\ dump'[Last(p)] = dump[Last(p)] /\ restore'[Last(p)] = restore[Last(p)]
    BY <1>6, ProgramWaits
  <2>2. ~AtWork(p)
    BY <2>1 DEF AtWork, Dumping, Restoring
  <2>3. QED
    BY <1>4, <2>1, <2>2
<1>7. ASSUME NEW d \in Handler, HandleDump(d) \/ HandleRestore(d)
      PROVE  (targetHost[p] \in Host /\ Runs(p, targetHost[p]))'
  <2>1. UNCHANGED <<pc, hop, targetHost>>
    BY <1>7 DEF HandleDump, HandleRestore, DumpEnter, DumpMakeDirs, DumpRmtree, DumpCheckpoint,
         DumpPostRestore, DumpEnds, RestoreStop, RestoreCreate, RestoreStart, RestoreRm, procVars
  <2>2. Waiting(p) /\ Last(p)' = Last(p)
    BY <1>3, <2>1 DEF Waiting, Last
  <2>3. CASE ~AtWork(p)
    BY <1>4, <2>1, <2>2, <2>3 DEF Waiting
  <2>4. CASE AtWork(p) /\ d = Last(p)
    BY <1>1, <1>7, <2>1, <2>2, <2>4, ServicesArrive
  <2>5. CASE AtWork(p) /\ d # Last(p)
    <3>1. dump'[Last(p)] = dump[Last(p)] /\ restore'[Last(p)] = restore[Last(p)]
      <4>1. dump' = dump \/ \E x : dump' = [dump EXCEPT ![d] = x]
        BY <1>7 DEF HandleDump, HandleRestore, DumpEnter, DumpMakeDirs, DumpRmtree, DumpCheckpoint,
           DumpPostRestore, DumpEnds, RestoreStop, RestoreCreate, RestoreStart, RestoreRm
      <4>2. restore' = restore \/ \E x : restore' = [restore EXCEPT ![d] = x]
        BY <1>7 DEF HandleDump, HandleRestore, DumpEnter, DumpMakeDirs, DumpRmtree, DumpCheckpoint,
           DumpPostRestore, DumpEnds, RestoreStop, RestoreCreate, RestoreStart, RestoreRm
      <4>3. Last(p) \in Handler
        BY <2>2, HandlerPair DEF IInv, JourneyPart, WaitPart, Waiting, Last
      <4>4. QED
        BY <2>5, <4>1, <4>2, <4>3 DEF IInv, TypeOK
    <3>2. QED
      BY <2>2, <2>5, <3>1 DEF AtWork, Dumping, Restoring
  <2>6. QED
    BY <2>3, <2>4, <2>5
<1>8. QED
  BY <1>5, <1>6, <1>7 DEF Next

\* No migration is forgotten: whatever a process waits for, some handler is at
\* work for it, unless a command failed, or it is where it wants to be.
THEOREM StallsHaveAReason == Spec => []WaitStallsForAReason
<1>1. Init => WaitStallsForAReason
  BY DEF Init, WaitStallsForAReason, Waiting
<1>2. IInv /\ IInv' /\ [Next]_vars /\ WaitStallsForAReason => WaitStallsForAReason'
  BY StepWaits
<1>3. QED
  BY <1>1, <1>2, Inductive, PTL DEF Spec

=============================================================================
