---------------------------- MODULE FzIpcProofs ----------------------------
(***************************************************************************)
(* Proofs about FzIpc for every set of clients and every number of calls.  *)
(*                                                                         *)
(* The invariants of FzIpc are not inductive: each says what is true when  *)
(* one command arrives somewhere, and needs to know what was true when it  *)
(* was sent.  IInv says it for every place a command of a client can be in,*)
(* as a condition on the client and its handler thread.  That a client has *)
(* one command in flight then follows almost entirely from the fact that   *)
(* those conditions exclude each other.                                    *)
(***************************************************************************)
EXTENDS FzIpc, TLAPS

\* The handler thread has finished with the client's last session, or has yet
\* to be made for the next one.
Unattached(c) == thread[c] \in {"none", "delete"}

\* Such a thread, with nobody having released its lock since.
Resting(c) == thread[c] = "none" \/ (thread[c] = "delete" /\ itemLocked[c])

\* The handler thread waits for a command.
Parked(c) == thread[c] = "acquire" /\ itemLocked[c]

\* The handler thread has been given command cmd and has not acted on it.
Given(c, cmd) ==
  /\ currentCmd[c] = cmd
  /\ thread[c] = "dispatch" \/ (thread[c] = "acquire" /\ ~itemLocked[c])

\* The client's call has no result yet and its segment holds content.
Calling(c, content) ==
  /\ ~result[c]
  /\ call[c] # 0
  /\ shmName[c] = call[c]
  /\ shmBuf[c][call[c]] = content

\* The conditions under which ESTABLISH, COMMUNICATION and CLOSE travel from
\* the client to the server.
Opening(c) == pc[c] = "connect" /\ ~canCommunicate[c] /\ Calling(c, "request")
Asking(c)  == /\ pc[c] \in {"connect", "wait"} /\ canCommunicate[c]
              /\ Calling(c, "request")
Closing(c) == result[c] \/ pc[c] \in {"idle", "raised"}

\* A command of c on its way through the kernel or the server's handler.
Travels(c, cmd) ==
  /\ cmd = IPC_CMD_ESTABLISH     => Opening(c) /\ Resting(c)
  /\ cmd = IPC_CMD_COMMUNICATION => Asking(c) /\ Parked(c)
  /\ cmd = IPC_CMD_CLOSE         => Closing(c) /\ Parked(c)

-----------------------------------------------------------------------------
(* The parts of the inductive invariant.                                    *)

ClientPart(c) ==
  /\ pc[c] = "created" =>
       /\ ~canCommunicate[c] /\ Calling(c, "request")
       /\ Resting(c) /\ clientSig[c] = {}
  /\ IPC_CMD_ESTABLISH \in clientSig[c] => Opening(c) /\ Parked(c)
  /\ IPC_CMD_COMMUNICATION \in clientSig[c] =>
       /\ pc[c] \in {"connect", "wait"} /\ canCommunicate[c]
       /\ Calling(c, "answer") /\ Parked(c)
  /\ \A n \in CallNumber : n > call[c] => shmBuf[c][n] = "nothing"

KernelPart ==
  /\ \A s, t \in serverSig : s = t
  /\ \A s \in serverSig : Travels(s.from, s.cmd)

HandlerPart ==
  /\ \A a, b \in activation : a.from = b.from => a = b
  /\ \A a \in activation, s \in serverSig : a.from # s.from
  /\ \A a \in activation :
       /\ Travels(a.from, a.cmd)
       /\ a.step = "new" => a.cmd = IPC_CMD_ESTABLISH /\ thread[a.from] = "none"

ThreadPart(c) ==
  /\ c \in itemDict <=> thread[c] # "none"
  /\ thread[c] \in {"dispatch", "establish", "handle", "reply", "unlink"} => itemLocked[c]
  /\ thread[c] = "delete" /\ Closing(c) => itemLocked[c]
  /\ Given(c, IPC_CMD_ESTABLISH) \/ thread[c] = "establish" => Opening(c)
  /\ Given(c, IPC_CMD_COMMUNICATION) \/ thread[c] = "handle" => Asking(c)
  /\ Given(c, IPC_CMD_CLOSE) \/ thread[c] = "unlink" => Closing(c)
  /\ thread[c] = "reply" =>
       /\ pc[c] \in {"connect", "wait"} /\ canCommunicate[c]
       /\ Calling(c, "answer")
  /\ thread[c] = "dead" => InCall(c) /\ ~result[c]

SegmentPart(c) ==
  /\ Unattached(c) /\ InCall(c) /\ result[c] => shmName[c] = 0
  /\ Unattached(c) /\ ~InCall(c) =>
       shmName[c] = 0 \/ shmBuf[c][shmName[c]] = "nothing"
  /\ ~Unattached(c) => shmName[c] # 0 /\ itemShm[c] = shmName[c]
  /\ shmName[c] <= call[c]
  /\ ~Unattached(c) /\ ~InCall(c) /\ ~result[c] => shmName[c] < call[c]

PerClient(c) == ClientPart(c) /\ ThreadPart(c) /\ SegmentPart(c)

\* The inductive invariant of the protocol: what is true of a client, of its
\* segment and of its handler thread while a command of it is at each place.
IInv ==
  /\ TypeOK
  /\ \A c \in Client : PerClient(c)
  /\ KernelPart
  /\ HandlerPart
  /\ NoSilentStall

-----------------------------------------------------------------------------
(* Type correctness.                                                        *)

LEMMA TypeInit == Init => TypeOK
  BY MaxCallsAssumption
  DEF Init, TypeOK, ClientPc, Content, ThreadPc, Command, Signal, Activation,
      CallNumber, IPC_CMD_COMMUNICATION, IPC_CMD_ESTABLISH, IPC_CMD_CLOSE

\* Writing something into the segment of one call leaves the others alone.
LEMMA BufferUpdate ==
  ASSUME NEW f \in [Client -> [CallNumber -> Content]], NEW c \in Client,
         NEW n \in Int, NEW v \in Content
  PROVE  [f EXCEPT ![c][n] = v] \in [Client -> [CallNumber -> Content]]
<1>1. f[c] \in [CallNumber -> Content]
  OBVIOUS
<1>2. [f[c] EXCEPT ![n] = v] \in [CallNumber -> Content]
  BY <1>1
<1>3. QED
  BY <1>2

LEMMA TypeCallBegin ==
  ASSUME TypeOK, NEW c \in Client, CallBegin(c)
  PROVE  TypeOK'
<1>1. call' \in [Client -> 0 .. MaxCalls] /\ call[c] + 1 \in 1 .. MaxCalls
  BY MaxCallsAssumption DEF CallBegin, TypeOK
<1>2. shmName' \in [Client -> 0 .. MaxCalls]
  BY <1>1 DEF CallBegin, TypeOK, shmVars
<1>3. shmBuf' \in [Client -> [CallNumber -> Content]]
  <2>1. \/ shmBuf' = shmBuf
        \/ shmBuf' = [shmBuf EXCEPT ![c][call[c] + 1] = "request"]
    BY DEF CallBegin, shmVars
  <2>2. "request" \in Content /\ call[c] + 1 \in Int
    BY <1>1 DEF Content
  <2>3. [shmBuf EXCEPT ![c][call[c] + 1] = "request"] \in [Client -> [CallNumber -> Content]]
    BY <2>2, BufferUpdate DEF TypeOK
  <2>4. QED
    BY <2>1, <2>3 DEF TypeOK
<1>4. pc' \in [Client -> ClientPc]
  BY DEF CallBegin, TypeOK, ClientPc
<1>5. /\ canCommunicate' \in [Client -> BOOLEAN]
      /\ result' \in [Client -> BOOLEAN]
  BY DEF CallBegin, TypeOK
<1>6. UNCHANGED <<clientSig, serverSig, activation, itemDict, itemShm,
                  itemLocked, currentCmd, thread, lost>>
  BY DEF CallBegin, itemVars
<1>7. QED
  BY <1>1, <1>2, <1>3, <1>4, <1>5, <1>6 DEF TypeOK

LEMMA TypeClientCommunication ==
  ASSUME TypeOK, NEW c \in Client, ClientCommunication(c)
  PROVE  TypeOK'
<1>1. result' \in [Client -> BOOLEAN]
  BY DEF ClientCommunication, UserHandler, CloseSession, TypeOK
<1>2. /\ serverSig' \in SUBSET Signal
      /\ lost' \in [Client -> {"no", "dropped", "absorbed"}]
  BY DEF ClientCommunication, UserHandler, CloseSession, SigqueueServer, TypeOK, Signal, Command
<1>3. clientSig' \in [Client -> SUBSET {IPC_CMD_COMMUNICATION, IPC_CMD_ESTABLISH}]
  BY DEF ClientCommunication, UserHandler, CloseSession, TypeOK
<1>4. UNCHANGED <<pc, call, canCommunicate, shmName, shmBuf, activation,
                  itemDict, itemShm, itemLocked, currentCmd, thread>>
  BY DEF ClientCommunication, UserHandler, CloseSession, shmVars, itemVars
<1>5. QED
  BY <1>1, <1>2, <1>3, <1>4 DEF TypeOK

LEMMA TypeHandlerNew ==
  ASSUME TypeOK, NEW c \in Client, HandlerNew(c)
  PROVE  TypeOK'
<1>1. activation' \in SUBSET Activation
  BY DEF HandlerNew, TypeOK
<1>2. itemDict' \in SUBSET Client
  BY DEF HandlerNew, TypeOK, itemVars
<1>3. itemShm' \in [Client -> 0 .. MaxCalls]
  BY DEF HandlerNew, TypeOK, itemVars
<1>4. /\ itemLocked' \in [Client -> BOOLEAN]
      /\ currentCmd' \in [Client -> Command]
  BY DEF HandlerNew, TypeOK, itemVars, Command
<1>5. /\ thread' \in [Client -> ThreadPc]
      /\ lost' \in [Client -> {"no", "dropped", "absorbed"}]
  BY DEF HandlerNew, TypeOK, ThreadPc
<1>6. UNCHANGED <<pc, call, canCommunicate, result, shmName, shmBuf,
                  clientSig, serverSig>>
  BY DEF HandlerNew, clientVars, shmVars
<1>7. QED
  BY <1>1, <1>2, <1>3, <1>4, <1>5, <1>6 DEF TypeOK

LEMMA TypeThreadHandle ==
  ASSUME TypeOK, NEW c \in Client, ThreadHandle(c)
  PROVE  TypeOK'
<1>1. shmBuf' \in [Client -> [CallNumber -> Content]]
  <2>1. \/ shmBuf' = [shmBuf EXCEPT ![c][itemShm[c]] = "answer"]
        \/ shmBuf' = shmBuf
    BY Zenon DEF ThreadHandle
  <2>2. "answer" \in Content /\ itemShm[c] \in Int
    BY MaxCallsAssumption DEF Content, TypeOK
  <2>3. [shmBuf EXCEPT ![c][itemShm[c]] = "answer"] \in [Client -> [CallNumber -> Content]]
    BY <2>2, BufferUpdate DEF TypeOK
  <2>4. QED
    BY <2>1, <2>3 DEF TypeOK
<1>2. thread' \in [Client -> ThreadPc]
  <2>1. \/ thread' = [thread EXCEPT ![c] = "reply"]
        \/ thread' = [thread EXCEPT ![c] = "dead"]
    BY Zenon DEF ThreadHandle
  <2>2. QED
    BY <2>1 DEF TypeOK, ThreadPc
<1>3. UNCHANGED <<pc, call, canCommunicate, result, shmName, clientSig,
                  serverSig, activation, itemDict, itemShm, itemLocked,
                  currentCmd, lost>>
  BY DEF ThreadHandle, clientVars, itemVars
<1>4. QED
  BY <1>1, <1>2, <1>3 DEF TypeOK

LEMMA TypeClient ==
  ASSUME TypeOK, NEW c \in Client,
         CallBegin(c) \/ ClientMain(c) \/ ClientHandler(c)
  PROVE  TypeOK'
<1> USE MaxCallsAssumption
    DEF TypeOK, ClientPc, Content, Command, Signal, CallNumber, shmVars, itemVars,
        IPC_CMD_COMMUNICATION, IPC_CMD_ESTABLISH, IPC_CMD_CLOSE
<1>1. CASE CallBegin(c)
  BY <1>1, TypeCallBegin
<1>2. CASE Establish(c)
  BY <1>2 DEF Establish, SigqueueServer
<1>3. CASE Connected(c)
  BY <1>3 DEF Connected
<1>4. CASE CallReturn(c)
  BY <1>4 DEF CallReturn
<1>5. CASE ClientCommunication(c)
  BY <1>5, TypeClientCommunication
<1>6. CASE ClientEstablish(c)
  BY <1>6 DEF ClientEstablish, SigqueueServer
<1>7. QED
  BY <1>1, <1>2, <1>3, <1>4, <1>5, <1>6 DEF ClientMain, ClientHandler

LEMMA TypeServer ==
  ASSUME TypeOK, NEW c \in Client,
         ServerDeliver \/ ServerHandler(c) \/ ServerThread(c)
  PROVE  TypeOK'
<1> USE MaxCallsAssumption
    DEF TypeOK, Content, ThreadPc, Command, Signal, Activation, CallNumber,
        clientVars, shmVars, itemVars,
        IPC_CMD_COMMUNICATION, IPC_CMD_ESTABLISH, IPC_CMD_CLOSE
<1>1. CASE ServerDeliver
  BY <1>1 DEF ServerDeliver
<1>2. CASE HandlerLookup(c)
  BY <1>2 DEF HandlerLookup
<1>3. CASE HandlerNew(c)
  BY <1>3, TypeHandlerNew
<1>4. CASE HandlerKnown(c)
  BY <1>4 DEF HandlerKnown
<1>5. CASE ThreadAcquire(c)
  BY <1>5 DEF ThreadAcquire
<1>6. CASE ThreadDispatch(c)
  BY <1>6 DEF ThreadDispatch
<1>7. CASE ThreadEstablish(c)
  BY <1>7 DEF ThreadEstablish, SigqueueClient
<1>8. CASE ThreadHandle(c)
  BY <1>8, TypeThreadHandle
<1>9. CASE ThreadReply(c)
  BY <1>9 DEF ThreadReply, SigqueueClient
<1>10. CASE ThreadUnlink(c)
  BY <1>10 DEF ThreadUnlink
<1>11. CASE ThreadDelete(c)
  BY <1>11 DEF ThreadDelete
<1>12. QED
  BY <1>1, <1>2, <1>3, <1>4, <1>5, <1>6, <1>7, <1>8, <1>9, <1>10, <1>11
  DEF ServerHandler, ServerThread

LEMMA TypeStep == TypeOK /\ [Next]_vars => TypeOK'
<1> SUFFICES ASSUME TypeOK, [Next]_vars PROVE TypeOK'
  OBVIOUS
<1>1. CASE UNCHANGED vars
  BY <1>1 DEF vars, clientVars, shmVars, itemVars, TypeOK
<1>2. CASE ServerDeliver
  <2>1. CASE Client = {}
    BY <1>2, <2>1 DEF ServerDeliver, TypeOK, Signal
  <2>2. CASE Client # {}
    BY <1>2, <2>2, TypeServer
  <2>3. QED
    BY <2>1, <2>2
<1>3. CASE \E c \in Client : \/ CallBegin(c) \/ ClientMain(c) \/ ClientHandler(c)
                             \/ ServerHandler(c) \/ ServerThread(c)
  BY <1>3, TypeClient, TypeServer
<1>4. QED
  BY <1>1, <1>2, <1>3 DEF Next

\* Whatever the clients and however many calls they make, every variable of
\* the protocol keeps to its range.
THEOREM TypeCorrect == Spec => []TypeOK
  BY TypeInit, TypeStep, PTL DEF Spec

-----------------------------------------------------------------------------
(* The invariant is inductive.  A step of one client's processes leaves the  *)
(* entries of the others alone, so most of the work is about that client.   *)

Untouched(d) ==
  /\ pc'[d] = pc[d] /\ call'[d] = call[d]
  /\ canCommunicate'[d] = canCommunicate[d] /\ result'[d] = result[d]
  /\ shmName'[d] = shmName[d] /\ shmBuf'[d] = shmBuf[d]
  /\ clientSig'[d] = clientSig[d] /\ lost'[d] = lost[d]
  /\ (d \in itemDict') <=> (d \in itemDict)
  /\ itemShm'[d] = itemShm[d] /\ itemLocked'[d] = itemLocked[d]
  /\ currentCmd'[d] = currentCmd[d] /\ thread'[d] = thread[d]

LEMMA FramePerClient ==
  ASSUME NEW d \in Client, PerClient(d), Untouched(d)
  PROVE  PerClient(d)'
<1> USE DEF Untouched, Calling, Unattached, Resting, Parked, Given, Opening,
            Asking, Closing, InCall
<1>1. ClientPart(d)'
  BY DEF PerClient, ClientPart
<1>2. ThreadPart(d)'
  BY DEF PerClient, ThreadPart
<1>3. SegmentPart(d)'
  BY DEF PerClient, SegmentPart
<1>4. QED
  BY <1>1, <1>2, <1>3 DEF PerClient

LEMMA FrameTravels ==
  ASSUME NEW d \in Client, NEW cmd, Travels(d, cmd), Untouched(d)
  PROVE  Travels(d, cmd)'
BY DEF Untouched, Travels, Calling, Resting, Parked, Opening, Asking, Closing

\* What NoSilentStall says of one client.
NotStalled(c) ==
  InCall(c) /\ ~result[c] /\ ~InFlight(c) => lost[c] # "no" \/ thread[c] = "dead"

LEMMA FrameNotStalled ==
  ASSUME NEW d \in Client, NotStalled(d), Untouched(d),
         AtKernel(d) \/ AtHandler(d) => (AtKernel(d) \/ AtHandler(d))'
  PROVE  NotStalled(d)'
BY DEF Untouched, NotStalled, InCall, InFlight, AtClient, AtThread

\* A step that neither sends nor handles a command of c at the server.
LEMMA QuietStep ==
  ASSUME IInv, TypeOK', NEW c \in Client,
         \A d \in Client : d # c => Untouched(d),
         serverSig' = serverSig, activation' = activation,
         PerClient(c)', NotStalled(c)',
         \A cmd \in Command : Travels(c, cmd) => Travels(c, cmd)',
         thread[c] = "none" => thread'[c] = "none"
  PROVE  IInv'
<1>1. \A d \in Client : PerClient(d)'
  BY FramePerClient DEF IInv
<1>2. ASSUME NEW d \in Client, NEW cmd \in Command, Travels(d, cmd)
      PROVE  Travels(d, cmd)'
  BY <1>2, FrameTravels
<1>3. KernelPart'
  BY <1>2 DEF IInv, TypeOK, KernelPart, Signal
<1>4. HandlerPart'
  <2>1. ASSUME NEW a \in activation
        PROVE  Travels(a.from, a.cmd)'
    BY <1>2 DEF IInv, TypeOK, HandlerPart, Activation
  <2>2. ASSUME NEW a \in activation, a.step = "new"
        PROVE  thread'[a.from] = "none"
    BY <2>2 DEF IInv, TypeOK, HandlerPart, Activation, Untouched
  <2>3. QED
    BY <2>1, <2>2 DEF IInv, HandlerPart
<1>5. NoSilentStall'
  <2>1. ASSUME NEW d \in Client PROVE NotStalled(d)'
    <3>1. NotStalled(d)
      BY DEF IInv, NoSilentStall, NotStalled
    <3>2. AtKernel(d) \/ AtHandler(d) => (AtKernel(d) \/ AtHandler(d))'
      BY DEF AtKernel, AtHandler
    <3>3. QED
      BY <3>1, <3>2, FrameNotStalled
  <2>2. QED
    BY <2>1 DEF NoSilentStall, NotStalled
<1>6. QED
  BY <1>1, <1>3, <1>4, <1>5 DEF IInv

\* A step in which client c, with no command at the server, sends one.
LEMMA SendStep ==
  ASSUME IInv, TypeOK', NEW c \in Client, NEW cmd \in Command,
         \A d \in Client : d # c => Untouched(d),
         SigqueueServer(c, cmd), activation' = activation,
         ~AtKernel(c), ~AtHandler(c),
         PerClient(c)', Travels(c, cmd)'
  PROVE  IInv'
<1>1. \A d \in Client : PerClient(d)'
  BY FramePerClient DEF IInv
<1>2. ASSUME NEW d \in Client, d # c, NEW x, Travels(d, x)
      PROVE  Travels(d, x)'
  BY <1>2, FrameTravels
<1>3. KernelPart'
  BY <1>2 DEF IInv, TypeOK, KernelPart, Signal, SigqueueServer, AtKernel
<1>4. HandlerPart'
  <2>1. ASSUME NEW a \in activation
        PROVE  a.from \in Client /\ a.from # c
    BY DEF IInv, TypeOK, Activation, AtHandler
  <2>2. ASSUME NEW a \in activation
        PROVE  Travels(a.from, a.cmd)'
    BY <1>2, <2>1 DEF IInv, HandlerPart
  <2>3. ASSUME NEW a \in activation, a.step = "new"
        PROVE  thread'[a.from] = "none"
    BY <2>1, <2>3 DEF IInv, HandlerPart, Untouched
  <2>4. ASSUME NEW a \in activation, NEW s \in serverSig'
        PROVE  a.from # s.from
    BY <2>1 DEF IInv, HandlerPart, SigqueueServer
  <2>5. QED
    BY <2>2, <2>3, <2>4 DEF IInv, HandlerPart
<1>5. NoSilentStall'
  <2>1. NotStalled(c)'
    <3>1. CASE serverSig = {}
      BY <3>1 DEF SigqueueServer, NotStalled, InFlight, AtKernel
    <3>2. CASE serverSig # {}
      BY <3>2 DEF SigqueueServer, NotStalled, IInv, TypeOK
    <3>3. QED
      BY <3>1, <3>2
  <2>2. ASSUME NEW d \in Client, d # c PROVE NotStalled(d)'
    <3>1. NotStalled(d)
      BY DEF IInv, NoSilentStall, NotStalled
    <3>2. AtKernel(d) \/ AtHandler(d) => (AtKernel(d) \/ AtHandler(d))'
      BY DEF AtKernel, AtHandler, SigqueueServer
    <3>3. QED
      BY <2>2, <3>1, <3>2, FrameNotStalled
  <2>3. QED
    BY <2>1, <2>2 DEF NoSilentStall, NotStalled
<1>6. QED
  BY <1>1, <1>3, <1>4, <1>5 DEF IInv

-----------------------------------------------------------------------------
(* Steps of the client's main thread, and of its signal handler.            *)

LEMMA NoClientSignal ==
  ASSUME TypeOK, NEW c \in Client, IPC_CMD_ESTABLISH \notin clientSig[c],
         IPC_CMD_COMMUNICATION \notin clientSig[c]
  PROVE  clientSig[c] = {}
BY DEF TypeOK

LEMMA KeepsConnected ==
  ASSUME IInv, TypeOK', NEW c \in Client, Connected(c)
  PROVE  IInv'
<1>1. PerClient(c) /\ NotStalled(c)
  BY DEF IInv, NoSilentStall, NotStalled
<1>2. \A d \in Client : d # c => Untouched(d)
  BY DEF Connected, IInv, TypeOK, Untouched, clientVars, shmVars, itemVars
<1> USE <1>1 DEF Connected, IInv, TypeOK, clientVars, shmVars, itemVars,
                 PerClient, ClientPart, ThreadPart, SegmentPart, Calling, Unattached,
                 Resting, Parked, Given, Opening, Asking, Closing, InCall
<1>3. ClientPart(c)'
  OBVIOUS
<1>4. ThreadPart(c)'
  OBVIOUS
<1>5. SegmentPart(c)'
  OBVIOUS
<1>6. NotStalled(c)'
  BY DEF NotStalled, InFlight, AtClient, AtKernel, AtHandler, AtThread
<1>7. \A cmd \in Command : Travels(c, cmd) => Travels(c, cmd)'
  BY DEF Travels
<1>8. QED
  BY <1>2, <1>3, <1>4, <1>5, <1>6, <1>7, QuietStep

LEMMA KeepsCallReturn ==
  ASSUME IInv, TypeOK', NEW c \in Client, CallReturn(c)
  PROVE  IInv'
<1>1. PerClient(c) /\ NotStalled(c)
  BY DEF IInv, NoSilentStall, NotStalled
<1>2. \A d \in Client : d # c => Untouched(d)
  BY DEF CallReturn, IInv, TypeOK, Untouched, clientVars, shmVars, itemVars
<1> USE <1>1 DEF CallReturn, IInv, TypeOK, clientVars, shmVars, itemVars,
                 PerClient, ClientPart, ThreadPart, SegmentPart, Calling, Unattached,
                 Resting, Parked, Given, Opening, Asking, Closing, InCall
<1>3. ClientPart(c)'
  OBVIOUS
<1>4. ThreadPart(c)'
  OBVIOUS
<1>5. SegmentPart(c)'
  OBVIOUS
<1>6. NotStalled(c)'
  BY DEF NotStalled, InFlight, AtClient, AtKernel, AtHandler, AtThread
<1>7. \A cmd \in Command : Travels(c, cmd) => Travels(c, cmd)'
  BY DEF Travels
<1>8. QED
  BY <1>2, <1>3, <1>4, <1>5, <1>6, <1>7, QuietStep

LEMMA KeepsCallBegin ==
  ASSUME IInv, TypeOK', NEW c \in Client, CallBegin(c)
  PROVE  IInv'
<1>1. PerClient(c) /\ NotStalled(c)
  BY DEF IInv, NoSilentStall, NotStalled
<1>2. \A d \in Client : d # c => Untouched(d)
  BY DEF CallBegin, IInv, TypeOK, Untouched, clientVars, shmVars, itemVars
<1> USE <1>1 DEF CallBegin, IInv, TypeOK, clientVars, shmVars, itemVars,
                 PerClient, ClientPart, ThreadPart, SegmentPart, Calling, Unattached,
                 Resting, Parked, Given, Opening, Asking, Closing, InCall
<1>0. clientSig[c] = {}
  BY NoClientSignal
<1>a. /\ call'[c] = call[c] + 1 /\ call'[c] \in CallNumber
      /\ clientSig'[c] = {} /\ ~result'[c] /\ ~canCommunicate'[c]
      /\ thread'[c] = thread[c] /\ itemLocked'[c] = itemLocked[c]
      /\ itemShm'[c] = itemShm[c]
  BY <1>0, MaxCallsAssumption DEF CallNumber
<1>b. \/ /\ shmName[c] # 0 /\ shmName'[c] = shmName[c]
         /\ pc'[c] = "raised" /\ shmBuf'[c] = shmBuf[c]
      \/ /\ shmName[c] = 0 /\ shmName'[c] = call'[c]
         /\ pc'[c] = "created"
         /\ shmBuf'[c] = [shmBuf[c] EXCEPT ![call'[c]] = "request"]
      \/ /\ shmName[c] = 0 /\ shmName'[c] = call'[c]
         /\ pc'[c] = "raised" /\ shmBuf'[c] = shmBuf[c]
  BY <1>a
<1>c. shmBuf[c] \in [CallNumber -> Content] /\ call[c] \in Int
  BY MaxCallsAssumption
<1>3. ClientPart(c)'
  <2>1. \A n \in CallNumber : n > call'[c] => shmBuf'[c][n] = "nothing"
    <3>1. \A n \in CallNumber : n > call'[c] => n # call'[c] /\ n > call[c]
      BY <1>a, <1>c DEF CallNumber
    <3>2. QED
      BY <1>a, <1>b, <1>c, <3>1
  <2>2. pc'[c] = "created" => Calling(c, "request")' /\ Resting(c)'
    BY <1>a, <1>b, <1>c DEF CallNumber
  <2>3. QED
    BY <1>a, <2>1, <2>2
<1>4. ThreadPart(c)'
  OBVIOUS
<1>5. SegmentPart(c)'
  <2>1. Unattached(c)' /\ ~InCall(c)' =>
          shmName'[c] = 0 \/ shmBuf'[c][shmName'[c]] = "nothing"
    BY <1>a, <1>b, <1>c DEF CallNumber
  <2>2. ~Unattached(c)' => shmName'[c] # 0 /\ itemShm'[c] = shmName'[c]
    BY <1>a, <1>b
  <2>3. /\ shmName'[c] <= call'[c]
        /\ ~Unattached(c)' => shmName'[c] < call'[c]
    BY <1>a, <1>b, <1>c, MaxCallsAssumption
  <2>4. QED
    BY <1>a, <2>1, <2>2, <2>3
<1>6. NotStalled(c)'
  BY DEF NotStalled, InFlight, AtClient, AtKernel, AtHandler, AtThread
<1>7. \A cmd \in Command : Travels(c, cmd) => Travels(c, cmd)'
  BY DEF Travels
<1>8. QED
  BY <1>2, <1>3, <1>4, <1>5, <1>6, <1>7, QuietStep

LEMMA KeepsThreadAcquire ==
  ASSUME IInv, TypeOK', NEW c \in Client, ThreadAcquire(c)
  PROVE  IInv'
<1>1. PerClient(c) /\ NotStalled(c)
  BY DEF IInv, NoSilentStall, NotStalled
<1>2. \A d \in Client : d # c => Untouched(d)
  BY DEF ThreadAcquire, IInv, TypeOK, Untouched, clientVars, shmVars, itemVars
<1> USE <1>1 DEF ThreadAcquire, IInv, TypeOK, clientVars, shmVars, itemVars,
                 PerClient, ClientPart, ThreadPart, SegmentPart, Calling, Unattached,
                 Resting, Parked, Given, Opening, Asking, Closing, InCall
<1>3. ClientPart(c)'
  OBVIOUS
<1>4. ThreadPart(c)'
  OBVIOUS
<1>5. SegmentPart(c)'
  OBVIOUS
<1>6. NotStalled(c)'
  BY DEF NotStalled, InFlight, AtClient, AtKernel, AtHandler, AtThread
<1>7. \A cmd \in Command : Travels(c, cmd) => Travels(c, cmd)'
  BY DEF Travels
<1>8. QED
  BY <1>2, <1>3, <1>4, <1>5, <1>6, <1>7, QuietStep

LEMMA KeepsThreadDispatch ==
  ASSUME IInv, TypeOK', NEW c \in Client, ThreadDispatch(c)
  PROVE  IInv'
<1>1. PerClient(c) /\ NotStalled(c)
  BY DEF IInv, NoSilentStall, NotStalled
<1>2. \A d \in Client : d # c => Untouched(d)
  BY DEF ThreadDispatch, IInv, TypeOK, Untouched, clientVars, shmVars, itemVars
<1> USE <1>1 DEF ThreadDispatch, IInv, TypeOK, clientVars, shmVars, itemVars,
                 PerClient, ClientPart, ThreadPart, SegmentPart, Calling, Unattached,
                 Resting, Parked, Given, Opening, Asking, Closing, InCall
<1>a. \/ currentCmd[c] = IPC_CMD_COMMUNICATION /\ thread'[c] = "handle"
      \/ currentCmd[c] = IPC_CMD_ESTABLISH /\ thread'[c] = "establish"
      \/ currentCmd[c] = IPC_CMD_CLOSE /\ thread'[c] = "unlink"
  BY DEF Command, IPC_CMD_COMMUNICATION, IPC_CMD_ESTABLISH, IPC_CMD_CLOSE
<1>3. ClientPart(c)'
  OBVIOUS
<1>4. ThreadPart(c)'
  BY <1>a
<1>5. SegmentPart(c)'
  BY <1>a
<1>6. NotStalled(c)'
  BY <1>a DEF NotStalled, InFlight, AtClient, AtKernel, AtHandler, AtThread
<1>7. \A cmd \in Command : Travels(c, cmd) => Travels(c, cmd)'
  BY DEF Travels
<1>8. QED
  BY <1>2, <1>3, <1>4, <1>5, <1>6, <1>7, QuietStep

LEMMA KeepsThreadEstablish ==
  ASSUME IInv, TypeOK', NEW c \in Client, ThreadEstablish(c)
  PROVE  IInv'
<1>1. PerClient(c) /\ NotStalled(c)
  BY DEF IInv, NoSilentStall, NotStalled
<1>2. \A d \in Client : d # c => Untouched(d)
  BY DEF ThreadEstablish, IInv, TypeOK, Untouched, clientVars, shmVars, itemVars, SigqueueClient
<1> USE <1>1 DEF ThreadEstablish, IInv, TypeOK, clientVars, shmVars, itemVars,
                 PerClient, ClientPart, ThreadPart, SegmentPart, Calling, Unattached,
                 Resting, Parked, Given, Opening, Asking, Closing, InCall, SigqueueClient
<1>0. clientSig[c] = {}
  BY NoClientSignal
<1>a. clientSig'[c] = {IPC_CMD_ESTABLISH}
  BY <1>0
<1>b. Parked(c)' /\ pc'[c] # "created"
  OBVIOUS
<1>c. UNCHANGED <<pc, call, canCommunicate, result, shmName, shmBuf>>
  OBVIOUS
<1>3. ClientPart(c)'
  BY <1>a, <1>b, <1>c DEF IPC_CMD_COMMUNICATION, IPC_CMD_ESTABLISH
<1>4. ThreadPart(c)'
  OBVIOUS
<1>5. SegmentPart(c)'
  OBVIOUS
<1>6. NotStalled(c)'
  BY DEF NotStalled, InFlight, AtClient, AtKernel, AtHandler, AtThread
<1>7. \A cmd \in Command : Travels(c, cmd) => Travels(c, cmd)'
  BY DEF Travels
<1>8. QED
  BY <1>2, <1>3, <1>4, <1>5, <1>6, <1>7, QuietStep

LEMMA KeepsThreadHandle ==
  ASSUME IInv, TypeOK', NEW c \in Client, ThreadHandle(c)
  PROVE  IInv'
<1>1. PerClient(c) /\ NotStalled(c)
  BY DEF IInv, NoSilentStall, NotStalled
<1>2. \A d \in Client : d # c => Untouched(d)
  BY DEF ThreadHandle, IInv, TypeOK, Untouched, clientVars, shmVars, itemVars
<1> USE <1>1 DEF ThreadHandle, IInv, TypeOK, clientVars, shmVars, itemVars,
                 PerClient, ClientPart, ThreadPart, SegmentPart, Calling, Unattached,
                 Resting, Parked, Given, Opening, Asking, Closing, InCall
<1>a. /\ shmBuf[c] \in [CallNumber -> Content]
      /\ call[c] \in CallNumber /\ itemShm[c] = call[c]
  BY MaxCallsAssumption DEF CallNumber
<1>b. \/ thread'[c] = "reply" /\ shmBuf'[c][call[c]] = "answer"
      \/ thread'[c] = "dead" /\ shmBuf' = shmBuf
  BY <1>a
<1>c. UNCHANGED <<pc, call, canCommunicate, result, shmName, itemLocked, itemDict>>
  OBVIOUS
<1>3. ClientPart(c)'
  OBVIOUS
<1>4. ThreadPart(c)'
  BY <1>a, <1>b, <1>c
<1>5. SegmentPart(c)'
  OBVIOUS
<1>6. NotStalled(c)'
  BY DEF NotStalled, InFlight, AtClient, AtKernel, AtHandler, AtThread
<1>7. \A cmd \in Command : Travels(c, cmd) => Travels(c, cmd)'
  BY DEF Travels
<1>8. QED
  BY <1>2, <1>3, <1>4, <1>5, <1>6, <1>7, QuietStep

LEMMA KeepsThreadReply ==
  ASSUME IInv, TypeOK', NEW c \in Client, ThreadReply(c)
  PROVE  IInv'
<1>1. PerClient(c) /\ NotStalled(c)
  BY DEF IInv, NoSilentStall, NotStalled
<1>2. \A d \in Client : d # c => Untouched(d)
  BY DEF ThreadReply, IInv, TypeOK, Untouched, clientVars, shmVars, itemVars, SigqueueClient
<1> USE <1>1 DEF ThreadReply, IInv, TypeOK, clientVars, shmVars, itemVars,
                 PerClient, ClientPart, ThreadPart, SegmentPart, Calling, Unattached,
                 Resting, Parked, Given, Opening, Asking, Closing, InCall, SigqueueClient
<1>0. clientSig[c] = {}
  BY NoClientSignal
<1>a. clientSig'[c] = {IPC_CMD_COMMUNICATION}
  BY <1>0
<1>b. Parked(c)' /\ pc'[c] # "created"
  OBVIOUS
<1>c. UNCHANGED <<pc, call, canCommunicate, result, shmName, shmBuf>>
  OBVIOUS
<1>3. ClientPart(c)'
  BY <1>a, <1>b, <1>c DEF IPC_CMD_COMMUNICATION, IPC_CMD_ESTABLISH
<1>4. ThreadPart(c)'
  OBVIOUS
<1>5. SegmentPart(c)'
  OBVIOUS
<1>6. NotStalled(c)'
  BY DEF NotStalled, InFlight, AtClient, AtKernel, AtHandler, AtThread
<1>7. \A cmd \in Command : Travels(c, cmd) => Travels(c, cmd)'
  BY DEF Travels
<1>8. QED
  BY <1>2, <1>3, <1>4, <1>5, <1>6, <1>7, QuietStep

LEMMA KeepsThreadUnlink ==
  ASSUME IInv, TypeOK', NEW c \in Client, ThreadUnlink(c)
  PROVE  IInv'
<1>1. PerClient(c) /\ NotStalled(c)
  BY DEF IInv, NoSilentStall, NotStalled
<1>2. \A d \in Client : d # c => Untouched(d)
  BY DEF ThreadUnlink, IInv, TypeOK, Untouched, clientVars, shmVars, itemVars
<1> USE <1>1 DEF ThreadUnlink, IInv, TypeOK, clientVars, shmVars, itemVars,
                 PerClient, ClientPart, ThreadPart, SegmentPart, Calling, Unattached,
                 Resting, Parked, Given, Opening, Asking, Closing, InCall
<1>3. ClientPart(c)'
  OBVIOUS
<1>4. ThreadPart(c)'
  OBVIOUS
<1>5. SegmentPart(c)'
  OBVIOUS
<1>6. NotStalled(c)'
  BY DEF NotStalled, InFlight, AtClient, AtKernel, AtHandler, AtThread
<1>7. \A cmd \in Command : Travels(c, cmd) => Travels(c, cmd)'
  BY DEF Travels
<1>8. QED
  BY <1>2, <1>3, <1>4, <1>5, <1>6, <1>7, QuietStep

LEMMA KeepsThreadDelete ==
  ASSUME IInv, TypeOK', NEW c \in Client, ThreadDelete(c)
  PROVE  IInv'
<1>1. PerClient(c) /\ NotStalled(c)
  BY DEF IInv, NoSilentStall, NotStalled
<1>2. \A d \in Client : d # c => Untouched(d)
  BY DEF ThreadDelete, IInv, TypeOK, Untouched, clientVars, shmVars, itemVars
<1> USE <1>1 DEF ThreadDelete, IInv, TypeOK, clientVars, shmVars, itemVars,
                 PerClient, ClientPart, ThreadPart, SegmentPart, Calling, Unattached,
                 Resting, Parked, Given, Opening, Asking, Closing, InCall
<1>3. ClientPart(c)'
  OBVIOUS
<1>4. ThreadPart(c)'
  OBVIOUS
<1>5. SegmentPart(c)'
  OBVIOUS
<1>6. NotStalled(c)'
  BY DEF NotStalled, InFlight, AtClient, AtKernel, AtHandler, AtThread
<1>7. \A cmd \in Command : Travels(c, cmd) => Travels(c, cmd)'
  BY DEF Travels
<1>8. QED
  BY <1>2, <1>3, <1>4, <1>5, <1>6, <1>7, QuietStep

LEMMA KeepsEstablish ==
  ASSUME IInv, TypeOK', NEW c \in Client, Establish(c)
  PROVE  IInv'
<1>1. PerClient(c)
  BY DEF IInv
<1>2. \A d \in Client : d # c => Untouched(d)
  BY DEF Establish, SigqueueServer, IInv, TypeOK, Untouched, shmVars, itemVars
<1>3. ~AtKernel(c) /\ ~AtHandler(c)
  <2>1. ASSUME NEW cmd \in Command, Travels(c, cmd) PROVE FALSE
    BY <1>1, <2>1
    DEF Establish, IInv, TypeOK, PerClient, ClientPart, Travels, Calling, Resting,
        Parked, Opening, Asking, Closing, Command
  <2>2. QED
    BY <2>1 DEF IInv, TypeOK, KernelPart, HandlerPart, AtKernel, AtHandler, Signal, Activation
<1> USE <1>1 DEF Establish, SigqueueServer, IInv, TypeOK, shmVars, itemVars,
                 PerClient, ClientPart, ThreadPart, SegmentPart, Calling, Unattached,
                 Resting, Parked, Given, Opening, Asking, Closing, InCall
<1>4. PerClient(c)'
  <2>1. ClientPart(c)'
    OBVIOUS
  <2>2. ThreadPart(c)'
    OBVIOUS
  <2>3. SegmentPart(c)'
    OBVIOUS
  <2>4. QED
    BY <2>1, <2>2, <2>3
<1>5. Travels(c, IPC_CMD_ESTABLISH)'
  BY DEF Travels, IPC_CMD_COMMUNICATION, IPC_CMD_ESTABLISH, IPC_CMD_CLOSE
<1>6. SigqueueServer(c, IPC_CMD_ESTABLISH) /\ IPC_CMD_ESTABLISH \in Command /\ activation' = activation
  BY DEF Command
<1>7. QED
  BY <1>2, <1>3, <1>4, <1>5, <1>6, SendStep

LEMMA KeepsClientCommunication ==
  ASSUME IInv, TypeOK', NEW c \in Client, ClientCommunication(c)
  PROVE  IInv'
<1>1. PerClient(c)
  BY DEF IInv
<1>0. /\ shmBuf[c][call[c]] = "answer"
      /\ result' = [result EXCEPT ![c] = TRUE]
      /\ SigqueueServer(c, IPC_CMD_CLOSE)
  BY <1>1 DEF ClientCommunication, UserHandler, CloseSession, PerClient, ClientPart, Calling
<1>2. \A d \in Client : d # c => Untouched(d)
  BY <1>0 DEF ClientCommunication, UserHandler, CloseSession, SigqueueServer, IInv, TypeOK, Untouched, shmVars, itemVars
<1>3. ~AtKernel(c) /\ ~AtHandler(c)
  <2>1. ASSUME NEW cmd \in Command, Travels(c, cmd) PROVE FALSE
    BY <1>1, <2>1
    DEF ClientCommunication, UserHandler, CloseSession, IInv, TypeOK, PerClient, ClientPart, Travels, Calling, Resting,
        Parked, Opening, Asking, Closing, Command
  <2>2. QED
    BY <2>1 DEF IInv, TypeOK, KernelPart, HandlerPart, AtKernel, AtHandler, Signal, Activation
<1> USE <1>1 DEF ClientCommunication, UserHandler, CloseSession, SigqueueServer, IInv, TypeOK, shmVars, itemVars,
                 PerClient, ClientPart, ThreadPart, SegmentPart, Calling, Unattached,
                 Resting, Parked, Given, Opening, Asking, Closing, InCall
<1>4. PerClient(c)'
  <2>1. ClientPart(c)'
    BY <1>0
  <2>2. ThreadPart(c)'
    BY <1>0
  <2>3. SegmentPart(c)'
    BY <1>0
  <2>4. QED
    BY <2>1, <2>2, <2>3
<1>5. Travels(c, IPC_CMD_CLOSE)'
  BY <1>0 DEF Travels, IPC_CMD_COMMUNICATION, IPC_CMD_ESTABLISH, IPC_CMD_CLOSE
<1>6. SigqueueServer(c, IPC_CMD_CLOSE) /\ IPC_CMD_CLOSE \in Command /\ activation' = activation
  BY <1>0 DEF Command
<1>7. QED
  BY <1>2, <1>3, <1>4, <1>5, <1>6, SendStep

LEMMA KeepsClientEstablish ==
  ASSUME IInv, TypeOK', NEW c \in Client, ClientEstablish(c)
  PROVE  IInv'
<1>1. PerClient(c)
  BY DEF IInv
<1>2. \A d \in Client : d # c => Untouched(d)
  BY DEF ClientEstablish, SigqueueServer, IInv, TypeOK, Untouched, shmVars, itemVars
<1>3. ~AtKernel(c) /\ ~AtHandler(c)
  <2>1. ASSUME NEW cmd \in Command, Travels(c, cmd) PROVE FALSE
    BY <1>1, <2>1
    DEF ClientEstablish, IInv, TypeOK, PerClient, ClientPart, Travels, Calling, Resting,
        Parked, Opening, Asking, Closing, Command
  <2>2. QED
    BY <2>1 DEF IInv, TypeOK, KernelPart, HandlerPart, AtKernel, AtHandler, Signal, Activation
<1> USE <1>1 DEF ClientEstablish, SigqueueServer, IInv, TypeOK, shmVars, itemVars,
                 PerClient, ClientPart, ThreadPart, SegmentPart, Calling, Unattached,
                 Resting, Parked, Given, Opening, Asking, Closing, InCall
<1>4. PerClient(c)'
  <2>1. ClientPart(c)'
    OBVIOUS
  <2>2. ThreadPart(c)'
    OBVIOUS
  <2>3. SegmentPart(c)'
    OBVIOUS
  <2>4. QED
    BY <2>1, <2>2, <2>3
<1>5. Travels(c, IPC_CMD_COMMUNICATION)'
  BY DEF Travels, IPC_CMD_COMMUNICATION, IPC_CMD_ESTABLISH, IPC_CMD_CLOSE
<1>6. SigqueueServer(c, IPC_CMD_COMMUNICATION) /\ IPC_CMD_COMMUNICATION \in Command /\ activation' = activation
  BY DEF Command
<1>7. QED
  BY <1>2, <1>3, <1>4, <1>5, <1>6, SendStep

-----------------------------------------------------------------------------
(* Steps of the server's signal handler.                                    *)

LEMMA KeepsServerDeliver ==
  ASSUME IInv, TypeOK', ServerDeliver
  PROVE  IInv'
<1>1. PICK s \in serverSig :
        /\ serverSig' = serverSig \ {s}
        /\ activation' = activation \cup
                           {[from |-> s.from, cmd |-> s.cmd, step |-> "lookup"]}
  BY DEF ServerDeliver
<1>2. \A d \in Client : Untouched(d)
  BY DEF ServerDeliver, Untouched, clientVars, shmVars, itemVars
<1>3. \A d \in Client : PerClient(d)'
  BY <1>2, FramePerClient DEF IInv
<1>4. ASSUME NEW d \in Client, NEW cmd, Travels(d, cmd) PROVE Travels(d, cmd)'
  BY <1>2, <1>4, FrameTravels
<1>5. KernelPart'
  BY <1>1, <1>4 DEF IInv, TypeOK, KernelPart, Signal
<1>6. HandlerPart'
  <2>1. ASSUME NEW a \in activation', NEW b \in activation', a.from = b.from
        PROVE  a = b
    BY <1>1, <2>1 DEF IInv, HandlerPart
  <2>2. serverSig' = {}
    BY <1>1 DEF IInv, KernelPart
  <2>3. ASSUME NEW a \in activation'
        PROVE  Travels(a.from, a.cmd)'
    BY <1>1, <1>4 DEF IInv, TypeOK, KernelPart, HandlerPart, Signal, Activation
  <2>4. ASSUME NEW a \in activation', a.step = "new"
        PROVE  a.cmd = IPC_CMD_ESTABLISH /\ thread'[a.from] = "none"
    BY <1>1, <1>2, <2>4 DEF IInv, TypeOK, HandlerPart, Activation, Untouched
  <2>5. QED
    BY <2>1, <2>2, <2>3, <2>4 DEF HandlerPart
<1>7. NoSilentStall'
  <2>1. ASSUME NEW d \in Client PROVE NotStalled(d)'
    <3>1. NotStalled(d)
      BY DEF IInv, NoSilentStall, NotStalled
    <3>2. AtKernel(d) \/ AtHandler(d) => (AtKernel(d) \/ AtHandler(d))'
      <4>1. CASE s.from = d
        <5>1. /\ [from |-> s.from, cmd |-> s.cmd, step |-> "lookup"] \in activation'
              /\ [from |-> s.from, cmd |-> s.cmd, step |-> "lookup"].from = d
          BY <1>1, <4>1
        <5>2. QED
          BY <5>1 DEF AtHandler
      <4>2. CASE s.from # d
        BY <1>1, <4>2 DEF AtKernel, AtHandler
      <4>3. QED
        BY <4>1, <4>2
    <3>3. QED
      BY <1>2, <3>1, <3>2, FrameNotStalled
  <2>2. QED
    BY <2>1 DEF NoSilentStall, NotStalled
<1>8. QED
  BY <1>3, <1>5, <1>6, <1>7 DEF IInv

LEMMA KeepsHandlerLookup ==
  ASSUME IInv, TypeOK', NEW c \in Client, HandlerLookup(c)
  PROVE  IInv'
<1>1. PICK a \in activation :
        /\ a.from = c
        /\ activation' = (activation \ {a}) \cup
             {[a EXCEPT !.step = IF c \in itemDict THEN "known" ELSE "new"]}
  BY DEF HandlerLookup
<1>2. \A d \in Client : Untouched(d)
  BY DEF HandlerLookup, Untouched, clientVars, shmVars, itemVars
<1>3. \A d \in Client : PerClient(d)'
  BY <1>2, FramePerClient DEF IInv
<1>4. ASSUME NEW d \in Client, NEW cmd, Travels(d, cmd) PROVE Travels(d, cmd)'
  BY <1>2, <1>4, FrameTravels
<1>5. serverSig' = serverSig
  BY DEF HandlerLookup
<1>6. KernelPart'
  BY <1>4, <1>5 DEF IInv, TypeOK, KernelPart, Signal
<1>7. PICK b \in activation' :
        /\ b.from = c /\ b.cmd = a.cmd
        /\ b.step = "new" => c \notin itemDict
        /\ activation' = (activation \ {a}) \cup {b}
  BY <1>1 DEF IInv, TypeOK, Activation
<1>8. HandlerPart'
  <2>1. ASSUME NEW x \in activation', NEW y \in activation', x.from = y.from
        PROVE  x = y
    BY <1>1, <1>7, <2>1 DEF IInv, HandlerPart
  <2>2. ASSUME NEW x \in activation', NEW s \in serverSig' PROVE x.from # s.from
    BY <1>1, <1>5, <1>7 DEF IInv, HandlerPart
  <2>3. ASSUME NEW x \in activation' PROVE Travels(x.from, x.cmd)'
    BY <1>1, <1>4, <1>7 DEF IInv, TypeOK, HandlerPart, Activation
  <2>4. ASSUME b.step = "new"
        PROVE  b.cmd = IPC_CMD_ESTABLISH /\ thread[c] = "none"
    BY <1>1, <1>7, <2>4
    DEF IInv, TypeOK, HandlerPart, Activation, PerClient, ThreadPart, Travels,
        Parked, Command
  <2>5. ASSUME NEW x \in activation', x.step = "new"
        PROVE  x.cmd = IPC_CMD_ESTABLISH /\ thread'[x.from] = "none"
    BY <1>2, <1>7, <2>4, <2>5 DEF IInv, TypeOK, HandlerPart, Activation, Untouched
  <2>6. QED
    BY <2>1, <2>2, <2>3, <2>5 DEF HandlerPart
<1>9. NoSilentStall'
  <2>1. ASSUME NEW d \in Client PROVE NotStalled(d)'
    <3>1. NotStalled(d)
      BY DEF IInv, NoSilentStall, NotStalled
    <3>2. AtKernel(d) \/ AtHandler(d) => (AtKernel(d) \/ AtHandler(d))'
      BY <1>1, <1>5, <1>7 DEF AtKernel, AtHandler
    <3>3. QED
      BY <1>2, <3>1, <3>2, FrameNotStalled
  <2>2. QED
    BY <2>1 DEF NoSilentStall, NotStalled
<1>10. QED
  BY <1>3, <1>6, <1>8, <1>9 DEF IInv

\* A step that ends the only activation of the handler for c's command.
LEMMA HandledStep ==
  ASSUME IInv, TypeOK', NEW c \in Client, NEW a \in activation, a.from = c,
         \A d \in Client : d # c => Untouched(d),
         serverSig' = serverSig, activation' = activation \ {a},
         PerClient(c)', NotStalled(c)'
  PROVE  IInv'
<1>1. \A d \in Client : PerClient(d)'
  BY FramePerClient DEF IInv
<1>2. ASSUME NEW d \in Client, d # c, NEW x, Travels(d, x)
      PROVE  Travels(d, x)'
  BY <1>2, FrameTravels
<1>3. KernelPart'
  BY <1>2 DEF IInv, TypeOK, KernelPart, HandlerPart, Signal
<1>4. HandlerPart'
  <2>1. ASSUME NEW x \in activation'
        PROVE  x \in activation /\ x.from \in Client /\ x.from # c
    BY DEF IInv, TypeOK, Activation, HandlerPart
  <2>2. ASSUME NEW x \in activation' PROVE Travels(x.from, x.cmd)'
    BY <1>2, <2>1 DEF IInv, HandlerPart
  <2>3. ASSUME NEW x \in activation', x.step = "new"
        PROVE  thread'[x.from] = "none"
    BY <2>1, <2>3 DEF IInv, HandlerPart, Untouched
  <2>4. QED
    BY <2>1, <2>2, <2>3 DEF IInv, HandlerPart
<1>5. NoSilentStall'
  <2>1. ASSUME NEW d \in Client, d # c PROVE NotStalled(d)'
    <3>1. NotStalled(d)
      BY DEF IInv, NoSilentStall, NotStalled
    <3>2. AtKernel(d) \/ AtHandler(d) => (AtKernel(d) \/ AtHandler(d))'
      BY <2>1 DEF AtKernel, AtHandler
    <3>3. QED
      BY <2>1, <3>1, <3>2, FrameNotStalled
  <2>2. QED
    BY <2>1 DEF NoSilentStall, NotStalled
<1>6. QED
  BY <1>1, <1>3, <1>4, <1>5 DEF IInv

LEMMA KeepsHandlerNew ==
  ASSUME IInv, TypeOK', NEW c \in Client, HandlerNew(c)
  PROVE  IInv'
<1>1. PICK a \in activation :
        a.from = c /\ a.step = "new" /\ activation' = activation \ {a}
  BY DEF HandlerNew
<1>2. \A d \in Client : d # c => Untouched(d)
  BY DEF HandlerNew, IInv, TypeOK, Untouched, clientVars, shmVars, itemVars
<1>3. Opening(c) /\ thread[c] = "none"
  BY <1>1 DEF IInv, HandlerPart, Travels
<1>4. /\ itemShm'[c] = shmName[c]
      /\ itemLocked'[c] = FALSE /\ currentCmd'[c] = IPC_CMD_ESTABLISH
      /\ thread'[c] = "acquire" /\ c \in itemDict'
      /\ UNCHANGED <<pc, call, canCommunicate, result, shmName, shmBuf, clientSig>>
  BY <1>3 DEF HandlerNew, IInv, TypeOK, Opening, Calling, clientVars, shmVars
<1>5. PerClient(c) /\ TypeOK
  BY DEF IInv
<1> USE DEF PerClient, ClientPart, ThreadPart, SegmentPart, Calling, Unattached,
            Resting, Parked, Given, Opening, Asking, Closing, InCall
<1>6. ClientPart(c)'
  BY <1>3, <1>4, <1>5
<1>7. ThreadPart(c)'
  BY <1>3, <1>4, <1>5 DEF IPC_CMD_COMMUNICATION, IPC_CMD_ESTABLISH, IPC_CMD_CLOSE
<1>8. SegmentPart(c)'
  BY <1>3, <1>4, <1>5
<1>9. NotStalled(c)'
  BY <1>4 DEF NotStalled, InFlight, AtThread
<1>10. serverSig' = serverSig
  BY DEF HandlerNew
<1>11. QED
  BY <1>1, <1>2, <1>6, <1>7, <1>8, <1>9, <1>10, HandledStep

LEMMA KeepsHandlerKnown ==
  ASSUME IInv, TypeOK', NEW c \in Client, HandlerKnown(c)
  PROVE  IInv'
<1>1. PICK a \in activation :
        /\ a.from = c /\ activation' = activation \ {a}
        /\ \/ /\ c \in itemDict
              /\ currentCmd' = [currentCmd EXCEPT ![c] = a.cmd]
              /\ itemLocked' = [itemLocked EXCEPT ![c] = FALSE]
           \/ /\ c \notin itemDict
              /\ UNCHANGED <<currentCmd, itemLocked>>
        /\ lost' = IF c \in itemDict /\ Serving(c) /\ itemLocked[c]
                     THEN lost ELSE [lost EXCEPT ![c] = "absorbed"]
  BY DEF HandlerKnown
<1>2. \A d \in Client : d # c => Untouched(d)
  BY DEF HandlerKnown, IInv, TypeOK, Untouched, clientVars, shmVars
<1>3. Travels(c, a.cmd) /\ a.cmd \in Command
  BY <1>1 DEF IInv, TypeOK, HandlerPart, Activation
<1>4. /\ UNCHANGED <<pc, call, canCommunicate, result, shmName, shmBuf,
                     clientSig, serverSig, itemDict, itemShm, thread>>
  BY DEF HandlerKnown, clientVars, shmVars
<1>5. PerClient(c) /\ TypeOK
  BY DEF IInv
<1>6. \/ /\ Parked(c) /\ lost' = lost
         /\ currentCmd'[c] = a.cmd /\ ~itemLocked'[c]
         /\ a.cmd = IPC_CMD_COMMUNICATION /\ Asking(c)
      \/ /\ Parked(c) /\ lost' = lost
         /\ currentCmd'[c] = a.cmd /\ ~itemLocked'[c]
         /\ a.cmd = IPC_CMD_CLOSE /\ Closing(c)
      \/ Opening(c) /\ Resting(c) /\ lost'[c] = "absorbed"
  BY <1>1, <1>3, <1>5
  DEF TypeOK, Travels, PerClient, ThreadPart, Parked, Resting, Serving, Command
<1> USE DEF PerClient, ClientPart, ThreadPart, SegmentPart, Calling, Unattached,
            Resting, Parked, Given, Opening, Asking, Closing, InCall
<1>7. ClientPart(c)'
  BY <1>4, <1>5, <1>6
<1>8. ThreadPart(c)'
  BY <1>4, <1>5, <1>6 DEF IPC_CMD_COMMUNICATION, IPC_CMD_ESTABLISH, IPC_CMD_CLOSE
<1>9. SegmentPart(c)'
  BY <1>4, <1>5, <1>6
<1>10. NotStalled(c)'
  BY <1>4, <1>6 DEF NotStalled, InFlight, AtThread
<1>11. QED
  BY <1>1, <1>2, <1>4, <1>7, <1>8, <1>9, <1>10, HandledStep

-----------------------------------------------------------------------------
(* The invariant holds in every reachable state.                            *)

LEMMA InitIInv == Init => IInv
<1> SUFFICES ASSUME Init PROVE IInv
  OBVIOUS
<1>1. TypeOK
  BY TypeInit
<1>2. ASSUME NEW c \in Client PROVE PerClient(c)
  <2>1. ClientPart(c)
    BY DEF Init, ClientPart, CallNumber
  <2>2. ThreadPart(c)
    BY DEF Init, ThreadPart, Given
  <2>3. SegmentPart(c)
    BY DEF Init, SegmentPart, Unattached, InCall
  <2>4. QED
    BY <2>1, <2>2, <2>3 DEF PerClient
<1>3. KernelPart /\ HandlerPart /\ NoSilentStall
  BY DEF Init, KernelPart, HandlerPart, NoSilentStall, InCall
<1>4. QED
  BY <1>1, <1>2, <1>3 DEF IInv

LEMMA StepIInv == IInv /\ [Next]_vars => IInv'
<1> SUFFICES ASSUME IInv, [Next]_vars PROVE IInv'
  OBVIOUS
<1>1. TypeOK'
  BY TypeStep DEF IInv
<1>2. CASE UNCHANGED vars
  <2>1. UNCHANGED <<pc, call, canCommunicate, result, shmName, shmBuf, clientSig,
                    serverSig, activation, itemDict, itemShm, itemLocked,
                    currentCmd, thread, lost>>
    BY <1>2 DEF vars, clientVars, shmVars, itemVars
  <2>2. \A d \in Client : Untouched(d)
    BY <2>1 DEF Untouched
  <2>3. \A d \in Client : PerClient(d)'
    BY <2>2, FramePerClient DEF IInv
  <2>4. ASSUME NEW d \in Client, NEW cmd, Travels(d, cmd) PROVE Travels(d, cmd)'
    BY <2>2, <2>4, FrameTravels
  <2>5. KernelPart'
    BY <2>1, <2>4 DEF IInv, TypeOK, KernelPart, Signal
  <2>6. HandlerPart'
    BY <2>1, <2>4 DEF IInv, TypeOK, HandlerPart, Activation
  <2>7. NoSilentStall'
    BY <2>1 DEF IInv, NoSilentStall, InCall, InFlight, AtClient, AtKernel,
                AtHandler, AtThread
  <2>8. QED
    BY <1>1, <2>3, <2>5, <2>6, <2>7 DEF IInv
<1>3. CASE ServerDeliver
  BY <1>1, <1>3, KeepsServerDeliver
<1>4. ASSUME NEW c \in Client, CallBegin(c) \/ ClientMain(c) \/ ClientHandler(c)
      PROVE  IInv'
  BY <1>1, <1>4, KeepsCallBegin, KeepsEstablish, KeepsConnected, KeepsCallReturn,
     KeepsClientCommunication, KeepsClientEstablish
  DEF ClientMain, ClientHandler
<1>5. ASSUME NEW c \in Client, ServerHandler(c)
      PROVE  IInv'
  BY <1>1, <1>5, KeepsHandlerLookup, KeepsHandlerNew, KeepsHandlerKnown
  DEF ServerHandler
<1>6. ASSUME NEW c \in Client, ServerThread(c)
      PROVE  IInv'
  BY <1>1, <1>6, KeepsThreadAcquire, KeepsThreadDispatch, KeepsThreadEstablish,
     KeepsThreadHandle, KeepsThreadReply, KeepsThreadUnlink, KeepsThreadDelete
  DEF ServerThread
<1>7. QED
  BY <1>2, <1>3, <1>4, <1>5, <1>6 DEF Next

\* IInv holds in every state of every behaviour of the protocol.
THEOREM Inductive == Spec => []IInv
  BY InitIInv, StepIInv, PTL DEF Spec

-----------------------------------------------------------------------------
(* What follows from it.                                                    *)

LEMMA OneInFlight == IInv => OneCommandInFlight
<1> SUFFICES ASSUME IInv, NEW c \in Client
             PROVE  /\ AtClient(c)  => ~AtKernel(c) /\ ~AtHandler(c) /\ ~AtThread(c)
                    /\ AtKernel(c)  => ~AtHandler(c) /\ ~AtThread(c)
                    /\ AtHandler(c) => ~AtThread(c)
                    /\ \A a, b \in activation : a.from = c /\ b.from = c => a = b
  BY DEF OneCommandInFlight
<1>1. PerClient(c) /\ TypeOK
  BY DEF IInv
<1>2. AtKernel(c) \/ AtHandler(c) => \E cmd \in Command : Travels(c, cmd)
  BY DEF IInv, TypeOK, Signal, Activation, KernelPart, HandlerPart, AtKernel, AtHandler
<1>3. AtClient(c) =>
        /\ Parked(c) \/ Resting(c)
        /\ \A cmd \in Command : ~Travels(c, cmd)
  <2>1. clientSig[c] # {} =>
          IPC_CMD_ESTABLISH \in clientSig[c] \/ IPC_CMD_COMMUNICATION \in clientSig[c]
    BY <1>1, NoClientSignal
  <2>2. QED
    BY <1>1, <2>1
    DEF PerClient, ClientPart, AtClient, Travels, Opening, Asking, Closing,
        Calling, Parked, Resting, Command
<1>4. \A cmd \in Command : Travels(c, cmd) => Parked(c) \/ Resting(c)
  BY DEF Travels, Command
<1>5. Parked(c) \/ Resting(c) => ~AtThread(c)
  BY DEF Parked, Resting, AtThread
<1>6. AtKernel(c) => ~AtHandler(c)
  BY DEF IInv, HandlerPart, AtKernel, AtHandler
<1>7. \A a, b \in activation : a.from = c /\ b.from = c => a = b
  BY DEF IInv, HandlerPart
<1>8. QED
  BY <1>2, <1>3, <1>4, <1>5, <1>6, <1>7

\* In every state a command of a client is at most at one place: with the
\* client, pending, in the server's handler or at the handler thread.
THEOREM TurnsAreTaken == Spec => []OneCommandInFlight
  BY Inductive, OneInFlight, PTL

\* lock.release() never raises: the server's handler only reaches it when the
\* thread of the command's client holds the lock.
THEOREM ReleaseIsSafe == Spec => []ReleaseFindsLockHeld
<1>1. IInv => ReleaseFindsLockHeld
  BY DEF IInv, TypeOK, PerClient, ThreadPart, HandlerPart, Travels, Parked, Resting,
         Activation, Command, ReleaseFindsLockHeld
<1>2. QED
  BY Inductive, <1>1, PTL

\* The first command the server sees of a client it does not know is always
\* the ESTABLISH of the call that client is making.
THEOREM FirstCommandEstablishes == Spec => []UnknownClientEstablishes
<1>1. IInv => UnknownClientEstablishes
  BY DEF IInv, TypeOK, HandlerPart, Travels, Opening, Calling, Activation,
         UnknownClientEstablishes
<1>2. QED
  BY Inductive, <1>1, PTL

\* Request and answer are in the segment when the other side looks for them.
THEOREM SegmentHoldsWhatIsRead == Spec => [](AnswerBeforeReply /\ RequestBeforeHandle)
<1>1. IInv => AnswerBeforeReply
  BY DEF IInv, PerClient, ClientPart, Calling, InCall, AnswerBeforeReply
<1>2. IInv => RequestBeforeHandle
  BY DEF IInv, PerClient, ThreadPart, SegmentPart, Asking, Calling, Unattached,
         InCall, RequestBeforeHandle
<1>3. QED
  BY Inductive, <1>1, <1>2, PTL

\* A call hangs only if a signal of its client was lost or the device function
\* raised.
THEOREM StallsHaveAReason == Spec => []NoSilentStall
<1>1. IInv => NoSilentStall
  BY DEF IInv
<1>2. QED
  BY Inductive, <1>1, PTL

\* A segment left behind by a call is one the server will remove or one that
\* the request did not fit into.
THEOREM LeftoversHaveOwners == Spec => []LeftoverSegmentHasOwner
<1>1. IInv => LeftoverSegmentHasOwner
  BY DEF IInv, PerClient, ThreadPart, SegmentPart, Unattached, LeftoverSegmentHasOwner
<1>2. QED
  BY Inductive, <1>1, PTL

-----------------------------------------------------------------------------
(* Action properties.                                                       *)

LEMMA StepSegment ==
  ASSUME IInv, [Next]_vars, NEW c \in Client, shmName[c] # 0, shmName'[c] = 0
  PROVE  result[c] \/ call[c] # shmName[c]
<1>1. thread[c] = "unlink"
  <2> USE DEF IInv, TypeOK, clientVars, shmVars, itemVars
  <2>1. ASSUME NEW d \in Client, CallBegin(d)
        PROVE  FALSE
    BY <2>1, MaxCallsAssumption DEF CallBegin
  <2>2. ASSUME NEW d \in Client, ClientMain(d) \/ ClientHandler(d)
        PROVE  FALSE
    BY <2>2 DEF ClientMain, Establish, Connected, CallReturn,
                ClientHandler, ClientCommunication, UserHandler, CloseSession, ClientEstablish
  <2>3. ASSUME NEW d \in Client, ServerHandler(d)
        PROVE  FALSE
    BY <2>3 DEF ServerHandler, HandlerLookup, HandlerNew, HandlerKnown
  <2>4. ASSUME NEW d \in Client, ServerThread(d)
        PROVE  thread[c] = "unlink"
    BY <2>4 DEF ServerThread, ThreadAcquire, ThreadDispatch, ThreadEstablish,
                ThreadHandle, ThreadReply, ThreadUnlink, ThreadDelete
  <2>5. ~ServerDeliver /\ ~UNCHANGED vars
    BY DEF ServerDeliver, vars
  <2>6. QED
    BY <2>1, <2>2, <2>3, <2>4, <2>5 DEF Next
<1>2. PerClient(c) /\ TypeOK
  BY DEF IInv
<1>3. QED
  BY <1>1, <1>2, MaxCallsAssumption
  DEF PerClient, ThreadPart, SegmentPart, Closing, Unattached, InCall, TypeOK

\* The server removes a segment only after its call has its answer, or when
\* the call being made is not the one that created it.
THEOREM SegmentsOutliveCalls == Spec => SegmentOutlivesCall
<1>1. IInv /\ [Next]_vars =>
        [\A c \in Client : shmName[c] # 0 /\ shmName'[c] = 0 =>
                             result[c] \/ call[c] # shmName[c]]_vars
  BY StepSegment
<1>2. QED
  BY Inductive, <1>1, PTL DEF Spec, SegmentOutlivesCall

LEMMA StepDrop ==
  ASSUME IInv, [Next]_vars, NEW c \in Client,
         lost[c] # "dropped", lost'[c] = "dropped"
  PROVE  \E s \in serverSig : s.from # c
<1>0. /\ AtClient(c) => ~AtKernel(c)
      /\ AtThread(c) => clientSig[c] = {}
  BY OneInFlight DEF OneCommandInFlight, AtClient
<1> USE DEF IInv, TypeOK
<1>1. ASSUME NEW d \in Client, NEW cmd, SigqueueServer(d, cmd), AtClient(d)
      PROVE  \E s \in serverSig : s.from # c
  <2>1. d = c /\ serverSig # {}
    BY <1>1 DEF SigqueueServer
  <2>2. QED
    BY <1>0, <1>1, <2>1 DEF AtKernel
<1>2. ASSUME NEW d \in Client, NEW cmd, SigqueueClient(d, cmd), AtThread(d)
      PROVE  FALSE
  BY <1>0, <1>2 DEF SigqueueClient
<1>3. ASSUME NEW d \in Client, CallBegin(d) \/ ClientMain(d) \/ ClientHandler(d)
      PROVE  \E s \in serverSig : s.from # c
  BY <1>1, <1>3
  DEF CallBegin, ClientMain, Establish, Connected, CallReturn, ClientHandler,
      ClientCommunication, UserHandler, CloseSession, ClientEstablish, AtClient
<1>4. ASSUME NEW d \in Client, ServerHandler(d)
      PROVE  FALSE
  BY <1>4 DEF ServerHandler, HandlerLookup, HandlerNew, HandlerKnown
<1>5. ASSUME NEW d \in Client, ServerThread(d)
      PROVE  FALSE
  BY <1>2, <1>5
  DEF ServerThread, ThreadAcquire, ThreadDispatch, ThreadEstablish, ThreadHandle,
      ThreadReply, ThreadUnlink, ThreadDelete, AtThread
<1>6. ~ServerDeliver /\ ~UNCHANGED vars
  BY DEF ServerDeliver, vars
<1>7. QED
  BY <1>3, <1>4, <1>5, <1>6 DEF Next

\* A signal of a client is dropped only when another client's is pending at the
\* server: one client alone never loses a signal.
THEOREM DropsNeedAnotherClient == Spec => DropNeedsAnotherClient
<1>1. IInv /\ [Next]_vars =>
        [\A c \in Client : lost[c] # "dropped" /\ lost'[c] = "dropped" =>
                             \E s \in serverSig : s.from # c]_vars
  BY StepDrop
<1>2. QED
  BY Inductive, <1>1, PTL DEF Spec, DropNeedsAnotherClient

-----------------------------------------------------------------------------
(* The refinement of DeviceCall: the initial state maps to the initial state, *)
(* and each step maps to a step of one call or to no step at all.             *)

\* What the segments say of the calls a client has made: HistoryPart adds to
\* the inductive invariant what became of the calls before the last one.
HistoryPart(c) ==
  /\ \A n \in CallNumber : n < call[c] => shmBuf[c][n] # "request"
  /\ InCall(c) => call[c] # 0 /\ shmBuf[c][call[c]] # "nothing"
  /\ result[c] /\ call[c] # 0 => shmBuf[c][call[c]] = "answer"
  /\ pc[c] = "idle" /\ call[c] # 0 => shmBuf[c][call[c]] = "answer"
  /\ pc[c] = "raised" => call[c] # 0 /\ shmBuf[c][call[c]] = "nothing"

History == \A c \in Client : HistoryPart(c)

HInv == IInv /\ History

\* What HistoryPart and CallState look at.
Unseen(d) ==
  /\ pc'[d] = pc[d] /\ call'[d] = call[d] /\ result'[d] = result[d]
  /\ shmBuf'[d] = shmBuf[d]

LEMMA FrameHistory ==
  ASSUME NEW d \in Client, HistoryPart(d), Unseen(d)
  PROVE  HistoryPart(d)'
BY DEF HistoryPart, Unseen, InCall

-----------------------------------------------------------------------------
(* Every action either leaves the calls of a client as they are or is one of  *)
(* these.                                                                     *)

\* The actions that leave what HistoryPart looks at alone.
Silent(c) ==
  \/ ServerHandler(c)
  \/ \/ ThreadAcquire(c) \/ ThreadDispatch(c) \/ ThreadEstablish(c)
     \/ ThreadReply(c) \/ ThreadUnlink(c) \/ ThreadDelete(c)
  \/ ClientEstablish(c)

LEMMA SilentUnseen ==
  ASSUME NEW c \in Client, Silent(c), NEW d \in Client
  PROVE  Unseen(d)
BY DEF Silent, ServerHandler, HandlerLookup, HandlerNew, HandlerKnown, ThreadAcquire,
       ThreadDispatch, ThreadEstablish, ThreadReply, ThreadUnlink, ThreadDelete,
       ClientEstablish, clientVars, shmVars, Unseen

LEMMA StillUnseen ==
  ASSUME ServerDeliver \/ UNCHANGED vars, NEW d \in Client
  PROVE  Unseen(d)
BY DEF ServerDeliver, vars, clientVars, shmVars, Unseen

LEMMA OthersUnseen ==
  ASSUME IInv, NEW c \in Client, NEW d \in Client, d # c,
         CallBegin(c) \/ ClientMain(c) \/ ClientCommunication(c) \/ ThreadHandle(c)
  PROVE  Unseen(d)
BY DEF IInv, TypeOK, CallBegin, ClientMain, Establish, Connected, CallReturn,
       ClientCommunication, UserHandler, CloseSession, ThreadHandle, clientVars, shmVars, Unseen

\* What CallBegin does to the segment of the call it begins.
LEMMA BeginEffect ==
  ASSUME IInv, NEW c \in Client, CallBegin(c)
  PROVE  /\ pc[c] \in {"idle", "raised"}
         /\ call'[c] = call[c] + 1 /\ call'[c] \in CallNumber
         /\ ~result'[c] /\ thread' = thread
         /\ \A n \in CallNumber : n # call'[c] => shmBuf'[c][n] = shmBuf[c][n]
         /\ shmBuf[c][call'[c]] = "nothing"
         /\ \/ pc'[c] = "created" /\ shmBuf'[c][call'[c]] = "request"
            \/ pc'[c] = "raised" /\ shmBuf'[c][call'[c]] = "nothing"
<1> USE DEF CallBegin, shmVars
<1>1. /\ TypeOK
      /\ \A n \in CallNumber : n > call[c] => shmBuf[c][n] = "nothing"
  BY DEF IInv, PerClient, ClientPart
<1>2. /\ pc[c] \in {"idle", "raised"}
      /\ call'[c] = call[c] + 1 /\ call'[c] \in CallNumber
      /\ ~result'[c] /\ thread' = thread
  BY <1>1, MaxCallsAssumption DEF TypeOK, CallNumber
<1>3. shmBuf[c][call'[c]] = "nothing"
  BY <1>1, <1>2 DEF TypeOK, CallNumber
<1>4. \/ pc'[c] = "created" /\ shmBuf' = [shmBuf EXCEPT ![c][call[c] + 1] = "request"]
      \/ pc'[c] = "raised" /\ shmBuf' = shmBuf
  BY <1>1 DEF TypeOK
<1>5. \/ /\ pc'[c] = "created"
         /\ shmBuf'[c] = [shmBuf[c] EXCEPT ![call'[c]] = "request"]
      \/ pc'[c] = "raised" /\ shmBuf'[c] = shmBuf[c]
  BY <1>1, <1>2, <1>4 DEF TypeOK
<1>6. shmBuf[c] \in [CallNumber -> Content]
  BY <1>1 DEF TypeOK
<1>7. QED
  BY <1>2, <1>3, <1>5, <1>6

\* What ThreadHandle does: the device function ran, or the thread is dead.
LEMMA HandleEffect ==
  ASSUME IInv, NEW c \in Client, ThreadHandle(c)
  PROVE  /\ InCall(c) /\ ~result[c] /\ call[c] \in CallNumber
         /\ shmBuf[c][call[c]] = "request" /\ thread[c] = "handle"
         /\ UNCHANGED <<pc, call, result>>
         /\ \A n \in CallNumber : n # call[c] => shmBuf'[c][n] = shmBuf[c][n]
         /\ \/ thread'[c] # "dead" /\ shmBuf'[c][call[c]] = "answer"
            \/ thread'[c] = "dead" /\ shmBuf'[c][call[c]] = "request"
<1>1. /\ TypeOK /\ thread[c] = "handle" /\ InCall(c) /\ ~result[c]
      /\ call[c] # 0 /\ itemShm[c] = call[c] /\ shmBuf[c][call[c]] = "request"
  BY DEF ThreadHandle, IInv, PerClient, ThreadPart, SegmentPart, Asking, Calling,
         Unattached, InCall
<1>2. call[c] \in CallNumber /\ shmBuf[c] \in [CallNumber -> Content]
  BY <1>1, MaxCallsAssumption DEF TypeOK, CallNumber
<1>3. \/ thread'[c] # "dead" /\ shmBuf' = [shmBuf EXCEPT ![c][itemShm[c]] = "answer"]
      \/ thread'[c] = "dead" /\ shmBuf' = shmBuf
  BY <1>1 DEF ThreadHandle, TypeOK
<1>4. \/ thread'[c] # "dead" /\ shmBuf'[c] = [shmBuf[c] EXCEPT ![call[c]] = "answer"]
      \/ thread'[c] = "dead" /\ shmBuf'[c] = shmBuf[c]
  BY <1>1, <1>3 DEF TypeOK
<1>5. UNCHANGED <<pc, call, result>>
  BY DEF ThreadHandle, clientVars
<1>6. QED
  BY <1>1, <1>2, <1>4, <1>5

-----------------------------------------------------------------------------

LEMMA InitHistory == Init => History
<1> SUFFICES ASSUME Init, NEW c \in Client PROVE HistoryPart(c)
  BY DEF History
<1>1. pc[c] = "idle" /\ call[c] = 0
  BY DEF Init
<1>2. \A n \in CallNumber : ~(n < call[c])
  BY <1>1, MaxCallsAssumption DEF CallNumber
<1>3. QED
  BY <1>1, <1>2 DEF HistoryPart, InCall

LEMMA StepHistory == HInv /\ [Next]_vars => History'
<1> SUFFICES ASSUME HInv, [Next]_vars, NEW d \in Client PROVE HistoryPart(d)'
  BY DEF History
<1> USE DEF HInv, History
<1>1. ASSUME Unseen(d) PROVE HistoryPart(d)'
  BY <1>1, FrameHistory
<1>2. CASE CallBegin(d)
  <2>1. IInv /\ TypeOK /\ HistoryPart(d)
    BY DEF IInv
  <2>2. \A n \in CallNumber : n < call'[d] => shmBuf'[d][n] # "request"
    <3>1. ASSUME NEW n \in CallNumber, n < call'[d]
          PROVE  shmBuf'[d][n] = shmBuf[d][n] /\ n # 0 /\ (n < call[d] \/ n = call[d])
      BY <1>2, <2>1, <3>1, BeginEffect, MaxCallsAssumption DEF TypeOK, CallNumber
    <3>2. pc[d] \in {"idle", "raised"}
      BY <1>2, BeginEffect
    <3>3. ASSUME NEW n \in CallNumber, n # 0, n < call[d] \/ n = call[d]
          PROVE  shmBuf[d][n] # "request"
      BY <2>1, <3>2, <3>3 DEF HistoryPart
    <3>4. QED
      BY <3>1, <3>3
  <2>3. QED
    BY <1>2, <2>1, <2>2, BeginEffect DEF HistoryPart, InCall, CallNumber
<1>3. CASE ClientMain(d)
  BY <1>3 DEF ClientMain, Establish, Connected, CallReturn, HistoryPart, InCall,
              shmVars, IInv, TypeOK
<1>4. CASE ClientCommunication(d)
  <2>1. /\ shmBuf[d][call[d]] = "answer"
        /\ UNCHANGED <<pc, call, shmBuf>>
    BY <1>4 DEF ClientCommunication, UserHandler, CloseSession, IInv, PerClient, ClientPart, Calling, shmVars
  <2>2. QED
    BY <2>1 DEF HistoryPart, InCall
<1>5. CASE ThreadHandle(d)
  BY <1>5, HandleEffect DEF HistoryPart, InCall
<1>6. QED
  <2>1. ASSUME NEW c \in Client, c # d,
               CallBegin(c) \/ ClientMain(c) \/ ClientCommunication(c) \/ ThreadHandle(c)
        PROVE  HistoryPart(d)'
    BY <1>1, <2>1, OthersUnseen
  <2>2. ASSUME NEW c \in Client, Silent(c) PROVE HistoryPart(d)'
    BY <1>1, <2>2, SilentUnseen
  <2>3. ASSUME ServerDeliver \/ UNCHANGED vars PROVE HistoryPart(d)'
    BY <1>1, <2>3, StillUnseen
  <2>4. QED
    BY <1>2, <1>3, <1>4, <1>5, <2>1, <2>2, <2>3
    DEF Next, ClientHandler, ServerThread, Silent

\* The inductive invariant with the history of the calls.
THEOREM HistoryIsKept == Spec => []HInv
<1>1. Init => HInv
  BY InitIInv, InitHistory DEF HInv
<1>2. HInv /\ [Next]_vars => HInv'
  BY StepIInv, StepHistory DEF HInv
<1>3. QED
  BY <1>1, <1>2, PTL DEF Spec

-----------------------------------------------------------------------------
(* The steps of the abstract calls.                                          *)

SameCalls(d) == \A n \in CallNumber : CallState(d, n)' = CallState(d, n)

LEMMA UnseenSame ==
  ASSUME NEW d \in Client, Unseen(d), (thread'[d] = "dead") <=> (thread[d] = "dead")
  PROVE  SameCalls(d)
BY DEF SameCalls, CallState, Unseen, InCall

LEMMA AllSame ==
  ASSUME \A d \in Client : SameCalls(d)
  PROVE  StateOfCalls' = StateOfCalls
BY DEF SameCalls, StateOfCalls

LEMMA OneCallSteps ==
  ASSUME NEW c \in Client, NEW n \in CallNumber, NEW from, NEW to,
         \A d \in Client : d # c => SameCalls(d),
         \A m \in CallNumber : m # n => CallState(c, m)' = CallState(c, m),
         CallState(c, n) = from, CallState(c, n)' = to
  PROVE  Promise!Step(c, n, from, to)
<1>1. StateOfCalls[c][n] = from
  BY DEF StateOfCalls
<1>2. StateOfCalls' = [StateOfCalls EXCEPT ![c][n] = to]
  <2>1. StateOfCalls'[c] = [StateOfCalls[c] EXCEPT ![n] = to]
    BY DEF StateOfCalls
  <2>2. \A d \in Client : d # c => StateOfCalls'[d] = StateOfCalls[d]
    BY DEF StateOfCalls, SameCalls
  <2>3. QED
    BY <2>1, <2>2 DEF StateOfCalls
<1>3. QED
  BY <1>1, <1>2 DEF Promise!Step

\* The thread of a client dies in no action but ThreadHandle.
LEMMA DeathOnlyHandling ==
  ASSUME IInv, NEW c \in Client, NEW d \in Client,
         \/ CallBegin(c) \/ ClientMain(c) \/ ClientCommunication(c) \/ Silent(c)
         \/ c # d /\ ThreadHandle(c)
  PROVE  (thread'[d] = "dead") <=> (thread[d] = "dead")
<1> USE DEF IInv, TypeOK
<1>1. CASE HandlerNew(c)
  BY <1>1 DEF HandlerNew, HandlerPart, itemVars
<1>2. CASE ThreadUnlink(c)
  BY <1>2 DEF ThreadUnlink, PerClient, SegmentPart, Unattached
<1>3. CASE ThreadDispatch(c)
  BY <1>3 DEF ThreadDispatch, Command, IPC_CMD_COMMUNICATION, IPC_CMD_ESTABLISH,
              IPC_CMD_CLOSE
<1>4. CASE ThreadAcquire(c) \/ ThreadEstablish(c) \/ ThreadReply(c) \/ ThreadDelete(c)
  BY <1>4 DEF ThreadAcquire, ThreadEstablish, ThreadReply, ThreadDelete
<1>5. CASE c # d /\ ThreadHandle(c)
  BY <1>5 DEF ThreadHandle
<1>6. CASE \/ CallBegin(c) \/ ClientMain(c) \/ ClientCommunication(c)
           \/ ClientEstablish(c) \/ HandlerLookup(c) \/ HandlerKnown(c)
  BY <1>6 DEF CallBegin, ClientMain, Establish, Connected, CallReturn,
              ClientCommunication, UserHandler, CloseSession, ClientEstablish, HandlerLookup, HandlerKnown
<1>7. QED
  BY <1>1, <1>2, <1>3, <1>4, <1>5, <1>6 DEF Silent, ServerHandler

LEMMA SilentSame ==
  ASSUME IInv,
         \/ ServerDeliver \/ UNCHANGED vars
         \/ \E c \in Client : Silent(c)
  PROVE  StateOfCalls' = StateOfCalls
<1>1. ASSUME NEW d \in Client, ServerDeliver \/ UNCHANGED vars PROVE SameCalls(d)
  <2>1. thread' = thread
    BY <1>1 DEF ServerDeliver, vars
  <2>2. QED
    BY <1>1, <2>1, StillUnseen, UnseenSame
<1>2. ASSUME NEW d \in Client, NEW c \in Client, Silent(c) PROVE SameCalls(d)
  <2>1. (thread'[d] = "dead") <=> (thread[d] = "dead")
    BY <1>2, DeathOnlyHandling
  <2>2. QED
    BY <1>2, <2>1, SilentUnseen, UnseenSame
<1>3. QED
  BY <1>1, <1>2, AllSame

LEMMA OthersSame ==
  ASSUME IInv, NEW c \in Client,
         CallBegin(c) \/ ClientMain(c) \/ ClientCommunication(c) \/ ThreadHandle(c)
  PROVE  \A d \in Client : d # c => SameCalls(d)
<1> SUFFICES ASSUME NEW d \in Client, d # c PROVE SameCalls(d)
  OBVIOUS
<1>1. (thread'[d] = "dead") <=> (thread[d] = "dead")
  BY DeathOnlyHandling
<1>2. QED
  BY <1>1, OthersUnseen, UnseenSame

LEMMA PromiseBegin ==
  ASSUME HInv, NEW c \in Client, CallBegin(c)
  PROVE  Promise!Next
<1>0. PICK n \in CallNumber : n = call'[c]
  BY BeginEffect DEF HInv
<1>1. /\ IInv /\ TypeOK /\ HistoryPart(c) /\ n = call'[c] /\ n = call[c] + 1
      /\ thread[c] # "dead"
  BY <1>0, BeginEffect DEF HInv, History, IInv, PerClient, ThreadPart, InCall
<1>2. \A m \in CallNumber : m < n => CallState(c, m) \in {"answered", "refused"}
  <2>1. ASSUME NEW m \in CallNumber, m < n
        PROVE  m # 0 /\ (m < call[c] \/ m = call[c]) /\ ~(m > call[c])
    BY <1>1, <2>1, MaxCallsAssumption DEF TypeOK, CallNumber
  <2>2. ASSUME NEW m \in CallNumber, m < n
        PROVE  shmBuf[c][m] \in {"answer", "nothing"}
    <3>1. shmBuf[c][m] \in Content
      BY <1>1 DEF TypeOK
    <3>2. shmBuf[c][m] # "request"
      BY <1>1, <2>1, <2>2, BeginEffect DEF HistoryPart
    <3>3. QED
      BY <3>1, <3>2 DEF Content
  <2>3. ~InCall(c)
    BY <1>1, BeginEffect DEF InCall
  <2>4. QED
    BY <2>1, <2>2, <2>3 DEF CallState
<1>3. ASSUME NEW m \in CallNumber, m # n
      PROVE  CallState(c, m)' = CallState(c, m)
  <2>1. shmBuf'[c][m] = shmBuf[c][m]
    BY <1>1, <1>3, BeginEffect
  <2>2. m > n \/ m < n
    BY <1>0, <1>3 DEF CallNumber
  <2>3. CASE m < n
    <3>1. CallState(c, m) \in {"answered", "refused"}
      BY <1>2, <2>3
    <3>2. ~(m > call[c]) /\ ~(m > call'[c]) /\ m < call'[c]
      BY <1>0, <1>1, <2>3, MaxCallsAssumption DEF TypeOK, CallNumber
    <3>3. shmBuf[c][m] \in Content
      BY <1>1 DEF TypeOK
    <3>4. ~InCall(c)
      BY <1>1, BeginEffect DEF InCall
    <3>5. shmBuf[c][m] \in {"answer", "nothing"}
      BY <3>1, <3>2, <3>3 DEF CallState, Content
    <3>6. QED
      BY <2>1, <3>2, <3>4, <3>5 DEF CallState
  <2>4. CASE m > n
    <3>1. m > call[c] /\ m > call'[c]
      BY <1>0, <1>1, <2>4, MaxCallsAssumption DEF TypeOK, CallNumber
    <3>2. QED
      BY <3>1 DEF CallState
  <2>5. QED
    BY <2>2, <2>3, <2>4
<1>4. CallState(c, n) = "none"
  <2>1. n > call[c]
    BY <1>1, MaxCallsAssumption DEF TypeOK
  <2>2. QED
    BY <2>1 DEF CallState
<1>5. CallState(c, n)' = "asked" \/ CallState(c, n)' = "refused"
  <2>1. /\ ~(n > call'[c]) /\ shmBuf'[c][n] \in {"request", "nothing"}
        /\ thread'[c] # "dead"
    BY <1>1, BeginEffect, MaxCallsAssumption DEF CallNumber
  <2>2. QED
    BY <2>1 DEF CallState
<1>6. Promise!Step(c, n, "none", "asked") \/ Promise!Step(c, n, "none", "refused")
  <2>1. \A d \in Client : d # c => SameCalls(d)
    BY <1>1, OthersSame
  <2>2. CASE CallState(c, n)' = "asked"
    BY <1>1, <1>3, <1>4, <2>1, <2>2, OneCallSteps
  <2>3. CASE CallState(c, n)' = "refused"
    BY <1>1, <1>3, <1>4, <2>1, <2>3, OneCallSteps
  <2>4. QED
    BY <1>5, <2>2, <2>3
<1>7. Promise!MayCall(c, n)
  <2>1. StateOfCalls[c][n] = "none"
    BY <1>1, <1>4 DEF StateOfCalls
  <2>2. ASSUME NEW m \in 1 .. n - 1
        PROVE  StateOfCalls[c][m] \in {"answered", "refused"}
    <3>1. m \in CallNumber /\ m < n
      BY <1>1, MaxCallsAssumption DEF CallNumber
    <3>2. QED
      BY <1>2, <3>1 DEF StateOfCalls
  <2>3. QED
    BY <2>1, <2>2 DEF Promise!MayCall
<1>8. QED
  BY <1>1, <1>6, <1>7
  DEF Promise!Next, Promise!Ask, Promise!Refuse, Promise!CallNumber, CallNumber

LEMMA PromiseMain ==
  ASSUME HInv, NEW c \in Client, ClientMain(c)
  PROVE  Promise!Next \/ StateOfCalls' = StateOfCalls
<1>1. IInv /\ TypeOK /\ HistoryPart(c)
  BY DEF HInv, History, IInv
<1>2. (thread'[c] = "dead") <=> (thread[c] = "dead")
  BY <1>1, DeathOnlyHandling
<1>3. /\ UNCHANGED <<call, result, shmBuf>> /\ InCall(c)
      /\ InCall(c)' \/ (result[c] /\ ~InCall(c)')
  BY <1>1 DEF ClientMain, Establish, Connected, CallReturn, shmVars, InCall, TypeOK
<1>4. CASE InCall(c)'
  <2>1. SameCalls(c)
    BY <1>2, <1>3, <1>4 DEF SameCalls, CallState
  <2>2. QED
    BY <1>1, <2>1, OthersSame, AllSame
<1>5. CASE result[c] /\ ~InCall(c)'
  <2>1. PICK n \in CallNumber : n = call[c]
    BY <1>1, <1>3, <1>5, MaxCallsAssumption DEF HistoryPart, TypeOK, CallNumber
  <2>2. shmBuf[c][n] = "answer" /\ n # 0 /\ ~(n > call[c]) /\ ~(n < call[c])
    BY <1>1, <1>3, <1>5, <2>1 DEF HistoryPart, CallNumber
  <2>3. CallState(c, n) = "served" /\ CallState(c, n)' = "answered"
    BY <1>3, <1>5, <2>2 DEF CallState
  <2>4. ASSUME NEW m \in CallNumber, m # n
        PROVE  CallState(c, m)' = CallState(c, m)
    <3>1. m > call[c] \/ m < call[c]
      BY <2>1, <2>4 DEF CallNumber
    <3>2. shmBuf[c][m] \in Content
      BY <1>1 DEF TypeOK
    <3>3. QED
      BY <1>1, <1>3, <3>1, <3>2 DEF CallState, HistoryPart, Content
  <2>5. Promise!Step(c, n, "served", "answered")
    <3>1. \A d \in Client : d # c => SameCalls(d)
      BY <1>1, OthersSame
    <3>2. QED
      BY <2>3, <2>4, <3>1, OneCallSteps
  <2>6. QED
    BY <2>5 DEF Promise!Next, Promise!Answer, Promise!CallNumber, CallNumber
<1>6. QED
  BY <1>3, <1>4, <1>5

LEMMA PromiseCommunication ==
  ASSUME HInv, NEW c \in Client, ClientCommunication(c)
  PROVE  StateOfCalls' = StateOfCalls
<1>1. IInv
  BY DEF HInv
<1>2. (thread'[c] = "dead") <=> (thread[c] = "dead")
  BY <1>1, DeathOnlyHandling
<1>3. UNCHANGED <<pc, call, shmBuf>>
  BY DEF ClientCommunication, UserHandler, CloseSession, shmVars
<1>4. SameCalls(c)
  BY <1>2, <1>3 DEF SameCalls, CallState, InCall
<1>5. QED
  BY <1>1, <1>4, OthersSame, AllSame

LEMMA PromiseHandle ==
  ASSUME HInv, NEW c \in Client, ThreadHandle(c)
  PROVE  Promise!Next
<1>1. IInv /\ TypeOK /\ HistoryPart(c)
  BY DEF HInv, History, IInv
<1>2. PICK n \in CallNumber : n = call[c] /\ n = call'[c]
  BY <1>1, HandleEffect
<1>3. ~(n > call[c]) /\ ~(n > call'[c]) /\ ~(n < call'[c])
  BY <1>2 DEF CallNumber
<1>4. CallState(c, n) = "asked"
  BY <1>1, <1>2, <1>3, HandleEffect DEF CallState
<1>5. CallState(c, n)' = "served" \/ CallState(c, n)' = "broken"
  <2>1. InCall(c)'
    BY <1>1, HandleEffect DEF InCall
  <2>2. QED
    BY <1>1, <1>2, <1>3, <2>1, HandleEffect DEF CallState
<1>6. ASSUME NEW m \in CallNumber, m # n
      PROVE  CallState(c, m)' = CallState(c, m)
  <2>1. m > call[c] \/ (m < call[c] /\ ~(m > call[c]))
    BY <1>2, <1>6 DEF CallNumber
  <2>2. shmBuf'[c][m] = shmBuf[c][m] /\ call' = call /\ pc' = pc
    BY <1>1, <1>2, <1>6, HandleEffect
  <2>3. shmBuf[c][m] \in Content
    BY <1>1 DEF TypeOK
  <2>4. QED
    BY <1>1, <2>1, <2>2, <2>3 DEF CallState, HistoryPart, Content, InCall
<1>7. \/ Promise!Step(c, n, "asked", "served")
      \/ Promise!Step(c, n, "asked", "broken")
  <2>1. \A d \in Client : d # c => SameCalls(d)
    BY <1>1, OthersSame
  <2>2. CASE CallState(c, n)' = "served"
    BY <1>4, <1>6, <2>1, <2>2, OneCallSteps
  <2>3. CASE CallState(c, n)' = "broken"
    BY <1>4, <1>6, <2>1, <2>3, OneCallSteps
  <2>4. QED
    BY <1>5, <2>2, <2>3
<1>8. QED
  BY <1>7 DEF Promise!Next, Promise!Run, Promise!Break, Promise!CallNumber, CallNumber

LEMMA PromiseInit == Init => Promise!Init
<1> SUFFICES ASSUME Init PROVE Promise!Init
  OBVIOUS
<1>1. ASSUME NEW c \in Client, NEW n \in CallNumber PROVE CallState(c, n) = "none"
  <2>1. n > call[c]
    BY DEF Init, CallNumber
  <2>2. QED
    BY <2>1 DEF CallState
<1>2. QED
  BY <1>1 DEF Promise!Init, StateOfCalls, CallNumber, Promise!CallNumber

LEMMA PromiseStep == HInv /\ [Next]_vars => [Promise!Next]_StateOfCalls
<1> SUFFICES ASSUME HInv, [Next]_vars
             PROVE  Promise!Next \/ StateOfCalls' = StateOfCalls
  OBVIOUS
<1>1. CASE ServerDeliver \/ UNCHANGED vars \/ \E c \in Client : Silent(c)
  BY <1>1, SilentSame DEF HInv
<1>2. ASSUME NEW c \in Client,
             CallBegin(c) \/ ClientMain(c) \/ ClientCommunication(c) \/ ThreadHandle(c)
      PROVE  Promise!Next \/ StateOfCalls' = StateOfCalls
  BY <1>2, PromiseBegin, PromiseMain, PromiseCommunication, PromiseHandle
<1>3. QED
  BY <1>1, <1>2 DEF Next, ClientHandler, ServerThread, Silent

\* The protocol implements the abstract device call: each call of each client
\* runs the device function at most once, its answer is what that run wrote,
\* and a refused call runs nothing.
THEOREM ImplementsDeviceCall == Spec => KeepsPromise
<1>1. Spec => Promise!Init /\ [][Promise!Next]_StateOfCalls
  BY HistoryIsKept, PromiseInit, PromiseStep, PTL DEF Spec
<1>2. QED
  BY <1>1 DEF KeepsPromise, Promise!Spec

=============================================================================
