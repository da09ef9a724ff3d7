------------------------------- MODULE FzIpc -------------------------------
(***************************************************************************)
(* The signal-and-shared-memory call protocol of fz-sdk/fz_ipc.            *)
(*                                                                         *)
(* A client process (ipc_client.py, driven by fz_sdk.py) writes a request  *)
(* into a shared-memory segment named after its pid and then exchanges     *)
(* SIGUSR1 signals, each carrying a small command, with the one server     *)
(* process (ipc_server.py, driven by call_device_service.py).  The server  *)
(* runs its signal handler on whatever thread takes the signal, and one    *)
(* SignalHandlerThread per client, parked on a lock between commands.      *)
(*                                                                         *)
(* SIGUSR1 is a standard signal: the kernel keeps at most one pending      *)
(* instance per process and silently discards any further one.             *)
(***************************************************************************)
EXTENDS Integers

CONSTANTS Client,      \* the pids of the processes that use the SDK
          MaxCalls     \* how many device calls one client process makes

ASSUME MaxCallsAssumption == MaxCalls \in Nat

\* ipc_common.py: the commands a signal carries in sival_int.
IPC_CMD_COMMUNICATION == 0
IPC_CMD_ESTABLISH     == -1
IPC_CMD_CLOSE         == -2

Command == {IPC_CMD_COMMUNICATION, IPC_CMD_ESTABLISH, IPC_CMD_CLOSE}

VARIABLES
  \* The client process.
  pc,               \* where its main thread is
  call,             \* number of the device call it is making, or made last
  canCommunicate,   \* Client.can_communicate
  result,           \* TRUE iff the global `result` of fz_sdk is not None
  \* Shared memory: the call that created the segment with the client's name
  \* (0 if there is none), and what each call's segment holds.
  shmName, shmBuf,
  \* The kernel's pending SIGUSR1 of each client and of the server.
  clientSig, serverSig,
  \* The server process: activations of signal_handler, handler_item_dict with
  \* the fields of its items, and the control point of each handler thread.
  activation, itemDict, itemShm, itemLocked, currentCmd, thread,
  \* History: what became of the client's signals.
  lost

clientVars == <<pc, call, canCommunicate, result>>
shmVars    == <<shmName, shmBuf>>
itemVars   == <<itemDict, itemShm, itemLocked, currentCmd>>
vars       == <<clientVars, shmVars, clientSig, serverSig, activation,
                itemVars, thread, lost>>

CallNumber == 1 .. MaxCalls

ClientPc  == {"idle", "created", "connect", "wait", "raised"}
Content   == {"nothing", "request", "answer"}
ThreadPc  == {"none", "acquire", "dispatch", "establish", "handle", "reply",
              "unlink", "delete", "dead"}
Signal     == [from : Client, cmd : Command]
Activation == [from : Client, cmd : Command, step : {"lookup", "new", "known"}]

\* The client is inside ipc_with_call_device_service.
InCall(c) == pc[c] \in {"created", "connect", "wait"}

\* The handler thread will still act on a command released to it.
Serving(c) == thread[c] \in {"acquire", "dispatch", "establish", "handle", "reply"}

Init ==
  /\ pc = [c \in Client |-> "idle"]
  /\ call = [c \in Client |-> 0]
  /\ canCommunicate = [c \in Client |-> FALSE]
  /\ result = [c \in Client |-> FALSE]
  /\ shmName = [c \in Client |-> 0]
  /\ shmBuf = [c \in Client |-> [n \in CallNumber |-> "nothing"]]
  /\ clientSig = [c \in Client |-> {}]
  /\ serverSig = {}
  /\ activation = {}
  /\ itemDict = {}
  /\ itemShm = [c \in Client |-> 0]
  /\ itemLocked = [c \in Client |-> FALSE]
  /\ currentCmd = [c \in Client |-> IPC_CMD_ESTABLISH]
  /\ thread = [c \in Client |-> "none"]
  /\ lost = [c \in Client |-> "no"]

-----------------------------------------------------------------------------
(* sigqueueWithInt: the kernel discards the signal when one is pending.     *)

SigqueueServer(c, cmd) ==
  /\ serverSig' = IF serverSig = {} THEN {[from |-> c, cmd |-> cmd]} ELSE serverSig
  /\ lost' = IF serverSig = {} THEN lost ELSE [lost EXCEPT ![c] = "dropped"]

SigqueueClient(c, cmd) ==
  /\ clientSig' = [clientSig EXCEPT ![c] = IF @ = {} THEN {cmd} ELSE @]
  /\ lost' = IF clientSig[c] = {} THEN lost ELSE [lost EXCEPT ![c] = "dropped"]

-----------------------------------------------------------------------------
(* Mutants: actions as a plausible slip in the code would have made them.    *)
(* None is part of Next; each stands in for the action it is named after to  *)
(* show that a property notices.                                             *)

\* create=True without the exclusive creation: an existing segment is reused.
CallBeginReusesSegment(c) ==
  /\ pc[c] \in {"idle", "raised"} /\ call[c] < MaxCalls
  /\ pc' = [pc EXCEPT ![c] = "created"]
  /\ call' = [call EXCEPT ![c] = @ + 1]
  /\ canCommunicate' = [canCommunicate EXCEPT ![c] = FALSE]
  /\ result' = [result EXCEPT ![c] = FALSE]
  /\ shmName' = [shmName EXCEPT ![c] = call[c] + 1]
  /\ shmBuf' = [shmBuf EXCEPT ![c][call[c] + 1] = "request"]
  /\ UNCHANGED <<clientSig, serverSig, activation, itemVars, thread, lost>>

\* The caller does not poll result: it returns as soon as the session is up.
CallReturnHasNoLoop(c) ==
  /\ pc[c] = "wait"
  /\ pc' = [pc EXCEPT ![c] = "idle"]
  /\ UNCHANGED <<call, canCommunicate, result, shmVars, clientSig, serverSig,
                 activation, itemVars, thread, lost>>

\* The client takes the answer but does not close the session.
ClientCommunicationKeepsOpen(c) ==
  /\ IPC_CMD_COMMUNICATION \in clientSig[c]
  /\ clientSig' = [clientSig EXCEPT ![c] = {}]
  /\ result' = [result EXCEPT ![c] = TRUE]
  /\ UNCHANGED <<pc, call, canCommunicate, shmVars, serverSig, activation,
                 itemVars, thread, lost>>

\* The loop of the handler thread goes on without holding the lock.
ThreadAcquireForgetsLock(c) ==
  /\ thread[c] = "acquire" /\ ~itemLocked[c]
  /\ thread' = [thread EXCEPT ![c] = "dispatch"]
  /\ UNCHANGED <<clientVars, shmVars, clientSig, serverSig, activation, itemVars, lost>>

\* The reply is sent before the request is served.
ThreadDispatchRepliesFirst(c) ==
  /\ thread[c] = "dispatch"
  /\ thread' = [thread EXCEPT ![c] =
                  CASE currentCmd[c] = IPC_CMD_COMMUNICATION -> "reply"
                    [] currentCmd[c] = IPC_CMD_ESTABLISH     -> "establish"
                    [] currentCmd[c] = IPC_CMD_CLOSE         -> "unlink"]
  /\ UNCHANGED <<clientVars, shmVars, clientSig, serverSig, activation, itemVars, lost>>

\* The thread does not answer ESTABLISH.
ThreadEstablishSilent(c) ==
  /\ thread[c] = "establish"
  /\ thread' = [thread EXCEPT ![c] = "acquire"]
  /\ UNCHANGED <<clientVars, shmVars, clientSig, serverSig, activation, itemVars, lost>>

\* The reply carries the wrong command.
ThreadReplyCloses(c) ==
  /\ thread[c] = "reply"
  /\ thread' = [thread EXCEPT ![c] = "acquire"]
  /\ SigqueueClient(c, IPC_CMD_CLOSE)
  /\ UNCHANGED <<clientVars, shmVars, serverSig, activation, itemVars>>

\* The item is removed without unlinking its segment.
ThreadUnlinkForgets(c) ==
  /\ thread[c] = "unlink"
  /\ thread' = [thread EXCEPT ![c] = "delete"]
  /\ UNCHANGED <<clientVars, shmVars, clientSig, serverSig, activation, itemVars, lost>>

-----------------------------------------------------------------------------
(* The client's main thread.                                                *)

\* A new call: result is reset, a new Client object is made and its handler is
\* installed.  Its segment is created exclusively, so a segment left under the
\* same name makes the constructor raise.  A request longer than the segment
\* makes it raise too, after the segment has been created.
CallBegin(c) ==
  /\ pc[c] \in {"idle", "raised"}
  /\ call[c] < MaxCalls
  /\ call' = [call EXCEPT ![c] = @ + 1]
  /\ canCommunicate' = [canCommunicate EXCEPT ![c] = FALSE]
  /\ result' = [result EXCEPT ![c] = FALSE]
  /\ \/ /\ shmName[c] # 0
        /\ pc' = [pc EXCEPT ![c] = "raised"]
        /\ UNCHANGED shmVars
     \/ /\ shmName[c] = 0
        /\ shmName' = [shmName EXCEPT ![c] = call[c] + 1]
        /\ \/ /\ pc' = [pc EXCEPT ![c] = "created"]
              /\ shmBuf' = [shmBuf EXCEPT ![c][call[c] + 1] = "request"]
           \/ /\ pc' = [pc EXCEPT ![c] = "raised"]
              /\ UNCHANGED shmBuf
  /\ UNCHANGED <<clientSig, serverSig, activation, itemVars, thread, lost>>

\* The constructor sends ESTABLISH and starts polling can_communicate.
Establish(c) ==
  /\ pc[c] = "created"
  /\ pc' = [pc EXCEPT ![c] = "connect"]
  /\ SigqueueServer(c, IPC_CMD_ESTABLISH)
  /\ UNCHANGED <<call, canCommunicate, result, shmVars, clientSig, activation,
                 itemVars, thread>>

\* The constructor returns; the caller starts polling result.
Connected(c) ==
  /\ pc[c] = "connect"
  /\ canCommunicate[c]
  /\ pc' = [pc EXCEPT ![c] = "wait"]
  /\ UNCHANGED <<call, canCommunicate, result, shmVars, clientSig, serverSig,
                 activation, itemVars, thread, lost>>

\* ipc_with_call_device_service returns the result to its caller.
CallReturn(c) ==
  /\ pc[c] = "wait"
  /\ result[c]
  /\ pc' = [pc EXCEPT ![c] = "idle"]
  /\ UNCHANGED <<call, canCommunicate, result, shmVars, clientSig, serverSig,
                 activation, itemVars, thread, lost>>

-----------------------------------------------------------------------------
(* The client's signal handler.  The process has one thread and SIGUSR1 is   *)
(* blocked while the handler runs: nobody sees it half done.                *)

\* user_handler of the SDK: the global result becomes data["value"].
UserHandler(c) ==
  /\ shmBuf[c][call[c]] = "answer"
  /\ result' = [result EXCEPT ![c] = TRUE]

\* Client.close()
CloseSession(c) == SigqueueServer(c, IPC_CMD_CLOSE)

\* COMMUNICATION: user_handler takes the answer out of the segment, and its
\* negative return value closes the session.  A segment without an answer has
\* no "value": the handler raises and nothing else happens.
ClientCommunication(c) ==
  /\ IPC_CMD_COMMUNICATION \in clientSig[c]
  /\ clientSig' = [clientSig EXCEPT ![c] = {}]
  /\ \/ UserHandler(c) /\ CloseSession(c)
     \/ /\ shmBuf[c][call[c]] # "answer"
        /\ UNCHANGED <<result, serverSig, lost>>
  /\ UNCHANGED <<pc, call, canCommunicate, shmVars, activation, itemVars, thread>>

\* ESTABLISH: the session is up; ask the server to serve the request.
ClientEstablish(c) ==
  /\ IPC_CMD_ESTABLISH \in clientSig[c]
  /\ clientSig' = [clientSig EXCEPT ![c] = {}]
  /\ canCommunicate' = [canCommunicate EXCEPT ![c] = TRUE]
  /\ SigqueueServer(c, IPC_CMD_COMMUNICATION)
  /\ UNCHANGED <<pc, call, result, shmVars, activation, itemVars, thread>>

-----------------------------------------------------------------------------
(* The server's signal handler.  Its process has many threads, so a second   *)
(* signal may be handled on another thread while one is being handled.      *)

ServerDeliver ==
  \E s \in serverSig :
    /\ serverSig' = serverSig \ {s}
    /\ activation' = activation \cup
                       {[from |-> s.from, cmd |-> s.cmd, step |-> "lookup"]}
    /\ UNCHANGED <<clientVars, shmVars, clientSig, itemVars, thread, lost>>

\* "if handler_item_name not in self.handler_item_dict"
HandlerLookup(c) ==
  \E a \in activation :
    /\ a.from = c
    /\ a.step = "lookup"
    /\ activation' = (activation \ {a}) \cup
         {[a EXCEPT !.step = IF c \in itemDict THEN "known" ELSE "new"]}
    /\ UNCHANGED <<clientVars, shmVars, clientSig, serverSig, itemVars, thread, lost>>

\* An unknown client: whatever the command was, attach its segment, make the
\* item with a free lock and ESTABLISH as the command, start the thread.
\* Attaching a name that does not exist raises.
HandlerNew(c) ==
  \E a \in activation :
    /\ a.from = c
    /\ a.step = "new"
    /\ activation' = activation \ {a}
    /\ \/ /\ shmName[c] # 0
          /\ itemDict' = itemDict \cup {c}
          /\ itemShm' = [itemShm EXCEPT ![c] = shmName[c]]
          /\ itemLocked' = [itemLocked EXCEPT ![c] = FALSE]
          /\ currentCmd' = [currentCmd EXCEPT ![c] = IPC_CMD_ESTABLISH]
          /\ thread' = [thread EXCEPT ![c] = "acquire"]
          /\ UNCHANGED lost
       \/ /\ shmName[c] = 0
          /\ lost' = [lost EXCEPT ![c] = "absorbed"]
          /\ UNCHANGED <<itemVars, thread>>
    /\ UNCHANGED <<clientVars, shmVars, clientSig, serverSig>>

\* A known client: update_cmd, then lock.release().  An item deleted since the
\* lookup raises KeyError; releasing a free lock raises RuntimeError, and then
\* the command just stored replaces one the thread has not read.
HandlerKnown(c) ==
  \E a \in activation :
    /\ a.from = c
    /\ a.step = "known"
    /\ activation' = activation \ {a}
    /\ \/ /\ c \in itemDict
          /\ currentCmd' = [currentCmd EXCEPT ![c] = a.cmd]
          /\ itemLocked' = [itemLocked EXCEPT ![c] = FALSE]
       \/ /\ c \notin itemDict
          /\ UNCHANGED <<currentCmd, itemLocked>>
    /\ lost' = IF c \in itemDict /\ Serving(c) /\ itemLocked[c]
                 THEN lost ELSE [lost EXCEPT ![c] = "absorbed"]
    /\ UNCHANGED <<clientVars, shmVars, clientSig, serverSig, itemDict, itemShm, thread>>

-----------------------------------------------------------------------------
(* SignalHandlerThread.run of the client's thread.                          *)

ThreadAcquire(c) ==
  /\ thread[c] = "acquire"
  /\ ~itemLocked[c]
  /\ itemLocked' = [itemLocked EXCEPT ![c] = TRUE]
  /\ thread' = [thread EXCEPT ![c] = "dispatch"]
  /\ UNCHANGED <<clientVars, shmVars, clientSig, serverSig, activation,
                 itemDict, itemShm, currentCmd, lost>>

\* "cmd = self.current_cmd" and the branch on it.
ThreadDispatch(c) ==
  /\ thread[c] = "dispatch"
  /\ thread' = [thread EXCEPT ![c] =
                  CASE currentCmd[c] = IPC_CMD_COMMUNICATION -> "handle"
                    [] currentCmd[c] = IPC_CMD_ESTABLISH     -> "establish"
                    [] currentCmd[c] = IPC_CMD_CLOSE         -> "unlink"]
  /\ UNCHANGED <<clientVars, shmVars, clientSig, serverSig, activation, itemVars, lost>>

ThreadEstablish(c) ==
  /\ thread[c] = "establish"
  /\ thread' = [thread EXCEPT ![c] = "acquire"]
  /\ SigqueueClient(c, IPC_CMD_ESTABLISH)
  /\ UNCHANGED <<clientVars, shmVars, serverSig, activation, itemVars>>

\* user_handler reads the request, calls the device function and writes the
\* answer over the request.  It may raise: no function for the device, the
\* device busy, an answer longer than the segment, or no request to decode.
\* Nothing catches that, so the thread ends with its item in place.
ThreadHandle(c) ==
  /\ thread[c] = "handle"
  /\ \/ /\ shmBuf[c][itemShm[c]] = "request"
        /\ shmBuf' = [shmBuf EXCEPT ![c][itemShm[c]] = "answer"]
        /\ thread' = [thread EXCEPT ![c] = "reply"]
     \/ /\ thread' = [thread EXCEPT ![c] = "dead"]
        /\ UNCHANGED shmBuf
  /\ UNCHANGED <<clientVars, shmName, clientSig, serverSig, activation, itemVars, lost>>

ThreadReply(c) ==
  /\ thread[c] = "reply"
  /\ thread' = [thread EXCEPT ![c] = "acquire"]
  /\ SigqueueClient(c, IPC_CMD_COMMUNICATION)
  /\ UNCHANGED <<clientVars, shmVars, serverSig, activation, itemVars>>

\* remove_handler_item, first half: close and unlink.  Unlinking a name that
\* does not exist raises and ends the thread.
ThreadUnlink(c) ==
  /\ thread[c] = "unlink"
  /\ shmName' = [shmName EXCEPT ![c] = 0]
  /\ thread' = [thread EXCEPT ![c] = IF shmName[c] = 0 THEN "dead" ELSE "delete"]
  /\ UNCHANGED <<clientVars, shmBuf, clientSig, serverSig, activation, itemVars, lost>>

\* remove_handler_item, second half: "del self.handler_item_dict[...]".
ThreadDelete(c) ==
  /\ thread[c] = "delete"
  /\ itemDict' = itemDict \ {c}
  /\ thread' = [thread EXCEPT ![c] = "none"]
  /\ UNCHANGED <<clientVars, shmVars, clientSig, serverSig, activation,
                 itemShm, itemLocked, currentCmd, lost>>

-----------------------------------------------------------------------------

ClientMain(c)    == Establish(c) \/ Connected(c) \/ CallReturn(c)
ClientHandler(c) == ClientCommunication(c) \/ ClientEstablish(c)
ServerHandler(c) == HandlerLookup(c) \/ HandlerNew(c) \/ HandlerKnown(c)
ServerThread(c)  == \/ ThreadAcquire(c) \/ ThreadDispatch(c) \/ ThreadEstablish(c)
                    \/ ThreadHandle(c) \/ ThreadReply(c)
                    \/ ThreadUnlink(c) \/ ThreadDelete(c)

Next ==
  \/ ServerDeliver
  \/ \E c \in Client : \/ CallBegin(c) \/ ClientMain(c) \/ ClientHandler(c)
                       \/ ServerHandler(c) \/ ServerThread(c)

Spec == Init /\ [][Next]_vars

-----------------------------------------------------------------------------
(* Fairness: the kernel delivers a pending signal, running threads make       *)
(* progress, and both polling loops look again.  Nobody has to make a call.  *)

Fairness ==
  /\ WF_vars(ServerDeliver)
  /\ \A c \in Client : /\ WF_vars(ClientMain(c))
                       /\ WF_vars(ClientHandler(c))
                       /\ WF_vars(ServerHandler(c))
                       /\ WF_vars(ServerThread(c))

FairSpec == Spec /\ Fairness

-----------------------------------------------------------------------------

\* The type invariant of the whole call protocol.
TypeOK ==
  /\ pc \in [Client -> ClientPc]
  /\ call \in [Client -> 0 .. MaxCalls]
  /\ canCommunicate \in [Client -> BOOLEAN]
  /\ result \in [Client -> BOOLEAN]
  /\ shmName \in [Client -> 0 .. MaxCalls]
  /\ shmBuf \in [Client -> [CallNumber -> Content]]
  /\ clientSig \in [Client -> SUBSET {IPC_CMD_COMMUNICATION, IPC_CMD_ESTABLISH}]
  /\ serverSig \in SUBSET Signal
  /\ activation \in SUBSET Activation
  /\ itemDict \in SUBSET Client
  /\ itemShm \in [Client -> 0 .. MaxCalls]
  /\ itemLocked \in [Client -> BOOLEAN]
  /\ currentCmd \in [Client -> Command]
  /\ thread \in [Client -> ThreadPc]
  /\ lost \in [Client -> {"no", "dropped", "absorbed"}]

\* Where a command of client c can be: with the client, pending at the server,
\* in its signal handler, or being acted on by the handler thread.
AtClient(c)  == pc[c] = "created" \/ clientSig[c] # {}
AtKernel(c)  == \E s \in serverSig : s.from = c
AtHandler(c) == \E a \in activation : a.from = c
AtThread(c)  == \/ thread[c] \in {"dispatch", "establish", "handle", "reply"}
                \/ thread[c] = "acquire" /\ ~itemLocked[c]
InFlight(c)  == AtClient(c) \/ AtKernel(c) \/ AtHandler(c) \/ AtThread(c)

\* The two sides of a session strictly take turns: a client never has commands
\* in two places, although nothing but the order of the sends ensures it.
OneCommandInFlight ==
  \A c \in Client :
    /\ AtClient(c)  => ~AtKernel(c) /\ ~AtHandler(c) /\ ~AtThread(c)
    /\ AtKernel(c)  => ~AtHandler(c) /\ ~AtThread(c)
    /\ AtHandler(c) => ~AtThread(c)
    /\ \A a, b \in activation : a.from = c /\ b.from = c => a = b

\* lock.release() in the server's handler never meets a free lock, so it never
\* raises and update_cmd never replaces a command the thread has not read.
ReleaseFindsLockHeld ==
  \A a \in activation :
    a.step = "known" /\ a.from \in itemDict => itemLocked[a.from]

\* The server takes the first signal of an unknown pid for ESTABLISH without
\* looking.  It is right: that signal is the ESTABLISH of a call in progress,
\* and the segment under the client's name is the one that call created.
UnknownClientEstablishes ==
  \A a \in activation :
    a.step = "new" => /\ a.cmd = IPC_CMD_ESTABLISH
                      /\ pc[a.from] = "connect"
                      /\ shmName[a.from] = call[a.from]

\* When the client's handler reads the segment, the answer to the call being
\* made is in it and no answer has been taken before.
AnswerBeforeReply ==
  \A c \in Client :
    IPC_CMD_COMMUNICATION \in clientSig[c] =>
      /\ InCall(c) /\ ~result[c]
      /\ shmBuf[c][call[c]] = "answer"

\* When the server runs the device function, the segment it has attached is
\* the one of the call being made and holds the request, not an older answer.
RequestBeforeHandle ==
  \A c \in Client :
    thread[c] = "handle" =>
      /\ InCall(c) /\ itemShm[c] = call[c]
      /\ shmBuf[c][itemShm[c]] = "request"

\* A call never hangs without a reason: if it has no result and none of its
\* commands is under way, one of the client's signals was lost or the device
\* function raised on the handler thread.
NoSilentStall ==
  \A c \in Client :
    InCall(c) /\ ~result[c] /\ ~InFlight(c) =>
      lost[c] # "no" \/ thread[c] = "dead"

\* A segment that outlives its call (and makes the next call raise) is one the
\* server still has to remove, or one whose request did not fit into it.
LeftoverSegmentHasOwner ==
  \A c \in Client :
    shmName[c] # 0 /\ ~InCall(c) =>
      \/ c \in itemDict /\ itemShm[c] = shmName[c]
      \/ shmBuf[c][shmName[c]] = "nothing"

\* The server removes a segment only after the client has taken the answer out
\* of it; it never removes the segment of a later call under the same name.
SegmentOutlivesCall ==
  [][\A c \in Client :
       shmName[c] # 0 /\ shmName'[c] = 0 =>
         result[c] \/ call[c] # shmName[c]]_vars

\* A signal is dropped only because another client's is pending at the server.
DropNeedsAnotherClient ==
  [][\A c \in Client :
       lost[c] # "dropped" /\ lost'[c] = "dropped" =>
         \E s \in serverSig : s.from # c]_vars

\* A call that is made ends, or a signal of the client was lost, or the device
\* function raised: the protocol has no other way to hang.
CallEndsUnlessLost ==
  \A c \in Client :
    InCall(c) ~> (~InCall(c) \/ lost[c] # "no" \/ thread[c] = "dead")

\* After a call has been answered the server forgets the client, and the
\* segment of that call is removed, unless a signal of the client was lost.
AnsweredCallIsCleanedUp ==
  \A c \in Client, n \in CallNumber :
    (result[c] /\ call[c] = n) ~>
      \/ shmName[c] # n /\ (c \notin itemDict \/ itemShm[c] # n)
      \/ lost[c] # "no"

-----------------------------------------------------------------------------
(* What the protocol promises its callers is DeviceCall: see that module.    *)

\* What a caller knows of call n of client c.
CallState(c, n) ==
  IF n > call[c] THEN "none"
  ELSE CASE shmBuf[c][n] = "nothing" -> "refused"
         [] shmBuf[c][n] = "request" -> IF thread[c] = "dead" THEN "broken" ELSE "asked"
         [] shmBuf[c][n] = "answer"  ->
              IF n < call[c] \/ ~InCall(c) THEN "answered" ELSE "served"

StateOfCalls == [c \in Client |-> [n \in CallNumber |-> CallState(c, n)]]

Promise == INSTANCE DeviceCall WITH state <- StateOfCalls

\* Every behaviour of the protocol is one the abstract device call allows.
KeepsPromise == Promise!Spec

=============================================================================
