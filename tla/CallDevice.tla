----------------------------- MODULE CallDevice -----------------------------
(***************************************************************************)
(* Calls of generic devices, from fz_call_device of a program on the host  *)
(* Here to the device function that reads the file: the host manager of    *)
(* Here resolves the name from what the hosts last told it, then the call  *)
(* device service of the host it names is asked, over IPC or over HTTP.    *)
(*                                                                         *)
(* HostManager has the directory in detail, FzIpc the IPC, of which there  *)
(* are here the segments and sessions that a call leaves behind it and the *)
(* ways in which a call is refused or never answered; ProcessMigration has *)
(* the special devices.                                                    *)
(***************************************************************************)
EXTENDS LocalDevices

CONSTANTS Client, Name,
          Host, Here, NoHost,
          Config,          \* config.py of each host
          File,            \* the drivers each host may load
          CALL_FUNCTIONS,  \* the file that is opened for each device name
          MaxCalls,        \* how many calls a program makes
          MaxEvents        \* how often drivers, services and hosts change

ASSUME HostAssumption  == Here \in Host /\ NoHost \notin Host
ASSUME BoundAssumption == MaxCalls \in Nat /\ MaxEvents \in Nat
ASSUME NameAssumption  == Name # {} /\ File \in [Host -> SUBSET Name]
ASSUME ConfigAssumption ==
  Config \in [Host -> [extra : Seq(Name), alias : Seq(Name \X Name), ignore : Seq(Name)]]

VARIABLES
  \* /dev of each host, the running call device services, and the device files
  \* these have open.
  dev, service, open,
  \* The directory of the host manager of Here.
  hosts, devices,
  \* fz_call_device: where each call is, its device_name, its target_host_name.
  pc, device, target,
  \* What the last call came to, and how many there were.
  last, calls,
  \* The IPC of Here: the programs whose segment exists, and their sessions.
  segment, session,
  \* History: the calls under way whose device could be called when they began,
  \* with nothing changed since; the changes; the hosts that fell silent.
  clear, events, silent

hostVars == <<dev, service, open>>
dirVars  == <<hosts, devices>>
callVars == <<pc, device, target, last, calls>>
ipcVars  == <<segment, session>>
vars     == <<hostVars, dirVars, callVars, ipcVars, clear, events, silent>>

CallPc == {"program", "queryHost", "post", "ipc", "asked", "reading", "hung"}

\* The item of a program in handler_item_dict: none, one whose thread waits or is
\* dead, one with a CLOSE under way, one whose segment is unlinked.
Session == {"none", "open", "closing", "ending"}

Nothing == <<>>            \* no call has come back
Raised  == <<"raised">>    \* an exception

AnyName == CHOOSE n \in Name : TRUE   \* device_name outside of a call

\* The file the device function of the call opens, and its host.
DeviceFile(c) == <<target[c], CALL_FUNCTIONS[device[c]]>>

\* The device function of name n on host h would succeed.
Callable(n, h) ==
  /\ h \in service /\ n \in DOMAIN CALL_FUNCTIONS
  /\ CALL_FUNCTIONS[n] \in dev[h] /\ <<h, CALL_FUNCTIONS[n]>> \notin open

\* A signal of d to the service may be pending.
Signals(d) == pc[d] = "asked" \/ session[d] = "closing"

OthersSignal(c) == \E d \in Client \ {c} : Signals(d)

\* Nothing is left of an earlier call of c, nor under way from another program.
IpcIsFree(c) == c \notin segment /\ session[c] = "none" /\ ~OthersSignal(c)

\* The clear calls that stay so when c sends signals, to which others may be lost.
ClearAsSignals(c) == [d \in Client |-> clear[d] /\ (d = c \/ pc[d] \notin {"ipc", "asked"})]

Init ==
  /\ dev = [h \in Host |-> File[h]] /\ service = Host /\ open = {}
  /\ hosts = Host /\ devices = [n \in Name |-> NoHost]
  /\ pc = [c \in Client |-> "program"]
  /\ device = [c \in Client |-> AnyName]
  /\ target = [c \in Client |-> NoHost]
  /\ last = [c \in Client |-> Nothing] /\ calls = [c \in Client |-> 0]
  /\ segment = {} /\ session = [c \in Client |-> "none"]
  /\ clear = [c \in Client |-> FALSE] /\ events = 0 /\ silent = {}

-----------------------------------------------------------------------------
(* fz_call_device.                                                           *)

\* The call is over, with a value or an exception, and its variables are gone.
Return(c, r) ==
  /\ pc' = [pc EXCEPT ![c] = "program"] /\ last' = [last EXCEPT ![c] = r]
  /\ device' = [device EXCEPT ![c] = AnyName] /\ target' = [target EXCEPT ![c] = NoHost]

\* The call goes on.
Proceed(c, p) == pc' = [pc EXCEPT ![c] = p] /\ UNCHANGED <<device, target, last>>

\* queryDevice has resolved the name to real; the call goes on with name.
Resolved(c, name, real) ==
  /\ pc[c] = "program" /\ calls[c] < MaxCalls
  /\ device' = [device EXCEPT ![c] = name]
  /\ target' = [target EXCEPT ![c] = devices[real]]
  /\ pc' = [pc EXCEPT ![c] = IF devices[real] = Here THEN "ipc" ELSE "queryHost"]
  /\ clear' = [clear EXCEPT ![c] =
                 /\ devices[real] \in hosts /\ Callable(real, devices[real])
                 /\ devices[real] = Here => IpcIsFree(c)]
  /\ calls' = [calls EXCEPT ![c] = @ + 1]
  /\ last' = [last EXCEPT ![c] = Nothing]
  /\ UNCHANGED <<hostVars, dirVars, ipcVars, events, silent>>

\* Mutant: the alias is resolved, but the name of the caller is passed on.
QueryDeviceKeepsName(c, n) == Resolved(c, n, RealName(Config[Here], n))

\* queryDevice, and the branch on its answer.
QueryDevice(c, n) == Resolved(c, RealName(Config[Here], n), RealName(Config[Here], n))

\* queryHost: the host of no device, or one that has left, is "Not Found", and
\* the post to that address raises.
QueryHost(c) ==
  /\ pc[c] = "queryHost"
  /\ IF target[c] \in hosts THEN Proceed(c, "post") ELSE Return(c, Raised)
  /\ UNCHANGED <<hostVars, dirVars, calls, ipcVars, clear, events, silent>>

\* The segment is created and ESTABLISH sent to the pid of the service.  An older
\* segment of the program makes it raise, and so does a request that is too long
\* for the new one, which stays.
IpcBegin(c) ==
  /\ pc[c] = "ipc"
  /\ \/ c \in segment /\ Return(c, Raised) /\ UNCHANGED <<segment, clear>>
     \/ /\ c \notin segment /\ segment' = segment \cup {c}
        /\ \/ Proceed(c, IF Here \in service THEN "asked" ELSE "hung") /\ clear' = ClearAsSignals(c)
           \/ Return(c, Raised) /\ clear' = [clear EXCEPT ![c] = FALSE]
  /\ UNCHANGED <<hostVars, dirVars, calls, session, events, silent>>

\* A signal of the call is lost, to one of another program that is pending or to
\* the thread of the call before, which is about to end.
IpcLost(c) ==
  /\ pc[c] = "asked" /\ (session[c] = "ending" \/ OthersSignal(c))
  /\ Proceed(c, "hung")
  /\ UNCHANGED <<hostVars, dirVars, calls, ipcVars, clear, events, silent>>

\* The request of c is served, over HTTP or in a new session.
Served(c) ==
  \/ pc[c] = "post" /\ target[c] \notin silent
  \/ pc[c] = "asked" /\ session[c] = "none"

\* The service looks the function up, which opens the file.  A call of the same
\* file that is under way has to fail.
CallFunction(c) ==
  /\ Served(c) /\ Callable(device[c], target[c])
  /\ open' = open \cup {DeviceFile(c)}
  /\ session' = [session EXCEPT ![c] = IF target[c] = Here THEN "open" ELSE @]
  /\ Proceed(c, "reading")
  /\ clear' = [d \in Client |->
                clear[d] /\ (d = c \/ DeviceFile(d) # DeviceFile(c))]
  /\ UNCHANGED <<dev, service, dirVars, calls, segment, events, silent>>

\* Mutant: over HTTP, silence too.
CallFailsSilently(c) ==
  /\ Served(c) /\ ~Callable(device[c], target[c])
  /\ Proceed(c, "hung")
  /\ UNCHANGED <<hostVars, dirVars, calls, ipcVars, clear, events, silent>>

\* No service, no function, no file, or a busy one: over HTTP an error that is
\* no JSON, so that the caller gets an exception; over IPC the thread dies, and
\* there is silence.
CallFails(c) ==
  /\ Served(c) /\ ~Callable(device[c], target[c])
  /\ IF target[c] = Here
       THEN Proceed(c, "hung") /\ session' = [session EXCEPT ![c] = "open"]
       ELSE Return(c, Raised) /\ UNCHANGED session
  /\ UNCHANGED <<hostVars, dirVars, calls, segment, clear, events, silent>>

\* The answer is there, and a local program closes its session.
Answered(c) ==
  /\ Return(c, DeviceFile(c))
  /\ IF target[c] = Here
       THEN /\ session' = [session EXCEPT ![c] = "closing"]
            /\ clear' = [ClearAsSignals(c) EXCEPT ![c] = FALSE]
       ELSE clear' = [clear EXCEPT ![c] = FALSE] /\ UNCHANGED session

\* Mutant: no finally; the file stays open when the read raises.
ReadLeavesOpen(c) ==
  /\ pc[c] = "reading" /\ target[c] \notin silent
  /\ \/ Answered(c) /\ open' = open \ {DeviceFile(c)}
     \/ /\ Return(c, Raised) /\ clear' = [clear EXCEPT ![c] = FALSE]
        /\ UNCHANGED <<open, session>>
  /\ UNCHANGED <<dev, service, dirVars, calls, segment, events, silent>>

\* The file is closed, whether the read succeeds or raises.
Read(c) ==
  /\ pc[c] = "reading" /\ target[c] \notin silent
  /\ open' = open \ {DeviceFile(c)}
  /\ \/ Answered(c)
     \/ /\ clear' = [clear EXCEPT ![c] = FALSE] /\ UNCHANGED session
        /\ IF target[c] = Here THEN Proceed(c, "hung") ELSE Return(c, Raised)
  /\ UNCHANGED <<dev, service, dirVars, calls, segment, events, silent>>

\* The steps of a call but for the device's own.
Call(c) == QueryHost(c) \/ IpcBegin(c) \/ IpcLost(c) \/ CallFunction(c) \/ CallFails(c)

\* The CLOSE of a call that has come back: the handler thread unlinks the segment,
\* unless the signal is lost to another program's.
Unlink(c) ==
  /\ session[c] = "closing"
  /\ \/ segment' = segment \ {c} /\ session' = [session EXCEPT ![c] = "ending"]
     \/ OthersSignal(c) /\ session' = [session EXCEPT ![c] = "open"] /\ UNCHANGED segment
  /\ UNCHANGED <<hostVars, dirVars, callVars, clear, events, silent>>

\* Then it takes the item out of handler_item_dict.
Delete(c) ==
  /\ session[c] = "ending" /\ session' = [session EXCEPT ![c] = "none"]
  /\ UNCHANGED <<hostVars, dirVars, callVars, segment, clear, events, silent>>

-----------------------------------------------------------------------------
(* The host manager of Here.                                                *)

\* One host of a round of the update thread is asked and answers.
Poll(h) ==
  /\ h \in hosts \ silent
  /\ LET listed == ToSet(GetLocalDevices(Config[h], dev[h]))
     IN devices' = [n \in Name |-> IF n \in listed THEN h
                                   ELSE IF devices[n] = h THEN NoHost ELSE devices[n]]
  /\ devices' # devices
  /\ clear' = [c \in Client |-> FALSE]
  /\ UNCHANGED <<hostVars, hosts, callVars, ipcVars, events, silent>>

\* A change of the surroundings, after which calls under way may fail.
Event ==
  /\ events < MaxEvents /\ events' = events + 1
  /\ clear' = [c \in Client |-> FALSE]

\* A host tells of its quit, or joins; it runs on.  (quitNotice, addNewHost)
HostQuitsOrJoins(h) ==
  /\ Event /\ h # Here
  /\ hosts' = (hosts \ {h}) \cup ({h} \ hosts)
  /\ UNCHANGED <<hostVars, devices, callVars, ipcVars, silent>>

-----------------------------------------------------------------------------
(* The operator and the hosts.                                              *)

\* A driver in use cannot be unloaded.
DriverComesOrGoes(h, f) ==
  /\ Event /\ f \in File[h] /\ <<h, f>> \notin open
  /\ dev' = [dev EXCEPT ![h] = (@ \ {f}) \cup ({f} \ @)]
  /\ UNCHANGED <<service, open, dirVars, callVars, ipcVars, silent>>

ServiceStarts(h) ==
  /\ Event /\ h \notin service
  /\ service' = service \cup {h}
  /\ UNCHANGED <<dev, open, dirVars, callVars, ipcVars, silent>>

\* The service stops, but not while a device is read.  Its sessions are gone, and
\* the segments stay, or go with the resource tracker of the process; whoever has
\* asked is not answered.
ServiceStops(h) ==
  /\ Event /\ h \in service /\ \A n \in Name : <<h, n>> \notin open
  /\ service' = service \ {h}
  /\ IF h = Here
       THEN /\ session' = [c \in Client |-> "none"]
            /\ segment' \in {segment, {c \in segment : session[c] = "none"}}
            /\ pc' = [c \in Client |-> IF pc[c] = "asked" THEN "hung" ELSE pc[c]]
       ELSE UNCHANGED <<ipcVars, pc>>
  /\ UNCHANGED <<dev, open, dirVars, device, target, last, calls, silent>>

\* A remote host hangs: no request to it is answered, and none times out.
HostFallsSilent(h) ==
  /\ Event /\ h \notin silent \cup {Here}
  /\ silent' = silent \cup {h}
  /\ UNCHANGED <<hostVars, dirVars, callVars, ipcVars>>

Surroundings ==
  \/ \E h \in Host :
       Poll(h) \/ HostQuitsOrJoins(h) \/ ServiceStarts(h) \/ ServiceStops(h) \/ HostFallsSilent(h)
  \/ \E h \in Host, f \in Name : DriverComesOrGoes(h, f)

Next ==
  \/ \E c \in Client : Call(c) \/ Read(c) \/ Unlink(c) \/ Delete(c)
  \/ \E c \in Client, n \in Name : QueryDevice(c, n)
  \/ Surroundings

Spec == Init /\ [][Next]_vars

\* Programs and services run on.  Nothing says that a device ends a read: that of
\* the dht11 may wait for its start signal for ever.
FairSpec == Spec /\ \A c \in Client : WF_vars(Call(c))

-----------------------------------------------------------------------------

\* The type invariant of hosts, directory and calls.
TypeOK ==
  /\ dev \in [Host -> SUBSET Name] /\ service \subseteq Host
  /\ open \subseteq Host \X Name
  /\ hosts \subseteq Host /\ devices \in [Name -> Host \cup {NoHost}]
  /\ pc \in [Client -> CallPc] /\ device \in [Client -> Name]
  /\ target \in [Client -> Host \cup {NoHost}]
  /\ \A c \in Client : pc[c] \in {"post", "ipc", "asked", "reading"} => target[c] \in Host
  /\ last \in [Client -> {Nothing, Raised} \cup (Host \X Name)]
  /\ calls \in [Client -> 0 .. MaxCalls] /\ events \in 0 .. MaxEvents
  /\ segment \subseteq Client /\ session \in [Client -> Session]
  /\ clear \in [Client -> BOOLEAN] /\ silent \subseteq Host

\* A call, by an alias or by the device's own name, of a device that can be
\* called when the call begins neither raises nor hangs, unless something
\* changes meanwhile on the hosts or in the directory, another program reads the
\* device, or the read itself fails or the request is too long.  A local call
\* moreover has to begin after the session of the program's last one is cleared
\* away, and to be asked while no other program's signals are under way.
ClearCallReturns ==
  \A c \in Client : clear[c] => pc[c] # "hung" /\ last[c] # Raised

\* No failed call leaves a device file open behind it, so that a later one finds
\* it busy for ever; and a file is read by one call at a time.
OpenFileHasOneReader ==
  \A f \in open : \E c \in Client :
    pc[c] = "reading" /\ DeviceFile(c) = f
      /\ \A d \in Client \ {c} : pc[d] = "reading" => DeviceFile(d) # f

\* A call that never ends is a local one, whose failures and losses are silent, or
\* waits for a host that does not answer or for a device that does not.
RemoteCallsEnd ==
  \A c \in Client :
    <>[](pc[c] # "program") =>
      <>[](\/ pc[c] = "hung" /\ target[c] = Here
           \/ target[c] \in silent
           \/ pc[c] = "reading")

=============================================================================
