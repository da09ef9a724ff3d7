---------------------------- MODULE HostManager ----------------------------
(***************************************************************************)
(* One fz-host-manager-service process (host_manager_service.py) among the *)
(* hosts of its cluster: the directory of hosts and of their devices that  *)
(* the SDK asks, the update_devices thread that keeps it, the initialize   *)
(* thread, and the HTTP handlers that other hosts call meanwhile.          *)
(*                                                                         *)
(* Hosts have one name and one address each.  The other hosts are the      *)
(* environment: they come and go, load and unload drivers, join and quit.  *)
(***************************************************************************)
EXTENDS Integers

CONSTANTS Other,          \* the names of the other hosts
          Self,           \* HOSTNAME, which the device directory calls "localhost"
          Device,         \* device names
          HeartbeatMax,   \* HEARTBEAT_MAX_TIMEOUT_COUNT
          Nobody          \* no entry in the device directory

ASSUME SelfAssumption == Self \notin Other /\ Nobody \notin Other \cup {Self}
ASSUME HeartbeatAssumption == HeartbeatMax \in Nat

Host == Other \cup {Self}

VARIABLES
  \* The environment: the other hosts that answer, and the list that
  \* get_local_devices would return on each host.
  reachable, localDevices,
  \* The dictionaries of the service (0 in the last one: no entry).
  hosts, devices, heartbeatTimeoutCount,
  \* update_devices_thread: its control point, the hosts of hosts_view still to
  \* be asked, the one being asked, and ret_devices.
  updater, hostsView, hName, retDevices,
  \* initialize_thread: its control point and the hosts_dict it was sent.
  initializer, hostsDict,
  \* History: the hosts that left by a quit notice and have not come back, those
  \* whose quit notice came during the current round, and what each host last
  \* answered.
  departed, quitInRound, answered

envVars  == <<reachable, localDevices>>
dirVars  == <<hosts, devices, heartbeatTimeoutCount>>
updVars  == <<updater, hostsView, hName, retDevices>>
initVars == <<initializer, hostsDict>>
histVars == <<departed, quitInRound, answered>>
vars     == <<envVars, dirVars, updVars, initVars, histVars>>

UpdaterPc     == {"sleep", "next", "await", "timeout", "update", "stuck", "dead"}
InitializerPc == {"start", "update", "done"}

Init ==
  /\ reachable \in SUBSET Other
  /\ localDevices \in [Host -> SUBSET Device]
  /\ hosts = {Self}
  /\ devices = [d \in Device |-> Nobody]
  /\ heartbeatTimeoutCount = [n \in Other |-> 0]
  /\ updater = "sleep" /\ hostsView = {} /\ hName = Self /\ retDevices = {}
  /\ initializer \in {"start", "done"} /\ hostsDict = {}
  /\ departed = {} /\ quitInRound = {} /\ answered = [n \in Host |-> {}]

-----------------------------------------------------------------------------
(* Mutants: actions as a plausible slip in the code would have made them.    *)
(* None is part of Next; each stands in for the action it is named after to  *)
(* show that a property notices.                                             *)

\* The host that is dropped keeps its count.
HandleHeartbeatTimeoutKeepsCount ==
  /\ updater = "timeout"
  /\ LET missed == heartbeatTimeoutCount[hName] + 1 IN
       /\ heartbeatTimeoutCount' = [heartbeatTimeoutCount EXCEPT ![hName] = missed]
       /\ hosts' = IF missed > HeartbeatMax THEN hosts \ {hName} ELSE hosts
       /\ updater' = IF missed > HeartbeatMax /\ hName \notin hosts THEN "dead" ELSE "update"
  /\ UNCHANGED <<envVars, devices, hostsView, hName, retDevices, initVars, histVars>>

\* A "continue" after the timeout: the devices of the host are left alone.
HandleHeartbeatTimeoutContinues ==
  /\ updater = "timeout"
  /\ LET missed == heartbeatTimeoutCount[hName] + 1 IN
       /\ heartbeatTimeoutCount' =
            [heartbeatTimeoutCount EXCEPT ![hName] = IF missed > HeartbeatMax THEN 0 ELSE missed]
       /\ hosts' = IF missed > HeartbeatMax THEN hosts \ {hName} ELSE hosts
       /\ updater' = IF missed > HeartbeatMax /\ hName \notin hosts THEN "dead" ELSE "next"
       /\ hName' = IF updater' = "dead" THEN hName ELSE Self
  /\ UNCHANGED <<envVars, devices, hostsView, retDevices, initVars, histVars>>

\* The count starts again at every timeout.
HandleHeartbeatTimeoutForgetsCount ==
  /\ updater = "timeout"
  /\ heartbeatTimeoutCount' = [heartbeatTimeoutCount EXCEPT ![hName] = 1]
  /\ hosts' = IF HeartbeatMax = 0 THEN hosts \ {hName} ELSE hosts
  /\ updater' = "update"
  /\ UNCHANGED <<envVars, devices, hostsView, hName, retDevices, initVars, histVars>>

\* Devices are entered but never taken out.
UpdateDevicesOnlyAdds ==
  /\ updater = "update"
  /\ updater' = "next"
  /\ devices' = [d \in Device |-> IF d \in retDevices THEN hName ELSE devices[d]]
  /\ hName' = Self /\ retDevices' = {}
  /\ UNCHANGED <<envVars, hosts, heartbeatTimeoutCount, hostsView, initVars, histVars>>

\* "device_name in ret_devices" for "not in": what was entered is taken out.
UpdateDevicesPopsAnswer ==
  /\ updater = "update"
  /\ updater' = "next"
  /\ devices' = [d \in Device |-> IF d \in retDevices THEN Nobody ELSE devices[d]]
  /\ hName' = Self /\ retDevices' = {}
  /\ UNCHANGED <<envVars, hosts, heartbeatTimeoutCount, hostsView, initVars, histVars>>

-----------------------------------------------------------------------------
(* The other hosts.                                                         *)

HostComesOrGoes ==
  \E n \in Other :
    /\ reachable' = IF n \in reachable THEN reachable \ {n} ELSE reachable \cup {n}
    /\ UNCHANGED <<localDevices, dirVars, updVars, initVars, histVars>>

DriverComesOrGoes ==
  \E n \in Host, d \in Device :
    /\ localDevices' = [localDevices EXCEPT ![n] = IF d \in @ THEN @ \ {d} ELSE @ \cup {d}]
    /\ UNCHANGED <<reachable, dirVars, updVars, initVars, histVars>>

-----------------------------------------------------------------------------
(* The HTTP handlers that change the directory.                             *)

\* addNewHost: a host that starts with this one as its existing host.
HandleAddNewHost ==
  \E n \in reachable :
    /\ hosts' = hosts \cup {n}
    /\ departed' = departed \ {n}
    /\ UNCHANGED <<envVars, devices, heartbeatTimeoutCount, updVars, initVars,
                   quitInRound, answered>>

\* quitNotice: the entry with the sender's address goes; nothing else does.
HandleQuitNotice ==
  \E n \in reachable :
    /\ hosts' = hosts \ {n}
    /\ departed' = IF n \in hosts THEN departed \cup {n} ELSE departed
    /\ quitInRound' = IF updater = "sleep" THEN {} ELSE quitInRound \cup {n}
    /\ UNCHANGED <<envVars, devices, heartbeatTimeoutCount, updVars, initVars, answered>>

-----------------------------------------------------------------------------
(* initialize_thread: the existing host adds this one to its hosts and sends  *)
(* them; they are merged when the answer arrives.                             *)

InitializeRequest ==
  /\ initializer = "start"
  /\ \/ \E e \in reachable, known \in SUBSET Other :
          /\ e \in known
          /\ hostsDict' = known
          /\ initializer' = "update"
     \/ \E e \in Other \ reachable :
          /\ initializer' = "done"
          /\ UNCHANGED hostsDict
  /\ UNCHANGED <<envVars, dirVars, updVars, histVars>>

InitializeUpdate ==
  /\ initializer = "update"
  /\ initializer' = "done" /\ hostsDict' = {}
  /\ hosts' = hosts \cup hostsDict
  /\ departed' = departed \ hostsDict
  /\ UNCHANGED <<envVars, devices, heartbeatTimeoutCount, updVars, quitInRound, answered>>

-----------------------------------------------------------------------------
(* update_devices_thread: one round of update_devices_internal, then a sleep. *)

BeginRound ==
  /\ updater = "sleep"
  /\ updater' = "next"
  /\ hostsView' = hosts
  /\ UNCHANGED <<envVars, dirVars, hName, retDevices, initVars, histVars>>

\* The next host of the view: this one, one that can be connected to, or one
\* that cannot, which is a RequestException.
AskHost ==
  /\ updater = "next"
  /\ \E n \in hostsView :
       /\ hName' = n
       /\ hostsView' = hostsView \ {n}
       /\ \/ /\ n = Self
             /\ retDevices' = localDevices[Self]
             /\ answered' = [answered EXCEPT ![Self] = localDevices[Self]]
             /\ updater' = "update"
          \/ /\ n \in reachable
             /\ updater' = "await"
             /\ UNCHANGED <<retDevices, answered>>
          \/ /\ n \in Other \ reachable
             /\ retDevices' = {}
             /\ answered' = [answered EXCEPT ![n] = {}]
             /\ updater' = "timeout"
  /\ UNCHANGED <<envVars, dirVars, initVars, departed, quitInRound>>

\* The connected host answers.
ReceiveAnswer ==
  /\ updater = "await"
  /\ hName \in reachable
  /\ retDevices' = localDevices[hName]
  /\ answered' = [answered EXCEPT ![hName] = localDevices[hName]]
  /\ updater' = "update"
  /\ UNCHANGED <<envVars, dirVars, hostsView, hName, initVars, departed, quitInRound>>

\* It stops before it answers: the connection is reset, a RequestException, or
\* nothing comes any more; the request has no timeout.
LoseAnswer ==
  /\ updater = "await"
  /\ hName \notin reachable
  /\ \/ /\ updater' = "timeout"
        /\ retDevices' = {}
        /\ answered' = [answered EXCEPT ![hName] = {}]
     \/ /\ updater' = "stuck"
        /\ UNCHANGED <<retDevices, answered>>
  /\ UNCHANGED <<envVars, dirVars, hostsView, hName, initVars, departed, quitInRound>>

\* handle_heartbeat_timeout.  hosts.pop raises KeyError when a quit notice has
\* removed the host since the view was taken; the thread has no handler for it.
HandleHeartbeatTimeout ==
  /\ updater = "timeout"
  /\ LET missed == heartbeatTimeoutCount[hName] + 1 IN
       \/ /\ missed <= HeartbeatMax
          /\ heartbeatTimeoutCount' = [heartbeatTimeoutCount EXCEPT ![hName] = missed]
          /\ updater' = "update"
          /\ UNCHANGED hosts
       \/ /\ missed > HeartbeatMax
          /\ hName \in hosts
          /\ hosts' = hosts \ {hName}
          /\ heartbeatTimeoutCount' = [heartbeatTimeoutCount EXCEPT ![hName] = 0]
          /\ updater' = "update"
       \/ /\ missed > HeartbeatMax
          /\ hName \notin hosts
          /\ heartbeatTimeoutCount' = [heartbeatTimeoutCount EXCEPT ![hName] = missed]
          /\ updater' = "dead"
          /\ UNCHANGED hosts
  /\ UNCHANGED <<envVars, devices, hostsView, hName, retDevices, initVars, histVars>>

\* The devices of the answer are entered under the host's name, taking over
\* entries of other hosts, and its entries that are not in the answer go.
UpdateDevices ==
  /\ updater = "update"
  /\ updater' = "next"
  /\ devices' = [d \in Device |->
                   IF d \in retDevices THEN hName
                   ELSE IF devices[d] = hName THEN Nobody
                   ELSE devices[d]]
  /\ hName' = Self /\ retDevices' = {}
  /\ UNCHANGED <<envVars, hosts, heartbeatTimeoutCount, hostsView, initVars, histVars>>

EndRound ==
  /\ updater = "next"
  /\ hostsView = {}
  /\ updater' = "sleep"
  /\ quitInRound' = {}
  /\ UNCHANGED <<envVars, dirVars, hostsView, hName, retDevices, initVars, departed, answered>>

-----------------------------------------------------------------------------

Updater ==
  \/ BeginRound \/ AskHost \/ ReceiveAnswer \/ LoseAnswer
  \/ HandleHeartbeatTimeout \/ UpdateDevices \/ EndRound

Initializer == InitializeRequest \/ InitializeUpdate

Next ==
  \/ HostComesOrGoes \/ DriverComesOrGoes
  \/ HandleAddNewHost \/ HandleQuitNotice
  \/ Initializer \/ Updater

Spec == Init /\ [][Next]_vars

\* The service's own threads run; the other hosts do as they like.
FairSpec == Spec /\ WF_vars(Updater) /\ WF_vars(Initializer)

-----------------------------------------------------------------------------

\* The type invariant of the service.
TypeOK ==
  /\ reachable \subseteq Other
  /\ localDevices \in [Host -> SUBSET Device]
  /\ hosts \subseteq Host
  /\ devices \in [Device -> Host \cup {Nobody}]
  /\ heartbeatTimeoutCount \in [Other -> 0 .. HeartbeatMax + 1]
  /\ updater \in UpdaterPc
  /\ hostsView \subseteq Host
  /\ hName \in Host
  /\ retDevices \subseteq Device
  /\ initializer \in InitializerPc
  /\ hostsDict \subseteq Other
  /\ departed \subseteq Other /\ quitInRound \subseteq Other
  /\ answered \in [Host -> SUBSET Device]

\* The heartbeat thread dies in one way only: the host whose heartbeats it
\* counts out has announced its quit in the middle of the round.
DeathNeedsQuitNotice ==
  /\ updater = "dead" => hName \in quitInRound
  /\ \A n \in Other : heartbeatTimeoutCount[n] > HeartbeatMax => updater = "dead" /\ n = hName

\* A device entry that names a host the directory does not know, so that
\* queryHost answers "Not Found" for it, is always one a quit notice left
\* behind, or one the heartbeat thread is just about to take out.
DanglingEntryNeedsQuitNotice ==
  \A d \in Device :
    devices[d] \in Other /\ devices[d] \notin hosts =>
      \/ devices[d] \in departed
      \/ updater = "update" /\ hName = devices[d] /\ d \notin retDevices

\* An entry says what its host last answered: a device that a host no longer
\* lists, or a host that did not answer, has no entry once it has been asked.
EntryFollowsAnswer ==
  \A d \in Device :
    devices[d] # Nobody /\ d \notin answered[devices[d]] =>
      updater \in {"timeout", "update", "dead"} /\ hName = devices[d]

\* The heartbeat goes on, unless it died or waits for an answer for ever.
HeartbeatStopped == updater \in {"dead", "stuck"}

\* A host that stops answering for good is taken out of the directory.
SilentHostIsDropped ==
  \A n \in Other :
    <>[](n \notin reachable) => []<>(n \notin hosts) \/ <>[]HeartbeatStopped

\* A device that a known host goes on offering gets an entry, again and again
\* even when other hosts offer and withdraw one of the same name.
OfferedDeviceIsListed ==
  \A n \in Host, d \in Device :
    <>[](n \in hosts /\ n \in reachable \cup {Self} /\ d \in localDevices[n])
      => []<>(devices[d] # Nobody) \/ <>[]HeartbeatStopped

=============================================================================
