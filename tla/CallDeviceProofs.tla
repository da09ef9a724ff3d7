-------------------------- MODULE CallDeviceProofs --------------------------
(***************************************************************************)
(* Proofs about CallDevice for every number of programs, hosts, devices    *)
(* and changes of the surroundings, and for every configuration of the     *)
(* hosts.                                                                  *)
(***************************************************************************)
EXTENDS CallDevice, TLAPS

\* The calls that have their device file open.
Readers == {c \in Client : pc[c] = "reading"}

\* The open files are those of the readers, each of one of them.
OpenPart ==
  /\ open = {DeviceFile(c) : c \in Readers}
  /\ \A c, d \in Readers : DeviceFile(c) = DeviceFile(d) => c = d

\* A clear call that has not reached its device yet still can, and finds the IPC
\* free when it is a local one.
StaysClear(c) ==
  clear[c] =>
    /\ pc[c] # "hung" /\ last[c] # Raised
    /\ pc[c] \in {"queryHost", "post", "ipc", "asked"} =>
         target[c] \in hosts /\ Callable(device[c], target[c])
    /\ pc[c] \in {"ipc", "asked"} => session[c] = "none" /\ ~OthersSignal(c)
    /\ pc[c] = "ipc" => c \notin segment

ClearPart == \A c \in Client : StaysClear(c)

\* Only a local call goes over the signal IPC, and hangs.
LocalPart ==
  \A c \in Client :
    /\ pc[c] \in {"ipc", "asked", "hung"} => target[c] = Here
    /\ pc[c] \in {"queryHost", "post"} => target[c] # Here

\* A session has the segment of its program until it ends, and a call that has
\* asked has none, or that of the call before, which is about to be deleted.
SessionPart ==
  \A c \in Client :
    /\ session[c] \in {"open", "closing"} => c \in segment
    /\ pc[c] = "asked" => c \in segment /\ session[c] \in {"none", "ending"}
    /\ pc[c] = "reading" /\ target[c] = Here => session[c] = "open"

IInv == TypeOK /\ OpenPart /\ ClearPart /\ LocalPart /\ SessionPart

-----------------------------------------------------------------------------
(* The names that calls use.                                                 *)

LEMMA RealNameIsName ==
  ASSUME NEW h \in Host, NEW n \in Name
  PROVE  RealName(Config[h], n) \in Name
<1> DEFINE alias == Config[h].alias
<1>1. alias \in Seq(Name \X Name)
  BY ConfigAssumption
<1>2. CASE n \in Aliases(Config[h])
  <2>1. PICK j \in DOMAIN alias : n = alias[j][1]
    BY <1>2 DEF Aliases
  <2>2. alias[j] \in ToSet(alias)
    BY DEF ToSet
  <2>3. (CHOOSE p \in ToSet(alias) : p[1] = n) \in ToSet(alias)
    BY <2>1, <2>2
  <2>4. \A p \in ToSet(alias) : p[2] \in Name
    BY <1>1 DEF ToSet
  <2>5. QED
    BY <1>2, <2>3, <2>4 DEF RealName
<1>3. CASE n \notin Aliases(Config[h])
  BY <1>3 DEF RealName
<1>4. QED
  BY <1>2, <1>3

LEMMA Results ==
  /\ Nothing # Raised
  /\ \A x, y : <<x, y>> # Raised
  BY DEF Nothing, Raised

LEMMA NameOfNoCall == AnyName \in Name
  BY NameAssumption DEF AnyName

-----------------------------------------------------------------------------

LEMMA InitIInv == Init => IInv
<1> SUFFICES ASSUME Init PROVE IInv
  OBVIOUS
<1> USE HostAssumption, BoundAssumption, NameAssumption, NameOfNoCall DEF Init
<1>1. dev \in [Host -> SUBSET Name]
  OBVIOUS
<1>2. device \in [Client -> Name] /\ calls \in [Client -> 0 .. MaxCalls] /\ events \in 0 .. MaxEvents
  OBVIOUS
<1>3. TypeOK
  BY <1>1, <1>2 DEF TypeOK, CallPc, Session
<1>4. OpenPart /\ ClearPart /\ LocalPart /\ SessionPart
  BY DEF OpenPart, Readers, ClearPart, StaysClear, LocalPart, SessionPart
<1>5. QED
  BY <1>3, <1>4 DEF IInv

-----------------------------------------------------------------------------
(* fz_call_device.                                                           *)

\* The files stay as they are when a call goes on that reads no device before or
\* after.
LEMMA OpenStays ==
  ASSUME IInv, NEW c \in Client, UNCHANGED open,
         pc[c] # "reading", pc'[c] # "reading",
         \A d \in Client \ {c} : pc'[d] = pc[d] /\ DeviceFile(d)' = DeviceFile(d)
  PROVE  OpenPart'
<1>1. Readers' = Readers /\ \A d \in Readers : DeviceFile(d)' = DeviceFile(d)
  BY DEF Readers
<1>2. QED
  BY <1>1 DEF IInv, OpenPart

\* Nothing but c and its signals changes for the calls of the other programs: those
\* that are clear stay so.
LEMMA OthersStayClear ==
  ASSUME IInv, NEW c \in Client, UNCHANGED hosts,
         \A d \in Client \ {c} :
           /\ pc'[d] = pc[d] /\ last'[d] = last[d] /\ session'[d] = session[d]
           /\ device'[d] = device[d] /\ target'[d] = target[d]
           /\ d \in segment' => d \in segment
           /\ clear'[d] =>
                /\ clear[d]
                /\ Callable(device[d], target[d]) => Callable(device[d], target[d])'
                /\ pc[d] \in {"ipc", "asked"} /\ Signals(c)' => Signals(c)
  PROVE  \A d \in Client \ {c} : StaysClear(d)'
<1> SUFFICES ASSUME NEW d \in Client \ {c}, clear'[d] PROVE StaysClear(d)'
  BY DEF StaysClear
<1>1. clear[d] /\ StaysClear(d)
  BY DEF IInv, ClearPart
<1>2. \A e \in Client \ {c} : Signals(e)' = Signals(e)
  BY DEF Signals
<1>3. pc[d] \in {"ipc", "asked"} /\ OthersSignal(d)' => OthersSignal(d)
  BY <1>2 DEF OthersSignal
<1>4. QED
  BY <1>1, <1>3 DEF StaysClear

\* The state of c's own call, as it comes back or goes on.
LEMMA Returns ==
  ASSUME TypeOK, NEW c \in Client, NEW x \in {Nothing, Raised} \cup (Host \X Name), Return(c, x)
  PROVE  /\ pc' \in [Client -> CallPc] /\ last' \in [Client -> {Nothing, Raised} \cup (Host \X Name)]
         /\ device' \in [Client -> Name] /\ target' \in [Client -> Host \cup {NoHost}]
         /\ pc'[c] = "program" /\ last'[c] = x
         /\ \A d \in Client \ {c} : /\ pc'[d] = pc[d] /\ last'[d] = last[d]
                                    /\ device'[d] = device[d] /\ target'[d] = target[d]
                                    /\ DeviceFile(d)' = DeviceFile(d)
BY NameOfNoCall DEF TypeOK, CallPc, Return, DeviceFile

LEMMA Proceeds ==
  ASSUME TypeOK, NEW c \in Client, NEW p \in CallPc, Proceed(c, p)
  PROVE  /\ pc' \in [Client -> CallPc] /\ pc'[c] = p
         /\ \A d \in Client \ {c} : pc'[d] = pc[d]
         /\ UNCHANGED <<device, target, last>> /\ \A d \in Client : DeviceFile(d)' = DeviceFile(d)
BY DEF TypeOK, Proceed, DeviceFile

\* Either way, no other call is touched and the types are kept.
Moves(c) ==
  \/ \E p \in CallPc : Proceed(c, p) /\ (p \in {"post", "ipc", "asked", "reading"} => target[c] \in Host)
  \/ \E x \in {Nothing, Raised} \cup (Host \X Name) : Return(c, x)

LEMMA MovesAlone ==
  ASSUME TypeOK, NEW c \in Client, Moves(c)
  PROVE  /\ pc' \in [Client -> CallPc] /\ last' \in [Client -> {Nothing, Raised} \cup (Host \X Name)]
         /\ device' \in [Client -> Name] /\ target' \in [Client -> Host \cup {NoHost}]
         /\ \A d \in Client : pc'[d] \in {"post", "ipc", "asked", "reading"} => target'[d] \in Host
         /\ \A d \in Client \ {c} : /\ pc'[d] = pc[d] /\ last'[d] = last[d]
                                    /\ device'[d] = device[d] /\ target'[d] = target[d]
                                    /\ DeviceFile(d)' = DeviceFile(d)
<1>1. CASE \E p \in CallPc : Proceed(c, p) /\ (p \in {"post", "ipc", "asked", "reading"} => target[c] \in Host)
  BY <1>1, Proceeds DEF TypeOK
<1>2. CASE \E x \in {Nothing, Raised} \cup (Host \X Name) : Return(c, x)
  BY <1>2, Returns DEF TypeOK
<1>3. QED
  BY <1>1, <1>2 DEF Moves

LEMMA Queries ==
  ASSUME IInv, NEW c \in Client, NEW n \in Name, QueryDevice(c, n) PROVE IInv'
<1> DEFINE real == RealName(Config[Here], n)
<1> USE HostAssumption DEF IInv
<1>1. real \in Name
  BY RealNameIsName
<1>2. /\ pc[c] = "program" /\ calls[c] < MaxCalls
      /\ device' = [device EXCEPT ![c] = real]
      /\ target' = [target EXCEPT ![c] = devices[real]]
      /\ pc' = [pc EXCEPT ![c] = IF devices[real] = Here THEN "ipc" ELSE "queryHost"]
      /\ clear' = [clear EXCEPT ![c] =
                     /\ devices[real] \in hosts /\ Callable(real, devices[real])
                     /\ devices[real] = Here => IpcIsFree(c)]
      /\ calls' = [calls EXCEPT ![c] = @ + 1]
      /\ last' = [last EXCEPT ![c] = Nothing]
      /\ UNCHANGED <<hostVars, dirVars, ipcVars, events, silent>>
  BY DEF QueryDevice, Resolved
<1> HIDE DEF real
<1>3. TypeOK'
  <2>1. calls' \in [Client -> 0 .. MaxCalls]
    BY <1>2, BoundAssumption DEF TypeOK
  <2>2. pc' \in [Client -> CallPc] /\ device' \in [Client -> Name] /\ target' \in [Client -> Host \cup {NoHost}]
    BY <1>1, <1>2 DEF TypeOK, CallPc
  <2>3. clear' \in [Client -> BOOLEAN]
    <3>1. (/\ devices[real] \in hosts /\ Callable(real, devices[real])
           /\ devices[real] = Here => IpcIsFree(c)) \in BOOLEAN
      OBVIOUS
    <3> HIDE DEF IInv
    <3>2. clear \in [Client -> BOOLEAN]
      BY DEF IInv, TypeOK
    <3>3. QED
      BY <1>2, <3>1, <3>2
  <2>4. last' \in [Client -> {Nothing, Raised} \cup (Host \X Name)]
    BY <1>2 DEF TypeOK
  <2>5. \A d \in Client : pc'[d] \in {"post", "ipc", "asked", "reading"} => target'[d] \in Host
    BY <1>2 DEF TypeOK
  <2>6. QED
    BY <1>2, <2>1, <2>2, <2>3, <2>4, <2>5 DEF TypeOK, hostVars, dirVars, ipcVars
<1>4. ASSUME NEW d \in Client, d # c
      PROVE  /\ pc'[d] = pc[d] /\ last'[d] = last[d] /\ clear'[d] = clear[d]
             /\ device'[d] = device[d] /\ target'[d] = target[d]
             /\ DeviceFile(d)' = DeviceFile(d)
  BY <1>2, <1>4 DEF TypeOK, DeviceFile
<1>5. OpenPart'
  <2>1. pc'[c] # "reading"
    BY <1>2 DEF TypeOK
  <2>2. QED
    BY <1>2, <1>4, <2>1, OpenStays DEF hostVars
<1>6. ClearPart'
  <2>1. \A m, h : Callable(m, h)' = Callable(m, h)
    BY <1>2 DEF Callable, hostVars
  <2>2. \A d \in Client : Signals(d)' => Signals(d)
    BY <1>2 DEF Signals, TypeOK, ipcVars
  <2>3. \A d \in Client \ {c} : StaysClear(d)'
    BY <1>2, <1>4, <2>1, <2>2, OthersStayClear DEF dirVars, ipcVars
  <2>4. clear'[c] => /\ devices[real] \in hosts /\ Callable(real, devices[real])
                     /\ devices[real] = Here => IpcIsFree(c)
    BY <1>2 DEF TypeOK
  <2>5. /\ pc'[c] = IF devices[real] = Here THEN "ipc" ELSE "queryHost"
        /\ last'[c] = Nothing /\ device'[c] = real /\ target'[c] = devices[real]
    BY <1>2 DEF TypeOK
  <2>6. OthersSignal(c)' => OthersSignal(c)
    BY <2>2 DEF OthersSignal
  <2>7. StaysClear(c)'
    BY <1>2, <2>1, <2>4, <2>5, <2>6, Results DEF StaysClear, IpcIsFree, dirVars, ipcVars
  <2>8. QED
    BY <2>3, <2>7 DEF ClearPart
<1>7. LocalPart' /\ SessionPart'
  BY <1>2 DEF LocalPart, SessionPart, TypeOK, ipcVars
<1>8. QED
  BY <1>3, <1>5, <1>6, <1>7

\* queryHost answers a clear call.
LEMMA AsksHost ==
  ASSUME IInv, NEW c \in Client, QueryHost(c) PROVE IInv'
<1> USE DEF IInv, hostVars, dirVars, ipcVars
<1>1. /\ pc[c] = "queryHost" /\ UNCHANGED <<hostVars, dirVars, calls, ipcVars, clear, events, silent>>
      /\ \/ target[c] \in hosts /\ Proceed(c, "post")
         \/ target[c] \notin hosts /\ Return(c, Raised)
  BY DEF QueryHost
<1>2. Moves(c)
  BY <1>1 DEF Moves, TypeOK, CallPc
<1>3. \/ pc'[c] = "program"
      \/ pc'[c] = "post" /\ UNCHANGED <<device, target, last>> /\ target[c] \in hosts
  BY <1>1, Returns, Proceeds DEF CallPc
<1>4. TypeOK'
  BY <1>1, <1>2, MovesAlone DEF TypeOK
<1>5. OpenPart'
  BY <1>1, <1>2, <1>3, MovesAlone, OpenStays
<1>6. ClearPart'
  <2>1. \A m, h : Callable(m, h)' = Callable(m, h)
    BY <1>1 DEF Callable
  <2>2. \A d \in Client : Signals(d)' => Signals(d)
    BY <1>1, <1>2, <1>3, MovesAlone DEF Signals
  <2>3. \A d \in Client \ {c} : StaysClear(d)'
    BY <1>1, <1>2, <2>1, <2>2, MovesAlone, OthersStayClear
  <2>4. clear[c] => target[c] \in hosts
    BY <1>1 DEF ClearPart, StaysClear
  <2>5. StaysClear(c)'
    BY <1>1, <1>3, <2>1, <2>4, Proceeds DEF StaysClear, ClearPart, Return, CallPc
  <2>6. QED
    BY <2>3, <2>5 DEF ClearPart
<1>7. LocalPart' /\ SessionPart'
  BY <1>1, <1>2, <1>3, MovesAlone DEF LocalPart, SessionPart
<1>8. QED
  BY <1>4, <1>5, <1>6, <1>7

-----------------------------------------------------------------------------
(* The IPC.                                                                  *)

\* No other program's call is clear once c signals, and c's own has a segment to
\* create.
LEMMA Begins ==
  ASSUME IInv, NEW c \in Client, IpcBegin(c) PROVE IInv'
<1> USE DEF IInv, hostVars, dirVars
<1>1. /\ pc[c] = "ipc" /\ UNCHANGED <<hostVars, dirVars, calls, session, events, silent>>
      /\ \/ c \in segment /\ Return(c, Raised) /\ UNCHANGED <<segment, clear>>
         \/ /\ c \notin segment /\ segment' = segment \cup {c} /\ clear' = ClearAsSignals(c)
            /\ \E p \in {"asked", "hung"} : Proceed(c, p) /\ (p = "hung" => Here \notin service)
         \/ /\ c \notin segment /\ segment' = segment \cup {c}
            /\ Return(c, Raised) /\ clear' = [clear EXCEPT ![c] = FALSE]
  BY DEF IpcBegin
<1>2. target[c] = Here /\ (c \notin segment => session[c] \notin {"open", "closing"})
  BY <1>1, HostAssumption DEF LocalPart, SessionPart
<1>3. Moves(c)
  BY <1>1, HostAssumption DEF Moves, CallPc, LocalPart
<1>4. \/ pc'[c] = "program"
      \/ /\ pc'[c] \in {"asked", "hung"} /\ c \notin segment /\ c \in segment'
         /\ UNCHANGED <<device, target, last>>
         /\ clear' = ClearAsSignals(c) /\ (pc'[c] = "hung" => Here \notin service)
  BY <1>1, Returns, Proceeds DEF CallPc
<1>5. clear' \in [Client -> BOOLEAN] /\ segment' \subseteq Client /\ \A d \in Client : clear'[d] => clear[d]
  BY <1>1 DEF TypeOK, ClearAsSignals
<1>6. TypeOK'
  BY <1>1, <1>3, <1>5, MovesAlone DEF TypeOK
<1>7. OpenPart'
  BY <1>1, <1>3, <1>4, MovesAlone, OpenStays
<1>8. ClearPart'
  <2>1. \A m, h : Callable(m, h)' = Callable(m, h)
    BY <1>1 DEF Callable
  <2>2. \A d \in Client \ {c} : d \in segment' => d \in segment
    BY <1>1
  <2>3. ASSUME NEW d \in Client \ {c}, clear'[d], pc[d] \in {"ipc", "asked"}, Signals(c)' PROVE Signals(c)
    BY <1>1, <1>4, <2>3 DEF Signals, ClearAsSignals
  <2>4. \A d \in Client \ {c} : StaysClear(d)'
    BY <1>1, <1>3, <1>5, <2>1, <2>2, <2>3, MovesAlone, OthersStayClear
  <2>5. clear[c] => c \notin segment /\ Here \in service /\ last[c] # Raised /\ session[c] = "none" /\ ~OthersSignal(c)
                    /\ target[c] \in hosts /\ Callable(device[c], target[c])
    BY <1>1 DEF ClearPart, StaysClear, Callable, LocalPart
  <2>6. OthersSignal(c)' => OthersSignal(c)
    BY <1>1, <1>3, MovesAlone DEF OthersSignal, Signals
  <2>7. StaysClear(c)'
    <3>1. CASE pc'[c] = "program"
      <4>1. ~clear'[c]
        BY <1>1, <2>5, <3>1, Proceeds DEF CallPc, TypeOK
      <4>2. QED
        BY <4>1 DEF StaysClear
    <3>2. CASE pc'[c] # "program"
      BY <1>1, <1>4, <1>5, <2>1, <2>5, <2>6, <3>2 DEF StaysClear
    <3>3. QED
      BY <3>1, <3>2
  <2>8. QED
    BY <2>4, <2>7 DEF ClearPart
<1>9. LocalPart'
  BY <1>1, <1>3, <1>4, MovesAlone DEF LocalPart
<1>10. SessionPart'
  <2>1. ASSUME NEW d \in Client, d # c
        PROVE  session'[d] = session[d] /\ (d \in segment' <=> d \in segment)
    BY <1>1, <2>1
  <2>2. pc'[c] = "asked" => session[c] \in {"none", "ending"}
    BY <1>2, <1>4 DEF TypeOK, Session
  <2>3. c \in segment => c \in segment'
    BY <1>1
  <2>4. QED
    BY <1>1, <1>3, <1>4, <2>1, <2>2, <2>3, MovesAlone DEF SessionPart
<1>11. QED
  BY <1>6, <1>7, <1>8, <1>9, <1>10

\* A call that loses a signal was not clear.
LEMMA Loses ==
  ASSUME IInv, NEW c \in Client, IpcLost(c) PROVE IInv'
<1> USE DEF IInv, hostVars, dirVars, ipcVars
<1>1. /\ pc[c] = "asked" /\ (session[c] = "ending" \/ OthersSignal(c)) /\ Proceed(c, "hung")
      /\ UNCHANGED <<hostVars, dirVars, calls, ipcVars, clear, events, silent>>
  BY DEF IpcLost
<1>2. Moves(c) /\ pc'[c] = "hung" /\ target'[c] = Here
  BY <1>1, Proceeds DEF Moves, CallPc, LocalPart
<1>3. TypeOK'
  BY <1>1, <1>2, MovesAlone DEF TypeOK
<1>4. OpenPart'
  BY <1>1, <1>2, MovesAlone, OpenStays
<1>5. ClearPart'
  <2>1. \A m, h : Callable(m, h)' = Callable(m, h)
    BY <1>1 DEF Callable
  <2>2. \A d \in Client \ {c} : StaysClear(d)'
    BY <1>1, <1>2, <2>1, MovesAlone, OthersStayClear DEF Signals
  <2>3. ~clear[c]
    BY <1>1 DEF ClearPart, StaysClear
  <2>4. QED
    BY <1>1, <2>2, <2>3 DEF ClearPart, StaysClear
<1>6. LocalPart' /\ SessionPart'
  BY <1>1, <1>2, MovesAlone DEF LocalPart, SessionPart
<1>7. QED
  BY <1>3, <1>4, <1>5, <1>6

\* A session whose CLOSE is handled or lost is no longer one that signals, and a
\* local call under way has none.
LEMMA Closes ==
  ASSUME IInv, NEW c \in Client, Unlink(c) \/ Delete(c) PROVE IInv'
<1> USE DEF IInv, hostVars, dirVars, callVars
<1>1. /\ session[c] \in {"closing", "ending"} /\ UNCHANGED <<hostVars, dirVars, callVars, clear, events, silent>>
      /\ \/ session' = [session EXCEPT ![c] = "ending"] /\ segment' = segment \ {c} /\ session[c] = "closing"
         \/ session' = [session EXCEPT ![c] = "open"] /\ UNCHANGED segment /\ session[c] = "closing"
         \/ session' = [session EXCEPT ![c] = "none"] /\ UNCHANGED segment /\ session[c] = "ending"
  BY DEF Unlink, Delete
<1>2. TypeOK'
  BY <1>1 DEF TypeOK, Session
<1>3. OpenPart' /\ LocalPart'
  BY <1>1 DEF OpenPart, Readers, DeviceFile, LocalPart
<1>4. ClearPart'
  <2>1. \A d \in Client : Signals(d)' => Signals(d)
    BY <1>1 DEF Signals, TypeOK
  <2>2. \A d \in Client : OthersSignal(d)' => OthersSignal(d)
    BY <2>1 DEF OthersSignal
  <2>3. \A d \in Client : clear[d] /\ pc[d] \in {"ipc", "asked"} => session'[d] = "none"
    BY <1>1 DEF ClearPart, StaysClear, TypeOK
  <2>4. \A m, h : Callable(m, h)' = Callable(m, h)
    BY <1>1 DEF Callable
  <2>5. QED
    BY <1>1, <2>2, <2>3, <2>4 DEF ClearPart, StaysClear
<1>5. SessionPart'
  BY <1>1 DEF SessionPart, TypeOK
<1>6. QED
  BY <1>2, <1>3, <1>4, <1>5

-----------------------------------------------------------------------------
(* The device function.                                                      *)

LEMMA OpensFile ==
  ASSUME IInv, NEW c \in Client, CallFunction(c) PROVE IInv'
<1> USE DEF IInv, dirVars
<1>1. /\ pc[c] \in {"post", "asked"} /\ Callable(device[c], target[c])
      /\ open' = open \cup {DeviceFile(c)} /\ Proceed(c, "reading")
      /\ session' = [session EXCEPT ![c] = IF target[c] = Here THEN "open" ELSE @]
      /\ clear' = [d \in Client |-> clear[d] /\ (d = c \/ DeviceFile(d) # DeviceFile(c))]
      /\ UNCHANGED <<dev, service, dirVars, calls, segment, events, silent>>
  BY DEF CallFunction, Served
<1>2. DeviceFile(c) \in Host \X Name /\ DeviceFile(c) \notin open /\ target[c] \in Host
  BY <1>1 DEF TypeOK, Callable, DeviceFile
<1>3. Moves(c) /\ pc'[c] = "reading" /\ UNCHANGED <<device, target, last>>
  BY <1>1, <1>2, Proceeds DEF Moves, CallPc
<1>4. clear' \in [Client -> BOOLEAN] /\ \A d \in Client : clear'[d] => clear[d] /\ (d = c \/ DeviceFile(d) # DeviceFile(c))
  BY <1>1 DEF TypeOK
<1>5. TypeOK'
  <2>1. session' \in [Client -> Session]
    BY <1>1 DEF TypeOK, Session
  <2>2. QED
    BY <1>1, <1>2, <1>3, <1>4, <2>1, MovesAlone DEF TypeOK
<1>6. OpenPart'
  <2>1. \A d \in Client : DeviceFile(d)' = DeviceFile(d)
    BY <1>3 DEF DeviceFile
  <2>2. Readers' = Readers \cup {c}
    BY <1>3, MovesAlone DEF Readers
  <2>3. \A d \in Readers : DeviceFile(d) # DeviceFile(c)
    BY <1>2 DEF OpenPart
  <2>4. \A d \in Readers' : d \in Client
    BY DEF Readers
  <2>5. open' = {DeviceFile(d)' : d \in Readers'}
    BY <1>1, <2>1, <2>2, <2>4 DEF OpenPart
  <2>6. QED
    BY <2>1, <2>2, <2>3, <2>4, <2>5 DEF OpenPart
<1>7. ClearPart'
  <2>1. \A d \in Client \ {c} : clear'[d] /\ Callable(device[d], target[d]) => Callable(device[d], target[d])'
    BY <1>1, <1>3, <1>4 DEF Callable, DeviceFile
  <2>2. Signals(c)' => Signals(c)
    BY <1>1, <1>3 DEF TypeOK, Signals
  <2>3. \A d \in Client \ {c} : session'[d] = session[d]
    BY <1>1 DEF TypeOK
  <2>4. \A d \in Client \ {c} : StaysClear(d)'
    BY <1>1, <1>3, <1>4, <2>1, <2>2, <2>3, MovesAlone, OthersStayClear
  <2>5. StaysClear(c)'
    BY <1>1, <1>3, <1>4 DEF ClearPart, StaysClear
  <2>6. QED
    BY <2>4, <2>5 DEF ClearPart
<1>8. LocalPart'
  BY <1>3, MovesAlone DEF LocalPart
<1>9. SessionPart'
  <2>1. target[c] = Here => c \in segment
    BY <1>1 DEF SessionPart, LocalPart
  <2>2. QED
    BY <1>1, <1>3, <2>1, MovesAlone DEF SessionPart, TypeOK
<1>10. QED
  BY <1>5, <1>6, <1>7, <1>8, <1>9

\* A call that fails was not clear.
LEMMA Fails ==
  ASSUME IInv, NEW c \in Client, CallFails(c) PROVE IInv'
<1> USE DEF IInv, hostVars, dirVars
<1>1. /\ pc[c] \in {"post", "asked"} /\ ~Callable(device[c], target[c])
      /\ \/ target[c] = Here /\ Proceed(c, "hung") /\ session' = [session EXCEPT ![c] = "open"]
         \/ target[c] # Here /\ Return(c, Raised) /\ UNCHANGED session
      /\ UNCHANGED <<hostVars, dirVars, calls, segment, clear, events, silent>>
  BY DEF CallFails, Served
<1>2. Moves(c) /\ ~clear[c]
  BY <1>1 DEF Moves, CallPc, ClearPart, StaysClear
<1>3. \/ pc'[c] = "program" /\ UNCHANGED session
      \/ pc'[c] = "hung" /\ target'[c] = Here /\ session' = [session EXCEPT ![c] = "open"] /\ c \in segment
  <2>1. target[c] = Here => pc[c] = "asked" /\ c \in segment
    BY <1>1 DEF LocalPart, SessionPart
  <2>2. QED
    BY <1>1, <2>1, Returns, Proceeds DEF CallPc
<1>4. TypeOK'
  <2>1. session' \in [Client -> Session]
    BY <1>3 DEF TypeOK, Session
  <2>2. QED
    BY <1>1, <1>2, <2>1, MovesAlone DEF TypeOK
<1>5. OpenPart'
  BY <1>1, <1>2, <1>3, MovesAlone, OpenStays
<1>6. ClearPart'
  <2>1. \A m, h : Callable(m, h)' = Callable(m, h)
    BY <1>1 DEF Callable
  <2>2. Signals(c)' => Signals(c)
    BY <1>1, <1>3 DEF Signals, TypeOK
  <2>3. \A d \in Client \ {c} : session'[d] = session[d]
    BY <1>3 DEF TypeOK
  <2>4. \A d \in Client \ {c} : StaysClear(d)'
    BY <1>1, <1>2, <2>1, <2>2, <2>3, MovesAlone, OthersStayClear
  <2>5. QED
    BY <1>1, <1>2, <2>4 DEF ClearPart, StaysClear
<1>7. LocalPart' /\ SessionPart'
  BY <1>1, <1>2, <1>3, MovesAlone DEF LocalPart, SessionPart, TypeOK
<1>8. QED
  BY <1>4, <1>5, <1>6, <1>7

\* The CLOSE of a local call that has read its device can cost others a signal,
\* none of which is clear any more.
LEMMA ReadsFile ==
  ASSUME IInv, NEW c \in Client, Read(c) PROVE IInv'
<1> USE DEF IInv, dirVars
<1>1. /\ pc[c] = "reading" /\ open' = open \ {DeviceFile(c)}
      /\ UNCHANGED <<dev, service, dirVars, calls, segment, events, silent>>
      /\ \/ /\ target[c] = Here /\ Return(c, DeviceFile(c))
            /\ session' = [session EXCEPT ![c] = "closing"]
            /\ clear' = [ClearAsSignals(c) EXCEPT ![c] = FALSE]
         \/ /\ target[c] # Here /\ Return(c, DeviceFile(c))
            /\ UNCHANGED session /\ clear' = [clear EXCEPT ![c] = FALSE]
         \/ /\ target[c] = Here /\ Proceed(c, "hung")
            /\ UNCHANGED session /\ clear' = [clear EXCEPT ![c] = FALSE]
         \/ /\ target[c] # Here /\ Return(c, Raised)
            /\ UNCHANGED session /\ clear' = [clear EXCEPT ![c] = FALSE]
  BY DEF Read, Answered
<1>2. DeviceFile(c) \in open /\ DeviceFile(c) \in Host \X Name
  BY <1>1 DEF OpenPart, Readers, TypeOK
<1>3. Moves(c)
  BY <1>1, <1>2 DEF Moves, CallPc
<1>4. \/ pc'[c] = "program"
      \/ pc'[c] = "hung" /\ target'[c] = Here /\ UNCHANGED session
  BY <1>1, <1>2, Returns, Proceeds DEF CallPc
<1>5. /\ clear' \in [Client -> BOOLEAN] /\ ~clear'[c]
      /\ \A d \in Client : clear'[d] => clear[d]
  BY <1>1 DEF TypeOK, ClearAsSignals
<1>6. session' \in [Client -> Session] /\ \A d \in Client \ {c} : session'[d] = session[d]
  BY <1>1 DEF TypeOK, Session
<1>7. TypeOK'
  BY <1>1, <1>3, <1>5, <1>6, MovesAlone DEF TypeOK
<1>8. OpenPart'
  <2>1. Readers' = Readers \ {c} /\ c \in Readers
    BY <1>1, <1>3, <1>4, MovesAlone DEF Readers
  <2>2. \A d \in Client \ {c} : DeviceFile(d)' = DeviceFile(d)
    BY <1>3, MovesAlone
  <2>3. \A d \in Readers' : d \in Client \ {c}
    BY <2>1 DEF Readers
  <2>4. open' = {DeviceFile(d)' : d \in Readers'}
    BY <1>1, <2>1, <2>2, <2>3 DEF OpenPart
  <2>5. QED
    BY <2>1, <2>2, <2>3, <2>4 DEF OpenPart
<1>9. ClearPart'
  <2>1. \A m, h : Callable(m, h) => Callable(m, h)'
    BY <1>1 DEF Callable
  <2>2. ASSUME NEW d \in Client \ {c}, clear'[d], pc[d] \in {"ipc", "asked"}, Signals(c)' PROVE Signals(c)
    BY <1>1, <1>4, <2>2 DEF Signals, ClearAsSignals
  <2>3. \A d \in Client \ {c} : StaysClear(d)'
    BY <1>1, <1>3, <1>5, <1>6, <2>1, <2>2, MovesAlone, OthersStayClear
  <2>4. QED
    BY <1>5, <2>3 DEF ClearPart, StaysClear
<1>10. LocalPart'
  BY <1>3, <1>4, MovesAlone DEF LocalPart
<1>11. SessionPart'
  <2>1. session'[c] \in {"open", "closing"} => c \in segment
    BY <1>1 DEF SessionPart, TypeOK
  <2>2. QED
    BY <1>1, <1>3, <1>4, <1>6, <2>1, MovesAlone DEF SessionPart
<1>12. QED
  BY <1>7, <1>8, <1>9, <1>10, <1>11

-----------------------------------------------------------------------------
(* The host manager and the surroundings: no call is clear afterwards.       *)

LEMMA NoneIsClear ==
  ASSUME IInv, clear' = [c \in Client |-> FALSE], UNCHANGED <<open, device, target>>,
         \A c \in Client : pc'[c] = pc[c] \/ (pc[c] = "asked" /\ pc'[c] = "hung")
  PROVE  OpenPart' /\ ClearPart' /\ LocalPart' /\ clear' \in [Client -> BOOLEAN]
<1>1. Readers' = Readers /\ \A c \in Client : DeviceFile(c)' = DeviceFile(c)
  BY DEF Readers, DeviceFile
<1>2. OpenPart'
  BY <1>1 DEF IInv, OpenPart, Readers
<1>3. QED
  BY <1>2 DEF IInv, ClearPart, StaysClear, LocalPart

\* Nobody reads a device of Here when its service stops.
LEMMA Stops ==
  ASSUME IInv, NEW h \in Host, ServiceStops(h) PROVE IInv'
<1> USE DEF IInv
<1>1. /\ service' = service \ {h} /\ \A n \in Name : <<h, n>> \notin open
      /\ events' \in 0 .. MaxEvents /\ clear' = [c \in Client |-> FALSE]
      /\ UNCHANGED <<dev, open, dirVars, device, target, last, calls, silent>>
      /\ \/ /\ h = Here /\ session' = [c \in Client |-> "none"] /\ segment' \subseteq segment
            /\ pc' = [c \in Client |-> IF pc[c] = "asked" THEN "hung" ELSE pc[c]]
         \/ UNCHANGED <<ipcVars, pc>>
  <2>1. events' \in 0 .. MaxEvents
    BY BoundAssumption DEF ServiceStops, Event, TypeOK
  <2>2. CASE h = Here
    <3>1. {c \in segment : session[c] = "none"} \subseteq segment
      OBVIOUS
    <3>2. segment' \subseteq segment
      BY <2>2, <3>1 DEF ServiceStops
    <3>3. QED
      BY <2>1, <2>2, <3>2 DEF ServiceStops, Event
  <2>3. CASE h # Here
    BY <2>1, <2>3 DEF ServiceStops, Event
  <2>4. QED
    BY <2>2, <2>3
<1>2. pc' \in [Client -> CallPc] /\ \A c \in Client : pc'[c] = pc[c] \/ (pc[c] = "asked" /\ pc'[c] = "hung")
  BY <1>1 DEF TypeOK, CallPc
<1>3. OpenPart' /\ ClearPart' /\ LocalPart' /\ clear' \in [Client -> BOOLEAN]
  BY <1>1, <1>2, NoneIsClear
<1>4. TypeOK'
  <2>1. session' \in [Client -> Session] /\ segment' \subseteq Client
    BY <1>1 DEF TypeOK, Session, ipcVars
  <2>2. QED
    BY <1>1, <1>2, <1>3, <2>1 DEF TypeOK, dirVars
<1>5. SessionPart'
  <2>1. CASE UNCHANGED <<ipcVars, pc>>
    BY <1>1, <2>1 DEF SessionPart, ipcVars
  <2>2. CASE /\ h = Here /\ session' = [c \in Client |-> "none"]
             /\ pc' = [c \in Client |-> IF pc[c] = "asked" THEN "hung" ELSE pc[c]]
    <3>1. ASSUME NEW c \in Client, pc[c] = "reading", target[c] = Here PROVE FALSE
      <4>1. DeviceFile(c) \in open
        BY <3>1 DEF OpenPart, Readers
      <4>2. DeviceFile(c)[2] \in Name /\ DeviceFile(c)[1] = Here
        BY <3>1, <4>1 DEF TypeOK, DeviceFile
      <4>3. QED
        BY <1>1, <2>2, <4>1, <4>2 DEF DeviceFile
    <3>2. QED
      BY <1>1, <2>2, <3>1 DEF SessionPart
  <2>3. QED
    BY <1>1, <2>1, <2>2
<1>6. QED
  BY <1>3, <1>4, <1>5

LEMMA Changes ==
  ASSUME IInv, Surroundings PROVE IInv'
<1> USE HostAssumption, BoundAssumption, NameAssumption DEF IInv
<1>1. CASE \E h \in Host : ServiceStops(h)
  BY <1>1, Stops
<1>2. CASE ~\E h \in Host : ServiceStops(h)
  <2>1. clear' = [c \in Client |-> FALSE] /\ UNCHANGED <<open, callVars, ipcVars>>
    BY <1>2 DEF Surroundings, Poll, HostQuitsOrJoins, ServiceStarts, HostFallsSilent,
           DriverComesOrGoes, Event, hostVars
  <2>2. OpenPart' /\ ClearPart' /\ LocalPart' /\ clear' \in [Client -> BOOLEAN]
    BY <2>1, NoneIsClear DEF callVars
  <2>3. SessionPart'
    BY <2>1 DEF SessionPart, callVars, ipcVars
  <2>4. TypeOK'
    <3>1. /\ pc' \in [Client -> CallPc] /\ device' \in [Client -> Name]
          /\ target' \in [Client -> Host \cup {NoHost}]
          /\ \A c \in Client : pc'[c] \in {"post", "ipc", "asked", "reading"} => target'[c] \in Host
          /\ last' \in [Client -> {Nothing, Raised} \cup (Host \X Name)]
          /\ calls' \in [Client -> 0 .. MaxCalls] /\ open' \subseteq Host \X Name
          /\ segment' \subseteq Client /\ session' \in [Client -> Session]
      BY <2>1 DEF TypeOK, callVars, ipcVars
    <3>2. Event => events' \in 0 .. MaxEvents
      BY DEF TypeOK, Event
    <3>3. ASSUME NEW h \in Host, Poll(h) PROVE TypeOK'
      <4>1. devices' \in [Name -> Host \cup {NoHost}]
        BY <3>3 DEF Poll, TypeOK
      <4>2. QED
        BY <2>2, <3>1, <3>3, <4>1 DEF Poll, TypeOK, hostVars
    <3>4. ASSUME NEW h \in Host, HostQuitsOrJoins(h) PROVE TypeOK'
      BY <2>2, <3>1, <3>2, <3>4 DEF HostQuitsOrJoins, TypeOK, hostVars
    <3>5. ASSUME NEW h \in Host, ServiceStarts(h) PROVE TypeOK'
      BY <2>2, <3>1, <3>2, <3>5 DEF ServiceStarts, TypeOK, dirVars
    <3>6. ASSUME NEW h \in Host, HostFallsSilent(h) PROVE TypeOK'
      BY <2>2, <3>1, <3>2, <3>6 DEF HostFallsSilent, TypeOK, hostVars, dirVars
    <3>7. ASSUME NEW h \in Host, NEW f \in Name, DriverComesOrGoes(h, f) PROVE TypeOK'
      <4>1. dev' \in [Host -> SUBSET Name]
        BY <3>7 DEF DriverComesOrGoes, TypeOK
      <4>2. QED
        BY <2>2, <3>1, <3>2, <3>7, <4>1 DEF DriverComesOrGoes, TypeOK, dirVars
    <3>8. QED
      BY <1>2, <3>3, <3>4, <3>5, <3>6, <3>7 DEF Surroundings
  <2>5. QED
    BY <2>2, <2>3, <2>4
<1>3. QED
  BY <1>1, <1>2

-----------------------------------------------------------------------------
(* The theorems.                                                             *)

\* IInv holds in every state of hosts, directory, IPC and calls.
THEOREM Inductive == Spec => []IInv
<1>1. ASSUME IInv, [Next]_vars PROVE IInv'
  <2>1. ASSUME NEW c \in Client, NEW n \in Name, QueryDevice(c, n) PROVE IInv'
    BY <1>1, <2>1, Queries
  <2>2. ASSUME NEW c \in Client, Call(c) PROVE IInv'
    BY <1>1, <2>2, AsksHost, Begins, Loses, OpensFile, Fails DEF Call
  <2>3. ASSUME NEW c \in Client, Read(c) \/ Unlink(c) \/ Delete(c) PROVE IInv'
    BY <1>1, <2>3, ReadsFile, Closes
  <2>4. CASE Surroundings
    BY <1>1, <2>4, Changes
  <2>5. CASE UNCHANGED vars
    BY <1>1, <2>5 DEF IInv, vars, hostVars, dirVars, callVars, ipcVars, TypeOK, OpenPart, Readers,
       DeviceFile, ClearPart, StaysClear, OthersSignal, Signals, LocalPart, SessionPart, Callable
  <2>6. QED
    BY <1>1, <2>1, <2>2, <2>3, <2>4, <2>5 DEF Next
<1>2. QED
  BY InitIInv, <1>1, PTL DEF Spec

\* Calls, directory and hosts keep their types: a resolved name is a name.
THEOREM TypeCorrect == Spec => []TypeOK
<1>1. IInv => TypeOK
  BY DEF IInv
<1>2. QED
  BY Inductive, <1>1, PTL

\* A call of a device that can be called neither raises nor hangs, as long as
\* nothing that it depends on changes: for a local call, as long as no program
\* signals but its own, which has no session left.
THEOREM ClearCallsReturn == Spec => []ClearCallReturns
<1>1. IInv => ClearCallReturns
  BY DEF IInv, ClearPart, StaysClear, ClearCallReturns
<1>2. QED
  BY Inductive, <1>1, PTL

\* The device functions leave no file open behind them, and read none together.
THEOREM OpenFilesHaveOneReader == Spec => []OpenFileHasOneReader
<1>1. ASSUME IInv PROVE OpenFileHasOneReader
  BY <1>1 DEF IInv, OpenPart, Readers, OpenFileHasOneReader
<1>2. QED
  BY Inductive, <1>1, PTL

\* The program or the service has a next step of the call to make.
GoesOn(c) ==
  \/ pc[c] \in {"queryHost", "ipc"} \/ Served(c)
  \/ pc[c] = "asked" /\ session[c] = "ending"

\* What RemoteCallsEnd excepts is all there is: a call that has not come back and
\* has no step to make is a local one that failed or lost a signal, waits for a
\* silent host, or waits for its device, which may never answer.
CallStallsForAReason ==
  \A c \in Client :
    pc[c] # "program" =>
      \/ GoesOn(c)
      \/ pc[c] = "hung" /\ target[c] = Here
      \/ target[c] \in silent
      \/ pc[c] = "reading"

\* No remote call hangs by itself, whatever fails on its way, and no local one
\* waits for the session of an earlier call.
THEOREM StallsHaveAReason == Spec => []CallStallsForAReason
<1>1. ASSUME IInv PROVE CallStallsForAReason
  BY <1>1 DEF IInv, LocalPart, SessionPart, TypeOK, CallPc, CallStallsForAReason, GoesOn, Served
<1>2. QED
  BY Inductive, <1>1, PTL

=============================================================================
