----------------------------- MODULE RemoteDev -----------------------------
(***************************************************************************)
(* The remote device driver (fz_g_remote_dev.c) and the TCP server thread  *)
(* of the call device service (tcp_server.py) it sends its reads and       *)
(* writes to.                                                              *)
(*                                                                         *)
(* The driver makes one TCP connection per request.  The server is one     *)
(* loop: an exception anywhere in it ends the thread and closes its        *)
(* sockets, until the service is started again.  It opens the same         *)
(* exclusive device files as the service's other handlers, and serves any  *)
(* other program that connects to its port.                                *)
(*                                                                         *)
(* One process at a time has the driver open (see CharDevice for when that *)
(* is so); requests fit into the driver's 128-byte messages.               *)
(***************************************************************************)
EXTENDS Integers, Sequences

CONSTANTS Driver,        \* the driver's connection
          Client,        \* connections of other programs
          Nobody,        \* no connection
          MaxRequests    \* how many reads and writes the driver makes

ASSUME ConnAssumption == Driver \notin Client /\ Nobody \notin Client \cup {Driver}
ASSUME RequestsAssumption == MaxRequests \in Nat

VARIABLES
  \* The driver: its control point, the number and operationType of the
  \* request it makes or made last, and the request whose reply is in
  \* socket_recv_buf (0: zero bytes).
  drv, request, operationType, socketRecvBuf,
  \* TCP: the driver's connection, what each connection has sent, the
  \* reply on the way to the driver (NoReply, 0: no bytes, or a request's
  \* number), and the connections not accepted yet.
  conn, sent, reply, backlog,
  \* The server thread: its control point, the connection it serves, and
  \* whether another handler of the service has the device file open.
  server, clientsocket, deviceHeld,
  \* History: what each read gave its caller, the requests whose connection
  \* was refused or broken, and how often each has reached the device.
  returned, refused, broken, runs

drvVars  == <<drv, request, operationType, socketRecvBuf>>
tcpVars  == <<conn, sent, reply, backlog>>
srvVars  == <<server, clientsocket, deviceHeld>>
histVars == <<returned, refused, broken, runs>>
vars     == <<drvVars, tcpVars, srvVars, histVars>>

Request   == 1 .. MaxRequests
NoReply   == -1
NotRead   == -2
Conn      == Client \cup {Driver}
DrvPc     == {"closed", "open", "connect", "send", "spin", "recv", "complete"}
ServerPc  == {"down", "accept", "recv", "open", "device", "send"}
Sent      == {"nothing", "request", "short"}

\* The driver is inside device_read or device_write.
Calling == drv \in {"connect", "send", "spin", "recv", "complete"}

\* The requests that have reached the device.
served == {n \in Request : runs[n] > 0}

Init ==
  /\ drv = "closed" /\ request = 0 /\ operationType = "read" /\ socketRecvBuf = 0
  /\ conn = "none" /\ sent = [x \in Conn |-> "nothing"]
  /\ reply = NoReply /\ backlog = <<>>
  /\ server = "accept" /\ clientsocket = Nobody /\ deviceHeld = FALSE
  /\ returned = [n \in Request |-> NotRead]
  /\ refused = {} /\ broken = {} /\ runs = [n \in Request |-> 0]

-----------------------------------------------------------------------------
(* Mutants: actions as a plausible slip in the code would have made them.    *)
(* None is part of Next; each stands in for the action it is named after to  *)
(* show that a property notices.                                             *)

\* socket_recv_buf is not cleared when nothing was received.
SocketRecvDataSkipsMemset ==
  /\ drv = "recv"
  /\ drv' = "complete"
  /\ reply # NoReply \/ conn \in {"closed", "reset"}
  /\ socketRecvBuf' = IF reply > 0 THEN reply ELSE socketRecvBuf
  /\ conn' = "none" /\ reply' = NoReply
  /\ UNCHANGED <<request, operationType, sent, backlog, srvVars, histVars>>

\* The loop of socket_recv_data goes on after every error.
SocketRecvDataRetries ==
  /\ drv = "recv"
  /\ drv' = "complete"
  /\ reply # NoReply
  /\ socketRecvBuf' = reply
  /\ conn' = "none" /\ reply' = NoReply
  /\ UNCHANGED <<request, operationType, sent, backlog, srvVars, histVars>>

\* A busy device is answered with an empty message.
OsOpenAnswersBusy ==
  /\ server = "open"
  /\ server' = IF deviceHeld THEN "send" ELSE "device"
  /\ UNCHANGED <<drvVars, tcpVars, clientsocket, deviceHeld, histVars>>

\* A read that gave no bytes is made again.
OsReadWriteReadsAgain ==
  /\ server = "device"
  /\ server' = "send" \/ (operationType = "read" /\ server' = "device")
  /\ runs' = IF clientsocket = Driver THEN [runs EXCEPT ![request] = @ + 1] ELSE runs
  /\ UNCHANGED <<drvVars, tcpVars, clientsocket, deviceHeld, returned, refused, broken>>

-----------------------------------------------------------------------------
(* The driver.                                                              *)

DeviceOpen ==
  /\ drv = "closed"
  /\ drv' = "open"
  /\ UNCHANGED <<request, operationType, socketRecvBuf, tcpVars, srvVars, histVars>>

DeviceRelease ==
  /\ drv = "open"
  /\ drv' = "closed"
  /\ UNCHANGED <<request, operationType, socketRecvBuf, tcpVars, srvVars, histVars>>

\* device_read or device_write starts communicate_thread and waits for comp.
DeviceCall ==
  /\ drv = "open"
  /\ request < MaxRequests
  /\ request' = request + 1
  /\ operationType' \in {"read", "write"}
  /\ drv' = "connect"
  /\ UNCHANGED <<socketRecvBuf, tcpVars, srvVars, histVars>>

\* create_socket.  A refused connection ends communicate; nobody looks at its
\* result, and comp is completed all the same.
CreateSocket ==
  /\ drv = "connect"
  /\ \/ /\ server # "down"
        /\ drv' = "send"
        /\ conn' = "open" /\ reply' = NoReply
        /\ sent' = [sent EXCEPT ![Driver] = "nothing"]
        /\ backlog' = Append(backlog, Driver)
        /\ UNCHANGED refused
     \/ /\ server = "down"
        /\ drv' = "complete"
        /\ refused' = refused \cup {request}
        /\ UNCHANGED tcpVars
  /\ UNCHANGED <<request, operationType, socketRecvBuf, srvVars, returned, broken, runs>>

\* socket_send_data goes round its loop for ever on any error but
\* ERESTARTSYS, and a reset connection gives one at every turn.  On a
\* connection the other side has only closed, the first send succeeds.
SocketSendData ==
  /\ drv = "send"
  /\ \/ /\ conn \in {"open", "closed"}
        /\ drv' = "recv"
        /\ sent' = [sent EXCEPT ![Driver] = "request"]
     \/ /\ conn = "reset"
        /\ drv' = "spin"
        /\ UNCHANGED sent
  /\ UNCHANGED <<request, operationType, socketRecvBuf, conn, reply, backlog,
                 srvVars, histVars>>

\* socket_recv_data blocks until there is a reply or the connection ends; then
\* the reply, or the zeros of recv_data, go into socket_recv_buf.
SocketRecvData ==
  /\ drv = "recv"
  /\ drv' = "complete"
  /\ \/ /\ reply # NoReply
        /\ socketRecvBuf' = reply
     \/ /\ reply = NoReply
        /\ conn \in {"closed", "reset"}
        /\ socketRecvBuf' = 0
  /\ conn' = "none" /\ reply' = NoReply
  /\ UNCHANGED <<request, operationType, sent, backlog, srvVars, histVars>>

\* comp is completed: device_read copies socket_recv_buf to its caller and
\* device_write returns len.
DeviceReturn ==
  /\ drv = "complete"
  /\ drv' = "open"
  /\ returned' = IF operationType = "read"
                   THEN [returned EXCEPT ![request] = socketRecvBuf] ELSE returned
  /\ UNCHANGED <<request, operationType, socketRecvBuf, tcpVars, srvVars,
                 refused, broken, runs>>

-----------------------------------------------------------------------------
(* Other programs: those that connect to the port, and the other handlers    *)
(* that open the device file.                                                *)

ClientConnect ==
  \E c \in Client :
    /\ server # "down"
    /\ c # clientsocket /\ \A i \in 1 .. Len(backlog) : backlog[i] # c
    /\ backlog' = Append(backlog, c)
    /\ sent' = [sent EXCEPT ![c] = "nothing"]
    /\ UNCHANGED <<drvVars, conn, reply, srvVars, histVars>>

\* A whole request, or fewer than the twelve bytes of its parameters (none at
\* all when the program just closes the connection).
ClientSend ==
  \E c \in Client :
    /\ c = clientsocket \/ \E i \in 1 .. Len(backlog) : backlog[i] = c
    /\ sent[c] = "nothing"
    /\ \E s \in {"request", "short"} : sent' = [sent EXCEPT ![c] = s]
    /\ UNCHANGED <<drvVars, conn, reply, backlog, srvVars, histVars>>

\* The HTTP and IPC handlers of the service open and close the same files.
HandleCallDevice ==
  /\ server # "device"
  /\ deviceHeld' = ~deviceHeld
  /\ UNCHANGED <<drvVars, tcpVars, server, clientsocket, histVars>>

-----------------------------------------------------------------------------
(* run_tcp_server.                                                          *)

\* The thread or the whole service ends.  Connections it has accepted are
\* closed, those in the backlog are reset.
ServerEnds ==
  /\ server' = "down" /\ clientsocket' = Nobody /\ backlog' = <<>>
  /\ conn' = IF clientsocket = Driver THEN "closed"
             ELSE IF \E i \in 1 .. Len(backlog) : backlog[i] = Driver THEN "reset"
             ELSE conn
  /\ broken' = IF conn' # conn THEN broken \cup {request} ELSE broken
  /\ UNCHANGED <<drvVars, sent, reply, returned, refused, runs>>

ServiceStops ==
  /\ server # "down"
  /\ deviceHeld' = FALSE
  /\ ServerEnds

ServiceStarts ==
  /\ server = "down"
  /\ server' = "accept"
  /\ UNCHANGED <<drvVars, tcpVars, clientsocket, deviceHeld, histVars>>

Accept ==
  /\ server = "accept"
  /\ backlog # <<>>
  /\ server' = "recv"
  /\ clientsocket' = Head(backlog)
  /\ backlog' = Tail(backlog)
  /\ UNCHANGED <<drvVars, conn, sent, reply, deviceHeld, histVars>>

\* recv blocks until the other side has sent something; a message without all
\* parameters raises.
Recv ==
  /\ server = "recv"
  /\ \/ /\ sent[clientsocket] = "request"
        /\ server' = "open"
        /\ UNCHANGED <<drvVars, tcpVars, clientsocket, deviceHeld, histVars>>
     \/ /\ sent[clientsocket] = "short"
        /\ ServerEnds
        /\ UNCHANGED deviceHeld

\* os.open raises when another handler has the file open.
OsOpen ==
  /\ server = "open"
  /\ \/ /\ ~deviceHeld
        /\ server' = "device"
        /\ UNCHANGED <<drvVars, tcpVars, clientsocket, deviceHeld, histVars>>
     \/ /\ deviceHeld
        /\ ServerEnds
        /\ UNCHANGED deviceHeld

\* os.read or os.write, and os.close.
OsReadWrite ==
  /\ server = "device"
  /\ server' = "send"
  /\ runs' = IF clientsocket = Driver THEN [runs EXCEPT ![request] = @ + 1] ELSE runs
  /\ UNCHANGED <<drvVars, tcpVars, clientsocket, deviceHeld, returned, refused, broken>>

\* clientsocket.send and close.  A read may have returned no bytes; what a
\* write returned is sent as text.
Send ==
  /\ server = "send"
  /\ server' = "accept"
  /\ clientsocket' = Nobody
  /\ \/ /\ clientsocket = Driver
        /\ conn' = "closed"
        /\ reply' = request \/ (operationType = "read" /\ reply' = 0)
     \/ /\ clientsocket # Driver
        /\ UNCHANGED <<conn, reply>>
  /\ UNCHANGED <<drvVars, sent, backlog, deviceHeld, histVars>>

-----------------------------------------------------------------------------

\* What runs of itself; an open device file may take as long as it likes.
DriverThread == CreateSocket \/ SocketSendData \/ SocketRecvData \/ DeviceReturn
ServerThread == Accept \/ Recv \/ OsOpen \/ Send

Next ==
  \/ DeviceOpen \/ DeviceRelease \/ DeviceCall \/ DriverThread
  \/ ClientConnect \/ ClientSend \/ HandleCallDevice
  \/ ServiceStops \/ ServiceStarts \/ ServerThread \/ OsReadWrite

Spec == Init /\ [][Next]_vars

\* The kernel thread and the server thread run; a device need not answer (the
\* dht11 driver can wait for ever), and programs that connect and the operator
\* of the service do as they like.
FairSpec == Spec /\ WF_vars(DriverThread) /\ WF_vars(ServerThread)

-----------------------------------------------------------------------------

\* The type invariant of driver, connections and server.
TypeOK ==
  /\ drv \in DrvPc
  /\ request \in 0 .. MaxRequests
  /\ operationType \in {"read", "write"}
  /\ socketRecvBuf \in 0 .. MaxRequests
  /\ conn \in {"none", "open", "closed", "reset"}
  /\ sent \in [Conn -> Sent]
  /\ reply \in NoReply .. MaxRequests
  /\ backlog \in Seq(Conn)
  /\ server \in ServerPc
  /\ clientsocket \in Conn \cup {Nobody}
  /\ deviceHeld \in BOOLEAN
  /\ returned \in [Request -> NotRead .. MaxRequests]
  /\ refused \subseteq Request /\ broken \subseteq Request /\ runs \in [Request -> Nat]

\* A read that gives its caller the bytes of an earlier request is one whose
\* connection was refused, and so were all those since that request: one reply
\* or broken connection in between would have replaced the bytes.
StaleReadWasRefused ==
  \A n \in Request :
    returned[n] > 0 =>
      returned[n] <= n /\ returned[n] + 1 .. n \subseteq refused

\* A read or write that is over, and was reported as done, reached the device,
\* unless its connection was refused or broken.
UnservedHasACause ==
  \A n \in Request :
    n < request \/ (n = request /\ ~Calling) =>
      n \in served \/ n \in refused \/ n \in broken

\* The server waits for a program that has connected and sends nothing.
Blocked == server = "recv" /\ clientsocket \in Client /\ sent[clientsocket] = "nothing"

\* The kernel thread spins on a connection that was reset before the server
\* accepted it; on no other connection it does.
Spins == drv = "spin" /\ conn = "reset" /\ request \in broken \ served

\* device_read and device_write return, unless the kernel thread spins, or the
\* server waits for a silent program or for the device for ever.
CallEnds == <>[]Calling => <>[](Spins \/ Blocked \/ server = "device")

-----------------------------------------------------------------------------
(* What the driver promises its callers is RemoteCall: see that module.      *)

\* How far read or write n is.
CallState(n) ==
  IF n > request THEN "none"
  ELSE IF n < request \/ ~Calling THEN "ended"
  ELSE IF drv = "complete" THEN "done" ELSE "asked"

StateOfCalls == [n \in Request |-> CallState(n)]

Promise == INSTANCE RemoteCall WITH state <- StateOfCalls, bytes <- socketRecvBuf

\* Every behaviour of driver and server is one the abstract remote call allows:
\* no read or write reaches the device twice or once it has returned, and none
\* returns what is not its own but for a refused connection.
KeepsPromise == Promise!Spec

=============================================================================
