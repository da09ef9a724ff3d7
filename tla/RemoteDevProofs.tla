--------------------------- MODULE RemoteDevProofs ---------------------------
(***************************************************************************)
(* Proofs about RemoteDev for every number of requests and of other        *)
(* programs.  Driver and server share no variable but the connection: IInv *)
(* says at which end of it a request can be, so that the reply of one is   *)
(* never on its way when the next one begins.                              *)
(***************************************************************************)
EXTENDS RemoteDev, TLAPS

\* x is in the sequence s, and is there once only.
At(s, x)   == \E i \in 1 .. Len(s) : s[i] = x
Once(s, x) == \A i, j \in 1 .. Len(s) : s[i] = x /\ s[j] = x => i = j

\* The driver has no connection.
Unconnected ==
  /\ conn = "none" /\ reply = NoReply
  /\ clientsocket # Driver /\ ~At(backlog, Driver)

\* The driver's end: the connection is open as long as the server has it, and
\* one that is not has its reply or is broken.
ConnPart ==
  /\ drv \in {"closed", "open", "connect", "complete"} => Unconnected
  /\ drv \in {"send", "spin", "recv"} => conn # "none"
  /\ drv = "spin" => conn = "reset"
  /\ conn = "open" <=> clientsocket = Driver \/ At(backlog, Driver)
  /\ conn \in {"closed", "reset"} => request \in broken \/ reply # NoReply
  /\ reply # NoReply => conn = "closed" /\ drv = "recv" /\ request \in served
  /\ reply > 0 => reply = request
  /\ drv \notin {"closed", "open"} => request > 0

\* The server's end: it is past the driver's message only when there is one.
ServerPart ==
  /\ server \in {"down", "accept"} <=> clientsocket = Nobody
  /\ server = "down" => backlog = <<>>
  /\ Once(backlog, Driver)
  /\ clientsocket = Driver => ~At(backlog, Driver)
  /\ drv = "send" => sent[Driver] = "nothing"
  /\ drv = "recv" => sent[Driver] = "request"
  /\ sent[Driver] # "short"
  /\ clientsocket = Driver /\ server # "recv" => drv = "recv"
  /\ clientsocket = Driver /\ server = "send" => request \in served
  /\ \A n \in served : n <= request
  /\ drv \in {"connect", "send", "spin"} => request \notin served

\* A request reaches the device once: until the server has run it, it has not.
RunPart ==
  /\ \A n \in Request : runs[n] \in {0, 1}
  /\ conn = "open" /\ ~(clientsocket = Driver /\ server = "send") => request \notin served

\* The last request that is over as far as socket_recv_buf is concerned.
Over == IF drv \in {"closed", "open", "complete"} THEN request ELSE request - 1

\* Bytes in the buffer are those of a request that only refused ones followed.
BufferPart ==
  socketRecvBuf > 0 => socketRecvBuf <= Over /\ socketRecvBuf + 1 .. Over \subseteq refused

CausePart ==
  \A n \in Request : n <= Over => n \in served \cup refused \cup broken

IInv ==
  /\ TypeOK
  /\ ConnPart
  /\ ServerPart
  /\ RunPart
  /\ BufferPart
  /\ CausePart
  /\ StaleReadWasRefused

-----------------------------------------------------------------------------
(* The backlog.                                                              *)

LEMMA AppendAt ==
  ASSUME NEW S, NEW s \in Seq(S), NEW x \in S
  PROVE  /\ Append(s, x) \in Seq(S)
         /\ \A y \in S : At(Append(s, x), y) <=> At(s, y) \/ y = x
         /\ \A y \in S : Once(s, y) /\ (y = x => ~At(s, y)) => Once(Append(s, x), y)
<1>1. /\ Len(Append(s, x)) = Len(s) + 1 /\ Len(s) \in Nat
      /\ \A i \in 1 .. Len(s) : Append(s, x)[i] = s[i]
      /\ Append(s, x)[Len(s) + 1] = x
      /\ Append(s, x) \in Seq(S)
  OBVIOUS
<1>2. ASSUME NEW y \in S PROVE At(Append(s, x), y) <=> At(s, y) \/ y = x
  BY <1>1 DEF At
<1>3. ASSUME NEW y \in S, Once(s, y), y = x => ~At(s, y) PROVE Once(Append(s, x), y)
  BY <1>1, <1>3 DEF At, Once
<1>4. QED
  BY <1>1, <1>2, <1>3

LEMMA TailAt ==
  ASSUME NEW S, NEW s \in Seq(S), s # <<>>
  PROVE  /\ Head(s) \in S /\ Tail(s) \in Seq(S)
         /\ \A y \in S : At(s, y) <=> y = Head(s) \/ At(Tail(s), y)
         /\ \A y \in S : Once(s, y) => Once(Tail(s), y) /\ (y = Head(s) => ~At(Tail(s), y))
<1>1. /\ Len(s) \in Nat \ {0} /\ Len(Tail(s)) = Len(s) - 1
      /\ Head(s) = s[1] /\ Head(s) \in S /\ Tail(s) \in Seq(S)
      /\ \A i \in 1 .. Len(s) - 1 : Tail(s)[i] = s[i + 1]
  OBVIOUS
<1>2. ASSUME NEW y \in S PROVE At(s, y) <=> y = Head(s) \/ At(Tail(s), y)
  <2>1. ASSUME NEW i \in 1 .. Len(s), s[i] = y PROVE y = Head(s) \/ At(Tail(s), y)
    <3>1. CASE i = 1
      BY <1>1, <2>1, <3>1
    <3>2. CASE i # 1
      <4>1. i - 1 \in 1 .. Len(Tail(s)) /\ Tail(s)[i - 1] = y
        BY <1>1, <2>1, <3>2
      <4>2. QED
        BY <4>1 DEF At
    <3>3. QED
      BY <3>1, <3>2
  <2>2. ASSUME NEW i \in 1 .. Len(Tail(s)), Tail(s)[i] = y PROVE At(s, y)
    <3>1. i + 1 \in 1 .. Len(s) /\ s[i + 1] = y
      BY <1>1, <2>2
    <3>2. QED
      BY <3>1 DEF At
  <2>3. y = Head(s) => At(s, y)
    BY <1>1 DEF At
  <2>4. QED
    BY <2>1, <2>2, <2>3 DEF At
<1>3. ASSUME NEW y \in S, Once(s, y) PROVE Once(Tail(s), y) /\ (y = Head(s) => ~At(Tail(s), y))
  BY <1>1, <1>3 DEF At, Once
<1>4. QED
  BY <1>1, <1>2, <1>3

-----------------------------------------------------------------------------
(* The requests that have reached the device are known from runs.           *)

LEMMA ServedStays == ASSUME UNCHANGED runs PROVE served' = served
  BY DEF served

(* The invariant holds initially, and the type part by itself is inductive   *)
(* when the other parts say that a connection in use is one of Conn.         *)

LEMMA InitIInv == Init => IInv
<1> SUFFICES ASSUME Init PROVE IInv
  OBVIOUS
<1> USE ConnAssumption, RequestsAssumption DEF Init
<1>a. sent \in [Conn -> Sent] /\ returned \in [Request -> NotRead .. MaxRequests]
  BY DEF Sent, NotRead
<1>b. backlog \in Seq(Conn) /\ reply \in NoReply .. MaxRequests
  BY DEF NoReply
<1>c. request \in 0 .. MaxRequests /\ socketRecvBuf \in 0 .. MaxRequests
  OBVIOUS
<1>1. TypeOK
  BY <1>a, <1>b, <1>c DEF TypeOK, DrvPc, ServerPc
<1>2. ~At(backlog, Driver) /\ Once(backlog, Driver) /\ served = {}
  BY DEF At, Once, served
<1>3. ConnPart /\ ServerPart
  BY <1>2 DEF ConnPart, ServerPart, Unconnected, Conn, NoReply
<1>r. RunPart
  BY DEF RunPart
<1>4. BufferPart /\ CausePart /\ StaleReadWasRefused
  BY DEF BufferPart, CausePart, StaleReadWasRefused, Over, Request, NotRead
<1>5. QED
  BY <1>1, <1>3, <1>r, <1>4 DEF IInv

-----------------------------------------------------------------------------
(* The driver's steps.                                                       *)

LEMMA OpenOrRelease ==
  ASSUME IInv, DeviceOpen \/ DeviceRelease PROVE IInv'
<1> USE ConnAssumption, RequestsAssumption, ServedStays
       DEF IInv, DeviceOpen, DeviceRelease, tcpVars, srvVars, histVars
<1>1. TypeOK'
  BY DEF TypeOK, DrvPc
<1>2. ConnPart' /\ ServerPart'
  BY DEF ConnPart, ServerPart, Unconnected
<1>r. RunPart'
  BY DEF RunPart
<1>3. BufferPart' /\ CausePart' /\ StaleReadWasRefused'
  BY DEF BufferPart, CausePart, StaleReadWasRefused, Over
<1>4. QED
  BY <1>1, <1>2, <1>r, <1>3

LEMMA Calls ==
  ASSUME IInv, DeviceCall PROVE IInv'
<1> USE ConnAssumption, RequestsAssumption, ServedStays
       DEF IInv, DeviceCall, tcpVars, srvVars, histVars
<1>1. TypeOK'
  BY DEF TypeOK, DrvPc
<1>a. /\ request \in Nat /\ request' > 0
      /\ \A n \in served : n <= request' /\ n # request'
  BY DEF TypeOK, ServerPart, Request, served
<1>2. ConnPart' /\ ServerPart'
  BY <1>a DEF ConnPart, ServerPart, Unconnected, NoReply
<1>r. RunPart'
  BY DEF RunPart, ConnPart, Unconnected
<1>3. Over' = Over
  BY DEF Over, TypeOK
<1>4. BufferPart' /\ CausePart' /\ StaleReadWasRefused'
  BY <1>3 DEF BufferPart, CausePart, StaleReadWasRefused
<1>5. QED
  BY <1>1, <1>2, <1>r, <1>4

LEMMA Connects ==
  ASSUME IInv, CreateSocket PROVE IInv'
<1> USE ConnAssumption, RequestsAssumption, ServedStays
       DEF IInv, CreateSocket, tcpVars, srvVars, histVars
<1>a. request \in Request /\ Unconnected
  BY DEF TypeOK, Request, ConnPart
<1>1. CASE server # "down"
  <2>1. /\ Append(backlog, Driver) \in Seq(Conn)
        /\ At(Append(backlog, Driver), Driver) /\ Once(Append(backlog, Driver), Driver)
    BY <1>a, AppendAt DEF TypeOK, Conn, ServerPart, Unconnected
  <2>a. /\ NoReply \in NoReply .. MaxRequests
        /\ [sent EXCEPT ![Driver] = "nothing"] \in [Conn -> Sent]
    <3>1. NoReply \in NoReply .. MaxRequests
      BY SMT DEF NoReply
    <3>2. [sent EXCEPT ![Driver] = "nothing"] \in [Conn -> Sent]
      BY DEF TypeOK, Sent
    <3>3. QED
      BY <3>1, <3>2
  <2>2. TypeOK'
    BY <1>1, <2>1, <2>a DEF TypeOK, DrvPc
  <2>3. ConnPart'
    BY <1>1, <1>a, <2>1 DEF ConnPart, Unconnected, TypeOK
  <2>4. ServerPart'
    BY <1>1, <1>a, <2>1 DEF ServerPart, Unconnected, TypeOK, Conn, Sent
  <2>r. RunPart'
    BY <1>1 DEF RunPart, ServerPart
  <2>5. Over' = Over
    BY <1>1 DEF Over
  <2>6. BufferPart' /\ CausePart' /\ StaleReadWasRefused'
    BY <1>1, <2>5 DEF BufferPart, CausePart, StaleReadWasRefused
  <2>7. QED
    BY <2>2, <2>3, <2>4, <2>r, <2>6
<1>2. CASE server = "down"
  <2>1. TypeOK'
    BY <1>a, <1>2 DEF TypeOK, DrvPc
  <2>2. ConnPart' /\ ServerPart'
    BY <1>2 DEF ConnPart, ServerPart, Unconnected
  <2>r. RunPart'
    BY <1>2 DEF RunPart, ConnPart, Unconnected
  <2>3. Over' = request /\ Over = request - 1 /\ request \in Int
    BY <1>2 DEF Over, TypeOK
  <2>4. BufferPart'
    BY <1>2, <2>3 DEF BufferPart, TypeOK
  <2>5. CausePart' /\ StaleReadWasRefused'
    BY <1>2, <2>3 DEF CausePart, StaleReadWasRefused, Request
  <2>6. QED
    BY <2>1, <2>2, <2>r, <2>4, <2>5
<1>3. QED
  BY <1>1, <1>2

LEMMA Sends ==
  ASSUME IInv, SocketSendData PROVE IInv'
<1> USE ConnAssumption, RequestsAssumption, ServedStays
       DEF IInv, SocketSendData, srvVars, histVars
<1>1. TypeOK'
  BY DEF TypeOK, DrvPc, Sent
<1>2. ConnPart'
  BY DEF ConnPart, Unconnected
<1>3. ServerPart'
  BY DEF ServerPart, TypeOK, Conn, ConnPart
<1>r. RunPart'
  BY DEF RunPart
<1>4. Over' = Over
  BY DEF Over
<1>5. BufferPart' /\ CausePart' /\ StaleReadWasRefused'
  BY <1>4 DEF BufferPart, CausePart, StaleReadWasRefused
<1>6. QED
  BY <1>1, <1>2, <1>3, <1>r, <1>5

LEMMA Receives ==
  ASSUME IInv, SocketRecvData PROVE IInv'
<1> USE ConnAssumption, RequestsAssumption, ServedStays
       DEF IInv, SocketRecvData, srvVars, histVars
<1>a. /\ request \in Request /\ Over = request - 1 /\ Over' = request
      /\ reply # NoReply => request \in served
      /\ reply = NoReply => request \in broken
      /\ socketRecvBuf' = 0 \/ socketRecvBuf' = request
  BY DEF TypeOK, Request, ConnPart, Over, NoReply
<1>1. TypeOK'
  BY <1>a DEF TypeOK, DrvPc, NoReply, Request
<1>b. conn # "open" /\ clientsocket # Driver /\ ~At(backlog, Driver)
  BY DEF ConnPart
<1>2. ConnPart'
  BY <1>a, <1>b DEF ConnPart, Unconnected, NoReply, Request
<1>3. ServerPart'
  BY DEF ServerPart, ConnPart
<1>r. RunPart'
  BY DEF RunPart
<1>4. BufferPart'
  BY <1>a DEF BufferPart, Request
<1>5. CausePart' /\ StaleReadWasRefused'
  BY <1>a DEF CausePart, StaleReadWasRefused, Request
<1>6. QED
  BY <1>1, <1>2, <1>3, <1>r, <1>4, <1>5

LEMMA Returns ==
  ASSUME IInv, DeviceReturn PROVE IInv'
<1> USE ConnAssumption, RequestsAssumption, ServedStays
       DEF IInv, DeviceReturn, tcpVars, srvVars
<1>a. request \in Request /\ Over = request /\ Over' = request
  BY DEF TypeOK, Request, ConnPart, Over
<1>b. socketRecvBuf \in NotRead .. MaxRequests
  BY DEF TypeOK, NotRead
<1>c. returned' \in [Request -> NotRead .. MaxRequests]
  BY <1>b DEF TypeOK
<1>1. TypeOK'
  BY <1>a, <1>c DEF TypeOK, DrvPc
<1>2. ConnPart' /\ ServerPart'
  BY DEF ConnPart, ServerPart, Unconnected
<1>r. RunPart'
  BY DEF RunPart
<1>3. BufferPart' /\ CausePart'
  BY <1>a DEF BufferPart, CausePart
<1>4. StaleReadWasRefused'
  BY <1>a DEF StaleReadWasRefused, BufferPart, TypeOK
<1>5. QED
  BY <1>1, <1>2, <1>r, <1>3, <1>4


-----------------------------------------------------------------------------
(* The steps of other programs and of the server thread.                     *)

\* A step that leaves the driver's variables and the histories alone, except
\* for requests that fail or are served, keeps what is said about them.
LEMMA HistoryStays ==
  ASSUME IInv, UNCHANGED <<drvVars, returned, refused>>,
         broken \subseteq broken', served \subseteq served'
  PROVE  BufferPart' /\ CausePart' /\ StaleReadWasRefused'
<1>1. Over' = Over
  BY DEF drvVars, Over
<1>2. QED
  BY <1>1 DEF IInv, drvVars, BufferPart, CausePart, StaleReadWasRefused

LEMMA OthersStep ==
  ASSUME IInv, HandleCallDevice \/ ServiceStarts PROVE IInv'
<1> USE ConnAssumption, ServedStays
       DEF IInv, HandleCallDevice, ServiceStarts, drvVars, tcpVars, histVars
<1>1. TypeOK'
  BY DEF TypeOK, ServerPc
<1>2. ConnPart'
  BY DEF ConnPart, Unconnected
<1>3. ServerPart'
  BY DEF ServerPart
<1>r. RunPart'
  BY DEF RunPart, ServerPart
<1>4. QED
  BY <1>1, <1>2, <1>3, <1>r, HistoryStays

LEMMA ClientConnects ==
  ASSUME IInv, ClientConnect PROVE IInv'
<1> USE ConnAssumption, ServedStays DEF IInv, drvVars, srvVars, histVars
<1>1. PICK c \in Client :
        /\ server # "down" /\ backlog' = Append(backlog, c)
        /\ sent' = [sent EXCEPT ![c] = "nothing"]
        /\ UNCHANGED <<drvVars, conn, reply, srvVars, histVars>>
  BY DEF ClientConnect
<1>2. /\ backlog' \in Seq(Conn)
      /\ At(backlog', Driver) <=> At(backlog, Driver)
      /\ Once(backlog', Driver)
  BY <1>1, AppendAt DEF TypeOK, Conn, ServerPart
<1>3. sent' \in [Conn -> Sent] /\ sent'[Driver] = sent[Driver]
  BY <1>1 DEF TypeOK, Sent, Conn
<1>4. TypeOK'
  BY <1>1, <1>2, <1>3 DEF TypeOK
<1>5. ConnPart'
  BY <1>1, <1>2 DEF ConnPart, Unconnected
<1>6. ServerPart'
  BY <1>1, <1>2, <1>3 DEF ServerPart
<1>r. RunPart'
  BY <1>1 DEF RunPart
<1>7. QED
  BY <1>1, <1>4, <1>5, <1>6, <1>r, HistoryStays

LEMMA ClientSends ==
  ASSUME IInv, ClientSend PROVE IInv'
<1> USE ConnAssumption, ServedStays DEF IInv, drvVars, srvVars, histVars
<1>1. PICK c \in Client, s \in {"request", "short"} :
        /\ sent' = [sent EXCEPT ![c] = s]
        /\ UNCHANGED <<drvVars, conn, reply, backlog, srvVars, histVars>>
  BY DEF ClientSend
<1>2. sent' \in [Conn -> Sent] /\ sent'[Driver] = sent[Driver]
  BY <1>1 DEF TypeOK, Sent, Conn
<1>3. TypeOK'
  BY <1>1, <1>2 DEF TypeOK
<1>4. ConnPart' /\ ServerPart'
  BY <1>1, <1>2 DEF ConnPart, Unconnected, ServerPart
<1>r. RunPart'
  BY <1>1 DEF RunPart
<1>5. QED
  BY <1>1, <1>3, <1>4, <1>r, HistoryStays

\* However the thread ends, the driver finds its connection closed or reset,
\* and its request among the broken ones.
LEMMA Ends ==
  ASSUME IInv, server # "down", ServerEnds, deviceHeld' \in BOOLEAN PROVE IInv'
<1> USE ConnAssumption, ServedStays DEF IInv, ServerEnds, drvVars
<1>1. /\ conn = "open" => /\ conn' = IF clientsocket = Driver THEN "closed" ELSE "reset"
                          /\ broken' = broken \cup {request}
      /\ conn # "open" => conn' = conn /\ broken' = broken
  BY DEF ConnPart, At
<1>2. conn = "open" => request \in Request
  BY DEF ConnPart, Unconnected, TypeOK, Request
<1>3. backlog' \in Seq(Conn) /\ ~At(backlog', Driver) /\ Once(backlog', Driver)
  BY DEF At, Once
<1>4. TypeOK'
  BY <1>1, <1>2, <1>3 DEF TypeOK, ServerPc
<1>5. ConnPart'
  BY <1>1, <1>3 DEF ConnPart, Unconnected
<1>6. ServerPart'
  BY <1>3 DEF ServerPart
<1>r. RunPart'
  BY <1>1 DEF RunPart
<1>7. QED
  BY <1>1, <1>4, <1>5, <1>6, <1>r, HistoryStays

LEMMA Accepts ==
  ASSUME IInv, Accept PROVE IInv'
<1> USE ConnAssumption, ServedStays DEF IInv, Accept, drvVars, histVars
<1>1. /\ clientsocket' \in Conn /\ backlog' \in Seq(Conn)
      /\ At(backlog, Driver) <=> clientsocket' = Driver \/ At(backlog', Driver)
      /\ Once(backlog', Driver)
      /\ clientsocket' = Driver => ~At(backlog', Driver)
  BY TailAt DEF TypeOK, Conn, ServerPart
<1>2. clientsocket = Nobody
  BY DEF ServerPart
<1>3. TypeOK'
  BY <1>1 DEF TypeOK, ServerPc
<1>4. ConnPart'
  BY <1>1, <1>2 DEF ConnPart, Unconnected
<1>5. ServerPart'
  BY <1>1, <1>2 DEF ServerPart, Conn
<1>r. RunPart'
  BY <1>2 DEF RunPart
<1>6. QED
  BY <1>3, <1>4, <1>5, <1>r, HistoryStays

\* The server goes on with a request once it is there and the file is free.
LEMMA HasRequest ==
  ASSUME IInv, Recv \/ OsOpen PROVE IInv'
<1> USE ConnAssumption, ServedStays DEF IInv, drvVars, tcpVars, histVars
<1>1. CASE ServerEnds /\ UNCHANGED deviceHeld
  <2>1. server # "down" /\ deviceHeld' \in BOOLEAN
    BY <1>1 DEF Recv, OsOpen, TypeOK
  <2>2. QED
    BY <1>1, <2>1, Ends
<1>2. CASE /\ server \in {"recv", "open"} /\ server' \in {"open", "device"}
           /\ server = "recv" => sent[clientsocket] = "request"
           /\ UNCHANGED <<drvVars, tcpVars, clientsocket, deviceHeld, histVars>>
  <2>1. TypeOK'
    BY <1>2 DEF TypeOK, ServerPc
  <2>2. ConnPart'
    BY <1>2 DEF ConnPart, Unconnected
  <2>a. clientsocket = Driver => drv = "recv"
    BY <1>2 DEF ServerPart, ConnPart, Unconnected, TypeOK, DrvPc
  <2>3. ServerPart'
    BY <1>2, <2>a DEF ServerPart
  <2>r. RunPart'
    BY <1>2 DEF RunPart
  <2>4. QED
    BY <1>2, <2>1, <2>2, <2>3, <2>r, HistoryStays
<1>3. QED
  BY <1>1, <1>2 DEF Recv, OsOpen

LEMMA ReadsOrWrites ==
  ASSUME IInv, OsReadWrite PROVE IInv'
<1> USE ConnAssumption DEF IInv, OsReadWrite, drvVars, tcpVars
<1>1. clientsocket = Driver => request \in Request /\ runs[request] = 0
  BY DEF ServerPart, ConnPart, RunPart, TypeOK, Request, served
<1>2. /\ runs' \in [Request -> Nat] /\ \A n \in Request : runs'[n] \in {0, 1}
      /\ served' = IF clientsocket = Driver THEN served \cup {request} ELSE served
  BY <1>1 DEF TypeOK, RunPart, served
<1>3. TypeOK'
  BY <1>2 DEF TypeOK, ServerPc
<1>4. ConnPart'
  BY <1>2 DEF ConnPart, Unconnected
<1>5. request <= request
  BY DEF TypeOK
<1>6. ServerPart'
  BY <1>2, <1>5 DEF ServerPart
<1>7. RunPart'
  BY <1>2 DEF RunPart
<1>8. QED
  BY <1>2, <1>3, <1>4, <1>6, <1>7, HistoryStays

LEMMA Answers ==
  ASSUME IInv, Send PROVE IInv'
<1> USE ConnAssumption, RequestsAssumption, ServedStays DEF IInv, Send, drvVars, histVars
<1>1. clientsocket = Driver =>
        /\ conn = "open" /\ drv = "recv" /\ request \in served /\ ~At(backlog, Driver)
        /\ reply' # NoReply /\ (reply' > 0 => reply' = request)
        /\ reply' \in 0 .. MaxRequests
  BY DEF ServerPart, ConnPart, TypeOK, NoReply
<1>a. NoReply \in NoReply .. MaxRequests /\ 0 .. MaxRequests \subseteq NoReply .. MaxRequests
  BY DEF NoReply
<1>2. TypeOK'
  BY <1>1, <1>a DEF TypeOK, ServerPc
<1>3. ConnPart'
  BY <1>1 DEF ConnPart, Unconnected
<1>4. ServerPart'
  BY <1>1 DEF ServerPart
<1>r. RunPart'
  BY DEF RunPart
<1>5. QED
  BY <1>2, <1>3, <1>4, <1>r, HistoryStays

-----------------------------------------------------------------------------
(* The theorems.                                                             *)

\* IInv holds in every state: of the driver, and of the server's thread.
THEOREM Inductive == Spec => []IInv
<1>1. ASSUME IInv, [Next]_vars PROVE IInv'
  <2>1. CASE DeviceOpen \/ DeviceRelease \/ DeviceCall
    BY <1>1, <2>1, OpenOrRelease, Calls
  <2>2. CASE DriverThread
    BY <1>1, <2>2, Connects, Sends, Receives, Returns DEF DriverThread
  <2>3. CASE ClientConnect \/ ClientSend \/ HandleCallDevice \/ ServiceStarts
    BY <1>1, <2>3, ClientConnects, ClientSends, OthersStep
  <2>4. CASE ServiceStops
    BY <1>1, <2>4, Ends DEF ServiceStops
  <2>5. CASE ServerThread \/ OsReadWrite
    BY <1>1, <2>5, Accepts, HasRequest, Answers, ReadsOrWrites DEF ServerThread
  <2>6. CASE UNCHANGED vars
    BY <1>1, <2>6, ServedStays DEF IInv, vars, drvVars, tcpVars, srvVars, histVars, TypeOK, ConnPart,
       Unconnected, ServerPart, RunPart, BufferPart, CausePart, Over, StaleReadWasRefused
  <2>7. QED
    BY <1>1, <2>1, <2>2, <2>3, <2>4, <2>5, <2>6 DEF Next
<1>2. QED
  BY InitIInv, <1>1, PTL DEF Spec

\* The variables of driver, connections and server keep their types.
THEOREM TypeCorrect == Spec => []TypeOK
<1>1. IInv => TypeOK
  BY DEF IInv
<1>2. QED
  BY Inductive, <1>1, PTL

\* device_read gives its caller an earlier request's bytes only when every
\* connection since was refused.
THEOREM StaleReadsWereRefused == Spec => []StaleReadWasRefused
<1>1. IInv => StaleReadWasRefused
  BY DEF IInv
<1>2. QED
  BY Inductive, <1>1, PTL

\* What device_read and device_write reported as done was done, or the
\* connection was refused or broken.
THEOREM UnservedHaveACause == Spec => []UnservedHasACause
<1>1. ASSUME IInv PROVE UnservedHasACause
  <2>1. ASSUME NEW n \in Request, n < request \/ (n = request /\ ~Calling)
        PROVE  n <= Over
    BY <1>1, <2>1 DEF IInv, TypeOK, Over, Calling, DrvPc, Request
  <2>2. QED
    BY <1>1, <2>1 DEF IInv, CausePart, UnservedHasACause
<1>2. QED
  BY Inductive, <1>1, PTL

\* The reply of a request that is over cannot reach the next one.
ReplyIsForRequest ==
  /\ reply > 0 => reply = request /\ reply \in served
  /\ drv \in {"connect", "open", "closed"} =>
       /\ conn = "none" /\ reply = NoReply
       /\ clientsocket # Driver /\ \A i \in 1 .. Len(backlog) : backlog[i] # Driver

\* socket_recv_data never sees the reply of another request.
THEOREM RepliesAreForRequests == Spec => []ReplyIsForRequest
<1>1. ASSUME IInv PROVE ReplyIsForRequest
  <2>1. reply > 0 => reply = request /\ reply \in served
    BY <1>1 DEF IInv, ConnPart, NoReply
  <2>2. drv \in {"connect", "open", "closed"} => Unconnected
    BY <1>1 DEF IInv, ConnPart
  <2>3. QED
    BY <2>1, <2>2 DEF ReplyIsForRequest, Unconnected, At
<1>2. QED
  BY Inductive, <1>1, PTL


\* The driver or the server's thread can go on, whatever they are waiting for.
GoesOn ==
  \/ drv \in {"connect", "send", "complete"}
  \/ drv = "recv" /\ (reply # NoReply \/ conn \in {"closed", "reset"})
  \/ server = "accept" /\ backlog # <<>>
  \/ server = "recv" /\ sent[clientsocket] # "nothing"
  \/ server \in {"open", "send"}

\* While device_read or device_write waits there is something under way for it,
\* but for what CallEnds names: the spinning thread, a silent program, a device
\* that does not answer.
CallStallsForAReason == Calling => GoesOn \/ Spins \/ Blocked \/ server = "device"

\* Driver and server never wait for each other: a read or write that stands still
\* has one of the reasons above.
THEOREM StallsHaveAReason == Spec => []CallStallsForAReason
<1>1. ASSUME IInv, Calling, ~GoesOn, server # "device"
      PROVE  Spins \/ Blocked
  <2>1. CASE drv = "spin"
    BY <1>1, <2>1 DEF IInv, ConnPart, ServerPart, Spins
  <2>2. CASE drv = "recv"
    <3>1. conn = "open" /\ sent[Driver] = "request"
      BY <1>1, <2>2 DEF IInv, ConnPart, ServerPart, TypeOK, GoesOn
    <3>2. clientsocket = Driver \/ backlog # <<>>
      BY <1>1, <3>1 DEF IInv, ConnPart, At
    <3>3. server = "recv" /\ clientsocket # Driver
      BY <1>1, <3>1, <3>2, ConnAssumption DEF IInv, ServerPart, TypeOK, ServerPc, GoesOn
    <3>4. clientsocket \in Client
      BY <1>1, <3>3 DEF IInv, ServerPart, TypeOK, Conn
    <3>5. QED
      BY <1>1, <3>3, <3>4 DEF GoesOn, Blocked
  <2>3. QED
    BY <1>1, <2>1, <2>2 DEF Calling, GoesOn
<1>2. IInv => CallStallsForAReason
  BY <1>1 DEF CallStallsForAReason
<1>3. QED
  BY Inductive, <1>2, PTL

-----------------------------------------------------------------------------
(* Driver and server implement the abstract remote call.                     *)

\* Only the last request changes its state.
LEMMA LastMoves ==
  ASSUME IInv, request \in Request, UNCHANGED request
  PROVE  StateOfCalls' = [StateOfCalls EXCEPT ![request] = CallState(request)']
<1>1. ASSUME NEW m \in Request, m # request PROVE CallState(m)' = CallState(m)
  BY <1>1 DEF CallState, Request
<1>2. QED
  BY <1>1 DEF StateOfCalls, Request

\* As long as the last request does not change its state either, none does.
LEMMA StateStays ==
  ASSUME IInv, UNCHANGED request, request > 0 => CallState(request)' = CallState(request)
  PROVE  StateOfCalls' = StateOfCalls
<1>1. ASSUME NEW m \in Request PROVE CallState(m)' = CallState(m)
  <2>1. CASE m = request
    BY <2>1 DEF Request
  <2>2. CASE m # request
    BY <2>2 DEF IInv, TypeOK, CallState, Request
  <2>3. QED
    BY <2>1, <2>2
<1>2. QED
  BY <1>1 DEF StateOfCalls, Request

\* A step of the last request, in the words of the abstract call.
LEMMA Moved ==
  ASSUME IInv, request \in Request, UNCHANGED request,
         NEW from, NEW to, CallState(request) = from, CallState(request)' = to
  PROVE  Promise!Moves(request, from, to)
<1>1. StateOfCalls[request] = CallState(request)
  BY DEF StateOfCalls
<1>2. QED
  BY <1>1, LastMoves DEF Promise!Moves

LEMMA PromiseInit == Init => Promise!Init
<1> SUFFICES ASSUME Init PROVE Promise!Init
  OBVIOUS
<1>1. ASSUME NEW n \in Request PROVE CallState(n) = "none"
  BY DEF Init, CallState, Request
<1>2. QED
  BY <1>1 DEF Init, Promise!Init, StateOfCalls, Promise!Request, Request, NotRead, Promise!NotRead

LEMMA PromiseAsk ==
  ASSUME IInv, DeviceCall PROVE Promise!Next
<1>1. /\ request \in Nat /\ request' = request + 1 /\ request' \in Request
      /\ drv = "open" /\ drv' = "connect"
      /\ UNCHANGED <<socketRecvBuf, returned, runs>>
  BY RequestsAssumption DEF IInv, TypeOK, DeviceCall, Request, histVars
<1>2. ASSUME NEW m \in 1 .. request' - 1
      PROVE  m \in Request /\ CallState(m) = "ended" /\ CallState(m)' = "ended"
  <2>1. m \in Request /\ m <= request /\ ~(m > request) /\ ~(m > request') /\ m < request'
    BY <1>1, <1>2, RequestsAssumption DEF Request
  <2>2. m < request \/ ~Calling
    BY <1>1 DEF Calling
  <2>3. QED
    BY <2>1, <2>2 DEF CallState
<1>3. CallState(request') = "none"
  BY <1>1 DEF CallState
<1>4. ASSUME NEW m \in Request
      PROVE  CallState(m)' = IF m = request' THEN "asked" ELSE CallState(m)
  <2>1. CASE m = request'
    BY <1>1, <2>1 DEF CallState, Calling
  <2>2. CASE m > request'
    BY <1>1, <2>2 DEF CallState, Request
  <2>3. CASE m < request'
    BY <1>1, <1>2, <2>3 DEF Request
  <2>4. QED
    BY <1>1, <2>1, <2>2, <2>3 DEF Request
<1>5. StateOfCalls' = [StateOfCalls EXCEPT ![request'] = "asked"]
  BY <1>4 DEF StateOfCalls, Request
<1>6. /\ StateOfCalls[request'] = "none"
      /\ \A m \in 1 .. request' - 1 : StateOfCalls[m] = "ended"
  BY <1>1, <1>2, <1>3 DEF StateOfCalls
<1>7. PICK n \in Request : n = request'
  BY <1>1
<1>8. Promise!Ask(n)
  BY <1>1, <1>5, <1>6, <1>7 DEF Promise!Ask, Promise!Moves
<1>9. QED
  BY <1>8 DEF Promise!Next, Promise!Request, Request

\* A refused connection ends the call with the bytes the device file has.
LEMMA PromiseRefuse ==
  ASSUME IInv, CreateSocket PROVE Promise!Next \/ UNCHANGED Promise!vars
<1> DEFINE n == request
<1>1. n \in Request /\ runs[n] = 0 /\ CallState(n) = "asked"
  BY DEF IInv, TypeOK, ConnPart, ServerPart, CreateSocket, Request, CallState, Calling, served
<1>2. CASE server = "down"
  <2>1. CallState(n)' = "done"
    BY <1>1, <1>2 DEF CreateSocket, CallState, Calling, Request
  <2>2. Promise!Moves(n, "asked", "done")
    BY <1>1, <2>1, Moved DEF CreateSocket
  <2>3. Promise!Refuse(n)
    BY <1>1, <1>2, <2>2 DEF Promise!Refuse, CreateSocket
  <2>4. QED
    BY <1>1, <2>3 DEF Promise!Next, Promise!Request, Request
<1>3. CASE server # "down"
  <2>1. CallState(n)' = "asked"
    BY <1>1, <1>3 DEF CreateSocket, CallState, Calling, Request
  <2>2. StateOfCalls' = StateOfCalls
    BY <1>1, <2>1, StateStays DEF CreateSocket
  <2>3. QED
    BY <2>2 DEF Promise!vars, CreateSocket
<1>4. QED
  BY <1>2, <1>3

\* socket_recv_data takes the reply of a request the device has been reached
\* by, or finds the connection broken.
LEMMA PromiseReceive ==
  ASSUME IInv, SocketRecvData PROVE Promise!Next
<1> DEFINE n == request
<1>1. n \in Request /\ CallState(n) = "asked" /\ CallState(n)' = "done"
  BY DEF IInv, TypeOK, ConnPart, SocketRecvData, Request, CallState, Calling
<1>2. CASE reply # NoReply
  <2>1. runs[n] = 1 /\ socketRecvBuf' \in {0, n}
    BY <1>1, <1>2 DEF IInv, ConnPart, RunPart, TypeOK, SocketRecvData, NoReply, served
  <2>2. Promise!Moves(n, "asked", "done")
    BY <1>1, Moved DEF SocketRecvData
  <2>3. Promise!Answer(n)
    BY <2>1, <2>2 DEF Promise!Answer, SocketRecvData, histVars
  <2>4. QED
    BY <1>1, <2>3 DEF Promise!Next, Promise!Request, Request
<1>3. CASE reply = NoReply
  <2>1. Promise!Moves(n, "asked", "done")
    BY <1>1, Moved DEF SocketRecvData
  <2>2. Promise!Break(n)
    BY <1>3, <2>1 DEF Promise!Break, SocketRecvData, histVars
  <2>3. QED
    BY <1>1, <2>2 DEF Promise!Next, Promise!Request, Request
<1>4. QED
  BY <1>2, <1>3

LEMMA PromiseReturn ==
  ASSUME IInv, DeviceReturn PROVE Promise!Next
<1> DEFINE n == request
<1>1. n \in Request /\ CallState(n) = "done" /\ CallState(n)' = "ended"
  BY DEF IInv, TypeOK, ConnPart, DeviceReturn, Request, CallState, Calling
<1>2. Promise!Moves(n, "done", "ended")
  BY <1>1, Moved DEF DeviceReturn
<1>3. Promise!ReturnRead(n) \/ Promise!ReturnWrite(n)
  BY <1>2 DEF Promise!ReturnRead, Promise!ReturnWrite, DeviceReturn
<1>4. QED
  BY <1>1, <1>3 DEF Promise!Next, Promise!Request, Request

\* The server runs the device for the driver's request, once, or for another
\* program.
LEMMA PromiseRun ==
  ASSUME IInv, OsReadWrite PROVE Promise!Next \/ UNCHANGED Promise!vars
<1> DEFINE n == request
<1>1. /\ UNCHANGED <<drv, request, socketRecvBuf, returned>>
      /\ CallState(n)' = CallState(n)
  BY DEF OsReadWrite, drvVars, CallState, Calling
<1>2. StateOfCalls' = StateOfCalls
  BY <1>1, StateStays
<1>3. CASE clientsocket = Driver
  <2>1. drv = "recv" /\ n \in Request /\ runs[n] = 0
    BY <1>3 DEF IInv, TypeOK, ConnPart, ServerPart, RunPart, OsReadWrite, Request, served
  <2>2. StateOfCalls[n] = "asked"
    BY <2>1 DEF StateOfCalls, CallState, Calling, Request
  <2>3. runs' = [runs EXCEPT ![n] = 1]
    BY <1>3, <2>1 DEF OsReadWrite
  <2>4. Promise!Run(n)
    BY <1>1, <1>2, <2>1, <2>2, <2>3 DEF Promise!Run
  <2>5. QED
    BY <2>1, <2>4 DEF Promise!Next, Promise!Request, Request
<1>4. CASE clientsocket # Driver
  BY <1>1, <1>2, <1>4 DEF OsReadWrite, Promise!vars
<1>5. QED
  BY <1>3, <1>4

\* What neither begins nor ends anything for the caller.
LEMMA PromiseStutters ==
  ASSUME IInv, UNCHANGED <<request, socketRecvBuf, returned, runs>>,
         \/ UNCHANGED drv
         \/ drv \in {"closed", "open"} /\ drv' \in {"closed", "open"}
         \/ drv = "send" /\ drv' \in {"spin", "recv"}
  PROVE  UNCHANGED Promise!vars
<1>1. CallState(request)' = CallState(request)
  BY DEF CallState, Calling
<1>2. StateOfCalls' = StateOfCalls
  BY <1>1, StateStays
<1>3. QED
  BY <1>2 DEF Promise!vars

LEMMA PromiseStep == IInv /\ [Next]_vars => [Promise!Next]_(Promise!vars)
<1> SUFFICES ASSUME IInv, [Next]_vars
             PROVE  Promise!Next \/ UNCHANGED Promise!vars
  OBVIOUS
<1>1. CASE DeviceOpen \/ DeviceRelease \/ SocketSendData
  BY <1>1, PromiseStutters DEF DeviceOpen, DeviceRelease, SocketSendData, histVars
<1>2. CASE DeviceCall \/ CreateSocket \/ SocketRecvData \/ DeviceReturn \/ OsReadWrite
  BY <1>2, PromiseAsk, PromiseRefuse, PromiseReceive, PromiseReturn, PromiseRun
<1>3. CASE ClientConnect \/ ClientSend \/ HandleCallDevice \/ ServiceStarts
  BY <1>3, PromiseStutters
     DEF ClientConnect, ClientSend, HandleCallDevice, ServiceStarts, drvVars, histVars
<1>4. CASE ServiceStops \/ Accept \/ Recv \/ OsOpen \/ Send
  BY <1>4, PromiseStutters
     DEF ServiceStops, ServerEnds, Accept, Recv, OsOpen, Send, drvVars, histVars
<1>5. CASE UNCHANGED vars
  BY <1>5, PromiseStutters DEF vars, drvVars, histVars
<1>6. QED
  BY <1>1, <1>2, <1>3, <1>4, <1>5 DEF Next, DriverThread, ServerThread

\* The driver and the TCP server implement the abstract remote call: each read
\* or write reaches the device once at most, and a read returns the device's
\* bytes, none, or after a refused connection those the file gave last.
THEOREM ImplementsRemoteCall == Spec => KeepsPromise
<1>1. Spec => Promise!Init /\ [][Promise!Next]_(Promise!vars)
  BY Inductive, PromiseInit, PromiseStep, PTL DEF Spec
<1>2. QED
  BY <1>1 DEF KeepsPromise, Promise!Spec


=============================================================================
