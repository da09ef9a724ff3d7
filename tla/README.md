# FZ IoT Framework: specifications and proofs

TLA+ modules, TLC instances and TLAPS proofs kept beside the FZ IoT Framework.
The framework lets a program call sensors and other devices by name, wherever
in a small cluster of hosts they are attached. The definitions are translated
from the source under `src/`; `PROJECT.json` maps every one to its lines.

## 1. Inventory

| Part | State it keeps | Operations | Hard behaviour |
|---|---|---|---|
| `fz-sdk/fz_ipc`: signal IPC between SDK processes and the call device service | client: `can_communicate`, `result`, segment; server: `handler_item_dict`, a lock, a command and a thread per client; the kernel: one pending SIGUSR1 per process | establish, communicate, close; create, attach and unlink segments | signals dropped while one is pending, handler vs. handler thread, session removal vs. the next call, exceptions that end a thread |
| `fz-sdk/fz_sdk.py`: call routing | none beyond the call | `fz_call_device`, `migrate_process` | stale directory answers, requests without a timeout, migration polling |
| `fz-host-manager-service` | `hosts`, `devices`, `heartbeat_timeout_count` | addNewHost, quitNotice, quit, queryDevice, queryHost, devices; the update and initialize threads | handlers change the dictionaries under the update thread, cumulative timeouts, no request timeout, silent partial failures |
| `fz-process-migration-service` | checkpoint files in a shared directory, docker containers | dump, restore | shared directory per image, source stopped before the target runs |
| `fz-call-device-service` | device files held open, TCP thread | callDevice, IPC handler, TCP read/write | three callers contend for exclusive files; one error ends the TCP thread |
| `fz_g_remote_dev` driver | `Device_Open`, `conn_socket`, receive buffer, completion | open, release, read, write | unlocked open counter, stale buffer after a failed connection |
| sensor and GPIO drivers | `Device_Open`, `bits`, `data` | open, release, read, write | the same counter; dht11 bit reader |
| `fire-alarm-service` | server's `data`, page state | recvData, data, polling page | overlapping requests, answers out of order |
| `take_picture_tool.c`, build files | none | | pure I/O and configuration |

How they interact: a program calls `fz_call_device`, which asks the local host
manager where the device is (HTTP). A local device is called through the signal
IPC; a remote one through `/callDevice` of its host; a special device (`fz_s_`)
by migrating the whole process to the host and back. The host managers poll
each other's device lists; that poll is also the heartbeat. The remote driver
reaches the TCP server of the call device service.

What makes each part correct:

- IPC: a call that returns, returns what the device function produced for that
  call; a request is served at most once; a call hangs only for a known reason;
  segments do not leak and are not removed too early.
- Host manager: the directory follows what hosts last answered; a host that is
  gone leaves it; the heartbeat thread survives whatever the handlers do.
- Membership: hosts that join through the same host meet; a quit is heard; a
  host that has stopped is forgotten.
- Routing: a call reaches the device it names, wherever it is; it ends.
- Migration: the process runs on exactly one host, and comes back.
- Device service and drivers: a device file is used by one caller at a time;
  what a read returns is the answer to that read.
- Page: what it shows does not go back in time.

## 2. Modules

| Module | Content |
|---|---|
| `DeviceCall` | abstract specification: what a local device call promises |
| `FzIpc` | the signal and shared-memory protocol, its properties, the refinement mapping to `DeviceCall` |
| `FzIpcProofs` | inductive invariant and safety theorems of `FzIpc`; the proof that it implements `DeviceCall` |
| `MCFzIpc` | TLC instance |
| `HostManager` | one host manager among the hosts of its cluster |
| `HostManagerProofs` | inductive invariant and safety theorems of `HostManager` |
| `MCHostManager` | TLC instance |
| `RemoteCall` | abstract specification: what the remote device driver promises the process that has it open |
| `RemoteDev` | the remote device driver and the TCP server thread it talks to; the refinement mapping to `RemoteCall` |
| `RemoteDevProofs` | inductive invariant and safety theorems of `RemoteDev`; the proof that it implements `RemoteCall` |
| `MCRemoteDev` | TLC instance |
| `CharDevice` | open and release of a device file, common to the five drivers |
| `MCCharDevice` | TLC instance |
| `Placement` | abstract specification: where a migrating process is |
| `ProcessMigration` | `migrate_process` and the dump and restore handlers; the refinement mapping to `Placement` |
| `ProcessMigrationProofs` | inductive invariant and safety theorems of `ProcessMigration`; the proof that it implements `Placement` |
| `MCProcessMigration` | TLC instances |
| `HostMembership` | the host managers of a cluster: who knows whom |
| `HostMembershipProofs` | inductive invariant and safety theorems of `HostMembership` |
| `MCHostMembership` | TLC instance |
| `LocalDevices` | `get_local_devices` and the aliases of a query, as operators |
| `MCLocalDevices` | every small configuration, against a definition without lists |
| `LocalDevicesProofs` | the proof that they agree for configurations of every length |
| `CallDevice` | calls of generic devices from the program to the device file; uses `LocalDevices` |
| `CallDeviceProofs` | inductive invariant and safety theorems of `CallDevice` |
| `MCCallDevice` | TLC instance: two hosts with their configurations and drivers |
| `Dht11` | the bit reader of the temperature sensor and the sensor's line |
| `MCDht11` | TLC instances |
| `FireAlarm` | the fire alarm's server and the page that polls it |
| `MCFireAlarm` | TLC instance |
| `MeasurementProofs` | inductive invariants and safety theorems of `Dht11`, `CharDevice` and `FireAlarm` |

How they compose: `CallDevice` takes its lists of devices from `LocalDevices`
and stands on what other modules establish. The directory it reads is the one
`HostManager` keeps; a local call is what `DeviceCall` promises, refused or
never answered for the reasons `FzIpc` finds; that a file is open once is what
`CharDevice` has for opens that do not overlap. Its special devices are
`ProcessMigration`. `HostMembership` has all hosts, and of each `HostManager`
the evictions it may make and the end of its update thread. `RemoteDev` has the driver together with the server
thread it talks to. `MeasurementProofs` extends the three modules a measured
value passes, from the sensor's line to the page; that is why the definitions of
`CharDevice` and `FireAlarm` that every module has (`Init`, `Next`, `Spec`,
`TypeOK`, `vars`) begin with `Device` and `Page`.

### FzIpc

`pc` is the main thread of a client: `idle` outside a call, `created` between
the creation of the segment and the ESTABLISH signal, `connect` in the loop on
`can_communicate`, `wait` in the loop on `result`, `raised` after an exception.
`shmName[c]` is the number of the call whose segment has the client's name in
`/dev/shm` (0: none); `shmBuf[c][n]` is what the segment of call `n` holds, so
that a segment attached by the server and unlinked or replaced meanwhile keeps
its content, as in Linux. `clientSig[c]` and `serverSig` are the pending
signals. `activation` is the set of running server signal handlers, each at
its dictionary lookup or past it. `thread[c]` is the control point of the
`SignalHandlerThread`, `itemLocked[c]` its lock.

One action per step another thread or process can observe: `CallBegin`,
`Establish`, `Connected`, `CallReturn` (client main thread),
`ClientCommunication`, `ClientEstablish` (client handler, atomic because the
process has one thread and the signal is blocked in its own handler),
`ServerDeliver`, `HandlerLookup`, `HandlerNew`, `HandlerKnown` (server handler),
`ThreadAcquire`, `ThreadDispatch`, `ThreadEstablish`, `ThreadHandle`,
`ThreadReply`, `ThreadUnlink`, `ThreadDelete` (handler thread). Exceptions are
outcomes: existing segment and request too long (`CallBegin` to `raised`),
missing segment (`HandlerNew`), KeyError and RuntimeError (`HandlerKnown`), a
device function that raises (`ThreadHandle` to `dead`). `lost` is history: the
client had a signal `dropped` by the kernel or `absorbed` by a handler that
could do nothing with it.

### DeviceCall

The state of each call of each client: none, asked, served, answered, refused,
broken. `KeepsPromise` is `DeviceCall!Spec` under the mapping `CallState`. It
leaves out that a call ends, because the code does not ensure it.

### HostManager

`hosts`, `devices`, `heartbeatTimeoutCount` are the dictionaries. The update
thread (`updater`) goes through `BeginRound` (the view), `AskHost`,
`ReceiveAnswer` or `LoseAnswer`, `HandleHeartbeatTimeout`, `UpdateDevices` and
`EndRound`; it can end up `stuck` (an answer that never comes; the request has
no timeout) or `dead` (KeyError). `InitializeRequest` and `InitializeUpdate` are
the initialize thread before and after the answer of the existing host.
`HandleAddNewHost` and `HandleQuitNotice` are the two handlers that change the
directory; the query handlers only read it. Other hosts come and go
(`HostComesOrGoes`), devices too (`DriverComesOrGoes`, any list that
`get_local_devices` can return). `departed`, `quitInRound` and `answered` are
history. The dictionary update of one answer is one step: only the update
thread writes `devices`, and a reader sees one entry.

### RemoteDev

`drv` is the driver: `open` between calls, then the steps of
`communicate_thread` (`connect`, `send`, `recv`) to `complete`, when
`device_read` copies `socketRecvBuf` to the user; `spin` is the loop of
`socket_send_data` that a persistent error never leaves. `conn`, `sent`, `reply`
and `backlog` are what TCP holds. `server` is the accept loop of
`run_tcp_server`, `down` once an exception or the operator ended it
(`ServerEnds`). `ClientConnect` and `ClientSend` are other programs on the port,
`HandleCallDevice` the other handlers of the service that open the same device
file. The history variables `returned`, `refused` and `broken` say what became
of each request, `runs` how often it has reached the device. Abstracted: a reply
arrives in one piece, a request fits the 128 bytes of a message, `device_number`
is in range.

### RemoteCall

The state of each read or write: none, asked, done, ended; `runs`, how often it
has reached the device; `bytes`, what the device file gives a read; `returned`,
what each read got. A request runs once at most and only while its caller waits.
An answer and a broken connection replace the bytes, a refused connection leaves
them: the driver ignores the result of `communicate`, and the abstract read
returns old bytes just there (`Refuse`). That a request returns is left out, for
the code does not ensure it. `KeepsPromise` is `RemoteCall!Spec` under the
mapping `CallState`.

### CharDevice

`Device_Open` is tested, incremented and decremented without a lock. The module
gives every load and store a step (`OpenTest`, `OpenIncrement`, `OpenStore`,
`ReleaseDecrement`, `ReleaseStore`) and lets the compiler reuse the tested
value. `RemoteDev` has one process in the driver: `ExclusiveUnlessOverlap` says
when that is so.

### ProcessMigration

`container[h][n]` is what the container of name `n` on host `h` runs.
`CallSpecialDevice`, `PostEnds`, `PollEnds` and `CallDeviceFunction` are the
migrating branch of `fz_call_device` with `migrate_process`: the outcome of the
dump request is ignored, so `PostEnds` is one action for an answer, an error
and the 0.8 s timeout. A program acts only where its process runs. The target
is a host of `DeviceHost`, or `NoHost` for a device nobody lists, whose name the
code takes for a host that is not this one. Each migration has a dump handler
(`DumpEnter`, `DumpMakeDirs`, `DumpRmtree`, `DumpCheckpoint`, `DumpPostRestore`,
`DumpEnds`) and a restore handler (`RestoreStop`, `RestoreCreate`,
`RestoreStart`, `RestoreRm`). Every docker command may fail, and nothing looks
at it: when `docker stop` or `docker rm` does, the old container stays, running
or not, and with it `docker create` fails. Failures of `chmod`, and of the last
`rm -r`, which would leave a checkpoint that nobody loads, are left out.
`checkpoint` is the set of migrations whose checkpoint is in the shared
directory, `saved` the images there and `images` those each docker has: docker
save belongs to `DumpPostRestore` and docker load to `RestoreStop`, for the tar
file gets its name when it is complete and nobody else removes it. `fault` is
history: what last went wrong with a process. `docker create` receives
`--ipc=host --pid=host` as a single argument (line 134): if docker refuses that,
every restore fails and every migration loses its process. That is docker's
decision, so the model allows both outcomes. Abstracted: `grep` finds exact
names, a checkpoint is there or not.

`KeepsPlacement` is `Placement!Spec` under `PlaceOf`: on the host it runs on, in
transit while a checkpoint will be restored, lost otherwise.

### HostMembership

`hosts[h]` is the dictionary of the service of `h`, itself included. A newcomer
asks one host (`JoinRequest`: it is added there), which answers with its
dictionary as it is when the answer is written (`JoinAnswer`), and adds what it
is told (`JoinMerge`); nobody tells the others. `Quit` takes the list of
addresses, `QuitPost` tells one of them, and one that is not there raises
(`quit` becomes `raised`). The service runs on after a quit, as in the code;
`Stop` ends it. `HeartbeatTimeout` is the failed request that is one too many:
since no answer resets the count, a host that runs may be dropped by it as well
as one that does not (`host_manager_service.py:44-51`, `63-72`). The counts
themselves are in `HostManager`; here any running host may be dropped by any
other as often as the bound on losses allows, and a stopped one always.
`HeartbeatEnds` takes a service out of `beats`, those whose update thread runs:
the thread has died by KeyError at line 71 or waits for ever at line 47. A
request of a join and the post of a quit may fail for a running host too.
`dropped` is history: whom a service has dropped. So is `bound`: for each
quitter, who ought to forget it, which is whom it knew, without those that it or
a host that told them of it has reached since.

### LocalDevices and CallDevice

A configuration is the three settings of `config.py`. `GetLocalDevices` folds
`AddAlias` and `Ignore` over them as the loops do. `MCLocalDevices` states what
that comes to (`ListedAsConfigured`): a name is listed if it occurs as a driver
file, an extra device or an alias that leads to one, more often than it is
ignored; an alias leads to its device by way of aliases before it only.

In `CallDevice`, `QueryDevice` asks the host manager of `Here` and takes the
branch, local or remote; `QueryHost` asks for the address; `CallFunction` is the
service that looks the function up and opens the file, `CallFails` the same
when there is no service, function or file, or the file is busy; `Read` ends
the call and closes the file. Over HTTP a failure is an exception in the
program (an error page is not JSON); over IPC nothing comes back and the call
hangs. Of the IPC, which `FzIpc` has in detail, there are the segment of each
program (`segment`) and what the service keeps of its last call (`session`).
`IpcBegin` raises when the segment of the last call is still there
(`ipc_client.py:31`), or for a request that is too long, which leaves its
segment behind; `IpcLost` is a signal of the call discarded for one of another
program, or absorbed by the thread of the session before; `Unlink` and `Delete`
clear a session away, unless its CLOSE is lost. `Poll` is one host's answer to the host manager, with what
`GetLocalDevices` says there. Quits and joins, drivers, services and hosts that
fall silent are `Event`s between any two steps. `clear` is history: the calls
whose device could be called when they began, with nothing changed since; for a
local call, which had no session left, and during which no other program has
had a signal under way. Two
of the framework's device functions are in the instance, the temperature
sensor's under the name it is registered by, `call_fz_g_dht11`
(`device_functions/fz_g_dht11/__init__.py:3`), which is not the name of its
driver: it can be called only if a host adds it to its devices.

Not callable at all: an alias of another host. The directory lists it, but
`queryDevice` and the host's device functions know only their own names.

### Dht11

`phase` counts the sensor's phases: released, the response low and high, each
bit low and high, a last low, rest. `pc` is the loop the driver is in. The
sensor does not wait: `SensorAdvances` may come before the driver has sampled a
phase, which then counts as missed. A stored bit is a pair of the reading that
stored it and the bit of the frame it is the length of, `Garbled` if the driver
saw the line fall late; the values of bits and the conversion of a count to a
bit are abstracted to that. `BitTooLong` is the break of line 117, before the
`return -1`. `whole` and `missed` say whether the reading had a frame in time,
and what the driver did not see of it.

### FireAlarm

`Tick` is the function of the page's interval: the argument of `finally` is
evaluated when the request is sent, so the guard is set back at once. Requests
are answered (`HandleGetData`) and shown (`Then`) in any order or lost
(`Rejected`). Posts are numbered; `RecvData` is one, by any program.

## 3. Runs

| Run | Instance | What it shows |
|---|---|---|
| `ipc` | 2 clients, 3 calls each, fairness | turns, lock use, what is read from segments; every hang and leftover has a known cause; refinement of `DeviceCall`; unlinks and drops; calls end and are cleaned up unless a signal was lost or the device function raised |
| `hosts` | this host and another, 2 device names, limit 1, fairness | death of the heartbeat thread, dangling entries, entries against answers; silent hosts are dropped, offered devices listed |
| `remote` | 3 requests, another program, fairness | stale reads and unserved requests have a known cause; refinement of `RemoteCall`; reads and writes return, but for a spin, a silent program or a device that hangs |
| `chardevice` | 2 processes | exclusive use unless two opens overlap |
| `migration_safety` | 2 processes of one image, 2 hosts, 1 call each; same or different names, chosen in `Init`; a device may be listed by no host | never twice; a loss, a late dump, a process left abroad have a known cause; a container is created where its image is; refinement of `Placement` |
| `migration_liveness` | 2 processes of one image with different names, a device on one host, fairness | a migration ends unless something went wrong |
| `membership` | 3 hosts, 3 starts, 2 quits, stops, evictions of running hosts or ends of threads, fairness | who is sure to have met whom; a quit that raises nothing is heard by all who knew the quitter; a stopped host is forgotten |
| `local_devices` | 4 names, 3 files, up to 1 extra device, 2 aliases, 2 ignored names | the list against a definition without lists |
| `calldevice` | 2 programs, 2 calls each, 4 names, 2 hosts, 2 events, fairness | a call that nothing disturbed returns; files are closed and exclusive; a call ends, unless it is local and fails or loses a signal, its host is silent, or its device does not answer |
| `dht11` | 6 bits, 2 readings, 2 missed phases, fairness | what a reading that succeeds is made of; it ends unless the line stays low between two bits |
| `dht11_40bits` | 4 bits, the same | violated: a reading that succeeds without all its bits (below) |
| `firealarm` | 3 requests under way, 3 posts, fairness | when the page goes back to older data; that it comes to show the last |

Bounds. Two clients are enough for a drop, which needs another client's signal
pending; the second call of a client meets what its first left behind, and the
third what a session that swallowed the second call's signals leaves. This host
and another are enough for a device name to move between hosts and for a quit of
the one while the other is asked, and the theorems about `HostManager` hold for
every set of hosts; a limit of one has a timeout that is only counted and one
that evicts. Three requests give a refused read bytes that are two requests old,
and another program is served before the driver, waits behind it or keeps it
waiting; the server sees one connection at a time, and the theorems about
`RemoteDev` hold for any number of programs (with two the run was made once:
1.18 million states, no error). Two processes of one image, with one container
name or two, disturb each other in every way the services allow: processes of
different images share no checkpoint directory, so that their steps are among
these, and a second image was tried once (1.28 million states, no error). One
call is two migrations, there and back. Three hosts make a chain of two joins or
two joins through one host; the third start may be a restart, and a second quit
or stop meets the posts of the first. Two losses are also a quit and the end of
an update thread, or two joiners that drop each other (988 thousand states). Two aliases, one on top of the other or of
one device, meet a device that is listed twice and ignored once or twice. Two
programs contend for a file and for the one pending signal of the service, the
second call of each meets the session of its first, and two events are a change
and its reversal (752 thousand states). The
dht11 reader treats all bits alike but the first and the last; the second
reading meets what the first left in `bits`; two missed phases are a bit that is
lost whole. With three requests one is overtaken twice.

Deadlock is checked in `local_devices` and `firealarm` only: elsewhere clients
stop making calls or a bound of the model is used up, and a hung call is
something the code does (`NoSilentStall` and `RemoteCallsEnd` say when).

Fairness. In `FairSpec` of `FzIpc`: the kernel delivers a pending signal, the
client's main thread polls again, handlers and handler threads run; no client
has to make a call. In `FairSpec` of `HostManager`: the two threads of the
service run; nothing is assumed of other hosts. In `RemoteDev`: the driver's
kernel thread and the server thread run; a device need not answer
(`OsReadWrite` has no fairness, the dht11 driver can wait for ever), and other
programs and the operator do as they like. In `ProcessMigration`: programs,
handlers and docker commands run to their end. In `HostMembership`: an update
thread that runs counts the failures of a host that does not, to the last; that
requests to a running host fail, that a join goes on and that a thread ends is
not assumed, nor is any start, stop or quit. In `CallDevice`: programs and
services run; a device need not answer (`Read` has no fairness), no session need
be cleared away, and polls, drivers and quits need not happen. In `Dht11`: the driver's
loops run, and the sensor goes on until it fails. All are weak fairness of a
thread's next step, which the scheduler gives. `FireAlarm` needs strong
fairness of an answer and of showing it: that not every request is lost, though
each may be. The liveness properties hold unless the heartbeat thread is stuck
or dead, and for calls unless a signal was lost or the device does not answer:
without those exceptions the code does not have them.

The violated run. `read_dht11` expects "40bits data" and has a `return -1` for a
bit that does not end, but the `break` before it leaves the loop over the bits
(`src/fz_g_dht11/fz_g_dht11.c:117`), and the reading succeeds with what `bits`
held before: zeros, or an earlier reading. `SuccessIsAllBits` is refuted by a
line that stays high after the first bit, and by a driver that misses one phase
and waits for a bit the sensor has already sent. The checksum, which would often
tell, is left to the caller. What does hold of every reading that succeeds is
`ReadingIsOrdered`, and `UndisturbedReadingIsFrame` of one that nothing
disturbed.

## 4. Proofs

Each component has an inductive invariant, `IInv` in its proof module
(`DeviceInv` and `PageInv` for the second and third in `MeasurementProofs`),
proved to hold initially and to be kept by every action (theorem `Inductive`,
one lemma per action or group of actions); the theorems follow from it.
`LocalDevicesProofs` has none: its module has no steps to speak of. TLC has
checked every inductive invariant on an instance. What is proved is proved for
every value of the constants.

`FzIpcProofs!IInv` says, for each client, where its one command is: resting,
being opened, travelling to the server or back, being served, or swallowed; and
what that fixes of the client's program counter, the item, the lock, the
command, the segment name and the segments' contents. `OneCommandInFlight` alone
is not inductive: that a release finds the lock held depends on the item the
command goes to, and that the answer is in the segment depends on which call
the item was created for. From `IInv` follow all invariants of `ipc`, that a
request is read from its own segment (`RequestBeforeHandle`), that an unknown
client's first signal is an ESTABLISH, and the two action properties.
`HInv` adds the history of finished calls, and `ImplementsDeviceCall` follows:
each step maps to a step of `DeviceCall` or a stutter.

`HostManagerProofs!IInv` adds to the properties that a host in the rest of the
view, or being asked, is still in the directory or quit in this round
(`ViewPart`, `BusyPart`), and that no count is over the limit unless the thread
died on it (`CountPart`). `TypeOK` is not inductive by itself: that the count
stays in range needs `CountPart`, that it is never kept for this host `BusyPart`.

`MeasurementProofs!DeviceInv` adds to the properties that, without an overlap, the
value a process has loaded is what its place says (0 after the test, 1 after the
increment, 0 after the decrement): without it the stores could set the counter
to anything.

`ProcessMigrationProofs!IInv` relates two handlers on two hosts to the program
they move. `HandlerPart` says for each migration how far its dump and its
restore can be, given the hop the process is at; `JourneyPart` where the
process is while it waits for a migration, and while it is at the device. Two
handlers of one process never work at the same time, and that is why it never
runs twice. `ImagePart` says that what a later stage loads has been saved by an
earlier one. The steps are classified once (`StepMoves`): as far as a process
is concerned, every one of them leaves it where it is, or ends it, dumps it or
starts it. `NeverTwice`, `LossHasACause`, `NoLateDump`, `ImageComesFirst`,
`CallLeavesProcessHome` and the refinement of `Placement` follow, and that no
migration is forgotten (`StallsHaveAReason`): a handler ends only on a failure,
or with its process on the target.

`RemoteDevProofs!IInv` says at which end of its connection the driver's request
is. The connection is open exactly as long as the server has it or will accept
it (`ConnPart`), the server is past the driver's message only when the driver
waits for the reply (`ServerPart`), and after a call there is neither a
connection nor a reply left. That the receive buffer is never older than the
last connection that came about (`BufferPart`), and the cause of every request
not served (`CausePart`), need that much of both sides. With it a call that
stands still is shown to do so for a reason `CallEnds` excepts
(`StallsHaveAReason`): neither side ever waits for the other. `RunPart` adds that
the server has not run the request of a connection it still has to answer. It is
what `ImplementsRemoteCall` needs: each step is a step of `RemoteCall` or a
stutter, one lemma for each action that is a step.

`MeasurementProofs!IInv` has three layers. `FramePart`: as long as no phase was
missed, the loop and `i` follow the phase of the line one to one, and the bits
before `i` are the frame's. `StoredPart`: whatever was missed, exactly the bits
before `i` are this reading's. `PastPart`: the bits counted are those the sensor
is past, so that the next one can only be a later bit. From the types alone follows
the safety half of `ReadEnds`: a reading that cannot go on stands in the loop for
the end of a low phase, the one without a bound, on a line that stays low
(`ReadsWaitOnlyBetweenBits`), and every step of a reading, the driver's or the
sensor's, lowers the natural number `StepsLeft` (`ReadingsGetOn`): none goes
round for ever.

`MeasurementProofs!PageInv`: an answer under way that was not overtaken is no
older than what the page shows. Showing an answer makes every other request
under way an overtaken one, which is why the page can go back only by one of
those (`PageGoesBack`, of every step of the page).

`LocalDevicesProofs` shows that the loops of `get_local_devices` compute what
`ListedAsConfigured` says, for settings of every length. The induction theorems
of the library take an operator and cannot be used; induction is stated here for
a set (`NatSetInduction`, `IntervalInduction`), from the well-foundedness of the
natural numbers. From it come the existence of the recursive function behind a
fold (`FoldExists`) and what each loop has done after `n` rounds: the ignore
loop takes one occurrence of a name for each time it is ignored (`IgnoreLoop`),
and the alias loop adds an alias exactly if the aliases before it lead to a
listed device (`AliasLoop`, `LeadsStep`).

`HostMembershipProofs!IInv`: of the hosts that must forget a quitter, those that
know it are still to be told (`QuitPart`), for which a service that does not run
has to know itself only (`DownPart`). While nobody has left, a host loses from
its dictionary only what it drops itself, so that `Met`, what it knows or has
dropped, only grows; each newcomer is in that of its contact from its request on,
and of two the one answered last has been told of the other, unless the contact
had dropped it by then (`JoinPart`).

`CallDeviceProofs!IInv`: the open files are exactly those of the calls that
read, one each (`OpenPart`); a clear call that has not reached its device could
still be carried out, and finds no segment and no foreign signal in its way when
it is local (`ClearPart`); every session has its segment until it ends, and a
call that has asked has no session but one about to be deleted (`SessionPart`),
so that no call waits for an older session; a call hangs only where
`fz_call_device` takes the local branch (`LocalPart`), so that a remote call
stands still only for a silent host or a device that does not answer
(`StallsHaveAReason`).

Assumptions on constants, all named in the modules: bounds and limits are
natural numbers, a frame has at least one bit, placeholders such as `NoHost` are
no hosts and no connections, this host is one of the hosts (in `HostManager`, is
not one of the others); the drivers and the three settings of `config.py` are
names and lists of names, and a directory has finitely many files. `CharDevice`
needs none.

Model-checked only: the liveness properties, for fairness and `ENABLED` are out
of TLAPS's reach (`CallEndsUnlessLost`, `AnsweredCallIsCleanedUp`,
`SilentHostIsDropped`, `OfferedDeviceIsListed`, `CallEnds`, `MigrationEnds`,
`StoppedIsForgotten`, `RemoteCallsEnd`, `ReadEnds`, `PageCatchesUp`). Of
`CallEndsUnlessLost` (by `NoSilentStall`), `CallEnds`, `MigrationEnds`,
`RemoteCallsEnd` and `ReadEnds` the safety half is proved: nothing stands still
but for the reasons they except. Every safety property of a passing run, each
action property and each of the three refinements is proved.

## 5. Hazards

`PROJECT.json` lists them with the properties that would catch them. What the
runs and proofs establish is conditional on purpose: the code can drop signals,
die on a quit notice, wait for ever for an answer, store half a reading; the
properties say that there is no further cause. Two hazards have no property. The
signal callback is Python code in an asynchronous handler
(`fz_signal_utils.py:56`) and may find the interpreter in the middle of
anything, which is below what the modules see. And hosts that join through
different hosts may never learn of each other, for nobody passes a newcomer on
(`host_manager_service.py:75`): the code promises nothing there.

## 6. The plan

What the code's own logic needs is modelled, and every safety property of the
runs is proved. What could be added:

1. The safety halves of the other liveness properties: in which states of
   `HostManager` a silent host is on its way out of the directory, and of
   `FireAlarm` a post on its way to the page.
2. One module for a host with all its services. The interfaces between the
   modules (section 2) are stated in words; a composition of `CallDevice` with
   `FzIpc` in place of its segments and sessions would check one of them, at the cost
   of the product of their states.

## 7. Not modelled

- The fire alarm application (`app.py`, `utils.py`). It is a loop of calls that
  `CallDevice` and `ProcessMigration` have one by one, and as it stands it does
  not get past its first: it asks for `fz_g_dht11`, for which no function is
  registered (the function's name is `call_fz_g_dht11`), so that the call raises
  or hangs; and the function reads one byte where `get_tempreture` takes five
  (`ret[4]`), so that with an alias it raises as well. Nothing catches that:
  the program ends. `FireAlarm` takes posts as any program's. The page's
  current host is never filled, for the posts have no host name.
- The webcam tool, a straight sequence of V4L2 calls; build and load scripts;
  logging.
- Reads and writes of single pins (mq2, light sensor, GPIO controller): no state
  between calls. Loading and unloading of the driver modules, but for the
  appearance of their device files.
- Code that is never called: `query_device` and `query_host` of the call device
  service, `move_ckpt_files` of the migration service.
- The reloader of flask's debug mode, which runs each service's main module
  twice; one of the two processes fails to bind the port.
- Pid reuse, malformed HTTP bodies, two hosts with one name or address, signals
  of processes outside the SDK.
