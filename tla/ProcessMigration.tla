-------------------------- MODULE ProcessMigration --------------------------
(***************************************************************************)
(* Calls of special devices: fz_sdk.py migrates the calling process, which *)
(* runs in a docker container, to the host of the device and back, by way  *)
(* of the process migration services of the two hosts and of a directory   *)
(* they share.                                                             *)
(*                                                                         *)
(* The service runs every request on a thread of its own and checks the    *)
(* result of no command.  A dump stops the process and leaves a checkpoint *)
(* under containers/ of its image's directory; the dump handler then posts *)
(* the restore to the target and waits for it.                             *)
(***************************************************************************)
EXTENDS Integers

CONSTANTS Process, Host, Image,
          NoHost,        \* the hostName of a device nobody lists
          DeviceHost,    \* what queryDevice may answer: hosts, NoHost
          Name, Naming,  \* container names, and the ways processes are named
          NoContainer,   \* no container has the name
          Idle,          \* the container exists and does not run
          MaxCalls       \* how many device calls a process makes

ASSUME ContainerAssumption ==
  NoContainer # Idle /\ NoContainer \notin Process /\ Idle \notin Process
ASSUME NamingAssumption == Naming \subseteq [Process -> Name]
ASSUME DeviceHostAssumption == NoHost \notin Host /\ DeviceHost \subseteq Host \cup {NoHost}
ASSUME MaxCallsAssumption == MaxCalls \in Nat

Hop     == 1 .. 2 * MaxCalls
Handler == Process \X Hop          \* a process asks for one dump at a time

VARIABLES
  \* What each process is: its image and its container's name on every host.
  image, name,
  \* Docker: what the container of each name on each host runs.
  container,
  \* The process: where its program is, the host it called from, the host it
  \* migrates to, and how many migrations it has asked for.
  pc, oldHost, targetHost, hop,
  \* The two services: the control points of the dump and of the restore
  \* handler of each migration, and the host that dumps.
  dump, restore, source,
  \* The shared directory: files_dir of the images, checkpoints of migrations,
  \* the images saved to it; and the images docker has on each host.
  filesDir, checkpoint, saved, images,
  \* History: what went wrong with each process last.
  fault

constVars == <<image, name>>
procVars  == <<pc, oldHost, targetHost, hop>>
shipVars  == <<saved, images>>
vars == <<constVars, container, procVars, dump, restore, source, filesDir,
          checkpoint, shipVars, fault>>

ProcessPc == {"program", "post", "poll", "device"}
DumpPc    == {"none", "enter", "mkdir", "rmtree", "checkpoint", "post", "wait", "done", "raised"}
RestorePc == {"none", "stop", "create", "start", "rm", "done"}
Fault     == {"none", "command", "killed", "wiped", "stranded"}

Runs(p, h) == container[h][name[p]] = p
Running(p) == \E h \in Host : Runs(p, h)

Target(d) == targetHost[d[1]]
Box(d)    == container[Target(d)][name[d[1]]]

Init ==
  /\ image \in [Process -> Image]
  /\ name \in Naming
  /\ \E at \in [Process -> Host] :
       /\ \A p, q \in Process : at[p] = at[q] /\ name[p] = name[q] => p = q
       /\ container = [h \in Host |-> [n \in Name |->
                         IF \E p \in Process : at[p] = h /\ name[p] = n
                           THEN CHOOSE p \in Process : at[p] = h /\ name[p] = n
                           ELSE NoContainer]]
       /\ oldHost = at /\ targetHost = at
  /\ pc = [p \in Process |-> "program"]
  /\ hop = [p \in Process |-> 0]
  /\ dump = [d \in Handler |-> "none"] /\ restore = [d \in Handler |-> "none"]
  /\ source = [d \in Handler |-> CHOOSE h \in Host : TRUE]
  /\ filesDir = [i \in Image |-> FALSE]
  /\ checkpoint = {} /\ saved = {}
  /\ images = [h \in Host |-> {image[p] : p \in {q \in Process : oldHost[q] = h}}]
  /\ fault = [p \in Process |-> "none"]

-----------------------------------------------------------------------------
(* Checkpoints and failures.                                                *)

\* The checkpoints under the containers directory of the handler's image.
Siblings(d) == {e \in checkpoint : image[e[1]] = image[d[1]]}

\* Another handler writes or removes files under that directory.
Touched(d) ==
  \E e \in Handler \ {d} :
    image[e[1]] = image[d[1]] /\ (dump[e] \in {"rmtree", "checkpoint"} \/ restore[e] = "rm")

\* A checkpoint on its way: it will be restored.
OnTheWay(d) ==
  d \in checkpoint /\ (dump[d] = "post" \/ restore[d] \in {"stop", "create", "start"})
InTransit(p) == \E k \in Hop : OnTheWay(<<p, k>>)

\* The dumped or restored process has a failed command against it.
Fails(d) == fault' = [fault EXCEPT ![d[1]] = "command"]

-----------------------------------------------------------------------------
(* Mutants: actions as a plausible slip in the code would have made them.    *)
(* None is part of Next; each stands in for the action it is named after to  *)
(* show that a property notices.                                             *)

\* migrate_process without its last loop: it returns after the request.
PollEndsAtOnce(p) ==
  /\ pc[p] = "poll" /\ Running(p)
  /\ pc' = [pc EXCEPT ![p] = IF targetHost[p] = oldHost[p] THEN "program" ELSE "device"]
  /\ UNCHANGED <<constVars, shipVars, container, oldHost, targetHost, hop, dump, restore,
                 source, filesDir, checkpoint, fault>>

\* docker checkpoint create --leave-running.
DumpCheckpointLeavesRunning(d) ==
  /\ dump[d] = "checkpoint"
  /\ dump' = [dump EXCEPT ![d] = "post"]
  /\ checkpoint' = IF Runs(d[1], source[d]) THEN checkpoint \cup {d} ELSE checkpoint
  /\ UNCHANGED <<constVars, shipVars, container, procVars, restore, source, filesDir, fault>>

\* The dump handler answers without asking the target to restore.
DumpPostRestoreSkips(d) ==
  /\ dump[d] = "post"
  /\ dump' = [dump EXCEPT ![d] = "done"]
  /\ UNCHANGED <<constVars, shipVars, container, procVars, restore, source, filesDir,
                 checkpoint, fault>>

\* The restore is asked for before the image is saved.
DumpPostRestoreBeforeSave(d) ==
  /\ dump[d] = "post" /\ Target(d) # NoHost
  /\ dump' = [dump EXCEPT ![d] = "wait"]
  /\ restore' = [restore EXCEPT ![d] = "stop"]
  /\ UNCHANGED <<constVars, shipVars, container, procVars, source, filesDir, checkpoint,
                 fault>>

\* The checkpoint is removed before the container is started from it.
RestoreCreateCleansUp(d) ==
  /\ restore[d] = "create"
  /\ restore' = [restore EXCEPT ![d] = "start"]
  /\ container' = [container EXCEPT ![Target(d)][name[d[1]]] =
                     IF @ = NoContainer THEN Idle ELSE @]
  /\ checkpoint' = checkpoint \ {d}
  /\ UNCHANGED <<constVars, shipVars, procVars, dump, source, filesDir, fault>>

-----------------------------------------------------------------------------
(* The process: fz_call_device with a special device, and migrate_process.   *)

\* The dump request of migrate_process reaches the service of the host.
PostDump(p, h, t) ==
  /\ hop' = [hop EXCEPT ![p] = @ + 1]
  /\ targetHost' = [targetHost EXCEPT ![p] = t]
  /\ dump' = [dump EXCEPT ![<<p, hop[p] + 1>>] = "enter"]
  /\ source' = [source EXCEPT ![<<p, hop[p] + 1>>] = h]
  /\ pc' = [pc EXCEPT ![p] = "post"]

\* The device is on another host, or on none that is known: remember this one
\* and migrate there.
CallSpecialDevice(p) ==
  \E h \in Host, t \in DeviceHost :
    /\ pc[p] = "program" /\ Runs(p, h) /\ t # h
    /\ hop[p] + 2 <= 2 * MaxCalls
    /\ oldHost' = [oldHost EXCEPT ![p] = h]
    /\ PostDump(p, h, t)
    /\ UNCHANGED <<constVars, shipVars, container, restore, filesDir, checkpoint, fault>>

\* The request is answered, fails or times out after 0.8 s: all the same.
PostEnds(p) ==
  /\ pc[p] = "post" /\ Running(p)
  /\ pc' = [pc EXCEPT ![p] = "poll"]
  /\ UNCHANGED <<constVars, shipVars, container, oldHost, targetHost, hop, dump, restore,
                 source, filesDir, checkpoint, fault>>

\* The current host is the target: the migration is over, to the device on the
\* way there, to the caller on the way back.
PollEnds(p) ==
  /\ pc[p] = "poll" /\ targetHost[p] # NoHost /\ Runs(p, targetHost[p])
  /\ pc' = [pc EXCEPT ![p] = IF targetHost[p] = oldHost[p] THEN "program" ELSE "device"]
  /\ UNCHANGED <<constVars, shipVars, container, oldHost, targetHost, hop, dump, restore,
                 source, filesDir, checkpoint, fault>>

\* The device function returns and the process migrates back, or it raises and
\* the caller goes on where the process is.
CallDeviceFunction(p) ==
  \E h \in Host :
    /\ pc[p] = "device" /\ Runs(p, h)
    /\ \/ /\ PostDump(p, h, oldHost[p])
          /\ UNCHANGED fault
       \/ /\ pc' = [pc EXCEPT ![p] = "program"]
          /\ fault' = [fault EXCEPT ![p] = "stranded"]
          /\ UNCHANGED <<hop, targetHost, dump, source>>
    /\ UNCHANGED <<constVars, shipVars, container, oldHost, restore, filesDir, checkpoint>>

-----------------------------------------------------------------------------
(* handle_dump_process of the host the process runs on.                      *)

\* The lookups, and the test for files_dir.  Without a running container the
\* lookups give empty names, and no command that follows finds anything.
DumpEnter(d) ==
  /\ dump[d] = "enter"
  /\ dump' = [dump EXCEPT ![d] =
                IF ~Runs(d[1], source[d]) THEN "done"
                ELSE IF filesDir[image[d[1]]] THEN "rmtree" ELSE "mkdir"]
  /\ UNCHANGED <<constVars, shipVars, container, procVars, restore, source, filesDir,
                 checkpoint, fault>>

\* os.makedirs raises when another dump has made the directory meanwhile.
DumpMakeDirs(d) ==
  /\ dump[d] = "mkdir"
  /\ \/ /\ ~filesDir[image[d[1]]]
        /\ filesDir' = [filesDir EXCEPT ![image[d[1]]] = TRUE]
        /\ dump' = [dump EXCEPT ![d] = "rmtree"]
        /\ UNCHANGED fault
     \/ /\ filesDir[image[d[1]]]
        /\ dump' = [dump EXCEPT ![d] = "raised"]
        /\ Fails(d)
        /\ UNCHANGED filesDir
  /\ UNCHANGED <<constVars, shipVars, container, procVars, restore, source, checkpoint>>

\* shutil.rmtree removes the checkpoints of every container of the image.  It
\* raises, half done, when files come or go under it.
DumpRmtree(d) ==
  /\ dump[d] = "rmtree"
  /\ \/ /\ checkpoint' = checkpoint \ Siblings(d)
        /\ dump' = [dump EXCEPT ![d] = "checkpoint"]
     \/ /\ Touched(d)
        /\ \E gone \in SUBSET Siblings(d) : checkpoint' = checkpoint \ gone
        /\ dump' = [dump EXCEPT ![d] = "raised"]
  /\ fault' = [p \in Process |->
       IF \E k \in Hop : OnTheWay(<<p, k>>) /\ <<p, k>> \notin checkpoint' THEN "wiped"
       ELSE IF p = d[1] /\ dump'[d] = "raised" THEN "command"
       ELSE fault[p]]
  /\ UNCHANGED <<constVars, shipVars, container, procVars, restore, source, filesDir>>

\* docker checkpoint create stops the process and leaves its checkpoint, or
\* fails and leaves the process running: it is not there any more, or CRIU
\* finds something it cannot save.
DumpCheckpoint(d) ==
  /\ dump[d] = "checkpoint"
  /\ dump' = [dump EXCEPT ![d] = "post"]
  /\ \/ /\ Runs(d[1], source[d])
        /\ checkpoint' = checkpoint \cup {d}
        /\ container' = [container EXCEPT ![source[d]][name[d[1]]] = Idle]
        /\ UNCHANGED fault
     \/ /\ Fails(d)
        /\ UNCHANGED <<checkpoint, container>>
  /\ UNCHANGED <<constVars, shipVars, procVars, restore, source, filesDir>>

\* docker save, unless the image is saved already, or its failure; then the
\* restore request, or an exception: the target is not in the directory (NoHost
\* never is) or does not answer.
DumpPostRestore(d) ==
  /\ dump[d] = "post"
  /\ saved' \in {saved, saved \cup {image[d[1]]}}
  /\ \/ /\ Target(d) # NoHost
        /\ dump' = [dump EXCEPT ![d] = "wait"]
        /\ restore' = [restore EXCEPT ![d] = "stop"]
        /\ IF image[d[1]] \in saved' THEN UNCHANGED fault ELSE Fails(d)
     \/ /\ dump' = [dump EXCEPT ![d] = "raised"]
        /\ Fails(d)
        /\ UNCHANGED restore
  /\ UNCHANGED <<constVars, images, container, procVars, source, filesDir, checkpoint>>

DumpEnds(d) ==
  /\ dump[d] = "wait" /\ restore[d] = "done"
  /\ dump' = [dump EXCEPT ![d] = "done"]
  /\ UNCHANGED <<constVars, shipVars, container, procVars, restore, source, filesDir,
                 checkpoint, fault>>

-----------------------------------------------------------------------------
(* handle_restore_process of the target.                                     *)

\* docker load, if the host does not have the image, of what was saved, or its
\* failure; then a container of that name is stopped and removed, whatever it
\* runs, if both succeed: one that was not stopped cannot be removed.
RestoreStop(d) ==
  /\ restore[d] = "stop"
  /\ restore' = [restore EXCEPT ![d] = "create"]
  /\ \E loaded \in SUBSET (saved \cap {image[d[1]]}) :
       images' = [images EXCEPT ![Target(d)] = @ \cup loaded]
  /\ \E left \in IF Box(d) = NoContainer THEN {NoContainer} ELSE {NoContainer, Idle, Box(d)} :
       /\ container' = [container EXCEPT ![Target(d)][name[d[1]]] = left]
       /\ fault' = [p \in Process |->
            IF Box(d) = p /\ left # p THEN "killed"
            ELSE IF p = d[1] /\ image[p] \in saved \ images'[Target(d)] THEN "command"
            ELSE fault[p]]
  /\ UNCHANGED <<constVars, saved, procVars, dump, source, filesDir, checkpoint>>

\* docker create makes a container that does not run yet, or fails: the name is
\* in use again, or docker refuses the options (the two constant ones are
\* passed as a single argument).  Nobody looks at the error.
RestoreCreate(d) ==
  /\ restore[d] = "create"
  /\ restore' = [restore EXCEPT ![d] = "start"]
  /\ \/ /\ Box(d) = NoContainer /\ image[d[1]] \in images[Target(d)]
        /\ container' = [container EXCEPT ![Target(d)][name[d[1]]] = Idle]
        /\ UNCHANGED fault
     \/ /\ Fails(d)
        /\ UNCHANGED container
  /\ UNCHANGED <<constVars, shipVars, procVars, dump, source, filesDir, checkpoint>>

\* docker start --checkpoint goes on with the process where it was dumped, or
\* fails: the checkpoint is not there, the container runs already or is gone,
\* or CRIU cannot restore it.
RestoreStart(d) ==
  /\ restore[d] = "start"
  /\ restore' = [restore EXCEPT ![d] = "rm"]
  /\ \/ /\ d \in checkpoint /\ Box(d) = Idle
        /\ container' = [container EXCEPT ![Target(d)][name[d[1]]] = d[1]]
        /\ UNCHANGED fault
     \/ /\ Fails(d)
        /\ UNCHANGED container
  /\ UNCHANGED <<constVars, shipVars, procVars, dump, source, filesDir, checkpoint>>

\* The checkpoint is removed; were it to stay, nobody would load it any more.
RestoreRm(d) ==
  /\ restore[d] = "rm"
  /\ restore' = [restore EXCEPT ![d] = "done"]
  /\ checkpoint' = checkpoint \ {d}
  /\ UNCHANGED <<constVars, shipVars, container, procVars, dump, source, filesDir, fault>>

-----------------------------------------------------------------------------

Program(p) == PostEnds(p) \/ PollEnds(p) \/ CallDeviceFunction(p)

HandleDump(d) ==
  \/ DumpEnter(d) \/ DumpMakeDirs(d) \/ DumpRmtree(d) \/ DumpCheckpoint(d)
  \/ DumpPostRestore(d) \/ DumpEnds(d)

HandleRestore(d) ==
  RestoreStop(d) \/ RestoreCreate(d) \/ RestoreStart(d) \/ RestoreRm(d)

Next ==
  \/ \E p \in Process : CallSpecialDevice(p) \/ Program(p)
  \/ \E d \in Handler : HandleDump(d) \/ HandleRestore(d)

Spec == Init /\ [][Next]_vars

\* Programs, services and docker commands run to their end.
FairSpec ==
  /\ Spec
  /\ \A p \in Process : WF_vars(Program(p))
  /\ \A d \in Handler : WF_vars(HandleDump(d)) /\ WF_vars(HandleRestore(d))

-----------------------------------------------------------------------------

\* The type invariant of processes, services, containers and checkpoints.
TypeOK ==
  /\ image \in [Process -> Image] /\ name \in [Process -> Name]
  /\ container \in [Host -> [Name -> Process \cup {NoContainer, Idle}]]
  /\ pc \in [Process -> ProcessPc]
  /\ oldHost \in [Process -> Host] /\ targetHost \in [Process -> Host \cup {NoHost}]
  /\ hop \in [Process -> 0 .. 2 * MaxCalls]
  /\ dump \in [Handler -> DumpPc] /\ restore \in [Handler -> RestorePc]
  /\ source \in [Handler -> Host]
  /\ filesDir \in [Image -> BOOLEAN]
  /\ checkpoint \subseteq Handler
  /\ saved \subseteq Image /\ images \in [Host -> SUBSET Image]
  /\ fault \in [Process -> Fault]

\* A process never runs twice, nor while a checkpoint of it is on its way to be
\* restored: stopping it at the source and starting it at the target exclude
\* each other although two services do them.
NeverTwice ==
  \A p \in Process :
    /\ \A g, h \in Host : Runs(p, g) /\ Runs(p, h) => g = h
    /\ Running(p) => ~InTransit(p)

\* A process is nowhere only after a failed command, a restore of another
\* container of the same name on its host, or a dump of another container of
\* the same image that removed its checkpoint.
LossHasACause ==
  \A p \in Process :
    ~Running(p) /\ ~InTransit(p) => fault[p] \in {"command", "killed", "wiped"}

\* The program goes on, at the device or after the call, only when no dump of
\* its process is left that could still stop it: a dump request that timed out
\* has been carried out by then.
NoLateDump ==
  \A p \in Process :
    pc[p] \in {"program", "device"} /\ Running(p) =>
      \A k \in Hop : dump[<<p, k>>] \notin {"enter", "mkdir", "rmtree", "checkpoint"}

\* A call that no command and no other process disturbed leaves the process on
\* the host it was made from.
CallLeavesProcessHome ==
  \A p \in Process :
    pc[p] = "program" /\ fault[p] = "none" => Runs(p, oldHost[p])

\* The container is created where the image is: loaded there from what any dump
\* of the image has saved, whichever of them came first, unless a command failed.
ImageComesFirst ==
  \A d \in Handler :
    restore[d] = "create" /\ fault[d[1]] = "none" => image[d[1]] \in images[Target(d)]

\* A migration that is asked for ends unless something went wrong.
MigrationEnds ==
  \A p \in Process :
    pc[p] \in {"post", "poll"} ~> (pc[p] \in {"program", "device"} \/ fault[p] # "none")

-----------------------------------------------------------------------------
(* What migration promises is Placement: see that module.                    *)

PlaceOf(p) ==
  IF Running(p) THEN CHOOSE h \in Host : Runs(p, h)
  ELSE IF InTransit(p) THEN "transit" ELSE "lost"

Promise == INSTANCE Placement
             WITH place <- [p \in Process |-> PlaceOf(p)], Transit <- "transit", Lost <- "lost"

\* Every behaviour of the services is one that Placement allows.
KeepsPlacement == Promise!Spec

=============================================================================
