--------------------------- MODULE HostMembership ---------------------------
(***************************************************************************)
(* The host manager services of a cluster and who of them knows whom: a    *)
(* host joins by way of one host that is there, is told of by nobody else, *)
(* and leaves by telling the hosts it knows or by falling silent.          *)
(*                                                                         *)
(* HostManager has one of these services in detail, with its rounds and    *)
(* devices; here a service may at any time have counted enough failed      *)
(* requests to a host, running or not, and its update_devices thread may   *)
(* die or hang.  A host has one name and address.                          *)
(***************************************************************************)
EXTENDS Integers

CONSTANTS Host, Nobody,
          MaxStarts,       \* how often services are started, all in all
          MaxLosses        \* how often they are told to quit, stop, or meet a fault

ASSUME NobodyAssumption == Nobody \notin Host
ASSUME BoundAssumption  == {MaxStarts, MaxLosses} \subseteq Nat

VARIABLES
  \* The running services, their hosts dictionaries, and the services whose
  \* update_devices thread runs.
  up, hosts, beats,
  \* initialize_thread: its control point, the existing host, its answer.
  joiner, via, hostsDict,
  \* handle_quit: its control point and the hosts still to be told.
  quit, toTell,
  \* History: the starts, the quits and stops, the faults; who has to forget a host that
  \* quits; the hosts that a service has dropped for their failed requests.
  starts, leaves, faults, bound, dropped

dirVars  == <<up, hosts, beats>>
joinVars == <<joiner, via, hostsDict>>
quitVars == <<quit, toTell>>
histVars == <<starts, leaves, faults, bound, dropped>>
vars     == <<dirVars, joinVars, quitVars, histVars>>

JoinerPc == {"request", "dump", "merge", "first", "joined", "failed"}

Init ==
  /\ up = {} /\ hosts = [h \in Host |-> {h}] /\ beats = {}
  /\ joiner = [h \in Host |-> "first"] /\ via = [h \in Host |-> Nobody]
  /\ hostsDict = [h \in Host |-> {}]
  /\ quit = [h \in Host |-> "no"] /\ toTell = [h \in Host |-> {}]
  /\ starts = 0 /\ leaves = 0 /\ faults = 0
  /\ bound = [h \in Host |-> {}] /\ dropped = [h \in Host |-> {}]

-----------------------------------------------------------------------------
(* What may go wrong in a service that runs.                                 *)

\* A quit or a stop.
Leaves ==
  /\ leaves + faults < MaxLosses
  /\ leaves' = leaves + 1 /\ faults' = faults

\* A thread that ends, or a request that fails though the host runs.
Fault ==
  /\ leaves + faults < MaxLosses
  /\ faults' = faults + 1 /\ leaves' = leaves

\* A request to e raises a RequestException.
Fails(e) == IF e \in up THEN Fault ELSE UNCHANGED <<leaves, faults>>

-----------------------------------------------------------------------------
(* initialize_thread of h and addNewHost of the existing host.               *)

\* h goes on from one control point of its join to another.
Joins(h, from, to) == joiner[h] = from /\ joiner' = [joiner EXCEPT ![h] = to]

Adds(e, S) == hosts' = [hosts EXCEPT ![e] = @ \cup S]

\* Those who learn of a host that has quit are excused from forgetting it.
Excused(n, S) == bound' = [q \in Host |-> IF q \in S THEN bound[q] \ {n} ELSE bound[q]]

\* Mutants: the newcomer enters the existing host only; it goes on entering the
\* answer it had.
JoinMergeContactOnly(h) ==
  /\ Joins(h, "merge", "joined")
  /\ Adds(h, {via[h]})
  /\ UNCHANGED <<up, beats, via, hostsDict, quitVars, histVars>>

JoinMergeRepeats(h) ==
  /\ joiner[h] = "merge" /\ Adds(h, hostsDict[h]) /\ Excused(h, hostsDict[h])
  /\ UNCHANGED <<up, beats, joinVars, quitVars, starts, leaves, faults, dropped>>

\* add_new_host, on the existing host.
JoinRequest(h) ==
  /\ Joins(h, "request", "dump")
  /\ via[h] \in up
  /\ Adds(via[h], {h}) /\ Excused(via[h], {h})
  /\ UNCHANGED <<up, beats, via, hostsDict, quitVars, starts, leaves, faults, dropped>>

\* The answer: its hosts as they are by then.
JoinAnswer(h) ==
  /\ Joins(h, "dump", "merge")
  /\ via[h] \in up
  /\ hostsDict' = [hostsDict EXCEPT ![h] = hosts[via[h]]]
  /\ UNCHANGED <<dirVars, via, quitVars, histVars>>

\* hosts.update.
JoinMerge(h) ==
  /\ Joins(h, "merge", "joined")
  /\ Adds(h, hostsDict[h]) /\ Excused(h, hostsDict[h])
  /\ hostsDict' = [hostsDict EXCEPT ![h] = {}]
  /\ UNCHANGED <<up, beats, via, quitVars, starts, leaves, faults, dropped>>

\* A RequestException, which nothing catches.
JoinFails(h) ==
  /\ joiner[h] \in {"request", "dump"} /\ Fails(via[h])
  /\ joiner' = [joiner EXCEPT ![h] = "failed"]
  /\ UNCHANGED <<dirVars, via, hostsDict, quitVars, starts, bound, dropped>>

Joiner(h) == JoinRequest(h) \/ JoinAnswer(h) \/ JoinMerge(h) \/ JoinFails(h)

-----------------------------------------------------------------------------
(* update_devices_thread of h.                                              *)

\* One failed request too many.  No answer resets the count, so that a host that
\* runs is dropped too, for exceptions that may be far apart.
HeartbeatTimeout(h, n) ==
  /\ h \in beats /\ n \in hosts[h] \ {h} /\ Fails(n)
  /\ hosts' = [hosts EXCEPT ![h] = @ \ {n}]
  /\ dropped' = [dropped EXCEPT ![h] = @ \cup {n}]
  /\ UNCHANGED <<up, beats, joinVars, quitVars, starts, bound>>

\* The thread dies popping a host that a quit notice has taken out meanwhile, or
\* waits for ever in a request that has no timeout.
HeartbeatEnds(h) ==
  /\ h \in beats /\ Fault
  /\ beats' = beats \ {h}
  /\ UNCHANGED <<up, hosts, joinVars, quitVars, starts, bound, dropped>>

-----------------------------------------------------------------------------
(* handle_quit of h and quitNotice of the hosts it tells.                    *)

Quit(h) ==
  /\ h \in up /\ quit[h] = "no"
  /\ quit' = [quit EXCEPT ![h] = "telling"]
  /\ toTell' = [toTell EXCEPT ![h] = hosts[h] \ {h}]
  /\ bound' = [bound EXCEPT ![h] = hosts[h] \ {h}]
  /\ Leaves
  /\ UNCHANGED <<dirVars, joinVars, starts, dropped>>

\* Mutant: the exception is caught around the loop.
QuitPostCatches(h) ==
  \E n \in toTell[h] :
    /\ toTell' = [toTell EXCEPT ![h] = IF n \in up THEN @ \ {n} ELSE {}]
    /\ hosts' = IF n \in up THEN [hosts EXCEPT ![n] = @ \ {h}] ELSE hosts
    /\ UNCHANGED <<up, beats, joinVars, quit, histVars>>

\* One post; an exception, of a host that is not there or of the request, leaves
\* the others untold.
QuitPost(h) ==
  \E n \in toTell[h] :
    \/ /\ n \in up
       /\ hosts' = [hosts EXCEPT ![n] = @ \ {h}]
       /\ toTell' = [toTell EXCEPT ![h] = @ \ {n}]
       /\ UNCHANGED <<up, beats, joinVars, quit, histVars>>
    \/ /\ Fails(n)
       /\ toTell' = [toTell EXCEPT ![h] = {}]
       /\ quit' = [quit EXCEPT ![h] = "raised"]
       /\ UNCHANGED <<dirVars, joinVars, starts, bound, dropped>>

QuitEnds(h) ==
  /\ quit[h] = "telling" /\ toTell[h] = {}
  /\ quit' = [quit EXCEPT ![h] = "told"]
  /\ UNCHANGED <<dirVars, joinVars, toTell, histVars>>

-----------------------------------------------------------------------------
(* The operator starts and stops services.                                  *)

\* The first host has no existing host to ask.
Start(h) ==
  /\ h \notin up /\ starts < MaxStarts
  /\ starts' = starts + 1
  /\ up' = up \cup {h} /\ beats' = beats \cup {h}
  /\ \E e \in (Host \ {h}) \cup {Nobody} :
       /\ via' = [via EXCEPT ![h] = e]
       /\ joiner' = [joiner EXCEPT ![h] = IF e = Nobody THEN "first" ELSE "request"]
  /\ UNCHANGED <<hosts, hostsDict, quitVars, leaves, faults, bound, dropped>>

\* The service stops, or its host does: its dictionaries are gone.
Stop(h) ==
  /\ h \in up
  /\ up' = up \ {h} /\ beats' = beats \ {h} /\ Leaves
  /\ hosts' = [hosts EXCEPT ![h] = {h}]
  /\ joiner' = [joiner EXCEPT ![h] = "first"] /\ via' = [via EXCEPT ![h] = Nobody]
  /\ hostsDict' = [hostsDict EXCEPT ![h] = {}]
  /\ quit' = [quit EXCEPT ![h] = "no"] /\ toTell' = [toTell EXCEPT ![h] = {}]
  /\ bound' = [bound EXCEPT ![h] = {}] /\ dropped' = [dropped EXCEPT ![h] = {}]
  /\ UNCHANGED starts

Next == \E h \in Host :
  \/ Start(h) \/ Stop(h) \/ Joiner(h) \/ Quit(h) \/ QuitPost(h) \/ QuitEnds(h)
  \/ HeartbeatEnds(h)
  \/ \E n \in Host : HeartbeatTimeout(h, n)

Spec == Init /\ [][Next]_vars

\* An update thread that runs counts the timeouts of a host that does not, to the
\* last.  Nothing says that a join goes on, that requests to a host that runs fail,
\* nor that the thread ends; starts, stops and quits are up to the operator.
FairSpec ==
  /\ Spec
  /\ \A h \in Host : WF_vars(\E n \in Host \ up : HeartbeatTimeout(h, n))

-----------------------------------------------------------------------------

\* The type invariant of services and history.
TypeOK ==
  /\ beats \subseteq up /\ up \subseteq Host
  /\ hosts \in [Host -> SUBSET Host] /\ \A h \in Host : h \in hosts[h]
  /\ joiner \in [Host -> JoinerPc] /\ via \in [Host -> Host \cup {Nobody}]
  /\ hostsDict \in [Host -> SUBSET Host]
  /\ quit \in [Host -> {"no", "telling", "told", "raised"}]
  /\ toTell \in [Host -> SUBSET Host]
  /\ starts \in 0 .. MaxStarts /\ leaves \in 0 .. MaxLosses /\ faults \in 0 .. MaxLosses
  /\ bound \in [Host -> SUBSET Host] /\ dropped \in [Host -> SUBSET Host]

Joined(h) == h \in up /\ joiner[h] = "joined"

\* The hosts that h knows, or knew until their requests failed too often.
Met(h) == hosts[h] \cup dropped[h]

\* Nobody tells the others of a newcomer, so that two hosts may never learn of
\* each other; but of two that joined by way of the same host, one at least has
\* got to know the other, even when both joined at once, unless the host they
\* joined by had dropped one of them.
JoinersMeet ==
  leaves = 0 => \A g, h \in Host :
    Joined(g) /\ Joined(h) /\ via[g] = via[h] =>
      g \in Met(h) \/ h \in Met(g) \/ dropped[via[h]] \cap {g, h} # {}

\* When quit is over without an exception, no host that the quitter knew knows
\* it any more, but for those that it, or a host that told them of it, has
\* reached after the quit began.
QuitIsHeard ==
  \A q, n \in Host : quit[q] = "told" /\ n \in bound[q] \cap up => q \notin hosts[n]

\* A host that has stopped for good is forgotten by every host that runs on and
\* whose update thread does, those included that learn of it afterwards, from a
\* host that still knows it.
StoppedIsForgotten ==
  \A n, h \in Host : <>[](n \notin up /\ h \in beats) => <>[](n \notin hosts[h])

=============================================================================
