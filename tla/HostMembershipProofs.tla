------------------------ MODULE HostMembershipProofs ------------------------
(***************************************************************************)
(* Proofs about HostMembership for every number of hosts, starts and       *)
(* leaves.  IInv follows a newcomer through initialize_thread and a host   *)
(* that quits through the hosts it has still to tell.                      *)
(***************************************************************************)
EXTENDS HostMembership, TLAPS

\* A service that does not run knows itself only, and has not begun to join.
DownPart == \A h \in Host : h \notin up => hosts[h] = {h} /\ joiner[h] = "first"

\* Of the hosts a quitter has to be forgotten by, only those it has still to
\* tell know it.
QuitPart ==
  \A q \in Host :
    /\ quit[q] # "telling" => toTell[q] = {}
    /\ q \notin bound[q] /\ q \notin toTell[q]
    /\ \A n \in Host :
         quit[q] \in {"telling", "told"} /\ n \in bound[q] /\ n \in up /\ q \in hosts[n] =>
           n \in toTell[q]

\* The hosts that h, which has had its answer, has got to know or is about to.
Learns(h) == Met(h) \cup hostsDict[h]

Answered(h) == joiner[h] \in {"merge", "joined"}

\* As long as nobody has left, only hosts that run are known to others, none is
\* forgotten but by a heartbeat, and of two newcomers the one that was answered
\* last learns of the other, unless the host they joined by had dropped one.
JoinPart ==
  leaves = 0 => \A h \in Host :
    /\ toTell[h] = {}
    /\ hosts[h] \subseteq up \cup {h}
    /\ hostsDict[h] \subseteq up
    /\ joiner[h] # "merge" => hostsDict[h] = {}
    /\ joiner[h] = "dump" \/ Answered(h) => h \in Met(via[h]) /\ via[h] \in up
    /\ \A g \in Host :
         Answered(g) /\ Answered(h) /\ via[g] = via[h] =>
           g \in Learns(h) \/ h \in Learns(g) \/ dropped[via[h]] \cap {g, h} # {}

IInv == TypeOK /\ DownPart /\ QuitPart /\ JoinPart

-----------------------------------------------------------------------------

LEMMA InitIInv == Init => IInv
<1> SUFFICES ASSUME Init PROVE IInv
  OBVIOUS
<1> USE NobodyAssumption, BoundAssumption DEF Init
<1>1. hosts \in [Host -> SUBSET Host] /\ \A h \in Host : h \in hosts[h]
  OBVIOUS
<1>2. starts \in 0 .. MaxStarts /\ leaves \in 0 .. MaxLosses /\ faults \in 0 .. MaxLosses
  OBVIOUS
<1>3. TypeOK
  BY <1>1, <1>2 DEF TypeOK, JoinerPc
<1>4. DownPart /\ QuitPart
  BY DEF DownPart, QuitPart
<1>5. JoinPart
  BY DEF JoinPart, Answered
<1>6. QED
  BY <1>3, <1>4, <1>5 DEF IInv

-----------------------------------------------------------------------------
(* The counts of what goes wrong.                                            *)

LEMMA Loses ==
  ASSUME TypeOK, Leaves
  PROVE  leaves' \in 0 .. MaxLosses /\ leaves' # 0 /\ faults' = faults
BY BoundAssumption DEF TypeOK, Leaves

LEMMA Faults ==
  ASSUME TypeOK, NEW e, Fault \/ Fails(e)
  PROVE  faults' \in 0 .. MaxLosses /\ leaves' = leaves
BY BoundAssumption DEF TypeOK, Fault, Fails

-----------------------------------------------------------------------------
(* initialize_thread.                                                        *)

LEMMA Requests ==
  ASSUME IInv, NEW h \in Host, JoinRequest(h) PROVE IInv'
<1> DEFINE e == via[h]
<1> USE NobodyAssumption DEF IInv, JoinRequest, Joins, Adds, Excused, quitVars
<1>1. e \in Host /\ h \in up
  BY DEF TypeOK, DownPart
<1>2. TypeOK'
  BY <1>1 DEF TypeOK, JoinerPc
<1>3. DownPart'
  BY <1>1 DEF TypeOK, DownPart
<1>4. QuitPart'
  BY <1>1 DEF TypeOK, QuitPart
<1>5. JoinPart'
  <2>1. SUFFICES ASSUME leaves = 0 PROVE JoinPart'
    BY DEF JoinPart
  <2>2. ASSUME NEW g \in Host
        PROVE  /\ hosts[g] \subseteq hosts'[g] /\ hosts'[g] \subseteq up \cup {g}
               /\ joiner'[g] = IF g = h THEN "dump" ELSE joiner[g]
    BY <1>1, <2>1 DEF TypeOK, JoinPart
  <2>3. h \in hosts'[e]
    BY <1>1 DEF TypeOK
  <2>4. QED
    BY <1>1, <2>1, <2>2, <2>3 DEF JoinPart, Answered, Learns, Met
<1>6. QED
  BY <1>2, <1>3, <1>4, <1>5

LEMMA IsAnswered ==
  ASSUME IInv, NEW h \in Host, JoinAnswer(h) PROVE IInv'
<1> DEFINE e == via[h]
<1> USE NobodyAssumption DEF IInv, JoinAnswer, Joins, dirVars, quitVars, histVars
<1>1. e \in Host /\ h \in up
  BY DEF TypeOK, DownPart
<1>2. TypeOK'
  BY <1>1 DEF TypeOK, JoinerPc
<1>3. DownPart'
  BY <1>1 DEF TypeOK, DownPart
<1>4. QuitPart'
  BY DEF QuitPart
<1>5. JoinPart'
  <2>1. SUFFICES ASSUME leaves = 0 PROVE JoinPart'
    BY DEF JoinPart
  <2>2. ASSUME NEW g \in Host
        PROVE  /\ joiner'[g] = IF g = h THEN "merge" ELSE joiner[g]
               /\ hostsDict'[g] = IF g = h THEN hosts[e] ELSE hostsDict[g]
    BY DEF TypeOK
  <2>3. hosts[e] \subseteq up
    BY <1>1, <2>1 DEF JoinPart
  <2>4. \A g \in Host : (Answered(g) \/ g = h) /\ via[g] = e =>
                        g \in Learns(h)' \/ g \in dropped[e]
    BY <1>1, <2>1, <2>2 DEF JoinPart, Learns, Answered, Met
  <2>5. QED
    BY <1>1, <2>1, <2>2, <2>3, <2>4 DEF JoinPart, Answered, Learns, Met
<1>6. QED
  BY <1>2, <1>3, <1>4, <1>5

LEMMA Merges ==
  ASSUME IInv, NEW h \in Host, JoinMerge(h) PROVE IInv'
<1> USE DEF IInv, JoinMerge, Joins, Adds, Excused, quitVars
<1>1. h \in up
  BY DEF DownPart
<1>2. TypeOK'
  BY <1>1 DEF TypeOK, JoinerPc
<1>3. DownPart'
  BY <1>1 DEF TypeOK, DownPart
<1>4. QuitPart'
  BY <1>1 DEF TypeOK, QuitPart
<1>5. JoinPart'
  <2>1. SUFFICES ASSUME leaves = 0 PROVE JoinPart'
    BY DEF JoinPart
  <2>2. ASSUME NEW g \in Host
        PROVE  /\ hosts'[g] = IF g = h THEN hosts[g] \cup hostsDict[g] ELSE hosts[g]
               /\ joiner'[g] = IF g = h THEN "joined" ELSE joiner[g]
               /\ hostsDict'[g] = IF g = h THEN {} ELSE hostsDict[g]
    BY DEF TypeOK
  <2>3. \A g \in Host : /\ Met(g) \subseteq Met(g)' /\ Learns(g) \subseteq Learns(g)'
                        /\ Answered(g) <=> Answered(g)'
    BY <2>2 DEF Learns, Answered, Met
  <2>4. \A g \in Host : joiner[g] = "dump" \/ Answered(g) => via[g] \in Host
    BY <2>1 DEF JoinPart, TypeOK
  <2>5. ASSUME NEW g \in Host
        PROVE  /\ toTell'[g] = {} /\ hosts'[g] \subseteq up' \cup {g}
               /\ hostsDict'[g] \subseteq up' /\ (joiner'[g] # "merge" => hostsDict'[g] = {})
    <3>1. /\ toTell[g] = {} /\ hosts[g] \subseteq up \cup {g} /\ hostsDict[g] \subseteq up
          /\ joiner[g] # "merge" => hostsDict[g] = {}
      BY <2>1 DEF JoinPart
    <3>2. hosts'[g] \subseteq up \cup {g}
      BY <2>2, <3>1
    <3>3. hostsDict'[g] \subseteq up /\ (joiner'[g] # "merge" => hostsDict'[g] = {})
      BY <2>2, <3>1
    <3>4. up' = up /\ toTell' = toTell
      OBVIOUS
    <3>5. QED
      BY <3>1, <3>2, <3>3, <3>4
  <2>6. ASSUME NEW g \in Host, joiner'[g] = "dump" \/ Answered(g)'
        PROVE  g \in Met(via[g])' /\ via[g] \in up
    <3>1. joiner[g] = "dump" \/ Answered(g)
      BY <2>2, <2>3, <2>6
    <3>2. QED
      BY <2>1, <2>3, <2>4, <3>1 DEF JoinPart
  <2>7. ASSUME NEW g \in Host, NEW i \in Host, Answered(g)', Answered(i)', via[g] = via[i]
        PROVE  g \in Learns(i)' \/ i \in Learns(g)' \/ dropped[via[i]] \cap {g, i} # {}
    BY <2>1, <2>3, <2>7 DEF JoinPart
  <2>8. via' = via /\ up' = up /\ dropped' = dropped
    OBVIOUS
  <2>9. QED
    BY <2>5, <2>6, <2>7, <2>8 DEF JoinPart
<1>6. QED
  BY <1>2, <1>3, <1>4, <1>5

LEMMA JoinsNot ==
  ASSUME IInv, NEW h \in Host, JoinFails(h) PROVE IInv'
<1> USE DEF IInv, JoinFails, dirVars, quitVars
<1>1. faults' \in 0 .. MaxLosses /\ leaves' = leaves
  BY Faults
<1>2. TypeOK' /\ DownPart' /\ QuitPart'
  BY <1>1 DEF TypeOK, JoinerPc, DownPart, QuitPart
<1>3. JoinPart'
  BY <1>1 DEF JoinPart, Answered, Learns, Met, TypeOK
<1>4. QED
  BY <1>2, <1>3

-----------------------------------------------------------------------------
(* Heartbeats, quits, starts and stops.                                      *)

\* Nothing that was met is forgotten when a heartbeat gives up a host.
LEMMA TimesOut ==
  ASSUME IInv, NEW h \in Host, NEW n \in Host, HeartbeatTimeout(h, n) PROVE IInv'
<1> USE DEF IInv, HeartbeatTimeout, joinVars, quitVars
<1>1. faults' \in 0 .. MaxLosses /\ leaves' = leaves
  BY Faults
<1>2. TypeOK'
  BY <1>1 DEF TypeOK
<1>3. DownPart' /\ QuitPart'
  BY DEF TypeOK, DownPart, QuitPart
<1>4. JoinPart'
  <2>1. \A g \in Host : hosts'[g] \subseteq hosts[g] /\ dropped[g] \subseteq dropped'[g]
    BY DEF TypeOK
  <2>2. \A g \in Host : Met(g)' = Met(g)
    BY DEF TypeOK, Met
  <2>3. \A g \in Host : Learns(g)' = Learns(g) /\ (Answered(g)' <=> Answered(g))
    BY <2>2 DEF Learns, Answered
  <2>4. SUFFICES ASSUME leaves = 0 PROVE JoinPart'
    BY <1>1 DEF JoinPart
  <2>5. \A g \in Host : joiner[g] = "dump" \/ Answered(g) => via[g] \in Host
    BY <2>4 DEF JoinPart, TypeOK
  <2>6. QED
    BY <1>1, <2>1, <2>2, <2>3, <2>4, <2>5 DEF JoinPart
<1>5. QED
  BY <1>2, <1>3, <1>4

LEMMA TheThreadEnds ==
  ASSUME IInv, NEW h \in Host, HeartbeatEnds(h) PROVE IInv'
<1> USE DEF IInv, HeartbeatEnds, joinVars, quitVars
<1>1. faults' \in 0 .. MaxLosses /\ leaves' = leaves
  BY Faults
<1>2. TypeOK' /\ DownPart' /\ QuitPart'
  BY <1>1 DEF TypeOK, DownPart, QuitPart
<1>3. JoinPart'
  BY <1>1 DEF JoinPart, Answered, Learns, Met
<1>4. QED
  BY <1>2, <1>3

LEMMA Quits ==
  ASSUME IInv, NEW h \in Host, Quit(h) PROVE IInv'
<1> USE DEF IInv, Quit, dirVars, joinVars
<1>1. leaves' \in 0 .. MaxLosses /\ leaves' # 0 /\ faults' = faults
  BY Loses
<1>2. TypeOK' /\ DownPart'
  BY <1>1 DEF TypeOK, DownPart
<1>3. QuitPart'
  BY DEF QuitPart, TypeOK
<1>4. QED
  BY <1>1, <1>2, <1>3 DEF JoinPart

LEMMA Posts ==
  ASSUME IInv, NEW h \in Host, QuitPost(h) PROVE IInv'
<1> USE DEF IInv, dirVars, joinVars, histVars
<1>1. PICK n \in toTell[h] :
        \/ /\ n \in up
           /\ hosts' = [hosts EXCEPT ![n] = @ \ {h}]
           /\ toTell' = [toTell EXCEPT ![h] = @ \ {n}]
           /\ UNCHANGED <<up, beats, joinVars, quit, histVars>>
        \/ /\ Fails(n)
           /\ toTell' = [toTell EXCEPT ![h] = {}]
           /\ quit' = [quit EXCEPT ![h] = "raised"]
           /\ UNCHANGED <<dirVars, joinVars, starts, bound, dropped>>
  BY DEF QuitPost
<1>2. n \in Host /\ quit[h] = "telling" /\ leaves # 0
  BY <1>1 DEF TypeOK, QuitPart, JoinPart
<1>3. CASE Fails(n) /\ quit' = [quit EXCEPT ![h] = "raised"]
  <2>1. faults' \in 0 .. MaxLosses /\ leaves' = leaves
    BY <1>3, Faults
  <2>2. /\ toTell' = [toTell EXCEPT ![h] = {}]
        /\ UNCHANGED <<dirVars, joinVars, starts, bound, dropped>>
    BY <1>1, <1>2, <1>3 DEF TypeOK
  <2>3. TypeOK' /\ DownPart'
    BY <1>3, <2>1, <2>2 DEF TypeOK, DownPart
  <2>4. QuitPart'
    BY <1>2, <1>3, <2>1, <2>2 DEF QuitPart, TypeOK
  <2>5. QED
    BY <1>2, <2>1, <2>3, <2>4 DEF JoinPart
<1>4. CASE /\ n \in up
           /\ hosts' = [hosts EXCEPT ![n] = @ \ {h}]
           /\ toTell' = [toTell EXCEPT ![h] = @ \ {n}]
           /\ UNCHANGED <<up, beats, joinVars, quit, histVars>>
  <2>1. n # h
    BY <1>1 DEF QuitPart
  <2>2. TypeOK'
    BY <1>2, <1>4, <2>1 DEF TypeOK
  <2>3. DownPart' /\ QuitPart'
    BY <1>2, <1>4, <2>1 DEF DownPart, QuitPart, TypeOK
  <2>4. QED
    BY <1>2, <1>4, <2>2, <2>3 DEF JoinPart
<1>5. QED
  BY <1>1, <1>3, <1>4

LEMMA QuitIsOver ==
  ASSUME IInv, NEW h \in Host, QuitEnds(h) PROVE IInv'
<1> USE DEF IInv, QuitEnds, dirVars, joinVars, histVars
<1>1. TypeOK' /\ DownPart'
  BY DEF TypeOK, DownPart
<1>2. QuitPart' /\ JoinPart'
  BY DEF QuitPart, JoinPart, TypeOK, Answered, Learns, Met
<1>3. QED
  BY <1>1, <1>2

LEMMA Starts ==
  ASSUME IInv, NEW h \in Host, Start(h) PROVE IInv'
<1> USE NobodyAssumption, BoundAssumption DEF IInv, quitVars
<1>1. PICK e \in (Host \ {h}) \cup {Nobody} :
        /\ h \notin up /\ starts < MaxStarts
        /\ starts' = starts + 1
        /\ up' = up \cup {h}
        /\ via' = [via EXCEPT ![h] = e]
        /\ joiner' = [joiner EXCEPT ![h] = IF e = Nobody THEN "first" ELSE "request"]
        /\ beats' = beats \cup {h}
        /\ UNCHANGED <<hosts, hostsDict, quitVars, leaves, faults, bound, dropped>>
  BY DEF Start
<1>2. starts' \in 0 .. MaxStarts
  BY <1>1 DEF TypeOK
<1>3. TypeOK'
  BY <1>1, <1>2 DEF TypeOK, JoinerPc
<1>4. DownPart' /\ QuitPart'
  BY <1>1 DEF DownPart, QuitPart, TypeOK
<1>5. JoinPart'
  <2>1. SUFFICES ASSUME leaves = 0 PROVE JoinPart'
    BY <1>1 DEF JoinPart
  <2>2. ASSUME NEW g \in Host
        PROVE  /\ joiner'[g] = IF g # h THEN joiner[g] ELSE IF e = Nobody THEN "first" ELSE "request"
               /\ via'[g] = IF g # h THEN via[g] ELSE e
    BY <1>1 DEF TypeOK
  <2>3. \A g \in Host : /\ Met(g)' = Met(g) /\ Learns(g)' = Learns(g)
                        /\ Answered(g)' => g # h /\ Answered(g)
    BY <1>1, <2>2 DEF Answered, Learns, Met
  <2>4. joiner[h] = "first" /\ \A g \in Host : joiner'[g] = "dump" => joiner[g] = "dump"
    BY <1>1, <2>2 DEF DownPart
  <2>5. \A g \in Host : joiner[g] = "dump" \/ Answered(g) => via[g] \in Host
    BY <2>1 DEF JoinPart, TypeOK
  <2>6. QED
    BY <1>1, <2>1, <2>2, <2>3, <2>4, <2>5 DEF JoinPart
<1>6. QED
  BY <1>3, <1>4, <1>5

LEMMA Stops ==
  ASSUME IInv, NEW h \in Host, Stop(h) PROVE IInv'
<1> USE NobodyAssumption DEF IInv, Stop
<1>1. leaves' \in 0 .. MaxLosses /\ leaves' # 0 /\ faults' = faults
  BY Loses
<1>2. TypeOK'
  BY <1>1 DEF TypeOK, JoinerPc
<1>3. DownPart'
  BY DEF DownPart, TypeOK
<1>4. QuitPart'
  BY DEF QuitPart, TypeOK
<1>5. QED
  BY <1>1, <1>2, <1>3, <1>4 DEF JoinPart

-----------------------------------------------------------------------------
(* The theorems.                                                             *)

\* IInv holds in every state of the services.
THEOREM Inductive == Spec => []IInv
<1>1. ASSUME IInv, [Next]_vars PROVE IInv'
  <2>1. ASSUME NEW h \in Host, Joiner(h) PROVE IInv'
    BY <1>1, <2>1, Requests, IsAnswered, Merges, JoinsNot DEF Joiner
  <2>2. ASSUME NEW h \in Host, Start(h) \/ Stop(h) PROVE IInv'
    BY <1>1, <2>2, Starts, Stops
  <2>3. ASSUME NEW h \in Host, Quit(h) \/ QuitPost(h) \/ QuitEnds(h) PROVE IInv'
    BY <1>1, <2>3, Quits, Posts, QuitIsOver
  <2>4. ASSUME NEW h \in Host, NEW n \in Host, HeartbeatTimeout(h, n) PROVE IInv'
    BY <1>1, <2>4, TimesOut
  <2>5. ASSUME NEW h \in Host, HeartbeatEnds(h) PROVE IInv'
    BY <1>1, <2>5, TheThreadEnds
  <2>6. CASE UNCHANGED vars
    BY <1>1, <2>6 DEF IInv, vars, dirVars, joinVars, quitVars, histVars, TypeOK, DownPart,
       QuitPart, JoinPart, Answered, Learns, Met
  <2>7. QED
    BY <1>1, <2>1, <2>2, <2>3, <2>4, <2>5, <2>6 DEF Next
<1>2. QED
  BY InitIInv, <1>1, PTL DEF Spec

\* The dictionaries and control points keep their types, and no service loses
\* itself from its hosts.
THEOREM TypeCorrect == Spec => []TypeOK
<1>1. IInv => TypeOK
  BY DEF IInv
<1>2. QED
  BY Inductive, <1>1, PTL

\* Of two hosts that joined by way of the same one, one at least has got to know
\* the other, however their requests and answers were interleaved and whatever
\* the heartbeats of running hosts have dropped, but for one of the two.
THEOREM TwoJoinersMeet == Spec => []JoinersMeet
<1>1. IInv => JoinersMeet
  BY DEF IInv, JoinPart, JoinersMeet, Joined, Answered, Learns
<1>2. QED
  BY Inductive, <1>1, PTL

\* After a quit without an exception, none of those who had to forget the quitter
\* knows it, whatever joined, quit, stopped or fell silent meanwhile.
THEOREM QuitsAreHeard == Spec => []QuitIsHeard
<1>1. IInv => QuitIsHeard
  BY DEF IInv, QuitPart, QuitIsHeard
<1>2. QED
  BY Inductive, <1>1, PTL

=============================================================================
