--------------------------- MODULE MCLocalDevices ---------------------------
(***************************************************************************)
(* LocalDevices for TLC: every small configuration, while drivers are      *)
(* loaded and unloaded, against a definition that does not build a list.   *)
(***************************************************************************)
EXTENDS LocalDevices, FiniteSets

CONSTANTS Name, File, MaxExtra, MaxAlias, MaxIgnore

ASSUME FileAssumption == File \subseteq Name /\ IsFiniteSet(File)

ASSUME BoundAssumption == {MaxExtra, MaxAlias, MaxIgnore} \subseteq Nat

VARIABLES config, dev

vars == <<config, dev>>

Config ==
  [extra : BoundedSeq(Name, MaxExtra), ignore : BoundedSeq(Name, MaxIgnore),
   alias : {s \in BoundedSeq(Name \X Name, MaxAlias) :
              \A i, j \in DOMAIN s : s[i][1] = s[j][1] => i = j}]

Init == config \in Config /\ dev \in SUBSET File

\* A driver is loaded or unloaded.
DriverComesOrGoes ==
  \E f \in File : dev' = (dev \ {f}) \cup ({f} \ dev) /\ UNCHANGED config

Next == DriverComesOrGoes

Spec == Init /\ [][Next]_vars

-----------------------------------------------------------------------------

Listed == ToSet(GetLocalDevices(config, dev))

Times(n, s) == Cardinality({i \in DOMAIN s : s[i] = n})

Base == (dev \cap FzName) \cup ToSet(config.extra)

\* A chain of aliases that ends at a file or an extra device with a driver, each
\* one defined before the next: the places in alias where it passes.
Chain(S) ==
  \A i \in S :
    LET before == {j \in S : j < i}
        real   == config.alias[i][2]
    IN IF before = {} THEN real \in Base
       ELSE real = config.alias[Max(before)][1]

AliasOn(n) ==
  \E i \in DOMAIN config.alias :
    /\ config.alias[i][1] = n
    /\ \E S \in SUBSET (1 .. i) : i \in S /\ Chain(S)

Occurrences(n) ==
  (IF n \in dev \cap FzName THEN 1 ELSE 0) + Times(n, config.extra)
    + (IF AliasOn(n) THEN 1 ELSE 0)

\* A name is listed when it occurs, as a driver's file, an extra device or an
\* alias that leads to one, more often than it is to be ignored.
ListedAsConfigured ==
  Listed = {n \in Name : Occurrences(n) > Times(n, config.ignore)}

=============================================================================
