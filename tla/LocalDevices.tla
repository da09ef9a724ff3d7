---------------------------- MODULE LocalDevices ----------------------------
(***************************************************************************)
(* What a host manager says of its own host's devices: get_local_devices,  *)
(* which lists the driver files of /dev and what config.py adds, renames   *)
(* and hides, and the alias a query is answered by.                        *)
(*                                                                         *)
(* A configuration c is a record: extra and ignore are lists of names,     *)
(* alias the items of DEVICES_ALIAS, pairs of an alias and a real name, in *)
(* the order of the dictionary.                                            *)
(***************************************************************************)
EXTENDS Integers, Sequences, SequencesExt

CONSTANT FzName   \* the names that begin with fz_

\* The aliases of c.
Aliases(c) == {c.alias[i][1] : i \in DOMAIN c.alias}

\* The real name of an alias, or the name itself.
RealName(c, n) ==
  IF n \in Aliases(c) THEN (CHOOSE p \in ToSet(c.alias) : p[1] = n)[2] ELSE n

-----------------------------------------------------------------------------

FzDeviceFileList(dev) == SetToSeq(dev \cap FzName)

\* An alias is listed when its real name is, be it an alias before it.
AddAlias(list, pair) == IF Contains(list, pair[2]) THEN Append(list, pair[1]) ELSE list

\* Mutant: every occurrence.
IgnoreAll(list, n) == SelectSeq(list, LAMBDA m : m # n)

\* list.remove: one occurrence only.
Ignore(list, n) == RemoveFirst(list, n)

GetLocalDevices(c, dev) ==
  FoldLeft(Ignore, FoldLeft(AddAlias, FzDeviceFileList(dev) \o c.extra, c.alias), c.ignore)

=============================================================================
