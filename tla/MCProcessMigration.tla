------------------------- MODULE MCProcessMigration -------------------------
(* Instances of ProcessMigration for TLC.                                    *)
EXTENDS ProcessMigration, TLC

AnyNames == [Process -> Name]
OwnNames == {CHOOSE f \in AnyNames : \A p, q \in Process : f[p] = f[q] => p = q}

\* Processes, images and names are interchangeable.
Symmetries == Permutations(Process) \cup Permutations(Image) \cup Permutations(Name)

=============================================================================
