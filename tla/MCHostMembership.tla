-------------------------- MODULE MCHostMembership --------------------------
(* An instance of HostMembership for TLC.                                    *)
EXTENDS HostMembership

=============================================================================
