---------------------------- MODULE MCIntegralLeader ----------------------------
(***************************************************************************)
(* Constants of IntegralLeader for TLC.                                    *)
(***************************************************************************)
EXTENDS IntegralLeader

Ports == 1 .. 2
Queries == 1 .. 1
Slices == 1 .. 2
Identities == 1 .. 3
Slots == 1 .. 2
=============================================================================
