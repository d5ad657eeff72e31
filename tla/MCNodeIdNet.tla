------------------------------ MODULE MCNodeIdNet ------------------------------
(* Instance of NodeIdNet: as many ids as there are devices, so that a lost    *)
(* answer already leaves one of them without.                                 *)
EXTENDS NodeIdNet

MCNodes == 1..2
MCChildIds == {0}
===============================================================================
