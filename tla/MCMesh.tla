-------------------------------- MODULE MCMesh --------------------------------
(* An instance of Mesh: two devices that hear the gateway and each other.     *)
EXTENDS Mesh

PairLinks == {{0, 1}, {0, 2}, {1, 2}}
FirstLink == {{0, 1}}
SideLink == {{1, 2}}
===============================================================================
