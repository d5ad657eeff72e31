------------------------------ MODULE MCMyGateway ------------------------------
(* Instance of MyGateway: one manually numbered node and two numbers to give. *)
EXTENDS MyGateway

MCNodes == 1..3
MCChildIds == {0, 1}
===============================================================================
