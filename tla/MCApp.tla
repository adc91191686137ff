-------------------------------- MODULE MCApp --------------------------------
(* An instance of module App for TLC: two client connections.               *)
EXTENDS App

CONSTANTS c1, c2
=============================================================================
