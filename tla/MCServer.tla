------------------------------- MODULE MCServer -------------------------------
(* Instances of Server for TLC: the .cfg files give the constants.          *)
EXTENDS Server
===============================================================================
