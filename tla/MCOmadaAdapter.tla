--------------------------- MODULE MCOmadaAdapter ---------------------------
(***************************************************************************)
(* Two calls at a time for one device, and a client list that has room for *)
(* it; every configuration.  Two are enough for each call to find the      *)
(* mutex taken and to come between the halves of the other's revocation.   *)
(***************************************************************************)
EXTENDS OmadaAdapter
=============================================================================
