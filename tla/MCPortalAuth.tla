---------------------------- MODULE MCPortalAuth ----------------------------
(***************************************************************************)
(* One account with a single connection, two devices that want it and two  *)
(* requests served at once.                                                *)
(***************************************************************************)
EXTENDS PortalAuth, TLC

MCUsernameOf == [apartment \in {} |-> "ana"]

Employee ==
    [id |-> "ana", kind |-> "employee", apartment |-> "", username |-> "ana",
     password |-> "p1", enabled |-> TRUE, expires |-> 3, max |-> 1,
     devices |-> NoDevices]
MCInitialFile == {Employee}

Symmetry == Permutations(Mac) \cup Permutations(Request) \cup Permutations(Session)
=============================================================================
