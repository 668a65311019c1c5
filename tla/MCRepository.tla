---------------------------- MODULE MCRepository ----------------------------
(***************************************************************************)
(* A small building: one apartment, one legacy login without an id, room   *)
(* for one more account.                                                   *)
(***************************************************************************)
EXTENDS RepositoryHistory, TLC

MCUsername == {"apto72", "ana"}
MCId == MCUsername \cup {"id1"}
MCApartment == {"72"} \cup MCUsername
MCUsernameOf == [apartment \in {"72"} |-> "apto72"]

LegacyRow ==
    [id |-> "", kind |-> "unset", apartment |-> "", username |-> "apto72",
     password |-> "p1", enabled |-> TRUE, expires |-> 0, max |-> 0,
     devices |-> NoDevices]
MCInitialFile == {LegacyRow}

MCSymmetry == Permutations(Mac)
=============================================================================
