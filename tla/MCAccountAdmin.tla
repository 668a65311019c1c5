--------------------------- MODULE MCAccountAdmin ---------------------------
(***************************************************************************)
(* Two administrators, the account of apartment 72 with two devices on the *)
(* network, and an id for one more account: an employee's, or apartment    *)
(* 72's again after it was deleted.                                        *)
(***************************************************************************)
EXTENDS AccountAdmin, TLC

CONSTANT p1    \* the first password of the account

MCUsername == {"apto72"}
MCId == {"apto72", "id1"}
MCApartment == {"72", "apto72"}
MCUsernameOf == [apartment \in {"72"} |-> "apto72"]

Resident ==
    [id |-> "apto72", kind |-> "resident", apartment |-> "72", username |-> "apto72",
     password |-> p1, enabled |-> TRUE, expires |-> 3, max |-> 2,
     devices |-> [m \in Mac |-> 3]]
MCInitialFile == {Resident}

Symmetry == Permutations(Mac) \cup Permutations(Admin)
                             \cup Permutations(Password \ {p1})
=============================================================================
