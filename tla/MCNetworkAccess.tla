-------------------------- MODULE MCNetworkAccess --------------------------
(***************************************************************************)
(* The account of apartment 72, its devices, and one or two requests of    *)
(* each kind at a time.                                                    *)
(***************************************************************************)
EXTENDS NetworkAccess

CONSTANTS p1, home    \* the first password, and a device already trusted

MCUsername == {"apto72"}
MCApartment == {"72", "apto72"}
MCUsernameOf == [apartment \in {"72"} |-> "apto72"]

Resident(devices) ==
    [id |-> "apto72", kind |-> "resident", apartment |-> "72", username |-> "apto72",
     password |-> p1, enabled |-> TRUE, expires |-> ResidentLifetime, max |-> ResidentLimit,
     devices |-> devices]
OneDevice == {Resident([m \in Mac |-> IF m = home THEN ResidentLifetime ELSE 0])}
NoDevice == {Resident(NoDevices)}

Symmetry == Permutations(Mac \ {home}) \cup Permutations(Request)
                \cup Permutations(Session) \cup Permutations(Admin)
                \cup Permutations(Password \ {p1})
=============================================================================
