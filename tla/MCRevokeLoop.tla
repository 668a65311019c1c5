---------------------------- MODULE MCRevokeLoop ----------------------------
(***************************************************************************)
(* Starts where three logins have led: "home" registered first and is      *)
(* still waiting for the controller, the others have registered after it   *)
(* and been let in, each with a session of its own.                        *)
(***************************************************************************)
EXTENDS MCNetworkAccess

Waiting ==
    [P!Idle EXCEPT !.pc = "registered", !.session = CHOOSE s \in Session : TRUE,
                   !.mac = home, !.user = "apto72", !.password = p1,
                   !.expires = ResidentLifetime, !.since = 1, !.fresh = TRUE,
                   !.duration = P!AuthorizationDuration(Resident(NoDevices), 1)]

LoginsUnderWay ==
    /\ now = 1
    /\ file = {Resident([m \in Mac |-> ResidentLifetime])}
    /\ records = Load(file, 1)
    /\ net = [m \in Mac |-> IF m = home THEN 0 ELSE ResidentLifetime]
    /\ \E mine \in {s \in [Session -> Mac] : \A m \in Mac : \E i \in Session : s[i] = m} :
          /\ mine[Waiting.session] = home
          /\ sessions = [s \in Session |->
                 [mac |-> mine[s], expires |-> 1 + SessionTTL,
                  used |-> mine[s] # home, stored |-> TRUE]]
          /\ won = [s \in Session |-> IF mine[s] = home THEN 0 ELSE 1]
    /\ \E r \in Request : req = [x \in Request |-> IF x = r THEN Waiting ELSE P!Idle]
    /\ underway = {}
    /\ proven = Mac \X {"apto72"}
    /\ granted = [m \in Mac |-> IF m = home THEN [user |-> NoUser, limit |-> 0]
                                ELSE [user |-> "apto72", limit |-> ResidentLifetime]]
    /\ kept = (Mac \ {home}) \X {"apto72"}
    /\ disturbed = FALSE
    /\ A!AdminInit
    /\ slice \in SomeOrder(records) /\ \A k \in DOMAIN slice : slice[k][1] = home
    /\ touched = [a \in Admin |-> {}]
    /\ moved = {}
    /\ provenWith = Mac \X {"apto72"} \X {p1}

SpecUnderWay == LoginsUnderWay /\ [][Next]_vars
=============================================================================
