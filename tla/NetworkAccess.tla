---------------------------- MODULE NetworkAccess ----------------------------
(***************************************************************************)
(* The whole service: portal logins and account administration at once, on *)
(* one repository and one controller.  Besides the shared state, the two   *)
(* interact through memory: the copy of an account that an administration  *)
(* request holds shares the array of its device list with the record.      *)
(* RegisterDevice gives the record a new array, but RemoveDevice compacts  *)
(* the array in place, under the feet of a revokeAll that is walking it.   *)
(***************************************************************************)
EXTENDS NetworkController, SequencesExt

CONSTANTS
    Request, Session, SessionTTL, ClientDuration, EmployeeDuration, MaxLate,
    NoSession, NoMac, NoUser,
    Admin, NotifyOutcome, AdminExpiry, NoAccount,
    NoPassword

\* As in PortalAuth and AccountAdmin.
ASSUME AccessAssumption ==
    /\ SessionTTL \in Nat
    /\ ClientDuration \in Nat
    /\ EmployeeDuration \in Nat
    /\ MaxLate \in Nat
    /\ NoMac \notin Mac
    /\ NoUser \notin Username
    /\ NoSession \notin Session
    /\ NotifyOutcome \subseteq {"done", "failed", "lostReply"}
    /\ AdminExpiry \subseteq Nat

VARIABLES
    sessions, req, underway, proven, granted, won, kept, disturbed,
    adm, missed, issuedIds, drawn, mailed, told, inherited,
    slice,      \* id to the order of the record's device list
    touched,    \* history: for each administration request the MACs that logged
                \* in, reconnected or were let in late while it ran
    moved,      \* history: the administration requests whose list was moved
    provenWith  \* history: (MAC, id, password) of accepted credentials

P == INSTANCE PortalAuth
A == INSTANCE AccountAdmin

portalVars == <<sessions, req, underway, proven, granted, won, kept, disturbed>>
adminHistory == <<issuedIds, drawn, mailed, told, inherited>>
adminVars == <<adm, missed, adminHistory>>
accessHistory == <<touched, moved, provenWith>>
vars == <<repositoryVars, net, portalVars, adminVars, slice, accessHistory>>

-----------------------------------------------------------------------------
\* The members S of list in the order they have there.
Remaining(list, S) ==
    {rest \in A!Orders(S) :
        \A i, j \in DOMAIN rest, x, y \in DOMAIN list :
            i < j /\ rest[i] = list[x] /\ rest[j] = list[y] => x < y}

\* The list RegisterDevice builds: trusted devices keep their place, a new one
\* goes to the end.
SliceWith(active, mac) == IF mac \in ToSet(active) THEN active ELSE Append(active, mac)

\* The record's slice is the front of the array, as long as it has not been moved
\* to another.  RemoveDevice writes what remains of it onto that front and leaves
\* the entries behind as they were.
Compacted(array, rest) ==
    [j \in DOMAIN array |-> IF j <= Len(rest) THEN rest[j] ELSE array[j]]

Holding(a, k) == adm[a].shared /\ adm[a].account.id = k

Touch(mac) ==
    touched' = [a \in Admin |-> IF adm[a].pc = "idle" THEN touched[a]
                                ELSE touched[a] \cup {mac}]

Register(r, outcome) ==
    /\ P!Register(r, outcome)
    /\ \E k \in Owner(req[r].user) :
          /\ \E active \in Remaining(slice[k], Live(records[k].devices, now)) :
                slice' = [slice EXCEPT ![k] = SliceWith(active, req[r].mac)]
          /\ adm' = [a \in Admin |-> IF Holding(a, k)
                                     THEN [adm[a] EXCEPT !.shared = FALSE] ELSE adm[a]]
    /\ Touch(req[r].mac)
    /\ UNCHANGED <<missed, adminHistory, moved, provenWith>>

\* The device leaves the slice of account k, and every copy of the account that
\* still shares the array sees its list change.
Withdraw(k, mac) ==
    \E rest \in Remaining(slice[k], ToSet(slice[k]) \ {mac}) :
        /\ slice' = [slice EXCEPT ![k] = rest]
        /\ adm' = [a \in Admin |-> IF Holding(a, k)
                                   THEN [adm[a] EXCEPT !.list = Compacted(@, rest)]
                                   ELSE adm[a]]

Rollback(r, outcome) ==
    /\ P!Rollback(r, outcome)
    /\ IF Owner(req[r].user) = {} THEN UNCHANGED <<slice, adm>>
       ELSE \E k \in Owner(req[r].user) : Withdraw(k, req[r].mac)
    /\ moved' = moved \cup {a \in Admin : adm'[a].list # adm[a].list}
    /\ UNCHANGED <<missed, adminHistory, touched, provenWith>>

Reaching(r, outcome) ==
    /\ P!AuthorizeClient(r, outcome) \/ P!Reconnect(r, outcome)
    /\ Touch(req[r].mac)
    /\ UNCHANGED <<adminVars, slice, moved, provenWith>>

\* The controller applies an authorization that was given up.
Arrive(q) ==
    /\ P!Arrive(q)
    /\ Touch(q.mac)
    /\ UNCHANGED <<adminVars, slice, moved, provenWith>>

ValidateCredentials(r) ==
    /\ P!ValidateCredentials(r)
    /\ provenWith' = provenWith \cup
          {<<req[r].mac, k, records[k].password>> : k \in Owner(req[r].user)}
    /\ UNCHANGED <<adminVars, slice, touched, moved>>

\* The portal steps that leave devices and controller alone.
Arrival ==
    /\ P!Arrival
    /\ UNCHANGED <<adminVars, slice, accessHistory>>

Ending(r) ==
    /\ P!RejectCredentials(r) \/ P!RegisterRefused(r) \/ P!Succeed(r)
    /\ UNCHANGED <<adminVars, slice, accessHistory>>

PortalProgress(r) ==
    \/ ValidateCredentials(r)
    \/ \E outcome \in PersistOutcome : Register(r, outcome) \/ Rollback(r, outcome)
    \/ \E outcome \in ControllerOutcome : Reaching(r, outcome)
    \/ Ending(r)

\* A request that starts to walk a list walks the record's slice.
AdminStart(a) ==
    /\ A!AdminArrival(a)
    /\ adm'[a].shared => adm'[a].list = slice[adm'[a].account.id]
    /\ slice' = [k \in DOMAIN records' |-> IF k \in DOMAIN slice THEN slice[k] ELSE <<>>]
    /\ touched' = [touched EXCEPT ![a] = {}]
    /\ moved' = moved \ {a}
    /\ UNCHANGED <<portalVars, provenWith>>

AdminProgress(a) ==
    /\ A!AdminProgress(a)
    /\ slice' = [k \in DOMAIN records' |->
                    IF Listed(records'[k].devices) = {} THEN <<>> ELSE slice[k]]
    /\ UNCHANGED <<portalVars, accessHistory>>

\* Every list is in some order; after a restart, in the one the file had.
SomeOrder(recs) ==
    {order \in [DOMAIN recs -> UNION {A!Orders(S) : S \in SUBSET Mac}] :
        \A k \in DOMAIN recs : ToSet(order[k]) = Listed(recs[k].devices)}

Restart ==
    /\ P!Restart
    /\ A!Restart
    /\ slice' \in SomeOrder(records')
    /\ touched' = [a \in Admin |-> {}]
    /\ moved' = {}
    /\ UNCHANGED provenWith

Clock == Tick /\ UNCHANGED <<net, portalVars, adminVars, slice, accessHistory>>

PermissionEnds(mac) ==
    /\ A!PermissionEnds(mac)
    /\ UNCHANGED <<portalVars, slice, accessHistory>>

Init ==
    /\ P!Init
    /\ A!AdminInit
    /\ slice \in SomeOrder(records)
    /\ touched = [a \in Admin |-> {}]
    /\ moved = {}
    /\ provenWith = {<<p[1], k, records[k].password>> : p \in P!Trusting, k \in DOMAIN records}

Next ==
    \/ Arrival
    \/ \E r \in Request : PortalProgress(r)
    \/ \E a \in Admin : AdminStart(a) \/ AdminProgress(a)
    \/ \E q \in underway : Arrive(q)
    \/ \E mac \in Mac : PermissionEnds(mac)
    \/ Restart
    \/ Clock

Spec == Init /\ [][Next]_vars

\* Every login has a goroutine of its own that runs on, whatever the others do, and
\* every call it makes returns: the repository never waits for anything while it
\* holds its lock, and calls to the controller time out.  Administration may stop
\* wherever it is.
FairSpec == Spec /\ \A r \in Request : WF_vars(PortalProgress(r))

-----------------------------------------------------------------------------
\* Both services keep the shape of their state while they run together, and the
\* array of a device list always lists what the record does (RegisterDevice,
\* RemoveDevice).
TypeOK ==
    /\ P!TypeOK
    /\ A!TypeOK
    /\ \A k \in DOMAIN records : ToSet(slice[k]) = Listed(records[k].devices)
    /\ touched \in [Admin -> SUBSET Mac]

\* A MAC is on the network or trusted only after somebody entered from it the
\* credentials of an account of that name, even while accounts are blocked,
\* rotated, deleted and created again (Authenticate, AutoAuthenticate).
GrantProven == P!GrantProven

\* Failed logins give their connection back while administrators are at work.
SlotJustified == P!SlotJustified

\* Device m of account k leaves the list while it is on the network.
Stranded(k, m) ==
    /\ m \in Live(records[k].devices, now)
    /\ k \notin DOMAIN records' \/ m \notin Listed(records'[k].devices)
    /\ Online(m)'

\* The step is one of administration request a, on account k.
ActsOn(a, k) == adm'[a] # adm[a] /\ adm[a].account.id = k

\* A trusted device that is taken off the list while it is on the network, by
\* anyone but a login that takes back its own device, had one of these excuses: it
\* logged in, reconnected or was let in late while the administration request ran,
\* or a failed login had moved the list the request walked, or the controller
\* client had reported a revocation of it as done and left it alone (Update,
\* ChangePassword, Delete, revokeAll, RemoveDevice).
RevokedUnlessTouched ==
    [][Restart \/ \A k \in DOMAIN records, m \in Mac : Stranded(k, m) =>
          \/ \E r \in Request : req[r].pc = "refused" /\ req[r].mac = m /\ req' # req
          \/ \E a \in Admin : ActsOn(a, k) /\ (m \in touched[a] \/ a \in moved)
          \/ m \in missed']_vars

\* A network permission outlives the account as the login saw it only by the
\* time its controller call waited, while administrators change the account.
GrantWithinAccount == P!GrantWithinAccount

\* Every login and reconnection is answered, also when its account is blocked,
\* rotated, deleted or expires under it, the administration request that does so
\* gets stuck half-way, and the controller acts late or never (Authenticate,
\* AutoAuthenticate).
EveryRequestAnswered == P!EveryRequestAnswered

-----------------------------------------------------------------------------
\* accounts_test.go: "password rotation must revoke the registered device".  A
\* device that was left alone while the rotation ran is off the network when the
\* rotation clears it.
RotationRevokesQuietDevices ==
    [][\A a \in Admin, k \in DOMAIN records, m \in Mac :
          adm[a].pc = "replacing" /\ ActsOn(a, k) /\ m \notin touched[a]
          => ~Stranded(k, m)]_vars

\* accounts_test.go: "device trust must be cleared" by a rotation.  A trusted
\* device has logged in with the password now in force.
TrustFollowsPassword ==
    \A k \in DOMAIN records : \A m \in Listed(records[k].devices) :
        <<m, k, records[k].password>> \in provenWith
=============================================================================
