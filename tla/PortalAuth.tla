----------------------------- MODULE PortalAuth -----------------------------
(***************************************************************************)
(* The captive portal's login service.  A client the controller redirects  *)
(* to the portal is either reconnected because the repository remembers    *)
(* its MAC, or gets a portal session and a login form.  A login passes     *)
(* through several steps: session check, credentials, device registration, *)
(* authorization on the controller, rollback or success; between any two   *)
(* of them other requests, the clock and a crash may come.                 *)
(***************************************************************************)
EXTENDS NetworkController

CONSTANTS
    Request,           \* slots for requests served at the same time
    Session,           \* portal session ids, each drawn once
    SessionTTL,
    ClientDuration,    \* clientAuthDuration, for residents
    EmployeeDuration,  \* employeeAuthDuration
    MaxLate,           \* bound on the authorizations given up and still under way
    NoSession, NoMac, NoUser, NoPassword

ASSUME PortalAssumption ==
    /\ SessionTTL \in Nat
    /\ ClientDuration \in Nat
    /\ EmployeeDuration \in Nat
    /\ MaxLate \in Nat
    /\ NoMac \notin Mac
    /\ NoUser \notin Username
    /\ NoSession \notin Session

VARIABLES
    sessions,   \* the session objects; "stored" tells which are in the store
    req,        \* the requests being served
    underway,   \* authorizations given up that the controller may still apply
    proven,     \* history: (MAC, username) pairs whose credentials were accepted
    granted,    \* history: what the network permission of each MAC rests on
    won,        \* history: how many logins succeeded with each session
    kept,       \* history: (MAC, username) pairs that took a connection in a login
                \* that succeeded
    disturbed   \* history: a write failed or the process was restarted

storeVars == <<sessions, req>>
portalHistory == <<proven, granted, won, kept, disturbed>>
portalVars == <<storeVars, underway, portalHistory>>
vars == <<repositoryVars, net, portalVars>>

NewSession == [mac |-> NoMac, expires |-> 0, used |-> FALSE, stored |-> FALSE]

Idle == [pc |-> "idle", session |-> NoSession, mac |-> NoMac, user |-> NoUser,
         password |-> NoPassword, kind |-> "resident", expires |-> 0,
         duration |-> 0, since |-> 0, fresh |-> FALSE, late |-> FALSE]

-----------------------------------------------------------------------------
\* Mutant of AuthorizationDuration: not capped by what is left of the account.
AuthorizationDurationUncapped(user, t) ==
    IF user.kind = "employee" THEN EmployeeDuration ELSE ClientDuration

\* How long the controller is asked to let in the owner of an account, 0 when
\* the account has expired meanwhile.
AuthorizationDuration(user, t) ==
    LET duration == IF user.kind = "employee" THEN EmployeeDuration ELSE ClientDuration
        remaining == IF t < user.expires THEN user.expires - t ELSE 0
    IN IF user.expires # 0 /\ remaining < duration THEN remaining ELSE duration

IsExpired(session, t) == ~(t < session.expires)

\* Mutant of CreatePortalSession: an id may be drawn twice.
CreatePortalSessionTwice(mac) ==
    \E s \in Session :
        sessions' = [sessions EXCEPT ![s] =
            [mac |-> mac, expires |-> now + SessionTTL, used |-> FALSE,
             stored |-> TRUE]]

\* GET /portal without a remembered device ends by handing out a session.
CreatePortalSession(mac) ==
    \E s \in Session :
        /\ sessions[s].mac = NoMac
        /\ sessions' = [sessions EXCEPT ![s] =
               [mac |-> mac, expires |-> now + SessionTTL, used |-> FALSE,
                stored |-> TRUE]]

\* Bound: the ids of Session are used up.
AllDrawn == \A s \in Session : sessions[s].mac # NoMac

RememberedBy(mac) == {k \in DOMAIN records : Remembers(records[k], mac, now)}

ShowLogin(r, mac) ==
    /\ req[r].pc = "idle"
    /\ RememberedBy(mac) = {}
    /\ CreatePortalSession(mac)
    /\ UNCHANGED <<repositoryVars, net, underway, req, portalHistory>>

FindByMAC(r, mac) ==
    /\ req[r].pc = "idle"
    /\ \E k \in RememberedBy(mac) :
          req' = [req EXCEPT ![r] = [Idle EXCEPT
                      !.pc = "reconnecting", !.mac = mac,
                      !.user = records[k].username,
                      !.expires = records[k].expires,
                      !.duration = AuthorizationDuration(records[k], now),
                      !.since = now]]
    /\ UNCHANGED <<repositoryVars, net, underway, sessions, portalHistory>>

\* What the controller is asked for by request r.
Asked(r) ==
    [mac |-> req[r].mac, user |-> req[r].user, expires |-> req[r].expires,
     duration |-> req[r].duration, since |-> req[r].since]

\* What the controller permits for q from now on, and on whose account.
RecordGrant(q) ==
    granted' = IF q.duration > 0
               THEN [granted EXCEPT ![q.mac] =
                        [user |-> q.user, limit |-> q.expires + (now - q.since)]]
               ELSE granted

\* The controller call of request r.
Ask(r, outcome) ==
    /\ Authorize(req[r].mac, req[r].duration, outcome)
    /\ IF Applied(outcome) THEN RecordGrant(Asked(r)) ELSE UNCHANGED granted
    /\ IF outcome = "late"
       THEN underway' = underway \cup {Asked(r)} /\ Cardinality(underway') <= MaxLate
       ELSE UNCHANGED underway

\* An authorization that was given up reaches the controller after all, whatever
\* has become of the request, the account and the process.  Requests that are
\* alike are one element, which may therefore stay.
Arrive(q) ==
    /\ q \in underway
    /\ Admit(q.mac, q.duration)
    /\ RecordGrant(q)
    /\ underway' \in {underway, underway \ {q}}
    /\ UNCHANGED <<repositoryVars, storeVars, proven, won, kept, disturbed>>

Reconnect(r, outcome) ==
    /\ req[r].pc = "reconnecting"
    /\ Ask(r, outcome)
    /\ IF outcome = "done" \/ AllDrawn THEN UNCHANGED sessions
                                       ELSE CreatePortalSession(req[r].mac)
    /\ req' = [req EXCEPT ![r] = Idle]
    /\ UNCHANGED <<repositoryVars, proven, won, kept, disturbed>>

-----------------------------------------------------------------------------
\* The session check of Authenticate, on a form that names session s.
Submit(r, s, name, password) ==
    /\ req[r].pc = "idle"
    /\ sessions[s].stored
    /\ ~sessions[s].used
    /\ ~IsExpired(sessions[s], now)
    /\ req' = [req EXCEPT ![r] = [Idle EXCEPT
                   !.pc = "checked", !.session = s, !.mac = sessions[s].mac,
                   !.user = name, !.password = password,
                   !.late = won[s] > 0]]
    /\ UNCHANGED <<repositoryVars, net, underway, sessions, portalHistory>>

SubmitExpired(s) ==
    /\ sessions[s].stored
    /\ ~sessions[s].used
    /\ IsExpired(sessions[s], now)
    /\ sessions' = [sessions EXCEPT ![s].stored = FALSE]
    /\ UNCHANGED <<repositoryVars, net, underway, req, portalHistory>>

ValidateCredentials(r) ==
    /\ req[r].pc = "checked"
    /\ \E k \in Owner(req[r].user) :
          /\ CredentialsAccepted(records[k], req[r].password, now)
          /\ req' = [req EXCEPT ![r].pc = "validated",
                                ![r].kind = records[k].kind,
                                ![r].expires = records[k].expires]
    /\ proven' = proven \cup {<<req[r].mac, req[r].user>>}
    /\ UNCHANGED <<repositoryVars, net, underway, sessions, granted, won, kept, disturbed>>

\* Mutant of RejectCredentials: the error is not looked at.
RejectionIgnored(r) ==
    /\ req[r].pc = "checked"
    /\ ~\E k \in Owner(req[r].user) : CredentialsAccepted(records[k], req[r].password, now)
    /\ req' = [req EXCEPT ![r].pc = "validated"]
    /\ UNCHANGED <<repositoryVars, net, underway, sessions, portalHistory>>

RejectCredentials(r) ==
    /\ req[r].pc = "checked"
    /\ ~\E k \in Owner(req[r].user) : CredentialsAccepted(records[k], req[r].password, now)
    /\ req' = [req EXCEPT ![r] = Idle]
    /\ UNCHANGED <<repositoryVars, net, underway, sessions, portalHistory>>

-----------------------------------------------------------------------------
\* The device is registered for the lifetime of the account as it was when the
\* credentials were checked, in whichever account has that username now.
Register(r, outcome) ==
    /\ req[r].pc = "validated"
    /\ RegisterDevice(req[r].user, req[r].mac, req[r].expires, outcome)
    /\ req' = [req EXCEPT ![r] =
                  IF outcome = "saved"
                  THEN [req[r] EXCEPT
                            !.pc = "registered",
                            !.fresh = NewlyTrusted(req[r].user, req[r].mac),
                            !.duration = AuthorizationDuration(req[r], now),
                            !.since = now]
                  ELSE Idle]
    /\ disturbed' = (disturbed \/ outcome # "saved")
    /\ UNCHANGED <<net, underway, sessions, proven, granted, won, kept>>

\* Mutant of RegisterRefused: an account that is gone is waited for.
RegisterWaits(r) ==
    /\ req[r].pc = "validated"
    /\ Owner(req[r].user) # {}
    /\ ~Registrable(req[r].user, req[r].mac)
    /\ req' = [req EXCEPT ![r] = Idle]
    /\ UNCHANGED <<repositoryVars, net, underway, sessions, portalHistory>>

\* No connection is free, or the account is gone.
RegisterRefused(r) ==
    /\ req[r].pc = "validated"
    /\ ~Registrable(req[r].user, req[r].mac)
    /\ req' = [req EXCEPT ![r] = Idle]
    /\ UNCHANGED <<repositoryVars, net, underway, sessions, portalHistory>>

\* Mutant of AuthorizeClient: a refused device keeps its connection.
AuthorizeClientKeeping(r, outcome) ==
    /\ req[r].pc = "registered"
    /\ Ask(r, outcome)
    /\ req' = [req EXCEPT ![r] =
                  IF outcome = "done" THEN [@ EXCEPT !.pc = "authorized"] ELSE Idle]
    /\ UNCHANGED <<repositoryVars, sessions, proven, won, kept, disturbed>>

\* Mutant of AuthorizeClient: a device that was trusted before is taken back too.
AuthorizeClientForgetting(r, outcome) ==
    /\ req[r].pc = "registered"
    /\ Ask(r, outcome)
    /\ req' = [req EXCEPT ![r] = IF outcome = "done" THEN [@ EXCEPT !.pc = "authorized"]
                                                    ELSE [@ EXCEPT !.pc = "refused"]]
    /\ UNCHANGED <<repositoryVars, sessions, proven, won, kept, disturbed>>

\* Only a device that this login added is taken back when the controller
\* refuses it.
AuthorizeClient(r, outcome) ==
    /\ req[r].pc = "registered"
    /\ Ask(r, outcome)
    /\ req' = [req EXCEPT ![r] =
                  IF outcome = "done" THEN [@ EXCEPT !.pc = "authorized"]
                  ELSE IF @.fresh THEN [@ EXCEPT !.pc = "refused"]
                  ELSE Idle]
    /\ UNCHANGED <<repositoryVars, sessions, proven, won, kept, disturbed>>

\* The result of RemoveDevice is ignored.
Rollback(r, outcome) ==
    /\ req[r].pc = "refused"
    /\ IF Owner(req[r].user) = {}
       THEN outcome = "saved" /\ UNCHANGED repositoryVars
       ELSE RemoveDevice(req[r].user, req[r].mac, outcome)
    /\ req' = [req EXCEPT ![r] = Idle]
    /\ disturbed' = (disturbed \/ outcome # "saved")
    /\ UNCHANGED <<net, underway, sessions, proven, granted, won, kept>>

\* Mutant of Succeed: the session is not marked.
SucceedUnmarked(r) ==
    LET s == req[r].session
    IN /\ req[r].pc = "authorized"
       /\ sessions' = [sessions EXCEPT ![s].stored = TRUE]
       /\ won' = [won EXCEPT ![s] = @ + 1]
       /\ kept' = IF req[r].fresh THEN kept \cup {<<req[r].mac, req[r].user>>} ELSE kept
       /\ req' = [req EXCEPT ![r] = Idle]
       /\ UNCHANGED <<repositoryVars, net, underway, proven, granted, disturbed>>

\* The session is marked and put back, even if it has been dropped meanwhile.
Succeed(r) ==
    LET s == req[r].session
    IN /\ req[r].pc = "authorized"
       /\ sessions' = [sessions EXCEPT ![s].used = TRUE, ![s].stored = TRUE]
       /\ won' = [won EXCEPT ![s] = @ + 1]
       /\ kept' = IF req[r].fresh THEN kept \cup {<<req[r].mac, req[r].user>>} ELSE kept
       /\ req' = [req EXCEPT ![r] = Idle]
       /\ UNCHANGED <<repositoryVars, net, underway, proven, granted, disturbed>>

-----------------------------------------------------------------------------
\* The store lives in memory only; no request survives the process.
Restart ==
    /\ Reload
    /\ sessions' = [s \in Session |-> [sessions[s] EXCEPT !.stored = FALSE]]
    /\ req' = [r \in Request |-> Idle]
    /\ disturbed' = TRUE
    /\ UNCHANGED <<net, underway, proven, granted, won, kept>>

Clock == Tick /\ UNCHANGED <<net, portalVars>>

\* Every (MAC, username) pair on a device list.
Trusting ==
    UNION {Listed(records[k].devices) \X {records[k].username} : k \in DOMAIN records}

PortalInit ==
    /\ sessions = [s \in Session |-> NewSession]
    /\ req = [r \in Request |-> Idle]
    /\ underway = {}
    /\ proven = Trusting
    /\ granted = [m \in Mac |->
           [user |-> IF \E p \in Trusting : p[1] = m
                     THEN (CHOOSE p \in Trusting : p[1] = m)[2] ELSE NoUser,
            limit |-> TrustedUntil(m)]]
    /\ won = [s \in Session |-> 0]
    /\ kept = Trusting
    /\ disturbed = FALSE

Init == RepositoryInit /\ NetInit /\ PortalInit

\* A client's requests, and the passage of a request through the service.
Arrival ==
    \/ \E r \in Request, mac \in Mac : ShowLogin(r, mac) \/ FindByMAC(r, mac)
    \/ \E r \in Request, s \in Session, name \in Username, password \in Password :
          Submit(r, s, name, password)
    \/ \E s \in Session : SubmitExpired(s)

Progress(r) ==
    \/ ValidateCredentials(r)
    \/ RejectCredentials(r)
    \/ RegisterRefused(r)
    \/ \E outcome \in PersistOutcome : Register(r, outcome) \/ Rollback(r, outcome)
    \/ \E outcome \in ControllerOutcome : AuthorizeClient(r, outcome) \/ Reconnect(r, outcome)
    \/ Succeed(r)

Next ==
    \/ Arrival
    \/ \E r \in Request : Progress(r)
    \/ \E q \in underway : Arrive(q)
    \/ Restart
    \/ Clock

Spec == Init /\ [][Next]_vars

-----------------------------------------------------------------------------
RequestState ==
    [pc       : {"idle", "reconnecting", "checked", "validated", "registered",
                 "refused", "authorized"},
     session  : Session \cup {NoSession},
     mac      : Mac \cup {NoMac},
     user     : Username \cup {NoUser},
     password : Password \cup {NoPassword},
     kind     : {"resident", "employee"},
     expires  : Nat,
     duration : Nat,
     since    : Nat,
     fresh    : BOOLEAN,
     late     : BOOLEAN]

LateState ==
    [mac : Mac, user : Username, expires : Nat, duration : Nat, since : Nat]

\* The state of store, requests and controller has the expected shape, and a
\* request past the session check still carries the MAC of its session: no id
\* is handed out twice while it is in use (CreatePortalSession, randomToken).
TypeOK ==
    /\ RepositoryTypeOK
    /\ NetTypeOK
    /\ sessions \in [Session -> [mac : Mac \cup {NoMac}, expires : Nat,
                                used : BOOLEAN, stored : BOOLEAN]]
    /\ req \in [Request -> RequestState]
    /\ \A r \in Request : req[r].session \in Session =>
          req[r].mac \in Mac /\ sessions[req[r].session].mac = req[r].mac
    /\ underway \subseteq LateState
    /\ proven \subseteq Mac \X Username
    /\ granted \in [Mac -> [user : Username \cup {NoUser}, limit : Nat]]
    /\ won \in [Session -> Nat]
    /\ kept \subseteq Mac \X Username
    /\ disturbed \in BOOLEAN

\* A MAC is on the network, or trusted for automatic reconnection, only on the
\* account whose credentials were entered from it, whatever logins, rollbacks
\* and restarts come between the check and the moment the controller applies the
\* call, be it after the caller gave up (Authenticate, AutoAuthenticate,
\* RegisterDevice).
GrantProven ==
    /\ \A m \in Mac : net[m] # 0 => <<m, granted[m].user>> \in proven
    /\ Trusting \subseteq proven

\* A permission outlives the account it rests on by no more than the time between
\* the reckoning of its duration and the arrival of the call at the controller
\* (authorizationDuration).
GrantWithinAccount == \A m \in Mac : net[m] <= granted[m].limit

\* A request that arrives after a login has succeeded with its session is never
\* let past the session check, even when the session expired and was dropped in
\* between and the success put it back (Authenticate).
NoLateReplay == \A r \in Request : ~req[r].late

\* A connection of an account is taken by a device that logged in, or by a
\* login still in progress: failed logins give their connection back.  A write
\* that fails, or a crash, may leave one behind (Authenticate).
SlotJustified ==
    ~disturbed =>
        \A p \in Trusting :
            \/ p \in kept
            \/ \E r \in Request :
                  /\ req[r].pc \in {"registered", "refused", "authorized"}
                  /\ p = <<req[r].mac, req[r].user>>

\* A device that took a connection and logged in is remembered until the account
\* ends, whatever other logins from it fail meanwhile.  A login that found its
\* device already listed has no such promise: the login that listed it may still
\* fail and take it back (Authenticate, RemoveDevice).
SuccessRemembered ==
    ~disturbed =>
        \A p \in kept, k \in DOMAIN records :
            records[k].username = p[2] /\ CanAuthenticate(records[k], now)
            => Remembers(records[k], p[1], now)

\* Every request is answered: no step of Authenticate or AutoAuthenticate
\* leaves it without a continuation.
EveryRequestAnswered ==
    \A r \in Request : req[r].pc # "idle" ~> req[r].pc = "idle"

-----------------------------------------------------------------------------
\* ARCHITECTURE.md, Application: "impedir reutilização de sessão".  A portal
\* session lets in one login.
SingleUse == \A s \in Session : won[s] <= 1
=============================================================================
