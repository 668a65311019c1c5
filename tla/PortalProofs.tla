---------------------------- MODULE PortalProofs ----------------------------
(***************************************************************************)
(* Theorems about the login service, for any number of requests, sessions, *)
(* devices and accounts.                                                   *)
(*                                                                         *)
(* What a login may do rests on what the request carries from one step to  *)
(* the next: ReqOK says what that is worth by then, whatever other         *)
(* requests, the clock and failed writes did in between.                   *)
(***************************************************************************)
EXTENDS PortalAuth, RepositoryLemmas

-----------------------------------------------------------------------------
(* The invariant                                                           *)

RepoOK ==
    /\ now \in 1 .. MaxTime
    /\ RecordsOK(records)
    /\ FileOK(file)

\* The (MAC, username) pairs that one account trusts.
Trusted(a) == Listed(a.devices) \X {a.username}

\* Every device in memory and on disk was registered after its credentials were
\* accepted.
ProvenOK ==
    /\ proven \subseteq Mac \X Username
    /\ \A k \in DOMAIN records : Trusted(records[k]) \subseteq proven
    /\ \A row \in file : Trusted(row) \subseteq proven

\* What an authorization q that was given up asks for at instant t.
LateOK(q, t, pairs) ==
    /\ q \in LateState
    /\ <<q.mac, q.user>> \in pairs
    /\ q.since <= t
    /\ q.duration > 0 => q.since + q.duration <= q.expires

GrantsOK ==
    /\ net \in [Mac -> Nat]
    /\ granted \in [Mac -> [user : Username \cup {NoUser}, limit : Nat]]
    /\ \A m \in Mac : net[m] # 0 => <<m, granted[m].user>> \in proven
    /\ \A m \in Mac : net[m] <= granted[m].limit
    /\ \A q \in underway : LateOK(q, now, proven)

SessionState == [mac : Mac \cup {NoMac}, expires : Nat, used : BOOLEAN, stored : BOOLEAN]

StoreOK ==
    /\ sessions \in [Session -> SessionState]
    /\ won \in [Session -> Nat]
    /\ \A s \in Session : sessions[s].stored => sessions[s].mac \in Mac
    /\ \A s \in Session : won[s] > 0 => sessions[s].used /\ sessions[s].mac \in Mac

Accepted == {"reconnecting", "validated", "registered", "refused", "authorized"}

Submitted == {"checked", "validated", "registered", "refused", "authorized"}

\* What a request q carries at instant t.
ReqOK(q, t, pairs, store) ==
    /\ q \in RequestState
    /\ ~q.late
    /\ q.session \in Session => q.mac \in Mac /\ store[q.session].mac = q.mac
    /\ q.pc # "idle" => q.mac \in Mac /\ q.user \in Username
    /\ q.pc \in Submitted => q.session \in Session
    /\ q.since <= t
    /\ q.pc \in Accepted => q.expires # 0 /\ <<q.mac, q.user>> \in pairs
    /\ q.pc \in {"reconnecting", "registered"} /\ q.duration > 0
       => q.since + q.duration <= q.expires
    /\ q.pc = "refused" => q.fresh

RequestsOK ==
    /\ req \in [Request -> RequestState]
    /\ \A r \in Request : ReqOK(req[r], now, proven, sessions)

\* Only the login that put a device on the list answers for it.
Claims(q, p) ==
    /\ q.fresh
    /\ q.pc \in {"registered", "refused", "authorized"}
    /\ p = <<q.mac, q.user>>

SlotsOK ==
    ~disturbed =>
        \A k \in DOMAIN records : \A p \in Trusted(records[k]) :
            p \in kept \/ \E r \in Request : Claims(req[r], p)

HistoryOK ==
    /\ kept \subseteq Mac \X Username
    /\ disturbed \in BOOLEAN

IInv == RepoOK /\ ProvenOK /\ GrantsOK /\ StoreOK /\ RequestsOK /\ SlotsOK /\ HistoryOK

-----------------------------------------------------------------------------
(* Requests and connections                                                *)

Moves(r, q) == req' = [req EXCEPT ![r] = q]

LEMMA IdleOK ==
    ASSUME NEW t \in Nat, NEW pairs, NEW store
    PROVE  ReqOK(Idle, t, pairs, store) /\ Idle.pc = "idle"
BY PortalAssumption DEF Idle, ReqOK, RequestState, Accepted, Submitted

\* One request moves; the others stay as sound as they were, since accepted pairs
\* are never forgotten, sessions in use keep their MAC and time goes forward.
LEMMA RequestMoves ==
    ASSUME RequestsOK, NEW r \in Request, NEW q,
           Moves(r, q),
           ReqOK(q, now', proven', sessions'),
           now \in Nat, now' \in Nat, now <= now',
           proven \subseteq proven',
           \A s \in Session : sessions[s].mac \in Mac => sessions'[s].mac = sessions[s].mac
    PROVE  RequestsOK'
<1>1. req \in [Request -> RequestState]
  BY DEF RequestsOK
<1>2. q \in RequestState
  BY DEF ReqOK
<1>3. req' \in [Request -> RequestState]
  BY <1>1, <1>2 DEF Moves
<1>4. ASSUME NEW x \in Request
      PROVE  ReqOK(req'[x], now', proven', sessions')
  <2>1. CASE x = r
    BY <1>1, <2>1 DEF Moves
  <2>2. CASE x # r
    <3>1. req'[x] = req[x] /\ ReqOK(req[x], now, proven, sessions)
      BY <1>1, <2>2 DEF RequestsOK, Moves
    <3>2. ReqOK(req[x], now', proven', sessions')
      BY <3>1 DEF ReqOK, RequestState
    <3>3. QED
      BY <3>1, <3>2
  <2>3. QED
    BY <2>1, <2>2
<1>5. QED
  BY <1>3, <1>4 DEF RequestsOK

\* A request may move without disturbing the connections unless it drops a claim.
LEMMA ConnectionsStay ==
    ASSUME SlotsOK, RequestsOK, NEW r \in Request, NEW q,
           Moves(r, q),
           \A p : Claims(req[r], p) => Claims(q, p) \/ p \in kept',
           records' = records, disturbed' = disturbed, kept \subseteq kept'
    PROVE  SlotsOK'
<1>1. req \in [Request -> RequestState]
  BY DEF RequestsOK
<1>2. req'[r] = q /\ \A x \in Request : x # r => req'[x] = req[x]
  BY <1>1 DEF Moves
<1>3. SUFFICES ASSUME ~disturbed, NEW k \in DOMAIN records, NEW p \in Trusted(records[k])
               PROVE  p \in kept' \/ \E x \in Request : Claims(req'[x], p)
  BY DEF SlotsOK, Claims
<1>4. p \in kept \/ \E x \in Request : Claims(req[x], p)
  BY <1>3 DEF SlotsOK
<1>5. CASE p \in kept
  BY <1>5
<1>6. ASSUME NEW x \in Request, Claims(req[x], p)
      PROVE  p \in kept' \/ \E y \in Request : Claims(req'[y], p)
  <2>1. CASE x = r
    BY <1>2, <1>6, <2>1
  <2>2. CASE x # r
    BY <1>2, <1>6, <2>2
  <2>3. QED
    BY <2>1, <2>2
<1>7. QED
  BY <1>4, <1>5, <1>6

\* Accounts that go by one name are one account.
LEMMA OneOwner ==
    ASSUME RecordsOK(records), NEW name, NEW k \in Owner(name)
    PROVE  /\ Owner(name) = {k}
           /\ k \in DOMAIN records /\ records[k] \in Account /\ records[k].username = name
           /\ name \in Username
<1>1. k \in DOMAIN records /\ records[k].username = name
  BY DEF Owner
<1>2. records[k] \in Account
  BY <1>1 DEF RecordsOK, RecordOK
<1>3. \A l \in DOMAIN records : l # k => records[l].username # name
  BY <1>1 DEF RecordsOK, Compatible
<1>4. QED
  BY <1>1, <1>2, <1>3 DEF Owner, Account

\* The capped duration ends with the account (authorizationDuration).
LEMMA CappedDuration ==
    ASSUME NEW user, user.expires \in Nat, user.expires # 0, NEW t \in Nat
    PROVE  LET d == AuthorizationDuration(user, t)
           IN  d \in Nat /\ (d > 0 => t + d <= user.expires)
BY PortalAssumption DEF AuthorizationDuration

\* Nothing moves among the requests.
LEMMA RequestsStay ==
    ASSUME RequestsOK, req' = req,
           now \in Nat, now' \in Nat, now <= now', proven' = proven,
           \A s \in Session : sessions[s].mac \in Mac => sessions'[s].mac = sessions[s].mac
    PROVE  RequestsOK'
<1>1. \A x \in Request : ReqOK(req[x], now', proven', sessions')
  BY DEF RequestsOK, ReqOK, RequestState
<1>2. QED
  BY <1>1 DEF RequestsOK

\* A new session takes an id that no login has used (CreatePortalSession).
LEMMA SessionDrawn ==
    ASSUME StoreOK, now \in Nat, won' = won, NEW mac \in Mac, CreatePortalSession(mac)
    PROVE  /\ StoreOK'
           /\ \A s \in Session : sessions[s].mac \in Mac => sessions'[s].mac = sessions[s].mac
<1>1. PICK s \in Session :
         /\ sessions[s].mac = NoMac
         /\ sessions' = [sessions EXCEPT ![s] =
                [mac |-> mac, expires |-> now + SessionTTL, used |-> FALSE, stored |-> TRUE]]
  BY DEF CreatePortalSession
<1> DEFINE new == [mac |-> mac, expires |-> now + SessionTTL, used |-> FALSE, stored |-> TRUE]
<1>2. new \in SessionState /\ new.mac = mac
  BY PortalAssumption DEF SessionState
<1>3. sessions \in [Session -> SessionState]
  BY DEF StoreOK
<1> HIDE DEF new
<1>4. sessions' \in [Session -> SessionState]
  BY <1>1, <1>2, <1>3 DEF new
<1>5. sessions'[s] = new /\ \A x \in Session : x # s => sessions'[x] = sessions[x]
  BY <1>1, <1>3 DEF new
<1>6. NoMac \notin Mac
  BY PortalAssumption
<1>7. ~(won[s] > 0)
  BY <1>1, <1>6 DEF StoreOK
<1>8. QED
  BY <1>1, <1>2, <1>4, <1>5, <1>6, <1>7 DEF StoreOK

-----------------------------------------------------------------------------
(* The steps                                                               *)

LEMMA InitStep == Init => IInv
<1> SUFFICES ASSUME Init
             PROVE  IInv
  OBVIOUS
<1>1. RepoOK
  BY InitOK, MaxTimeAssumption DEF Init, RepoOK
<1>2. \A k \in DOMAIN records : records[k] \in Account
  BY <1>1 DEF RepoOK, RecordsOK, RecordOK
<1>3. Trusting = UNION {Trusted(records[k]) : k \in DOMAIN records}
  BY DEF Trusting, Trusted
<1>4. proven = Trusting /\ kept = Trusting /\ disturbed = FALSE
  BY DEF Init, PortalInit
<1>5. Trusting \subseteq Mac \X Username
  BY <1>2, <1>3 DEF Trusted, Listed, Account
<1>6. ProvenOK
  <2>1. \A row \in file : Trusted(row) \subseteq proven
    <3> SUFFICES ASSUME NEW row \in file
                 PROVE  Trusted(row) \subseteq proven
      OBVIOUS
    <3>1. row \in Row /\ FileOK(file) /\ records = Load(file, 1)
      BY <1>1 DEF RepoOK, FileOK, Init, RepositoryInit
    <3>2. /\ Loaded(row, 1).id \in DOMAIN records
          /\ records[Loaded(row, 1).id] = Loaded(row, 1)
      BY <3>1, LoadOK
    <3>3. Loaded(row, 1).devices = row.devices /\ Loaded(row, 1).username = row.username
      BY <3>1, LoadedFields
    <3>4. Trusted(Loaded(row, 1)) = Trusted(row)
      BY <3>3 DEF Trusted
    <3>5. QED
      BY <1>3, <1>4, <3>2, <3>4
  <2>2. QED
    BY <1>3, <1>4, <1>5, <2>1 DEF ProvenOK
<1>7. GrantsOK
  <2>1. ASSUME NEW m \in Mac
        PROVE  /\ TrustedUntil(m) \in Nat
               /\ TrustedUntil(m) # 0 => \E p \in Trusting : p[1] = m
    <3> DEFINE until == {records[k].devices[m] : k \in DOMAIN records} \ {0}
    <3>1. until \subseteq Nat \ {0}
      BY <1>2 DEF Account, Devices
    <3>2. CASE until = {}
      BY <3>2 DEF TrustedUntil
    <3>3. CASE until # {}
      <4>1. TrustedUntil(m) \in until
        BY <3>3 DEF TrustedUntil
      <4>2. PICK k \in DOMAIN records : records[k].devices[m] # 0
        BY <3>3
      <4>3. <<m, records[k].username>> \in Trusted(records[k])
        BY <4>2 DEF Trusted, Listed
      <4>4. <<m, records[k].username>> \in Trusting
        BY <1>3, <4>3
      <4>5. QED
        BY <3>1, <4>1, <4>4
    <3>4. QED
      BY <3>2, <3>3
  <2> DEFINE holder(m) == IF \E p \in Trusting : p[1] = m
                        THEN (CHOOSE p \in Trusting : p[1] = m)[2] ELSE NoUser
  <2>2. /\ net = [m \in Mac |-> TrustedUntil(m)]
        /\ granted = [m \in Mac |-> [user |-> holder(m), limit |-> TrustedUntil(m)]]
    BY DEF Init, NetInit, PortalInit
  <2>3. ASSUME NEW m \in Mac
        PROVE  /\ holder(m) \in Username \cup {NoUser}
               /\ TrustedUntil(m) # 0 => <<m, holder(m)>> \in Trusting
    <3>1. CASE \E p \in Trusting : p[1] = m
      <4>1. PICK p \in Trusting : p = CHOOSE x \in Trusting : x[1] = m
        BY <3>1
      <4>2. p[1] = m /\ p \in Trusting
        BY <3>1, <4>1
      <4>3. holder(m) = p[2]
        BY <3>1, <4>1
      <4>4. p = <<m, p[2]>> /\ p[2] \in Username
        BY <1>5, <4>2
      <4>5. QED
        BY <4>2, <4>3, <4>4
    <3>2. CASE ~\E p \in Trusting : p[1] = m
      BY <2>1, <3>2
    <3>3. QED
      BY <3>1, <3>2
  <2> HIDE DEF holder
  <2>4. \A m \in Mac : net[m] = TrustedUntil(m)
    BY <2>2
  <2>5. \A m \in Mac : granted[m].user = holder(m)
    BY <2>2
  <2>6. \A m \in Mac : granted[m].limit = TrustedUntil(m)
    BY <2>2
  <2>7. net \in [Mac -> Nat]
    BY <2>1, <2>2
  <2>8. granted \in [Mac -> [user : Username \cup {NoUser}, limit : Nat]]
    <3>1. \A m \in Mac : [user |-> holder(m), limit |-> TrustedUntil(m)]
                            \in [user : Username \cup {NoUser}, limit : Nat]
      BY <2>1, <2>3
    <3>2. QED
      BY <2>2, <3>1
  <2>9. \A m \in Mac : net[m] # 0 => <<m, granted[m].user>> \in proven
    BY <1>4, <2>3, <2>4, <2>5
  <2>10. \A m \in Mac : net[m] <= granted[m].limit
    BY <2>1, <2>4, <2>6
  <2>11. QED
    BY <2>7, <2>8, <2>9, <2>10 DEF GrantsOK, Init, PortalInit
<1>8. StoreOK
  BY PortalAssumption DEF Init, PortalInit, StoreOK, SessionState, NewSession
<1>9. RequestsOK
  <2>1. \A r \in Request : req[r] = Idle
    BY DEF Init, PortalInit
  <2>2. now \in Nat
    BY <1>1 DEF RepoOK
  <2>3. ReqOK(Idle, now, proven, sessions)
    BY <2>2, IdleOK
  <2>4. Idle \in RequestState
    BY <2>3 DEF ReqOK
  <2>5. QED
    BY <2>1, <2>3, <2>4 DEF RequestsOK, Init, PortalInit
<1>10. SlotsOK
  BY <1>3, <1>4 DEF SlotsOK
<1>11. HistoryOK
  BY <1>4, <1>5 DEF HistoryOK
<1>12. QED
  BY <1>1, <1>6, <1>7, <1>8, <1>9, <1>10, <1>11 DEF IInv

\* One request moves and nothing else does.
LEMMA QuietMove ==
    ASSUME IInv, NEW r \in Request, NEW q, Moves(r, q),
           ReqOK(q, now, proven, sessions),
           \A p : Claims(req[r], p) => Claims(q, p),
           UNCHANGED <<repositoryVars, net, underway, sessions, portalHistory>>
    PROVE  IInv'
<1> USE DEF repositoryVars, portalHistory
<1>1. now \in Nat
  BY DEF IInv, RepoOK
<1>2. RequestsOK'
  <2>1. RequestsOK /\ ReqOK(q, now', proven', sessions') /\ now' = now /\ proven' = proven
        /\ sessions' = sessions
    BY DEF IInv
  <2>2. QED
    BY <1>1, <2>1, RequestMoves
<1>3. SlotsOK'
  BY ConnectionsStay DEF IInv
<1>4. RepoOK' /\ ProvenOK' /\ GrantsOK' /\ StoreOK' /\ HistoryOK'
  BY DEF IInv, RepoOK, ProvenOK, GrantsOK, StoreOK, HistoryOK
<1>5. QED
  BY <1>2, <1>3, <1>4 DEF IInv

\* A request without a claim ends and nothing else happens.
LEMMA QuietEnd ==
    ASSUME IInv, NEW r \in Request, req[r].pc \in {"checked", "validated"},
           req' = [req EXCEPT ![r] = Idle],
           UNCHANGED <<repositoryVars, net, underway, sessions, portalHistory>>
    PROVE  IInv'
<1>1. ReqOK(Idle, now, proven, sessions)
  BY IdleOK DEF IInv, RepoOK
<1>2. \A p : ~Claims(req[r], p)
  BY DEF Claims
<1>3. Moves(r, Idle)
  BY DEF Moves
<1>4. QED
  BY <1>1, <1>2, <1>3, QuietMove

\* A login form is shown (CreatePortalSession).
LEMMA ShowLoginStep ==
    ASSUME IInv, NEW r \in Request, NEW mac \in Mac, ShowLogin(r, mac)
    PROVE  IInv'
<1> USE DEF ShowLogin, repositoryVars, portalHistory
<1>1. now \in Nat
  BY DEF IInv, RepoOK
<1>2. /\ StoreOK'
      /\ \A s \in Session : sessions[s].mac \in Mac => sessions'[s].mac = sessions[s].mac
  BY <1>1, SessionDrawn DEF IInv
<1>3. RequestsOK'
  BY <1>1, <1>2, RequestsStay DEF IInv
<1>4. RepoOK' /\ ProvenOK' /\ GrantsOK' /\ HistoryOK'
  BY DEF IInv, RepoOK, ProvenOK, GrantsOK, HistoryOK
<1>5. SlotsOK'
  BY DEF IInv, SlotsOK
<1>6. QED
  BY <1>2, <1>3, <1>4, <1>5 DEF IInv

\* A remembered device asks to be let in: its account trusts it, so its
\* credentials were accepted once (AutoAuthenticate).
LEMMA FindByMACStep ==
    ASSUME IInv, NEW r \in Request, NEW mac \in Mac, FindByMAC(r, mac)
    PROVE  IInv'
<1>1. PICK k \in RememberedBy(mac) :
         req' = [req EXCEPT ![r] = [Idle EXCEPT
                     !.pc = "reconnecting", !.mac = mac,
                     !.user = records[k].username,
                     !.expires = records[k].expires,
                     !.duration = AuthorizationDuration(records[k], now),
                     !.since = now]]
  BY DEF FindByMAC
<1> DEFINE a == records[k]
           d == AuthorizationDuration(a, now)
           q == [Idle EXCEPT !.pc = "reconnecting", !.mac = mac, !.user = a.username,
                             !.expires = a.expires, !.duration = d, !.since = now]
<1>2. now \in Nat /\ req[r].pc = "idle"
  BY DEF IInv, RepoOK, FindByMAC
<1>3. a \in Account /\ Trusted(a) \subseteq proven /\ Remembers(a, mac, now)
  BY <1>1 DEF RememberedBy, IInv, RepoOK, RecordsOK, RecordOK, ProvenOK
<1>4. a.expires \in Nat /\ a.expires # 0 /\ a.username \in Username
  BY <1>3 DEF Account, Remembers, CanAuthenticate
<1>5. <<mac, a.username>> \in proven
  BY <1>2, <1>3 DEF Remembers, Live, Listed, Trusted, Account, Devices
<1> HIDE DEF a
<1>6. d \in Nat /\ (d > 0 => now + d <= a.expires)
  BY <1>2, <1>4, CappedDuration
<1> HIDE DEF d
<1>7. ReqOK(q, now, proven, sessions)
  <2>1. /\ q \in RequestState
        /\ q.pc = "reconnecting" /\ q.session = NoSession /\ q.mac = mac
        /\ q.user = a.username /\ q.expires = a.expires /\ q.duration = d
        /\ q.since = now /\ q.late = FALSE
    BY <1>2, <1>4, <1>6 DEF Idle, RequestState
  <2> HIDE DEF q
  <2>2. QED
    BY <2>1, <1>2, <1>4, <1>5, <1>6, PortalAssumption
    DEF ReqOK, Accepted, Submitted
<1>8. Moves(r, q)
  BY <1>1 DEF a, d, Moves
<1> HIDE DEF q
<1>9. UNCHANGED <<repositoryVars, net, underway, sessions, portalHistory>>
  BY DEF FindByMAC
<1>10. \A p : ~Claims(req[r], p)
  BY <1>2 DEF Claims
<1>11. QED
  BY <1>7, <1>8, <1>9, <1>10, QuietMove

\* The controller lets a device in; what it was asked for was capped when the
\* request saw the account, and is late by as much as the call has waited
\* (Authorize).
LEMMA AdmitStep ==
    ASSUME GrantsOK, now \in Nat, now' = now, proven' = proven,
           NEW q, LateOK(q, now, proven),
           Admit(q.mac, q.duration), RecordGrant(q),
           \A x \in underway' : LateOK(x, now, proven)
    PROVE  GrantsOK'
<1> DEFINE grant == [user |-> q.user, limit |-> q.expires + (now - q.since)]
<1>1. /\ q.mac \in Mac /\ q.user \in Username /\ q.duration \in Nat
      /\ q.expires \in Nat /\ q.since \in Nat /\ q.since <= now
      /\ <<q.mac, q.user>> \in proven
      /\ q.duration > 0 => q.since + q.duration <= q.expires
  BY DEF LateOK, LateState
<1>2. \A x \in underway' : LateOK(x, now', proven')
  OBVIOUS
<1>3. CASE q.duration > 0
  <2>1. net' = [net EXCEPT ![q.mac] = now + q.duration]
    BY <1>3 DEF Admit
  <2>2. granted' = [granted EXCEPT ![q.mac] = grant]
    BY <1>3 DEF RecordGrant
  <2>3. now + q.duration \in Nat /\ q.expires + (now - q.since) \in Nat
        /\ now + q.duration <= q.expires + (now - q.since)
    BY <1>1, <1>3
  <2>4. grant \in [user : Username \cup {NoUser}, limit : Nat]
        /\ grant.user = q.user /\ grant.limit = q.expires + (now - q.since)
    BY <1>1, <2>3
  <2> HIDE DEF grant
  <2>5. net' \in [Mac -> Nat]
        /\ granted' \in [Mac -> [user : Username \cup {NoUser}, limit : Nat]]
    BY <2>1, <2>2, <2>3, <2>4 DEF GrantsOK
  <2>6. ASSUME NEW m \in Mac
        PROVE  /\ net'[m] # 0 => <<m, granted'[m].user>> \in proven
               /\ net'[m] <= granted'[m].limit
    <3>1. CASE m = q.mac
      <4>1. net'[m] = now + q.duration /\ granted'[m] = grant
        BY <1>1, <2>1, <2>2, <3>1 DEF GrantsOK
      <4>2. QED
        BY <1>1, <2>3, <2>4, <3>1, <4>1
    <3>2. CASE m # q.mac
      BY <1>1, <2>1, <2>2, <3>2 DEF GrantsOK
    <3>3. QED
      BY <3>1, <3>2
  <2>7. QED
    BY <1>2, <2>5, <2>6 DEF GrantsOK
<1>4. CASE ~(q.duration > 0)
  <2>1. net' = net /\ granted' = granted
    BY <1>4 DEF Admit, RecordGrant
  <2>2. QED
    BY <1>2, <2>1 DEF GrantsOK
<1>5. QED
  BY <1>3, <1>4

\* A request makes its call, which may come later than it thinks.
LEMMA GrantStep ==
    ASSUME GrantsOK, RequestsOK, now \in Nat, now' = now, proven' = proven,
           NEW r \in Request, req[r].pc \in {"reconnecting", "registered"},
           NEW outcome, Ask(r, outcome)
    PROVE  GrantsOK'
<1> DEFINE q == Asked(r)
<1>1. ReqOK(req[r], now, proven, sessions)
  BY DEF RequestsOK
<1>2. /\ q.mac = req[r].mac /\ q.user = req[r].user /\ q.duration = req[r].duration
      /\ q = [mac |-> req[r].mac, user |-> req[r].user, expires |-> req[r].expires,
              duration |-> req[r].duration, since |-> req[r].since]
  BY DEF Asked
<1>3. LateOK(q, now, proven)
  BY <1>1, <1>2 DEF LateOK, LateState, ReqOK, RequestState, Accepted
<1>4. /\ IF Applied(outcome) THEN Admit(q.mac, q.duration) ELSE UNCHANGED net
      /\ IF Applied(outcome) THEN RecordGrant(q) ELSE UNCHANGED granted
      /\ underway' = underway \/ underway' = underway \cup {q}
  BY <1>2 DEF Ask, Authorize
<1> HIDE DEF q
<1>5. \A x \in underway' : LateOK(x, now, proven)
  BY <1>3, <1>4 DEF GrantsOK
<1>6. CASE Applied(outcome)
  BY <1>3, <1>4, <1>5, <1>6, AdmitStep
<1>7. CASE ~Applied(outcome)
  BY <1>4, <1>5, <1>7 DEF GrantsOK
<1>8. QED
  BY <1>6, <1>7

\* A call that was given up reaches the controller (Authorize).
LEMMA ArriveStep ==
    ASSUME IInv, NEW q \in underway, Arrive(q)
    PROVE  IInv'
<1> USE DEF repositoryVars, storeVars
<1>1. /\ UNCHANGED <<repositoryVars, storeVars, proven, won, kept, disturbed>>
      /\ underway' \subseteq underway /\ Admit(q.mac, q.duration) /\ RecordGrant(q)
  BY DEF Arrive
<1>2. now \in Nat /\ GrantsOK
  BY DEF IInv, RepoOK
<1>3. GrantsOK'
  <2>1. \A x \in underway : LateOK(x, now, proven)
    BY <1>2 DEF GrantsOK
  <2>2. QED
    BY <1>1, <1>2, <2>1, AdmitStep
<1>4. RepoOK' /\ ProvenOK' /\ StoreOK' /\ SlotsOK' /\ HistoryOK'
  BY <1>1 DEF IInv, RepoOK, ProvenOK, StoreOK, SlotsOK, HistoryOK
<1>5. RequestsOK'
  BY <1>1, <1>2, RequestsStay DEF IInv
<1>6. QED
  BY <1>3, <1>4, <1>5 DEF IInv

\* A remembered device is let in, or handed a login form (AutoAuthenticate).
LEMMA ReconnectStep ==
    ASSUME IInv, NEW r \in Request, NEW outcome, Reconnect(r, outcome)
    PROVE  IInv'
<1>1. now \in Nat
  BY DEF IInv, RepoOK
<1>2. UNCHANGED repositoryVars /\ proven' = proven /\ won' = won /\ kept' = kept
      /\ disturbed' = disturbed /\ Moves(r, Idle)
  BY DEF Reconnect, Moves
<1>3. req[r].pc = "reconnecting" /\ ReqOK(req[r], now, proven, sessions)
  BY DEF Reconnect, IInv, RequestsOK
<1>4. GrantsOK'
  BY <1>1, <1>2, <1>3, GrantStep DEF IInv, Reconnect, repositoryVars
<1>5. /\ StoreOK'
      /\ \A s \in Session : sessions[s].mac \in Mac => sessions'[s].mac = sessions[s].mac
  <2>1. CASE sessions' = sessions
    BY <1>2, <2>1 DEF IInv, StoreOK
  <2>2. CASE CreatePortalSession(req[r].mac)
    <3>1. req[r].mac \in Mac
      BY <1>3 DEF ReqOK
    <3>2. QED
      BY <1>1, <1>2, <2>2, <3>1, SessionDrawn DEF IInv
  <2>3. QED
    BY <2>1, <2>2 DEF Reconnect
<1>6. now' = now
  BY <1>2 DEF repositoryVars
<1>7. RequestsOK'
  <2>1. ReqOK(Idle, now', proven', sessions')
    BY <1>1, <1>6, IdleOK
  <2>2. QED
    BY <1>1, <1>2, <1>5, <1>6, <2>1, RequestMoves DEF IInv
<1>8. SlotsOK'
  <2>1. \A p : ~Claims(req[r], p)
    BY <1>3 DEF Claims
  <2>2. records' = records
    BY <1>2 DEF repositoryVars
  <2>3. QED
    BY <1>2, <2>1, <2>2, ConnectionsStay DEF IInv
<1>9. RepoOK' /\ ProvenOK' /\ HistoryOK'
  BY <1>2 DEF IInv, RepoOK, ProvenOK, HistoryOK, repositoryVars
<1>10. QED
  BY <1>4, <1>5, <1>7, <1>8, <1>9 DEF IInv

\* A login begins with a session that has not won (Authenticate).
LEMMA SubmitStep ==
    ASSUME IInv, NEW r \in Request, NEW s \in Session, NEW name \in Username,
           NEW password \in Password, Submit(r, s, name, password)
    PROVE  IInv'
<1> DEFINE late == won[s] > 0
           q == [Idle EXCEPT !.pc = "checked", !.session = s, !.mac = sessions[s].mac,
                             !.user = name, !.password = password, !.late = late]
<1>1. sessions[s].mac \in Mac /\ late = FALSE
  BY DEF Submit, IInv, StoreOK
<1>2. now \in Nat /\ \A p : ~Claims(req[r], p)
  BY DEF Submit, Claims, IInv, RepoOK
<1>3. Moves(r, q) /\ UNCHANGED <<repositoryVars, net, underway, sessions, portalHistory>>
  BY DEF Submit, Moves
<1> HIDE DEF late
<1>4. /\ q \in RequestState
      /\ q.pc = "checked" /\ q.session = s /\ q.mac = sessions[s].mac
      /\ q.user = name /\ q.since = 0 /\ q.late = FALSE
  BY <1>1 DEF Idle, RequestState
<1> HIDE DEF q
<1>5. ReqOK(q, now, proven, sessions)
  BY <1>1, <1>2, <1>4 DEF ReqOK, Accepted, Submitted
<1>6. QED
  BY <1>2, <1>3, <1>5, QuietMove

\* An expired session is dropped (Authenticate).
LEMMA SubmitExpiredStep ==
    ASSUME IInv, NEW s \in Session, SubmitExpired(s)
    PROVE  IInv'
<1> USE DEF SubmitExpired, repositoryVars, portalHistory
<1>1. now \in Nat
  BY DEF IInv, RepoOK
<1>2. sessions \in [Session -> SessionState]
  BY DEF IInv, StoreOK
<1>3. /\ sessions' \in [Session -> SessionState]
      /\ \A x \in Session : /\ sessions'[x].mac = sessions[x].mac
                            /\ sessions'[x].used = sessions[x].used
                            /\ sessions'[x].stored => sessions[x].stored
  BY <1>2 DEF SessionState
<1>4. StoreOK'
  BY <1>3 DEF IInv, StoreOK
<1>5. RequestsOK'
  BY <1>1, <1>3, RequestsStay DEF IInv
<1>6. RepoOK' /\ ProvenOK' /\ GrantsOK' /\ SlotsOK' /\ HistoryOK'
  BY DEF IInv, RepoOK, ProvenOK, GrantsOK, SlotsOK, HistoryOK
<1>7. QED
  BY <1>4, <1>5, <1>6 DEF IInv

\* Credentials that are accepted vouch for the device (ValidateCredentials).
LEMMA ValidateCredentialsStep ==
    ASSUME IInv, NEW r \in Request, ValidateCredentials(r)
    PROVE  IInv'
<1>1. PICK k \in Owner(req[r].user) :
         /\ CredentialsAccepted(records[k], req[r].password, now)
         /\ req' = [req EXCEPT ![r].pc = "validated", ![r].kind = records[k].kind,
                               ![r].expires = records[k].expires]
  BY DEF ValidateCredentials
<1> DEFINE a == records[k]
           old == req[r]
           q == [old EXCEPT !.pc = "validated", !.kind = a.kind, !.expires = a.expires]
<1>2. now \in Nat /\ req \in [Request -> RequestState]
  BY DEF IInv, RepoOK, RequestsOK
<1>3. a \in Account /\ a.expires # 0
  BY <1>1, OneOwner DEF IInv, RepoOK, CredentialsAccepted, CanAuthenticate
<1>4. old.pc = "checked" /\ ReqOK(old, now, proven, sessions) /\ old \in RequestState
  BY <1>2 DEF ValidateCredentials, IInv, RequestsOK
<1>5. proven' = proven \cup {<<old.mac, old.user>>} /\ old.mac \in Mac /\ old.user \in Username
  BY <1>4 DEF ValidateCredentials, ReqOK
<1>6. Moves(r, q)
  BY <1>1, <1>2 DEF Moves
<1>7. UNCHANGED <<repositoryVars, net, underway, sessions, granted, won, kept, disturbed>>
  BY DEF ValidateCredentials
<1> HIDE DEF a
<1>8. /\ q \in RequestState
      /\ q.pc = "validated" /\ q.expires = a.expires /\ q.session = old.session
      /\ q.mac = old.mac /\ q.user = old.user /\ q.since = old.since /\ q.late = old.late
  BY <1>3, <1>4 DEF RequestState, Account
<1> HIDE DEF q
<1>9. ReqOK(q, now, proven', sessions)
  BY <1>3, <1>4, <1>5, <1>8 DEF ReqOK, Submitted, Accepted
<1>10. \A p : ~Claims(old, p)
  BY <1>4 DEF Claims
<1> USE DEF repositoryVars
<1>11. RequestsOK'
  <2>1. ReqOK(q, now', proven', sessions') /\ now' = now /\ proven \subseteq proven'
        /\ sessions' = sessions
    BY <1>5, <1>7, <1>9
  <2>2. QED
    BY <1>2, <1>6, <2>1, RequestMoves DEF IInv
<1>12. SlotsOK'
  <2>1. records' = records /\ disturbed' = disturbed /\ kept' = kept
    BY <1>7
  <2>2. QED
    BY <1>6, <1>10, <2>1, ConnectionsStay DEF IInv
<1> HIDE DEF old
<1>13. ProvenOK'
  BY <1>5, <1>7 DEF IInv, ProvenOK
<1>14. GrantsOK'
  <2>1. \A x \in underway : LateOK(x, now, proven) => LateOK(x, now', proven')
    BY <1>5, <1>7 DEF LateOK
  <2>2. QED
    BY <1>5, <1>7, <2>1 DEF IInv, GrantsOK
<1>15. RepoOK' /\ StoreOK' /\ HistoryOK'
  BY <1>7 DEF IInv, RepoOK, StoreOK, HistoryOK
<1>16. QED
  BY <1>11, <1>12, <1>13, <1>14, <1>15 DEF IInv

-----------------------------------------------------------------------------
(* Changing device lists                                                   *)

\* A registration adds one pair to those its account trusts.
LEMMA RegisteredPairs ==
    ASSUME NEW k \in DOMAIN records, records[k] \in Account,
           NEW mac \in Mac, NEW until \in Nat,
           records' = [records EXCEPT ![k].devices = WithDevice(@, mac, until, now)]
    PROVE  /\ DOMAIN records' = DOMAIN records
           /\ \A l \in DOMAIN records : l # k => Trusted(records'[l]) = Trusted(records[l])
           /\ Trusted(records'[k]) \subseteq
                 Trusted(records[k]) \cup {<<mac, records[k].username>>}
<1> DEFINE d == WithDevice(records[k].devices, mac, until, now)
           b == [records[k] EXCEPT !.devices = d]
<1>1. /\ records' = [records EXCEPT ![k] = b]
      /\ \A l \in DOMAIN records : l # k => records'[l] = records[l]
      /\ records'[k] = b /\ DOMAIN records' = DOMAIN records
  OBVIOUS
<1>2. b.devices = d /\ b.username = records[k].username
  BY DEF Account
<1>3. Listed(d) \subseteq Listed(records[k].devices) \cup {mac}
  BY DEF WithDevice, Listed, Live, Account, Devices
<1> HIDE DEF b, d
<1>4. QED
  BY <1>1, <1>2, <1>3 DEF Trusted

\* A removal takes one pair away.
LEMMA RemovedPairs ==
    ASSUME NEW k \in DOMAIN records, records[k] \in Account, NEW mac \in Mac,
           records' = [records EXCEPT ![k].devices = WithoutDevice(@, mac)]
    PROVE  /\ DOMAIN records' = DOMAIN records
           /\ \A l \in DOMAIN records : l # k => Trusted(records'[l]) = Trusted(records[l])
           /\ Trusted(records'[k]) \subseteq
                 Trusted(records[k]) \ {<<mac, records[k].username>>}
<1> DEFINE d == WithoutDevice(records[k].devices, mac)
           b == [records[k] EXCEPT !.devices = d]
<1>1. /\ records' = [records EXCEPT ![k] = b]
      /\ \A l \in DOMAIN records : l # k => records'[l] = records[l]
      /\ records'[k] = b /\ DOMAIN records' = DOMAIN records
  OBVIOUS
<1>2. b.devices = d /\ b.username = records[k].username
  BY DEF Account
<1>3. Listed(d) \subseteq Listed(records[k].devices) \ {mac}
  BY DEF WithoutDevice, Listed, Account, Devices
<1> HIDE DEF b, d
<1>4. QED
  BY <1>1, <1>2, <1>3 DEF Trusted

\* As long as memory trusts proven pairs, so does whatever is written of it.
LEMMA ProvenKept ==
    ASSUME ProvenOK, \A k \in DOMAIN records' : Trusted(records'[k]) \subseteq proven,
           file' \in {Rows(records'), file, {}}, proven' = proven
    PROVE  ProvenOK'
<1>1. \A row \in file' : Trusted(row) \subseteq proven
  BY DEF ProvenOK, Rows
<1>2. QED
  BY <1>1 DEF ProvenOK

\* The device is put on the list of the account whose credentials it entered, and
\* the connection it takes is answered for: by this login if it is new, by
\* whoever put it there before if not (RegisterDevice).
LEMMA RegisterStep ==
    ASSUME IInv, NEW r \in Request, NEW outcome \in PersistOutcome, Register(r, outcome)
    PROVE  IInv'
<1> DEFINE old == req[r]
           new == NewlyTrusted(old.user, old.mac)
           d == AuthorizationDuration(old, now)
           q == IF outcome = "saved"
                THEN [old EXCEPT !.pc = "registered", !.fresh = new, !.duration = d,
                                 !.since = now]
                ELSE Idle
           pair == <<old.mac, old.user>>
<1>1. now \in Nat /\ RecordsOK(records) /\ FileOK(file) /\ req \in [Request -> RequestState]
  BY DEF IInv, RepoOK, RequestsOK
<1>2. old.pc = "validated" /\ old \in RequestState /\ ReqOK(old, now, proven, sessions)
  BY <1>1 DEF Register, IInv, RequestsOK
<1>3. /\ old.mac \in Mac /\ old.expires \in Nat /\ old.expires # 0 /\ pair \in proven
  BY <1>2 DEF ReqOK, RequestState, Accepted
<1>4. /\ RegisterDevice(old.user, old.mac, old.expires, outcome) /\ Moves(r, q)
      /\ disturbed' = (disturbed \/ outcome # "saved")
      /\ UNCHANGED <<net, underway, sessions, proven, granted, won, kept>>
  BY DEF Register, Moves
<1> HIDE DEF q
<1>5. PICK k \in Owner(old.user) :
         /\ HasRoom(records[k], old.mac, now)
         /\ records' = [records EXCEPT ![k].devices =
                           WithDevice(@, old.mac, old.expires, now)]
         /\ RecordsOK(records') /\ FileOK(file') /\ now' = now
         /\ file' \in {Rows(records'), file, {}}
  BY <1>1, <1>3, <1>4, RegisterOK
<1>6. /\ Owner(old.user) = {k} /\ k \in DOMAIN records /\ records[k] \in Account
      /\ records[k].username = old.user
  BY <1>1, OneOwner
<1>7. /\ DOMAIN records' = DOMAIN records
      /\ \A l \in DOMAIN records : l # k => Trusted(records'[l]) = Trusted(records[l])
      /\ Trusted(records'[k]) \subseteq Trusted(records[k]) \cup {pair}
  BY <1>3, <1>5, <1>6, RegisteredPairs
<1>8. RepoOK'
  BY <1>5 DEF IInv, RepoOK
<1>9. ProvenOK'
  <2>1. \A l \in DOMAIN records' : Trusted(records'[l]) \subseteq proven
    BY <1>3, <1>7 DEF IInv, ProvenOK
  <2>2. QED
    BY <1>4, <1>5, <2>1, ProvenKept DEF IInv
<1>10. ReqOK(q, now, proven, sessions)
  <2>1. CASE outcome # "saved"
    BY <1>1, <2>1, IdleOK DEF q
  <2>2. CASE outcome = "saved"
    <3>1. d \in Nat /\ (d > 0 => now + d <= old.expires)
      BY <1>1, <1>3, CappedDuration
    <3>2. new \in BOOLEAN
      BY DEF NewlyTrusted
    <3> HIDE DEF d, new
    <3>3. /\ q \in RequestState /\ q.pc = "registered" /\ q.duration = d /\ q.since = now
          /\ q.session = old.session /\ q.mac = old.mac /\ q.user = old.user
          /\ q.expires = old.expires /\ q.late = old.late
      BY <1>1, <1>2, <2>2, <3>1, <3>2 DEF q, RequestState
    <3>4. QED
      BY <1>1, <1>2, <1>3, <3>1, <3>3 DEF ReqOK, Submitted, Accepted
  <2>3. QED
    BY <2>1, <2>2
<1>11. RequestsOK'
  <2>1. ReqOK(q, now', proven', sessions') /\ proven' = proven /\ sessions' = sessions
    BY <1>4, <1>5, <1>10
  <2>2. QED
    BY <1>1, <1>4, <1>5, <2>1, RequestMoves DEF IInv
<1>12. SlotsOK'
  <2>1. SUFFICES ASSUME ~disturbed',
                        NEW l \in DOMAIN records', NEW p \in Trusted(records'[l])
                 PROVE  p \in kept' \/ \E x \in Request : Claims(req'[x], p)
    BY DEF SlotsOK, Claims
  <2>2. ~disturbed /\ outcome = "saved" /\ kept' = kept
    BY <1>4, <2>1
  <2>3. /\ req'[r] = q
        /\ \A x \in Request : x # r => req'[x] = req[x]
    BY <1>1, <1>4 DEF Moves
  <2>4. ASSUME p \in Trusted(records[l])
        PROVE  p \in kept' \/ \E x \in Request : Claims(req'[x], p)
    <3>1. p \in kept \/ \E x \in Request : Claims(req[x], p)
      BY <1>7, <2>1, <2>2, <2>4 DEF IInv, SlotsOK
    <3>2. \A x \in Request : Claims(req[x], p) => x # r
      BY <1>2 DEF Claims
    <3>3. QED
      BY <2>2, <2>3, <3>1, <3>2
  <2>5. ASSUME p \notin Trusted(records[l])
        PROVE  Claims(q, p)
    <3>1. l = k /\ p = pair
      BY <1>7, <2>1, <2>5
    <3>2. old.mac \notin Listed(records[k].devices)
      BY <1>6, <2>5, <3>1 DEF Trusted
    <3>3. old.mac \notin Live(records[k].devices, now)
      BY <1>1, <1>6, <3>2 DEF Listed, Live, Account, Devices
    <3>4. new = TRUE
      BY <1>6, <3>3 DEF NewlyTrusted
    <3> HIDE DEF new, d
    <3>5. q.fresh = new /\ q.pc = "registered" /\ q.mac = old.mac /\ q.user = old.user
      BY <1>2, <2>2 DEF q, RequestState
    <3>6. QED
      BY <3>1, <3>4, <3>5 DEF Claims
  <2>6. QED
    BY <2>3, <2>4, <2>5
<1>13. GrantsOK' /\ StoreOK' /\ HistoryOK'
  BY <1>4, <1>5 DEF IInv, GrantsOK, StoreOK, HistoryOK
<1>14. QED
  BY <1>8, <1>9, <1>11, <1>12, <1>13 DEF IInv

\* The controller has answered; only a login that took a connection goes on to
\* give it back (Authenticate).
LEMMA AuthorizeClientStep ==
    ASSUME IInv, NEW r \in Request, NEW outcome, AuthorizeClient(r, outcome)
    PROVE  IInv'
<1> DEFINE old == req[r]
           q == IF outcome = "done" THEN [old EXCEPT !.pc = "authorized"]
                ELSE IF old.fresh THEN [old EXCEPT !.pc = "refused"]
                ELSE Idle
<1>1. now \in Nat /\ req \in [Request -> RequestState]
  BY DEF IInv, RepoOK, RequestsOK
<1>2. old.pc = "registered" /\ old \in RequestState /\ ReqOK(old, now, proven, sessions)
  BY <1>1 DEF AuthorizeClient, IInv, RequestsOK
<1>3. UNCHANGED <<repositoryVars, sessions, proven, won, kept, disturbed>> /\ Moves(r, q)
  BY DEF AuthorizeClient, Moves
<1> USE DEF repositoryVars
<1>4. GrantsOK'
  BY <1>1, <1>2, <1>3, GrantStep DEF IInv, AuthorizeClient
<1> HIDE DEF q
<1>5. CASE q = Idle /\ ~old.fresh
  <2>1. ReqOK(q, now, proven, sessions) /\ \A p : Claims(old, p) => Claims(q, p)
    BY <1>1, <1>5, IdleOK DEF Claims
  <2>2. ReqOK(q, now', proven', sessions') /\ now' = now /\ proven' = proven
        /\ sessions' = sessions /\ records' = records /\ disturbed' = disturbed /\ kept' = kept
    BY <1>3, <2>1
  <2>3. RequestsOK'
    BY <1>1, <1>3, <2>2, RequestMoves DEF IInv
  <2>4. SlotsOK'
    BY <1>3, <2>1, <2>2, ConnectionsStay DEF IInv
  <2>5. RepoOK' /\ ProvenOK' /\ StoreOK' /\ HistoryOK'
    BY <1>3 DEF IInv, RepoOK, ProvenOK, StoreOK, HistoryOK
  <2>6. QED
    BY <1>4, <2>3, <2>4, <2>5 DEF IInv
<1>6. ASSUME NEW pc \in {"authorized", "refused"}, q = [old EXCEPT !.pc = pc],
             pc = "refused" => old.fresh
      PROVE  IInv'
  <2>1. /\ q \in RequestState /\ q.pc = pc /\ q.session = old.session
        /\ q.mac = old.mac /\ q.user = old.user /\ q.expires = old.expires
        /\ q.since = old.since /\ q.late = old.late /\ q.fresh = old.fresh
    BY <1>2, <1>6 DEF RequestState
  <2>2. ReqOK(q, now, proven, sessions) /\ \A p : Claims(old, p) => Claims(q, p)
    BY <1>2, <1>6, <2>1 DEF ReqOK, Submitted, Accepted, Claims
  <2>3. ReqOK(q, now', proven', sessions') /\ now' = now /\ proven' = proven
        /\ sessions' = sessions /\ records' = records /\ disturbed' = disturbed /\ kept' = kept
    BY <1>3, <2>2
  <2>4. RequestsOK'
    BY <1>1, <1>3, <2>3, RequestMoves DEF IInv
  <2>5. SlotsOK'
    BY <1>3, <2>2, <2>3, ConnectionsStay DEF IInv
  <2>6. RepoOK' /\ ProvenOK' /\ StoreOK' /\ HistoryOK'
    BY <1>3 DEF IInv, RepoOK, ProvenOK, StoreOK, HistoryOK
  <2>7. QED
    BY <1>4, <2>4, <2>5, <2>6 DEF IInv
<1>7. \/ q = Idle /\ ~old.fresh
      \/ q = [old EXCEPT !.pc = "authorized"]
      \/ q = [old EXCEPT !.pc = "refused"] /\ old.fresh
  BY DEF q
<1>8. QED
  BY <1>5, <1>6, <1>7

\* A refused login takes its device off the list again, and with it the claim
\* (RemoveDevice).
LEMMA RollbackStep ==
    ASSUME IInv, NEW r \in Request, NEW outcome, Rollback(r, outcome)
    PROVE  IInv'
<1> DEFINE old == req[r]
           pair == <<old.mac, old.user>>
<1>1. now \in Nat /\ RecordsOK(records) /\ FileOK(file) /\ req \in [Request -> RequestState]
  BY DEF IInv, RepoOK, RequestsOK
<1>2. old.pc = "refused" /\ ReqOK(old, now, proven, sessions) /\ old.mac \in Mac
  BY DEF Rollback, IInv, RequestsOK, ReqOK
<1>3. /\ Moves(r, Idle)
      /\ disturbed' = (disturbed \/ outcome # "saved")
      /\ UNCHANGED <<net, underway, sessions, proven, granted, won, kept>>
  BY DEF Rollback, Moves
<1>4. /\ RepoOK' /\ now' = now
      /\ file' \in {Rows(records'), file, {}}
      /\ DOMAIN records' = DOMAIN records
      /\ \A l \in DOMAIN records :
            Trusted(records'[l]) \subseteq Trusted(records[l]) \ {pair}
  <2>1. CASE Owner(old.user) = {}
    <3>1. UNCHANGED repositoryVars
      BY <2>1 DEF Rollback
    <3>2. \A l \in DOMAIN records : records[l].username # old.user
      BY <2>1 DEF Owner
    <3>3. \A l \in DOMAIN records : pair \notin Trusted(records[l])
      BY <3>2 DEF Trusted
    <3>4. QED
      BY <3>1, <3>3 DEF IInv, RepoOK, repositoryVars
  <2>2. CASE Owner(old.user) # {}
    <3>1. RemoveDevice(old.user, old.mac, outcome)
      BY <2>2 DEF Rollback
    <3>2. PICK k \in Owner(old.user) :
             /\ records' = [records EXCEPT ![k].devices = WithoutDevice(@, old.mac)]
             /\ RecordsOK(records') /\ FileOK(file') /\ now' = now
             /\ file' \in {Rows(records'), file, {}}
      BY <1>1, <1>2, <3>1, RemoveOK
    <3>3. /\ Owner(old.user) = {k} /\ k \in DOMAIN records /\ records[k] \in Account
          /\ records[k].username = old.user
      BY <1>1, OneOwner
    <3>4. /\ DOMAIN records' = DOMAIN records
          /\ \A l \in DOMAIN records : l # k => Trusted(records'[l]) = Trusted(records[l])
          /\ Trusted(records'[k]) \subseteq Trusted(records[k]) \ {pair}
      BY <1>2, <3>2, <3>3, RemovedPairs
    <3>5. \A l \in DOMAIN records : l # k => records[l].username # old.user
      BY <3>3 DEF Owner
    <3>6. \A l \in DOMAIN records : l # k => pair \notin Trusted(records[l])
      BY <3>5 DEF Trusted
    <3>7. RepoOK'
      BY <3>2 DEF IInv, RepoOK
    <3>8. QED
      BY <3>2, <3>4, <3>6, <3>7
  <2>3. QED
    BY <2>1, <2>2
<1>5. ProvenOK'
  <2>1. \A l \in DOMAIN records' : Trusted(records'[l]) \subseteq proven
    BY <1>4 DEF IInv, ProvenOK
  <2>2. QED
    BY <1>3, <1>4, <2>1, ProvenKept DEF IInv
<1>6. RequestsOK'
  <2>1. ReqOK(Idle, now', proven', sessions') /\ proven' = proven /\ sessions' = sessions
    BY <1>1, <1>3, <1>4, IdleOK
  <2>2. QED
    BY <1>1, <1>3, <1>4, <2>1, RequestMoves DEF IInv
<1>7. SlotsOK'
  <2>1. SUFFICES ASSUME ~disturbed',
                        NEW l \in DOMAIN records', NEW p \in Trusted(records'[l])
                 PROVE  p \in kept' \/ \E x \in Request : Claims(req'[x], p)
    BY DEF SlotsOK, Claims
  <2>2. ~disturbed /\ kept' = kept
    BY <1>3, <2>1
  <2>3. p \in Trusted(records[l]) /\ p # pair /\ l \in DOMAIN records
    BY <1>4, <2>1
  <2>4. p \in kept \/ \E x \in Request : Claims(req[x], p)
    BY <2>2, <2>3 DEF IInv, SlotsOK
  <2>5. \A x \in Request : Claims(req[x], p) => x # r
    BY <2>3 DEF Claims
  <2>6. \A x \in Request : x # r => req'[x] = req[x]
    BY <1>1, <1>3 DEF Moves
  <2>7. QED
    BY <2>2, <2>4, <2>5, <2>6
<1>8. GrantsOK' /\ StoreOK' /\ HistoryOK'
  BY <1>3, <1>4 DEF IInv, GrantsOK, StoreOK, HistoryOK
<1>9. QED
  BY <1>4, <1>5, <1>6, <1>7, <1>8 DEF IInv

\* A login succeeds: its session is marked and its connection is its own
\* (Authenticate).
LEMMA SucceedStep ==
    ASSUME IInv, NEW r \in Request, Succeed(r)
    PROVE  IInv'
<1> DEFINE old == req[r]
           s == old.session
           pair == <<old.mac, old.user>>
<1>1. now \in Nat /\ old.pc = "authorized" /\ ReqOK(old, now, proven, sessions)
  BY DEF Succeed, IInv, RepoOK, RequestsOK
<1>2. /\ s \in Session /\ old.mac \in Mac /\ sessions[s].mac = old.mac
      /\ old.user \in Username
  BY <1>1 DEF ReqOK, Submitted
<1>3. /\ sessions' = [sessions EXCEPT ![s].used = TRUE, ![s].stored = TRUE]
      /\ won' = [won EXCEPT ![s] = @ + 1]
      /\ kept' = IF old.fresh THEN kept \cup {pair} ELSE kept
      /\ Moves(r, Idle)
      /\ UNCHANGED <<repositoryVars, net, underway, proven, granted, disturbed>>
  BY DEF Succeed, Moves
<1>4. sessions \in [Session -> SessionState] /\ won \in [Session -> Nat]
  BY DEF IInv, StoreOK
<1>5. /\ sessions' \in [Session -> SessionState]
      /\ sessions'[s].mac = sessions[s].mac /\ sessions'[s].used = TRUE
      /\ \A x \in Session : x # s => sessions'[x] = sessions[x]
  <2> DEFINE marked == [sessions[s] EXCEPT !.used = TRUE, !.stored = TRUE]
  <2>1. marked \in SessionState /\ marked.mac = sessions[s].mac /\ marked.used = TRUE
    BY <1>2, <1>4 DEF SessionState
  <2>2. sessions' = [sessions EXCEPT ![s] = marked]
    BY <1>2, <1>3, <1>4
  <2> HIDE DEF marked
  <2>3. QED
    BY <1>2, <1>4, <2>1, <2>2
<1>6. /\ won' \in [Session -> Nat]
      /\ \A x \in Session : x # s => won'[x] = won[x]
  BY <1>2, <1>3, <1>4
<1> HIDE DEF s, old, pair
<1>7. StoreOK'
  BY <1>2, <1>5, <1>6 DEF IInv, StoreOK
<1> USE DEF repositoryVars
<1>8. RequestsOK'
  <2>1. ReqOK(Idle, now', proven', sessions') /\ now' = now /\ proven' = proven
    BY <1>1, <1>3, IdleOK
  <2>2. \A x \in Session : sessions'[x].mac = sessions[x].mac
    BY <1>5
  <2>3. now \in Nat /\ Moves(r, Idle) /\ RequestsOK
    BY <1>1, <1>3 DEF IInv
  <2>4. QED
    BY <2>1, <2>2, <2>3, RequestMoves
<1>9. SlotsOK'
  <2>1. \A p : Claims(req[r], p) => p \in kept'
    BY <1>3 DEF Claims, old, pair
  <2>2. records' = records /\ disturbed' = disturbed /\ kept \subseteq kept'
    BY <1>3
  <2>3. QED
    BY <1>3, <2>1, <2>2, ConnectionsStay DEF IInv
<1>10. HistoryOK'
  BY <1>2, <1>3 DEF IInv, HistoryOK, pair
<1>11. RepoOK' /\ ProvenOK' /\ GrantsOK'
  BY <1>3 DEF IInv, RepoOK, ProvenOK, GrantsOK
<1>12. QED
  BY <1>7, <1>8, <1>9, <1>10, <1>11 DEF IInv

\* The process starts again on its file, which holds proven pairs only.
LEMMA RestartStep ==
    ASSUME IInv, Restart
    PROVE  IInv'
<1>1. now \in Nat /\ FileOK(file)
  BY DEF IInv, RepoOK
<1>2. /\ RecordsOK(records') /\ FileOK(file') /\ now' = now /\ file' = file
      /\ \A k \in DOMAIN records' : \E row \in file : records'[k] = Loaded(row, now)
  BY <1>1, ReloadOK DEF Restart
<1>3. RepoOK'
  BY <1>2 DEF IInv, RepoOK
<1>4. ProvenOK'
  <2>1. ASSUME NEW k \in DOMAIN records'
        PROVE  Trusted(records'[k]) \subseteq proven
    <3>1. PICK row \in file : records'[k] = Loaded(row, now)
      BY <1>2
    <3>2. row \in Row
      BY <1>1 DEF FileOK
    <3>3. records'[k].devices = row.devices /\ records'[k].username = row.username
      BY <1>1, <3>1, <3>2, LoadedFields
    <3>4. QED
      BY <3>3 DEF Trusted, IInv, ProvenOK
  <2>2. proven' = proven
    BY DEF Restart
  <2>3. QED
    BY <1>2, <2>1, <2>2, ProvenKept DEF IInv
<1>5. StoreOK'
  <2>1. sessions \in [Session -> SessionState]
    BY DEF IInv, StoreOK
  <2>2. /\ sessions' \in [Session -> SessionState]
        /\ \A s \in Session : /\ sessions'[s].mac = sessions[s].mac
                              /\ sessions'[s].used = sessions[s].used
                              /\ sessions'[s].stored = FALSE
    BY <2>1 DEF Restart, SessionState
  <2>3. QED
    BY <2>2 DEF IInv, StoreOK, Restart
<1>6. RequestsOK'
  <2>1. ReqOK(Idle, now', proven', sessions')
    BY <1>1, <1>2, IdleOK
  <2>2. Idle \in RequestState
    BY <2>1 DEF ReqOK
  <2>3. req' = [r \in Request |-> Idle]
    BY DEF Restart
  <2>4. QED
    BY <2>1, <2>2, <2>3 DEF RequestsOK
<1>7. SlotsOK' /\ HistoryOK' /\ GrantsOK'
  BY <1>2 DEF Restart, IInv, SlotsOK, HistoryOK, GrantsOK
<1>8. QED
  BY <1>3, <1>4, <1>5, <1>6, <1>7 DEF IInv

LEMMA ClockStep ==
    ASSUME IInv, Clock
    PROVE  IInv'
<1> USE DEF Clock, Tick, portalVars, storeVars, portalHistory
<1>1. now \in Nat /\ now' = now + 1 /\ now' \in 1 .. MaxTime
  BY MaxTimeAssumption DEF IInv, RepoOK
<1>2. RequestsOK'
  BY <1>1, RequestsStay DEF IInv
<1>3. RepoOK'
  BY <1>1 DEF IInv, RepoOK
<1>4. ProvenOK' /\ StoreOK' /\ SlotsOK' /\ HistoryOK'
  BY DEF IInv, ProvenOK, StoreOK, SlotsOK, HistoryOK
<1>5. GrantsOK'
  <2>1. \A x \in underway : LateOK(x, now, proven) => LateOK(x, now', proven')
    BY <1>1 DEF LateOK, LateState
  <2>2. QED
    BY <2>1 DEF IInv, GrantsOK
<1>6. QED
  BY <1>2, <1>3, <1>4, <1>5 DEF IInv

-----------------------------------------------------------------------------
(* The theorems                                                            *)

LEMMA NextStep == IInv /\ [Next]_vars => IInv'
<1> SUFFICES ASSUME IInv, [Next]_vars
             PROVE  IInv'
  OBVIOUS
<1>1. CASE UNCHANGED vars
  BY <1>1 DEF vars, repositoryVars, portalVars, storeVars, portalHistory, IInv,
     RepoOK, ProvenOK, GrantsOK, StoreOK, RequestsOK, SlotsOK, HistoryOK
<1>2. CASE Arrival
  BY <1>2, ShowLoginStep, FindByMACStep, SubmitStep, SubmitExpiredStep DEF Arrival
<1>3. ASSUME NEW r \in Request, Progress(r)
      PROVE  IInv'
  <2>1. CASE ValidateCredentials(r)
    BY <2>1, ValidateCredentialsStep
  <2>2. CASE RejectCredentials(r)
    BY <2>2, QuietEnd DEF RejectCredentials
  <2>3. CASE RegisterRefused(r)
    BY <2>3, QuietEnd DEF RegisterRefused
  <2>4. CASE \E outcome \in PersistOutcome : Register(r, outcome) \/ Rollback(r, outcome)
    BY <2>4, RegisterStep, RollbackStep
  <2>5. CASE \E outcome \in ControllerOutcome :
                AuthorizeClient(r, outcome) \/ Reconnect(r, outcome)
    BY <2>5, AuthorizeClientStep, ReconnectStep
  <2>6. CASE Succeed(r)
    BY <2>6, SucceedStep
  <2>7. QED
    BY <1>3, <2>1, <2>2, <2>3, <2>4, <2>5, <2>6 DEF Progress
<1>4. CASE Restart
  BY <1>4, RestartStep
<1>5. CASE Clock
  BY <1>5, ClockStep
<1>6. CASE \E q \in underway : Arrive(q)
  BY <1>6, ArriveStep
<1>7. QED
  BY <1>1, <1>2, <1>3, <1>4, <1>5, <1>6 DEF Next

LEMMA Invariance == Spec => []IInv
  BY InitStep, NextStep, PTL DEF Spec

\* What the invariant says of the shape of the state.
LEMMA Shape ==
    ASSUME IInv
    PROVE  TypeOK
<1>1. RepositoryTypeOK
  BY DEF IInv, RepoOK, RepositoryTypeOK, RecordsOK, RecordOK, FileOK
<1>2. NetTypeOK /\ granted \in [Mac -> [user : Username \cup {NoUser}, limit : Nat]]
  BY DEF IInv, GrantsOK, NetTypeOK
<1>3. \A r \in Request : req[r].session \in Session =>
         req[r].mac \in Mac /\ sessions[req[r].session].mac = req[r].mac
  BY DEF IInv, RequestsOK, ReqOK
<1>4. /\ sessions \in [Session -> SessionState] /\ won \in [Session -> Nat]
      /\ req \in [Request -> RequestState]
      /\ proven \subseteq Mac \X Username /\ kept \subseteq Mac \X Username
      /\ disturbed \in BOOLEAN
      /\ underway \subseteq LateState
  BY DEF IInv, StoreOK, RequestsOK, ProvenOK, GrantsOK, LateOK, HistoryOK
<1>5. QED
  BY <1>1, <1>2, <1>3, <1>4, Zenon DEF TypeOK, SessionState

\* Store, requests and controller keep their shape, and a request past the session
\* check carries the MAC of its session, for any number of requests, sessions,
\* devices and accounts (CreatePortalSession, Authenticate).
THEOREM TypeCorrect == Spec => []TypeOK
BY Shape, Invariance, PTL

\* Nobody gets onto the network or onto a device list without credentials, through
\* any interleaving of logins, failed calls and crashes (Authenticate,
\* AutoAuthenticate).
THEOREM GrantProvenHolds == Spec => []GrantProven
<1>1. IInv => GrantProven
  BY DEF IInv, GrantsOK, ProvenOK, GrantProven, Trusting, Trusted
<1>2. QED
  BY <1>1, Invariance, PTL

\* No permission outlives its account by more than the wait for the controller
\* (authorizationDuration).
THEOREM GrantWithinAccountHolds == Spec => []GrantWithinAccount
<1>1. IInv => GrantWithinAccount
  BY DEF IInv, GrantsOK, GrantWithinAccount
<1>2. QED
  BY <1>1, Invariance, PTL

\* A session that has won lets in nobody who comes later (Authenticate).
THEOREM NoLateReplayHolds == Spec => []NoLateReplay
<1>1. IInv => NoLateReplay
  BY DEF IInv, RequestsOK, ReqOK, NoLateReplay
<1>2. QED
  BY <1>1, Invariance, PTL

\* Every connection belongs to a device that logged in or to a login under way,
\* however many logins and devices compete for it (Authenticate).
THEOREM SlotJustifiedHolds == Spec => []SlotJustified
<1>1. IInv => SlotJustified
  BY DEF IInv, SlotsOK, Claims, SlotJustified, Trusting, Trusted
<1>2. QED
  BY <1>1, Invariance, PTL

-----------------------------------------------------------------------------
(* Beside other users of the repository                                    *)

\* Whoever else changes accounts does no harm to the logins under way as long as
\* no account comes to trust a device that it did not trust before.
LEMMA OthersStep ==
    ASSUME IInv, UNCHANGED portalVars, now' = now,
           RecordsOK(records'), FileOK(file'), file' \in {Rows(records'), file, {}},
           \A k \in DOMAIN records' :
              \/ Listed(records'[k].devices) = {}
              \/ /\ k \in DOMAIN records
                 /\ records'[k].username = records[k].username
                 /\ Listed(records'[k].devices) \subseteq Listed(records[k].devices),
           net' \in [Mac -> Nat], \A m \in Mac : net'[m] \in {net[m], 0}
    PROVE  IInv'
<1> USE DEF portalVars, storeVars, portalHistory
<1>1. RepoOK'
  BY DEF IInv, RepoOK
<1>2. ASSUME NEW k \in DOMAIN records'
      PROVE  \/ Trusted(records'[k]) = {}
             \/ k \in DOMAIN records /\ Trusted(records'[k]) \subseteq Trusted(records[k])
  <2>1. CASE Listed(records'[k].devices) = {}
    BY <2>1 DEF Trusted
  <2>2. CASE /\ k \in DOMAIN records
             /\ records'[k].username = records[k].username
             /\ Listed(records'[k].devices) \subseteq Listed(records[k].devices)
    BY <2>2 DEF Trusted
  <2>3. QED
    BY <2>1, <2>2
<1>3. ProvenOK'
  <2>1. \A k \in DOMAIN records' : Trusted(records'[k]) \subseteq proven
    BY <1>2 DEF IInv, ProvenOK
  <2>2. QED
    BY <2>1, ProvenKept DEF IInv
<1>4. GrantsOK'
  <2>1. \A m \in Mac : net'[m] # 0 => net[m] # 0
    OBVIOUS
  <2>2. \A m \in Mac : net[m] <= granted[m].limit => net'[m] <= granted[m].limit
    BY DEF IInv, GrantsOK
  <2>3. QED
    BY <2>1, <2>2 DEF IInv, GrantsOK
<1>5. RequestsOK'
  BY RequestsStay DEF IInv, RepoOK
<1>6. SlotsOK'
  BY <1>2 DEF IInv, SlotsOK, Claims
<1>7. StoreOK' /\ HistoryOK'
  BY DEF IInv, StoreOK, HistoryOK
<1>8. QED
  BY <1>1, <1>3, <1>4, <1>5, <1>6, <1>7 DEF IInv

\* Account k gets another device list, and nothing else about the accounts changes.
NewList(k, devices) ==
    /\ k \in DOMAIN records /\ devices \in Devices
    /\ records' = [records EXCEPT ![k].devices = devices]
    /\ RecordsOK(records') /\ FileOK(file') /\ file' \in {Rows(records'), file, {}}
    /\ now' = now

\* What a registration does to the accounts (RegisterDevice).
LEMMA RegisterLists ==
    ASSUME IInv, NEW r \in Request, NEW outcome, Register(r, outcome)
    PROVE  \E k \in Owner(req[r].user), devices \in Devices :
              /\ NewList(k, devices) /\ Owner(req[r].user) = {k} /\ req[r].mac \in Mac
              /\ Listed(devices) = Live(records[k].devices, now) \cup {req[r].mac}
<1> DEFINE mac == req[r].mac
           until == req[r].expires
<1>0. req[r].pc = "validated" /\ ReqOK(req[r], now, proven, sessions)
  BY DEF Register, IInv, RequestsOK
<1>1. /\ now \in Nat /\ RecordsOK(records) /\ FileOK(file)
      /\ mac \in Mac /\ until \in Nat /\ until # 0
  <2>1. now \in Nat /\ RecordsOK(records) /\ FileOK(file)
    BY DEF IInv, RepoOK
  <2>2. mac \in Mac /\ until \in Nat /\ until # 0
    BY <1>0 DEF ReqOK, RequestState, Accepted
  <2>3. QED
    BY <2>1, <2>2
<1>2. RegisterDevice(req[r].user, mac, until, outcome)
  BY DEF Register
<1> HIDE DEF mac, until
<1>3. /\ RecordsOK(records') /\ FileOK(file') /\ now' = now
      /\ file' \in {Rows(records'), file, {}}
  BY <1>1, <1>2, RegisterOK
<1>4. PICK k \in Owner(req[r].user) :
         records' = [records EXCEPT ![k].devices = WithDevice(@, mac, until, now)]
  BY <1>2 DEF RegisterDevice, Commit
<1>5. Owner(req[r].user) = {k} /\ k \in DOMAIN records /\ records[k] \in Account
  BY <1>1, OneOwner
<1> DEFINE d == WithDevice(records[k].devices, mac, until, now)
<1>6. d \in Devices /\ Listed(d) = Live(records[k].devices, now) \cup {mac}
  BY <1>1, <1>5 DEF WithDevice, Live, Listed, Account, Devices
<1>7. records' = [records EXCEPT ![k].devices = d]
  BY <1>4
<1> HIDE DEF d
<1>8. QED
  BY <1>1, <1>3, <1>5, <1>6, <1>7 DEF NewList, mac

\* What a rollback does to the accounts (RemoveDevice).
LEMMA RollbackLists ==
    ASSUME IInv, NEW r \in Request, NEW outcome, Rollback(r, outcome)
    PROVE  \/ Owner(req[r].user) = {} /\ UNCHANGED repositoryVars
           \/ \E k \in Owner(req[r].user), devices \in Devices :
                 /\ NewList(k, devices) /\ Owner(req[r].user) = {k} /\ req[r].mac \in Mac
                 /\ Listed(devices) = Listed(records[k].devices) \ {req[r].mac}
<1> DEFINE mac == req[r].mac
<1>0. req[r].pc = "refused" /\ ReqOK(req[r], now, proven, sessions)
  BY DEF Rollback, IInv, RequestsOK
<1>1. now \in Nat /\ RecordsOK(records) /\ FileOK(file) /\ mac \in Mac
  BY <1>0 DEF IInv, RepoOK, ReqOK
<1>2. CASE Owner(req[r].user) = {}
  BY <1>2 DEF Rollback
<1>3. CASE Owner(req[r].user) # {}
  <2>1. RemoveDevice(req[r].user, mac, outcome)
    BY <1>3 DEF Rollback
  <2> HIDE DEF mac
  <2>2. /\ RecordsOK(records') /\ FileOK(file') /\ now' = now
        /\ file' \in {Rows(records'), file, {}}
    BY <1>1, <2>1, RemoveOK
  <2>3. PICK k \in Owner(req[r].user) :
           records' = [records EXCEPT ![k].devices = WithoutDevice(@, mac)]
    BY <1>1, <2>1, RemoveOK
  <2>4. Owner(req[r].user) = {k} /\ k \in DOMAIN records /\ records[k] \in Account
    BY <1>1, OneOwner
  <2> DEFINE d == WithoutDevice(records[k].devices, mac)
  <2>5. d \in Devices /\ Listed(d) = Listed(records[k].devices) \ {mac}
    BY <1>1, <2>4 DEF WithoutDevice, Listed, Account, Devices
  <2>6. records' = [records EXCEPT ![k].devices = d]
    BY <2>3
  <2> HIDE DEF d
  <2>7. QED
    BY <1>1, <2>2, <2>4, <2>5, <2>6 DEF NewList, mac
<1>4. QED
  BY <1>2, <1>3

-----------------------------------------------------------------------------
(* Who is remembered                                                       *)

\* In the first file, devices are trusted as long as their account lasts: its
\* date has not been changed since they were registered.
ListedForLife ==
    \A row \in InitialFile : \A m \in Mac :
        row.devices[m] \in {0, Loaded(row, 1).expires}

\* Device m of account k, while the account lasts: once kept it is on the list,
\* and one login at most has a claim on it, on which nobody else relies.
OneClaim(k, m) ==
    LET p == <<m, records[k].username>>
    IN /\ p \in kept => m \in Listed(records[k].devices)
       /\ \A r \in Request : Claims(req[r], p) =>
             /\ p \notin kept
             /\ m \in Listed(records[k].devices)
             /\ \A x \in Request : Claims(req[x], p) => x = r

LifeOK ==
    ~disturbed =>
        /\ \A k \in DOMAIN records, m \in Mac :
              records[k].devices[m] \in {0, records[k].expires}
        /\ \A r \in Request : req[r].pc = "validated" =>
              \A k \in DOMAIN records :
                 records[k].username = req[r].user => records[k].expires = req[r].expires
        /\ \A k \in DOMAIN records, m \in Mac :
              now < records[k].expires => OneClaim(k, m)

LEMMA LifeInit == ListedForLife /\ Init => LifeOK
<1> SUFFICES ASSUME ListedForLife, Init
             PROVE  LifeOK
  OBVIOUS
<1>1. IInv
  BY InitStep
<1>2. RecordsOK(records) /\ FileOK(file) /\ file = InitialFile /\ records = Load(file, 1)
  BY <1>1 DEF IInv, RepoOK, Init, RepositoryInit
<1>3. ASSUME NEW k \in DOMAIN records, NEW m \in Mac
      PROVE  records[k].devices[m] \in {0, records[k].expires}
  <2>1. k \in FileIds(file)
    BY <1>2, LoadOK
  <2>2. PICK row \in file : Loaded(row, 1).id = k
    BY <2>1 DEF FileIds
  <2>3. records[k] = Loaded(row, 1)
    BY <1>2, <2>2, LoadOK
  <2>4. row \in Row
    BY <1>2 DEF FileOK
  <2>5. records[k].devices = row.devices
    BY <2>3, <2>4, LoadedFields
  <2>6. QED
    BY <1>2, <2>3, <2>5 DEF ListedForLife
<1>4. \A r \in Request : req[r] = Idle
  BY DEF Init, PortalInit
<1>5. \A r \in Request : req[r].pc = "idle"
  BY <1>4, IdleOK
<1>6. ASSUME NEW k \in DOMAIN records, NEW m \in Mac
      PROVE  OneClaim(k, m)
  <2>1. \A p : \A r \in Request : ~Claims(req[r], p)
    BY <1>5 DEF Claims
  <2>2. ASSUME <<m, records[k].username>> \in kept
        PROVE  m \in Listed(records[k].devices)
    <3>1. PICK l \in DOMAIN records :
             m \in Listed(records[l].devices) /\ records[k].username = records[l].username
      BY <2>2 DEF Init, PortalInit, Trusting
    <3>2. l = k
      BY <1>2, <3>1 DEF RecordsOK, Compatible
    <3>3. QED
      BY <3>1, <3>2
  <2>3. QED
    BY <2>1, <2>2 DEF OneClaim
<1>7. QED
  BY <1>3, <1>5, <1>6 DEF LifeOK

\* Steps that leave lists and kept devices alone, and make no new claim.
LEMMA LifeStays ==
    ASSUME LifeOK, now \in Nat, now' \in Nat, now <= now',
           \A k \in DOMAIN records : records[k].expires \in Nat,
           records' = records, kept' = kept, disturbed => disturbed',
           \A p : \A x \in Request : Claims(req'[x], p) => Claims(req[x], p),
           \A x \in Request : req'[x].pc = "validated" =>
              \/ req'[x] = req[x]
              \/ \A k \in DOMAIN records : records[k].username = req'[x].user
                    => records[k].expires = req'[x].expires
    PROVE  LifeOK'
<1>1. SUFFICES ASSUME ~disturbed
               PROVE  /\ \A k \in DOMAIN records, m \in Mac :
                            records[k].devices[m] \in {0, records[k].expires}
                      /\ \A r \in Request : req'[r].pc = "validated" =>
                            \A k \in DOMAIN records : records[k].username = req'[r].user
                               => records[k].expires = req'[r].expires
                      /\ \A k \in DOMAIN records, m \in Mac :
                            now' < records[k].expires => OneClaim(k, m)'
  BY DEF LifeOK
<1>2. ASSUME NEW k \in DOMAIN records, NEW m \in Mac, now' < records[k].expires
      PROVE  OneClaim(k, m)'
  <2>1. OneClaim(k, m)
    BY <1>1, <1>2 DEF LifeOK
  <2>2. QED
    BY <2>1 DEF OneClaim
<1>3. QED
  BY <1>1, <1>2 DEF LifeOK

\* The requests that move alone make no claim.
LEMMA LifeQuietMove ==
    ASSUME LifeOK, IInv, NEW r \in Request, NEW q, Moves(r, q),
           now' = now, records' = records, kept' = kept, disturbed => disturbed',
           \A p : Claims(q, p) => Claims(req[r], p),
           q.pc = "validated" =>
              \A k \in DOMAIN records :
                 records[k].username = q.user => records[k].expires = q.expires
    PROVE  LifeOK'
<1>1. /\ now \in Nat /\ req \in [Request -> RequestState]
      /\ \A k \in DOMAIN records : records[k].expires \in Nat
  BY DEF IInv, RepoOK, RequestsOK, RecordsOK, RecordOK, Account
<1>2. \A x \in Request : req'[x] = IF x = r THEN q ELSE req[x]
  BY <1>1 DEF Moves
<1>3. /\ \A p : \A x \in Request : Claims(req'[x], p) => Claims(req[x], p)
      /\ \A x \in Request : req'[x].pc = "validated" =>
            \/ req'[x] = req[x]
            \/ \A k \in DOMAIN records : records[k].username = req'[x].user
                  => records[k].expires = req'[x].expires
  BY <1>2
<1>4. QED
  BY <1>1, <1>3, LifeStays

\* A registration claims a device that is not listed, so neither kept nor claimed;
\* a device that is listed is trusted as long as the account, and found so.
LEMMA LifeRegister ==
    ASSUME LifeOK, IInv, NEW r \in Request, NEW outcome, Register(r, outcome)
    PROVE  LifeOK'
<1> DEFINE old == req[r]
           mac == old.mac
           new == NewlyTrusted(old.user, mac)
           dur == AuthorizationDuration(old, now)
           q == [old EXCEPT !.pc = "registered", !.fresh = new, !.duration = dur, !.since = now]
<1>1. SUFFICES ASSUME ~disturbed'
               PROVE  LifeOK'
  BY DEF LifeOK
<1>2. /\ ~disturbed /\ outcome = "saved" /\ kept' = kept
      /\ req' = [req EXCEPT ![r] = q] /\ RegisterDevice(old.user, mac, old.expires, outcome)
  BY <1>1 DEF Register
<1>3. now \in Nat /\ RecordsOK(records) /\ FileOK(file) /\ req \in [Request -> RequestState]
  BY DEF IInv, RepoOK, RequestsOK
<1>4. old.pc = "validated" /\ old \in RequestState /\ ReqOK(old, now, proven, sessions)
  BY <1>3 DEF Register, IInv, RequestsOK
<1>5. mac \in Mac /\ old.expires \in Nat /\ old.expires # 0
  BY <1>4 DEF ReqOK, RequestState, Accepted
<1> HIDE DEF new, dur
<1>6. q.pc = "registered" /\ q.fresh = new /\ q.mac = mac /\ q.user = old.user
  BY <1>4 DEF RequestState
<1>7. \A x \in Request : req'[x] = IF x = r THEN q ELSE req[x]
  BY <1>2, <1>3
<1> HIDE DEF q
<1>8. PICK k \in Owner(old.user) :
         /\ records' = [records EXCEPT ![k].devices = WithDevice(@, mac, old.expires, now)]
         /\ now' = now
  BY <1>2, <1>3, <1>5, RegisterOK
<1>9. /\ Owner(old.user) = {k} /\ k \in DOMAIN records /\ records[k] \in Account
      /\ records[k].username = old.user
  BY <1>3, OneOwner
<1>10. records[k].expires = old.expires
  BY <1>2, <1>4, <1>9 DEF LifeOK
<1> DEFINE d == WithDevice(records[k].devices, mac, old.expires, now)
<1>11. /\ DOMAIN records' = DOMAIN records
       /\ \A l \in DOMAIN records : l # k => records'[l] = records[l]
       /\ records'[k].devices = d /\ records'[k].expires = old.expires
       /\ records'[k].username = old.user
  BY <1>8, <1>9, <1>10 DEF Account
<1>12. \A l \in DOMAIN records : /\ records'[l].expires = records[l].expires
                                 /\ records'[l].username = records[l].username
  BY <1>9, <1>10, <1>11
<1>13. /\ records[k].devices \in [Mac -> Nat]
       /\ \A m \in Mac : records[k].devices[m] \in {0, old.expires}
  BY <1>2, <1>9, <1>10 DEF LifeOK, Account, Devices
<1>14. \A m \in Mac : d[m] = IF m = mac THEN old.expires
                             ELSE IF now < records[k].devices[m]
                                  THEN records[k].devices[m] ELSE 0
  BY DEF WithDevice, Live
<1> HIDE DEF d
<1>15. \A l \in DOMAIN records', m \in Mac : records'[l].devices[m] \in {0, records'[l].expires}
  <2> SUFFICES ASSUME NEW l \in DOMAIN records', NEW m \in Mac
               PROVE  records'[l].devices[m] \in {0, records'[l].expires}
    OBVIOUS
  <2>1. CASE l = k
    BY <1>11, <1>13, <1>14, <2>1
  <2>2. CASE l # k
    BY <1>2, <1>11, <2>2 DEF LifeOK
  <2>3. QED
    BY <2>1, <2>2
<1>16. \A x \in Request : req'[x].pc = "validated" =>
          \A l \in DOMAIN records' : records'[l].username = req'[x].user
             => records'[l].expires = req'[x].expires
  BY <1>2, <1>6, <1>7, <1>11, <1>12 DEF LifeOK
<1>17. ASSUME NEW l \in DOMAIN records', NEW m \in Mac, now' < records'[l].expires
       PROVE  OneClaim(l, m)'
  <2> DEFINE p == <<m, records[l].username>>
  <2>1. OneClaim(l, m) /\ records'[l].username = records[l].username
    BY <1>2, <1>8, <1>11, <1>12, <1>17 DEF LifeOK
  <2>2. ~Claims(old, p)
    BY <1>4 DEF Claims
  <2>3. CASE l # k \/ m # mac
    <3>1. ~Claims(q, p)
      <4>1. CASE m # mac
        BY <1>6, <4>1 DEF Claims
      <4>2. CASE l # k
        <5>1. records[l].username # old.user
          BY <1>9, <1>11, <4>2 DEF Owner
        <5>2. QED
          BY <1>6, <5>1 DEF Claims
      <4>3. QED
        BY <2>3, <4>1, <4>2
    <3>2. \A x \in Request : Claims(req'[x], p) <=> Claims(req[x], p)
      BY <1>7, <2>2, <3>1
    <3>3. m \in Listed(records[l].devices) => m \in Listed(records'[l].devices)
      <4>1. CASE l # k
        BY <1>11, <4>1
      <4>2. CASE l = k /\ m # mac
        BY <1>3, <1>8, <1>10, <1>11, <1>13, <1>14, <1>17, <4>2 DEF Listed
      <4>3. QED
        BY <2>3, <4>1, <4>2
    <3>4. QED
      BY <1>2, <2>1, <3>2, <3>3 DEF OneClaim
  <2>4. CASE l = k /\ m = mac
    <3>1. m \in Listed(records'[l].devices)
      BY <1>5, <1>11, <1>14, <2>4 DEF Listed
    <3>2. CASE new
      <4>1. m \notin Live(records[k].devices, now)
        BY <1>9, <2>4, <3>2 DEF new, NewlyTrusted
      <4>2. m \notin Listed(records[k].devices)
        BY <1>8, <1>10, <1>11, <1>13, <1>17, <2>4, <4>1 DEF Live, Listed
      <4>3. p \notin kept /\ \A x \in Request : ~Claims(req[x], p)
        BY <2>1, <2>4, <4>2 DEF OneClaim
      <4>4. \A x \in Request : Claims(req'[x], p) => x = r
        BY <1>7, <4>3
      <4>5. QED
        BY <1>2, <2>1, <3>1, <4>3, <4>4 DEF OneClaim
    <3>3. CASE ~new
      <4>1. ~Claims(q, p)
        BY <1>6, <3>3 DEF Claims
      <4>2. \A x \in Request : Claims(req'[x], p) <=> Claims(req[x], p)
        BY <1>7, <2>2, <4>1
      <4>3. QED
        BY <1>2, <2>1, <3>1, <4>2 DEF OneClaim
    <3>4. QED
      BY <3>2, <3>3
  <2>5. QED
    BY <2>3, <2>4
<1>18. QED
  BY <1>15, <1>16, <1>17 DEF LifeOK

\* A rollback takes away the one device its own login claims.
LEMMA LifeRollback ==
    ASSUME LifeOK, IInv, NEW r \in Request, NEW outcome, Rollback(r, outcome)
    PROVE  LifeOK'
<1> DEFINE old == req[r]
           mac == old.mac
<1>1. SUFFICES ASSUME ~disturbed'
               PROVE  LifeOK'
  BY DEF LifeOK
<1>2. ~disturbed /\ kept' = kept /\ Moves(r, Idle)
  BY <1>1 DEF Rollback, Moves
<1>3. now \in Nat /\ RecordsOK(records) /\ FileOK(file) /\ req \in [Request -> RequestState]
  BY DEF IInv, RepoOK, RequestsOK
<1>4. old.pc = "refused" /\ old.fresh /\ mac \in Mac
  BY DEF Rollback, IInv, RequestsOK, ReqOK
<1>5. Idle.pc = "idle" /\ \A p : ~Claims(Idle, p)
  BY <1>3, IdleOK DEF Claims
<1>6. CASE Owner(old.user) = {}
  <2>1. now' = now /\ records' = records
    BY <1>6 DEF Rollback, repositoryVars
  <2>2. QED
    BY <1>1, <1>2, <1>5, <2>1, LifeQuietMove
<1>7. CASE Owner(old.user) # {}
  <2>1. RemoveDevice(old.user, mac, outcome)
    BY <1>7 DEF Rollback
  <2>2. PICK k \in Owner(old.user) :
           records' = [records EXCEPT ![k].devices = WithoutDevice(@, mac)] /\ now' = now
    BY <1>3, <1>4, <2>1, RemoveOK
  <2>3. /\ Owner(old.user) = {k} /\ k \in DOMAIN records /\ records[k] \in Account
        /\ records[k].username = old.user
    BY <1>3, OneOwner
  <2> DEFINE d == WithoutDevice(records[k].devices, mac)
  <2>4. /\ DOMAIN records' = DOMAIN records
        /\ \A l \in DOMAIN records : l # k => records'[l] = records[l]
        /\ records'[k].devices = d /\ records'[k].expires = records[k].expires
        /\ records'[k].username = records[k].username
    BY <2>2, <2>3 DEF Account
  <2>5. \A l \in DOMAIN records : /\ records'[l].expires = records[l].expires
                                  /\ records'[l].username = records[l].username
    BY <2>3, <2>4
  <2>6. \A m \in Mac : d[m] = IF m = mac THEN 0 ELSE records[k].devices[m]
    BY <2>3 DEF WithoutDevice, Account, Devices
  <2> HIDE DEF d
  <2>7. \A x \in Request : req'[x] = IF x = r THEN Idle ELSE req[x]
    BY <1>2, <1>3 DEF Moves
  <2>8. \A l \in DOMAIN records', m \in Mac : records'[l].devices[m] \in {0, records'[l].expires}
    <3> SUFFICES ASSUME NEW l \in DOMAIN records', NEW m \in Mac
                 PROVE  records'[l].devices[m] \in {0, records'[l].expires}
      OBVIOUS
    <3>1. records[l].devices[m] \in {0, records[l].expires}
      BY <1>2, <2>4 DEF LifeOK
    <3>2. QED
      BY <2>4, <2>6, <3>1
  <2>9. \A x \in Request : req'[x].pc = "validated" =>
           \A l \in DOMAIN records' : records'[l].username = req'[x].user
             => records'[l].expires = req'[x].expires
    BY <1>2, <1>5, <2>4, <2>5, <2>7 DEF LifeOK
  <2>10. ASSUME NEW l \in DOMAIN records', NEW m \in Mac, now' < records'[l].expires
         PROVE  OneClaim(l, m)'
    <3> DEFINE p == <<m, records[l].username>>
    <3>1. OneClaim(l, m) /\ records'[l].username = records[l].username
      BY <1>2, <2>2, <2>4, <2>5, <2>10 DEF LifeOK
    <3>2. \A x \in Request : Claims(req'[x], p) => x # r /\ Claims(req[x], p)
      BY <1>5, <2>7
    <3>3. CASE l = k /\ m = mac
      <4>1. Claims(old, p)
        BY <1>4, <2>3, <3>3 DEF Claims
      <4>2. p \notin kept /\ \A x \in Request : Claims(req[x], p) => x = r
        BY <3>1, <4>1 DEF OneClaim
      <4>3. QED
        BY <1>2, <3>1, <3>2, <4>2 DEF OneClaim
    <3>4. CASE l # k \/ m # mac
      <4>1. m \in Listed(records[l].devices) => m \in Listed(records'[l].devices)
        BY <2>4, <2>6, <3>4 DEF Listed
      <4>2. QED
        BY <1>2, <3>1, <3>2, <4>1 DEF OneClaim
    <3>5. QED
      BY <3>3, <3>4
  <2>11. QED
    BY <2>8, <2>9, <2>10 DEF LifeOK
<1>8. QED
  BY <1>6, <1>7

\* A success turns its claim into a promise that nobody else's rollback touches.
LEMMA LifeSucceed ==
    ASSUME LifeOK, IInv, NEW r \in Request, Succeed(r)
    PROVE  LifeOK'
<1> DEFINE old == req[r]
           pair == <<old.mac, old.user>>
<1>1. /\ kept' = IF old.fresh THEN kept \cup {pair} ELSE kept
      /\ Moves(r, Idle) /\ old.pc = "authorized"
      /\ now' = now /\ records' = records /\ disturbed' = disturbed
  BY DEF Succeed, Moves, repositoryVars
<1>2. now \in Nat /\ req \in [Request -> RequestState]
  BY DEF IInv, RepoOK, RequestsOK
<1>3. Idle.pc = "idle" /\ \A p : ~Claims(Idle, p)
  BY <1>2, IdleOK DEF Claims
<1>4. \A x \in Request : req'[x] = IF x = r THEN Idle ELSE req[x]
  BY <1>1, <1>2 DEF Moves
<1>5. SUFFICES ASSUME ~disturbed
               PROVE  LifeOK'
  BY <1>1 DEF LifeOK
<1>6. ASSUME NEW k \in DOMAIN records, NEW m \in Mac, now < records[k].expires
      PROVE  OneClaim(k, m)'
  <2> DEFINE p == <<m, records[k].username>>
  <2>1. OneClaim(k, m)
    BY <1>5, <1>6 DEF LifeOK
  <2>2. \A x \in Request : Claims(req'[x], p) => x # r /\ Claims(req[x], p)
    BY <1>3, <1>4
  <2>3. CASE old.fresh /\ p = pair
    <3>1. Claims(old, p)
      BY <1>1, <2>3 DEF Claims
    <3>2. m \in Listed(records[k].devices) /\ \A x \in Request : Claims(req[x], p) => x = r
      BY <2>1, <3>1 DEF OneClaim
    <3>3. QED
      BY <1>1, <2>2, <3>2 DEF OneClaim
  <2>4. CASE ~(old.fresh /\ p = pair)
    <3>1. p \in kept' <=> p \in kept
      BY <1>1, <2>4
    <3>2. QED
      BY <1>1, <2>1, <2>2, <3>1 DEF OneClaim
  <2>5. QED
    BY <2>3, <2>4
<1>7. \A x \in Request : req'[x].pc = "validated" =>
         \A k \in DOMAIN records : records[k].username = req'[x].user
            => records[k].expires = req'[x].expires
  BY <1>3, <1>4, <1>5 DEF LifeOK
<1>8. QED
  BY <1>1, <1>5, <1>6, <1>7 DEF LifeOK

\* The credential check reads the date for which the device will be registered.
LEMMA LifeValidate ==
    ASSUME LifeOK, IInv, NEW r \in Request, ValidateCredentials(r)
    PROVE  LifeOK'
<1>1. PICK k \in Owner(req[r].user) :
         req' = [req EXCEPT ![r].pc = "validated", ![r].kind = records[k].kind,
                            ![r].expires = records[k].expires]
  BY DEF ValidateCredentials
<1> DEFINE q == [req[r] EXCEPT !.pc = "validated", !.kind = records[k].kind,
                               !.expires = records[k].expires]
<1>2. req \in [Request -> RequestState] /\ RecordsOK(records)
  BY DEF IInv, RepoOK, RequestsOK
<1>3. Moves(r, q) /\ now' = now /\ records' = records /\ kept' = kept /\ disturbed' = disturbed
  BY <1>1, <1>2 DEF ValidateCredentials, Moves, repositoryVars
<1>4. q.pc = "validated" /\ q.user = req[r].user /\ q.expires = records[k].expires
  BY <1>2 DEF RequestState
<1> HIDE DEF q
<1>5. \A l \in DOMAIN records : records[l].username = q.user => l = k
  BY <1>2, <1>4, OneOwner DEF Owner
<1>6. \A p : ~Claims(q, p)
  BY <1>4 DEF Claims
<1>7. QED
  BY <1>3, <1>4, <1>5, <1>6, LifeQuietMove

\* All other steps leave lists and kept devices alone.
LEMMA LifeNext == LifeOK /\ IInv /\ [Next]_vars => LifeOK'
<1> SUFFICES ASSUME LifeOK, IInv, [Next]_vars
             PROVE  LifeOK'
  OBVIOUS
<1>1. /\ now \in Nat /\ req \in [Request -> RequestState]
      /\ \A k \in DOMAIN records : records[k].expires \in Nat
  BY DEF IInv, RepoOK, RequestsOK, RecordsOK, RecordOK, Account
<1>2. Idle.pc = "idle" /\ \A p : ~Claims(Idle, p)
  BY <1>1, IdleOK DEF Claims
<1>3. ASSUME req' = req, records' = records, kept' = kept, disturbed' = disturbed,
             now' \in Nat, now <= now'
      PROVE  LifeOK'
  BY <1>1, <1>3, LifeStays
<1>4. ASSUME NEW r \in Request, req' = [req EXCEPT ![r] = Idle],
             UNCHANGED <<repositoryVars, kept, disturbed>>
      PROVE  LifeOK'
  BY <1>2, <1>4, LifeQuietMove DEF Moves, repositoryVars
<1>5. CASE UNCHANGED vars
  BY <1>1, <1>3, <1>5 DEF vars, repositoryVars, portalVars, storeVars, portalHistory
<1>6. ASSUME NEW r \in Request, NEW mac \in Mac, ShowLogin(r, mac)
      PROVE  LifeOK'
  BY <1>1, <1>3, <1>6 DEF ShowLogin, repositoryVars, portalHistory
<1>7. ASSUME NEW s \in Session, SubmitExpired(s)
      PROVE  LifeOK'
  BY <1>1, <1>3, <1>7 DEF SubmitExpired, repositoryVars, portalHistory
<1>8. ASSUME NEW r \in Request, NEW mac \in Mac, FindByMAC(r, mac)
      PROVE  LifeOK'
  <2>1. PICK q : Moves(r, q) /\ q.pc = "reconnecting"
    <3>1. PICK k \in RememberedBy(mac) :
             Moves(r, [Idle EXCEPT !.pc = "reconnecting", !.mac = mac,
                                   !.user = records[k].username,
                                   !.expires = records[k].expires,
                                   !.duration = AuthorizationDuration(records[k], now),
                                   !.since = now])
      BY <1>8 DEF FindByMAC, Moves
    <3> DEFINE q == [Idle EXCEPT !.pc = "reconnecting", !.mac = mac,
                                 !.user = records[k].username,
                                 !.expires = records[k].expires,
                                 !.duration = AuthorizationDuration(records[k], now),
                                 !.since = now]
    <3>2. q.pc = "reconnecting"
      BY DEF Idle
    <3> HIDE DEF q
    <3>3. QED
      BY <3>1, <3>2 DEF q
  <2>2. \A p : ~Claims(q, p)
    BY <2>1 DEF Claims
  <2>3. now' = now /\ records' = records /\ kept' = kept /\ disturbed' = disturbed
    BY <1>8 DEF FindByMAC, repositoryVars, portalHistory
  <2>4. QED
    BY <2>1, <2>2, <2>3, LifeQuietMove
<1>9. ASSUME NEW r \in Request, NEW s \in Session, NEW name \in Username,
             NEW password \in Password, Submit(r, s, name, password)
      PROVE  LifeOK'
  <2>1. PICK q : Moves(r, q) /\ q.pc = "checked"
    <3> DEFINE late == won[s] > 0
               q == [Idle EXCEPT !.pc = "checked", !.session = s, !.mac = sessions[s].mac,
                                 !.user = name, !.password = password, !.late = late]
    <3>1. Moves(r, q)
      BY <1>9 DEF Submit, Moves
    <3> HIDE DEF late
    <3>2. q.pc = "checked"
      BY DEF Idle
    <3> HIDE DEF q
    <3>3. QED
      BY <3>1, <3>2
  <2>2. \A p : ~Claims(q, p)
    BY <2>1 DEF Claims
  <2>3. now' = now /\ records' = records /\ kept' = kept /\ disturbed' = disturbed
    BY <1>9 DEF Submit, repositoryVars, portalHistory
  <2>4. QED
    BY <2>1, <2>2, <2>3, LifeQuietMove
<1>10. ASSUME NEW r \in Request, NEW outcome, AuthorizeClient(r, outcome)
       PROVE  LifeOK'
  <2>1. \/ req' = [req EXCEPT ![r] = Idle]
        \/ \E pc \in {"authorized", "refused"} : Moves(r, [req[r] EXCEPT !.pc = pc])
    BY <1>10 DEF AuthorizeClient, Moves
  <2>2. ASSUME NEW pc \in {"authorized", "refused"}, Moves(r, [req[r] EXCEPT !.pc = pc])
        PROVE  LifeOK'
    <3> DEFINE q == [req[r] EXCEPT !.pc = pc]
    <3>1. q.pc = pc /\ q.fresh = req[r].fresh /\ q.mac = req[r].mac /\ q.user = req[r].user
      BY <1>1 DEF RequestState
    <3>2. req[r].pc = "registered" /\ Moves(r, q)
      BY <1>10, <2>2 DEF AuthorizeClient
    <3> HIDE DEF q
    <3>3. \A p : Claims(q, p) => Claims(req[r], p)
      BY <3>1, <3>2 DEF Claims
    <3>4. now' = now /\ records' = records /\ kept' = kept /\ disturbed' = disturbed
      BY <1>10 DEF AuthorizeClient, repositoryVars
    <3>5. QED
      BY <3>1, <3>2, <3>3, <3>4, LifeQuietMove
  <2>3. QED
    BY <1>4, <1>10, <2>1, <2>2 DEF AuthorizeClient
<1>11. ASSUME NEW r \in Request, Progress(r)
       PROVE  LifeOK'
  <2>1. CASE ValidateCredentials(r)
    BY <2>1, LifeValidate
  <2>2. CASE RejectCredentials(r) \/ RegisterRefused(r)
    BY <1>4, <2>2 DEF RejectCredentials, RegisterRefused, portalHistory
  <2>3. CASE \E outcome \in PersistOutcome : Register(r, outcome) \/ Rollback(r, outcome)
    BY <2>3, LifeRegister, LifeRollback
  <2>4. CASE \E outcome \in ControllerOutcome : AuthorizeClient(r, outcome)
    BY <1>10, <2>4
  <2>5. CASE \E outcome \in ControllerOutcome : Reconnect(r, outcome)
    BY <1>4, <2>5 DEF Reconnect
  <2>6. CASE Succeed(r)
    BY <2>6, LifeSucceed
  <2>7. QED
    BY <1>11, <2>1, <2>2, <2>3, <2>4, <2>5, <2>6 DEF Progress
<1>12. CASE Arrival
  BY <1>6, <1>7, <1>8, <1>9, <1>12 DEF Arrival
<1>13. CASE Restart
  BY <1>13 DEF Restart, LifeOK
<1>14. CASE Clock
  BY <1>1, <1>3, <1>14 DEF Clock, Tick, portalVars, storeVars, portalHistory
<1>15. CASE \E q \in underway : Arrive(q)
  BY <1>1, <1>3, <1>15 DEF Arrive, repositoryVars, storeVars
<1>16. QED
  BY <1>5, <1>11, <1>12, <1>13, <1>14, <1>15 DEF Next

\* A device that took a connection and logged in is remembered as long as its
\* account lasts, for any number of logins that fail at the same time, if devices
\* were trusted for the life of their account to begin with (Authenticate,
\* RemoveDevice).
THEOREM SuccessRememberedHolds ==
    ASSUME ListedForLife
    PROVE  Spec => []SuccessRemembered
<1>1. IInv /\ LifeOK => SuccessRemembered
  <2> SUFFICES ASSUME IInv, LifeOK, ~disturbed, NEW p \in kept, NEW k \in DOMAIN records,
                      records[k].username = p[2], CanAuthenticate(records[k], now)
               PROVE  Remembers(records[k], p[1], now)
    BY DEF SuccessRemembered
  <2>1. p = <<p[1], p[2]>> /\ p[1] \in Mac
    BY DEF IInv, HistoryOK
  <2>2. now < records[k].expires
    BY DEF CanAuthenticate
  <2>3. OneClaim(k, p[1]) /\ records[k].devices[p[1]] \in {0, records[k].expires}
    BY <2>1, <2>2 DEF LifeOK
  <2>4. p[1] \in Listed(records[k].devices)
    BY <2>1, <2>3 DEF OneClaim
  <2>5. p[1] \in Live(records[k].devices, now)
    BY <2>2, <2>3, <2>4 DEF Listed, Live
  <2>6. QED
    BY <2>5 DEF Remembers
<1>2. Init => LifeOK
  BY LifeInit
<1>3. QED
  BY <1>1, <1>2, LifeNext, Invariance, PTL DEF Spec
=============================================================================
