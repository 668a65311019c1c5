--------------------------- MODULE NetworkProofs ---------------------------
(***************************************************************************)
(* Theorems about the whole service, for any number of logins,             *)
(* administrators, accounts and devices at once.                           *)
(*                                                                         *)
(* The invariants of the two services hold side by side: each is kept by   *)
(* the steps of the other, the one of the administration because requests  *)
(* are excused from the devices that others let in or moved out of sight   *)
(* while they were at work.                                                *)
(***************************************************************************)
EXTENDS NetworkAccess, RepositoryLemmas

PP == INSTANCE PortalProofs
AA == INSTANCE AdminProofs

-----------------------------------------------------------------------------
(* The invariant                                                           *)

\* The devices an administration request need not cover: those that somebody let
\* in while it ran, and all once a failed login has moved the list it walks.
Excused == [a \in Admin |-> IF a \in moved THEN Mac ELSE touched[a]]

SliceOK ==
    /\ DOMAIN slice = DOMAIN records
    /\ \A k \in DOMAIN records :
          slice[k] \in Seq(Mac) /\ ToSet(slice[k]) = Listed(records[k].devices)

HistoryOK == touched \in [Admin -> SUBSET Mac] /\ moved \subseteq Admin

IInv == PP!IInv /\ AA!IInv(Excused) /\ SliceOK /\ HistoryOK

-----------------------------------------------------------------------------
(* The services' lemmas, from here                                         *)
(*                                                                         *)
(* What P, A and this module call by one name are different operators to   *)
(* the prover, and so are those of PP and AA, whose lemmas hold under the  *)
(* assumptions of PortalAuth and AccountAdmin.  The lemmas of this section *)
(* say that they agree, which shows once both are written out.             *)

LEMMA PortalFacts ==
    /\ Username \subseteq Id /\ Username \subseteq Apartment
    /\ NoId \notin Id /\ NoApartment \notin Apartment
    /\ DOMAIN UsernameOf \subseteq Apartment
    /\ \A apartment \in DOMAIN UsernameOf : UsernameOf[apartment] \in Username
    /\ ResidentLimit \in Nat /\ EmployeeLimit \in Nat \ {0}
    /\ ResidentLifetime \in Nat \ {0} /\ EmployeeLifetime \in Nat \ {0}
    /\ PersistOutcome \subseteq {"saved", "unsaved", "lost"}
    /\ MaxTime \in Nat \ {0}
    /\ ControllerOutcome \subseteq {"done", "failed", "lostReply", "late", "missed"}
    /\ MaxLate \in Nat
    /\ SessionTTL \in Nat /\ ClientDuration \in Nat /\ EmployeeDuration \in Nat
    /\ NoMac \notin Mac /\ NoUser \notin Username /\ NoSession \notin Session
    /\ PP!IsFiniteSet(Mac)
    /\ InitialFile \subseteq PP!Row
    /\ \A row \in InitialFile : PP!WellFormed(row)
    /\ \A r1, r2 \in InitialFile :
          r1 # r2 => PP!Compatible(PP!Loaded(r1, 1), PP!Loaded(r2, 1))
<1>1. PP!IsFiniteSet(Mac)
  BY FiniteMacs DEF IsFiniteSet, PP!IsFiniteSet
<1>2. PP!Row = Row
  BY DEF PP!Row, Row, PP!Devices, Devices
<1>3. \A row : PP!WellFormed(row) <=> WellFormed(row)
  BY DEF PP!WellFormed, WellFormed, PP!Listed, Listed, PP!LoadedLimit, LoadedLimit,
         PP!Cardinality, Cardinality
<1>4. \A a, b : PP!Compatible(a, b) <=> Compatible(a, b)
  BY DEF PP!Compatible, Compatible
<1>5. \A row, t : PP!Loaded(row, t) = Loaded(row, t)
  BY DEF PP!Loaded, Loaded, PP!LoadedLimit, LoadedLimit
<1>6. QED
  BY <1>1, <1>2, <1>3, <1>4, <1>5, SharedStrings, RegisteredApartments, LimitsAssumption,
     OutcomeAssumption, InitialFileAssumption, MaxTimeAssumption, ControllerAssumption,
     AccessAssumption

LEMMA AdminFacts ==
    /\ Username \subseteq Id /\ Username \subseteq Apartment
    /\ NoId \notin Id /\ NoApartment \notin Apartment
    /\ DOMAIN UsernameOf \subseteq Apartment
    /\ \A apartment \in DOMAIN UsernameOf : UsernameOf[apartment] \in Username
    /\ ResidentLimit \in Nat /\ EmployeeLimit \in Nat \ {0}
    /\ ResidentLifetime \in Nat \ {0} /\ EmployeeLifetime \in Nat \ {0}
    /\ PersistOutcome \subseteq {"saved", "unsaved", "lost"}
    /\ MaxTime \in Nat \ {0}
    /\ ControllerOutcome \subseteq {"done", "failed", "lostReply", "late", "missed"}
    /\ NotifyOutcome \subseteq {"done", "failed", "lostReply"} /\ AdminExpiry \subseteq Nat
    /\ AA!IsFiniteSet(Mac)
    /\ InitialFile \subseteq AA!Row
    /\ \A row \in InitialFile : AA!WellFormed(row)
    /\ \A r1, r2 \in InitialFile :
          r1 # r2 => AA!Compatible(AA!Loaded(r1, 1), AA!Loaded(r2, 1))
<1>1. AA!IsFiniteSet(Mac)
  BY FiniteMacs DEF IsFiniteSet, AA!IsFiniteSet
<1>2. AA!Row = Row
  BY DEF AA!Row, Row, AA!Devices, Devices
<1>3. \A row : AA!WellFormed(row) <=> WellFormed(row)
  BY DEF AA!WellFormed, WellFormed, AA!Listed, Listed, AA!LoadedLimit, LoadedLimit,
         AA!Cardinality, Cardinality
<1>4. \A a, b : AA!Compatible(a, b) <=> Compatible(a, b)
  BY DEF AA!Compatible, Compatible
<1>5. \A row, t : AA!Loaded(row, t) = Loaded(row, t)
  BY DEF AA!Loaded, Loaded, AA!LoadedLimit, LoadedLimit
<1>6. QED
  BY <1>1, <1>2, <1>3, <1>4, <1>5, SharedStrings, RegisteredApartments, LimitsAssumption,
     OutcomeAssumption, InitialFileAssumption, MaxTimeAssumption, ControllerAssumption,
     AccessAssumption

LEMMA PortalNames ==
    /\ \A d : PP!Listed(d) = Listed(d)
    /\ \A recs : PP!Rows(recs) = Rows(recs)
    /\ \A recs : PP!RecordsOK(recs) <=> RecordsOK(recs)
    /\ \A rows : PP!FileOK(rows) <=> FileOK(rows)
    /\ PP!Devices = Devices
    /\ \A d, t : PP!Live(d, t) = Live(d, t)
<1>1. \A d : PP!Listed(d) = Listed(d)
  BY DEF PP!Listed, Listed
<1>2. \A recs : PP!Rows(recs) = Rows(recs)
  BY DEF PP!Rows, Rows
<1>3. \A recs : PP!RecordsOK(recs) <=> RecordsOK(recs)
  BY DEF PP!Account, PP!Cardinality, PP!Compatible, PP!Devices, PP!Listed,
         PP!LoadedLimit, PP!RecordOK, PP!RecordsOK, PP!WellFormed, Account,
         Cardinality, Compatible, Devices, Listed, LoadedLimit, RecordOK,
         RecordsOK, WellFormed
<1>4. \A rows : PP!FileOK(rows) <=> FileOK(rows)
  BY DEF PP!Cardinality, PP!Compatible, PP!Devices, PP!FileOK, PP!Listed,
         PP!Loaded, PP!LoadedLimit, PP!Row, PP!WellFormed, Cardinality,
         Compatible, Devices, FileOK, Listed, Loaded, LoadedLimit, Row,
         WellFormed
<1>5. PP!Devices = Devices
  BY DEF PP!Devices, Devices
<1>6. \A d, t : PP!Live(d, t) = Live(d, t)
  BY DEF PP!Live, Live
<1>7. QED
  BY <1>1, <1>2, <1>3, <1>4, <1>5, <1>6

LEMMA AdminNames ==
    /\ \A d : AA!Listed(d) = Listed(d)
    /\ \A recs : AA!Rows(recs) = Rows(recs)
    /\ \A recs : AA!RecordsOK(recs) <=> RecordsOK(recs)
    /\ \A rows : AA!FileOK(rows) <=> FileOK(rows)
    /\ AA!Devices = Devices
<1>1. \A d : AA!Listed(d) = Listed(d)
  BY DEF AA!Listed, Listed
<1>2. \A recs : AA!Rows(recs) = Rows(recs)
  BY DEF AA!Rows, Rows
<1>3. \A recs : AA!RecordsOK(recs) <=> RecordsOK(recs)
  BY DEF AA!Account, AA!Cardinality, AA!Compatible, AA!Devices, AA!Listed,
         AA!LoadedLimit, AA!RecordOK, AA!RecordsOK, AA!WellFormed, Account,
         Cardinality, Compatible, Devices, Listed, LoadedLimit, RecordOK,
         RecordsOK, WellFormed
<1>4. \A rows : AA!FileOK(rows) <=> FileOK(rows)
  BY DEF AA!Cardinality, AA!Compatible, AA!Devices, AA!FileOK, AA!Listed,
         AA!Loaded, AA!LoadedLimit, AA!Row, AA!WellFormed, Cardinality,
         Compatible, Devices, FileOK, Listed, Loaded, LoadedLimit, Row,
         WellFormed
<1>5. AA!Devices = Devices
  BY DEF AA!Devices, Devices
<1>6. QED
  BY <1>1, <1>2, <1>3, <1>4, <1>5

LEMMA SamePortalActions ==
    /\ P!Init <=> PP!Init
    /\ P!Arrival <=> PP!Arrival
    /\ P!Restart <=> PP!Restart
    /\ \A r : P!ValidateCredentials(r) <=> PP!ValidateCredentials(r)
    /\ \A r : P!RejectCredentials(r) <=> PP!RejectCredentials(r)
    /\ \A r : P!RegisterRefused(r) <=> PP!RegisterRefused(r)
    /\ \A r : P!Succeed(r) <=> PP!Succeed(r)
    /\ \A r, outcome : P!Register(r, outcome) <=> PP!Register(r, outcome)
    /\ \A r, outcome : P!Rollback(r, outcome) <=> PP!Rollback(r, outcome)
    /\ \A r, outcome : P!AuthorizeClient(r, outcome) <=> PP!AuthorizeClient(r, outcome)
    /\ \A r, outcome : P!Reconnect(r, outcome) <=> PP!Reconnect(r, outcome)
    /\ \A q : P!Arrive(q) <=> PP!Arrive(q)
<1>0. \A r, outcome : P!Ask(r, outcome) <=> PP!Ask(r, outcome)
  BY DEF P!Admit, P!Applied, P!Ask, P!Asked, P!Authorize, P!Cardinality,
         P!RecordGrant, PP!Admit, PP!Applied, PP!Ask, PP!Asked, PP!Authorize,
         PP!Cardinality, PP!RecordGrant
<1>1. P!Init <=> PP!Init
  BY DEF P!Idle, P!Init, P!Listed, P!Load, P!Loaded, P!LoadedLimit, P!NetInit,
         P!NewSession, P!PortalInit, P!RepositoryInit, P!TrustedUntil,
         P!Trusting, PP!Idle, PP!Init, PP!Listed, PP!Load, PP!Loaded,
         PP!LoadedLimit, PP!NetInit, PP!NewSession, PP!PortalInit,
         PP!RepositoryInit, PP!TrustedUntil, PP!Trusting
<1>2. P!Arrival <=> PP!Arrival
  BY DEF P!Arrival, P!AuthorizationDuration, P!CanAuthenticate,
         P!CreatePortalSession, P!FindByMAC, P!Idle, P!IsExpired, P!Live,
         P!RememberedBy, P!Remembers, P!ShowLogin, P!Submit, P!SubmitExpired,
         P!portalHistory, P!repositoryVars, PP!Arrival,
         PP!AuthorizationDuration, PP!CanAuthenticate, PP!CreatePortalSession,
         PP!FindByMAC, PP!Idle, PP!IsExpired, PP!Live, PP!RememberedBy,
         PP!Remembers, PP!ShowLogin, PP!Submit, PP!SubmitExpired,
         PP!portalHistory, PP!repositoryVars
<1>3. P!Restart <=> PP!Restart
  BY DEF P!Idle, P!Load, P!Loaded, P!LoadedLimit, P!Reload, P!Restart,
         PP!Idle, PP!Load, PP!Loaded, PP!LoadedLimit, PP!Reload, PP!Restart
<1>4. \A r : P!ValidateCredentials(r) <=> PP!ValidateCredentials(r)
  BY DEF P!CanAuthenticate, P!CredentialsAccepted, P!Owner,
         P!ValidateCredentials, P!repositoryVars, PP!CanAuthenticate,
         PP!CredentialsAccepted, PP!Owner, PP!ValidateCredentials,
         PP!repositoryVars
<1>5. \A r : P!RejectCredentials(r) <=> PP!RejectCredentials(r)
  BY DEF P!CanAuthenticate, P!CredentialsAccepted, P!Idle, P!Owner,
         P!RejectCredentials, P!portalHistory, P!repositoryVars,
         PP!CanAuthenticate, PP!CredentialsAccepted, PP!Idle, PP!Owner,
         PP!RejectCredentials, PP!portalHistory, PP!repositoryVars
<1>6. \A r : P!RegisterRefused(r) <=> PP!RegisterRefused(r)
  BY DEF P!Cardinality, P!HasRoom, P!Idle, P!Live, P!Owner, P!RegisterRefused,
         P!Registrable, P!portalHistory, P!repositoryVars, PP!Cardinality,
         PP!HasRoom, PP!Idle, PP!Live, PP!Owner, PP!RegisterRefused,
         PP!Registrable, PP!portalHistory, PP!repositoryVars
<1>7. \A r : P!Succeed(r) <=> PP!Succeed(r)
  BY DEF P!Idle, P!Succeed, P!repositoryVars, PP!Idle, PP!Succeed,
         PP!repositoryVars
<1>8. \A r, outcome : P!Register(r, outcome) <=> PP!Register(r, outcome)
  BY DEF P!AuthorizationDuration, P!Cardinality, P!Commit, P!HasRoom, P!Idle,
         P!Live, P!NewlyTrusted, P!Owner, P!Persist, P!Register,
         P!RegisterDevice, P!Rows, P!WithDevice, PP!AuthorizationDuration,
         PP!Cardinality, PP!Commit, PP!HasRoom, PP!Idle, PP!Live,
         PP!NewlyTrusted, PP!Owner, PP!Persist, PP!Register,
         PP!RegisterDevice, PP!Rows, PP!WithDevice
<1>9. \A r, outcome : P!Rollback(r, outcome) <=> PP!Rollback(r, outcome)
  BY DEF P!Commit, P!Idle, P!Owner, P!Persist, P!RemoveDevice, P!Rollback,
         P!Rows, P!WithoutDevice, P!repositoryVars, PP!Commit, PP!Idle,
         PP!Owner, PP!Persist, PP!RemoveDevice, PP!Rollback, PP!Rows,
         PP!WithoutDevice, PP!repositoryVars
<1>10. \A r, outcome : P!AuthorizeClient(r, outcome) <=> PP!AuthorizeClient(r, outcome)
  BY <1>0 DEF P!AuthorizeClient, P!Idle, P!repositoryVars, PP!AuthorizeClient,
         PP!Idle, PP!repositoryVars
<1>11. \A r, outcome : P!Reconnect(r, outcome) <=> PP!Reconnect(r, outcome)
  BY <1>0 DEF P!AllDrawn, P!CreatePortalSession, P!Idle, P!Reconnect,
         P!repositoryVars, PP!AllDrawn, PP!CreatePortalSession, PP!Idle,
         PP!Reconnect, PP!repositoryVars
<1>12. \A q : P!Arrive(q) <=> PP!Arrive(q)
  BY DEF P!Admit, P!Arrive, P!RecordGrant, P!repositoryVars, P!storeVars,
         PP!Admit, PP!Arrive, PP!RecordGrant, PP!repositoryVars, PP!storeVars
<1>13. QED
  BY <1>1, <1>2, <1>3, <1>4, <1>5, <1>6, <1>7, <1>8, <1>9, <1>10, <1>11, <1>12

LEMMA SamePortalInvariants ==
    /\ PP!TypeOK <=> P!TypeOK
    /\ PP!GrantProven <=> P!GrantProven
    /\ PP!GrantWithinAccount <=> P!GrantWithinAccount
    /\ PP!SlotJustified <=> P!SlotJustified
    /\ PP!NoLateReplay <=> P!NoLateReplay
<1>1. PP!TypeOK <=> P!TypeOK
  BY DEF PP!Account, PP!Devices, PP!LateState, PP!NetTypeOK,
         PP!RepositoryTypeOK, PP!RequestState, PP!Row, PP!TypeOK, P!Account,
         P!Devices, P!LateState, P!NetTypeOK, P!RepositoryTypeOK, P!RequestState, P!Row, P!TypeOK
<1>2. PP!GrantProven <=> P!GrantProven
  BY DEF PP!GrantProven, PP!Listed, PP!Trusting, P!GrantProven, P!Listed,
         P!Trusting
<1>3. PP!GrantWithinAccount <=> P!GrantWithinAccount
  BY DEF PP!GrantWithinAccount, P!GrantWithinAccount
<1>4. PP!SlotJustified <=> P!SlotJustified
  BY DEF PP!Listed, PP!SlotJustified, PP!Trusting, P!Listed, P!SlotJustified,
         P!Trusting
<1>5. PP!NoLateReplay <=> P!NoLateReplay
  BY DEF PP!NoLateReplay, P!NoLateReplay
<1>6. QED
  BY <1>1, <1>2, <1>3, <1>4, <1>5

LEMMA SameAdminActions ==
    /\ \A a : A!AdminArrival(a) <=> AA!AdminArrival(a)
    /\ \A a : A!AdminProgress(a) <=> AA!AdminProgress(a)
    /\ \A m : A!PermissionEnds(m) <=> AA!PermissionEnds(m)
    /\ A!Restart <=> AA!Restart
    /\ A!TypeOK <=> AA!TypeOK
<1>1. \A a : A!AdminArrival(a) <=> AA!AdminArrival(a)
  BY DEF A!AdminArrival, A!AfterRevocation, A!Available, A!Bars, A!Become,
         A!Cardinality, A!Create, A!CreateEmployee, A!Enter, A!Fresh,
         A!IdleAdmin, A!Listed, A!NewEmployee, A!NewResident, A!NextDevice,
         A!NoDevices, A!Orders, A!Persist, A!Reading, A!Rows, A!StartCreation,
         A!StartDeletion, A!StartRotation, A!StartUpdate, A!WithRecord,
         A!WithoutRecord, A!repositoryVars, AA!AdminArrival,
         AA!AfterRevocation, AA!Available, AA!Bars, AA!Become, AA!Cardinality,
         AA!Create, AA!CreateEmployee, AA!Enter, AA!Fresh, AA!IdleAdmin,
         AA!Listed, AA!NewEmployee, AA!NewResident, AA!NextDevice,
         AA!NoDevices, AA!Orders, AA!Persist, AA!Reading, AA!Rows,
         AA!StartCreation, AA!StartDeletion, AA!StartRotation, AA!StartUpdate,
         AA!WithRecord, AA!WithoutRecord, AA!repositoryVars
<1>2. \A a : A!AdminProgress(a) <=> AA!AdminProgress(a)
  BY DEF A!Abandon, A!AdminProgress, A!AfterRevocation, A!Applied,
         A!ApplyUpdate, A!Available, A!Become, A!Clear, A!Commit, A!Create,
         A!CreateRecord, A!Delete, A!DeleteRecord, A!Expel, A!Fresh, A!IdleAdmin,
         A!MailNew, A!NextDevice, A!NoDevices, A!Notify, A!Persist, A!Replace,
         A!RecordRevocation,
         A!ReplacePasswordAndClearDevices, A!ReportedDone, A!Revoke, A!RevokeDevice, A!Rows,
         A!Undo, A!Update, A!WithRecord, A!WithoutRecord, A!adminHistory,
         A!repositoryVars, AA!Abandon, AA!AdminProgress, AA!AfterRevocation,
         AA!Applied, AA!ApplyUpdate, AA!Available, AA!Become, AA!Clear,
         AA!Commit, AA!Create, AA!CreateRecord, AA!Delete, AA!DeleteRecord,
         AA!Expel, AA!Fresh, AA!IdleAdmin, AA!MailNew, AA!NextDevice, AA!NoDevices,
         AA!Notify, AA!Persist, AA!RecordRevocation, AA!Replace,
         AA!ReplacePasswordAndClearDevices, AA!ReportedDone,
         AA!Revoke, AA!RevokeDevice, AA!Rows, AA!Undo, AA!Update,
         AA!WithRecord, AA!WithoutRecord, AA!adminHistory, AA!repositoryVars
<1>3. A!Restart <=> AA!Restart
  BY DEF A!IdleAdmin, A!Load, A!Loaded, A!LoadedLimit, A!Reload, A!Restart,
         AA!IdleAdmin, AA!Load, AA!Loaded, AA!LoadedLimit, AA!Reload,
         AA!Restart
<1>4. A!TypeOK <=> AA!TypeOK
  BY DEF A!Account, A!AdminState, A!Devices, A!NetTypeOK, A!RepositoryTypeOK,
         A!Row, A!TypeOK, AA!Account, AA!AdminState, AA!Devices, AA!NetTypeOK,
         AA!RepositoryTypeOK, AA!Row, AA!TypeOK
<1>5. \A m : A!PermissionEnds(m) <=> AA!PermissionEnds(m)
  BY DEF A!Expel, A!Lapse, A!PermissionEnds, A!adminHistory, A!repositoryVars,
         AA!Expel, AA!Lapse, AA!PermissionEnds, AA!adminHistory,
         AA!repositoryVars
<1>6. QED
  BY <1>1, <1>2, <1>3, <1>4, <1>5

LEMMA SameAdminInit == P!Init /\ A!AdminInit => AA!Init
BY DEF P!Init, P!Load, P!Loaded, P!LoadedLimit, P!NetInit, P!RepositoryInit,
       P!TrustedUntil, A!AdminInit, A!IdleAdmin, AA!AdminInit, AA!IdleAdmin,
       AA!Init, AA!Load, AA!Loaded, AA!LoadedLimit, AA!NetInit,
       AA!RepositoryInit, AA!TrustedUntil

\* What the login service does, as far as it is concerned.
PortalMove ==
    \/ P!Arrival
    \/ \E r \in Request :
          \/ P!ValidateCredentials(r) \/ P!RejectCredentials(r)
          \/ P!RegisterRefused(r) \/ P!Succeed(r)
          \/ \E outcome \in PersistOutcome : P!Register(r, outcome) \/ P!Rollback(r, outcome)
          \/ \E outcome \in ControllerOutcome :
                P!AuthorizeClient(r, outcome) \/ P!Reconnect(r, outcome)
    \/ \E q \in underway : P!Arrive(q)
    \/ P!Restart
    \/ Tick /\ UNCHANGED <<net, portalVars>>
    \/ UNCHANGED <<repositoryVars, net, portalVars>>

LEMMA PortalStep ==
    ASSUME PP!IInv, PortalMove
    PROVE  PP!IInv'
<1>1. [PP!Next]_PP!vars
  <2>1. CASE P!Arrival \/ P!Restart
    BY <2>1, SamePortalActions DEF PP!Next
  <2>2. CASE \E r \in Request :
                \/ P!ValidateCredentials(r) \/ P!RejectCredentials(r)
                \/ P!RegisterRefused(r) \/ P!Succeed(r)
    BY <2>2, SamePortalActions DEF PP!Next, PP!Progress
  <2>3. CASE \E r \in Request, outcome \in PersistOutcome :
                P!Register(r, outcome) \/ P!Rollback(r, outcome)
    BY <2>3, SamePortalActions DEF PP!Next, PP!Progress
  <2>4. CASE \E r \in Request, outcome \in ControllerOutcome :
                P!AuthorizeClient(r, outcome) \/ P!Reconnect(r, outcome)
    BY <2>4, SamePortalActions DEF PP!Next, PP!Progress
  <2>5. CASE \E q \in underway : P!Arrive(q)
    BY <2>5, SamePortalActions DEF PP!Next
  <2>6. CASE Tick /\ UNCHANGED <<net, portalVars>>
    BY <2>6 DEF Tick, portalVars, PP!Next, PP!Clock, PP!Tick, PP!portalVars,
                PP!storeVars, PP!portalHistory
  <2>7. CASE UNCHANGED <<repositoryVars, net, portalVars>>
    BY <2>7 DEF repositoryVars, portalVars, PP!vars, PP!repositoryVars, PP!portalVars,
                PP!storeVars, PP!portalHistory
  <2>8. QED
    BY <2>1, <2>2, <2>3, <2>4, <2>5, <2>6, <2>7, Zenon DEF PortalMove
<1>2. QED
  BY <1>1, PP!NextStep, PortalFacts

\* What the administration does.
AdminMove ==
    \/ \E a \in Admin : A!AdminArrival(a) \/ A!AdminProgress(a)
    \/ \E mac \in Mac : A!PermissionEnds(mac)
    \/ Tick /\ UNCHANGED <<net, adminVars>>
    \/ UNCHANGED <<repositoryVars, net, adminVars>>

LEMMA AdminStep ==
    ASSUME NEW X, AA!IInv(X), AdminMove
    PROVE  AA!IInv(X)'
<1>1. [AA!Next]_AA!vars
  <2>1. CASE \/ \E a \in Admin : A!AdminArrival(a) \/ A!AdminProgress(a)
             \/ \E mac \in Mac : A!PermissionEnds(mac)
    BY <2>1, SameAdminActions DEF AA!Next
  <2>2. CASE Tick /\ UNCHANGED <<net, adminVars>>
    BY <2>2 DEF Tick, adminVars, adminHistory, AA!Next, AA!Clock, AA!Tick, AA!adminVars,
                AA!adminHistory
  <2>3. CASE UNCHANGED <<repositoryVars, net, adminVars>>
    BY <2>3 DEF repositoryVars, adminVars, adminHistory, AA!vars, AA!repositoryVars,
                AA!adminVars, AA!adminHistory
  <2>4. QED
    BY <2>1, <2>2, <2>3, Zenon DEF AdminMove
<1>2. QED
  BY <1>1, AA!NextStep, AdminFacts

LEMMA ExcusedIs ==
    ASSUME NEW X
    PROVE  /\ X = Excused => (AA!IInv(Excused) <=> AA!IInv(X))
           /\ X = Excused' => (AA!IInv(Excused)' <=> AA!IInv(X)')
BY DEF AA!IInv, AA!RequestsOK

LEMMA PortalRepository ==
    /\ PP!IInv => /\ now \in Nat /\ RecordsOK(records) /\ FileOK(file)
                  /\ net \in [Mac -> Nat]
    /\ PP!IInv' => /\ now' \in Nat /\ RecordsOK(records') /\ FileOK(file')
                   /\ net' \in [Mac -> Nat]
BY PortalNames DEF PP!IInv, PP!RepoOK, PP!GrantsOK

LEMMA AdminRepository ==
    ASSUME NEW X, AA!IInv(X)'
    PROVE  RecordsOK(records') /\ FileOK(file')
BY AdminNames DEF AA!IInv, AA!RepoOK

\* The login service beside administrators.
LEMMA PortalBeside ==
    ASSUME PP!IInv, UNCHANGED portalVars, now' = now,
           RecordsOK(records'), FileOK(file'), file' \in {Rows(records'), file, {}},
           \A k \in DOMAIN records' :
              \/ Listed(records'[k].devices) = {}
              \/ /\ k \in DOMAIN records
                 /\ records'[k].username = records[k].username
                 /\ Listed(records'[k].devices) \subseteq Listed(records[k].devices),
           net' \in [Mac -> Nat], \A m \in Mac : net'[m] \in {net[m], 0}
    PROVE  PP!IInv'
<1>1. UNCHANGED PP!portalVars
  BY DEF portalVars, PP!portalVars, PP!storeVars, PP!portalHistory
<1>2. /\ PP!RecordsOK(records') /\ PP!FileOK(file')
      /\ file' \in {PP!Rows(records'), file, {}}
      /\ \A k \in DOMAIN records' :
            \/ PP!Listed(records'[k].devices) = {}
            \/ /\ k \in DOMAIN records
               /\ records'[k].username = records[k].username
               /\ PP!Listed(records'[k].devices) \subseteq PP!Listed(records[k].devices)
  BY PortalNames
<1>3. QED
  BY <1>1, <1>2, PP!OthersStep, PortalFacts

\* Request a works on account k.
WorksOn(a, k) == adm[a].pc # "idle" /\ adm[a].account.id = k

\* The administration beside logins.
LEMMA AdminBeside ==
    ASSUME AA!IInv(Excused), UNCHANGED <<missed, adminHistory>>, now' = now,
           RecordsOK(records'), FileOK(file'), file' \in {Rows(records'), file, {}},
           DOMAIN records' = DOMAIN records,
           \A k \in DOMAIN records : \E devices \in Devices :
              /\ records'[k] = [records[k] EXCEPT !.devices = devices]
              /\ \A a \in Admin : WorksOn(a, k) =>
                    Listed(devices) \subseteq Listed(records[k].devices) \cup Excused'[a],
           net' \in [Mac -> Nat],
           \A a \in Admin, m \in Mac : adm[a].pc # "idle" =>
              net'[m] <= now \/ net'[m] = net[m] \/ m \in Excused'[a],
           adm' \in [Admin -> AA!AdminState],
           \A a \in Admin : \E list, shared :
              adm'[a] = [adm[a] EXCEPT !.list = list, !.shared = shared],
           \A a \in Admin : adm'[a].list = adm[a].list \/ Mac \subseteq Excused'[a],
           \A a \in Admin : adm[a].pc # "idle" => Excused[a] \subseteq Excused'[a]
    PROVE  AA!IInv(Excused)'
<1>1. PICK X : X = Excused
  OBVIOUS
<1>2. PICK Y : Y = Excused'
  OBVIOUS
<1>3. AA!IInv(X) /\ UNCHANGED AA!adminHistory /\ missed' = missed
  BY <1>1, ExcusedIs DEF adminHistory, AA!adminHistory
<1>4. /\ AA!RecordsOK(records') /\ AA!FileOK(file')
      /\ file' \in {AA!Rows(records'), file, {}}
      /\ \A k \in DOMAIN records : \E devices \in AA!Devices :
            /\ records'[k] = [records[k] EXCEPT !.devices = devices]
            /\ \A a \in Admin : AA!WorksOn(a, k) =>
                  AA!Listed(devices) \subseteq AA!Listed(records[k].devices) \cup Y[a]
  BY <1>2, AdminNames DEF WorksOn, AA!WorksOn
<1>5. /\ \A a \in Admin, m \in Mac : adm[a].pc # "idle" =>
            net'[m] <= now \/ net'[m] = net[m] \/ m \in Y[a]
      /\ \A a \in Admin : adm'[a].list = adm[a].list \/ Mac \subseteq Y[a]
      /\ \A a \in Admin : adm[a].pc # "idle" => X[a] \subseteq Y[a]
  BY <1>1, <1>2
<1>6. AA!IInv(Y)'
  BY <1>3, <1>4, <1>5, AA!OthersStep, AdminFacts
<1>7. QED
  BY <1>2, <1>6, ExcusedIs

\* What logins do to the accounts.
NewList(r, k, devices) ==
    /\ k \in DOMAIN records /\ Owner(req[r].user) = {k}
    /\ req[r].mac \in Mac /\ devices \in Devices
    /\ records' = [records EXCEPT ![k].devices = devices]
    /\ file' \in {Rows(records'), file, {}}
    /\ now' = now

LEMMA RegisterLists ==
    ASSUME PP!IInv, NEW r \in Request, NEW outcome, P!Register(r, outcome)
    PROVE  \E k, devices :
              /\ NewList(r, k, devices)
              /\ Listed(devices) = Live(records[k].devices, now) \cup {req[r].mac}
<1>1. PP!Register(r, outcome)
  BY SamePortalActions
<1>2. PICK k \in PP!Owner(req[r].user), devices \in PP!Devices :
         /\ PP!NewList(k, devices) /\ PP!Owner(req[r].user) = {k} /\ req[r].mac \in Mac
         /\ PP!Listed(devices) = PP!Live(records[k].devices, now) \cup {req[r].mac}
  BY <1>1, PP!RegisterLists, PortalFacts
<1>3. PP!Owner(req[r].user) = Owner(req[r].user)
  BY DEF Owner, PP!Owner
<1>4. QED
  BY <1>2, <1>3, PortalNames DEF PP!NewList, NewList

LEMMA RollbackLists ==
    ASSUME PP!IInv, NEW r \in Request, NEW outcome, P!Rollback(r, outcome)
    PROVE  \/ Owner(req[r].user) = {} /\ UNCHANGED repositoryVars
           \/ \E k, devices :
                 /\ NewList(r, k, devices)
                 /\ Listed(devices) = Listed(records[k].devices) \ {req[r].mac}
<1>1. PP!Rollback(r, outcome)
  BY SamePortalActions
<1>2. \/ PP!Owner(req[r].user) = {} /\ UNCHANGED PP!repositoryVars
      \/ \E k \in PP!Owner(req[r].user), devices \in PP!Devices :
            /\ PP!NewList(k, devices) /\ PP!Owner(req[r].user) = {k} /\ req[r].mac \in Mac
            /\ PP!Listed(devices) = PP!Listed(records[k].devices) \ {req[r].mac}
  BY <1>1, PP!RollbackLists, PortalFacts
<1>3. PP!Owner(req[r].user) = Owner(req[r].user)
  BY DEF Owner, PP!Owner
<1>4. QED
  BY <1>2, <1>3, PortalNames DEF PP!NewList, NewList, repositoryVars, PP!repositoryVars

\* What administrators do to them.
LEMMA AdminFootprint ==
    ASSUME NEW X, AA!IInv(X), NEW a \in Admin, A!AdminArrival(a) \/ A!AdminProgress(a)
    PROVE  /\ now' = now /\ file' \in {Rows(records'), file, {}}
           /\ \A k \in DOMAIN records' :
                 \/ Listed(records'[k].devices) = {}
                 \/ /\ k \in DOMAIN records /\ records'[k].username = records[k].username
                    /\ Listed(records'[k].devices) = Listed(records[k].devices)
           /\ net' \in [Mac -> Nat] /\ \A m \in Mac : net'[m] \in {net[m], 0}
           /\ A!AdminArrival(a) =>
                 \A k \in DOMAIN records : /\ k \in DOMAIN records'
                                           /\ Listed(records'[k].devices)
                                                 = Listed(records[k].devices)
<1>1. AA!AdminArrival(a) \/ AA!AdminProgress(a)
  BY SameAdminActions
<1>2. /\ AA!Footprint
      /\ net' \in [Mac -> Nat] /\ \A m \in Mac : net'[m] \in {net[m], 0}
      /\ AA!AdminArrival(a) => AA!KeepsDevices
  BY <1>1, AA!StepFootprint, AdminFacts
<1>3. QED
  BY <1>2, SameAdminActions, AdminNames DEF AA!Footprint, AA!KeepsDevices

LEMMA ProgressDropsOffline ==
    ASSUME NEW X, AA!IInv(X), NEW a \in Admin, A!AdminProgress(a),
           NEW k \in DOMAIN records, NEW m \in Listed(records[k].devices),
           k \notin DOMAIN records' \/ m \notin Listed(records'[k].devices)
    PROVE  ~Online(m)' \/ m \in missed' \/ \E b \in Admin : ActsOn(b, k) /\ m \in X[b]
<1>1. AA!AdminProgress(a)
  BY SameAdminActions
<1>2. AA!OnlyOffline(X)
  BY <1>1, AA!ProgressDropsOffline, AdminFacts
<1>3. m \in Mac
  BY DEF Listed
<1>4. QED
  BY <1>2, <1>3, AdminNames DEF AA!OnlyOffline, AA!Online, Online, AA!ActsOn, ActsOn

-----------------------------------------------------------------------------
(* Device lists in slice order                                             *)

LEMMA OrdersOK ==
    ASSUME NEW D \in SUBSET Mac, NEW list \in A!Orders(D)
    PROVE  list \in Seq(Mac) /\ ToSet(list) = D
<1>1. A!Orders(D) = AA!Orders(D)
  BY DEF A!Orders, AA!Orders, A!Cardinality, AA!Cardinality
<1>2. list \in Seq(Mac) /\ \A m \in D : \E i \in DOMAIN list : list[i] = m
  BY <1>1, AA!OrderedList, AdminFacts
<1>3. \A i \in DOMAIN list : list[i] \in D
  BY DEF A!Orders
<1>4. QED
  BY <1>2, <1>3 DEF ToSet

LEMMA EmptySlice == <<>> \in Seq(Mac) /\ ToSet(<<>>) = {}
BY DEF ToSet

LEMMA RemainingOK ==
    ASSUME NEW list, NEW D \in SUBSET Mac, NEW rest \in Remaining(list, D)
    PROVE  rest \in Seq(Mac) /\ ToSet(rest) = D
BY OrdersOK DEF Remaining

LEMMA SliceWithOK ==
    ASSUME NEW active \in Seq(Mac), NEW mac \in Mac
    PROVE  /\ SliceWith(active, mac) \in Seq(Mac)
           /\ ToSet(SliceWith(active, mac)) = ToSet(active) \cup {mac}
<1>1. CASE mac \in ToSet(active)
  BY <1>1 DEF SliceWith
<1>2. CASE mac \notin ToSet(active)
  <2> DEFINE list == Append(active, mac)
  <2>1. /\ list \in Seq(Mac) /\ Len(list) = Len(active) + 1
        /\ \A i \in 1 .. Len(active) : list[i] = active[i]
        /\ list[Len(active) + 1] = mac
    OBVIOUS
  <2> HIDE DEF list
  <2>2. ToSet(list) = ToSet(active) \cup {mac}
    BY <2>1 DEF ToSet
  <2>3. QED
    BY <1>2, <2>1, <2>2 DEF SliceWith, list
<1>3. QED
  BY <1>1, <1>2

LEMMA CompactedOK ==
    ASSUME NEW array \in Seq(Mac), NEW rest \in Seq(Mac)
    PROVE  Compacted(array, rest) \in Seq(Mac)
BY DEF Compacted

-----------------------------------------------------------------------------
(* What a step takes off the lists, and what it excuses requests from      *)

\* What RevokedUnlessTouched says of a step.
RevokedNow ==
    \A k \in DOMAIN records, m \in Mac : Stranded(k, m) =>
        \/ \E r \in Request : req[r].pc = "refused" /\ req[r].mac = m /\ req' # req
        \/ \E a \in Admin : ActsOn(a, k) /\ (m \in touched[a] \/ a \in moved)
        \/ m \in missed'

LEMMA LiveAreListed ==
    ASSUME PP!IInv, NEW k \in DOMAIN records
    PROVE  Live(records[k].devices, now) \subseteq Listed(records[k].devices)
BY PortalRepository DEF RecordsOK, RecordOK, Account, Devices, Live, Listed

LEMMA KeptIsRevokedNow ==
    ASSUME \A k \in DOMAIN records :
              /\ k \in DOMAIN records'
              /\ Live(records[k].devices, now) \subseteq Listed(records'[k].devices)
    PROVE  RevokedNow
BY DEF RevokedNow, Stranded

\* Account k gets another device list, and nothing else changes in memory.
OneListChanges(k, devices) ==
    /\ DOMAIN records' = DOMAIN records
    /\ records'[k].devices = devices
    /\ \A j \in DOMAIN records : j # k => records'[j] = records[j]
    /\ \A j \in DOMAIN records : \E d \in Devices :
          /\ records'[j] = [records[j] EXCEPT !.devices = d]
          /\ d = IF j = k THEN devices ELSE records[j].devices

LEMMA OneList ==
    ASSUME PP!IInv, NEW r, NEW k, NEW devices, NewList(r, k, devices)
    PROVE  OneListChanges(k, devices)
<1>1. \A j \in DOMAIN records : records[j] \in Account
  BY PortalRepository DEF RecordsOK, RecordOK
<1>2. /\ k \in DOMAIN records /\ devices \in Devices
      /\ records' = [records EXCEPT ![k].devices = devices]
  BY DEF NewList
<1>3. /\ DOMAIN records' = DOMAIN records
      /\ records'[k] = [records[k] EXCEPT !.devices = devices]
      /\ \A j \in DOMAIN records : j # k => records'[j] = records[j]
  BY <1>2
<1>4. \A j \in DOMAIN records : /\ records[j].devices \in Devices
                                /\ records[j] = [records[j] EXCEPT !.devices = records[j].devices]
  BY <1>1 DEF Account
<1>5. records'[k].devices = devices
  BY <1>1, <1>2, <1>3 DEF Account
<1>6. QED
  BY <1>2, <1>3, <1>4, <1>5 DEF OneListChanges

\* Whoever lets a device in excuses the requests at work from it.
LEMMA Touching ==
    ASSUME HistoryOK, NEW mac \in Mac, Touch(mac), moved' = moved
    PROVE  /\ HistoryOK'
           /\ \A a \in Admin : adm[a].pc # "idle" =>
                 Excused[a] \subseteq Excused'[a] /\ mac \in Excused'[a]
BY DEF HistoryOK, Touch, Excused

\* The copy of an account that a request holds may change in its list only.
LEMMA Copy ==
    ASSUME NEW q \in AA!AdminState
    PROVE  /\ q.list \in Seq(Mac) /\ q.shared \in BOOLEAN
           /\ q = [q EXCEPT !.list = q.list, !.shared = q.shared]
           /\ [q EXCEPT !.shared = FALSE] = [q EXCEPT !.list = q.list, !.shared = FALSE]
           /\ \A list : [q EXCEPT !.list = list] = [q EXCEPT !.list = list, !.shared = q.shared]
BY DEF AA!AdminState

LEMMA Copies ==
    ASSUME NEW X, AA!IInv(X)
    PROVE  adm \in [Admin -> AA!AdminState]
BY DEF AA!IInv, AA!RequestsOK

LEMMA RequestMac ==
    ASSUME PP!IInv, NEW r \in Request, req[r].pc # "idle"
    PROVE  req[r].mac \in Mac
BY DEF PP!IInv, PP!RequestsOK, PP!ReqOK

-----------------------------------------------------------------------------
(* Steps of the login service                                              *)

LEMMA QuietStep ==
    ASSUME IInv, PortalMove,
           UNCHANGED <<repositoryVars, net, adminVars, slice, touched, moved>>
    PROVE  IInv' /\ RevokedNow
<1>1. PP!IInv'
  BY PortalStep DEF IInv
<1>2. AA!IInv(Excused)'
  <2>1. PICK X : X = Excused
    OBVIOUS
  <2>2. AA!IInv(X) /\ X = Excused'
    BY <2>1, ExcusedIs DEF IInv, Excused
  <2>3. AA!IInv(X)'
    BY <2>2, AdminStep DEF AdminMove
  <2>4. QED
    BY <2>2, <2>3, ExcusedIs
<1>3. SliceOK' /\ HistoryOK'
  BY DEF IInv, SliceOK, HistoryOK, repositoryVars
<1>4. RevokedNow
  BY LiveAreListed, KeptIsRevokedNow DEF IInv, repositoryVars
<1>5. QED
  BY <1>1, <1>2, <1>3, <1>4 DEF IInv

LEMMA RegisterStep ==
    ASSUME IInv, NEW r \in Request, NEW outcome \in PersistOutcome, Register(r, outcome)
    PROVE  IInv' /\ RevokedNow
<1> DEFINE mac == req[r].mac
<1>1. /\ P!Register(r, outcome) /\ Touch(mac) /\ net' = net /\ moved' = moved
      /\ UNCHANGED <<missed, adminHistory>>
  BY DEF Register, P!Register
<1>2. PP!IInv /\ PP!IInv'
  BY <1>1, PortalStep DEF PortalMove, IInv
<1>3. PICK k, devices :
         /\ NewList(r, k, devices)
         /\ Listed(devices) = Live(records[k].devices, now) \cup {mac}
  BY <1>1, <1>2, RegisterLists
<1>4. /\ k \in DOMAIN records /\ Owner(req[r].user) = {k} /\ mac \in Mac
      /\ file' \in {Rows(records'), file, {}} /\ now' = now
  BY <1>3 DEF NewList
<1>5. /\ DOMAIN records' = DOMAIN records
      /\ records'[k].devices = devices
      /\ \A j \in DOMAIN records : j # k => records'[j] = records[j]
      /\ \A j \in DOMAIN records : \E d \in Devices :
            /\ records'[j] = [records[j] EXCEPT !.devices = d]
            /\ d = IF j = k THEN devices ELSE records[j].devices
  <2>1. OneListChanges(k, devices)
    BY <1>2, <1>3, OneList
  <2>2. QED
    BY <2>1 DEF OneListChanges
<1>6. /\ HistoryOK'
      /\ \A a \in Admin : adm[a].pc # "idle" =>
            Excused[a] \subseteq Excused'[a] /\ mac \in Excused'[a]
  BY <1>1, <1>4, Touching DEF IInv
<1>7. PICK active \in Remaining(slice[k], Live(records[k].devices, now)) :
         /\ slice' = [slice EXCEPT ![k] = SliceWith(active, mac)]
         /\ adm' = [a \in Admin |-> IF Holding(a, k) THEN [adm[a] EXCEPT !.shared = FALSE]
                                                     ELSE adm[a]]
  BY <1>4 DEF Register
<1>8. adm \in [Admin -> AA!AdminState]
  <2>1. PICK X : X = Excused
    OBVIOUS
  <2>2. QED
    BY <2>1, ExcusedIs, Copies DEF IInv
<1>9. \A j \in DOMAIN records : Live(records[j].devices, now) \subseteq Listed(records[j].devices)
  BY <1>2, LiveAreListed
<1> HIDE DEF mac
<1>10. \A a \in Admin : /\ adm'[a] \in AA!AdminState /\ adm'[a].list = adm[a].list
                        /\ \E list, shared :
                              adm'[a] = [adm[a] EXCEPT !.list = list, !.shared = shared]
  <2> SUFFICES ASSUME NEW a \in Admin
               PROVE  /\ adm'[a] \in AA!AdminState /\ adm'[a].list = adm[a].list
                      /\ \E list, shared :
                            adm'[a] = [adm[a] EXCEPT !.list = list, !.shared = shared]
    OBVIOUS
  <2>1. PICK s \in BOOLEAN : adm'[a] = [adm[a] EXCEPT !.list = adm[a].list, !.shared = s]
    BY <1>7, <1>8, Copy
  <2>2. adm[a].list \in Seq(Mac) /\ adm[a] \in AA!AdminState
    BY <1>8, Copy
  <2>3. adm'[a] \in AA!AdminState /\ adm'[a].list = adm[a].list
    BY <2>1, <2>2 DEF AA!AdminState
  <2>4. QED
    BY <2>1, <2>3
<1>11. AA!IInv(Excused)'
  <2>1. \A j \in DOMAIN records : \E d \in Devices :
           /\ records'[j] = [records[j] EXCEPT !.devices = d]
           /\ \A a \in Admin : WorksOn(a, j) =>
                 Listed(d) \subseteq Listed(records[j].devices) \cup Excused'[a]
    BY <1>3, <1>5, <1>6, <1>9 DEF WorksOn
  <2>2. adm' \in [Admin -> AA!AdminState]
    BY <1>7, <1>10
  <2>3. RecordsOK(records') /\ FileOK(file') /\ net' \in [Mac -> Nat]
    BY <1>2, PortalRepository
  <2>4. QED
    BY <1>1, <1>4, <1>5, <1>6, <1>10, <2>1, <2>2, <2>3, AdminBeside DEF IInv
<1>12. SliceOK'
  <2>1. active \in Seq(Mac) /\ ToSet(active) = Live(records[k].devices, now)
    BY RemainingOK DEF Live
  <2>2. /\ SliceWith(active, mac) \in Seq(Mac)
        /\ ToSet(SliceWith(active, mac)) = Listed(devices)
    BY <1>3, <1>4, <2>1, SliceWithOK
  <2>3. QED
    BY <1>4, <1>5, <1>7, <2>2 DEF IInv, SliceOK
<1>13. RevokedNow
  BY <1>3, <1>5, <1>9, KeptIsRevokedNow
<1>14. QED
  BY <1>2, <1>6, <1>11, <1>12, <1>13 DEF IInv

LEMMA RollbackStep ==
    ASSUME IInv, NEW r \in Request, NEW outcome \in PersistOutcome, Rollback(r, outcome)
    PROVE  IInv' /\ RevokedNow
<1> DEFINE mac == req[r].mac
<1>1. /\ P!Rollback(r, outcome) /\ net' = net /\ touched' = touched
      /\ moved' = moved \cup {a \in Admin : adm'[a].list # adm[a].list}
      /\ UNCHANGED <<missed, adminHistory>>
  BY DEF Rollback, P!Rollback
<1>2. PP!IInv /\ PP!IInv'
  BY <1>1, PortalStep DEF PortalMove, IInv
<1>3. CASE Owner(req[r].user) = {} /\ UNCHANGED repositoryVars
  <2>1. UNCHANGED <<slice, adm>>
    BY <1>3 DEF Rollback
  <2>2. moved' = moved
    BY <1>1, <2>1
  <2>3. QED
    BY <1>1, <1>3, <2>1, <2>2, QuietStep DEF PortalMove, adminVars
<1>4. ASSUME NEW k, NEW devices, NewList(r, k, devices),
             Listed(devices) = Listed(records[k].devices) \ {mac}
      PROVE  IInv' /\ RevokedNow
  <2>1. /\ k \in DOMAIN records /\ Owner(req[r].user) = {k} /\ mac \in Mac
        /\ file' \in {Rows(records'), file, {}} /\ now' = now
    BY <1>4 DEF NewList
  <2>2. /\ DOMAIN records' = DOMAIN records
        /\ records'[k].devices = devices
        /\ \A j \in DOMAIN records : j # k => records'[j] = records[j]
        /\ \A j \in DOMAIN records : \E d \in Devices :
              /\ records'[j] = [records[j] EXCEPT !.devices = d]
              /\ d = IF j = k THEN devices ELSE records[j].devices
    <3>1. OneListChanges(k, devices)
      BY <1>2, <1>4, OneList
    <3>2. QED
      BY <3>1 DEF OneListChanges
  <2>3. PICK rest \in Remaining(slice[k], ToSet(slice[k]) \ {mac}) :
           /\ slice' = [slice EXCEPT ![k] = rest]
           /\ adm' = [a \in Admin |-> IF Holding(a, k)
                                      THEN [adm[a] EXCEPT !.list = Compacted(@, rest)]
                                      ELSE adm[a]]
    <3>1. Withdraw(k, mac)
      BY <2>1 DEF Rollback
    <3>2. QED
      BY <3>1 DEF Withdraw
  <2>4. slice[k] \in Seq(Mac) /\ ToSet(slice[k]) = Listed(records[k].devices)
    BY <2>1 DEF IInv, SliceOK
  <2>5. rest \in Seq(Mac) /\ ToSet(rest) = Listed(devices)
    BY <1>4, <2>4, RemainingOK DEF Listed
  <2>6. adm \in [Admin -> AA!AdminState]
    <3>1. PICK X : X = Excused
      OBVIOUS
    <3>2. QED
      BY <3>1, ExcusedIs, Copies DEF IInv
  <2> HIDE DEF mac
  <2>7. HistoryOK'
    BY <1>1 DEF IInv, HistoryOK
  <2>8. \A a \in Admin : /\ Excused[a] \subseteq Excused'[a]
                         /\ adm'[a].list = adm[a].list \/ Mac \subseteq Excused'[a]
    BY <1>1 DEF IInv, HistoryOK, Excused
  <2>9. \A a \in Admin : /\ adm'[a] \in AA!AdminState
                         /\ \E list, shared :
                               adm'[a] = [adm[a] EXCEPT !.list = list, !.shared = shared]
    <3> SUFFICES ASSUME NEW a \in Admin
                 PROVE  /\ adm'[a] \in AA!AdminState
                        /\ \E list, shared :
                              adm'[a] = [adm[a] EXCEPT !.list = list, !.shared = shared]
      OBVIOUS
    <3> DEFINE list == Compacted(adm[a].list, rest)
    <3>1. adm[a] \in AA!AdminState /\ adm[a].list \in Seq(Mac)
      BY <2>6, Copy
    <3>2. list \in Seq(Mac)
      BY <2>5, <3>1, CompactedOK
    <3>3. adm'[a] = adm[a] \/ adm'[a] = [adm[a] EXCEPT !.list = list]
      BY <2>3
    <3> HIDE DEF list
    <3>4. adm'[a] \in AA!AdminState
      BY <3>1, <3>2, <3>3 DEF AA!AdminState
    <3>5. \E l, s : adm'[a] = [adm[a] EXCEPT !.list = l, !.shared = s]
      <4>1. \/ adm'[a] = [adm[a] EXCEPT !.list = adm[a].list, !.shared = adm[a].shared]
            \/ adm'[a] = [adm[a] EXCEPT !.list = list, !.shared = adm[a].shared]
        BY <3>1, <3>3, Copy
      <4>2. QED
        BY <4>1
    <3>6. QED
      BY <3>4, <3>5
  <2>10. AA!IInv(Excused)'
    <3>1. \A j \in DOMAIN records : \E d \in Devices :
             /\ records'[j] = [records[j] EXCEPT !.devices = d]
             /\ \A a \in Admin : WorksOn(a, j) =>
                   Listed(d) \subseteq Listed(records[j].devices) \cup Excused'[a]
      BY <1>4, <2>2
    <3>2. adm' \in [Admin -> AA!AdminState]
      BY <2>3, <2>9
    <3>3. RecordsOK(records') /\ FileOK(file') /\ net' \in [Mac -> Nat]
      BY <1>2, PortalRepository
    <3>4. QED
      BY <1>1, <2>1, <2>2, <2>8, <2>9, <3>1, <3>2, <3>3, AdminBeside DEF IInv
  <2>11. SliceOK'
    BY <2>1, <2>2, <2>3, <2>5 DEF IInv, SliceOK
  <2>12. RevokedNow
    <3> SUFFICES ASSUME NEW j \in DOMAIN records, NEW m \in Mac, Stranded(j, m)
                 PROVE  req[r].pc = "refused" /\ req[r].mac = m /\ req' # req
      BY DEF RevokedNow
    <3>1. m \in Listed(records[j].devices) /\ m \notin Listed(records'[j].devices)
      BY <1>2, <2>2, LiveAreListed DEF Stranded
    <3>2. m = mac
      BY <1>4, <2>2, <3>1
    <3>3. req[r].pc = "refused" /\ req' = [req EXCEPT ![r] = P!Idle] /\ P!Idle.pc = "idle"
      BY <1>1 DEF P!Rollback, P!Idle
    <3>4. DOMAIN req = Request
      BY <1>2 DEF PP!IInv, PP!RequestsOK
    <3>5. QED
      BY <3>2, <3>3, <3>4 DEF mac
  <2>13. QED
    BY <1>2, <2>7, <2>10, <2>11, <2>12 DEF IInv
<1>5. QED
  BY <1>1, <1>2, <1>3, <1>4, RollbackLists

\* The controller lets mac in, at once or late, or does not.
LEMMA LetInStep ==
    ASSUME IInv, PortalMove, NEW mac \in Mac, NEW duration,
           net' = net \/ net' = [net EXCEPT ![mac] = now + duration],
           Touch(mac), moved' = moved, UNCHANGED <<repositoryVars, adminVars, slice>>
    PROVE  IInv' /\ RevokedNow
<1>1. PP!IInv /\ PP!IInv'
  BY PortalStep DEF IInv
<1>2. net \in [Mac -> Nat] /\ net' \in [Mac -> Nat] /\ RecordsOK(records) /\ FileOK(file)
  BY <1>1, PortalRepository
<1>3. \A m \in Mac : net'[m] = net[m] \/ m = mac
  BY <1>2
<1>4. /\ HistoryOK'
      /\ \A a \in Admin : adm[a].pc # "idle" =>
            Excused[a] \subseteq Excused'[a] /\ mac \in Excused'[a]
  BY Touching DEF IInv
<1>5. /\ now' = now /\ records' = records /\ file' = file /\ adm' = adm
      /\ UNCHANGED <<missed, adminHistory>> /\ slice' = slice
  BY DEF repositoryVars, adminVars
<1>6. AA!IInv(Excused)'
  <2>1. \A k \in DOMAIN records :
           /\ records[k].devices \in Devices
           /\ records[k] = [records[k] EXCEPT !.devices = records[k].devices]
    BY <1>2 DEF RecordsOK, RecordOK, Account
  <2>2. \A k \in DOMAIN records : \E devices \in Devices :
           /\ records'[k] = [records[k] EXCEPT !.devices = devices]
           /\ \A a \in Admin : WorksOn(a, k) =>
                 Listed(devices) \subseteq Listed(records[k].devices) \cup Excused'[a]
    BY <1>5, <2>1
  <2>3. /\ adm \in [Admin -> AA!AdminState]
        /\ \A a \in Admin : \E list, shared :
              adm[a] = [adm[a] EXCEPT !.list = list, !.shared = shared]
    <3>1. PICK X : X = Excused
      OBVIOUS
    <3>2. adm \in [Admin -> AA!AdminState]
      BY <3>1, ExcusedIs, Copies DEF IInv
    <3>3. \A a \in Admin :
             adm[a] = [adm[a] EXCEPT !.list = adm[a].list, !.shared = adm[a].shared]
      BY <3>2, Copy
    <3>4. \A a \in Admin : \E list, shared :
             adm[a] = [adm[a] EXCEPT !.list = list, !.shared = shared]
      <4> TAKE a \in Admin
      <4> WITNESS adm[a].list, adm[a].shared
      <4> QED
        BY <3>3
    <3>5. QED
      BY <3>2, <3>4
  <2>4. \A a \in Admin, m \in Mac : adm[a].pc # "idle" =>
           net'[m] <= now \/ net'[m] = net[m] \/ m \in Excused'[a]
    BY <1>3, <1>4
  <2>5. /\ RecordsOK(records') /\ FileOK(file') /\ file' \in {Rows(records'), file, {}}
        /\ DOMAIN records' = DOMAIN records
    BY <1>2, <1>5
  <2>6. /\ adm' \in [Admin -> AA!AdminState]
        /\ \A a \in Admin : \E list, shared :
              adm'[a] = [adm[a] EXCEPT !.list = list, !.shared = shared]
        /\ \A a \in Admin : adm'[a].list = adm[a].list \/ Mac \subseteq Excused'[a]
    <3>1. adm' = adm
      BY <1>5
    <3>2. adm' \in [Admin -> AA!AdminState]
      BY <2>3, <3>1
    <3>3. \A a \in Admin : \E list, shared :
             adm'[a] = [adm[a] EXCEPT !.list = list, !.shared = shared]
      BY <2>3, <3>1, Zenon
    <3>4. \A a \in Admin : adm'[a].list = adm[a].list
      BY <3>1
    <3>5. QED
      BY <3>2, <3>3, <3>4, Zenon
  <2>7. \A a \in Admin : adm[a].pc # "idle" => Excused[a] \subseteq Excused'[a]
    BY <1>4
  <2>8. AA!IInv(Excused)
    BY DEF IInv
  <2>9. QED
    BY <1>2, <1>5, <2>2, <2>4, <2>5, <2>6, <2>7, <2>8, AdminBeside
<1>7. SliceOK'
  BY <1>5 DEF IInv, SliceOK
<1>8. RevokedNow
  BY <1>1, <1>5, LiveAreListed, KeptIsRevokedNow
<1>9. QED
  BY <1>1, <1>4, <1>6, <1>7, <1>8 DEF IInv

LEMMA ReachingStep ==
    ASSUME IInv, NEW r \in Request, NEW outcome \in ControllerOutcome, Reaching(r, outcome)
    PROVE  IInv' /\ RevokedNow
<1>1. /\ P!AuthorizeClient(r, outcome) \/ P!Reconnect(r, outcome)
      /\ Touch(req[r].mac) /\ moved' = moved
      /\ UNCHANGED <<repositoryVars, adminVars, slice>>
  BY DEF Reaching, repositoryVars, P!AuthorizeClient, P!Reconnect, P!repositoryVars
<1>2. req[r].mac \in Mac
  BY <1>1, RequestMac DEF IInv, P!AuthorizeClient, P!Reconnect
<1>3. \/ net' = net
      \/ net' = [net EXCEPT ![req[r].mac] = now + req[r].duration]
  BY <1>1 DEF P!AuthorizeClient, P!Reconnect, P!Ask, P!Authorize, P!Admit
<1>4. PortalMove
  BY <1>1 DEF PortalMove
<1>5. QED
  BY <1>1, <1>2, <1>3, <1>4, LetInStep

LEMMA ArriveStep ==
    ASSUME IInv, NEW q \in underway, Arrive(q)
    PROVE  IInv' /\ RevokedNow
<1>1. /\ P!Arrive(q) /\ Touch(q.mac) /\ moved' = moved
      /\ UNCHANGED <<repositoryVars, adminVars, slice>>
  BY DEF Arrive, repositoryVars, P!Arrive, P!repositoryVars
<1>2. q.mac \in Mac
  BY DEF IInv, PP!IInv, PP!GrantsOK, PP!LateOK, PP!LateState
<1>3. net' = net \/ net' = [net EXCEPT ![q.mac] = now + q.duration]
  BY <1>1 DEF P!Arrive, P!Admit
<1>4. PortalMove
  BY <1>1 DEF PortalMove
<1>5. QED
  BY <1>1, <1>2, <1>3, <1>4, LetInStep

LEMMA PortalProgressStep ==
    ASSUME IInv, NEW r \in Request, PortalProgress(r)
    PROVE  IInv' /\ RevokedNow
<1>1. CASE ValidateCredentials(r)
  BY <1>1, QuietStep
  DEF ValidateCredentials, PortalMove, P!ValidateCredentials, P!repositoryVars, repositoryVars
<1>2. CASE Ending(r)
  BY <1>2, QuietStep
  DEF Ending, PortalMove, accessHistory, repositoryVars, P!repositoryVars,
      P!RejectCredentials, P!RegisterRefused, P!Succeed
<1>3. QED
  BY <1>1, <1>2, RegisterStep, RollbackStep, ReachingStep DEF PortalProgress

LEMMA ArrivalStep ==
    ASSUME IInv, Arrival
    PROVE  IInv' /\ RevokedNow
BY QuietStep
DEF Arrival, PortalMove, accessHistory, repositoryVars, P!repositoryVars, P!Arrival,
    P!ShowLogin, P!FindByMAC, P!Submit, P!SubmitExpired

-----------------------------------------------------------------------------
(* Steps of the administration                                             *)

\* What a step of a request leaves of the logins and of the slices.
LEMMA PortalBesideAdmin ==
    ASSUME PP!IInv, NEW X, AA!IInv(X), AA!IInv(X)', UNCHANGED portalVars,
           NEW a \in Admin, A!AdminArrival(a) \/ A!AdminProgress(a)
    PROVE  PP!IInv'
<1>1. RecordsOK(records') /\ FileOK(file')
  BY AdminRepository
<1>2. /\ now' = now /\ file' \in {Rows(records'), file, {}}
      /\ \A k \in DOMAIN records' :
            \/ Listed(records'[k].devices) = {}
            \/ /\ k \in DOMAIN records /\ records'[k].username = records[k].username
               /\ Listed(records'[k].devices) = Listed(records[k].devices)
      /\ net' \in [Mac -> Nat] /\ \A m \in Mac : net'[m] \in {net[m], 0}
  BY AdminFootprint
<1>3. QED
  BY <1>1, <1>2, PortalBeside

\* A request starts with no device to be excused from.
LEMMA AdminStartStep ==
    ASSUME IInv, NEW a \in Admin, AdminStart(a)
    PROVE  IInv' /\ RevokedNow
<1>1. /\ A!AdminArrival(a) /\ UNCHANGED portalVars
      /\ slice' = [k \in DOMAIN records' |-> IF k \in DOMAIN slice THEN slice[k] ELSE <<>>]
      /\ touched' = [touched EXCEPT ![a] = {}] /\ moved' = moved \ {a}
  BY DEF AdminStart
<1>2. adm[a].pc = "idle"
  BY <1>1 DEF A!AdminArrival, A!StartRotation, A!StartDeletion, A!StartUpdate,
              A!StartCreation, A!CreateEmployee
<1>3. PICK X : X = Excused
  OBVIOUS
<1>4. PICK Y : Y = Excused'
  OBVIOUS
<1>5. AA!IInv(Y)
  <2>1. AA!IInv(X)
    BY <1>3, ExcusedIs DEF IInv
  <2>2. \A b \in Admin : adm[b].pc # "idle" => X[b] \subseteq Y[b]
    BY <1>1, <1>2, <1>3, <1>4 DEF IInv, HistoryOK, Excused
  <2>3. QED
    BY <2>1, <2>2, AA!Excuses, AdminFacts
<1>6. AA!IInv(Y)'
  BY <1>1, <1>5, AdminStep DEF AdminMove
<1>7. PP!IInv'
  BY <1>1, <1>5, <1>6, PortalBesideAdmin DEF IInv
<1>8. /\ \A k \in DOMAIN records' :
            \/ Listed(records'[k].devices) = {}
            \/ k \in DOMAIN records /\ Listed(records'[k].devices) = Listed(records[k].devices)
      /\ \A k \in DOMAIN records : /\ k \in DOMAIN records'
                                   /\ Listed(records'[k].devices) = Listed(records[k].devices)
  BY <1>1, <1>5, AdminFootprint
<1>9. SliceOK'
  BY <1>1, <1>8, EmptySlice DEF IInv, SliceOK
<1>10. HistoryOK'
  BY <1>1 DEF IInv, HistoryOK
<1>11. RevokedNow
  BY <1>8, LiveAreListed, KeptIsRevokedNow DEF IInv
<1>12. QED
  BY <1>4, <1>6, <1>7, <1>9, <1>10, <1>11, ExcusedIs DEF IInv

LEMMA AdminProgressStep ==
    ASSUME IInv, NEW a \in Admin, AdminProgress(a)
    PROVE  IInv' /\ RevokedNow
<1>1. /\ A!AdminProgress(a) /\ UNCHANGED portalVars
      /\ slice' = [k \in DOMAIN records' |->
                      IF Listed(records'[k].devices) = {} THEN <<>> ELSE slice[k]]
      /\ touched' = touched /\ moved' = moved
  BY DEF AdminProgress, accessHistory
<1>2. PICK X : X = Excused
  OBVIOUS
<1>3. AA!IInv(X) /\ X = Excused'
  BY <1>1, <1>2, ExcusedIs DEF IInv, Excused
<1>4. AA!IInv(X)'
  BY <1>1, <1>3, AdminStep DEF AdminMove
<1>5. PP!IInv'
  BY <1>1, <1>3, <1>4, PortalBesideAdmin DEF IInv
<1>6. \A k \in DOMAIN records' :
         \/ Listed(records'[k].devices) = {}
         \/ k \in DOMAIN records /\ Listed(records'[k].devices) = Listed(records[k].devices)
  BY <1>1, <1>3, AdminFootprint
<1>7. SliceOK'
  BY <1>1, <1>6, EmptySlice DEF IInv, SliceOK
<1>8. HistoryOK'
  BY <1>1 DEF IInv, HistoryOK
<1>9. RevokedNow
  <2> SUFFICES ASSUME NEW k \in DOMAIN records, NEW m \in Mac, Stranded(k, m)
               PROVE  \/ m \in missed'
                      \/ \E b \in Admin : ActsOn(b, k) /\ (m \in touched[b] \/ b \in moved)
    BY DEF RevokedNow
  <2>1. /\ m \in Listed(records[k].devices) /\ Online(m)'
        /\ k \notin DOMAIN records' \/ m \notin Listed(records'[k].devices)
    BY LiveAreListed DEF Stranded, IInv
  <2>2. m \in missed' \/ \E b \in Admin : ActsOn(b, k) /\ m \in X[b]
    BY <1>1, <1>3, <2>1, ProgressDropsOffline
  <2>3. QED
    BY <1>2, <2>2 DEF Excused
<1>10. QED
  BY <1>3, <1>4, <1>5, <1>7, <1>8, <1>9, ExcusedIs DEF IInv

\* What a permission that ends leaves of the logins.
LEMMA EndBesidePortal ==
    ASSUME PP!IInv, NEW X, AA!IInv(X), AA!IInv(X)', UNCHANGED portalVars,
           NEW mac \in Mac, A!PermissionEnds(mac)
    PROVE  PP!IInv'
<1>1. RecordsOK(records') /\ FileOK(file')
  BY AdminRepository
<1>2. AA!PermissionEnds(mac)
  BY SameAdminActions
<1>3. AA!Footprint /\ net' \in [Mac -> Nat] /\ \A m \in Mac : net'[m] \in {net[m], 0}
  BY <1>2, AA!EndFootprint, AdminFacts
<1>4. /\ now' = now /\ file' \in {Rows(records'), file, {}}
      /\ \A k \in DOMAIN records' :
            \/ Listed(records'[k].devices) = {}
            \/ /\ k \in DOMAIN records /\ records'[k].username = records[k].username
               /\ Listed(records'[k].devices) = Listed(records[k].devices)
  BY <1>3, AdminNames DEF AA!Footprint
<1>5. QED
  BY <1>1, <1>3, <1>4, PortalBeside

LEMMA PermissionEndsStep ==
    ASSUME IInv, NEW mac \in Mac, PermissionEnds(mac)
    PROVE  IInv' /\ RevokedNow
<1>1. /\ A!PermissionEnds(mac) /\ UNCHANGED portalVars /\ records' = records
      /\ slice' = slice /\ touched' = touched /\ moved' = moved
  BY DEF PermissionEnds, accessHistory, A!PermissionEnds, A!repositoryVars
<1>2. PICK X : X = Excused
  OBVIOUS
<1>3. AA!IInv(X) /\ X = Excused'
  BY <1>1, <1>2, ExcusedIs DEF IInv, Excused
<1>4. AA!IInv(X)'
  BY <1>1, <1>3, AdminStep DEF AdminMove
<1>5. PP!IInv'
  BY <1>1, <1>3, <1>4, EndBesidePortal DEF IInv
<1>6. SliceOK' /\ HistoryOK'
  BY <1>1 DEF IInv, SliceOK, HistoryOK
<1>7. RevokedNow
  BY <1>1, LiveAreListed, KeptIsRevokedNow DEF IInv
<1>8. QED
  BY <1>3, <1>4, <1>5, <1>6, <1>7, ExcusedIs DEF IInv

-----------------------------------------------------------------------------
(* Steps of both                                                           *)

LEMMA ClockStep ==
    ASSUME IInv, Clock
    PROVE  IInv' /\ RevokedNow
<1>1. /\ Tick /\ UNCHANGED <<net, portalVars, adminVars, slice>>
      /\ touched' = touched /\ moved' = moved /\ records' = records
  BY DEF Clock, accessHistory, Tick
<1>2. PP!IInv'
  BY <1>1, PortalStep DEF PortalMove, IInv
<1>3. AA!IInv(Excused)'
  <2>1. PICK X : X = Excused
    OBVIOUS
  <2>2. AA!IInv(X) /\ X = Excused'
    BY <1>1, <2>1, ExcusedIs DEF IInv, Excused
  <2>3. AA!IInv(X)'
    BY <1>1, <2>2, AdminStep DEF AdminMove
  <2>4. QED
    BY <2>2, <2>3, ExcusedIs
<1>4. SliceOK' /\ HistoryOK'
  BY <1>1 DEF IInv, SliceOK, HistoryOK
<1>5. RevokedNow
  BY <1>1, LiveAreListed, KeptIsRevokedNow DEF IInv
<1>6. QED
  BY <1>2, <1>3, <1>4, <1>5 DEF IInv

LEMMA SomeOrderOK ==
    ASSUME NEW recs, NEW order \in SomeOrder(recs), NEW k \in DOMAIN recs
    PROVE  /\ DOMAIN order = DOMAIN recs /\ order[k] \in Seq(Mac)
           /\ ToSet(order[k]) = Listed(recs[k].devices)
<1>1. /\ order \in [DOMAIN recs -> UNION {A!Orders(S) : S \in SUBSET Mac}]
      /\ ToSet(order[k]) = Listed(recs[k].devices)
  BY DEF SomeOrder
<1>2. PICK S \in SUBSET Mac : order[k] \in A!Orders(S)
  BY <1>1
<1>3. QED
  BY <1>1, <1>2, OrdersOK

LEMMA RestartStep ==
    ASSUME IInv, Restart
    PROVE  IInv'
<1>1. /\ P!Restart /\ A!Restart /\ slice' \in SomeOrder(records')
      /\ touched' = [a \in Admin |-> {}] /\ moved' = {}
  BY DEF Restart
<1>2. PP!IInv'
  BY <1>1, PortalStep DEF PortalMove, IInv
<1>3. AA!IInv(Excused)'
  <2>1. PICK X : X = Excused
    OBVIOUS
  <2>2. PICK Y : Y = Excused'
    OBVIOUS
  <2>3. AA!IInv(X) /\ AA!Restart
    BY <1>1, <2>1, ExcusedIs, SameAdminActions DEF IInv
  <2>4. AA!IInv(Y)'
    BY <2>3, AA!RestartStep, AdminFacts
  <2>5. QED
    BY <2>2, <2>4, ExcusedIs
<1>4. SliceOK'
  <2>1. DOMAIN slice' = DOMAIN records'
    BY <1>1 DEF SomeOrder
  <2>2. QED
    BY <1>1, <2>1, SomeOrderOK DEF SliceOK
<1>5. QED
  BY <1>1, <1>2, <1>3, <1>4 DEF IInv, HistoryOK

LEMMA InitStep == Init => IInv
<1> SUFFICES ASSUME Init
             PROVE  IInv
  OBVIOUS
<1>1. /\ P!Init /\ A!AdminInit /\ slice \in SomeOrder(records)
      /\ touched = [a \in Admin |-> {}] /\ moved = {}
  BY DEF Init
<1>2. PP!IInv
  BY <1>1, SamePortalActions, PP!InitStep, PortalFacts
<1>3. AA!IInv(Excused)
  <2>1. AA!IInv(AA!Unexcused)
    BY <1>1, SameAdminInit, AA!InitStep, AdminFacts
  <2>2. AA!Unexcused = Excused
    BY <1>1 DEF AA!Unexcused, Excused
  <2>3. QED
    BY <2>1, <2>2 DEF AA!IInv, AA!RequestsOK
<1>4. SliceOK
  <2>1. DOMAIN slice = DOMAIN records
    BY <1>1 DEF SomeOrder
  <2>2. QED
    BY <1>1, <2>1, SomeOrderOK DEF SliceOK
<1>5. QED
  BY <1>1, <1>2, <1>3, <1>4 DEF IInv, HistoryOK

LEMMA NextStep ==
    ASSUME IInv, [Next]_vars
    PROVE  IInv' /\ (Restart \/ RevokedNow \/ UNCHANGED vars)
<1>1. CASE Next
  <2>1. CASE Restart
    BY <2>1, RestartStep
  <2>2. QED
    BY <1>1, <2>1, ArrivalStep, PortalProgressStep, ArriveStep, AdminStartStep,
       AdminProgressStep, PermissionEndsStep, ClockStep DEF Next
<1>2. CASE UNCHANGED vars
  <2>1. PortalMove /\ UNCHANGED <<repositoryVars, net, adminVars, slice, touched, moved>>
    BY <1>2 DEF vars, accessHistory, PortalMove
  <2>2. QED
    BY <2>1, QuietStep
<1>3. QED
  BY <1>1, <1>2

LEMMA Invariance == Spec => []IInv
BY InitStep, NextStep, PTL DEF Spec

-----------------------------------------------------------------------------
(* The theorems                                                            *)

\* Both services keep the shape of their state while they run together, and the
\* array of a device list names the devices of the record, for any number of
\* logins and administrators (RegisterDevice, RemoveDevice).
THEOREM TypeCorrect == Spec => []TypeOK
<1>1. IInv => TypeOK
  <2> SUFFICES ASSUME IInv
               PROVE  TypeOK
    OBVIOUS
  <2>1. P!TypeOK
    BY PP!Shape, PortalFacts, SamePortalInvariants DEF IInv
  <2>2. A!TypeOK
    <3>1. PICK X : X = Excused
      OBVIOUS
    <3>2. AA!IInv(X)
      BY <3>1, ExcusedIs DEF IInv
    <3>3. QED
      BY <3>2, AA!Shape, AdminFacts, SameAdminActions
  <2>3. QED
    BY <2>1, <2>2 DEF IInv, SliceOK, HistoryOK, TypeOK
<1>2. QED
  BY <1>1, Invariance, PTL

\* Nobody gets onto the network or onto a device list without credentials, also
\* while any number of administrators block, rotate, delete and create accounts
\* (Authenticate, AutoAuthenticate).
THEOREM GrantProvenHolds == Spec => []GrantProven
<1>1. PP!IInv => PP!GrantProven
  BY DEF PP!IInv, PP!GrantsOK, PP!ProvenOK, PP!GrantProven, PP!Trusting, PP!Trusted
<1>2. IInv => GrantProven
  BY <1>1, SamePortalInvariants DEF IInv, GrantProven
<1>3. QED
  BY <1>2, Invariance, PTL

\* No permission outlives the account, as the login saw it, by more than the wait
\* for the controller, whatever administrators make of the account meanwhile
\* (authorizationDuration).
THEOREM GrantWithinAccountHolds == Spec => []GrantWithinAccount
<1>1. PP!IInv => PP!GrantWithinAccount
  BY DEF PP!IInv, PP!GrantsOK, PP!GrantWithinAccount
<1>2. IInv => GrantWithinAccount
  BY <1>1, SamePortalInvariants DEF IInv, GrantWithinAccount
<1>3. QED
  BY <1>2, Invariance, PTL

\* Every connection belongs to a device that logged in or to a login under way,
\* while any number of administrators are at work (Authenticate).
THEOREM SlotJustifiedHolds == Spec => []SlotJustified
<1>1. PP!IInv => PP!SlotJustified
  BY DEF PP!IInv, PP!SlotsOK, PP!Claims, PP!SlotJustified, PP!Trusting, PP!Trusted
<1>2. IInv => SlotJustified
  BY <1>1, SamePortalInvariants DEF IInv, SlotJustified
<1>3. QED
  BY <1>2, Invariance, PTL

\* The promises of each service that the other could break are kept while any
\* number of logins and administrators meet: a session that has logged in is
\* accepted by no later request, a resident's password has been delivered, and the
\* one last reported is in force (Authenticate, Create, ChangePassword, Update).
THEOREM PromisesKept ==
    Spec => [](P!NoLateReplay /\ A!EveryPasswordDelivered /\ A!RotationSticks)
<1>1. IInv => P!NoLateReplay
  <2>1. PP!IInv => PP!NoLateReplay
    BY DEF PP!IInv, PP!RequestsOK, PP!ReqOK, PP!NoLateReplay
  <2>2. QED
    BY <2>1, SamePortalInvariants DEF IInv
<1>2. IInv => A!EveryPasswordDelivered /\ A!RotationSticks
  <2> SUFFICES ASSUME IInv
               PROVE  A!EveryPasswordDelivered /\ A!RotationSticks
    OBVIOUS
  <2>1. PICK X : X = Excused
    OBVIOUS
  <2>2. AA!IInv(X)
    BY <2>1, ExcusedIs DEF IInv
  <2>3. AA!EveryPasswordDelivered /\ AA!RotationSticks
    BY <2>2, AA!Promises, AdminFacts
  <2>4. QED
    BY <2>3 DEF A!EveryPasswordDelivered, AA!EveryPasswordDelivered, A!RotationSticks,
                AA!RotationSticks
<1>3. QED
  BY <1>1, <1>2, Invariance, PTL

\* A device that an administration request takes off the list while it is on the
\* network came in behind that request's back, or the request walked a list that
\* a failed login had moved, or a revocation that left the device alone had been
\* reported as done, for any number of logins and administrators and whatever
\* calls fail, come late or do nothing (Update, ChangePassword, Delete, revokeAll,
\* RemoveDevice).
THEOREM RevokedUnlessTouchedHolds == Spec => RevokedUnlessTouched
<1>1. IInv /\ [Next]_vars =>
         [Restart \/ \A k \in DOMAIN records, m \in Mac : Stranded(k, m) =>
             \/ \E r \in Request : req[r].pc = "refused" /\ req[r].mac = m /\ req' # req
             \/ \E a \in Admin : ActsOn(a, k) /\ (m \in touched[a] \/ a \in moved)
             \/ m \in missed']_vars
  BY NextStep DEF RevokedNow
<1>2. QED
  BY <1>1, Invariance, PTL DEF Spec, RevokedUnlessTouched
=============================================================================
