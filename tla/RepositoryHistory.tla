-------------------------- MODULE RepositoryHistory --------------------------
(***************************************************************************)
(* The repository under the calls the two services make of it, with a      *)
(* record of what its callers were told.  One administrator request at a   *)
(* time may hold a copy of an account it read earlier (AccountService's    *)
(* Update), which the other operations make stale.                         *)
(*                                                                         *)
(* A crash inside an operation leaves the file as one of the outcomes of   *)
(* the write would, and is that outcome followed by Restart.               *)
(***************************************************************************)
EXTENDS UserRepository

CONSTANTS
    Expiry     \* expiry dates an administrator or a login may pass

ASSUME ExpiryAssumption == Expiry \subseteq Nat

VARIABLES
    copy,      \* the copy an Update in progress took of its account, if any
    issued,    \* history: every id given to an account so far
    acked,     \* history: id to the record as the last successful operation
               \* on it left it, until an operation on it fails
    refused,   \* history: ids of the accounts whose creation failed
    deleted,   \* history: ids whose deletion succeeded
    torn       \* history: a write has lost the file

historyVars == <<copy, issued, acked, refused, deleted, torn>>
vars == <<repositoryVars, historyVars>>

-----------------------------------------------------------------------------
Init ==
    /\ RepositoryInit
    /\ copy = {}
    /\ issued = DOMAIN records \cup Username
    /\ acked = [k \in {} |-> 0]
    /\ refused = {}
    /\ deleted = {}
    /\ torn = FALSE

\* The caller of an operation on account k learns its outcome.
Report(k, outcome) ==
    /\ acked' = IF outcome = "saved" THEN WithRecord(acked, k, records'[k])
                                     ELSE WithoutRecord(acked, k)
    /\ torn' = (torn \/ outcome = "lost")

CreateAccount(u, outcome) ==
    /\ Create(u, outcome)
    /\ issued' = issued \cup {u.id}
    /\ refused' = IF outcome = "saved" THEN refused ELSE refused \cup {u.id}
    /\ IF outcome = "saved" THEN Report(u.id, outcome)
                            ELSE acked' = acked /\ torn' = (torn \/ outcome = "lost")
    /\ UNCHANGED <<copy, deleted>>

\* Ids are random, so a new one is never that of an earlier account.
CreateResident(outcome) ==
    \E id \in Id \ issued, apartment \in DOMAIN UsernameOf, password \in Password :
        CreateAccount(NewResident(id, apartment, password, now), outcome)

CreateEmployee(outcome) ==
    \E id \in Id \ issued, name \in Username, password \in Password :
        CreateAccount(NewEmployee(id, name, password, now), outcome)

Register(outcome) ==
    \E name \in Username, mac \in Mac, until \in Expiry \ {0} :
        /\ RegisterDevice(name, mac, until, outcome)
        /\ \E k \in Owner(name) : Report(k, outcome)
        /\ UNCHANGED <<copy, issued, refused, deleted>>

Forget(outcome) ==
    \E name \in Username, mac \in Mac :
        /\ RemoveDevice(name, mac, outcome)
        /\ \E k \in Owner(name) : Report(k, outcome)
        /\ UNCHANGED <<copy, issued, refused, deleted>>

Get(k) ==
    /\ copy' = {records[k]}
    /\ UNCHANGED <<repositoryVars, issued, acked, refused, deleted, torn>>

\* AccountService.Update refuses an account without apartment.
UpdateCopy(outcome) ==
    \E u \in copy, enabled \in BOOLEAN, expires \in Expiry :
        /\ u.apartment # NoApartment
        /\ Update([u EXCEPT !.enabled = enabled, !.expires = expires,
                            !.max = ResidentLimit], outcome)
        /\ Report(u.id, outcome)
        /\ copy' = {}
        /\ UNCHANGED <<issued, refused, deleted>>

RotatePassword(outcome) ==
    \E k \in DOMAIN records, password \in Password :
        /\ ReplacePasswordAndClearDevices(k, password, outcome)
        /\ Report(k, outcome)
        /\ UNCHANGED <<copy, issued, refused, deleted>>

DeleteAccount(outcome) ==
    \E k \in DOMAIN records :
        /\ Delete(k, outcome)
        /\ acked' = WithoutRecord(acked, k)
        /\ torn' = (torn \/ outcome = "lost")
        /\ deleted' = IF outcome = "saved" THEN deleted \cup {k} ELSE deleted
        /\ UNCHANGED <<copy, issued, refused>>

Restart ==
    /\ Reload
    /\ copy' = {}
    /\ UNCHANGED <<issued, acked, refused, deleted, torn>>

Clock == Tick /\ UNCHANGED historyVars

Next ==
    \/ \E outcome \in PersistOutcome :
          \/ CreateResident(outcome)
          \/ CreateEmployee(outcome)
          \/ Register(outcome)
          \/ Forget(outcome)
          \/ UpdateCopy(outcome)
          \/ RotatePassword(outcome)
          \/ DeleteAccount(outcome)
    \/ \E k \in DOMAIN records : Get(k)
    \/ Restart
    \/ Clock

Spec == Init /\ [][Next]_vars

-----------------------------------------------------------------------------
\* Memory, file and the copy of an update hold records of the expected shape,
\* under ids that were really given to accounts (records, load, Get).
TypeOK ==
    /\ RepositoryTypeOK
    /\ copy \subseteq Account
    /\ issued \subseteq Id
    /\ DOMAIN acked \subseteq issued
    /\ \A k \in DOMAIN acked : acked[k] \in Account
    /\ refused \subseteq issued
    /\ deleted \subseteq issued
    /\ torn \in BOOLEAN

\* No account ever trusts more devices than its limit, whatever logins,
\* rollbacks, blocks and restarts happen in between (RegisterDevice).
DeviceLimit ==
    \A k \in DOMAIN records :
        Cardinality(Listed(records[k].devices)) <= records[k].max

\* A username names one account, so the first match that ValidateCredentials,
\* RegisterDevice and RemoveDevice stop at is the only one; no two accounts
\* share an apartment either.
UniqueLogin ==
    \A k, l \in DOMAIN records :
        k # l => /\ records[k].username # records[l].username
                 /\ \/ records[k].apartment = NoApartment
                    \/ records[k].apartment # records[l].apartment

\* row holds what its owner was told of account.  A zero expiry is replaced
\* by a date when the file is next loaded.
Holds(row, account) ==
    /\ row.id = account.id
    /\ row.username = account.username
    /\ row.password = account.password
    /\ row.enabled = account.enabled
    /\ row.devices = account.devices
    /\ account.expires # 0 => row.expires = account.expires

\* What the last successful operation on an account left is in memory and on
\* disk, through restarts and through failed operations on other accounts
\* (persistLocked, load), unless some write has lost the file.
AckedDurable ==
    ~torn => \A k \in DOMAIN acked :
                /\ k \in DOMAIN records /\ Holds(records[k], acked[k])
                /\ \E row \in file : Holds(row, acked[k])

\* An account whose deletion succeeded never comes back, neither from the file
\* nor from the copy an update that was under way had taken (Delete, Update).
DeletedStaysDeleted ==
    /\ DOMAIN records \cap deleted = {}
    /\ \A row \in file : row.id \notin deleted

\* An account whose creation was refused because it could not be stored is not
\* written by a later operation either (Create).
RefusedStaysOut ==
    /\ DOMAIN records \cap refused = {}
    /\ \A row \in file : row.id \notin refused

-----------------------------------------------------------------------------
\* An account whatever its expiry, the one thing that depends on the time of loading.
View(account) == [account EXCEPT !.expires = 0]

Ledger == INSTANCE AccountLedger
    WITH live <- {View(records[k]) : k \in DOMAIN records},
         kept <- {View(Loaded(row, 1)) : row \in file},
         sure <- DOMAIN acked,
         gone <- deleted

\* The map and the file together are the ledger: what success and failure of an
\* operation leave in memory and what a restart makes of it, a deletion that was
\* not written included (persistLocked, load, Create, Delete).
ImplementsLedger == Ledger!Spec
=============================================================================
