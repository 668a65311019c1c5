---------------------------- MODULE AccountAdmin ----------------------------
(***************************************************************************)
(* The account administration behind /admin/internet-accounts.  Blocking,  *)
(* rotating a password and deleting all start from a copy of the account,  *)
(* disconnect the devices of that copy one controller call at a time, and  *)
(* only then change the record; creating and rotating mail the password to *)
(* the resident in between.  Several administrators may be at work, and a  *)
(* request whose client goes away fails at its next repository call.       *)
(***************************************************************************)
EXTENDS NetworkController, Sequences

CONSTANTS
    Admin,           \* slots for administration requests served at once
    NotifyOutcome,   \* outcomes of mailing a password, as for the controller
    AdminExpiry,     \* expiry dates an administrator may send, 0 for none
    NoAccount, NoPassword

ASSUME AdminAssumption ==
    /\ NotifyOutcome \subseteq {"done", "failed", "lostReply"}
    /\ AdminExpiry \subseteq Nat

VARIABLES
    adm,         \* the administration requests being served
    missed,      \* history: devices left on the network by a revocation that was
                 \* reported as done
    issuedIds,   \* history: ids given to accounts so far
    drawn,       \* history: passwords generated so far
    mailed,      \* history: (username, password) pairs that reached a resident
    told,        \* history: id to the password of the last creation or rotation
                 \* reported as successful, until a write fails or two requests
                 \* meet on the account
    inherited    \* history: accounts loaded from the file

adminHistory == <<issuedIds, drawn, mailed, told, inherited>>
adminVars == <<adm, missed, adminHistory>>
vars == <<repositoryVars, net, adminVars>>

IdleAdmin == [pc |-> "idle", op |-> "none", account |-> NoAccount, list |-> <<>>,
              next |-> 1, target |-> NoAccount, shared |-> FALSE, alone |-> TRUE,
              password |-> NoPassword]

-----------------------------------------------------------------------------
\* A device list in the order of its slice, which is that of registration.
Orders(S) ==
    {list \in [1 .. Cardinality(S) -> S] : \A i, j \in DOMAIN list :
                                              list[i] = list[j] => i = j}

\* What follows once every device of the copy has been disconnected.
AfterRevocation(q) ==
    CASE q.op = "delete" -> "deleting"
      [] q.op = "update" -> "clearing"
      [] q.op = "rotate" /\ q.account.kind = "resident" -> "notifying"
      [] q.op = "rotate" /\ q.account.kind = "employee" -> "replacing"

\* One turn of the loop of revokeAll: read the next device, or leave the loop.
NextDevice(q) ==
    IF q.next <= Len(q.list)
    THEN [q EXCEPT !.pc = "revoking", !.target = q.list[q.next], !.next = @ + 1]
    ELSE [q EXCEPT !.pc = AfterRevocation(q), !.target = NoAccount]

\* The requests that have read account k; its device list is the very slice the
\* record holds.
Reading(op, k) ==
    {[IdleAdmin EXCEPT !.op = op, !.account = records[k], !.list = list,
                       !.shared = TRUE] : list \in Orders(Listed(records[k].devices))}

Become(a, q) == adm' = [adm EXCEPT ![a] = q]

\* Request a starts with q on an account that others may be at work on.
Enter(a, q) ==
    LET k == q.account.id
        others == {b \in Admin \ {a} : adm[b].pc # "idle" /\ adm[b].account.id = k}
    IN /\ adm' = [b \in Admin |->
                     IF b = a THEN [q EXCEPT !.alone = others = {}]
                     ELSE [adm[b] EXCEPT !.alone = @ /\ b \notin others]]
       /\ told' = IF others = {} THEN told ELSE WithoutRecord(told, k)

-----------------------------------------------------------------------------
StartRotation(a, k) ==
    /\ adm[a].pc = "idle"
    /\ \E q \in Reading("rotate", k) : Enter(a, NextDevice(q))
    /\ UNCHANGED <<repositoryVars, net, missed, issuedIds, drawn, mailed, inherited>>

StartDeletion(a, k) ==
    /\ adm[a].pc = "idle"
    /\ \E q \in Reading("delete", k) : Enter(a, NextDevice(q))
    /\ UNCHANGED <<repositoryVars, net, missed, issuedIds, drawn, mailed, inherited>>

\* The new state of the account bars its owner.
Bars(u, t) == ~u.enabled \/ (u.expires # 0 /\ u.expires <= t)

\* Employees have no apartment, and Update refuses them.
StartUpdate(a, k, enabled, expires) ==
    /\ adm[a].pc = "idle"
    /\ records[k].apartment # NoApartment
    /\ \E q \in Reading("update", k) :
          LET u == [q.account EXCEPT !.enabled = enabled, !.expires = expires,
                                     !.max = ResidentLimit]
              r == [q EXCEPT !.account = u]
          IN Enter(a, IF Bars(u, now) /\ r.list # <<>>
                       THEN NextDevice(r)
                       ELSE [r EXCEPT !.pc = "updating"])
    /\ UNCHANGED <<repositoryVars, net, missed, issuedIds, drawn, mailed, inherited>>

\* What a revocation of mac did, against what was said of it.
RecordRevocation(mac, outcome) ==
    missed' = IF outcome = "missed" /\ net[mac] # 0 THEN missed \cup {mac}
              ELSE IF Applied(outcome) THEN missed \ {mac}
              ELSE missed

\* Mutant of RevokeDevice: errors of the controller are passed over.
RevokeDeviceAnyway(a, outcome) ==
    /\ adm[a].pc = "revoking"
    /\ Revoke(adm[a].target, outcome)
    /\ RecordRevocation(adm[a].target, outcome)
    /\ Become(a, NextDevice(adm[a]))
    /\ UNCHANGED <<repositoryVars, adminHistory>>

\* A controller error ends the request before the record is touched.
RevokeDevice(a, outcome) ==
    /\ adm[a].pc = "revoking"
    /\ Revoke(adm[a].target, outcome)
    /\ RecordRevocation(adm[a].target, outcome)
    /\ Become(a, IF ReportedDone(outcome) THEN NextDevice(adm[a]) ELSE IdleAdmin)
    /\ UNCHANGED <<repositoryVars, adminHistory>>

Fresh(password) == password \in Password \ drawn

\* A resident gets the new password by mail before it is in force.
Notify(a, password, outcome) ==
    /\ adm[a].pc = "notifying"
    /\ Fresh(password)
    /\ drawn' = drawn \cup {password}
    /\ mailed' = IF Applied(outcome)
                 THEN mailed \cup {<<adm[a].account.username, password>>} ELSE mailed
    /\ Become(a, IF outcome = "done"
                 THEN [adm[a] EXCEPT !.pc = "replacing", !.password = password]
                 ELSE IdleAdmin)
    /\ UNCHANGED <<repositoryVars, net, missed, issuedIds, told, inherited>>

\* An employee's new password is drawn here and returned to the administrator.
Replace(a, password, outcome) ==
    LET k == adm[a].account.id
    IN /\ adm[a].pc = "replacing"
       /\ IF adm[a].account.kind = "resident" THEN password = adm[a].password
                                              ELSE Fresh(password)
       /\ ReplacePasswordAndClearDevices(k, password, outcome)
       /\ drawn' = drawn \cup {password}
       /\ told' = CASE outcome # "saved" -> WithoutRecord(told, k)
                    [] outcome = "saved" /\ adm[a].alone -> WithRecord(told, k, password)
                    [] OTHER -> told
       /\ Become(a, IdleAdmin)
       /\ UNCHANGED <<net, missed, issuedIds, mailed, inherited>>

\* Mutant of Clear: the devices are cleared together with the password.
ClearPassword(a, outcome) ==
    LET u == adm[a].account
    IN /\ adm[a].pc = "clearing"
       /\ ReplacePasswordAndClearDevices(u.id, adm[a].password, outcome)
       /\ Become(a, IF outcome = "saved" THEN [adm[a] EXCEPT !.pc = "updating"]
                                         ELSE IdleAdmin)
       /\ UNCHANGED <<net, missed, adminHistory>>

\* Update clears the devices together with the password of its own copy.
Clear(a, outcome) ==
    LET u == adm[a].account
    IN /\ adm[a].pc = "clearing"
       /\ ReplacePasswordAndClearDevices(u.id, u.password, outcome)
       /\ Become(a, IF outcome = "saved" THEN [adm[a] EXCEPT !.pc = "updating"]
                                         ELSE IdleAdmin)
       /\ UNCHANGED <<net, missed, adminHistory>>

ApplyUpdate(a, outcome) ==
    /\ adm[a].pc = "updating"
    /\ Update(adm[a].account, outcome)
    /\ Become(a, IdleAdmin)
    /\ UNCHANGED <<net, missed, adminHistory>>

DeleteRecord(a, outcome) ==
    LET k == adm[a].account.id
    IN /\ adm[a].pc = "deleting"
       /\ Delete(k, outcome)
       /\ told' = WithoutRecord(told, k)
       /\ Become(a, IdleAdmin)
       /\ UNCHANGED <<net, missed, issuedIds, drawn, mailed, inherited>>

-----------------------------------------------------------------------------
\* The apartment is registered in the residents directory.
StartCreation(a, apartment, id, password) ==
    /\ adm[a].pc = "idle"
    /\ apartment \in DOMAIN UsernameOf
    /\ id \in Id \ issuedIds
    /\ Fresh(password)
    /\ Become(a, [IdleAdmin EXCEPT !.pc = "creating", !.op = "create",
                      !.account = NewResident(id, apartment, password, now)])
    /\ issuedIds' = issuedIds \cup {id}
    /\ drawn' = drawn \cup {password}
    /\ UNCHANGED <<repositoryVars, net, missed, mailed, told, inherited>>

CreateRecord(a, outcome) ==
    LET u == adm[a].account
    IN /\ adm[a].pc = "creating"
       /\ Create(u, outcome)
       /\ told' = IF outcome = "saved" THEN WithRecord(told, u.id, u.password) ELSE told
       /\ Become(a, IF outcome = "saved" THEN [adm[a] EXCEPT !.pc = "mailing"]
                                         ELSE IdleAdmin)
       /\ UNCHANGED <<net, missed, issuedIds, drawn, mailed, inherited>>

\* Mutant of MailNew: an account whose mail failed is left in place.
MailNewWithoutUndo(a, outcome) ==
    LET u == adm[a].account
    IN /\ adm[a].pc = "mailing"
       /\ mailed' = IF Applied(outcome)
                    THEN mailed \cup {<<u.username, u.password>>} ELSE mailed
       /\ Become(a, IdleAdmin)
       /\ UNCHANGED <<repositoryVars, net, missed, issuedIds, drawn, told, inherited>>

\* An account whose password could not be mailed is taken back.
MailNew(a, outcome) ==
    LET u == adm[a].account
    IN /\ adm[a].pc = "mailing"
       /\ mailed' = IF Applied(outcome)
                    THEN mailed \cup {<<u.username, u.password>>} ELSE mailed
       /\ Become(a, IF outcome = "done" THEN IdleAdmin
                                        ELSE [adm[a] EXCEPT !.pc = "undoing"])
       /\ UNCHANGED <<repositoryVars, net, missed, issuedIds, drawn, told, inherited>>

\* The undo runs on a context of its own, and its result is ignored.
Undo(a, outcome) ==
    LET k == adm[a].account.id
    IN /\ adm[a].pc = "undoing"
       /\ IF k \in DOMAIN records THEN Delete(k, outcome)
                                  ELSE outcome = "saved" /\ UNCHANGED repositoryVars
       /\ told' = WithoutRecord(told, k)
       /\ Become(a, IdleAdmin)
       /\ UNCHANGED <<net, missed, issuedIds, drawn, mailed, inherited>>

\* The employee chooses the password.
CreateEmployee(a, id, name, password, outcome) ==
    LET u == NewEmployee(id, name, password, now)
    IN /\ adm[a].pc = "idle"
       /\ id \in Id \ issuedIds
       /\ Create(u, outcome)
       /\ issuedIds' = issuedIds \cup {id}
       /\ drawn' = drawn \cup {password}
       /\ told' = IF outcome = "saved" THEN WithRecord(told, id, password) ELSE told
       /\ UNCHANGED <<net, missed, adm, mailed, inherited>>

\* Mutant of Abandon: an account that has gone meanwhile is waited for.
AbandonCreationOnly(a) ==
    /\ adm[a].pc \in {"notifying", "creating"}
    /\ Become(a, IdleAdmin)
    /\ UNCHANGED <<repositoryVars, net, missed, adminHistory>>

\* No password could be drawn, or the repository refuses the operation: the
\* client has gone away and the context is cancelled, the account is gone, or
\* the new one is taken.
Abandon(a) ==
    /\ adm[a].pc \in {"notifying", "creating", "replacing", "clearing", "updating",
                     "deleting"}
    /\ Become(a, IdleAdmin)
    /\ UNCHANGED <<repositoryVars, net, missed, adminHistory>>

Restart ==
    /\ Reload
    /\ adm' = [a \in Admin |-> IdleAdmin]
    /\ inherited' = DOMAIN records'
    /\ told' = [k \in DOMAIN told \cap DOMAIN records' |-> records'[k].password]
    /\ UNCHANGED <<net, missed, issuedIds, drawn, mailed>>

Clock == Tick /\ UNCHANGED <<net, adminVars>>

\* A revocation that was given up is applied after all, or a permission ends.
PermissionEnds(mac) ==
    /\ Lapse(mac)
    /\ missed' = missed \ {mac}
    /\ UNCHANGED <<repositoryVars, adm, adminHistory>>

-----------------------------------------------------------------------------
AdminInit ==
    /\ adm = [a \in Admin |-> IdleAdmin]
    /\ missed = {}
    /\ issuedIds = DOMAIN records \cup Username
    /\ drawn = {records[k].password : k \in DOMAIN records}
    /\ mailed = {}
    /\ told = [k \in {} |-> NoPassword]
    /\ inherited = DOMAIN records

Init == RepositoryInit /\ NetInit /\ AdminInit

AdminArrival(a) ==
    \/ \E k \in DOMAIN records :
          \/ StartRotation(a, k)
          \/ StartDeletion(a, k)
          \/ \E enabled \in BOOLEAN, expires \in AdminExpiry :
                StartUpdate(a, k, enabled, expires)
    \/ \E apartment \in DOMAIN UsernameOf, id \in Id, password \in Password :
          StartCreation(a, apartment, id, password)
    \/ \E id \in Id, name \in Username, password \in Password, outcome \in PersistOutcome :
          CreateEmployee(a, id, name, password, outcome)

AdminProgress(a) ==
    \/ \E outcome \in ControllerOutcome : RevokeDevice(a, outcome)
    \/ \E outcome \in NotifyOutcome :
          \/ MailNew(a, outcome)
          \/ \E password \in Password : Notify(a, password, outcome)
    \/ \E outcome \in PersistOutcome :
          \/ Clear(a, outcome)
          \/ ApplyUpdate(a, outcome)
          \/ DeleteRecord(a, outcome)
          \/ CreateRecord(a, outcome)
          \/ Undo(a, outcome)
          \/ \E password \in Password : Replace(a, password, outcome)
    \/ Abandon(a)

Next ==
    \/ \E a \in Admin : AdminArrival(a) \/ AdminProgress(a)
    \/ \E mac \in Mac : PermissionEnds(mac)
    \/ Restart
    \/ Clock

Spec == Init /\ [][Next]_vars

\* Every request has a goroutine of its own that runs on, and every call it makes
\* returns, with whatever outcome: the repository never waits for anything while
\* it holds its lock, and calls to the controller and the mail service time out.
FairSpec == Spec /\ \A a \in Admin : WF_vars(AdminProgress(a))

-----------------------------------------------------------------------------
AdminState ==
    [pc       : {"idle", "revoking", "notifying", "replacing", "clearing", "updating",
                 "deleting", "creating", "mailing", "undoing"},
     op       : {"none", "rotate", "delete", "update", "create"},
     account  : Account \cup {NoAccount},
     list     : Seq(Mac),
     next     : Nat,
     target   : Mac \cup {NoAccount},
     shared   : BOOLEAN,
     alone    : BOOLEAN,
     password : Password \cup {NoPassword}]

\* The state of repository, controller and requests has the expected shape; in
\* particular no record is ever left without a password (Update, ChangePassword).
TypeOK ==
    /\ RepositoryTypeOK
    /\ NetTypeOK
    /\ adm \in [Admin -> AdminState]
    /\ missed \subseteq Mac
    /\ issuedIds \subseteq Id
    /\ drawn \subseteq Password
    /\ mailed \subseteq Username \X Password
    /\ DOMAIN told \subseteq issuedIds /\ \A k \in DOMAIN told : told[k] \in Password
    /\ inherited \subseteq issuedIds

\* A device leaves the list of its account only when it is no longer on the
\* network, or when the controller client said so of it and was wrong, whichever
\* of the controller calls, writes and mails before it fail and whatever a second
\* administrator does meanwhile (Update, ChangePassword, Delete, revokeAll).
\* Restarting is left out: it goes back to the file.
RevokedBeforeCleared ==
    [][Restart \/ \A k \in DOMAIN records, m \in Mac :
          /\ m \in Listed(records[k].devices)
          /\ k \notin DOMAIN records' \/ m \notin Listed(records'[k].devices)
          => ~Online(m)' \/ m \in missed']_vars

\* Every resident account that this process created can be used by somebody:
\* its password reached the resident, unless its creation is still under way
\* and will either mail it or take the account back (Create, ChangePassword).
EveryPasswordDelivered ==
    \A k \in DOMAIN records \ inherited :
        \/ records[k].kind = "employee"
        \/ <<records[k].username, records[k].password>> \in mailed
        \/ \E a \in Admin : adm[a].pc \in {"mailing", "undoing"} /\ adm[a].account.id = k

\* The password of an account is the one its last successful creation or rotation
\* produced, as long as no two requests met on the account and no rotation failed
\* to be written; those two do lose passwords (Update, ChangePassword).
RotationSticks ==
    \A k \in DOMAIN told \cap DOMAIN records : records[k].password = told[k]

\* Every administration request comes to an end, whichever calls fail on the way,
\* also when another request deletes its account, rotates or blocks it, or creates
\* it again under it (Create, Update, ChangePassword, Delete).
EveryAdminRequestAnswered ==
    \A a \in Admin : adm[a].pc # "idle" ~> adm[a].pc = "idle"
=============================================================================
