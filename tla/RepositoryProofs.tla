-------------------------- MODULE RepositoryProofs --------------------------
(***************************************************************************)
(* What RepositoryHistory promises, for every set of accounts, devices and *)
(* passwords, every limit and every first file.  The argument: memory and  *)
(* file are always two well-formed sets of accounts (RepositoryLemmas), of *)
(* ids that were given out and neither refused nor deleted.                *)
(***************************************************************************)
EXTENDS RepositoryHistory, RepositoryLemmas

-----------------------------------------------------------------------------
(* The inductive invariant                                                 *)

IInv ==
    /\ TypeOK
    /\ RecordsOK(records)
    /\ FileOK(file)
    /\ DOMAIN records \subseteq issued \ (refused \cup deleted)
    /\ FileIds(file) \subseteq issued \ (refused \cup deleted)
    /\ \A u \in copy : /\ RecordOK(u)
                       /\ u.id \in issued
                       /\ u.id \in DOMAIN records => SameAccount(u, records[u.id])
    /\ \A k \in DOMAIN acked : acked[k].id = k
    /\ AckedDurable

-----------------------------------------------------------------------------
(* One lemma for each kind of step                                         *)

\* An operation that changes the account filed under k to a, well formed and of the
\* same identity, and tells its caller the outcome.
Changes(k, a, outcome) ==
    /\ RecordOK(a) /\ SameAccount(a, records[k])
    /\ Commit([records EXCEPT ![k] = a], outcome)
    /\ Report(k, outcome)
    /\ copy' \subseteq copy
    /\ UNCHANGED <<issued, refused, deleted>>

AccountChange(outcome) == \E k \in DOMAIN records, a \in Account : Changes(k, a, outcome)

\* Such an operation keeps the invariant.
LEMMA ChangeStep ==
    ASSUME IInv, NEW outcome, AccountChange(outcome)
    PROVE  IInv'
<1> PICK k \in DOMAIN records, a \in Account : Changes(k, a, outcome)
  BY DEF AccountChange
<1>0. /\ RecordOK(a) /\ SameAccount(a, records[k])
      /\ Commit([records EXCEPT ![k] = a], outcome)
      /\ Report(k, outcome)
      /\ copy' \subseteq copy
      /\ UNCHANGED <<issued, refused, deleted>>
  BY DEF Changes
<1> USE <1>0
<1> DEFINE recs == [records EXCEPT ![k] = a]
<1>1. RecordsOK(records) /\ FileOK(file)
  BY DEF IInv
<1>2. RecordsOK(recs)
  BY <1>1, ReplacedOK
<1>3. /\ DOMAIN recs = DOMAIN records
      /\ recs[k] = a
      /\ \A j \in DOMAIN records : j # k => recs[j] = records[j]
  OBVIOUS
<1>4. records' = recs /\ Persist(recs, outcome) /\ now' = now
  BY DEF Commit
<1> HIDE DEF recs
<1>5. /\ FileOK(file')
      /\ FileIds(file') \subseteq FileIds(file) \cup DOMAIN recs
      /\ outcome \in {"saved", "unsaved", "lost"}
      /\ outcome = "saved" => file' = Rows(recs)
      /\ outcome = "unsaved" => file' = file
  BY <1>1, <1>2, <1>4, WriteOK
<1>6. a \in Account /\ a.id = k
  BY <1>1 DEF RecordOK, RecordsOK, SameAccount
<1>7. /\ acked' = IF outcome = "saved" THEN WithRecord(acked, k, a)
                                       ELSE WithoutRecord(acked, k)
      /\ torn' = (torn \/ outcome = "lost")
  BY <1>3, <1>4 DEF Report
<1>8. /\ DOMAIN acked' \subseteq DOMAIN acked \cup {k}
      /\ outcome # "saved" => DOMAIN acked' = DOMAIN acked \ {k}
      /\ \A j \in DOMAIN acked' : j = k \/ acked'[j] = acked[j]
      /\ \A j \in DOMAIN acked' : j = k => acked'[j] = a
  BY <1>7 DEF WithRecord, WithoutRecord
<1>9. TypeOK'
  <2>1. RepositoryTypeOK'
    <3>1. \A j \in DOMAIN recs : recs[j] \in Account
      BY <1>2 DEF RecordsOK, RecordOK
    <3>2. DOMAIN recs \subseteq Id
      BY <1>2 DEF RecordsOK
    <3>3. file' \subseteq Row
      BY <1>5 DEF FileOK
    <3>4. now \in 1 .. MaxTime
      BY DEF IInv, TypeOK, RepositoryTypeOK
    <3>5. QED
      BY <1>4, <3>1, <3>2, <3>3, <3>4 DEF RepositoryTypeOK
  <2>2. copy' \subseteq Account
    BY DEF IInv, TypeOK
  <2>3. k \in issued
    BY DEF IInv
  <2>4. DOMAIN acked' \subseteq issued'
    BY <1>8, <2>3 DEF IInv, TypeOK
  <2>5. \A j \in DOMAIN acked' : acked'[j] \in Account
    <3>1. \A j \in DOMAIN acked : acked[j] \in Account
      BY DEF IInv, TypeOK
    <3>2. QED
      BY <1>6, <1>7, <3>1 DEF WithRecord, WithoutRecord
  <2>6. torn' \in BOOLEAN
    BY <1>7
  <2>7. issued' \subseteq Id /\ refused' \subseteq issued' /\ deleted' \subseteq issued'
    BY DEF IInv, TypeOK
  <2>8. QED
    BY <2>1, <2>2, <2>4, <2>5, <2>6, <2>7 DEF TypeOK
<1>10. /\ DOMAIN records' \subseteq issued' \ (refused' \cup deleted')
       /\ FileIds(file') \subseteq issued' \ (refused' \cup deleted')
  BY <1>3, <1>4, <1>5 DEF IInv
<1>11. \A u \in copy' : /\ RecordOK(u)
                        /\ u.id \in issued'
                        /\ u.id \in DOMAIN records' => SameAccount(u, records'[u.id])
  BY <1>3, <1>4 DEF IInv, SameAccount
<1>12. \A j \in DOMAIN acked' : acked'[j].id = j
  BY <1>6, <1>7 DEF IInv, WithRecord, WithoutRecord
<1>13. AckedDurable'
  <2>1. SUFFICES ASSUME ~torn', NEW j \in DOMAIN acked'
                 PROVE  /\ j \in DOMAIN records' /\ Holds(records'[j], acked'[j])
                        /\ \E row \in file' : Holds(row, acked'[j])
    BY Zenon DEF AckedDurable
  <2>2. ~torn /\ outcome # "lost"
    BY <1>7, <2>1
  <2>3. CASE j = k
    <3>1. outcome = "saved" /\ file' = Rows(recs)
      BY <1>5, <1>8, <2>3
    <3>2. acked'[j] = a
      BY <1>8, <2>3
    <3>3. a \in file'
      BY <1>3, <3>1 DEF Rows
    <3>4. QED
      BY <1>3, <1>4, <2>3, <3>2, <3>3 DEF Holds
  <2>4. CASE j # k
    <3>1. j \in DOMAIN acked /\ acked'[j] = acked[j]
      BY <1>8, <2>4
    <3>2. /\ j \in DOMAIN records /\ Holds(records[j], acked[j])
          /\ \E row \in file : Holds(row, acked[j])
      BY <2>2, <3>1 DEF IInv, AckedDurable
    <3>3. j \in DOMAIN recs /\ recs[j] = records[j]
      BY <1>3, <2>4, <3>2
    <3>4. CASE outcome = "saved"
      <4>1. recs[j] \in file'
        BY <1>5, <3>3, <3>4 DEF Rows
      <4>2. QED
        BY <1>4, <3>1, <3>2, <3>3, <4>1
    <3>5. CASE outcome = "unsaved"
      BY <1>4, <1>5, <3>1, <3>2, <3>3, <3>5
    <3>6. QED
      BY <1>5, <2>2, <3>4, <3>5
  <2>5. QED
    BY <2>3, <2>4
<1>14. QED
  BY <1>2, <1>4, <1>5, <1>9, <1>10, <1>11, <1>12, <1>13 DEF IInv

\* A username has one owner, so the two searches of an operation meet.
LEMMA OneOwner ==
    ASSUME IInv, NEW name, NEW k \in Owner(name), NEW l \in Owner(name)
    PROVE  k = l
BY DEF IInv, RecordsOK, Compatible, Owner

\* A login registers its device (RegisterDevice).
LEMMA RegisterChanges ==
    ASSUME IInv, NEW outcome, Register(outcome)
    PROVE  AccountChange(outcome)
<1>1. PICK name \in Username, mac \in Mac, until \in Expiry \ {0} :
         /\ RegisterDevice(name, mac, until, outcome)
         /\ \E k \in Owner(name) : Report(k, outcome)
         /\ UNCHANGED <<copy, issued, refused, deleted>>
  BY DEF Register
<1>2. PICK k \in Owner(name) :
         /\ HasRoom(records[k], mac, now)
         /\ Commit([records EXCEPT ![k].devices =
                       WithDevice(records[k].devices, mac, until, now)], outcome)
  BY <1>1 DEF RegisterDevice
<1>3. Report(k, outcome)
  BY <1>1, OneOwner
<1> DEFINE d == WithDevice(records[k].devices, mac, until, now)
           a == [records[k] EXCEPT !.devices = d]
<1>4. k \in DOMAIN records /\ RecordOK(records[k])
  BY DEF Owner, IInv, RecordsOK
<1>5. records[k] \in Account /\ Cardinality(Listed(records[k].devices)) <= records[k].max
  BY <1>4 DEF RecordOK, WellFormed
<1>6. until \in Nat /\ now \in Nat
  BY ExpiryAssumption, MaxTimeAssumption DEF IInv, TypeOK, RepositoryTypeOK
<1>7. d \in Devices /\ Cardinality(Listed(d)) <= records[k].max
  BY <1>2, <1>5, <1>6, RoomIsEnough
<1> HIDE DEF d
<1>8. records[k].password \in Password
  BY <1>5 DEF Account
<1>9. a = [records[k] EXCEPT !.password = records[k].password, !.devices = d]
  BY <1>5 DEF Account
<1>10. RecordOK(a) /\ SameAccount(a, records[k])
  BY <1>4, <1>7, <1>8, <1>9, SameOwner
<1>11. Commit([records EXCEPT ![k] = a], outcome)
  BY <1>2 DEF d
<1>12. copy' \subseteq copy /\ UNCHANGED <<issued, refused, deleted>>
  BY <1>1
<1> HIDE DEF a
<1>13. QED
  BY <1>3, <1>4, <1>10, <1>11, <1>12 DEF AccountChange, Changes, RecordOK

\* A failed login, or a revocation, takes a device back (RemoveDevice).
LEMMA ForgetChanges ==
    ASSUME IInv, NEW outcome, Forget(outcome)
    PROVE  AccountChange(outcome)
<1>1. PICK name \in Username, mac \in Mac :
         /\ RemoveDevice(name, mac, outcome)
         /\ \E k \in Owner(name) : Report(k, outcome)
         /\ UNCHANGED <<copy, issued, refused, deleted>>
  BY DEF Forget
<1>2. PICK k \in Owner(name) :
         Commit([records EXCEPT ![k].devices = WithoutDevice(records[k].devices, mac)],
                outcome)
  BY <1>1 DEF RemoveDevice
<1>3. Report(k, outcome)
  BY <1>1, OneOwner
<1> DEFINE d == WithoutDevice(records[k].devices, mac)
           a == [records[k] EXCEPT !.devices = d]
<1>4. k \in DOMAIN records /\ RecordOK(records[k])
  BY DEF Owner, IInv, RecordsOK
<1>5. records[k] \in Account /\ Cardinality(Listed(records[k].devices)) <= records[k].max
  BY <1>4 DEF RecordOK, WellFormed
<1>6. /\ records[k].password \in Password /\ records[k].devices \in Devices
      /\ records[k].max \in Nat
  BY <1>5 DEF Account
<1>7. d \in Devices /\ Cardinality(Listed(d)) <= records[k].max
  BY <1>5, <1>6, RemovalIsSafe
<1> HIDE DEF d
<1>8. a = [records[k] EXCEPT !.password = records[k].password, !.devices = d]
  BY <1>5 DEF Account
<1>9. RecordOK(a) /\ SameAccount(a, records[k])
  BY <1>4, <1>6, <1>7, <1>8, SameOwner
<1>10. Commit([records EXCEPT ![k] = a], outcome)
  BY <1>2 DEF d
<1>11. copy' \subseteq copy /\ UNCHANGED <<issued, refused, deleted>>
  BY <1>1
<1> HIDE DEF a
<1>12. QED
  BY <1>3, <1>4, <1>9, <1>10, <1>11 DEF AccountChange, Changes, RecordOK

\* An administrator changes a password (ReplacePasswordAndClearDevices).
LEMMA RotateChanges ==
    ASSUME IInv, NEW outcome, RotatePassword(outcome)
    PROVE  AccountChange(outcome)
<1>1. PICK k \in DOMAIN records, password \in Password :
         /\ Commit([records EXCEPT ![k].password = password,
                                   ![k].devices = NoDevices], outcome)
         /\ Report(k, outcome)
         /\ UNCHANGED <<copy, issued, refused, deleted>>
  BY DEF RotatePassword, ReplacePasswordAndClearDevices
<1> DEFINE a == [records[k] EXCEPT !.password = password, !.devices = NoDevices]
<1>2. RecordOK(records[k]) /\ records[k].max \in Nat
  BY DEF IInv, RecordsOK, RecordOK, Account
<1>3. RecordOK(a) /\ SameAccount(a, records[k])
  <2>1. Cardinality(Listed(NoDevices)) <= records[k].max
    BY <1>2, EmptyList
  <2>2. NoDevices \in Devices
    BY EmptyList
  <2>3. QED
    BY <1>2, <2>1, <2>2, SameOwner
<1>4. Commit([records EXCEPT ![k] = a], outcome)
  BY <1>1
<1>5. copy' \subseteq copy /\ UNCHANGED <<issued, refused, deleted>>
  BY <1>1
<1> HIDE DEF a
<1>6. QED
  BY <1>1, <1>3, <1>4, <1>5 DEF AccountChange, Changes, RecordOK

\* An administrator saves the copy of a resident account that was read earlier
\* (Update): the account may have changed since, its identity has not.
LEMMA UpdateChanges ==
    ASSUME IInv, NEW outcome, UpdateCopy(outcome)
    PROVE  AccountChange(outcome)
<1>1. PICK u \in copy, enabled \in BOOLEAN, expires \in Expiry :
         /\ u.apartment # NoApartment
         /\ Update([u EXCEPT !.enabled = enabled, !.expires = expires,
                             !.max = ResidentLimit], outcome)
         /\ Report(u.id, outcome)
         /\ copy' = {}
         /\ UNCHANGED <<issued, refused, deleted>>
  BY DEF UpdateCopy
<1> DEFINE k == u.id
           a == [u EXCEPT !.enabled = enabled, !.expires = expires,
                          !.max = ResidentLimit,
                          !.password = records[k].password,
                          !.devices = records[k].devices]
<1>2. RecordOK(u) /\ u \in Account /\ u.kind = "resident"
  BY <1>1 DEF IInv, RecordOK, WellFormed, Account
<1>3. k \in DOMAIN records /\ Commit([records EXCEPT ![k] = a], outcome)
  BY <1>1, <1>2 DEF Update, Account
<1>4. /\ RecordOK(records[k]) /\ records[k] \in Account
      /\ SameAccount(u, records[k])
  BY <1>3 DEF IInv, RecordsOK, RecordOK
<1>5. /\ a \in Account
      /\ SameAccount(a, records[k])
      /\ a.kind = "resident" /\ a.max = ResidentLimit
      /\ a.devices = records[k].devices
      /\ a.apartment = records[k].apartment
  BY <1>2, <1>4, ExpiryAssumption, LimitsAssumption DEF Account, SameAccount
<1> HIDE DEF a
<1>6. records[k].kind = "resident"
  BY <1>5 DEF SameAccount
<1>7. RecordOK(a)
  <2>1. LoadedLimit(a) = ResidentLimit /\ LoadedLimit(records[k]) = ResidentLimit
    BY <1>5, <1>6 DEF LoadedLimit
  <2>2. Cardinality(Listed(a.devices)) <= LoadedLimit(a)
    BY <1>4, <1>5, <2>1 DEF RecordOK, WellFormed
  <2>3. a.apartment # NoApartment
    BY <1>4, <1>5, <1>6 DEF RecordOK
  <2>4. QED
    BY <1>5, <2>1, <2>2, <2>3 DEF RecordOK, WellFormed
<1>8. copy' \subseteq copy /\ UNCHANGED <<issued, refused, deleted>>
  BY <1>1
<1> HIDE DEF k
<1>9. Report(k, outcome)
  BY <1>1 DEF k
<1>10. QED
  BY <1>3, <1>5, <1>7, <1>8, <1>9 DEF AccountChange, Changes, RecordOK

\* A new account enters memory and file together or neither (Create).
LEMMA CreateStep ==
    ASSUME IInv, NEW u, RecordOK(u), u.id \in Id \ issued,
           NEW outcome, CreateAccount(u, outcome)
    PROVE  IInv'
<1> DEFINE recs == WithRecord(records, u.id, u)
<1>1. RecordsOK(records) /\ FileOK(file) /\ TypeOK
  BY DEF IInv
<1>2. /\ Available(u)
      /\ records' = IF outcome = "saved" THEN recs ELSE records
      /\ Persist(recs, outcome)
      /\ now' = now
  BY DEF CreateAccount, Create
<1>3. /\ issued' = issued \cup {u.id}
      /\ refused' = IF outcome = "saved" THEN refused ELSE refused \cup {u.id}
      /\ IF outcome = "saved" THEN Report(u.id, outcome)
                              ELSE acked' = acked /\ torn' = (torn \/ outcome = "lost")
      /\ copy' = copy /\ deleted' = deleted
  BY Zenon DEF CreateAccount
<1>4. /\ DOMAIN recs = DOMAIN records \cup {u.id}
      /\ recs[u.id] = u
      /\ \A j \in DOMAIN records : recs[j] = records[j]
  BY <1>2 DEF WithRecord, Available
<1> HIDE DEF recs
<1>5. RecordsOK(recs)
  <2>1. DOMAIN recs \subseteq Id
    BY <1>1, <1>4 DEF RecordsOK
  <2>2. \A j \in DOMAIN recs : RecordOK(recs[j]) /\ recs[j].id = j
    BY <1>1, <1>4 DEF RecordsOK
  <2>3. \A j \in DOMAIN records : Compatible(records[j], u) /\ Compatible(u, records[j])
    BY <1>1, <1>2 DEF RecordsOK, Available, Compatible
  <2>4. \A j, l \in DOMAIN recs : j # l => Compatible(recs[j], recs[l])
    BY <1>1, <1>4, <2>3 DEF RecordsOK
  <2>5. QED
    BY <2>1, <2>2, <2>4 DEF RecordsOK
<1>6. /\ FileOK(file')
      /\ outcome \in {"saved", "unsaved", "lost"}
      /\ outcome = "saved" => file' = Rows(recs) /\ FileIds(file') = DOMAIN recs
      /\ outcome # "saved" => FileIds(file') \subseteq FileIds(file)
      /\ outcome = "unsaved" => file' = file
  BY <1>1, <1>2, <1>5, WriteOK
<1>7. u \in Account
  BY DEF RecordOK
<1>8. RecordsOK(records')
  BY <1>1, <1>2, <1>5
<1>9. outcome = "saved" => acked' = WithRecord(acked, u.id, u) /\ torn' = torn
  BY <1>2, <1>3, <1>4, <1>1 DEF Report, TypeOK
<1>10. outcome # "saved" => acked' = acked /\ torn' = (torn \/ outcome = "lost")
  BY <1>3
<1>11. u.id \notin DOMAIN acked
  BY <1>1 DEF TypeOK
<1>12. TypeOK'
  <2>1. RepositoryTypeOK'
    BY <1>1, <1>2, <1>6, <1>8 DEF TypeOK, RepositoryTypeOK, RecordsOK, RecordOK, FileOK
  <2>2. DOMAIN acked' \subseteq issued' /\ \A j \in DOMAIN acked' : acked'[j] \in Account
    BY <1>1, <1>3, <1>7, <1>9, <1>10 DEF TypeOK, WithRecord
  <2>3. torn' \in BOOLEAN
    BY <1>1, <1>9, <1>10 DEF TypeOK
  <2>4. issued' \subseteq Id /\ refused' \subseteq issued' /\ deleted' \subseteq issued'
    BY <1>1, <1>3 DEF TypeOK
  <2>5. copy' \subseteq Account
    BY <1>1, <1>3 DEF TypeOK
  <2>6. QED
    BY <2>1, <2>2, <2>3, <2>4, <2>5 DEF TypeOK
<1>13. /\ DOMAIN records' \subseteq issued' \ (refused' \cup deleted')
       /\ FileIds(file') \subseteq issued' \ (refused' \cup deleted')
  <2>1. /\ DOMAIN records \subseteq issued \ (refused \cup deleted)
        /\ FileIds(file) \subseteq issued \ (refused \cup deleted)
        /\ refused \subseteq issued /\ deleted \subseteq issued
    BY <1>1 DEF IInv, TypeOK
  <2>2. CASE outcome = "saved"
    BY <1>2, <1>3, <1>4, <1>6, <2>1, <2>2
  <2>3. CASE outcome # "saved"
    BY <1>2, <1>3, <1>6, <2>1, <2>3
  <2>4. QED
    BY <2>2, <2>3
<1>14. \A c \in copy' : /\ RecordOK(c)
                        /\ c.id \in issued'
                        /\ c.id \in DOMAIN records' => SameAccount(c, records'[c.id])
  BY <1>2, <1>3, <1>4 DEF IInv
<1>15. \A j \in DOMAIN acked' : acked'[j].id = j
  BY <1>9, <1>10 DEF IInv, WithRecord
<1>16. AckedDurable'
  <2>1. SUFFICES ASSUME ~torn', NEW j \in DOMAIN acked'
                 PROVE  /\ j \in DOMAIN records' /\ Holds(records'[j], acked'[j])
                        /\ \E row \in file' : Holds(row, acked'[j])
    BY Zenon DEF AckedDurable
  <2>2. ~torn /\ outcome # "lost"
    <3>1. CASE outcome = "saved"
      BY <1>9, <2>1, <3>1
    <3>2. CASE outcome # "saved"
      BY <1>10, <2>1, <3>2
    <3>3. QED
      BY <3>1, <3>2
  <2>3. \A i \in DOMAIN acked : /\ i \in DOMAIN records /\ Holds(records[i], acked[i])
                                /\ \E row \in file : Holds(row, acked[i])
    BY <2>2 DEF IInv, AckedDurable
  <2>4. CASE outcome = "saved"
    <3>1. records' = recs /\ file' = Rows(recs)
      BY <1>2, <1>6, <2>4
    <3>2. /\ j \in DOMAIN recs /\ Holds(recs[j], acked'[j])
      <4>1. CASE j = u.id
        BY <1>4, <1>9, <2>4, <4>1 DEF WithRecord, Holds
      <4>2. CASE j # u.id
        BY <1>4, <1>9, <2>3, <2>4, <4>2 DEF WithRecord
      <4>3. QED
        BY <4>1, <4>2
    <3>3. recs[j] \in file'
      BY <3>1, <3>2 DEF Rows
    <3>4. QED
      BY <3>1, <3>2, <3>3
  <2>5. CASE outcome = "unsaved"
    BY <1>2, <1>6, <1>10, <2>3, <2>5
  <2>6. QED
    BY <1>6, <2>2, <2>4, <2>5
<1>17. QED
  BY <1>6, <1>8, <1>12, <1>13, <1>14, <1>15, <1>16 DEF IInv

\* A deleted account leaves memory, and the file too if the caller is told that
\* it was deleted (Delete).
LEMMA DeleteStep ==
    ASSUME IInv, NEW outcome, DeleteAccount(outcome)
    PROVE  IInv'
<1>1. PICK k \in DOMAIN records :
         /\ Delete(k, outcome)
         /\ acked' = WithoutRecord(acked, k)
         /\ torn' = (torn \/ outcome = "lost")
         /\ deleted' = IF outcome = "saved" THEN deleted \cup {k} ELSE deleted
         /\ UNCHANGED <<copy, issued, refused>>
  BY Zenon DEF DeleteAccount
<1> DEFINE recs == WithoutRecord(records, k)
<1>2. records' = recs /\ Persist(recs, outcome) /\ now' = now
  BY <1>1 DEF Delete, Commit
<1>3. /\ DOMAIN recs = DOMAIN records \ {k}
      /\ \A j \in DOMAIN recs : recs[j] = records[j]
  BY DEF WithoutRecord
<1> HIDE DEF recs
<1>4. RecordsOK(records) /\ FileOK(file) /\ TypeOK
  BY DEF IInv
<1>5. RecordsOK(recs)
  BY <1>3, <1>4 DEF RecordsOK
<1>6. /\ FileOK(file')
      /\ outcome \in {"saved", "unsaved", "lost"}
      /\ outcome = "saved" => file' = Rows(recs) /\ FileIds(file') = DOMAIN recs
      /\ outcome # "saved" => FileIds(file') \subseteq FileIds(file)
      /\ outcome = "unsaved" => file' = file
  BY <1>2, <1>4, <1>5, WriteOK
<1>7. DOMAIN acked' = DOMAIN acked \ {k} /\ \A j \in DOMAIN acked' : acked'[j] = acked[j]
  BY <1>1 DEF WithoutRecord
<1>8. TypeOK'
  <2>1. RepositoryTypeOK'
    BY <1>2, <1>4, <1>5, <1>6
    DEF TypeOK, RepositoryTypeOK, RecordsOK, RecordOK, FileOK
  <2>2. deleted' \subseteq issued'
    BY <1>1 DEF IInv, TypeOK
  <2>3. QED
    BY <1>1, <1>4, <1>7, <2>1, <2>2 DEF TypeOK
<1>9. /\ DOMAIN records' \subseteq issued' \ (refused' \cup deleted')
      /\ FileIds(file') \subseteq issued' \ (refused' \cup deleted')
  <2>1. /\ DOMAIN records \subseteq issued \ (refused \cup deleted)
        /\ FileIds(file) \subseteq issued \ (refused \cup deleted)
    BY DEF IInv
  <2>2. CASE outcome = "saved"
    BY <1>1, <1>2, <1>3, <1>6, <2>1, <2>2
  <2>3. CASE outcome # "saved"
    BY <1>1, <1>2, <1>3, <1>6, <2>1, <2>3
  <2>4. QED
    BY <2>2, <2>3
<1>10. \A c \in copy' : /\ RecordOK(c)
                        /\ c.id \in issued'
                        /\ c.id \in DOMAIN records' => SameAccount(c, records'[c.id])
  BY <1>1, <1>2, <1>3 DEF IInv
<1>11. \A j \in DOMAIN acked' : acked'[j].id = j
  BY <1>7 DEF IInv
<1>12. AckedDurable'
  <2>1. SUFFICES ASSUME ~torn', NEW j \in DOMAIN acked'
                 PROVE  /\ j \in DOMAIN records' /\ Holds(records'[j], acked'[j])
                        /\ \E row \in file' : Holds(row, acked'[j])
    BY Zenon DEF AckedDurable
  <2>2. ~torn /\ outcome # "lost"
    BY <1>1, <2>1
  <2>3. /\ j \in DOMAIN records /\ Holds(records[j], acked[j])
        /\ \E row \in file : Holds(row, acked[j])
    BY <1>7, <2>2 DEF IInv, AckedDurable
  <2>4. j \in DOMAIN recs /\ recs[j] = records[j] /\ acked'[j] = acked[j]
    BY <1>3, <1>7, <2>3
  <2>5. CASE outcome = "saved"
    <3>1. recs[j] \in file'
      BY <1>6, <2>4, <2>5 DEF Rows
    <3>2. QED
      BY <1>2, <2>3, <2>4, <3>1
  <2>6. CASE outcome = "unsaved"
    BY <1>2, <1>6, <2>3, <2>4, <2>6
  <2>7. QED
    BY <1>6, <2>2, <2>5, <2>6
<1>13. QED
  BY <1>2, <1>5, <1>6, <1>8, <1>9, <1>10, <1>11, <1>12 DEF IInv

\* A row that holds what was acknowledged still does so once it is loaded: the
\* date that loading makes up replaces only a missing one.
LEMMA HeldWhenLoaded ==
    ASSUME NEW row \in Row, NEW t \in Nat, NEW a \in Account, Holds(row, a)
    PROVE  Holds(Loaded(row, t), a) /\ Loaded(row, t).id = a.id
<1>1. row.id = a.id /\ a.id # NoId
  BY SharedStrings DEF Holds, Account
<1>2. Loaded(row, t).id = a.id
  BY <1>1, LoadedFields
<1>3. a.expires # 0 => Loaded(row, t).expires = a.expires
  BY LoadedFields DEF Holds
<1>4. QED
  BY <1>2, <1>3, LoadedFields DEF Holds

\* A restart brings back what the file holds (load), and with it everything that
\* was acknowledged.
LEMMA RestartStep ==
    ASSUME IInv, Restart
    PROVE  IInv'
<1>1. /\ records' = Load(file, now) /\ now' = now /\ file' = file
      /\ copy' = {}
      /\ UNCHANGED <<issued, acked, refused, deleted, torn>>
  BY DEF Restart, Reload
<1>2. FileOK(file) /\ TypeOK /\ now \in Nat
  BY MaxTimeAssumption DEF IInv, TypeOK, RepositoryTypeOK
<1>3. /\ DOMAIN records' = FileIds(file)
      /\ \A row \in file : /\ Loaded(row, now).id \in DOMAIN records'
                           /\ records'[Loaded(row, now).id] = Loaded(row, now)
      /\ RecordsOK(records')
  BY <1>1, <1>2, LoadOK
<1>4. TypeOK'
  <2>1. RepositoryTypeOK'
    BY <1>1, <1>2, <1>3 DEF TypeOK, RepositoryTypeOK, RecordsOK, RecordOK
  <2>2. QED
    BY <1>1, <1>2, <2>1 DEF TypeOK
<1>5. /\ DOMAIN records' \subseteq issued' \ (refused' \cup deleted')
      /\ FileIds(file') \subseteq issued' \ (refused' \cup deleted')
  BY <1>1, <1>3 DEF IInv
<1>6. AckedDurable'
  <2>1. SUFFICES ASSUME ~torn, NEW j \in DOMAIN acked
                 PROVE  /\ j \in DOMAIN records' /\ Holds(records'[j], acked[j])
                        /\ \E row \in file : Holds(row, acked[j])
    BY <1>1, Zenon DEF AckedDurable
  <2>2. PICK row \in file : Holds(row, acked[j])
    BY <2>1 DEF IInv, AckedDurable
  <2>3. row \in Row /\ acked[j] \in Account /\ acked[j].id = j
    BY <1>2 DEF FileOK, IInv, TypeOK
  <2>4. Holds(Loaded(row, now), acked[j]) /\ Loaded(row, now).id = j
    BY <1>2, <2>2, <2>3, HeldWhenLoaded
  <2>5. j \in DOMAIN records' /\ records'[j] = Loaded(row, now)
    BY <1>3, <2>4
  <2>6. QED
    BY <2>2, <2>4, <2>5
<1>7. QED
  BY <1>1, <1>2, <1>3, <1>4, <1>5, <1>6 DEF IInv

\* Reading an account, and time passing, change neither memory nor file.
LEMMA QuietStep ==
    ASSUME IInv, UNCHANGED <<records, file, issued, acked, refused, deleted, torn>>,
           now' \in 1 .. MaxTime,
           copy' \subseteq copy \cup {records[k] : k \in DOMAIN records}
    PROVE  IInv'
<1>1. \A u \in copy' : /\ RecordOK(u)
                       /\ u.id \in issued
                       /\ u.id \in DOMAIN records => SameAccount(u, records[u.id])
  BY DEF IInv, RecordsOK, SameAccount
<1>2. copy' \subseteq Account
  BY <1>1 DEF RecordOK
<1>3. TypeOK'
  BY <1>2 DEF IInv, TypeOK, RepositoryTypeOK
<1>4. AckedDurable'
  BY DEF IInv, AckedDurable
<1>5. QED
  BY <1>1, <1>3, <1>4 DEF IInv

-----------------------------------------------------------------------------
(* The invariance argument                                                 *)

LEMMA InitIInv == Init => IInv
<1> SUFFICES ASSUME Init
             PROVE  IInv
  OBVIOUS
<1>1. /\ now = 1 /\ file = InitialFile /\ records = Load(InitialFile, 1)
      /\ copy = {} /\ refused = {} /\ deleted = {} /\ torn = FALSE
      /\ issued = DOMAIN records \cup Username
      /\ DOMAIN acked = {}
  BY DEF Init, RepositoryInit
<1>2. FileOK(file)
  BY <1>1, InitialFileAssumption DEF FileOK
<1>3. RecordsOK(records) /\ DOMAIN records = FileIds(file)
  BY <1>1, <1>2, LoadOK
<1>4. now \in 1 .. MaxTime
  BY <1>1, MaxTimeAssumption
<1>5. issued \subseteq Id
  BY <1>1, <1>3, SharedStrings DEF RecordsOK
<1>6. TypeOK
  BY <1>1, <1>2, <1>3, <1>4, <1>5
  DEF TypeOK, RepositoryTypeOK, RecordsOK, RecordOK, FileOK
<1>7. AckedDurable
  BY <1>1 DEF AckedDurable
<1>8. QED
  BY <1>1, <1>2, <1>3, <1>6, <1>7 DEF IInv

LEMMA NextIInv == IInv /\ [Next]_vars => IInv'
<1> SUFFICES ASSUME IInv, [Next]_vars
             PROVE  IInv'
  OBVIOUS
<1>1. now \in 1 .. MaxTime /\ now \in Nat
  BY MaxTimeAssumption DEF IInv, TypeOK, RepositoryTypeOK
<1>2. ASSUME NEW outcome \in PersistOutcome, CreateResident(outcome)
      PROVE  IInv'
  <2>1. PICK id \in Id \ issued, apartment \in DOMAIN UsernameOf, password \in Password :
           CreateAccount(NewResident(id, apartment, password, now), outcome)
    BY <1>2 DEF CreateResident
  <2> DEFINE u == NewResident(id, apartment, password, now)
  <2>2. RecordOK(u) /\ u.id \in Id \ issued
    BY <1>1, NewAccountsOK
  <2>3. CreateAccount(u, outcome)
    BY <2>1
  <2> HIDE DEF u
  <2>4. QED
    BY <2>2, <2>3, CreateStep
<1>3. ASSUME NEW outcome \in PersistOutcome, CreateEmployee(outcome)
      PROVE  IInv'
  <2>1. PICK id \in Id \ issued, name \in Username, password \in Password :
           CreateAccount(NewEmployee(id, name, password, now), outcome)
    BY <1>3 DEF CreateEmployee
  <2> DEFINE u == NewEmployee(id, name, password, now)
  <2>2. RecordOK(u) /\ u.id \in Id \ issued
    BY <1>1, NewAccountsOK
  <2>3. CreateAccount(u, outcome)
    BY <2>1
  <2> HIDE DEF u
  <2>4. QED
    BY <2>2, <2>3, CreateStep
<1>4. ASSUME NEW outcome \in PersistOutcome,
             \/ Register(outcome)
             \/ Forget(outcome)
             \/ UpdateCopy(outcome)
             \/ RotatePassword(outcome)
             \/ DeleteAccount(outcome)
      PROVE  IInv'
  BY <1>4, RegisterChanges, ForgetChanges, UpdateChanges, RotateChanges, ChangeStep, DeleteStep
<1>5. ASSUME NEW k \in DOMAIN records, Get(k)
      PROVE  IInv'
  <2>1. /\ UNCHANGED <<records, file, issued, acked, refused, deleted, torn>>
        /\ now' = now
        /\ copy' \subseteq copy \cup {records[l] : l \in DOMAIN records}
    BY <1>5 DEF Get, repositoryVars
  <2>2. QED
    BY <1>1, <2>1, QuietStep
<1>6. CASE Restart
  BY <1>6, RestartStep
<1>7. CASE Clock
  <2>1. /\ UNCHANGED <<records, file, issued, acked, refused, deleted, torn>>
        /\ now' \in 1 .. MaxTime
        /\ copy' = copy
    BY <1>1, <1>7, MaxTimeAssumption DEF Clock, Tick, historyVars
  <2>2. QED
    BY <2>1, QuietStep
<1>8. CASE UNCHANGED vars
  <2>1. /\ UNCHANGED <<records, file, issued, acked, refused, deleted, torn>>
        /\ now' = now
        /\ copy' = copy
    BY <1>8 DEF vars, repositoryVars, historyVars
  <2>2. QED
    BY <1>1, <2>1, QuietStep
<1>9. QED
  BY <1>2, <1>3, <1>4, <1>5, <1>6, <1>7, <1>8 DEF Next

\* The inductive invariant holds in every reachable state.
LEMMA Invariance == Spec => []IInv
BY InitIInv, NextIInv, PTL DEF Spec

-----------------------------------------------------------------------------
(* The promises of the repository                                          *)

\* Memory and file hold records of the expected shape, whatever the sequence of
\* operations, failed writes and restarts.
THEOREM TypeCorrect == Spec => []TypeOK
<1>1. IInv => TypeOK
  BY DEF IInv
<1>2. QED
  BY <1>1, Invariance, PTL

\* No account ever trusts more devices than its limit, also after its limit was
\* rewritten by an update made from a stale copy and after any restart
\* (RegisterDevice, Update, load).
THEOREM DeviceLimitHolds == Spec => []DeviceLimit
<1>1. IInv => DeviceLimit
  BY DEF IInv, RecordsOK, RecordOK, WellFormed, DeviceLimit
<1>2. QED
  BY <1>1, Invariance, PTL

\* Two accounts never share a username or an apartment (Create, Update, load).
THEOREM UniqueLoginHolds == Spec => []UniqueLogin
<1>1. IInv => UniqueLogin
  BY DEF IInv, RecordsOK, Compatible, UniqueLogin
<1>2. QED
  BY <1>1, Invariance, PTL

\* What the last successful operation on an account left survives every failed
\* operation on other accounts and every restart, as long as no write has lost
\* the file (persistLocked, load).
THEOREM AckedDurableHolds == Spec => []AckedDurable
<1>1. IInv => AckedDurable
  BY DEF IInv
<1>2. QED
  BY <1>1, Invariance, PTL

\* A row that would bring an account back is filed under that account's id.
LEMMA FiledUnder ==
    ASSUME IInv, NEW row \in file, NEW ids, ids \subseteq Id,
           FileIds(file) \cap ids = {}
    PROVE  row.id \notin ids
<1>1. row \in Row
  BY DEF IInv, FileOK
<1>2. row.id = NoId \/ row.id = Loaded(row, 1).id
  BY <1>1, LoadedFields
<1>3. Loaded(row, 1).id \in FileIds(file)
  BY DEF FileIds
<1>4. QED
  BY <1>2, <1>3, SharedStrings

\* A deleted account never returns, neither by a restart nor by the copy that an
\* update under way had taken (Delete, Update, load).
THEOREM DeletedStaysDeletedHolds == Spec => []DeletedStaysDeleted
<1>1. IInv => DeletedStaysDeleted
  <2> SUFFICES ASSUME IInv
               PROVE  DeletedStaysDeleted
    OBVIOUS
  <2>1. DOMAIN records \cap deleted = {} /\ FileIds(file) \cap deleted = {}
    BY DEF IInv
  <2>2. deleted \subseteq Id
    BY DEF IInv, TypeOK
  <2>3. QED
    BY <2>1, <2>2, FiledUnder DEF DeletedStaysDeleted
<1>2. QED
  BY <1>1, Invariance, PTL

\* An account whose creation failed never appears later (Create).
THEOREM RefusedStaysOutHolds == Spec => []RefusedStaysOut
<1>1. IInv => RefusedStaysOut
  <2> SUFFICES ASSUME IInv
               PROVE  RefusedStaysOut
    OBVIOUS
  <2>1. DOMAIN records \cap refused = {} /\ FileIds(file) \cap refused = {}
    BY DEF IInv
  <2>2. refused \subseteq Id
    BY DEF IInv, TypeOK
  <2>3. QED
    BY <2>1, <2>2, FiledUnder DEF RefusedStaysOut
<1>2. QED
  BY <1>1, Invariance, PTL

-----------------------------------------------------------------------------
(* The repository implements the ledger: a set of records stands for       *)
(* itself once it is written and loaded (KeptRows), so that each kind of   *)
(* step is one of the ledger's.                                            *)


Views(recs) == {View(recs[k]) : k \in DOMAIN recs}

Kept(rows) == {View(Loaded(row, 1)) : row \in rows}

\* A view keeps everything but the expiry.
LEMMA ViewFields ==
    ASSUME NEW a \in Account
    PROVE  /\ View(a).id = a.id /\ View(a).kind = a.kind
           /\ View(a).apartment = a.apartment /\ View(a).username = a.username
BY DEF View, Account

\* Loading changes nothing in a well-formed record but a missing expiry.
LEMMA LoadedView ==
    ASSUME NEW a, RecordOK(a)
    PROVE  View(Loaded(a, 1)) = View(a)
<1>1. a \in Account /\ a \in Row /\ a.id # NoId
  BY SharedStrings DEF RecordOK, Account, Row
<1>2. /\ Loaded(a, 1).id = a.id /\ Loaded(a, 1).kind = a.kind
      /\ Loaded(a, 1).apartment = a.apartment /\ Loaded(a, 1).username = a.username
      /\ Loaded(a, 1).password = a.password /\ Loaded(a, 1).enabled = a.enabled
      /\ Loaded(a, 1).max = a.max /\ Loaded(a, 1).devices = a.devices
  BY <1>1, LoadedFields DEF RecordOK, Account
<1>3. Loaded(a, 1) \in Account
  BY <1>1, LoadedOK DEF RecordOK
<1>4. QED
  BY <1>1, <1>2, <1>3 DEF View, Account

LEMMA KeptRows ==
    ASSUME NEW recs, RecordsOK(recs)
    PROVE  Kept(Rows(recs)) = Views(recs)
<1>1. \A k \in DOMAIN recs : View(Loaded(recs[k], 1)) = View(recs[k])
  BY LoadedView DEF RecordsOK
<1>2. QED
  BY <1>1 DEF Kept, Rows, Views

\* A restart finds what is kept, whenever it is.
LEMMA KeptLoaded ==
    ASSUME NEW rows, FileOK(rows), NEW t \in Nat
    PROVE  Views(Load(rows, t)) = Kept(rows)
<1>1. /\ DOMAIN Load(rows, t) = FileIds(rows)
      /\ \A row \in rows : /\ Loaded(row, t).id \in DOMAIN Load(rows, t)
                           /\ Load(rows, t)[Loaded(row, t).id] = Loaded(row, t)
  BY LoadOK
<1>2. \A row \in rows : /\ View(Loaded(row, t)) = View(Loaded(row, 1))
                        /\ Loaded(row, t).id = Loaded(row, 1).id
  <2> TAKE row \in rows
  <2>1. row \in Row /\ WellFormed(row)
    BY DEF FileOK
  <2>2. RecordOK(Loaded(row, t)) /\ RecordOK(Loaded(row, 1))
        /\ Loaded(row, t).id = Loaded(row, 1).id
    BY <2>1, LoadedOK
  <2>3. /\ Loaded(row, t).kind = Loaded(row, 1).kind
        /\ Loaded(row, t).apartment = Loaded(row, 1).apartment
        /\ Loaded(row, t).username = Loaded(row, 1).username
        /\ Loaded(row, t).password = Loaded(row, 1).password
        /\ Loaded(row, t).enabled = Loaded(row, 1).enabled
        /\ Loaded(row, t).max = Loaded(row, 1).max
        /\ Loaded(row, t).devices = Loaded(row, 1).devices
    BY <2>1, LoadedFields
  <2>4. View(Loaded(row, t)) = View(Loaded(row, 1))
    BY <2>2, <2>3 DEF View, Account, RecordOK
  <2>5. QED
    BY <2>2, <2>4
<1>3. \A k \in FileIds(rows) : \E row \in rows : k = Loaded(row, t).id
  BY <1>2 DEF FileIds
<1>4. QED
  BY <1>1, <1>2, <1>3 DEF Views, Kept

\* A write that did not succeed leaves what was kept, or nothing.
LEMMA KeptWritten ==
    ASSUME NEW recs, RecordsOK(recs), NEW outcome, Persist(recs, outcome)
    PROVE  /\ outcome \in {"saved", "unsaved", "lost"}
           /\ outcome = "saved" => Kept(file') = Views(recs)
           /\ outcome # "saved" => Kept(file') \in {Kept(file), {}}
<1>1. outcome \in {"saved", "unsaved", "lost"}
  BY OutcomeAssumption DEF Persist
<1>2. outcome = "saved" => file' = Rows(recs)
  BY DEF Persist
<1>3. outcome # "saved" => file' = file \/ file' = {}
  BY <1>1 DEF Persist
<1>4. QED
  BY <1>1, <1>2, <1>3, KeptRows DEF Kept

\* The views of different accounts differ, and the ids are those of the records.
LEMMA ViewIds ==
    ASSUME NEW recs, RecordsOK(recs)
    PROVE  /\ \A k \in DOMAIN recs : recs[k] \in Account /\ View(recs[k]).id = k
           /\ \A v \in Views(recs) : \E k \in DOMAIN recs : v = View(recs[k]) /\ v.id = k
<1>1. \A k \in DOMAIN recs : recs[k] \in Account /\ recs[k].id = k
  BY DEF RecordsOK, RecordOK
<1>2. QED
  BY <1>1, ViewFields DEF Views

-----------------------------------------------------------------------------
(* One lemma for each kind of step                                         *)

LEMMA ChangeSeen ==
    ASSUME IInv, NEW outcome, AccountChange(outcome)
    PROVE  Ledger!Change
<1>1. PICK k \in DOMAIN records, a \in Account : Changes(k, a, outcome)
  BY DEF AccountChange
<1> DEFINE recs == [records EXCEPT ![k] = a]
<1>2. /\ RecordOK(a) /\ SameAccount(a, records[k])
      /\ records' = recs /\ Persist(recs, outcome)
      /\ Report(k, outcome)
      /\ UNCHANGED deleted
  BY <1>1 DEF Changes, Commit
<1>3. RecordsOK(records) /\ RecordsOK(recs)
  BY <1>2, ReplacedOK DEF IInv
<1>4. /\ DOMAIN recs = DOMAIN records /\ recs[k] = a
      /\ \A j \in DOMAIN records : j # k => recs[j] = records[j]
  OBVIOUS
<1> HIDE DEF recs
<1>5. Views(recs) = (Views(records) \ {View(records[k])}) \cup {View(a)}
  <2>1. \A j \in DOMAIN records : j # k => View(records[j]) # View(records[k])
    BY <1>3, ViewIds
  <2>2. QED
    BY <1>4, <2>1 DEF Views
<1>6. Views(records)' = Views(recs)
  BY <1>2 DEF Views
<1>7. Ledger!SameIdentity(View(records[k]), View(a)) /\ View(records[k]).id = k
  <2>1. records[k] \in Account
    BY <1>3, ViewIds
  <2>2. QED
    BY <1>2, <1>3, <2>1, ViewFields, ViewIds DEF SameAccount, Ledger!SameIdentity
<1>8. View(records[k]) \in Views(records) /\ View(a) \in Views(records)'
  BY <1>5, <1>6 DEF Views
<1>9. /\ outcome = "saved" => Kept(file)' = Views(records)'
      /\ outcome # "saved" => Kept(file)' \in {Kept(file), {}}
  <2>1. Kept(file)' = Kept(file')
    BY DEF Kept
  <2>2. QED
    BY <1>2, <1>3, <1>6, <2>1, KeptWritten
<1>10. /\ outcome = "saved" => DOMAIN acked' = DOMAIN acked \cup {k}
       /\ outcome # "saved" => DOMAIN acked' = DOMAIN acked \ {k}
  BY <1>2 DEF Report, WithRecord, WithoutRecord
<1>11. Ledger!Succeeds(k) \/ Ledger!Fails(k)
  BY <1>9, <1>10 DEF Ledger!Succeeds, Ledger!Fails, Views, Kept
<1>12. QED
  BY <1>2, <1>5, <1>6, <1>7, <1>8, <1>11 DEF Ledger!Change, Views

LEMMA CreateSeen ==
    ASSUME IInv, NEW u, RecordOK(u), u.id \in Id \ issued,
           NEW outcome, CreateAccount(u, outcome)
    PROVE  Ledger!Insert \/ Ledger!InsertFails
<1> DEFINE recs == WithRecord(records, u.id, u)
<1>1. /\ Available(u)
      /\ records' = IF outcome = "saved" THEN recs ELSE records
      /\ Persist(recs, outcome)
      /\ IF outcome = "saved" THEN Report(u.id, outcome) ELSE acked' = acked
      /\ UNCHANGED deleted
  BY DEF CreateAccount, Create
<1>2. /\ DOMAIN recs = DOMAIN records \cup {u.id} /\ recs[u.id] = u
      /\ \A j \in DOMAIN records : recs[j] = records[j]
  BY <1>1 DEF WithRecord, Available
<1> HIDE DEF recs
<1>3. RecordsOK(records)
  BY DEF IInv
<1>4. RecordsOK(recs)
  <2>1. DOMAIN recs \subseteq Id /\ \A j \in DOMAIN recs : RecordOK(recs[j]) /\ recs[j].id = j
    BY <1>2, <1>3 DEF RecordsOK
  <2>2. \A j \in DOMAIN records : Compatible(records[j], u) /\ Compatible(u, records[j])
    BY <1>1, <1>3 DEF RecordsOK, Available, Compatible
  <2>3. \A j, l \in DOMAIN recs : j # l => Compatible(recs[j], recs[l])
    BY <1>2, <1>3, <2>2 DEF RecordsOK
  <2>4. QED
    BY <2>1, <2>3 DEF RecordsOK
<1>5. Kept(file)' = Kept(file')
  BY DEF Kept
<1>6. CASE outcome = "saved"
  <2>1. records' = recs /\ Kept(file)' = Views(recs)
    BY <1>1, <1>4, <1>5, <1>6, KeptWritten
  <2>2. Views(records)' = Views(recs)
    BY <2>1 DEF Views
  <2>3. Views(recs) = Views(records) \cup {View(u)}
    BY <1>2 DEF Views
  <2>4. View(u).id = u.id /\ View(u).username = u.username
    BY ViewFields DEF RecordOK
  <2>5. Ledger!Fresh(View(u))
    <3>1. u.id \notin deleted
      BY DEF IInv, TypeOK
    <3>2. \A v \in Views(records) : v.id # u.id /\ v.username # u.username
      <4> TAKE v \in Views(records)
      <4>1. PICK k \in DOMAIN records : v = View(records[k]) /\ v.id = k
        BY <1>3, ViewIds
      <4>2. records[k] \in Account
        BY <1>3, ViewIds
      <4>3. QED
        BY <1>1, <4>1, <4>2, ViewFields DEF Available
    <3>3. \A v \in Kept(file) : v.id # u.id
      <4> TAKE v \in Kept(file)
      <4>1. PICK row \in file : v = View(Loaded(row, 1))
        BY DEF Kept
      <4>2. Loaded(row, 1) \in Account
        BY LoadedOK DEF IInv, FileOK, RecordOK
      <4>3. v.id \in FileIds(file)
        BY <4>1, <4>2, ViewFields DEF FileIds
      <4>4. QED
        BY <4>3 DEF IInv
    <3>4. QED
      BY <2>4, <3>1, <3>2, <3>3 DEF Ledger!Fresh, Views, Kept
  <2>6. DOMAIN acked' = DOMAIN acked \cup {u.id}
    BY <1>1, <1>6 DEF Report, WithRecord
  <2>7. Ledger!Succeeds(View(u).id)
    BY <2>1, <2>2, <2>4, <2>6 DEF Ledger!Succeeds, Views, Kept
  <2>8. Ledger!Insert
    BY <1>1, <2>2, <2>3, <2>5, <2>7 DEF Ledger!Insert, Views
  <2>9. QED
    BY <2>8
<1>7. CASE outcome # "saved"
  <2>1. records' = records /\ acked' = acked /\ Kept(file)' \in {Kept(file), {}}
    BY <1>1, <1>4, <1>5, <1>7, KeptWritten
  <2>2. QED
    BY <1>1, <2>1 DEF Ledger!InsertFails, Kept
<1>8. QED
  BY <1>6, <1>7

LEMMA DeleteSeen ==
    ASSUME IInv, NEW outcome, DeleteAccount(outcome)
    PROVE  Ledger!Remove
<1>1. PICK k \in DOMAIN records :
         /\ Delete(k, outcome)
         /\ acked' = WithoutRecord(acked, k)
         /\ deleted' = IF outcome = "saved" THEN deleted \cup {k} ELSE deleted
  BY Zenon DEF DeleteAccount
<1> DEFINE recs == WithoutRecord(records, k)
<1>2. records' = recs /\ Persist(recs, outcome)
  BY <1>1 DEF Delete, Commit
<1>3. /\ DOMAIN recs = DOMAIN records \ {k}
      /\ \A j \in DOMAIN recs : recs[j] = records[j]
  BY DEF WithoutRecord
<1> HIDE DEF recs
<1>4. RecordsOK(records) /\ RecordsOK(recs)
  BY <1>3 DEF IInv, RecordsOK
<1>5. Views(records)' = Views(recs)
  BY <1>2 DEF Views
<1>6. Views(recs) = Views(records) \ {View(records[k])}
  <2>1. \A j \in DOMAIN records : j # k => View(records[j]) # View(records[k])
    BY <1>4, ViewIds
  <2>2. QED
    BY <1>3, <2>1 DEF Views
<1>7. View(records[k]) \in Views(records) /\ View(records[k]).id = k
  BY <1>4, ViewIds DEF Views
<1>8. /\ outcome = "saved" => Kept(file)' = Views(records)'
      /\ outcome # "saved" => Kept(file)' \in {Kept(file), {}}
  <2>1. Kept(file)' = Kept(file')
    BY DEF Kept
  <2>2. QED
    BY <1>2, <1>4, <1>5, <2>1, KeptWritten
<1>9. DOMAIN acked' = DOMAIN acked \ {k}
  BY <1>1 DEF WithoutRecord
<1>10. QED
  BY <1>1, <1>5, <1>6, <1>7, <1>8, <1>9 DEF Ledger!Remove, Views, Kept

LEMMA RestartSeen ==
    ASSUME IInv, Restart
    PROVE  Ledger!Recover
<1>1. records' = Load(file, now) /\ UNCHANGED <<file, acked, deleted>>
  BY DEF Restart, Reload
<1>2. FileOK(file) /\ now \in Nat
  BY MaxTimeAssumption DEF IInv, TypeOK, RepositoryTypeOK
<1>3. Views(Load(file, now)) = Kept(file)
  BY <1>2, KeptLoaded
<1>4. Views(records)' = Views(Load(file, now))
  BY <1>1 DEF Views
<1>5. QED
  BY <1>1, <1>3, <1>4 DEF Ledger!Recover, Views, Kept

LEMMA InitSeen == Init => Ledger!Init
<1> SUFFICES ASSUME Init PROVE Ledger!Init
  OBVIOUS
<1>1. IInv
  BY InitIInv
<1>2. records = Load(file, 1) /\ DOMAIN acked = {} /\ deleted = {}
  BY DEF Init, RepositoryInit
<1>3. Views(records) = Kept(file)
  BY <1>1, <1>2, KeptLoaded DEF IInv
<1>4. \A v, w \in Views(records) : v.id = w.id => v = w
  BY <1>1, ViewIds DEF IInv
<1>5. QED
  BY <1>2, <1>3, <1>4 DEF Ledger!Init, Views, Kept

LEMMA StepSeen ==
    ASSUME IInv, [Next]_vars
    PROVE  Ledger!Next \/ UNCHANGED Ledger!vars
<1>1. ASSUME NEW outcome \in PersistOutcome, CreateResident(outcome)
      PROVE  Ledger!Next
  <2>1. PICK id \in Id \ issued, apartment \in DOMAIN UsernameOf, password \in Password :
           CreateAccount(NewResident(id, apartment, password, now), outcome)
    BY <1>1 DEF CreateResident
  <2> DEFINE u == NewResident(id, apartment, password, now)
  <2>2. RecordOK(u) /\ u.id \in Id \ issued
    BY MaxTimeAssumption, NewAccountsOK DEF IInv, TypeOK, RepositoryTypeOK
  <2>3. CreateAccount(u, outcome)
    BY <2>1
  <2> HIDE DEF u
  <2>4. QED
    BY <2>2, <2>3, CreateSeen DEF Ledger!Next
<1>2. ASSUME NEW outcome \in PersistOutcome, CreateEmployee(outcome)
      PROVE  Ledger!Next
  <2>1. PICK id \in Id \ issued, name \in Username, password \in Password :
           CreateAccount(NewEmployee(id, name, password, now), outcome)
    BY <1>2 DEF CreateEmployee
  <2> DEFINE u == NewEmployee(id, name, password, now)
  <2>2. RecordOK(u) /\ u.id \in Id \ issued
    BY MaxTimeAssumption, NewAccountsOK DEF IInv, TypeOK, RepositoryTypeOK
  <2>3. CreateAccount(u, outcome)
    BY <2>1
  <2> HIDE DEF u
  <2>4. QED
    BY <2>2, <2>3, CreateSeen DEF Ledger!Next
<1>3. ASSUME NEW outcome \in PersistOutcome,
             \/ Register(outcome) \/ Forget(outcome) \/ UpdateCopy(outcome)
             \/ RotatePassword(outcome)
      PROVE  Ledger!Next
  <2>1. AccountChange(outcome)
    BY <1>3, RegisterChanges, ForgetChanges, UpdateChanges, RotateChanges
  <2>2. QED
    BY <2>1, ChangeSeen DEF Ledger!Next
<1>4. ASSUME NEW outcome \in PersistOutcome, DeleteAccount(outcome)
      PROVE  Ledger!Next
  BY <1>4, DeleteSeen DEF Ledger!Next
<1>5. CASE Restart
  BY <1>5, RestartSeen DEF Ledger!Next
<1>6. CASE UNCHANGED <<records, file, acked, deleted>>
  BY <1>6 DEF Ledger!vars
<1>7. CASE (\E k \in DOMAIN records : Get(k)) \/ Clock \/ UNCHANGED vars
  BY <1>6, <1>7 DEF Get, Clock, Tick, vars, repositoryVars, historyVars
<1>8. QED
  BY <1>1, <1>2, <1>3, <1>4, <1>5, <1>7 DEF Next

\* The repository is the ledger: an operation touches one account and keeps its
\* identity, success means that everything in memory is on disk, failure means at
\* most one change in memory that is not, and a restart brings back what was kept
\* (Create, Update, Delete, persistLocked, load).
THEOREM LedgerImplemented == Spec => ImplementsLedger
<1>1. IInv /\ [Next]_vars => [Ledger!Next]_Ledger!vars
  BY StepSeen
<1>2. QED
  BY <1>1, InitSeen, Invariance, PTL DEF Spec, ImplementsLedger, Ledger!Spec
=============================================================================
