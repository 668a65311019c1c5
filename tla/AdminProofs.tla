------------------------------ MODULE AdminProofs ------------------------------
(***************************************************************************)
(* Theorems about the administration service, for any number of            *)
(* administrators, accounts and devices.                                   *)
(*                                                                         *)
(* A request works from a copy of an account that others change meanwhile. *)
(* The invariant says what the copy is still good for: it is a version of  *)
(* the record if there is one, its device list names every device of the   *)
(* record that may be on the network, and its password was delivered.  A   *)
(* device that a revocation left on the network and was reported to have   *)
(* taken off counts as off: the service cannot know better.                *)
(***************************************************************************)
EXTENDS AccountAdmin, RepositoryLemmas

-----------------------------------------------------------------------------
(* The invariant                                                           *)

RepoOK ==
    /\ now \in 1 .. MaxTime
    /\ RecordsOK(records)
    /\ FileOK(file)
    /\ net \in [Mac -> Nat]

\* Until when each device is on the network, going by what was reported of it.
Reported == [m \in Mac |-> IF m \in missed THEN 0 ELSE net[m]]

HistoryOK ==
    /\ missed \subseteq Mac
    /\ issuedIds \subseteq Id
    /\ DOMAIN records \subseteq issuedIds
    /\ FileIds(file) \subseteq issuedIds
    /\ drawn \subseteq Password
    /\ mailed \subseteq Username \X Password
    /\ DOMAIN told \subseteq issuedIds
    /\ \A k \in DOMAIN told : told[k] \in Password
    /\ inherited \subseteq issuedIds

\* What request q carries from one step to the next.
CarriesOK(q, pairs, ids) ==
    /\ q \in AdminState
    /\ q.next # 0
    /\ q.pc # "idle" => q.account \in Account /\ q.account.id \in ids
    /\ q.pc = "revoking" => q.target \in Mac /\ q.op \in {"rotate", "delete", "update"}
    /\ q.pc \in {"clearing", "updating"} => q.op = "update"
    /\ q.op = "update" => /\ q.account.kind = "resident"
                          /\ q.account.apartment # NoApartment
                          /\ q.account.max = ResidentLimit
    /\ q.pc \in {"creating", "mailing", "undoing"} =>
          RecordOK(q.account) /\ Listed(q.account.devices) = {}
    /\ q.pc = "replacing" /\ q.account.kind = "resident" =>
          <<q.account.username, q.password>> \in pairs

\* Device m is still to be disconnected by request q.
Awaits(q, m) ==
    /\ q.pc = "revoking"
    /\ m = q.target \/ \E i \in DOMAIN q.list : i >= q.next /\ q.list[i] = m

\* The account of request q is a version of the record filed under its id, and
\* covers every device there that may be on the network at instant t, except those
\* that somebody else let in meanwhile.
FitsRecord(q, t, recs, until, excused) ==
    q.pc # "idle" /\ q.account.id \in DOMAIN recs =>
        /\ q.pc # "creating"
        /\ SameAccount(q.account, recs[q.account.id])
        /\ \A m \in Listed(recs[q.account.id].devices) :
              until[m] <= t \/ q.pc = "updating" \/ Awaits(q, m) \/ m \in excused

\* X gives each request the devices that it need not cover.
RequestsOK(X) ==
    /\ adm \in [Admin -> AdminState]
    /\ \A a \in Admin : CarriesOK(adm[a], mailed, issuedIds)
                        /\ FitsRecord(adm[a], now, records, Reported, X[a])

\* Request a works on account k.
WorksOn(a, k) == adm[a].pc # "idle" /\ adm[a].account.id = k

\* The resident of account k has received password, or is about to, or the
\* account is about to go.
Delivered(k, password) ==
    \/ <<records[k].username, password>> \in mailed
    \/ \E a \in Admin : /\ WorksOn(a, k)
                        /\ adm[a].pc \in {"mailing", "undoing"}
                        /\ adm[a].account.password = password

DeliveryOK ==
    \A k \in DOMAIN records \ inherited :
        records[k].kind = "resident" =>
            /\ Delivered(k, records[k].password)
            /\ \A a \in Admin : WorksOn(a, k) => Delivered(k, adm[a].account.password)

\* A password that was told is in force, and in the hands of the one request that
\* may be at work on the account.
ToldOK ==
    /\ \A k \in DOMAIN told \cap DOMAIN records :
          /\ records[k].password = told[k]
          /\ \A a \in Admin : WorksOn(a, k) => adm[a].account.password = told[k]
    /\ \A a \in Admin, k \in DOMAIN told : WorksOn(a, k) => adm[a].alone

\* Requests that know of each other are not alone, and an account that is being
\* created is known to its creator only.
ApartOK ==
    /\ \A a, b \in Admin :
          /\ a # b /\ adm[a].pc # "idle" /\ adm[b].pc # "idle"
          /\ adm[a].account.id = adm[b].account.id
          => ~adm[a].alone
    /\ \A a \in Admin : adm[a].pc = "creating" => adm[a].alone

\* Here, where nobody logs in, it has to cover them all.
Unexcused == [a \in Admin |-> {}]

IInv(X) == RepoOK /\ HistoryOK /\ RequestsOK(X) /\ DeliveryOK /\ ToldOK /\ ApartOK

-----------------------------------------------------------------------------
(* Device lists and the loop over them                                     *)

LEMMA IdleOK ==
    ASSUME NEW pairs, NEW ids, NEW t, NEW recs, NEW until, NEW excused
    PROVE  /\ CarriesOK(IdleAdmin, pairs, ids)
           /\ FitsRecord(IdleAdmin, t, recs, until, excused)
           /\ IdleAdmin.pc = "idle"
<1>1. IdleAdmin \in AdminState
  BY DEF IdleAdmin, AdminState
<1>2. QED
  BY <1>1 DEF IdleAdmin, CarriesOK, FitsRecord

\* A list in slice order is a sequence of the devices it stands for.
LEMMA OrderedList ==
    ASSUME NEW D \in SUBSET Mac, NEW list \in Orders(D)
    PROVE  /\ list \in Seq(Mac)
           /\ \A m \in D : \E i \in DOMAIN list : list[i] = m
<1>1. IsFiniteSet(D) /\ Cardinality(D) \in Nat
  BY FS_Subset, FS_CardinalityType, FiniteMacs
<1>2. /\ list \in [1 .. Cardinality(D) -> D]
      /\ \A i, j \in DOMAIN list : list[i] = list[j] => i = j
  BY DEF Orders
<1>3. list \in Seq(Mac)
  BY <1>1, <1>2
<1>4. \A m \in D : \E i \in DOMAIN list : list[i] = m
  <2> DEFINE I == 1 .. Cardinality(D)
  <2>1. list \in Injection(I, D)
    BY <1>2 DEF Injection, IsInjective
  <2>2. Cardinality(I) = Cardinality(D)
    BY <1>1, FS_Interval
  <2> HIDE DEF I
  <2>3. list \in Surjection(I, D)
    BY <1>1, <2>1, <2>2, FS_Injection
  <2>4. DOMAIN list = I
    BY <1>2 DEF I
  <2>5. QED
    BY <2>3, <2>4 DEF Surjection
<1>5. QED
  BY <1>3, <1>4

\* Entering the loop or going round it keeps what the request carries; the
\* devices not visited yet are still awaited (revokeAll).
LEMMA NextDeviceOK ==
    ASSUME NEW q \in AdminState, q.next # 0, q.account \in Account,
           q.op \in {"rotate", "delete", "update"}
    PROVE  LET n == NextDevice(q)
           IN  /\ n \in AdminState /\ n.next # 0
               /\ n.op = q.op /\ n.account = q.account /\ n.alone = q.alone
               /\ n.password = q.password
               /\ n.pc \in {"revoking", "deleting", "clearing", "notifying", "replacing"}
               /\ n.pc = "revoking" => n.target \in Mac
               /\ n.pc = "clearing" => q.op = "update"
               /\ n.pc = "replacing" => q.account.kind = "employee"
               /\ \A m : (\E i \in DOMAIN q.list : i >= q.next /\ q.list[i] = m)
                        => Awaits(n, m)
<1> DEFINE n == NextDevice(q)
<1>1. /\ q.list \in Seq(Mac) /\ q.next \in Nat /\ q.account.kind \in {"resident", "employee"}
      /\ Len(q.list) \in Nat /\ DOMAIN q.list = 1 .. Len(q.list)
  BY DEF AdminState, Account
<1>2. CASE q.next <= Len(q.list)
  <2> DEFINE m0 == q.list[q.next]
             r == [q EXCEPT !.pc = "revoking", !.target = m0, !.next = q.next + 1]
  <2>1. n = r
    BY <1>2 DEF NextDevice
  <2>2. m0 \in Mac /\ q.list[q.next] = m0
    BY <1>1, <1>2
  <2> HIDE DEF m0
  <2>3. r \in AdminState
    <3>1. q.next \in Nat /\ q.next + 1 \in Nat
      BY <1>1
    <3>2. QED
      BY <2>2, <3>1 DEF AdminState
  <2>4. /\ r.next = q.next + 1 /\ r.pc = "revoking" /\ r.op = q.op
        /\ r.account = q.account /\ r.alone = q.alone /\ r.password = q.password
        /\ r.target = m0 /\ r.list = q.list
    BY DEF AdminState
  <2> HIDE DEF r
  <2>5. ASSUME NEW m, NEW i \in DOMAIN q.list, i >= q.next, q.list[i] = m
        PROVE  Awaits(r, m)
    <3>1. CASE i = q.next
      BY <2>2, <2>4, <2>5, <3>1 DEF Awaits
    <3>2. CASE i # q.next
      BY <1>1, <2>4, <2>5, <3>2 DEF Awaits
    <3>3. QED
      BY <3>1, <3>2
  <2>6. r.next # 0
    BY <1>1, <2>4
  <2>7. \A m : (\E i \in DOMAIN q.list : i >= q.next /\ q.list[i] = m) => Awaits(n, m)
    BY <2>1, <2>5
  <2>8. QED
    BY <2>1, <2>2, <2>3, <2>4, <2>6, <2>7
<1>3. CASE ~(q.next <= Len(q.list))
  <2> DEFINE r == [q EXCEPT !.pc = AfterRevocation(q), !.target = NoAccount]
  <2>1. n = r
    BY <1>3 DEF NextDevice
  <2>2. /\ AfterRevocation(q) \in {"deleting", "clearing", "notifying", "replacing"}
        /\ AfterRevocation(q) = "clearing" => q.op = "update"
        /\ AfterRevocation(q) = "replacing" => q.account.kind = "employee"
    BY <1>1 DEF AfterRevocation
  <2>3. r \in AdminState
    BY <1>1, <2>2 DEF AdminState
  <2>4. /\ r.next = q.next /\ r.pc = AfterRevocation(q) /\ r.op = q.op
        /\ r.account = q.account /\ r.alone = q.alone /\ r.password = q.password
    BY DEF AdminState
  <2> HIDE DEF r
  <2>5. \A i \in DOMAIN q.list : ~(i >= q.next)
    BY <1>1, <1>3
  <2>6. QED
    BY <2>1, <2>2, <2>3, <2>4, <2>5
<1>4. QED
  BY <1>2, <1>3

-----------------------------------------------------------------------------
(* What a step leaves of the requests                                      *)

LEMMA Becomes ==
    ASSUME adm \in [Admin -> AdminState], NEW a \in Admin, NEW q, Become(a, q)
    PROVE  /\ adm'[a] = q
           /\ \A x \in Admin : x # a => adm'[x] = adm[x]
           /\ q \in AdminState => adm' \in [Admin -> AdminState]
BY DEF Become

\* Time goes on, devices only leave the network, and nothing is forgotten.
Onward ==
    /\ now \in Nat /\ now' \in Nat /\ now <= now'
    /\ \A m \in Mac : /\ Reported[m] \in Nat /\ Reported'[m] \in Nat
                      /\ Reported'[m] = Reported[m] \/ Reported'[m] <= now
    /\ mailed \subseteq mailed'
    /\ issuedIds \subseteq issuedIds'

\* Record k keeps its identity and gets no devices.
Shrinks(k) ==
    k \in DOMAIN records /\ k \in DOMAIN records' =>
        /\ SameAccount(records'[k], records[k])
        /\ Listed(records'[k].devices) \subseteq Listed(records[k].devices)

LEMMA StillCarries ==
    ASSUME Onward, NEW q, CarriesOK(q, mailed, issuedIds)
    PROVE  CarriesOK(q, mailed', issuedIds')
BY DEF CarriesOK, Onward

LEMMA StillFits ==
    ASSUME Onward, NEW q, NEW excused, FitsRecord(q, now, records, Reported, excused),
           \A k \in DOMAIN records' : Shrinks(k),
           q.pc # "idle" /\ q.account.id \in DOMAIN records' => q.account.id \in DOMAIN records
    PROVE  FitsRecord(q, now', records', Reported', excused)
<1> SUFFICES ASSUME q.pc # "idle", q.account.id \in DOMAIN records'
             PROVE  /\ q.pc # "creating"
                    /\ SameAccount(q.account, records'[q.account.id])
                    /\ \A m \in Listed(records'[q.account.id].devices) :
                          Reported'[m] <= now' \/ q.pc = "updating" \/ Awaits(q, m)
                             \/ m \in excused
  BY DEF FitsRecord
<1> DEFINE k == q.account.id
<1>1. /\ k \in DOMAIN records /\ Shrinks(k)
      /\ q.pc # "creating" /\ SameAccount(q.account, records[k])
      /\ \A m \in Listed(records[k].devices) :
            Reported[m] <= now \/ q.pc = "updating" \/ Awaits(q, m) \/ m \in excused
  BY DEF FitsRecord
<1>2. SameAccount(q.account, records'[k])
  BY <1>1 DEF Shrinks, SameAccount
<1>3. ASSUME NEW m \in Listed(records'[k].devices)
      PROVE  Reported'[m] <= now' \/ q.pc = "updating" \/ Awaits(q, m) \/ m \in excused
  <2>1. m \in Listed(records[k].devices) /\ m \in Mac
    BY <1>1, <1>3 DEF Shrinks, Listed
  <2>2. Reported[m] <= now => Reported'[m] <= now'
    BY <2>1 DEF Onward
  <2>3. QED
    BY <1>1, <2>1, <2>2
<1>4. QED
  BY <1>1, <1>2, <1>3

\* One request moves; the others stay as sound as they were.
LEMMA RequestMoves ==
    ASSUME NEW X, RequestsOK(X), Onward, NEW a \in Admin, NEW q, Become(a, q),
           CarriesOK(q, mailed', issuedIds'), FitsRecord(q, now', records', Reported', X[a]),
           \A k \in DOMAIN records' : Shrinks(k),
           \A x \in Admin : /\ x # a /\ adm[x].pc # "idle"
                            /\ adm[x].account.id \in DOMAIN records'
                            => adm[x].account.id \in DOMAIN records
    PROVE  RequestsOK(X)'
<1>1. /\ adm \in [Admin -> AdminState]
      /\ \A x \in Admin : CarriesOK(adm[x], mailed, issuedIds)
                          /\ FitsRecord(adm[x], now, records, Reported, X[x])
  BY DEF RequestsOK
<1>2. q \in AdminState
  BY DEF CarriesOK
<1>3. /\ adm'[a] = q /\ \A x \in Admin : x # a => adm'[x] = adm[x]
      /\ adm' \in [Admin -> AdminState]
  BY <1>1, <1>2, Becomes
<1>4. ASSUME NEW x \in Admin
      PROVE  /\ CarriesOK(adm'[x], mailed', issuedIds')
             /\ FitsRecord(adm'[x], now', records', Reported', X[x])
  <2>1. CASE x = a
    BY <1>3, <2>1
  <2>2. CASE x # a
    <3>1. CarriesOK(adm[x], mailed', issuedIds')
      BY <1>1, StillCarries
    <3>2. FitsRecord(adm[x], now', records', Reported', X[x])
      BY <1>1, <2>2, StillFits
    <3>3. QED
      BY <1>3, <2>2, <3>1, <3>2
  <2>3. QED
    BY <2>1, <2>2
<1>5. QED
  BY <1>3, <1>4 DEF RequestsOK

\* The request that moves keeps its account and what others know of it, or ends.
Continues(a, q) ==
    q.pc # "idle" =>
        /\ adm[a].pc # "idle" /\ q.pc # "creating"
        /\ q.account = adm[a].account
        /\ q.alone = adm[a].alone

\* A request that is mailing the first password goes on doing so, unless it has
\* arrived or the account is gone.
HandsOver(a, q) ==
    /\ adm[a].pc \in {"mailing", "undoing"}
    /\ adm[a].account.id \in DOMAIN records'
    => \/ q.pc \in {"mailing", "undoing"} /\ q.account = adm[a].account
       \/ <<records[adm[a].account.id].username, adm[a].account.password>> \in mailed'

LEMMA ApartMoves ==
    ASSUME ApartOK, adm \in [Admin -> AdminState], NEW a \in Admin, NEW q,
           Become(a, q), Continues(a, q)
    PROVE  ApartOK'
<1>1. adm'[a] = q /\ \A x \in Admin : x # a => adm'[x] = adm[x]
  BY Becomes
<1>2. \A x \in Admin : adm'[x].pc # "idle" =>
         /\ adm[x].pc # "idle"
         /\ adm'[x].account = adm[x].account
         /\ adm'[x].alone = adm[x].alone
         /\ adm'[x].pc = "creating" => adm[x].pc = "creating"
  BY <1>1, Zenon DEF Continues
<1>3. ASSUME NEW x \in Admin, NEW y \in Admin, x # y,
             adm'[x].pc # "idle", adm'[y].pc # "idle",
             adm'[x].account.id = adm'[y].account.id
      PROVE  ~adm'[x].alone
  <2>1. /\ adm[x].pc # "idle" /\ adm[y].pc # "idle"
        /\ adm[x].account.id = adm[y].account.id
    BY <1>2, <1>3
  <2>2. ~adm[x].alone
    BY <1>3, <2>1, Zenon DEF ApartOK
  <2>3. QED
    BY <1>2, <1>3, <2>2, Zenon
<1>4. \A x \in Admin : adm'[x].pc = "creating" => adm'[x].alone
  <2>1. "creating" # "idle"
    OBVIOUS
  <2>2. QED
    BY <1>2, <2>1, Zenon DEF ApartOK
<1>5. QED
  BY <1>3, <1>4, Zenon DEF ApartOK

\* Account k may have this password: it is in force, or a request has it.
Known(k, password) ==
    \/ password = records[k].password
    \/ \E x \in Admin : WorksOn(x, k) /\ password = adm[x].account.password

\* One request moves, the others at most learn that they are not alone.
Moves(a, q) ==
    /\ adm'[a] = q
    /\ \A x \in Admin : x # a => adm'[x].pc = adm[x].pc /\ adm'[x].account = adm[x].account

\* A record that was not there before is an employee's, or its password is on its
\* way and known to nobody else.
Introduces(a, q, k) ==
    \/ records'[k].kind = "employee"
    \/ /\ q.pc = "mailing" /\ q.account.id = k /\ q.account.password = records'[k].password
       /\ \A x \in Admin : x # a => ~WorksOn(x, k)

\* Accounts that somebody can use stay usable while one request moves.
LEMMA DeliveryMoves ==
    ASSUME DeliveryOK, Onward, NEW a \in Admin, NEW q,
           Moves(a, q), HandsOver(a, q), inherited' = inherited,
           q.pc # "idle" /\ q.account.id \in DOMAIN records =>
              Known(q.account.id, q.account.password),
           \A k \in DOMAIN records' :
              IF k \in DOMAIN records
              THEN /\ Shrinks(k)
                   /\ records[k].kind = "resident" =>
                         \/ Known(k, records'[k].password)
                         \/ <<records[k].username, records'[k].password>> \in mailed'
              ELSE Introduces(a, q, k)
    PROVE  DeliveryOK'
<1>1. /\ adm'[a] = q
      /\ \A x \in Admin : x # a => adm'[x].pc = adm[x].pc /\ adm'[x].account = adm[x].account
  BY DEF Moves
<1> SUFFICES ASSUME NEW k \in DOMAIN records', k \notin inherited,
                    records'[k].kind = "resident"
             PROVE  /\ Delivered(k, records[k].password)'
                    /\ \A x \in Admin : WorksOn(x, k)' => Delivered(k, adm[x].account.password)'
  BY Zenon DEF DeliveryOK
<1> DEFINE name == records'[k].username
           DeliveredNow(p) ==
              \/ <<name, p>> \in mailed'
              \/ \E x \in Admin : /\ adm'[x].pc # "idle" /\ adm'[x].account.id = k
                                  /\ adm'[x].pc \in {"mailing", "undoing"}
                                  /\ adm'[x].account.password = p
<1>2. CASE k \in DOMAIN records
  <2>1. /\ records[k].kind = "resident" /\ records[k].username = name
        /\ Known(k, records'[k].password) \/ <<name, records'[k].password>> \in mailed'
    BY <1>2 DEF Shrinks, SameAccount
  <2>2. /\ Delivered(k, records[k].password)
        /\ \A x \in Admin : WorksOn(x, k) => Delivered(k, adm[x].account.password)
    BY <1>2, <2>1 DEF DeliveryOK
  <2>3. ASSUME NEW p, Known(k, p)
        PROVE  DeliveredNow(p)
    <3>1. Delivered(k, p)
      BY <2>2, <2>3, Zenon DEF Known
    <3>2. CASE <<name, p>> \in mailed
      BY <3>2 DEF Onward
    <3>3. ASSUME NEW x \in Admin, WorksOn(x, k), adm[x].pc \in {"mailing", "undoing"},
                 adm[x].account.password = p
          PROVE  DeliveredNow(p)
      <4>1. CASE x # a
        BY <1>1, <3>3, <4>1 DEF WorksOn
      <4>2. CASE x = a
        BY <1>1, <2>1, <3>3, <4>2 DEF WorksOn, HandsOver
      <4>3. QED
        BY <4>1, <4>2
    <3>4. QED
      BY <2>1, <3>1, <3>2, <3>3 DEF Delivered
  <2>4. DeliveredNow(records'[k].password)
    BY <2>1, <2>3
  <2>5. ASSUME NEW x \in Admin, adm'[x].pc # "idle", adm'[x].account.id = k
        PROVE  DeliveredNow(adm'[x].account.password)
    <3>1. Known(k, adm'[x].account.password)
      <4>1. CASE x = a
        BY <1>1, <1>2, <2>5, <4>1
      <4>2. CASE x # a
        BY <1>1, <2>5, <4>2 DEF Known, WorksOn
      <4>3. QED
        BY <4>1, <4>2
    <3>2. QED
      BY <2>3, <3>1
  <2>6. QED
    BY <2>4, <2>5 DEF Delivered, WorksOn
<1>3. CASE k \notin DOMAIN records
  <2>1. /\ q.pc = "mailing" /\ q.account.id = k /\ q.account.password = records'[k].password
        /\ \A x \in Admin : x # a => ~WorksOn(x, k)
    BY <1>3 DEF Introduces
  <2>2. DeliveredNow(q.account.password)
    BY <1>1, <2>1
  <2>3. \A x \in Admin : adm'[x].pc # "idle" /\ adm'[x].account.id = k => x = a
    BY <1>1, <2>1 DEF WorksOn
  <2>4. QED
    BY <1>1, <2>1, <2>2, <2>3 DEF Delivered, WorksOn
<1>4. QED
  BY <1>2, <1>3

\* Nobody but the request itself learns a password, and told is only ever cut.
LEMMA ToldShrinks ==
    ASSUME ToldOK, adm \in [Admin -> AdminState], NEW a \in Admin, NEW q,
           Become(a, q),
           \A k \in DOMAIN told' :
              /\ k \in DOMAIN told /\ told'[k] = told[k]
              /\ k \in DOMAIN records' =>
                    k \in DOMAIN records /\ records'[k].password = told[k]
              /\ q.pc # "idle" /\ q.account.id = k =>
                    /\ WorksOn(a, k)
                    /\ q.account = adm[a].account
                    /\ q.alone = adm[a].alone
    PROVE  ToldOK'
<1>1. adm'[a] = q /\ \A x \in Admin : x # a => adm'[x] = adm[x]
  BY Becomes
<1>2. ASSUME NEW k \in DOMAIN told', NEW x \in Admin, adm'[x].pc # "idle",
             adm'[x].account.id = k
      PROVE  /\ WorksOn(x, k) /\ adm'[x].account = adm[x].account
             /\ adm'[x].alone = adm[x].alone
  BY <1>1, <1>2, Zenon DEF WorksOn
<1>3. ASSUME NEW k \in DOMAIN told' \cap DOMAIN records'
      PROVE  /\ records'[k].password = told'[k]
             /\ \A x \in Admin : adm'[x].pc # "idle" /\ adm'[x].account.id = k
                                 => adm'[x].account.password = told'[k]
  <2>1. k \in DOMAIN told \cap DOMAIN records /\ told'[k] = told[k]
        /\ records'[k].password = told[k]
    BY <1>3
  <2>2. \A x \in Admin : WorksOn(x, k) => adm[x].account.password = told[k]
    BY <2>1 DEF ToldOK
  <2>3. QED
    BY <1>2, <2>1, <2>2
<1>4. ASSUME NEW x \in Admin, NEW k \in DOMAIN told', adm'[x].pc # "idle",
             adm'[x].account.id = k
      PROVE  adm'[x].alone
  <2>1. k \in DOMAIN told /\ WorksOn(x, k) /\ adm'[x].alone = adm[x].alone
    BY <1>2, <1>4
  <2>2. adm[x].alone
    BY <2>1, Zenon DEF ToldOK
  <2>3. QED
    BY <2>1, <2>2
<1>5. QED
  BY <1>3, <1>4 DEF ToldOK, WorksOn

\* A step of a request already on its way.
LEMMA ProgressStep ==
    ASSUME NEW X, IInv(X), NEW a \in Admin, NEW q, Become(a, q),
           CarriesOK(q, mailed', issuedIds'), FitsRecord(q, now', records', Reported', X[a]),
           Continues(a, q), HandsOver(a, q), inherited' = inherited, Onward,
           \A k \in DOMAIN records' :
              /\ k \in DOMAIN records /\ Shrinks(k)
              /\ records[k].kind = "resident" =>
                    \/ Known(k, records'[k].password)
                    \/ <<records[k].username, records'[k].password>> \in mailed',
           RepoOK', HistoryOK', ToldOK'
    PROVE  IInv(X)'
<1>1. adm \in [Admin -> AdminState]
  BY DEF IInv, RequestsOK
<1>2. RequestsOK(X)'
  BY RequestMoves DEF IInv
<1>3. DeliveryOK'
  <2>1. Moves(a, q)
    BY <1>1, Becomes DEF Moves
  <2>2. q.pc # "idle" => Known(q.account.id, q.account.password)
    BY DEF Continues, Known, WorksOn
  <2>3. QED
    BY <2>1, <2>2, DeliveryMoves DEF IInv
<1>4. ApartOK'
  BY <1>1, ApartMoves DEF IInv
<1>5. QED
  BY <1>2, <1>3, <1>4 DEF IInv

\* A step of a request that touches neither the repository nor what was told.
LEMMA QuietStep ==
    ASSUME NEW X, IInv(X), NEW a \in Admin, NEW q, Become(a, q),
           CarriesOK(q, mailed', issuedIds), FitsRecord(q, now, records, Reported', X[a]),
           Continues(a, q), HandsOver(a, q), Onward,
           UNCHANGED <<repositoryVars, issuedIds, told, inherited>>,
           net' \in [Mac -> Nat], missed' \subseteq Mac, drawn' \subseteq Password,
           mailed' \subseteq Username \X Password
    PROVE  IInv(X)'
<1>1. /\ now' = now /\ records' = records /\ file' = file
      /\ issuedIds' = issuedIds /\ told' = told /\ inherited' = inherited
  BY DEF repositoryVars
<1>2. RepoOK' /\ HistoryOK'
  BY <1>1 DEF IInv, RepoOK, HistoryOK
<1>3. \A k \in DOMAIN records' : /\ k \in DOMAIN records /\ Shrinks(k)
                                 /\ Known(k, records'[k].password)
  BY <1>1 DEF Shrinks, SameAccount, Known
<1>4. ToldOK'
  <2>1. ToldOK /\ adm \in [Admin -> AdminState]
    BY DEF IInv, RequestsOK
  <2>2. ASSUME NEW k \in DOMAIN told'
        PROVE  /\ k \in DOMAIN told /\ told'[k] = told[k]
               /\ k \in DOMAIN records' =>
                     k \in DOMAIN records /\ records'[k].password = told[k]
               /\ q.pc # "idle" /\ q.account.id = k =>
                     /\ WorksOn(a, k)
                     /\ q.account = adm[a].account
                     /\ q.alone = adm[a].alone
    BY <1>1, <2>1, <2>2, Zenon DEF ToldOK, Continues, WorksOn
  <2>3. QED
    BY <2>1, <2>2, ToldShrinks
<1>5. CarriesOK(q, mailed', issuedIds') /\ FitsRecord(q, now', records', Reported', X[a])
  BY <1>1
<1>6. QED
  BY <1>1, <1>2, <1>3, <1>4, <1>5, ProgressStep

-----------------------------------------------------------------------------
(* Steps that leave the repository alone                                   *)

LEMMA ReportOK ==
    ASSUME RepoOK
    PROVE  \A m \in Mac : Reported[m] = (IF m \in missed THEN 0 ELSE net[m])
                          /\ Reported[m] \in Nat
BY DEF RepoOK, Reported

LEMMA SameReport ==
    ASSUME NEW X, IInv(X), UNCHANGED <<net, missed>>
    PROVE  Reported' = Reported /\ \A m \in Mac : Reported[m] \in Nat
BY ReportOK DEF IInv, Reported

\* What the invariant says of one request.
LEMMA OneRequest ==
    ASSUME NEW X, IInv(X), NEW a \in Admin
    PROVE  /\ adm \in [Admin -> AdminState] /\ adm[a] \in AdminState
           /\ CarriesOK(adm[a], mailed, issuedIds)
           /\ FitsRecord(adm[a], now, records, Reported, X[a])
           /\ now \in Nat /\ net \in [Mac -> Nat]
           /\ adm[a].pc # "idle" => adm[a].account \in Account
<1>1. /\ CarriesOK(adm[a], mailed, issuedIds)
      /\ FitsRecord(adm[a], now, records, Reported, X[a])
      /\ adm \in [Admin -> AdminState]
  BY DEF IInv, RequestsOK
<1>2. now \in Nat /\ net \in [Mac -> Nat]
  BY DEF IInv, RepoOK
<1>3. QED
  BY <1>1, <1>2 DEF CarriesOK

\* A request ends and leaves no trace but on the network.
LEMMA EndStep ==
    ASSUME NEW X, IInv(X), NEW a \in Admin, Become(a, IdleAdmin), Onward,
           adm[a].pc \notin {"mailing", "undoing"},
           UNCHANGED <<repositoryVars, issuedIds, told, inherited>>,
           net' \in [Mac -> Nat], missed' \subseteq Mac, drawn' \subseteq Password,
           mailed' \subseteq Username \X Password
    PROVE  IInv(X)'
<1>1. /\ CarriesOK(IdleAdmin, mailed', issuedIds)
      /\ FitsRecord(IdleAdmin, now, records, Reported', X[a]) /\ IdleAdmin.pc = "idle"
  BY IdleOK
<1>2. Continues(a, IdleAdmin) /\ HandsOver(a, IdleAdmin)
  BY <1>1 DEF Continues, HandsOver
<1>3. QED
  BY <1>1, <1>2, QuietStep

\* The client has gone, or the repository refuses (Update, ChangePassword, Delete,
\* Create).
LEMMA AbandonStep ==
    ASSUME NEW X, IInv(X), NEW a \in Admin, Abandon(a)
    PROVE  IInv(X)'
<1>1. Onward
  BY SameReport DEF Abandon, IInv, RepoOK, Onward, repositoryVars, adminHistory
<1>2. /\ net' \in [Mac -> Nat] /\ missed' \subseteq Mac
      /\ drawn' \subseteq Password /\ mailed' \subseteq Username \X Password
  BY DEF Abandon, IInv, RepoOK, HistoryOK, adminHistory
<1>3. /\ Become(a, IdleAdmin) /\ adm[a].pc \notin {"mailing", "undoing"}
      /\ UNCHANGED <<repositoryVars, issuedIds, told, inherited>>
  BY DEF Abandon, adminHistory
<1>4. QED
  BY <1>1, <1>2, <1>3, EndStep

\* One device is disconnected, or the request ends (revokeAll).
LEMMA RevokeDeviceStep ==
    ASSUME NEW X, IInv(X), NEW a \in Admin, NEW outcome, RevokeDevice(a, outcome)
    PROVE  IInv(X)'
<1> DEFINE p == adm[a]
           n == NextDevice(p)
<1>1. /\ p.pc = "revoking" /\ Revoke(p.target, outcome)
      /\ Become(a, IF ReportedDone(outcome) THEN n ELSE IdleAdmin)
      /\ RecordRevocation(p.target, outcome)
      /\ UNCHANGED <<repositoryVars, issuedIds, drawn, mailed, told, inherited>>
  BY DEF RevokeDevice, adminHistory
<1>2. /\ p \in AdminState /\ CarriesOK(p, mailed, issuedIds)
      /\ FitsRecord(p, now, records, Reported, X[a])
      /\ p.target \in Mac /\ p.op \in {"rotate", "delete", "update"} /\ p.next # 0
      /\ p.account \in Account /\ now \in Nat /\ net \in [Mac -> Nat]
  BY <1>1, OneRequest DEF CarriesOK
<1>3. net' = IF Applied(outcome) THEN [net EXCEPT ![p.target] = 0] ELSE net
  BY <1>1 DEF Revoke, Expel
<1>4. /\ net' \in [Mac -> Nat] /\ missed' \subseteq Mac
      /\ \A m \in Mac : /\ Reported[m] \in Nat /\ Reported'[m] \in Nat
                        /\ Reported'[m] = Reported[m] \/ Reported'[m] <= now
                        /\ m = p.target /\ ReportedDone(outcome) => Reported'[m] = 0
  <2>1. net' \in [Mac -> Nat] /\ RepoOK /\ missed \subseteq Mac
    BY <1>2, <1>3 DEF IInv, HistoryOK
  <2>2. missed' = IF outcome = "missed" /\ net[p.target] # 0 THEN missed \cup {p.target}
                  ELSE IF Applied(outcome) THEN missed \ {p.target}
                  ELSE missed
    BY <1>1 DEF RecordRevocation
  <2>3. missed' \subseteq Mac
    BY <1>2, <2>1, <2>2
  <2>4. ASSUME NEW m \in Mac
        PROVE  /\ Reported[m] \in Nat /\ Reported'[m] \in Nat
               /\ Reported'[m] = Reported[m] \/ Reported'[m] <= now
               /\ m = p.target /\ ReportedDone(outcome) => Reported'[m] = 0
    <3>1. /\ Reported[m] = (IF m \in missed THEN 0 ELSE net[m])
          /\ Reported'[m] = (IF m \in missed' THEN 0 ELSE net'[m])
      BY DEF Reported
    <3>2. CASE m # p.target
      BY <1>2, <1>3, <2>1, <2>2, <3>1, <3>2
    <3>3. CASE m = p.target /\ Applied(outcome)
      BY <1>2, <1>3, <2>1, <2>2, <3>1, <3>3 DEF Applied
    <3>4. CASE m = p.target /\ outcome = "missed"
      BY <1>2, <1>3, <2>1, <2>2, <3>1, <3>4 DEF Applied
    <3>5. CASE m = p.target /\ ~Applied(outcome) /\ outcome # "missed"
      BY <1>2, <1>3, <2>1, <2>2, <3>1, <3>5 DEF Applied, ReportedDone
    <3>6. QED
      BY <3>2, <3>3, <3>4, <3>5
  <2>5. QED
    BY <2>1, <2>3, <2>4
<1>5. Onward
  BY <1>1, <1>2, <1>4 DEF Onward, repositoryVars
<1>6. drawn' \subseteq Password /\ mailed' = mailed /\ mailed \subseteq Username \X Password
  BY <1>1 DEF IInv, HistoryOK
<1>7. CASE ~ReportedDone(outcome)
  BY <1>1, <1>4, <1>5, <1>6, <1>7, EndStep
<1>8. CASE ReportedDone(outcome)
  <2>1. /\ n \in AdminState /\ n.next # 0
        /\ n.op = p.op /\ n.account = p.account /\ n.alone = p.alone
        /\ n.pc \in {"revoking", "deleting", "clearing", "notifying", "replacing"}
        /\ n.pc = "revoking" => n.target \in Mac
        /\ n.pc = "clearing" => p.op = "update"
        /\ n.pc = "replacing" => p.account.kind = "employee"
        /\ \A m : (\E i \in DOMAIN p.list : i >= p.next /\ p.list[i] = m) => Awaits(n, m)
    BY <1>2, NextDeviceOK
  <2> HIDE DEF n
  <2>2. CarriesOK(n, mailed', issuedIds)
    BY <1>1, <1>2, <1>6, <2>1 DEF CarriesOK
  <2>3. FitsRecord(n, now, records, Reported', X[a])
    <3> SUFFICES ASSUME p.account.id \in DOMAIN records
                 PROVE  /\ SameAccount(p.account, records[p.account.id])
                        /\ \A m \in Listed(records[p.account.id].devices) :
                              Reported'[m] <= now \/ Awaits(n, m) \/ m \in X[a]
      BY <2>1 DEF FitsRecord
    <3>1. /\ SameAccount(p.account, records[p.account.id])
          /\ \A m \in Listed(records[p.account.id].devices) :
                Reported[m] <= now \/ Awaits(p, m) \/ m \in X[a]
      BY <1>1, <1>2 DEF FitsRecord
    <3>2. ASSUME NEW m \in Listed(records[p.account.id].devices)
          PROVE  Reported'[m] <= now \/ Awaits(n, m) \/ m \in X[a]
      <4>1. m \in Mac
        BY <3>2 DEF Listed
      <4>2. CASE m = p.target
        BY <1>2, <1>4, <1>8, <4>1, <4>2
      <4>3. CASE m # p.target
        BY <1>4, <2>1, <3>1, <3>2, <4>1, <4>3 DEF Awaits
      <4>4. QED
        BY <4>2, <4>3
    <3>3. QED
      BY <3>1, <3>2
  <2>4. Continues(a, n) /\ HandsOver(a, n)
    BY <1>1, <2>1 DEF Continues, HandsOver
  <2>5. Become(a, n)
    BY <1>1, <1>8
  <2>6. QED
    BY <1>1, <1>4, <1>5, <1>6, <2>2, <2>3, <2>4, <2>5, QuietStep
<1>9. QED
  BY <1>7, <1>8

\* Mail on its way to the resident; a lost answer does not take it back.
LEMMA MailOK ==
    ASSUME NEW X, IInv(X), NEW u \in Account, NEW password \in Password, NEW outcome,
           mailed' = IF Applied(outcome) THEN mailed \cup {<<u.username, password>>} ELSE mailed
    PROVE  /\ mailed' \subseteq Username \X Password /\ mailed \subseteq mailed'
           /\ outcome = "done" => <<u.username, password>> \in mailed'
BY DEF IInv, HistoryOK, Account, Applied

\* The new password is mailed (ChangePassword).
LEMMA NotifyStep ==
    ASSUME NEW X, IInv(X),
           NEW a \in Admin, NEW password, NEW outcome, Notify(a, password, outcome)
    PROVE  IInv(X)'
<1> DEFINE p == adm[a]
           q == [p EXCEPT !.pc = "replacing", !.password = password]
<1>1. /\ p.pc = "notifying" /\ password \in Password
      /\ drawn' = drawn \cup {password}
      /\ mailed' = IF Applied(outcome) THEN mailed \cup {<<p.account.username, password>>}
                                       ELSE mailed
      /\ Become(a, IF outcome = "done" THEN q ELSE IdleAdmin)
      /\ UNCHANGED <<repositoryVars, net, missed, issuedIds, told, inherited>>
  BY DEF Notify, Fresh
<1>2. /\ p \in AdminState /\ CarriesOK(p, mailed, issuedIds)
      /\ FitsRecord(p, now, records, Reported, X[a])
      /\ p.account \in Account /\ now \in Nat /\ net \in [Mac -> Nat]
  BY <1>1, OneRequest
<1>3. /\ mailed' \subseteq Username \X Password /\ mailed \subseteq mailed'
      /\ outcome = "done" => <<p.account.username, password>> \in mailed'
  BY <1>1, <1>2, MailOK
<1>4. /\ Onward /\ Reported' = Reported
      /\ net' \in [Mac -> Nat] /\ missed' \subseteq Mac /\ drawn' \subseteq Password
  BY <1>1, <1>2, <1>3, SameReport DEF Onward, repositoryVars, IInv, HistoryOK
<1>5. CASE outcome # "done"
  BY <1>1, <1>3, <1>4, <1>5, EndStep
<1>6. CASE outcome = "done"
  <2>1. q \in AdminState
    BY <1>1, <1>2 DEF AdminState
  <2>2. /\ q.pc = "replacing" /\ q.password = password /\ q.account = p.account
        /\ q.alone = p.alone /\ q.op = p.op /\ q.next = p.next
    BY <1>2 DEF AdminState
  <2> HIDE DEF q
  <2>3. CarriesOK(q, mailed', issuedIds)
    BY <1>1, <1>2, <1>3, <1>6, <2>1, <2>2 DEF CarriesOK
  <2>4. FitsRecord(q, now, records, Reported', X[a])
    BY <1>1, <1>2, <1>4, <2>2 DEF FitsRecord, Awaits
  <2>5. Continues(a, q) /\ HandsOver(a, q)
    BY <1>1, <2>2 DEF Continues, HandsOver
  <2>6. QED
    BY <1>1, <1>3, <1>4, <1>6, <2>3, <2>4, <2>5, QuietStep
<1>7. QED
  BY <1>5, <1>6

\* The first password is mailed; unless it is known to have arrived, the account
\* will be taken back (Create).
LEMMA MailNewStep ==
    ASSUME NEW X, IInv(X), NEW a \in Admin, NEW outcome, MailNew(a, outcome)
    PROVE  IInv(X)'
<1> DEFINE p == adm[a]
           q == IF outcome = "done" THEN IdleAdmin ELSE [p EXCEPT !.pc = "undoing"]
<1>1. /\ p.pc = "mailing"
      /\ mailed' = IF Applied(outcome)
                   THEN mailed \cup {<<p.account.username, p.account.password>>} ELSE mailed
      /\ Become(a, q)
      /\ UNCHANGED <<repositoryVars, net, missed, issuedIds, drawn, told, inherited>>
  BY DEF MailNew
<1>2. /\ p \in AdminState /\ CarriesOK(p, mailed, issuedIds)
      /\ FitsRecord(p, now, records, Reported, X[a])
      /\ p.account \in Account /\ now \in Nat /\ net \in [Mac -> Nat]
  BY <1>1, OneRequest
<1>3. /\ mailed' \subseteq Username \X Password /\ mailed \subseteq mailed'
      /\ outcome = "done" => <<p.account.username, p.account.password>> \in mailed'
  BY <1>1, <1>2, MailOK DEF Account
<1>4. /\ Onward /\ Reported' = Reported
      /\ net' \in [Mac -> Nat] /\ missed' \subseteq Mac /\ drawn' \subseteq Password
  BY <1>1, <1>2, <1>3, SameReport DEF Onward, repositoryVars, IInv, HistoryOK
<1>5. p.account.id \in DOMAIN records => SameAccount(p.account, records[p.account.id])
  BY <1>1, <1>2 DEF FitsRecord
<1>6. /\ CarriesOK(q, mailed', issuedIds) /\ FitsRecord(q, now, records, Reported', X[a])
      /\ Continues(a, q) /\ HandsOver(a, q)
  <2>1. CASE outcome = "done"
    <3>1. q = IdleAdmin
      BY <2>1
    <3>2. HandsOver(a, q)
      BY <1>1, <1>3, <1>5, <2>1 DEF HandsOver, SameAccount, repositoryVars
    <3>3. QED
      BY <3>1, <3>2, IdleOK DEF Continues
  <2>2. CASE outcome # "done"
    <3>1. q = [p EXCEPT !.pc = "undoing"]
      BY <2>2
    <3>2. q \in AdminState
      BY <1>2, <3>1 DEF AdminState
    <3>3. /\ q.pc = "undoing" /\ q.account = p.account /\ q.alone = p.alone
          /\ q.op = p.op /\ q.next = p.next
      BY <1>2, <3>1 DEF AdminState
    <3> HIDE DEF q
    <3>4. CarriesOK(q, mailed', issuedIds)
      BY <1>1, <1>2, <3>2, <3>3 DEF CarriesOK
    <3>5. FitsRecord(q, now, records, Reported', X[a])
      BY <1>1, <1>2, <1>4, <3>3 DEF FitsRecord, Awaits
    <3>6. QED
      BY <1>1, <3>3, <3>4, <3>5 DEF Continues, HandsOver
  <2>3. QED
    BY <2>1, <2>2
<1>7. QED
  BY <1>1, <1>3, <1>4, <1>6, QuietStep

\* The clock.
LEMMA ClockStep ==
    ASSUME NEW X, IInv(X), Clock
    PROVE  IInv(X)'
<1>1. /\ now' = now + 1 /\ now < MaxTime /\ records' = records /\ file' = file /\ net' = net
      /\ missed' = missed /\ adm' = adm /\ issuedIds' = issuedIds /\ drawn' = drawn /\ mailed' = mailed
      /\ told' = told /\ inherited' = inherited
  BY DEF Clock, Tick, adminVars, adminHistory
<1>2. now \in Nat /\ MaxTime \in Nat
  BY MaxTimeAssumption DEF IInv, RepoOK
<1>3. RepoOK' /\ HistoryOK'
  BY <1>1, <1>2 DEF IInv, RepoOK, HistoryOK
<1>4. Onward
  BY <1>1, <1>2, SameReport DEF Onward, IInv, RepoOK
<1>5. \A k \in DOMAIN records' : Shrinks(k)
  BY <1>1 DEF Shrinks, SameAccount
<1>6. RequestsOK(X)'
  <2>1. ASSUME NEW x \in Admin
        PROVE  /\ CarriesOK(adm[x], mailed', issuedIds')
               /\ FitsRecord(adm[x], now', records', Reported', X[x])
    <3>1. CarriesOK(adm[x], mailed, issuedIds) /\ FitsRecord(adm[x], now, records, Reported, X[x])
      BY OneRequest
    <3>2. QED
      BY <1>1, <1>4, <1>5, <3>1, StillCarries, StillFits
  <2>2. QED
    BY <1>1, <2>1 DEF IInv, RequestsOK
<1>7. DeliveryOK' /\ ToldOK' /\ ApartOK'
  BY <1>1 DEF IInv, DeliveryOK, Delivered, WorksOn, ToldOK, ApartOK
<1>8. QED
  BY <1>3, <1>6, <1>7 DEF IInv

\* A device goes off the network without a request.
LEMMA PermissionEndsStep ==
    ASSUME NEW X, IInv(X), NEW mac \in Mac, PermissionEnds(mac)
    PROVE  IInv(X)'
<1>1. /\ net' = [net EXCEPT ![mac] = 0] /\ missed' = missed \ {mac}
      /\ now' = now /\ records' = records /\ file' = file
      /\ adm' = adm /\ issuedIds' = issuedIds /\ drawn' = drawn /\ mailed' = mailed
      /\ told' = told /\ inherited' = inherited
  BY DEF PermissionEnds, Lapse, Expel, repositoryVars, adminHistory
<1>2. RepoOK' /\ HistoryOK'
  BY <1>1 DEF IInv, RepoOK, HistoryOK
<1>3. now \in Nat /\ net \in [Mac -> Nat]
  BY DEF IInv, RepoOK
<1>4. ASSUME NEW m \in Mac
      PROVE  /\ Reported[m] \in Nat /\ Reported'[m] \in Nat
             /\ Reported'[m] = Reported[m] \/ Reported'[m] <= now
  <2>1. /\ Reported[m] = (IF m \in missed THEN 0 ELSE net[m])
        /\ Reported'[m] = (IF m \in missed' THEN 0 ELSE net'[m])
    BY DEF Reported
  <2>2. QED
    BY <1>1, <1>3, <2>1
<1>5. Onward
  BY <1>1, <1>3, <1>4 DEF Onward
<1>6. \A k \in DOMAIN records' : Shrinks(k)
  BY <1>1 DEF Shrinks, SameAccount
<1>7. RequestsOK(X)'
  <2>1. ASSUME NEW x \in Admin
        PROVE  /\ CarriesOK(adm[x], mailed', issuedIds')
               /\ FitsRecord(adm[x], now', records', Reported', X[x])
    <3>1. CarriesOK(adm[x], mailed, issuedIds)
      BY OneRequest
    <3>2. FitsRecord(adm[x], now, records, Reported, X[x])
      BY OneRequest
    <3>3. QED
      BY <1>1, <1>5, <1>6, <3>1, <3>2, StillCarries, StillFits
  <2>2. QED
    BY <1>1, <2>1 DEF IInv, RequestsOK
<1>8. DeliveryOK' /\ ToldOK' /\ ApartOK'
  BY <1>1 DEF IInv, DeliveryOK, Delivered, WorksOn, ToldOK, ApartOK
<1>9. QED
  BY <1>2, <1>7, <1>8 DEF IInv

-----------------------------------------------------------------------------
(* Steps that rewrite one record                                           *)

\* Record k becomes a version of itself with this password and no more devices.
Rewrites(k, password) ==
    /\ k \in DOMAIN records /\ DOMAIN records' = DOMAIN records
    /\ \A j \in DOMAIN records : j # k => records'[j] = records[j]
    /\ SameAccount(records'[k], records[k])
    /\ Listed(records'[k].devices) \subseteq Listed(records[k].devices)
    /\ records'[k].password = password
    /\ RecordsOK(records') /\ FileOK(file') /\ now' = now
    /\ FileIds(file') \subseteq FileIds(file) \cup DOMAIN records

\* Writing a version of record k into memory and, perhaps, the file.
LEMMA CommitRewrites ==
    ASSUME RecordsOK(records), FileOK(file), NEW k \in DOMAIN records, NEW b,
           RecordOK(b), SameAccount(b, records[k]),
           Listed(b.devices) \subseteq Listed(records[k].devices),
           NEW outcome, Commit([records EXCEPT ![k] = b], outcome)
    PROVE  Rewrites(k, b.password)
<1> DEFINE recs == [records EXCEPT ![k] = b]
<1>1. RecordsOK(recs)
  BY ReplacedOK
<1>2. /\ DOMAIN recs = DOMAIN records /\ recs[k] = b
      /\ \A j \in DOMAIN records : j # k => recs[j] = records[j]
  OBVIOUS
<1>3. records' = recs /\ Persist(recs, outcome) /\ now' = now
  BY DEF Commit
<1> HIDE DEF recs
<1>4. FileOK(file') /\ FileIds(file') \subseteq FileIds(file) \cup DOMAIN recs
  BY <1>1, <1>3, WriteOK
<1>5. QED
  BY <1>1, <1>2, <1>3, <1>4 DEF Rewrites

LEMMA RotateRewrites ==
    ASSUME RecordsOK(records), FileOK(file), NEW k, NEW password \in Password,
           NEW outcome, ReplacePasswordAndClearDevices(k, password, outcome)
    PROVE  Rewrites(k, password) /\ Listed(records'[k].devices) = {}
<1> DEFINE b == [records[k] EXCEPT !.password = password, !.devices = NoDevices]
<1>1. k \in DOMAIN records /\ Commit([records EXCEPT ![k] = b], outcome)
  BY DEF ReplacePasswordAndClearDevices
<1>2. RecordOK(records[k]) /\ records[k] \in Account /\ records[k].max \in Nat
  BY <1>1 DEF RecordsOK, RecordOK, Account
<1>3. /\ NoDevices \in Devices /\ Listed(NoDevices) = {}
      /\ Cardinality(Listed(NoDevices)) <= records[k].max
  BY <1>2, EmptyList
<1>4. RecordOK(b) /\ SameAccount(b, records[k])
  BY <1>2, <1>3, SameOwner
<1>5. b.devices = NoDevices /\ b.password = password
  BY <1>2 DEF Account
<1>6. records'[k] = b
  BY <1>1 DEF Commit
<1> HIDE DEF b
<1>7. Rewrites(k, password)
  BY <1>1, <1>3, <1>4, <1>5, CommitRewrites
<1>8. QED
  BY <1>3, <1>5, <1>6, <1>7

LEMMA UpdateRewrites ==
    ASSUME RecordsOK(records), FileOK(file), NEW u \in Account,
           u.id \in DOMAIN records => SameAccount(u, records[u.id]),
           u.kind = "resident", u.max = ResidentLimit,
           NEW outcome, Update(u, outcome)
    PROVE  Rewrites(u.id, records[u.id].password)
<1> DEFINE k == u.id
           a == records[k]
           b == [u EXCEPT !.password = a.password, !.devices = a.devices]
<1>1. k \in DOMAIN records /\ Commit([records EXCEPT ![k] = b], outcome)
  BY DEF Update
<1>2. RecordOK(a) /\ a \in Account /\ SameAccount(u, a)
  BY <1>1 DEF RecordsOK, RecordOK
<1>3. /\ b \in Account /\ b.kind = "resident" /\ b.max = ResidentLimit
      /\ b.devices = a.devices /\ b.password = a.password /\ SameAccount(b, a)
  BY <1>2 DEF Account, SameAccount
<1> HIDE DEF a, b
<1>4. a.kind = "resident" /\ b.apartment = a.apartment
  BY <1>3 DEF SameAccount
<1>5. LoadedLimit(b) = ResidentLimit /\ LoadedLimit(a) = ResidentLimit
  BY <1>3, <1>4 DEF LoadedLimit
<1>6. RecordOK(b)
  BY <1>2, <1>3, <1>4, <1>5 DEF RecordOK, WellFormed
<1>7. Rewrites(k, b.password)
  <2> HIDE DEF k
  <2>1. QED
    BY <1>1, <1>3, <1>6, CommitRewrites DEF a
<1>8. QED
  BY <1>3, <1>7 DEF a

\* One request rewrites one record; the password it stores was known before.
LEMMA RewriteStep ==
    ASSUME NEW X, IInv(X), NEW a \in Admin, NEW q, Become(a, q),
           NEW k, NEW password, Rewrites(k, password),
           records[k].kind = "resident" =>
              Known(k, password) \/ <<records[k].username, password>> \in mailed,
           CarriesOK(q, mailed, issuedIds), FitsRecord(q, now, records', Reported, X[a]),
           Continues(a, q), adm[a].pc \notin {"mailing", "undoing"},
           UNCHANGED <<net, missed, issuedIds, mailed, inherited>>,
           drawn' \subseteq Password, DOMAIN told' \subseteq issuedIds,
           \A j \in DOMAIN told' : told'[j] \in Password, ToldOK'
    PROVE  IInv(X)'
<1>1. Onward /\ Reported' = Reported
  BY SameReport DEF IInv, RepoOK, Rewrites, Onward
<1>2. \A j \in DOMAIN records' :
         /\ j \in DOMAIN records /\ Shrinks(j)
         /\ records[j].kind = "resident" =>
               \/ Known(j, records'[j].password)
               \/ <<records[j].username, records'[j].password>> \in mailed'
  <2> SUFFICES ASSUME NEW j \in DOMAIN records'
               PROVE  /\ j \in DOMAIN records /\ Shrinks(j)
                      /\ records[j].kind = "resident" =>
                            \/ Known(j, records'[j].password)
                            \/ <<records[j].username, records'[j].password>> \in mailed'
    OBVIOUS
  <2>1. CASE j = k
    BY <2>1 DEF Rewrites, Shrinks
  <2>2. CASE j # k
    <3>1. j \in DOMAIN records /\ records'[j] = records[j]
      BY <2>2 DEF Rewrites
    <3>2. QED
      BY <3>1 DEF Shrinks, SameAccount, Known
  <2>3. QED
    BY <2>1, <2>2
<1>3. RepoOK' /\ HistoryOK'
  BY DEF IInv, RepoOK, HistoryOK, Rewrites
<1>4. CarriesOK(q, mailed', issuedIds') /\ FitsRecord(q, now', records', Reported', X[a])
  BY <1>1 DEF Rewrites
<1>5. HandsOver(a, q)
  BY DEF HandsOver
<1>6. QED
  BY <1>1, <1>2, <1>3, <1>4, <1>5, ProgressStep

\* Nothing was told while record k got the password that was told of it, if any.
LEMMA ToldStays ==
    ASSUME NEW X, IInv(X), NEW a \in Admin, NEW q, Become(a, q), Continues(a, q),
           NEW k, NEW password, Rewrites(k, password), told' = told,
           k \in DOMAIN told => password = told[k]
    PROVE  /\ ToldOK' /\ DOMAIN told' \subseteq issuedIds
           /\ \A j \in DOMAIN told' : told'[j] \in Password
<1>1. ToldOK /\ adm \in [Admin -> AdminState]
  BY DEF IInv, RequestsOK
<1>2. ASSUME NEW j \in DOMAIN told'
      PROVE  /\ j \in DOMAIN told /\ told'[j] = told[j]
             /\ j \in DOMAIN records' => j \in DOMAIN records /\ records'[j].password = told[j]
  <2>1. CASE j = k
    BY <1>2, <2>1 DEF Rewrites
  <2>2. CASE j # k
    BY <1>1, <1>2, <2>2 DEF Rewrites, ToldOK
  <2>3. QED
    BY <2>1, <2>2
<1>3. ASSUME NEW j, q.pc # "idle", q.account.id = j
      PROVE  WorksOn(a, j) /\ q.account = adm[a].account /\ q.alone = adm[a].alone
  BY <1>3, Zenon DEF Continues, WorksOn
<1>4. ToldOK'
  BY <1>1, <1>2, <1>3, ToldShrinks
<1>5. QED
  BY <1>4 DEF IInv, HistoryOK

\* A blocked account loses its devices and keeps the password the request has read
\* (Update).
LEMMA ClearStep ==
    ASSUME NEW X, IInv(X), NEW a \in Admin, NEW outcome, Clear(a, outcome)
    PROVE  IInv(X)'
<1> DEFINE p == adm[a]
           k == p.account.id
           q == IF outcome = "saved" THEN [p EXCEPT !.pc = "updating"] ELSE IdleAdmin
<1>1. /\ p.pc = "clearing" /\ Become(a, q)
      /\ ReplacePasswordAndClearDevices(k, p.account.password, outcome)
      /\ UNCHANGED <<net, missed, issuedIds, drawn, mailed, told, inherited>>
  BY DEF Clear, adminHistory
<1>2. /\ p \in AdminState /\ CarriesOK(p, mailed, issuedIds)
      /\ FitsRecord(p, now, records, Reported, X[a])
      /\ p.account \in Account /\ p.account.password \in Password
  BY <1>1, OneRequest DEF Account
<1>3. Rewrites(k, p.account.password)
  BY <1>1, <1>2, RotateRewrites DEF IInv, RepoOK
<1>4. WorksOn(a, k) /\ Known(k, p.account.password)
  BY <1>1 DEF WorksOn, Known
<1>5. /\ CarriesOK(q, mailed, issuedIds) /\ FitsRecord(q, now, records', Reported, X[a])
      /\ Continues(a, q)
  <2>1. CASE outcome = "saved"
    <3>1. q = [p EXCEPT !.pc = "updating"]
      BY <2>1
    <3>2. q \in AdminState
      BY <1>2, <3>1 DEF AdminState
    <3>3. /\ q.pc = "updating" /\ q.account = p.account /\ q.alone = p.alone
          /\ q.op = p.op /\ q.next = p.next
      BY <1>2, <3>1 DEF AdminState
    <3> HIDE DEF q
    <3>4. CarriesOK(q, mailed, issuedIds)
      BY <1>1, <1>2, <3>2, <3>3 DEF CarriesOK
    <3>5. k \in DOMAIN records => SameAccount(p.account, records[k])
      BY <1>1, <1>2 DEF FitsRecord
    <3>6. SameAccount(p.account, records'[k])
      BY <1>3, <3>5 DEF Rewrites, SameAccount
    <3>7. FitsRecord(q, now, records', Reported, X[a])
      BY <3>3, <3>6 DEF FitsRecord
    <3>8. QED
      BY <1>1, <3>3, <3>4, <3>7 DEF Continues
  <2>2. CASE outcome # "saved"
    <3>1. q = IdleAdmin
      BY <2>2
    <3>2. QED
      BY <3>1, IdleOK DEF Continues
  <2>3. QED
    BY <2>1, <2>2
<1> HIDE DEF q
<1>6. k \in DOMAIN told => p.account.password = told[k]
  BY <1>3, <1>4 DEF IInv, ToldOK, Rewrites
<1>7. /\ ToldOK' /\ DOMAIN told' \subseteq issuedIds
      /\ \A j \in DOMAIN told' : told'[j] \in Password
  BY <1>1, <1>3, <1>5, <1>6, ToldStays
<1>8. drawn' \subseteq Password /\ p.pc \notin {"mailing", "undoing"}
  BY <1>1 DEF IInv, HistoryOK
<1>9. QED
  BY <1>1, <1>3, <1>4, <1>5, <1>7, <1>8, RewriteStep

\* The copy takes the place of the record, but for password and devices (Update).
LEMMA ApplyUpdateStep ==
    ASSUME NEW X, IInv(X), NEW a \in Admin, NEW outcome, ApplyUpdate(a, outcome)
    PROVE  IInv(X)'
<1> DEFINE u == adm[a].account
<1>1. /\ adm[a].pc = "updating" /\ Become(a, IdleAdmin) /\ Update(u, outcome)
      /\ UNCHANGED <<net, missed, issuedIds, drawn, mailed, told, inherited>>
  BY DEF ApplyUpdate, adminHistory
<1>2. /\ u \in Account /\ u.kind = "resident" /\ u.max = ResidentLimit
      /\ u.id \in DOMAIN records => SameAccount(u, records[u.id])
  BY <1>1, OneRequest DEF CarriesOK, FitsRecord
<1>3. Rewrites(u.id, records[u.id].password)
  BY <1>1, <1>2, UpdateRewrites DEF IInv, RepoOK
<1>4. /\ CarriesOK(IdleAdmin, mailed, issuedIds)
      /\ FitsRecord(IdleAdmin, now, records', Reported, X[a])
      /\ Continues(a, IdleAdmin)
  BY IdleOK DEF Continues
<1>5. u.id \in DOMAIN told => records[u.id].password = told[u.id]
  BY <1>3 DEF IInv, ToldOK, Rewrites
<1>6. /\ ToldOK' /\ DOMAIN told' \subseteq issuedIds
      /\ \A j \in DOMAIN told' : told'[j] \in Password
  BY <1>1, <1>3, <1>4, <1>5, ToldStays
<1>7. drawn' \subseteq Password /\ Known(u.id, records[u.id].password)
  BY <1>1 DEF IInv, HistoryOK, Known
<1>8. QED
  BY <1>1, <1>3, <1>4, <1>6, <1>7, RewriteStep

\* A password is told of account k, at whose work there is nobody who does not
\* have it.
LEMMA ToldAnew ==
    ASSUME ToldOK, adm \in [Admin -> AdminState], NEW a \in Admin, NEW q, Become(a, q),
           NEW k, NEW password, told' = WithRecord(told, k, password),
           k \in DOMAIN records' => records'[k].password = password,
           \A j \in DOMAIN records' : j # k =>
              j \in DOMAIN records /\ records'[j].password = records[j].password,
           \A x \in Admin : x # a => ~WorksOn(x, k),
           q.pc # "idle" => \/ q = adm[a] /\ q.account.id # k
                            \/ q.account.id = k /\ q.account.password = password /\ q.alone
    PROVE  ToldOK'
<1>1. adm'[a] = q /\ \A x \in Admin : x # a => adm'[x] = adm[x]
  BY Becomes
<1>2. /\ DOMAIN told' = DOMAIN told \cup {k} /\ told'[k] = password
      /\ \A j \in DOMAIN told' : j # k => j \in DOMAIN told /\ told'[j] = told[j]
  BY DEF WithRecord
<1>3. ASSUME NEW x \in Admin, NEW j \in DOMAIN told', adm'[x].pc # "idle",
             adm'[x].account.id = j
      PROVE  /\ adm'[x].alone
             /\ j \in DOMAIN records' => adm'[x].account.password = told'[j]
  <2>1. CASE j = k
    <3>1. x = a
      BY <1>1, <1>3, <2>1 DEF WorksOn
    <3>2. q.account.id = k /\ q.account.password = password /\ q.alone
      BY <1>1, <1>3, <2>1, <3>1, Zenon
    <3>3. QED
      BY <1>1, <1>2, <2>1, <3>1, <3>2
  <2>2. CASE j # k
    <3>1. adm'[x] = adm[x]
      BY <1>1, <1>3, <2>2
    <3>2. WorksOn(x, j) /\ j \in DOMAIN told /\ told'[j] = told[j]
      BY <1>2, <1>3, <2>2, <3>1 DEF WorksOn
    <3>3. adm'[x].alone
      BY <3>1, <3>2, Zenon DEF ToldOK
    <3>4. j \in DOMAIN records' => adm'[x].account.password = told'[j]
      BY <2>2, <3>1, <3>2 DEF ToldOK
    <3>5. QED
      BY <3>3, <3>4
  <2>3. QED
    BY <2>1, <2>2
<1>4. ASSUME NEW j \in DOMAIN told' \cap DOMAIN records'
      PROVE  records'[j].password = told'[j]
  <2>1. CASE j = k
    BY <1>2, <1>4, <2>1
  <2>2. CASE j # k
    BY <1>2, <1>4, <2>2 DEF ToldOK
  <2>3. QED
    BY <2>1, <2>2
<1>5. QED
  BY <1>3, <1>4 DEF ToldOK, WorksOn

\* The new password is stored and the devices are dropped (ChangePassword).
LEMMA ReplaceStep ==
    ASSUME NEW X, IInv(X), NEW a \in Admin, NEW password \in Password, NEW outcome,
           Replace(a, password, outcome)
    PROVE  IInv(X)'
<1> DEFINE p == adm[a]
           k == p.account.id
<1>1. /\ p.pc = "replacing" /\ Become(a, IdleAdmin)
      /\ p.account.kind = "resident" => password = p.password
      /\ ReplacePasswordAndClearDevices(k, password, outcome)
      /\ drawn' = drawn \cup {password}
      /\ UNCHANGED <<net, missed, issuedIds, mailed, inherited>>
  BY DEF Replace
<1>2. \/ outcome # "saved" /\ told' = WithoutRecord(told, k)
      \/ p.alone /\ told' = WithRecord(told, k, password)
      \/ outcome = "saved" /\ ~p.alone /\ told' = told
  BY Zenon DEF Replace
<1>3. /\ p \in AdminState /\ CarriesOK(p, mailed, issuedIds)
      /\ FitsRecord(p, now, records, Reported, X[a])
      /\ p.account \in Account /\ adm \in [Admin -> AdminState]
      /\ k \in issuedIds
  BY <1>1, OneRequest DEF CarriesOK
<1>4. Rewrites(k, password)
  BY <1>1, RotateRewrites DEF IInv, RepoOK
<1>5. SameAccount(p.account, records[k]) /\ k \in DOMAIN records
  BY <1>1, <1>3, <1>4 DEF FitsRecord, Rewrites
<1>6. records[k].kind = "resident" => <<records[k].username, password>> \in mailed
  BY <1>1, <1>3, <1>5 DEF CarriesOK, SameAccount
<1>7. /\ CarriesOK(IdleAdmin, mailed, issuedIds)
      /\ FitsRecord(IdleAdmin, now, records', Reported, X[a])
      /\ Continues(a, IdleAdmin) /\ IdleAdmin.pc = "idle"
  BY IdleOK DEF Continues
<1>8. drawn' \subseteq Password /\ p.pc \notin {"mailing", "undoing"}
  BY <1>1 DEF IInv, HistoryOK
<1>9. WorksOn(a, k) /\ ToldOK /\ DOMAIN told \subseteq issuedIds
      /\ \A j \in DOMAIN told : told[j] \in Password
  BY <1>1 DEF WorksOn, IInv, HistoryOK
<1>10. /\ ToldOK' /\ DOMAIN told' \subseteq issuedIds
       /\ \A j \in DOMAIN told' : told'[j] \in Password
  <2>1. CASE told' = WithoutRecord(told, k)
    <3>1. /\ DOMAIN told' = DOMAIN told \ {k}
          /\ \A j \in DOMAIN told' : told'[j] = told[j]
      BY <2>1 DEF WithoutRecord
    <3>2. \A j \in DOMAIN told' : j \in DOMAIN records' =>
             j \in DOMAIN records /\ records'[j].password = told[j]
      BY <1>4, <1>9, <3>1 DEF Rewrites, ToldOK
    <3>3. ToldOK'
      BY <1>1, <1>3, <1>7, <1>9, <3>1, <3>2, ToldShrinks
    <3>4. QED
      BY <1>9, <3>1, <3>3
  <2>2. CASE p.alone /\ told' = WithRecord(told, k, password)
    <3>1. \A x \in Admin : x # a => ~WorksOn(x, k)
      <4>1. SUFFICES ASSUME NEW x \in Admin, x # a, WorksOn(x, k)
                     PROVE  FALSE
        OBVIOUS
      <4>2. p.pc # "idle" /\ adm[x].pc # "idle" /\ p.account.id = adm[x].account.id
        BY <1>1, <4>1 DEF WorksOn
      <4>3. ~adm[a].alone
        BY <4>1, <4>2, Zenon DEF IInv, ApartOK
      <4>4. QED
        BY <2>2, <4>3, Zenon
    <3>2. /\ DOMAIN told' = DOMAIN told \cup {k}
          /\ \A j \in DOMAIN told' : told'[j] = IF j = k THEN password ELSE told[j]
      BY <2>2 DEF WithRecord
    <3>3. /\ records'[k].password = password
          /\ \A j \in DOMAIN records' : j # k =>
                j \in DOMAIN records /\ records'[j].password = records[j].password
      BY <1>4 DEF Rewrites
    <3>4. ToldOK'
      BY <1>1, <1>3, <1>7, <1>9, <2>2, <3>1, <3>3, ToldAnew
    <3>5. QED
      BY <1>3, <1>9, <3>2, <3>4
  <2>3. CASE ~p.alone /\ told' = told
    <3>1. k \notin DOMAIN told
      BY <1>9, <2>3, Zenon DEF ToldOK
    <3>2. QED
      BY <1>1, <1>4, <1>7, <2>3, <3>1, ToldStays
  <2>4. QED
    BY <1>2, <2>1, <2>2, <2>3
<1>11. QED
  BY <1>1, <1>4, <1>6, <1>7, <1>8, <1>10, RewriteStep

-----------------------------------------------------------------------------
(* Steps that delete a record                                              *)

\* There is no record k any more.
Removes(k) ==
    /\ DOMAIN records' = DOMAIN records \ {k}
    /\ \A j \in DOMAIN records' : records'[j] = records[j]
    /\ RecordsOK(records') /\ FileOK(file') /\ now' = now
    /\ FileIds(file') \subseteq FileIds(file) \cup DOMAIN records

LEMMA DeleteRemoves ==
    ASSUME RecordsOK(records), FileOK(file), NEW k, NEW outcome, Delete(k, outcome)
    PROVE  Removes(k)
<1> DEFINE recs == WithoutRecord(records, k)
<1>1. records' = recs /\ Persist(recs, outcome) /\ now' = now
  BY DEF Delete, Commit
<1>2. DOMAIN recs = DOMAIN records \ {k} /\ \A j \in DOMAIN recs : recs[j] = records[j]
  BY DEF WithoutRecord
<1> HIDE DEF recs
<1>3. RecordsOK(recs)
  BY <1>2 DEF RecordsOK
<1>4. FileOK(file') /\ FileIds(file') \subseteq FileIds(file) \cup DOMAIN recs
  BY <1>1, <1>3, WriteOK
<1>5. QED
  BY <1>1, <1>2, <1>3, <1>4 DEF Removes

\* A request ends with the account it works on.
LEMMA RemoveStep ==
    ASSUME NEW X, IInv(X), NEW a \in Admin, Become(a, IdleAdmin), Removes(adm[a].account.id),
           told' = WithoutRecord(told, adm[a].account.id),
           UNCHANGED <<net, missed, issuedIds, drawn, mailed, inherited>>
    PROVE  IInv(X)'
<1> DEFINE k == adm[a].account.id
<1>1. IdleAdmin.pc = "idle"
  BY IdleOK
<1>2. Onward
  BY SameReport DEF IInv, RepoOK, Removes, Onward
<1>3. RepoOK' /\ DOMAIN records' \subseteq DOMAIN records
  BY DEF IInv, RepoOK, Removes
<1>4. DOMAIN told' = DOMAIN told \ {k} /\ \A j \in DOMAIN told' : told'[j] = told[j]
  BY DEF WithoutRecord
<1>5. HistoryOK'
  BY <1>3, <1>4 DEF IInv, HistoryOK, Removes
<1>6. \A j \in DOMAIN records' : /\ j \in DOMAIN records /\ records'[j] = records[j]
                                 /\ Shrinks(j) /\ Known(j, records'[j].password)
  BY <1>3 DEF Removes, Shrinks, SameAccount, Known
<1>7. ToldOK'
  <2>1. ToldOK /\ adm \in [Admin -> AdminState]
    BY DEF IInv, RequestsOK
  <2>2. \A j \in DOMAIN told' : j \in DOMAIN records' =>
           j \in DOMAIN records /\ records'[j].password = told[j]
    BY <1>4, <1>6, <2>1 DEF ToldOK
  <2>3. QED
    BY <1>1, <1>4, <2>1, <2>2, ToldShrinks
<1>8. /\ CarriesOK(IdleAdmin, mailed', issuedIds')
      /\ FitsRecord(IdleAdmin, now', records', Reported', X[a])
  BY IdleOK
<1>9. Continues(a, IdleAdmin) /\ HandsOver(a, IdleAdmin)
  BY <1>1 DEF Continues, HandsOver, Removes
<1>10. QED
  BY <1>2, <1>3, <1>5, <1>6, <1>7, <1>8, <1>9, ProgressStep

\* An account is deleted at an administrator's request (Delete).
LEMMA DeleteRecordStep ==
    ASSUME NEW X, IInv(X), NEW a \in Admin, NEW outcome, DeleteRecord(a, outcome)
    PROVE  IInv(X)'
<1>1. Removes(adm[a].account.id)
  BY DeleteRemoves DEF DeleteRecord, IInv, RepoOK
<1>2. QED
  BY <1>1, RemoveStep DEF DeleteRecord

\* A new account is taken back (Create).
LEMMA UndoStep ==
    ASSUME NEW X, IInv(X), NEW a \in Admin, NEW outcome, Undo(a, outcome)
    PROVE  IInv(X)'
<1> DEFINE k == adm[a].account.id
<1>1. RecordsOK(records) /\ FileOK(file)
  BY DEF IInv, RepoOK
<1>2. Removes(k)
  <2>1. CASE k \in DOMAIN records
    BY <1>1, <2>1, DeleteRemoves DEF Undo
  <2>2. CASE k \notin DOMAIN records
    <3>1. records' = records /\ file' = file /\ now' = now
      BY <2>2 DEF Undo, repositoryVars
    <3>2. QED
      BY <1>1, <2>2, <3>1 DEF Removes
  <2>3. QED
    BY <2>1, <2>2
<1>3. QED
  BY <1>2, RemoveStep DEF Undo

-----------------------------------------------------------------------------
(* Steps that create an account                                            *)

\* A request to create an account gets an id that nobody works on (Create).
LEMMA StartCreationStep ==
    ASSUME NEW X, IInv(X), NEW a \in Admin, NEW apartment, NEW id \in Id, NEW password,
           StartCreation(a, apartment, id, password)
    PROVE  IInv(X)'
<1> DEFINE u == NewResident(id, apartment, password, now)
           q == [IdleAdmin EXCEPT !.pc = "creating", !.op = "create", !.account = u]
<1>1. /\ adm[a].pc = "idle" /\ apartment \in DOMAIN UsernameOf /\ id \notin issuedIds
      /\ password \in Password /\ Become(a, q)
      /\ issuedIds' = issuedIds \cup {id} /\ drawn' = drawn \cup {password}
      /\ UNCHANGED <<net, missed, mailed, told, inherited>>
      /\ now' = now /\ records' = records /\ file' = file
  BY DEF StartCreation, Fresh, repositoryVars
<1>2. /\ adm \in [Admin -> AdminState] /\ now \in Nat /\ ToldOK
      /\ \A x \in Admin : adm[x].pc # "idle" => adm[x].account.id \in issuedIds
  BY OneRequest DEF CarriesOK, IInv
<1>3. RecordOK(u) /\ u.id = id /\ u \in Account
  BY <1>1, <1>2, NewAccountsOK DEF RecordOK
<1>4. u.devices = NoDevices /\ Listed(u.devices) = {}
  BY EmptyList DEF NewResident
<1> HIDE DEF u
<1>5. q \in AdminState
  <2>1. IdleAdmin \in AdminState
    BY IdleOK DEF CarriesOK
  <2>2. QED
    BY <1>3, <2>1 DEF AdminState
<1>6. /\ q.pc = "creating" /\ q.op = "create" /\ q.account = u /\ q.next = 1 /\ q.alone = TRUE
  BY DEF IdleAdmin
<1> HIDE DEF q
<1>7. CarriesOK(q, mailed', issuedIds')
  BY <1>1, <1>3, <1>4, <1>5, <1>6 DEF CarriesOK
<1>8. id \notin DOMAIN records /\ id \notin DOMAIN told
  BY <1>1 DEF IInv, HistoryOK
<1>9. FitsRecord(q, now', records', Reported', X[a])
  BY <1>1, <1>3, <1>6, <1>8 DEF FitsRecord
<1>10. Onward
  BY <1>1, SameReport DEF IInv, RepoOK, Onward
<1>11. RepoOK' /\ HistoryOK'
  BY <1>1 DEF IInv, RepoOK, HistoryOK
<1>12. \A k \in DOMAIN records' : /\ k \in DOMAIN records /\ Shrinks(k)
                                  /\ Known(k, records'[k].password)
  BY <1>1 DEF Shrinks, SameAccount, Known
<1>13. RequestsOK(X)'
  BY <1>1, <1>7, <1>9, <1>10, <1>12, RequestMoves DEF IInv
<1>14. adm'[a] = q /\ \A x \in Admin : x # a => adm'[x] = adm[x]
  BY <1>1, <1>2, Becomes
<1>15. DeliveryOK'
  <2>1. HandsOver(a, q) /\ Moves(a, q)
    BY <1>1, <1>14 DEF HandsOver, Moves
  <2>2. q.account.id \notin DOMAIN records
    BY <1>3, <1>6, <1>8
  <2>3. QED
    BY <1>1, <1>10, <1>12, <2>1, <2>2, DeliveryMoves DEF IInv
<1>16. ToldOK'
  <2>1. \A k \in DOMAIN told' : q.account.id # k
    BY <1>1, <1>3, <1>6, <1>8
  <2>2. \A k \in DOMAIN told' : k \in DOMAIN records' =>
           k \in DOMAIN records /\ records'[k].password = told[k]
    BY <1>1, <1>2 DEF ToldOK
  <2>3. QED
    BY <1>1, <1>2, <2>1, <2>2, ToldShrinks
<1>17. ApartOK'
  <2>1. ASSUME NEW x \in Admin, NEW y \in Admin, x # y, adm'[x].pc # "idle",
               adm'[y].pc # "idle", adm'[x].account.id = adm'[y].account.id
        PROVE  ~adm'[x].alone
    <3>1. x # a /\ y # a
      BY <1>1, <1>2, <1>3, <1>6, <1>14, <2>1
    <3>2. adm'[x] = adm[x] /\ adm'[y] = adm[y]
      BY <1>14, <3>1
    <3>3. QED
      BY <2>1, <3>2, Zenon DEF IInv, ApartOK
  <2>2. ASSUME NEW x \in Admin, adm'[x].pc = "creating"
        PROVE  adm'[x].alone
    <3>1. CASE x = a
      BY <1>6, <1>14, <3>1
    <3>2. CASE x # a
      BY <1>14, <2>2, <3>2, Zenon DEF IInv, ApartOK
    <3>3. QED
      BY <3>1, <3>2
  <2>3. QED
    BY <2>1, <2>2, Zenon DEF ApartOK
<1>18. QED
  BY <1>11, <1>13, <1>15, <1>16, <1>17 DEF IInv

\* What a creation makes of memory and file.
LEMMA CreateAdds ==
    ASSUME RecordsOK(records), FileOK(file), NEW u, RecordOK(u), NEW outcome,
           Create(u, outcome)
    PROVE  /\ u.id \notin DOMAIN records
           /\ RecordsOK(records') /\ FileOK(file') /\ now' = now
           /\ FileIds(file') \subseteq FileIds(file) \cup DOMAIN records \cup {u.id}
           /\ outcome # "saved" => records' = records
           /\ outcome = "saved" =>
                 /\ DOMAIN records' = DOMAIN records \cup {u.id}
                 /\ records'[u.id] = u
                 /\ \A j \in DOMAIN records : records'[j] = records[j]
<1> DEFINE recs == WithRecord(records, u.id, u)
<1>1. /\ Available(u) /\ u.id \notin DOMAIN records
      /\ records' = IF outcome = "saved" THEN recs ELSE records
      /\ Persist(recs, outcome) /\ now' = now
  BY DEF Create, Available
<1>2. /\ DOMAIN recs = DOMAIN records \cup {u.id} /\ recs[u.id] = u
      /\ \A j \in DOMAIN records : recs[j] = records[j]
  BY <1>1 DEF WithRecord
<1> HIDE DEF recs
<1>3. RecordsOK(recs)
  <2>1. DOMAIN recs \subseteq Id
    BY <1>2 DEF RecordsOK, RecordOK, Account
  <2>2. \A j \in DOMAIN recs : RecordOK(recs[j]) /\ recs[j].id = j
    BY <1>2 DEF RecordsOK
  <2>3. \A j \in DOMAIN records : Compatible(records[j], u) /\ Compatible(u, records[j])
    BY <1>1 DEF RecordsOK, Available, Compatible
  <2>4. \A j, l \in DOMAIN recs : j # l => Compatible(recs[j], recs[l])
    BY <1>2, <2>3 DEF RecordsOK
  <2>5. QED
    BY <2>1, <2>2, <2>4 DEF RecordsOK
<1>4. FileOK(file') /\ FileIds(file') \subseteq FileIds(file) \cup DOMAIN recs
  BY <1>1, <1>3, WriteOK
<1>5. QED
  BY <1>1, <1>2, <1>3, <1>4

\* The record of a new account is stored, or the request ends (Create).
LEMMA CreateRecordStep ==
    ASSUME NEW X, IInv(X), NEW a \in Admin, NEW outcome, CreateRecord(a, outcome)
    PROVE  IInv(X)'
<1> DEFINE p == adm[a]
           u == p.account
           k == u.id
           q == IF outcome = "saved" THEN [p EXCEPT !.pc = "mailing"] ELSE IdleAdmin
<1>1. /\ p.pc = "creating" /\ Become(a, q) /\ Create(u, outcome)
      /\ told' = IF outcome = "saved" THEN WithRecord(told, k, u.password) ELSE told
      /\ UNCHANGED <<net, missed, issuedIds, drawn, mailed, inherited>>
  BY DEF CreateRecord
<1>2. /\ p \in AdminState /\ CarriesOK(p, mailed, issuedIds)
      /\ u \in Account /\ RecordOK(u) /\ Listed(u.devices) = {} /\ k \in issuedIds
      /\ adm \in [Admin -> AdminState] /\ now \in Nat /\ ToldOK
      /\ RecordsOK(records) /\ FileOK(file)
  BY <1>1, OneRequest DEF CarriesOK, IInv, RepoOK
<1>3. /\ k \notin DOMAIN records
      /\ RecordsOK(records') /\ FileOK(file') /\ now' = now
      /\ FileIds(file') \subseteq FileIds(file) \cup DOMAIN records \cup {k}
      /\ outcome # "saved" => records' = records
      /\ outcome = "saved" =>
            /\ DOMAIN records' = DOMAIN records \cup {k}
            /\ records'[k] = u
            /\ \A j \in DOMAIN records : records'[j] = records[j]
  BY <1>1, <1>2, CreateAdds
<1>4. Onward
  BY <1>1, <1>3, SameReport DEF IInv, RepoOK, Onward
<1>5. RepoOK'
  BY <1>1, <1>3 DEF IInv, RepoOK
<1>6. HistoryOK'
  <2>1. DOMAIN records' \subseteq issuedIds /\ FileIds(file') \subseteq issuedIds
    BY <1>2, <1>3 DEF IInv, HistoryOK
  <2>2. /\ DOMAIN told' \subseteq issuedIds
        /\ \A j \in DOMAIN told' : told'[j] \in Password
    BY <1>1, <1>2 DEF IInv, HistoryOK, WithRecord, Account
  <2>3. QED
    BY <1>1, <2>1, <2>2 DEF IInv, HistoryOK
<1>7. \A j \in DOMAIN records' : j \in DOMAIN records =>
         records'[j] = records[j] /\ Shrinks(j) /\ Known(j, records'[j].password)
  BY <1>3 DEF Shrinks, SameAccount, Known
<1>8. \A x \in Admin : x # a => ~WorksOn(x, k)
  <2> SUFFICES ASSUME NEW x \in Admin, x # a, WorksOn(x, k)
               PROVE  FALSE
    OBVIOUS
  <2>1. p.pc # "idle" /\ adm[x].pc # "idle" /\ p.account.id = adm[x].account.id
    BY <1>1 DEF WorksOn
  <2>2. ~p.alone
    BY <2>1, Zenon DEF IInv, ApartOK
  <2>3. QED
    BY <1>1, <2>2, Zenon DEF IInv, ApartOK
<1>9. p.alone
  BY <1>1, Zenon DEF IInv, ApartOK
<1>10. CASE outcome # "saved"
  <2>1. Become(a, IdleAdmin) /\ records' = records /\ told' = told /\ IdleAdmin.pc = "idle"
    BY <1>1, <1>3, <1>10, IdleOK
  <2>2. /\ CarriesOK(IdleAdmin, mailed', issuedIds')
        /\ FitsRecord(IdleAdmin, now', records', Reported', X[a])
    BY IdleOK
  <2>3. Continues(a, IdleAdmin) /\ HandsOver(a, IdleAdmin)
    BY <1>1, <2>1 DEF Continues, HandsOver
  <2>4. ToldOK'
    <3>1. \A j \in DOMAIN told' : j \in DOMAIN records' =>
             j \in DOMAIN records /\ records'[j].password = told[j]
      BY <1>2, <2>1 DEF ToldOK
    <3>2. QED
      BY <1>2, <2>1, <3>1, ToldShrinks
  <2>5. QED
    BY <1>1, <1>4, <1>5, <1>6, <1>7, <2>1, <2>2, <2>3, <2>4, ProgressStep
<1>11. CASE outcome = "saved"
  <2> DEFINE r == [p EXCEPT !.pc = "mailing"]
  <2>1. Become(a, r) /\ told' = WithRecord(told, k, u.password)
    BY <1>1, <1>11
  <2>2. r \in AdminState
    BY <1>2 DEF AdminState
  <2>3. /\ r.pc = "mailing" /\ r.account = u /\ r.alone = p.alone
        /\ r.op = p.op /\ r.next = p.next
    BY <1>2 DEF AdminState
  <2> HIDE DEF r
  <2>4. CarriesOK(r, mailed', issuedIds')
    BY <1>1, <1>2, <2>2, <2>3 DEF CarriesOK
  <2>5. FitsRecord(r, now', records', Reported', X[a])
    BY <1>2, <1>3, <1>11, <2>3 DEF FitsRecord, SameAccount
  <2>6. RequestsOK(X)'
    <3>1. \A x \in Admin : /\ x # a /\ adm[x].pc # "idle"
                           /\ adm[x].account.id \in DOMAIN records'
                           => adm[x].account.id \in DOMAIN records
      BY <1>3, <1>8, <1>11 DEF WorksOn
    <3>2. \A j \in DOMAIN records' : Shrinks(j)
      BY <1>7 DEF Shrinks
    <3>3. QED
      BY <1>4, <2>1, <2>4, <2>5, <3>1, <3>2, RequestMoves DEF IInv
  <2>7. DeliveryOK'
    <3>1. Moves(a, r) /\ HandsOver(a, r)
      BY <1>1, <1>2, <2>1, Becomes DEF Moves, HandsOver
    <3>2. \A j \in DOMAIN records' : j \notin DOMAIN records => Introduces(a, r, j)
      BY <1>3, <1>8, <1>11, <2>3 DEF Introduces
    <3>3. r.account.id \notin DOMAIN records
      BY <1>3, <2>3
    <3>4. QED
      BY <1>1, <1>4, <1>7, <3>1, <3>2, <3>3, DeliveryMoves DEF IInv
  <2>8. ApartOK'
    <3>1. Continues(a, r)
      BY <1>1, <2>3 DEF Continues
    <3>2. QED
      BY <1>2, <2>1, <3>1, ApartMoves DEF IInv
  <2>9. ToldOK'
    <3>1. r.account.id = k /\ r.account.password = u.password /\ r.alone
      BY <1>9, <2>3, Zenon
    <3>2. \A j \in DOMAIN records' : j # k =>
             j \in DOMAIN records /\ records'[j].password = records[j].password
      BY <1>3, <1>11
    <3>3. records'[k].password = u.password
      BY <1>3, <1>11
    <3>4. QED
      BY <1>2, <1>8, <2>1, <3>1, <3>2, <3>3, ToldAnew
  <2>10. QED
    BY <1>5, <1>6, <2>6, <2>7, <2>8, <2>9 DEF IInv
<1>12. QED
  BY <1>10, <1>11

\* An employee's account is stored at once (CreateEmployee).
LEMMA CreateEmployeeStep ==
    ASSUME NEW X, IInv(X), NEW a \in Admin, NEW id \in Id, NEW name \in Username,
           NEW password \in Password, NEW outcome,
           CreateEmployee(a, id, name, password, outcome)
    PROVE  IInv(X)'
<1> DEFINE u == NewEmployee(id, name, password, now)
           p == adm[a]
<1>1. /\ p.pc = "idle" /\ id \notin issuedIds /\ Create(u, outcome)
      /\ issuedIds' = issuedIds \cup {id} /\ drawn' = drawn \cup {password}
      /\ told' = IF outcome = "saved" THEN WithRecord(told, id, password) ELSE told
      /\ UNCHANGED <<net, missed, adm, mailed, inherited>>
  BY DEF CreateEmployee
<1>2. /\ adm \in [Admin -> AdminState] /\ now \in Nat /\ ToldOK
      /\ CarriesOK(p, mailed, issuedIds) /\ FitsRecord(p, now, records, Reported, X[a])
      /\ \A x \in Admin : adm[x].pc # "idle" => adm[x].account.id \in issuedIds
      /\ RecordsOK(records) /\ FileOK(file)
  BY OneRequest DEF CarriesOK, IInv, RepoOK
<1>3. RecordOK(u) /\ u.id = id /\ u \in Account /\ u.kind = "employee" /\ u.password = password
  BY <1>2, NewAccountsOK DEF RecordOK, NewEmployee
<1>4. /\ id \notin DOMAIN records
      /\ RecordsOK(records') /\ FileOK(file') /\ now' = now
      /\ FileIds(file') \subseteq FileIds(file) \cup DOMAIN records \cup {id}
      /\ outcome # "saved" => records' = records
      /\ outcome = "saved" =>
            /\ DOMAIN records' = DOMAIN records \cup {id}
            /\ records'[id] = u
            /\ \A j \in DOMAIN records : records'[j] = records[j]
  <2>1. Create(u, outcome) /\ RecordOK(u) /\ u.id = id
    BY <1>1, <1>3
  <2> HIDE DEF u
  <2>2. /\ u.id \notin DOMAIN records
        /\ RecordsOK(records') /\ FileOK(file') /\ now' = now
        /\ FileIds(file') \subseteq FileIds(file) \cup DOMAIN records \cup {u.id}
    BY <1>2, <2>1, CreateAdds
  <2>3. outcome # "saved" => records' = records
    BY <2>1 DEF Create
  <2>4. outcome = "saved" =>
           /\ DOMAIN records' = DOMAIN records \cup {u.id}
           /\ records'[u.id] = u
           /\ \A j \in DOMAIN records : records'[j] = records[j]
    BY <1>2, <2>1, CreateAdds
  <2>5. QED
    BY <2>1, <2>2, <2>3, <2>4
<1> HIDE DEF u
<1>5. Become(a, p) /\ \A x \in Admin : ~WorksOn(x, id)
  BY <1>1, <1>2 DEF Become, WorksOn
<1>6. Onward
  BY <1>1, <1>4, SameReport DEF IInv, RepoOK, Onward
<1>7. RepoOK'
  BY <1>1, <1>4 DEF IInv, RepoOK
<1>8. HistoryOK'
  <2>1. DOMAIN records' \subseteq issuedIds' /\ FileIds(file') \subseteq issuedIds'
    BY <1>1, <1>4 DEF IInv, HistoryOK
  <2>2. /\ DOMAIN told' \subseteq issuedIds'
        /\ \A j \in DOMAIN told' : told'[j] \in Password
    BY <1>1 DEF IInv, HistoryOK, WithRecord
  <2>3. QED
    BY <1>1, <2>1, <2>2 DEF IInv, HistoryOK
<1>9. \A j \in DOMAIN records' :
         /\ j \in DOMAIN records =>
               records'[j] = records[j] /\ Shrinks(j) /\ Known(j, records'[j].password)
         /\ j \notin DOMAIN records => j = id /\ records'[j].kind = "employee"
  BY <1>3, <1>4 DEF Shrinks, SameAccount, Known
<1>10. RequestsOK(X)'
  <2>1. CarriesOK(p, mailed', issuedIds')
    BY <1>2, <1>6, StillCarries
  <2>2. FitsRecord(p, now', records', Reported', X[a])
    BY <1>1 DEF FitsRecord
  <2>3. \A x \in Admin : /\ x # a /\ adm[x].pc # "idle"
                         /\ adm[x].account.id \in DOMAIN records'
                         => adm[x].account.id \in DOMAIN records
    BY <1>4, <1>5 DEF WorksOn
  <2>4. \A j \in DOMAIN records' : Shrinks(j)
    BY <1>9 DEF Shrinks
  <2>5. QED
    BY <1>5, <1>6, <2>1, <2>2, <2>3, <2>4, RequestMoves DEF IInv
<1>11. DeliveryOK'
  <2>1. Moves(a, p) /\ HandsOver(a, p)
    BY <1>1 DEF Moves, HandsOver
  <2>2. \A j \in DOMAIN records' : j \notin DOMAIN records => Introduces(a, p, j)
    BY <1>9 DEF Introduces
  <2>3. QED
    BY <1>1, <1>6, <1>9, <2>1, <2>2, DeliveryMoves DEF IInv
<1>12. ApartOK'
  BY <1>1 DEF IInv, ApartOK
<1>13. ToldOK'
  <2>1. CASE outcome = "saved"
    <3>1. told' = WithRecord(told, id, password) /\ records'[id].password = password
      BY <1>1, <1>3, <1>4, <2>1
    <3>2. \A j \in DOMAIN records' : j # id =>
             j \in DOMAIN records /\ records'[j].password = records[j].password
      BY <1>4, <2>1
    <3>3. QED
      BY <1>1, <1>2, <1>5, <3>1, <3>2, ToldAnew
  <2>2. CASE outcome # "saved"
    BY <1>1, <1>4, <2>2 DEF IInv, ToldOK, WorksOn
  <2>3. QED
    BY <2>1, <2>2
<1>14. QED
  BY <1>7, <1>8, <1>10, <1>11, <1>12, <1>13 DEF IInv

-----------------------------------------------------------------------------
(* Steps that read an account                                              *)

\* Whether a request is alone matters to nothing else it carries.
LEMMA AloneOnly ==
    ASSUME NEW q \in AdminState, NEW x \in BOOLEAN, NEW excused, NEW r,
           r = [q EXCEPT !.alone = x],
           CarriesOK(q, mailed, issuedIds), FitsRecord(q, now, records, Reported, excused)
    PROVE  /\ r \in AdminState /\ r.alone = x
           /\ r.pc = q.pc /\ r.account = q.account
           /\ CarriesOK(r, mailed, issuedIds)
           /\ FitsRecord(r, now, records, Reported, excused)
<1>1. r \in AdminState
  BY DEF AdminState
<1>2. /\ r.pc = q.pc /\ r.account = q.account /\ r.op = q.op /\ r.list = q.list
      /\ r.next = q.next /\ r.target = q.target /\ r.password = q.password
  BY DEF AdminState
<1>3. r.alone = x
  BY DEF AdminState
<1>4. CarriesOK(r, mailed, issuedIds)
  BY <1>1, <1>2 DEF CarriesOK
<1>5. FitsRecord(r, now, records, Reported, excused)
  BY <1>2 DEF FitsRecord, Awaits
<1>6. QED
  BY <1>1, <1>2, <1>3, <1>4, <1>5

\* A request begins with a copy of an account; from now on, it and the others at
\* work on the account know of each other.
LEMMA EnterStep ==
    ASSUME NEW X, IInv(X), NEW a \in Admin, NEW q, adm[a].pc = "idle", Enter(a, q),
           CarriesOK(q, mailed, issuedIds), FitsRecord(q, now, records, Reported, X[a]),
           q.pc \notin {"idle", "creating", "mailing", "undoing"},
           q.account.id \in DOMAIN records,
           q.account.password = records[q.account.id].password,
           UNCHANGED <<repositoryVars, net, missed, issuedIds, drawn, mailed, inherited>>
    PROVE  IInv(X)'
<1> DEFINE k == q.account.id
           others == {b \in Admin \ {a} : adm[b].pc # "idle" /\ adm[b].account.id = k}
           unmet == others = {}
           still(b) == adm[b].alone /\ b \notin others
<1>1. /\ adm \in [Admin -> AdminState] /\ q \in AdminState /\ ToldOK /\ ApartOK
      /\ now' = now /\ records' = records /\ file' = file
  BY DEF IInv, RequestsOK, CarriesOK, repositoryVars
<1>2. /\ adm' = [b \in Admin |-> IF b = a THEN [q EXCEPT !.alone = unmet]
                                 ELSE [adm[b] EXCEPT !.alone = still(b)]]
      /\ told' = IF unmet THEN told ELSE WithoutRecord(told, k)
  BY DEF Enter
<1>3. \A b \in Admin : b \in others <=> b # a /\ WorksOn(b, k)
  BY DEF WorksOn
<1>4. unmet \in BOOLEAN /\ \A b \in Admin : still(b) \in BOOLEAN
  OBVIOUS
<1>5. unmet <=> \A b \in Admin : b # a => ~WorksOn(b, k)
  BY <1>3
<1>6. \A b \in Admin : still(b) <=> adm[b].alone /\ ~(b # a /\ WorksOn(b, k))
  BY <1>3, Zenon
<1> HIDE DEF unmet, still, others
<1>7. /\ adm'[a] \in AdminState /\ adm'[a].alone = unmet
      /\ adm'[a].pc = q.pc /\ adm'[a].account = q.account
      /\ CarriesOK(adm'[a], mailed, issuedIds) /\ FitsRecord(adm'[a], now, records, Reported, X[a])
  <2>1. adm'[a] = [q EXCEPT !.alone = unmet]
    BY <1>2
  <2>2. QED
    BY <1>1, <1>4, <2>1, AloneOnly
<1>8. ASSUME NEW b \in Admin, b # a
      PROVE  /\ adm'[b] \in AdminState /\ adm'[b].alone = still(b)
             /\ adm'[b].pc = adm[b].pc /\ adm'[b].account = adm[b].account
             /\ CarriesOK(adm'[b], mailed, issuedIds)
             /\ FitsRecord(adm'[b], now, records, Reported, X[b])
  <2>1. adm'[b] = [adm[b] EXCEPT !.alone = still(b)] /\ adm[b] \in AdminState
    BY <1>1, <1>2, <1>8
  <2>2. CarriesOK(adm[b], mailed, issuedIds) /\ FitsRecord(adm[b], now, records, Reported, X[b])
    BY OneRequest
  <2>3. QED
    BY <1>4, <2>1, <2>2, AloneOnly
<1>9. adm' \in [Admin -> AdminState]
  BY <1>2, <1>7, <1>8
<1>10. RequestsOK(X)'
  BY <1>1, <1>7, <1>8, <1>9, SameReport DEF RequestsOK
<1>11. RepoOK'
  BY <1>1 DEF IInv, RepoOK
<1>12. \A j \in DOMAIN told' : j \in DOMAIN told /\ told'[j] = told[j] /\ (j # k \/ unmet)
  BY <1>2 DEF WithoutRecord
<1>13. HistoryOK'
  BY <1>1, <1>12 DEF IInv, HistoryOK
<1>14. DeliveryOK'
  <2>1. Onward
    BY <1>1, SameReport DEF IInv, RepoOK, Onward
  <2>2. \E r : r = adm'[a]
    OBVIOUS
  <2>3. PICK r : r = adm'[a]
    BY <2>2
  <2>4. Moves(a, r) /\ HandsOver(a, r)
    BY <1>8, <2>3 DEF Moves, HandsOver
  <2>5. Known(r.account.id, r.account.password)
    BY <1>7, <2>3 DEF Known
  <2>6. \A j \in DOMAIN records' : /\ j \in DOMAIN records /\ Shrinks(j)
                                   /\ Known(j, records'[j].password)
    BY <1>1 DEF Shrinks, SameAccount, Known
  <2>7. QED
    BY <2>1, <2>4, <2>5, <2>6, DeliveryMoves DEF IInv
<1>15. ToldOK'
  <2>1. ASSUME NEW j \in DOMAIN told', NEW x \in Admin, adm'[x].pc # "idle",
               adm'[x].account.id = j
        PROVE  /\ adm'[x].alone
               /\ j \in DOMAIN records' => adm'[x].account.password = told'[j]
    <3>1. CASE x = a
      <4>1. j = k /\ unmet
        BY <1>7, <1>12, <2>1, <3>1
      <4>2. adm'[x].alone
        BY <1>7, <3>1, <4>1, Zenon
      <4>3. j \in DOMAIN records' => records[k].password = told'[j]
        BY <1>1, <1>12, <2>1, <4>1 DEF ToldOK
      <4>4. QED
        BY <1>7, <3>1, <4>2, <4>3
    <3>2. CASE x # a
      <4>1. WorksOn(x, j) /\ adm'[x].account = adm[x].account /\ adm'[x].alone = still(x)
        BY <1>8, <2>1, <3>2 DEF WorksOn
      <4>2. j \in DOMAIN told /\ told'[j] = told[j]
        BY <1>12, <2>1
      <4>3. adm[x].alone
        BY <1>1, <4>1, <4>2, Zenon DEF ToldOK
      <4>4. ~WorksOn(x, k)
        <5>1. SUFFICES ASSUME WorksOn(x, k)
                       PROVE  FALSE
          OBVIOUS
        <5>2. j = k
          BY <4>1, <5>1 DEF WorksOn
        <5>3. unmet
          BY <1>12, <2>1, <5>2
        <5>4. QED
          BY <1>5, <3>2, <5>1, <5>3
      <4>5. adm'[x].alone
        BY <1>6, <4>1, <4>3, <4>4, Zenon
      <4>6. j \in DOMAIN records' => adm[x].account.password = told[j]
        BY <1>1, <4>1, <4>2 DEF ToldOK
      <4>7. QED
        BY <4>1, <4>2, <4>5, <4>6
    <3>3. QED
      BY <3>1, <3>2
  <2>2. \A j \in DOMAIN told' \cap DOMAIN records' : records'[j].password = told'[j]
    BY <1>1, <1>12 DEF ToldOK
  <2>3. QED
    BY <2>1, <2>2 DEF ToldOK, WorksOn
<1>16. ApartOK'
  <2>1. ASSUME NEW x \in Admin, NEW y \in Admin, x # y, adm'[x].pc # "idle",
               adm'[y].pc # "idle", adm'[x].account.id = adm'[y].account.id
        PROVE  ~adm'[x].alone
    <3>1. CASE x = a
      <4>1. WorksOn(y, k) /\ y # a
        BY <1>7, <1>8, <2>1, <3>1 DEF WorksOn
      <4>2. ~unmet
        BY <1>5, <4>1, Zenon
      <4>3. QED
        BY <1>7, <3>1, <4>2, Zenon
    <3>2. CASE x # a /\ y = a
      <4>1. WorksOn(x, k)
        BY <1>7, <1>8, <2>1, <3>2 DEF WorksOn
      <4>2. ~still(x)
        BY <1>6, <3>2, <4>1, Zenon
      <4>3. QED
        BY <1>8, <3>2, <4>2, Zenon
    <3>3. CASE x # a /\ y # a
      <4>1. /\ adm[x].pc # "idle" /\ adm[y].pc # "idle"
            /\ adm[x].account.id = adm[y].account.id
        BY <1>8, <2>1, <3>3
      <4>2. ~adm[x].alone
        BY <1>1, <2>1, <4>1, Zenon DEF ApartOK
      <4>3. ~still(x)
        BY <1>6, <4>2, Zenon
      <4>4. QED
        BY <1>8, <3>3, <4>3, Zenon
    <3>4. QED
      BY <3>1, <3>2, <3>3
  <2>2. ASSUME NEW x \in Admin, adm'[x].pc = "creating"
        PROVE  adm'[x].alone
    <3>1. x # a
      BY <1>7, <2>2
    <3>2. adm[x].pc = "creating"
      BY <1>8, <2>2, <3>1
    <3>3. ~WorksOn(x, k)
      BY <3>2, OneRequest DEF FitsRecord, WorksOn
    <3>4. adm[x].alone
      BY <1>1, <3>2, Zenon DEF ApartOK
    <3>5. still(x)
      BY <1>6, <3>3, <3>4, Zenon
    <3>6. QED
      BY <1>8, <3>1, <3>5, Zenon
  <2>3. QED
    BY <2>1, <2>2, Zenon DEF ApartOK
<1>17. QED
  BY <1>10, <1>11, <1>13, <1>14, <1>15, <1>16 DEF IInv

\* A request that will visit the devices of its copy begins (revokeAll).
LEMMA VisitStep ==
    ASSUME NEW X, IInv(X), NEW a \in Admin, NEW q \in AdminState, adm[a].pc = "idle",
           Enter(a, NextDevice(q)),
           q.next # 0, q.op \in {"rotate", "delete", "update"}, q.account \in Account,
           q.account.id \in DOMAIN records,
           SameAccount(q.account, records[q.account.id]),
           q.account.password = records[q.account.id].password,
           q.op = "update" => /\ q.account.kind = "resident"
                              /\ q.account.apartment # NoApartment
                              /\ q.account.max = ResidentLimit,
           \A m \in Listed(records[q.account.id].devices) :
              \E i \in DOMAIN q.list : i >= q.next /\ q.list[i] = m,
           UNCHANGED <<repositoryVars, net, missed, issuedIds, drawn, mailed, inherited>>
    PROVE  IInv(X)'
<1> DEFINE n == NextDevice(q)
           k == q.account.id
<1>1. /\ n \in AdminState /\ n.next # 0
      /\ n.op = q.op /\ n.account = q.account
      /\ n.pc \in {"revoking", "deleting", "clearing", "notifying", "replacing"}
      /\ n.pc = "revoking" => n.target \in Mac
      /\ n.pc = "clearing" => q.op = "update"
      /\ n.pc = "replacing" => q.account.kind = "employee"
      /\ \A m : (\E i \in DOMAIN q.list : i >= q.next /\ q.list[i] = m) => Awaits(n, m)
  BY NextDeviceOK
<1> HIDE DEF n
<1>2. k \in issuedIds
  BY DEF IInv, HistoryOK
<1>3. CarriesOK(n, mailed, issuedIds)
  BY <1>1, <1>2 DEF CarriesOK
<1>4. FitsRecord(n, now, records, Reported, X[a])
  BY <1>1 DEF FitsRecord
<1>5. Enter(a, n)
  BY DEF n
<1>6. QED
  BY <1>1, <1>3, <1>4, <1>5, EnterStep

\* The copy a request starts from, with the devices in the order of their slice.
LEMMA ReadingOK ==
    ASSUME NEW X, IInv(X), NEW k \in DOMAIN records, NEW op \in {"rotate", "delete", "update"},
           NEW q \in Reading(op, k)
    PROVE  /\ q \in AdminState /\ q.pc = "idle" /\ q.op = op /\ q.next = 1
           /\ q.account = records[k] /\ records[k] \in Account /\ records[k].id = k
           /\ records[k].kind = "employee" => records[k].apartment = NoApartment
           /\ \A m \in Listed(records[k].devices) :
                 \E i \in DOMAIN q.list : i >= q.next /\ q.list[i] = m
<1>1. PICK list \in Orders(Listed(records[k].devices)) :
         q = [IdleAdmin EXCEPT !.op = op, !.account = records[k], !.list = list,
                               !.shared = TRUE]
  BY DEF Reading
<1>2. /\ records[k] \in Account /\ records[k].id = k
      /\ records[k].kind = "employee" => records[k].apartment = NoApartment
  BY DEF IInv, RepoOK, RecordsOK, RecordOK, WellFormed
<1>3. /\ list \in Seq(Mac)
      /\ \A m \in Listed(records[k].devices) : \E i \in DOMAIN list : list[i] = m
  BY OrderedList DEF Listed
<1>4. q \in AdminState
  <2>1. IdleAdmin \in AdminState
    BY IdleOK DEF CarriesOK
  <2>2. QED
    BY <1>1, <1>2, <1>3, <2>1 DEF AdminState
<1>5. q.pc = "idle" /\ q.op = op /\ q.next = 1 /\ q.account = records[k] /\ q.list = list
  BY <1>1 DEF IdleAdmin
<1>6. \A i \in DOMAIN list : i >= 1
  BY <1>3
<1>7. QED
  BY <1>2, <1>3, <1>4, <1>5, <1>6

\* A rotation or a deletion begins (ChangePassword, Delete).
LEMMA StartVisitStep ==
    ASSUME NEW X, IInv(X), NEW a \in Admin, NEW k \in DOMAIN records,
           StartRotation(a, k) \/ StartDeletion(a, k)
    PROVE  IInv(X)'
<1>0. PICK op \in {"rotate", "delete"} : \E q \in Reading(op, k) : Enter(a, NextDevice(q))
  BY DEF StartRotation, StartDeletion
<1>1. PICK q \in Reading(op, k) : Enter(a, NextDevice(q))
  BY <1>0
<1>2. /\ adm[a].pc = "idle"
      /\ UNCHANGED <<repositoryVars, net, missed, issuedIds, drawn, mailed, inherited>>
  BY DEF StartRotation, StartDeletion
<1>3. /\ q \in AdminState /\ q.op = op /\ q.next = 1
      /\ q.account = records[k] /\ records[k] \in Account /\ records[k].id = k
      /\ \A m \in Listed(records[k].devices) :
            \E i \in DOMAIN q.list : i >= q.next /\ q.list[i] = m
  BY <1>1, ReadingOK
<1>4. SameAccount(records[k], records[k])
  BY DEF SameAccount
<1>5. QED
  BY <1>1, <1>2, <1>3, <1>4, VisitStep

\* An update begins: with the devices if it bars the account's owner (Update).
LEMMA StartUpdateStep ==
    ASSUME NEW X, IInv(X), NEW a \in Admin, NEW k \in DOMAIN records, NEW enabled \in BOOLEAN,
           NEW expires \in AdminExpiry, StartUpdate(a, k, enabled, expires)
    PROVE  IInv(X)'
<1>1. PICK q \in Reading("update", k) :
         LET u == [q.account EXCEPT !.enabled = enabled, !.expires = expires,
                                    !.max = ResidentLimit]
             r == [q EXCEPT !.account = u]
         IN Enter(a, IF Bars(u, now) /\ r.list # <<>>
                     THEN NextDevice(r)
                     ELSE [r EXCEPT !.pc = "updating"])
  BY DEF StartUpdate
<1> DEFINE u == [q.account EXCEPT !.enabled = enabled, !.expires = expires,
                                  !.max = ResidentLimit]
           r == [q EXCEPT !.account = u]
           s == [r EXCEPT !.pc = "updating"]
<1>2. /\ adm[a].pc = "idle" /\ records[k].apartment # NoApartment
      /\ UNCHANGED <<repositoryVars, net, missed, issuedIds, drawn, mailed, inherited>>
  BY DEF StartUpdate
<1>3. /\ q \in AdminState /\ q.op = "update" /\ q.next = 1
      /\ q.account = records[k] /\ records[k] \in Account /\ records[k].id = k
      /\ records[k].kind = "employee" => records[k].apartment = NoApartment
      /\ \A m \in Listed(records[k].devices) :
            \E i \in DOMAIN q.list : i >= q.next /\ q.list[i] = m
  BY ReadingOK
<1>4. Enter(a, NextDevice(r)) \/ Enter(a, s)
  BY <1>1
<1>5. records[k].kind = "resident"
  BY <1>2, <1>3 DEF Account
<1>6. /\ u \in Account /\ SameAccount(u, records[k]) /\ u.password = records[k].password
      /\ u.id = k /\ u.kind = "resident" /\ u.apartment # NoApartment
      /\ u.max = ResidentLimit
  BY <1>2, <1>3, <1>5, AdminAssumption, LimitsAssumption DEF Account, SameAccount
<1> HIDE DEF u
<1>7. r \in AdminState
  BY <1>3, <1>6 DEF AdminState
<1>8. r.op = "update" /\ r.next = 1 /\ r.account = u /\ r.list = q.list
  BY <1>3 DEF AdminState
<1> HIDE DEF r
<1>9. CASE Enter(a, NextDevice(r))
  <2>1. \A m \in Listed(records[r.account.id].devices) :
           \E i \in DOMAIN r.list : i >= r.next /\ r.list[i] = m
    BY <1>3, <1>6, <1>8
  <2>2. QED
    BY <1>2, <1>6, <1>7, <1>8, <1>9, <2>1, VisitStep
<1>10. CASE Enter(a, s)
  <2>1. s \in AdminState
    BY <1>7 DEF AdminState
  <2>2. s.pc = "updating" /\ s.op = "update" /\ s.next = 1 /\ s.account = u
    BY <1>7, <1>8 DEF AdminState
  <2> HIDE DEF s
  <2>3. k \in issuedIds
    BY DEF IInv, HistoryOK
  <2>4. CarriesOK(s, mailed, issuedIds)
    BY <1>6, <2>1, <2>2, <2>3 DEF CarriesOK
  <2>5. FitsRecord(s, now, records, Reported, X[a])
    BY <1>6, <2>2 DEF FitsRecord
  <2>6. QED
    BY <1>2, <1>6, <1>10, <2>2, <2>4, <2>5, EnterStep
<1>11. QED
  BY <1>4, <1>9, <1>10

-----------------------------------------------------------------------------
(* Starting                                                                *)

\* A restart ends all requests and takes the accounts from the file (load).
LEMMA RestartStep ==
    ASSUME NEW X, IInv(X), NEW Y, Restart
    PROVE  IInv(Y)'
<1>1. /\ Reload /\ adm' = [x \in Admin |-> IdleAdmin]
      /\ inherited' = DOMAIN records'
      /\ told' = [k \in DOMAIN told \cap DOMAIN records' |-> records'[k].password]
      /\ net' = net /\ missed' = missed
      /\ issuedIds' = issuedIds /\ drawn' = drawn /\ mailed' = mailed
  BY DEF Restart
<1>2. now \in Nat /\ FileOK(file)
  BY DEF IInv, RepoOK
<1>3. RecordsOK(records') /\ FileOK(file') /\ now' = now /\ file' = file
  BY <1>1, <1>2, ReloadOK
<1>4. DOMAIN records' = FileIds(file)
  BY <1>1, <1>2, LoadOK DEF Reload
<1>5. RepoOK'
  BY <1>1, <1>3 DEF IInv, RepoOK
<1>6. \A k \in DOMAIN records' : records'[k].password \in Password
  BY <1>3 DEF RecordsOK, RecordOK, Account
<1>7. HistoryOK'
  BY <1>1, <1>3, <1>4, <1>6 DEF IInv, HistoryOK
<1>8. \A x \in Admin : adm'[x] = IdleAdmin /\ adm'[x].pc = "idle"
  BY <1>1, IdleOK
<1>9. RequestsOK(Y)'
  <2>1. /\ IdleAdmin \in AdminState /\ CarriesOK(IdleAdmin, mailed', issuedIds')
        /\ \A x \in Admin : FitsRecord(IdleAdmin, now', records', Reported', Y[x])
    BY IdleOK DEF CarriesOK
  <2>2. QED
    BY <1>1, <1>8, <2>1 DEF RequestsOK
<1>10. DeliveryOK' /\ ToldOK'
  BY <1>1, <1>8 DEF DeliveryOK, ToldOK, WorksOn
<1>11. ApartOK'
  BY <1>8 DEF ApartOK
<1>12. QED
  BY <1>5, <1>7, <1>9, <1>10, <1>11 DEF IInv

LEMMA InitStep == Init => IInv(Unexcused)
<1> SUFFICES ASSUME Init
             PROVE  IInv(Unexcused)
  OBVIOUS
<1>1. /\ RepositoryInit /\ NetInit /\ adm = [x \in Admin |-> IdleAdmin]
      /\ missed = {} /\ issuedIds = DOMAIN records \cup Username
      /\ drawn = {records[k].password : k \in DOMAIN records}
      /\ mailed = {} /\ told = [k \in {} |-> NoPassword] /\ inherited = DOMAIN records
  BY DEF Init, AdminInit
<1>2. now = 1 /\ RecordsOK(records) /\ FileOK(file)
  BY <1>1, InitOK
<1>3. \A k \in DOMAIN records : records[k] \in Account
  BY <1>2 DEF RecordsOK, RecordOK
<1>4. RepoOK
  <2>1. ASSUME NEW m \in Mac
        PROVE  TrustedUntil(m) \in Nat
    <3> DEFINE until == {records[k].devices[m] : k \in DOMAIN records} \ {0}
    <3>1. until \subseteq Nat
      BY <1>3 DEF Account, Devices
    <3>2. CASE until = {}
      BY <3>2 DEF TrustedUntil
    <3>3. CASE until # {}
      <4>1. TrustedUntil(m) \in until
        BY <3>3 DEF TrustedUntil
      <4>2. QED
        BY <3>1, <4>1
    <3>4. QED
      BY <3>2, <3>3
  <2>2. QED
    BY <1>1, <1>2, <2>1, MaxTimeAssumption DEF NetInit, RepoOK
<1>5. HistoryOK
  <2>1. FileIds(file) = DOMAIN records
    BY <1>1, <1>2, LoadOK DEF RepositoryInit
  <2>2. DOMAIN records \subseteq Id /\ Username \subseteq Id
    BY <1>2, SharedStrings DEF RecordsOK
  <2>3. drawn \subseteq Password
    BY <1>1, <1>3 DEF Account
  <2>4. QED
    BY <1>1, <2>1, <2>2, <2>3 DEF HistoryOK
<1>6. \A x \in Admin : adm[x] = IdleAdmin /\ adm[x].pc = "idle"
  BY <1>1, IdleOK
<1>7. RequestsOK(Unexcused)
  <2>1. /\ IdleAdmin \in AdminState /\ CarriesOK(IdleAdmin, mailed, issuedIds)
        /\ FitsRecord(IdleAdmin, now, records, Reported, {})
    BY IdleOK DEF CarriesOK
  <2>2. QED
    BY <1>1, <1>6, <2>1 DEF RequestsOK, Unexcused
<1>8. DeliveryOK /\ ToldOK
  BY <1>1 DEF DeliveryOK, ToldOK
<1>9. ApartOK
  BY <1>6 DEF ApartOK
<1>10. QED
  BY <1>4, <1>5, <1>7, <1>8, <1>9 DEF IInv

LEMMA NextStep ==
    ASSUME NEW X, IInv(X), [Next]_vars
    PROVE  IInv(X)'
<1>1. ASSUME NEW a \in Admin, AdminArrival(a)
      PROVE  IInv(X)'
  <2>1. CASE \E k \in DOMAIN records : StartRotation(a, k) \/ StartDeletion(a, k)
    BY <2>1, StartVisitStep
  <2>2. CASE \E k \in DOMAIN records, enabled \in BOOLEAN, expires \in AdminExpiry :
                StartUpdate(a, k, enabled, expires)
    BY <2>2, StartUpdateStep
  <2>3. CASE \E apartment \in DOMAIN UsernameOf, id \in Id, password \in Password :
                StartCreation(a, apartment, id, password)
    BY <2>3, StartCreationStep
  <2>4. CASE \E id \in Id, name \in Username, password \in Password,
                outcome \in PersistOutcome : CreateEmployee(a, id, name, password, outcome)
    BY <2>4, CreateEmployeeStep
  <2>5. QED
    BY <1>1, <2>1, <2>2, <2>3, <2>4, Zenon DEF AdminArrival
<1>2. ASSUME NEW a \in Admin, AdminProgress(a)
      PROVE  IInv(X)'
  <2>1. CASE \E outcome \in ControllerOutcome : RevokeDevice(a, outcome)
    BY <2>1, RevokeDeviceStep
  <2>2. CASE \E outcome \in NotifyOutcome : MailNew(a, outcome)
    BY <2>2, MailNewStep
  <2>3. CASE \E outcome \in NotifyOutcome, password \in Password : Notify(a, password, outcome)
    BY <2>3, NotifyStep
  <2>4. CASE \E outcome \in PersistOutcome : Clear(a, outcome) \/ ApplyUpdate(a, outcome)
    BY <2>4, ClearStep, ApplyUpdateStep
  <2>5. CASE \E outcome \in PersistOutcome : DeleteRecord(a, outcome) \/ Undo(a, outcome)
    BY <2>5, DeleteRecordStep, UndoStep
  <2>6. CASE \E outcome \in PersistOutcome : CreateRecord(a, outcome)
    BY <2>6, CreateRecordStep
  <2>7. CASE \E outcome \in PersistOutcome, password \in Password : Replace(a, password, outcome)
    BY <2>7, ReplaceStep
  <2>8. CASE Abandon(a)
    BY <2>8, AbandonStep
  <2>9. QED
    BY <1>2, <2>1, <2>2, <2>3, <2>4, <2>5, <2>6, <2>7, <2>8, Zenon DEF AdminProgress
<1>3. CASE Restart
  BY <1>3, RestartStep
<1>4. CASE Clock
  BY <1>4, ClockStep
<1>5. CASE UNCHANGED vars
  BY <1>5 DEF vars, repositoryVars, adminVars, adminHistory, IInv, RepoOK, HistoryOK, Reported,
              RequestsOK, DeliveryOK, Delivered, WorksOn, ToldOK, ApartOK
<1>6. CASE \E mac \in Mac : PermissionEnds(mac)
  BY <1>6, PermissionEndsStep
<1>7. QED
  BY <1>1, <1>2, <1>3, <1>4, <1>5, <1>6 DEF Next

LEMMA Invariance == Spec => []IInv(Unexcused)
<1>1. IInv(Unexcused) /\ [Next]_vars => IInv(Unexcused)'
  BY NextStep DEF Unexcused
<1>2. QED
  BY <1>1, InitStep, PTL DEF Spec

-----------------------------------------------------------------------------
(* The theorems                                                            *)

\* What the invariant says of the shape of the state.
LEMMA Shape ==
    ASSUME NEW X, IInv(X)
    PROVE  TypeOK
<1>1. RepositoryTypeOK
  BY DEF IInv, RepoOK, RecordsOK, RecordOK, FileOK, RepositoryTypeOK
<1>2. QED
  BY <1>1 DEF IInv, RepoOK, NetTypeOK, HistoryOK, RequestsOK, TypeOK

\* What it says of passwords.
LEMMA Promises ==
    ASSUME NEW X, IInv(X)
    PROVE  EveryPasswordDelivered /\ RotationSticks
<1>1. EveryPasswordDelivered
  <2> SUFFICES ASSUME NEW k \in DOMAIN records, k \notin inherited,
                      records[k].kind # "employee"
               PROVE  \/ <<records[k].username, records[k].password>> \in mailed
                      \/ \E a \in Admin : /\ adm[a].pc \in {"mailing", "undoing"}
                                          /\ adm[a].account.id = k
    BY DEF EveryPasswordDelivered
  <2>1. records[k].kind = "resident"
    BY DEF IInv, RepoOK, RecordsOK, RecordOK, Account
  <2>2. Delivered(k, records[k].password)
    BY <2>1 DEF IInv, DeliveryOK
  <2>3. QED
    BY <2>2 DEF Delivered, WorksOn
<1>2. RotationSticks
  BY DEF IInv, ToldOK, RotationSticks
<1>3. QED
  BY <1>1, <1>2

\* Repository, controller and requests keep their shape, and no record is ever
\* left without a password, for any number of administrators at work (Update,
\* ChangePassword).
THEOREM TypeCorrect == Spec => []TypeOK
<1>1. IInv(Unexcused) => TypeOK
  BY Shape
<1>2. QED
  BY <1>1, Invariance, PTL

\* No resident's account is left with a password that never reached the resident,
\* whatever mails and writes fail and whoever else changes it (Create,
\* ChangePassword, Update).
THEOREM EveryPasswordDeliveredHolds == Spec => []EveryPasswordDelivered
<1>1. IInv(Unexcused) => EveryPasswordDelivered
  BY Promises
<1>2. QED
  BY <1>1, Invariance, PTL

\* The last password that was reported is the one in force, for any number of
\* requests that did not meet on the account (Update, ChangePassword).
THEOREM RotationSticksHolds == Spec => []RotationSticks
<1>1. IInv(Unexcused) => RotationSticks
  BY Promises
<1>2. QED
  BY <1>1, Invariance, PTL

\* No account loses a device.
KeepsDevices ==
    \A k \in DOMAIN records : /\ k \in DOMAIN records'
                              /\ Listed(records'[k].devices) = Listed(records[k].devices)

\* The step is one of request a, on account k.
ActsOn(a, k) == adm'[a] # adm[a] /\ adm[a].account.id = k

\* Devices leave the list of an account only when they are off the network or were
\* reported to be, or when the request that takes them off is excused from covering
\* them.
OnlyOffline(X) ==
    \A k \in DOMAIN records, m \in Mac :
        /\ m \in Listed(records[k].devices)
        /\ k \notin DOMAIN records' \/ m \notin Listed(records'[k].devices)
        => ~Online(m)' \/ m \in missed' \/ \E a \in Admin : ActsOn(a, k) /\ m \in X[a]

LEMMA KeptAreOffline ==
    ASSUME NEW X, KeepsDevices
    PROVE  OnlyOffline(X)
BY DEF KeepsDevices, OnlyOffline

\* A request that is through with the devices of its account may drop them.
LEMMA DroppedAreOffline ==
    ASSUME NEW X, IInv(X), NEW a \in Admin, NEW q, Become(a, q), q.pc # adm[a].pc,
           adm[a].pc \in {"clearing", "replacing", "deleting", "undoing"},
           \A k \in DOMAIN records : k # adm[a].account.id =>
              k \in DOMAIN records' /\ Listed(records'[k].devices) = Listed(records[k].devices),
           UNCHANGED <<net, missed, now>>
    PROVE  OnlyOffline(X)
<1> SUFFICES ASSUME NEW k \in DOMAIN records, NEW m \in Mac,
                    m \in Listed(records[k].devices),
                    k \notin DOMAIN records' \/ m \notin Listed(records'[k].devices)
             PROVE  ~Online(m)' \/ m \in missed'
                       \/ \E b \in Admin : ActsOn(b, k) /\ m \in X[b]
  BY DEF OnlyOffline
<1>1. k = adm[a].account.id
  OBVIOUS
<1>2. Reported[m] <= now \/ m \in X[a]
  BY <1>1, OneRequest DEF FitsRecord, Awaits
<1>3. net[m] \in Nat /\ now \in Nat /\ (m \in missed \/ Reported[m] = net[m])
  BY OneRequest, ReportOK DEF IInv
<1>4. ActsOn(a, k)
  BY <1>1, OneRequest, Becomes DEF ActsOn
<1>5. QED
  BY <1>2, <1>3, <1>4 DEF Online

LEMMA CreateDropsNone ==
    ASSUME NEW X, NEW u, NEW outcome, Create(u, outcome)
    PROVE  OnlyOffline(X)
<1>1. KeepsDevices
  BY DEF Create, Available, WithRecord, KeepsDevices
<1>2. QED
  BY <1>1, KeptAreOffline

LEMMA ProgressDropsOffline ==
    ASSUME NEW X, IInv(X), NEW a \in Admin, AdminProgress(a)
    PROVE  OnlyOffline(X)
<1>1. RecordsOK(records) /\ FileOK(file)
  BY DEF IInv, RepoOK
<1>2. ASSUME records' = records
      PROVE  OnlyOffline(X)
  BY <1>2, KeptAreOffline DEF KeepsDevices
<1>3. ASSUME NEW outcome, Clear(a, outcome)
      PROVE  OnlyOffline(X)
  <2>1. Rewrites(adm[a].account.id, adm[a].account.password)
    BY <1>1, <1>3, OneRequest, RotateRewrites DEF Clear, Account
  <2>2. PICK q : Become(a, q) /\ q.pc \in {"updating", "idle"}
    <3>1. \E q : Become(a, q) /\ q = IF outcome = "saved"
                                     THEN [adm[a] EXCEPT !.pc = "updating"] ELSE IdleAdmin
      BY <1>3 DEF Clear
    <3>2. adm[a] \in AdminState
      BY OneRequest
    <3>3. QED
      BY <3>1, <3>2, IdleOK DEF AdminState
  <2>3. adm[a].pc = "clearing" /\ UNCHANGED <<net, missed>>
    BY <1>3 DEF Clear
  <2>4. QED
    BY <2>1, <2>2, <2>3, DroppedAreOffline DEF Rewrites
<1>4. ASSUME NEW password \in Password, NEW outcome,
             Replace(a, password, outcome)
      PROVE  OnlyOffline(X)
  <2>1. /\ Rewrites(adm[a].account.id, password) /\ adm[a].pc = "replacing" /\ UNCHANGED <<net, missed>>
        /\ Become(a, IdleAdmin)
    BY <1>1, <1>4, RotateRewrites DEF Replace
  <2>2. QED
    BY <2>1, IdleOK, DroppedAreOffline DEF Rewrites
<1>5. ASSUME NEW outcome, DeleteRecord(a, outcome)
      PROVE  OnlyOffline(X)
  <2>1. /\ Removes(adm[a].account.id) /\ adm[a].pc = "deleting" /\ UNCHANGED <<net, missed>>
        /\ Become(a, IdleAdmin)
    BY <1>1, <1>5, DeleteRemoves DEF DeleteRecord
  <2>2. QED
    BY <2>1, IdleOK, DroppedAreOffline DEF Removes
<1>6. ASSUME NEW outcome, Undo(a, outcome)
      PROVE  OnlyOffline(X)
  <2>1. CASE adm[a].account.id \in DOMAIN records
    <3>1. /\ Removes(adm[a].account.id) /\ adm[a].pc = "undoing" /\ UNCHANGED <<net, missed>>
          /\ Become(a, IdleAdmin)
      BY <1>1, <1>6, <2>1, DeleteRemoves DEF Undo
    <3>2. QED
      BY <3>1, IdleOK, DroppedAreOffline DEF Removes
  <2>2. CASE adm[a].account.id \notin DOMAIN records
    <3>1. records' = records
      BY <1>6, <2>2 DEF Undo, repositoryVars
    <3>2. QED
      BY <1>2, <3>1
  <2>3. QED
    BY <2>1, <2>2
<1>7. ASSUME NEW outcome, ApplyUpdate(a, outcome)
      PROVE  OnlyOffline(X)
  <2> DEFINE u == adm[a].account
             b == [u EXCEPT !.password = records[u.id].password,
                            !.devices = records[u.id].devices]
  <2>1. /\ adm[a].pc = "updating" /\ u.id \in DOMAIN records
        /\ records' = [records EXCEPT ![u.id] = b]
    BY <1>7 DEF ApplyUpdate, Update, Commit
  <2>2. u \in Account
    BY <2>1, OneRequest
  <2>3. b.devices = records[u.id].devices
    BY <2>2 DEF Account
  <2> HIDE DEF b
  <2>4. KeepsDevices
    BY <2>1, <2>3 DEF KeepsDevices
  <2>5. QED
    BY <2>4, KeptAreOffline
<1>8. CASE \/ \E outcome \in ControllerOutcome : RevokeDevice(a, outcome)
           \/ \E outcome \in NotifyOutcome :
                 MailNew(a, outcome) \/ \E password \in Password : Notify(a, password, outcome)
           \/ Abandon(a)
  <2>1. records' = records
    BY <1>8 DEF RevokeDevice, MailNew, Notify, Abandon, repositoryVars
  <2>2. QED
    BY <1>2, <2>1
<1>9. CASE \E outcome \in PersistOutcome : CreateRecord(a, outcome)
  BY <1>9, CreateDropsNone DEF CreateRecord
<1>10. QED
  BY <1>3, <1>4, <1>5, <1>6, <1>7, <1>8, <1>9 DEF AdminProgress

LEMMA StepDropsOffline ==
    ASSUME NEW X, IInv(X), [Next]_vars
    PROVE  Restart \/ OnlyOffline(X) \/ UNCHANGED vars
<1>1. ASSUME records' = records
      PROVE  OnlyOffline(X)
  BY <1>1, KeptAreOffline DEF KeepsDevices
<1>2. ASSUME NEW a \in Admin, AdminArrival(a)
      PROVE  OnlyOffline(X)
  <2>1. CASE ~\E id \in Id, name \in Username, password \in Password,
                 outcome \in PersistOutcome : CreateEmployee(a, id, name, password, outcome)
    <3>1. records' = records
      BY <1>2, <2>1
      DEF AdminArrival, StartRotation, StartDeletion, StartUpdate, StartCreation, repositoryVars
    <3>2. QED
      BY <1>1, <3>1
  <2>2. CASE \E id \in Id, name \in Username, password \in Password,
                outcome \in PersistOutcome : CreateEmployee(a, id, name, password, outcome)
    BY <2>2, CreateDropsNone DEF CreateEmployee
  <2>3. QED
    BY <2>1, <2>2
<1>3. CASE Clock
  BY <1>1, <1>3 DEF Clock, Tick
<1>4. ASSUME NEW mac \in Mac, PermissionEnds(mac)
      PROVE  OnlyOffline(X)
  BY <1>1, <1>4 DEF PermissionEnds, repositoryVars
<1>5. QED
  BY <1>2, <1>3, <1>4, ProgressDropsOffline DEF Next

\* A device leaves its account only when it is off the network or a revocation that
\* left it there was reported as done, for any number of administrators and
\* whatever calls, writes and mails fail (Update, ChangePassword, Delete,
\* revokeAll).
THEOREM RevokedBeforeClearedHolds == Spec => RevokedBeforeCleared
<1>1. OnlyOffline(Unexcused) =>
         \A k \in DOMAIN records, m \in Mac :
            /\ m \in Listed(records[k].devices)
            /\ k \notin DOMAIN records' \/ m \notin Listed(records'[k].devices)
            => ~Online(m)' \/ m \in missed'
  BY DEF OnlyOffline, Unexcused
<1>2. IInv(Unexcused) /\ [Next]_vars =>
         [Restart \/ \A k \in DOMAIN records, m \in Mac :
             /\ m \in Listed(records[k].devices)
             /\ k \notin DOMAIN records' \/ m \notin Listed(records'[k].devices)
             => ~Online(m)' \/ m \in missed']_vars
  BY <1>1, StepDropsOffline
<1>3. QED
  BY <1>2, Invariance, PTL DEF Spec, RevokedBeforeCleared

-----------------------------------------------------------------------------
(* Beside other users of the repository                                    *)

\* Others may change device lists and the copies of them that requests hold, and
\* let devices in, if the requests at work are then excused from covering them.
LEMMA OthersStep ==
    ASSUME NEW X, IInv(X), NEW Y,
           UNCHANGED adminHistory, now' = now,
           RecordsOK(records'), FileOK(file'), file' \in {Rows(records'), file, {}},
           DOMAIN records' = DOMAIN records,
           \A k \in DOMAIN records : \E devices \in Devices :
              /\ records'[k] = [records[k] EXCEPT !.devices = devices]
              /\ \A a \in Admin : WorksOn(a, k) =>
                    Listed(devices) \subseteq Listed(records[k].devices) \cup Y[a],
           net' \in [Mac -> Nat], missed' = missed,
           \A a \in Admin, m \in Mac : adm[a].pc # "idle" =>
              net'[m] <= now \/ net'[m] = net[m] \/ m \in Y[a],
           adm' \in [Admin -> AdminState],
           \A a \in Admin : \E list, shared :
              adm'[a] = [adm[a] EXCEPT !.list = list, !.shared = shared],
           \A a \in Admin : adm'[a].list = adm[a].list \/ Mac \subseteq Y[a],
           \A a \in Admin : adm[a].pc # "idle" => X[a] \subseteq Y[a]
    PROVE  IInv(Y)'
<1> USE DEF adminHistory
<1>1. \A k \in DOMAIN records :
         /\ records[k] \in Account /\ records'[k] \in Account
         /\ SameAccount(records'[k], records[k]) /\ records'[k].password = records[k].password
         /\ \A a \in Admin : WorksOn(a, k) =>
               Listed(records'[k].devices) \subseteq Listed(records[k].devices) \cup Y[a]
  <2> SUFFICES ASSUME NEW k \in DOMAIN records
               PROVE  /\ records[k] \in Account /\ records'[k] \in Account
                      /\ SameAccount(records'[k], records[k])
                      /\ records'[k].password = records[k].password
                      /\ \A a \in Admin : WorksOn(a, k) =>
                            Listed(records'[k].devices)
                               \subseteq Listed(records[k].devices) \cup Y[a]
    OBVIOUS
  <2>1. records[k] \in Account /\ records'[k] \in Account
    BY DEF IInv, RepoOK, RecordsOK, RecordOK
  <2>2. PICK devices \in Devices :
           /\ records'[k] = [records[k] EXCEPT !.devices = devices]
           /\ \A a \in Admin : WorksOn(a, k) =>
                 Listed(devices) \subseteq Listed(records[k].devices) \cup Y[a]
    OBVIOUS
  <2>3. records'[k].devices = devices
    BY <2>1, <2>2 DEF Account
  <2>4. SameAccount(records'[k], records[k]) /\ records'[k].password = records[k].password
    BY <2>1, <2>2 DEF Account, SameAccount
  <2>5. QED
    BY <2>1, <2>2, <2>3, <2>4
<1>2. \A a \in Admin :
         /\ adm[a] \in AdminState /\ adm'[a] \in AdminState
         /\ adm'[a].pc = adm[a].pc /\ adm'[a].op = adm[a].op
         /\ adm'[a].account = adm[a].account /\ adm'[a].next = adm[a].next
         /\ adm'[a].target = adm[a].target /\ adm'[a].alone = adm[a].alone
         /\ adm'[a].password = adm[a].password
  <2> SUFFICES ASSUME NEW a \in Admin
               PROVE  /\ adm[a] \in AdminState /\ adm'[a] \in AdminState
                      /\ adm'[a].pc = adm[a].pc /\ adm'[a].op = adm[a].op
                      /\ adm'[a].account = adm[a].account /\ adm'[a].next = adm[a].next
                      /\ adm'[a].target = adm[a].target /\ adm'[a].alone = adm[a].alone
                      /\ adm'[a].password = adm[a].password
    OBVIOUS
  <2>1. adm[a] \in AdminState /\ adm'[a] \in AdminState
    BY OneRequest
  <2>2. PICK list, shared : adm'[a] = [adm[a] EXCEPT !.list = list, !.shared = shared]
    OBVIOUS
  <2>3. QED
    BY <2>1, <2>2 DEF AdminState
<1>3. RepoOK'
  BY DEF IInv, RepoOK
<1>4. HistoryOK'
  <2>1. FileIds(Rows(records')) = DOMAIN records'
    BY RowsOK
  <2>2. FileIds({}) = {}
    BY DEF FileIds
  <2>3. FileIds(file') \subseteq issuedIds
    BY <2>1, <2>2 DEF IInv, HistoryOK
  <2>4. QED
    BY <2>3 DEF IInv, HistoryOK
<1>5. RequestsOK(Y)'
  <2>1. ASSUME NEW a \in Admin
        PROVE  CarriesOK(adm'[a], mailed', issuedIds')
    <3>1. CarriesOK(adm[a], mailed, issuedIds)
      BY OneRequest
    <3>2. QED
      BY <1>2, <3>1 DEF CarriesOK
  <2>2. ASSUME NEW a \in Admin
        PROVE  FitsRecord(adm'[a], now', records', Reported', Y[a])
    <3> DEFINE q == adm[a]
               k == q.account.id
    <3> SUFFICES ASSUME q.pc # "idle", k \in DOMAIN records
                 PROVE  /\ q.pc # "creating"
                        /\ SameAccount(q.account, records'[k])
                        /\ \A m \in Listed(records'[k].devices) :
                              \/ Reported'[m] <= now' \/ q.pc = "updating"
                              \/ Awaits(adm'[a], m) \/ m \in Y[a]
      BY <1>2 DEF FitsRecord
    <3>1. /\ q.pc # "creating" /\ SameAccount(q.account, records[k])
          /\ \A m \in Listed(records[k].devices) :
                Reported[m] <= now \/ q.pc = "updating" \/ Awaits(q, m) \/ m \in X[a]
      BY OneRequest DEF FitsRecord
    <3>2. SameAccount(q.account, records'[k])
      BY <1>1, <3>1 DEF SameAccount
    <3>3. ASSUME NEW m \in Listed(records'[k].devices), m \notin Y[a]
          PROVE  Reported'[m] <= now' \/ q.pc = "updating" \/ Awaits(adm'[a], m)
      <4>1. m \in Mac
        BY <3>3 DEF Listed
      <4>2. m \in Listed(records[k].devices) /\ m \notin X[a]
        BY <1>1, <3>3 DEF WorksOn
      <4>3. Reported[m] <= now => Reported'[m] <= now'
        <5>1. /\ Reported[m] = (IF m \in missed THEN 0 ELSE net[m])
              /\ Reported'[m] = (IF m \in missed' THEN 0 ELSE net'[m])
          BY <4>1 DEF Reported
        <5>2. now \in Nat
          BY OneRequest
        <5>3. QED
          BY <3>3, <4>1, <5>1, <5>2
      <4>4. adm'[a].list = q.list
        BY <3>3, <4>1
      <4>5. Awaits(q, m) => Awaits(adm'[a], m)
        BY <1>2, <4>4 DEF Awaits
      <4>6. QED
        BY <3>1, <4>2, <4>3, <4>5
    <3>4. QED
      BY <3>1, <3>2, <3>3
  <2>3. QED
    BY <2>1, <2>2 DEF RequestsOK
<1>6. \A a \in Admin : \A k : adm'[a].pc # "idle" /\ adm'[a].account.id = k <=> WorksOn(a, k)
  BY <1>2 DEF WorksOn
<1>7. DeliveryOK'
  <2>1. \A k \in DOMAIN records : /\ records'[k].kind = records[k].kind
                                  /\ records'[k].username = records[k].username
                                  /\ records'[k].password = records[k].password
    BY <1>1 DEF SameAccount
  <2> SUFFICES ASSUME NEW k \in DOMAIN records, k \notin inherited,
                      records[k].kind = "resident"
               PROVE  /\ Delivered(k, records[k].password)'
                      /\ \A a \in Admin : WorksOn(a, k)' => Delivered(k, adm[a].account.password)'
    BY <2>1, Zenon DEF DeliveryOK
  <2> DEFINE DeliveredNow(p) ==
                \/ <<records'[k].username, p>> \in mailed'
                \/ \E x \in Admin : /\ adm'[x].pc # "idle" /\ adm'[x].account.id = k
                                    /\ adm'[x].pc \in {"mailing", "undoing"}
                                    /\ adm'[x].account.password = p
  <2>2. /\ Delivered(k, records[k].password)
        /\ \A a \in Admin : WorksOn(a, k) => Delivered(k, adm[a].account.password)
    BY DEF IInv, DeliveryOK
  <2>3. ASSUME NEW p, Delivered(k, p)
        PROVE  DeliveredNow(p)
    <3>1. CASE <<records[k].username, p>> \in mailed
      BY <2>1, <3>1
    <3>2. CASE \E x \in Admin : /\ WorksOn(x, k) /\ adm[x].pc \in {"mailing", "undoing"}
                                /\ adm[x].account.password = p
      <4>1. PICK x \in Admin : /\ WorksOn(x, k) /\ adm[x].pc \in {"mailing", "undoing"}
                                /\ adm[x].account.password = p
        BY <3>2
      <4>2. /\ adm'[x].pc # "idle" /\ adm'[x].account.id = k
            /\ adm'[x].pc \in {"mailing", "undoing"}
            /\ adm'[x].account.password = p
        BY <1>2, <4>1 DEF WorksOn
      <4>3. QED
        BY <4>2
    <3>3. QED
      BY <2>3, <3>1, <3>2 DEF Delivered
  <2>4. DeliveredNow(records'[k].password)
    BY <2>1, <2>2, <2>3
  <2>5. \A a \in Admin : adm'[a].pc # "idle" /\ adm'[a].account.id = k
                         => DeliveredNow(adm'[a].account.password)
    BY <1>2, <1>6, <2>2, <2>3
  <2>6. QED
    BY <2>4, <2>5 DEF Delivered, WorksOn
<1>8. ToldOK'
  <2>1. ToldOK /\ told' = told
    BY DEF IInv
  <2>2. ASSUME NEW k \in DOMAIN told, k \in DOMAIN records
        PROVE  /\ records'[k].password = told[k]
               /\ \A a \in Admin : adm'[a].pc # "idle" /\ adm'[a].account.id = k
                                   => adm'[a].account.password = told[k]
    <3>1. /\ records[k].password = told[k]
          /\ \A a \in Admin : WorksOn(a, k) => adm[a].account.password = told[k]
      BY <2>1, <2>2, Zenon DEF ToldOK
    <3>2. records'[k].password = records[k].password
      BY <1>1, <2>2 DEF SameAccount
    <3>3. ASSUME NEW a \in Admin, adm'[a].pc # "idle", adm'[a].account.id = k
          PROVE  adm'[a].account.password = told[k]
      <4>1. WorksOn(a, k) /\ adm'[a].account = adm[a].account
        BY <1>2, <1>6, <3>3
      <4>2. QED
        BY <3>1, <4>1
    <3>4. QED
      BY <3>1, <3>2, <3>3
  <2>3. ASSUME NEW a \in Admin, NEW k \in DOMAIN told, adm'[a].pc # "idle",
               adm'[a].account.id = k
        PROVE  adm'[a].alone
    <3>1. WorksOn(a, k)
      BY <1>6, <2>3
    <3>2. adm[a].alone
      BY <2>1, <3>1, Zenon DEF ToldOK
    <3>3. QED
      BY <1>2, <3>2, Zenon
  <2>4. DOMAIN records' = DOMAIN records /\ DOMAIN told' = DOMAIN told
    BY <1>1, <2>1
  <2>5. ASSUME NEW k \in DOMAIN told' \cap DOMAIN records'
        PROVE  /\ records'[k].password = told'[k]
               /\ \A a \in Admin : WorksOn(a, k)' => adm'[a].account.password = told'[k]
    BY <2>1, <2>2, <2>4, <2>5 DEF WorksOn
  <2>6. ASSUME NEW a \in Admin, NEW k \in DOMAIN told'
        PROVE  WorksOn(a, k)' => adm'[a].alone
    BY <2>3, <2>4, <2>6, Zenon DEF WorksOn
  <2>7. QED
    BY <2>5, <2>6, Zenon DEF ToldOK
<1>9. ApartOK'
  <2>1. ASSUME NEW a \in Admin, NEW b \in Admin, a # b, adm'[a].pc # "idle",
               adm'[b].pc # "idle", adm'[a].account.id = adm'[b].account.id
        PROVE  ~adm'[a].alone
    <3>1. /\ adm[a].pc # "idle" /\ adm[b].pc # "idle"
          /\ adm[a].account.id = adm[b].account.id
      BY <1>2, <2>1
    <3>2. ~adm[a].alone
      BY <2>1, <3>1, Zenon DEF IInv, ApartOK
    <3>3. QED
      BY <1>2, <3>2, Zenon
  <2>2. ASSUME NEW a \in Admin, adm'[a].pc = "creating"
        PROVE  adm'[a].alone
    <3>1. adm[a].pc = "creating"
      BY <1>2, <2>2
    <3>2. adm[a].alone
      BY <3>1, Zenon DEF IInv, ApartOK
    <3>3. QED
      BY <1>2, <3>2, Zenon
  <2>3. QED
    BY <2>1, <2>2, Zenon DEF ApartOK
<1>10. QED
  BY <1>3, <1>4, <1>5, <1>7, <1>8, <1>9 DEF IInv

\* What a request at work is excused from is of no interest to one that is not.
LEMMA Excuses ==
    ASSUME NEW X, IInv(X), NEW Y, \A a \in Admin : adm[a].pc # "idle" => X[a] \subseteq Y[a]
    PROVE  IInv(Y)
<1>1. \A a \in Admin : FitsRecord(adm[a], now, records, Reported, Y[a])
  BY OneRequest DEF FitsRecord
<1>2. QED
  BY <1>1 DEF IInv, RequestsOK

\* What a step of a request may do to the repository: the file is written out in
\* full or not at all, and an account keeps its device list or loses all of it.
Footprint ==
    /\ now' = now
    /\ file' \in {Rows(records'), file, {}}
    /\ \A k \in DOMAIN records' :
          \/ Listed(records'[k].devices) = {}
          \/ /\ k \in DOMAIN records /\ records'[k].username = records[k].username
             /\ Listed(records'[k].devices) = Listed(records[k].devices)

LEMMA UnchangedFootprint ==
    ASSUME now' = now, records' = records, file' = file
    PROVE  Footprint
BY DEF Footprint

LEMMA CommitFootprint ==
    ASSUME NEW recs, NEW outcome, Commit(recs, outcome),
           \A k \in DOMAIN recs :
              \/ Listed(recs[k].devices) = {}
              \/ /\ k \in DOMAIN records /\ recs[k].username = records[k].username
                 /\ Listed(recs[k].devices) = Listed(records[k].devices)
    PROVE  Footprint
<1>1. records' = recs /\ now' = now
  BY DEF Commit
<1>2. file' \in {Rows(recs), file, {}}
  BY OutcomeAssumption DEF Commit, Persist
<1>3. QED
  BY <1>1, <1>2 DEF Footprint

LEMMA ReplaceFootprint ==
    ASSUME RecordsOK(records), FileOK(file), NEW k, NEW password \in Password,
           NEW outcome, ReplacePasswordAndClearDevices(k, password, outcome)
    PROVE  Footprint
<1> DEFINE recs == [records EXCEPT ![k].password = password, ![k].devices = NoDevices]
<1>1. Commit(recs, outcome) /\ k \in DOMAIN records
  BY DEF ReplacePasswordAndClearDevices
<1>2. Listed(records'[k].devices) = {} /\ records' = recs
  BY <1>1, RotateRewrites DEF Commit
<1>3. \A j \in DOMAIN recs : j \in DOMAIN records /\ (j # k => recs[j] = records[j])
  OBVIOUS
<1> HIDE DEF recs
<1>4. QED
  BY <1>1, <1>2, <1>3, CommitFootprint

LEMMA DeleteFootprint ==
    ASSUME NEW k, NEW outcome, Delete(k, outcome)
    PROVE  Footprint
<1> DEFINE recs == WithoutRecord(records, k)
<1>1. Commit(recs, outcome)
  BY DEF Delete
<1>2. \A j \in DOMAIN recs : j \in DOMAIN records /\ recs[j] = records[j]
  BY DEF WithoutRecord
<1> HIDE DEF recs
<1>3. QED
  BY <1>1, <1>2, CommitFootprint

LEMMA CreateFootprint ==
    ASSUME NEW u, Listed(u.devices) = {}, NEW outcome, Create(u, outcome)
    PROVE  Footprint /\ KeepsDevices
<1> DEFINE recs == WithRecord(records, u.id, u)
<1>1. /\ u.id \notin DOMAIN records
      /\ records' = IF outcome = "saved" THEN recs ELSE records
      /\ Persist(recs, outcome) /\ now' = now
  BY DEF Create, Available
<1>2. /\ DOMAIN recs = DOMAIN records \cup {u.id} /\ recs[u.id] = u
      /\ \A j \in DOMAIN records : recs[j] = records[j]
  BY <1>1 DEF WithRecord
<1> HIDE DEF recs
<1>3. CASE outcome = "saved"
  <2>1. records' = recs /\ file' = Rows(recs)
    BY <1>1, <1>3 DEF Persist
  <2>2. QED
    BY <1>1, <1>2, <2>1 DEF Footprint, KeepsDevices
<1>4. CASE outcome # "saved"
  <2>1. records' = records /\ file' \in {file, {}}
    BY <1>1, <1>4, OutcomeAssumption DEF Persist
  <2>2. QED
    BY <1>1, <2>1 DEF Footprint, KeepsDevices
<1>5. QED
  BY <1>3, <1>4

\* A permission that ends only takes a device off the network.
LEMMA EndFootprint ==
    ASSUME NEW X, IInv(X), NEW mac \in Mac, PermissionEnds(mac)
    PROVE  /\ Footprint /\ KeepsDevices
           /\ net' \in [Mac -> Nat] /\ \A m \in Mac : net'[m] \in {net[m], 0}
<1>1. net \in [Mac -> Nat] /\ net' = [net EXCEPT ![mac] = 0]
  BY DEF IInv, RepoOK, PermissionEnds, Lapse, Expel
<1>2. now' = now /\ records' = records /\ file' = file
  BY DEF PermissionEnds, repositoryVars
<1>3. QED
  BY <1>1, <1>2, UnchangedFootprint DEF KeepsDevices

\* A request only takes devices off the network, and its arrival keeps all lists.
LEMMA StepFootprint ==
    ASSUME NEW X, IInv(X), NEW a \in Admin, AdminArrival(a) \/ AdminProgress(a)
    PROVE  /\ Footprint
           /\ net' \in [Mac -> Nat] /\ \A m \in Mac : net'[m] \in {net[m], 0}
           /\ AdminArrival(a) => KeepsDevices
<1>1. RecordsOK(records) /\ FileOK(file) /\ net \in [Mac -> Nat]
  BY DEF IInv, RepoOK
<1> DEFINE NetFits == net' \in [Mac -> Nat] /\ \A m \in Mac : net'[m] \in {net[m], 0}
<1>2. net' = net => NetFits
  BY <1>1
<1>3. ASSUME AdminProgress(a)
      PROVE  Footprint /\ NetFits
  <2>1. ASSUME NEW outcome, RevokeDevice(a, outcome)
        PROVE  Footprint /\ NetFits
    <3>1. Footprint
      BY <2>1, UnchangedFootprint DEF RevokeDevice, repositoryVars
    <3>2. net' \in {net, [net EXCEPT ![adm[a].target] = 0]}
      BY <2>1 DEF RevokeDevice, Revoke, Expel
    <3>3. QED
      BY <1>1, <3>1, <3>2
  <2>2. CASE \/ \E outcome \in NotifyOutcome :
                   MailNew(a, outcome) \/ \E password \in Password : Notify(a, password, outcome)
             \/ Abandon(a)
    <3>1. UNCHANGED <<now, records, file, net>>
      BY <2>2 DEF MailNew, Notify, Abandon, repositoryVars
    <3>2. QED
      BY <1>2, <3>1, UnchangedFootprint
  <2>3. ASSUME NEW outcome, Clear(a, outcome)
        PROVE  Footprint /\ net' = net
    BY <1>1, <2>3, OneRequest, ReplaceFootprint DEF Clear, Account
  <2>4. ASSUME NEW outcome, NEW password \in Password, Replace(a, password, outcome)
        PROVE  Footprint /\ net' = net
    BY <1>1, <2>4, ReplaceFootprint DEF Replace
  <2>5. ASSUME NEW outcome, DeleteRecord(a, outcome)
        PROVE  Footprint /\ net' = net
    BY <2>5, DeleteFootprint DEF DeleteRecord
  <2>6. ASSUME NEW outcome, Undo(a, outcome)
        PROVE  Footprint /\ net' = net
    BY <2>6, DeleteFootprint, UnchangedFootprint DEF Undo, repositoryVars
  <2>7. ASSUME NEW outcome, CreateRecord(a, outcome)
        PROVE  Footprint /\ net' = net
    BY <2>7, OneRequest, CreateFootprint DEF CreateRecord, CarriesOK
  <2>8. ASSUME NEW outcome, ApplyUpdate(a, outcome)
        PROVE  Footprint /\ net' = net
    <3> DEFINE u == adm[a].account
               b == [u EXCEPT !.password = records[u.id].password,
                              !.devices = records[u.id].devices]
               recs == [records EXCEPT ![u.id] = b]
    <3>1. adm[a].pc = "updating" /\ u.id \in DOMAIN records /\ Commit(recs, outcome) /\ net' = net
      BY <2>8 DEF ApplyUpdate, Update
    <3>2. u \in Account /\ SameAccount(u, records[u.id])
      BY <3>1, OneRequest DEF FitsRecord
    <3>3. b.devices = records[u.id].devices /\ b.username = records[u.id].username
      BY <3>2 DEF Account, SameAccount
    <3> HIDE DEF b
    <3>4. ASSUME NEW k \in DOMAIN recs
          PROVE  /\ k \in DOMAIN records /\ recs[k].username = records[k].username
                 /\ recs[k].devices = records[k].devices
      <4>1. CASE k = u.id
        BY <3>1, <3>3, <4>1
      <4>2. CASE k # u.id
        BY <4>2
      <4>3. QED
        BY <4>1, <4>2
    <3> HIDE DEF recs
    <3>5. QED
      BY <3>1, <3>4, CommitFootprint
  <2> HIDE DEF NetFits
  <2>9. QED
    BY <1>2, <1>3, <2>1, <2>2, <2>3, <2>4, <2>5, <2>6, <2>7, <2>8 DEF AdminProgress
<1>4. ASSUME AdminArrival(a)
      PROVE  Footprint /\ net' = net /\ KeepsDevices
  <2>1. CASE ~\E id \in Id, name \in Username, password \in Password,
                 outcome \in PersistOutcome : CreateEmployee(a, id, name, password, outcome)
    <3>1. UNCHANGED <<now, records, file, net>>
      BY <1>4, <2>1
      DEF AdminArrival, StartRotation, StartDeletion, StartUpdate, StartCreation, repositoryVars
    <3>2. QED
      BY <3>1, UnchangedFootprint DEF KeepsDevices
  <2>2. ASSUME NEW id, NEW name, NEW password, NEW outcome,
               CreateEmployee(a, id, name, password, outcome)
        PROVE  Footprint /\ net' = net /\ KeepsDevices
    <3> DEFINE u == NewEmployee(id, name, password, now)
    <3>1. Create(u, outcome) /\ net' = net
      BY <2>2 DEF CreateEmployee
    <3>2. Listed(u.devices) = {}
      BY DEF NewEmployee, Listed, NoDevices
    <3> HIDE DEF u
    <3>3. QED
      BY <3>1, <3>2, CreateFootprint
  <2>3. QED
    BY <2>1, <2>2
<1> HIDE DEF NetFits
<1>5. NetFits /\ Footprint /\ (AdminArrival(a) => KeepsDevices)
  BY <1>2, <1>3, <1>4
<1>6. QED
  BY <1>5 DEF NetFits
=============================================================================
