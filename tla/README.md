# Verification of network-auth-service

TLA+ specifications of the captive-portal authentication service of the Chateauneuf
building, checked with TLC; the safety properties are proved with TLAPS as well. The service decides who may use the
building's Wi-Fi: an Omada controller redirects unknown devices to its portal, residents and
employees log in there, and administrators create, block, rotate and delete accounts.

## 1. The system

| Part | State | Operations |
|---|---|---|
| **Local account repository** (`adapters/repository/local`) | the map of accounts in memory, guarded by a read-write mutex; a JSON file rewritten in full by every change | `ValidateCredentials`, `FindByMAC`, `RegisterDevice`, `RemoveDevice`, `Get`, `List`, `Create`, `Update`, `ReplacePasswordAndClearDevices`, `Delete`; `load` at start |
| **Portal login service** (`application/auth/service.go`) | the map of portal sessions, in memory only | `CreatePortalSession`, `Authenticate`, `AutoAuthenticate` |
| **Account administration** (`application/auth/accounts.go`) | none of its own; each request holds a copy of an account | `Create`, `CreateEmployee`, `Update`, `ChangePassword`, `Delete`, `revokeAll` |
| **Omada client** (`adapters/omada`) | CSRF token, Open API token and its expiry, a mutex (`csrfMu`) | `Authorize`; `Revoke` in two halves: `revokeHotspotAuthorization` (login, list, disconnect) and `revokeOpenAPI` (token, DELETE) |
| **Residents clients** (`adapters/repository/residents`) | none | apartment lookup, credential mail |
| **Rate limiter** (`transport/http/middleware.go`) | the stamps of the requests let through, per client address, and a mutex | `Allow` |
| **HTTP transport** (`transport/http`) | none besides | handlers, router |
| **Configuration, main, hashpassword** | none | wiring, start, shutdown |
| **security/portal_session_store.go** | a second session store | used by nothing |

Interactions: the handlers call the two services; both services share one repository and one
Omada client. Requests run concurrently, one goroutine each. Only the repository's and the
adapter's mutexes and the session store's mutex separate them, and none of them is held across
two calls: a login is five separate steps (session check, credentials, registration,
authorization, success or rollback), an administration request is a read, one controller call
per device, a mail and one or two writes. Besides the shared maps there is one hidden channel:
a copy of an account shares the array of its device list with the record it was read from.

### What is hard here

* **Interleaving.** Two logins with one session or from one MAC; logins between the steps of a
  rotation, a block or a deletion; two administrators on one account.
* **Failure.** Every write of the file may fail (the Dockerfile makes `/app` root-owned and runs
  the service as another user, so creating the temporary file there fails). After a failed write
  memory and file differ; only `Create` undoes its change. The controller and the mail service
  may apply a call and lose the answer.
* **Crash and restart.** Sessions and requests disappear, accounts come back from the file, the
  controller keeps its authorizations.
* **Late effects.** A request to the controller is given up after ten seconds and may reach it
  afterwards, behind the requests of later calls. A revocation releases the mutex between its
  halves, so that other calls come between them.
* **Time.** Sessions, accounts and network authorizations expire while requests wait; the Open API
  token ends at the controller before it does by the client's clock; requests reach the rate
  limiter in another order than they read the clock.

### What makes each part correct

* Repository: device limits, unique logins, durability of what was acknowledged, no return of
  what was deleted or refused.
* Portal: no authorization and no trust without credentials, none beyond the account's life, no
  replay, failed logins free their connection, every request ends.
* Administration: a device leaves the list only off the network, a stored password has reached
  its owner, every request ends.
* Omada client: a device reported as revoked stays revoked; requests carry the token of their own
  login; every call releases the mutex and returns; tokens outlive the requests that carry them.
* Rate limiter: no more than the limit pass in a window, nobody is refused without cause.
* Together: the same, while both services work on the same account.

`PROJECT.json` lists the hazards line by line with the properties that cover them.

## 2. Modules

| Module | Models | Correspondence |
|---|---|---|
| `Accounts` | one account record, its device list, rows of the file | a password hash is the password it was made from; a device list is a function from MAC to the instant its trust ends, 0 when not listed |
| `UserRepository` | the repository's state and operations | `records` is the map, `file` the set of rows on disk; each operation is one step because it holds the mutex from reading to writing the file; the outcome of the write is a parameter (`saved`, `unsaved`, `lost`) |
| `RepositoryHistory` | the repository under the calls made of it, with what callers were told | `copy` is the account an `Update` in progress has read |
| `AccountLedger` | what the repository promises: a set of accounts in force (`live`) and a set that survives a crash (`kept`) | abstract; `RepositoryHistory` implements it (`ImplementsLedger`) |
| `NetworkController` | the controller behind the two ports, as the services are composed with it | `net[m]` is the instant until which MAC `m` is on the network; outcomes `done`, `failed`, `lostReply`, `late` (given up, applied afterwards), `missed` (a revocation reported as done that left the device alone) |
| `PortalAuth` | the login service | `sessions` the store and its session objects, `req[r].pc` how far a request has come, `underway` authorizations given up that may still be applied (`Arrive`); one action per call made |
| `AccountAdmin` | the administration service | `adm[a].pc` how far a request has come, `.account` its copy, `.list`/`.next` the loop of `revokeAll`; `missed` (history) the devices left on the network by a revocation reported as done |
| `NetworkAccess` | both services on one repository and controller | instances of the two modules above; `slice` is the order of a record's device list, `.list` of a request is moved when `RemoveDevice` compacts the array in place (`Withdraw`); `touched` and `moved` are history |
| `OmadaAdapter` | the Omada client request by request, and the controller's list of authorized and connected clients | `call[c].pc` the HTTP request a call waits for; `csrfMu` its holder; `csrfToken` the call whose login made the token; `underway` requests given up that may still arrive; `setup` what is configured |
| `ControllerPort` | what the services may expect of the two ports | abstract; where `blind`, a revocation may be reported as done without effect; `OmadaAdapter` implements it (`ImplementsPort`) |
| `OpenAPIToken` | the cached Open API token over time | `tokenExpiresAt` by the client's clock, `goodUntil` by the controller's; one call at a time, which is what `csrfMu` makes of them |
| `RateLimiter` | `RateLimiter.Allow` | a request reads the clock (`stamp`), then reaches the list of its address (`keys`) in any order |
| `…Proofs`, `RepositoryLemmas` | theorems about the module they are named after | see 4 |
| `MC…` | small instances for TLC | |

Variables marked *history* in the modules record what happened for the properties; no guard
reads them, except that ids (`issued`, `issuedIds`), sessions and generated passwords (`drawn`)
are never drawn twice, which is what their randomness is for. An operator headed
*Mutant of X* is a wrong variant of `X`; the property listed with it in `PROJECT.json` fails
when it takes the place of `X`.

Modelling choices worth knowing:

* *Identity.* Id, username and apartment are strings in the code and share values when a row of an
  earlier version has no id or apartment, hence `Username ⊆ Id` and `Username ⊆ Apartment`.
* *Waiting for the controller.* The duration of an authorization is computed before the call
  waits for the adapter's mutex; `granted[m].limit` allows exactly that delay.
* *Calls of the controller* are one step in `NetworkController`: `ControllerPort` with the begin, the
  effect and the end of a call joined. The step of a revocation stands for its first half, which takes
  back the hotspot authorization and so decides whether the MAC may use the network; an error in the
  disconnection that follows is a `lostReply`. What cannot be joined has outcomes of its own. An
  authorization that was given up may be applied at any later moment (`late`, then `Arrive`). A
  revocation may be reported as done and have left the device alone (`missed`): the legacy endpoint
  answers any refusal with HTTP 200, which is all the client looks at (auth.go:79), and a device after
  the first thousand of the list passes for one without authorization (auth.go:102, 177). A revocation
  that was given up and is applied later ends a permission, as running out does (`PermissionEnds`).
  Duplicates of one authorization under way are one element, which `Arrive` may leave behind.
* *Durations that are not positive* are taken to grant nothing at the controller (`Admit`), so that
  `AuthorizationDuration` may count what is left of an expired account as 0. The service does not
  test for them.
* *Limiter lists* hold requests rather than stamps, so that two equal stamps count twice. The
  history variable `disorder` is the greatest delay with which a stamp reached the list. Without
  it `WindowLimit` is false: a request with a recent stamp drops an entry that an older request,
  coming later, would have had to count.
* *Cancelled clients.* Administration requests use the request's context, so a repository call
  may fail because the client left: `Abandon`. Logins use the background context.
* *Departed clients.* `GET /portal` uses the request's context: when the client is gone before the
  lookup, a session is created whose id nobody learns. Such sessions are left out.
* *Crash inside a write* leaves one of the write's outcomes behind, followed by `Restart`.
* *Zero dates.* An update may store no expiry date at all: the account is barred at once and gets
  90 days when the file is loaded next.

## 3. Runs

All runs but `rate_limiter` check for deadlock; there all requests may have ended and the clock
reached its bound. In the services `Restart` is always possible, so the liveness properties rather
than that check speak about requests that hang.

| Run | Question | Bounds |
|---|---|---|
| `repository` | device limits, unique logins, durability, deletion, refusal; the ledger | 3 ids, 2 usernames, 1 apartment and a legacy row; 2 MACs for 1 connection, so both limits are 1 (the change of a limit by an update rests on the proof); 1 password (a rotation shows by the devices it clears; the proof covers any number); all three write outcomes; clock up to 2, so devices and employees expire |
| `portal` | authorization, replay, connections, remembered devices | 2 devices for 1 connection, 2 requests, 2 sessions, right and wrong password, clock up to 3 with sessions of 1 and an account of 2, failing writes, all controller outcomes of an authorization, 1 late authorization |
| `admin` | revocation before clearing, delivered and lasting passwords | 2 administrators, 2 devices, 3 passwords, room for one more account, failing writes, all controller outcomes |
| `admin_liveness` | every administration request ends | 2 administrators, 1 device, 2 passwords, room for one more account, updates, failing writes and mails, revocations refused or reported without effect; the clock stands still |
| `network_races` | who gets in, connections and revocation while logins race | 2 logins, 1 administrator, 2 devices for 1 connection, 2 passwords; the clock stands still; calls of the controller succeed or fail |
| `network_access` | revocation and authorization with late and falsely reported effects; every login ends | 1 login, 1 administrator, 1 device, 2 passwords, clock up to 2 with accounts of 2, calls of the controller that succeed, that take effect late (at most 1 authorization under way) and revocations without effect |
| `omada` | mutex, tokens and revocation in the client; the port | 2 calls, 1 device on a list of 1, all five configurations, 2 late requests |
| `token` | life of the Open API token | timeout 1, margin 3, lifetime 6, clock up to 16: the seconds of the code divided by ten, but a shorter lifetime, so that tokens come and go |
| `rate_limiter` | who passes and who is refused | 4 requests, 2 addresses, 2 per window of 3, clock up to 4 |

Two requests of a kind are enough for the races of this code: every race is between two requests on
one record, session or MAC, since the steps share nothing else. One connection with two devices
reaches both sides of the limit. Three passwords let two rotations overlap with the first one
distinguishable. Calls of the Omada client for different devices meet only at the mutex and the
tokens, which one device shows as well; any number of devices, and lists longer than the page, are
left to the proof (4). A `late` call that arrives at once is a `lostReply` and one that never
arrives a `failed`, which is why `network_access` and `admin_liveness` need not have them all.
Symmetry is used where the initial state does not name the values, and never with liveness. The
composed runs leave failed writes, and accounts that are created again under a login, to the runs of
each service and to the proofs of the composition, which cover both: a login or an administration
request whose write fails ends with that step or goes on as without it.

Properties that pass: see the comments above each in the modules. The deeper ones:

* `AckedDurable`: memory and file keep what an account's last successful operation left, through
  failed operations on others and restarts, unless a write lost the file.
* `ImplementsLedger`: every operation changes one account; all of memory is kept when it
  succeeds and nothing but an older file when it does not; ids do not come back.
* `SlotJustified`: without failed writes and crashes, every listed device logged in or is
  logging in now, although the rollback races with other logins.
* `NoLateReplay`: a session that has won is never accepted by a *later* request, even though the
  success of one request may put back a session that another has dropped.
* `SuccessRemembered`: a login that took a connection and succeeded is remembered as long as the
  account lasts, whatever other logins from the same device fail. README.md:46 says so of every
  login; one that found its device listed by a login still in progress has no such promise.
* `GrantWithinAccount`: a network authorization ends with the account, give or take the time
  between the reckoning of its duration and its arrival at the controller.
* `RevokedBeforeCleared`: without concurrent logins, devices leave the list only off the network, or
  after a revocation that was reported as done and left them alone.
* `RevokedUnlessTouched`: with concurrent logins, a trusted device that administration clears while it is
  on the network is one of these: let in while the request ran, by a login, a reconnection or an authorization that
  came late; on a list that a rollback moved; or reported as revoked by a revocation that left it alone.
* `RotationSticks`: the password the last rotation produced is the one in force, unless requests
  overlapped on the account or a write failed (accounts_test.go:53 without the overlaps).
* `RevocationHolds`: a device reported as revoked is neither authorized nor connected until
  somebody authorizes it again, except for lists that were cut off, the legacy endpoint, and
  authorizations that ran meanwhile or are still on their way.
* `ImplementsPort`: a call takes effect once, between its begin and its end unless it was given
  up, and success is not reported without it, unless revocations are blind.
* `TokenFresh`, `RejectionsEnd`: a token outlives the request that carries it, and one the
  controller has forgotten, which no answer makes the client drop, is used no longer than the
  rest of its lifetime.
* `WindowLimit`, `RefusalJustified`: see the modelling choices.
* `EveryPasswordDelivered`: an account created here whose resident never got the password is
  only ever one whose creation is still being undone.

### Where code and documents disagree

Each of these runs checks one sentence of the repository and finds a counterexample:

| Run | Sentence | What happens |
|---|---|---|
| `single_use` | ARCHITECTURE.md:101, no reuse of a session | two concurrent submissions both log in |
| `quiet_devices` | accounts_test.go:64, rotation revokes the device | a rollback compacts the list under `revokeAll`, which skips a device nobody touched |
| `trust_follows_password` | accounts_test.go:67, trust is cleared | a login checked before the rotation is registered after it |

Seen on the way and not worth a run each: a new resident account accepts five devices
(`DefaultMaxConnections`) where README.md:44 says three; a controller call that takes effect while
its answer is lost leaves a device on the network whose connection is free again, so an employee
can have two devices online where README.md:51 grants one; a device registered after a rotation
read the account is cleared from the record while still on the network, and so is one whose revocation was
reported as done and was not (both are exceptions of `RevokedUnlessTouched`); of two overlapping rotations the earlier one may win, and the rollback of
one login may take the device of another that was listed by it; ARCHITECTURE.md:163 asks for limits
per address and per username where the limiter knows addresses only, and router.go:13 gives it 20
per minute whatever the environment says.

### Fairness

`FairSpec` of `NetworkAccess` asks weak fairness of each login's next step, and that of
`AccountAdmin` of each administration request's; nothing of arrivals, late effects, crashes or the
clock, and `NetworkAccess` nothing of administration, so that a login ends even next to an
administration request that does not. The code justifies it: a request runs in a goroutine the Go
scheduler keeps running, the repository never waits for anything but its mutex and the disk, and
every call to the controller or the residents services carries a client timeout (10 and 15 seconds).
No outcome of a call is assumed: it may fail every time. That an administration request ends next to
logins is not checked: whether its next step is possible depends on its own place and on whether the
account is there, which logins do not change. `FairSpec` of `OmadaAdapter` asks the same of a call's
progress, and strong fairness of its taking the mutex: other calls may take it in between any number
of times, but a Go mutex is handed to a waiter that has waited for a millisecond.

## 4. Proofs

| Module | Proved, for every value of the constants |
|---|---|
| `RepositoryProofs` | `TypeOK`, `DeviceLimit`, `UniqueLogin`, `AckedDurable`, `DeletedStaysDeleted`, `RefusedStaysOut`; `ImplementsLedger`: the repository with its file implements `AccountLedger` |
| `PortalProofs` | `TypeOK`, `GrantProven`, `GrantWithinAccount`, `NoLateReplay`, `SlotJustified`; `SuccessRemembered` if `ListedForLife` |
| `AdminProofs` | `TypeOK`, `EveryPasswordDelivered`, `RotationSticks`, `RevokedBeforeCleared` |
| `NetworkProofs` | of `NetworkAccess`: `TypeOK`, `GrantProven`, `GrantWithinAccount`, `SlotJustified`, `RevokedUnlessTouched`; and that `NoLateReplay`, `EveryPasswordDelivered` and `RotationSticks` of the services hold of both together |
| `OmadaAdapterProofs` | `TypeOK`, `OwnToken`, `RevocationHolds`; `ImplementsPort` |
| `OpenAPITokenProofs` | `TypeOK`, `TokenFresh`, `RejectionsEnd` |
| `RateLimiterProofs` | `TypeOK`, `WindowLimit`, `RefusalJustified` |

With these every safety property that a passing run checks, action properties and refinements
included, is a theorem for any number of accounts, devices, sessions, requests and administrators, one
of them under an assumption named below.
`RepositoryLemmas` holds what the first four share: what a write, a load, `RegisterDevice`, `RemoveDevice`
and `ReplacePasswordAndClearDevices` make of well-formed records. Each invariant `IInv` was checked
with TLC on the module's instance before it was proved; each module has one lemma per action or kind of
action, one lemma for the initial states, and `Invariance`, from which the theorems follow.

**Assumptions.** Named in the modules, evaluated by TLC in the runs: shared strings as in 2;
registered apartments have usernames; limits and lifetimes are numbers, an employee has at least
one connection; finitely many MACs; the first file was written by this program or an earlier version
(`InitialFileAssumption`: device lists within the limit, distinct accounts once loaded);
`TokenAssumption`: the margin is at least two timeouts (30 s and 10 s in the code) and a token lives
longer than that; the limiter's limit and window are not zero. `AccessAssumption` repeats for
`NetworkAccess` what `PortalAuth` and `AccountAdmin` assume of their own constants, since an
`INSTANCE` does not bring assumptions along; nothing is added to them. One theorem assumes more in its
statement: `SuccessRemembered` needs the first file's devices to be trusted for the life of their
accounts: a device whose account was prolonged by an administrator is trusted for the shorter time it
was listed with, may run out while a login from it is under way, and is then listed again by a second
one.

**The invariants, and why the properties need them.**

* *Repository.* The device limit needs to know that an update, which writes the resident limit, meets
  a resident (employees have no apartment and are refused); that needs the copy in hand and the record
  to be versions of one account (`SameAccount`), although the account may have been deleted and its
  username used again; that needs ids to be fresh (`issued`); and a restart needs all of this of the
  rows on disk as they will look once loaded, with their missing fields filled in. `RecordsOK` of
  memory and `FileOK` of the file say that, and `AckedDurable` is inductive relative to them.
  `RoomIsEnough` is the counting argument of `RegisterDevice`.
* *Ledger.* The mapping reads the live accounts off the map and the kept ones off the file
  (`Loaded`). A step changes one of them, which is where `Create` undoing its change and the others
  keeping theirs differ.
* *Portal.* `GrantProven` follows from where each request stands (`ReqOK`: after which step its
  credentials have been accepted, what it knows of the account's expiry, that it holds the MAC of its
  session), from memory and file listing only devices that proved themselves, and from the same being true
  of every authorization still under way (`LateOK`). `NoLateReplay` needs a
  session that has won to stay marked as used, even when another request puts the object back. `SlotsOK`
  is what the rollback relies on: every listed device is kept or claimed by the login that found a free
  connection (`fresh`), and no other login may take it away. `SuccessRemembered` adds `OneClaim`: at most
  one request has such a claim on a device, and nobody relies on the device meanwhile.
* *Administration.* Requests work on copies. `FitsRecord` says how stale a copy may be: a version of
  the record, if that is still there, which covers every listed device that may be on the network, as the
  device being disconnected or one further down the list. Which devices may be on the network is judged
  by `Reported`, that is by what revocations were reported to have done; where they did less, `missed`
  says so, and the theorem with it. Two requests on one account preserve it
  for each other because neither adds a device. `DeliveryOK` speaks of the password of each copy as well,
  since an update writes it back. `ToldOK` and `ApartOK` say that the password last reported is in
  the record and in the copy of the one request that may be at work.
* *Both services together.* `NetworkProofs` proves that the invariants of the two services hold side
  by side; each step of one must then be harmless to the other.
  - For the portal, an administration step is one that leaves each device list alone, empties it, drops
    its account or adds an account without devices, revokes but never authorizes, and leaves file and
    memory as a write does (`Footprint`). That keeps `ReqOK`, `ProvenOK` and `SlotsOK`: a login may find
    its account gone or replaced, and must not have relied on it.
  - For the administration, a login may add a device to the record under a request that has its copy
    already, and a rollback may move the array under one that walks it. Both break `FitsRecord`, and
    have to: `quiet_devices` shows a device cleared while on the network. So
    `AdminProofs` proves its invariant for any function `X` of *excused* devices, which a request need
    not cover (`IInv(X)`; with no device excused it is the invariant of the service alone). The
    composition takes as excused the devices let in while the request ran, be it by an authorization that
    comes late, and all of them once a rollback has moved its list (`Excused`). Those and `missed` are
    the exceptions of `RevokedUnlessTouched`.
  - `SliceOK` is what `TypeOK` says of the array. Nothing is needed of its order: `moved` has every
    request whose list a rollback changed, whichever way, and a list it left alone covers what it did.

  The two instances of a module are different operators to the prover even where they are equal; the
  section *The services' lemmas, from here* connects them by writing both out.
* *Omada client.* The holder of the mutex is the one call in a place that waits for an answer
  (`PlaceOK`), which makes its token the one of its own login; a call past the first half of its
  revocation has withdrawn the device unless somebody authorized it since or the list was cut
  (`WithdrawnOK`). Towards the port, configurations whose revocations may pass over a device are
  those of `MayMiss`: the legacy endpoint, and more devices than fit on a page.
* *Open API token.* `ReckoningOK` relates the client's expiry, minus the margin, to the controller's;
  the timeout bounds both the delay of the answer and the age of a request.
* *Rate limiter.* An entry that was dropped is a whole window older than some request that has been
  through, which `disorder` bounds for every request that comes later (`Dropped`).

Only model-checked: liveness (`EveryCallReturns`, `EveryRequestAnswered`,
`EveryAdminRequestAnswered`), which with `ENABLED` is out of the prover's reach, and the three
counterexamples of 3. Nothing here needs induction over data: no module declares a RECURSIVE operator.

## 5. Not modelled, and why

* *Effects after the end of a call* are in the composition (`late`, `missed`, `PermissionEnds`), with at
  most `MaxLate` authorizations under way at once. What the controller does with an authorization of
  no duration is assumed (2); that a token's lifetime defaults to two hours when the answer has none
  (auth.go:268) shows only as a token that ends earlier (`Drop` of `OpenAPIToken`).
* *Growth.* Sessions that nobody submits stay in the store, and addresses stay in the limiter's map.
  The instances bound both; nothing is stated about growth.
* *The limiter's state over a restart* is simply lost. *Finding the address* (`clientIP`) is left out:
  a request has an address or none.
* *Wiring.* Configuration, router, main. A stop, with or without a signal, is `Restart`: requests end
  where they are, since main does not wait for `Shutdown` to drain them.
* *MAC spelling.* Repository and Omada client both bring a MAC to one form before comparing, so a MAC
  is one value.
* *List* of the repository and of the administration only reads.
* Redirect targets, templates, headers, bandwidth fields, logging: no property depends on
  them.
* Passwords as strings and bcrypt; the enrollment password of employees; the administrator's token;
  the hashing command.
* `security/portal_session_store.go`: nothing uses it.
* Two accounts that list one MAC are in the model (a reconnection picks either), but no property
  speaks about which one pays for it.

## 6. Plan

Done: the repository with its ledger, both services and their composition, the controller port, the
Omada client, its token and the rate limiter; late and reported effects of controller calls in the
composition; proofs of all of them, the composition included; liveness of requests and calls, with failing
calls and writes.

Left, in this order:

1. That `NetworkAccess`, too, implements `AccountLedger`: its repository steps are those of
   `RepositoryHistory`, but it does not record what callers were told.
2. A bound on the session store, if the service ever drops sessions that nobody submits.
