---------------------------- MODULE RateLimiter ----------------------------
(***************************************************************************)
(* The sliding window in front of POST /portal/authenticate.  A request    *)
(* reads the clock, waits for the limiter's mutex and is then let through  *)
(* or refused by what the list of its client address holds.  Requests      *)
(* therefore reach the list in another order than that of their stamps.    *)
(*                                                                         *)
(* Each element of Request is one HTTP request; the list of an address     *)
(* holds requests instead of their stamps, so that two equal stamps count  *)
(* twice, as in the code.                                                  *)
(***************************************************************************)
EXTENDS Integers, FiniteSets

CONSTANTS
    Request,
    Key,        \* client addresses
    NoKey,      \* a request whose address is not known
    Limit,
    Window,
    MaxTime     \* bound on the clock

\* NewRateLimiter replaces a limit or window that is not positive.
ASSUME LimiterAssumption ==
    /\ Limit \in Nat \ {0}
    /\ Window \in Nat \ {0}
    /\ NoKey \notin Key
    /\ MaxTime \in Nat

VARIABLES
    now,
    at,         \* how far each request has come
    key,        \* its client address
    stamp,      \* the instant it read from the clock
    keys,       \* the limiter's map: address to the requests on its list
    newest,     \* history: the latest stamp decided upon for each address
    disorder    \* history: how far a stamp was behind the newest one at most

vars == <<now, at, key, stamp, keys, newest, disorder>>

-----------------------------------------------------------------------------
Init ==
    /\ now = 0
    /\ at = [r \in Request |-> "new"]
    /\ key = [r \in Request |-> NoKey]
    /\ stamp = [r \in Request |-> 0]
    /\ keys = [k \in Key |-> {}]
    /\ newest = [k \in Key |-> 0]
    /\ disorder = 0

\* The address is taken from the request, then the clock is read.
Arrive(r) ==
    /\ at[r] = "new"
    /\ \E k \in Key \cup {NoKey} : key' = [key EXCEPT ![r] = k]
    /\ stamp' = [stamp EXCEPT ![r] = now]
    /\ at' = [at EXCEPT ![r] = "stamped"]
    /\ UNCHANGED <<now, keys, newest, disorder>>

\* Mutant of Recent: an entry of exactly one window ago still counts.
RecentOrEqual(r, q) == stamp[r] - stamp[q] <= Window

\* Mutant of Recent: only entries older than the request count.
RecentBefore(r, q) == stamp[q] <= stamp[r] /\ stamp[r] - stamp[q] < Window

\* Whether entry q counts against request r.  One that is younger does.
Recent(r, q) == stamp[r] - stamp[q] < Window

Filtered(r) == {q \in keys[key[r]] : Recent(r, q)}

Behind(r) == IF newest[key[r]] > stamp[r] THEN newest[key[r]] - stamp[r] ELSE 0

RecordOrder(r) ==
    /\ disorder' = IF Behind(r) > disorder THEN Behind(r) ELSE disorder
    /\ newest' = [newest EXCEPT ![key[r]] = IF @ < stamp[r] THEN stamp[r] ELSE @]

Allow(r) ==
    /\ at[r] = "stamped" /\ key[r] \in Key
    /\ Cardinality(Filtered(r)) < Limit
    /\ keys' = [keys EXCEPT ![key[r]] = Filtered(r) \cup {r}]
    /\ at' = [at EXCEPT ![r] = "allowed"]
    /\ RecordOrder(r)
    /\ UNCHANGED <<now, key, stamp>>

\* Mutant of Refuse: a refused request is put on the list too.
RefuseCounting(r) ==
    /\ at[r] = "stamped" /\ key[r] \in Key
    /\ Cardinality(Filtered(r)) >= Limit
    /\ keys' = [keys EXCEPT ![key[r]] = Filtered(r) \cup {r}]
    /\ at' = [at EXCEPT ![r] = "refused"]
    /\ RecordOrder(r)
    /\ UNCHANGED <<now, key, stamp>>

Refuse(r) ==
    /\ at[r] = "stamped" /\ key[r] \in Key
    /\ Cardinality(Filtered(r)) >= Limit
    /\ keys' = [keys EXCEPT ![key[r]] = Filtered(r)]
    /\ at' = [at EXCEPT ![r] = "refused"]
    /\ RecordOrder(r)
    /\ UNCHANGED <<now, key, stamp>>

RefuseUnknown(r) ==
    /\ at[r] = "stamped" /\ key[r] = NoKey
    /\ at' = [at EXCEPT ![r] = "refused"]
    /\ UNCHANGED <<now, key, stamp, keys, newest, disorder>>

Tick ==
    /\ now < MaxTime
    /\ now' = now + 1
    /\ UNCHANGED <<at, key, stamp, keys, newest, disorder>>

Next ==
    \/ \E r \in Request : Arrive(r) \/ Allow(r) \/ Refuse(r) \/ RefuseUnknown(r)
    \/ Tick

Spec == Init /\ [][Next]_vars

-----------------------------------------------------------------------------
Allowed(k) == {r \in Request : at[r] = "allowed" /\ key[r] = k}

\* The list of an address holds requests of that address that were let through,
\* and no stamp is ahead of the clock (Allow).
TypeOK ==
    /\ now \in Nat
    /\ at \in [Request -> {"new", "stamped", "allowed", "refused"}]
    /\ key \in [Request -> Key \cup {NoKey}]
    /\ stamp \in [Request -> 0 .. now]
    /\ keys \in [Key -> SUBSET Request]
    /\ \A k \in Key : keys[k] \subseteq Allowed(k)
    /\ newest \in [Key -> 0 .. now]
    /\ disorder \in Nat

\* The stamps of S fit into one window, with what requests lost while they
\* waited for the mutex taken off it.
Together(S) == \A q, r \in S : stamp[q] - stamp[r] + disorder < Window

\* An address gets no more than Limit requests through in any stretch of time
\* shorter than the window by the greatest delay with which a stamp reached the
\* list; exactly the window when stamps arrive in order (RateLimiter.Allow).
WindowLimit ==
    \A k \in Key : \A S \in SUBSET Allowed(k) : Together(S) => Cardinality(S) <= Limit

\* A request is refused only if Limit requests of its own address have passed
\* that are less than a window older than it, or younger: refused requests, other
\* addresses and what lies a full window back are never held against it.
RefusalJustified ==
    [][\A r \in Request : at[r] = "stamped" /\ at'[r] = "refused" =>
          \/ key[r] = NoKey
          \/ Cardinality({q \in Allowed(key[r]) : stamp[r] - stamp[q] < Window}) >= Limit]_vars
=============================================================================
