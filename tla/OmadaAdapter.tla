---------------------------- MODULE OmadaAdapter ----------------------------
(***************************************************************************)
(* The Omada client and the controller at the other end of its HTTP        *)
(* requests.  A call locks csrfMu, logs in, and keeps the mutex until its  *)
(* exchange with the controller is over; a revocation does so twice, first *)
(* to take back the hotspot authorization and then to disconnect the       *)
(* device with the Open API.  Every request may be refused, or be given up *)
(* after the client's timeout (or because its caller left): then it may    *)
(* have been lost, or reach the controller later, when other calls have    *)
(* taken their turn.  Times are the business of OpenAPIToken.              *)
(***************************************************************************)
EXTENDS Naturals, FiniteSets

CONSTANTS
    Call,        \* slots for concurrent calls
    Mac,
    PageSize,    \* entries of the client list that are asked for
    Setups,      \* what may be configured, see Setup
    MaxLate,     \* bound on the requests given up and still under way
    NoCall       \* the owner of a free mutex

\* "full", or one of: no Open API credentials beside the site ("hotspot"), only
\* the path of a legacy endpoint ("legacy"), nothing for revocations ("portal"),
\* not even the controller ("none").
Setup == {"full", "hotspot", "legacy", "portal", "none"}

ASSUME AdapterAssumption ==
    /\ NoCall \notin Call
    /\ PageSize \in Nat \ {0}
    /\ Setups \subseteq Setup
    /\ MaxLate \in Nat
    /\ IsFiniteSet(Mac) /\ Mac # {}

VARIABLES
    setup,
    call,         \* op, mac and progress of each call
    csrfMu,       \* the call that holds the mutex
    csrfToken,    \* the call whose login produced the token
    accessToken,  \* whether an Open API token is cached
    authorized,   \* at the controller: MACs with a hotspot authorization
    online,       \* at the controller: MACs that use the network
    underway,     \* requests given up that the controller may still get
    cleared       \* history: MACs whose revocation succeeded, until the next
                  \* authorization is asked for

controllerVars == <<authorized, online, underway>>
vars == <<setup, call, csrfMu, csrfToken, accessToken, controllerVars, cleared>>

Op == {"authorize", "revoke"}

\* A call waits for the mutex in these places.
Queued == {"queued", "requeued"}

\* In these it waits for an answer and holds the mutex.
Asking == {"login", "authorize", "list", "disconnect", "legacy", "token", "delete"}

\* The requests that carry the token of the login.
Hotspot == {"authorize", "list", "disconnect", "legacy"}

Ended == {"idle", "done", "failed"}

Place == Ended \cup Queued \cup Asking

Open(c) == call[c].pc \notin Ended

NewCall == [pc |-> "idle", op |-> "authorize", mac |-> CHOOSE m \in Mac : TRUE,
            quiet |-> TRUE, cut |-> FALSE]

-----------------------------------------------------------------------------
Init ==
    /\ setup \in Setups
    /\ call = [c \in Call |-> NewCall]
    /\ csrfMu = NoCall /\ csrfToken = NoCall /\ accessToken = FALSE
    /\ authorized \in SUBSET Mac /\ online = authorized
    /\ underway = {}
    /\ cleared = {}

Goes(c, pc) == call' = [call EXCEPT ![c].pc = pc]

\* The call's outcome; deferred Unlock.
Ends(c, pc) == Goes(c, pc) /\ csrfMu' = NoCall

Refused(op) == setup = "none" \/ (setup = "portal" /\ op = "revoke")

AuthorizationComing(mac) ==
    \/ <<"authorize", mac>> \in underway
    \/ \E d \in Call : Open(d) /\ call[d].op = "authorize" /\ call[d].mac = mac

\* Authorize or Revoke is called, and checks what is configured.
Begin(c, op, mac) ==
    LET fresh == [pc |-> IF Refused(op) THEN "failed" ELSE "queued", op |-> op, mac |-> mac,
                  quiet |-> op = "revoke" /\ ~AuthorizationComing(mac), cut |-> FALSE]
    IN /\ ~Open(c)
       /\ IF op = "authorize" /\ ~Refused(op)
          THEN /\ call' = [d \in Call |-> IF d = c THEN fresh
                               ELSE [call[d] EXCEPT !.quiet = @ /\ call[d].mac # mac]]
               /\ cleared' = cleared \ {mac}
          ELSE /\ call' = [call EXCEPT ![c] = fresh]
               /\ UNCHANGED cleared
       /\ UNCHANGED <<setup, csrfMu, csrfToken, accessToken, controllerVars>>

\* Mutant of Lock: the mutex is not looked at.
LockAnyway(c) ==
    /\ call[c].pc \in Queued
    /\ csrfMu' = c
    /\ IF call[c].pc = "queued" THEN Goes(c, "login")
       ELSE \E pc \in {"token", "delete"} : (pc = "delete" => accessToken) /\ Goes(c, pc)
    /\ UNCHANGED <<setup, csrfToken, accessToken, controllerVars, cleared>>

\* The first turn begins with a login, the second with a token that is cached or
\* asked for anew (ensureOpenAPIToken).
Lock(c) ==
    /\ call[c].pc \in Queued
    /\ csrfMu = NoCall
    /\ csrfMu' = c
    /\ IF call[c].pc = "queued" THEN Goes(c, "login")
       ELSE \E pc \in {"token", "delete"} : (pc = "delete" => accessToken) /\ Goes(c, pc)
    /\ UNCHANGED <<setup, csrfToken, accessToken, controllerVars, cleared>>

LoggedIn(c) ==
    /\ call[c].pc = "login"
    /\ csrfToken' = c
    /\ Goes(c, IF call[c].op = "authorize" THEN "authorize"
               ELSE IF setup = "legacy" THEN "legacy" ELSE "list")
    /\ UNCHANGED <<setup, csrfMu, accessToken, controllerVars, cleared>>

AuthorizeDone(c) ==
    /\ call[c].pc = "authorize"
    /\ authorized' = authorized \cup {call[c].mac}
    /\ Ends(c, "done")
    /\ UNCHANGED <<setup, csrfToken, accessToken, online, underway, cleared>>

\* Between the halves; the second one gives up at once without credentials.
SecondHalf == IF setup = "full" THEN "requeued" ELSE "failed"

\* One page of the list, all of it when it is short enough.
Page(page) ==
    IF Cardinality(authorized) <= PageSize THEN page = authorized
    ELSE page \subseteq authorized /\ Cardinality(page) = PageSize

\* The device is looked for on the page; one that is not there has no authorization.
Listed(c) ==
    /\ call[c].pc = "list"
    /\ \E page \in SUBSET authorized :
          /\ Page(page)
          /\ IF call[c].mac \in page
             THEN Goes(c, "disconnect") /\ UNCHANGED csrfMu
             ELSE /\ call' = [call EXCEPT ![c].pc = SecondHalf, ![c].cut = page # authorized]
                  /\ csrfMu' = NoCall
    /\ UNCHANGED <<setup, csrfToken, accessToken, controllerVars, cleared>>

Disconnected(c) ==
    /\ call[c].pc = "disconnect"
    /\ authorized' = authorized \ {call[c].mac}
    /\ Ends(c, SecondHalf)
    /\ UNCHANGED <<setup, csrfToken, accessToken, online, underway, cleared>>

TokenObtained(c) ==
    /\ call[c].pc = "token"
    /\ accessToken' = TRUE
    /\ Goes(c, "delete")
    /\ UNCHANGED <<setup, csrfMu, csrfToken, controllerVars, cleared>>
\* An absent client counts as disconnected.
Deleted(c) ==
    /\ call[c].pc = "delete"
    /\ online' = online \ {call[c].mac}
    /\ Ends(c, "done")
    /\ cleared' = IF call[c].quiet /\ ~call[c].cut THEN cleared \cup {call[c].mac} ELSE cleared
    /\ UNCHANGED <<setup, csrfToken, accessToken, authorized, underway>>

\* The endpoint's own error code is not looked at, only the HTTP status.
LegacyAnswered(c) ==
    /\ call[c].pc = "legacy"
    /\ \/ authorized' = authorized \ {call[c].mac} /\ online' = online \ {call[c].mac}
       \/ UNCHANGED <<authorized, online>>
    /\ Ends(c, "done")
    /\ UNCHANGED <<setup, csrfToken, accessToken, underway, cleared>>

\* Mutant of Rejected: an error in the first half is only logged.
RejectedAndOn(c) ==
    /\ call[c].pc \in Asking
    /\ Ends(c, IF call[c].pc = "disconnect" THEN SecondHalf ELSE "failed")
    /\ UNCHANGED <<setup, csrfToken, accessToken, controllerVars, cleared>>

\* Mutant of Rejected: an early return without Unlock.
RejectedLocked(c) ==
    /\ call[c].pc \in Asking
    /\ Goes(c, "failed")
    /\ IF call[c].pc = "list" THEN UNCHANGED csrfMu ELSE csrfMu' = NoCall
    /\ UNCHANGED <<setup, csrfToken, accessToken, controllerVars, cleared>>

\* The controller answers with an error, or with nothing that can be read.
Rejected(c) ==
    /\ call[c].pc \in Asking
    /\ Ends(c, "failed")
    /\ UNCHANGED <<setup, csrfToken, accessToken, controllerVars, cleared>>

\* What the request under way would do at the controller.
Pending(c) ==
    CASE call[c].pc = "authorize" -> {<<"authorize", call[c].mac>>}
      [] call[c].pc \in {"disconnect", "legacy"} -> {<<"revoke", call[c].mac>>}
      [] call[c].pc = "delete" -> {<<"delete", call[c].mac>>}
      [] OTHER -> {}

\* The client's timeout, a broken connection, or the caller's context.
GiveUp(c) ==
    /\ call[c].pc \in Asking
    /\ \/ UNCHANGED underway
       \/ underway' = underway \cup Pending(c) /\ Cardinality(underway') <= MaxLate
    /\ Ends(c, "failed")
    /\ UNCHANGED <<setup, csrfToken, accessToken, authorized, online, cleared>>

-----------------------------------------------------------------------------
\* A request that was given up reaches the controller after all.
Arrive ==
    \E e \in underway :
        /\ underway' = underway \ {e}
        /\ authorized' = CASE e[1] = "authorize" -> authorized \cup {e[2]}
                           [] e[1] = "revoke"    -> authorized \ {e[2]}
                           [] OTHER              -> authorized
        /\ online' = IF e[1] = "delete" \/ (e[1] = "revoke" /\ setup = "legacy")
                     THEN online \ {e[2]} ELSE online
        /\ UNCHANGED <<setup, call, csrfMu, csrfToken, accessToken, cleared>>

Join(mac) ==
    /\ mac \in authorized \ online
    /\ online' = online \cup {mac}
    /\ UNCHANGED <<setup, call, csrfMu, csrfToken, accessToken, authorized, underway, cleared>>

\* A device leaves; its authorization may have run out.
Leave(mac) ==
    /\ mac \in online
    /\ online' = online \ {mac}
    /\ authorized' \in {authorized, authorized \ {mac}}
    /\ UNCHANGED <<setup, call, csrfMu, csrfToken, accessToken, underway, cleared>>

\* The service is restarted; the request that was out may still arrive.
Restart ==
    /\ call' = [c \in Call |-> [call[c] EXCEPT !.pc = "idle"]]
    /\ csrfMu' = NoCall /\ csrfToken' = NoCall /\ accessToken' = FALSE
    /\ \/ UNCHANGED underway
       \/ \E c \in Call : /\ underway' = underway \cup Pending(c)
                          /\ Cardinality(underway') <= MaxLate
    /\ UNCHANGED <<setup, authorized, online, cleared>>

Progress(c) ==
    \/ LoggedIn(c) \/ AuthorizeDone(c) \/ Listed(c) \/ Disconnected(c)
    \/ TokenObtained(c) \/ Deleted(c) \/ LegacyAnswered(c)
    \/ Rejected(c) \/ GiveUp(c)

Next ==
    \/ \E c \in Call :
          \/ \E op \in Op, mac \in Mac : Begin(c, op, mac)
          \/ Lock(c)
          \/ Progress(c)
    \/ Arrive
    \/ \E mac \in Mac : Join(mac) \/ Leave(mac)
    \/ Restart

Spec == Init /\ [][Next]_vars

\* Every request is answered or given up after the timeout, and the mutex goes to
\* those who wait for it in turn (a Go mutex that has kept a waiter for a
\* millisecond is handed to it).
FairSpec == Spec /\ \A c \in Call : WF_vars(Progress(c)) /\ SF_vars(Lock(c))

-----------------------------------------------------------------------------
CallState ==
    [pc : Place, op : Op, mac : Mac, quiet : BOOLEAN, cut : BOOLEAN]

\* The state has the expected shape, and the mutex is held by exactly the call
\* that waits for the controller: no return forgets to release it (Lock, defer
\* Unlock).
TypeOK ==
    /\ setup \in Setups
    /\ call \in [Call -> CallState]
    /\ \A c \in Call : call[c].pc \in Asking <=> csrfMu = c
    /\ csrfMu \in Call \cup {NoCall} /\ csrfToken \in Call \cup {NoCall}
    /\ accessToken \in BOOLEAN
    /\ authorized \subseteq Mac /\ online \subseteq Mac /\ cleared \subseteq Mac
    /\ underway \subseteq {"authorize", "revoke", "delete"} \X Mac

\* A request to the hotspot interface carries the token of its own call's login,
\* although every login overwrites the one token the client has (login).
OwnToken ==
    \A c \in Call : call[c].pc \in Hotspot => csrfToken = c

\* After a revocation that was reported done, the device has no authorization and
\* is not on the network, however its two halves interleave with other calls,
\* until somebody authorizes it again.  Three things are excepted: an authorization that
\* ran at the same time or was given up and still under way, a list that was cut
\* off (OmadaAdapter's PageSize), and the legacy endpoint (Revoke,
\* revokeHotspotAuthorization, revokeOpenAPI).
RevocationHolds == cleared \cap (authorized \cup online) = {}

\* Every call ends, with the mutex released on every path (Authorize, Revoke).
EveryCallReturns == \A c \in Call : Open(c) ~> ~Open(c)

-----------------------------------------------------------------------------
\* The client implements the port: what a call does at the controller it does
\* once, between its begin and its end unless it was given up, and success is
\* never reported without it, unless a revocation may miss the device (Authorize,
\* Revoke).
PortPlace(pc) ==
    CASE pc \in Ended -> pc
      [] pc \in {"requeued", "token", "delete"} -> "effective"
      [] OTHER -> "open"

PortState(c) == [op |-> call[c].op, mac |-> call[c].mac, state |-> PortPlace(call[c].pc)]

\* The legacy endpoint's refusals are not seen, nor the rest of a list that is cut.
MayMiss == setup = "legacy" \/ Cardinality(Mac) > PageSize

Port == INSTANCE ControllerPort
    WITH calls <- [c \in Call |-> PortState(c)],
         allowed <- authorized,
         connected <- online,
         late <- {e \in underway : e[1] # "delete"},
         blind <- MayMiss

ImplementsPort == Port!Spec
=============================================================================
