---------------------------- MODULE OpenAPIToken ----------------------------
(***************************************************************************)
(* The Open API access token of the Omada client and the DELETE requests   *)
(* that carry it.  csrfMu lets one call at a time through this code.  The  *)
(* token is kept between calls and used again until shortly before it      *)
(* expires; a token that the controller no longer accepts stays in use     *)
(* until then.                                                             *)
(*                                                                         *)
(* Time passes while a request is under way, for at most Timeout: then the *)
(* HTTP client gives up.                                                   *)
(***************************************************************************)
EXTENDS Integers

CONSTANTS
    Lifetime,   \* expiresIn of a token
    Margin,     \* a token is not used when less than this is left of it
    Timeout,    \* of the HTTP client
    MaxTime     \* bound on the clock

\* In the code: 7200, 30 and 10 seconds.
ASSUME TokenAssumption ==
    /\ Timeout \in Nat
    /\ Margin \in Nat /\ 2 * Timeout <= Margin
    /\ Lifetime \in Nat /\ 2 * Timeout < Lifetime
    /\ MaxTime \in Nat

VARIABLES
    now,
    pc,               \* the call at work: "idle", asking for a "token", "delete"
    deadline,         \* when its HTTP request is given up
    accessToken,      \* whether there is a token
    tokenExpiresAt,   \* when it expires, as the client reckons
    answered,         \* the controller has answered the request for a token
    issued,           \* the end of the token in that answer, 0 once dropped
    goodUntil,        \* the end of the token the client holds, 0 once dropped
    droppedAt         \* history: when the controller last dropped its tokens

client == <<pc, deadline, accessToken, tokenExpiresAt>>
controller == <<answered, issued, goodUntil, droppedAt>>
vars == <<now, client, controller>>

-----------------------------------------------------------------------------
Init ==
    /\ now = 0 /\ pc = "idle" /\ deadline = 0
    /\ accessToken = FALSE /\ tokenExpiresAt = 0
    /\ answered = FALSE /\ issued = 0 /\ goodUntil = 0 /\ droppedAt = 0

\* Mutant of Usable: the margin is forgotten.
UsableToTheEnd == accessToken /\ now < tokenExpiresAt

\* Mutant of Usable: a token is good for ever.
UsableForEver == accessToken

Usable == accessToken /\ now + Margin < tokenExpiresAt

\* ensureOpenAPIToken decides which request goes out first.
Begin ==
    /\ pc = "idle"
    /\ pc' = IF Usable THEN "delete" ELSE "token"
    /\ deadline' = now + Timeout
    /\ UNCHANGED <<now, accessToken, tokenExpiresAt, controller>>

\* The controller makes a token; its answer is under way.
Issue ==
    /\ pc = "token" /\ ~answered
    /\ answered' = TRUE
    /\ issued' = now + Lifetime
    /\ UNCHANGED <<now, client, goodUntil, droppedAt>>

\* The client reckons from the arrival of the answer, and sends the DELETE.
Receive ==
    /\ pc = "token" /\ answered
    /\ pc' = "delete"
    /\ deadline' = now + Timeout
    /\ accessToken' = TRUE
    /\ tokenExpiresAt' = now + Lifetime
    /\ goodUntil' = issued
    /\ answered' = FALSE /\ issued' = 0
    /\ UNCHANGED <<now, droppedAt>>

\* Mutant of NoTokenObtained: the error is not looked at.
NoTokenIgnored ==
    /\ pc = "token"
    /\ pc' = "delete"
    /\ deadline' = now + Timeout
    /\ answered' = FALSE /\ issued' = 0
    /\ UNCHANGED <<now, accessToken, tokenExpiresAt, goodUntil, droppedAt>>

\* An error, an unreadable answer, an answer without a token, or none in time.
NoTokenObtained ==
    /\ pc = "token"
    /\ pc' = "idle"
    /\ answered' = FALSE /\ issued' = 0
    /\ UNCHANGED <<now, deadline, accessToken, tokenExpiresAt, goodUntil, droppedAt>>

\* The DELETE is answered or given up.  No answer touches the token, not even
\* one that rejects it.
DeleteEnds ==
    /\ pc = "delete"
    /\ pc' = "idle"
    /\ UNCHANGED <<now, deadline, accessToken, tokenExpiresAt, controller>>

\* The controller is restarted and forgets its tokens.
Drop ==
    /\ issued' = 0 /\ goodUntil' = 0
    /\ droppedAt' = now
    /\ UNCHANGED <<now, client, answered>>

\* The service is restarted.
Restart ==
    /\ pc' = "idle"
    /\ accessToken' = FALSE /\ tokenExpiresAt' = 0
    /\ answered' = FALSE /\ issued' = 0 /\ goodUntil' = 0
    /\ UNCHANGED <<now, deadline, droppedAt>>

\* A request that has reached its deadline is given up before time goes on.
Tick ==
    /\ now < MaxTime
    /\ pc = "idle" \/ now < deadline
    /\ now' = now + 1
    /\ UNCHANGED <<client, controller>>

Next == Begin \/ Issue \/ Receive \/ NoTokenObtained \/ DeleteEnds \/ Drop \/ Restart \/ Tick

Spec == Init /\ [][Next]_vars

-----------------------------------------------------------------------------
\* The state has the expected shape, and a DELETE is never sent without a token
\* (ensureOpenAPIToken).
TypeOK ==
    /\ now \in Nat /\ deadline \in Nat /\ tokenExpiresAt \in Nat
    /\ issued \in Nat /\ goodUntil \in Nat /\ droppedAt \in Nat
    /\ pc \in {"idle", "token", "delete"}
    /\ accessToken \in BOOLEAN /\ answered \in BOOLEAN
    /\ pc = "delete" => accessToken

\* While a DELETE is under way the controller still accepts its token, unless it
\* has dropped it: neither the time the token's own answer took, nor the time the
\* DELETE takes, can outlast it (ensureOpenAPIToken).
TokenFresh == pc = "delete" => now < goodUntil \/ goodUntil = 0

\* A token the controller has dropped early goes on failing revocations, but for
\* less than the lifetime of a token after the drop (ensureOpenAPIToken).
RejectionsEnd == pc = "delete" /\ goodUntil = 0 => now < droppedAt + Lifetime
=============================================================================
