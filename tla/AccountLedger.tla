---------------------------- MODULE AccountLedger ----------------------------
(***************************************************************************)
(* What the account repository promises to its callers: a ledger in memory *)
(* and the one that a restart would bring back.  An operation touches one  *)
(* account; when its caller is told of success the kept ledger is the one  *)
(* in memory, all of it.  A creation that fails leaves no trace; any other *)
(* operation that fails has happened in memory all the same, and is kept   *)
(* with the next success of any operation.                                 *)
(***************************************************************************)
VARIABLES
    live,   \* the accounts that operations see
    kept,   \* the accounts a restart brings back
    sure,   \* ids whose last operation was reported successful
    gone    \* ids whose deletion was reported successful

vars == <<live, kept, sure, gone>>

\* Versions of one account: what an operation may never change.
SameIdentity(a, b) ==
    /\ a.id = b.id /\ a.kind = b.kind
    /\ a.username = b.username /\ a.apartment = b.apartment

\* An id is not given again while an account that had it may come back, nor later.
Fresh(a) ==
    /\ a.id \notin gone
    /\ \A b \in live \cup kept : b.id # a.id
    /\ \A b \in live : b.username # a.username

Succeeds(id) == kept' = live' /\ sure' = sure \cup {id}

\* The write failed, and may have cost the file.
Fails(id) == kept' \in {kept, {}} /\ sure' = sure \ {id}

-----------------------------------------------------------------------------
Init ==
    /\ kept = live
    /\ \A a, b \in live : a.id = b.id => a = b
    /\ sure = {} /\ gone = {}

Insert ==
    \E a \in live' :
        /\ Fresh(a)
        /\ live' = live \cup {a}
        /\ Succeeds(a.id)
        /\ UNCHANGED gone

InsertFails == kept' \in {kept, {}} /\ UNCHANGED <<live, sure, gone>>

Change ==
    \E a \in live, b \in live' :
        /\ SameIdentity(a, b)
        /\ live' = (live \ {a}) \cup {b}
        /\ Succeeds(a.id) \/ Fails(a.id)
        /\ UNCHANGED gone

Remove ==
    \E a \in live :
        /\ live' = live \ {a}
        /\ \/ kept' = live' /\ gone' = gone \cup {a.id}
           \/ kept' \in {kept, {}} /\ UNCHANGED gone
        /\ sure' = sure \ {a.id}

\* The service starts again.
Recover == live' = kept /\ UNCHANGED <<kept, sure, gone>>

Next == Insert \/ InsertFails \/ Change \/ Remove \/ Recover

Spec == Init /\ [][Next]_vars
=============================================================================
