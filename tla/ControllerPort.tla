--------------------------- MODULE ControllerPort ---------------------------
(***************************************************************************)
(* What the services may expect of the ports NetworkAuthorizer and         *)
(* NetworkRevoker.  A call takes effect at one instant between its begin   *)
(* and its end, at most once; one that reports success has taken effect;   *)
(* one that reports an error may have, or may still do so later.  A        *)
(* device is connected only through an authorization, and is not connected *)
(* at the instant its revocation reports success.  Where revocations are   *)
(* blind, one of them may report success and have left the authorization   *)
(* or even the connection alone.                                           *)
(*                                                                         *)
(* NetworkController is this port with the instants of effect and end      *)
(* joined, unless the effect comes later ("late"), and with blind          *)
(* revocations ("missed").                                                 *)
(***************************************************************************)
CONSTANTS Call, Mac

VARIABLES
    calls,       \* what each call wants and how far it is
    allowed,     \* the MACs with an authorization
    connected,   \* the MACs that use the network
    late,        \* effects of failed calls that are still to come
    blind        \* revocations may pass over a device and not notice

vars == <<calls, allowed, connected, late, blind>>

Op == {"authorize", "revoke"}

Waiting == {"idle", "done", "failed"}

CallState == [op : Op, mac : Mac, state : Waiting \cup {"open", "effective"}]

Effect(op, mac, macs) == IF op = "authorize" THEN macs \cup {mac} ELSE macs \ {mac}

Becomes(c, state) == calls' = [calls EXCEPT ![c].state = state]

-----------------------------------------------------------------------------
Init ==
    /\ calls \in [Call -> CallState] /\ \A c \in Call : calls[c].state = "idle"
    /\ allowed \subseteq Mac
    /\ connected = allowed
    /\ late = {}
    /\ blind \in BOOLEAN

\* A call begins, or is refused at once.
Begin(c) ==
    /\ calls[c].state \in Waiting
    /\ \E op \in Op, mac \in Mac, state \in {"open", "failed"} :
          calls' = [calls EXCEPT ![c] = [op |-> op, mac |-> mac, state |-> state]]
    /\ UNCHANGED <<allowed, connected, late, blind>>

\* The controller acts on a call whose caller goes on waiting.
TakeEffect(c) ==
    /\ calls[c].state = "open"
    /\ \/ allowed' = Effect(calls[c].op, calls[c].mac, allowed)
       \/ blind /\ calls[c].op = "revoke" /\ UNCHANGED allowed
    /\ Becomes(c, "effective")
    /\ UNCHANGED <<connected, late, blind>>

\* The controller acts and the caller is told.
Authorized(c) ==
    /\ calls[c].state = "open" /\ calls[c].op = "authorize"
    /\ allowed' = allowed \cup {calls[c].mac}
    /\ Becomes(c, "done")
    /\ UNCHANGED <<connected, late, blind>>

Revoked(c) ==
    /\ calls[c].op = "revoke"
    /\ \/ /\ calls[c].state = "open"
          /\ allowed' = allowed \ {calls[c].mac}
          /\ connected' = connected \ {calls[c].mac}
       \/ /\ calls[c].state = "effective"
          /\ connected' = connected \ {calls[c].mac}
          /\ UNCHANGED allowed
       \/ /\ calls[c].state = "open" /\ blind
          /\ UNCHANGED <<allowed, connected>>
    /\ Becomes(c, "done")
    /\ UNCHANGED <<late, blind>>

\* The caller is told of an error before, at, or after the effect, or without one.
Fail(c) ==
    /\ \/ calls[c].state \in {"open", "effective"} /\ UNCHANGED <<allowed, late>>
       \/ /\ calls[c].state = "open"
          /\ allowed' = Effect(calls[c].op, calls[c].mac, allowed)
          /\ UNCHANGED late
       \/ /\ calls[c].state = "open"
          /\ late' = late \cup {<<calls[c].op, calls[c].mac>>}
          /\ UNCHANGED allowed
    /\ Becomes(c, "failed")
    /\ UNCHANGED <<connected, blind>>

\* The process ends; what its calls asked for may still happen.
Crash ==
    /\ \E open \in SUBSET {c \in Call : calls[c].state = "open"} :
          late' = late \cup {<<calls[c].op, calls[c].mac>> : c \in open}
    /\ calls' = [c \in Call |-> [calls[c] EXCEPT !.state = "idle"]]
    /\ UNCHANGED <<allowed, connected, blind>>

TakeLateEffect ==
    \E e \in late :
        /\ late' = late \ {e}
        /\ allowed' = Effect(e[1], e[2], allowed)
        /\ \/ UNCHANGED connected
           \/ e[1] = "revoke" /\ connected' = connected \ {e[2]}
        /\ UNCHANGED <<calls, blind>>

Connect(mac) ==
    /\ mac \in allowed
    /\ connected' = connected \cup {mac}
    /\ UNCHANGED <<calls, allowed, late, blind>>

\* Devices leave, and authorizations run out.
Disconnect(mac) ==
    /\ connected' = connected \ {mac}
    /\ allowed' \in {allowed, allowed \ {mac}}
    /\ UNCHANGED <<calls, late, blind>>

Next ==
    \/ \E c \in Call : Begin(c) \/ Fail(c) \/ TakeEffect(c) \/ Authorized(c) \/ Revoked(c)
    \/ Crash
    \/ TakeLateEffect
    \/ \E mac \in Mac : Connect(mac) \/ Disconnect(mac)

Spec == Init /\ [][Next]_vars
=============================================================================
