-------------------------- MODULE NetworkController --------------------------
(***************************************************************************)
(* The Omada controller as the services see it through the ports           *)
(* NetworkAuthorizer and NetworkRevoker: it lets a MAC onto the network    *)
(* for a duration and takes the permission away again.  The outcomes of a  *)
(* call:                                                                   *)
(*   "done"       applied, and the caller gets its answer;                 *)
(*   "failed"     not applied, and the caller gets an error;               *)
(*   "lostReply"  applied, but the caller gets an error: a timeout, or an  *)
(*                unreadable answer;                                       *)
(*   "late"       the caller gets an error, and the controller applies the *)
(*                call afterwards;                                         *)
(*   "missed"     a revocation that is reported as done and leaves the MAC *)
(*                alone: the legacy endpoint refused it with HTTP status   *)
(*                200, or the device was beyond the end of the list.       *)
(* Authorize holds csrfMu from its login to its answer, so it is one step. *)
(* Revoke first takes back the hotspot authorization and then, with the    *)
(* mutex taken anew, disconnects the client.  The first half decides       *)
(* whether the MAC may use the network and is what the step stands for; an *)
(* error in the second half is a "lostReply".                              *)
(***************************************************************************)
EXTENDS UserRepository

CONSTANT ControllerOutcome    \* the outcomes above that can happen

ASSUME ControllerAssumption ==
    ControllerOutcome \subseteq {"done", "failed", "lostReply", "late", "missed"}

VARIABLE net    \* net[m]: the instant until which m is on the network

\* The first file may list devices from earlier logins.  They are still on the
\* network.
TrustedUntil(mac) ==
    LET until == {records[k].devices[mac] : k \in DOMAIN records} \ {0}
    IN IF until = {} THEN 0 ELSE CHOOSE t \in until : TRUE

NetInit == net = [m \in Mac |-> TrustedUntil(m)]

Applied(outcome) == outcome \in {"done", "lostReply"}

\* The controller lets a MAC in.  The duration is relative to the moment it gets
\* the request.  One that is not positive grants nothing.
Admit(mac, duration) ==
    net' = IF duration > 0 THEN [net EXCEPT ![mac] = now + duration] ELSE net

Authorize(mac, duration, outcome) ==
    /\ outcome \in ControllerOutcome \ {"missed"}
    /\ IF Applied(outcome) THEN Admit(mac, duration) ELSE UNCHANGED net

Expel(mac) == net' = [net EXCEPT ![mac] = 0]

Revoke(mac, outcome) ==
    /\ outcome \in ControllerOutcome
    /\ IF Applied(outcome) THEN Expel(mac) ELSE UNCHANGED net

\* What the caller of Revoke is told.
ReportedDone(outcome) == outcome \in {"done", "missed"}

\* A permission ends without a call: by itself, or by a revocation given up before.
Lapse(mac) == net[mac] # 0 /\ Expel(mac)

Online(mac) == now < net[mac]

NetTypeOK == net \in [Mac -> Nat]
=============================================================================
