------------------------ MODULE OpenAPITokenProofs ------------------------
(***************************************************************************)
(* The token margin is enough for every lifetime, and for every timeout of *)
(* which the margin is at least twice.  The argument is one of sums: the   *)
(* client reckons a token's end later than the controller by at most the   *)
(* time its answer took, and a DELETE takes at most as long again.         *)
(***************************************************************************)
EXTENDS OpenAPIToken, TLAPS

\* A request under way was sent no more than Timeout ago.
InTime == pc # "idle" => now <= deadline /\ deadline <= now + Timeout

\* Only a request for a token is answered with one, and it was made, or dropped,
\* after it was asked for.
AnswerOK ==
    answered =>
        /\ pc = "token"
        /\ IF issued # 0 THEN deadline - Timeout + Lifetime <= issued /\ issued <= now + Lifetime
                         ELSE deadline - Timeout <= droppedAt

\* The client's reckoning is late by at most Timeout.
ReckoningOK ==
    accessToken =>
        IF goodUntil # 0
        THEN tokenExpiresAt <= goodUntil + Timeout /\ goodUntil <= now + Lifetime
        ELSE tokenExpiresAt <= droppedAt + Lifetime + Timeout

\* A DELETE is over before its token, or before a lifetime has passed since the
\* token was dropped.
DeleteOK ==
    pc = "delete" => IF goodUntil # 0 THEN deadline < goodUntil
                                      ELSE deadline < droppedAt + Lifetime

\* The controller has dropped tokens in the past only.
DropPast == droppedAt <= now

IInv == TypeOK /\ DropPast /\ InTime /\ AnswerOK /\ ReckoningOK /\ DeleteOK

LEMMA InitIInv == Init => IInv
<1> SUFFICES ASSUME Init PROVE IInv
  OBVIOUS
<1>1. accessToken \in BOOLEAN /\ answered \in BOOLEAN /\ ~accessToken /\ ~answered
  BY Zenon DEF Init
<1>2. TypeOK /\ DropPast
  BY <1>1 DEF Init, TypeOK, DropPast
<1>3. InTime /\ AnswerOK /\ ReckoningOK /\ DeleteOK
  BY <1>1 DEF Init, InTime, AnswerOK, ReckoningOK, DeleteOK
<1>4. QED
  BY <1>2, <1>3 DEF IInv

LEMMA NextIInv == IInv /\ [Next]_vars => IInv'
<1> SUFFICES ASSUME IInv, [Next]_vars PROVE IInv'
  OBVIOUS
<1> USE TokenAssumption DEF IInv, TypeOK, DropPast
<1>1. CASE Begin
  <2>1. TypeOK' /\ DropPast' /\ InTime'
    BY <1>1 DEF Begin, Usable, InTime, client, controller
  <2>2. AnswerOK' /\ ReckoningOK'
    BY <1>1 DEF Begin, Usable, InTime, AnswerOK, ReckoningOK, client, controller
  <2>3. DeleteOK'
    BY <1>1 DEF Begin, Usable, ReckoningOK, DeleteOK, controller
  <2>4. QED
    BY <2>1, <2>2, <2>3
<1>2. CASE Issue
  BY <1>2 DEF Issue, InTime, AnswerOK, ReckoningOK, DeleteOK, client
<1>3. CASE Receive
  <2>0. accessToken' /\ accessToken' \in BOOLEAN /\ answered' \in BOOLEAN /\ ~answered'
    BY <1>3, Zenon DEF Receive
  <2>1. TypeOK' /\ DropPast' /\ InTime' /\ AnswerOK'
    BY <1>3, <2>0 DEF Receive, InTime, AnswerOK
  <2>2. ReckoningOK' /\ DeleteOK'
    BY <1>3 DEF Receive, InTime, AnswerOK, ReckoningOK, DeleteOK
  <2>3. QED
    BY <2>1, <2>2
<1>4. CASE NoTokenObtained
  BY <1>4 DEF NoTokenObtained, InTime, AnswerOK, ReckoningOK, DeleteOK
<1>5. CASE DeleteEnds
  BY <1>5 DEF DeleteEnds, InTime, AnswerOK, ReckoningOK, DeleteOK, controller
<1>6. CASE Drop
  <2>1. TypeOK' /\ DropPast' /\ InTime' /\ DeleteOK'
    BY <1>6 DEF Drop, InTime, DeleteOK, client
  <2>2. AnswerOK' /\ ReckoningOK'
    <3>1. accessToken /\ goodUntil = 0 => tokenExpiresAt <= now + Lifetime + Timeout
      BY DEF ReckoningOK, DropPast
    <3>2. QED
      BY <1>6, <3>1 DEF Drop, InTime, AnswerOK, ReckoningOK, client
  <2>3. QED
    BY <2>1, <2>2
<1>7. CASE Restart
  BY <1>7 DEF Restart, InTime, AnswerOK, ReckoningOK, DeleteOK
<1>8. CASE Tick
  BY <1>8 DEF Tick, InTime, AnswerOK, ReckoningOK, DeleteOK, client, controller
<1>9. CASE UNCHANGED vars
  BY <1>9 DEF vars, client, controller, InTime, AnswerOK, ReckoningOK, DeleteOK
<1>10. QED
  BY <1>1, <1>2, <1>3, <1>4, <1>5, <1>6, <1>7, <1>8, <1>9 DEF Next

LEMMA Invariance == Spec => []IInv
BY InitIInv, NextIInv, PTL DEF Spec

-----------------------------------------------------------------------------
\* A DELETE never goes out without a token (ensureOpenAPIToken).
THEOREM TypeCorrect == Spec => []TypeOK
<1>1. IInv => TypeOK
  BY DEF IInv
<1>2. QED
  BY <1>1, Invariance, PTL

\* With a margin of twice the timeout no DELETE meets an expired token, whatever
\* the lifetime (ensureOpenAPIToken).
THEOREM TokenFreshHolds == Spec => []TokenFresh
<1>1. IInv => TokenFresh
  BY TokenAssumption DEF IInv, TypeOK, InTime, DeleteOK, TokenFresh
<1>2. QED
  BY <1>1, Invariance, PTL

\* The revocations that fail after the controller dropped its tokens come to an end
\* within one lifetime (ensureOpenAPIToken).
THEOREM RejectionsEndHolds == Spec => []RejectionsEnd
<1>1. IInv => RejectionsEnd
  BY TokenAssumption DEF IInv, TypeOK, InTime, DeleteOK, RejectionsEnd
<1>2. QED
  BY <1>1, Invariance, PTL
=============================================================================
