------------------------- MODULE OmadaAdapterProofs -------------------------
(***************************************************************************)
(* What the Omada client promises for any number of calls and devices and  *)
(* any page size.  The argument: an authorization reaches the controller   *)
(* only from a call that is open or was given up (AuthorizationComing); a  *)
(* revocation that is quiet has none to fear, so what its first half takes *)
(* away stays away (WithdrawnOK) and so does what succeeded (ClearedOK).   *)
(***************************************************************************)
EXTENDS OmadaAdapter, FiniteSetTheorems, TLAPS

Withdrawn == {"requeued", "token", "delete"}

\* Each place belongs to one kind of call and one way of revoking.
PlaceOK(c) ==
    /\ call[c].pc = "authorize" => call[c].op = "authorize"
    /\ call[c].pc \in {"list", "disconnect"} \cup Withdrawn =>
          call[c].op = "revoke" /\ setup # "legacy"
    /\ call[c].pc = "legacy" => call[c].op = "revoke" /\ setup = "legacy"

\* An open quiet revocation meets no authorization of its device; when its first
\* half is over the device has none, if the list was complete.
WithdrawnOK(c) ==
    Open(c) /\ call[c].op = "revoke" /\ call[c].quiet =>
        /\ ~AuthorizationComing(call[c].mac)
        /\ call[c].pc \in Withdrawn /\ ~call[c].cut => call[c].mac \notin authorized

\* A cleared device has no authorization and none to come.
ClearedOK ==
    \A m \in cleared : ~AuthorizationComing(m) /\ m \notin authorized /\ m \notin online

IInv ==
    /\ TypeOK
    /\ OwnToken
    /\ \A c \in Call : PlaceOK(c)
    /\ \A c \in Call : WithdrawnOK(c)
    /\ ClearedOK

-----------------------------------------------------------------------------
\* What moving a call to another place changes.
LEMMA Moved ==
    ASSUME call \in [Call -> CallState], NEW c \in Call, NEW p \in Place, Goes(c, p)
    PROVE  /\ call' \in [Call -> CallState]
           /\ \A d \in Call : /\ call'[d].op = call[d].op /\ call'[d].mac = call[d].mac
                              /\ call'[d].quiet = call[d].quiet /\ call'[d].cut = call[d].cut
                              /\ call'[d].pc = IF d = c THEN p ELSE call[d].pc
BY DEF Goes, CallState

\* The step of one open call.  It may move the call, hand the mutex on, and change
\* what the controller has within the limits stated here.
LEMMA CallStep ==
    ASSUME IInv, setup' = setup, NEW c \in Call, Open(c), NEW p \in Place,
           call' \in [Call -> CallState],
           \A d \in Call : /\ call'[d].op = call[d].op /\ call'[d].mac = call[d].mac
                           /\ call'[d].quiet = call[d].quiet
                           /\ d # c => call'[d].cut = call[d].cut
                           /\ call'[d].pc = IF d = c THEN p ELSE call[d].pc,
           csrfMu = c \/ csrfMu = NoCall,
           csrfMu' = IF p \in Asking THEN c ELSE NoCall,
           csrfToken' \in {csrfToken, c}, p \in Hotspot => csrfToken' = c,
           accessToken' \in BOOLEAN,
           PlaceOK(c)',
           authorized' \subseteq Mac, online' \subseteq online,
           underway' \subseteq {"authorize", "revoke", "delete"} \X Mac,
           \A m \in Mac : <<"authorize", m>> \in underway' => AuthorizationComing(m),
           \A m \in authorized' : m \in authorized \/ AuthorizationComing(m),
           cleared' \subseteq Mac,
           \A m \in cleared' \ cleared :
               ~AuthorizationComing(m) /\ m \notin authorized' /\ m \notin online',
           call[c].quiet /\ p \in Withdrawn /\ ~call'[c].cut => call[c].mac \notin authorized'
    PROVE  IInv'
<1>1. \A d \in Call : Open(d)' => Open(d)
  BY DEF Open
<1>2. \A m \in Mac : AuthorizationComing(m)' => AuthorizationComing(m)
  BY <1>1 DEF AuthorizationComing
<1>3. TypeOK'
  <2>1. \A d \in Call : call'[d].pc \in Asking <=> csrfMu' = d
    BY AdapterAssumption DEF IInv, TypeOK
  <2>2. csrfMu' \in Call \cup {NoCall} /\ csrfToken' \in Call \cup {NoCall}
    BY DEF IInv, TypeOK
  <2>3. setup' \in Setups /\ online' \subseteq Mac
    BY DEF IInv, TypeOK
  <2>4. QED
    BY <2>1, <2>2, <2>3 DEF TypeOK
<1>4. OwnToken'
  <2> SUFFICES ASSUME NEW d \in Call, call'[d].pc \in Hotspot PROVE csrfToken' = d
    BY DEF OwnToken
  <2>1. CASE d = c
    BY <2>1
  <2>2. CASE d # c
    <3>1. call[d].pc \in Asking /\ csrfMu = d
      BY <2>2 DEF IInv, TypeOK, Hotspot, Asking
    <3>2. QED
      BY <2>2, <3>1, AdapterAssumption
  <2>3. QED
    BY <2>1, <2>2
<1>5. \A d \in Call : PlaceOK(d)'
  <2> SUFFICES ASSUME NEW d \in Call, d # c PROVE PlaceOK(d)'
    OBVIOUS
  <2>1. PlaceOK(d)
    BY DEF IInv
  <2>2. QED
    BY <2>1 DEF PlaceOK
<1>6. \A d \in Call : WithdrawnOK(d)'
  <2> SUFFICES ASSUME NEW d \in Call, Open(d)', call[d].op = "revoke", call[d].quiet
               PROVE  /\ ~AuthorizationComing(call[d].mac)'
                      /\ call'[d].pc \in Withdrawn /\ ~call'[d].cut
                            => call[d].mac \notin authorized'
    BY DEF WithdrawnOK
  <2>1. call[d].mac \in Mac
    BY DEF IInv, TypeOK, CallState
  <2>2. Open(d) /\ WithdrawnOK(d)
    BY <1>1 DEF IInv
  <2>3. ~AuthorizationComing(call[d].mac)
    BY <2>2 DEF WithdrawnOK
  <2>4. ~AuthorizationComing(call[d].mac)'
    BY <2>1, <2>3, <1>2
  <2>5. ASSUME call'[d].pc \in Withdrawn, ~call'[d].cut
        PROVE  call[d].mac \notin authorized'
    <3>1. CASE d = c
      BY <2>5, <3>1
    <3>2. CASE d # c
      <4>1. call[d].mac \notin authorized
        BY <2>2, <2>5, <3>2 DEF WithdrawnOK
      <4>2. QED
        BY <4>1, <2>3
    <3>3. QED
      BY <3>1, <3>2
  <2>6. QED
    BY <2>4, <2>5
<1>7. ClearedOK'
  <2> SUFFICES ASSUME NEW m \in cleared'
               PROVE  ~AuthorizationComing(m)' /\ m \notin authorized' /\ m \notin online'
    BY DEF ClearedOK
  <2>1. m \in Mac
    OBVIOUS
  <2>2. ~AuthorizationComing(m)
    BY DEF IInv, ClearedOK
  <2>3. m \notin authorized' /\ m \notin online'
    BY <2>2 DEF IInv, ClearedOK
  <2>4. QED
    BY <2>1, <2>2, <2>3, <1>2
<1>8. QED
  BY <1>3, <1>4, <1>5, <1>6, <1>7 DEF IInv

\* A call that does not touch what the controller has.
LEMMA LocalStep ==
    ASSUME IInv, setup' = setup, NEW c \in Call, Open(c), NEW p \in Place, Goes(c, p),
           csrfMu = c \/ csrfMu = NoCall,
           csrfMu' = IF p \in Asking THEN c ELSE NoCall,
           csrfToken' \in {csrfToken, c}, p \in Hotspot => csrfToken' = c,
           accessToken' \in BOOLEAN,
           PlaceOK(c)',
           UNCHANGED <<authorized, online, cleared>>,
           underway' \subseteq {"authorize", "revoke", "delete"} \X Mac,
           \A m \in Mac : <<"authorize", m>> \in underway' => AuthorizationComing(m),
           p \in Withdrawn => call[c].pc \in Withdrawn /\ call[c].op = "revoke"
    PROVE  IInv'
<1>1. /\ call' \in [Call -> CallState]
      /\ \A d \in Call : /\ call'[d].op = call[d].op /\ call'[d].mac = call[d].mac
                         /\ call'[d].quiet = call[d].quiet /\ call'[d].cut = call[d].cut
                         /\ call'[d].pc = IF d = c THEN p ELSE call[d].pc
  BY Moved DEF IInv, TypeOK
<1>2. authorized' \subseteq Mac /\ online' \subseteq online /\ cleared' \subseteq Mac
  BY DEF IInv, TypeOK
<1>3. call[c].quiet /\ p \in Withdrawn /\ ~call'[c].cut => call[c].mac \notin authorized'
  BY <1>1 DEF IInv, WithdrawnOK
<1>4. QED
  BY <1>1, <1>2, <1>3, CallStep

LEMMA HolderOwns ==
    ASSUME IInv, NEW c \in Call, call[c].pc \in Asking
    PROVE  csrfMu = c /\ Open(c) /\ call[c].mac \in Mac
BY DEF IInv, TypeOK, CallState, Open, Ended, Asking

\* What is under way stays within what may come.
LEMMA SameUnderway ==
    ASSUME IInv
    PROVE  /\ underway \subseteq {"authorize", "revoke", "delete"} \X Mac
           /\ \A m \in Mac : <<"authorize", m>> \in underway => AuthorizationComing(m)
BY DEF IInv, TypeOK, AuthorizationComing

LEMMA PendingOK ==
    ASSUME IInv, NEW c \in Call
    PROVE  /\ Pending(c) \subseteq {"authorize", "revoke", "delete"} \X Mac
           /\ \A m \in Mac : <<"authorize", m>> \in Pending(c) => AuthorizationComing(m)
<1>1. call[c].mac \in Mac /\ (call[c].pc = "authorize" => call[c].op = "authorize")
  BY DEF IInv, TypeOK, CallState, PlaceOK
<1>2. CASE call[c].pc = "authorize"
  <2>1. Pending(c) = {<<"authorize", call[c].mac>>} /\ Open(c)
    BY <1>2 DEF Pending, Open, Ended
  <2>2. QED
    BY <2>1, <1>1, <1>2 DEF AuthorizationComing
<1>3. CASE call[c].pc \in {"disconnect", "legacy"}
  BY <1>1, <1>3 DEF Pending
<1>4. CASE call[c].pc = "delete"
  BY <1>1, <1>4 DEF Pending
<1>5. CASE call[c].pc \notin {"authorize", "disconnect", "legacy", "delete"}
  BY <1>5 DEF Pending
<1>6. QED
  BY <1>2, <1>3, <1>4, <1>5

LEMMA LockStep ==
    ASSUME IInv, NEW c \in Call, Lock(c)
    PROVE  IInv'
<1>1. PICK p \in {"login", "token", "delete"} :
          /\ Goes(c, p)
          /\ p = "login" <=> call[c].pc = "queued"
  BY DEF Lock
<1>2. /\ call[c].pc \in Queued /\ csrfMu = NoCall /\ csrfMu' = c
      /\ UNCHANGED <<setup, csrfToken, accessToken, controllerVars, cleared>>
  BY DEF Lock
<1>3. Open(c) /\ p \in Place /\ p \in Asking /\ p \notin Hotspot
  BY <1>1, <1>2 DEF Open, Ended, Queued, Place, Asking, Hotspot
<1>4. p \in Withdrawn => call[c].pc = "requeued"
  BY <1>1, <1>2 DEF Withdrawn, Queued
<1>5. /\ call'[c].pc = p /\ call'[c].op = call[c].op
  BY <1>1, <1>3, Moved DEF IInv, TypeOK
<1>6. p \in Withdrawn => call[c].op = "revoke" /\ setup # "legacy"
  BY <1>4 DEF IInv, PlaceOK, Withdrawn
<1>7. PlaceOK(c)'
  BY <1>1, <1>2, <1>5, <1>6 DEF PlaceOK, Withdrawn
<1>8. QED
  BY <1>1, <1>2, <1>3, <1>4, <1>6, <1>7, SameUnderway, LocalStep
     DEF IInv, TypeOK, controllerVars, Withdrawn

LEMMA LoggedInStep ==
    ASSUME IInv, NEW c \in Call, LoggedIn(c)
    PROVE  IInv'
<1> DEFINE p == IF call[c].op = "authorize" THEN "authorize"
                ELSE IF setup = "legacy" THEN "legacy" ELSE "list"
<1>1. /\ call[c].pc = "login" /\ Goes(c, p) /\ csrfToken' = c
      /\ UNCHANGED <<setup, csrfMu, accessToken, controllerVars, cleared>>
  BY DEF LoggedIn
<1>2. csrfMu = c /\ Open(c) /\ p \in Place /\ p \in Asking /\ p \notin Withdrawn
  BY <1>1, HolderOwns DEF Place, Asking, Withdrawn
<1>3. call'[c].pc = p /\ call'[c].op = call[c].op /\ call[c].op \in Op
  BY <1>1, <1>2, Moved DEF IInv, TypeOK, CallState
<1>4. PlaceOK(c)'
  BY <1>1, <1>3 DEF PlaceOK, Withdrawn, Op
<1> HIDE DEF p
<1>5. QED
  BY <1>1, <1>2, <1>4, SameUnderway, LocalStep DEF IInv, TypeOK, controllerVars

LEMMA TokenObtainedStep ==
    ASSUME IInv, NEW c \in Call, TokenObtained(c)
    PROVE  IInv'
<1>1. /\ call[c].pc = "token" /\ Goes(c, "delete") /\ accessToken' = TRUE
      /\ UNCHANGED <<setup, csrfMu, csrfToken, controllerVars, cleared>>
  BY DEF TokenObtained
<1>2. accessToken' \in BOOLEAN
  BY <1>1, Zenon
<1>3. csrfMu = c /\ Open(c) /\ call[c].op = "revoke" /\ setup # "legacy"
  BY <1>1, HolderOwns DEF Asking, IInv, PlaceOK, Withdrawn
<1>4. call'[c].pc = "delete" /\ call'[c].op = call[c].op
  BY <1>1, Moved DEF IInv, TypeOK, Place, Asking
<1>5. PlaceOK(c)'
  BY <1>1, <1>3, <1>4 DEF PlaceOK
<1>6. QED
  BY <1>1, <1>2, <1>3, <1>5, SameUnderway, LocalStep
     DEF controllerVars, Place, Asking, Hotspot, Withdrawn

\* A call ends without having done anything; what it asked for may be under way.
LEMMA FailStep ==
    ASSUME IInv, NEW c \in Call, call[c].pc \in Asking, Ends(c, "failed"),
           UNCHANGED <<setup, csrfToken, accessToken, authorized, online, cleared>>,
           underway' \in {underway, underway \cup Pending(c)}
    PROVE  IInv'
<1>1. csrfMu = c /\ Open(c)
  BY HolderOwns
<1>2. Goes(c, "failed") /\ csrfMu' = NoCall
  BY DEF Ends
<1>3. "failed" \in Place /\ "failed" \notin Asking /\ "failed" \notin Hotspot
      /\ "failed" \notin Withdrawn
  BY DEF Place, Ended, Asking, Hotspot, Withdrawn
<1>4. call'[c].pc = "failed"
  BY <1>2, <1>3, Moved DEF IInv, TypeOK
<1>5. PlaceOK(c)'
  BY <1>4 DEF PlaceOK, Withdrawn
<1>6. /\ underway' \subseteq {"authorize", "revoke", "delete"} \X Mac
      /\ \A m \in Mac : <<"authorize", m>> \in underway' => AuthorizationComing(m)
  BY SameUnderway, PendingOK
<1>7. accessToken' \in BOOLEAN
  BY DEF IInv, TypeOK
<1>8. QED
  BY <1>1, <1>2, <1>3, <1>5, <1>6, <1>7, LocalStep

LEMMA AuthorizeDoneStep ==
    ASSUME IInv, NEW c \in Call, AuthorizeDone(c)
    PROVE  IInv'
<1>1. /\ call[c].pc = "authorize" /\ Goes(c, "done") /\ csrfMu' = NoCall
      /\ authorized' = authorized \cup {call[c].mac}
      /\ UNCHANGED <<setup, csrfToken, accessToken, online, underway, cleared>>
  BY DEF AuthorizeDone, Ends
<1>2. /\ csrfMu = c /\ Open(c) /\ call[c].mac \in Mac
      /\ call[c].op = "authorize"
  BY <1>1, HolderOwns DEF Asking, IInv, PlaceOK
<1>3. "done" \in Place /\ "done" \notin Asking \cup Hotspot \cup Withdrawn
  BY DEF Place, Ended, Asking, Hotspot, Withdrawn
<1>4. /\ call' \in [Call -> CallState]
      /\ \A d \in Call : /\ call'[d].op = call[d].op /\ call'[d].mac = call[d].mac
                         /\ call'[d].quiet = call[d].quiet /\ call'[d].cut = call[d].cut
                         /\ call'[d].pc = IF d = c THEN "done" ELSE call[d].pc
  BY <1>1, <1>3, Moved DEF IInv, TypeOK
<1>5. PlaceOK(c)'
  BY <1>4 DEF PlaceOK, Withdrawn
<1>6. AuthorizationComing(call[c].mac)
  BY <1>2 DEF AuthorizationComing
<1>7. /\ authorized' \subseteq Mac
      /\ \A m \in Mac : m \in authorized' => m \in authorized \/ AuthorizationComing(m)
  BY <1>1, <1>2, <1>6 DEF IInv, TypeOK
<1>8. online' \subseteq online /\ cleared' \subseteq Mac /\ accessToken' \in BOOLEAN
      /\ cleared' \ cleared = {}
  BY <1>1 DEF IInv, TypeOK
<1>9. QED
  BY <1>1, <1>2, <1>3, <1>4, <1>5, <1>7, <1>8, SameUnderway, CallStep

\* A page on which a device is missing either was cut off or shows that the device
\* has no authorization.
LEMMA ListedStep ==
    ASSUME IInv, NEW c \in Call, Listed(c)
    PROVE  IInv'
<1>1. /\ call[c].pc = "list"
      /\ UNCHANGED <<setup, csrfToken, accessToken, controllerVars, cleared>>
  BY DEF Listed
<1>2. /\ csrfMu = c /\ Open(c) /\ call[c].mac \in Mac
      /\ call[c].op = "revoke" /\ setup # "legacy" /\ csrfToken = c
  BY <1>1, HolderOwns DEF Asking, IInv, PlaceOK, OwnToken, Hotspot
<1>3. PICK page \in SUBSET authorized :
          IF call[c].mac \in page
          THEN Goes(c, "disconnect") /\ UNCHANGED csrfMu
          ELSE /\ call' = [call EXCEPT ![c].pc = SecondHalf, ![c].cut = page # authorized]
               /\ csrfMu' = NoCall
  BY DEF Listed
<1>4. online' \subseteq online /\ cleared' \subseteq Mac /\ accessToken' \in BOOLEAN
      /\ authorized' \subseteq Mac
  BY <1>1 DEF IInv, TypeOK, controllerVars
<1>5. CASE call[c].mac \in page
  <2>1. Goes(c, "disconnect") /\ csrfMu' = c
    BY <1>2, <1>3, <1>5
  <2>2. "disconnect" \in Place /\ "disconnect" \in Asking /\ "disconnect" \notin Withdrawn
    BY DEF Place, Asking, Withdrawn
  <2>3. call'[c].pc = "disconnect" /\ call'[c].op = "revoke"
    BY <1>2, <2>1, <2>2, Moved DEF IInv, TypeOK
  <2>4. PlaceOK(c)'
    BY <1>1, <1>2, <2>3 DEF PlaceOK
  <2>5. QED
    BY <1>1, <1>2, <1>4, <2>1, <2>2, <2>4, SameUnderway, LocalStep DEF controllerVars
<1>6. CASE call[c].mac \notin page
  <2> DEFINE p == SecondHalf
  <2>1. /\ call' = [call EXCEPT ![c].pc = p, ![c].cut = page # authorized]
        /\ csrfMu' = NoCall
    BY <1>3, <1>6
  <2>2. p \in Place /\ p \notin Asking \cup Hotspot
    BY DEF SecondHalf, Place, Ended, Queued, Asking, Hotspot
  <2>3. call \in [Call -> CallState] /\ (page # authorized) \in BOOLEAN
    BY DEF IInv, TypeOK
  <2> HIDE DEF p
  <2>4. /\ call' \in [Call -> CallState]
        /\ \A d \in Call : /\ call'[d].op = call[d].op /\ call'[d].mac = call[d].mac
                           /\ call'[d].quiet = call[d].quiet
                           /\ d # c => call'[d].cut = call[d].cut
                           /\ call'[d].pc = IF d = c THEN p ELSE call[d].pc
    BY <2>1, <2>2, <2>3 DEF CallState
  <2>5. call'[c].cut = (page # authorized)
    BY <2>1, <2>3 DEF CallState
  <2>6. PlaceOK(c)'
    BY <1>1, <1>2, <2>4, <2>2 DEF PlaceOK, Place, Asking, Hotspot
  <2>7. call[c].quiet /\ p \in Withdrawn /\ ~call'[c].cut => call[c].mac \notin authorized'
    BY <1>1, <1>6, <2>5 DEF controllerVars
  <2>8. QED
    BY <1>1, <1>2, <1>4, <2>1, <2>2, <2>4, <2>6, <2>7, SameUnderway, CallStep
       DEF controllerVars
<1>7. QED
  BY <1>5, <1>6

LEMMA DisconnectedStep ==
    ASSUME IInv, NEW c \in Call, Disconnected(c)
    PROVE  IInv'
<1> DEFINE p == SecondHalf
<1>1. /\ call[c].pc = "disconnect" /\ Goes(c, p) /\ csrfMu' = NoCall
      /\ authorized' = authorized \ {call[c].mac}
      /\ UNCHANGED <<setup, csrfToken, accessToken, online, underway, cleared>>
  BY DEF Disconnected, Ends
<1>2. /\ csrfMu = c /\ Open(c)
      /\ call[c].op = "revoke" /\ setup # "legacy"
  BY <1>1, HolderOwns DEF Asking, IInv, PlaceOK
<1>3. p \in Place /\ p \notin Asking \cup Hotspot
  BY DEF SecondHalf, Place, Ended, Queued, Asking, Hotspot
<1> HIDE DEF p
<1>4. /\ call' \in [Call -> CallState]
      /\ \A d \in Call : /\ call'[d].op = call[d].op /\ call'[d].mac = call[d].mac
                         /\ call'[d].quiet = call[d].quiet /\ call'[d].cut = call[d].cut
                         /\ call'[d].pc = IF d = c THEN p ELSE call[d].pc
  BY <1>1, <1>3, Moved DEF IInv, TypeOK
<1>5. PlaceOK(c)'
  BY <1>1, <1>2, <1>3, <1>4 DEF PlaceOK, Asking, Hotspot
<1>6. /\ authorized' \subseteq Mac /\ authorized' \subseteq authorized
      /\ online' \subseteq online /\ cleared' \subseteq Mac /\ accessToken' \in BOOLEAN
      /\ cleared' \ cleared = {}
  BY <1>1 DEF IInv, TypeOK
<1>7. QED
  BY <1>1, <1>2, <1>3, <1>4, <1>5, <1>6, SameUnderway, CallStep

\* The revocation is over; a quiet one over a complete list clears its device.
LEMMA DeletedStep ==
    ASSUME IInv, NEW c \in Call, Deleted(c)
    PROVE  IInv'
<1>1. /\ call[c].pc = "delete" /\ Goes(c, "done") /\ csrfMu' = NoCall
      /\ online' = online \ {call[c].mac}
      /\ cleared' = IF call[c].quiet /\ ~call[c].cut
                    THEN cleared \cup {call[c].mac} ELSE cleared
      /\ UNCHANGED <<setup, csrfToken, accessToken, authorized, underway>>
  BY DEF Deleted, Ends
<1>2. /\ csrfMu = c /\ Open(c) /\ call[c].mac \in Mac /\ call[c].op = "revoke"
  BY <1>1, HolderOwns DEF Asking, IInv, PlaceOK, Withdrawn
<1>3. "done" \in Place /\ "done" \notin Asking \cup Hotspot \cup Withdrawn
  BY DEF Place, Ended, Asking, Hotspot, Withdrawn
<1>4. /\ call' \in [Call -> CallState]
      /\ \A d \in Call : /\ call'[d].op = call[d].op /\ call'[d].mac = call[d].mac
                         /\ call'[d].quiet = call[d].quiet /\ call'[d].cut = call[d].cut
                         /\ call'[d].pc = IF d = c THEN "done" ELSE call[d].pc
  BY <1>1, <1>3, Moved DEF IInv, TypeOK
<1>5. PlaceOK(c)'
  BY <1>4 DEF PlaceOK, Withdrawn
<1>6. /\ authorized' \subseteq Mac /\ online' \subseteq online /\ cleared' \subseteq Mac
      /\ accessToken' \in BOOLEAN
  BY <1>1, <1>2 DEF IInv, TypeOK
<1>7. call[c].quiet /\ ~call[c].cut =>
          ~AuthorizationComing(call[c].mac) /\ call[c].mac \notin authorized
  BY <1>1, <1>2 DEF IInv, WithdrawnOK, Withdrawn
<1>8. \A m \in cleared' \ cleared :
          ~AuthorizationComing(m) /\ m \notin authorized' /\ m \notin online'
  BY <1>1, <1>7
<1>9. QED
  BY <1>1, <1>2, <1>3, <1>4, <1>5, <1>6, <1>8, SameUnderway, CallStep

LEMMA LegacyAnsweredStep ==
    ASSUME IInv, NEW c \in Call, LegacyAnswered(c)
    PROVE  IInv'
<1>1. /\ call[c].pc = "legacy" /\ Goes(c, "done") /\ csrfMu' = NoCall
      /\ authorized' \subseteq authorized /\ online' \subseteq online
      /\ UNCHANGED <<setup, csrfToken, accessToken, underway, cleared>>
  BY DEF LegacyAnswered, Ends
<1>2. csrfMu = c /\ Open(c)
  BY <1>1, HolderOwns DEF Asking
<1>3. "done" \in Place /\ "done" \notin Asking \cup Hotspot \cup Withdrawn
  BY DEF Place, Ended, Asking, Hotspot, Withdrawn
<1>4. /\ call' \in [Call -> CallState]
      /\ \A d \in Call : /\ call'[d].op = call[d].op /\ call'[d].mac = call[d].mac
                         /\ call'[d].quiet = call[d].quiet /\ call'[d].cut = call[d].cut
                         /\ call'[d].pc = IF d = c THEN "done" ELSE call[d].pc
  BY <1>1, <1>3, Moved DEF IInv, TypeOK
<1>5. PlaceOK(c)'
  BY <1>4 DEF PlaceOK, Withdrawn
<1>6. authorized' \subseteq Mac /\ cleared' \subseteq Mac /\ accessToken' \in BOOLEAN
      /\ cleared' \ cleared = {}
  BY <1>1 DEF IInv, TypeOK
<1>7. QED
  BY <1>1, <1>2, <1>3, <1>4, <1>5, <1>6, SameUnderway, CallStep

-----------------------------------------------------------------------------
\* A call begins.  An authorization ends the quiet of the revocations of its device
\* and what earlier ones have cleared.
LEMMA BeginStep ==
    ASSUME IInv, NEW c \in Call, NEW op \in Op, NEW mac \in Mac, Begin(c, op, mac)
    PROVE  IInv'
<1> DEFINE p == IF Refused(op) THEN "failed" ELSE "queued"
           asks == op = "authorize" /\ ~Refused(op)
           q == op = "revoke" /\ ~AuthorizationComing(mac)
           fresh == [pc |-> p, op |-> op, mac |-> mac, quiet |-> q, cut |-> FALSE]
<1>1. /\ ~Open(c)
      /\ UNCHANGED <<setup, csrfMu, csrfToken, accessToken, authorized, online, underway>>
      /\ cleared' = IF asks THEN cleared \ {mac} ELSE cleared
      /\ asks => call' = [d \in Call |-> IF d = c THEN fresh
                             ELSE [call[d] EXCEPT !.quiet = @ /\ call[d].mac # mac]]
      /\ ~asks => call' = [call EXCEPT ![c] = fresh]
  BY DEF Begin, controllerVars
<1>2. p \in {"failed", "queued"} /\ (q => op = "revoke" /\ ~AuthorizationComing(mac))
  OBVIOUS
<1>3. call \in [Call -> CallState] /\ fresh \in CallState
  <2>1. q \in BOOLEAN
    OBVIOUS
  <2>2. p \in Place
    BY DEF Place, Ended, Queued
  <2>3. QED
    BY <2>1, <2>2 DEF IInv, TypeOK, CallState
<1> HIDE DEF p, q
<1>4. call'[c] = fresh
  BY <1>1, <1>3
<1>5. \A d \in Call \ {c} :
          /\ call'[d] \in CallState
          /\ call'[d].pc = call[d].pc /\ call'[d].op = call[d].op
          /\ call'[d].mac = call[d].mac /\ call'[d].cut = call[d].cut
          /\ call'[d].quiet => call[d].quiet /\ (asks => call[d].mac # mac)
  <2> TAKE d \in Call \ {c}
  <2>1. CASE asks
    <3>1. call'[d] = [call[d] EXCEPT !.quiet = @ /\ call[d].mac # mac]
      BY <1>1, <2>1
    <3>2. call[d] \in CallState
      BY <1>3
    <3>3. (call[d].quiet /\ call[d].mac # mac) \in BOOLEAN
      OBVIOUS
    <3> DEFINE still == call[d].quiet /\ call[d].mac # mac
    <3>4. call'[d] = [call[d] EXCEPT !.quiet = still]
      BY <3>1
    <3>5. still => call[d].quiet /\ call[d].mac # mac
      OBVIOUS
    <3> HIDE DEF still
    <3>6. still \in BOOLEAN
      BY <3>3 DEF still
    <3>7. QED
      BY <3>2, <3>4, <3>5, <3>6 DEF CallState
  <2>2. CASE ~asks
    <3>1. call'[d] = call[d]
      BY <1>1, <1>3, <2>2
    <3>2. QED
      BY <1>3, <2>2, <3>1
  <2>3. QED
    BY <2>1, <2>2
<1>6. call' \in [Call -> CallState]
  <2>1. \A d \in Call : call'[d] \in CallState
    BY <1>3, <1>4, <1>5
  <2>2. \/ call' = [d \in Call |-> IF d = c THEN fresh
                        ELSE [call[d] EXCEPT !.quiet = @ /\ call[d].mac # mac]]
        \/ call' = [call EXCEPT ![c] = fresh]
    BY <1>1
  <2>3. call' = [d \in Call |-> call'[d]]
    <3>1. CASE call' = [call EXCEPT ![c] = fresh]
      BY <3>1, <1>3
    <3>2. CASE call' = [d \in Call |-> IF d = c THEN fresh
                        ELSE [call[d] EXCEPT !.quiet = @ /\ call[d].mac # mac]]
      BY <3>2, Zenon
    <3>3. QED
      BY <2>2, <3>1, <3>2
  <2>4. QED
    BY <2>1, <2>3
<1>7. call'[c].pc = p /\ call'[c].op = op /\ call'[c].mac = mac /\ call'[c].quiet = q
      /\ ~call'[c].cut
  BY <1>4
<1> HIDE DEF fresh
<1>8. \A d \in Call \ {c} : Open(d)' <=> Open(d)
  BY <1>5 DEF Open
<1>9. \A m \in Mac : AuthorizationComing(m)' => AuthorizationComing(m) \/ (asks /\ m = mac)
  <2> SUFFICES ASSUME NEW m \in Mac, AuthorizationComing(m)'
               PROVE  AuthorizationComing(m) \/ (asks /\ m = mac)
    OBVIOUS
  <2>1. CASE <<"authorize", m>> \in underway'
    BY <1>1, <2>1 DEF AuthorizationComing
  <2>2. CASE \E d \in Call : Open(d)' /\ call'[d].op = "authorize" /\ call'[d].mac = m
    <3>1. PICK d \in Call : Open(d)' /\ call'[d].op = "authorize" /\ call'[d].mac = m
      BY <2>2
    <3>2. CASE d = c
      BY <3>1, <3>2, <1>7 DEF Open, Ended, p
    <3>3. CASE d # c
      BY <3>1, <3>3, <1>5, <1>8 DEF AuthorizationComing
    <3>4. QED
      BY <3>2, <3>3
  <2>3. QED
    BY <2>1, <2>2 DEF AuthorizationComing
<1>10. TypeOK'
  <2>1. \A d \in Call : call'[d].pc \in Asking <=> csrfMu' = d
    <3> TAKE d \in Call
    <3>1. CASE d = c
      BY <3>1, <1>1, <1>2, <1>7 DEF IInv, TypeOK, Asking, Open, Ended
    <3>2. CASE d # c
      BY <3>2, <1>1, <1>5 DEF IInv, TypeOK
    <3>3. QED
      BY <3>1, <3>2
  <2>2. cleared' \subseteq Mac /\ accessToken' \in BOOLEAN
    BY <1>1 DEF IInv, TypeOK
  <2>3. QED
    BY <1>1, <1>6, <2>1, <2>2 DEF IInv, TypeOK
<1>11. OwnToken'
  <2> SUFFICES ASSUME NEW d \in Call, call'[d].pc \in Hotspot PROVE csrfToken' = d
    BY DEF OwnToken
  <2>1. d # c
    BY <1>2, <1>7 DEF Hotspot
  <2>2. QED
    BY <2>1, <1>1, <1>5 DEF IInv, OwnToken
<1>12. \A d \in Call : PlaceOK(d)'
  <2> TAKE d \in Call
  <2>1. CASE d = c
    BY <2>1, <1>2, <1>7 DEF PlaceOK, Withdrawn
  <2>2. CASE d # c
    BY <2>2, <1>1, <1>5 DEF IInv, PlaceOK
  <2>3. QED
    BY <2>1, <2>2
<1>13. \A d \in Call : WithdrawnOK(d)'
  <2> SUFFICES ASSUME NEW d \in Call, Open(d)', call'[d].op = "revoke", call'[d].quiet
               PROVE  /\ ~AuthorizationComing(call[d].mac)'
                      /\ call'[d].pc \in Withdrawn /\ ~call'[d].cut
                            => call'[d].mac \notin authorized'
    BY DEF WithdrawnOK
  <2>1. CASE d = c
    <3>1. op = "revoke" /\ ~AuthorizationComing(mac) /\ call'[d].pc \notin Withdrawn
      BY <2>1, <1>2, <1>7 DEF Withdrawn
    <3>2. QED
      BY <2>1, <3>1, <1>7, <1>9
  <2>2. CASE d # c
    <3>1. /\ Open(d) /\ call[d].op = "revoke" /\ call[d].quiet /\ (asks => call[d].mac # mac)
          /\ call'[d].mac = call[d].mac /\ call'[d].pc = call[d].pc
          /\ call'[d].cut = call[d].cut
          /\ call[d].mac \in Mac
      BY <2>2, <1>3, <1>5, <1>8 DEF CallState
    <3>2. /\ ~AuthorizationComing(call[d].mac)
          /\ call[d].pc \in Withdrawn /\ ~call[d].cut => call[d].mac \notin authorized
      BY <3>1 DEF IInv, WithdrawnOK
    <3>3. QED
      BY <3>1, <3>2, <1>1, <1>9
  <2>3. QED
    BY <2>1, <2>2
<1>14. ClearedOK'
  <2> SUFFICES ASSUME NEW m \in cleared'
               PROVE  ~AuthorizationComing(m)' /\ m \notin authorized' /\ m \notin online'
    BY DEF ClearedOK
  <2>1. m \in cleared /\ (asks => m # mac) /\ m \in Mac
    BY <1>1 DEF IInv, TypeOK
  <2>2. ~AuthorizationComing(m) /\ m \notin authorized /\ m \notin online
    BY <2>1 DEF IInv, ClearedOK
  <2>3. QED
    BY <2>1, <2>2, <1>1, <1>9
<1>15. QED
  BY <1>10, <1>11, <1>12, <1>13, <1>14 DEF IInv

\* A step of the controller or of the devices.
LEMMA WorldStep ==
    ASSUME IInv, UNCHANGED <<setup, call, csrfMu, csrfToken, accessToken, cleared>>,
           underway' \subseteq underway, authorized' \subseteq Mac, online' \subseteq Mac,
           \A m \in authorized' : m \in authorized \/ AuthorizationComing(m),
           \A m \in online' : m \in online \/ m \in authorized
    PROVE  IInv'
<1>1. \A m \in Mac : AuthorizationComing(m)' => AuthorizationComing(m)
  BY DEF AuthorizationComing, Open
<1>2. TypeOK' /\ OwnToken' /\ (\A c \in Call : PlaceOK(c)')
  BY DEF IInv, TypeOK, OwnToken, PlaceOK
<1>3. \A c \in Call : WithdrawnOK(c)'
  <2> TAKE c \in Call
  <2>1. WithdrawnOK(c) /\ call[c].mac \in Mac
    BY DEF IInv, TypeOK, CallState
  <2>2. QED
    BY <2>1, <1>1 DEF WithdrawnOK, Open
<1>4. ClearedOK'
  BY <1>1 DEF IInv, TypeOK, ClearedOK
<1>5. QED
  BY <1>2, <1>3, <1>4 DEF IInv

LEMMA ArriveStep ==
    ASSUME IInv, Arrive
    PROVE  IInv'
<1>1. PICK e \in underway :
          /\ underway' = underway \ {e}
          /\ authorized' = CASE e[1] = "authorize" -> authorized \cup {e[2]}
                             [] e[1] = "revoke"    -> authorized \ {e[2]}
                             [] OTHER              -> authorized
          /\ online' \subseteq online
          /\ UNCHANGED <<setup, call, csrfMu, csrfToken, accessToken, cleared>>
  BY DEF Arrive
<1>2. e \in {"authorize", "revoke", "delete"} \X Mac
  BY DEF IInv, TypeOK
<1>3. PICK kind \in {"authorize", "revoke", "delete"}, m \in Mac : e = <<kind, m>>
  BY <1>2
<1>4. kind = "authorize" => AuthorizationComing(m)
  BY <1>3 DEF AuthorizationComing
<1>5. authorized' \in {authorized, authorized \ {m}}
      \/ (kind = "authorize" /\ authorized' = authorized \cup {m})
  BY <1>1, <1>3
<1>6. /\ authorized' \subseteq Mac /\ online' \subseteq Mac
      /\ \A n \in authorized' : n \in authorized \/ AuthorizationComing(n)
  BY <1>1, <1>4, <1>5 DEF IInv, TypeOK
<1>7. QED
  BY <1>1, <1>6, WorldStep

LEMMA DeviceStep ==
    ASSUME IInv, NEW mac \in Mac, Join(mac) \/ Leave(mac)
    PROVE  IInv'
<1>1. /\ UNCHANGED <<setup, call, csrfMu, csrfToken, accessToken, underway, cleared>>
      /\ authorized' \subseteq authorized
      /\ \A m \in online' : m \in online \/ m \in authorized
  BY DEF Join, Leave
<1>2. authorized' \subseteq Mac /\ online' \subseteq Mac
  BY <1>1 DEF IInv, TypeOK
<1>3. QED
  BY <1>1, <1>2, WorldStep

LEMMA RestartStep ==
    ASSUME IInv, Restart
    PROVE  IInv'
<1>1. /\ call' = [c \in Call |-> [call[c] EXCEPT !.pc = "idle"]]
      /\ csrfMu' = NoCall /\ csrfToken' = NoCall /\ accessToken' = FALSE
      /\ UNCHANGED <<setup, authorized, online, cleared>>
      /\ underway' = underway \/ \E c \in Call : underway' = underway \cup Pending(c)
  BY DEF Restart
<1>2. /\ call' \in [Call -> CallState]
      /\ \A c \in Call : call'[c].pc = "idle"
  BY <1>1 DEF IInv, TypeOK, CallState, Place, Ended
<1>3. accessToken' \in BOOLEAN
  BY <1>1, Zenon
<1>4. /\ underway' \subseteq {"authorize", "revoke", "delete"} \X Mac
      /\ \A m \in Mac : <<"authorize", m>> \in underway' => AuthorizationComing(m)
  BY <1>1, SameUnderway, PendingOK
<1>5. \A m \in Mac : AuthorizationComing(m)' => AuthorizationComing(m)
  BY <1>2, <1>4 DEF AuthorizationComing, Open, Ended
<1>6. TypeOK'
  <2>1. \A c \in Call : call'[c].pc \in Asking <=> csrfMu' = c
    BY <1>1, <1>2, AdapterAssumption DEF Asking
  <2>2. QED
    BY <1>1, <1>2, <1>3, <1>4, <2>1 DEF IInv, TypeOK
<1>7. OwnToken' /\ \A c \in Call : PlaceOK(c)' /\ WithdrawnOK(c)'
  BY <1>2 DEF OwnToken, PlaceOK, WithdrawnOK, Hotspot, Withdrawn, Open, Ended
<1>8. ClearedOK'
  BY <1>1, <1>5 DEF IInv, TypeOK, ClearedOK
<1>9. QED
  BY <1>6, <1>7, <1>8 DEF IInv

LEMMA InitIInv == Init => IInv
<1> SUFFICES ASSUME Init PROVE IInv
  OBVIOUS
<1>1. NewCall \in CallState /\ NewCall.pc = "idle"
  <2>1. (CHOOSE m \in Mac : TRUE) \in Mac
    BY AdapterAssumption
  <2>2. QED
    BY <2>1 DEF NewCall, CallState, Place, Ended, Op
<1>2. call \in [Call -> CallState] /\ \A c \in Call : call[c].pc = "idle"
  BY <1>1 DEF Init
<1>3. accessToken \in BOOLEAN
  BY Zenon DEF Init
<1>4. TypeOK
  BY <1>2, <1>3, AdapterAssumption DEF Init, TypeOK, Asking
<1>5. OwnToken /\ \A c \in Call : PlaceOK(c) /\ WithdrawnOK(c)
  BY <1>2 DEF OwnToken, PlaceOK, WithdrawnOK, Hotspot, Withdrawn, Open, Ended
<1>6. ClearedOK
  BY DEF Init, ClearedOK
<1>7. QED
  BY <1>4, <1>5, <1>6 DEF IInv

LEMMA NextIInv == IInv /\ [Next]_vars => IInv'
<1> SUFFICES ASSUME IInv, [Next]_vars PROVE IInv'
  OBVIOUS
<1>1. CASE UNCHANGED vars
  BY <1>1 DEF vars, controllerVars, IInv, TypeOK, OwnToken, PlaceOK, WithdrawnOK, ClearedOK,
              AuthorizationComing, Open
<1>2. ASSUME NEW c \in Call, \E op \in Op, mac \in Mac : Begin(c, op, mac) PROVE IInv'
  BY <1>2, BeginStep
<1>3. ASSUME NEW c \in Call, Lock(c) PROVE IInv'
  BY <1>3, LockStep
<1>4. ASSUME NEW c \in Call, Progress(c) PROVE IInv'
  <2>1. CASE Rejected(c)
    BY <2>1, FailStep DEF Rejected, controllerVars
  <2>2. CASE GiveUp(c)
    BY <2>2, FailStep DEF GiveUp
  <2>3. QED
    BY <1>4, <2>1, <2>2, LoggedInStep, AuthorizeDoneStep, ListedStep, DisconnectedStep,
       TokenObtainedStep, DeletedStep, LegacyAnsweredStep DEF Progress
<1>5. CASE Arrive
  BY <1>5, ArriveStep
<1>6. CASE \E mac \in Mac : Join(mac) \/ Leave(mac)
  BY <1>6, DeviceStep
<1>7. CASE Restart
  BY <1>7, RestartStep
<1>8. QED
  BY <1>1, <1>2, <1>3, <1>4, <1>5, <1>6, <1>7 DEF Next

LEMMA Invariance == Spec => []IInv
BY InitIInv, NextIInv, PTL DEF Spec

-----------------------------------------------------------------------------
\* The state keeps its shape and the mutex belongs to the call that waits for the
\* controller, for any number of calls and devices (Lock, defer Unlock).
THEOREM TypeCorrect == Spec => []TypeOK
<1>1. IInv => TypeOK
  BY DEF IInv
<1>2. QED
  BY <1>1, Invariance, PTL

\* No request carries the token of another call's login (Authorize,
\* revokeHotspotAuthorization).
THEOREM OwnTokenHolds == Spec => []OwnToken
<1>1. IInv => OwnToken
  BY DEF IInv
<1>2. QED
  BY <1>1, Invariance, PTL

\* A device whose revocation succeeded stays without authorization and network
\* whatever the other calls do, with the exceptions RevocationHolds names (Revoke).
THEOREM RevocationStands == Spec => []RevocationHolds
<1>1. IInv => RevocationHolds
  BY DEF IInv, ClearedOK, RevocationHolds
<1>2. QED
  BY <1>1, Invariance, PTL

-----------------------------------------------------------------------------
\* What the port sees of the calls, and of the requests given up.
Seen == [c \in Call |-> PortState(c)]

Late == {e \in underway : e[1] # "delete"}

\* Whether revocations may miss a device is settled by the configuration.
LEMMA SameMiss == setup' = setup => MayMiss' = MayMiss
BY DEF MayMiss

LEMMA Places ==
    /\ \A pc \in Ended : PortPlace(pc) = pc
    /\ \A pc \in Withdrawn : PortPlace(pc) = "effective"
    /\ \A pc \in Place \ (Ended \cup Withdrawn) : PortPlace(pc) = "open"
BY DEF PortPlace, Place, Ended, Queued, Asking, Withdrawn

\* A call that moves is seen to move, and no other is.
LEMMA SeenMoves ==
    ASSUME NEW c \in Call, NEW p,
           \A d \in Call : /\ call'[d].op = call[d].op /\ call'[d].mac = call[d].mac
                           /\ call'[d].pc = IF d = c THEN p ELSE call[d].pc
    PROVE  /\ Port!Becomes(c, PortPlace(p))
           /\ PortPlace(p) = PortPlace(call[c].pc) => Seen' = Seen
<1>1. \A d \in Call :
          PortState(d)' = [PortState(d) EXCEPT !.state = IF d = c THEN PortPlace(p) ELSE @]
  BY DEF PortState, PortPlace
<1>2. Seen' = [d \in Call |-> PortState(d)']
  BY DEF Seen
<1>3. Seen' = [Seen EXCEPT ![c].state = PortPlace(p)]
  BY <1>1, <1>2 DEF Seen, PortState
<1>4. PortPlace(p) = PortPlace(call[c].pc) => Seen' = Seen
  BY <1>1, <1>2 DEF Seen, PortState
<1>5. QED
  BY <1>3, <1>4 DEF Port!Becomes, Seen

LEMMA SeenSame ==
    ASSUME Seen' = Seen, UNCHANGED <<setup, authorized, online, underway>>
    PROVE  UNCHANGED Port!vars
BY SameMiss DEF Seen, Port!vars

\* The step of one call, as far as the port can tell it.
LEMMA CallMoves ==
    ASSUME IInv, NEW c \in Call, NEW p \in Place, Goes(c, p)
    PROVE  /\ Port!Becomes(c, PortPlace(p))
           /\ PortPlace(p) = PortPlace(call[c].pc) => Seen' = Seen
<1>1. \A d \in Call : /\ call'[d].op = call[d].op /\ call'[d].mac = call[d].mac
                      /\ call'[d].pc = IF d = c THEN p ELSE call[d].pc
  BY Moved DEF IInv, TypeOK
<1>2. QED
  BY <1>1, SeenMoves

LEMMA SeenState ==
    ASSUME NEW c \in Call
    PROVE  /\ Seen[c].state = PortPlace(call[c].pc)
           /\ Seen[c].op = call[c].op /\ Seen[c].mac = call[c].mac
BY DEF Seen, PortState

LEMMA BeginSeen ==
    ASSUME IInv, NEW c \in Call, NEW op \in Op, NEW mac \in Mac, Begin(c, op, mac)
    PROVE  Port!Begin(c)
<1> DEFINE p == IF Refused(op) THEN "failed" ELSE "queued"
           state == IF Refused(op) THEN "failed" ELSE "open"
<1>1. /\ ~Open(c)
      /\ UNCHANGED <<setup, authorized, online, underway>>
  BY DEF Begin, controllerVars
<1>2. \A d \in Call : call[d] \in CallState /\ call \in [Call -> CallState]
  BY DEF IInv, TypeOK
<1>3. /\ call'[c].pc = p /\ call'[c].op = op /\ call'[c].mac = mac
      /\ \A d \in Call \ {c} : /\ call'[d].pc = call[d].pc /\ call'[d].op = call[d].op
                               /\ call'[d].mac = call[d].mac
  <2> DEFINE asks == op = "authorize" /\ ~Refused(op)
             q == op = "revoke" /\ ~AuthorizationComing(mac)
             fresh == [pc |-> p, op |-> op, mac |-> mac, quiet |-> q, cut |-> FALSE]
  <2>1. /\ asks => call' = [d \in Call |-> IF d = c THEN fresh
                               ELSE [call[d] EXCEPT !.quiet = @ /\ call[d].mac # mac]]
        /\ ~asks => call' = [call EXCEPT ![c] = fresh]
    BY DEF Begin
  <2> HIDE DEF q, p
  <2>2. CASE asks
    <3>1. \A d \in Call : call'[d] = IF d = c THEN fresh
              ELSE [call[d] EXCEPT !.quiet = @ /\ call[d].mac # mac]
      BY <2>1, <2>2
    <3>2. ASSUME NEW d \in Call \ {c}
          PROVE  /\ call'[d].pc = call[d].pc /\ call'[d].op = call[d].op
                 /\ call'[d].mac = call[d].mac
      <4> DEFINE still == call[d].quiet /\ call[d].mac # mac
      <4>1. call'[d] = [call[d] EXCEPT !.quiet = still]
        BY <3>1
      <4> HIDE DEF still
      <4>2. QED
        BY <4>1, <1>2 DEF CallState
    <3>3. call'[c] = fresh
      BY <3>1
    <3>4. QED
      BY <3>2, <3>3
  <2>3. CASE ~asks
    BY <2>1, <2>3, <1>2
  <2>4. QED
    BY <2>2, <2>3
<1>4. PortPlace(p) = state /\ state \in {"open", "failed"}
  BY Places DEF Place, Ended, Queued, Asking, Withdrawn
<1>5. Seen[c].state \in Port!Waiting
  BY <1>1, Places, SeenState DEF Open, Ended, Port!Waiting
<1>6. Seen' = [Seen EXCEPT ![c] = [op |-> op, mac |-> mac, state |-> state]]
  <2> HIDE DEF p, state
  <2>1. Seen' = [d \in Call |-> PortState(d)']
    BY DEF Seen
  <2>2. PortState(c)' = [op |-> op, mac |-> mac, state |-> state]
    <3>1. PortPlace(call[c].pc)' = PortPlace(call'[c].pc)
      BY DEF PortPlace
    <3>2. QED
      BY <1>3, <1>4, <3>1 DEF PortState
  <2>3. \A d \in Call \ {c} : PortState(d)' = PortState(d)
    BY <1>3 DEF PortState, PortPlace
  <2>4. QED
    BY <2>1, <2>2, <2>3 DEF Seen
<1> HIDE DEF p, state
<1>7. op \in Port!Op
  BY DEF Op, Port!Op
<1>8. QED
  BY <1>1, <1>4, <1>5, <1>6, <1>7, SameMiss DEF Port!Begin, Seen

\* A call that fails: the port allows it before, with, or without an effect.
LEMMA FailSeen ==
    ASSUME IInv, NEW c \in Call, call[c].pc \in Asking, Ends(c, "failed"),
           UNCHANGED <<setup, authorized, online>>,
           underway' \in {underway, underway \cup Pending(c)}
    PROVE  Port!Fail(c)
<1>1. Port!Becomes(c, "failed")
  BY CallMoves, Places DEF Ends, Place, Ended
<1>2. Seen[c].state \in {"open", "effective"}
  BY SeenState, Places DEF Asking, Place, Ended, Withdrawn
<1>3. CASE Late' = Late
  BY <1>1, <1>2, <1>3, SameMiss DEF Port!Fail, Seen, Late
<1>4. CASE call[c].pc \in {"authorize", "disconnect", "legacy"}
           /\ underway' = underway \cup Pending(c)
  <2>1. Pending(c) = {<<call[c].op, call[c].mac>>} /\ call[c].op # "delete"
    BY <1>4 DEF Pending, IInv, PlaceOK
  <2>2. Late' = Late \cup {<<call[c].op, call[c].mac>>}
    BY <1>4, <2>1 DEF Late
  <2>3. Seen[c].state = "open"
    BY <1>4, SeenState, Places DEF Asking, Place, Ended, Withdrawn
  <2>4. QED
    BY <1>1, <2>2, <2>3, SeenState, SameMiss DEF Port!Fail, Seen, Late
<1>5. CASE call[c].pc \notin {"authorize", "disconnect", "legacy"}
  <2>1. \A e \in Pending(c) : e[1] = "delete"
    BY <1>5 DEF Pending
  <2>2. Late' = Late
    BY <2>1 DEF Late
  <2>3. QED
    BY <2>2, <1>3
<1>6. QED
  BY <1>3, <1>4, <1>5 DEF Late

\* A call that is only underway on its own side.
LEMMA QuietSeen ==
    ASSUME IInv, NEW c \in Call, NEW p \in Place, Goes(c, p),
           PortPlace(p) = PortPlace(call[c].pc),
           UNCHANGED <<setup, authorized, online, underway>>
    PROVE  UNCHANGED Port!vars
BY CallMoves, SeenSame

\* The authorization is done, or the revocation by a legacy endpoint or by the
\* Open API.
LEMMA DoneSeen ==
    ASSUME IInv, NEW c \in Call, AuthorizeDone(c) \/ Deleted(c) \/ LegacyAnswered(c)
    PROVE  Port!Authorized(c) \/ Port!Revoked(c)
<1>1. Goes(c, "done") /\ UNCHANGED <<setup, underway>>
  BY DEF AuthorizeDone, Deleted, LegacyAnswered, Ends
<1>2. Port!Becomes(c, "done")
  BY <1>1, CallMoves, Places DEF Place, Ended
<1>3. CASE AuthorizeDone(c)
  <2>1. Seen[c].state = "open" /\ Seen[c].op = "authorize"
    BY <1>3, SeenState, Places
       DEF AuthorizeDone, IInv, PlaceOK, Asking, Place, Ended, Withdrawn
  <2>2. QED
    BY <1>1, <1>2, <1>3, <2>1, SeenState, SameMiss DEF AuthorizeDone, Port!Authorized, Seen
<1>4. CASE Deleted(c)
  <2>1. Seen[c].state = "effective" /\ Seen[c].op = "revoke"
    BY <1>4, SeenState, Places DEF Deleted, IInv, PlaceOK, Withdrawn
  <2>2. QED
    BY <1>1, <1>2, <1>4, <2>1, SeenState, SameMiss DEF Deleted, Port!Revoked, Seen
<1>5. CASE LegacyAnswered(c)
  <2>1. Seen[c].state = "open" /\ Seen[c].op = "revoke" /\ MayMiss
    BY <1>5, SeenState, Places
       DEF LegacyAnswered, IInv, PlaceOK, Asking, Place, Ended, Withdrawn, MayMiss
  <2>2. \/ authorized' = authorized \ {call[c].mac} /\ online' = online \ {call[c].mac}
        \/ UNCHANGED <<authorized, online>>
    BY <1>5 DEF LegacyAnswered
  <2>3. QED
    BY <1>1, <1>2, <2>1, <2>2, SeenState, SameMiss DEF Port!Revoked, Seen
<1>6. QED
  BY <1>3, <1>4, <1>5

\* The first half of a revocation ends: it has taken effect, has passed over its
\* device, or has failed.
LEMMA HalfSeen ==
    ASSUME IInv, NEW c \in Call, Port!Becomes(c, PortPlace(SecondHalf)),
           call[c].op = "revoke", Seen[c].state = "open",
           authorized' = authorized \ {call[c].mac} \/ (MayMiss /\ authorized' = authorized),
           UNCHANGED <<setup, online, underway>>
    PROVE  Port!TakeEffect(c) \/ Port!Fail(c)
<1>1. /\ Seen[c].op = "revoke"
      /\ \/ authorized' = Port!Effect(Seen[c].op, Seen[c].mac, authorized)
         \/ MayMiss /\ authorized' = authorized
  BY SeenState DEF Port!Effect
<1>2. CASE setup = "full"
  <2>1. Port!Becomes(c, "effective")
    BY <1>2, Places DEF SecondHalf, Withdrawn
  <2>2. QED
    BY <1>1, <2>1, SameMiss DEF Port!TakeEffect, Seen
<1>3. CASE setup # "full"
  <2>1. Port!Becomes(c, "failed")
    BY <1>3, Places DEF SecondHalf, Ended
  <2>2. QED
    BY <1>1, <2>1, SameMiss DEF Port!Fail, Seen, Late
<1>4. QED
  BY <1>2, <1>3

\* A device that is not on the page has no authorization to take back, unless
\* revocations may miss a device.
LEMMA ListedSeen ==
    ASSUME IInv, NEW c \in Call, Listed(c)
    PROVE  Port!TakeEffect(c) \/ Port!Fail(c) \/ UNCHANGED Port!vars
<1>1. /\ call[c].pc = "list" /\ call[c].op = "revoke"
      /\ UNCHANGED <<setup, csrfToken, accessToken, controllerVars, cleared>>
  BY DEF Listed, IInv, PlaceOK
<1>2. PICK page \in SUBSET authorized :
          /\ Page(page)
          /\ IF call[c].mac \in page
             THEN Goes(c, "disconnect") /\ UNCHANGED csrfMu
             ELSE /\ call' = [call EXCEPT ![c].pc = SecondHalf, ![c].cut = page # authorized]
                  /\ csrfMu' = NoCall
  BY DEF Listed
<1>3. PortPlace("list") = "open" /\ PortPlace("disconnect") = "open"
  BY Places DEF Place, Asking, Ended, Withdrawn
<1>4. CASE call[c].mac \in page
  BY <1>1, <1>2, <1>3, <1>4, QuietSeen DEF controllerVars, Place, Asking
<1>5. CASE call[c].mac \notin page
  <2>1. page = authorized \/ MayMiss
    <3> SUFFICES ASSUME ~MayMiss
                 PROVE  page = authorized
      OBVIOUS
    <3>1. authorized \subseteq Mac /\ IsFiniteSet(Mac)
      BY AdapterAssumption DEF IInv, TypeOK
    <3>2. Cardinality(authorized) <= Cardinality(Mac)
      BY <3>1, FS_Subset
    <3>3. Cardinality(authorized) \in Nat /\ Cardinality(Mac) \in Nat
      BY <3>1, FS_Subset, FS_CardinalityType
    <3>4. Cardinality(Mac) <= PageSize
      BY <3>3, AdapterAssumption DEF MayMiss
    <3>5. Cardinality(authorized) <= PageSize
      BY <3>2, <3>3, <3>4, AdapterAssumption
    <3>6. QED
      BY <1>2, <3>5 DEF Page
  <2> DEFINE p == SecondHalf
             cut == page # authorized
  <2>2. call' = [call EXCEPT ![c].pc = p, ![c].cut = cut] /\ call \in [Call -> CallState]
    BY <1>2, <1>5 DEF IInv, TypeOK
  <2> HIDE DEF p, cut
  <2>3. \A d \in Call : /\ call'[d].op = call[d].op /\ call'[d].mac = call[d].mac
                        /\ call'[d].pc = IF d = c THEN p ELSE call[d].pc
    BY <2>2 DEF CallState
  <2>4. Port!Becomes(c, PortPlace(SecondHalf))
    BY <2>3, SeenMoves DEF p
  <2>5. authorized' = authorized \ {call[c].mac} \/ (MayMiss /\ authorized' = authorized)
    BY <1>1, <1>5, <2>1 DEF controllerVars
  <2>6. QED
    BY <1>1, <1>3, <2>4, <2>5, SeenState, HalfSeen DEF controllerVars
<1>6. QED
  BY <1>4, <1>5

LEMMA DisconnectedSeen ==
    ASSUME IInv, NEW c \in Call, Disconnected(c)
    PROVE  Port!TakeEffect(c) \/ Port!Fail(c)
<1>1. /\ call[c].pc = "disconnect" /\ call[c].op = "revoke" /\ Goes(c, SecondHalf)
      /\ authorized' = authorized \ {call[c].mac}
      /\ UNCHANGED <<setup, online, underway>>
  BY DEF Disconnected, Ends, IInv, PlaceOK
<1>2. Seen[c].state = "open"
  BY <1>1, SeenState, Places DEF Place, Asking, Ended, Withdrawn
<1>3. Port!Becomes(c, PortPlace(SecondHalf))
  BY <1>1, CallMoves DEF SecondHalf, Place, Ended, Queued
<1>4. QED
  BY <1>1, <1>2, <1>3, HalfSeen

LEMMA LocalSeen ==
    ASSUME IInv, NEW c \in Call, Lock(c) \/ LoggedIn(c) \/ TokenObtained(c)
    PROVE  UNCHANGED Port!vars
<1>1. UNCHANGED <<setup, authorized, online, underway>>
  BY DEF Lock, LoggedIn, TokenObtained, controllerVars
<1>2. CASE Lock(c)
  <2>1. PICK p \in {"login", "token", "delete"} :
            Goes(c, p) /\ (p = "login" <=> call[c].pc = "queued")
    BY <1>2 DEF Lock
  <2>2. call[c].pc \in Queued
    BY <1>2 DEF Lock
  <2>3. p \in Place /\ PortPlace(p) = PortPlace(call[c].pc)
    BY <2>1, <2>2, Places DEF Place, Queued, Asking, Ended, Withdrawn
  <2>4. QED
    BY <1>1, <2>1, <2>3, QuietSeen
<1>3. CASE LoggedIn(c)
  <2>1. PICK p \in {"authorize", "legacy", "list"} : Goes(c, p) /\ call[c].pc = "login"
    BY <1>3 DEF LoggedIn
  <2>2. p \in Place /\ PortPlace(p) = PortPlace(call[c].pc)
    BY <2>1, Places DEF Place, Asking, Ended, Withdrawn
  <2>3. QED
    BY <1>1, <2>1, <2>2, QuietSeen
<1>4. CASE TokenObtained(c)
  <2>1. Goes(c, "delete") /\ PortPlace("delete") = PortPlace(call[c].pc)
    BY <1>4, Places DEF TokenObtained, Withdrawn
  <2>2. QED
    BY <1>1, <2>1, QuietSeen DEF Place, Asking
<1>5. QED
  BY <1>2, <1>3, <1>4

\* Between the calls: the world moves, or the service is restarted.
LEMMA ArriveSeen ==
    ASSUME IInv, Arrive
    PROVE  Port!TakeLateEffect \/ \E mac \in Mac : Port!Disconnect(mac)
<1>1. PICK e \in underway :
          /\ underway' = underway \ {e}
          /\ authorized' = CASE e[1] = "authorize" -> authorized \cup {e[2]}
                             [] e[1] = "revoke"    -> authorized \ {e[2]}
                             [] OTHER              -> authorized
          /\ online' = IF e[1] = "delete" \/ (e[1] = "revoke" /\ setup = "legacy")
                       THEN online \ {e[2]} ELSE online
          /\ UNCHANGED <<setup, call>>
  BY DEF Arrive
<1>2. PICK kind \in {"authorize", "revoke", "delete"}, m \in Mac : e = <<kind, m>>
  BY DEF IInv, TypeOK
<1>3. Seen' = Seen
  BY <1>1 DEF Seen, PortState, PortPlace
<1>4. CASE kind = "delete"
  <2>1. Late' = Late /\ authorized' = authorized /\ online' = online \ {m}
    BY <1>1, <1>2, <1>4 DEF Late
  <2>2. QED
    BY <1>1, <1>3, <2>1, SameMiss DEF Port!Disconnect, Seen, Late
<1>5. CASE kind # "delete"
  <2>1. e \in Late /\ Late' = Late \ {e}
    BY <1>1, <1>2, <1>5 DEF Late
  <2>2. authorized' = Port!Effect(e[1], e[2], authorized)
    BY <1>1, <1>2, <1>5 DEF Port!Effect
  <2>3. online' = online \/ (e[1] = "revoke" /\ online' = online \ {e[2]})
    BY <1>1, <1>2, <1>5
  <2>4. QED
    BY <1>1, <1>3, <2>1, <2>2, <2>3, SameMiss DEF Port!TakeLateEffect, Seen, Late
<1>6. QED
  BY <1>4, <1>5

LEMMA RestartSeen ==
    ASSUME IInv, Restart
    PROVE  Port!Crash
<1>1. /\ call' = [c \in Call |-> [call[c] EXCEPT !.pc = "idle"]]
      /\ UNCHANGED <<setup, authorized, online>>
      /\ underway' = underway \/ \E c \in Call : underway' = underway \cup Pending(c)
  BY DEF Restart
<1>2. call \in [Call -> CallState]
  BY DEF IInv, TypeOK
<1>3. Seen' = [c \in Call |-> [Seen[c] EXCEPT !.state = "idle"]]
  <2>1. \A c \in Call : /\ call'[c].op = call[c].op /\ call'[c].mac = call[c].mac
                        /\ call'[c].pc = "idle"
    BY <1>1, <1>2 DEF CallState
  <2>2. \A c \in Call : PortState(c)' = [PortState(c) EXCEPT !.state = "idle"]
    BY <2>1 DEF PortState, PortPlace, Ended
  <2>3. Seen' = [c \in Call |-> PortState(c)']
    BY DEF Seen
  <2>4. QED
    BY <2>2, <2>3 DEF Seen
<1>4. \E open \in SUBSET {c \in Call : Seen[c].state = "open"} :
          Late' = Late \cup {<<Seen[c].op, Seen[c].mac>> : c \in open}
  <2>1. CASE Late' = Late
    <3>1. {<<Seen[c].op, Seen[c].mac>> : c \in {}} = {}
      OBVIOUS
    <3>2. QED
      BY <2>1, <3>1
  <2>2. CASE \E c \in Call : underway' = underway \cup Pending(c)
    <3>1. PICK c \in Call : underway' = underway \cup Pending(c)
      BY <2>2
    <3>2. CASE call[c].pc \in {"authorize", "disconnect", "legacy"}
      <4>1. Pending(c) = {<<call[c].op, call[c].mac>>} /\ call[c].op # "delete"
        BY <3>2 DEF Pending, IInv, PlaceOK
      <4>2. Late' = Late \cup {<<Seen[c].op, Seen[c].mac>>}
        BY <3>1, <4>1, SeenState DEF Late
      <4>3. Seen[c].state = "open"
        BY <3>2, SeenState, Places DEF Asking, Place, Ended, Withdrawn
      <4>4. {<<Seen[d].op, Seen[d].mac>> : d \in {c}} = {<<Seen[c].op, Seen[c].mac>>}
        OBVIOUS
      <4>5. {c} \in SUBSET {d \in Call : Seen[d].state = "open"}
        BY <4>3
      <4>6. QED
        BY <4>2, <4>4, <4>5
    <3>3. CASE call[c].pc \notin {"authorize", "disconnect", "legacy"}
      <4>1. \A e \in Pending(c) : e[1] = "delete"
        BY <3>3 DEF Pending
      <4>2. QED
        BY <3>1, <4>1, <2>1 DEF Late
    <3>4. QED
      BY <3>2, <3>3
  <2>3. QED
    BY <1>1, <2>1, <2>2 DEF Late
<1>5. QED
  BY <1>1, <1>3, <1>4, SameMiss DEF Port!Crash, Seen, Late

LEMMA InitSeen == Init => Port!Init
<1> SUFFICES ASSUME Init PROVE Port!Init
  OBVIOUS
<1>1. IInv
  BY InitIInv
<1>2. \A c \in Call : call[c] = NewCall /\ call[c] \in CallState /\ call[c].pc = "idle"
  BY <1>1 DEF Init, NewCall, IInv, TypeOK
<1>3. \A c \in Call : PortState(c) \in Port!CallState /\ PortState(c).state = "idle"
  BY <1>2 DEF PortState, PortPlace, Ended, CallState, Port!CallState, Port!Waiting,
              Port!Op, Op
<1>4. Seen \in [Call -> Port!CallState] /\ \A c \in Call : Seen[c].state = "idle"
  BY <1>3 DEF Seen
<1>5. Late = {} /\ authorized \subseteq Mac /\ online = authorized
  BY DEF Init, Late
<1>6. MayMiss \in BOOLEAN
  BY DEF MayMiss
<1>7. QED
  BY <1>4, <1>5, <1>6 DEF Port!Init, Seen, Late

LEMMA StepSeen ==
    ASSUME IInv, [Next]_vars
    PROVE  Port!Next \/ UNCHANGED Port!vars
<1>1. CASE UNCHANGED vars
  BY <1>1, SeenSame DEF vars, controllerVars, Seen, PortState, PortPlace
<1>2. ASSUME NEW c \in Call, \E op \in Op, mac \in Mac : Begin(c, op, mac)
      PROVE  Port!Next
  BY <1>2, BeginSeen DEF Port!Next
<1>3. ASSUME NEW c \in Call, Lock(c) \/ Progress(c)
      PROVE  Port!Next \/ UNCHANGED Port!vars
  <2>1. CASE Lock(c) \/ LoggedIn(c) \/ TokenObtained(c)
    BY <2>1, LocalSeen
  <2>2. CASE AuthorizeDone(c) \/ Deleted(c) \/ LegacyAnswered(c)
    BY <2>2, DoneSeen DEF Port!Next
  <2>3. CASE Listed(c)
    BY <2>3, ListedSeen DEF Port!Next
  <2>4. CASE Disconnected(c)
    BY <2>4, DisconnectedSeen DEF Port!Next
  <2>5. CASE Rejected(c) \/ GiveUp(c)
    <3>1. Port!Fail(c)
      BY <2>5, FailSeen DEF Rejected, GiveUp, controllerVars
    <3>2. QED
      BY <3>1 DEF Port!Next
  <2>6. QED
    BY <1>3, <2>1, <2>2, <2>3, <2>4, <2>5 DEF Progress
<1>4. CASE Arrive
  BY <1>4, ArriveSeen DEF Port!Next
<1>5. ASSUME NEW mac \in Mac, Join(mac) \/ Leave(mac)
      PROVE  Port!Next
  <2>1. Seen' = Seen /\ Late' = Late /\ UNCHANGED setup
    BY <1>5 DEF Join, Leave, Seen, PortState, PortPlace, Late
  <2>2. Port!Connect(mac) \/ Port!Disconnect(mac)
    BY <1>5, <2>1, SameMiss DEF Join, Leave, Port!Connect, Port!Disconnect, Seen, Late
  <2>3. QED
    BY <2>2 DEF Port!Next
<1>6. CASE Restart
  BY <1>6, RestartSeen DEF Port!Next
<1>7. QED
  BY <1>1, <1>2, <1>3, <1>4, <1>5, <1>6 DEF Next

\* The client is what the services take the port for: it acts at one instant of
\* each call, and never reports a success without having acted, except for
\* revocations by a legacy endpoint or over a list that may be cut off (Authorize,
\* Revoke).
THEOREM PortImplemented == Spec => ImplementsPort
<1>1. IInv /\ [Next]_vars => [Port!Next]_Port!vars
  BY StepSeen
<1>2. QED
  BY <1>1, InitSeen, Invariance, PTL DEF Spec, ImplementsPort, Port!Spec
=============================================================================
