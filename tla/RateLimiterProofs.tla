------------------------- MODULE RateLimiterProofs -------------------------
(***************************************************************************)
(* What the rate limiter promises for any number of requests and           *)
(* addresses, any limit and any window.  The argument: a request that is   *)
(* no longer on the list of its address was dropped for one whose stamp is *)
(* a window later (Dropped), so the list holds every request that can lie  *)
(* together with the one being decided.                                    *)
(***************************************************************************)
EXTENDS RateLimiter, FiniteSetTheorems, TLAPS

\* What has passed but left the list lies a whole window behind the newest stamp.
Dropped ==
    \A k \in Key : \A q \in Allowed(k) \ keys[k] : newest[k] - stamp[q] >= Window

\* Lists are finite, and so is what has passed.
Finite == \A k \in Key : IsFiniteSet(keys[k]) /\ IsFiniteSet(Allowed(k))

IInv == TypeOK /\ Dropped /\ Finite /\ WindowLimit

-----------------------------------------------------------------------------
LEMMA InitIInv == Init => IInv
<1> SUFFICES ASSUME Init PROVE IInv
  OBVIOUS
<1>1. \A k \in Key : Allowed(k) = {} /\ keys[k] = {}
  BY DEF Init, Allowed
<1>2. TypeOK
  BY <1>1, LimiterAssumption DEF Init, TypeOK
<1>3. Finite /\ Dropped
  BY <1>1, FS_EmptySet DEF Finite, Dropped
<1>4. WindowLimit
  <2> SUFFICES ASSUME NEW k \in Key, NEW S \in SUBSET Allowed(k)
               PROVE  Cardinality(S) <= Limit
    BY DEF WindowLimit
  <2>1. S = {}
    BY <1>1
  <2>2. Cardinality(S) = 0
    BY <2>1, FS_EmptySet
  <2>3. QED
    BY <2>2, LimiterAssumption
<1>5. QED
  BY <1>2, <1>3, <1>4 DEF IInv

\* A step that lets nobody through and decides nothing.
LEMMA QuietStep ==
    ASSUME IInv, TypeOK', UNCHANGED <<keys, newest, disorder>>,
           \A k \in Key : Allowed(k)' = Allowed(k),
           \A k \in Key : \A q \in Allowed(k) : stamp'[q] = stamp[q]
    PROVE  IInv'
<1>1. Dropped'
  BY DEF IInv, Dropped
<1>2. Finite'
  BY DEF IInv, Finite
<1>3. WindowLimit'
  <2> SUFFICES ASSUME NEW k \in Key, NEW S \in SUBSET Allowed(k), Together(S)'
               PROVE  Cardinality(S) <= Limit
    BY DEF WindowLimit
  <2>1. Together(S)
    BY DEF Together
  <2>2. QED
    BY <2>1 DEF IInv, WindowLimit
<1>4. QED
  BY <1>1, <1>2, <1>3 DEF IInv

LEMMA ArriveStep ==
    ASSUME IInv, NEW r \in Request, Arrive(r)
    PROVE  IInv'
<1>1. TypeOK'
  BY DEF IInv, TypeOK, Arrive, Allowed
<1>2. \A k \in Key : Allowed(k)' = Allowed(k)
  BY DEF IInv, TypeOK, Arrive, Allowed
<1>3. \A k \in Key : \A q \in Allowed(k) : stamp'[q] = stamp[q]
  BY DEF IInv, TypeOK, Arrive, Allowed
<1>4. UNCHANGED <<keys, newest, disorder>>
  BY DEF Arrive
<1>5. QED
  BY <1>1, <1>2, <1>3, <1>4, QuietStep

\* The two histories move as they should: newest is the later of the two
\* stamps, and disorder covers the distance by which the request came late.
LEMMA OrderRecorded ==
    ASSUME TypeOK, NEW r \in Request, key[r] \in Key, RecordOrder(r)
    PROVE  /\ newest' \in [Key -> 0 .. now]
           /\ disorder' \in Nat
           /\ disorder' >= disorder
           /\ disorder' >= newest[key[r]] - stamp[r]
           /\ \A k \in Key : newest'[k] >= newest[k]
           /\ newest'[key[r]] >= stamp[r]
BY DEF TypeOK, RecordOrder, Behind

\* Sets that lay together before the step are all that can lie together after it.
LEMMA StillTogether ==
    ASSUME TypeOK, disorder' \in Nat, disorder' >= disorder, stamp' = stamp,
           NEW k \in Key, NEW S \in SUBSET Allowed(k), Together(S)'
    PROVE  Together(S)
<1> SUFFICES ASSUME NEW q \in S, NEW p \in S
             PROVE  stamp[q] - stamp[p] + disorder < Window
  BY DEF Together
<1>1. stamp[q] \in Int /\ stamp[p] \in Int /\ disorder \in Int
  BY DEF TypeOK, Allowed
<1>2. stamp[q] - stamp[p] + disorder' < Window
  BY DEF Together
<1>3. QED
  BY <1>1, <1>2, LimiterAssumption

\* A request that passed and does not count against r lies apart from r: it left
\* the list for a stamp a window later, or r itself is that late.
LEMMA NotFilteredIsApart ==
    ASSUME IInv, NEW r \in Request, key[r] \in Key, RecordOrder(r),
           NEW q \in Allowed(key[r]), q \notin Filtered(r)
    PROVE  stamp[r] - stamp[q] + disorder' >= Window
<1>1. stamp[r] \in Int /\ stamp[q] \in Int /\ newest[key[r]] \in Int
  BY DEF IInv, TypeOK, Allowed
<1>2. disorder' \in Nat /\ disorder' >= newest[key[r]] - stamp[r]
  BY OrderRecorded DEF IInv
<1>3. CASE q \in keys[key[r]]
  <2>1. stamp[r] - stamp[q] >= Window
    BY <1>1, <1>3, LimiterAssumption DEF Filtered, Recent
  <2>2. QED
    BY <2>1, <1>1, <1>2, LimiterAssumption
<1>4. CASE q \notin keys[key[r]]
  <2>1. newest[key[r]] - stamp[q] >= Window
    BY <1>4 DEF IInv, Dropped
  <2>2. QED
    BY <2>1, <1>1, <1>2, LimiterAssumption
<1>5. QED
  BY <1>3, <1>4

\* What a decision drops from the list lies a window behind the decided stamp.
LEMMA DroppedStep ==
    ASSUME IInv, NEW r \in Request, key[r] \in Key, RecordOrder(r), stamp' = stamp,
           NEW k \in Key, NEW q \in Allowed(k),
           k = key[r] => q \notin Filtered(r),
           k # key[r] => q \notin keys[k]
    PROVE  newest'[k] - stamp[q] >= Window
<1>1. stamp[r] \in Int /\ stamp[q] \in Int /\ newest[k] \in Int
  BY DEF IInv, TypeOK, Allowed
<1>2. newest'[k] \in Int /\ newest'[k] >= newest[k] /\ newest'[key[r]] >= stamp[r]
  BY OrderRecorded DEF IInv
<1>3. CASE q \in keys[k]
  <2>1. k = key[r] /\ stamp[r] - stamp[q] >= Window
    BY <1>1, <1>3, LimiterAssumption DEF Filtered, Recent
  <2>2. QED
    BY <2>1, <1>1, <1>2, LimiterAssumption
<1>4. CASE q \notin keys[k]
  <2>1. newest[k] - stamp[q] >= Window
    BY <1>4 DEF IInv, Dropped
  <2>2. QED
    BY <2>1, <1>1, <1>2, LimiterAssumption
<1>5. QED
  BY <1>3, <1>4

LEMMA RefuseStep ==
    ASSUME IInv, NEW r \in Request, Refuse(r)
    PROVE  IInv'
<1>1. /\ key[r] \in Key /\ at[r] = "stamped" /\ RecordOrder(r)
      /\ keys' = [keys EXCEPT ![key[r]] = Filtered(r)]
      /\ at' = [at EXCEPT ![r] = "refused"]
      /\ UNCHANGED <<now, key, stamp>>
  BY DEF Refuse
<1>2. \A k \in Key : Allowed(k)' = Allowed(k)
  BY <1>1 DEF IInv, TypeOK, Allowed
<1>3. \A k \in Key : keys'[k] = IF k = key[r] THEN Filtered(r) ELSE keys[k]
  BY <1>1 DEF IInv, TypeOK
<1>4. Filtered(r) \subseteq keys[key[r]]
  BY DEF Filtered
<1>5. /\ newest' \in [Key -> 0 .. now] /\ disorder' \in Nat /\ disorder' >= disorder
  BY <1>1, OrderRecorded DEF IInv
<1>6. TypeOK'
  <2>1. /\ now' \in Nat
        /\ at' \in [Request -> {"new", "stamped", "allowed", "refused"}]
        /\ key' \in [Request -> Key \cup {NoKey}]
        /\ stamp' \in [Request -> 0 .. now']
        /\ newest' \in [Key -> 0 .. now'] /\ disorder' \in Nat
    BY <1>1, <1>5 DEF IInv, TypeOK
  <2>2. \A k \in Key : keys'[k] \subseteq Allowed(k)'
    BY <1>1, <1>2, <1>3, <1>4 DEF IInv, TypeOK
  <2>3. keys' \in [Key -> SUBSET Request]
    <3>1. Filtered(r) \cup {r} \in SUBSET Request
      BY <1>1, <1>4 DEF IInv, TypeOK
    <3>2. QED
      BY <1>1, <3>1 DEF IInv, TypeOK
  <2>4. QED
    BY <2>1, <2>2, <2>3 DEF TypeOK
<1>7. Finite'
  <2> SUFFICES ASSUME NEW k \in Key
               PROVE  IsFiniteSet(keys'[k]) /\ IsFiniteSet(Allowed(k)')
    BY DEF Finite
  <2>1. IsFiniteSet(keys[k]) /\ IsFiniteSet(Allowed(k)) /\ keys'[k] \subseteq keys[k]
    BY <1>3, <1>4 DEF IInv, Finite
  <2>2. QED
    BY <2>1, <1>2, FS_Subset
<1>8. Dropped'
  BY <1>1, <1>2, <1>3, DroppedStep DEF Dropped
<1>9. WindowLimit'
  <2> SUFFICES ASSUME NEW k \in Key, NEW S \in SUBSET Allowed(k), Together(S)'
               PROVE  Cardinality(S) <= Limit
    BY <1>2 DEF WindowLimit
  <2>1. Together(S)
    BY <1>1, <1>5, StillTogether DEF IInv
  <2>2. QED
    BY <2>1 DEF IInv, WindowLimit
<1>10. QED
  BY <1>6, <1>7, <1>8, <1>9 DEF IInv

LEMMA AllowStep ==
    ASSUME IInv, NEW r \in Request, Allow(r)
    PROVE  IInv'
<1> DEFINE K == key[r]
<1>1. /\ K \in Key /\ at[r] = "stamped" /\ RecordOrder(r)
      /\ Cardinality(Filtered(r)) < Limit
      /\ keys' = [keys EXCEPT ![K] = Filtered(r) \cup {r}]
      /\ at' = [at EXCEPT ![r] = "allowed"]
      /\ UNCHANGED <<now, key, stamp>>
  BY DEF Allow
<1>2. \A k \in Key : Allowed(k)' = IF k = K THEN Allowed(k) \cup {r} ELSE Allowed(k)
  BY <1>1 DEF IInv, TypeOK, Allowed
<1>3. \A k \in Key : keys'[k] = IF k = K THEN Filtered(r) \cup {r} ELSE keys[k]
  BY <1>1 DEF IInv, TypeOK
<1>4. Filtered(r) \subseteq keys[K]
  BY DEF Filtered
<1>5. /\ newest' \in [Key -> 0 .. now] /\ disorder' \in Nat /\ disorder' >= disorder
  BY <1>1, OrderRecorded DEF IInv
<1>6. TypeOK'
  <2>1. /\ now' \in Nat
        /\ at' \in [Request -> {"new", "stamped", "allowed", "refused"}]
        /\ key' \in [Request -> Key \cup {NoKey}]
        /\ stamp' \in [Request -> 0 .. now']
        /\ newest' \in [Key -> 0 .. now'] /\ disorder' \in Nat
    BY <1>1, <1>5 DEF IInv, TypeOK
  <2>2. \A k \in Key : keys'[k] \subseteq Allowed(k)'
    BY <1>1, <1>2, <1>3, <1>4 DEF IInv, TypeOK
  <2>3. keys' \in [Key -> SUBSET Request]
    <3>1. Filtered(r) \cup {r} \in SUBSET Request
      BY <1>1, <1>4 DEF IInv, TypeOK
    <3>2. QED
      BY <1>1, <3>1 DEF IInv, TypeOK
  <2>4. QED
    BY <2>1, <2>2, <2>3 DEF TypeOK
<1>7. IsFiniteSet(Filtered(r)) /\ Cardinality(Filtered(r)) \in Nat
  BY <1>1, <1>4, FS_Subset, FS_CardinalityType DEF IInv, Finite
<1>8. Finite'
  <2> SUFFICES ASSUME NEW k \in Key
               PROVE  IsFiniteSet(keys'[k]) /\ IsFiniteSet(Allowed(k)')
    BY DEF Finite
  <2>1. IsFiniteSet(keys[k]) /\ IsFiniteSet(Allowed(k))
    BY DEF IInv, Finite
  <2>2. /\ IsFiniteSet(Filtered(r) \cup {r})
        /\ IsFiniteSet(Allowed(k) \cup {r})
    BY <1>7, <2>1, FS_AddElement
  <2>3. QED
    BY <2>1, <2>2, <1>2, <1>3
<1>9. Dropped'
  <2> SUFFICES ASSUME NEW k \in Key, NEW q \in Allowed(k)', q \notin keys'[k]
               PROVE  newest'[k] - stamp'[q] >= Window
    BY DEF Dropped
  <2>1. q # r
    BY <1>1, <1>2, <1>3 DEF IInv, TypeOK, Allowed
  <2>2. q \in Allowed(k)
    BY <2>1, <1>2
  <2>3. (k = K => q \notin Filtered(r)) /\ (k # K => q \notin keys[k])
    BY <1>3
  <2>4. QED
    BY <2>2, <2>3, <1>1, DroppedStep
<1>10. WindowLimit'
  <2> SUFFICES ASSUME NEW k \in Key, NEW S \in SUBSET Allowed(k)', Together(S)'
               PROVE  Cardinality(S) <= Limit
    BY DEF WindowLimit
  <2>1. CASE r \notin S
    <3>1. S \in SUBSET Allowed(k)
      BY <2>1, <1>2
    <3>2. Together(S)
      BY <3>1, <1>1, <1>5, StillTogether DEF IInv
    <3>3. QED
      BY <3>1, <3>2 DEF IInv, WindowLimit
  <2>2. CASE r \in S
    <3>1. k = K
      BY <2>2, <1>1, <1>2 DEF IInv, TypeOK, Allowed
    <3>2. S \ {r} \subseteq Filtered(r)
      <4> SUFFICES ASSUME NEW q \in S, q # r, q \notin Filtered(r)
                   PROVE  FALSE
        OBVIOUS
      <4>1. q \in Allowed(K)
        BY <3>1, <1>2
      <4>2. stamp[r] - stamp[q] + disorder' >= Window
        BY <4>1, <1>1, NotFilteredIsApart
      <4>3. stamp[r] - stamp[q] + disorder' < Window
        BY <2>2, <1>1 DEF Together
      <4>4. stamp[r] \in Int /\ stamp[q] \in Int
        BY <4>1 DEF IInv, TypeOK, Allowed
      <4>5. QED
        BY <4>2, <4>3, <4>4, <1>5, LimiterAssumption
    <3>3. /\ IsFiniteSet(S \ {r})
          /\ Cardinality(S \ {r}) \in Nat
          /\ Cardinality(S \ {r}) <= Cardinality(Filtered(r))
      BY <3>2, <1>7, FS_Subset, FS_CardinalityType
    <3>4. Cardinality((S \ {r}) \cup {r}) = Cardinality(S \ {r}) + 1
      BY <3>3, FS_AddElement
    <3>5. (S \ {r}) \cup {r} = S
      BY <2>2
    <3>6. Cardinality(S) = Cardinality(S \ {r}) + 1
      BY <3>4, <3>5, Zenon
    <3>7. QED
      BY <3>3, <3>6, <1>1, <1>7, LimiterAssumption
  <2>3. QED
    BY <2>1, <2>2
<1>11. QED
  BY <1>6, <1>8, <1>9, <1>10 DEF IInv

LEMMA NextIInv == IInv /\ [Next]_vars => IInv'
<1> SUFFICES ASSUME IInv, [Next]_vars PROVE IInv'
  OBVIOUS
<1>1. ASSUME NEW r \in Request, Arrive(r) PROVE IInv'
  BY <1>1, ArriveStep
<1>2. ASSUME NEW r \in Request, Allow(r) PROVE IInv'
  BY <1>2, AllowStep
<1>3. ASSUME NEW r \in Request, Refuse(r) PROVE IInv'
  BY <1>3, RefuseStep
<1>4. ASSUME NEW r \in Request, RefuseUnknown(r) PROVE IInv'
  <2>1. TypeOK' /\ \A k \in Key : Allowed(k)' = Allowed(k)
    BY <1>4 DEF IInv, TypeOK, RefuseUnknown, Allowed
  <2>2. QED
    BY <1>4, <2>1, QuietStep DEF RefuseUnknown
<1>5. CASE Tick
  <2>1. \A k \in Key : Allowed(k)' = Allowed(k)
    BY <1>5 DEF Tick, Allowed
  <2>2. TypeOK'
    BY <1>5, <2>1, LimiterAssumption DEF IInv, TypeOK, Tick
  <2>3. QED
    BY <1>5, <2>1, <2>2, QuietStep DEF Tick
<1>6. CASE UNCHANGED vars
  <2>1. TypeOK' /\ \A k \in Key : Allowed(k)' = Allowed(k)
    BY <1>6 DEF vars, IInv, TypeOK, Allowed
  <2>2. QED
    BY <1>6, <2>1, QuietStep DEF vars
<1>7. QED
  BY <1>1, <1>2, <1>3, <1>4, <1>5, <1>6 DEF Next

LEMMA Invariance == Spec => []IInv
BY InitIInv, NextIInv, PTL DEF Spec

-----------------------------------------------------------------------------
\* The list of an address never holds a request of another address, one that was
\* refused, or a stamp from the future (RateLimiter.Allow).
THEOREM TypeCorrect == Spec => []TypeOK
<1>1. IInv => TypeOK
  BY DEF IInv
<1>2. QED
  BY <1>1, Invariance, PTL

\* For every limit and window, an address gets at most Limit requests through in a
\* window shortened by the greatest delay of a stamp (RateLimiter.Allow).
THEOREM WindowLimitHolds == Spec => []WindowLimit
<1>1. IInv => WindowLimit
  BY DEF IInv
<1>2. QED
  BY <1>1, Invariance, PTL

\* A refusal is never more than what the window of that address accounts for
\* (RateLimiter.Allow).
THEOREM RefusalJustifiedHolds == Spec => RefusalJustified
<1> DEFINE Justified ==
        \A r \in Request : at[r] = "stamped" /\ at'[r] = "refused" =>
          \/ key[r] = NoKey
          \/ Cardinality({q \in Allowed(key[r]) : stamp[r] - stamp[q] < Window}) >= Limit
<1>1. IInv /\ [Next]_vars => [Justified]_vars
  <2> SUFFICES ASSUME IInv, Next, NEW r \in Request,
                      at[r] = "stamped", at'[r] = "refused", key[r] # NoKey
               PROVE  Cardinality({q \in Allowed(key[r]) : stamp[r] - stamp[q] < Window})
                        >= Limit
    OBVIOUS
  <2> DEFINE Counted == {q \in Allowed(key[r]) : stamp[r] - stamp[q] < Window}
  <2>1. Refuse(r)
    BY DEF Next, Arrive, Allow, Refuse, RefuseUnknown, Tick, IInv, TypeOK
  <2>2. Filtered(r) \subseteq Counted /\ IsFiniteSet(Counted)
    <3>1. key[r] \in Key /\ keys[key[r]] \subseteq Allowed(key[r])
      BY <2>1 DEF Refuse, IInv, TypeOK
    <3>2. IsFiniteSet(Allowed(key[r]))
      BY <3>1 DEF IInv, Finite
    <3>3. QED
      BY <3>1, <3>2, FS_Subset DEF Filtered, Recent
  <2>3. /\ Cardinality(Filtered(r)) \in Nat /\ Cardinality(Counted) \in Nat
        /\ Cardinality(Filtered(r)) <= Cardinality(Counted)
    BY <2>2, FS_Subset, FS_CardinalityType
  <2>4. QED
    BY <2>1, <2>3, LimiterAssumption DEF Refuse
<1>2. QED
  BY <1>1, Invariance, PTL DEF Spec, RefusalJustified
=============================================================================
