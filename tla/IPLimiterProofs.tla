--------------------------- MODULE IPLimiterProofs ---------------------------
(***************************************************************************)
(* IPLimiter for every set of addresses, rate, burst and TTL: its type, how *)
(* long an address is remembered, and that it implements TokenBuckets.     *)
(***************************************************************************)
EXTENDS IPLimiter, TLAPS

\* The sweeper keeps up with its ticker, up to Slack.
Punctual ==
    /\ due - TTL <= now /\ now <= due + Slack
    /\ sweep # Idle => /\ due - TTL <= sweep /\ sweep <= now
                       /\ now <= (due - TTL) + Slack

\* How old an entry can be, between two sweeps and during one.
Recently ==
    \A ip \in entries :
        /\ seen[ip] <= now
        /\ sweep = Idle => seen[ip] >= due - 2 * TTL
        /\ sweep # Idle => seen[ip] >= due - 3 * TTL

\* A bucket has gained Rate tokens for every tick its address was idle, unless
\* it is full.
FillsWhenIdle ==
    \A ip \in entries :
        tokens[ip] = Burst \/ tokens[ip] >= Rate * (now - seen[ip])

IInv == TypeOK /\ Punctual /\ Recently /\ FillsWhenIdle

LEMMA FoundType ==
    ASSUME TypeOK, NEW ip \in IPs
    PROVE  Found(ip) \in 0..Burst
  BY LimitAssumption DEF TypeOK, Found

LEMMA RefillType ==
    ASSUME NEW n \in 0..Burst
    PROVE  /\ Refill(n) \in 0..Burst
           /\ Refill(n) = Burst \/ Refill(n) = n + Rate
           /\ n = Burst => Refill(n) = Burst
  BY LimitAssumption DEF Refill

LEMMA TypeStep == TypeOK /\ [Next]_vars => TypeOK'
<1> SUFFICES ASSUME TypeOK, [Next]_vars PROVE TypeOK'
  OBVIOUS
<1>1. ASSUME NEW ip \in IPs, Serve(ip) PROVE TypeOK'
  BY <1>1, FoundType, LimitAssumption DEF TypeOK, Serve, Touch
<1>2. ASSUME NEW ip \in IPs, TurnAway(ip) PROVE TypeOK'
  BY <1>2, LimitAssumption DEF TypeOK, TurnAway, Touch
<1>3. CASE SweepBegins
  BY <1>3, LimitAssumption DEF TypeOK, SweepBegins, Idle
<1>4. CASE Evict
  BY <1>4 DEF TypeOK, Evict, Idle
<1>5. CASE Tick
  BY <1>5, RefillType DEF TypeOK, Tick
<1>6. CASE UNCHANGED vars
  BY <1>6 DEF TypeOK, vars
<1> QED  BY <1>1, <1>2, <1>3, <1>4, <1>5, <1>6 DEF Next

LEMMA PunctualStep == TypeOK /\ Punctual /\ [Next]_vars => Punctual'
<1> SUFFICES ASSUME TypeOK, Punctual, [Next]_vars PROVE Punctual'
  OBVIOUS
<1> USE LimitAssumption DEF TypeOK, Punctual, Idle
<1>1. ASSUME NEW ip \in IPs, Serve(ip) \/ TurnAway(ip) PROVE Punctual'
  BY <1>1 DEF Serve, TurnAway
<1>2. CASE SweepBegins
  BY <1>2 DEF SweepBegins
<1>3. CASE Evict
  BY <1>3 DEF Evict
<1>4. CASE Tick
  BY <1>4 DEF Tick, Overdue
<1>5. CASE UNCHANGED vars
  BY <1>5 DEF vars
<1> QED  BY <1>1, <1>2, <1>3, <1>4, <1>5 DEF Next

LEMMA RecentlyStep == TypeOK /\ Punctual /\ Recently /\ [Next]_vars => Recently'
<1> SUFFICES ASSUME TypeOK, Punctual, Recently, [Next]_vars PROVE Recently'
  OBVIOUS
<1> USE LimitAssumption DEF TypeOK, Punctual, Recently, Idle
<1>1. ASSUME NEW ip \in IPs, Serve(ip) \/ TurnAway(ip) PROVE Recently'
  BY <1>1 DEF Serve, TurnAway, Touch
<1>2. CASE SweepBegins
  BY <1>2 DEF SweepBegins
<1>3. CASE Evict
  BY <1>3 DEF Evict
<1>4. CASE Tick
  BY <1>4 DEF Tick
<1>5. CASE UNCHANGED vars
  BY <1>5 DEF vars
<1> QED  BY <1>1, <1>2, <1>3, <1>4, <1>5 DEF Next

\* One more idle tick is worth Rate more tokens.
LEMMA OneMoreTick ==
    ASSUME NEW d \in Nat
    PROVE  Rate * (d + 1) = Rate * d + Rate /\ Rate * d \in Nat
  BY LimitAssumption

LEMMA FillsStep == IInv /\ [Next]_vars => FillsWhenIdle'
<1> SUFFICES ASSUME IInv, [Next]_vars PROVE FillsWhenIdle'
  OBVIOUS
<1> USE DEF IInv, FillsWhenIdle
<1>1. ASSUME NEW ip \in IPs, Serve(ip) \/ TurnAway(ip) PROVE FillsWhenIdle'
  <2>1. /\ entries' = entries \cup {ip} /\ now' = now
        /\ seen' = [seen EXCEPT ![ip] = now]
        /\ tokens'[ip] \in Nat
        /\ \A k \in IPs \ {ip} : tokens'[k] = tokens[k]
    BY <1>1, FoundType DEF Serve, TurnAway, Touch, TypeOK
  <2>2. Rate * (now - now) = 0
    BY LimitAssumption DEF TypeOK
  <2> QED  BY <2>1, <2>2 DEF TypeOK
<1>2. CASE SweepBegins \/ Evict
  BY <1>2 DEF SweepBegins, Evict, TypeOK
<1>3. CASE Tick
  <2> SUFFICES ASSUME NEW ip \in entries, tokens'[ip] # Burst
               PROVE  tokens'[ip] >= Rate * (now' - seen[ip])
    BY <1>3 DEF Tick
  <2>1. tokens'[ip] = Refill(tokens[ip]) /\ now' = now + 1 /\ tokens[ip] \in 0..Burst
    BY <1>3 DEF Tick, TypeOK
  <2>2. tokens'[ip] = tokens[ip] + Rate /\ tokens[ip] # Burst
    BY <2>1, RefillType
  <2>3. now - seen[ip] \in Nat /\ now' - seen[ip] = (now - seen[ip]) + 1
    BY <2>1 DEF TypeOK, Recently
  <2>4. tokens[ip] >= Rate * (now - seen[ip])
    BY <2>2
  <2> HIDE DEF IInv, FillsWhenIdle
  <2> QED  BY <2>1, <2>2, <2>3, <2>4, OneMoreTick, LimitAssumption
<1>4. CASE UNCHANGED vars
  BY <1>4 DEF vars
<1> QED  BY <1>1, <1>2, <1>3, <1>4 DEF Next

LEMMA InitInv == Init => IInv
  BY LimitAssumption DEF Init, IInv, TypeOK, Punctual, Recently, FillsWhenIdle, Idle

LEMMA InvAlways == Spec => []IInv
<1>1. IInv /\ [Next]_vars => IInv'
  BY TypeStep, PunctualStep, RecentlyStep, FillsStep DEF IInv
<1> QED  BY InitInv, <1>1, PTL DEF Spec

\* TypeOK: a bucket never holds more than the burst or less than nothing, for
\* any rate, burst and TTL.
THEOREM LimiterTypeCorrect == Spec => []TypeOK
<1>1. IInv => TypeOK
  BY DEF IInv
<1> QED  BY InvAlways, <1>1, PTL

\* IdleForgotten: the map forgets an address within two TTLs, and the
\* scheduler's slack, of its last request: it cannot grow without bound.
THEOREM IdleAlwaysForgotten == Spec => []IdleForgotten
<1>1. IInv => IdleForgotten
  BY LimitAssumption DEF IInv, TypeOK, Punctual, Recently, IdleForgotten, Idle
<1> QED  BY InvAlways, <1>1, PTL

-----------------------------------------------------------------------------
(* Refinement. *)

\* An entry the sweeper removes has a full bucket.
LEMMA EvictedIsFull ==
    ASSUME IInv, Evict, NEW ip \in entries \ entries'
    PROVE  tokens[ip] = Burst
<1>1. /\ seen[ip] < sweep - TTL /\ sweep <= now
      /\ seen[ip] \in Nat /\ now \in Nat /\ sweep \in Nat /\ tokens[ip] \in 0..Burst
  BY LimitAssumption DEF Evict, IInv, TypeOK, Punctual, Idle
<1> DEFINE d == now - seen[ip] - TTL
<1>2. d \in Nat /\ now - seen[ip] = TTL + d
  BY <1>1, LimitAssumption
<1> HIDE DEF d
<1>3. Rate * (TTL + d) = Rate * TTL + Rate * d /\ Rate * d \in Nat /\ Rate * TTL \in Nat
  BY <1>2, LimitAssumption
<1>4. Rate * (now - seen[ip]) >= Burst
  BY <1>2, <1>3, LimitAssumption
<1>5. tokens[ip] = Burst \/ tokens[ip] >= Rate * (now - seen[ip])
  BY DEF IInv, FillsWhenIdle
<1> HIDE DEF IInv
<1>6. Rate * (now - seen[ip]) \in Int
  BY <1>1, LimitAssumption
<1> QED  BY <1>1, <1>4, <1>5, <1>6, LimitAssumption

LEMMA StepImplements == IInv /\ [Next]_vars => [Buckets!Next]_(Buckets!bucketVars)
<1> SUFFICES ASSUME IInv, [Next]_vars
             PROVE  Buckets!Next \/ UNCHANGED Buckets!bucketVars
  BY DEF Buckets!bucketVars
<1> DEFINE bucket == [ip \in IPs |-> Found(ip)]
<1>1. ASSUME NEW ip \in IPs, Serve(ip) PROVE Buckets!Pass(ip)
  <2>1. bucket' = [bucket EXCEPT ![ip] = @ - 1]
    BY <1>1 DEF Serve, Touch, Found, IInv, TypeOK
  <2> QED  BY <1>1, <2>1 DEF Serve, Buckets!Pass
<1>2. ASSUME NEW ip \in IPs, TurnAway(ip) PROVE Buckets!Reject(ip)
  <2>1. bucket' = bucket
    BY <1>2 DEF TurnAway, Touch, Found, IInv, TypeOK
  <2> QED  BY <1>2, <2>1 DEF TurnAway, Buckets!Reject
<1>3. CASE SweepBegins
  BY <1>3 DEF SweepBegins, Buckets!bucketVars, Found
<1>4. CASE Evict
  <2>1. \A ip \in IPs : Found(ip)' = Found(ip)
    BY <1>4, EvictedIsFull DEF Evict, Found
  <2> QED  BY <1>4, <2>1 DEF Evict, Buckets!bucketVars
<1>5. CASE Tick
  <2>1. \A ip \in IPs : Found(ip)' = Buckets!Refilled(Found(ip))
    BY <1>5, LimitAssumption DEF Tick, Found, Refill, Buckets!Refilled, IInv, TypeOK
  <2> QED  BY <1>5, <2>1 DEF Tick, Buckets!Tick, Buckets!Next
<1>6. CASE UNCHANGED vars
  BY <1>6 DEF vars, Buckets!bucketVars, Found
<1> QED  BY <1>1, <1>2, <1>3, <1>4, <1>5, <1>6 DEF Next, Buckets!Next

\* ImplementsBuckets: whatever the sweeper forgets and whenever it does, every
\* request is answered as if each address had kept its bucket since the start.
THEOREM ForgettingNeverShows == Spec => ImplementsBuckets
<1>1. Init => Buckets!Init
  BY DEF Init, Buckets!Init, Found
<1> QED  BY <1>1, InvAlways, StepImplements, PTL DEF Spec, ImplementsBuckets, Buckets!Spec
=============================================================================
