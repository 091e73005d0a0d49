----------------------------- MODULE IPLimiter -----------------------------
(***************************************************************************)
(* ipRateLimiter (ratelimit.go): a token bucket for each address, made by  *)
(* its first request, and a sweeper that forgets the addresses that have   *)
(* been idle for a while.  The sweeper reads the clock before it takes the *)
(* mutex, so a request may come between.  The buckets are those of         *)
(* golang.org/x/time/rate; a tick is the unit of time.                     *)
(***************************************************************************)
EXTENDS Integers, FiniteSets

CONSTANTS
    IPs,        \* client addresses
    Rate,       \* tokens a bucket gains in a tick (httpRatePerSec)
    Burst,      \* what a bucket holds (httpBurst)
    TTL,        \* ipEntryTTL, in ticks
    Slack,      \* bound of the scheduler: the sweeper is done this long after its tick
    MaxNow      \* bound of the model: the clock stops here

\* A bucket fills up within the TTL (100 tokens at 50 a second, and 10 minutes).
ASSUME LimitAssumption ==
    /\ Rate \in Nat
    /\ Burst \in Nat \ {0}
    /\ TTL \in Nat \ {0}
    /\ Slack \in 0..(TTL - 1)
    /\ MaxNow \in Nat
    /\ Rate * TTL >= Burst

VARIABLES
    now,        \* the clock
    entries,    \* the addresses in the map
    tokens,     \* entry.limiter: tokens in its bucket
    seen,       \* entry.seen
    due,        \* when the sweeper's ticker fires next
    sweep,      \* the time an ongoing sweep has read, or Idle
    reply       \* the middleware's answer to an address's last request of this tick

vars == <<now, entries, tokens, seen, due, sweep, reply>>

Idle == -1

TypeOK ==
    /\ now \in Nat
    /\ entries \subseteq IPs
    /\ tokens \in [IPs -> 0..Burst]
    /\ seen \in [IPs -> Nat]
    /\ due \in Nat
    /\ sweep \in Nat \cup {Idle}
    /\ reply \in [IPs -> {"none", "served", "429"}]

Init ==
    /\ now = 0
    /\ entries = {}
    /\ tokens = [ip \in IPs |-> Burst]
    /\ seen = [ip \in IPs |-> 0]
    /\ due = TTL
    /\ sweep = Idle
    /\ reply = [ip \in IPs |-> "none"]

-----------------------------------------------------------------------------

\* The tokens allow finds: a new entry's bucket is full.
Found(ip) == IF ip \in entries THEN tokens[ip] ELSE Burst

\* Mutated Touch: only a new entry is stamped.
TouchNewOnly(ip) ==
    /\ entries' = entries \cup {ip}
    /\ seen' = IF ip \in entries THEN seen ELSE [seen EXCEPT ![ip] = now]

\* allow, up to the call of the bucket: the entry exists and is stamped.
Touch(ip) ==
    /\ entries' = entries \cup {ip}
    /\ seen' = [seen EXCEPT ![ip] = now]

\* The request takes a token and is passed on.
Serve(ip) ==
    /\ Found(ip) >= 1
    /\ Touch(ip)
    /\ tokens' = [tokens EXCEPT ![ip] = Found(ip) - 1]
    /\ reply' = [reply EXCEPT ![ip] = "served"]
    /\ UNCHANGED <<now, due, sweep>>

\* The bucket is empty: 429.
TurnAway(ip) ==
    /\ Found(ip) = 0
    /\ Touch(ip)
    /\ tokens' = [tokens EXCEPT ![ip] = 0]
    /\ reply' = [reply EXCEPT ![ip] = "429"]
    /\ UNCHANGED <<now, due, sweep>>

\* The sweeper's ticker has fired; evictIdle is called with the time of now.
SweepBegins ==
    /\ sweep = Idle
    /\ now >= due
    /\ sweep' = now
    /\ due' = due + TTL
    /\ UNCHANGED <<now, entries, tokens, seen, reply>>

\* Mutated Evict: the cutoff is a TTL too early.
EvictLate ==
    /\ sweep # Idle
    /\ entries' = {ip \in entries : seen[ip] >= sweep - 2 * TTL}
    /\ sweep' = Idle
    /\ UNCHANGED <<now, tokens, seen, due, reply>>

\* evictIdle, under the mutex.
Evict ==
    /\ sweep # Idle
    /\ entries' = {ip \in entries : seen[ip] >= sweep - TTL}
    /\ sweep' = Idle
    /\ UNCHANGED <<now, tokens, seen, due, reply>>

\* The sweeper has been due for as long as the scheduler lets it.
Overdue == \/ now >= due + Slack
           \/ sweep # Idle /\ now >= (due - TTL) + Slack

\* Mutated Refill: the bucket overflows.
RefillUncapped(n) == n + Rate

\* A tick's tokens, into a bucket that holds n.
Refill(n) == IF n + Rate < Burst THEN n + Rate ELSE Burst

Tick ==
    /\ now < MaxNow
    /\ ~Overdue
    /\ now' = now + 1
    /\ tokens' = [ip \in IPs |-> IF ip \in entries THEN Refill(tokens[ip]) ELSE tokens[ip]]
    /\ reply' = [ip \in IPs |-> "none"]
    /\ UNCHANGED <<entries, seen, due, sweep>>

Next ==
    \/ \E ip \in IPs : Serve(ip) \/ TurnAway(ip)
    \/ SweepBegins
    \/ Evict
    \/ Tick

Spec == Init /\ [][Next]_vars

-----------------------------------------------------------------------------

\* Forgetting an address never shows: a request is answered as if its bucket had
\* been kept since the start, so no address gains a token by being swept or loses
\* one to a sweep that races with its request.
Buckets == INSTANCE TokenBuckets WITH
    clock  <- now,
    bucket <- [ip \in IPs |-> Found(ip)]

ImplementsBuckets == Buckets!Spec

\* ratelimit.go, ipRateLimiter: "sweeping idle entries so the map cannot grow
\* without bound": an address is remembered for at most two TTLs, and what the
\* scheduler adds, after its last request.
IdleForgotten == \A ip \in entries : now - seen[ip] <= 2 * TTL + Slack
=============================================================================
