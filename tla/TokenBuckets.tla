---------------------------- MODULE TokenBuckets ----------------------------
(***************************************************************************)
(* What the HTTP rate limit promises: every address has a bucket of its    *)
(* own, kept for ever, full at first, refilled at a constant rate; a       *)
(* request passes when, and only when, it takes a token.                   *)
(***************************************************************************)
EXTENDS Integers

CONSTANTS IPs, Rate, Burst

VARIABLES
    clock,      \* ticks since the start
    bucket,     \* address -> tokens
    reply       \* address -> the answer to its last request of this tick

bucketVars == <<clock, bucket, reply>>

Refilled(tokens) == IF tokens + Rate < Burst THEN tokens + Rate ELSE Burst

Init ==
    /\ clock = 0
    /\ bucket = [ip \in IPs |-> Burst]
    /\ reply = [ip \in IPs |-> "none"]

Pass(ip) ==
    /\ bucket[ip] >= 1
    /\ bucket' = [bucket EXCEPT ![ip] = @ - 1]
    /\ reply' = [reply EXCEPT ![ip] = "served"]
    /\ UNCHANGED clock

Reject(ip) ==
    /\ bucket[ip] = 0
    /\ reply' = [reply EXCEPT ![ip] = "429"]
    /\ UNCHANGED <<clock, bucket>>

Tick ==
    /\ clock' = clock + 1
    /\ bucket' = [ip \in IPs |-> Refilled(bucket[ip])]
    /\ reply' = [ip \in IPs |-> "none"]

Next == Tick \/ \E ip \in IPs : Pass(ip) \/ Reject(ip)

Spec == Init /\ [][Next]_bucketVars
=============================================================================
