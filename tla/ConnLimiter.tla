---------------------------- MODULE ConnLimiter ----------------------------
(***************************************************************************)
(* connLimiter (ratelimit.go): the cap on concurrent chat connections, per *)
(* address and in total.  Both methods run under one mutex, so each is one *)
(* atomic update of the two counters.                                      *)
(***************************************************************************)
EXTENDS Integers

CONSTANTS
    IPs,        \* client addresses
    MaxPerIP,   \* maxWSPerIP in the code
    MaxTotal    \* maxWSTotal in the code

ASSUME CapsAssumption == MaxPerIP \in Nat /\ MaxTotal \in Nat

VARIABLES
    perIP,      \* address -> slots held; a missing map key is 0
    total       \* slots held by everyone

limiterVars == <<perIP, total>>

LimiterTypeOK == perIP \in [IPs -> Nat] /\ total \in Int

LimiterInit == perIP = [ip \in IPs |-> 0] /\ total = 0

\* The condition under which acquire succeeds.
HasSlot(ip) == total < MaxTotal /\ perIP[ip] < MaxPerIP

\* acquire(ip) returning true.
Acquire(ip) ==
    /\ HasSlot(ip)
    /\ perIP' = [perIP EXCEPT ![ip] = @ + 1]
    /\ total' = total + 1

\* release(ip); an address that holds nothing is ignored.
Release(ip) ==
    IF perIP[ip] > 0
    THEN perIP' = [perIP EXCEPT ![ip] = @ - 1] /\ total' = total - 1
    ELSE UNCHANGED limiterVars
=============================================================================
