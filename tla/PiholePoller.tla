---------------------------- MODULE PiholePoller ----------------------------
(***************************************************************************)
(* piholeClient (pihole.go): once a minute, four requests to Pi-hole's API *)
(* under one session, kept until a minute before it lapses and renewed     *)
(* when Pi-hole answers 401.  Pi-hole has a limited number of seats for    *)
(* sessions, and a session that nobody closes keeps its seat until it      *)
(* lapses.                                                                 *)
(*                                                                         *)
(* A tick is a minute: the poller's period, and the margin by which        *)
(* ensureSID renews early.  A poll ends by its deadline, within its tick.  *)
(***************************************************************************)
EXTENDS Naturals, FiniteSets

CONSTANTS
    Ids,        \* names for sessions
    Seats,      \* how many sessions Pi-hole keeps at a time
    Validity,   \* how long a session of some use lasts, in ticks
    MaxRevoked, \* bounds the sessions Pi-hole ends early during one poll
    NoSid       \* c.sid = ""

ASSUME PiholeAssumption ==
    /\ IsFiniteSet(Ids)
    /\ NoSid \notin Ids
    /\ Seats \in Nat \ {0}
    /\ Validity \in Nat /\ Validity > 1
    /\ Cardinality(Ids) > Seats
    /\ MaxRevoked \in Nat

VARIABLES
    request,    \* the request fetch is at, or "idle"
    stage,      \* where getJSON is in it
    due,        \* the ticker has fired
    sid,        \* piholeClient.sid
    left,       \* ticks until sidExp, 0 when it has passed
    read,       \* what the poll has read of the blocking state
    snap,       \* piholeClient.snap
    life,       \* Pi-hole: the ticks a session has left there, 0 when it is none
    blocking,   \* Pi-hole: whether it blocks
    faulty,     \* Pi-hole or the way to it: calls may fail
    \* History:
    prev,       \* the session that the one in use replaced
    strays,     \* sessions that are no use: too brief to be reused, never
                \* received, or left behind by an earlier process
    answered,   \* the requests answered in this poll
    witnessed,  \* the blocking states there were during this poll
    granted,    \* sessions received in this poll, those in strays apart
    revoked     \* sessions ended early by Pi-hole in this poll, while in use

clientVars  == <<request, stage, due, sid, left, read, snap>>
serverVars  == <<life, blocking, faulty>>
historyVars == <<prev, strays, answered, witnessed, granted, revoked>>
vars == <<clientVars, serverVars, historyVars>>

Required   == {"summary", "top"}
BestEffort == {"clients", "blocking"}
Requests   == Required \cup BestEffort
Unread     == "unread"
States     == {"enabled", "disabled"}
Nothing    == [up |-> FALSE, blocking |-> Unread]

Live == {i \in Ids : life[i] > 0}

TypeOK ==
    /\ request \in Requests \cup {"idle"}
    /\ stage \in {"ensure", "get", "reauth", "again"}
    /\ due \in BOOLEAN
    /\ sid \in Ids \cup {NoSid}
    /\ left \in 0..(Validity - 1)
    /\ read \in States \cup {Unread}
    /\ snap \in [up : BOOLEAN, blocking : States \cup {Unread}]
    /\ life \in [Ids -> 0..Validity]
    /\ blocking \in States
    /\ faulty \in BOOLEAN
    /\ prev \in Ids \cup {NoSid}
    /\ strays \subseteq Ids
    /\ answered \subseteq Requests
    /\ witnessed \subseteq States
    /\ granted \in Nat
    /\ revoked \in 0..MaxRevoked

Init ==
    /\ request = "idle" /\ stage = "ensure" /\ due = TRUE
    /\ sid = NoSid /\ left = 0
    /\ read = Unread /\ snap = Nothing
    /\ life = [i \in Ids |-> 0]
    /\ blocking = "enabled"
    /\ faulty = TRUE
    /\ prev = NoSid /\ strays = {} /\ answered = {} /\ witnessed = {}
    /\ granted = 0 /\ revoked = 0

-----------------------------------------------------------------------------
(* The course of a poll. *)

\* The request that follows r in fetch.
After == [r \in Requests |->
            CASE r = "summary" -> "top"
              [] r = "top"     -> "clients"
              [] r = "clients" -> "blocking"
              [] OTHER         -> "idle"]

\* refresh starts fetch.
Poll ==
    /\ request = "idle" /\ due
    /\ request' = "summary" /\ stage' = "ensure" /\ due' = FALSE
    /\ read' = Unread
    /\ witnessed' = {blocking}
    /\ UNCHANGED <<sid, left, snap, serverVars, prev, strays, answered, granted, revoked>>

\* Mutated Proceed: the blocking state of the last poll outlives a failure.
ProceedKeepsOld(seen) ==
    /\ request' = After[request] /\ stage' = "ensure"
    /\ read' = seen
    /\ snap' = IF request # "blocking" THEN snap
               ELSE [up |-> TRUE, blocking |-> IF seen = Unread THEN snap.blocking ELSE seen]

\* fetch goes on to the next request; after the last one refresh publishes.
Proceed(seen) ==
    /\ request' = After[request] /\ stage' = "ensure"
    /\ read' = seen
    /\ snap' = IF request = "blocking" THEN [up |-> TRUE, blocking |-> seen] ELSE snap

\* getJSON returns an error: the poll fails with a required request, and ignores
\* the others.
Fail ==
    IF request \in Required
    THEN /\ request' = "idle" /\ stage' = "ensure"
         /\ snap' = Nothing
         /\ UNCHANGED read
    ELSE Proceed(read)

\* getJSON returns an answer.
Answer ==
    /\ Proceed(IF request = "blocking" THEN blocking ELSE read)
    /\ answered' = answered \cup {request}

-----------------------------------------------------------------------------
(* ensureSID *)

\* Mutated Reusable: every request takes a session of its own.
ReusableNever == sid = NoSid /\ left > 0

\* The cached session is taken without asking.
Reusable == sid # NoSid /\ left > 0

\* A session is needed, for the first time or by force.
Authenticating ==
    /\ request # "idle"
    /\ \/ stage = "ensure" /\ ~Reusable
       \/ stage = "reauth"

\* Which name a new session gets makes no difference.
AnyFree == CHOOSE i \in Ids : i \notin Live \cup {sid}

\* Pi-hole seats a new session for v ticks.
Seated(i, v) ==
    /\ Cardinality(Live) < Seats
    /\ i \notin Live \cup {sid}
    /\ i = AnyFree
    /\ life' = [life EXCEPT ![i] = v]
    /\ UNCHANGED <<blocking, faulty>>

\* Mutated Kept: the margin is forgotten.
KeptWithoutMargin(i, v) == sid' = i /\ left' = v

\* Mutated Kept: the session id is not taken down.
KeptNowhere(i, v) == UNCHANGED <<sid, left>>

\* The session's expiry is put a tick before it lapses, so one that lasts a tick
\* has expired when it is granted.
Kept(i, v) == sid' = i /\ left' = v - 1

\* The session's answer arrives.
Granted(i, v) ==
    /\ Authenticating
    /\ Seated(i, v)
    /\ Kept(i, v)
    /\ stage' = IF stage = "ensure" THEN "get" ELSE "again"
    /\ prev' = IF sid \in Live \ strays THEN sid ELSE prev
    /\ IF v = 1
       THEN strays' = strays \cup {i} /\ UNCHANGED granted
       ELSE strays' = strays \ {i} /\ granted' = granted + 1
    /\ UNCHANGED <<request, due, read, snap, answered, witnessed, revoked>>

\* The session is seated, and the answer lost: nobody knows of it.
GrantLost(i, v) ==
    /\ faulty
    /\ Authenticating
    /\ Seated(i, v)
    /\ strays' = strays \cup {i}
    /\ Fail
    /\ UNCHANGED <<due, sid, left, prev, answered, witnessed, granted, revoked>>

\* No seat, or no answer.  The old session id stays.
Refused ==
    /\ Authenticating
    /\ faulty \/ Cardinality(Live) >= Seats
    /\ Fail
    /\ UNCHANGED <<due, sid, left, serverVars, prev, strays, answered, witnessed, granted, revoked>>

-----------------------------------------------------------------------------
(* doGet, within getJSON *)

Getting ==
    /\ request # "idle"
    /\ \/ stage = "ensure" /\ Reusable
       \/ stage \in {"get", "again"}

\* Pi-hole may count the validity of a session from its last use.
Served ==
    /\ Getting
    /\ sid \in Live
    /\ Answer
    /\ life' \in {life, [life EXCEPT ![sid] = IF sid \in strays THEN @ ELSE Validity]}
    /\ UNCHANGED <<due, sid, left, blocking, faulty, prev, strays, witnessed, granted, revoked>>

\* 401: a new session is forced, once per request.
Unauthorized ==
    /\ Getting
    /\ sid \notin Live
    /\ IF stage = "again"
       THEN Fail
       ELSE stage' = "reauth" /\ UNCHANGED <<request, read, snap>>
    /\ UNCHANGED <<due, sid, left, serverVars, prev, strays, answered, witnessed, granted, revoked>>

\* An error, a time-out, another status, or a body that does not parse.
Unanswered ==
    /\ faulty
    /\ Getting
    /\ Fail
    /\ UNCHANGED <<due, sid, left, serverVars, prev, strays, answered, witnessed, granted, revoked>>

-----------------------------------------------------------------------------
(* The environment. *)

\* A minute passes.
Tick ==
    /\ request = "idle" /\ ~due
    /\ due' = TRUE
    /\ left' = IF left > 0 THEN left - 1 ELSE 0
    /\ life' = [i \in Ids |-> IF life[i] > 0 THEN life[i] - 1 ELSE 0]
    /\ strays' = {i \in strays : life[i] > 1}
    /\ prev' = IF prev = NoSid \/ life[prev] <= 1 THEN NoSid ELSE prev
    /\ answered' = {} /\ witnessed' = {} /\ granted' = 0 /\ revoked' = 0
    /\ read' = Unread
    /\ UNCHANGED <<request, stage, sid, snap, blocking, faulty>>

\* Pi-hole ends a session before its time: it restarts, or is told to.
Revoke(i) ==
    /\ faulty
    /\ i \in Live
    /\ revoked < MaxRevoked
    /\ life' = [life EXCEPT ![i] = 0]
    /\ strays' = strays \ {i}
    /\ prev' = IF i = prev THEN NoSid ELSE prev
    /\ revoked' = IF i = sid THEN revoked + 1 ELSE revoked
    /\ UNCHANGED <<clientVars, blocking, faulty, answered, witnessed, granted>>

\* Somebody turns the blocking on or off.
Toggle ==
    /\ \E b \in States \ {blocking} :
         /\ blocking' = b
         /\ witnessed' = IF request = "idle" THEN witnessed ELSE witnessed \cup {b}
    /\ UNCHANGED <<clientVars, life, faulty, prev, strays, answered, granted, revoked>>

\* The faults end.
Repair ==
    /\ faulty
    /\ faulty' = FALSE
    /\ UNCHANGED <<clientVars, life, blocking, historyVars>>

\* The server's process is replaced: nothing closes the session it held.
Restart ==
    /\ faulty
    /\ request' = "idle" /\ stage' = "ensure" /\ due' = TRUE
    /\ sid' = NoSid /\ left' = 0
    /\ read' = Unread /\ snap' = Nothing
    /\ prev' = NoSid /\ strays' = Live
    /\ answered' = {} /\ witnessed' = {} /\ granted' = 0 /\ revoked' = 0
    /\ UNCHANGED serverVars

-----------------------------------------------------------------------------

\* How long a session may last.
Lasting == {1, Validity}

Next ==
    \/ Poll
    \/ \E i \in Ids, v \in Lasting : Granted(i, v)
    \/ \E i \in Ids, v \in Lasting : GrantLost(i, v)
    \/ Refused
    \/ Served
    \/ Unauthorized
    \/ Unanswered
    \/ Tick
    \/ \E i \in Ids : Revoke(i)
    \/ Toggle
    \/ Repair
    \/ Restart

Spec == Init /\ [][Next]_vars

\* The ticker fires, and every call returns by the poll's deadline.
Fairness ==
    /\ WF_vars(Tick)
    /\ WF_vars(Poll)
    /\ WF_vars(\E i \in Ids, v \in Lasting : Granted(i, v))
    /\ WF_vars(Refused)
    /\ WF_vars(Served)
    /\ WF_vars(Unauthorized)
    /\ WF_vars(Unanswered)

FairSpec == Spec /\ Fairness

-----------------------------------------------------------------------------

\* pihole.go: "so it does not exhaust Pi-hole's limited API sessions".  Of the
\* seats taken at any moment the poller accounts for two, the session in use and
\* the one it replaced: whatever fails, is revoked or expires, it leaves nothing
\* else behind but sessions that were of no use to it.
SeatsBounded == Cardinality(Live \ strays) <= 2

\* pihole.go: "re-authenticating only when needed".  A poll takes one session of
\* any length at most, and one more for each that Pi-hole ended under it.
SessionReused == granted <= 1 + revoked

\* What refresh publishes is about now: Pi-hole is up only if both required
\* requests of this poll were answered, and the blocking state is one that it was
\* in during this poll, or none.
SnapshotHonest ==
    [][request # "idle" /\ request' = "idle" /\ snap'.up =>
         /\ Required \subseteq answered
         /\ snap'.blocking \in witnessed \cup {Unread}]_vars

\* Once the faults are over Pi-hole is up, for good: neither a session that is
\* gone, nor seats taken by strays, keep the poller out for ever.
Recovers == <>[](~faulty) => <>[](snap.up)
=============================================================================
