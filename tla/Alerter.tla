------------------------------ MODULE Alerter ------------------------------
(***************************************************************************)
(* alertState and runAlerter (alert.go): what the roll-up's status is      *)
(* turned into on the Discord channel.  One observation is made per tick   *)
(* of alertInterval, so lastPost is kept as the observations since.        *)
(***************************************************************************)
EXTENDS Naturals

CONSTANTS
    Confirm,    \* alertConfirm: observations before a status is announced
    Heartbeat   \* alertHeartbeat, in ticks of alertInterval

ASSUME AlertAssumption == Confirm \in Nat \ {0} /\ Heartbeat \in Nat \ {0}

VARIABLES
    started,    \* alertState.started
    posted,     \* the status last announced
    candidate,  \* a status seen since, not yet confirmed
    candidateN, \* how often in a row
    quiet,      \* observations since lastPost, counted up to Heartbeat
    told,       \* what the last message that reached the channel said
    \* History of the observations since the process started:
    last,       \* the latest
    held        \* how long it has been the same, counted up to Confirm

alertVars == <<started, posted, candidate, candidateN, quiet, told, last, held>>

Statuses == {"ok", "warn", "bad"}
None     == "none"

AlertTypeOK ==
    /\ started \in BOOLEAN
    /\ posted \in Statuses \cup {None}
    /\ candidate \in Statuses \cup {None}
    /\ candidateN \in 0..(Confirm - 1)
    /\ quiet \in 0..Heartbeat
    /\ told \in Statuses \cup {None}
    /\ last \in Statuses \cup {None}
    /\ held \in 0..Confirm

\* A new process knows nothing of what was announced before it.
AlertFresh ==
    /\ started' = FALSE
    /\ posted' = None /\ candidate' = None /\ candidateN' = 0 /\ quiet' = 0
    /\ last' = None /\ held' = 0
    /\ UNCHANGED told

AlertInit ==
    /\ started = FALSE
    /\ posted = None /\ candidate = None /\ candidateN = 0 /\ quiet = 0
    /\ told = None
    /\ last = None /\ held = 0

-----------------------------------------------------------------------------

UpTo(max, n) == IF n < max THEN n + 1 ELSE max

\* postDiscord: a post that fails is logged and dropped.
Post(s, arrives) == told' = IF arrives THEN s ELSE told

\* Mutated Seen: a new candidate is not counted yet.
SeenFromZero(s) == IF s = candidate THEN candidateN + 1 ELSE 0

\* The observations in a row of s, were it seen once more.
Seen(s) == IF s = candidate THEN candidateN + 1 ELSE 1

\* The first observation: silent when healthy, announced when not.
Adopt(s, arrives) ==
    /\ ~started
    /\ started' = TRUE
    /\ posted' = s
    /\ quiet' = 0
    /\ IF s = "ok" THEN UNCHANGED told ELSE Post(s, arrives)
    /\ UNCHANGED <<candidate, candidateN>>

\* Mutated Stay: there is no heartbeat.
StayMute(s, arrives) ==
    /\ started
    /\ s = posted
    /\ candidate' = None /\ candidateN' = 0
    /\ quiet' = UpTo(Heartbeat, quiet)
    /\ UNCHANGED <<told, started, posted>>

\* Mutated Stay: the candidate survives the return to the announced status.
StayKeepsCandidate(s, arrives) ==
    /\ started
    /\ s = posted
    /\ IF s = "ok" /\ UpTo(Heartbeat, quiet) = Heartbeat
       THEN quiet' = 0 /\ Post(s, arrives)
       ELSE quiet' = UpTo(Heartbeat, quiet) /\ UNCHANGED told
    /\ UNCHANGED <<started, posted, candidate, candidateN>>

\* The announced status again: a heartbeat when all is well and it is due.
Stay(s, arrives) ==
    /\ started
    /\ s = posted
    /\ candidate' = None /\ candidateN' = 0
    /\ IF s = "ok" /\ UpTo(Heartbeat, quiet) = Heartbeat
       THEN quiet' = 0 /\ Post(s, arrives)
       ELSE quiet' = UpTo(Heartbeat, quiet) /\ UNCHANGED told
    /\ UNCHANGED <<started, posted>>

\* Another status, not yet confirmed.
Waver(s) ==
    /\ started
    /\ s # posted
    /\ Seen(s) < Confirm
    /\ candidate' = s /\ candidateN' = Seen(s)
    /\ quiet' = UpTo(Heartbeat, quiet)
    /\ UNCHANGED <<started, posted, told>>

\* Another status, confirmed.
Announce(s, arrives) ==
    /\ started
    /\ s # posted
    /\ Seen(s) >= Confirm
    /\ posted' = s
    /\ candidate' = None /\ candidateN' = 0 /\ quiet' = 0
    /\ Post(s, arrives)
    /\ UNCHANGED started

\* One turn of runAlerter: the roll-up is s, and a post arrives or is lost.
Observe(s, arrives) ==
    /\ Adopt(s, arrives) \/ Stay(s, arrives) \/ Waver(s) \/ Announce(s, arrives)
    /\ last' = s
    /\ held' = IF s = last THEN UpTo(Confirm, held) ELSE 1

AlertNext == AlertFresh \/ \E s \in Statuses, arrives \in BOOLEAN : Observe(s, arrives)

AlertSpec == AlertInit /\ [][AlertNext]_alertVars

-----------------------------------------------------------------------------

\* A status that holds for alertConfirm observations is the one announced:
\* nothing that lasts is swallowed, in either direction.
SettledIsPosted == held = Confirm => posted = last

\* What is announced changes only to a status that held for alertConfirm
\* observations, or is the first that a new process sees.
NothingHasty ==
    [][posted' # posted /\ posted' # None => (held' = Confirm /\ last' = posted') \/ ~started]_alertVars

\* alert.go: "[still nominal], so silence stays meaningful": while all is well
\* and has been announced, the time since the last post stays below a heartbeat.
SilenceMeansTrouble ==
    started /\ last = "ok" /\ posted = "ok" => quiet < Heartbeat
=============================================================================
