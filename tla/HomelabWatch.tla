---------------------------- MODULE HomelabWatch ----------------------------
(***************************************************************************)
(* The homelab as the server sees it: boxes and the edge proxy push their  *)
(* reports (host.go, edge.go), Pi-hole and the site's certificate are      *)
(* probed (pihole.go, cert.go), the dashboard rolls all of it up into one  *)
(* status (internal_page.go), and the alerter announces that status.       *)
(*                                                                         *)
(* Of a report only its worst finding matters here.  Time is counted in    *)
(* minutes; refreshing a probe or posting an alert takes less than one.    *)
(* Everything lives in memory, so a restart forgets it.                    *)
(***************************************************************************)
EXTENDS Alerter

CONSTANTS
    Pushers,    \* the boxes and the edge proxy
    Probes,     \* Pi-hole and the certificate
    Limit,      \* hostStaleAfter, edgeStaleAfter; a probe's refresh period
    Blind,      \* what a probe that cannot be read counts as
    BestEffort, \* Pi-hole: whether it is blocking may go unread
    AlertEvery  \* alertInterval

Sources == Pushers \cup Probes

ASSUME WatchAssumption ==
    /\ Pushers \cap Probes = {}
    /\ Limit \in [Sources -> Nat \ {0}]
    /\ Blind \in [Probes -> {"warn", "bad"}]
    /\ BestEffort \subseteq Probes
    /\ AlertEvery \in Nat \ {0}

VARIABLES
    truth,      \* the worst finding there is at each source
    report,     \* the one the server last heard of
    waited,     \* minutes since the alerter's last observation
    heard,      \* minutes since the source was last heard, up to Oldest
    \* History:
    sinceOk     \* minutes since all was well at the source, up to Overdue

watchVars == <<truth, report, waited, heard, sinceOk>>
vars == <<watchVars, alertVars>>

Down == "down"

\* Bounds of the counters of minutes: no comparison looks beyond them.
Oldest(s) == Limit[s] + AlertEvery + 1
Overdue(s) == Limit[s] + 1

TypeOK ==
    /\ AlertTypeOK
    /\ truth \in [Sources -> Statuses \cup {Down}]
    /\ report \in [Sources -> Statuses \cup {Down, None}]
    /\ \A p \in Pushers : truth[p] # Down /\ report[p] # Down
    /\ waited \in 0..AlertEvery
    /\ heard \in [Sources -> Nat] /\ \A s \in Sources : heard[s] <= Oldest(s)
    /\ sinceOk \in [Sources -> Nat] /\ \A s \in Sources : sinceOk[s] <= Overdue(s)

\* What a new process has heard: a probe is down until its first refresh, which
\* is due at once.
NothingHeard == [s \in Sources |-> IF s \in Pushers THEN None ELSE Down]

Init ==
    /\ truth = [s \in Sources |-> "ok"]
    /\ report = NothingHeard
    /\ waited = 0
    /\ heard = [s \in Sources |-> IF s \in Pushers THEN Oldest(s) ELSE Limit[s]]
    /\ sinceOk = [s \in Sources |-> 0]
    /\ AlertInit

-----------------------------------------------------------------------------
(* The sources. *)

\* Things get better or worse.
Change(s) ==
    /\ \E t \in Statuses \cup (IF s \in Probes THEN {Down} ELSE {}) :
         /\ truth' = [truth EXCEPT ![s] = t]
         /\ sinceOk' = IF t = "ok" THEN [sinceOk EXCEPT ![s] = 0] ELSE sinceOk
    /\ UNCHANGED <<report, waited, heard, alertVars>>

\* A pusher reports, late or not at all as it pleases: POST /internal/host and
\* /internal/edge replace what was there.
Push(p) ==
    /\ report' = [report EXCEPT ![p] = truth[p]]
    /\ heard' = [heard EXCEPT ![p] = 0]
    /\ UNCHANGED <<truth, waited, sinceOk, alertVars>>

\* Mutated Readings: a failed poll keeps the snapshot it had.
ReadingsKeepOld(q) == {IF truth[q] = Down THEN report[q] ELSE truth[q]}

\* What a poll can make of a probe: fetch drops the error of the request that
\* would tell whether Pi-hole is blocking, and goes on without the answer.
Readings(q) ==
    {truth[q]} \cup {r \in {"ok"} : q \in BestEffort /\ truth[q] = "bad"}

\* A probe is polled when its ticker fires; Down when it cannot be read.
Refresh(q) ==
    /\ heard[q] = Limit[q]
    /\ \E r \in Readings(q) : report' = [report EXCEPT ![q] = r]
    /\ heard' = [heard EXCEPT ![q] = 0]
    /\ UNCHANGED <<truth, waited, sinceOk, alertVars>>

-----------------------------------------------------------------------------
(* The roll-up: the notes of the panels, of Pi-hole and of the certificate.  *)
(* A pusher that never reported does not appear in it.                       *)

Stale(p) == report[p] # None /\ heard[p] > Limit[p]

\* A probe that cannot be read is a warning, or worse.
Unread(q, severity) == report[q] = Down /\ Blind[q] = severity

\* Mutated Warns: a stale report counts for what it says.
WarnsIfSaid(s) == report[s] = "warn" \/ (s \in Probes /\ Unread(s, "warn"))

Warns(s) ==
    \/ report[s] = "warn"
    \/ s \in Probes /\ Unread(s, "warn")
    \/ s \in Pushers /\ Stale(s)

Fails(s) == report[s] = "bad" \/ (s \in Probes /\ Unread(s, "bad"))

Status ==
    IF \E s \in Sources : Fails(s) THEN "bad"
    ELSE IF \E s \in Sources : Warns(s) THEN "warn"
    ELSE "ok"

-----------------------------------------------------------------------------

\* The alerter's ticker has fired: one observation of the roll-up.
Alert(arrives) ==
    /\ waited = AlertEvery
    /\ waited' = 0
    /\ Observe(Status, arrives)
    /\ UNCHANGED <<truth, report, heard, sinceOk>>

\* A minute passes, once everything due in the last one is done.
Tick ==
    /\ waited < AlertEvery
    /\ \A q \in Probes : heard[q] < Limit[q]
    /\ waited' = waited + 1
    /\ heard' = [s \in Sources |-> UpTo(Oldest(s), heard[s])]
    /\ sinceOk' = [s \in Sources |->
                     IF truth[s] = "ok" THEN 0 ELSE UpTo(Overdue(s), sinceOk[s])]
    /\ UNCHANGED <<truth, report, alertVars>>

\* A new process: empty stores, fresh probes, a fresh alerter.
Restart ==
    /\ report' = NothingHeard
    /\ heard' = [s \in Sources |-> IF s \in Pushers THEN heard[s] ELSE Limit[s]]
    /\ waited' = 0
    /\ AlertFresh
    /\ UNCHANGED <<truth, sinceOk>>

Next ==
    \/ \E s \in Sources : Change(s)
    \/ \E p \in Pushers : Push(p)
    \/ \E q \in Probes : Refresh(q)
    \/ \E arrives \in BOOLEAN : Alert(arrives)
    \/ Tick
    \/ Restart

Spec == Init /\ [][Next]_vars

\* A post to Discord is attempted, and arrives or not.
Posts(arrives) == Alert(arrives) /\ quiet' = 0

\* The tickers fire, and of endlessly many posts Discord does not refuse all.
\* Nothing is promised of the pushers.
Fairness ==
    /\ WF_vars(Tick)
    /\ \A q \in Probes : WF_vars(Refresh(q))
    /\ WF_vars(\E arrives \in BOOLEAN : Alert(arrives))
    /\ []<><<Posts(FALSE)>>_vars => []<><<Posts(TRUE)>>_vars

FairSpec == Spec /\ Fairness

-----------------------------------------------------------------------------

\* Every ok the alerter observes rests on recent news: each source that is in
\* the roll-up and read in full was well within its staleness limit, or refresh
\* period, of that moment, whatever is silent, stale or unreadable.
OkIsRecent ==
    [][waited = AlertEvery /\ waited' = 0 /\ last' = "ok" =>
         \A s \in Sources \ BestEffort :
             report[s] # None => sinceOk[s] <= Limit[s]]_vars

\* A pusher that stops reporting shows, one observation after its limit: the
\* alerter no longer takes the homelab for healthy.
SilenceShows ==
    \A p \in Pushers :
        report[p] # None /\ heard[p] > Limit[p] + AlertEvery => last # "ok"

\* Once the roll-up stays ok, so does the last word on the channel, whatever
\* posts were lost: the heartbeat repairs a recovery that never arrived.
LastWordIsRecovery == <>[](last = "ok") => <>[](told = "ok")
=============================================================================
