----------------------------- MODULE Telemetry -----------------------------
(***************************************************************************)
(* A box, or the edge proxy, pushes its report; the dashboard shows it with *)
(* its grade and its freshness (host.go, edge.go, internal_page.go); and a *)
(* sampler writes a series of it into a database that survives the process *)
(* (metrics.go), for the sparklines.  The report is one reading; its series *)
(* is the load, the temperature or the fullest disk.                       *)
(*                                                                         *)
(* Time passes in ticks.  Of a row of the database only its age is kept,   *)
(* and whether it is flat: the report was that of an earlier row, too.     *)
(***************************************************************************)
EXTENDS Severity

CONSTANTS
    Readings,       \* the readings that may be pushed
    HostStaleAfter, EdgeStaleAfter, SampleEvery, PruneEvery, Retention, Window,
    None            \* no report

ASSUME TelemetryAssumption ==
    /\ Readings \subseteq Reading
    /\ {HostStaleAfter, EdgeStaleAfter, SampleEvery, PruneEvery, Retention, Window} \subseteq Nat \ {0}
    /\ Window <= Retention
    /\ HostStaleAfter <= SampleEvery
    /\ None \notin Reading

VARIABLES
    kind,       \* what the report is about, for good
    proc,       \* the server: "down", "up", or "blind" when it has no database
    report,     \* the report it holds
    heard,      \* ticks since it came, up to Silent
    sampled,    \* ticks since the last sample
    pruned,     \* ticks since the last pruning
    rows,       \* the rows of the box's series
    \* History:
    taken,      \* the rows that were ever recorded, the last Window of them
    kept        \* the last pruning failed

vars == <<kind, proc, report, heard, sampled, pruned, rows, taken, kept>>

\* Bounds of the counters: no comparison looks beyond them.
Oldest == Retention + PruneEvery + 1
Silent == HostStaleAfter + EdgeStaleAfter + SampleEvery + 1

Row == [age : 0..Oldest, flat : BOOLEAN]

TypeOK ==
    /\ kind \in {r.kind : r \in Readings}
    /\ proc \in {"down", "up", "blind"}
    /\ report \in Reading \cup {None}
    /\ report # None => proc # "down" /\ report.kind = kind
    /\ heard \in 0..Silent
    /\ sampled \in 0..SampleEvery
    /\ pruned \in 0..PruneEvery
    /\ rows \subseteq Row
    /\ taken \subseteq Row
    /\ kept \in BOOLEAN

Init ==
    /\ kind \in {r.kind : r \in Readings}
    /\ proc = "down" /\ report = None
    /\ heard = Silent /\ sampled = 0 /\ pruned = 0
    /\ rows = {} /\ taken = {} /\ kept = FALSE

-----------------------------------------------------------------------------
(* The reports. *)

\* valid: backups with negative values are refused.
Valid(r) == r.kind = "backup" => r.age >= 0 /\ r.count >= 0 /\ r.max >= 0

\* POST /internal/host, POST /internal/edge; a report that is refused changes nothing.
Push(r) ==
    /\ proc # "down"
    /\ r.kind = kind /\ Valid(r)
    /\ report' = r /\ heard' = 0
    /\ UNCHANGED <<kind, proc, sampled, pruned, rows, taken, kept>>

StaleAfter(r) == IF r \in EdgeReading THEN EdgeStaleAfter ELSE HostStaleAfter

\* Mutated Stale: one sample of grace.
StaleLate == report # None /\ heard > StaleAfter(report) + SampleEvery

\* The panel says so, and the roll-up warns of it.
Stale == report # None /\ heard > StaleAfter(report)

-----------------------------------------------------------------------------
(* The history. *)

\* A series is recorded of a load, of a disk, and of a temperature that is known.
Recorded ==
    /\ report # None
    /\ \/ report.kind \in {"load", "disk"}
       \/ report.kind = "temp" /\ report.temp > 0

\* The sampler's ticker: it asks not how old the report is, and drops the error
\* of an insertion.
Sample ==
    /\ proc = "up" /\ sampled = SampleEvery
    /\ sampled' = 0
    /\ \/ /\ Recorded
          /\ LET row == [age |-> 0, flat |-> heard > SampleEvery]
             IN  rows' = rows \cup {row} /\ taken' = taken \cup {row}
       \/ UNCHANGED <<rows, taken>>
    /\ UNCHANGED <<kind, proc, report, heard, pruned, kept>>

\* Mutated Expired: the week of the retention is the day of the window.
ExpiredEarly(row) == row.age > Window \div 2

\* purgeOlderThan's condition.
Expired(row) == row.age > Retention

\* Its error is dropped, too.
Purge ==
    \/ rows' = {row \in rows : ~Expired(row)} /\ kept' = FALSE
    \/ rows' = rows /\ kept' = TRUE

Prune ==
    /\ proc = "up" /\ pruned = PruneEvery
    /\ pruned' = 0
    /\ Purge
    /\ UNCHANGED <<kind, proc, report, heard, sampled, taken>>

\* recent, for the last Window: what the sparkline draws.
Spark == {row \in rows : row.age <= Window}

-----------------------------------------------------------------------------

Older(set) == {[row EXCEPT !.age = IF @ = Oldest THEN @ ELSE @ + 1] : row \in set}

\* A tick passes, once what was due in the last one is done.
Tick ==
    /\ proc = "up" => sampled < SampleEvery /\ pruned < PruneEvery
    /\ heard' = IF heard = Silent THEN Silent ELSE heard + 1
    /\ IF proc = "up" THEN sampled' = sampled + 1 /\ pruned' = pruned + 1
       ELSE UNCHANGED <<sampled, pruned>>
    /\ rows' = Older(rows)
    /\ taken' = {row \in Older(taken) : row.age <= Window}
    /\ UNCHANGED <<kind, proc, report, kept>>

\* The process ends, and what it holds is lost.
Stop ==
    /\ proc # "down"
    /\ proc' = "down" /\ report' = None
    /\ UNCHANGED <<kind, heard, sampled, pruned, rows, taken, kept>>

\* A new one: the first sample finds no box, then the database is pruned; or the
\* database cannot be opened, and there is no history.
Start ==
    /\ proc = "down"
    /\ \/ proc' = "up" /\ Purge
       \/ proc' = "blind" /\ UNCHANGED <<rows, kept>>
    /\ sampled' = 0 /\ pruned' = 0
    /\ UNCHANGED <<kind, report, heard, taken>>

Next ==
    \/ \E r \in Readings : Push(r)
    \/ Sample
    \/ Prune
    \/ Tick
    \/ Stop
    \/ Start

Spec == Init /\ [][Next]_vars

-----------------------------------------------------------------------------

\* host.go: a push that inverts a comparison must not "render a stale tier as
\* healthy".  A report that is worse than the one before is never graded better,
\* whichever of its fields are worse, and however much of it is gone, but for what
\* the code does not judge.
WorseIsNotBetter ==
    [][report # None /\ report' # None =>
         (Worse(report, report') /\ ~Unjudged(report') => Grade(report) <= Grade(report'))]_vars

\* The sparkline has every row that was recorded in its window, whatever was
\* pruned and restarted since; and a running sampler keeps no row for longer
\* than the retention and one period, but for failures.
RowsKept ==
    /\ taken \subseteq Spark
    /\ proc = "up" /\ ~kept => \A row \in rows : row.age <= Retention + pruned

\* A silent box draws a flat line.  Wherever the sparkline has such a row, the
\* panel beside it says that the report is stale, or there is a newer report.
FlatShows ==
    \A row \in Spark : row.flat /\ report # None => Stale \/ heard <= row.age
=============================================================================
