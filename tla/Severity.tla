------------------------------ MODULE Severity ------------------------------
(***************************************************************************)
(* How the dashboard grades a reading (internal_page.go): the thresholds,  *)
(* what is checked before what, and what is not judged at all.  Of a       *)
(* report, a reading is one entry: a load, a disk, a drive, a route...     *)
(* Loads are in hundredths, ages of backups in hours.                      *)
(***************************************************************************)
EXTENDS Integers

OK == 0
Warn == 1
Bad == 2

Graded(x, warn, bad) == IF x >= bad THEN Bad ELSE IF x >= warn THEN Warn ELSE OK

\* An empty health is unknown.
Healths == {"PASSED", "FAILED", "unknown"}
States == {"up", "idle", "active", "running", "exited"}

\* The readings, and what the fields of each may hold.
Load == [kind : {"load"}, load : Int, cores : Int]
Share == [kind : {"memory", "swap"}, used : Int, total : Int]
Temp == [kind : {"temp"}, temp : Int]
Disk == [kind : {"disk"}, pct : Int]
Units == [kind : {"units"}, failed : Int, reboot : BOOLEAN]
Service == [kind : {"service"}, state : States]
Backup == [kind : {"backup"}, age : Int, count : Int, max : Int]
Net == [kind : {"net"}, carrier : BOOLEAN, errs : Int, flaps : Int, speed : Int]
Drive == [kind : {"drive"}, present : BOOLEAN, health : Healths, realloc : Int,
          pending : Int, uncorr : Int, temp : Int]
Port == [kind : {"port"}, tx : Int, rx : Int]
DNS == [kind : {"dns"}, ok : BOOLEAN]
Route == [kind : {"route"}, ok : Int, err : Int]
Errors == [kind : {"errors"}, fives : Int, reqs : Int]
Cert == [kind : {"cert"}, days : Int]

BoxReading == Load \cup Share \cup Temp \cup Disk \cup Units \cup Service \cup Backup
              \cup Net \cup Drive \cup Port \cup DNS
EdgeReading == Route \cup Errors \cup Cert
Reading == BoxReading \cup EdgeReading

-----------------------------------------------------------------------------
(* The grades. *)

LoadSev(r) == IF r.cores <= 0 THEN OK ELSE Graded(r.load, 150 * r.cores, 300 * r.cores)

PctSev(r, warn, bad) == IF r.total <= 0 THEN OK ELSE Graded((r.used * 100) \div r.total, warn, bad)

TempSev(r) == Graded(r.temp, 68, 80)

DiskSev(r) == Graded(r.pct, 80, 90)

\* The failed units and the pending reboot, which only warn.
UnitsSev(r) == IF r.failed > 0 \/ r.reboot THEN Warn ELSE OK

ServiceUp(r) == r.state \in {"up", "idle", "active", "running"}

BackupTierSev(r) ==
    IF r.count = 0 THEN Bad
    ELSE IF r.max <= 0 THEN OK
    ELSE Graded(r.age, r.max, 2 * r.max)

NetSev(r) ==
    IF ~r.carrier THEN Bad
    ELSE IF r.errs > 0 \/ r.flaps > 0 \/ r.speed \in 1..999 THEN Warn
    ELSE OK

\* Mutated DriveSev: the attributes are looked at before the presence.
DriveSevFieldsFirst(r) ==
    IF r.health # "unknown" /\ r.health # "PASSED" THEN Bad
    ELSE IF r.realloc > 0 \/ r.pending > 0 \/ r.uncorr > 0 THEN Bad
    ELSE IF r.health = "unknown" THEN Warn
    ELSE IF ~r.present THEN Bad
    ELSE Graded(r.temp, 55, 60)

DriveSev(r) ==
    IF ~r.present THEN Bad
    ELSE IF r.health # "unknown" /\ r.health # "PASSED" THEN Bad
    ELSE IF r.realloc > 0 \/ r.pending > 0 \/ r.uncorr > 0 THEN Bad
    ELSE IF r.health = "unknown" THEN Warn
    ELSE Graded(r.temp, 55, 60)

PortSev(r) == IF r.tx > 0 \/ r.rx > 0 THEN Warn ELSE OK

\* Seconds since the last success and the last failure; negative if there was none.
BackendUp(r) == r.err < 0 \/ (r.ok >= 0 /\ r.ok < r.err)

ErrorSev(r) == IF r.reqs <= 0 THEN OK ELSE Graded(r.fives * 100, r.reqs, 5 * r.reqs)

CertSev(r) == IF r.days <= 5 THEN Bad ELSE IF r.days <= 14 THEN Warn ELSE OK

BadUnless(good) == IF good THEN OK ELSE Bad

Grade(r) ==
    CASE r.kind = "load" -> LoadSev(r)
      [] r.kind = "memory" -> PctSev(r, 82, 92)
      [] r.kind = "swap" -> PctSev(r, 50, 80)
      [] r.kind = "temp" -> TempSev(r)
      [] r.kind = "disk" -> DiskSev(r)
      [] r.kind = "units" -> UnitsSev(r)
      [] r.kind = "service" -> BadUnless(ServiceUp(r))
      [] r.kind = "backup" -> BackupTierSev(r)
      [] r.kind = "net" -> NetSev(r)
      [] r.kind = "drive" -> DriveSev(r)
      [] r.kind = "port" -> PortSev(r)
      [] r.kind = "dns" -> BadUnless(r.ok)
      [] r.kind = "route" -> BadUnless(BackendUp(r))
      [] r.kind = "errors" -> ErrorSev(r)
      [] r.kind = "cert" -> CertSev(r)

-----------------------------------------------------------------------------
(* What worse means, whatever the code makes of it. *)

HealthRank(h) == IF h = "PASSED" THEN 0 ELSE IF h = "unknown" THEN 1 ELSE 2

\* Neither moment of the past is later than the other one: x seconds ago, and y
\* seconds ago; a negative number is never.
NoLater(y, x) == y < 0 \/ (x >= 0 /\ x <= y)

\* b is at least as bad as a: in every field, or because what it reads is gone,
\* when the other fields say nothing any more.
Worse(a, b) ==
    /\ a.kind = b.kind
    /\ CASE a.kind = "load" -> a.load <= b.load /\ a.cores >= b.cores
         [] a.kind \in {"memory", "swap"} -> a.used <= b.used /\ a.total >= b.total
         [] a.kind = "temp" -> a.temp <= b.temp
         [] a.kind = "disk" -> a.pct <= b.pct
         [] a.kind = "units" -> a.failed <= b.failed /\ (a.reboot => b.reboot)
         [] a.kind = "service" -> ServiceUp(a) \/ a.state = b.state
         [] a.kind = "backup" ->
              b.count <= 0 \/ (a.age <= b.age /\ a.count >= b.count /\ a.max >= b.max)
         [] a.kind = "net" ->
              ~b.carrier \/ (a.carrier /\ a.errs <= b.errs /\ a.flaps <= b.flaps /\ a.speed >= b.speed)
         [] a.kind = "drive" ->
              ~b.present \/ (/\ a.present /\ HealthRank(a.health) <= HealthRank(b.health)
                             /\ a.realloc <= b.realloc /\ a.pending <= b.pending
                             /\ a.uncorr <= b.uncorr /\ a.temp <= b.temp)
         [] a.kind = "port" -> a.tx <= b.tx /\ a.rx <= b.rx
         [] a.kind = "dns" -> b.ok => a.ok
         [] a.kind = "route" -> NoLater(a.err, b.err) /\ NoLater(b.ok, a.ok)
         [] a.kind = "errors" -> a.fives <= b.fives /\ a.reqs >= b.reqs
         [] a.kind = "cert" -> a.days >= b.days

\* What is too little known to be judged: an unknown number of cores, size, speed
\* or schedule is fine, and a hot drive whose health is unreadable only warns.
Unjudged(r) ==
    \/ r.kind = "load" /\ r.cores <= 0
    \/ r.kind \in {"memory", "swap"} /\ r.total <= 0
    \/ r.kind = "backup" /\ r.count > 0 /\ r.max <= 0
    \/ r.kind = "net" /\ r.carrier /\ r.speed <= 0
    \/ r.kind = "drive" /\ r.present /\ r.health = "unknown" /\ r.temp >= 60
    \/ r.kind = "errors" /\ r.reqs <= 0
=============================================================================
