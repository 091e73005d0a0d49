-------------------------- MODULE TelemetryProofs --------------------------
(***************************************************************************)
(* Telemetry for all readings, whatever their numbers, and any periods:    *)
(* the grades follow the readings, and the history keeps what it promises. *)
(***************************************************************************)
EXTENDS Telemetry, TLAPS

\* Only what has a series has rows.
SeriesOnly == rows # {} => kind \in {"load", "disk", "temp"}

\* A flat row was drawn by a box that was silent for a sample already: it is so
\* still, or was heard of since.
FlatSince == \A row \in Spark : row.flat => heard > SampleEvery \/ heard <= row.age

IInv ==
    /\ TypeOK
    /\ report # None => Valid(report)
    /\ RowsKept
    /\ SeriesOnly
    /\ FlatSince

-----------------------------------------------------------------------------
(* The grades. *)

\* A threshold on a quotient is one on the dividend.
LEMMA Quotient ==
    ASSUME NEW x \in Int, NEW y \in Int, y > 0, NEW w \in Int
    PROVE  x \div y \in Int /\ (x \div y >= w <=> x >= w * y)
<1> DEFINE q == x \div y  r == x % y
<1>1. q \in Int /\ r \in 0..(y - 1) /\ x = q * y + r
  BY SMT
<1> HIDE DEF q, r
<1>2. q >= w => x >= w * y
  <2> HAVE q >= w
  <2>1. q * y >= w * y
    BY <1>1, SMT
  <2> QED  BY <1>1, <2>1
<1>3. q < w => x < w * y
  <2> HAVE q < w
  <2>1. (q + 1) * y <= w * y
    BY <1>1, SMT
  <2>2. (q + 1) * y = q * y + y
    BY <1>1, SMT
  <2> QED  BY <1>1, <2>1, <2>2, SMT
<1> QED  BY <1>1, <1>2, <1>3 DEF q

\* Of each kind of reading, the fields it has.
LEMMA KindOf ==
    ASSUME NEW r \in Reading
    PROVE  /\ r.kind = "load" => r \in Load
           /\ r.kind \in {"memory", "swap"} => r \in Share
           /\ r.kind = "temp" => r \in Temp
           /\ r.kind = "disk" => r \in Disk
           /\ r.kind = "units" => r \in Units
           /\ r.kind = "service" => r \in Service
           /\ r.kind = "backup" => r \in Backup
           /\ r.kind = "net" => r \in Net
           /\ r.kind = "drive" => r \in Drive
           /\ r.kind = "port" => r \in Port
           /\ r.kind = "dns" => r \in DNS
           /\ r.kind = "route" => r \in Route
           /\ r.kind = "errors" => r \in Errors
           /\ r.kind = "cert" => r \in Cert
           /\ r.kind \in {"load", "memory", "swap", "temp", "disk", "units", "service", "backup",
                          "net", "drive", "port", "dns", "route", "errors", "cert"}
  BY DEF Reading, BoxReading, EdgeReading, Load, Share, Temp, Disk, Units, Service, Backup,
         Net, Drive, Port, DNS, Route, Errors, Cert

\* A share of a known size: more of less is graded no better.
LEMMA ShareGrows ==
    ASSUME NEW a \in Share, NEW b \in Share, a.used <= b.used, a.total >= b.total, b.total > 0,
           NEW w \in Nat, NEW d \in Nat, w <= d
    PROVE  PctSev(a, w, d) <= PctSev(b, w, d)
<1>1. /\ a.used \in Int /\ b.used \in Int /\ a.total \in Int /\ b.total \in Int
      /\ a.total > 0 /\ a.used * 100 \in Int /\ b.used * 100 \in Int
  BY DEF Share
<1> DEFINE pa == (a.used * 100) \div a.total  pb == (b.used * 100) \div b.total
<1>2. \A t \in Nat : pa >= t => pb >= t
  <2> SUFFICES ASSUME NEW t \in Nat, pa >= t PROVE pb >= t
    OBVIOUS
  <2>1. a.used * 100 >= t * a.total
    BY <1>1, Quotient
  <2>2. t * a.total >= t * b.total
    BY <1>1, SMT
  <2>3. t * a.total \in Int /\ t * b.total \in Int
    BY <1>1
  <2>4. b.used * 100 >= t * b.total
    BY <1>1, <2>1, <2>2, <2>3
  <2> QED  BY <1>1, <2>4, Quotient
<1>3. pa \in Int /\ pb \in Int
  BY <1>1, Quotient, 0 \in Int
<1> HIDE DEF pa, pb
<1>4. Graded(pa, w, d) <= Graded(pb, w, d)
  BY <1>2, <1>3 DEF Graded, OK, Warn, Bad
<1> QED  BY <1>1, <1>4 DEF PctSev, pa, pb

\* What the cases of Grade and Worse come to for each kind.
LEMMA GradeIs ==
    ASSUME NEW r
    PROVE  /\ r.kind = "load" => Grade(r) = LoadSev(r)
           /\ r.kind = "memory" => Grade(r) = PctSev(r, 82, 92)
           /\ r.kind = "swap" => Grade(r) = PctSev(r, 50, 80)
           /\ r.kind = "temp" => Grade(r) = TempSev(r)
           /\ r.kind = "disk" => Grade(r) = DiskSev(r)
           /\ r.kind = "units" => Grade(r) = UnitsSev(r)
           /\ r.kind = "service" => Grade(r) = BadUnless(ServiceUp(r))
           /\ r.kind = "backup" => Grade(r) = BackupTierSev(r)
           /\ r.kind = "net" => Grade(r) = NetSev(r)
           /\ r.kind = "drive" => Grade(r) = DriveSev(r)
           /\ r.kind = "port" => Grade(r) = PortSev(r)
           /\ r.kind = "dns" => Grade(r) = BadUnless(r.ok)
           /\ r.kind = "route" => Grade(r) = BadUnless(BackendUp(r))
           /\ r.kind = "errors" => Grade(r) = ErrorSev(r)
           /\ r.kind = "cert" => Grade(r) = CertSev(r)
  BY DEF Grade

LEMMA WorseIs ==
    ASSUME NEW a, NEW b, Worse(a, b)
    PROVE  /\ a.kind = b.kind
           /\ a.kind = "load" => a.load <= b.load /\ a.cores >= b.cores
           /\ a.kind \in {"memory", "swap"} => a.used <= b.used /\ a.total >= b.total
           /\ a.kind = "temp" => a.temp <= b.temp
           /\ a.kind = "disk" => a.pct <= b.pct
           /\ a.kind = "units" => a.failed <= b.failed /\ (a.reboot => b.reboot)
           /\ a.kind = "service" => ServiceUp(a) \/ a.state = b.state
           /\ a.kind = "backup" =>
                b.count <= 0 \/ (a.age <= b.age /\ a.count >= b.count /\ a.max >= b.max)
           /\ a.kind = "net" =>
                ~b.carrier \/ (a.carrier /\ a.errs <= b.errs /\ a.flaps <= b.flaps /\ a.speed >= b.speed)
           /\ a.kind = "drive" =>
                ~b.present \/ (/\ a.present /\ HealthRank(a.health) <= HealthRank(b.health)
                               /\ a.realloc <= b.realloc /\ a.pending <= b.pending
                               /\ a.uncorr <= b.uncorr /\ a.temp <= b.temp)
           /\ a.kind = "port" => a.tx <= b.tx /\ a.rx <= b.rx
           /\ a.kind = "dns" => (b.ok => a.ok)
           /\ a.kind = "route" => NoLater(a.err, b.err) /\ NoLater(b.ok, a.ok)
           /\ a.kind = "errors" => a.fives <= b.fives /\ a.reqs >= b.reqs
           /\ a.kind = "cert" => a.days >= b.days
  BY DEF Worse

LEMMA JudgedIs ==
    ASSUME NEW r, ~Unjudged(r)
    PROVE  /\ r.kind = "load" => ~(r.cores <= 0)
           /\ r.kind \in {"memory", "swap"} => ~(r.total <= 0)
           /\ r.kind = "backup" => ~(r.count > 0 /\ r.max <= 0)
           /\ r.kind = "net" => ~(r.carrier /\ r.speed <= 0)
           /\ r.kind = "drive" => ~(r.present /\ r.health = "unknown" /\ r.temp >= 60)
           /\ r.kind = "errors" => ~(r.reqs <= 0)
  BY DEF Unjudged

\* A reading that is worse, and is judged at all, is graded no better.
LEMMA GradeGrows ==
    ASSUME NEW a \in Reading, NEW b \in Reading, Valid(b), Worse(a, b), ~Unjudged(b)
    PROVE  Grade(a) <= Grade(b)
<1> USE DEF OK, Warn, Bad
<1>1. a.kind = b.kind
  BY WorseIs
<1>2. CASE a.kind = "load"
  <2>1. /\ a \in Load /\ b \in Load /\ ~(b.cores <= 0)
        /\ a.load <= b.load /\ a.cores >= b.cores
    BY <1>1, <1>2, KindOf, WorseIs, JudgedIs
  <2>2. LoadSev(a) <= LoadSev(b)
    BY <2>1 DEF Load, LoadSev, Graded
  <2> QED  BY <1>1, <1>2, <2>2, GradeIs
<1>3. CASE a.kind \in {"memory", "swap"}
  <2>1. /\ a \in Share /\ b \in Share /\ ~(b.total <= 0)
        /\ a.used <= b.used /\ a.total >= b.total
    BY <1>1, <1>3, KindOf, WorseIs, JudgedIs
  <2>2. /\ PctSev(a, 82, 92) <= PctSev(b, 82, 92)
        /\ PctSev(a, 50, 80) <= PctSev(b, 50, 80)
    BY <2>1, ShareGrows DEF Share
  <2> QED  BY <1>1, <1>3, <2>2, GradeIs
<1>4. CASE a.kind = "temp"
  <2>1. a \in Temp /\ b \in Temp /\ a.temp <= b.temp
    BY <1>1, <1>4, KindOf, WorseIs
  <2> QED  BY <1>1, <1>4, <2>1, GradeIs DEF Temp, TempSev, Graded
<1>5. CASE a.kind = "disk"
  <2>1. a \in Disk /\ b \in Disk /\ a.pct <= b.pct
    BY <1>1, <1>5, KindOf, WorseIs
  <2> QED  BY <1>1, <1>5, <2>1, GradeIs DEF Disk, DiskSev, Graded
<1>6. CASE a.kind = "units"
  <2>1. a \in Units /\ b \in Units /\ a.failed <= b.failed /\ (a.reboot => b.reboot)
    BY <1>1, <1>6, KindOf, WorseIs
  <2> QED  BY <1>1, <1>6, <2>1, GradeIs DEF Units, UnitsSev
<1>7. CASE a.kind = "service"
  <2>1. ServiceUp(a) \/ a.state = b.state
    BY <1>7, WorseIs
  <2>2. BadUnless(ServiceUp(a)) <= BadUnless(ServiceUp(b))
    <3>1. CASE ServiceUp(a)
      BY <3>1 DEF BadUnless
    <3>2. CASE a.state = b.state /\ ~ServiceUp(a)
      BY <3>2 DEF BadUnless, ServiceUp
    <3> QED  BY <2>1, <3>1, <3>2
  <2> QED  BY <1>1, <1>7, <2>2, GradeIs
<1>8. CASE a.kind = "backup"
  <2>1. /\ a \in Backup /\ b \in Backup /\ b.count >= 0 /\ (b.count > 0 => b.max > 0)
        /\ b.count <= 0 \/ (a.age <= b.age /\ a.count >= b.count /\ a.max >= b.max)
        /\ Grade(a) = BackupTierSev(a) /\ Grade(b) = BackupTierSev(b)
    BY <1>1, <1>8, KindOf, WorseIs, GradeIs DEF Valid, Unjudged, Backup
  <2> QED  BY <2>1 DEF Backup, BackupTierSev, Graded
<1>9. CASE a.kind = "net"
  <2>1. /\ a \in Net /\ b \in Net /\ ~(b.carrier /\ b.speed <= 0)
        /\ ~b.carrier \/ (a.carrier /\ a.errs <= b.errs /\ a.flaps <= b.flaps /\ a.speed >= b.speed)
    BY <1>1, <1>9, KindOf, WorseIs, JudgedIs
  <2>2. NetSev(a) <= NetSev(b)
    <3>1. CASE ~b.carrier
      BY <2>1, <3>1 DEF NetSev
    <3>2. CASE b.carrier
      BY <2>1, <3>2 DEF Net, NetSev
    <3> QED  BY <3>1, <3>2
  <2> QED  BY <1>1, <1>9, <2>2, GradeIs
<1>10. CASE a.kind = "drive"
  <2>1. /\ a \in Drive /\ b \in Drive /\ ~(b.present /\ b.health = "unknown" /\ b.temp >= 60)
        /\ ~b.present \/ (/\ a.present /\ HealthRank(a.health) <= HealthRank(b.health)
                          /\ a.realloc <= b.realloc /\ a.pending <= b.pending
                          /\ a.uncorr <= b.uncorr /\ a.temp <= b.temp)
    BY <1>1, <1>10, KindOf, WorseIs, JudgedIs
  <2>2. DriveSev(a) <= DriveSev(b)
    <3>1. /\ DriveSev(a) \in {OK, Warn, Bad}
          /\ ~b.present => DriveSev(b) = Bad
      BY DEF DriveSev, Graded
    <3>2. CASE ~b.present
      BY <3>1, <3>2
    <3>3. CASE b.present
      <4>1. /\ a.health \in Healths /\ b.health \in Healths
            /\ a.realloc \in Int /\ a.pending \in Int /\ a.uncorr \in Int /\ a.temp \in Int
            /\ b.realloc \in Int /\ b.pending \in Int /\ b.uncorr \in Int /\ b.temp \in Int
        <5>1. a \in Drive /\ b \in Drive
          BY <2>1
        <5> QED  BY <5>1 DEF Drive
      <4>2. /\ a.present /\ HealthRank(a.health) <= HealthRank(b.health)
            /\ a.realloc <= b.realloc /\ a.pending <= b.pending
            /\ a.uncorr <= b.uncorr /\ a.temp <= b.temp
            /\ b.health = "unknown" => ~(b.temp >= 60)
        BY <2>1, <3>3
      <4>3. CASE b.health \notin {"unknown", "PASSED"}
        <5>1. DriveSev(b) = Bad
          BY <3>3, <4>3 DEF DriveSev
        <5> QED  BY <3>1, <5>1
      <4>4. CASE b.health \in {"unknown", "PASSED"}
        <5>1. a.health = "PASSED" \/ (a.health = "unknown" /\ b.health = "unknown")
          BY <4>1, <4>2, <4>4 DEF Healths, HealthRank
        <5> QED  BY <3>3, <4>1, <4>2, <4>4, <5>1 DEF DriveSev, Graded
      <4> QED  BY <4>3, <4>4
    <3> QED  BY <3>2, <3>3
  <2> QED  BY <1>1, <1>10, <2>2, GradeIs
<1>11. CASE a.kind = "port"
  <2>1. a \in Port /\ b \in Port /\ a.tx <= b.tx /\ a.rx <= b.rx
    BY <1>1, <1>11, KindOf, WorseIs
  <2> QED  BY <1>1, <1>11, <2>1, GradeIs DEF Port, PortSev
<1>12. CASE a.kind = "dns"
  <2>1. b.ok => a.ok
    BY <1>12, WorseIs
  <2>2. BadUnless(a.ok) <= BadUnless(b.ok)
    <3>1. CASE a.ok
      BY <3>1 DEF BadUnless
    <3>2. CASE ~a.ok
      BY <2>1, <3>2 DEF BadUnless
    <3> QED  BY <3>1, <3>2
  <2> QED  BY <1>1, <1>12, <2>2, GradeIs
<1>13. CASE a.kind = "route"
  <2>1. a \in Route /\ b \in Route /\ NoLater(a.err, b.err) /\ NoLater(b.ok, a.ok)
    BY <1>1, <1>13, KindOf, WorseIs
  <2> QED  BY <1>1, <1>13, <2>1, GradeIs DEF Route, NoLater, BackendUp, BadUnless
<1>14. CASE a.kind = "errors"
  <2>1. /\ a \in Errors /\ b \in Errors /\ ~(b.reqs <= 0)
        /\ a.fives <= b.fives /\ a.reqs >= b.reqs
    BY <1>1, <1>14, KindOf, WorseIs, JudgedIs
  <2>2. ErrorSev(a) <= ErrorSev(b)
    BY <2>1 DEF Errors, ErrorSev, Graded
  <2> QED  BY <1>1, <1>14, <2>2, GradeIs
<1>15. CASE a.kind = "cert"
  <2>1. a \in Cert /\ b \in Cert /\ a.days >= b.days
    BY <1>1, <1>15, KindOf, WorseIs
  <2> QED  BY <1>1, <1>15, <2>1, GradeIs DEF Cert, CertSev
<1> QED
  BY <1>2, <1>3, <1>4, <1>5, <1>6, <1>7, <1>8, <1>9, <1>10, <1>11, <1>12, <1>13, <1>14, <1>15, KindOf

-----------------------------------------------------------------------------
(* The types. *)

LEMMA Bounds ==
    /\ HostStaleAfter \in Nat \ {0} /\ EdgeStaleAfter \in Nat \ {0} /\ SampleEvery \in Nat \ {0}
    /\ PruneEvery \in Nat \ {0} /\ Retention \in Nat \ {0} /\ Window \in Nat \ {0}
    /\ Window <= Retention /\ HostStaleAfter <= SampleEvery
    /\ Oldest \in Nat /\ Oldest > Retention + PruneEvery
    /\ Silent \in Nat /\ Silent > SampleEvery
<1>1. /\ HostStaleAfter \in Nat \ {0} /\ EdgeStaleAfter \in Nat \ {0} /\ SampleEvery \in Nat \ {0}
      /\ PruneEvery \in Nat \ {0} /\ Retention \in Nat \ {0} /\ Window \in Nat \ {0}
  BY TelemetryAssumption
<1> QED  BY <1>1, TelemetryAssumption DEF Oldest, Silent

LEMMA InitInv == Init => IInv
<1> SUFFICES ASSUME Init PROVE IInv
  OBVIOUS
<1>1. TypeOK
  <2>1. heard \in 0..Silent /\ sampled \in 0..SampleEvery /\ pruned \in 0..PruneEvery
    BY Bounds DEF Init
  <2> QED  BY <2>1, Zenon DEF Init, TypeOK
<1> QED  BY <1>1 DEF Init, IInv, RowsKept, SeriesOnly, FlatSince, Spark

\* Where a row that has grown older comes from.
LEMMA OlderFrom ==
    ASSUME NEW set, set \subseteq Row, NEW row \in Older(set)
    PROVE  /\ row \in Row
           /\ \E old \in set : /\ row.age = (IF old.age = Oldest THEN Oldest ELSE old.age + 1)
                               /\ row.flat = old.flat
<1>1. PICK old \in set : row = [old EXCEPT !.age = IF @ = Oldest THEN @ ELSE @ + 1]
  BY DEF Older
<1> QED  BY <1>1, Bounds DEF Row

LEMMA OlderGrows ==
    ASSUME NEW set, NEW sub, sub \subseteq set
    PROVE  Older(sub) \subseteq Older(set)
  BY DEF Older

LEMMA TypeStep == IInv /\ [Next]_vars => TypeOK'
<1> SUFFICES ASSUME IInv, [Next]_vars PROVE TypeOK'
  OBVIOUS
<1>0. TypeOK
  BY DEF IInv
<1> USE <1>0, Bounds
<1>1. ASSUME NEW r \in Readings, Push(r) PROVE TypeOK'
  BY <1>1, TelemetryAssumption DEF Push, TypeOK
<1>2. CASE Sample
  <2>1. [age |-> 0, flat |-> heard > SampleEvery] \in Row
    BY DEF Row
  <2>2. rows' \subseteq Row /\ taken' \subseteq Row
    BY <1>2, <2>1 DEF Sample, TypeOK
  <2> QED  BY <1>2, <2>2 DEF Sample, TypeOK
<1>3. ASSUME Purge PROVE rows' \subseteq Row /\ kept' \in BOOLEAN
  BY <1>3 DEF Purge, TypeOK
<1>4. CASE Prune
  BY <1>3, <1>4 DEF Prune, TypeOK
<1>5. CASE Tick
  <2>1. rows' \subseteq Row /\ taken' \subseteq Row
    BY <1>5, OlderFrom DEF Tick, TypeOK
  <2>2. heard' \in 0..Silent
    BY <1>5 DEF Tick, TypeOK
  <2>3. sampled' \in 0..SampleEvery /\ pruned' \in 0..PruneEvery
    BY <1>5 DEF Tick, TypeOK
  <2> QED  BY <1>5, <2>1, <2>2, <2>3 DEF Tick, TypeOK
<1>6. CASE Stop
  BY <1>6 DEF Stop, TypeOK
<1>7. CASE Start
  BY <1>3, <1>7 DEF Start, TypeOK
<1>8. CASE UNCHANGED vars
  BY <1>8 DEF vars, TypeOK
<1> QED  BY <1>1, <1>2, <1>4, <1>5, <1>6, <1>7, <1>8 DEF Next

-----------------------------------------------------------------------------
(* The history. *)

\* What a pruning leaves: the sparkline as it was, and nothing that is too old,
\* if it succeeds.
LEMMA PurgeLeaves ==
    ASSUME TypeOK, Purge
    PROVE  /\ rows' \subseteq rows
           /\ Spark \subseteq rows'
           /\ ~kept' => \A row \in rows' : row.age <= Retention
<1>1. \A row \in rows : row.age \in Nat
  BY Bounds DEF TypeOK, Row
<1> QED  BY <1>1, Bounds DEF Purge, Expired, Spark

LEMMA KeptStep == IInv /\ TypeOK' /\ [Next]_vars => RowsKept'
<1> SUFFICES ASSUME IInv, TypeOK', [Next]_vars PROVE RowsKept'
  OBVIOUS
<1>0. TypeOK /\ taken \subseteq Spark
      /\ (proc = "up" /\ ~kept => \A row \in rows : row.age <= Retention + pruned)
  BY DEF IInv, RowsKept
<1> USE <1>0, Bounds
<1>1. ASSUME NEW r \in Readings, Push(r) PROVE RowsKept'
  BY <1>1 DEF Push, RowsKept, Spark
<1>2. CASE Sample
  BY <1>2 DEF Sample, RowsKept, Spark, TypeOK
<1>3. CASE Prune
  <2>1. rows' \subseteq rows /\ Spark \subseteq rows' /\ taken' = taken /\ pruned' = 0
        /\ (~kept' => \A row \in rows' : row.age <= Retention)
    BY <1>3, PurgeLeaves DEF Prune
  <2> QED  BY <2>1 DEF RowsKept, Spark
<1>4. CASE Tick
  <2>1. taken' \subseteq Spark'
    <3>1. taken' \subseteq Older(taken) /\ rows' = Older(rows) /\ taken \subseteq rows
          /\ \A row \in taken' : row.age <= Window
      BY <1>4 DEF Tick, Spark
    <3> QED  BY <3>1, OlderGrows DEF Spark
  <2>2. ASSUME proc' = "up", ~kept', NEW row \in rows' PROVE row.age <= Retention + pruned'
    <3>1. proc = "up" /\ ~kept /\ pruned' = pruned + 1 /\ rows' = Older(rows)
      BY <1>4, <2>2 DEF Tick
    <3>2. PICK old \in rows : row.age = (IF old.age = Oldest THEN Oldest ELSE old.age + 1)
      BY <2>2, <3>1, OlderFrom DEF TypeOK
    <3>3. old.age \in Nat /\ old.age <= Retention + pruned /\ pruned \in 0..PruneEvery
      BY <3>1 DEF TypeOK, Row
    <3> QED  BY <3>1, <3>2, <3>3
  <2> QED  BY <2>1, <2>2 DEF RowsKept
<1>5. CASE Stop
  BY <1>5 DEF Stop, RowsKept, Spark
<1>6. CASE Start
  <2>1. CASE proc' = "up" /\ Purge
    <3>1. rows' \subseteq rows /\ Spark \subseteq rows' /\ taken' = taken /\ pruned' = 0
          /\ (~kept' => \A row \in rows' : row.age <= Retention)
      BY <1>6, <2>1, PurgeLeaves DEF Start
    <3> QED  BY <3>1 DEF RowsKept, Spark
  <2>2. CASE proc' = "blind" /\ UNCHANGED <<rows, kept>>
    BY <1>6, <2>2 DEF Start, RowsKept, Spark
  <2> QED  BY <1>6, <2>1, <2>2 DEF Start
<1>7. CASE UNCHANGED vars
  BY <1>7 DEF vars, RowsKept, Spark
<1> QED  BY <1>1, <1>2, <1>3, <1>4, <1>5, <1>6, <1>7 DEF Next

LEMMA SeriesStep == IInv /\ [Next]_vars => SeriesOnly'
<1> SUFFICES ASSUME IInv, [Next]_vars PROVE SeriesOnly'
  OBVIOUS
<1>0. TypeOK /\ SeriesOnly
  BY DEF IInv
<1>1. CASE Sample
  <2>1. CASE Recorded
    BY <1>0, <1>1, <2>1 DEF Sample, Recorded, SeriesOnly, TypeOK
  <2>2. CASE rows' = rows
    BY <1>0, <1>1, <2>2 DEF Sample, SeriesOnly
  <2> QED  BY <1>1, <2>1, <2>2 DEF Sample
<1>2. CASE rows' \subseteq rows /\ kind' = kind
  BY <1>0, <1>2 DEF SeriesOnly
<1>3. CASE Tick
  BY <1>0, <1>3 DEF Tick, SeriesOnly, Older
<1>4. ASSUME Purge PROVE rows' \subseteq rows
  BY <1>0, <1>4, PurgeLeaves
<1> QED
  BY <1>1, <1>2, <1>3, <1>4 DEF Next, Push, Prune, Stop, Start, vars

LEMMA FlatStep == IInv /\ TypeOK' /\ [Next]_vars => FlatSince'
<1> SUFFICES ASSUME IInv, TypeOK', [Next]_vars PROVE FlatSince'
  OBVIOUS
<1>0. TypeOK /\ FlatSince
  BY DEF IInv
<1> USE <1>0, Bounds
<1>1. ASSUME rows' \subseteq rows, heard' = heard PROVE FlatSince'
  BY <1>1 DEF FlatSince, Spark
<1>2. ASSUME NEW r \in Readings, Push(r) PROVE FlatSince'
  BY <1>2 DEF Push, FlatSince, Spark, TypeOK, Row
<1>3. CASE Sample
  BY <1>3 DEF Sample, FlatSince, Spark, TypeOK, Row
<1>4. CASE Tick
  <2> SUFFICES ASSUME NEW row \in rows', row.age <= Window, row.flat
               PROVE  heard' > SampleEvery \/ heard' <= row.age
    BY DEF FlatSince, Spark
  <2>1. PICK old \in rows : /\ row.age = (IF old.age = Oldest THEN Oldest ELSE old.age + 1)
                            /\ row.flat = old.flat
    BY <1>4, OlderFrom DEF Tick, TypeOK
  <2>2. old.age \in Nat /\ heard \in 0..Silent
    BY DEF TypeOK, Row
  <2>3. old.age <= Window /\ row.age = old.age + 1
    BY <2>1, <2>2
  <2>4. heard > SampleEvery \/ heard <= old.age
    BY <2>1, <2>3 DEF FlatSince, Spark
  <2>5. heard' = IF heard = Silent THEN Silent ELSE heard + 1
    BY <1>4 DEF Tick
  <2> QED  BY <2>2, <2>3, <2>4, <2>5
<1>5. ASSUME Purge PROVE rows' \subseteq rows
  BY <1>5, PurgeLeaves
<1> QED
  BY <1>1, <1>2, <1>3, <1>4, <1>5 DEF Next, Prune, Stop, Start, vars

LEMMA ValidStep == IInv /\ [Next]_vars => (report' # None => Valid(report'))
  BY DEF IInv, Next, Push, Sample, Prune, Tick, Stop, Start, vars

LEMMA NextInv == IInv /\ [Next]_vars => IInv'
  BY TypeStep, KeptStep, SeriesStep, FlatStep, ValidStep DEF IInv

LEMMA InvHolds == Spec => []IInv
  BY InitInv, NextInv, PTL DEF Spec

-----------------------------------------------------------------------------

\* Every reachable state is well typed: no counter leaves its range.
THEOREM TypeCorrect == Spec => []TypeOK
<1>1. IInv => TypeOK
  BY DEF IInv
<1> QED  BY <1>1, InvHolds, PTL

\* Whatever is pushed after whatever else, a worse reading is graded no better.
THEOREM GradesFollow == Spec => WorseIsNotBetter
<1>1. ASSUME IInv, IInv', [Next]_vars
      PROVE  [report # None /\ report' # None =>
                (Worse(report, report') /\ ~Unjudged(report') => Grade(report) <= Grade(report'))]_vars
  <2>1. ASSUME report # None, report' # None
        PROVE  report \in Reading /\ report' \in Reading /\ Valid(report')
    BY <1>1, <2>1 DEF IInv, TypeOK
  <2> QED  BY <2>1, GradeGrows
<1> QED  BY <1>1, InvHolds, PTL DEF Spec, WorseIsNotBetter

\* The history keeps every row of the window, and, as long as prunings succeed,
\* none for longer than the retention and one period of pruning.
THEOREM HistoryKept == Spec => []RowsKept
<1>1. IInv => RowsKept
  BY DEF IInv
<1> QED  BY <1>1, InvHolds, PTL

\* A flat line is never drawn beside a report that seems current without having
\* come since: the staleness of a box is no longer than the sampler's period.
THEOREM FlatIsExplained == Spec => []FlatShows
<1>1. IInv => FlatShows
  <2> SUFFICES ASSUME IInv, NEW row \in Spark, row.flat, report # None
               PROVE  Stale \/ heard <= row.age
    BY DEF FlatShows
  <2>1. report \in Reading /\ report.kind \in {"load", "disk", "temp"}
    BY DEF IInv, SeriesOnly, TypeOK, Spark
  <2>2. report \notin EdgeReading
    BY <2>1 DEF EdgeReading, Route, Errors, Cert
  <2>3. heard > SampleEvery \/ heard <= row.age
    BY DEF IInv, FlatSince
  <2>4. heard \in Nat
    BY Bounds DEF IInv, TypeOK
  <2> QED  BY <2>2, <2>3, <2>4, Bounds DEF Stale, StaleAfter
<1> QED  BY <1>1, InvHolds, PTL
=============================================================================
