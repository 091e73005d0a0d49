------------------------- MODULE DurableFilesProofs -------------------------
(***************************************************************************)
(* DurableFiles for any number of certificates and visits, and any faults: *)
(* the certificate that was served stays, a pair is spoiled only at the    *)
(* moments named, and the count that is shown grows.                       *)
(***************************************************************************)
EXTENDS DurableFiles, FiniteSetTheorems, TLAPS

Making == {"newCert", "inCert", "newKey", "inKey"}

\* How far the making of a pair has got.
PairFits ==
    /\ stage \in Making => pair \in Pairs
    /\ stage = "newCert" => ~Present
    /\ stage = "inCert" => file["cert"] = Torn
    /\ stage \in {"newKey", "inKey"} => file["cert"] = pair
    /\ stage = "inKey" => file["key"] = Torn
    /\ stage \notin Making /\ Present /\ ~Matching => botched

\* The certificate that is trusted is there, and no start will replace it.
Trusted ==
    \/ served = NoPair
    \/ file["cert"] = served /\ Present /\ stage \notin Making

\* What is written of the count, and what is in memory.
CountFits ==
    /\ stage # "up" => inc = "idle" /\ ~missed
    /\ stage = "up" /\ inc = "idle" /\ ~missed => n = Counted
    /\ ~forgotten =>
         /\ stage = "up" => shown <= n
         /\ ~missed => shown <= Counted

IInv == TypeOK /\ PairFits /\ Trusted /\ CountFits

\* There are more pairs than could be mistaken for the new one.
LEMMA FreshType == Fresh \in Pairs
<1> DEFINE S == {file["cert"], file["key"], disk["cert"], disk["key"], served}
<1>1. IsFiniteSet(S) /\ Cardinality(S) <= 5
  <2>1. IsFiniteSet({}) /\ Cardinality({}) = 0
    BY FS_EmptySet
  <2> DEFINE add(T, e) == T \cup {e}
  <2>2. ASSUME NEW T, NEW e, IsFiniteSet(T), NEW k \in Nat, Cardinality(T) <= k
        PROVE  IsFiniteSet(add(T, e)) /\ Cardinality(add(T, e)) <= k + 1
    <3>1. /\ IsFiniteSet(T \cup {e})
          /\ Cardinality(T \cup {e}) = IF e \in T THEN Cardinality(T) ELSE Cardinality(T) + 1
      BY <2>2, FS_AddElement
    <3>2. Cardinality(T) \in Nat
      BY <2>2, FS_CardinalityType
    <3> QED  BY <2>2, <3>1, <3>2
  <2> DEFINE T1 == add({}, file["cert"])  T2 == add(T1, file["key"])
             T3 == add(T2, disk["cert"])  T4 == add(T3, disk["key"])  T5 == add(T4, served)
  <2>3. S = T5
    OBVIOUS
  <2> HIDE DEF add, S
  <2>4. IsFiniteSet(T1) /\ Cardinality(T1) <= 1
    BY <2>1, <2>2
  <2> HIDE DEF T1
  <2>5. IsFiniteSet(T2) /\ Cardinality(T2) <= 2
    BY <2>2, <2>4
  <2> HIDE DEF T2
  <2>6. IsFiniteSet(T3) /\ Cardinality(T3) <= 3
    BY <2>2, <2>5
  <2> HIDE DEF T3
  <2>7. IsFiniteSet(T4) /\ Cardinality(T4) <= 4
    BY <2>2, <2>6
  <2> HIDE DEF T4
  <2>8. IsFiniteSet(T5) /\ Cardinality(T5) <= 5
    BY <2>2, <2>7
  <2> QED  BY <2>3, <2>8
<1>2. \E p \in Pairs : p \notin S
  <2> SUFFICES ASSUME Pairs \subseteq S PROVE FALSE
    OBVIOUS
  <2> HIDE DEF S
  <2>1. Cardinality(Pairs) <= Cardinality(S)
    BY <1>1, FS_Subset
  <2> QED  BY <1>1, <2>1, FS_CardinalityType, FilesAssumption
<1> QED  BY <1>2 DEF Fresh

LEMMA CountedType == TypeOK => Counted \in 0..MaxVisits
  BY FilesAssumption DEF TypeOK, Counted

LEMMA ZeroCount == 0 \in 0..MaxVisits
  BY FilesAssumption

LEMMA TypeStep == TypeOK /\ PairFits /\ [Next]_vars => TypeOK'
<1> SUFFICES ASSUME TypeOK, PairFits, [Next]_vars PROVE TypeOK'
  OBVIOUS
<1> USE DEF TypeOK
<1>1. CASE Start
  BY <1>1, FreshType DEF Start, visitVars
<1>2. CASE OpenPEM
  BY <1>2 DEF OpenPEM, Writes, certVars, visitVars, Files, Contents
<1>3. CASE WritePEM
  <2>1. pair \in Pairs
    BY <1>3 DEF WritePEM, PairFits, Making
  <2> QED  BY <1>3, <2>1 DEF WritePEM, Writes, certVars, visitVars, Files, Contents
<1>4. CASE PEMFails
  BY <1>4 DEF PEMFails, AtBadMoment, visitVars
<1>5. CASE Load
  BY <1>5, CountedType, FilesAssumption DEF Load, Matching, Files
<1>6. CASE Inc
  BY <1>6, FilesAssumption DEF Inc, certVars
<1>7. CASE WriteCount
  BY <1>7 DEF WriteCount, WriteScratch, certVars
<1>8. CASE Rename
  BY <1>8 DEF Rename, Writes, certVars, Files, Contents
<1>9. CASE IncFails
  BY <1>9 DEF IncFails, certVars
<1>10. CASE Get
  BY <1>10 DEF Get, certVars
<1>11. CASE Kill
  <2>1. botched' \in BOOLEAN /\ forgotten' \in BOOLEAN
    BY <1>11, Zenon DEF Kill
  <2>2. Dies /\ UNCHANGED <<file, disk, faulty, served, shown>>
    BY <1>11 DEF Kill
  <2> QED  BY <2>1, <2>2, ZeroCount DEF Dies
<1>12. CASE Flush
  BY <1>12 DEF Flush, certVars, visitVars
<1>13. CASE PowerLoss
  <2>1. PICK left \in [Files -> UNION {Remains(f) : f \in Files}] :
          /\ \A f \in Files : left[f] \in Remains(f)
          /\ file' = left /\ disk' = left
    BY <1>13 DEF PowerLoss
  <2>2. \A f \in Files : left[f] \in {disk[f], file[f], Torn}
    BY <2>1 DEF Remains
  <2>3. left \in [Files -> Contents]
    BY <2>1, <2>2 DEF Contents
  <2>4. /\ {left["cert"], left["key"]} \subseteq Pairs \cup {Absent, Torn}
        /\ left["visits"] \in (0..MaxVisits) \cup {Absent, Torn}
    BY <2>2 DEF Files
  <2>5. botched' \in BOOLEAN /\ served' \in Pairs \cup {NoPair} /\ forgotten' \in BOOLEAN
    BY <1>13, Zenon DEF PowerLoss
  <2>6. Dies /\ UNCHANGED <<faulty, shown>>
    BY <1>13 DEF PowerLoss
  <2> QED  BY <2>1, <2>3, <2>4, <2>5, <2>6, ZeroCount DEF Dies
<1>14. CASE Delete
  BY <1>14 DEF Delete, Writes, visitVars, Files, Contents
<1>15. CASE Repair
  BY <1>15 DEF Repair, certVars, visitVars
<1>16. CASE UNCHANGED vars
  BY <1>16 DEF vars, certVars, visitVars
<1> QED  BY <1>1, <1>2, <1>3, <1>4, <1>5, <1>6, <1>7, <1>8, <1>9, <1>10, <1>11, <1>12, <1>13, <1>14, <1>15, <1>16 DEF Next

\* Files that were on the disk outlive a loss of power.
LEMMA SyncedRemains ==
    ASSUME PowerLoss, NEW f \in Files, f \notin Unsynced
    PROVE  file'[f] = file[f]
  BY DEF PowerLoss, Remains

LEMMA PairStep == TypeOK /\ PairFits /\ [Next]_vars => PairFits'
<1> SUFFICES ASSUME TypeOK, PairFits, [Next]_vars PROVE PairFits'
  OBVIOUS
<1> USE FilesAssumption DEF TypeOK, PairFits, Making, Present, Matching, Files
<1>1. CASE Start
  BY <1>1, FreshType DEF Start
<1>2. CASE OpenPEM
  BY <1>2 DEF OpenPEM, Writes, certVars
<1>3. CASE WritePEM
  BY <1>3 DEF WritePEM, Writes, certVars
<1>4. CASE PEMFails
  BY <1>4 DEF PEMFails, AtBadMoment
<1>5. CASE Load
  BY <1>5 DEF Load
<1>6. CASE Inc \/ WriteCount \/ IncFails \/ Get
  BY <1>6 DEF Inc, WriteCount, WriteScratch, IncFails, Get, certVars
<1>7. CASE Rename
  BY <1>7 DEF Rename, Writes, certVars
<1>8. CASE Kill
  BY <1>8 DEF Kill, Dies, AtBadMoment
<1>9. CASE Flush \/ Repair
  BY <1>9 DEF Flush, Repair, certVars, visitVars
<1>10. CASE PowerLoss
  <2>1. stage' = "down" /\ pair' = NoPair
    BY <1>10 DEF PowerLoss, Dies
  <2>2. CASE Unsynced \cap {"cert", "key"} = {}
    <3>1. file'["cert"] = file["cert"] /\ file'["key"] = file["key"]
      BY <1>10, <2>2, SyncedRemains
    <3> QED  BY <1>10, <2>1, <3>1 DEF PowerLoss, AtBadMoment
  <2>3. CASE Unsynced \cap {"cert", "key"} # {}
    BY <1>10, <2>1, <2>3 DEF PowerLoss
  <2> QED  BY <2>2, <2>3
<1>11. CASE Delete
  BY <1>11 DEF Delete, Writes
<1>12. CASE UNCHANGED vars
  BY <1>12 DEF vars, certVars
<1> QED  BY <1>1, <1>2, <1>3, <1>4, <1>5, <1>6, <1>7, <1>8, <1>9, <1>10, <1>11, <1>12 DEF Next

LEMMA TrustedStep == TypeOK /\ PairFits /\ Trusted /\ [Next]_vars => Trusted'
<1> SUFFICES ASSUME TypeOK, PairFits, Trusted, [Next]_vars PROVE Trusted'
  OBVIOUS
<1> USE FilesAssumption DEF TypeOK, Trusted, Making, Present, Matching, Files
<1>1. CASE Start
  BY <1>1 DEF Start
<1>2. CASE OpenPEM \/ WritePEM \/ PEMFails
  BY <1>2 DEF OpenPEM, WritePEM, PEMFails, Writes, certVars
<1>3. CASE Load
  BY <1>3 DEF Load
<1>4. CASE Inc \/ WriteCount \/ IncFails \/ Get
  BY <1>4 DEF Inc, WriteCount, WriteScratch, IncFails, Get, certVars
<1>5. CASE Rename
  BY <1>5 DEF Rename, Writes, certVars
<1>6. CASE Kill
  BY <1>6 DEF Kill, Dies
<1>7. CASE Flush \/ Repair
  BY <1>7 DEF Flush, Repair, certVars, visitVars
<1>8. CASE PowerLoss
  <2>1. CASE Unsynced \cap {"cert", "key"} = {}
    <3>1. file'["cert"] = file["cert"] /\ file'["key"] = file["key"]
      BY <1>8, <2>1, SyncedRemains
    <3> QED  BY <1>8, <3>1 DEF PowerLoss, Dies
  <2>2. CASE Unsynced \cap {"cert", "key"} # {}
    BY <1>8, <2>2, Zenon DEF PowerLoss, Trusted
  <2> QED  BY <2>1, <2>2
<1>9. CASE Delete
  BY <1>9, Zenon DEF Delete, Trusted
<1>10. CASE UNCHANGED vars
  BY <1>10 DEF vars, certVars
<1> QED  BY <1>1, <1>2, <1>3, <1>4, <1>5, <1>6, <1>7, <1>8, <1>9, <1>10 DEF Next

\* The count is untouched when the file is.
LEMMA SameCount ==
    ASSUME file'["visits"] = file["visits"]
    PROVE  Counted' = Counted
  BY DEF Counted

LEMMA CountStep == TypeOK /\ CountFits /\ [Next]_vars => CountFits'
<1> SUFFICES ASSUME TypeOK, CountFits, [Next]_vars PROVE CountFits'
  OBVIOUS
<1>0. Counted \in 0..MaxVisits
  BY CountedType
<1> USE <1>0 DEF TypeOK, CountFits
<1>1. CASE Start
  BY <1>1, SameCount DEF Start, visitVars
<1>2. CASE OpenPEM \/ WritePEM \/ PEMFails \/ Delete
  <2>1. file'["visits"] = file["visits"]
    BY <1>2 DEF OpenPEM, WritePEM, PEMFails, Delete, Writes, Files
  <2> QED  BY <1>2, <2>1, SameCount DEF OpenPEM, WritePEM, PEMFails, Delete, visitVars
<1>3. CASE Load
  BY <1>3, SameCount DEF Load
<1>4. CASE Inc
  BY <1>4, SameCount, FilesAssumption DEF Inc
<1>5. CASE WriteCount
  BY <1>5, SameCount DEF WriteCount, WriteScratch
<1>6. CASE Rename
  <2>1. file'["visits"] = n /\ n' = n
    BY <1>6 DEF Rename, Writes, Files
  <2>2. Counted' = n
    BY <2>1, FilesAssumption DEF Counted
  <2> QED  BY <1>6, <2>2 DEF Rename
<1>7. CASE IncFails
  BY <1>7, SameCount DEF IncFails
<1>8. CASE Get
  BY <1>8, SameCount DEF Get
<1>9. CASE Kill
  BY <1>9, SameCount DEF Kill, Dies
<1>10. CASE Flush \/ Repair
  BY <1>10, SameCount DEF Flush, Repair, certVars, visitVars
<1>11. CASE PowerLoss
  <2>1. CASE "visits" \in Unsynced
    BY <1>11, <2>1 DEF PowerLoss, Dies
  <2>2. CASE "visits" \notin Unsynced
    <3>1. Counted' = Counted
      BY <1>11, <2>2, SyncedRemains, SameCount DEF Files
    <3> QED  BY <1>11, <3>1 DEF PowerLoss, Dies
  <2> QED  BY <2>1, <2>2
<1>12. CASE UNCHANGED vars
  BY <1>12, SameCount DEF vars, visitVars
<1> QED  BY <1>1, <1>2, <1>3, <1>4, <1>5, <1>6, <1>7, <1>8, <1>9, <1>10, <1>11, <1>12 DEF Next

LEMMA IInvHolds == Spec => []IInv
<1>1. Init => IInv
  <2> SUFFICES ASSUME Init PROVE IInv
    OBVIOUS
  <2>1. TypeOK
    <3>1. Absent \in Contents
      BY DEF Contents
    <3> QED  BY <3>1, ZeroCount DEF Init, TypeOK, Files
  <2>2. PairFits
    BY FilesAssumption DEF Init, PairFits, Making, Present, Files
  <2>3. Trusted
    BY DEF Init, Trusted
  <2>4. CountFits
    BY DEF Init, CountFits, Counted, Files
  <2> QED  BY <2>1, <2>2, <2>3, <2>4 DEF IInv
<1>2. IInv /\ [Next]_vars => IInv'
  BY TypeStep, PairStep, TrustedStep, CountStep DEF IInv
<1> QED  BY <1>1, <1>2, PTL DEF Spec

-----------------------------------------------------------------------------

\* The variables are of their types, through every fault.
THEOREM FilesTypeCorrect == Spec => []TypeOK
<1>1. IInv => TypeOK
  BY DEF IInv
<1> QED  BY <1>1, IInvHolds, PTL

\* No number of kills, failures and restarts replaces a certificate that was
\* served: only its deletion does, or a loss of power before it was on the disk.
THEOREM TrustAlwaysHolds == Spec => TrustHolds
<1>1. IInv /\ [Next]_vars =>
        [stage # "up" /\ stage' = "up" => served = NoPair \/ served' = served]_vars
  <2> SUFFICES ASSUME IInv, Next, stage # "up", stage' = "up"
               PROVE  served = NoPair \/ served' = served
    BY DEF IInv
  <2>1. CASE Load
    BY <2>1 DEF Load, IInv, Trusted
  <2>2. CASE ~Load
    BY <2>2 DEF Next, Start, OpenPEM, WritePEM, PEMFails, Inc, WriteCount, Rename, IncFails,
       Get, Kill, Flush, PowerLoss, Delete, Repair, Dies
  <2> QED  BY <2>1, <2>2
<1> QED  BY <1>1, IInvHolds, PTL DEF Spec, TrustHolds

\* The server is shut out by its own files only when the making of a pair was cut
\* off inside the writing of the key, or with an old key beside it, or by a loss
\* of power.
THEOREM OnlyBotchedPairs == Spec => []OnlyBotched
<1>1. IInv => OnlyBotched
  BY DEF IInv, PairFits, OnlyBotched, Making
<1> QED  BY <1>1, IInvHolds, PTL

\* The count that is shown never goes back, but for a write that failed and a
\* loss of power.
THEOREM CountAlwaysGrows == Spec => CountGrows
<1>1. IInv /\ [Next]_vars => [shown' # shown => shown' > shown \/ forgotten]_vars
  <2> SUFFICES ASSUME IInv, Next, shown' # shown
               PROVE  shown' > shown \/ forgotten
    BY DEF IInv
  <2>1. CASE Get
    BY <2>1 DEF Get, IInv, CountFits, TypeOK
  <2>2. CASE ~Get
    BY <2>2 DEF Next, Start, OpenPEM, WritePEM, PEMFails, Load, Inc, WriteCount, Rename,
       IncFails, Kill, Flush, PowerLoss, Delete, Repair, Dies, visitVars
  <2> QED  BY <2>1, <2>2
<1> QED  BY <1>1, IInvHolds, PTL DEF Spec, CountGrows
=============================================================================
