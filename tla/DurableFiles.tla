---------------------------- MODULE DurableFiles ----------------------------
(***************************************************************************)
(* What the server keeps in files of its own, on a volume that outlives    *)
(* its container: the self-signed certificate and its key, made by the     *)
(* first start (tls.go), and the count of visits (visits.go).  Nothing is  *)
(* synced.  A process may be killed between any two steps, any write may   *)
(* fail, and the machine may lose power with writes still in its cache.    *)
(***************************************************************************)
EXTENDS Integers, FiniteSets

CONSTANTS
    Pairs,      \* certificates with their keys, as many as are ever told apart
    NoPair,     \* none
    Absent,     \* what there is of a file that does not exist
    Torn,       \* a file that was created and not, or not wholly, written
    MaxVisits   \* bounds the visits

ASSUME FilesAssumption ==
    /\ IsFiniteSet(Pairs) /\ Cardinality(Pairs) > 5
    /\ NoPair \notin Pairs
    /\ {Absent, Torn} \cap (Pairs \cup Int) = {}
    /\ Absent # Torn
    /\ MaxVisits \in Nat

\* The scratch file of the counter is never read again once its Inc is over, and
\* holds at its renaming what that Inc wrote: inc tells all there is to it.
Files == {"cert", "key", "visits"}

VARIABLES
    file,       \* what a process finds in each file
    disk,       \* what would be left of it without power
    stage,      \* where the process is: down, in ensureCert, or up
    pair,       \* the pair ensureCert has generated
    n,          \* visitCounter.n
    inc,        \* where Inc is
    faulty,     \* kills, failed writes, power cuts and deletions may happen
    \* History:
    served,     \* the certificate that was last served, NoPair once it was lost:
                \* deleted, or never on the disk
    botched,    \* the making of the present pair was cut off at a bad moment
    shown,      \* the count of visits that was last shown
    missed,     \* the last count was not written
    forgotten   \* a count was lost with the process, or with the power

certVars  == <<pair, served, botched>>
visitVars == <<n, inc, shown, missed, forgotten>>
vars == <<file, disk, stage, faulty, certVars, visitVars>>

Contents == Pairs \cup (0..MaxVisits) \cup {Absent, Torn}

TypeOK ==
    /\ file \in [Files -> Contents]
    /\ disk \in [Files -> Contents]
    /\ \A f \in {"cert", "key"} :
         {file[f], disk[f]} \subseteq Pairs \cup {Absent, Torn}
    /\ {file["visits"], disk["visits"]} \subseteq (0..MaxVisits) \cup {Absent, Torn}
    /\ stage \in {"down", "newCert", "inCert", "newKey", "inKey", "load", "up"}
    /\ pair \in Pairs \cup {NoPair}
    /\ n \in 0..MaxVisits
    /\ inc \in {"idle", "open", "write", "rename"}
    /\ faulty \in BOOLEAN
    /\ served \in Pairs \cup {NoPair}
    /\ botched \in BOOLEAN
    /\ shown \in 0..MaxVisits
    /\ missed \in BOOLEAN /\ forgotten \in BOOLEAN

Init ==
    /\ file = [f \in Files |-> Absent] /\ disk = [f \in Files |-> Absent]
    /\ stage = "down" /\ pair = NoPair
    /\ n = 0 /\ inc = "idle"
    /\ faulty = TRUE
    /\ served = NoPair /\ botched = FALSE
    /\ shown = 0 /\ missed = FALSE /\ forgotten = FALSE

\* What a step that touches no file but f leaves in it.
Writes(f, content) == file' = [file EXCEPT ![f] = content]

-----------------------------------------------------------------------------
(* ensureCert *)

\* Mutated Present: the key is not asked for.
PresentCert == file["cert"] # Absent

\* Mutated Present: a pair is made at every start.
PresentNever == file["cert"] = Absent /\ file["key"] # Absent

\* Both files are there, whatever is in them.
Present == file["cert"] # Absent /\ file["key"] # Absent

\* The two are whole, and belong together.
Matching == file["cert"] \in Pairs /\ file["key"] = file["cert"]

\* Which new pair is generated makes no difference.
Fresh == CHOOSE p \in Pairs :
            p \notin {file["cert"], file["key"], disk["cert"], disk["key"], served}

\* The process starts.
Start ==
    /\ stage = "down"
    /\ IF Present
       THEN stage' = "load" /\ UNCHANGED <<pair, botched>>
       ELSE stage' = "newCert" /\ pair' = Fresh /\ botched' = FALSE
    /\ UNCHANGED <<file, disk, faulty, served, visitVars>>

\* writePEM opens a file, which creates or empties it ...
OpenPEM ==
    /\ \/ stage = "newCert" /\ Writes("cert", Torn) /\ stage' = "inCert"
       \/ stage = "newKey" /\ Writes("key", Torn) /\ stage' = "inKey"
    /\ UNCHANGED <<disk, faulty, certVars, visitVars>>

\* ... and writes it.
WritePEM ==
    /\ \/ stage = "inCert" /\ Writes("cert", pair) /\ stage' = "newKey"
       \/ stage = "inKey" /\ Writes("key", pair) /\ stage' = "load"
    /\ UNCHANGED <<disk, faulty, certVars, visitVars>>

\* Ending now leaves two files that are no pair: the key is being written, or
\* there is an old key beside the new certificate.
AtBadMoment ==
    \/ stage = "inKey"
    \/ stage \in {"inCert", "newKey"} /\ file["key"] # Absent

\* Either fails: the error is fatal.
PEMFails ==
    /\ faulty
    /\ stage \in {"newCert", "inCert", "newKey", "inKey"}
    /\ stage' = "down" /\ pair' = NoPair
    /\ botched' = AtBadMoment
    /\ UNCHANGED <<file, disk, faulty, served, visitVars>>

-----------------------------------------------------------------------------

\* Mutated Counted: what does not parse is taken as it is.
CountedAsIs == file["visits"]

\* newVisitCounter: what does not parse counts as nothing.
Counted == IF file["visits"] \in {Absent, Torn} THEN 0 ELSE file["visits"]

\* The pair is loaded: ListenAndServeTLS refuses any other.  The counter, which
\* buildRouter has read shortly before, is read in the same step: nothing writes
\* it before the server is up.
Load ==
    /\ stage = "load"
    /\ IF Matching
       THEN /\ stage' = "up" /\ n' = Counted
            /\ served' = file["cert"]
       ELSE stage' = "down" /\ UNCHANGED <<n, served>>
    /\ pair' = NoPair
    /\ UNCHANGED <<file, disk, faulty, botched, inc, shown, missed, forgotten>>

-----------------------------------------------------------------------------
(* visitCounter *)

\* A page is viewed: Inc, up to the first system call.
Inc ==
    /\ stage = "up" /\ inc = "idle" /\ n < MaxVisits
    /\ n' = n + 1
    /\ inc' = "open"
    /\ UNCHANGED <<file, disk, stage, faulty, certVars, shown, missed, forgotten>>

\* Mutated WriteScratch: the counter is overwritten in place.
WriteInPlace ==
    \/ inc = "open" /\ Writes("visits", Torn) /\ inc' = "write"
    \/ inc = "write" /\ Writes("visits", n) /\ inc' = "rename"

\* os.WriteFile opens the scratch file, and writes it.
WriteScratch ==
    /\ \/ inc = "open" /\ inc' = "write"
       \/ inc = "write" /\ inc' = "rename"
    /\ UNCHANGED file

WriteCount ==
    /\ stage = "up"
    /\ WriteScratch
    /\ UNCHANGED <<disk, stage, faulty, certVars, n, shown, missed, forgotten>>

\* os.Rename
Rename ==
    /\ stage = "up" /\ inc = "rename"
    /\ Writes("visits", n)
    /\ inc' = "idle"
    /\ missed' = FALSE
    /\ UNCHANGED <<disk, stage, faulty, certVars, n, shown, forgotten>>

\* Any of these fails, which is ignored.
IncFails ==
    /\ faulty
    /\ stage = "up" /\ inc # "idle"
    /\ inc' = "idle"
    /\ missed' = TRUE
    /\ UNCHANGED <<file, disk, stage, faulty, certVars, n, shown, forgotten>>

\* Get: the count is shown, between two Incs.
Get ==
    /\ stage = "up" /\ inc = "idle"
    /\ shown' = n
    /\ forgotten' = FALSE
    /\ UNCHANGED <<file, disk, stage, faulty, certVars, n, inc, missed>>

-----------------------------------------------------------------------------
(* Faults. *)

\* The process is gone, with what it had in memory.
Dies ==
    /\ stage' = "down" /\ inc' = "idle" /\ n' = 0 /\ missed' = FALSE
    /\ pair' = NoPair

\* The process is killed, or replaced.
Kill ==
    /\ faulty
    /\ stage # "down"
    /\ Dies
    /\ botched' = (botched \/ AtBadMoment)
    /\ forgotten' = (forgotten \/ missed)
    /\ UNCHANGED <<file, disk, faulty, served, shown>>

\* The machine writes its cache to the disk.
Flush ==
    /\ disk # file
    /\ disk' = file
    /\ UNCHANGED <<file, stage, faulty, certVars, visitVars>>

\* Files that the disk does not have as they are.
Unsynced == {f \in Files : disk[f] # file[f]}

\* What the loss of power can leave of a file: the old, the new, or the new
\* name without its content.
Remains(f) == IF f \in Unsynced THEN {disk[f], file[f], Torn} ELSE {file[f]}

PowerLoss ==
    /\ faulty
    /\ Dies
    /\ \E left \in [Files -> UNION {Remains(f) : f \in Files}] :
         /\ \A f \in Files : left[f] \in Remains(f)
         /\ file' = left /\ disk' = left
    /\ botched' = (botched \/ AtBadMoment \/ Unsynced \cap {"cert", "key"} # {})
    /\ served' = IF Unsynced \cap {"cert", "key"} # {} THEN NoPair ELSE served
    /\ forgotten' = (forgotten \/ missed \/ "visits" \in Unsynced)
    /\ UNCHANGED <<faulty, shown>>

\* Somebody deletes the certificate or the key, to have a new one made.
Delete ==
    /\ faulty
    /\ stage \in {"down", "up"}
    /\ \E f \in {"cert", "key"} : file[f] # Absent /\ Writes(f, Absent)
    /\ served' = NoPair
    /\ UNCHANGED <<disk, stage, faulty, pair, botched, visitVars>>

Repair ==
    /\ faulty
    /\ faulty' = FALSE
    /\ UNCHANGED <<file, disk, stage, certVars, visitVars>>

Next ==
    \/ Start \/ OpenPEM \/ WritePEM \/ PEMFails \/ Load
    \/ Inc \/ WriteCount \/ Rename \/ IncFails \/ Get
    \/ Kill \/ Flush \/ PowerLoss \/ Delete \/ Repair

Spec == Init /\ [][Next]_vars

\* The container is restarted whenever it exits; a process goes on.
Fairness ==
    /\ WF_vars(Start)
    /\ WF_vars(OpenPEM)
    /\ WF_vars(WritePEM)
    /\ WF_vars(Load)

FairSpec == Spec /\ Fairness

-----------------------------------------------------------------------------

\* tls.go: "persisting the files (e.g. on a volume) keeps it stable across
\* restarts so the trust holds".  A certificate that was served is the one that
\* is served, after any number of kills and failures, until somebody deletes it
\* or the power fails before it was on the disk.
TrustHolds ==
    [][stage # "up" /\ stage' = "up" =>
         served = NoPair \/ served' = served]_vars

\* Two files that are no pair are taken for one by every start from then on, and
\* the server never comes up.  This happens only when the making of the pair was
\* cut off at a bad moment; cut off anywhere else, the next start repairs it.
OnlyBotched == stage = "down" /\ Present /\ ~Matching => botched

\* The count that is shown never falls, across any number of kills, unless the
\* writing of the last one failed or the power did.
CountGrows == [][shown' # shown => shown' > shown \/ forgotten]_vars

\* Once the faults are over the server comes up, unless a pair was botched.
ComesUp == <>[](~faulty) => <>[](stage = "up" \/ botched)
=============================================================================
