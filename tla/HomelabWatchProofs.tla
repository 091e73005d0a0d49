------------------------- MODULE HomelabWatchProofs -------------------------
(***************************************************************************)
(* HomelabWatch for every set of sources, every limit and period, every    *)
(* alertConfirm and alertHeartbeat: the debouncing of the alerter, and     *)
(* what an observation of ok is worth.                                     *)
(***************************************************************************)
EXTENDS HomelabWatch, TLAPS

\* The candidate and its count are what was observed last, unless that is what
\* was announced.
Debounced ==
    /\ started => last \in Statuses /\ posted \in Statuses /\ held > 0
    /\ ~started => posted = None /\ last = None /\ held = 0
    /\ last = posted => candidate = None /\ candidateN = 0
    /\ last # posted => candidate = last /\ candidateN = held

\* Probes are polled on time.
Polled == \A q \in Probes : heard[q] <= Limit[q]

\* What was heard to be well, and read in full, was well when it was heard.
WellWhenHeard ==
    \A s \in Sources :
        /\ truth[s] = "ok" => sinceOk[s] = 0
        /\ report[s] = "ok" /\ s \notin BestEffort => sinceOk[s] <= heard[s]

\* No observation of ok overlooked a stale report; that was waited minutes ago.
Noticed ==
    last = "ok" =>
        \A p \in Pushers : report[p] # None => heard[p] <= Limit[p] + waited

IInv == TypeOK /\ Debounced /\ SilenceMeansTrouble /\ Polled /\ WellWhenHeard /\ Noticed

USE DEF None, Down, Statuses

-----------------------------------------------------------------------------
(* The alerter. *)

LEMMA UpToBounds ==
    ASSUME NEW max \in Nat, NEW n \in 0..max
    PROVE  /\ UpTo(max, n) \in 0..max
           /\ n < max => UpTo(max, n) = n + 1
           /\ n = max => UpTo(max, n) = max
  BY DEF UpTo

LEMMA AlertInitial == AlertInit => AlertTypeOK /\ Debounced /\ SilenceMeansTrouble
<1> SUFFICES ASSUME AlertInit PROVE AlertTypeOK /\ Debounced /\ SilenceMeansTrouble
  OBVIOUS
<1> USE AlertAssumption DEF AlertInit
<1>1. AlertTypeOK
  <2>1. started \in BOOLEAN
    OBVIOUS
  <2>2. 0 \in 0..(Confirm - 1) /\ 0 \in 0..Heartbeat /\ 0 \in 0..Confirm
    OBVIOUS
  <2> QED  BY <2>1, <2>2 DEF AlertTypeOK
<1>2. Debounced
  BY DEF Debounced
<1>3. SilenceMeansTrouble
  BY DEF SilenceMeansTrouble
<1> QED  BY <1>1, <1>2, <1>3

LEMMA AlertRestarts ==
    AlertTypeOK /\ AlertFresh => AlertTypeOK' /\ Debounced' /\ SilenceMeansTrouble'
<1> SUFFICES ASSUME AlertTypeOK, AlertFresh
             PROVE  AlertTypeOK' /\ Debounced' /\ SilenceMeansTrouble'
  OBVIOUS
<1> USE AlertAssumption DEF AlertFresh
<1>1. AlertTypeOK'
  <2>1. started' \in BOOLEAN
    OBVIOUS
  <2>2. 0 \in 0..(Confirm - 1) /\ 0 \in 0..Heartbeat /\ 0 \in 0..Confirm
    OBVIOUS
  <2> QED  BY <2>1, <2>2 DEF AlertTypeOK
<1>2. Debounced'
  BY DEF Debounced
<1>3. SilenceMeansTrouble'
  BY DEF SilenceMeansTrouble
<1> QED  BY <1>1, <1>2, <1>3

\* How often in a row s was observed, and what the candidate says of it.
LEMMA SeenIsHeld ==
    ASSUME AlertTypeOK, Debounced, started,
           NEW s \in Statuses, s # posted
    PROVE  /\ Seen(s) \in 1..Confirm
           /\ (IF s = last THEN UpTo(Confirm, held) ELSE 1) = Seen(s)
  BY AlertAssumption DEF AlertTypeOK, Debounced, Seen, UpTo

LEMMA ObserveStep ==
    ASSUME AlertTypeOK, Debounced, SilenceMeansTrouble,
           NEW s \in Statuses, NEW arrives \in BOOLEAN, Observe(s, arrives)
    PROVE  /\ AlertTypeOK' /\ Debounced' /\ SilenceMeansTrouble'
           /\ posted' # posted => (held' = Confirm /\ last' = posted') \/ ~started
<1> DEFINE heldNow == IF s = last THEN UpTo(Confirm, held) ELSE 1
<1>1. last' = s /\ held' = heldNow /\ heldNow \in 1..Confirm
  BY AlertAssumption, UpToBounds DEF Observe, AlertTypeOK, UpTo
<1>2. UpTo(Heartbeat, quiet) \in 0..Heartbeat
  BY AlertAssumption, UpToBounds DEF AlertTypeOK
<1> HIDE DEF heldNow
<1>3. CASE Adopt(s, arrives)
  BY <1>1, <1>3, AlertAssumption
     DEF Adopt, Post, AlertTypeOK, Debounced, SilenceMeansTrouble
<1>4. CASE Stay(s, arrives)
  BY <1>1, <1>2, <1>4, AlertAssumption
     DEF Stay, Post, AlertTypeOK, Debounced, SilenceMeansTrouble
<1>5. CASE Waver(s)
  <2>1. Seen(s) = heldNow /\ Seen(s) \in 1..(Confirm - 1)
    BY <1>5, SeenIsHeld, AlertAssumption DEF Waver, heldNow
  <2> QED
    BY <1>1, <1>2, <1>5, <2>1, AlertAssumption
       DEF Waver, AlertTypeOK, Debounced, SilenceMeansTrouble
<1>6. CASE Announce(s, arrives)
  <2>1. heldNow = Confirm
    BY <1>6, SeenIsHeld, AlertAssumption DEF Announce, heldNow
  <2> QED
    BY <1>1, <1>6, <2>1, AlertAssumption
       DEF Announce, Post, AlertTypeOK, Debounced, SilenceMeansTrouble
<1> QED  BY <1>3, <1>4, <1>5, <1>6 DEF Observe

\* An unchanged alerter keeps what holds of it.
LEMMA AlertIdle ==
    AlertTypeOK /\ Debounced /\ SilenceMeansTrouble /\ UNCHANGED alertVars
        => AlertTypeOK' /\ Debounced' /\ SilenceMeansTrouble'
  BY DEF AlertTypeOK, Debounced, SilenceMeansTrouble, alertVars

-----------------------------------------------------------------------------
(* The sources and the roll-up. *)

LEMMA StatusType == Status \in Statuses
  BY DEF Status

\* The bounds of the counters leave room for what is compared.
LEMMA Bounds ==
    ASSUME NEW s \in Sources
    PROVE  /\ Limit[s] \in Nat /\ Limit[s] > 0
           /\ Oldest(s) \in Nat /\ Overdue(s) \in Nat
           /\ Limit[s] < Overdue(s) /\ Overdue(s) <= Oldest(s)
           /\ AlertEvery \in Nat /\ AlertEvery > 0
           /\ Oldest(s) = Limit[s] + AlertEvery + 1
  BY WatchAssumption DEF Oldest, Overdue

\* A roll-up of ok: what is in it said so, and not too long ago.
LEMMA OkMeans ==
    ASSUME TypeOK, Polled, Status = "ok", NEW s \in Sources, report[s] # None
    PROVE  report[s] = "ok" /\ heard[s] <= Limit[s]
<1>1. ~Fails(s) /\ ~Warns(s)
  BY DEF Status
<1>2. CASE s \in Pushers
  BY <1>1, <1>2, Bounds DEF TypeOK, Fails, Warns, Stale, Sources
<1>3. CASE s \in Probes
  <2>1. Blind[s] \in {"warn", "bad"}
    BY <1>3, WatchAssumption
  <2> QED  BY <1>1, <1>3, <2>1 DEF TypeOK, Fails, Warns, Unread, Polled
<1> QED  BY <1>2, <1>3 DEF Sources

LEMMA TypeStep == TypeOK /\ AlertTypeOK' /\ [Next]_vars => TypeOK'
<1> SUFFICES ASSUME TypeOK, AlertTypeOK', [Next]_vars PROVE TypeOK'
  OBVIOUS
<1> USE DEF TypeOK
<1>1. ASSUME NEW s \in Sources, Change(s) PROVE TypeOK'
  BY <1>1, Bounds, WatchAssumption DEF Change, Sources
<1>2. ASSUME NEW p \in Pushers, Push(p) PROVE TypeOK'
  BY <1>2, Bounds DEF Push, Sources
<1>3. ASSUME NEW q \in Probes, Refresh(q) PROVE TypeOK'
  BY <1>3, Bounds, WatchAssumption DEF Refresh, Readings, Sources
<1>4. ASSUME NEW arrives \in BOOLEAN, Alert(arrives) PROVE TypeOK'
  BY <1>4, WatchAssumption DEF Alert
<1>5. CASE Tick
  <2>1. waited' \in 0..AlertEvery
    BY <1>5, WatchAssumption DEF Tick
  <2>2. ASSUME NEW s \in Sources
        PROVE  /\ heard'[s] \in Nat /\ heard'[s] <= Oldest(s)
               /\ sinceOk'[s] \in Nat /\ sinceOk'[s] <= Overdue(s)
    BY <1>5, Bounds DEF Tick, UpTo
  <2>3. /\ heard' \in [Sources -> Nat]
        /\ sinceOk' \in [Sources -> Nat]
    <3>1. /\ heard' = [s \in Sources |-> heard'[s]]
          /\ sinceOk' = [s \in Sources |-> sinceOk'[s]]
      BY <1>5 DEF Tick
    <3> QED  BY <2>2, <3>1
  <2> QED  BY <1>5, <2>1, <2>2, <2>3 DEF Tick, Oldest, Overdue
<1>6. CASE Restart
  BY <1>6, Bounds, WatchAssumption DEF Restart, NothingHeard, Sources
<1>7. CASE UNCHANGED vars
  BY <1>7 DEF vars, watchVars
<1> QED  BY <1>1, <1>2, <1>3, <1>4, <1>5, <1>6, <1>7 DEF Next

\* A minute passes for a source.
LEMMA TickCounts ==
    ASSUME TypeOK, Tick, NEW s \in Sources
    PROVE  /\ heard'[s] = IF heard[s] < Oldest(s) THEN heard[s] + 1 ELSE Oldest(s)
           /\ sinceOk'[s] <= sinceOk[s] + 1 /\ sinceOk'[s] <= Overdue(s)
           /\ sinceOk'[s] \in Nat /\ sinceOk[s] \in Nat /\ heard[s] \in Nat
           /\ heard[s] <= Oldest(s)
  BY Bounds DEF TypeOK, Tick, UpTo

LEMMA PolledStep == TypeOK /\ Polled /\ [Next]_vars => Polled'
<1> SUFFICES ASSUME TypeOK, Polled, [Next]_vars, NEW q \in Probes
             PROVE  heard'[q] <= Limit[q]
  BY DEF Polled
<1>0. heard[q] <= Limit[q] /\ heard[q] \in Nat /\ q \in Sources
  BY DEF Polled, TypeOK, Sources
<1>1. ASSUME NEW s \in Sources, Change(s) PROVE heard' = heard
  BY <1>1 DEF Change
<1>2. ASSUME NEW p \in Pushers, Push(p) PROVE heard'[q] <= Limit[q]
  BY <1>0, <1>2, WatchAssumption, Bounds DEF Push, TypeOK, Sources
<1>3. ASSUME NEW r \in Probes, Refresh(r) PROVE heard'[q] <= Limit[q]
  BY <1>0, <1>3, Bounds DEF Refresh, TypeOK
<1>4. ASSUME NEW arrives \in BOOLEAN, Alert(arrives) PROVE heard' = heard
  BY <1>4 DEF Alert
<1>5. CASE Tick
  <2>1. heard[q] < Limit[q]
    BY <1>5 DEF Tick
  <2> QED  BY <1>0, <1>5, <2>1, TickCounts, Bounds
<1>6. CASE Restart
  BY <1>0, <1>6, WatchAssumption, Bounds DEF Restart, Sources
<1>7. CASE UNCHANGED vars
  BY <1>0, <1>7 DEF vars, watchVars
<1> QED  BY <1>0, <1>1, <1>2, <1>3, <1>4, <1>5, <1>6, <1>7 DEF Next

LEMMA WellWhenHeardStep == TypeOK /\ WellWhenHeard /\ [Next]_vars => WellWhenHeard'
<1> DEFINE Well(s) == /\ truth[s] = "ok" => sinceOk[s] = 0
                      /\ report[s] = "ok" /\ s \notin BestEffort => sinceOk[s] <= heard[s]
<1> SUFFICES ASSUME TypeOK, WellWhenHeard, [Next]_vars, NEW s \in Sources
             PROVE  Well(s)'
  BY DEF WellWhenHeard
<1>0. heard[s] \in Nat /\ sinceOk[s] \in Nat /\ Well(s)
  BY DEF WellWhenHeard, TypeOK
<1>1. ASSUME NEW r \in Sources, Change(r) PROVE Well(s)'
  BY <1>0, <1>1 DEF Change, TypeOK
<1>2. ASSUME NEW p \in Pushers, Push(p) PROVE Well(s)'
  BY <1>0, <1>2 DEF Push, TypeOK
<1>3. ASSUME NEW q \in Probes, Refresh(q) PROVE Well(s)'
  BY <1>0, <1>3 DEF Refresh, Readings, TypeOK
<1>4. ASSUME NEW arrives \in BOOLEAN, Alert(arrives) PROVE Well(s)'
  BY <1>0, <1>4 DEF Alert
<1>5. CASE Tick
  <2>1. truth' = truth /\ report' = report /\ (truth[s] = "ok" => sinceOk'[s] = 0)
    BY <1>5 DEF Tick
  <2> QED  BY <1>0, <1>5, <2>1, TickCounts, Bounds
<1>6. CASE Restart
  <2>1. report'[s] # "ok" /\ truth' = truth /\ sinceOk' = sinceOk
    BY <1>6 DEF Restart, NothingHeard
  <2> QED  BY <1>0, <2>1
<1>7. CASE UNCHANGED vars
  BY <1>0, <1>7 DEF vars, watchVars
<1> QED  BY <1>1, <1>2, <1>3, <1>4, <1>5, <1>6, <1>7 DEF Next

LEMMA NoticedStep == TypeOK /\ Polled /\ Noticed /\ [Next]_vars => Noticed'
<1> DEFINE Fresh(p) == report[p] # None => heard[p] <= Limit[p] + waited
<1> SUFFICES ASSUME TypeOK, Polled, Noticed, [Next]_vars,
                    last' = "ok", NEW p \in Pushers
             PROVE  Fresh(p)'
  BY DEF Noticed
<1>0. /\ p \in Sources /\ heard[p] \in Nat /\ waited \in Nat
      /\ Limit[p] \in Nat /\ (last = "ok" => Fresh(p))
  BY Bounds, WatchAssumption DEF Noticed, TypeOK, Sources
<1>1. ASSUME NEW s \in Sources, Change(s) PROVE Fresh(p)'
  BY <1>0, <1>1 DEF Change, alertVars
<1>2. ASSUME NEW r \in Pushers, Push(r) PROVE Fresh(p)'
  BY <1>0, <1>2 DEF Push, TypeOK, alertVars
<1>3. ASSUME NEW q \in Probes, Refresh(q) PROVE Fresh(p)'
  BY <1>0, <1>3, WatchAssumption DEF Refresh, Readings, TypeOK, alertVars
<1>4. ASSUME NEW arrives \in BOOLEAN, Alert(arrives) PROVE Fresh(p)'
  <2>1. Status = "ok" /\ report' = report /\ heard' = heard /\ waited' = 0
    BY <1>4 DEF Alert, Observe
  <2> QED  BY <1>0, <2>1, OkMeans
<1>5. CASE Tick
  <2>1. report' = report /\ waited' = waited + 1 /\ last' = last
    BY <1>5 DEF Tick, alertVars
  <2>2. heard'[p] <= heard[p] + 1
    BY <1>0, <1>5, TickCounts, Bounds
  <2>3. heard'[p] \in Nat
    BY <1>0, <1>5, TickCounts, Bounds
  <2> QED  BY <1>0, <2>1, <2>2, <2>3
<1>6. CASE Restart
  BY <1>6 DEF Restart, AlertFresh
<1>7. CASE UNCHANGED vars
  BY <1>0, <1>7 DEF vars, watchVars, alertVars
<1> QED  BY <1>1, <1>2, <1>3, <1>4, <1>5, <1>6, <1>7 DEF Next

-----------------------------------------------------------------------------
(* The theorems. *)

LEMMA InitIInv == Init => IInv
<1> SUFFICES ASSUME Init PROVE IInv
  OBVIOUS
<1>1. AlertTypeOK /\ Debounced /\ SilenceMeansTrouble
  BY AlertInitial DEF Init
<1>2. TypeOK
  BY <1>1, Bounds, WatchAssumption DEF Init, NothingHeard, TypeOK, Sources
<1>3. Polled /\ WellWhenHeard /\ Noticed
  BY Bounds, WatchAssumption
     DEF Init, NothingHeard, AlertInit, Polled, WellWhenHeard, Noticed, Sources
<1> QED  BY <1>1, <1>2, <1>3 DEF IInv

\* What a step does to the alerter.
LEMMA AlertStep ==
    IInv /\ [Next]_vars =>
        /\ AlertTypeOK' /\ Debounced' /\ SilenceMeansTrouble'
        /\ posted' # posted /\ posted' # None =>
             (held' = Confirm /\ last' = posted') \/ ~started
<1> SUFFICES ASSUME IInv, [Next]_vars
             PROVE  /\ AlertTypeOK' /\ Debounced' /\ SilenceMeansTrouble'
                    /\ posted' # posted /\ posted' # None =>
                         (held' = Confirm /\ last' = posted') \/ ~started
  OBVIOUS
<1>0. AlertTypeOK /\ Debounced /\ SilenceMeansTrouble
  BY DEF IInv, TypeOK
<1>1. CASE UNCHANGED alertVars
  BY <1>0, <1>1, AlertIdle DEF alertVars
<1>2. CASE AlertFresh
  BY <1>0, <1>2, AlertRestarts DEF AlertFresh
<1>3. ASSUME NEW arrives \in BOOLEAN, Alert(arrives)
      PROVE  /\ AlertTypeOK' /\ Debounced' /\ SilenceMeansTrouble'
             /\ posted' # posted => (held' = Confirm /\ last' = posted') \/ ~started
  BY <1>0, <1>3, StatusType, ObserveStep DEF Alert
<1>4. \/ UNCHANGED alertVars \/ AlertFresh \/ \E arrives \in BOOLEAN : Alert(arrives)
  BY DEF Next, Change, Push, Refresh, Tick, Restart, vars
<1> QED  BY <1>1, <1>2, <1>3, <1>4

LEMMA IInvStep == IInv /\ [Next]_vars => IInv'
<1> SUFFICES ASSUME IInv, [Next]_vars PROVE IInv'
  OBVIOUS
<1>1. AlertTypeOK' /\ Debounced' /\ SilenceMeansTrouble'
  BY AlertStep
<1> QED
  BY <1>1, TypeStep, PolledStep, WellWhenHeardStep, NoticedStep DEF IInv

THEOREM WatchInductive == Spec => []IInv
  BY InitIInv, IInvStep, PTL DEF Spec

\* The stores, the probes and the alerter hold values of their types.
THEOREM WatchTypeCorrect == Spec => []TypeOK
<1>1. IInv => TypeOK
  BY DEF IInv
<1> QED  BY <1>1, WatchInductive, PTL

\* Whatever sequence of statuses the alerter observes, one that holds for
\* alertConfirm observations is the one announced (alertState.step).
THEOREM SettledIsAnnounced == Spec => []SettledIsPosted
<1>1. IInv => SettledIsPosted
  BY AlertAssumption DEF IInv, TypeOK, AlertTypeOK, Debounced, SettledIsPosted
<1> QED  BY <1>1, WatchInductive, PTL

\* No status is announced before it held for alertConfirm observations, but the
\* first of a process (alertState.step).
THEOREM NeverHasty == Spec => NothingHasty
<1>1. IInv /\ [Next]_vars =>
        [posted' # posted /\ posted' # None =>
            (held' = Confirm /\ last' = posted') \/ ~started]_alertVars
  BY AlertStep
<1> QED  BY <1>1, WatchInductive, PTL DEF Spec, NothingHasty

\* Between two observations of a healthy homelab that was announced as such, a
\* heartbeat never falls due without being posted (alertState.step).
THEOREM HeartbeatKept == Spec => []SilenceMeansTrouble
<1>1. IInv => SilenceMeansTrouble
  BY DEF IInv
<1> QED  BY <1>1, WatchInductive, PTL

\* A pusher that falls silent is noticed by the observation after its limit
\* (buildHostPanel, buildEdgePanel).
THEOREM SilenceIsNoticed == Spec => []SilenceShows
<1>1. IInv => SilenceShows
  <2> SUFFICES ASSUME IInv, NEW p \in Pushers, report[p] # None,
                      heard[p] > Limit[p] + AlertEvery, last = "ok"
               PROVE  FALSE
    BY DEF SilenceShows
  <2>1. heard[p] <= Limit[p] + waited /\ p \in Sources
    BY DEF IInv, Noticed, Sources
  <2> QED  BY <2>1, Bounds DEF IInv, TypeOK
<1> QED  BY <1>1, WatchInductive, PTL

\* An observation of ok rests on news no older than the limits: nothing stale or
\* unreadable passes for healthy (buildInternalView).
THEOREM OkRestsOnRecentNews == Spec => OkIsRecent
<1>1. IInv /\ [Next]_vars =>
        [waited = AlertEvery /\ waited' = 0 /\ last' = "ok" =>
           \A s \in Sources \ BestEffort :
               report[s] # None => sinceOk[s] <= Limit[s]]_vars
  <2> SUFFICES ASSUME IInv, [Next]_vars,
                      waited = AlertEvery, waited' = 0, last' = "ok",
                      NEW s \in Sources \ BestEffort, report[s] # None
               PROVE  sinceOk[s] <= Limit[s]
    OBVIOUS
  <2>1. PICK arrives \in BOOLEAN : Alert(arrives)
    BY WatchAssumption
       DEF Next, Change, Push, Refresh, Tick, Restart, AlertFresh, vars, watchVars
  <2>2. Status = "ok"
    BY <2>1 DEF Alert, Observe
  <2>3. report[s] = "ok" /\ heard[s] <= Limit[s]
    BY <2>2, OkMeans DEF IInv
  <2> QED  BY <2>3, Bounds DEF IInv, TypeOK, WellWhenHeard
<1> QED  BY <1>1, WatchInductive, PTL DEF Spec, OkIsRecent
=============================================================================
