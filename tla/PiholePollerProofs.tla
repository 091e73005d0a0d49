------------------------- MODULE PiholePollerProofs -------------------------
(***************************************************************************)
(* PiholePoller for any number of seats, names and ticks, and for a        *)
(* Pi-hole that fails, revokes and answers as it pleases: what the poller  *)
(* costs, and what it publishes.                                           *)
(***************************************************************************)
EXTENDS PiholePoller, FiniteSetTheorems, TLAPS

\* The sessions the poller is answerable for.
Held == Live \ strays

\* Only sid and the session before it are held; and the one before lapses no
\* later than the poller gives up the one in use.
TwoHeld ==
    /\ Held \subseteq {sid, prev}
    /\ prev # NoSid =>
         /\ prev \in Held /\ prev # sid
         /\ life[prev] < Validity
         /\ sid \in Held => life[prev] <= left
    /\ left = 0 /\ sid \in Held => life[sid] < Validity

\* Where getJSON is tells what it knows of the session.
StageFits ==
    /\ request = "idle" => stage = "ensure"
    /\ stage = "reauth" => sid \notin Live
    /\ stage \in {"get", "again"} /\ sid \in Held => left > 0

\* The one session beyond those that were revoked is in use.
OneToSpare ==
    \/ granted <= revoked
    \/ granted = 1 + revoked /\ sid \in Held /\ left > 0

\* The requests are made in order, and what has been read was so in this poll.
ReadInOrder ==
    /\ request \notin {"summary", "idle"} => "summary" \in answered
    /\ request \in {"clients", "blocking"} => "top" \in answered
    /\ request # "idle" => blocking \in witnessed
    /\ read \in witnessed \cup {Unread}

SeatInv == TypeOK /\ StageFits /\ TwoHeld

-----------------------------------------------------------------------------

LEMMA AfterType ==
    ASSUME NEW r \in Requests
    PROVE  After[r] \in Requests \cup {"idle"}
  BY DEF After, Requests, Required, BestEffort

\* Whatever becomes of a request, getJSON is through with it.
LEMMA ProceedType ==
    ASSUME TypeOK, request \in Requests, NEW seen \in States \cup {Unread}, Proceed(seen)
    PROVE  /\ request' \in Requests \cup {"idle"} /\ stage' = "ensure"
           /\ read' \in States \cup {Unread}
           /\ snap' \in [up : BOOLEAN, blocking : States \cup {Unread}]
  BY AfterType DEF TypeOK, Proceed

LEMMA NothingType == Nothing \in [up : BOOLEAN, blocking : States \cup {Unread}]
  BY Zenon DEF Nothing

LEMMA FailType ==
    ASSUME TypeOK, request \in Requests, Fail
    PROVE  /\ request' \in Requests \cup {"idle"} /\ stage' = "ensure"
           /\ read' \in States \cup {Unread}
           /\ snap' \in [up : BOOLEAN, blocking : States \cup {Unread}]
<1>1. CASE request \in Required
  BY <1>1, NothingType DEF TypeOK, Fail
<1>2. CASE request \notin Required
  <2>1. read \in States \cup {Unread} /\ Proceed(read)
    BY <1>2 DEF TypeOK, Fail
  <2> QED  BY <2>1, ProceedType
<1> QED  BY <1>1, <1>2

LEMMA AnswerType ==
    ASSUME TypeOK, request \in Requests, Answer
    PROVE  /\ request' \in Requests \cup {"idle"} /\ stage' = "ensure"
           /\ read' \in States \cup {Unread}
           /\ snap' \in [up : BOOLEAN, blocking : States \cup {Unread}]
           /\ answered' \subseteq Requests
<1> DEFINE seen == IF request = "blocking" THEN blocking ELSE read
<1>1. seen \in States \cup {Unread}
  BY DEF TypeOK
<1>2. Proceed(seen) /\ answered' \subseteq Requests
  BY DEF Answer, TypeOK
<1> HIDE DEF seen
<1> QED  BY <1>1, <1>2, ProceedType

LEMMA Busy ==
    ASSUME TypeOK, Authenticating \/ Getting
    PROVE  request \in Requests
  BY DEF TypeOK, Authenticating, Getting

LEMMA LastingType == Lasting \subseteq 1..Validity /\ Lasting = {1, Validity}
  BY PiholeAssumption DEF Lasting

LEMMA TypeStep == TypeOK /\ [Next]_vars => TypeOK'
<1> SUFFICES ASSUME TypeOK, [Next]_vars PROVE TypeOK'
  OBVIOUS
<1>1. CASE Poll
  BY <1>1 DEF TypeOK, Poll, serverVars, Requests, Required
<1>2. ASSUME NEW i \in Ids, NEW v \in Lasting, Granted(i, v) PROVE TypeOK'
  BY <1>2, LastingType, PiholeAssumption DEF TypeOK, Granted, Seated, Kept
<1>3. ASSUME NEW i \in Ids, NEW v \in Lasting, GrantLost(i, v) PROVE TypeOK'
  <2>1. life' \in [Ids -> 0..Validity]
    BY <1>3, LastingType DEF TypeOK, GrantLost, Seated
  <2> QED  BY <1>3, <2>1, Busy, FailType DEF TypeOK, GrantLost, Seated
<1>4. CASE Refused
  BY <1>4, Busy, FailType DEF TypeOK, Refused, serverVars
<1>5. CASE Served
  <2>1. sid \in Ids /\ life' \in [Ids -> 0..Validity]
    BY <1>5, PiholeAssumption DEF TypeOK, Served, Live
  <2> QED  BY <1>5, <2>1, Busy, AnswerType DEF TypeOK, Served
<1>6. CASE Unauthorized
  <2>1. CASE stage = "again"
    BY <1>6, <2>1, Busy, FailType DEF TypeOK, Unauthorized, serverVars
  <2>2. CASE stage # "again"
    BY <1>6, <2>2 DEF TypeOK, Unauthorized, serverVars
  <2> QED  BY <2>1, <2>2
<1>7. CASE Unanswered
  BY <1>7, Busy, FailType DEF TypeOK, Unanswered, serverVars
<1>8. CASE Tick
  BY <1>8, PiholeAssumption DEF TypeOK, Tick
<1>9. ASSUME NEW i \in Ids, Revoke(i) PROVE TypeOK'
  BY <1>9, PiholeAssumption DEF TypeOK, Revoke, clientVars
<1>10. CASE Toggle
  BY <1>10 DEF TypeOK, Toggle, clientVars
<1>11. CASE Repair
  BY <1>11 DEF TypeOK, Repair, clientVars, historyVars
<1>12. CASE Restart
  BY <1>12, PiholeAssumption DEF TypeOK, Restart, serverVars, Nothing, Live, Unread
<1>13. CASE UNCHANGED vars
  BY <1>13 DEF TypeOK, vars, clientVars, serverVars, historyVars
<1> QED  BY <1>1, <1>2, <1>3, <1>4, <1>5, <1>6, <1>7, <1>8, <1>9, <1>10, <1>11, <1>12, <1>13 DEF Next

LEMMA InitType == Init => TypeOK
  BY PiholeAssumption DEF Init, TypeOK, Nothing, States, Unread

\* The variables are of their types, whatever Pi-hole does: in particular the
\* session is taken to expire within its validity.
THEOREM PollerTypeCorrect == Spec => []TypeOK
  BY InitType, TypeStep, PTL DEF Spec

-----------------------------------------------------------------------------

\* A session is needed only when the one at hand is gone, is of no use, or has
\* been given up.
LEMMA NeededInVain ==
    ASSUME SeatInv, Authenticating
    PROVE  ~(sid \in Held /\ left > 0)
  BY PiholeAssumption DEF SeatInv, TypeOK, StageFits, Authenticating, Reusable, Held, Live

\* A newly seated session was not there before, and is not the one in use.
LEMMA NewSession ==
    ASSUME TypeOK, NEW i \in Ids, NEW v \in Lasting, Seated(i, v)
    PROVE  /\ i \notin Live /\ i # sid
           /\ life' = [life EXCEPT ![i] = v]
           /\ Live' = Live \cup {i}
  BY LastingType DEF TypeOK, Seated, Live

LEMMA GrantedSeats ==
    ASSUME SeatInv, NEW i \in Ids, NEW v \in Lasting, Granted(i, v)
    PROVE  StageFits' /\ TwoHeld'
<1>1. /\ i \notin Live /\ i # sid /\ Live' = Live \cup {i}
      /\ life' = [life EXCEPT ![i] = v]
      /\ ~(sid \in Held /\ left > 0)
      /\ request' # "idle"
      /\ sid' = i /\ left' = v - 1
      /\ prev' = IF sid \in Held THEN sid ELSE prev
      /\ stage' \in {"get", "again"}
  BY NewSession, NeededInVain DEF Granted, Authenticating, SeatInv, Kept, Held
<1>2. i \in Live' /\ i \notin Held
  BY <1>1 DEF Held
<1>3. CASE v = 1
  <2>1. Held' = Held
    BY <1>1, <1>3 DEF Held, Granted
  <2> QED  BY <1>1, <1>2, <1>3, <2>1, PiholeAssumption DEF SeatInv, TypeOK, StageFits, TwoHeld, Held, Live
<1>4. CASE v = Validity
  <2>1. Held' = Held \cup {i}
    BY <1>1, <1>4, PiholeAssumption DEF Held, Granted
  <2>2. StageFits'
    BY <1>1, <1>4, PiholeAssumption DEF StageFits
  <2>3. sid \in Held => prev = NoSid /\ left = 0 /\ life[sid] < Validity
    BY <1>1, PiholeAssumption DEF SeatInv, TypeOK, TwoHeld, Held, Live
  <2>4. prev' # NoSid => prev' \in Held /\ prev' # i /\ life[prev'] < Validity
    BY <1>1, <1>2, <2>3 DEF SeatInv, TwoHeld
  <2>5. Held' \subseteq {sid', prev'}
    BY <1>1, <2>1, <2>3, PiholeAssumption DEF SeatInv, TwoHeld, TypeOK, Held, Live
  <2>6. prev' # NoSid => life'[prev'] <= left' /\ life'[prev'] < Validity
    BY <1>1, <2>4, <1>4, PiholeAssumption DEF SeatInv, TypeOK, Held, Live
  <2>7. left' # 0
    BY <1>1, <1>4, PiholeAssumption
  <2> QED  BY <1>1, <2>1, <2>2, <2>4, <2>5, <2>6, <2>7 DEF TwoHeld
<1> QED  BY <1>3, <1>4, LastingType

LEMMA FailStage ==
    ASSUME TypeOK, Fail
    PROVE  stage' = "ensure"
  BY DEF Fail, Proceed

LEMMA SeatStep == SeatInv /\ [Next]_vars => StageFits' /\ TwoHeld'
<1> SUFFICES ASSUME SeatInv, [Next]_vars PROVE StageFits' /\ TwoHeld'
  OBVIOUS
<1> TypeOK /\ StageFits /\ TwoHeld
  BY DEF SeatInv
<1>1. CASE Poll
  BY <1>1 DEF StageFits, TwoHeld, Held, Live, Poll, serverVars
<1>2. ASSUME NEW i \in Ids, NEW v \in Lasting, Granted(i, v) PROVE StageFits' /\ TwoHeld'
  BY <1>2, GrantedSeats
<1>3. ASSUME NEW i \in Ids, NEW v \in Lasting, GrantLost(i, v) PROVE StageFits' /\ TwoHeld'
  <2>1. /\ i \notin Live /\ i # sid /\ Live' = Live \cup {i} /\ life' = [life EXCEPT ![i] = v]
        /\ strays' = strays \cup {i} /\ UNCHANGED <<sid, left, prev>> /\ stage' = "ensure"
    BY <1>3, NewSession, FailStage DEF GrantLost
  <2>2. Held' = Held /\ i \notin Held
    BY <2>1 DEF Held
  <2> QED  BY <2>1, <2>2 DEF StageFits, TwoHeld, Held, Live, TypeOK
<1>4. CASE Refused
  <2>1. stage' = "ensure"
    BY <1>4, FailStage DEF Refused
  <2> QED  BY <1>4, <2>1 DEF Refused, StageFits, TwoHeld, Held, Live, serverVars
<1>5. CASE Served
  <2>1. /\ sid \in Live /\ UNCHANGED <<sid, left, prev, strays>> /\ stage' = "ensure"
        /\ \/ life' = life
           \/ sid \notin strays /\ life' = [life EXCEPT ![sid] = Validity]
    BY <1>5 DEF Served, Answer, Proceed, TypeOK, Live
  <2>2. sid \in Held => left > 0
    BY <1>5 DEF Served, Getting, Reusable, StageFits
  <2>3. Live' = Live
    BY <2>1, PiholeAssumption DEF Live, TypeOK
  <2>4. Held' = Held
    BY <2>1, <2>3 DEF Held
  <2>5. prev # NoSid => /\ prev \in Held /\ prev # sid /\ life[prev] < Validity
                        /\ life'[prev] = life[prev]
                        /\ sid \in Held => life[prev] <= left
    BY <2>1 DEF TwoHeld, TypeOK
  <2>6. left = 0 => sid \notin Held
    BY <2>2
  <2> QED  BY <2>1, <2>4, <2>5, <2>6 DEF StageFits, TwoHeld
<1>6. CASE Unauthorized
  <2>1. sid \notin Live' /\ stage' \in {"ensure", "reauth"} /\ (request' = "idle" => stage' = "ensure")
    BY <1>6, FailStage DEF Unauthorized, serverVars, Live, Getting
  <2> QED  BY <1>6, <2>1 DEF Unauthorized, StageFits, TwoHeld, Held, Live, serverVars
<1>7. CASE Unanswered
  <2>1. stage' = "ensure"
    BY <1>7, FailStage DEF Unanswered
  <2> QED  BY <1>7, <2>1 DEF Unanswered, StageFits, TwoHeld, Held, Live, serverVars
<1>8. CASE Tick
  <2>1. \A i \in Ids : i \in Held' <=> i \in Held /\ life[i] > 1
    BY <1>8 DEF Tick, Held, Live, TypeOK
  <2>2. Held' \subseteq {sid', prev'}
    <3> SUFFICES ASSUME NEW i \in Ids, i \in Held' PROVE i \in {sid', prev'}
      BY DEF Held, Live
    <3>1. i \in Held /\ life[i] > 1 /\ i # NoSid
      BY <2>1, PiholeAssumption
    <3>2. ~(life[i] <= 1)
      BY <3>1 DEF TypeOK
    <3> QED  BY <1>8, <3>1, <3>2 DEF Tick, TwoHeld
  <2>3. prev' # NoSid => /\ prev' = prev /\ prev \in Ids /\ life[prev] > 1
                         /\ life'[prev] = life[prev] - 1
    BY <1>8 DEF Tick, TypeOK
  <2>4. prev' # NoSid => /\ prev' \in Held' /\ prev' # sid'
                         /\ life'[prev'] < Validity
                         /\ sid' \in Held' => life'[prev'] <= left'
    BY <1>8, <2>1, <2>3, PiholeAssumption DEF Tick, TwoHeld, TypeOK, Held, Live
  <2>5. sid' \in Held' => life'[sid'] < Validity
    BY <1>8, <2>1, PiholeAssumption DEF Tick, TypeOK, Held, Live
  <2> QED  BY <1>8, <2>2, <2>4, <2>5 DEF Tick, StageFits, TwoHeld
<1>9. ASSUME NEW i \in Ids, Revoke(i) PROVE StageFits' /\ TwoHeld'
  <2>1. Live' = Live \ {i} /\ Held' = Held \ {i}
    BY <1>9 DEF Revoke, Live, Held, TypeOK
  <2>2. StageFits'
    BY <1>9, <2>1 DEF Revoke, clientVars, StageFits
  <2>3. \A k \in Ids \ {i} : life'[k] = life[k]
    BY <1>9 DEF Revoke, TypeOK
  <2> QED  BY <1>9, <2>1, <2>2, <2>3, PiholeAssumption DEF Revoke, clientVars, TwoHeld, TypeOK, Held, Live
<1>10. CASE Toggle
  BY <1>10 DEF StageFits, TwoHeld, Held, Live, Toggle, clientVars
<1>11. CASE Repair
  BY <1>11 DEF StageFits, TwoHeld, Held, Live, Repair, clientVars, historyVars
<1>12. CASE Restart
  <2>1. Held' = {}
    BY <1>12 DEF Restart, Held, Live, serverVars
  <2> QED  BY <1>12, <2>1 DEF Restart, StageFits, TwoHeld, Held
<1>13. CASE UNCHANGED vars
  BY <1>13 DEF StageFits, TwoHeld, Held, Live, vars, clientVars, serverVars, historyVars
<1> QED  BY <1>1, <1>2, <1>3, <1>4, <1>5, <1>6, <1>7, <1>8, <1>9, <1>10, <1>11, <1>12, <1>13 DEF Next

LEMMA SeatInit == Init => SeatInv
  BY InitType, PiholeAssumption DEF Init, SeatInv, StageFits, TwoHeld, Held, Live

LEMMA SeatsHold == Spec => []SeatInv
<1>1. SeatInv /\ [Next]_vars => SeatInv'
  BY TypeStep, SeatStep DEF SeatInv
<1> QED  BY <1>1, SeatInit, PTL DEF Spec

\* The poller is answerable for two seats at most, for any number of seats and
\* any validity, whatever fails, is revoked or lapses.
THEOREM SeatsAlwaysBounded == Spec => []SeatsBounded
<1>1. SeatInv => SeatsBounded
  <2> SUFFICES ASSUME SeatInv PROVE Cardinality(Held) <= 2
    BY DEF SeatsBounded, Held
  <2> DEFINE Pair == {sid} \cup {prev}
  <2>1. IsFiniteSet({sid}) /\ Cardinality({sid}) = 1
    BY FS_Singleton
  <2>2. IsFiniteSet(Pair) /\ Cardinality(Pair) <= 2
    <3>1. CASE prev \in {sid}
      BY <2>1, <3>1, FS_AddElement
    <3>2. CASE prev \notin {sid}
      BY <2>1, <3>2, FS_AddElement
    <3> QED  BY <3>1, <3>2
  <2>3. Held \subseteq Pair
    BY DEF SeatInv, TwoHeld
  <2> HIDE DEF Pair
  <2>4. Cardinality(Held) <= Cardinality(Pair)
    BY <2>2, <2>3, FS_Subset
  <2> QED  BY <2>2, <2>3, <2>4, FS_Subset, FS_CardinalityType
<1> QED  BY <1>1, SeatsHold, PTL

-----------------------------------------------------------------------------

LEMMA SpareStep == SeatInv /\ OneToSpare /\ [Next]_vars => OneToSpare'
<1> SUFFICES ASSUME SeatInv, OneToSpare, [Next]_vars PROVE OneToSpare'
  OBVIOUS
<1> TypeOK /\ StageFits
  BY DEF SeatInv
<1>1. CASE Poll
  BY <1>1 DEF OneToSpare, Held, Live, Poll, serverVars
<1>2. ASSUME NEW i \in Ids, NEW v \in Lasting, Granted(i, v) PROVE OneToSpare'
  <2>1. granted <= revoked /\ revoked' = revoked
    BY <1>2, NeededInVain DEF OneToSpare, Granted
  <2>2. CASE v = 1
    BY <1>2, <2>1, <2>2 DEF OneToSpare, Granted
  <2>3. CASE v = Validity
    <3>1. granted' = granted + 1 /\ i \notin strays' /\ sid' = i /\ left' > 0
      BY <1>2, <2>3, PiholeAssumption DEF Granted, Kept
    <3>2. i \in Live'
      BY <1>2, NewSession DEF Granted
    <3> QED  BY <2>1, <3>1, <3>2 DEF OneToSpare, Held, TypeOK
  <2> QED  BY <2>2, <2>3, LastingType
<1>3. ASSUME NEW i \in Ids, NEW v \in Lasting, GrantLost(i, v) PROVE OneToSpare'
  <2>1. i # sid /\ Live' = Live \cup {i}
    BY <1>3, NewSession DEF GrantLost
  <2> QED  BY <1>3, <2>1 DEF GrantLost, OneToSpare, Held
<1>4. CASE Refused \/ Unauthorized \/ Unanswered
  BY <1>4 DEF OneToSpare, Held, Live, Refused, Unauthorized, Unanswered, serverVars
<1>5. CASE Served
  <2>1. sid \in Live /\ UNCHANGED <<sid, left, strays, granted, revoked>> /\ Live' = Live
    BY <1>5, PiholeAssumption DEF Served, TypeOK, Live
  <2> QED  BY <2>1 DEF OneToSpare, Held
<1>6. CASE Tick
  BY <1>6 DEF OneToSpare, Tick
<1>7. ASSUME NEW i \in Ids, Revoke(i) PROVE OneToSpare'
  <2>1. Live' = Live \ {i} /\ strays' = strays \ {i} /\ UNCHANGED <<sid, left, granted>>
    BY <1>7 DEF Revoke, Live, TypeOK, clientVars
  <2>2. CASE i = sid
    BY <1>7, <2>1, <2>2 DEF Revoke, OneToSpare, TypeOK
  <2>3. CASE i # sid
    BY <1>7, <2>1, <2>3 DEF Revoke, OneToSpare, Held
  <2> QED  BY <2>2, <2>3
<1>8. CASE Toggle \/ Repair
  BY <1>8 DEF OneToSpare, Held, Live, Toggle, Repair, clientVars, historyVars
<1>9. CASE Restart
  BY <1>9 DEF OneToSpare, Restart
<1>10. CASE UNCHANGED vars
  BY <1>10 DEF OneToSpare, Held, Live, vars, clientVars, serverVars, historyVars
<1> QED  BY <1>1, <1>2, <1>3, <1>4, <1>5, <1>6, <1>7, <1>8, <1>9, <1>10 DEF Next

\* A poll costs one session, and one more for each that Pi-hole ended under it.
THEOREM SessionAlwaysReused == Spec => []SessionReused
<1>1. Init => OneToSpare
  BY DEF Init, OneToSpare
<1>2. TypeOK /\ OneToSpare => SessionReused
  BY DEF TypeOK, OneToSpare, SessionReused
<1>3. SeatInv => TypeOK
  BY DEF SeatInv
<1> QED  BY <1>1, <1>2, <1>3, SpareStep, SeatsHold, PTL DEF Spec

-----------------------------------------------------------------------------

LEMMA OrderStep == TypeOK /\ ReadInOrder /\ [Next]_vars => ReadInOrder'
<1> SUFFICES ASSUME TypeOK, ReadInOrder, [Next]_vars PROVE ReadInOrder'
  OBVIOUS
<1> USE DEF ReadInOrder
<1>1. CASE Poll
  BY <1>1 DEF Poll, serverVars
<1>2. ASSUME NEW i \in Ids, NEW v \in Lasting, Granted(i, v) PROVE ReadInOrder'
  BY <1>2 DEF Granted, Seated
<1>3. ASSUME Fail, request \in Requests, UNCHANGED <<blocking, answered, witnessed>> PROVE ReadInOrder'
  <2>1. CASE request \in Required
    BY <1>3, <2>1 DEF Fail
  <2>2. CASE request \in BestEffort
    <3>1. request' = After[request] /\ read' = read /\ request \notin Required
      BY <2>2, <1>3 DEF Fail, Proceed, Required, BestEffort
    <3> QED  BY <1>3, <2>2, <3>1 DEF After, BestEffort, Required, Requests
  <2> QED  BY <1>3, <2>1, <2>2 DEF Requests
<1>4. ASSUME NEW i \in Ids, NEW v \in Lasting, GrantLost(i, v) PROVE ReadInOrder'
  BY <1>3, <1>4, Busy DEF GrantLost, Seated
<1>5. CASE Refused
  BY <1>3, <1>5, Busy DEF Refused, serverVars
<1>6. CASE Served
  <2>1. /\ request \in Requests /\ request' = After[request]
        /\ answered' = answered \cup {request}
        /\ read' = IF request = "blocking" THEN blocking ELSE read
        /\ UNCHANGED <<blocking, witnessed>>
    BY <1>6, Busy DEF Served, Answer, Proceed
  <2> QED  BY <2>1 DEF After, Requests, Required, BestEffort
<1>7. CASE Unauthorized
  <2>1. CASE stage = "again"
    BY <1>3, <1>7, <2>1, Busy DEF Unauthorized, serverVars
  <2>2. CASE stage # "again"
    BY <1>7, <2>2 DEF Unauthorized, serverVars
  <2> QED  BY <2>1, <2>2
<1>8. CASE Unanswered
  BY <1>3, <1>8, Busy DEF Unanswered, serverVars
<1>9. CASE Tick
  BY <1>9 DEF Tick
<1>10. ASSUME NEW i \in Ids, Revoke(i) PROVE ReadInOrder'
  BY <1>10 DEF Revoke, clientVars
<1>11. CASE Toggle
  BY <1>11 DEF Toggle, clientVars
<1>12. CASE Repair
  BY <1>12 DEF Repair, clientVars, historyVars
<1>13. CASE Restart
  BY <1>13 DEF Restart
<1>14. CASE UNCHANGED vars
  BY <1>14 DEF vars, clientVars, serverVars, historyVars
<1> QED  BY <1>1, <1>2, <1>4, <1>5, <1>6, <1>7, <1>8, <1>9, <1>10, <1>11, <1>12, <1>13, <1>14 DEF Next

\* The end of a poll that found Pi-hole up.
LEMMA HonestEnd ==
    ASSUME TypeOK, ReadInOrder, [Next]_vars, request # "idle", request' = "idle", snap'.up
    PROVE  /\ Required \subseteq answered
           /\ snap'.blocking \in witnessed \cup {Unread}
<1>1. ASSUME NEW seen \in witnessed \cup {Unread}, Proceed(seen)
      PROVE  /\ Required \subseteq answered
             /\ snap'.blocking \in witnessed \cup {Unread}
  <2>1. request \in Requests /\ request' = After[request]
    BY <1>1 DEF TypeOK, Proceed
  <2>2. request = "blocking"
    BY <2>1 DEF After, Requests, Required, BestEffort
  <2>3. snap' = [up |-> TRUE, blocking |-> seen]
    BY <1>1, <2>2 DEF Proceed
  <2>4. Required \subseteq answered
    BY <2>2 DEF Required, ReadInOrder
  <2> QED  BY <2>3, <2>4
<1>2. ~Nothing.up
  BY DEF Nothing
<1>3. CASE Fail
  <2>1. Proceed(read)
    BY <1>2, <1>3 DEF Fail
  <2> QED  BY <1>1, <2>1 DEF ReadInOrder
<1>4. CASE Answer
  <2> DEFINE seen == IF request = "blocking" THEN blocking ELSE read
  <2>1. seen \in witnessed \cup {Unread}
    BY DEF ReadInOrder
  <2>2. Proceed(seen)
    BY <1>4 DEF Answer
  <2> HIDE DEF seen
  <2> QED  BY <1>1, <2>1, <2>2
<1>5. CASE ~Fail /\ ~Answer
  BY <1>2, <1>5 DEF Next, vars, clientVars, Poll, Granted, GrantLost, Refused, Served,
     Unauthorized, Unanswered, Tick, Revoke, Toggle, Repair, Restart
<1> QED  BY <1>3, <1>4, <1>5

\* A poll publishes what it was told during this poll, and says that Pi-hole is
\* up only when both required requests were answered.
THEOREM SnapshotAlwaysHonest == Spec => SnapshotHonest
<1>1. Init => ReadInOrder
  BY DEF Init, ReadInOrder, Unread
<1>2. TypeOK /\ ReadInOrder /\ [Next]_vars =>
        [request # "idle" /\ request' = "idle" /\ snap'.up =>
           /\ Required \subseteq answered
           /\ snap'.blocking \in witnessed \cup {Unread}]_vars
  BY HonestEnd
<1> QED  BY <1>1, <1>2, OrderStep, PollerTypeCorrect, PTL DEF Spec, SnapshotHonest

=============================================================================
