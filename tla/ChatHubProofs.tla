--------------------------- MODULE ChatHubProofs ---------------------------
(***************************************************************************)
(* Theorems about ChatHub, for every value of its constants: types, what   *)
(* holds of the hub, the slots, what every client is sent, in which order, *)
(* and that the hub implements RoomFeed.                                   *)
(***************************************************************************)
EXTENDS ChatHub, FiniteSetTheorems, SequenceTheorems, WellFoundedInduction, TLAPS

-----------------------------------------------------------------------------
(* Types.  The message bound and the progress of a connection are needed to  *)
(* type the message numbers and the rooms.                                   *)

\* The messages read and the messages broadcast stay within the bound.
WithinBound == Len(log) + Cardinality(Pending) <= MaxMsgs

\* Only a client of a curated room gets past the handler's checks.
Curated == \A c \in Clients :
              handler[c] \notin {"idle", "refused"} => RoomOf[c] \in Rooms

\* The pumps run once the handler is past the upgrade, and not before.
PumpsStarted == \A c \in Clients :
              reader[c] # "none" <=> handler[c] \in {"registering", "announcing", "done"}

TInv == TypeOK /\ WithinBound /\ Curated /\ PumpsStarted

\* The frames that a handler builds are frames, whatever their contents.
LEMMA FrameTypes ==
    /\ \A n \in 1..MaxMsgs : ChatFrame(n) \in Frames
    /\ SystemFrame \in Frames
    /\ \A N \in SUBSET Names : RosterFrame(N) \in Frames
  BY DEF Frames, ChatFrames

\* What a frame is made of can be read back from it.
LEMMA FrameFields ==
    ASSUME NEW f \in Frames
    PROVE  /\ f.kind = "chat" => f.n \in 1..MaxMsgs
           /\ f.kind = "roster" => f.names \in SUBSET Names
<1>1. CASE f \in {ChatFrame(n) : n \in 1..MaxMsgs}
  BY <1>1 DEF ChatFrame
<1>2. CASE f = SystemFrame
  BY <1>2 DEF SystemFrame
<1>3. CASE f \in {RosterFrame(N) : N \in SUBSET Names}
  BY <1>3 DEF RosterFrame
<1> QED  BY <1>1, <1>2, <1>3 DEF Frames, ChatFrames

\* Names of clients are names.
LEMMA NamesOfType == \A S \in SUBSET Clients : NamesOf(S) \in SUBSET Names
  BY ChatAssumption DEF NamesOf

\* The types of the variables that a fan-out changes.
HubTypeOK ==
    /\ members \in [Rooms -> SUBSET Clients]
    /\ hub \in {"running", "stopped", "panicked"}
    /\ send \in [Clients -> Seq(Frames)]
    /\ closed \subseteq Clients
    /\ dropped \subseteq Clients

\* A frame offered to some clients leaves every buffer a sequence of frames.
LEMMA FanOutType ==
    ASSUME TypeOK, NEW r \in Rooms, NEW audience \in SUBSET Clients,
           NEW frame \in Frames, NEW shut \in SUBSET Clients,
           FanOut(r, audience, frame, shut)
    PROVE  HubTypeOK'
  BY DEF TypeOK, FanOut, Unnoticed, HubTypeOK

\* So does a roster.
LEMMA RosterType ==
    ASSUME TypeOK, NEW r \in Rooms, NEW audience \in SUBSET Clients,
           NEW shut \in SUBSET Clients, BroadcastRoster(r, audience, shut)
    PROVE  HubTypeOK'
<1>1. RosterFrame(NamesOf(audience)) \in Frames
  BY NamesOfType, FrameTypes
<1>2. FanOut(r, audience, RosterFrame(NamesOf(audience)), shut)
  BY DEF BroadcastRoster
<1> QED  BY <1>1, <1>2, FanOutType

\* And the system line of a join or a leave.
LEMMA SystemType ==
    ASSUME TypeOK, NEW r \in Rooms, BroadcastSystem(r)
    PROVE  HubTypeOK'
<1>1. members[r] \in SUBSET Clients /\ {} \in SUBSET Clients
  BY DEF TypeOK
<1>2. FanOut(r, members[r], SystemFrame, {})
  BY DEF BroadcastSystem
<1> QED  BY <1>1, <1>2, FrameTypes, FanOutType

\* acquire and release keep the limiter's counts where they are counts.
LEMMA LimiterType ==
    ASSUME LimiterTypeOK, NEW ip \in IPs, Acquire(ip) \/ Release(ip)
    PROVE  LimiterTypeOK'
  BY DEF LimiterTypeOK, Acquire, Release, limiterVars

\* The messages in hand are finitely many, and can be counted.
LEMMA PendingFinite ==
    IsFiniteSet(Pending) /\ Cardinality(Pending) \in Nat
  BY ChatAssumption, FS_Subset, FS_CardinalityType DEF Pending

\* A step that hands over nothing that was pending, and broadcasts nothing.
LEMMA BoundKept ==
    ASSUME TypeOK, WithinBound, log' = log, Pending' \subseteq Pending
    PROVE  WithinBound'
<1>1. /\ IsFiniteSet(Pending') /\ Cardinality(Pending') \in Nat
      /\ Cardinality(Pending') <= Cardinality(Pending)
  BY PendingFinite, FS_Subset, FS_CardinalityType
<1> QED  BY <1>1, PendingFinite, ChatAssumption DEF WithinBound, TypeOK

\* Types, the bound and the progress of connections hold at the start.
LEMMA TInvInit == Init => TInv
<1> SUFFICES ASSUME Init PROVE TInv
  OBVIOUS
<1>1. TypeOK
  BY DEF Init, TypeOK, LimiterInit, LimiterTypeOK, StoreInit, HandlerStates, ReaderStates
<1>2. WithinBound
  <2>1. Pending = {}
    BY DEF Init, Pending
  <2> QED  BY <2>1, FS_EmptySet, ChatAssumption DEF WithinBound, Init
<1>3. Curated /\ PumpsStarted
  BY DEF Init, Curated, PumpsStarted
<1> QED  BY <1>1, <1>2, <1>3 DEF TInv

\* serveWs keeps the types.
LEMMA HandlerTypes ==
    ASSUME TInv, NEW c \in Clients, Refuse(c) \/ Admit(c) \/ HandlerStep(c)
    PROVE  TInv'
<1> USE DEF TInv
<1>1. CASE Refuse(c)
  <2> USE <1>1 DEF Refuse
  <2>1. TypeOK'
    BY DEF TypeOK, LimiterTypeOK, limiterVars, hubVars, peerVars, HandlerStates
  <2>2. WithinBound'
    BY BoundKept DEF Pending
  <2>3. Curated' /\ PumpsStarted'
    BY DEF Curated, PumpsStarted, TypeOK
  <2> QED  BY <2>1, <2>2, <2>3
<1>2. CASE Admit(c)
  <2> USE <1>2 DEF Admit
  <2> LimiterTypeOK'
    BY ChatAssumption, LimiterType DEF TypeOK
  <2>1. TypeOK'
    BY DEF TypeOK, hubVars, peerVars, HandlerStates
  <2>2. WithinBound'
    BY BoundKept DEF Pending
  <2>3. Curated' /\ PumpsStarted'
    BY DEF Curated, PumpsStarted, TypeOK
  <2> QED  BY <2>1, <2>2, <2>3
<1>3. CASE UpgradeFails(c)
  <2> USE <1>3 DEF UpgradeFails
  <2> LimiterTypeOK'
    BY ChatAssumption, LimiterType DEF TypeOK
  <2>1. TypeOK'
    BY DEF TypeOK, hubVars, peerVars, HandlerStates
  <2>2. WithinBound'
    BY BoundKept DEF Pending
  <2>3. Curated' /\ PumpsStarted'
    BY DEF Curated, PumpsStarted, TypeOK
  <2> QED  BY <2>1, <2>2, <2>3
<1>4. ASSUME NEW state \in {"open", "gone"}, NEW history, Connect(c, state, history)
      PROVE  TInv'
  <2> USE <1>4 DEF Connect
  <2>1. TypeOK'
    BY DEF TypeOK, LimiterTypeOK, limiterVars, hubVars, HandlerStates, ReaderStates
  <2>2. Pending' \subseteq Pending
    BY DEF Pending, TypeOK
  <2>3. WithinBound'
    BY <2>2, BoundKept
  <2>4. Curated' /\ PumpsStarted'
    BY DEF Curated, PumpsStarted, TypeOK
  <2> QED  BY <2>1, <2>3, <2>4
<1>5. CASE Replay(c) \/ SkipReplay(c) \/ ReplayBreaks(c)
  BY <1>4, <1>5 DEF Replay, SkipReplay, ReplayBreaks
<1>6. CASE Register(c)
  <2> USE <1>6 DEF Register
  <2> DEFINE audience == members[RoomOf[c]] \cup {c}
  <2>1. RoomOf[c] \in Rooms /\ audience \in SUBSET Clients /\ {} \in SUBSET Clients
    BY DEF Curated, TypeOK
  <2>2. HubTypeOK'
    BY <2>1, RosterType
  <2>3. joinAt' \in [Clients -> Nat]
    BY LenProperties DEF TypeOK
  <2>4. TypeOK'
    BY <2>2, <2>3 DEF HubTypeOK, TypeOK, LimiterTypeOK, limiterVars, HandlerStates
  <2>5. WithinBound'
    BY BoundKept DEF Pending
  <2>6. Curated' /\ PumpsStarted'
    BY DEF Curated, PumpsStarted, TypeOK
  <2> QED  BY <2>4, <2>5, <2>6
<1>7. CASE Joined(c)
  <2> USE <1>7 DEF Joined
  <2>1. RoomOf[c] \in Rooms
    BY DEF Curated, TypeOK
  <2>2. HubTypeOK'
    BY <2>1, SystemType
  <2>3. TypeOK'
    BY <2>2 DEF HubTypeOK, TypeOK, LimiterTypeOK, limiterVars, peerVars, HandlerStates
  <2>4. WithinBound'
    BY BoundKept DEF Pending
  <2>5. Curated' /\ PumpsStarted'
    BY DEF Curated, PumpsStarted, TypeOK
  <2> QED  BY <2>3, <2>4, <2>5
<1>8. CASE JoinedQuit(c)
  <2> USE <1>8 DEF JoinedQuit
  <2>1. TypeOK'
    BY DEF TypeOK, LimiterTypeOK, limiterVars, hubVars, peerVars, HandlerStates
  <2>2. WithinBound'
    BY BoundKept DEF Pending
  <2>3. Curated' /\ PumpsStarted'
    BY DEF Curated, PumpsStarted, TypeOK
  <2> QED  BY <2>1, <2>2, <2>3
<1> QED  BY <1>1, <1>2, <1>3, <1>5, <1>6, <1>7, <1>8 DEF HandlerStep

\* Peers are forgotten within their types.
LEMMA ForgetType ==
    ASSUME TypeOK, NEW c \in Clients, Forget(c)
    PROVE  /\ joinAt' \in [Clients -> Nat]
           /\ seen' \in [Clients -> Seq(1..MaxMsgs)]
           /\ roster' \in [Clients -> SUBSET Names]
  BY EmptySeq DEF TypeOK, Forget

\* The broadcast arm for a chat message of a client that was pending.
LEMMA ChatType ==
    ASSUME TypeOK, NEW r \in Rooms, BroadcastChat(r), Len(log) < MaxMsgs
    PROVE  /\ HubTypeOK'
           /\ log' \in Seq(Rooms) /\ Len(log') = Len(log) + 1
           /\ rows' \in Seq([room : Rooms, body : 1..MaxMsgs])
<1> DEFINE n == Len(log) + 1
<1>1. Len(log) \in Nat /\ n \in 1..MaxMsgs
  BY LenProperties, ChatAssumption DEF TypeOK
<1>2. log' = Append(log, r) /\ FanOut(r, members[r], ChatFrame(n), {})
      /\ (Save(r, n) \/ rows' = rows)
  BY DEF BroadcastChat
<1>3. HubTypeOK'
  <2>1. members[r] \in SUBSET Clients /\ {} \in SUBSET Clients
    BY DEF TypeOK
  <2>2. ChatFrame(n) \in Frames
    BY <1>1, FrameTypes
  <2> QED  BY <1>2, <2>1, <2>2, FanOutType
<1>4. log' \in Seq(Rooms) /\ Len(log') = Len(log) + 1
  BY <1>2, AppendProperties DEF TypeOK
<1>5. rows' \in Seq([room : Rooms, body : 1..MaxMsgs])
  <2> DEFINE Row == [room : Rooms, body : 1..MaxMsgs]
  <2>1. [room |-> r, body |-> n] \in Row /\ rows \in Seq(Row)
    BY <1>1 DEF TypeOK
  <2> HIDE DEF Row
  <2>2. Append(rows, [room |-> r, body |-> n]) \in Seq(Row)
    BY <2>1, AppendProperties
  <2>3. rows' \in Seq(Row)
    BY <1>2, <2>1, <2>2 DEF Save
  <2> QED  BY <2>3 DEF Row
<1> QED  BY <1>3, <1>4, <1>5

\* readPump keeps the types.
LEMMA ReaderTypes ==
    ASSUME TInv, NEW c \in Clients,
           Read(c) \/ Say(c) \/ ReadFails(c) \/ ReaderExit(c)
    PROVE  TInv'
<1> USE DEF TInv
<1>1. CASE Read(c)
  <2> USE <1>1 DEF Read
  <2>1. TypeOK'
    BY DEF TypeOK, LimiterTypeOK, limiterVars, hubVars, peerVars, ReaderStates
  <2>2. Pending' = Pending \cup {c}
    BY DEF Pending, TypeOK
  <2>3. Cardinality(Pending') \in Nat /\ Cardinality(Pending') <= Cardinality(Pending) + 1
    <3>1. /\ IsFiniteSet(Pending \cup {c})
          /\ Cardinality(Pending \cup {c}) =
                IF c \in Pending THEN Cardinality(Pending) ELSE Cardinality(Pending) + 1
      BY PendingFinite, FS_AddElement
    <3> QED  BY <2>2, <3>1, PendingFinite
  <2>4. WithinBound'
    BY <2>3, PendingFinite, LenProperties, ChatAssumption DEF WithinBound, TypeOK
  <2>5. Curated' /\ PumpsStarted'
    BY DEF Curated, PumpsStarted, TypeOK
  <2> QED  BY <2>1, <2>4, <2>5
<1>2. CASE Say(c)
  <2> USE <1>2 DEF Say
  <2>1. Pending' = Pending \ {c} /\ c \in Pending
    BY DEF Pending, TypeOK
  <2>2. /\ Cardinality(Pending') = Cardinality(Pending) - 1
        /\ Cardinality(Pending') \in Nat
    BY <2>1, PendingFinite, FS_RemoveElement, FS_CardinalityType
  <2>3. RoomOf[c] \in Rooms
    BY DEF Curated, PumpsStarted
  <2>4. Len(log) \in Nat /\ Len(log) < MaxMsgs
    BY <2>2, PendingFinite, LenProperties, ChatAssumption DEF WithinBound, TypeOK
  <2>5. /\ HubTypeOK'
        /\ log' \in Seq(Rooms) /\ Len(log') = Len(log) + 1
        /\ rows' \in Seq([room : Rooms, body : 1..MaxMsgs])
    BY <2>3, <2>4, ChatType
  <2>6. TypeOK'
    BY <2>5 DEF HubTypeOK, TypeOK, LimiterTypeOK, limiterVars, peerVars, ReaderStates
  <2>7. WithinBound'
    BY <2>2, <2>4, <2>5, PendingFinite, ChatAssumption DEF WithinBound
  <2>8. Curated' /\ PumpsStarted'
    BY DEF Curated, PumpsStarted, TypeOK
  <2> QED  BY <2>6, <2>7, <2>8
\* From here on c is not, and does not become, pending.
<1>3. ASSUME reader[c] # "sending", NEW s \in ReaderStates \ {"none", "sending"},
             reader[c] # "none", reader' = [reader EXCEPT ![c] = s],
             UNCHANGED <<log, handler>>
      PROVE  WithinBound' /\ Curated' /\ PumpsStarted'
  <2>1. Pending' \subseteq Pending
    BY <1>3 DEF Pending, TypeOK
  <2> QED  BY <1>3, <2>1, BoundKept DEF Curated, PumpsStarted, TypeOK
<1>4. CASE ReadFails(c)
  <2> USE <1>4 DEF ReadFails
  <2>1. TypeOK'
    BY DEF TypeOK, LimiterTypeOK, limiterVars, hubVars, peerVars, ReaderStates
  <2> QED  BY <2>1, <1>3 DEF ReaderStates
<1>5. CASE Left(c)
  <2> USE <1>5 DEF Left
  <2>1. HubTypeOK'
    BY SystemType DEF Curated, PumpsStarted
  <2>2. TypeOK'
    BY <2>1 DEF HubTypeOK, TypeOK, LimiterTypeOK, limiterVars, peerVars, ReaderStates
  <2> QED  BY <2>2, <1>3 DEF ReaderStates
<1>6. CASE LeftQuit(c)
  <2> USE <1>6 DEF LeftQuit
  <2>1. TypeOK'
    BY DEF TypeOK, LimiterTypeOK, limiterVars, hubVars, peerVars, ReaderStates
  <2> QED  BY <2>1, <1>3 DEF ReaderStates
<1>7. CASE Unregister(c)
  <2> USE <1>7 DEF Unregister
  <2>1. RoomOf[c] \in Rooms /\ members[RoomOf[c]] \ {c} \in SUBSET Clients
        /\ {c} \in SUBSET Clients
    BY DEF Curated, PumpsStarted, TypeOK
  <2>2. HubTypeOK'
    <3>1. CASE c \in members[RoomOf[c]]
      BY <2>1, <3>1, RosterType
    <3>2. CASE c \notin members[RoomOf[c]]
      BY <3>2 DEF hubVars, HubTypeOK, TypeOK
    <3> QED  BY <3>1, <3>2
  <2>3. TypeOK'
    BY <2>2 DEF HubTypeOK, TypeOK, LimiterTypeOK, limiterVars, peerVars, ReaderStates
  <2> QED  BY <2>3, <1>3 DEF ReaderStates
<1>8. CASE UnregisterQuit(c)
  <2> USE <1>8 DEF UnregisterQuit
  <2>1. TypeOK'
    BY DEF TypeOK, LimiterTypeOK, limiterVars, hubVars, peerVars, ReaderStates
  <2> QED  BY <2>1, <1>3 DEF ReaderStates
<1>9. CASE ReleaseSlot(c)
  <2> USE <1>9 DEF ReleaseSlot
  <2>1. LimiterTypeOK'
    BY ChatAssumption, LimiterType DEF TypeOK
  <2>2. TypeOK'
    BY <2>1, ForgetType DEF TypeOK, hubVars, ReaderStates
  <2> QED  BY <2>2, <1>3 DEF ReaderStates
<1> QED  BY <1>1, <1>2, <1>4, <1>5, <1>6, <1>7, <1>8, <1>9 DEF ReaderExit

\* writePump, the peers, the purge and the shutdown keep the types.
LEMMA OtherTypes ==
    ASSUME TInv,
           \/ \E c \in Clients : WriterStep(c) \/ PeerGone(c)
           \/ Cleanup \/ Drain \/ ShutdownStep \/ HubQuit
    PROVE  TInv'
<1> USE DEF TInv
<1>1. ASSUME UNCHANGED <<log, handler, reader>>
      PROVE  WithinBound' /\ Curated' /\ PumpsStarted'
  BY <1>1, BoundKept DEF Pending, Curated, PumpsStarted
<1>2. ASSUME NEW c \in Clients, Write(c)
      PROVE  TInv'
  <2> USE <1>2 DEF Write
  <2>1. Head(send[c]) \in Frames /\ Tail(send[c]) \in Seq(Frames)
    BY HeadTailProperties DEF TypeOK
  <2>2. seen' \in [Clients -> Seq(1..MaxMsgs)]
    BY <2>1, FrameFields, AppendProperties DEF TypeOK
  <2>3. roster' \in [Clients -> SUBSET Names]
    BY <2>1, FrameFields DEF TypeOK
  <2>4. TypeOK'
    BY <2>1, <2>2, <2>3 DEF TypeOK, LimiterTypeOK, limiterVars
  <2> QED  BY <2>4, <1>1
<1>3. ASSUME NEW c \in Clients, WriteFails(c) \/ PingFails(c) \/ WriteClose(c)
      PROVE  TInv'
  <2>1. send' \in [Clients -> Seq(Frames)]
    <3>1. CASE WriteFails(c)
      BY <3>1, HeadTailProperties DEF WriteFails, TypeOK
    <3>2. CASE PingFails(c) \/ WriteClose(c)
      BY <3>2 DEF PingFails, WriteClose, TypeOK, hubVars
    <3> QED  BY <1>3, <3>1, <3>2
  <2>2. /\ WriterCloses(c)
        /\ UNCHANGED <<limiterVars, rows, members, hub, closed, dropped, handler, reader,
                       phase, log>>
    BY <1>3 DEF WriteFails, PingFails, WriteClose, hubVars
  <2>3. /\ joinAt' \in [Clients -> Nat]
        /\ seen' \in [Clients -> Seq(1..MaxMsgs)]
        /\ roster' \in [Clients -> SUBSET Names]
    BY <2>2, ForgetType DEF WriterCloses
  <2>4. TypeOK'
    BY <2>1, <2>2, <2>3 DEF TypeOK, LimiterTypeOK, limiterVars, WriterCloses
  <2> QED  BY <2>2, <2>4, <1>1
<1>4. ASSUME NEW c \in Clients, PeerGone(c)
      PROVE  TInv'
  <2> USE <1>4 DEF PeerGone
  <2>1. TypeOK'
    BY ForgetType DEF TypeOK, LimiterTypeOK, limiterVars, hubVars
  <2> QED  BY <2>1, <1>1
<1>5. CASE Cleanup
  <2> USE <1>5 DEF Cleanup
  <2>1. rows' \in Seq([room : Rooms, body : 1..MaxMsgs])
    <3> DEFINE Row == [room : Rooms, body : 1..MaxMsgs]
    <3>1. PICK expired \in 1..Len(rows) : rows' = SubSeq(rows, expired + 1, Len(rows))
      BY DEF Purge
    <3>2. rows \in Seq(Row)
      BY DEF TypeOK
    <3> HIDE DEF Row
    <3>3. Len(rows) \in Nat /\ \A i \in (expired + 1)..Len(rows) : rows[i] \in Row
      BY <3>2, ElementOfSeq, LenProperties
    <3>4. rows' \in Seq(Row)
      BY <3>1, <3>3, SubSeqProperties
    <3> QED  BY <3>4 DEF Row
  <2>2. TypeOK'
    BY <2>1 DEF TypeOK, LimiterTypeOK, limiterVars, hubVars, peerVars
  <2> QED  BY <2>2, <1>1
<1>6. CASE Drain \/ ShutdownStep
  <2> USE <1>6 DEF Drain, ShutdownStep, HubStop, StoreClose, Exit, Shift
  <2>1. TypeOK'
    BY DEF TypeOK, LimiterTypeOK, limiterVars, hubVars, peerVars
  <2> QED  BY <2>1, <1>1
<1>7. CASE HubQuit
  <2> USE <1>7 DEF HubQuit
  <2>1. TypeOK'
    BY DEF TypeOK, LimiterTypeOK, limiterVars, peerVars
  <2> QED  BY <2>1, <1>1
<1> QED  BY <1>2, <1>3, <1>4, <1>5, <1>6, <1>7 DEF WriterStep

\* Every step keeps them.
LEMMA TInvNext == TInv /\ [Next]_vars => TInv'
<1> SUFFICES ASSUME TInv, [Next]_vars PROVE TInv'
  OBVIOUS
<1>1. ASSUME NEW c \in Clients, ClientStep(c) PROVE TInv'
  BY <1>1, HandlerTypes, ReaderTypes, OtherTypes DEF ClientStep
<1>2. CASE Cleanup \/ Drain \/ ShutdownStep \/ HubQuit
  BY <1>2, OtherTypes
<1>3. CASE UNCHANGED vars
  BY <1>3 DEF TInv, TypeOK, LimiterTypeOK, WithinBound, Pending, Curated, PumpsStarted, vars,
     limiterVars, hubVars, peerVars
<1> QED  BY <1>1, <1>2, <1>3 DEF Next

\* A message that is read is within the bound.
LEMMA SaidWithin ==
    ASSUME TInv, NEW c \in Clients, Say(c)
    PROVE  Len(log) + 1 \in 1..MaxMsgs
<1>1. c \in Pending
  BY DEF Say, Pending
<1>2. Cardinality(Pending) # 0 /\ Cardinality(Pending) \in Nat
  BY <1>1, PendingFinite, FS_EmptySet
<1>3. Len(log) \in Nat /\ MaxMsgs \in Nat /\ Len(log) + Cardinality(Pending) <= MaxMsgs
  BY LenProperties, ChatAssumption DEF TInv, WithinBound, TypeOK
<1> QED  BY <1>2, <1>3

\* So they always hold.
LEMMA TInvAlways == Spec => []TInv
  BY TInvInit, TInvNext, PTL DEF Spec

\* TypeOK: every variable keeps its type, and no more messages are broadcast
\* than were read.
THEOREM TypeCorrect == Spec => []TypeOK
<1>1. TInv => TypeOK
  BY DEF TInv
<1> QED  BY <1>1, TInvAlways, PTL

-----------------------------------------------------------------------------
(* The hub's channels.  A member's channel is open because every arm that    *)
(* closes it takes the member out in the same step, and because a client is  *)
(* registered once, before anything can close its channel.                   *)

Offered(c) == handler[c] \in {"announcing", "done"}

HInv ==
    /\ NoPanic
    /\ \A r \in Rooms : \A c \in members[r] : RoomOf[c] = r /\ Offered(c)
    /\ \A c \in closed : Offered(c)
    /\ hub = "running" => \A r \in Rooms : members[r] \cap closed = {}

\* A fan-out to open channels of one room keeps the channels of members open.
LEMMA FanOutSafe ==
    ASSUME TypeOK, HInv, hub = "running", NEW r \in Rooms,
           NEW audience \in SUBSET Clients, NEW frame, NEW shut \in SUBSET Clients,
           FanOut(r, audience, frame, shut),
           (audience \cup shut) \cap closed = {}, audience \cap shut = {},
           \A c \in audience \cup shut : RoomOf[c] = r /\ Offered(c)',
           \A c \in Clients : Offered(c) => Offered(c)'
    PROVE  HInv'
<1>1. /\ hub' = "running"
      /\ members' = [members EXCEPT ![r] = {c \in audience : HasRoom(c)}]
      /\ closed' = closed \cup shut \cup {c \in audience : ~HasRoom(c)}
  BY DEF FanOut
<1>2. \A q \in Rooms : \A c \in members'[q] : RoomOf[c] = q /\ Offered(c)'
  BY <1>1 DEF HInv, TypeOK
<1>3. \A c \in closed' : Offered(c)'
  BY <1>1 DEF HInv, TypeOK
<1>4. ASSUME NEW q \in Rooms PROVE members'[q] \cap closed' = {}
  <2>1. CASE q = r
    BY <1>1, <2>1 DEF TypeOK
  <2>2. CASE q # r
    <3>1. members'[q] = members[q] /\ members[q] \cap closed = {}
      BY <1>1, <2>2 DEF TypeOK, HInv
    <3>2. \A c \in members[q] : RoomOf[c] = q
      BY DEF HInv
    <3> QED  BY <1>1, <2>2, <3>1, <3>2
  <2> QED  BY <2>1, <2>2
<1> QED  BY <1>1, <1>2, <1>3, <1>4 DEF HInv, NoPanic

\* The broadcast arm: its audience is the room.
LEMMA RoomSafe ==
    ASSUME TypeOK, HInv, hub = "running", NEW r \in Rooms, NEW frame,
           FanOut(r, members[r], frame, {}), UNCHANGED handler
    PROVE  HInv'
<1>1. /\ members[r] \in SUBSET Clients /\ {} \in SUBSET Clients
      /\ members[r] \cap closed = {}
      /\ \A c \in members[r] : RoomOf[c] = r /\ Offered(c)
  BY DEF TypeOK, HInv
<1>2. \A c : Offered(c)' <=> Offered(c)
  BY DEF Offered
<1> QED  BY <1>1, <1>2, FanOutSafe

\* Steps that are not the hub's.
LEMMA HubIdle ==
    ASSUME HInv, TypeOK, UNCHANGED <<members, hub, closed>>,
           \A c \in Clients : Offered(c) => Offered(c)'
    PROVE  HInv'
  BY DEF HInv, NoPanic, TypeOK

\* Every step keeps what the hub is owed.
LEMMA HInvNext == TInv /\ HInv /\ [Next]_vars => HInv'
<1> SUFFICES ASSUME TInv, HInv, [Next]_vars PROVE HInv'
  OBVIOUS
<1> USE DEF TInv
<1>2. ASSUME NEW c \in Clients,
             Refuse(c) \/ Admit(c) \/ UpgradeFails(c) \/ Replay(c) \/ SkipReplay(c)
                 \/ ReplayBreaks(c) \/ JoinedQuit(c)
      PROVE  HInv'
  <2>1. CASE Refuse(c)
    BY <2>1, HubIdle DEF Refuse, hubVars, Offered, TypeOK
  <2>2. CASE Admit(c)
    BY <2>2, HubIdle DEF Admit, hubVars, Offered, TypeOK
  <2>3. CASE UpgradeFails(c)
    BY <2>3, HubIdle DEF UpgradeFails, hubVars, Offered, TypeOK
  <2>4. CASE Replay(c) \/ SkipReplay(c) \/ ReplayBreaks(c)
    <3>1. /\ handler[c] = "upgrading" /\ handler' = [handler EXCEPT ![c] = "registering"]
          /\ UNCHANGED hubVars
      BY <2>4 DEF Replay, SkipReplay, ReplayBreaks, Connect
    <3> QED  BY <3>1, HubIdle DEF hubVars, Offered, TypeOK
  <2>5. CASE JoinedQuit(c)
    BY <2>5, HubIdle DEF JoinedQuit, hubVars, Offered, TypeOK
  <2> QED  BY <1>2, <2>1, <2>2, <2>3, <2>4, <2>5
<1>3. ASSUME NEW c \in Clients, Register(c) PROVE HInv'
  <2> DEFINE r == RoomOf[c]
             audience == members[r] \cup {c}
  <2>1. r \in Rooms /\ audience \in SUBSET Clients /\ {} \in SUBSET Clients
    BY <1>3 DEF Register, Curated, TypeOK
  <2>2. /\ hub = "running" /\ handler[c] = "registering"
        /\ handler' = [handler EXCEPT ![c] = "announcing"]
        /\ FanOut(r, audience, RosterFrame(NamesOf(audience)), {})
    BY <1>3 DEF Register, BroadcastRoster
  <2>3. c \notin closed /\ audience \cap closed = {}
    BY <2>1, <2>2 DEF HInv, Offered
  <2>4. \A k \in Clients : Offered(k) => Offered(k)'
    BY <2>2 DEF Offered, TypeOK
  <2>5. \A k \in audience : RoomOf[k] = r /\ Offered(k)'
    BY <2>1, <2>2, <2>4 DEF HInv, Offered, TypeOK
  <2> HIDE DEF r, audience
  <2> QED  BY <2>1, <2>2, <2>3, <2>4, <2>5, FanOutSafe
<1>4. ASSUME NEW c \in Clients, Joined(c) PROVE HInv'
  <2> DEFINE r == RoomOf[c]
  <2>1. r \in Rooms /\ members[r] \in SUBSET Clients /\ {} \in SUBSET Clients
    BY <1>4 DEF Joined, Curated, TypeOK
  <2>2. /\ hub = "running" /\ handler[c] = "announcing"
        /\ handler' = [handler EXCEPT ![c] = "done"]
        /\ FanOut(r, members[r], SystemFrame, {})
    BY <1>4 DEF Joined, BroadcastSystem
  <2>3. \A k \in Clients : Offered(k) => Offered(k)'
    BY <2>2 DEF Offered, TypeOK
  <2>4. members[r] \cap closed = {} /\ \A k \in members[r] : RoomOf[k] = r /\ Offered(k)'
    BY <2>1, <2>2, <2>3 DEF HInv
  <2> HIDE DEF r
  <2> QED  BY <2>1, <2>2, <2>3, <2>4, FanOutSafe
<1>5. ASSUME NEW c \in Clients, Say(c) \/ Left(c) PROVE HInv'
  <2>1. RoomOf[c] \in Rooms /\ hub = "running" /\ UNCHANGED handler
    BY <1>5 DEF Say, Left, Curated, PumpsStarted
  <2>2. PICK frame : FanOut(RoomOf[c], members[RoomOf[c]], frame, {})
    BY <1>5 DEF Say, Left, BroadcastChat, BroadcastSystem
  <2> QED  BY <2>1, <2>2, RoomSafe
<1>6. ASSUME NEW c \in Clients, Unregister(c) PROVE HInv'
  <2> DEFINE r == RoomOf[c]
             audience == members[r] \ {c}
  <2>1. r \in Rooms /\ audience \in SUBSET Clients /\ {c} \in SUBSET Clients
    BY <1>6 DEF Unregister, Curated, PumpsStarted, TypeOK
  <2>2. hub = "running" /\ UNCHANGED handler
    BY <1>6 DEF Unregister
  <2>3. \A k : Offered(k)' <=> Offered(k)
    BY <2>2 DEF Offered
  <2>4. CASE c \in members[r]
    <3>1. FanOut(r, audience, RosterFrame(NamesOf(audience)), {c})
      BY <1>6, <2>4 DEF Unregister, BroadcastRoster
    <3>2. /\ (audience \cup {c}) \cap closed = {}
          /\ \A k \in audience \cup {c} : RoomOf[k] = r /\ Offered(k)'
      BY <2>1, <2>2, <2>3, <2>4 DEF HInv
    <3>3. audience \cap {c} = {}
      OBVIOUS
    <3> HIDE DEF r, audience
    <3> QED  BY <2>1, <2>2, <2>3, <3>1, <3>2, <3>3, FanOutSafe
  <2>5. CASE c \notin members[r]
    BY <1>6, <2>3, <2>5, HubIdle DEF Unregister, hubVars
  <2> QED  BY <2>4, <2>5
<1>7. CASE HubQuit
  <2>1. /\ hub' = "stopped" /\ UNCHANGED <<members, handler>>
        /\ closed' = closed \cup UNION {members[r] : r \in Rooms}
    BY <1>7 DEF HubQuit, HInv
  <2> QED  BY <2>1 DEF HInv, NoPanic, Offered
<1>8. ASSUME UNCHANGED <<members, hub, closed, handler>> PROVE HInv'
  BY <1>8, HubIdle DEF Offered
<1>9. ASSUME NEW c \in Clients,
             Read(c) \/ ReadFails(c) \/ LeftQuit(c) \/ UnregisterQuit(c) \/ ReleaseSlot(c)
                 \/ WriterStep(c) \/ PeerGone(c)
      PROVE  HInv'
  BY <1>8, <1>9 DEF Read, ReadFails, LeftQuit, UnregisterQuit, ReleaseSlot, WriterStep,
     Write, WriteFails, PingFails, WriteClose, PeerGone, hubVars
<1>10. CASE Cleanup \/ Drain \/ ShutdownStep \/ UNCHANGED vars
  BY <1>8, <1>10 DEF Cleanup, Drain, ShutdownStep, HubStop, StoreClose, Exit, Shift, vars,
     hubVars
<1> QED
  BY <1>2, <1>3, <1>4, <1>5, <1>6, <1>7, <1>9, <1>10
     DEF Next, ClientStep, HandlerStep, ReaderExit

\* So it always holds, with the types it needs.
LEMMA HInvAlways == Spec => [](TInv /\ HInv)
<1>1. Init => HInv
  BY DEF Init, HInv, NoPanic
<1> QED  BY <1>1, TInvInit, TInvNext, HInvNext, PTL DEF Spec

\* NoPanic: whatever the number of clients and the size of their buffers, the
\* hub never sends on a closed channel and never closes one twice.
THEOREM HubNeverPanics == Spec => []NoPanic
<1>1. HInv => NoPanic
  BY DEF HInv
<1> QED  BY <1>1, HInvAlways, PTL

-----------------------------------------------------------------------------
(* The pumps.  What QueuedIsWritten and DroppedIsClosed rest on: as long as   *)
(* there is something to write or to close, there is a pump to do it.         *)

\* The deferred function of readPump has begun.
Leaving(c) == reader[c] \in {"leaving", "unregistering", "releasing", "done"}

\* writePump ends with the connection; and while the peer stays, the connection ends
\* only by writePump's close frame, after the hub has closed the channel and the
\* buffer was written.
Pumped(c) ==
    /\ (writer[c] = "none" <=> reader[c] = "none") /\ (writer[c] = "none" <=> conn[c] = "none")
    /\ writer[c] = "none" => c \notin closed /\ send[c] = <<>>
    /\ writer[c] = "done" => conn[c] = "closed"
    /\ c \in Steady => /\ conn[c] # "gone"
                       /\ Leaving(c) => conn[c] = "closed"
                       /\ conn[c] = "closed" => c \in closed /\ send[c] = <<>>

PumpInv == \A c \in Clients : Pumped(c)

\* readPump moves on, but leaves a peer that stays only when the connection is closed.
ReaderKept(c) ==
    /\ reader'[c] = "none" <=> reader[c] = "none"
    /\ c \in Steady /\ Leaving(c)' => Leaving(c) \/ conn[c] = "closed"

\* A client of whom only the reader, if anything, has moved.
LEMMA PumpIdle ==
    ASSUME NEW c, Pumped(c), writer'[c] = writer[c], conn'[c] = conn[c], send'[c] = send[c],
           c \in closed' <=> c \in closed, ReaderKept(c)
    PROVE  Pumped(c)'
  BY DEF Pumped, ReaderKept

\* A frame is only queued for, and a channel only closed of, a client whose pumps run;
\* and no frame is queued behind the close of a channel.
LEMMA PumpFanOut ==
    ASSUME TypeOK, PumpInv, NEW r \in Rooms, NEW audience \in SUBSET Clients,
           NEW frame \in Frames, NEW shut \in SUBSET Clients, FanOut(r, audience, frame, shut),
           audience \cap closed = {}, \A c \in audience \cup shut : reader[c] # "none",
           UNCHANGED <<writer, conn>>, \A c \in Clients : ReaderKept(c)
    PROVE  PumpInv'
<1> SUFFICES ASSUME NEW c \in Clients PROVE Pumped(c)'
  BY DEF PumpInv
<1>1. /\ Pumped(c) /\ ReaderKept(c)
      /\ send'[c] = IF c \in audience /\ HasRoom(c) THEN Append(send[c], frame) ELSE send[c]
      /\ closed' = closed \cup shut \cup {k \in audience : ~HasRoom(k)}
  BY DEF PumpInv, FanOut
<1>2. CASE c \in audience
  <2>1. c \notin closed /\ writer[c] # "none" /\ (c \in Steady => conn[c] # "closed")
    BY <1>1, <1>2 DEF Pumped
  <2> QED  BY <1>1, <2>1 DEF Pumped, ReaderKept
<1>3. CASE c \notin audience
  <2>1. /\ send'[c] = send[c] /\ (c \in closed => c \in closed')
        /\ (c \in closed' => c \in closed \cup shut)
    BY <1>1, <1>3
  <2>2. c \in shut => writer[c] # "none"
    BY <1>1 DEF Pumped
  <2> QED  BY <1>1, <2>1, <2>2 DEF Pumped, ReaderKept
<1> QED  BY <1>2, <1>3

\* A client whose connection ends: writePump has ended it, or readPump.
LEMMA PumpCloses ==
    ASSUME TypeOK, NEW c \in Clients, Pumped(c), conn'[c] = "closed", writer[c] # "none",
           writer'[c] \in {writer[c], "done"}, reader[c] # "none", reader'[c] # "none",
           closed' = closed,
           c \in Steady => /\ send'[c] = send[c]
                           /\ conn[c] = "closed" \/ (c \in closed /\ send[c] = <<>>)
    PROVE  Pumped(c)'
  BY DEF Pumped

\* Every step keeps the pumps going.
LEMMA PumpNext == TInv /\ HInv /\ PumpInv /\ [Next]_vars => PumpInv'
<1> SUFFICES ASSUME TInv, HInv, PumpInv, [Next]_vars PROVE PumpInv'
  OBVIOUS
<1> USE DEF TInv
<1>1. \A k \in Clients : Pumped(k) /\ (Offered(k) => reader[k] # "none")
  BY DEF PumpInv, PumpsStarted, Offered
<1>2. ASSUME UNCHANGED <<writer, conn, send, closed>>, \A k \in Clients : ReaderKept(k)
      PROVE  PumpInv'
  BY <1>1, <1>2, PumpIdle DEF PumpInv
<1>3. ASSUME UNCHANGED <<writer, conn, send, closed, reader>> PROVE PumpInv'
  BY <1>2, <1>3 DEF ReaderKept, Leaving
<1>4. ASSUME NEW c \in Clients, Refuse(c) \/ Admit(c) \/ UpgradeFails(c) \/ JoinedQuit(c)
      PROVE  PumpInv'
  BY <1>3, <1>4 DEF Refuse, Admit, UpgradeFails, JoinedQuit, hubVars
<1>5. ASSUME NEW c \in Clients, Replay(c) \/ SkipReplay(c) \/ ReplayBreaks(c) PROVE PumpInv'
  <2>1. PICK state, history : Connect(c, state, history) /\ state \in {"open", "gone"}
                              /\ (c \in Steady => state = "open")
    BY <1>5 DEF Replay, SkipReplay, ReplayBreaks
  <2>2. writer[c] = "none" /\ c \notin closed /\ send[c] = <<>>
    BY <1>1, <2>1 DEF Connect, Pumped, PumpsStarted
  <2>3. Pumped(c)'
    BY <2>1, <2>2 DEF Connect, Pumped, Leaving, hubVars, TypeOK
  <2>4. ASSUME NEW k \in Clients \ {c} PROVE Pumped(k)'
    <3>1. /\ writer'[k] = writer[k] /\ conn'[k] = conn[k] /\ send'[k] = send[k]
          /\ closed' = closed /\ reader'[k] = reader[k]
      BY <2>1 DEF Connect, hubVars, TypeOK
    <3> QED  BY <1>1, <3>1, PumpIdle DEF ReaderKept, Leaving
  <2> QED  BY <2>3, <2>4 DEF PumpInv
<1>6. ASSUME NEW c \in Clients, Register(c) PROVE PumpInv'
  <2> DEFINE r == RoomOf[c]
             audience == members[r] \cup {c}
  <2>1. r \in Rooms /\ audience \in SUBSET Clients /\ hub = "running"
        /\ handler[c] = "registering" /\ reader[c] # "none" /\ UNCHANGED <<writer, conn, reader>>
        /\ FanOut(r, audience, RosterFrame(NamesOf(audience)), {})
    BY <1>6 DEF Register, BroadcastRoster, Curated, PumpsStarted, TypeOK
  <2>2. audience \cap closed = {} /\ \A k \in audience : reader[k] # "none"
    <3>1. members[r] \cap closed = {} /\ \A k \in members[r] : k \in Clients /\ Offered(k)
      BY <2>1 DEF HInv, TypeOK
    <3>2. c \notin closed
      BY <2>1 DEF HInv, Offered
    <3> QED  BY <1>1, <2>1, <3>1, <3>2
  <2>3. RosterFrame(NamesOf(audience)) \in Frames
    BY <2>1, NamesOfType, FrameTypes
  <2>4. \A k \in Clients : ReaderKept(k)
    BY <2>1 DEF ReaderKept, Leaving
  <2> HIDE DEF r, audience
  <2> QED  BY <2>1, <2>2, <2>3, <2>4, PumpFanOut
<1>7. ASSUME NEW c \in Clients, Joined(c) \/ Say(c) \/ Left(c) PROVE PumpInv'
  <2> DEFINE r == RoomOf[c]
  <2>1. /\ r \in Rooms /\ members[r] \in SUBSET Clients
        /\ hub = "running" /\ UNCHANGED <<writer, conn>>
    BY <1>7 DEF Joined, Say, Left, Curated, PumpsStarted, TypeOK
  <2>2. PICK f \in Frames : FanOut(r, members[r], f, {})
    <3>1. CASE Say(c)
      <4>1. Len(log) + 1 \in 1..MaxMsgs
        BY <3>1, SaidWithin
      <4> QED  BY <3>1, <4>1, FrameTypes DEF Say, BroadcastChat
    <3>2. CASE Joined(c) \/ Left(c)
      BY <3>2, FrameTypes DEF Joined, Left, BroadcastSystem
    <3> QED  BY <1>7, <3>1, <3>2
  <2>3. members[r] \cap closed = {} /\ \A k \in members[r] : reader[k] # "none"
    BY <1>1, <2>1 DEF HInv
  <2>4. \A k \in Clients : ReaderKept(k)
    BY <1>7 DEF Joined, Say, Left, ReaderKept, Leaving, TypeOK
  <2> HIDE DEF r
  <2> QED  BY <2>1, <2>2, <2>3, <2>4, PumpFanOut
<1>8. ASSUME NEW c \in Clients, Unregister(c) PROVE PumpInv'
  <2> DEFINE r == RoomOf[c]
             audience == members[r] \ {c}
  <2>1. r \in Rooms /\ audience \in SUBSET Clients /\ hub = "running"
        /\ reader[c] = "unregistering" /\ UNCHANGED <<writer, conn>>
    BY <1>8 DEF Unregister, Curated, PumpsStarted, TypeOK
  <2>2. \A k \in Clients : ReaderKept(k)
    BY <1>8 DEF Unregister, ReaderKept, Leaving, TypeOK
  <2>3. CASE c \in members[r]
    <3>1. FanOut(r, audience, RosterFrame(NamesOf(audience)), {c})
      BY <1>8, <2>3 DEF Unregister, BroadcastRoster
    <3>2. audience \cap closed = {} /\ \A k \in audience \cup {c} : reader[k] # "none"
      BY <1>1, <2>1 DEF HInv, TypeOK
    <3>3. RosterFrame(NamesOf(audience)) \in Frames
      BY <2>1, NamesOfType, FrameTypes
    <3> HIDE DEF r, audience
    <3> QED  BY <2>1, <2>2, <3>1, <3>2, <3>3, PumpFanOut
  <2>4. CASE c \notin members[r]
    BY <1>2, <1>8, <2>2, <2>4 DEF Unregister, hubVars
  <2> QED  BY <2>3, <2>4
<1>9. ASSUME NEW c \in Clients, Read(c) \/ ReadFails(c) \/ LeftQuit(c) \/ UnregisterQuit(c)
      PROVE  PumpInv'
  <2>1. \A k \in Clients : ReaderKept(k)
    BY <1>9 DEF Read, ReadFails, LeftQuit, UnregisterQuit, ReaderKept, Leaving, TypeOK
  <2> QED  BY <1>2, <1>9, <2>1 DEF Read, ReadFails, LeftQuit, UnregisterQuit, hubVars
<1>10. ASSUME NEW c \in Clients,
              ReleaseSlot(c) \/ WriteFails(c) \/ PingFails(c) \/ WriteClose(c)
       PROVE  PumpInv'
  <2>1. /\ conn'[c] = "closed" /\ closed' = closed /\ reader'[c] # "none"
        /\ writer[c] # "none" /\ reader[c] # "none" /\ writer'[c] \in {writer[c], "done"}
        /\ c \in Steady => /\ send'[c] = send[c]
                           /\ conn[c] = "closed" \/ (c \in closed /\ send[c] = <<>>)
    <3>1. CASE ReleaseSlot(c)
      BY <1>1, <3>1 DEF ReleaseSlot, Pumped, Leaving, hubVars, TypeOK
    <3>2. CASE WriteFails(c)
      BY <1>1, <3>2 DEF WriteFails, WriterCloses, Pumped, TypeOK
    <3>3. CASE PingFails(c)
      BY <1>1, <3>3 DEF PingFails, WriterCloses, Pumped, hubVars, TypeOK
    <3>4. CASE WriteClose(c)
      BY <1>1, <3>4 DEF WriteClose, WriterCloses, Pumped, hubVars, TypeOK
    <3> QED  BY <1>10, <3>1, <3>2, <3>3, <3>4
  <2>2. ASSUME NEW k \in Clients \ {c} PROVE Pumped(k)'
    <3>1. /\ writer'[k] = writer[k] /\ conn'[k] = conn[k] /\ send'[k] = send[k]
          /\ closed' = closed /\ reader'[k] = reader[k]
      BY <1>10 DEF ReleaseSlot, WriteFails, PingFails, WriteClose, WriterCloses, hubVars, TypeOK
    <3> QED  BY <1>1, <3>1, PumpIdle DEF ReaderKept, Leaving
  <2>3. Pumped(c)'
    BY <1>1, <2>1, PumpCloses
  <2> QED  BY <2>2, <2>3 DEF PumpInv
<1>11. ASSUME NEW c \in Clients, Write(c) PROVE PumpInv'
  <2>1. /\ UNCHANGED <<writer, conn, closed, reader>> /\ writer[c] = "running" /\ conn[c] # "closed"
        /\ \A k \in Clients \ {c} : send'[k] = send[k]
    BY <1>11 DEF Write, TypeOK
  <2>2. \A k \in Clients \ {c} : Pumped(k)'
    BY <1>1, <2>1, PumpIdle DEF ReaderKept, Leaving
  <2>3. Pumped(c)'
    BY <1>1, <2>1 DEF Pumped, Leaving
  <2> QED  BY <2>2, <2>3 DEF PumpInv
<1>12. ASSUME NEW c \in Clients, PeerGone(c) PROVE PumpInv'
  <2>1. /\ UNCHANGED <<writer, send, closed, reader>> /\ c \notin Steady
        /\ conn[c] = "open" /\ conn'[c] = "gone" /\ \A k \in Clients \ {c} : conn'[k] = conn[k]
    BY <1>12 DEF PeerGone, hubVars, TypeOK
  <2>2. \A k \in Clients \ {c} : Pumped(k)'
    BY <1>1, <2>1, PumpIdle DEF ReaderKept, Leaving
  <2>3. Pumped(c)'
    BY <1>1, <2>1 DEF Pumped
  <2> QED  BY <2>2, <2>3 DEF PumpInv
<1>13. CASE HubQuit
  <2>1. /\ UNCHANGED <<writer, conn, send, reader>>
        /\ closed' = closed \cup UNION {members[r] : r \in Rooms}
    BY <1>13 DEF HubQuit
  <2>2. \A k \in Clients : k \in closed' /\ k \notin closed => writer[k] # "none"
    BY <1>1, <2>1 DEF HInv, Pumped
  <2> QED  BY <1>1, <2>1, <2>2 DEF PumpInv, Pumped, Leaving
<1>14. CASE Cleanup \/ Drain \/ ShutdownStep \/ UNCHANGED vars
  BY <1>3, <1>14 DEF Cleanup, Drain, ShutdownStep, HubStop, StoreClose, Exit, Shift, vars,
     hubVars
<1> QED
  BY <1>4, <1>5, <1>6, <1>7, <1>8, <1>9, <1>10, <1>11, <1>12, <1>13, <1>14
     DEF Next, ClientStep, HandlerStep, ReaderExit, WriterStep

\* A client whose channel was closed has a writePump that will close the connection;
\* and whatever is queued for a peer that stays has one that will write it: neither a
\* drop, nor readPump's exit, nor the quit arm ends it before the buffer is written.
PumpsServe ==
    /\ \A c \in closed : writer[c] = "running" \/ conn[c] = "closed"
    /\ \A c \in Steady : send[c] # <<>> => writer[c] = "running" /\ conn[c] = "open"

\* PumpsServe, for any clients, buffers and orders of drops, errors and shutdown.
THEOREM PumpsAlwaysServe == Spec => []PumpsServe
<1>1. Init => PumpInv
  BY DEF Init, PumpInv, Pumped, Leaving
<1>2. TInv /\ PumpInv => PumpsServe
  BY ChatAssumption DEF TInv, TypeOK, PumpInv, Pumped, PumpsServe
<1> QED  BY <1>1, <1>2, HInvAlways, PumpNext, PTL DEF Spec

-----------------------------------------------------------------------------
(* The connection slots. *)

Holders       == {c \in Clients : Holds(c)}
HoldersOf(ip) == {c \in Clients : Holds(c) /\ IPOf[c] = ip}

\* The clients that hold a slot are finitely many, and can be counted.
LEMMA HoldersFinite ==
    /\ IsFiniteSet(Holders) /\ Cardinality(Holders) \in Nat
    /\ \A ip : IsFiniteSet(HoldersOf(ip)) /\ Cardinality(HoldersOf(ip)) \in Nat
  BY ChatAssumption, FS_Subset, FS_CardinalityType DEF Holders, HoldersOf

\* No slot changes hands.
LEMMA SlotsKept ==
    ASSUME SlotsBalanced, UNCHANGED limiterVars,
           \A c \in Clients : Holds(c)' <=> Holds(c)
    PROVE  SlotsBalanced'
<1>1. {c \in Clients : Holds(c)}' = {c \in Clients : Holds(c)}
  OBVIOUS
<1>2. \A ip : {c \in Clients : Holds(c) /\ IPOf[c] = ip}'
                 = {c \in Clients : Holds(c) /\ IPOf[c] = ip}
  OBVIOUS
<1> QED  BY <1>1, <1>2 DEF SlotsBalanced, limiterVars

\* One client takes a slot.
LEMMA SlotTaken ==
    ASSUME SlotsBalanced, TypeOK, NEW c \in Clients, Acquire(IPOf[c]), ~Holds(c), Holds(c)',
           \A k \in Clients \ {c} : Holds(k)' <=> Holds(k)
    PROVE  SlotsBalanced'
<1> DEFINE ip == IPOf[c]
<1>1. ip \in IPs
  BY ChatAssumption
<1>2. Holders' = Holders \cup {c} /\ c \notin Holders
  BY DEF Holders
<1>3. HoldersOf(ip)' = HoldersOf(ip) \cup {c} /\ c \notin HoldersOf(ip)
  BY DEF HoldersOf
<1>4. \A q \in IPs \ {ip} : HoldersOf(q)' = HoldersOf(q)
  BY DEF HoldersOf
<1>5. Cardinality(Holders') = Cardinality(Holders) + 1
  BY <1>2, HoldersFinite, FS_AddElement
<1>6. Cardinality(HoldersOf(ip)') = Cardinality(HoldersOf(ip)) + 1
  BY <1>3, HoldersFinite, FS_AddElement
<1>7. total = Cardinality(Holders) /\ \A q \in IPs : perIP[q] = Cardinality(HoldersOf(q))
  BY DEF SlotsBalanced, Holders, HoldersOf
<1>8. total' = Cardinality(Holders') /\ total' <= MaxTotal
  BY <1>5, <1>7, HoldersFinite, CapsAssumption DEF Acquire, HasSlot
<1>9. \A q \in IPs : perIP'[q] = Cardinality(HoldersOf(q)') /\ perIP'[q] <= MaxPerIP
  <2>1. perIP'[ip] = Cardinality(HoldersOf(ip)') /\ perIP'[ip] <= MaxPerIP
    BY <1>1, <1>6, <1>7, HoldersFinite, CapsAssumption
       DEF Acquire, HasSlot, TypeOK, LimiterTypeOK
  <2>2. \A q \in IPs \ {ip} : perIP'[q] = perIP[q] /\ perIP[q] <= MaxPerIP
    BY DEF Acquire, TypeOK, LimiterTypeOK, SlotsBalanced
  <2> QED  BY <1>4, <1>7, <2>1, <2>2
<1> QED  BY <1>8, <1>9 DEF SlotsBalanced, Holders, HoldersOf

\* One client gives its slot back.
LEMMA SlotGivenBack ==
    ASSUME SlotsBalanced, TypeOK, NEW c \in Clients, Release(IPOf[c]), Holds(c), ~Holds(c)',
           \A k \in Clients \ {c} : Holds(k)' <=> Holds(k)
    PROVE  SlotsBalanced'
<1> DEFINE ip == IPOf[c]
<1>1. ip \in IPs
  BY ChatAssumption
<1>2. Holders' = Holders \ {c} /\ c \in Holders
  BY DEF Holders
<1>3. HoldersOf(ip)' = HoldersOf(ip) \ {c} /\ c \in HoldersOf(ip)
  BY DEF HoldersOf
<1>4. \A q \in IPs \ {ip} : HoldersOf(q)' = HoldersOf(q)
  BY DEF HoldersOf
<1>5. Cardinality(Holders') = Cardinality(Holders) - 1
  BY <1>2, HoldersFinite, FS_RemoveElement
<1>6. Cardinality(HoldersOf(ip)') = Cardinality(HoldersOf(ip)) - 1
  BY <1>3, HoldersFinite, FS_RemoveElement
<1>7. total = Cardinality(Holders) /\ \A q \in IPs : perIP[q] = Cardinality(HoldersOf(q))
  BY DEF SlotsBalanced, Holders, HoldersOf
<1>8. perIP[ip] > 0
  BY <1>1, <1>3, <1>7, HoldersFinite, FS_EmptySet
<1>9. total' = Cardinality(Holders') /\ total' <= MaxTotal
  BY <1>5, <1>7, <1>8, HoldersFinite, CapsAssumption DEF Release, SlotsBalanced
<1>10. \A q \in IPs : perIP'[q] = Cardinality(HoldersOf(q)') /\ perIP'[q] <= MaxPerIP
  <2>1. perIP'[ip] = Cardinality(HoldersOf(ip)') /\ perIP'[ip] <= MaxPerIP
    BY <1>1, <1>6, <1>7, <1>8, HoldersFinite, CapsAssumption
       DEF Release, SlotsBalanced, TypeOK, LimiterTypeOK
  <2>2. \A q \in IPs \ {ip} : perIP'[q] = perIP[q] /\ perIP[q] <= MaxPerIP
    BY <1>8 DEF Release, TypeOK, LimiterTypeOK, SlotsBalanced
  <2> QED  BY <1>4, <1>7, <2>1, <2>2
<1> QED  BY <1>9, <1>10 DEF SlotsBalanced, Holders, HoldersOf

\* Every step keeps the limiter's counts equal to the slots that are held.
LEMMA SlotsNext == TInv /\ SlotsBalanced /\ [Next]_vars => SlotsBalanced'
<1> SUFFICES ASSUME TInv, SlotsBalanced, [Next]_vars PROVE SlotsBalanced'
  OBVIOUS
<1> USE DEF TInv
<1>1. ASSUME NEW c \in Clients, Admit(c) PROVE SlotsBalanced'
  BY <1>1, SlotTaken DEF Admit, Holds, PumpsStarted, TypeOK
<1>2. ASSUME NEW c \in Clients, UpgradeFails(c) PROVE SlotsBalanced'
  BY <1>2, SlotGivenBack DEF UpgradeFails, Holds, PumpsStarted, TypeOK
<1>3. ASSUME NEW c \in Clients, ReleaseSlot(c) PROVE SlotsBalanced'
  BY <1>3, SlotGivenBack DEF ReleaseSlot, Holds, PumpsStarted, TypeOK
<1>4. ASSUME NEW c \in Clients, Replay(c) \/ SkipReplay(c) \/ ReplayBreaks(c)
      PROVE  SlotsBalanced'
  <2>1. /\ handler[c] = "upgrading" /\ handler' = [handler EXCEPT ![c] = "registering"]
        /\ reader' = [reader EXCEPT ![c] = "reading"] /\ UNCHANGED limiterVars
    BY <1>4 DEF Replay, SkipReplay, ReplayBreaks, Connect
  <2> QED  BY <2>1, SlotsKept DEF Holds, TypeOK
\* The rest of serveWs: the slot is the reader's.
<1>5. ASSUME NEW c \in Clients, NEW s \in {"refused", "announcing", "done"},
             handler[c] # "upgrading", handler' = [handler EXCEPT ![c] = s],
             UNCHANGED <<limiterVars, reader>>
      PROVE  SlotsBalanced'
  BY <1>5, SlotsKept DEF Holds, TypeOK
<1>6. ASSUME NEW c \in Clients, Refuse(c) \/ Register(c) \/ Joined(c) \/ JoinedQuit(c)
      PROVE  SlotsBalanced'
  BY <1>5, <1>6 DEF Refuse, Register, Joined, JoinedQuit
\* The rest of readPump: the reader keeps it.
<1>7. ASSUME NEW c \in Clients,
             NEW s \in {"reading", "sending", "leaving", "unregistering", "releasing"},
             reader[c] \in {"reading", "sending", "leaving", "unregistering"},
             reader' = [reader EXCEPT ![c] = s], UNCHANGED <<limiterVars, handler>>
      PROVE  SlotsBalanced'
  BY <1>7, SlotsKept DEF Holds, TypeOK
<1>8. ASSUME NEW c \in Clients,
             Read(c) \/ Say(c) \/ ReadFails(c) \/ Left(c) \/ LeftQuit(c) \/ Unregister(c)
                 \/ UnregisterQuit(c)
      PROVE  SlotsBalanced'
  BY <1>7, <1>8 DEF Read, Say, ReadFails, Left, LeftQuit, Unregister, UnregisterQuit
<1>9. ASSUME UNCHANGED <<limiterVars, handler, reader>> PROVE SlotsBalanced'
  BY <1>9, SlotsKept DEF Holds
<1>10. ASSUME NEW c \in Clients, WriterStep(c) \/ PeerGone(c) PROVE SlotsBalanced'
  BY <1>9, <1>10 DEF WriterStep, Write, WriteFails, PingFails, WriteClose, PeerGone
<1>11. CASE Cleanup \/ Drain \/ ShutdownStep \/ HubQuit \/ UNCHANGED vars
  BY <1>9, <1>11 DEF Cleanup, Drain, ShutdownStep, HubStop, StoreClose, Exit, Shift, HubQuit,
     vars
<1> QED
  BY <1>1, <1>2, <1>3, <1>4, <1>6, <1>8, <1>10, <1>11
     DEF Next, ClientStep, HandlerStep, ReaderExit

\* SlotsBalanced: however many clients come and go, the counters of connLimiter
\* are the numbers of connections that still have a slot to give back, and the
\* caps hold.
THEOREM SlotsAlwaysBalanced == Spec => []SlotsBalanced
<1>1. Init => SlotsBalanced
  <2> SUFFICES ASSUME Init PROVE SlotsBalanced
    OBVIOUS
  <2>1. {c \in Clients : Holds(c)} = {}
        /\ \A ip : {c \in Clients : Holds(c) /\ IPOf[c] = ip} = {}
    BY DEF Init, Holds
  <2>2. total = 0 /\ \A ip \in IPs : perIP[ip] = 0
    BY DEF Init, LimiterInit
  <2>3. Cardinality({}) = 0 /\ 0 <= MaxTotal /\ 0 <= MaxPerIP
    BY FS_EmptySet, CapsAssumption
  <2> QED  BY <2>1, <2>2, <2>3 DEF SlotsBalanced
<1> QED  BY <1>1, TInvInit, TInvNext, SlotsNext, PTL DEF Spec

-----------------------------------------------------------------------------
(* The messages waiting in a buffer, as frames come and go. *)

\* What is in a sequence after an append.
LEMMA AppendRange ==
    ASSUME NEW S, NEW s \in Seq(S), NEW e \in S
    PROVE  Range(Append(s, e)) = Range(s) \cup {e}
<1>1. /\ Append(s, e) \in Seq(S) /\ Len(Append(s, e)) = Len(s) + 1 /\ Len(s) \in Nat
      /\ \A i \in 1..Len(s) : Append(s, e)[i] = s[i]
      /\ Append(s, e)[Len(s) + 1] = e
  BY AppendProperties, LenProperties
<1>2. DOMAIN s = 1..Len(s) /\ DOMAIN Append(s, e) = 1..(Len(s) + 1)
  BY <1>1, LenProperties
<1> QED  BY <1>1, <1>2 DEF Range

\* Offering a frame adds at most the message it carries.
LEMMA WaitingGrows ==
    ASSUME TypeOK, NEW c \in Clients, NEW f \in Frames,
           send'[c] \in {send[c], Append(send[c], f)}
    PROVE  Waiting(c) \subseteq Waiting(c)'
<1>1. send[c] \in Seq(Frames)
  BY DEF TypeOK
<1>2. Range(Append(send[c], f)) = Range(send[c]) \cup {f}
  BY <1>1, AppendRange
<1>3. Range(send[c]) \subseteq Range(send'[c])
  BY <1>2
<1> QED  BY <1>3 DEF Waiting

\* Queueing a message makes it wait.
LEMMA WaitingAppended ==
    ASSUME TypeOK, NEW c \in Clients, NEW n \in 1..MaxMsgs,
           send'[c] = Append(send[c], ChatFrame(n))
    PROVE  n \in Waiting(c)'
<1>1. send[c] \in Seq(Frames) /\ ChatFrame(n) \in Frames
  BY FrameTypes DEF TypeOK
<1>2. ChatFrame(n) \in Range(send'[c])
  BY <1>1, AppendRange
<1> QED  BY <1>2 DEF Waiting, ChatFrame

\* Taking the first frame takes at most its message.
LEMMA WaitingTaken ==
    ASSUME TypeOK, NEW c \in Clients, send[c] # <<>>, send'[c] = Tail(send[c])
    PROVE  \A n \in Waiting(c) :
              n \in Waiting(c)' \/ (Head(send[c]).kind = "chat" /\ Head(send[c]).n = n)
<1>1. send[c] \in Seq(Frames)
  BY DEF TypeOK
<1>2. Len(send[c]) \in Nat /\ Len(Tail(send[c])) = Len(send[c]) - 1
      /\ DOMAIN send[c] = 1..Len(send[c]) /\ DOMAIN Tail(send[c]) = 1..Len(Tail(send[c]))
      /\ \A i \in 1..Len(Tail(send[c])) : Tail(send[c])[i] = send[c][i + 1]
  BY <1>1, HeadTailProperties, LenProperties
<1>3. ASSUME NEW f \in Range(send[c]) PROVE f = Head(send[c]) \/ f \in Range(Tail(send[c]))
  <2>1. PICK i \in 1..Len(send[c]) : f = send[c][i]
    BY <1>2 DEF Range
  <2>2. CASE i = 1
    BY <1>1, <2>1, <2>2
  <2>3. CASE i # 1
    <3>1. i - 1 \in 1..Len(Tail(send[c])) /\ Tail(send[c])[i - 1] = f
      BY <1>2, <2>1, <2>3
    <3> QED  BY <1>2, <3>1 DEF Range
  <2> QED  BY <2>2, <2>3
<1> QED  BY <1>3 DEF Waiting

-----------------------------------------------------------------------------
(* Nothing is skipped. *)

\* What the client has of its room's messages, shown or waiting.
Has(c) == Range(seen[c]) \cup Waiting(c)

\* Without a broadcast it is enough that nobody new is subscribed and nobody
\* loses a message.
LEMMA SkipKept ==
    ASSUME NothingSkipped, log' = log, Subscribed' \subseteq Subscribed,
           \A c \in Subscribed' : joinAt'[c] = joinAt[c] /\ Has(c) \subseteq Has(c)'
    PROVE  NothingSkipped'
  BY DEF NothingSkipped, Has

\* A fan-out subscribes nobody outside its audience, and every subscriber of its
\* room is sent the frame.
LEMMA FanOutReaches ==
    ASSUME TypeOK, HInv', hub = "running", UNCHANGED conn, NEW r \in Rooms,
           NEW audience \in SUBSET Clients, NEW f \in Frames, NEW shut,
           FanOut(r, audience, f, shut)
    PROVE  /\ Subscribed' \subseteq Subscribed \cup audience
           /\ \A c \in Clients : send'[c] \in {send[c], Append(send[c], f)}
           /\ \A c \in Subscribed' :
                 RoomOf[c] = r => c \in audience /\ send'[c] = Append(send[c], f)
<1>1. /\ members' = [members EXCEPT ![r] = {c \in audience : HasRoom(c)}]
      /\ send' = [c \in Clients |-> IF c \in audience /\ HasRoom(c)
                                    THEN Append(send[c], f) ELSE send[c]]
  BY DEF FanOut
<1>2. Subscribed' \subseteq Subscribed \cup audience
  BY <1>1 DEF Subscribed, TypeOK
<1>3. ASSUME NEW c \in Subscribed', RoomOf[c] = r
      PROVE  c \in audience /\ HasRoom(c) /\ c \in Clients
  <2>1. PICK q \in Rooms : c \in members'[q]
    BY DEF Subscribed
  <2>2. q = r
    BY <1>3, <2>1 DEF HInv
  <2> QED  BY <1>1, <2>1, <2>2 DEF TypeOK, Subscribed
<1> QED  BY <1>1, <1>2, <1>3

\* A fan-out that is no chat message.
LEMMA FanOutSkips ==
    ASSUME TypeOK, HInv', NothingSkipped, hub = "running",
           UNCHANGED <<conn, log, joinAt, seen>>, NEW r \in Rooms,
           NEW audience \in SUBSET Clients, NEW f \in Frames, NEW shut,
           FanOut(r, audience, f, shut), audience \subseteq members[r]
    PROVE  NothingSkipped'
<1>1. Subscribed' \subseteq Subscribed
  <2>1. Subscribed' \subseteq Clients /\ \A c \in Subscribed' : conn[c] = "open"
    BY DEF Subscribed
  <2> QED  BY <2>1, FanOutReaches DEF Subscribed
<1>2. \A c \in Clients : Waiting(c) \subseteq Waiting(c)'
  BY FanOutReaches, WaitingGrows
<1>3. \A c \in Subscribed' : c \in Clients
  BY DEF Subscribed
<1> QED  BY <1>1, <1>2, <1>3, SkipKept DEF Has

\* Outside the hub: members, and what is queued for them, stay.
LEMMA SkipIdle ==
    ASSUME TypeOK, NothingSkipped, UNCHANGED <<members, hub, log, send>>,
           NEW c \in Clients, \A r \in Rooms : c \notin members[r] \/ conn'[c] # "open",
           \A k \in Clients \ {c} : /\ conn'[k] = conn[k] /\ seen'[k] = seen[k]
                                   /\ joinAt'[k] = joinAt[k]
    PROVE  NothingSkipped'
<1>1. Subscribed' \subseteq Subscribed \ {c}
  BY DEF Subscribed
<1>2. \A k \in Clients : Waiting(k)' = Waiting(k)
  BY DEF Waiting
<1>3. \A k \in Subscribed' : k \in Clients \ {c}
  BY <1>1 DEF Subscribed
<1> QED  BY <1>1, <1>2, <1>3, SkipKept DEF Has

\* Every step keeps NothingSkipped.
LEMMA SkipNext == TInv /\ HInv /\ HInv' /\ NothingSkipped /\ [Next]_vars => NothingSkipped'
<1> SUFFICES ASSUME TInv, HInv, HInv', NothingSkipped, [Next]_vars PROVE NothingSkipped'
  OBVIOUS
<1> USE DEF TInv
<1>1. ASSUME UNCHANGED <<members, hub, log, send, conn, seen, joinAt>> PROVE NothingSkipped'
  <2>1. Subscribed' = Subscribed /\ \A k \in Clients : Waiting(k)' = Waiting(k)
    BY <1>1 DEF Subscribed, Waiting
  <2> QED  BY <1>1, <2>1, SkipKept DEF Has, Subscribed
<1>2. ASSUME NEW c \in Clients,
             Refuse(c) \/ Admit(c) \/ UpgradeFails(c) \/ JoinedQuit(c) \/ Read(c)
                 \/ ReadFails(c) \/ LeftQuit(c) \/ UnregisterQuit(c)
      PROVE  NothingSkipped'
  BY <1>1, <1>2 DEF Refuse, Admit, UpgradeFails, JoinedQuit, Read, ReadFails, LeftQuit,
     UnregisterQuit, hubVars, peerVars
<1>3. ASSUME NEW c \in Clients, Replay(c) \/ SkipReplay(c) \/ ReplayBreaks(c)
      PROVE  NothingSkipped'
  <2>1. PICK state, history : Connect(c, state, history)
    BY <1>3 DEF Replay, SkipReplay, ReplayBreaks
  <2>2. \A r \in Rooms : c \notin members[r]
    BY <2>1 DEF Connect, HInv, Offered
  <2>3. \A k \in Clients \ {c} : conn'[k] = conn[k]
    BY <2>1 DEF Connect, TypeOK
  <2> QED  BY <2>1, <2>2, <2>3, SkipIdle DEF Connect, hubVars
<1>4. ASSUME NEW c \in Clients, ReleaseSlot(c) \/ PingFails(c) \/ WriteClose(c) \/ PeerGone(c)
      PROVE  NothingSkipped'
  <2>1. /\ conn'[c] # "open"
        /\ \A k \in Clients \ {c} : conn'[k] = conn[k] /\ seen'[k] = seen[k]
                                     /\ joinAt'[k] = joinAt[k]
        /\ UNCHANGED <<members, hub, log, send>>
    BY <1>4 DEF ReleaseSlot, PingFails, WriteClose, PeerGone, WriterCloses, Forget, hubVars,
       TypeOK
  <2> QED  BY <2>1, SkipIdle
<1>5. ASSUME NEW c \in Clients, WriteFails(c) PROVE NothingSkipped'
  <2>1. /\ conn'[c] # "open"
        /\ \A k \in Clients \ {c} : /\ conn'[k] = conn[k] /\ seen'[k] = seen[k]
                                     /\ joinAt'[k] = joinAt[k] /\ send'[k] = send[k]
        /\ UNCHANGED <<members, hub, log>>
    BY <1>5 DEF WriteFails, WriterCloses, Forget, TypeOK
  <2>2. Subscribed' \subseteq Subscribed /\ \A k \in Subscribed' : k \in Clients \ {c}
    BY <2>1 DEF Subscribed
  <2>3. \A k \in Clients \ {c} : Waiting(k)' = Waiting(k)
    BY <2>1 DEF Waiting
  <2> QED  BY <2>1, <2>2, <2>3, SkipKept DEF Has
<1>6. ASSUME NEW c \in Clients, Write(c) PROVE NothingSkipped'
  <2> USE <1>6 DEF Write
  <2>1. Subscribed' = Subscribed /\ Subscribed \subseteq Clients
    BY DEF Subscribed
  <2>2. ASSUME NEW k \in Clients \ {c} PROVE Has(k) \subseteq Has(k)'
    <3>1. send'[k] = send[k] /\ seen'[k] = seen[k]
      BY DEF TypeOK
    <3> QED  BY <3>1 DEF Has, Waiting
  <2>3. ASSUME conn[c] = "open" PROVE Has(c) \subseteq Has(c)'
    <3> DEFINE f == Head(send[c])
    <3>1. f \in Frames /\ send'[c] = Tail(send[c]) /\ seen[c] \in Seq(1..MaxMsgs)
      BY HeadTailProperties DEF TypeOK
    <3>2. Range(seen[c]) \subseteq Range(seen'[c])
          /\ (f.kind = "chat" => f.n \in Range(seen'[c]))
      <4>1. CASE f.kind = "chat"
        <5>1. seen'[c] = Append(seen[c], f.n) /\ f.n \in 1..MaxMsgs
          BY <2>3, <3>1, <4>1, FrameFields DEF TypeOK
        <5>2. Range(Append(seen[c], f.n)) = Range(seen[c]) \cup {f.n}
          <6> DEFINE M == 1..MaxMsgs
          <6>1. seen[c] \in Seq(M) /\ f.n \in M
            BY <3>1, <5>1
          <6> HIDE DEF M, f
          <6> QED  BY <6>1, AppendRange
        <5> QED  BY <5>1, <5>2
      <4>2. CASE f.kind # "chat"
        BY <4>2 DEF TypeOK
      <4> QED  BY <4>1, <4>2
    <3>3. \A n \in Waiting(c) : n \in Waiting(c)' \/ (f.kind = "chat" /\ f.n = n)
      BY <3>1, WaitingTaken
    <3> QED  BY <3>2, <3>3 DEF Has
  <2> QED  BY <2>1, <2>2, <2>3, SkipKept DEF Subscribed
<1>7. ASSUME NEW c \in Clients, Joined(c) \/ Left(c) PROVE NothingSkipped'
  <2>1. /\ RoomOf[c] \in Rooms /\ hub = "running"
        /\ FanOut(RoomOf[c], members[RoomOf[c]], SystemFrame, {})
        /\ UNCHANGED <<conn, log, joinAt, seen>>
    BY <1>7 DEF Joined, Left, BroadcastSystem, peerVars, Curated, PumpsStarted
  <2>2. members[RoomOf[c]] \in SUBSET Clients /\ SystemFrame \in Frames
    BY <2>1, FrameTypes DEF TypeOK
  <2> QED  BY <2>1, <2>2, FanOutSkips
<1>8. ASSUME NEW c \in Clients, Unregister(c) PROVE NothingSkipped'
  <2> DEFINE r == RoomOf[c]
             audience == members[r] \ {c}
  <2>1. /\ r \in Rooms /\ hub = "running" /\ audience \in SUBSET Clients
        /\ RosterFrame(NamesOf(audience)) \in Frames
        /\ UNCHANGED <<conn, log, joinAt, seen>>
    BY <1>8, FrameTypes, NamesOfType DEF Unregister, peerVars, Curated, PumpsStarted, TypeOK
  <2>2. CASE c \in members[r]
    <3>1. FanOut(r, audience, RosterFrame(NamesOf(audience)), {c}) /\ audience \subseteq members[r]
      BY <1>8, <2>2 DEF Unregister, BroadcastRoster
    <3> HIDE DEF r, audience
    <3> QED  BY <2>1, <3>1, FanOutSkips
  <2>3. CASE c \notin members[r]
    BY <1>1, <1>8, <2>1, <2>3 DEF Unregister, hubVars
  <2> QED  BY <2>2, <2>3
<1>9. ASSUME NEW c \in Clients, Register(c) PROVE NothingSkipped'
  <2> DEFINE r == RoomOf[c]
             audience == members[r] \cup {c}
             f == RosterFrame(NamesOf(audience))
  <2>1. /\ r \in Rooms /\ hub = "running" /\ audience \in SUBSET Clients /\ f \in Frames
        /\ FanOut(r, audience, f, {})
        /\ UNCHANGED <<conn, log, seen>>
    BY <1>9, FrameTypes, NamesOfType DEF Register, BroadcastRoster, Curated, TypeOK
  <2>2. /\ conn[c] = "open" => joinAt'[c] = Len(log)
        /\ \A k \in Clients \ {c} : joinAt'[k] = joinAt[k]
    BY <1>9 DEF Register, TypeOK
  <2>3. \A k \in Clients : Waiting(k) \subseteq Waiting(k)'
    <3> HIDE DEF r, audience, f
    <3> QED  BY <2>1, FanOutReaches, WaitingGrows
  <2>4. Subscribed' \subseteq Subscribed \cup {c}
    <3>1. Subscribed' \subseteq Subscribed \cup audience
      <4> HIDE DEF r, audience, f
      <4> QED  BY <2>1, FanOutReaches
    <3> QED  BY <2>1, <3>1 DEF Subscribed
  <2>5. ASSUME NEW k \in Subscribed', k # c
        PROVE  {n \in (joinAt'[k] + 1)..Len(log') : log'[n] = RoomOf[k]} \subseteq Has(k)'
    <3>1. k \in Subscribed /\ k \in Clients
      BY <2>4, <2>5 DEF Subscribed
    <3> QED  BY <2>1, <2>2, <2>3, <2>5, <3>1 DEF NothingSkipped, Has
  <2>6. ASSUME c \in Subscribed'
        PROVE  (joinAt'[c] + 1)..Len(log') = {}
    BY <2>1, <2>2, <2>6, LenProperties DEF Subscribed, TypeOK
  <2> QED  BY <2>5, <2>6 DEF NothingSkipped, Has
<1>10. ASSUME NEW c \in Clients, Say(c) PROVE NothingSkipped'
  <2> DEFINE r == RoomOf[c]
             m == Len(log) + 1
             f == ChatFrame(m)
  <2>1. /\ r \in Rooms /\ hub = "running" /\ members[r] \in SUBSET Clients
        /\ FanOut(r, members[r], f, {}) /\ log' = Append(log, r)
        /\ UNCHANGED <<conn, joinAt, seen>>
    BY <1>10 DEF Say, BroadcastChat, peerVars, Curated, PumpsStarted, TypeOK
  <2>2. m \in 1..MaxMsgs /\ f \in Frames
    <3>1. c \in Pending
      BY <1>10 DEF Say, Pending
    <3>2. Cardinality(Pending) # 0
      BY <3>1, PendingFinite, FS_EmptySet
    <3>3. m \in 1..MaxMsgs
      BY <3>2, PendingFinite, LenProperties, ChatAssumption DEF WithinBound, TypeOK
    <3> QED  BY <3>3, FrameTypes
  <2>3. Len(log') = m /\ log'[m] = r /\ \A n \in 1..Len(log) : log'[n] = log[n]
    BY <2>1, AppendProperties DEF TypeOK
  <2>4. /\ Subscribed' \subseteq Subscribed
        /\ \A k \in Clients : Waiting(k) \subseteq Waiting(k)'
        /\ \A k \in Subscribed' : RoomOf[k] = r => send'[k] = Append(send[k], f)
    <3>1. Subscribed' \subseteq Subscribed \cup members[r]
          /\ \A k \in Clients : send'[k] \in {send[k], Append(send[k], f)}
          /\ \A j \in Subscribed' : RoomOf[j] = r => send'[j] = Append(send[j], f)
      <4> DEFINE room == members[r]
      <4>1. FanOut(r, room, f, {}) /\ room \in SUBSET Clients
        BY <2>1
      <4> HIDE DEF r, m, f, room
      <4>2. /\ Subscribed' \subseteq Subscribed \cup room
            /\ \A k \in Clients : send'[k] \in {send[k], Append(send[k], f)}
            /\ \A k \in Subscribed' :
                  RoomOf[k] = r => k \in room /\ send'[k] = Append(send[k], f)
        BY <2>1, <2>2, <4>1, FanOutReaches
      <4> QED  BY <4>2 DEF room
    <3>2. \A k \in Clients : Waiting(k) \subseteq Waiting(k)'
      <4> HIDE DEF r, m, f
      <4> QED  BY <2>2, <3>1, WaitingGrows
    <3> QED  BY <2>1, <3>1, <3>2 DEF Subscribed
  <2>5. ASSUME NEW k \in Subscribed', NEW n \in (joinAt'[k] + 1)..Len(log'),
               log'[n] = RoomOf[k]
        PROVE  n \in Has(k)'
    <3>1. k \in Subscribed /\ k \in Clients /\ joinAt[k] \in Nat /\ Len(log) \in Nat
      BY <2>4, LenProperties DEF Subscribed, TypeOK
    <3>2. CASE n = m
      BY <2>2, <2>3, <2>4, <2>5, <3>1, <3>2, WaitingAppended DEF Has
    <3>3. CASE n # m
      <4>1. n \in (joinAt[k] + 1)..Len(log) /\ log[n] = RoomOf[k]
        BY <2>1, <2>3, <2>5, <3>1, <3>3
      <4>2. n \in Has(k)
        BY <3>1, <4>1 DEF NothingSkipped, Has
      <4> QED  BY <2>1, <2>4, <3>1, <4>2 DEF Has
    <3> QED  BY <3>2, <3>3
  <2> QED  BY <2>5 DEF NothingSkipped, Has
<1>11. CASE HubQuit
  <2>1. Subscribed' = {}
    BY <1>11 DEF HubQuit, Subscribed
  <2> QED  BY <2>1 DEF NothingSkipped
<1>12. CASE Cleanup \/ Drain \/ ShutdownStep \/ UNCHANGED vars
  BY <1>1, <1>12 DEF Cleanup, Drain, ShutdownStep, HubStop, StoreClose, Exit, Shift, hubVars,
     peerVars, vars
<1> QED
  BY <1>2, <1>3, <1>4, <1>5, <1>6, <1>7, <1>8, <1>9, <1>10, <1>11, <1>12
     DEF Next, ClientStep, HandlerStep, ReaderExit, WriterStep

\* NothingSkipped: every message of its room since a client was registered has
\* been written to it or waits in its buffer, as long as it is registered and
\* its connection is up, for any number of clients and any buffer.
THEOREM NothingEverSkipped == Spec => []NothingSkipped
<1>1. Init => NothingSkipped
  BY DEF Init, NothingSkipped, Subscribed
<1> QED  BY <1>1, HInvAlways, SkipNext, PTL DEF Spec

-----------------------------------------------------------------------------
(* The last roster of a client, as frames come and go. *)

\* As long as the buffer and the screen do not change, the last roster does not.
LEMMA LastRosterKept ==
    ASSUME NEW c, NEW N, roster'[c] = roster[c], send'[c] = send[c], LastRosterIs(c, N)'
    PROVE  LastRosterIs(c, N)
  BY DEF LastRosterIs

\* A frame that is no roster leaves the last roster what it was.
LEMMA LastRosterOther ==
    ASSUME TypeOK, NEW c \in Clients, NEW N, NEW f \in Frames, f.kind # "roster",
           roster'[c] = roster[c], send'[c] = Append(send[c], f), LastRosterIs(c, N)'
    PROVE  LastRosterIs(c, N)
<1> DEFINE len == Len(send[c])
<1>1. /\ len \in Nat /\ Len(send'[c]) = len + 1
      /\ \A i \in 1..len : send'[c][i] = send[c][i]
      /\ send'[c][len + 1] = f
  BY AppendProperties, LenProperties DEF TypeOK
<1>2. CASE \A i \in 1..Len(send'[c]) : send'[c][i].kind # "roster"
  <2>1. \A i \in 1..len : send[c][i].kind # "roster"
    BY <1>1, <1>2
  <2>2. roster'[c] = N
    BY <1>1, <1>2 DEF LastRosterIs, RosterFrame
  <2> QED  BY <2>1, <2>2 DEF LastRosterIs
<1>3. CASE \E i \in 1..Len(send'[c]) :
              /\ send'[c][i] = RosterFrame(N)
              /\ \A j \in (i + 1)..Len(send'[c]) : send'[c][j].kind # "roster"
  <2>1. PICK i \in 1..Len(send'[c]) :
              /\ send'[c][i] = RosterFrame(N)
              /\ \A j \in (i + 1)..Len(send'[c]) : send'[c][j].kind # "roster"
    BY <1>3
  <2>2. i # len + 1
    BY <1>1, <2>1 DEF RosterFrame
  <2>3. i \in 1..len /\ send[c][i] = RosterFrame(N)
    BY <1>1, <2>1, <2>2
  <2>4. \A j \in (i + 1)..len : send[c][j].kind # "roster"
    BY <1>1, <2>1, <2>3
  <2> QED  BY <2>3, <2>4 DEF LastRosterIs
<1> QED  BY <1>2, <1>3 DEF LastRosterIs

\* A roster that is queued is the last.
LEMMA LastRosterNew ==
    ASSUME TypeOK, NEW c \in Clients, NEW N, NEW M \in SUBSET Names,
           send'[c] = Append(send[c], RosterFrame(M)), LastRosterIs(c, N)'
    PROVE  N = M
<1> DEFINE len == Len(send[c])
<1>1. /\ len \in Nat /\ Len(send'[c]) = len + 1
      /\ send'[c][len + 1] = RosterFrame(M)
  BY FrameTypes, AppendProperties, LenProperties DEF TypeOK
<1>2. RosterFrame(M).kind = "roster" /\ (RosterFrame(N) = RosterFrame(M) => N = M)
  <2>1. RosterFrame(M).kind = "roster" /\ RosterFrame(M).names = M /\ RosterFrame(N).names = N
    BY DEF RosterFrame
  <2> QED  BY <2>1
<1>3. PICK i \in 1..Len(send'[c]) :
            /\ send'[c][i] = RosterFrame(N)
            /\ \A j \in (i + 1)..Len(send'[c]) : send'[c][j].kind # "roster"
  BY <1>1, <1>2 DEF LastRosterIs
<1>4. i = len + 1
  BY <1>1, <1>2, <1>3
<1> QED  BY <1>1, <1>2, <1>3, <1>4

\* Writing a frame moves the last roster from the buffer to the screen at most.
LEMMA LastRosterWritten ==
    ASSUME TypeOK, NEW c \in Clients, NEW N, send[c] # <<>>, send'[c] = Tail(send[c]),
           roster'[c] = IF Head(send[c]).kind = "roster" THEN Head(send[c]).names ELSE roster[c],
           LastRosterIs(c, N)'
    PROVE  LastRosterIs(c, N)
<1> DEFINE len == Len(send[c])
<1>1. /\ len \in Nat \ {0} /\ Len(send'[c]) = len - 1
      /\ \A i \in 1..(len - 1) : send'[c][i] = send[c][i + 1]
      /\ Head(send[c]) = send[c][1] /\ send[c][1] \in Frames
  BY HeadTailProperties, LenProperties, EmptySeq DEF TypeOK
<1>2. \A j \in 2..len : send[c][j] = send'[c][j - 1]
  BY <1>1
<1>3. CASE roster'[c] = N /\ \A i \in 1..(len - 1) : send'[c][i].kind # "roster"
  <2>1. \A j \in 2..len : send[c][j].kind # "roster"
    BY <1>1, <1>2, <1>3
  <2>2. CASE send[c][1].kind = "roster"
    <3>1. send[c][1].names = N
      BY <1>1, <1>3, <2>2
    <3>2. \E M \in SUBSET Names : send[c][1] = RosterFrame(M)
      BY <1>1, <2>2 DEF Frames, ChatFrames, ChatFrame, SystemFrame
    <3>3. send[c][1] = RosterFrame(N)
      BY <3>1, <3>2 DEF RosterFrame
    <3> QED  BY <1>1, <2>1, <3>3 DEF LastRosterIs
  <2>3. CASE send[c][1].kind # "roster"
    <3>1. roster[c] = N
      BY <1>1, <1>3, <2>3
    <3>2. \A j \in 1..len : send[c][j].kind # "roster"
      BY <1>1, <2>1, <2>3
    <3> QED  BY <3>1, <3>2 DEF LastRosterIs
  <2> QED  BY <2>2, <2>3
<1>4. CASE \E i \in 1..(len - 1) :
              /\ send'[c][i] = RosterFrame(N)
              /\ \A j \in (i + 1)..(len - 1) : send'[c][j].kind # "roster"
  <2>1. PICK i \in 1..(len - 1) :
              /\ send'[c][i] = RosterFrame(N)
              /\ \A j \in (i + 1)..(len - 1) : send'[c][j].kind # "roster"
    BY <1>4
  <2>2. i + 1 \in 1..len /\ send[c][i + 1] = RosterFrame(N)
    BY <1>1, <2>1
  <2>3. \A j \in (i + 2)..len : send[c][j].kind # "roster"
    <3> SUFFICES ASSUME NEW j \in (i + 2)..len PROVE send[c][j].kind # "roster"
      OBVIOUS
    <3>1. j - 1 \in (i + 1)..(len - 1) /\ j \in 2..len
      BY <1>1, <2>1
    <3> QED  BY <1>2, <2>1, <3>1
  <2> QED  BY <1>1, <2>1, <2>2, <2>3 DEF LastRosterIs
<1> QED  BY <1>1, <1>3, <1>4 DEF LastRosterIs

-----------------------------------------------------------------------------
(* No roster lacks a member, and none lists a stranger. *)

\* Both at once: the steps that keep one keep the other.
RosterTrue == RosterCovers /\ RosterCurrent

\* Who a roster of room r may name: its members, and whom nobody was told of.
MayBeListed(r) == members[r] \cup {k \in dropped : RoomOf[k] = r}

\* More clients have at least as many names.
LEMMA NamesOfMonotone ==
    ASSUME NEW S, NEW T, S \subseteq T
    PROVE  NamesOf(S) \subseteq NamesOf(T)
  BY DEF NamesOf

\* It is enough that rooms only lose members, that who leaves one unnoticed is
\* recorded, and that what a member will have been shown last it would have been
\* before the step.
LEMMA RosterKept ==
    ASSUME RosterTrue,
           \A r \in Rooms : members'[r] \subseteq members[r],
           \A r \in Rooms : MayBeListed(r) \subseteq MayBeListed(r)',
           \A r \in Rooms : \A c \in members'[r] : \A N \in SUBSET Names :
              conn'[c] = "open" /\ LastRosterIs(c, N)' =>
                  conn[c] = "open" /\ LastRosterIs(c, N)
    PROVE  RosterTrue'
<1> SUFFICES ASSUME NEW r \in Rooms, NEW c \in members'[r], NEW N \in SUBSET Names,
                    conn'[c] = "open", LastRosterIs(c, N)'
             PROVE  /\ NamesOf(members'[r]) \subseteq N
                    /\ N \subseteq NamesOf(MayBeListed(r)')
  BY DEF RosterTrue, RosterCovers, RosterCurrent, NamesOf, MayBeListed
<1>1. c \in members[r] /\ conn[c] = "open" /\ LastRosterIs(c, N)
  OBVIOUS
<1>2. NamesOf(members[r]) \subseteq N /\ N \subseteq NamesOf(MayBeListed(r))
  BY <1>1 DEF RosterTrue, RosterCovers, RosterCurrent, MayBeListed
<1>3. NamesOf(members'[r]) \subseteq NamesOf(members[r])
  BY NamesOfMonotone
<1>4. NamesOf(MayBeListed(r)) \subseteq NamesOf(MayBeListed(r)')
  BY NamesOfMonotone
<1> QED  BY <1>2, <1>3, <1>4

\* The roster of a room, sent to the members an arm has left in it.
LEMMA RosterFanOut ==
    ASSUME TypeOK, HInv, RosterTrue, UNCHANGED <<conn, roster>>, NEW r \in Rooms,
           NEW audience \in SUBSET Clients, NEW shut,
           BroadcastRoster(r, audience, shut), \A c \in audience : RoomOf[c] = r
    PROVE  RosterTrue'
<1> DEFINE M == NamesOf(audience)
<1>1. /\ members' = [members EXCEPT ![r] = {c \in audience : HasRoom(c)}]
      /\ send' = [c \in Clients |-> IF c \in audience /\ HasRoom(c)
                                    THEN Append(send[c], RosterFrame(M)) ELSE send[c]]
      /\ dropped' = Unnoticed(r, audience, RosterFrame(M))
  BY DEF BroadcastRoster, FanOut
<1>2. M \in SUBSET Names
  BY NamesOfType
<1> SUFFICES ASSUME NEW q \in Rooms, NEW c \in members'[q], NEW N \in SUBSET Names,
                    conn'[c] = "open", LastRosterIs(c, N)'
             PROVE  /\ NamesOf(members'[q]) \subseteq N
                    /\ N \subseteq NamesOf(MayBeListed(q)')
  BY DEF RosterTrue, RosterCovers, RosterCurrent, NamesOf, MayBeListed
<1>3. CASE q = r
  <2>1. c \in audience /\ HasRoom(c) /\ members'[q] \subseteq audience
    BY <1>1, <1>3 DEF TypeOK
  <2>2. send'[c] = Append(send[c], RosterFrame(M))
    BY <1>1, <2>1
  <2>3. N = M
    <3> HIDE DEF M
    <3> QED  BY <1>2, <2>1, <2>2, LastRosterNew
  <2>4. audience \subseteq MayBeListed(q)'
    <3>1. {k \in audience : ~HasRoom(k)} \subseteq dropped'
      BY <1>1 DEF Unnoticed
    <3>2. members'[q] = {k \in audience : HasRoom(k)}
      BY <1>1, <1>3 DEF TypeOK
    <3> QED  BY <1>3, <3>1, <3>2 DEF MayBeListed
  <2> QED  BY <2>1, <2>3, <2>4, NamesOfMonotone
<1>4. CASE q # r
  <2>1. members'[q] = members[q] /\ c \in Clients /\ RoomOf[c] = q
    BY <1>1, <1>4 DEF TypeOK, HInv
  <2>2. send'[c] = send[c] /\ roster'[c] = roster[c]
    BY <1>1, <1>4, <2>1
  <2>3. LastRosterIs(c, N)
    BY <2>2, LastRosterKept
  <2>4. NamesOf(members[q]) \subseteq N /\ N \subseteq NamesOf(MayBeListed(q))
    BY <2>1, <2>3 DEF RosterTrue, RosterCovers, RosterCurrent, MayBeListed
  <2>5. MayBeListed(q) \subseteq MayBeListed(q)'
    BY <1>1, <1>4, <2>1 DEF MayBeListed, Unnoticed
  <2> QED  BY <2>1, <2>4, <2>5, NamesOfMonotone
<1> QED  BY <1>3, <1>4

\* Any other frame, sent to a room.
LEMMA OtherFanOut ==
    ASSUME TypeOK, HInv, RosterTrue, UNCHANGED <<conn, roster>>, NEW r \in Rooms,
           NEW f \in Frames, f.kind # "roster", FanOut(r, members[r], f, {})
    PROVE  RosterTrue'
<1>1. /\ \A q \in Rooms : members'[q] \subseteq members[q] /\ members'[q] \subseteq Clients
      /\ \A c \in Clients : send'[c] \in {send[c], Append(send[c], f)}
  BY DEF FanOut, TypeOK
<1>2. ASSUME NEW c \in Clients, NEW N, LastRosterIs(c, N)' PROVE LastRosterIs(c, N)
  BY <1>1, <1>2, LastRosterKept, LastRosterOther
<1>3. ASSUME NEW q \in Rooms PROVE MayBeListed(q) \subseteq MayBeListed(q)'
  <2>1. /\ members' = [members EXCEPT ![r] = {c \in members[r] : HasRoom(c)}]
        /\ dropped' = dropped \cup {c \in members[r] : ~HasRoom(c)}
    BY DEF FanOut, Unnoticed
  <2>2. \A c \in members[r] : RoomOf[c] = r
    BY DEF HInv, TypeOK
  <2>3. members'[q] = IF q = r THEN {c \in members[r] : HasRoom(c)} ELSE members[q]
    BY <2>1 DEF TypeOK
  <2> QED  BY <2>1, <2>2, <2>3 DEF MayBeListed
<1> QED  BY <1>1, <1>2, <1>3, RosterKept

\* Steps that leave the rooms and the buffers alone, and what every member but
\* perhaps one whose connection is not up has been shown.
LEMMA RosterIdle ==
    ASSUME TypeOK, RosterTrue, UNCHANGED <<members, dropped>>, NEW c \in Clients,
           \A r \in Rooms : c \notin members[r] \/ conn'[c] # "open",
           \A k \in Clients \ {c} : /\ conn'[k] = conn[k] /\ send'[k] = send[k]
                                   /\ roster'[k] = roster[k]
    PROVE  RosterTrue'
<1>1. \A r \in Rooms : members'[r] = members[r] /\ members[r] \subseteq Clients
  BY DEF TypeOK
<1>2. ASSUME NEW r \in Rooms, NEW k \in members'[r], NEW N \in SUBSET Names,
             conn'[k] = "open", LastRosterIs(k, N)'
      PROVE  conn[k] = "open" /\ LastRosterIs(k, N)
  <2>1. k \in Clients \ {c}
    BY <1>1, <1>2
  <2> QED  BY <1>2, <2>1, LastRosterKept
<1>3. \A r \in Rooms : MayBeListed(r)' = MayBeListed(r)
  BY DEF MayBeListed
<1> QED  BY <1>1, <1>2, <1>3, RosterKept

\* Every step keeps RosterTrue.
LEMMA RosterNext == TInv /\ HInv /\ RosterTrue /\ [Next]_vars => RosterTrue'
<1> SUFFICES ASSUME TInv, HInv, RosterTrue, [Next]_vars PROVE RosterTrue'
  OBVIOUS
<1> USE DEF TInv
<1>1. ASSUME UNCHANGED <<members, send, dropped, conn, roster>> PROVE RosterTrue'
  <2>1. \A r \in Rooms : members'[r] = members[r] /\ MayBeListed(r)' = MayBeListed(r)
    BY <1>1 DEF MayBeListed
  <2>2. ASSUME NEW k, NEW N, LastRosterIs(k, N)' PROVE LastRosterIs(k, N)
    BY <1>1, <2>2, LastRosterKept
  <2> QED  BY <1>1, <2>1, <2>2, RosterKept
<1>2. ASSUME NEW c \in Clients,
             Refuse(c) \/ Admit(c) \/ UpgradeFails(c) \/ JoinedQuit(c) \/ Read(c)
                 \/ ReadFails(c) \/ LeftQuit(c) \/ UnregisterQuit(c)
      PROVE  RosterTrue'
  BY <1>1, <1>2 DEF Refuse, Admit, UpgradeFails, JoinedQuit, Read, ReadFails, LeftQuit,
     UnregisterQuit, hubVars, peerVars
<1>3. ASSUME NEW c \in Clients, Replay(c) \/ SkipReplay(c) \/ ReplayBreaks(c)
      PROVE  RosterTrue'
  <2>1. PICK state, history : Connect(c, state, history)
    BY <1>3 DEF Replay, SkipReplay, ReplayBreaks
  <2>2. \A r \in Rooms : c \notin members[r]
    BY <2>1 DEF Connect, HInv, Offered
  <2>3. \A k \in Clients \ {c} : conn'[k] = conn[k]
    BY <2>1 DEF Connect, TypeOK
  <2> QED  BY <2>1, <2>2, <2>3, RosterIdle DEF Connect, hubVars
<1>4. ASSUME NEW c \in Clients,
             ReleaseSlot(c) \/ PingFails(c) \/ WriteClose(c) \/ PeerGone(c) \/ WriteFails(c)
      PROVE  RosterTrue'
  <2>1. /\ conn'[c] # "open" /\ UNCHANGED <<members, dropped>>
        /\ \A k \in Clients \ {c} : conn'[k] = conn[k] /\ roster'[k] = roster[k]
    BY <1>4 DEF ReleaseSlot, PingFails, WriteClose, PeerGone, WriteFails, WriterCloses, Forget,
       hubVars, TypeOK
  <2>2. \A k \in Clients \ {c} : send'[k] = send[k]
    BY <1>4 DEF ReleaseSlot, PingFails, WriteClose, PeerGone, WriteFails, hubVars, TypeOK
  <2> QED  BY <2>1, <2>2, RosterIdle
<1>5. ASSUME NEW c \in Clients, Write(c) PROVE RosterTrue'
  <2> USE <1>5 DEF Write
  <2>1. \A r \in Rooms : /\ members'[r] = members[r] /\ members[r] \subseteq Clients
                        /\ MayBeListed(r)' = MayBeListed(r)
    BY DEF TypeOK, MayBeListed
  <2>2. ASSUME NEW k \in Clients, NEW N, conn[k] = "open", LastRosterIs(k, N)'
        PROVE  LastRosterIs(k, N)
    <3>1. CASE k = c
      <4>1. /\ send[c] # <<>> /\ send'[c] = Tail(send[c])
            /\ roster'[c] = IF Head(send[c]).kind = "roster" THEN Head(send[c]).names
                            ELSE roster[c]
        BY <2>2, <3>1 DEF TypeOK
      <4> QED  BY <2>2, <3>1, <4>1, LastRosterWritten
    <3>2. CASE k # c
      <4>1. send'[k] = send[k] /\ roster'[k] = roster[k]
        BY <3>2 DEF TypeOK
      <4> QED  BY <2>2, <4>1, LastRosterKept
    <3> QED  BY <3>1, <3>2
  <2> QED  BY <2>1, <2>2, RosterKept
<1>6. ASSUME NEW c \in Clients, Joined(c) \/ Left(c) PROVE RosterTrue'
  <2>1. /\ RoomOf[c] \in Rooms /\ UNCHANGED <<conn, roster>>
        /\ FanOut(RoomOf[c], members[RoomOf[c]], SystemFrame, {})
    BY <1>6 DEF Joined, Left, BroadcastSystem, peerVars, Curated, PumpsStarted
  <2>2. SystemFrame \in Frames /\ SystemFrame.kind # "roster"
    BY FrameTypes DEF SystemFrame
  <2> QED  BY <2>1, <2>2, OtherFanOut
<1>7. ASSUME NEW c \in Clients, Say(c) PROVE RosterTrue'
  <2> DEFINE f == ChatFrame(Len(log) + 1)
  <2>1. /\ RoomOf[c] \in Rooms /\ UNCHANGED <<conn, roster>>
        /\ FanOut(RoomOf[c], members[RoomOf[c]], f, {})
    BY <1>7 DEF Say, BroadcastChat, peerVars, Curated, PumpsStarted
  <2>2. f \in Frames /\ f.kind # "roster"
    <3>1. Len(log) + 1 \in 1..MaxMsgs
      BY <1>7, SaidWithin
    <3> QED  BY <3>1, FrameTypes DEF ChatFrame
  <2> HIDE DEF f
  <2> QED  BY <2>1, <2>2, OtherFanOut
<1>8. ASSUME NEW c \in Clients, Register(c) PROVE RosterTrue'
  <2> DEFINE r == RoomOf[c]
             audience == members[r] \cup {c}
  <2>1. /\ r \in Rooms /\ audience \in SUBSET Clients /\ UNCHANGED <<conn, roster>>
        /\ BroadcastRoster(r, audience, {}) /\ \A k \in audience : RoomOf[k] = r
    BY <1>8 DEF Register, Curated, TypeOK, HInv
  <2> HIDE DEF r, audience
  <2> QED  BY <2>1, RosterFanOut
<1>9. ASSUME NEW c \in Clients, Unregister(c) PROVE RosterTrue'
  <2> DEFINE r == RoomOf[c]
             audience == members[r] \ {c}
  <2>1. /\ r \in Rooms /\ audience \in SUBSET Clients /\ UNCHANGED <<conn, roster>>
        /\ \A k \in audience : RoomOf[k] = r
    BY <1>9 DEF Unregister, peerVars, Curated, PumpsStarted, TypeOK, HInv
  <2>2. CASE c \in members[r]
    <3>1. BroadcastRoster(r, audience, {c})
      BY <1>9, <2>2 DEF Unregister
    <3> HIDE DEF r, audience
    <3> QED  BY <2>1, <3>1, RosterFanOut
  <2>3. CASE c \notin members[r]
    BY <1>1, <1>9, <2>1, <2>3 DEF Unregister, hubVars
  <2> QED  BY <2>2, <2>3
<1>10. CASE Cleanup \/ Drain \/ ShutdownStep \/ HubQuit \/ UNCHANGED vars
  BY <1>1, <1>10 DEF Cleanup, Drain, ShutdownStep, HubStop, StoreClose, Exit, Shift, HubQuit,
     hubVars, peerVars, vars
<1> QED
  BY <1>2, <1>3, <1>4, <1>5, <1>6, <1>7, <1>8, <1>9, <1>10
     DEF Next, ClientStep, HandlerStep, ReaderExit, WriterStep

\* RosterTrue holds always.
LEMMA RosterAlwaysTrue == Spec => []RosterTrue
<1>1. Init => RosterTrue
  BY DEF Init, RosterTrue, RosterCovers, RosterCurrent
<1> QED  BY <1>1, HInvAlways, RosterNext, PTL DEF Spec

\* RosterCovers: whatever is dropped, queued or yet unwritten, the last roster of
\* a connected member is never short of a member of its room.
THEOREM RosterNeverShort == Spec => []RosterCovers
<1>1. RosterTrue => RosterCovers
  BY DEF RosterTrue
<1> QED  BY <1>1, RosterAlwaysTrue, PTL

\* RosterCurrent: nor does it name anybody who has left the room, unless a full
\* buffer has thrown that client out since the room's last roster.
THEOREM RosterAlwaysCurrent == Spec => []RosterCurrent
<1>1. RosterTrue => RosterCurrent
  BY DEF RosterTrue
<1> QED  BY <1>1, RosterAlwaysTrue, PTL

-----------------------------------------------------------------------------
(* Kept, by induction over the sequence; and sequences, folded.               *)

\* Induction on the naturals, for a set: the least number outside it leads to a
\* contradiction.
LEMMA Induction ==
    ASSUME NEW S \in SUBSET Nat, 0 \in S, \A n \in S : n + 1 \in S
    PROVE  Nat \subseteq S
<1> DEFINE T == Nat \ S
<1> SUFFICES ASSUME T # {} PROVE FALSE
  OBVIOUS
<1>1. T \subseteq Nat
  OBVIOUS
<1>2. PICK x \in T : \A y \in T : ~ (<<y, x>> \in OpToRel(<, Nat))
  BY <1>1, WFMin, NatLessThanWellFounded
<1>3. x \in Nat /\ x # 0 /\ x \notin S
  OBVIOUS
<1>4. x - 1 \in Nat
  BY <1>3
<1>5. x - 1 \in T
  BY <1>3, <1>4
<1>6. <<x - 1, x>> \in OpToRel(<, Nat)
  BY <1>3, <1>4 DEF OpToRel
<1> QED  BY <1>2, <1>5, <1>6

\* g is what Kept computes on the first k elements.
Steps(g, s, keep, k) ==
    g = [i \in 0..k |-> IF i = 0 THEN <<>>
                        ELSE IF s[i] \in keep THEN Append(g[i - 1], s[i]) ELSE g[i - 1]]

\* Such a computation exists, of every length.
LEMMA StepsExist ==
    ASSUME NEW s, NEW keep, NEW k \in Nat
    PROVE  \E g : Steps(g, s, keep, k)
<1> DEFINE S == {n \in Nat : \E g : Steps(g, s, keep, n)}
<1>1. 0 \in S
  <2> DEFINE g == [i \in 0..0 |-> <<>>]
  <2>1. Steps(g, s, keep, 0)
    BY DEF Steps
  <2> QED  BY <2>1
<1>2. ASSUME NEW n \in S PROVE n + 1 \in S
  <2>1. PICK g : Steps(g, s, keep, n)
    OBVIOUS
  <2> DEFINE h == [i \in 0..(n + 1) |-> IF i <= n THEN g[i]
                       ELSE IF s[i] \in keep THEN Append(g[i - 1], s[i]) ELSE g[i - 1]]
  <2>2. ASSUME NEW i \in 0..(n + 1)
        PROVE  h[i] = IF i = 0 THEN <<>>
                      ELSE IF s[i] \in keep THEN Append(h[i - 1], s[i]) ELSE h[i - 1]
    <3>1. CASE i = n + 1
      <4>1. i # 0 /\ i - 1 \in 0..(n + 1) /\ i - 1 <= n /\ ~(i <= n)
        BY <3>1
      <4>2. h[i - 1] = g[i - 1]
        BY <4>1
      <4> QED  BY <4>1, <4>2
    <3>2. CASE i = 0
      BY <2>1, <3>2 DEF Steps
    <3>3. CASE i \in 1..n
      <4>1. i # 0 /\ i - 1 \in 0..(n + 1) /\ i - 1 <= n /\ i <= n /\ i \in 0..n
        BY <3>3
      <4>2. h[i - 1] = g[i - 1] /\ h[i] = g[i]
        BY <4>1
      <4> QED  BY <2>1, <4>1, <4>2 DEF Steps
    <3> QED  BY <3>1, <3>2, <3>3
  <2>3. h = [i \in 0..(n + 1) |-> IF i = 0 THEN <<>>
                      ELSE IF s[i] \in keep THEN Append(h[i - 1], s[i]) ELSE h[i - 1]]
    BY <2>2
  <2>4. Steps(h, s, keep, n + 1)
    BY <2>3 DEF Steps
  <2> QED  BY <2>4
<1>3. k \in S
  BY <1>1, <1>2, Induction
<1> QED  BY <1>3

\* Kept is the last of its steps.
LEMMA KeptSteps ==
    ASSUME NEW X, NEW s \in Seq(X), NEW keep
    PROVE  \E g : Steps(g, s, keep, Len(s)) /\ Kept(s, keep) = g[Len(s)]
<1>1. Len(s) \in Nat
  OBVIOUS
<1>2. \E g : Steps(g, s, keep, Len(s))
  BY <1>1, StepsExist
<1> QED  BY <1>2 DEF Kept, Steps

\* Induction up to a bound.
LEMMA InductionTo ==
    ASSUME NEW n \in Nat, NEW S, 0 \in S, \A i \in 0..(n - 1) : i \in S => i + 1 \in S
    PROVE  0..n \subseteq S
<1> DEFINE T == {i \in Nat : i <= n => i \in S}
<1>1. 0 \in T
  OBVIOUS
<1>2. ASSUME NEW i \in T PROVE i + 1 \in T
  OBVIOUS
<1>3. Nat \subseteq T
  BY <1>1, <1>2, Induction
<1> QED  BY <1>3

\* r is what of the first k elements of s is to be kept, in the order of s: e says
\* where its elements are, and leaves out none.
Picks(e, r, s, keep, k) ==
    /\ e \in [1..Len(r) -> 1..k]
    /\ \A j \in 1..Len(r) : r[j] = s[e[j]]
    /\ \A i, j \in 1..Len(r) : i < j => e[i] < e[j]
    /\ \A i \in 1..k : s[i] \in keep => \E j \in 1..Len(r) : e[j] = i

\* What Kept keeps are elements of s that are to be kept, in the order of s.
LEMMA KeptFrom ==
    ASSUME NEW X, NEW s \in Seq(X), NEW keep
    PROVE  /\ Kept(s, keep) \in Seq(X \cap keep)
           /\ \E e : Picks(e, Kept(s, keep), s, keep, Len(s))
<1> DEFINE n == Len(s)
           Y == X \cap keep
<1>1. n \in Nat /\ \A i \in 1..n : s[i] \in X
  OBVIOUS
<1>2. PICK g : Steps(g, s, keep, n) /\ Kept(s, keep) = g[n]
  BY KeptSteps
<1> DEFINE S == {k \in 0..n : g[k] \in Seq(Y) /\ \E e : Picks(e, g[k], s, keep, k)}
<1> HIDE DEF n, Y
<1>3. 0 \in S
  <2>1. g[0] = <<>>
    BY <1>1, <1>2 DEF Steps
  <2>2. Picks([j \in 1..0 |-> 1], <<>>, s, keep, 0)
    BY DEF Picks
  <2>3. <<>> \in Seq(Y) /\ 0 \in 0..n
    BY <1>1
  <2> QED  BY <2>1, <2>2, <2>3
<1>4. ASSUME NEW k \in 0..(n - 1), k \in S PROVE k + 1 \in S
  <2>1. k + 1 \in 1..n /\ k + 1 \in 0..n /\ k \in 0..n /\ k \in Nat /\ k + 1 # 0 /\ (k + 1) - 1 = k
    BY <1>1
  <2>2. g[k + 1] = IF s[k + 1] \in keep THEN Append(g[k], s[k + 1]) ELSE g[k]
    BY <1>2, <2>1 DEF Steps
  <2>3. PICK e : Picks(e, g[k], s, keep, k)
    BY <1>4
  <2>4. g[k] \in Seq(Y)
    BY <1>4
  <2> SUFFICES g[k + 1] \in Seq(Y) /\ \E d : Picks(d, g[k + 1], s, keep, k + 1)
    BY <2>1
  <2>5. CASE s[k + 1] \notin keep
    <3>1. Picks(e, g[k], s, keep, k + 1)
      <4>1. 1..k \subseteq 1..(k + 1) /\ \A i \in 1..(k + 1) : i \in 1..k \/ i = k + 1
        BY <2>1
      <4> QED  BY <2>3, <2>5, <4>1 DEF Picks
    <3> QED  BY <2>2, <2>4, <2>5, <3>1
  <2>6. CASE s[k + 1] \in keep
    <3> DEFINE l == Len(g[k]) + 1
               h == Append(g[k], s[k + 1])
               d == [j \in 1..l |-> IF j = l THEN k + 1 ELSE e[j]]
    <3>1. s[k + 1] \in Y /\ g[k + 1] = h
      BY <1>1, <2>1, <2>2, <2>6 DEF Y
    <3>2. /\ h \in Seq(Y) /\ Len(h) = l /\ l \in Nat
          /\ \A j \in 1..(l - 1) : h[j] = g[k][j]
          /\ h[l] = s[k + 1]
      BY <2>4, <3>1, AppendProperties
    <3>3. Picks(d, h, s, keep, k + 1)
      <4> HIDE DEF h
      <4>0. /\ \A j \in 1..(l - 1) : e[j] \in 1..k /\ g[k][j] = s[e[j]]
            /\ \A i, j \in 1..(l - 1) : i < j => e[i] < e[j]
            /\ \A i \in 1..k : s[i] \in keep => \E j \in 1..(l - 1) : e[j] = i
        BY <2>3, <2>4 DEF Picks
      <4>l. l >= 1
        BY <2>4
      <4> HIDE DEF l
      <4>1. ASSUME NEW j \in 1..l PROVE d[j] \in 1..(k + 1) /\ h[j] = s[d[j]]
        BY <2>1, <3>2, <4>0
      <4>2. ASSUME NEW i \in 1..l, NEW j \in 1..l, i < j PROVE d[i] < d[j]
        BY <2>1, <3>2, <4>0, <4>2
      <4>3. ASSUME NEW i \in 1..(k + 1), s[i] \in keep PROVE \E j \in 1..l : d[j] = i
        <5>1. CASE i = k + 1
          <6>1. l \in 1..l /\ d[l] = i
            BY <3>2, <4>l, <5>1
          <6> QED  BY <6>1
        <5>2. CASE i \in 1..k
          <6>1. PICK j \in 1..(l - 1) : e[j] = i
            BY <4>0, <4>3, <5>2
          <6>2. j \in 1..l /\ d[j] = i
            BY <3>2, <6>1
          <6> QED  BY <6>2
        <5> QED  BY <2>1, <5>1, <5>2
      <4> QED  BY <3>2, <4>1, <4>2, <4>3 DEF Picks
    <3> QED  BY <3>1, <3>2, <3>3
  <2> QED  BY <2>5, <2>6
<1>5. n \in S
  <2> HIDE DEF S
  <2>1. 0..n \subseteq S
    BY <1>1, <1>3, <1>4, InductionTo
  <2>2. n \in 0..n
    BY <1>1
  <2> QED  BY <2>1, <2>2
<1> QED  BY <1>2, <1>5 DEF n, Y

\* Append and \o, folded: where the provers only have to rewrite equals.
AtEnd(s, e) == Append(s, e)
Cat(s, t)  == s \o t

\* Appending to a concatenation appends to its second part.
LEMMA AppendConcat ==
    ASSUME NEW X, NEW s \in Seq(X), NEW t \in Seq(X), NEW x \in X
    PROVE  Append(s \o t, x) = s \o Append(t, x)
<1>1. Append(s \o t, x) \in Seq(X) /\ s \o Append(t, x) \in Seq(X)
  BY ConcatProperties, AppendProperties
<1>2. Len(Append(s \o t, x)) = Len(s \o Append(t, x))
  BY ConcatProperties, AppendProperties
<1>3. \A i \in 1..Len(Append(s \o t, x)) : Append(s \o t, x)[i] = (s \o Append(t, x))[i]
  OBVIOUS
<1> QED  BY <1>1, <1>2, <1>3, SeqEqual

\* The same of the folded forms.
LEMMA CatAtEnd ==
    \A X : \A a, b \in Seq(X) : \A x \in X : AtEnd(Cat(a, b), x) = Cat(a, AtEnd(b, x))
  BY AppendConcat DEF AtEnd, Cat

\* Kept distributes over concatenation: the step that needs induction.
LEMMA KeptConcat ==
    ASSUME NEW X, NEW s \in Seq(X), NEW t \in Seq(X), NEW keep
    PROVE  Kept(s \o t, keep) = Kept(s, keep) \o Kept(t, keep)
<1> DEFINE m == Len(s)
           n == Len(t)
           st == s \o t
<1>1. /\ m \in Nat /\ n \in Nat /\ st \in Seq(X) /\ Len(st) = m + n
      /\ \A i \in 1..m : st[i] = s[i]
      /\ \A i \in 1..n : st[m + i] = t[i]
      /\ \A i \in 1..n : t[i] \in X
  BY ConcatProperties
<1>2. PICK g : Steps(g, s, keep, m) /\ Kept(s, keep) = g[m]
  BY KeptSteps
<1>3. PICK h : Steps(h, t, keep, n) /\ Kept(t, keep) = h[n]
  BY KeptSteps
<1>4. PICK q : Steps(q, st, keep, m + n) /\ Kept(st, keep) = q[m + n]
  BY <1>1, KeptSteps
<1> HIDE DEF st, m, n
<1>5. q[m] = g[m]
  <2> DEFINE S == {i \in 0..m : q[i] = g[i]}
  <2>1. 0 \in S
    BY <1>1, <1>2, <1>4 DEF Steps
  <2>2. ASSUME NEW i \in 0..(m - 1), i \in S PROVE i + 1 \in S
    <3>1. /\ i + 1 \in 0..m /\ i + 1 \in 0..(m + n) /\ i + 1 # 0 /\ (i + 1) - 1 = i
          /\ i + 1 \in 1..m
      BY <1>1
    <3>2. q[i + 1] = IF st[i + 1] \in keep THEN Append(q[i], st[i + 1]) ELSE q[i]
      BY <1>4, <3>1 DEF Steps
    <3>3. g[i + 1] = IF s[i + 1] \in keep THEN Append(g[i], s[i + 1]) ELSE g[i]
      BY <1>2, <3>1 DEF Steps
    <3> QED  BY <1>1, <2>2, <3>1, <3>2, <3>3
  <2>3. 0..m \subseteq S
    BY <1>1, <2>1, <2>2, InductionTo
  <2> QED  BY <1>1, <2>3
<1>6. \A i \in 0..n : h[i] \in Seq(X)
  <2> DEFINE S == {i \in 0..n : h[i] \in Seq(X)}
  <2>1. 0 \in S
    BY <1>1, <1>3 DEF Steps
  <2>2. ASSUME NEW i \in 0..(n - 1), i \in S PROVE i + 1 \in S
    <3>1. i + 1 \in 0..n /\ i + 1 # 0 /\ (i + 1) - 1 = i /\ i + 1 \in 1..n
      BY <1>1
    <3>2. h[i + 1] = IF t[i + 1] \in keep THEN Append(h[i], t[i + 1]) ELSE h[i]
      BY <1>3, <3>1 DEF Steps
    <3>3. h[i] \in Seq(X) /\ t[i + 1] \in X
      BY <1>1, <2>2, <3>1
    <3>4. h[i + 1] \in Seq(X)
      BY <3>2, <3>3, AppendProperties
    <3> QED  BY <3>1, <3>4
  <2> HIDE DEF S
  <2>3. 0..n \subseteq S
    BY <1>1, <2>1, <2>2, InductionTo
  <2> QED  BY <2>3 DEF S
<1>7. g[m] \in Seq(X)
  <2>1. Seq(X \cap keep) \subseteq Seq(X)
    BY SeqMonotonic
  <2> QED  BY <1>2, <2>1, KeptFrom
<1>8. q[m + n] = Cat(g[m], h[n])
  <2> DEFINE S == {i \in 0..n : q[m + i] = Cat(g[m], h[i])}
  <2>1. 0 \in S
    <3>1. h[0] = <<>> /\ m + 0 = m
      BY <1>1, <1>3 DEF Steps
    <3>2. Cat(g[m], <<>>) = g[m]
      BY <1>7, ConcatEmptySeq DEF Cat
    <3>3. q[m + 0] = Cat(g[m], h[0])
      BY <1>5, <3>1, <3>2
    <3>4. 0 \in 0..n
      BY <1>1
    <3> QED  BY <3>3, <3>4
  <2>2. ASSUME NEW i \in 0..(n - 1), i \in S PROVE i + 1 \in S
    <3>1. /\ i + 1 \in 0..n /\ i + 1 # 0 /\ (i + 1) - 1 = i /\ i + 1 \in 1..n
          /\ m + (i + 1) \in 0..(m + n) /\ m + (i + 1) # 0 /\ (m + (i + 1)) - 1 = m + i
          /\ i \in 0..n
      BY <1>1
    <3>2. h[i + 1] = IF t[i + 1] \in keep THEN AtEnd(h[i], t[i + 1]) ELSE h[i]
      BY <1>3, <3>1 DEF Steps, AtEnd
    <3>3. q[m + (i + 1)] = IF st[m + (i + 1)] \in keep
                           THEN AtEnd(q[m + i], st[m + (i + 1)]) ELSE q[m + i]
      BY <1>4, <3>1 DEF Steps, AtEnd
    <3>4. st[m + (i + 1)] = t[i + 1] /\ t[i + 1] \in X /\ h[i] \in Seq(X)
      BY <1>1, <1>6, <3>1
    <3>5. AtEnd(Cat(g[m], h[i]), t[i + 1]) = Cat(g[m], AtEnd(h[i], t[i + 1]))
      BY <1>7, <3>4, CatAtEnd
    <3>6. q[m + (i + 1)] = Cat(g[m], h[i + 1])
      BY <2>2, <3>2, <3>3, <3>4, <3>5
    <3> QED  BY <3>1, <3>6
  <2> HIDE DEF S
  <2>3. 0..n \subseteq S
    BY <1>1, <2>1, <2>2, InductionTo
  <2>4. n \in S
    BY <1>1, <2>3
  <2> QED  BY <2>4 DEF S
<1> QED  BY <1>2, <1>3, <1>4, <1>8 DEF st, Cat

\* The same, quantified, for the provers to instantiate.
LEMMA KeptCat ==
    \A X : \A s, t \in Seq(X) : \A keep :
        Kept(s \o t, keep) = Kept(s, keep) \o Kept(t, keep)
BY KeptConcat

\* The sequence of one element; as a tuple, the provers rewrite it too eagerly.
Just(e) == [i \in 1..1 |-> e]

\* What it is, element by element.
LEMMA JustIs ==
    ASSUME NEW X, NEW e \in X
    PROVE  Just(e) \in Seq(X) /\ Len(Just(e)) = 1 /\ Just(e)[1] = e
  BY DEF Just

\* Appending an element is concatenating the sequence of it.
LEMMA AppendOne ==
    ASSUME NEW X, NEW s \in Seq(X), NEW e \in X, NEW j \in Seq(X), Len(j) = 1, j[1] = e
    PROVE  Append(s, e) = s \o j
<1>1. /\ Append(s, e) \in Seq(X) /\ Len(Append(s, e)) = Len(s) + 1
      /\ \A i \in 1..Len(s) : Append(s, e)[i] = s[i]
      /\ Append(s, e)[Len(s) + 1] = e
  OBVIOUS
<1>2. /\ s \o j \in Seq(X) /\ Len(s \o j) = Len(s) + Len(j)
      /\ \A i \in 1..(Len(s) + Len(j)) :
            (s \o j)[i] = IF i <= Len(s) THEN s[i] ELSE j[i - Len(s)]
  BY ConcatProperties, Zenon
<1>3. Len(s) \in Nat
  OBVIOUS
<1> DEFINE p == Append(s, e)
           q == s \o j
<1>4. p \in Seq(X) /\ q \in Seq(X) /\ Len(p) = Len(s) + 1 /\ Len(q) = Len(s) + 1
  BY <1>1, <1>2, Zenon
<1>5. ASSUME NEW i \in 1..(Len(s) + 1) PROVE p[i] = q[i]
  <2>1. q[i] = IF i <= Len(s) THEN s[i] ELSE j[i - Len(s)]
    BY <1>2, Zenon
  <2>2. p[Len(s) + 1] = e /\ \A k \in 1..Len(s) : p[k] = s[k]
    BY <1>1, Zenon
  <2> HIDE DEF p, q
  <2>3. CASE i <= Len(s)
    BY <1>3, <2>1, <2>2, <2>3
  <2>4. CASE ~(i <= Len(s))
    <3>1. i = Len(s) + 1 /\ i - Len(s) = 1
      BY <1>3, <2>4
    <3> QED  BY <2>1, <2>2, <2>4, <3>1, Zenon
  <2> QED  BY <2>3, <2>4
<1> HIDE DEF p, q
<1>6. p = q
  BY <1>4, <1>5, SeqEqual
<1> QED  BY <1>6 DEF p, q

\* The same, of the sequence that Just makes.
LEMMA AppendIs ==
    ASSUME NEW X, NEW s \in Seq(X), NEW e \in X
    PROVE  Append(s, e) = s \o Just(e)
BY JustIs, AppendOne, Zenon

\* A sequence is its first element before the rest; pointwise.
LEMMA ConcatHead ==
    ASSUME NEW X, NEW s \in Seq(X), NEW j \in Seq(X), NEW t \in Seq(X), s # <<>>,
           Len(j) = 1, j[1] = s[1], Len(t) = Len(s) - 1,
           \A i \in 1..Len(t) : t[i] = s[i + 1]
    PROVE  s = j \o t
<1>1. Len(s) \in Nat \ {0}
  BY EmptySeq
<1>2. j \o t \in Seq(X) /\ Len(j \o t) = Len(j) + Len(t)
  BY ConcatProperties, Zenon
<1>3. ASSUME NEW i \in 1..Len(s) PROVE s[i] = (j \o t)[i]
  <2>1. (j \o t)[i] = IF i <= 1 THEN j[i] ELSE t[i - 1]
    <3>1. i \in 1..(Len(j) + Len(t))
      BY <1>1
    <3>2. (j \o t)[i] = IF i <= Len(j) THEN j[i] ELSE t[i - Len(j)]
      BY <3>1, ConcatProperties, Zenon
    <3> QED  BY <3>2
  <2>2. CASE i = 1
    BY <2>1, <2>2
  <2>3. CASE i # 1
    <3>1. i - 1 \in 1..Len(t) /\ ~(i <= 1) /\ (i - 1) + 1 = i
      BY <1>1, <2>3
    <3> QED  BY <2>1, <3>1
  <2> QED  BY <2>2, <2>3
<1> QED  BY <1>2, <1>3, SeqEqual

\* The same, of Head and Tail.
LEMMA HeadIs ==
    ASSUME NEW X, NEW s \in Seq(X), s # <<>>
    PROVE  s = Just(Head(s)) \o Tail(s)
<1>1. Head(s) \in X /\ Tail(s) \in Seq(X) /\ Len(Tail(s)) = Len(s) - 1
      /\ \A i \in 1..Len(Tail(s)) : Tail(s)[i] = s[i + 1]
  BY HeadTailProperties
<1>2. Head(s) = s[1]
  OBVIOUS
<1>3. Just(Head(s)) \in Seq(X) /\ Len(Just(Head(s))) = 1 /\ Just(Head(s))[1] = s[1]
  BY <1>1, <1>2, JustIs
<1> QED  BY <1>1, <1>3, ConcatHead

\* Of nothing, nothing is kept.
LEMMA KeptNone == ASSUME NEW keep PROVE Kept(<<>>, keep) = <<>>
<1>1. <<>> \in Seq({}) /\ Len(<<>>) = 0
  OBVIOUS
<1>2. PICK g : Steps(g, <<>>, keep, 0) /\ Kept(<<>>, keep) = g[0]
  BY <1>1, KeptSteps
<1> QED  BY <1>2 DEF Steps

\* Of one element, it is kept or not.
LEMMA KeptOne ==
    ASSUME NEW e, NEW keep
    PROVE  Kept(Just(e), keep) = IF e \in keep THEN Just(e) ELSE <<>>
<1>1. Just(e) \in Seq({e}) /\ Len(Just(e)) = 1 /\ Just(e)[1] = e
  BY JustIs
<1>2. PICK g : Steps(g, Just(e), keep, 1) /\ Kept(Just(e), keep) = g[1]
  BY <1>1, KeptSteps
<1>3. g[0] = <<>> /\ g[1] = IF e \in keep THEN Append(g[0], e) ELSE g[0]
  <2>1. /\ 0 \in 0..1 /\ 1 \in 0..1 /\ 1 # 0 /\ 1 - 1 = 0
    OBVIOUS
  <2> QED  BY <1>1, <1>2, <2>1 DEF Steps
<1>4. Append(<<>>, e) = Just(e)
  <2>1. Append(<<>>, e) = <<>> \o Just(e)
    <3>1. <<>> \in Seq({e}) /\ e \in {e}
      OBVIOUS
    <3> QED  BY <3>1, AppendIs
  <2> QED  BY <1>1, <2>1, ConcatEmptySeq
<1> QED  BY <1>2, <1>3, <1>4

\* What is kept is a sequence of the same elements.
LEMMA KeptSeq == ASSUME NEW X, NEW s \in Seq(X), NEW keep PROVE Kept(s, keep) \in Seq(X)
<1>1. Seq(X \cap keep) \subseteq Seq(X)
  BY SeqMonotonic
<1> QED  BY <1>1, KeptFrom

\* What an append adds to what is kept.
LEMMA KeptAppend ==
    ASSUME NEW X, NEW s \in Seq(X), NEW e \in X, NEW keep
    PROVE  Kept(Append(s, e), keep) = IF e \in keep THEN Append(Kept(s, keep), e)
                                      ELSE Kept(s, keep)
<1>1. Just(e) \in Seq(X) /\ Append(s, e) = s \o Just(e)
  BY AppendIs, JustIs
<1>2. Kept(Append(s, e), keep) = Kept(s, keep) \o (IF e \in keep THEN Just(e) ELSE <<>>)
  <2>1. Kept(Append(s, e), keep) = Kept(s, keep) \o Kept(Just(e), keep)
    BY <1>1, KeptCat
  <2> QED  BY <2>1, KeptOne
<1>3. Kept(s, keep) \in Seq(X)
  BY KeptSeq
<1>4. Append(Kept(s, keep), e) = Kept(s, keep) \o Just(e) /\ Kept(s, keep) \o <<>> = Kept(s, keep)
  BY <1>3, AppendIs, ConcatEmptySeq
<1> QED  BY <1>2, <1>4

\* What the first element is of what is kept.
LEMMA KeptTail ==
    ASSUME NEW X, NEW s \in Seq(X), s # <<>>, NEW keep
    PROVE  Kept(s, keep) = IF Head(s) \in keep THEN Just(Head(s)) \o Kept(Tail(s), keep)
                           ELSE Kept(Tail(s), keep)
<1>1. Head(s) \in X /\ Tail(s) \in Seq(X) /\ Just(Head(s)) \in Seq(X)
  BY HeadTailProperties, JustIs
<1>2. s = Just(Head(s)) \o Tail(s)
  BY HeadIs
<1>3. Kept(s, keep) = (IF Head(s) \in keep THEN Just(Head(s)) ELSE <<>>) \o Kept(Tail(s), keep)
  <2>1. Kept(Just(Head(s)) \o Tail(s), keep) = Kept(Just(Head(s)), keep) \o Kept(Tail(s), keep)
    <3>1. \A a, b \in Seq(X) : Kept(a \o b, keep) = Kept(a, keep) \o Kept(b, keep)
      BY KeptCat
    <3> QED  BY <1>1, <3>1
  <2> QED  BY <1>2, <2>1, KeptOne
<1>4. Kept(Tail(s), keep) \in Seq(X)
  BY <1>1, KeptSeq
<1>5. <<>> \o Kept(Tail(s), keep) = Kept(Tail(s), keep)
  BY <1>4, ConcatEmptySeq
<1> QED  BY <1>3, <1>5

-----------------------------------------------------------------------------
(* Three sequences of message numbers, one after the other: what a client was *)
(* shown from the store, what it was shown live, and what waits for it.       *)

Rising(s)       == \A i, j \in 1..Len(s) : i < j => s[i] < s[j]
Before(s, t)    == \A i \in 1..Len(s), j \in 1..Len(t) : s[i] < t[j]
OfRoom(s, r, L) == \A i \in 1..Len(s) : s[i] \in 1..Len(L) /\ L[s[i]] = r

\* The numbers are of room r in the log L, and rise from each sequence to the next.
InOrder(old, live, next, r, L) ==
    /\ old \in Seq(Nat) /\ live \in Seq(Nat) /\ next \in Seq(Nat)
    /\ Rising(old) /\ Rising(live) /\ Rising(next)
    /\ Before(old, live) /\ Before(old, next) /\ Before(live, next)
    /\ OfRoom(old, r, L) /\ OfRoom(live, r, L) /\ OfRoom(next, r, L)

\* t is s with n behind it, or without its first.
Longer(s, t, n) ==
    /\ t \in Seq(Nat) /\ Len(t) = Len(s) + 1 /\ t[Len(t)] = n
    /\ \A i \in 1..Len(s) : t[i] = s[i]
Shorter(s, t) ==
    /\ t \in Seq(Nat) /\ Len(s) = Len(t) + 1
    /\ \A i \in 1..Len(t) : t[i] = s[i + 1]

\* M is the log L, later.
Extends(M, L) == Len(M) >= Len(L) /\ \A i \in 1..Len(L) : M[i] = L[i]

\* The order holds on as the log grows.
LEMMA OrderGrows ==
    ASSUME NEW a, NEW b, NEW q, NEW r, NEW X, NEW L \in Seq(X), NEW M \in Seq(X),
           InOrder(a, b, q, r, L), Extends(M, L)
    PROVE  InOrder(a, b, q, r, M)
<1>1. ASSUME NEW s, OfRoom(s, r, L) PROVE OfRoom(s, r, M)
  <2> SUFFICES ASSUME NEW i \in 1..Len(s) PROVE s[i] \in 1..Len(M) /\ M[s[i]] = r
    BY DEF OfRoom
  <2>1. s[i] \in 1..Len(L) /\ L[s[i]] = r
    BY <1>1 DEF OfRoom
  <2>2. Len(L) \in Nat /\ Len(M) \in Nat
    OBVIOUS
  <2> QED  BY <2>1, <2>2 DEF Extends
<1> QED  BY <1>1 DEF InOrder

\* Queueing the message just logged keeps the order.
LEMMA OrderQueued ==
    ASSUME NEW a, NEW b, NEW q, NEW p, NEW r, NEW X, NEW L \in Seq(X), NEW M \in Seq(X),
           InOrder(a, b, q, r, L), Extends(M, L), Len(M) = Len(L) + 1, M[Len(M)] = r,
           Longer(q, p, Len(M))
    PROVE  InOrder(a, b, p, r, M)
<1>1. Len(L) \in Nat /\ Len(M) \in Nat /\ Len(q) \in Nat /\ Len(p) \in Nat
  BY DEF InOrder, Longer
<1>2. ASSUME NEW s, s \in Seq(Nat), OfRoom(s, r, L), Before(s, q) PROVE Before(s, p)
  <2> SUFFICES ASSUME NEW i \in 1..Len(s), NEW j \in 1..Len(p) PROVE s[i] < p[j]
    BY DEF Before
  <2>1. CASE j = Len(p)
    BY <1>1, <1>2, <2>1 DEF Longer, OfRoom
  <2>2. CASE j # Len(p)
    <3>1. j \in 1..Len(q) /\ p[j] = q[j]
      BY <1>1, <2>2 DEF Longer
    <3> QED  BY <1>2, <3>1 DEF Before
  <2> QED  BY <2>1, <2>2
<1>3. Rising(p)
  <2> SUFFICES ASSUME NEW i \in 1..Len(p), NEW j \in 1..Len(p), i < j PROVE p[i] < p[j]
    BY DEF Rising
  <2>1. i \in 1..Len(q) /\ p[i] = q[i] /\ q[i] \in 1..Len(L)
    BY <1>1 DEF Longer, InOrder, OfRoom
  <2>2. CASE j = Len(p)
    BY <1>1, <2>1, <2>2 DEF Longer
  <2>3. CASE j # Len(p)
    <3>1. Len(p) = Len(q) + 1 /\ \A k \in 1..Len(q) : p[k] = q[k]
      BY DEF Longer
    <3>2. j \in 1..Len(q)
      BY <1>1, <2>3, <3>1
    <3>3. q[i] < q[j]
      BY <2>1, <3>2 DEF InOrder, Rising
    <3> QED  BY <2>1, <3>1, <3>2, <3>3
  <2> QED  BY <2>2, <2>3
<1>4. InOrder(a, b, q, r, M)
  BY OrderGrows
<1>5. OfRoom(p, r, M)
  <2> SUFFICES ASSUME NEW i \in 1..Len(p) PROVE p[i] \in 1..Len(M) /\ M[p[i]] = r
    BY DEF OfRoom
  <2>1. CASE i = Len(p)
    BY <1>1, <2>1 DEF Longer
  <2>2. CASE i # Len(p)
    <3>1. i \in 1..Len(q) /\ p[i] = q[i]
      BY <1>1, <2>2 DEF Longer
    <3> QED  BY <1>4, <3>1 DEF InOrder, OfRoom
  <2> QED  BY <2>1, <2>2
<1> QED  BY <1>2, <1>3, <1>4, <1>5 DEF InOrder, Longer

\* So does dropping the first that waits.
LEMMA OrderDropped ==
    ASSUME NEW a, NEW b, NEW q, NEW p, NEW r, NEW L,
           InOrder(a, b, q, r, L), Shorter(q, p)
    PROVE  InOrder(a, b, p, r, L)
<1>1. /\ Len(q) \in Nat /\ Len(p) \in Nat
      /\ \A i \in 1..Len(p) : i + 1 \in 1..Len(q) /\ p[i] = q[i + 1]
  BY DEF InOrder, Shorter
<1>2. ASSUME NEW s, Before(s, q) PROVE Before(s, p)
  BY <1>1, <1>2 DEF Before
<1>3. Rising(p)
  <2> SUFFICES ASSUME NEW i \in 1..Len(p), NEW j \in 1..Len(p), i < j PROVE p[i] < p[j]
    BY DEF Rising
  <2>1. i + 1 < j + 1
    BY <1>1
  <2> QED  BY <1>1, <2>1 DEF InOrder, Rising
<1>4. OfRoom(p, r, L)
  BY <1>1 DEF InOrder, OfRoom
<1> QED  BY <1>2, <1>3, <1>4 DEF InOrder, Shorter

\* So does writing it.
LEMMA OrderWritten ==
    ASSUME NEW a, NEW b, NEW d, NEW q, NEW p, NEW r, NEW L,
           InOrder(a, b, q, r, L), Shorter(q, p), Longer(b, d, q[1])
    PROVE  InOrder(a, d, p, r, L)
<1>1. /\ Len(q) \in Nat /\ Len(p) \in Nat /\ Len(b) \in Nat /\ Len(d) \in Nat /\ 1 \in 1..Len(q)
      /\ \A i \in 1..Len(p) : i + 1 \in 1..Len(q) /\ p[i] = q[i + 1] /\ 1 < i + 1
      /\ \A i \in 1..Len(d) : (i \in 1..Len(b) /\ d[i] = b[i]) \/ (i = Len(d) /\ d[i] = q[1])
  <2>1. /\ Len(q) \in Nat /\ Len(p) \in Nat /\ Len(q) = Len(p) + 1
        /\ \A i \in 1..Len(p) : p[i] = q[i + 1]
    BY DEF InOrder, Shorter
  <2>2. /\ Len(b) \in Nat /\ Len(d) \in Nat /\ Len(d) = Len(b) + 1 /\ d[Len(d)] = q[1]
        /\ \A i \in 1..Len(b) : d[i] = b[i]
    BY DEF InOrder, Longer
  <2>3. \A i \in 1..Len(p) : i + 1 \in 1..Len(q) /\ 1 < i + 1
    BY <2>1
  <2>4. \A i \in 1..Len(d) : i \in 1..Len(b) \/ i = Len(d)
    BY <2>2
  <2>5. 1 \in 1..Len(q)
    BY <2>1
  <2> QED  BY <2>1, <2>2, <2>3, <2>4, <2>5
<1>2. InOrder(a, b, p, r, L)
  BY OrderDropped
<1>3. Before(a, d)
  <2> SUFFICES ASSUME NEW i \in 1..Len(a), NEW j \in 1..Len(d) PROVE a[i] < d[j]
    BY DEF Before
  <2> QED  BY <1>1 DEF InOrder, Before
<1>4. Before(d, p)
  <2> SUFFICES ASSUME NEW i \in 1..Len(d), NEW j \in 1..Len(p) PROVE d[i] < p[j]
    BY DEF Before
  <2>1. CASE i \in 1..Len(b) /\ d[i] = b[i]
    BY <1>2, <2>1 DEF InOrder, Before
  <2>2. CASE d[i] = q[1]
    BY <1>1, <2>2 DEF InOrder, Rising
  <2> QED  BY <1>1, <2>1, <2>2
<1>5. Rising(d)
  <2> SUFFICES ASSUME NEW i \in 1..Len(d), NEW j \in 1..Len(d), i < j PROVE d[i] < d[j]
    BY DEF Rising
  <2>1. i \in 1..Len(b) /\ d[i] = b[i]
    BY <1>1
  <2>2. CASE j \in 1..Len(b) /\ d[j] = b[j]
    BY <2>1, <2>2 DEF InOrder, Rising
  <2>3. CASE d[j] = q[1]
    BY <1>1, <2>1, <2>3 DEF InOrder, Before
  <2> QED  BY <1>1, <2>2, <2>3
<1>6. OfRoom(d, r, L)
  BY <1>1 DEF InOrder, OfRoom
<1> QED  BY <1>2, <1>3, <1>4, <1>5, <1>6 DEF InOrder, Longer

\* So does forgetting what was shown.
LEMMA OrderForgotten ==
    ASSUME NEW a, NEW b, NEW q, NEW r, NEW L, InOrder(a, b, q, r, L)
    PROVE  InOrder(<<>>, <<>>, q, r, L)
<1>1. <<>> \in Seq(Nat) /\ Len(<<>>) = 0
  OBVIOUS
<1>2. 1..0 = {}
  OBVIOUS
<1> QED  BY <1>1, <1>2 DEF InOrder, Rising, Before, OfRoom

\* A history in order is an order, for who has been shown nothing else.
LEMMA OrderNew ==
    ASSUME NEW a \in Seq(Nat), NEW r, NEW L, Rising(a), OfRoom(a, r, L)
    PROVE  InOrder(a, <<>>, <<>>, r, L)
<1>1. <<>> \in Seq(Nat) /\ Len(<<>>) = 0
  OBVIOUS
<1>2. 1..0 = {}
  OBVIOUS
<1> QED  BY <1>1, <1>2 DEF InOrder, Rising, Before, OfRoom

\* Rising sequences, one before the other, make a rising sequence.
LEMMA RisingConcat ==
    ASSUME NEW s \in Seq(Nat), NEW t \in Seq(Nat), NEW r, NEW L,
           Rising(s), Rising(t), Before(s, t), OfRoom(s, r, L), OfRoom(t, r, L)
    PROVE  s \o t \in Seq(Nat) /\ Rising(s \o t) /\ OfRoom(s \o t, r, L)
<1> DEFINE st == s \o t
<1>1. /\ st \in Seq(Nat) /\ Len(st) = Len(s) + Len(t) /\ Len(s) \in Nat /\ Len(t) \in Nat
      /\ \A i \in 1..Len(st) : st[i] = IF i <= Len(s) THEN s[i] ELSE t[i - Len(s)]
  BY ConcatProperties
<1> HIDE DEF st
<1>2. \A i \in 1..Len(st) : \/ i \in 1..Len(s) /\ st[i] = s[i]
                            \/ i > Len(s) /\ i - Len(s) \in 1..Len(t) /\ st[i] = t[i - Len(s)]
  BY <1>1
<1>3. Rising(st)
  <2> SUFFICES ASSUME NEW i \in 1..Len(st), NEW j \in 1..Len(st), i < j PROVE st[i] < st[j]
    BY DEF Rising
  <2>1. CASE j \in 1..Len(s) /\ st[j] = s[j]
    <3>1. i \in 1..Len(s) /\ st[i] = s[i]
      BY <1>1, <1>2, <2>1
    <3> QED  BY <2>1, <3>1 DEF Rising
  <2>2. CASE j > Len(s) /\ j - Len(s) \in 1..Len(t) /\ st[j] = t[j - Len(s)]
    <3>1. CASE i \in 1..Len(s) /\ st[i] = s[i]
      BY <2>2, <3>1 DEF Before
    <3>2. CASE i > Len(s) /\ i - Len(s) \in 1..Len(t) /\ st[i] = t[i - Len(s)]
      <4>1. i - Len(s) < j - Len(s)
        BY <1>1
      <4> QED  BY <2>2, <3>2, <4>1 DEF Rising
    <3> QED  BY <1>2, <3>1, <3>2
  <2> QED  BY <1>2, <2>1, <2>2
<1>4. OfRoom(st, r, L)
  BY <1>2 DEF OfRoom
<1> QED  BY <1>1, <1>3, <1>4 DEF st

\* An order is what StreamOrdered says, of the three in a row.
LEMMA OrderStream ==
    ASSUME NEW a, NEW b, NEW q, NEW r, NEW L, InOrder(a, b, q, r, L)
    PROVE  LET got == a \o b \o q
           IN  /\ \A i, j \in DOMAIN got : i < j => got[i] < got[j]
               /\ \A i \in DOMAIN got : L[got[i]] = r
<1> DEFINE ab == a \o b
<1>1. /\ ab \in Seq(Nat) /\ Rising(ab) /\ OfRoom(ab, r, L)
      /\ Len(ab) = Len(a) + Len(b) /\ Len(a) \in Nat /\ Len(b) \in Nat
      /\ \A i \in 1..Len(ab) : ab[i] = IF i <= Len(a) THEN a[i] ELSE b[i - Len(a)]
  BY RisingConcat, ConcatProperties DEF InOrder
<1>2. ab \o q = a \o b \o q
  OBVIOUS
<1> HIDE DEF ab
<1>3. Before(ab, q)
  <2> SUFFICES ASSUME NEW i \in 1..Len(ab), NEW j \in 1..Len(q) PROVE ab[i] < q[j]
    BY DEF Before
  <2>1. CASE i <= Len(a)
    <3>1. i \in 1..Len(a) /\ ab[i] = a[i]
      BY <1>1, <2>1
    <3> QED  BY <3>1 DEF InOrder, Before
  <2>2. CASE ~(i <= Len(a))
    <3>1. i - Len(a) \in 1..Len(b) /\ ab[i] = b[i - Len(a)]
      BY <1>1, <2>2
    <3> QED  BY <3>1 DEF InOrder, Before
  <2> QED  BY <2>1, <2>2
<1> DEFINE got == ab \o q
<1>4. got \in Seq(Nat) /\ Rising(got) /\ OfRoom(got, r, L)
  BY <1>1, <1>3, RisingConcat DEF InOrder
<1> HIDE DEF got
<1>5. DOMAIN got = 1..Len(got)
  BY <1>4
<1>6. /\ \A i, j \in DOMAIN got : i < j => got[i] < got[j]
      /\ \A i \in DOMAIN got : L[got[i]] = r
  BY <1>4, <1>5 DEF Rising, OfRoom
<1> QED  BY <1>2, <1>6 DEF got

-----------------------------------------------------------------------------
(* The chat messages of a buffer, as frames come and go. *)

QueuedIn(s) ==
    LET chats == Kept(s, ChatFrames)
    IN  [i \in 1..Len(chats) |-> chats[i].n]

\* Queued, as a function of the buffer.
LEMMA QueuedIs == \A c : Queued(c) = QueuedIn(send[c])
  BY DEF Queued, QueuedIn

\* The same after a step.
LEMMA QueuedNext == \A c : Queued(c)' = QueuedIn(send'[c])
  BY DEF Queued, QueuedIn

\* What a chat message is made of.
LEMMA ChatFields ==
    ASSUME NEW f \in ChatFrames
    PROVE  f \in Frames /\ f.kind = "chat" /\ f.n \in 1..MaxMsgs /\ f.n \in Nat
<1>1. PICK n \in 1..MaxMsgs : f = ChatFrame(n)
  BY DEF ChatFrames
<1>2. f.kind = "chat" /\ f.n = n
  BY <1>1 DEF ChatFrame
<1>3. n \in Nat
  BY ChatAssumption
<1> QED  BY <1>2, <1>3 DEF Frames

\* Only chat messages are of kind "chat".
LEMMA ChatKind ==
    ASSUME NEW f \in Frames
    PROVE  f.kind = "chat" <=> f \in ChatFrames
<1>1. CASE f \in ChatFrames
  BY <1>1, ChatFields
<1>2. CASE f = SystemFrame
  BY <1>2, ChatFields DEF SystemFrame
<1>3. CASE f \in {RosterFrame(N) : N \in SUBSET Names}
  BY <1>3, ChatFields DEF RosterFrame
<1> QED  BY <1>1, <1>2, <1>3 DEF Frames

\* The numbers of what is kept, one by one.
LEMMA QueuedType ==
    ASSUME NEW s \in Seq(Frames)
    PROVE  /\ QueuedIn(s) \in Seq(1..MaxMsgs) /\ QueuedIn(s) \in Seq(Nat)
           /\ Kept(s, ChatFrames) \in Seq(ChatFrames)
           /\ Len(QueuedIn(s)) = Len(Kept(s, ChatFrames)) /\ Len(QueuedIn(s)) \in Nat
           /\ \A i \in 1..Len(QueuedIn(s)) : QueuedIn(s)[i] = Kept(s, ChatFrames)[i].n
<1> DEFINE chats == Kept(s, ChatFrames)
<1>1. chats \in Seq(ChatFrames)
  <2>1. Frames \cap ChatFrames = ChatFrames
    BY DEF Frames
  <2> QED  BY <2>1, KeptFrom
<1> HIDE DEF chats
<1>2. Len(chats) \in Nat /\ \A i \in 1..Len(chats) : chats[i].n \in 1..MaxMsgs /\ chats[i].n \in Nat
  BY <1>1, ChatFields
<1> DEFINE q == [i \in 1..Len(chats) |-> chats[i].n]
<1>3. q \in Seq(1..MaxMsgs) /\ q \in Seq(Nat) /\ Len(q) = Len(chats)
      /\ \A i \in 1..Len(q) : q[i] = chats[i].n
  BY <1>2
<1>4. QueuedIn(s) = q
  BY DEF QueuedIn, chats
<1> QED  BY <1>1, <1>2, <1>3, <1>4 DEF chats

\* Nothing waits in an empty buffer.
LEMMA QueuedNone == QueuedIn(<<>>) = <<>>
<1>1. Kept(<<>>, ChatFrames) = <<>>
  BY KeptNone
<1>2. QueuedIn(<<>>) = [i \in 1..0 |-> <<>>[i].n]
  BY <1>1 DEF QueuedIn
<1> QED  BY <1>2

\* A chat message is put behind those that wait.
LEMMA QueuedChat ==
    ASSUME NEW s \in Seq(Frames), NEW f \in ChatFrames
    PROVE  Longer(QueuedIn(s), QueuedIn(Append(s, f)), f.n)
<1> DEFINE chats == Kept(s, ChatFrames)
           t == Append(s, f)
<1>1. f \in Frames /\ t \in Seq(Frames)
  BY ChatFields, AppendProperties
<1>2. Kept(t, ChatFrames) = Append(chats, f)
  BY <1>1, KeptAppend
<1>3. /\ chats \in Seq(ChatFrames)
      /\ Len(Append(chats, f)) = Len(chats) + 1 /\ Len(chats) \in Nat
      /\ \A i \in 1..Len(chats) : Append(chats, f)[i] = chats[i]
      /\ Append(chats, f)[Len(chats) + 1] = f
  BY QueuedType, AppendProperties
<1> HIDE DEF t
<1>4. /\ QueuedIn(s) \in Seq(Nat) /\ Len(QueuedIn(s)) = Len(chats)
      /\ \A i \in 1..Len(QueuedIn(s)) : QueuedIn(s)[i] = chats[i].n
  BY QueuedType
<1>5. /\ QueuedIn(t) \in Seq(Nat) /\ Len(QueuedIn(t)) = Len(Append(chats, f))
      /\ \A i \in 1..Len(QueuedIn(t)) : QueuedIn(t)[i] = Append(chats, f)[i].n
  BY <1>1, <1>2, QueuedType
<1> HIDE DEF chats
<1> DEFINE u == Append(chats, f)
           q == QueuedIn(s)
           p == QueuedIn(t)
<1>6. /\ Len(u) = Len(chats) + 1 /\ Len(chats) \in Nat
      /\ \A i \in 1..Len(chats) : u[i] = chats[i]
      /\ u[Len(chats) + 1] = f
      /\ Len(q) = Len(chats) /\ \A i \in 1..Len(q) : q[i] = chats[i].n
      /\ p \in Seq(Nat) /\ Len(p) = Len(u) /\ \A i \in 1..Len(p) : p[i] = u[i].n
  BY <1>3, <1>4, <1>5
<1> HIDE DEF u, q, p
<1>7. Len(p) = Len(q) + 1 /\ p[Len(p)] = f.n /\ \A i \in 1..Len(q) : p[i] = q[i]
  BY <1>6
<1> QED  BY <1>6, <1>7 DEF Longer, q, p, t

\* Another frame leaves them alone.
LEMMA QueuedOther ==
    ASSUME NEW s \in Seq(Frames), NEW f \in Frames \ ChatFrames
    PROVE  QueuedIn(Append(s, f)) = QueuedIn(s)
<1>1. Kept(Append(s, f), ChatFrames) = Kept(s, ChatFrames)
  BY KeptAppend
<1> QED  BY <1>1 DEF QueuedIn

\* One element before a sequence, pointwise.
LEMMA ConcatJust ==
    ASSUME NEW X, NEW j \in Seq(X), NEW s \in Seq(X), Len(j) = 1
    PROVE  /\ Len(Cat(j, s)) = Len(s) + 1 /\ Cat(j, s)[1] = j[1]
           /\ \A i \in 1..Len(s) : Cat(j, s)[i + 1] = s[i]
<1> DEFINE t == j \o s
<1>1. /\ Len(t) = Len(j) + Len(s) /\ Len(s) \in Nat
      /\ \A i \in 1..(Len(j) + Len(s)) : t[i] = IF i <= Len(j) THEN j[i] ELSE s[i - Len(j)]
  BY ConcatProperties, LenProperties, Zenon
<1>2. Cat(j, s) = t
  BY DEF Cat
<1> HIDE DEF t
<1> QED  BY <1>1, <1>2

\* Taking the first frame takes the first message, if it is one.
LEMMA QueuedHead ==
    ASSUME NEW s \in Seq(Frames), s # <<>>
    PROVE  /\ Head(s) \in Frames /\ Tail(s) \in Seq(Frames)
           /\ Head(s) \in ChatFrames => /\ Shorter(QueuedIn(s), QueuedIn(Tail(s)))
                                        /\ QueuedIn(s)[1] = Head(s).n
           /\ Head(s) \notin ChatFrames => QueuedIn(Tail(s)) = QueuedIn(s)
<1> DEFINE f == Head(s)
           w == Tail(s)
           rest == Kept(w, ChatFrames)
           chats == Kept(s, ChatFrames)
<1>1. f \in Frames /\ w \in Seq(Frames)
  BY HeadTailProperties
<1>2. chats = IF f \in ChatFrames THEN Just(f) \o rest ELSE rest
  BY KeptTail
<1>3. ASSUME f \in ChatFrames
      PROVE  Shorter(QueuedIn(s), QueuedIn(w)) /\ QueuedIn(s)[1] = f.n
  <2>1. Just(f) \in Seq(ChatFrames) /\ Len(Just(f)) = 1 /\ Just(f)[1] = f
    BY <1>3, JustIs
  <2> HIDE DEF f, w
  <2>2. rest \in Seq(ChatFrames) /\ Len(rest) \in Nat
    BY <1>1, QueuedType
  <2>3. Len(chats) = Len(rest) + 1 /\ chats[1] = f /\ \A i \in 1..Len(rest) : chats[i + 1] = rest[i]
    <3> HIDE DEF rest, chats
    <3>1. chats = Cat(Just(f), rest)
      BY <1>2, <1>3 DEF Cat
    <3> QED  BY <2>1, <2>2, <3>1, ConcatJust
  <2> DEFINE q == QueuedIn(s)
             p == QueuedIn(w)
  <2>4. /\ q \in Seq(Nat) /\ Len(q) = Len(chats)
        /\ \A i \in 1..Len(q) : q[i] = chats[i].n
        /\ p \in Seq(Nat) /\ Len(p) = Len(rest)
        /\ \A i \in 1..Len(p) : p[i] = rest[i].n
    BY <1>1, QueuedType
  <2> HIDE DEF q, p, rest, chats
  <2>5. Len(q) = Len(p) + 1 /\ 1 \in 1..Len(q)
    BY <2>2, <2>3, <2>4
  <2>6. \A i \in 1..Len(p) : i + 1 \in 1..Len(q) /\ i \in 1..Len(rest)
    BY <2>2, <2>4, <2>5
  <2>7. \A i \in 1..Len(p) : p[i] = q[i + 1]
    BY <2>3, <2>4, <2>6, Zenon
  <2>8. q[1] = f.n
    BY <2>3, <2>4, <2>5, Zenon
  <2> QED  BY <2>4, <2>5, <2>7, <2>8 DEF Shorter, q, p
<1>4. f \notin ChatFrames => QueuedIn(w) = QueuedIn(s)
  BY <1>2 DEF QueuedIn
<1> QED  BY <1>1, <1>3, <1>4

-----------------------------------------------------------------------------
(* The table. *)

\* The rows are the broadcast messages that were saved, in the order of the log.
RowsInOrder ==
    /\ \A i, j \in 1..Len(rows) : i < j => rows[i].body < rows[j].body
    /\ \A i \in 1..Len(rows) : rows[i].body \in 1..Len(log) /\ log[rows[i].body] = rows[i].room

\* Reverse, element by element.
LEMMA ReverseIs ==
    ASSUME NEW X, NEW s \in Seq(X)
    PROVE  /\ Reverse(s) \in Seq(X) /\ Len(Reverse(s)) = Len(s)
           /\ \A i \in 1..Len(s) : Reverse(s)[i] = s[Len(s) - i + 1]
<1>1. Len(s) \in Nat /\ \A i \in 1..Len(s) : s[i] \in X
  OBVIOUS
<1>2. \A i \in 1..Len(s) : Len(s) - i + 1 \in 1..Len(s) /\ (Len(s) - i) + 1 = Len(s) - i + 1
  BY <1>1
<1> QED  BY <1>1, <1>2 DEF Reverse

\* got is the bodies of the last rows of a room, oldest first, and at where they are:
\* it leaves out a row of the room only if it holds HistoryLimit later ones.
IsPage(got, at, r) ==
    /\ got \in Seq(Nat) /\ Len(got) <= HistoryLimit
    /\ \A i \in 1..Len(got) : /\ at[i] \in 1..Len(rows)
                              /\ rows[at[i]].room = r /\ got[i] = rows[at[i]].body
    /\ \A i, j \in 1..Len(got) : i < j => at[i] < at[j]
    /\ \A m \in 1..Len(rows) :
          rows[m].room = r =>
              \/ \E i \in 1..Len(got) : at[i] = m
              \/ Len(got) = HistoryLimit /\ \A i \in 1..Len(got) : m < at[i]

\* recent: the query's page, turned around.
LEMMA RecentPage ==
    ASSUME TypeOK, NEW r
    PROVE  \E at : IsPage(Recent(r), at, r)
<1> DEFINE Row == [room : Rooms, body : 1..MaxMsgs]
           mine == Kept(rows, InRoom(r))
           n == Len(mine)
           turned == Reverse(mine)
           k == IF Len(turned) < HistoryLimit THEN Len(turned) ELSE HistoryLimit
           newest == SubSeq(turned, 1, k)
           page == Reverse(newest)
           got == [i \in 1..Len(page) |-> page[i].body]
<1>0. got = Recent(r)
  BY DEF Recent, NewestFirst
<1> HIDE DEF got
<1>1. rows \in Seq(Row) /\ Len(rows) \in Nat
  BY DEF TypeOK
<1>2. mine \in Seq(Row \cap InRoom(r)) /\ \E e : Picks(e, mine, rows, InRoom(r), Len(rows))
  <2> HIDE DEF Row
  <2> QED  BY <1>1, KeptFrom
<1>3. /\ \A x \in Row \cap InRoom(r) : x.body \in Nat /\ x.room = r
      /\ \A x \in Row : x.room = r => x \in InRoom(r)
  BY ChatAssumption DEF InRoom
<1> DEFINE Mine == Row \cap InRoom(r)
<1> HIDE DEF Row, Mine
<1>4. mine \in Seq(Mine)
  BY <1>2 DEF Mine
<1> HIDE DEF mine
<1>5. /\ turned \in Seq(Mine) /\ Len(turned) = n
      /\ \A i \in 1..n : turned[i] = mine[n - i + 1]
  BY <1>4, ReverseIs
<1>6. n \in Nat /\ k \in Nat /\ k <= n /\ k <= HistoryLimit /\ (k = n \/ k = HistoryLimit)
  BY <1>4, <1>5, HistoryAssumption
<1> HIDE DEF n, k, turned
<1>7. /\ newest \in Seq(Mine) /\ Len(newest) = k
      /\ \A i \in 1..k : newest[i] = turned[i]
  <2>1. \A i \in 1..k : turned[i] \in Mine
    BY <1>6, <1>5
  <2>2. /\ newest \in Seq(Mine) /\ Len(newest) = IF 1 <= k THEN k - 1 + 1 ELSE 0
        /\ \A i \in 1..(k - 1 + 1) : newest[i] = turned[1 + i - 1]
    BY <1>6, <2>1, SubSeqProperties
  <2> HIDE DEF newest
  <2> QED  BY <1>6, <2>2
<1> HIDE DEF newest
<1>8. /\ page \in Seq(Mine) /\ Len(page) = k
      /\ \A i \in 1..k : page[i] = newest[k - i + 1]
  BY <1>7, ReverseIs
<1> HIDE DEF page
<1>9. \A i \in 1..k : (n - k) + i \in 1..n /\ page[i] = mine[(n - k) + i]
  <2> SUFFICES ASSUME NEW i \in 1..k
               PROVE  (n - k) + i \in 1..n /\ page[i] = mine[(n - k) + i]
    OBVIOUS
  <2>1. k - i + 1 \in 1..k /\ k - i + 1 \in 1..n /\ n - (k - i + 1) + 1 = (n - k) + i
        /\ (n - k) + i \in 1..n
    BY <1>6
  <2> QED  BY <1>5, <1>7, <1>8, <2>1
<1>10. \A i \in 1..k : page[i] \in Mine /\ page[i].body \in Nat /\ page[i].room = r
  BY <1>3, <1>6, <1>8 DEF Mine
<1>11. got \in Seq(Nat) /\ Len(got) = k /\ \A i \in 1..k : got[i] = page[i].body
  BY <1>6, <1>8, <1>10 DEF got
<1>12. PICK e : /\ \A j \in 1..n : e[j] \in 1..Len(rows) /\ mine[j] = rows[e[j]]
                /\ \A i, j \in 1..n : i < j => e[i] < e[j]
                /\ \A i \in 1..Len(rows) : rows[i] \in InRoom(r) => \E j \in 1..n : e[j] = i
  BY <1>2 DEF Picks, n, mine
<1> DEFINE at == [i \in 1..k |-> e[(n - k) + i]]
<1>13. ASSUME NEW i \in 1..k PROVE /\ at[i] \in 1..Len(rows) /\ got[i] = rows[at[i]].body
                                   /\ rows[at[i]].room = r
  <2>1. at[i] = e[(n - k) + i]
    OBVIOUS
  <2> HIDE DEF at
  <2>2. page[i] = rows[at[i]] /\ at[i] \in 1..Len(rows)
    BY <1>9, <1>12, <2>1
  <2> QED  BY <1>10, <1>11, <2>2
<1>14. ASSUME NEW i \in 1..k, NEW j \in 1..k, i < j PROVE at[i] < at[j]
  <2>1. (n - k) + i < (n - k) + j
    BY <1>6, <1>14
  <2> QED  BY <1>9, <1>12, <2>1
<1>15. ASSUME NEW m \in 1..Len(rows), rows[m].room = r
       PROVE  \/ \E i \in 1..k : at[i] = m
              \/ k = HistoryLimit /\ \A i \in 1..k : m < at[i]
  <2>1. rows[m] \in InRoom(r)
    BY <1>1, <1>3, <1>15
  <2>2. PICK j \in 1..n : e[j] = m
    BY <1>12, <2>1
  <2>3. CASE j > n - k
    <3>1. j - (n - k) \in 1..k /\ (n - k) + (j - (n - k)) = j
      BY <1>6, <2>3
    <3>2. at[j - (n - k)] = m
      BY <2>2, <3>1
    <3> QED  BY <3>1, <3>2
  <2>4. CASE ~(j > n - k)
    <3>1. k = HistoryLimit
      BY <1>6, <2>4
    <3>2. ASSUME NEW i \in 1..k PROVE m < at[i]
      <4>1. j < (n - k) + i /\ (n - k) + i \in 1..n
        BY <1>6, <2>4
      <4> QED  BY <1>12, <2>2, <4>1
    <3> QED  BY <3>1, <3>2
  <2> QED  BY <2>3, <2>4
<1> HIDE DEF at
<1>16. IsPage(got, at, r)
  BY <1>6, <1>11, <1>13, <1>14, <1>15 DEF IsPage
<1> QED  BY <1>0, <1>16

\* With the table in order, so is what is read of it.
LEMMA RecentIs ==
    ASSUME TypeOK, RowsInOrder, NEW r
    PROVE  Recent(r) \in Seq(Nat) /\ Rising(Recent(r)) /\ OfRoom(Recent(r), r, log)
<1> DEFINE got == Recent(r)
<1>1. PICK at : IsPage(got, at, r)
  BY RecentPage
<1> HIDE DEF got
<1>2. Rising(got)
  BY <1>1 DEF IsPage, Rising, RowsInOrder
<1>3. OfRoom(got, r, log)
  BY <1>1 DEF IsPage, OfRoom, RowsInOrder
<1> QED  BY <1>1, <1>2, <1>3 DEF IsPage, got

\* Saving the message that is being broadcast, and purging, keep the table.
LEMMA RowsSaved ==
    ASSUME TypeOK, RowsInOrder, NEW r \in Rooms, log' = Append(log, r),
           rows' = rows \/ rows' = Append(rows, [room |-> r, body |-> Len(log) + 1])
    PROVE  RowsInOrder'
<1> DEFINE Row == [room : Rooms, body : 1..MaxMsgs]
           new == [room |-> r, body |-> Len(log) + 1]
<1>1. rows \in Seq(Row) /\ Len(rows) \in Nat /\ Len(log) \in Nat
  BY DEF TypeOK
<1>2. Len(log') = Len(log) + 1 /\ log'[Len(log) + 1] = r /\ \A i \in 1..Len(log) : log'[i] = log[i]
  BY AppendProperties DEF TypeOK
<1>3. new.room = r /\ new.body = Len(log) + 1
  OBVIOUS
<1> HIDE DEF Row, new
<1>4. CASE rows' = rows
  BY <1>1, <1>2, <1>4 DEF RowsInOrder
<1>5. CASE rows' = Append(rows, new)
  <2>1. Len(rows') = Len(rows) + 1 /\ rows'[Len(rows) + 1] = new
        /\ \A i \in 1..Len(rows) : rows'[i] = rows[i]
    BY <1>1, <1>5
  <2>2. ASSUME NEW i \in 1..Len(rows')
        PROVE  \/ i \in 1..Len(rows) /\ rows'[i] = rows[i]
               \/ i = Len(rows) + 1 /\ rows'[i] = new
    BY <1>1, <2>1
  <2>3. ASSUME NEW i \in 1..Len(rows'), NEW j \in 1..Len(rows'), i < j
        PROVE  rows'[i].body < rows'[j].body
    <3>1. i \in 1..Len(rows) /\ rows'[i] = rows[i] /\ rows[i].body \in 1..Len(log)
      BY <1>1, <2>1, <2>3 DEF RowsInOrder
    <3>2. CASE j \in 1..Len(rows) /\ rows'[j] = rows[j]
      BY <2>3, <3>1, <3>2 DEF RowsInOrder
    <3>3. CASE rows'[j] = new
      BY <1>1, <1>3, <3>1, <3>3
    <3> QED  BY <2>2, <3>2, <3>3
  <2>4. ASSUME NEW i \in 1..Len(rows')
        PROVE  rows'[i].body \in 1..Len(log') /\ log'[rows'[i].body] = rows'[i].room
    <3>1. CASE i \in 1..Len(rows) /\ rows'[i] = rows[i]
      BY <1>1, <1>2, <3>1 DEF RowsInOrder
    <3>2. CASE rows'[i] = new
      BY <1>1, <1>2, <1>3, <3>2
    <3> QED  BY <2>2, <3>1, <3>2
  <2> QED  BY <2>3, <2>4 DEF RowsInOrder
<1> QED  BY <1>4, <1>5 DEF new

\* Purging takes the oldest rows away, and keeps the order of the others.
LEMMA RowsPurged ==
    ASSUME TypeOK, RowsInOrder, Purge, log' = log
    PROVE  RowsInOrder'
<1> DEFINE Row == [room : Rooms, body : 1..MaxMsgs]
<1>1. rows \in Seq(Row) /\ Len(rows) \in Nat
  BY DEF TypeOK
<1>2. PICK m \in 1..Len(rows) : rows' = SubSeq(rows, m + 1, Len(rows))
  BY DEF Purge
<1> HIDE DEF Row
<1>3. Len(rows') = Len(rows) - m /\ \A i \in 1..Len(rows') : rows'[i] = rows[m + i]
  <2>1. \A i \in (m + 1)..Len(rows) : rows[i] \in Row
    BY <1>1
  <2>2. /\ Len(rows') = IF m + 1 <= Len(rows) THEN Len(rows) - (m + 1) + 1 ELSE 0
        /\ \A i \in 1..(Len(rows) - (m + 1) + 1) : rows'[i] = rows[(m + 1) + i - 1]
    BY <1>1, <1>2, <2>1, SubSeqProperties
  <2>3. Len(rows') = Len(rows) - m
    BY <1>1, <2>2
  <2>4. \A i \in 1..Len(rows') : i \in 1..(Len(rows) - (m + 1) + 1) /\ (m + 1) + i - 1 = m + i
    BY <1>1, <2>3
  <2> QED  BY <2>2, <2>3, <2>4
<1>4. \A i \in 1..Len(rows') : m + i \in 1..Len(rows)
  BY <1>1, <1>3
<1>5. \A i, j \in 1..Len(rows') : i < j => m + i < m + j
  BY <1>1, <1>3
<1> QED  BY <1>3, <1>4, <1>5 DEF RowsInOrder

-----------------------------------------------------------------------------
(* What a step of the server does to the stream of one client. *)

\* Not yet connected.
Early(k) == handler[k] \in {"idle", "refused", "upgrading"}

\* A handler only moves on.
Onward(k) == (Early(k)' => Early(k)) /\ (Offered(k) => Offered(k)')

Stream(k) ==
    /\ InOrder(replayed[k], seen[k], QueuedIn(send[k]), RoomOf[k], log)
    /\ Early(k) => replayed[k] = <<>>
    /\ ~Offered(k) => seen[k] = <<>> /\ send[k] = <<>>

\* What was shown and what waits is in order, and nothing is before it connects.
StreamInv == RowsInOrder /\ \A k \in Clients : Stream(k)

\* Nothing happens to it.
Untouched(k) == /\ replayed'[k] = replayed[k] /\ seen'[k] = seen[k] /\ send'[k] = send[k]
                /\ Onward(k)

\* It is forgotten, and the frame that could not be written with it.
Forgotten(k) == /\ replayed'[k] = <<>> /\ seen'[k] = <<>>
                /\ send'[k] = send[k] \/ (send[k] # <<>> /\ send'[k] = Tail(send[k]))
                /\ Onward(k)

\* A frame is queued, a chat message only if it is the one just logged.
Offers(k, f) == /\ replayed'[k] = replayed[k] /\ seen'[k] = seen[k]
                /\ send'[k] = Append(send[k], f)
                /\ f \in ChatFrames => /\ f.n = Len(log) + 1 /\ f.n = Len(log')
                                       /\ log'[f.n] = RoomOf[k]
                /\ Offered(k)'

\* A frame is taken from the buffer, and may be shown.
Takes(k) == /\ replayed'[k] = replayed[k]
            /\ send[k] # <<>> /\ send'[k] = Tail(send[k])
            /\ \/ seen'[k] = seen[k]
               \/ Head(send[k]) \in ChatFrames /\ seen'[k] = Append(seen[k], Head(send[k]).n)
            /\ Onward(k)

\* It connects, and is shown the history or nothing.
Starts(k) == /\ replayed'[k] \in {<<>>, Recent(RoomOf[k])}
             /\ seen'[k] = seen[k] /\ send'[k] = send[k]
             /\ Early(k) /\ ~Early(k)' /\ ~Offered(k)'

\* Each of these keeps the stream of a client in order.
LEMMA StreamStep ==
    ASSUME TypeOK, RowsInOrder, log' \in Seq(Rooms), Extends(log', log), NEW k \in Clients,
           Stream(k), NEW f \in Frames,
           Untouched(k) \/ Forgotten(k) \/ Offers(k, f) \/ Takes(k)
               \/ (Starts(k) /\ log' = log)
    PROVE  Stream(k)'
<1> DEFINE a == replayed[k]
           b == seen[k]
           s == send[k]
           r == RoomOf[k]
<1>1. /\ InOrder(a, b, QueuedIn(s), r, log) /\ InOrder(a, b, QueuedIn(s), r, log')
      /\ log \in Seq(Rooms) /\ s \in Seq(Frames)
      /\ Early(k) => a = <<>>
      /\ ~Offered(k) => b = <<>> /\ s = <<>>
      /\ Early(k) => ~Offered(k)
  BY OrderGrows DEF Stream, TypeOK, Early, Offered
<1>2. CASE Untouched(k)
  BY <1>1, <1>2 DEF Untouched, Stream, Onward
<1>3. CASE Forgotten(k)
  <2>1. /\ replayed'[k] = <<>> /\ seen'[k] = <<>>
        /\ ~Offered(k)' => send'[k] = <<>>
    BY <1>1, <1>3 DEF Forgotten, Onward
  <2>2. InOrder(<<>>, <<>>, QueuedIn(s), r, log')
    BY <1>1, OrderForgotten
  <2>3. CASE send'[k] = s
    BY <2>1, <2>2, <2>3 DEF Stream
  <2>4. CASE s # <<>> /\ send'[k] = Tail(s)
    <3>1. QueuedIn(Tail(s)) = QueuedIn(s) \/ Shorter(QueuedIn(s), QueuedIn(Tail(s)))
      BY <1>1, <2>4, QueuedHead
    <3>2. InOrder(<<>>, <<>>, QueuedIn(Tail(s)), r, log')
      BY <2>2, <3>1, OrderDropped
    <3> QED  BY <2>1, <2>4, <3>2 DEF Stream
  <2> QED  BY <1>3, <2>3, <2>4 DEF Forgotten
<1>4. CASE Offers(k, f)
  <2>1. /\ replayed'[k] = a /\ seen'[k] = b /\ send'[k] = Append(s, f)
        /\ ~Early(k)' /\ Offered(k)'
    BY <1>4 DEF Offers, Early, Offered
  <2>2. CASE f \in ChatFrames
    <3>1. Longer(QueuedIn(s), QueuedIn(Append(s, f)), Len(log'))
      BY <1>1, <1>4, <2>2, QueuedChat DEF Offers
    <3>2. Len(log') = Len(log) + 1 /\ log'[Len(log')] = r
      BY <1>4, <2>2 DEF Offers
    <3>3. InOrder(a, b, QueuedIn(Append(s, f)), r, log')
      <4> HIDE DEF a, b, s, r
      <4> QED  BY <1>1, <3>1, <3>2, OrderQueued
    <3> QED  BY <2>1, <3>3 DEF Stream
  <2>3. CASE f \notin ChatFrames
    <3>1. QueuedIn(Append(s, f)) = QueuedIn(s)
      BY <1>1, <2>3, QueuedOther
    <3> QED  BY <1>1, <2>1, <3>1 DEF Stream
  <2> QED  BY <2>2, <2>3
<1>5. CASE Takes(k)
  <2>1. /\ replayed'[k] = a /\ s # <<>> /\ send'[k] = Tail(s)
        /\ ~Early(k)' /\ Offered(k)'
        /\ \/ seen'[k] = b
           \/ Head(s) \in ChatFrames /\ seen'[k] = Append(b, Head(s).n)
    BY <1>1, <1>5 DEF Takes, Onward, Early, Offered
  <2>2. /\ Head(s) \in ChatFrames => /\ Shorter(QueuedIn(s), QueuedIn(Tail(s)))
                                     /\ QueuedIn(s)[1] = Head(s).n
        /\ Head(s) \notin ChatFrames => QueuedIn(Tail(s)) = QueuedIn(s)
    BY <1>1, <2>1, QueuedHead
  <2>3. CASE seen'[k] = b
    <3>1. InOrder(a, b, QueuedIn(Tail(s)), r, log')
      <4> HIDE DEF a, b, s, r
      <4> QED  BY <1>1, <2>2, OrderDropped
    <3> QED  BY <2>1, <2>3, <3>1 DEF Stream
  <2>4. CASE Head(s) \in ChatFrames /\ seen'[k] = Append(b, Head(s).n)
    <3>1. b \in Seq(Nat) /\ Head(s).n \in Nat
      BY <1>1, <2>4, ChatFields DEF InOrder
    <3>2. Longer(b, seen'[k], Head(s).n)
      <4> DEFINE n == Head(s).n
                 d == Append(b, n)
      <4>1. d \in Seq(Nat) /\ Len(d) = Len(b) + 1 /\ d[Len(b) + 1] = n
            /\ \A i \in 1..Len(b) : d[i] = b[i]
        <5> HIDE DEF b, n
        <5> QED  BY <3>1, AppendProperties DEF n
      <4> HIDE DEF n, d
      <4>2. Longer(b, d, n)
        BY <4>1 DEF Longer
      <4> QED  BY <2>4, <4>2 DEF n, d
    <3>3. InOrder(a, seen'[k], QueuedIn(Tail(s)), r, log')
      <4> HIDE DEF a, b, s, r
      <4> QED  BY <1>1, <2>2, <2>4, <3>2, OrderWritten
    <3> QED  BY <2>1, <3>3 DEF Stream
  <2> QED  BY <2>1, <2>3, <2>4
<1>6. CASE Starts(k) /\ log' = log
  <2>1. a = <<>> /\ b = <<>> /\ s = <<>> /\ ~Early(k)' /\ seen'[k] = <<>> /\ send'[k] = <<>>
    BY <1>1, <1>6 DEF Starts
  <2>2. QueuedIn(send'[k]) = <<>>
    BY <2>1, QueuedNone
  <2>3. CASE replayed'[k] = <<>>
    BY <1>1, <2>1, <2>2, <2>3, OrderForgotten DEF Stream
  <2>4. CASE replayed'[k] = Recent(r)
    <3>1. InOrder(Recent(r), <<>>, <<>>, r, log)
      BY RecentIs, OrderNew
    <3> QED  BY <1>6, <2>1, <2>2, <2>4, <3>1 DEF Stream
  <2> QED  BY <1>6, <2>3, <2>4 DEF Starts
<1> QED  BY <1>2, <1>3, <1>4, <1>5, <1>6

Fate(k) == \/ Untouched(k) \/ Forgotten(k) \/ Takes(k)
           \/ \E f \in Frames : Offers(k, f)
           \/ Starts(k) /\ log' = log

\* Every step does one of these to every client.
LEMMA AllFates ==
    ASSUME TypeOK, StreamInv, RowsInOrder', log' \in Seq(Rooms), Extends(log', log),
           \A k \in Clients : Fate(k)
    PROVE  StreamInv'
<1> SUFFICES ASSUME NEW k \in Clients PROVE Stream(k)'
  BY DEF StreamInv
<1>1. RowsInOrder /\ Stream(k) /\ Fate(k) /\ SystemFrame \in Frames
  BY FrameTypes DEF StreamInv
<1> QED  BY <1>1, StreamStep DEF Fate

\* Steps without a broadcast and without the table.
LEMMA QuietFates ==
    ASSUME TypeOK, StreamInv, UNCHANGED <<log, rows>>, \A k \in Clients : Fate(k)
    PROVE  StreamInv'
<1>1. RowsInOrder' /\ log' \in Seq(Rooms) /\ Extends(log', log)
  BY DEF StreamInv, RowsInOrder, TypeOK, Extends
<1> QED  BY <1>1, AllFates

\* A fan-out to registered clients of a room.
LEMMA FanOutFates ==
    ASSUME TypeOK, NEW r \in Rooms, NEW audience \in SUBSET Clients, NEW f \in Frames, NEW shut,
           FanOut(r, audience, f, shut), UNCHANGED <<replayed, seen>>,
           \A k \in Clients : Onward(k),
           \A k \in audience : RoomOf[k] = r /\ Offered(k)',
           f \in ChatFrames => f.n = Len(log) + 1 /\ f.n = Len(log') /\ log'[f.n] = r
    PROVE  \A k \in Clients : Fate(k)
<1> SUFFICES ASSUME NEW k \in Clients PROVE Untouched(k) \/ Offers(k, f)
  BY DEF Fate
<1>1. send'[k] = IF k \in audience /\ HasRoom(k) THEN Append(send[k], f) ELSE send[k]
  BY DEF FanOut
<1>2. CASE k \in audience /\ HasRoom(k)
  BY <1>1, <1>2 DEF Offers
<1>3. CASE ~(k \in audience /\ HasRoom(k))
  BY <1>1, <1>3 DEF Untouched
<1> QED  BY <1>2, <1>3

\* The same, of a frame that is no chat message.
LEMMA OtherFates ==
    ASSUME TypeOK, StreamInv, HInv', UNCHANGED <<log, rows, replayed, seen>>,
           NEW r \in Rooms, NEW audience \in SUBSET Clients, NEW f \in Frames \ ChatFrames,
           NEW shut,
           FanOut(r, audience, f, shut),
           \A k \in Clients : Onward(k),
           \A k \in audience : RoomOf[k] = r /\ Offered(k)'
    PROVE  StreamInv'
<1>1. \A k \in Clients : Fate(k)
  BY FanOutFates
<1> QED  BY <1>1, QuietFates

\* Rosters and system lines are no chat messages.
LEMMA NotChat ==
    /\ SystemFrame \in Frames \ ChatFrames
    /\ \A N \in SUBSET Names : RosterFrame(N) \in Frames \ ChatFrames
  BY FrameTypes, ChatFields DEF SystemFrame, RosterFrame

\* TypeOK leaves the type of replayed to StreamInv.
Replays == DOMAIN replayed = Clients

\* It stays so.
LEMMA ReplaysNext == Replays /\ [Next]_vars => Replays'
<1> SUFFICES ASSUME Replays, [Next]_vars PROVE Replays'
  OBVIOUS
<1>1. ASSUME replayed' = replayed PROVE Replays'
  BY <1>1 DEF Replays
<1>2. ASSUME NEW c \in Clients, Forget(c) PROVE Replays'
  BY <1>2 DEF Forget, Replays
<1>3. ASSUME NEW c \in Clients, NEW state, NEW history, Connect(c, state, history) PROVE Replays'
  BY <1>3 DEF Connect, Replays
<1>4. ASSUME NEW c \in Clients, ClientStep(c) PROVE Replays'
  <2>1. CASE Refuse(c) \/ Admit(c) \/ UpgradeFails(c) \/ JoinedQuit(c) \/ Read(c) \/ ReadFails(c)
                \/ LeftQuit(c) \/ UnregisterQuit(c) \/ Register(c) \/ Joined(c) \/ Say(c) \/ Left(c)
                \/ Unregister(c) \/ Write(c)
    BY <1>1, <2>1 DEF Refuse, Admit, UpgradeFails, JoinedQuit, Read, ReadFails, LeftQuit,
       UnregisterQuit, Register, Joined, Say, Left, Unregister, Write, peerVars
  <2>2. CASE Replay(c) \/ SkipReplay(c) \/ ReplayBreaks(c)
    BY <1>3, <2>2 DEF Replay, SkipReplay, ReplayBreaks
  <2>3. CASE ReleaseSlot(c) \/ PingFails(c) \/ WriteClose(c) \/ PeerGone(c) \/ WriteFails(c)
    BY <1>2, <2>3 DEF ReleaseSlot, PingFails, WriteClose, PeerGone, WriteFails, WriterCloses
  <2> QED  BY <1>4, <2>1, <2>2, <2>3 DEF ClientStep, HandlerStep, ReaderExit, WriterStep
<1>5. CASE Cleanup \/ Drain \/ ShutdownStep \/ HubQuit \/ UNCHANGED vars
  BY <1>1, <1>5 DEF Cleanup, Drain, ShutdownStep, HubStop, StoreClose, Exit, Shift, HubQuit,
     peerVars, vars
<1> QED  BY <1>4, <1>5 DEF Next

\* Every step keeps the streams in order.
LEMMA StreamNext == TInv /\ HInv /\ HInv' /\ Replays /\ StreamInv /\ [Next]_vars => StreamInv'
<1> SUFFICES ASSUME TInv, HInv, HInv', Replays, StreamInv, [Next]_vars PROVE StreamInv'
  OBVIOUS
<1> USE DEF TInv
<1>1. ASSUME UNCHANGED <<log, rows, replayed, seen, send>>,
             \A k \in Clients : Onward(k)
      PROVE  StreamInv'
  <2>1. \A k \in Clients : Fate(k)
    BY <1>1 DEF Fate, Untouched
  <2> QED  BY <1>1, <2>1, QuietFates
<1>2. ASSUME NEW c \in Clients,
             Refuse(c) \/ Admit(c) \/ UpgradeFails(c) \/ JoinedQuit(c) \/ Read(c)
                 \/ ReadFails(c) \/ LeftQuit(c) \/ UnregisterQuit(c)
      PROVE  StreamInv'
  <2>1. UNCHANGED <<log, rows, replayed, seen, send>>
    BY <1>2 DEF Refuse, Admit, UpgradeFails, JoinedQuit, Read, ReadFails, LeftQuit,
       UnregisterQuit, hubVars, peerVars
  <2>2. \A k \in Clients : Onward(k)
    BY <1>2 DEF Refuse, Admit, UpgradeFails, JoinedQuit, Read, ReadFails, LeftQuit,
       UnregisterQuit, Onward, Early, Offered, TypeOK
  <2> QED  BY <1>1, <2>1, <2>2
<1>3. ASSUME NEW c \in Clients, Replay(c) \/ SkipReplay(c) \/ ReplayBreaks(c)
      PROVE  StreamInv'
  <2>1. PICK state, history : history \in {<<>>, Recent(RoomOf[c])} /\ Connect(c, state, history)
    BY <1>3 DEF Replay, SkipReplay, ReplayBreaks
  <2>2. Early(c) /\ handler' = [handler EXCEPT ![c] = "registering"]
        /\ UNCHANGED <<log, rows, seen, send>>
    BY <2>1 DEF Connect, Early, hubVars
  <2>3. ~Early(c)' /\ ~Offered(c)' /\ \A k \in Clients \ {c} : Onward(k)
    BY <2>2 DEF Onward, Early, Offered, TypeOK
  <2>4. \A k \in Clients \ {c} : replayed'[k] = replayed[k]
    BY <2>1 DEF Connect
  <2>5. replayed'[c] = history
    BY <2>1 DEF Connect, Replays
  <2> QED  BY <2>1, <2>2, <2>3, <2>4, <2>5, QuietFates DEF Fate, Starts, Untouched
<1>4. ASSUME NEW c \in Clients,
             ReleaseSlot(c) \/ PingFails(c) \/ WriteClose(c) \/ PeerGone(c) \/ WriteFails(c)
      PROVE  StreamInv'
  <2>1. Forget(c) /\ UNCHANGED <<log, rows, handler>>
    BY <1>4 DEF ReleaseSlot, PingFails, WriteClose, PeerGone, WriteFails, WriterCloses
  <2>2. /\ \A k \in Clients \ {c} : send'[k] = send[k]
        /\ send'[c] = send[c] \/ (send[c] # <<>> /\ send'[c] = Tail(send[c]))
    BY <1>4 DEF ReleaseSlot, PingFails, WriteClose, PeerGone, WriteFails, hubVars, TypeOK
  <2>3. \A k \in Clients \ {c} : replayed'[k] = replayed[k] /\ seen'[k] = seen[k]
    BY <2>1 DEF Forget
  <2>4. replayed'[c] = <<>> /\ seen'[c] = <<>>
    BY <2>1 DEF Forget, TypeOK, Replays
  <2> QED  BY <2>1, <2>2, <2>3, <2>4, QuietFates
           DEF Fate, Forgotten, Untouched, Onward, Early, Offered
<1>5. ASSUME NEW c \in Clients, Write(c) PROVE StreamInv'
  <2> USE <1>5 DEF Write
  <2>1. /\ UNCHANGED <<log, rows, handler, replayed>> /\ send[c] # <<>>
        /\ send'[c] = Tail(send[c])
        /\ \A k \in Clients \ {c} : send'[k] = send[k] /\ seen'[k] = seen[k]
    BY DEF TypeOK
  <2>2. \/ seen'[c] = seen[c]
        \/ Head(send[c]).kind = "chat" /\ seen'[c] = Append(seen[c], Head(send[c]).n)
    BY DEF TypeOK
  <2>3. Head(send[c]) \in Frames
    BY <2>1, HeadTailProperties DEF TypeOK
  <2>4. Takes(c)
    BY <2>1, <2>2, <2>3, ChatKind DEF Takes, Onward, Early, Offered
  <2>5. \A k \in Clients \ {c} : Untouched(k)
    BY <2>1 DEF Untouched, Onward, Early, Offered
  <2> QED  BY <2>1, <2>4, <2>5, QuietFates DEF Fate
<1>6. ASSUME NEW c \in Clients, Joined(c) \/ Left(c) PROVE StreamInv'
  <2> DEFINE r == RoomOf[c]
  <2>1. /\ r \in Rooms /\ members[r] \in SUBSET Clients
        /\ FanOut(r, members[r], SystemFrame, {}) /\ UNCHANGED <<log, rows, replayed, seen>>
    BY <1>6 DEF Joined, Left, BroadcastSystem, peerVars, Curated, PumpsStarted, TypeOK
  <2>2. \A k \in Clients : Onward(k)
    BY <1>6 DEF Joined, Left, Onward, Early, Offered, TypeOK
  <2>3. \A k \in members[r] : RoomOf[k] = r /\ Offered(k)'
    BY <2>1, <2>2 DEF HInv, Onward
  <2> QED  BY <2>1, <2>2, <2>3, NotChat, OtherFates
<1>7. ASSUME NEW c \in Clients, Register(c) PROVE StreamInv'
  <2> DEFINE r == RoomOf[c]
             audience == members[r] \cup {c}
             f == RosterFrame(NamesOf(audience))
  <2>1. /\ r \in Rooms /\ audience \in SUBSET Clients
        /\ FanOut(r, audience, f, {}) /\ UNCHANGED <<log, rows, replayed, seen>>
    BY <1>7 DEF Register, BroadcastRoster, Curated, TypeOK
  <2>2. f \in Frames \ ChatFrames
    BY <2>1, NotChat, NamesOfType
  <2>3. handler' = [handler EXCEPT ![c] = "announcing"]
    BY <1>7 DEF Register
  <2>4. Offered(c)' /\ \A k \in Clients : Onward(k)
    BY <2>3 DEF Onward, Early, Offered, TypeOK
  <2>5. \A k \in audience : RoomOf[k] = r /\ Offered(k)'
    BY <2>1, <2>4 DEF HInv, Onward
  <2> HIDE DEF r, audience, f
  <2> QED  BY <2>1, <2>2, <2>4, <2>5, OtherFates
<1>8. ASSUME NEW c \in Clients, Unregister(c) PROVE StreamInv'
  <2> DEFINE r == RoomOf[c]
             audience == members[r] \ {c}
             f == RosterFrame(NamesOf(audience))
  <2>1. /\ r \in Rooms /\ audience \in SUBSET Clients
        /\ UNCHANGED <<log, rows, handler, replayed, seen>>
    BY <1>8 DEF Unregister, peerVars, Curated, PumpsStarted, TypeOK
  <2>2. f \in Frames \ ChatFrames
    BY <2>1, NotChat, NamesOfType
  <2>3. \A k \in Clients : Onward(k)
    BY <2>1 DEF Onward, Early, Offered
  <2>4. \A k \in audience : RoomOf[k] = r /\ Offered(k)'
    BY <2>1, <2>3 DEF HInv, Onward
  <2>5. CASE c \in members[r]
    <3>1. FanOut(r, audience, f, {c})
      BY <1>8, <2>5 DEF Unregister, BroadcastRoster
    <3> HIDE DEF r, audience, f
    <3> QED  BY <2>1, <2>2, <2>3, <2>4, <3>1, OtherFates
  <2>6. CASE c \notin members[r]
    BY <1>1, <1>8, <2>1, <2>3, <2>6 DEF Unregister, hubVars
  <2> QED  BY <2>5, <2>6
<1>9. ASSUME NEW c \in Clients, Say(c) PROVE StreamInv'
  <2> DEFINE r == RoomOf[c]
             n == Len(log) + 1
             f == ChatFrame(n)
  <2>1. /\ r \in Rooms /\ members[r] \in SUBSET Clients
        /\ FanOut(r, members[r], f, {}) /\ log' = Append(log, r)
        /\ rows' = rows \/ rows' = Append(rows, [room |-> r, body |-> n])
        /\ UNCHANGED <<handler, replayed, seen>>
    BY <1>9 DEF Say, BroadcastChat, Save, peerVars, Curated, PumpsStarted, TypeOK
  <2>2. n \in 1..MaxMsgs
    BY <1>9, SaidWithin
  <2>3. f \in Frames /\ f.n = n
    BY <2>2, FrameTypes DEF ChatFrame
  <2>4. /\ log' \in Seq(Rooms) /\ Len(log') = n /\ log'[n] = r /\ Len(log) \in Nat
        /\ \A i \in 1..Len(log) : log'[i] = log[i]
    BY <2>1, AppendProperties, LenProperties DEF TypeOK
  <2>5. Extends(log', log)
    BY <2>4 DEF Extends
  <2>6. RowsInOrder'
    BY <2>1, RowsSaved DEF StreamInv
  <2>7. \A k \in Clients : Onward(k)
    BY <2>1 DEF Onward, Early, Offered
  <2>8. \A k \in members[r] : RoomOf[k] = r /\ Offered(k)'
    BY <2>1, <2>7 DEF HInv, Onward
  <2>9. \A k \in Clients : Fate(k)
    <3>1. f \in ChatFrames => f.n = Len(log) + 1 /\ f.n = Len(log') /\ log'[f.n] = r
      BY <2>3, <2>4
    <3> HIDE DEF r, n, f
    <3> QED  BY <2>1, <2>3, <2>7, <2>8, <3>1, FanOutFates
  <2> QED  BY <2>4, <2>5, <2>6, <2>9, AllFates
<1>10. CASE Cleanup
  <2>1. UNCHANGED <<log, handler, replayed, seen, send>> /\ Purge
    BY <1>10 DEF Cleanup, hubVars, peerVars
  <2>2. RowsInOrder'
    BY <2>1, RowsPurged DEF StreamInv
  <2>3. \A k \in Clients : Fate(k)
    BY <2>1 DEF Fate, Untouched, Onward, Early, Offered
  <2>4. log' \in Seq(Rooms) /\ Extends(log', log)
    BY <2>1 DEF Extends, TypeOK
  <2> QED  BY <2>2, <2>3, <2>4, AllFates
<1>11. CASE Drain \/ ShutdownStep \/ HubQuit \/ UNCHANGED vars
  <2>1. UNCHANGED <<log, rows, handler, replayed, seen, send>>
    BY <1>11 DEF Drain, ShutdownStep, HubStop, StoreClose, Exit, Shift, HubQuit, hubVars,
       peerVars, vars
  <2> QED  BY <1>1, <2>1 DEF Onward, Early, Offered
<1> QED
  BY <1>2, <1>3, <1>4, <1>5, <1>6, <1>7, <1>8, <1>9, <1>10, <1>11
     DEF Next, ClientStep, HandlerStep, ReaderExit, WriterStep

\* So they always are.
LEMMA StreamInvAlways == Spec => []StreamInv
<1>1. Init => StreamInv /\ Replays
  <2> SUFFICES ASSUME Init PROVE StreamInv /\ Replays
    OBVIOUS
  <2>1. RowsInOrder
    BY DEF Init, StoreInit, RowsInOrder
  <2>2. ASSUME NEW k \in Clients PROVE Stream(k)
    <3>1. replayed[k] = <<>> /\ seen[k] = <<>> /\ send[k] = <<>>
      BY DEF Init
    <3>2. Rising(<<>>) /\ OfRoom(<<>>, RoomOf[k], log) /\ <<>> \in Seq(Nat)
      BY DEF Rising, OfRoom
    <3> QED  BY <3>1, <3>2, OrderNew, QueuedNone DEF Stream
  <2> QED  BY <2>1, <2>2 DEF StreamInv, Init, Replays
<1> QED  BY <1>1, HInvAlways, ReplaysNext, StreamNext, PTL DEF Spec

\* StreamOrdered: what a client was shown from the store, was shown live and is
\* yet to be shown are messages of its own room, in the order the hub took them
\* and none twice, however saves fail, purges come and buffers fill.
THEOREM StreamAlwaysOrdered == Spec => []StreamOrdered
<1>1. StreamInv => StreamOrdered
  <2> SUFFICES ASSUME StreamInv, NEW c \in Clients
               PROVE  LET got == Received(c)
                      IN  /\ \A i, j \in DOMAIN got : i < j => got[i] < got[j]
                          /\ \A i \in DOMAIN got : log[got[i]] = RoomOf[c]
    BY DEF StreamOrdered
  <2>1. InOrder(replayed[c], seen[c], QueuedIn(send[c]), RoomOf[c], log)
    BY DEF StreamInv, Stream
  <2>2. Received(c) = replayed[c] \o seen[c] \o QueuedIn(send[c])
    BY QueuedIs DEF Received
  <2> HIDE DEF StreamInv
  <2> DEFINE got == replayed[c] \o seen[c] \o QueuedIn(send[c])
  <2>3. /\ \A i, j \in DOMAIN got : i < j => got[i] < got[j]
        /\ \A i \in DOMAIN got : log[got[i]] = RoomOf[c]
    BY <2>1, OrderStream
  <2> HIDE DEF got
  <2>4. Received(c) = got
    BY <2>2 DEF got
  <2> QED  BY <2>3, <2>4
<1> QED  BY <1>1, StreamInvAlways, PTL

\* What the history replayed to a newcomer would be, at any moment: messages of the
\* room, in order; one that is stored is missing only if HistoryLimit later ones are
\* there.
HistoryIsLatest ==
    \A r \in Rooms :
        LET page == Recent(r)
        IN  /\ \A i, j \in 1..Len(page) : i < j => page[i] < page[j]
            /\ \A i \in 1..Len(page) : log[page[i]] = r
            /\ \A m \in 1..Len(rows) :
                  rows[m].room = r =>
                      \/ \E i \in 1..Len(page) : page[i] = rows[m].body
                      \/ /\ Len(page) = HistoryLimit
                         /\ \A i \in 1..Len(page) : rows[m].body < page[i]

\* recent, for any limit, any messages whose save failed, and any purge.
THEOREM HistoryAlwaysLatest == Spec => []HistoryIsLatest
<1>1. TypeOK /\ RowsInOrder => HistoryIsLatest
  <2> SUFFICES ASSUME TypeOK, RowsInOrder, NEW r \in Rooms
               PROVE  LET page == Recent(r)
                      IN  /\ \A i, j \in 1..Len(page) : i < j => page[i] < page[j]
                          /\ \A i \in 1..Len(page) : log[page[i]] = r
                          /\ \A m \in 1..Len(rows) :
                                rows[m].room = r =>
                                    \/ \E i \in 1..Len(page) : page[i] = rows[m].body
                                    \/ /\ Len(page) = HistoryLimit
                                       /\ \A i \in 1..Len(page) : rows[m].body < page[i]
    BY DEF HistoryIsLatest
  <2> DEFINE page == Recent(r)
  <2>1. PICK at : IsPage(page, at, r)
    BY RecentPage
  <2>2. Rising(page) /\ OfRoom(page, r, log)
    BY RecentIs
  <2> HIDE DEF page
  <2>3. ASSUME NEW m \in 1..Len(rows), rows[m].room = r
        PROVE  \/ \E i \in 1..Len(page) : page[i] = rows[m].body
               \/ Len(page) = HistoryLimit /\ \A i \in 1..Len(page) : rows[m].body < page[i]
    <3>1. CASE \E i \in 1..Len(page) : at[i] = m
      BY <2>1, <3>1 DEF IsPage
    <3>2. CASE Len(page) = HistoryLimit /\ \A i \in 1..Len(page) : m < at[i]
      BY <2>1, <3>2 DEF IsPage, RowsInOrder
    <3> QED  BY <2>1, <2>3, <3>1, <3>2 DEF IsPage
  <2> QED  BY <2>2, <2>3 DEF Rising, OfRoom, page
<1>2. TInv /\ StreamInv => TypeOK /\ RowsInOrder
  BY DEF TInv, StreamInv
<1> QED  BY <1>1, <1>2, HInvAlways, StreamInvAlways, PTL

-----------------------------------------------------------------------------
(* The hub implements RoomFeed. *)

\* What a subscriber of RoomFeed has.
Got(c) == seen[c] \o QueuedIn(send[c])

\* When nothing is published: subscribers come with nothing and go, and the others
\* keep what they have.
LEMMA FeedChanges ==
    ASSUME UNCHANGED log,
           \A c \in Subscribed' : Got(c)' = IF c \in Subscribed THEN Got(c) ELSE <<>>
    PROVE  Feed!Change
<1> DEFINE keep == Subscribed \cap Subscribed'
           new  == Subscribed' \ Subscribed
           got  == [c \in Clients |-> IF c \in Subscribed THEN seen[c] \o Queued(c) ELSE <<>>]
<1>1. Subscribed \subseteq Clients /\ Subscribed' \subseteq Clients
  BY DEF Subscribed
<1>2. keep \in SUBSET Subscribed /\ new \in SUBSET (Clients \ Subscribed)
      /\ Subscribed' = keep \cup new
  BY <1>1
<1>3. got = [c \in Clients |-> IF c \in Subscribed THEN Got(c) ELSE <<>>]
      /\ got' = [c \in Clients |-> IF c \in Subscribed' THEN Got(c)' ELSE <<>>]
  BY QueuedIs, QueuedNext DEF Got
<1>4. got' = [c \in Clients |-> IF c \in keep THEN got[c] ELSE <<>>]
  BY <1>1, <1>3
<1> HIDE DEF keep, new
<1> QED  BY <1>2, <1>4 DEF Feed!Change

\* When a message is published: every subscriber of its room has it, or is no longer
\* one, and nobody of another room is touched.
LEMMA FeedPublishes ==
    ASSUME NEW r \in Rooms, log' = Append(log, r), Subscribed' \subseteq Subscribed,
           \A c \in Subscribed \ Subscribed' : RoomOf[c] = r,
           \A c \in Subscribed' : Got(c)' = IF RoomOf[c] = r THEN Append(Got(c), Len(log) + 1)
                                            ELSE Got(c)
    PROVE  Feed!Publish(r)
<1> DEFINE got == [c \in Clients |-> IF c \in Subscribed THEN seen[c] \o Queued(c) ELSE <<>>]
           keep == Subscribed'
           n == Len(log) + 1
<1>1. Subscribed \subseteq Clients
  BY DEF Subscribed
<1>2. got = [c \in Clients |-> IF c \in Subscribed THEN Got(c) ELSE <<>>]
      /\ got' = [c \in Clients |-> IF c \in Subscribed' THEN Got(c)' ELSE <<>>]
  BY QueuedIs, QueuedNext DEF Got
<1>3. got' = [c \in Clients |-> IF c \notin keep THEN <<>>
                                ELSE IF RoomOf[c] = r THEN Append(got[c], n) ELSE got[c]]
  <2> HIDE DEF n
  <2>1. \A c \in Subscribed' : got[c] = Got(c)
    BY <1>1, <1>2
  <2>2. \A c \in Subscribed' : Got(c)' = IF RoomOf[c] = r THEN AtEnd(Got(c), n) ELSE Got(c)
    BY DEF AtEnd, n
  <2> HIDE DEF got
  <2>3. got' = [c \in Clients |-> IF c \notin keep THEN <<>>
                                ELSE IF RoomOf[c] = r THEN AtEnd(got[c], n) ELSE got[c]]
    BY <1>2, <2>1, <2>2
  <2> QED  BY <2>3 DEF AtEnd
<1>4. Feed!Extended(keep, r, n)
        = [c \in Clients |-> IF c \notin keep THEN <<>>
                             ELSE IF RoomOf[c] = r THEN Append(got[c], n) ELSE got[c]]
  BY DEF Feed!Extended
<1>5. keep \in SUBSET Subscribed /\ \A c \in Subscribed \ keep : RoomOf[c] = r
  OBVIOUS
<1>6. got' = Feed!Extended(keep, r, n)
  BY <1>3, <1>4
<1> QED  BY <1>5, <1>6 DEF Feed!Publish

\* Concatenation is associative.
LEMMA CatCat == \A s, t, u \in Seq(Nat) : Cat(Cat(s, t), u) = Cat(s, Cat(t, u))
  BY ConcatAssociative DEF Cat

\* A frame that goes to the peer stays among what the client has.
LEMMA GotWritten ==
    ASSUME NEW s \in Seq(Frames), s # <<>>, NEW b \in Seq(Nat), Head(s) \in ChatFrames
    PROVE  Append(b, Head(s).n) \o QueuedIn(Tail(s)) = b \o QueuedIn(s)
<1> DEFINE q == QueuedIn(s)
           p == QueuedIn(Tail(s))
           n == Head(s).n
           j == Just(n)
<1>1. /\ Shorter(q, p) /\ q[1] = n /\ n \in Nat /\ p \in Seq(Nat) /\ q \in Seq(Nat)
      /\ Len(p) \in Nat /\ Len(q) = Len(p) + 1
      /\ \A i \in 1..Len(p) : p[i] = q[i + 1]
  BY QueuedHead, QueuedType, ChatFields DEF Shorter
<1> HIDE DEF q, p, n
<1>2. j \in Seq(Nat) /\ Len(j) = 1 /\ j[1] = n
  BY <1>1, JustIs
<1> HIDE DEF j
<1>3. q = Cat(j, p)
  <2>1. q # <<>> /\ Len(p) = Len(q) - 1 /\ j[1] = q[1]
    BY <1>1, <1>2
  <2> QED  BY <1>1, <1>2, <2>1, ConcatHead DEF Cat
<1>4. AtEnd(b, n) = Cat(b, j)
  BY <1>1, AppendIs DEF AtEnd, Cat, j
<1>5. Cat(Cat(b, j), p) = Cat(b, Cat(j, p))
  BY <1>1, <1>2, CatCat
<1>6. Cat(AtEnd(b, n), p) = Cat(b, q)
  BY <1>3, <1>4, <1>5
<1> QED  BY <1>6 DEF Cat, AtEnd, q, p, n

\* A chat message that is queued is the last the client has.
LEMMA GotQueued ==
    ASSUME NEW s \in Seq(Frames), NEW b \in Seq(Nat), NEW f \in ChatFrames
    PROVE  b \o QueuedIn(Append(s, f)) = Append(b \o QueuedIn(s), f.n)
<1> DEFINE q == QueuedIn(s)
           p == QueuedIn(Append(s, f))
           n == f.n
           e == Append(q, n)
<1>1. Longer(q, p, n) /\ q \in Seq(Nat) /\ Len(q) \in Nat /\ n \in Nat
  BY QueuedChat, QueuedType, ChatFields
<1> HIDE DEF q, p, n
<1>2. p = e
  <2>1. /\ e \in Seq(Nat) /\ Len(e) = Len(q) + 1
        /\ e[Len(q) + 1] = n /\ \A i \in 1..Len(q) : e[i] = q[i]
    BY <1>1, AppendProperties
  <2> HIDE DEF e
  <2>2. /\ p \in Seq(Nat) /\ Len(p) = Len(q) + 1 /\ p[Len(q) + 1] = n
        /\ \A i \in 1..Len(q) : p[i] = q[i]
    BY <1>1 DEF Longer
  <2>3. ASSUME NEW i \in 1..Len(p) PROVE p[i] = e[i]
    <3>1. i \in 1..Len(q) \/ i = Len(q) + 1
      BY <1>1, <2>2
    <3> QED  BY <2>1, <2>2, <3>1
  <2> QED  BY <2>1, <2>2, <2>3, SeqEqual
<1>3. Cat(b, AtEnd(q, n)) = AtEnd(Cat(b, q), n)
  BY <1>1, CatAtEnd
<1> QED  BY <1>2, <1>3 DEF Cat, AtEnd, p, q, n

\* A frame that is no chat message changes nothing in what a client has.
LEMMA GotOther ==
    ASSUME TypeOK, NEW c \in Clients, NEW f \in Frames \ ChatFrames, seen'[c] = seen[c],
           send'[c] \in {send[c], Append(send[c], f)}
    PROVE  Got(c)' = Got(c)
<1>1. send[c] \in Seq(Frames)
  BY DEF TypeOK
<1>2. QueuedIn(send'[c]) = QueuedIn(send[c])
  BY <1>1, QueuedOther
<1> QED  BY <1>2 DEF Got

\* A fan-out of such a frame, without a newcomer, throws out some subscribers.
LEMMA FanOutChanges ==
    ASSUME TypeOK, HInv', hub = "running", UNCHANGED <<conn, log, seen>>, NEW r \in Rooms,
           NEW audience \in SUBSET Clients, NEW f \in Frames \ ChatFrames, NEW shut,
           FanOut(r, audience, f, shut), audience \subseteq members[r]
    PROVE  Feed!Change
<1>1. /\ Subscribed' \subseteq Subscribed \cup audience
      /\ \A c \in Clients : send'[c] \in {send[c], Append(send[c], f)}
  BY FanOutReaches
<1>2. Subscribed' \subseteq Subscribed /\ Subscribed' \subseteq Clients
  BY <1>1 DEF Subscribed
<1>3. \A c \in Subscribed' : Got(c)' = Got(c)
  BY <1>1, <1>2, GotOther
<1> QED  BY <1>2, <1>3, FeedChanges

\* Outside the hub nobody subscribes, and c, whose connection is not up, or who
\* is no member, is not subscribed.
LEMMA IdleChanges ==
    ASSUME UNCHANGED <<members, hub, log>>, NEW c,
           \A r \in Rooms : c \notin members[r] \/ conn'[c] # "open",
           \A k \in Clients \ {c} : conn'[k] = conn[k] /\ send'[k] = send[k] /\ seen'[k] = seen[k]
    PROVE  Feed!Change
<1>1. Subscribed' \subseteq Subscribed \ {c} /\ Subscribed' \subseteq Clients
  BY DEF Subscribed
<1>2. \A k \in Subscribed' : Got(k)' = Got(k)
  BY <1>1 DEF Got
<1> QED  BY <1>1, <1>2, FeedChanges

\* Every step of the hub is a step of RoomFeed, or changes nothing it speaks of.
LEMMA FeedNext ==
    TInv /\ HInv /\ HInv' /\ StreamInv /\ [Next]_vars => [Feed!Next]_(Feed!feedVars)
<1> SUFFICES ASSUME TInv, HInv, HInv', StreamInv, [Next]_vars
             PROVE  Feed!Change \/ \E r \in Rooms : Feed!Publish(r)
  BY DEF Feed!Next
<1> USE DEF TInv
<1>1. ASSUME UNCHANGED <<members, hub, log, send, conn, seen>> PROVE Feed!Change
  <2>1. Subscribed' = Subscribed /\ \A k \in Clients : Got(k)' = Got(k)
    BY <1>1 DEF Subscribed, Got
  <2> QED  BY <1>1, <2>1, FeedChanges DEF Subscribed
<1>2. ASSUME NEW c \in Clients,
             Refuse(c) \/ Admit(c) \/ UpgradeFails(c) \/ JoinedQuit(c) \/ Read(c)
                 \/ ReadFails(c) \/ LeftQuit(c) \/ UnregisterQuit(c)
      PROVE  Feed!Change
  BY <1>1, <1>2 DEF Refuse, Admit, UpgradeFails, JoinedQuit, Read, ReadFails, LeftQuit,
     UnregisterQuit, hubVars, peerVars
<1>3. ASSUME NEW c \in Clients, Replay(c) \/ SkipReplay(c) \/ ReplayBreaks(c)
      PROVE  Feed!Change
  <2>1. PICK state, history : Connect(c, state, history)
    BY <1>3 DEF Replay, SkipReplay, ReplayBreaks
  <2>2. \A r \in Rooms : c \notin members[r]
    BY <2>1 DEF Connect, HInv, Offered
  <2>3. /\ UNCHANGED <<members, hub, log>>
        /\ \A k \in Clients \ {c} : conn'[k] = conn[k] /\ send'[k] = send[k] /\ seen'[k] = seen[k]
    BY <2>1 DEF Connect, TypeOK, hubVars
  <2> QED  BY <2>2, <2>3, IdleChanges
<1>4. ASSUME NEW c \in Clients,
             ReleaseSlot(c) \/ PingFails(c) \/ WriteClose(c) \/ PeerGone(c) \/ WriteFails(c)
      PROVE  Feed!Change
  <2>1. /\ conn'[c] # "open" /\ UNCHANGED <<members, hub, log>>
        /\ \A k \in Clients \ {c} : conn'[k] = conn[k] /\ seen'[k] = seen[k]
    BY <1>4 DEF ReleaseSlot, PingFails, WriteClose, PeerGone, WriteFails, WriterCloses, Forget,
       hubVars, TypeOK
  <2>2. \A k \in Clients \ {c} : send'[k] = send[k]
    BY <1>4 DEF ReleaseSlot, PingFails, WriteClose, PeerGone, WriteFails, hubVars, TypeOK
  <2> QED  BY <2>1, <2>2, IdleChanges
<1>5. ASSUME NEW c \in Clients, Write(c) PROVE Feed!Change
  <2> USE <1>5 DEF Write
  <2>1. Subscribed' = Subscribed /\ Subscribed \subseteq Clients /\ UNCHANGED log
    BY DEF Subscribed
  <2>2. ASSUME NEW k \in Clients \ {c} PROVE Got(k)' = Got(k)
    <3>1. send'[k] = send[k] /\ seen'[k] = seen[k]
      BY DEF TypeOK
    <3> QED  BY <3>1 DEF Got
  <2>3. ASSUME conn[c] = "open" PROVE Got(c)' = Got(c)
    <3> DEFINE s == send[c]
               f == Head(s)
    <3>1. /\ s \in Seq(Frames) /\ s # <<>> /\ f \in Frames /\ send'[c] = Tail(s)
          /\ seen[c] \in Seq(Nat)
      BY HeadTailProperties DEF TypeOK, StreamInv, Stream, InOrder
    <3>2. CASE f \in ChatFrames
      <4>1. seen'[c] = Append(seen[c], f.n)
        BY <2>3, <3>1, <3>2, ChatFields DEF TypeOK
      <4>2. Append(seen[c], f.n) \o QueuedIn(Tail(s)) = seen[c] \o QueuedIn(s)
        <5> HIDE DEF s
        <5> QED  BY <3>1, <3>2, GotWritten
      <4> QED  BY <3>1, <4>1, <4>2 DEF Got
    <3>3. CASE f \notin ChatFrames
      <4>1. seen'[c] = seen[c]
        BY <3>1, <3>3, ChatKind DEF TypeOK
      <4>2. QueuedIn(Tail(s)) = QueuedIn(s)
        BY <3>1, <3>3, QueuedHead
      <4> QED  BY <3>1, <4>1, <4>2 DEF Got
    <3> QED  BY <3>2, <3>3
  <2>4. \A k \in Subscribed : conn[k] = "open"
    BY DEF Subscribed
  <2>5. \A k \in Subscribed : Got(k)' = Got(k)
    BY <2>1, <2>2, <2>3, <2>4
  <2> QED  BY <2>1, <2>5, FeedChanges
<1>6. ASSUME NEW c \in Clients, Joined(c) \/ Left(c) PROVE Feed!Change
  <2> DEFINE r == RoomOf[c]
  <2>1. /\ r \in Rooms /\ hub = "running" /\ members[r] \in SUBSET Clients
        /\ FanOut(r, members[r], SystemFrame, {}) /\ UNCHANGED <<conn, log, seen>>
    BY <1>6 DEF Joined, Left, BroadcastSystem, peerVars, Curated, PumpsStarted, TypeOK
  <2> QED  BY <2>1, NotChat, FanOutChanges
<1>7. ASSUME NEW c \in Clients, Unregister(c) PROVE Feed!Change
  <2> DEFINE r == RoomOf[c]
             audience == members[r] \ {c}
             f == RosterFrame(NamesOf(audience))
  <2>1. /\ r \in Rooms /\ hub = "running" /\ audience \in SUBSET Clients
        /\ audience \subseteq members[r] /\ UNCHANGED <<conn, log, seen>>
    BY <1>7 DEF Unregister, peerVars, Curated, PumpsStarted, TypeOK
  <2>2. f \in Frames \ ChatFrames
    BY <2>1, NotChat, NamesOfType
  <2>3. CASE c \in members[r]
    <3>1. FanOut(r, audience, f, {c})
      BY <1>7, <2>3 DEF Unregister, BroadcastRoster
    <3> HIDE DEF r, audience, f
    <3> QED  BY <2>1, <2>2, <3>1, FanOutChanges
  <2>4. CASE c \notin members[r]
    BY <1>1, <1>7, <2>1, <2>4 DEF Unregister, hubVars
  <2> QED  BY <2>3, <2>4
<1>8. ASSUME NEW c \in Clients, Register(c) PROVE Feed!Change
  <2> DEFINE r == RoomOf[c]
             audience == members[r] \cup {c}
             f == RosterFrame(NamesOf(audience))
  <2>1. /\ r \in Rooms /\ hub = "running" /\ audience \in SUBSET Clients
        /\ FanOut(r, audience, f, {}) /\ UNCHANGED <<conn, log, seen>>
    BY <1>8 DEF Register, BroadcastRoster, Curated, TypeOK
  <2>2. f \in Frames \ ChatFrames
    BY <2>1, NotChat, NamesOfType
  <2>3. /\ Subscribed' \subseteq Subscribed \cup audience
        /\ \A k \in Clients : send'[k] \in {send[k], Append(send[k], f)}
    <3> HIDE DEF r, audience, f
    <3> QED  BY <2>1, <2>2, FanOutReaches
  <2>4. Subscribed' \subseteq Subscribed \cup {c} /\ Subscribed' \subseteq Clients
    BY <2>1, <2>3 DEF Subscribed
  <2>5. \A k \in Clients : Got(k)' = Got(k)
    <3> HIDE DEF f
    <3> QED  BY <2>1, <2>2, <2>3, GotOther
  <2>6. c \notin Subscribed /\ Got(c) = <<>>
    <3>1. ~Offered(c)
      BY <1>8 DEF Register, Offered
    <3>2. seen[c] = <<>> /\ QueuedIn(send[c]) = <<>>
      BY <3>1, QueuedNone DEF StreamInv, Stream
    <3> QED  BY <3>1, <3>2 DEF Got, Subscribed, HInv
  <2> QED  BY <2>1, <2>4, <2>5, <2>6, FeedChanges
<1>9. ASSUME NEW c \in Clients, Say(c) PROVE Feed!Publish(RoomOf[c]) /\ RoomOf[c] \in Rooms
  <2> DEFINE r == RoomOf[c]
             n == Len(log) + 1
             f == ChatFrame(n)
             room == members[r]
  <2>1. /\ r \in Rooms /\ hub = "running" /\ room \in SUBSET Clients
        /\ FanOut(r, room, f, {}) /\ log' = Append(log, r)
        /\ UNCHANGED <<conn, seen>>
    BY <1>9 DEF Say, BroadcastChat, peerVars, Curated, PumpsStarted, TypeOK
  <2>2. f \in ChatFrames /\ f \in Frames /\ f.n = n
    BY <1>9, SaidWithin, FrameTypes DEF ChatFrames, ChatFrame
  <2>3. /\ Subscribed' \subseteq Subscribed \cup room
        /\ \A k \in Clients : send'[k] \in {send[k], Append(send[k], f)}
        /\ \A k \in Subscribed' : RoomOf[k] = r => k \in room /\ send'[k] = Append(send[k], f)
    <3> HIDE DEF r, n, f, room
    <3> QED  BY <2>1, <2>2, FanOutReaches
  <2>4. Subscribed' \subseteq Subscribed /\ Subscribed \subseteq Clients
    BY <2>1, <2>3 DEF Subscribed
  <2>5. \A k \in Clients : RoomOf[k] # r => send'[k] = send[k]
    BY <2>1 DEF FanOut, HInv
  <2>6. ASSUME NEW k \in Subscribed \ Subscribed' PROVE RoomOf[k] = r
    <3>1. PICK q \in Rooms : k \in members[q]
      BY DEF Subscribed
    <3>2. k \in Clients /\ conn'[k] = "open" /\ hub' = "running"
      BY <2>1 DEF Subscribed, FanOut, HInv, NoPanic
    <3>3. k \notin members'[q]
      BY <3>1, <3>2 DEF Subscribed
    <3>4. q = r
      BY <2>1, <3>1, <3>3 DEF FanOut, TypeOK
    <3> QED  BY <3>1, <3>4 DEF HInv
  <2>7. ASSUME NEW k \in Subscribed'
        PROVE  Got(k)' = IF RoomOf[k] = r THEN Append(Got(k), n) ELSE Got(k)
    <3>1. k \in Clients /\ send[k] \in Seq(Frames) /\ seen[k] \in Seq(Nat) /\ seen'[k] = seen[k]
      BY <2>1, <2>4 DEF TypeOK, StreamInv, Stream, InOrder
    <3>2. CASE RoomOf[k] = r
      <4>1. Got(k)' = seen[k] \o QueuedIn(Append(send[k], f))
        BY <2>3, <3>1, <3>2 DEF Got
      <4>2. seen[k] \o QueuedIn(Append(send[k], f)) = Append(seen[k] \o QueuedIn(send[k]), f.n)
        <5> HIDE DEF f
        <5> QED  BY <2>2, <3>1, GotQueued
      <4> QED  BY <2>2, <3>2, <4>1, <4>2 DEF Got
    <3>3. CASE RoomOf[k] # r
      BY <2>5, <3>1, <3>3 DEF Got
    <3> QED  BY <3>2, <3>3
  <2> HIDE DEF r, f, room
  <2>8. Feed!Publish(r)
    BY <2>1, <2>4, <2>6, <2>7, FeedPublishes
  <2> QED  BY <2>1, <2>8 DEF r
<1>10. CASE HubQuit
  <2>1. Subscribed' = {} /\ UNCHANGED log
    BY <1>10 DEF HubQuit, Subscribed
  <2> QED  BY <2>1, FeedChanges
<1>11. CASE Cleanup \/ Drain \/ ShutdownStep \/ UNCHANGED vars
  BY <1>1, <1>11 DEF Cleanup, Drain, ShutdownStep, HubStop, StoreClose, Exit, Shift, hubVars,
     peerVars, vars
<1> QED
  BY <1>2, <1>3, <1>4, <1>5, <1>6, <1>7, <1>8, <1>9, <1>10, <1>11
     DEF Next, ClientStep, HandlerStep, ReaderExit, WriterStep

\* ImplementsFeed: buffers, goroutines, drops and the shutdown are invisible: what
\* a member whose connection is up has been shown and is yet to be shown is, step
\* by step, what RoomFeed gives a subscriber.
THEOREM HubImplementsFeed == Spec => ImplementsFeed
<1>1. Init => Feed!Init
  <2> SUFFICES ASSUME Init PROVE Feed!Init
    OBVIOUS
  <2>1. Subscribed = {} /\ log = <<>>
    BY DEF Init, Subscribed
  <2> QED  BY <2>1 DEF Feed!Init
<1> QED
  BY <1>1, HInvAlways, StreamInvAlways, FeedNext, PTL DEF Spec, ImplementsFeed, Feed!Spec

=============================================================================
