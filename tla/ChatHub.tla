------------------------------ MODULE ChatHub ------------------------------
(***************************************************************************)
(* The chat server: Hub.run (hub.go), the three goroutines of a connection *)
(* (serveWs, readPump, writePump in client.go), the slots of ConnLimiter,  *)
(* the table of ChatStore, and the shutdown sequence of main.go.           *)
(*                                                                         *)
(* The hub's channels are unbuffered, so a send on one of them and the     *)
(* select arm that receives it are one step of the model, a rendezvous.    *)
(* What the hub then does with a member is a non-blocking send on that     *)
(* member's own channel, which nobody else fills or closes, so the arm     *)
(* runs to its end in that step.                                           *)
(***************************************************************************)
EXTENDS ConnLimiter, ChatStore, FiniteSets

CONSTANTS
    Clients,    \* connection attempts; each is made at most once
    Rooms,      \* the curated rooms
    Names,      \* display names
    RoomOf,     \* the room a client asks for, curated or not
    IPOf,       \* the address it comes from
    NameOf,     \* its sanitised display name
    SendCap,    \* buffer of Client.send (256 in the code)
    HasStore,   \* whether the chat database could be opened
    Speakers,   \* bound of the model: the clients whose peers say anything
    Steady,     \* bound of the model: the clients whose peers never go away
    MaxMsgs     \* bound of the model: chat messages read from all peers

ASSUME ChatAssumption ==
    /\ IsFiniteSet(Clients)
    /\ IPOf \in [Clients -> IPs]
    /\ NameOf \in [Clients -> Names]
    /\ DOMAIN RoomOf = Clients
    /\ SendCap \in Nat \ {0}
    /\ HasStore \in BOOLEAN
    /\ Speakers \subseteq Clients
    /\ Steady \subseteq Clients
    /\ MaxMsgs \in Nat

VARIABLES
    members,    \* Hub.rooms: room -> registered clients; a missing key is {}
    hub,        \* Hub.run: "running", "stopped", or "panicked"
    handler,    \* serveWs of each client
    reader,     \* readPump of each client
    writer,     \* writePump of each client
    conn,       \* the websocket: "gone" once the peer is, "closed" by Close
    send,       \* Client.send: frames queued for the writePump
    closed,     \* clients whose send channel the hub has closed
    phase,      \* the shutdown goroutine of run (main.go)
    log,        \* history variable: the rooms of the chat messages broadcast so far
    dropped,    \* history variable: who was thrown out since the last roster of its room
    \* What the peer of an open connection has been shown:
    joinAt,     \* how many messages were in the log when it was registered
    replayed,   \* chat messages written to it from the store
    seen,       \* chat messages written to it by its writePump
    roster      \* names in the last roster written to it

hubVars    == <<members, hub, send, closed, dropped>>
peerVars   == <<joinAt, replayed, seen, roster>>
vars == <<limiterVars, rows, hubVars, handler, reader, writer, conn, phase,
          log, peerVars>>

-----------------------------------------------------------------------------
(* Frames, and the state derived from the variables. *)

ChatFrame(n)   == [kind |-> "chat", n |-> n]
SystemFrame    == [kind |-> "system"]
RosterFrame(N) == [kind |-> "roster", names |-> N]

ChatFrames == {ChatFrame(n) : n \in 1..MaxMsgs}
Frames == ChatFrames \cup {SystemFrame}
              \cup {RosterFrame(N) : N \in SUBSET Names}

HandlerStates == {"idle", "refused", "upgrading", "registering", "announcing",
                  "done"}
ReaderStates  == {"none", "reading", "sending", "leaving", "unregistering",
                  "releasing", "done"}

\* Mutated NamesOf: connections listed in place of names.
NamesOfConnections(S) == S

NamesOf(S) == {NameOf[c] : c \in S}

\* quit is closed by hub.stop and stays closed.
QuitClosed == phase \in {"stopping", "closed"}
StoreOpen  == HasStore /\ phase # "closed"

\* A client holds a slot from acquire to the release of its handler or reader.
Holds(c) == \/ handler[c] = "upgrading"
            \/ reader[c] \in {"reading", "sending", "leaving", "unregistering",
                              "releasing"}

\* What has been read from the peers and not yet handed to the hub.
Pending == {c \in Clients : reader[c] = "sending"}

TypeOK ==
    /\ LimiterTypeOK
    /\ rows \in Seq([room : Rooms, body : 1..MaxMsgs])
    /\ members \in [Rooms -> SUBSET Clients]
    /\ hub \in {"running", "stopped", "panicked"}
    /\ handler \in [Clients -> HandlerStates]
    /\ reader \in [Clients -> ReaderStates]
    /\ writer \in [Clients -> {"none", "running", "done"}]
    /\ conn \in [Clients -> {"none", "open", "gone", "closed"}]
    /\ send \in [Clients -> Seq(Frames)]
    /\ closed \subseteq Clients
    /\ phase \in {"serving", "draining", "stopping", "closed", "exited"}
    /\ log \in Seq(Rooms)
    /\ dropped \subseteq Clients
    /\ joinAt \in [Clients -> Nat]
    /\ seen \in [Clients -> Seq(1..MaxMsgs)]
    /\ roster \in [Clients -> SUBSET Names]

Init ==
    /\ LimiterInit
    /\ StoreInit
    /\ members = [r \in Rooms |-> {}]
    /\ hub = "running"
    /\ handler = [c \in Clients |-> "idle"]
    /\ reader = [c \in Clients |-> "none"]
    /\ writer = [c \in Clients |-> "none"]
    /\ conn = [c \in Clients |-> "none"]
    /\ send = [c \in Clients |-> <<>>]
    /\ closed = {}
    /\ phase = "serving"
    /\ log = <<>>
    /\ dropped = {}
    /\ joinAt = [c \in Clients |-> 0]
    /\ replayed = [c \in Clients |-> <<>>]
    /\ seen = [c \in Clients |-> <<>>]
    /\ roster = [c \in Clients |-> {}]

-----------------------------------------------------------------------------
(* The hub's fan-out. *)

HasRoom(c) == Len(send[c]) < SendCap

\* A roster lists its audience, and so leaves nobody unnoticed but whom it throws out.
Unnoticed(r, audience, frame) ==
    (IF frame.kind = "roster" THEN {c \in dropped : RoomOf[c] # r} ELSE dropped)
        \cup {c \in audience : ~HasRoom(c)}

\* Mutated FanOut: a slow member is closed but stays in the room.
FanOutKeepsSlow(r, audience, frame, shut) ==
    /\ hub' = IF (audience \cup shut) \cap closed = {} THEN "running" ELSE "panicked"
    /\ members' = [members EXCEPT ![r] = audience]
    /\ send' = [c \in Clients |-> IF c \in audience /\ HasRoom(c)
                                  THEN Append(send[c], frame) ELSE send[c]]
    /\ closed' = closed \cup shut \cup {c \in audience : ~HasRoom(c)}
    /\ dropped' = Unnoticed(r, audience, frame)

\* Mutated FanOut: a slow member misses the frame and stays.
FanOutSkipsSlow(r, audience, frame, shut) ==
    /\ members' = [members EXCEPT ![r] = audience]
    /\ send' = [c \in Clients |-> IF c \in audience /\ HasRoom(c)
                                  THEN Append(send[c], frame) ELSE send[c]]
    /\ closed' = closed \cup shut
    /\ UNCHANGED <<hub, dropped>>

\* Mutated FanOut: a plain send, which waits for room in every buffer.
FanOutBlocks(r, audience, frame, shut) ==
    /\ \A c \in audience : HasRoom(c)
    /\ members' = [members EXCEPT ![r] = audience]
    /\ send' = [c \in Clients |-> IF c \in audience THEN Append(send[c], frame) ELSE send[c]]
    /\ closed' = closed \cup shut
    /\ UNCHANGED <<hub, dropped>>

\* Send one frame to an audience in room r without blocking: a member whose
\* buffer is full has its channel closed and is dropped.  The channels in shut
\* are closed by the arm itself.  Sending on, or closing, a closed channel
\* panics.
FanOut(r, audience, frame, shut) ==
    /\ hub' = IF (audience \cup shut) \cap closed = {} THEN "running" ELSE "panicked"
    /\ members' = [members EXCEPT ![r] = {c \in audience : HasRoom(c)}]
    /\ send' = [c \in Clients |-> IF c \in audience /\ HasRoom(c)
                                  THEN Append(send[c], frame) ELSE send[c]]
    /\ closed' = closed \cup shut \cup {c \in audience : ~HasRoom(c)}
    /\ dropped' = Unnoticed(r, audience, frame)

\* Mutated BroadcastRoster: the names are those from before the arm's change.
BroadcastOldRoster(r, audience, shut) ==
    FanOut(r, audience, RosterFrame(NamesOf(members[r])), shut)

\* broadcastRoster, for the members the arm has left in the room.
BroadcastRoster(r, audience, shut) ==
    FanOut(r, audience, RosterFrame(NamesOf(audience)), shut)

\* The broadcast arm for a system message: nothing is saved.
BroadcastSystem(r) == FanOut(r, members[r], SystemFrame, {})

\* The broadcast arm for a chat message: it is saved first; a failed save is
\* logged and the message is broadcast all the same.
BroadcastChat(r) ==
    LET n == Len(log) + 1
    IN  /\ log' = Append(log, r)
        /\ (StoreOpen /\ Save(r, n)) \/ UNCHANGED rows
        /\ FanOut(r, members[r], ChatFrame(n), {})

\* The peer's view ends with the connection.
Forget(c) ==
    /\ joinAt' = [joinAt EXCEPT ![c] = 0]
    /\ replayed' = [replayed EXCEPT ![c] = <<>>]
    /\ seen' = [seen EXCEPT ![c] = <<>>]
    /\ roster' = [roster EXCEPT ![c] = {}]

-----------------------------------------------------------------------------
(* serveWs.  A connection accepted before the shutdown began may still bring *)
(* its first request afterwards, so the handler may start in every phase.    *)

\* An unknown room is answered 404, and a connection over the caps 429.
Refuse(c) ==
    /\ handler[c] = "idle"
    /\ RoomOf[c] \notin Rooms \/ ~HasSlot(IPOf[c])
    /\ handler' = [handler EXCEPT ![c] = "refused"]
    /\ UNCHANGED <<limiterVars, rows, hubVars, reader, writer, conn, phase, log, peerVars>>

Admit(c) ==
    /\ handler[c] = "idle"
    /\ RoomOf[c] \in Rooms
    /\ Acquire(IPOf[c])
    /\ handler' = [handler EXCEPT ![c] = "upgrading"]
    /\ UNCHANGED <<rows, hubVars, reader, writer, conn, phase, log, peerVars>>

\* Mutated UpgradeFails: the slot is not given back.
UpgradeFailsKeepsSlot(c) ==
    /\ handler[c] = "upgrading"
    /\ handler' = [handler EXCEPT ![c] = "refused"]
    /\ UNCHANGED <<limiterVars, rows, hubVars, reader, writer, conn, phase, log, peerVars>>

UpgradeFails(c) ==
    /\ handler[c] = "upgrading"
    /\ Release(IPOf[c])
    /\ handler' = [handler EXCEPT ![c] = "refused"]
    /\ UNCHANGED <<rows, hubVars, reader, writer, conn, phase, log, peerVars>>

\* The upgrade succeeds, the history is written, both pumps are started, and the
\* handler offers the client to the hub.
Connect(c, state, history) ==
    /\ handler[c] = "upgrading"
    /\ handler' = [handler EXCEPT ![c] = "registering"]
    /\ reader' = [reader EXCEPT ![c] = "reading"]
    /\ writer' = [writer EXCEPT ![c] = "running"]
    /\ conn' = [conn EXCEPT ![c] = state]
    /\ replayed' = [replayed EXCEPT ![c] = history]
    /\ UNCHANGED <<limiterVars, rows, hubVars, phase, log, joinAt, seen, roster>>

\* The whole page of history is written, oldest first.
Replay(c) == StoreOpen /\ Connect(c, "open", Recent(RoomOf[c]))

\* There is no store, or its query fails, which is logged.
SkipReplay(c) == Connect(c, "open", <<>>)

\* A write of the history fails: the loop stops, and the handler goes on with a
\* connection nobody is at the end of.
ReplayBreaks(c) == c \notin Steady /\ StoreOpen /\ Connect(c, "gone", <<>>)

\* The register arm.  The send is not guarded by quit.
Register(c) ==
    /\ handler[c] = "registering"
    /\ hub = "running"
    /\ BroadcastRoster(RoomOf[c], members[RoomOf[c]] \cup {c}, {})
    /\ handler' = [handler EXCEPT ![c] = "announcing"]
    /\ joinAt' = [joinAt EXCEPT ![c] = IF conn[c] = "open" THEN Len(log) ELSE 0]
    /\ UNCHANGED <<limiterVars, rows, reader, writer, conn, phase, log, replayed, seen, roster>>

\* "* name joined *"
Joined(c) ==
    /\ handler[c] = "announcing"
    /\ hub = "running"
    /\ BroadcastSystem(RoomOf[c])
    /\ handler' = [handler EXCEPT ![c] = "done"]
    /\ UNCHANGED <<limiterVars, rows, reader, writer, conn, phase, log, peerVars>>

JoinedQuit(c) ==
    /\ handler[c] = "announcing"
    /\ QuitClosed
    /\ handler' = [handler EXCEPT ![c] = "done"]
    /\ UNCHANGED <<limiterVars, rows, hubVars, reader, writer, conn, phase, log, peerVars>>

HandlerStep(c) ==
    \/ UpgradeFails(c) \/ Replay(c) \/ SkipReplay(c) \/ ReplayBreaks(c)
    \/ Register(c) \/ Joined(c) \/ JoinedQuit(c)

-----------------------------------------------------------------------------
(* readPump.  A message over the connection's rate is dropped, which changes *)
(* nothing here.                                                             *)

Read(c) ==
    /\ reader[c] = "reading"
    /\ conn[c] # "closed"
    /\ c \in Speakers /\ Len(log) + Cardinality(Pending) < MaxMsgs
    /\ reader' = [reader EXCEPT ![c] = "sending"]
    /\ UNCHANGED <<limiterVars, rows, hubVars, handler, writer, conn, phase, log, peerVars>>

\* The broadcast arm for what was read.  The send is not guarded by quit.
Say(c) ==
    /\ reader[c] = "sending"
    /\ hub = "running"
    /\ BroadcastChat(RoomOf[c])
    /\ reader' = [reader EXCEPT ![c] = "reading"]
    /\ UNCHANGED <<limiterVars, handler, writer, conn, phase, peerVars>>

\* ReadMessage fails: the peer is gone or silent for pongWait, closes, breaks
\* the protocol, or one of the pumps has closed the connection.
ReadFails(c) ==
    /\ reader[c] = "reading"
    /\ c \in Steady => conn[c] = "closed"
    /\ reader' = [reader EXCEPT ![c] = "leaving"]
    /\ UNCHANGED <<limiterVars, rows, hubVars, handler, writer, conn, phase, log, peerVars>>

\* "* name left *"
Left(c) ==
    /\ reader[c] = "leaving"
    /\ hub = "running"
    /\ BroadcastSystem(RoomOf[c])
    /\ reader' = [reader EXCEPT ![c] = "unregistering"]
    /\ UNCHANGED <<limiterVars, rows, handler, writer, conn, phase, log, peerVars>>

LeftQuit(c) ==
    /\ reader[c] = "leaving"
    /\ QuitClosed
    /\ reader' = [reader EXCEPT ![c] = "unregistering"]
    /\ UNCHANGED <<limiterVars, rows, hubVars, handler, writer, conn, phase, log, peerVars>>

\* Mutated Unregister: the others get no roster.
UnregisterUnnoticed(c) ==
    /\ reader[c] = "unregistering"
    /\ hub = "running"
    /\ IF c \in members[RoomOf[c]]
       THEN /\ members' = [members EXCEPT ![RoomOf[c]] = @ \ {c}]
            /\ closed' = closed \cup {c}
            /\ UNCHANGED <<hub, send, dropped>>
       ELSE UNCHANGED hubVars
    /\ reader' = [reader EXCEPT ![c] = "releasing"]
    /\ UNCHANGED <<limiterVars, rows, handler, writer, conn, phase, log, peerVars>>

\* The unregister arm: a client that is no member is ignored.
Unregister(c) ==
    /\ reader[c] = "unregistering"
    /\ hub = "running"
    /\ IF c \in members[RoomOf[c]]
       THEN BroadcastRoster(RoomOf[c], members[RoomOf[c]] \ {c}, {c})
       ELSE UNCHANGED hubVars
    /\ reader' = [reader EXCEPT ![c] = "releasing"]
    /\ UNCHANGED <<limiterVars, rows, handler, writer, conn, phase, log, peerVars>>

UnregisterQuit(c) ==
    /\ reader[c] = "unregistering"
    /\ QuitClosed
    /\ reader' = [reader EXCEPT ![c] = "releasing"]
    /\ UNCHANGED <<limiterVars, rows, hubVars, handler, writer, conn, phase, log, peerVars>>

\* conns.release, and conn.Close.
ReleaseSlot(c) ==
    /\ reader[c] = "releasing"
    /\ Release(IPOf[c])
    /\ reader' = [reader EXCEPT ![c] = "done"]
    /\ conn' = [conn EXCEPT ![c] = "closed"]
    /\ Forget(c)
    /\ UNCHANGED <<rows, hubVars, handler, writer, phase, log>>

\* The deferred function of readPump.
ReaderExit(c) ==
    \/ Left(c) \/ LeftQuit(c) \/ Unregister(c) \/ UnregisterQuit(c)
    \/ ReleaseSlot(c)

-----------------------------------------------------------------------------
(* writePump, and the peer. *)

\* One queued frame is written.  A write to a peer that is gone may succeed.
Write(c) ==
    /\ writer[c] = "running"
    /\ send[c] # <<>>
    /\ conn[c] # "closed"
    /\ LET frame == Head(send[c])
           shown(kind) == conn[c] = "open" /\ frame.kind = kind
       IN  /\ seen' = IF shown("chat") THEN [seen EXCEPT ![c] = Append(@, frame.n)]
                      ELSE seen
           /\ roster' = IF shown("roster") THEN [roster EXCEPT ![c] = frame.names]
                        ELSE roster
    /\ send' = [send EXCEPT ![c] = Tail(@)]
    /\ UNCHANGED <<limiterVars, rows, members, hub, closed, dropped, handler, reader, writer, conn,
                   phase, log, joinAt, replayed>>

\* A write or a ping fails: the pump closes the connection and returns.
WriterCloses(c) ==
    /\ writer' = [writer EXCEPT ![c] = "done"]
    /\ conn' = [conn EXCEPT ![c] = "closed"]
    /\ Forget(c)

WriteFails(c) ==
    /\ writer[c] = "running"
    /\ send[c] # <<>>
    /\ conn[c] \in {"gone", "closed"}
    /\ send' = [send EXCEPT ![c] = Tail(@)]
    /\ WriterCloses(c)
    /\ UNCHANGED <<limiterVars, rows, members, hub, closed, dropped, handler, reader, phase, log>>

PingFails(c) ==
    /\ writer[c] = "running"
    /\ conn[c] \in {"gone", "closed"}
    /\ WriterCloses(c)
    /\ UNCHANGED <<limiterVars, rows, hubVars, handler, reader, phase, log>>

\* Mutated WriteClose: the close is seen ahead of the queued frames.
WriteCloseAtOnce(c) ==
    /\ writer[c] = "running"
    /\ c \in closed
    /\ WriterCloses(c)
    /\ UNCHANGED <<limiterVars, rows, hubVars, handler, reader, phase, log>>

\* Mutated WriteClose: the pump returns and leaves the connection open.
WriteCloseReturns(c) ==
    /\ writer[c] = "running"
    /\ c \in closed
    /\ send[c] = <<>>
    /\ writer' = [writer EXCEPT ![c] = "done"]
    /\ UNCHANGED <<limiterVars, rows, hubVars, handler, reader, conn, phase, log, peerVars>>

\* The hub has closed the channel and the buffer is empty: a close frame.
WriteClose(c) ==
    /\ writer[c] = "running"
    /\ c \in closed
    /\ send[c] = <<>>
    /\ WriterCloses(c)
    /\ UNCHANGED <<limiterVars, rows, hubVars, handler, reader, phase, log>>

WriterStep(c) == Write(c) \/ WriteFails(c) \/ PingFails(c) \/ WriteClose(c)

\* The peer goes away; this side only notices when it reads or writes.
PeerGone(c) ==
    /\ c \notin Steady
    /\ conn[c] = "open"
    /\ conn' = [conn EXCEPT ![c] = "gone"]
    /\ Forget(c)
    /\ UNCHANGED <<limiterVars, rows, hubVars, handler, reader, writer, phase, log>>

-----------------------------------------------------------------------------
(* Retention, and shutdown. *)

\* runChatCleanup: the daily purge.
Cleanup ==
    /\ StoreOpen
    /\ Purge
    /\ UNCHANGED <<limiterVars, hubVars, handler, reader, writer, conn, phase, log, peerVars>>

Shift(from, to) ==
    /\ phase = from
    /\ phase' = to
    /\ UNCHANGED <<limiterVars, rows, hubVars, handler, reader, writer, conn, log, peerVars>>

\* A signal: srv.Shutdown stops accepting.
Drain == Shift("serving", "draining")

\* Shutdown has returned, drained or timed out; it does not wait for hijacked
\* connections.  Then hub.stop, store.close, and the process exits.
HubStop    == Shift("draining", "stopping")
StoreClose == Shift("stopping", "closed")
Exit       == Shift("closed", "exited")

\* The quit arm of Hub.run.
HubQuit ==
    /\ QuitClosed
    /\ hub = "running"
    /\ LET everyone == UNION {members[r] : r \in Rooms}
       IN  /\ hub' = IF everyone \cap closed = {} THEN "stopped" ELSE "panicked"
           /\ closed' = closed \cup everyone
    /\ UNCHANGED <<limiterVars, rows, members, send, dropped, handler, reader, writer, conn, phase,
                   log, peerVars>>

ShutdownStep == HubStop \/ StoreClose \/ Exit

ClientStep(c) ==
    \/ Refuse(c) \/ Admit(c) \/ HandlerStep(c)
    \/ Read(c) \/ Say(c) \/ ReadFails(c) \/ ReaderExit(c)
    \/ WriterStep(c) \/ PeerGone(c)

Running == phase # "exited" /\ hub # "panicked"

Next ==
    \/ Running /\ \/ \E c \in Clients : ClientStep(c)
                  \/ Cleanup
                  \/ Drain \/ ShutdownStep \/ HubQuit
    \/ phase = "exited" /\ UNCHANGED vars     \* the process is over

\* What readPump does without waiting for its peer.
ReaderStep(c) == Say(c) \/ (conn[c] # "open" /\ ReadFails(c)) \/ ReaderExit(c)

\* The hub's select serves whoever waits on it, every goroutine keeps running,
\* and a connection that is gone is noticed within the read deadline.  Nothing
\* is assumed of the peers, of the retention clock or of the shutdown signal.
Fairness ==
    /\ \A c \in Clients :
          /\ WF_vars(Running /\ HandlerStep(c))
          /\ WF_vars(Running /\ ReaderStep(c))
          /\ WF_vars(Running /\ WriterStep(c))
    /\ WF_vars(Running /\ HubQuit)
    /\ WF_vars(Running /\ ShutdownStep)

Spec == Init /\ [][Next]_vars

FairSpec == Spec /\ Fairness

-----------------------------------------------------------------------------
(* Safety. *)

\* Chat messages waiting in a client's send buffer, in order.
Queued(c) ==
    LET chats == Kept(send[c], ChatFrames)
    IN  [i \in 1..Len(chats) |-> chats[i].n]

\* The same, as a set.
Waiting(c) == {f.n : f \in {g \in Range(send[c]) : g.kind = "chat"}}

\* Everything a client has been sent, or is about to be.
Received(c) == replayed[c] \o seen[c] \o Queued(c)

\* The hub never sends on a closed channel and never closes one twice, either
\* of which would take the whole server down: dropping a slow member, an
\* unregister and the shutdown all close the same channels.
NoPanic == hub # "panicked"

\* The slots counted by connLimiter are those of the handlers and readers that
\* will give one back, so no path leaks a slot or returns it twice, and the caps
\* bound the connections there are.
SlotsBalanced ==
    /\ total <= MaxTotal /\ \A ip \in IPs : perIP[ip] <= MaxPerIP
    /\ total = Cardinality({c \in Clients : Holds(c)})
    /\ \A ip \in IPs : perIP[ip] = Cardinality({c \in Clients : Holds(c) /\ IPOf[c] = ip})

\* A client sees the messages of its own room only, in the order the hub took
\* them, and none twice, across the seam between the replayed history (read
\* from the table by the handler) and the live feed (sent by the hub).
StreamOrdered ==
    \A c \in Clients :
        LET got == Received(c)
        IN  /\ \A i, j \in DOMAIN got : i < j => got[i] < got[j]
            /\ \A i \in DOMAIN got : log[got[i]] = RoomOf[c]

\* The registered clients whose connection is up.
Subscribed == {c \in Clients : /\ hub = "running" /\ conn[c] = "open"
                               /\ \E r \in Rooms : c \in members[r]}

\* A registered client whose connection is up misses nothing: a message is
\* either on its way or the client has been dropped; the hub never skips one.
NothingSkipped ==
    \A c \in Subscribed :
        {n \in (joinAt[c] + 1)..Len(log) : log[n] = RoomOf[c]}
            \subseteq Range(seen[c]) \cup Waiting(c)

\* The hub implements RoomFeed for the members whose connection is up: what such
\* a member has been shown and is yet to be shown is its room's feed since it
\* was registered, nothing missing, doubled or out of turn.
Feed == INSTANCE RoomFeed WITH
    feed <- log,
    sub  <- Subscribed,
    got  <- [c \in Clients |-> IF c \in Subscribed THEN seen[c] \o Queued(c) ELSE <<>>]

ImplementsFeed == Feed!Spec

\* N is the last roster a client has been shown, or will be with what is queued.
LastRosterIs(c, N) ==
    \/ /\ roster[c] = N
       /\ \A i \in 1..Len(send[c]) : send[c][i].kind # "roster"
    \/ \E i \in 1..Len(send[c]) :
          /\ send[c][i] = RosterFrame(N)
          /\ \A j \in (i + 1)..Len(send[c]) : send[c][j].kind # "roster"

\* The last roster of a connected member never lacks a member of its room.
RosterCovers ==
    \A r \in Rooms : \A c \in members[r] : \A N \in SUBSET Names :
        conn[c] = "open" /\ LastRosterIs(c, N) => NamesOf(members[r]) \subseteq N

\* Nor does it list anybody else, but those that were thrown out for a full buffer
\* since: nobody is told of them, not even when they unregister.  No departure goes
\* unnoticed otherwise, and the next roster of the room puts it right.
RosterCurrent ==
    \A r \in Rooms : \A c \in members[r] : \A N \in SUBSET Names :
        conn[c] = "open" /\ LastRosterIs(c, N) =>
            N \subseteq NamesOf(members[r] \cup {k \in dropped : RoomOf[k] = r})

\* hub.go, Hub: "keeps the set of connected clients per room": once both of its
\* goroutines that talk to the hub have ended, a client is in no room.
NoGhost ==
    \A c \in Clients :
        (hub = "running" /\ handler[c] = "done" /\ reader[c] = "done")
            => \A r \in Rooms : c \notin members[r]

-----------------------------------------------------------------------------
(* Liveness, under Fairness. *)

\* A connection that has ended gives its slot back, whatever the hub, the other
\* pump or a full room is doing.
SlotReturned ==
    \A c \in Clients :
        (conn[c] \in {"gone", "closed"} /\ Holds(c)) ~> (~Holds(c) \/ phase = "exited")

\* A message queued for a client whose peer stays is written to it, also when
\* the hub drops the client, or stops, meanwhile: the writePump drains the buffer
\* before it sends the close frame.
QueuedIsWritten ==
    \A c \in Steady : \A n \in 1..MaxMsgs :
        (n \in Waiting(c)) ~> (n \in Range(seen[c]) \/ phase = "exited")

\* A member the hub has dropped, or the shutdown has cut, loses its connection.
DroppedIsClosed ==
    \A c \in Clients : (c \in closed) ~> (conn[c] = "closed" \/ phase = "exited")

\* No client, however slow, keeps another's message from the room.
SaidIsBroadcast ==
    \A c \in Clients : (reader[c] = "sending") ~> (reader[c] # "sending" \/ phase = "exited")
=============================================================================
