------------------------------ MODULE ChatPage ------------------------------
(***************************************************************************)
(* The chat page (web_res/src/chat.ts): one websocket for the room that is *)
(* shown, replaced at every switch of room and every /nick; a log that is  *)
(* capped, and lines that wait for an animation frame, capped as well.     *)
(* The events of a websocket are tasks of the browser, and so are frames,  *)
(* which a hidden tab does not get.                                        *)
(***************************************************************************)
EXTENDS Naturals, Sequences

CONSTANTS
    MaxLogLines,    \* MAX_LOG_LINES
    MaxSockets,     \* bound: the sockets that are opened
    MaxSaid         \* bound: the lines a room delivers

ASSUME PageAssumption == MaxLogLines \in Nat \ {0} /\ MaxSockets \in Nat /\ MaxSaid \in Nat

VARIABLES
    conn,       \* the socket, counted from 1; 0 before the first
    ready,      \* its readyState
    errors,     \* replaced sockets that will still report an error
    leaving,    \* replaced sockets that will still report their close
    log,        \* the lines in the log element
    pending,    \* pendingLines
    scheduled,  \* flushScheduled
    frame,      \* the browser was asked for a frame
    roster,     \* the socket whose roster is shown, 0 if none
    hidden,     \* the tab is in the background
    \* History, from the last switch on:
    said,       \* every line that was to be logged
    shown       \* how many of them a frame has dealt with

vars == <<conn, ready, errors, leaving, log, pending, scheduled, frame, roster, hidden, said, shown>>

Sockets == 1..MaxSockets

\* A line, its socket, and its place among the lines since the last switch.
Line == [from : Sockets, what : {"text", "closed", "error"}, n : 1..(MaxSaid + MaxSockets + 2)]

TypeOK ==
    /\ conn \in Sockets \cup {0}
    /\ ready \in {"none", "connecting", "open", "closed"}
    /\ errors \subseteq leaving /\ leaving \subseteq Sockets
    /\ log \in Seq(Line) /\ pending \in Seq(Line) /\ said \in Seq(Line)
    /\ scheduled \in BOOLEAN /\ frame \in BOOLEAN /\ hidden \in BOOLEAN
    /\ roster \in Sockets \cup {0}
    /\ shown \in 0..Len(said)

Init ==
    /\ conn = 0 /\ ready = "none" /\ errors = {} /\ leaving = {}
    /\ log = <<>> /\ pending = <<>>
    /\ scheduled = FALSE /\ frame = FALSE
    /\ roster = 0 /\ hidden = FALSE
    /\ said = <<>> /\ shown = 0

-----------------------------------------------------------------------------

\* The last lines that a cap leaves.
LastOf(lines, cap) ==
    IF Len(lines) <= cap THEN lines ELSE SubSeq(lines, Len(lines) - cap + 1, Len(lines))

\* Mutated Queued: the queue keeps its oldest lines when it is full.
QueuedOldest(lines) == SubSeq(lines, 1, IF Len(lines) < MaxLogLines THEN Len(lines) ELSE MaxLogLines)

Queued(lines) == LastOf(lines, MaxLogLines)

\* appendLog, of some lines in a row.
AppendLog(from, whats) ==
    LET lines == [i \in DOMAIN whats |->
                    [from |-> from, what |-> whats[i], n |-> Len(said) + i]]
    IN  /\ pending' = Queued(pending \o lines)
        /\ said' = said \o lines
        /\ scheduled' = TRUE
        /\ frame' = (frame \/ ~scheduled)

\* Mutated Detached: onclose stays.
DetachedNever == {}

\* What connectRoom no longer listens to from a socket that it replaces.
Detached == {"closed"}

\* connectRoom: a switch of room, or /nick.  The socket it replaces closes; one that
\* is connecting fails first, one that is open may.
Connect ==
    /\ conn < MaxSockets
    /\ \/ ready # "connecting" /\ errors' = errors
       \/ ready \in {"connecting", "open"} /\ errors' = errors \cup {conn}
    /\ leaving' = leaving \cup (IF ready \in {"connecting", "open"} THEN {conn} ELSE {})
    /\ conn' = conn + 1 /\ ready' = "connecting"
    /\ log' = <<>> /\ pending' = <<>> /\ roster' = 0
    /\ said' = <<>> /\ shown' = 0
    /\ UNCHANGED <<scheduled, frame, hidden>>

\* The handshake is done.
Open ==
    /\ ready = "connecting"
    /\ ready' = "open"
    /\ UNCHANGED <<conn, errors, leaving, log, pending, scheduled, frame, roster, hidden, said, shown>>

\* onmessage; a socket that is no longer open delivers nothing.
Message ==
    /\ ready = "open" /\ Len(said) < MaxSaid
    /\ AppendLog(conn, <<"text">>)
    /\ UNCHANGED <<conn, ready, errors, leaving, log, roster, hidden, shown>>

\* renderRoster
Roster ==
    /\ ready = "open"
    /\ roster' = conn
    /\ UNCHANGED <<conn, ready, errors, leaving, log, pending, scheduled, frame, hidden, said, shown>>

\* The socket fails, and its close follows; or it closes in good order.
Drop ==
    /\ ready \in {"connecting", "open"}
    /\ ready' = "closed"
    /\ \/ AppendLog(conn, <<"error", "closed">>)
       \/ ready = "open" /\ AppendLog(conn, <<"closed">>)
    /\ UNCHANGED <<conn, errors, leaving, log, roster, hidden, shown>>

\* What a replaced socket reports is logged unless its handler was taken away.
Reported(c, what) ==
    IF what \in Detached
    THEN UNCHANGED <<pending, scheduled, frame, said>>
    ELSE AppendLog(c, <<what>>)

\* A replaced socket fails.
LateError(c) ==
    /\ c \in errors
    /\ errors' = errors \ {c}
    /\ Reported(c, "error")
    /\ UNCHANGED <<conn, ready, leaving, log, roster, hidden, shown>>

\* A replaced socket has closed.
LateClose(c) ==
    /\ c \in leaving \ errors
    /\ leaving' = leaving \ {c}
    /\ Reported(c, "closed")
    /\ UNCHANGED <<conn, ready, errors, log, roster, hidden, shown>>

\* Mutated Flush: with nothing to do, it returns before it resets the flag.
FlushForgets ==
    /\ scheduled' = (pending = <<>>)
    /\ log' = LastOf(log \o pending, MaxLogLines)
    /\ pending' = <<>>

\* flushLog
Flush ==
    /\ scheduled' = FALSE
    /\ log' = LastOf(log \o pending, MaxLogLines)
    /\ pending' = <<>>

\* An animation frame.
Frame ==
    /\ frame /\ ~hidden
    /\ frame' = FALSE
    /\ Flush
    /\ shown' = Len(said)
    /\ UNCHANGED <<conn, ready, errors, leaving, roster, hidden, said>>

\* The user leaves the tab, or comes back to it.
Visibility ==
    /\ hidden' = ~hidden
    /\ UNCHANGED <<conn, ready, errors, leaving, log, pending, scheduled, frame, roster, said, shown>>

Next ==
    \/ Connect \/ Open \/ Message \/ Roster \/ Drop
    \/ \E c \in Sockets : LateError(c) \/ LateClose(c)
    \/ Frame \/ Visibility

Spec == Init /\ [][Next]_vars

\* The browser paints whenever the tab is looked at again and again.
FairSpec == Spec /\ SF_vars(Frame)

-----------------------------------------------------------------------------

\* The log is the tail of what was to be logged since the room was chosen, in order
\* and without a gap, as far as frames have come; what waits is the tail of the rest.
\* However many lines a hidden tab had to drop, none that the log would still show is
\* lost.
LogIsRoom ==
    /\ log = LastOf(SubSeq(said, 1, shown), MaxLogLines)
    /\ pending = LastOf(SubSeq(said, shown + 1, Len(said)), MaxLogLines)

\* "A deliberate switch should not log 'disconnected'": whenever the sockets of the
\* rooms left get to failing and closing, no line is of one of them but its error,
\* and the roster is of the present one, if any.
SwitchIsQuiet ==
    /\ \A i \in DOMAIN said : said[i].from = conn \/ said[i].what = "error"
    /\ roster \in {0, conn}

\* A line is in the log in the end, or was pushed out of it, unless the room is
\* left or the tab stays hidden: no order of frames, switches and hiding loses the
\* request for a frame.
LineShows ==
    []<>~hidden =>
        \A n \in 1..MaxSaid : (Len(said) >= n /\ shown < n) ~> (shown >= n \/ Len(said) < n)
=============================================================================
