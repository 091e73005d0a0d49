----------------------------- MODULE ChatStore -----------------------------
(***************************************************************************)
(* chatStore (chatstore.go): one SQLite table of chat messages behind a    *)
(* single connection, so every statement is atomic.  A row is a room and a *)
(* body; the autoincrement id is the row's place in the sequence.          *)
(***************************************************************************)
EXTENDS Naturals, Sequences, SequencesExt

CONSTANT HistoryLimit   \* chatHistoryLimit: rows replayed to a newcomer

ASSUME HistoryAssumption == HistoryLimit \in Nat

VARIABLE rows           \* the messages table, in id order

StoreInit == rows = <<>>

\* INSERT of one message.
Save(room, body) == rows' = Append(rows, [room |-> room, body |-> body])

\* The elements of s that are in keep, in their order.
Kept(s, keep) ==
    LET upTo[i \in 0..Len(s)] ==
            IF i = 0 THEN <<>>
            ELSE IF s[i] \in keep THEN Append(upTo[i - 1], s[i]) ELSE upTo[i - 1]
    IN  upTo[Len(s)]

\* The rows of a room.
InRoom(room) == [room : {room}, body : Nat]

\* SELECT ... WHERE room = ? ORDER BY id DESC LIMIT ?
NewestFirst(room) ==
    LET mine == Reverse(Kept(rows, InRoom(room)))
    IN  SubSeq(mine, 1, IF Len(mine) < HistoryLimit THEN Len(mine) ELSE HistoryLimit)

\* Mutated Recent: the page as the query returns it.
RecentNewestFirst(room) ==
    LET page == NewestFirst(room)
    IN  [i \in 1..Len(page) |-> page[i].body]

\* recent: the query's rows put back into chronological order, bodies only.
Recent(room) ==
    LET page == Reverse(NewestFirst(room))
    IN  [i \in 1..Len(page) |-> page[i].body]

\* purgeOlderThan: rows are stamped on insertion, so the expired ones are the
\* oldest (the wall clock is taken not to run backwards).
Purge == \E expired \in 1..Len(rows) : rows' = SubSeq(rows, expired + 1, Len(rows))
=============================================================================
