------------------------------ MODULE RoomFeed ------------------------------
(***************************************************************************)
(* What the chat promises, without goroutines, buffers or connections: a   *)
(* message published to a room reaches, in that very step, every subscriber *)
(* of the room that is not thrown out by it.  A subscriber therefore has    *)
(* exactly the messages of its room since it subscribed, in order.          *)
(***************************************************************************)
EXTENDS Naturals, Sequences

CONSTANTS Clients, Rooms, RoomOf

VARIABLES
    feed,       \* the rooms of the messages published, in order
    sub,        \* the subscribers
    got         \* the messages each subscriber has; none for the others

feedVars == <<feed, sub, got>>

Init == feed = <<>> /\ sub = {} /\ got = [c \in Clients |-> <<>>]

\* What the clients of keep have, and n for those of them that are in room r.
Extended(keep, r, n) ==
    [c \in Clients |-> IF c \notin keep THEN <<>>
                       ELSE IF RoomOf[c] = r THEN Append(got[c], n) ELSE got[c]]

Publish(r) ==
    \E keep \in SUBSET sub :
        /\ \A c \in sub \ keep : RoomOf[c] = r
        /\ feed' = Append(feed, r)
        /\ sub' = keep
        /\ got' = Extended(keep, r, Len(feed) + 1)

\* Subscribers come, with nothing, and go, losing what they had.
Change ==
    \E keep \in SUBSET sub, new \in SUBSET (Clients \ sub) :
        /\ sub' = keep \cup new
        /\ got' = [c \in Clients |-> IF c \in keep THEN got[c] ELSE <<>>]
        /\ UNCHANGED feed

Next == (\E r \in Rooms : Publish(r)) \/ Change

Spec == Init /\ [][Next]_feedVars
=============================================================================
