----------------------------- MODULE MCChatHub -----------------------------
(* Instances of ChatHub for TLC. *)
EXTENDS ChatHub, TLC

CONSTANTS a, b, d, lobby, home, away, ann, bob, eve

\* Two clients behind one address.
PairIPs   == a :> home @@ b :> home
PairRooms == a :> lobby @@ b :> lobby
PairNames == a :> ann @@ b :> bob
SameName  == a :> ann @@ b :> ann

\* Three clients, two of them competing for the slots of one address.
TrioIPs   == a :> home @@ b :> away @@ d :> away
TrioRooms == a :> lobby @@ b :> lobby @@ d :> lobby
TrioNames == a :> ann @@ b :> bob @@ d :> eve

\* Leaves the shutdown to another run.
Serving == phase = "serving"
=============================================================================
