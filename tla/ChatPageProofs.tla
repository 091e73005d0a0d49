--------------------------- MODULE ChatPageProofs ---------------------------
(***************************************************************************)
(* The log of the chat page is the room that is shown, for any number of   *)
(* lines and sockets, and any cap.                                         *)
(***************************************************************************)
EXTENDS ChatPage, SequenceTheorems, TLAPS

-----------------------------------------------------------------------------
(* The ends of a segment of a sequence. *)

\* w is an end of s[a + 1], ..., s[b]: all of it, or at least cap of it.
EndOf(w, s, a, b, cap) ==
    /\ Len(w) <= b - a /\ (Len(w) = b - a \/ cap <= Len(w))
    /\ \A i \in 1..Len(w) : w[i] = s[b - Len(w) + i]

\* What LastOf is, element by element: the end of its argument that cap leaves.
LEMMA LastOfIs ==
    ASSUME NEW X, NEW w \in Seq(X), NEW cap \in Nat
    PROVE  /\ LastOf(w, cap) \in Seq(X)
           /\ Len(LastOf(w, cap)) = IF Len(w) <= cap THEN Len(w) ELSE cap
           /\ \A i \in 1..Len(LastOf(w, cap)) :
                 LastOf(w, cap)[i] = w[Len(w) - Len(LastOf(w, cap)) + i]
<1>1. Len(w) \in Nat /\ \A i \in 1..Len(w) : w[i] \in X
  OBVIOUS
<1>2. CASE Len(w) <= cap
  <2>1. LastOf(w, cap) = w
    BY <1>2 DEF LastOf
  <2>2. \A i \in 1..Len(w) : Len(w) - Len(w) + i = i
    BY <1>1
  <2> QED  BY <1>2, <2>1, <2>2
<1>3. CASE ~(Len(w) <= cap)
  <2> DEFINE m == Len(w) - cap + 1
             t == SubSeq(w, m, Len(w))
  <2>1. LastOf(w, cap) = t
    BY <1>3 DEF LastOf
  <2>2. m \in 1..(Len(w) + 1) /\ Len(w) - m + 1 = cap
    BY <1>1, <1>3
  <2>3. \A i \in m..Len(w) : w[i] \in X
    BY <1>1, <2>2
  <2>4. /\ t \in Seq(X)
        /\ Len(t) = IF m <= Len(w) THEN Len(w) - m + 1 ELSE 0
        /\ \A i \in 1..(Len(w) - m + 1) : t[i] = w[m + i - 1]
    <3> HIDE DEF m
    <3> QED  BY <1>1, <2>2, <2>3, SubSeqProperties
  <2>5. Len(t) = cap
    BY <1>1, <2>2, <2>4
  <2>6. \A i \in 1..cap : m + i - 1 = Len(w) - cap + i
    BY <1>1
  <2> HIDE DEF m, t
  <2>7. \A i \in 1..cap : t[i] = w[Len(w) - cap + i]
    BY <2>2, <2>4, <2>6
  <2> QED  BY <1>3, <2>1, <2>4, <2>5, <2>7
<1> QED  BY <1>2, <1>3

\* Two ends of one segment, of the same length, are the same.
LEMMA LastUnique ==
    ASSUME NEW X, NEW s \in Seq(X), NEW a \in Nat, NEW b \in Nat, NEW cap \in Nat,
           NEW v \in Seq(X), NEW w \in Seq(X), Len(v) <= cap, Len(w) <= cap,
           EndOf(v, s, a, b, cap), EndOf(w, s, a, b, cap)
    PROVE  v = w
<1>1. Len(v) = Len(w)
  BY DEF EndOf
<1>2. \A i \in 1..Len(v) : v[i] = w[i]
  BY <1>1 DEF EndOf
<1> QED  BY <1>1, <1>2, SeqEqual

\* The segment itself is one, and so is what LastOf leaves of it.
LEMMA LastOfSegment ==
    ASSUME NEW X, NEW s \in Seq(X), NEW a \in Nat, NEW b \in Nat, a <= b, b <= Len(s),
           NEW cap \in Nat
    PROVE  LET w == LastOf(SubSeq(s, a + 1, b), cap)
           IN  w \in Seq(X) /\ Len(w) <= cap /\ EndOf(w, s, a, b, cap)
<1> DEFINE t == SubSeq(s, a + 1, b)
           w == LastOf(t, cap)
<1>1. t \in Seq(X) /\ Len(t) = b - a /\ Len(t) \in Nat /\ \A i \in 1..(b - a) : t[i] = s[a + i]
  <2>1. \A i \in (a + 1)..b : s[i] \in X
    OBVIOUS
  <2>2. /\ t \in Seq(X)
        /\ Len(t) = IF a + 1 <= b THEN b - (a + 1) + 1 ELSE 0
        /\ \A i \in 1..(b - (a + 1) + 1) : t[i] = s[(a + 1) + i - 1]
    BY <2>1, SubSeqProperties
  <2> HIDE DEF t
  <2>3. Len(t) = b - a /\ Len(t) \in Nat /\ b - (a + 1) + 1 = b - a
    BY <2>2
  <2>4. \A i \in 1..(b - a) : (a + 1) + i - 1 = a + i
    OBVIOUS
  <2> QED  BY <2>2, <2>3, <2>4
<1> HIDE DEF t
<1>2. /\ w \in Seq(X) /\ Len(w) = IF Len(t) <= cap THEN Len(t) ELSE cap
      /\ \A i \in 1..Len(w) : w[i] = t[Len(t) - Len(w) + i]
  BY <1>1, LastOfIs, Zenon
<1> HIDE DEF w
<1>3. Len(w) <= cap /\ Len(w) <= b - a /\ (Len(w) = b - a \/ cap <= Len(w)) /\ Len(w) \in Nat
  BY <1>1, <1>2
<1>4. ASSUME NEW i \in 1..Len(w) PROVE w[i] = s[b - Len(w) + i]
  <2>1. /\ Len(t) - Len(w) + i \in 1..(b - a)
        /\ a + (Len(t) - Len(w) + i) = b - Len(w) + i
    BY <1>1, <1>3
  <2> QED  BY <1>1, <1>2, <2>1
<1>5. w \in Seq(X) /\ Len(w) <= cap /\ EndOf(w, s, a, b, cap)
  BY <1>2, <1>3, <1>4 DEF EndOf
<1> QED  BY <1>5 DEF w, t

\* The two caps lose nothing: from the ends of two segments in a row, LastOf makes
\* the end of both.
LEMMA LastOfJoined ==
    ASSUME NEW X, NEW s \in Seq(X), NEW a \in Nat, NEW b \in Nat, NEW c \in Nat,
           a <= b, b <= c, c <= Len(s), NEW cap \in Nat,
           NEW u \in Seq(X), NEW v \in Seq(X),
           EndOf(u, s, a, b, cap), EndOf(v, s, b, c, cap)
    PROVE  LET w == LastOf(u \o v, cap)
           IN  w \in Seq(X) /\ Len(w) <= cap /\ EndOf(w, s, a, c, cap)
<1> DEFINE k == Len(u)
           m == Len(v)
           t == u \o v
           w == LastOf(t, cap)
           l == Len(w)
<1>1. /\ t \in Seq(X) /\ Len(t) = k + m /\ k \in Nat /\ m \in Nat
      /\ \A i \in 1..(k + m) : t[i] = IF i <= k THEN u[i] ELSE v[i - k]
  BY ConcatProperties
<1> HIDE DEF t
<1>2. /\ w \in Seq(X) /\ l = IF k + m <= cap THEN k + m ELSE cap
      /\ \A i \in 1..l : w[i] = t[k + m - l + i]
  <2>1. /\ w \in Seq(X) /\ l = IF Len(t) <= cap THEN Len(t) ELSE cap
        /\ \A i \in 1..l : w[i] = t[Len(t) - l + i]
    BY <1>1, LastOfIs, Zenon
  <2> HIDE DEF w, l, k, m
  <2>2. Len(t) = k + m
    BY <1>1
  <2>3. l = IF k + m <= cap THEN k + m ELSE cap
    BY <2>1, <2>2
  <2>4. ASSUME NEW i \in 1..l PROVE w[i] = t[k + m - l + i]
    <3>1. w[i] = t[Len(t) - l + i]
      BY <2>1
    <3>2. Len(t) - l + i = k + m - l + i
      BY <1>1, <2>2, <2>3
    <3> QED  BY <3>1, <3>2
  <2> QED  BY <2>1, <2>3, <2>4
<1> HIDE DEF w
<1>3. /\ k <= b - a /\ (k = b - a \/ cap <= k)
      /\ m <= c - b /\ (m = c - b \/ cap <= m)
      /\ \A i \in 1..k : u[i] = s[b - k + i]
      /\ \A i \in 1..m : v[i] = s[c - m + i]
  BY DEF EndOf
<1> HIDE DEF k, m, l
<1>4. l \in Nat /\ l <= cap /\ l <= c - a /\ (l = c - a \/ cap <= l)
  BY <1>1, <1>2, <1>3
<1>5. ASSUME NEW i \in 1..l PROVE w[i] = s[c - l + i]
  <2> DEFINE p == k + m - l + i
  <2>1. p \in 1..(k + m) /\ w[i] = t[p]
    BY <1>1, <1>2, <1>4
  <2>2. CASE p <= k
    <3>1. p \in 1..k /\ m < l
      BY <1>1, <1>4, <2>1, <2>2
    <3>2. m = c - b
      BY <1>1, <1>3, <1>4, <3>1
    <3>3. b - k + p = c - l + i
      BY <1>1, <1>4, <3>2
    <3> HIDE DEF p
    <3>4. w[i] = u[p]
      BY <1>1, <2>1, <2>2
    <3>5. u[p] = s[b - k + p]
      BY <1>3, <3>1
    <3> QED  BY <3>3, <3>4, <3>5
  <2>3. CASE ~(p <= k)
    <3>1. p - k \in 1..m /\ c - m + (p - k) = c - l + i
      BY <1>1, <1>4, <2>1, <2>3
    <3> QED  BY <1>1, <1>3, <2>1, <2>3, <3>1
  <2> QED  BY <2>2, <2>3
<1>6. w \in Seq(X) /\ Len(w) <= cap /\ EndOf(w, s, a, c, cap)
  BY <1>2, <1>4, <1>5 DEF EndOf, l
<1> QED  BY <1>6 DEF w, t

-----------------------------------------------------------------------------
(* The page. *)

\* A line, of whatever place: the bounds of the model are not needed.
Whats == {"text", "closed", "error"}
Entry == [from : Sockets, what : Whats, n : Nat]

\* LogIsRoom, SwitchIsQuiet, and the types they need; a socket is there from the first Connect.
PageInv ==
    /\ conn \in Sockets \cup {0}
    /\ ready \in {"connecting", "open"} => conn \in Sockets
    /\ errors \subseteq Sockets /\ leaving \subseteq Sockets
    /\ said \in Seq(Entry) /\ log \in Seq(Entry) /\ pending \in Seq(Entry)
    /\ shown \in 0..Len(said)
    /\ Len(log) <= MaxLogLines /\ EndOf(log, said, 0, shown, MaxLogLines)
    /\ Len(pending) <= MaxLogLines /\ EndOf(pending, said, shown, Len(said), MaxLogLines)
    /\ \A i \in 1..Len(said) : said[i].from = conn \/ said[i].what = "error"
    /\ roster \in {0, conn}

\* It says what LogIsRoom and SwitchIsQuiet say: an end of a segment is what LastOf leaves of it.
LEMMA PageInvMeans == PageInv => LogIsRoom /\ SwitchIsQuiet
<1> SUFFICES ASSUME PageInv PROVE LogIsRoom /\ SwitchIsQuiet
  OBVIOUS
<1>1. /\ said \in Seq(Entry) /\ Len(said) \in Nat /\ shown \in Nat /\ shown <= Len(said)
      /\ 0 <= shown /\ MaxLogLines \in Nat /\ DOMAIN said = 1..Len(said) /\ 0 + 1 = 1
  BY PageAssumption DEF PageInv
<1>2. log = LastOf(SubSeq(said, 1, shown), MaxLogLines)
  <2> DEFINE w == LastOf(SubSeq(said, 0 + 1, shown), MaxLogLines)
  <2>1. w \in Seq(Entry) /\ Len(w) <= MaxLogLines /\ EndOf(w, said, 0, shown, MaxLogLines)
    BY <1>1, LastOfSegment
  <2> HIDE DEF w
  <2>2. log = w
    BY <1>1, <2>1, LastUnique DEF PageInv
  <2> QED  BY <2>2 DEF w
<1>3. pending = LastOf(SubSeq(said, shown + 1, Len(said)), MaxLogLines)
  <2> DEFINE w == LastOf(SubSeq(said, shown + 1, Len(said)), MaxLogLines)
  <2>1. w \in Seq(Entry) /\ Len(w) <= MaxLogLines /\ EndOf(w, said, shown, Len(said), MaxLogLines)
    <3>1. Len(said) <= Len(said)
      BY <1>1
    <3> QED  BY <1>1, <3>1, LastOfSegment, Zenon
  <2> HIDE DEF w
  <2>2. pending = w
    BY <1>1, <2>1, LastUnique DEF PageInv
  <2> QED  BY <2>2 DEF w
<1> QED  BY <1>1, <1>2, <1>3 DEF PageInv, LogIsRoom, SwitchIsQuiet

\* An end of a segment stays one as the sequence grows.
LEMMA EndOfGrows ==
    ASSUME NEW X, NEW s \in Seq(X), NEW t \in Seq(X), NEW a \in Nat, NEW b \in Nat, b <= Len(s),
           NEW cap \in Nat, NEW w \in Seq(X), EndOf(w, s, a, b, cap),
           \A i \in 1..Len(s) : t[i] = s[i]
    PROVE  EndOf(w, t, a, b, cap)
<1>1. \A i \in 1..Len(w) : b - Len(w) + i \in 1..Len(s)
  BY DEF EndOf
<1> QED  BY <1>1 DEF EndOf

\* appendLog keeps the invariant: the lines are of the present socket, or errors.
LEMMA AppendKeeps ==
    ASSUME PageInv, NEW from \in Sockets, NEW m \in Nat, NEW whats \in [1..m -> Whats],
           AppendLog(from, whats), UNCHANGED <<conn, log, roster, shown>>,
           ready' \in {"connecting", "open"} => ready' = ready,
           errors' \subseteq errors, leaving' = leaving,
           from = conn \/ \A i \in 1..m : whats[i] = "error"
    PROVE  PageInv'
<1> DEFINE lines == [i \in 1..m |-> [from |-> from, what |-> whats[i], n |-> Len(said) + i]]
           cap == MaxLogLines
           l == Len(said)
           w == LastOf(pending \o lines, cap)
           t == said \o lines
<1>1. /\ said \in Seq(Entry) /\ pending \in Seq(Entry) /\ log \in Seq(Entry) /\ l \in Nat
      /\ shown \in Nat /\ shown <= l /\ cap \in Nat
  BY PageAssumption DEF PageInv
<1>2. /\ lines \in Seq(Entry) /\ Len(lines) = m
      /\ \A i \in 1..m : lines[i].from = conn \/ lines[i].what = "error"
  <2>1. \A i \in 1..m : lines[i] \in Entry
    BY <1>1 DEF Entry
  <2> QED  BY <2>1
<1>3. pending' = w /\ said' = t
  <2>1. DOMAIN whats = 1..m
    OBVIOUS
  <2> QED  BY <2>1 DEF AppendLog, Queued
<1> HIDE DEF lines
<1>4. /\ t \in Seq(Entry) /\ Len(t) = l + m
      /\ \A i \in 1..l : t[i] = said[i]
      /\ \A i \in 1..m : t[l + i] = lines[i]
  <2>1. /\ t \in Seq(Entry) /\ Len(t) = l + m
        /\ \A i \in 1..(l + m) : t[i] = IF i <= l THEN said[i] ELSE lines[i - l]
    BY <1>1, <1>2, ConcatProperties
  <2> HIDE DEF t, l
  <2>2. \A i \in 1..l : i \in 1..(l + m) /\ i <= l
    BY <1>1
  <2>3. \A i \in 1..m : l + i \in 1..(l + m) /\ ~(l + i <= l) /\ (l + i) - l = i
    BY <1>1
  <2> QED  BY <2>1, <2>2, <2>3
<1> HIDE DEF t, cap, l
<1>5. EndOf(log, t, 0, shown, cap) /\ EndOf(pending, t, shown, l, cap)
  <2>1. /\ EndOf(log, said, 0, shown, cap) /\ EndOf(pending, said, shown, l, cap)
        /\ 0 \in Nat /\ l <= l
    BY <1>1 DEF PageInv, cap, l
  <2>2. shown <= Len(said) /\ l <= Len(said) /\ \A i \in 1..Len(said) : t[i] = said[i]
    BY <1>1, <1>4, <2>1 DEF l
  <2> QED  BY <1>1, <1>4, <2>1, <2>2, EndOfGrows, Zenon
<1>6. EndOf(lines, t, l, l + m, cap)
  BY <1>1, <1>2, <1>4 DEF EndOf
<1>7. w \in Seq(Entry) /\ Len(w) <= cap /\ EndOf(w, t, shown, l + m, cap)
  <2>1. l + m \in Nat /\ l <= l + m /\ l + m <= Len(t)
    BY <1>1, <1>4
  <2> QED  BY <1>1, <1>2, <1>4, <1>5, <1>6, <2>1, LastOfJoined, Zenon
<1> HIDE DEF w
<1>8. ASSUME NEW i \in 1..(l + m) PROVE t[i].from = conn \/ t[i].what = "error"
  <2>1. CASE i \in 1..l
    BY <1>4, <2>1 DEF PageInv, l
  <2>2. CASE i > l
    <3>1. i - l \in 1..m /\ l + (i - l) = i
      BY <1>1, <2>2
    <3> QED  BY <1>2, <1>4, <3>1
  <2> QED  BY <1>1, <2>1, <2>2
<1> QED  BY <1>1, <1>3, <1>4, <1>5, <1>7, <1>8 DEF PageInv, cap

\* flushLog deals with what waits.
LEMMA FrameKeeps == ASSUME PageInv, Frame PROVE PageInv'
<1> DEFINE cap == MaxLogLines
           w == LastOf(log \o pending, cap)
<1>1. /\ said \in Seq(Entry) /\ pending \in Seq(Entry) /\ log \in Seq(Entry) /\ Len(said) \in Nat
      /\ shown \in Nat /\ shown <= Len(said) /\ 0 <= shown /\ cap \in Nat
  BY PageAssumption DEF PageInv
<1>2. log' = w /\ pending' = <<>> /\ shown' = Len(said)
      /\ UNCHANGED <<conn, ready, errors, leaving, roster, said>>
  BY DEF Frame, Flush
<1>3. w \in Seq(Entry) /\ Len(w) <= cap /\ EndOf(w, said, 0, Len(said), cap)
  <2>1. EndOf(log, said, 0, shown, cap) /\ EndOf(pending, said, shown, Len(said), cap)
    BY DEF PageInv
  <2> HIDE DEF cap
  <2> QED  BY <1>1, <2>1, LastOfJoined
<1> HIDE DEF w
<1>4. <<>> \in Seq(Entry) /\ Len(<<>>) <= cap /\ EndOf(<<>>, said, Len(said), Len(said), cap)
  BY <1>1 DEF EndOf
<1> QED  BY <1>1, <1>2, <1>3, <1>4 DEF PageInv

\* Every step keeps it.
LEMMA PageNext == PageInv /\ [Next]_vars => PageInv'
<1> SUFFICES ASSUME PageInv, [Next]_vars PROVE PageInv'
  OBVIOUS
<1>1. ASSUME UNCHANGED <<conn, log, pending, said, shown>>, roster' \in {roster, conn},
             errors' = errors, leaving' \subseteq leaving, ready' \in {"connecting", "open"} => ready \in {"connecting", "open"}
      PROVE  PageInv'
  BY <1>1 DEF PageInv
<1>2. CASE Connect
  <2>1. /\ conn' \in Sockets /\ errors' \subseteq Sockets /\ leaving' \subseteq Sockets
        /\ roster' = 0
        /\ log' = <<>> /\ pending' = <<>> /\ said' = <<>> /\ shown' = 0
    <3>1. conn' \in Sockets
      BY <1>2, PageAssumption DEF Connect, PageInv, Sockets
    <3> QED  BY <1>2, <3>1 DEF Connect, PageInv
  <2>2. <<>> \in Seq(Entry) /\ Len(<<>>) = 0 /\ MaxLogLines \in Nat
    BY PageAssumption
  <2>3. EndOf(<<>>, <<>>, 0, 0, MaxLogLines)
    BY <2>2 DEF EndOf
  <2> QED  BY <2>1, <2>2, <2>3 DEF PageInv
<1>3. CASE Message
  <2>1. conn \in Sockets /\ <<"text">> \in [1..1 -> Whats]
    BY <1>3 DEF Message, PageInv, Whats
  <2> QED  BY <1>3, <2>1, AppendKeeps DEF Message
<1>4. CASE Drop
  <2>1. /\ conn \in Sockets
        /\ <<"error", "closed">> \in [1..2 -> Whats] /\ <<"closed">> \in [1..1 -> Whats]
    BY <1>4 DEF Drop, PageInv, Whats
  <2> QED  BY <1>4, <2>1, AppendKeeps DEF Drop
<1>5. ASSUME NEW c \in Sockets, LateError(c) PROVE PageInv'
  <2>1. <<"error">> \in [1..1 -> Whats] /\ \A i \in 1..1 : <<"error">>[i] = "error"
    BY DEF Whats
  <2> QED  BY <1>5, <2>1, AppendKeeps DEF LateError, Reported, Detached
<1>6. ASSUME NEW c \in Sockets, LateClose(c) PROVE PageInv'
  BY <1>1, <1>6 DEF LateClose, Reported, Detached
<1>7. CASE Open \/ Roster \/ Visibility \/ UNCHANGED vars
  BY <1>1, <1>7 DEF Open, Roster, Visibility, vars
<1> QED  BY <1>2, <1>3, <1>4, <1>5, <1>6, <1>7, FrameKeeps DEF Next

\* Nothing has been said at the start.
LEMMA PageInit == Init => PageInv
<1> SUFFICES ASSUME Init PROVE PageInv
  OBVIOUS
<1>1. <<>> \in Seq(Entry) /\ Len(<<>>) = 0 /\ MaxLogLines \in Nat
  BY PageAssumption
<1>2. EndOf(<<>>, <<>>, 0, 0, MaxLogLines)
  BY <1>1 DEF EndOf
<1> QED  BY <1>1, <1>2 DEF Init, PageInv

\* LogIsRoom: for any cap and any number of sockets and lines, the log is the tail
\* of what was to be logged in the room that is shown, and what waits is the tail of
\* the rest.
THEOREM LogAlwaysRoom == Spec => []LogIsRoom
BY PageInit, PageNext, PageInvMeans, PTL DEF Spec

\* SwitchIsQuiet: however many sockets are on their way out, in whatever order they
\* fail and close, the log gets nothing of them but errors, the roster nothing.
THEOREM SwitchAlwaysQuiet == Spec => []SwitchIsQuiet
BY PageInit, PageNext, PageInvMeans, PTL DEF Spec

-----------------------------------------------------------------------------
(* The request for a frame. *)

\* flushScheduled says that a frame is asked for, and lines only wait for one.
FrameAsked ==
    /\ scheduled \in BOOLEAN /\ frame = scheduled
    /\ said \in Seq(Entry)
    /\ Len(said) # shown => scheduled

\* appendLog asks for a frame unless one is owed.
LEMMA AppendAsks ==
    ASSUME FrameAsked, NEW from \in Sockets, NEW m \in Nat, NEW whats \in [1..m -> Whats],
           AppendLog(from, whats)
    PROVE  FrameAsked'
<1> DEFINE lines == [i \in 1..m |-> [from |-> from, what |-> whats[i], n |-> Len(said) + i]]
<1>1. scheduled' = TRUE /\ frame' = TRUE
  BY DEF FrameAsked, AppendLog
<1>2. said' = said \o lines
  BY DEF AppendLog
<1>3. said \in Seq(Entry) /\ Len(said) \in Nat
  BY DEF FrameAsked
<1>4. lines \in Seq(Entry)
  <2>1. \A i \in 1..m : lines[i] \in Entry
    BY <1>3 DEF Entry
  <2> QED  BY <2>1
<1> HIDE DEF lines
<1>5. said' \in Seq(Entry)
  BY <1>2, <1>3, <1>4, ConcatProperties
<1> QED  BY <1>1, <1>5 DEF FrameAsked

\* Every step keeps the request: none is dropped by a switch of room, or made twice.
LEMMA AskedNext == PageInv /\ FrameAsked /\ [Next]_vars => FrameAsked'
<1> SUFFICES ASSUME PageInv, FrameAsked, [Next]_vars PROVE FrameAsked'
  OBVIOUS
<1>1. CASE Connect
  <2>1. said' = <<>> /\ shown' = 0 /\ UNCHANGED <<scheduled, frame>>
    BY <1>1 DEF Connect
  <2>2. <<>> \in Seq(Entry) /\ Len(<<>>) = 0
    OBVIOUS
  <2> QED  BY <2>1, <2>2 DEF FrameAsked
<1>2. CASE Message
  <2>1. conn \in Sockets /\ <<"text">> \in [1..1 -> Whats]
    BY <1>2 DEF Message, PageInv, Whats
  <2> QED  BY <1>2, <2>1, AppendAsks DEF Message
<1>3. CASE Drop
  <2>1. /\ conn \in Sockets
        /\ <<"error", "closed">> \in [1..2 -> Whats] /\ <<"closed">> \in [1..1 -> Whats]
    BY <1>3 DEF Drop, PageInv, Whats
  <2> QED  BY <1>3, <2>1, AppendAsks DEF Drop
<1>4. ASSUME NEW c \in Sockets, LateError(c) PROVE FrameAsked'
  <2>1. <<"error">> \in [1..1 -> Whats]
    BY DEF Whats
  <2> QED  BY <1>4, <2>1, AppendAsks DEF LateError, Reported, Detached
<1>5. CASE Frame
  BY <1>5 DEF Frame, Flush, FrameAsked
<1>6. ASSUME NEW c \in Sockets, LateClose(c) PROVE FrameAsked'
  BY <1>6 DEF LateClose, Reported, Detached, FrameAsked
<1>7. CASE Open \/ Roster \/ Visibility \/ UNCHANGED vars
  BY <1>7 DEF Open, Roster, Visibility, vars, FrameAsked
<1> QED  BY <1>1, <1>2, <1>3, <1>4, <1>5, <1>6, <1>7 DEF Next

\* What LineShows rests on: whatever the order of switches, late errors and frames,
\* the browser owes the page a frame as long as there is a line it has not dealt with.
THEOREM FrameAlwaysAsked == Spec => [](shown # Len(said) => frame)
<1>1. Init => PageInv /\ FrameAsked
  <2>1. <<>> \in Seq(Entry) /\ Len(<<>>) = 0
    OBVIOUS
  <2>2. Init => FrameAsked
    BY <2>1 DEF Init, FrameAsked
  <2> QED  BY <2>2, PageInit
<1>2. FrameAsked => (shown # Len(said) => frame)
  BY DEF FrameAsked
<1> QED  BY <1>1, <1>2, PageNext, AskedNext, PTL DEF Spec
=============================================================================
