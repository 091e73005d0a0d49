# shmeeload.xyz: models and proofs

The repository is a personal site: one Go process that serves static pages and a
chat, collects reports from the boxes of a homelab and raises alerts about them,
and a few TypeScript programs that run in its pages. This directory holds TLA+
models of its stateful parts, the TLC runs that check them, and proofs of the
properties that matter most.

Paths below are relative to the repository's root.

## The system

| component | state | operations | interacts through |
|---|---|---|---|
| chat hub (`hub.go`) | rooms and their members, each member's send channel | register, unregister, broadcast, quit | three unbuffered channels, a `quit` channel, one buffered channel per client |
| websocket connections (`client.go`) | a connection, its slot, two goroutines | `serveWs`, `readPump`, `writePump` | the hub's channels, the store, the caps |
| connection caps (`ratelimit.go`, `connLimiter`) | slots per address and in total | `acquire`, `release` | called by `serveWs` and `readPump` under a mutex |
| chat history (`chatstore.go`) | one SQLite table | `save`, `recent`, `purgeOlderThan`, `close` | the hub saves, handlers read, the cleanup job purges |
| server lifecycle (`main.go`) | phase of the process | start, drain, `hub.stop`, `store.close`, exit | signals; `http.Server.Shutdown` |
| HTTP rate limit (`ratelimit.go`, `ipRateLimiter`) | a token bucket per address, when it was last seen | `allow`, the middleware, the sweep | a mutex; a background sweeper |
| telemetry (`host.go`, `edge.go`, `valheim.go`) | the last report of each box, of the edge proxy and of the game server | `ingest`, `all`/`get`/`snapshot` | POST endpoints; read by the dashboard and the metrics |
| Pi-hole poller (`pihole.go`) | a session, the last snapshot | `refresh`, `ensureSID`, `getJSON` | a ticker; Pi-hole's API |
| certificate check (`cert.go`) | days left, or unreadable | `refresh`, `days` | a ticker; a TLS dial |
| dashboard (`internal_page.go`) | none | `buildInternalView`: thresholds, staleness, one status for all | reads the stores and probes |
| alerter (`alert.go`) | the status announced, a candidate, the time of the last post | `step`, `postDiscord`, `runAlerter` | a ticker; the dashboard's roll-up; a webhook that may fail |
| metrics (`metrics.go`) | a SQLite table of samples | `record`, `recent`, `purgeOlderThan` | a ticker; the stores |
| certificate and counter files (`tls.go`, `visits.go`) | files | `ensureCert`, `Inc` | the file system, across restarts |
| static site (`staticsite.go`, `embed.go`), image generator (`cmd/genimg`) | none after the start; generated files | content negotiation; variants | request headers; files |
| middleware, tunes, donate, configuration, logging, ACME | none | per request, or once | |
| chat page (`web_res/src/chat.ts`) | a socket, a queue of lines, a roster | switch room, `/nick`, flush | websocket callbacks, animation frames |
| player (`web_res/src/playerstate.ts`, `miniplayer.ts`, `tunes.ts`) | the track and its position, in `localStorage` | load, save, hand over | page loads and unloads |
| deployment (`Dockerfile`, `deploy/`) | a cache of encodings between image builds | copy the cache into the tree, generate, save, embed | runs the image generator and `go build` |
| page decoration | presentation | | |

What makes each of them hard, and what must hold:

- **Chat.** Three goroutines per connection, the hub, the shutdown and the
  retention job interleave; a send channel is closed by three different arms of
  the hub; slots are taken by one goroutine and given back by another; history
  comes from the table and live messages from the hub. The hub must not panic,
  slots must balance, a client must see its room's messages in order, once and
  without a gap for as long as it is registered, rosters must neither omit a member
  nor keep one that has left, and every connection must end.
- **HTTP rate limit.** Idle addresses are forgotten by a sweeper that reads the
  clock before it takes the mutex. Forgetting must be unobservable, and certain.
- **Homelab watch.** Reports stop coming, probes cannot be read, statuses flap,
  posts are lost, the process restarts and forgets. Health must never be inferred
  from old news; what lasts must be announced, what does not must not.
- **Pi-hole session.** Sessions expire or are ended under the poller, answers are
  lost, seats for sessions are few and nobody closes a session. A poll must cost no
  more than it needs, publish only what it has read, and recover.
- **Files.** The certificate and its key are two writes, the counter is a write and
  a rename, nothing is synced. Whatever ends the process between two steps, a
  certificate that was trusted must stay, the counter must not fall, and the server
  must come up again.
- **Telemetry and metrics.** Fifteen kinds of readings, each with thresholds, fields
  that may be zero, unknown or gone, and an order in which they are looked at; a
  sampler that does not ask how old a report is, and a history that outlives the
  process. Worse must not be graded better; the history must be complete for as
  long as it is shown; a flat line must be explained.
- **Static site and images.** Encodings are made by one build and taken over by
  later ones because of their time, in a tree or through a cache that is copied file
  by file with failures dropped; the site chooses among them by request header;
  a browser keeps what it got across deployments. What is shown must be the
  picture's own, acceptable and current.
- **Chat page.** Callbacks of replaced sockets, a queue that is capped and a frame
  that may never come. The log must be the tail of the present room.

`PROJECT.json` lists the hazards one by one, each at its line, with the properties
that watch it or the reason why none does.

## Modules

```
ConnLimiter   ChatStore          TokenBuckets         Alerter
      \         /                     |                  |
        ChatHub  --- RoomFeed     IPLimiter         HomelabWatch
        /     \                    /     \            /      \
MCChatHub   ChatHubProofs   MCIPLimiter IPLimiter  MCHomelab  HomelabWatch
                                        Proofs     Watch      Proofs

Severity                SiteImages
   |                        |
Telemetry               StaticSite            PiholePoller        DurableFiles       ChatPage
   |     \               |      \              |      \            |      \            |      \
MCTele-  Telemetry   MCStatic-  StaticSite  MCPihole-  Pihole-  MCDurable-  Durable-  MCChat-  ChatPage
metry    Proofs      Site       Proofs      Poller     Poller   Files       Files     Page     Proofs
                                                       Proofs               Proofs
```

An operator whose comment begins with "Mutated" is a plausible bug in the
operator after it. No specification uses it; it shows that the property it is
listed with in `PROJECT.json` can fail.

### ChatHub, with ConnLimiter and ChatStore

`ConnLimiter` and `ChatStore` are the two data structures the chat uses, one
operator per method; each method is atomic in the code (a mutex, a single
database connection). `ChatHub` extends both. Its variables follow the code:

| variable | code |
|---|---|
| `members`, `closed`, `send` | `Hub.rooms`, the closing of `Client.send`, its contents |
| `hub` | whether `Hub.run` loops, has taken the `quit` arm, or has panicked |
| `handler[c]`, `reader[c]`, `writer[c]` | the program counters of `serveWs`, `readPump`, `writePump` |
| `conn[c]` | the websocket: `gone` when the peer is, `closed` after `Close` |
| `perIP`, `total`, `rows` | `connLimiter`'s counters, the `messages` table |
| `phase` | the shutdown goroutine of `run` |
| `dropped` | history: whom a full buffer has thrown out since the last roster of the room |
| `log`, `joinAt`, `replayed`, `seen`, `roster` | history: what was broadcast, and what the peer of each open connection has been shown |

The hub's channels are unbuffered, so a send and the arm of the `select` that
receives it are one action (`Register`, `Say`, `Left`, `Unregister`, ...), enabled
while the hub runs. The arm's fan-out (`FanOut`) is a non-blocking send to each
member, and is part of that action: nobody else fills or closes those channels.
Where the code selects on `quit` too there is a second action (`JoinedQuit`,
`LeftQuit`, `UnregisterQuit`); where it does not (`Register`, `Say`) there is none,
and the goroutine stays where it is. `Connect` joins the history query, its writes
and the start of both pumps: what could come between is a broadcast, which the
query misses and the client, not yet registered, does not get, exactly as when
the broadcast comes before `Register`. A row's body is the number of the message;
text, names as typed and timestamps are left out. A message over a connection's
own rate is dropped by `readPump` and changes nothing.

`RoomFeed` is what the chat promises, with no goroutines, buffers or connections: a
message published to a room reaches every subscriber in that very step, except
subscribers thrown out by it. `ImplementsFeed` maps the subscribers to the
registered clients whose connection is up and what they have to what was written
to them by their pump followed by what is queued.

### IPLimiter

`allow` (with the middleware's answer) is `Serve` or `TurnAway`; the sweeper is
`SweepBegins`, which reads the clock, and `Evict`, which later does the work under
the mutex. A tick is a unit of time; the buckets of `golang.org/x/time/rate` are
modelled from their use, in whole tokens. The one fact about the constants that
matters is an assumption, `Rate * TTL >= Burst`: 50 a second for 10 minutes against
a burst of 100. `Slack` bounds how late the sweeper may be. `TokenBuckets` is the
limiter that never forgets anyone, and `ImplementsBuckets` says that `IPLimiter`
gives every request the same answer.

### Alerter and HomelabWatch

`Alerter` is `alertState.step`, one action for each of its returns (`Adopt`, `Stay`,
`Waver`, `Announce`), with the delivery of a post as a choice. `lastPost` is kept as
the number of observations since, because the clock is only looked at on a tick.
`told` is what the channel saw last; `last` and `held` are the history of the
observations.

`HomelabWatch` puts it on top of the sources. A *pusher* (a box, the edge proxy)
reports when it pleases; the last report and its age are kept, and it goes stale. A
*probe* (Pi-hole, the certificate) is refreshed by the server's own ticker, and
turns into `down` when it cannot be read. Of a report only its worst finding
matters to the status, so a report is `ok`, `warn` or `bad`: the thresholds behind
those words (`diskSev`, `driveSev`, ...) are in `Severity`. `Status` is the roll-up of
`buildInternalView`: any `bad`, else any `warn` or stale pusher, else `ok`; a pusher
that never reported to this process does not appear. `Readings` keeps the one gap
the code chose to have: `fetch` ignores the failure of the request for Pi-hole's
blocking state, so disabled blocking may read as `ok`; the poll, one step here, is
taken apart in `PiholePoller`. `Restart` empties the stores,
resets the probes and starts a fresh alerter. The homelab itself (`Change`) and the
clock (`Tick`, in minutes) are the environment.

### PiholePoller

A poll is the four requests of `fetch` in their order (`request`), and within each
the steps of `getJSON` (`stage`): take or make a session (`Granted`, `GrantLost`,
`Refused`), ask (`Served`, `Unauthorized`, `Unanswered`), and once more with a forced
session after a 401. `sid`, `left` and `snap` are the fields of `piholeClient`; `left`
is a tick less than what Pi-hole granted, which is the minute by which the code
renews early. Pi-hole is external and modelled as the code meets it: a table of
seats (`life`), sessions that last long or hardly at all (`Lasting`), may be extended
by use or not, and may be ended at any time (`Revoke`); answers that are lost after
the session was made. `strays` names the sessions that were no use to this process:
too brief, lost on their way, or left by an earlier process. `granted`, `revoked`,
`answered` and `witnessed` are the history of a poll. A tick is the poller's period,
and a poll, bounded by ten seconds, ends within it.

### DurableFiles

Each file has what a process finds in it (`file`) and what the disk would have of it
without power (`disk`). `Start` to `Load` is `initServer` with `ensureCert` and the
opening of the listener, one file operation at a time: opening a PEM file empties it
(`Torn`), writing fills it. `Load` joins two reads, of the counter, while the router is
built, and of the pair, when the listener starts: nothing writes either in between. `Inc`, `WriteCount`, `Rename` are `visitCounter.Inc`. The
environment kills the process anywhere (`Kill`), fails any operation (`PEMFails`,
`IncFails`), writes back when it likes (`Flush`), cuts the power (`PowerLoss`: each
file that was not written back is old, new or torn), and deletes a certificate
(`Delete`). `served`, `botched`, `shown` and `forgotten` are history.

### SiteImages and StaticSite

`SiteImages` follows one file from its source to the binary. `Build` is what `run` in
`genimg` does with a file, followed for each encoding by `variant`: `KeepOld`, or
`Encode` and `Write`. Of the files' times the model keeps the one comparison that
`upToDate` makes (`fresh`). A tree built in place is changed at once. A tree built in a
container is filled from a cache (`FillTree`, `Dockerfile:29`), and the encodings are
saved to the cache (`Save`, `Dockerfile:32`) before `go build` embeds them. Both copies go
file by file: any file may be copied, not copied, or copied in part, a part with its
own time or with that of the copy, which `cp -a` sets right only at the end; errors are
dropped in the one and do not stop the other. A build that is broken off while saving
leaves what was copied (`Abort`). The developer edits at any time, also during a build in
place, moves files that keep their own time, cleans, breaks builds off. `doubt` (of the
cache, or the tree in place) and `unsure` (of the tree being built) remember that
something happened which the times do not tell.

`StaticSite` adds `staticSite.serve` and a browser's cache. A request is a set of
encodings its `Accept` names; `Full` is the response without a copy, `Shows` what the
browser may show with one: the copy while it is fresh and its `Vary` allows it, or
after a 304. The cache follows RFC 9111 and is external.

### Severity and Telemetry

`Severity` has each function of the dashboard that grades a reading as an operator of
the same name, and, beside it, what worse means (`Worse`), written without looking at
them: worse in every field, or gone. `Unjudged` lists what the code does not judge.
`Telemetry` is the life of one report: pushes, refusals (`Valid`), staleness, the
sampler and the pruning with their tickers, statements that fail silently (`Sample`,
`Purge`), a database that cannot be opened (`blind`), restarts. Of a row the age is
kept, and whether it is flat, that is, from a report that an earlier row had already
been drawn of. `taken` is every row ever recorded that the window still covers.

### ChatPage

The variables are those of `chat.ts`: the socket in `conn` with its state, the log
element, `pendingLines`, `flushScheduled`, and the frame the browser owes. `errors` are
the replaced sockets whose `onerror` is still attached, `leaving` those that have yet to
close: a socket's `close` event comes whenever its closing handshake is done, and goes to
the handler that is attached then, if any (`Reported`). A socket that is closing delivers
no messages, by the rules of the browser. The events of a websocket are
tasks; so is a frame, which a hidden tab does not get. `said` is every line since the
last switch that was to be logged, `shown` how far frames have come.

## Runs

| run | question | bounds | distinct states |
|---|---|---|---|
| `chat_core` | do slots balance, and are rosters those of the room? | three clients, two of them behind an address with one slot, two slots in all, a buffer of one frame, one message, shutdown left out | 3.6 million |
| `chat_stream` | is each client's conversation ordered and complete, and does the hub implement `RoomFeed`? | two clients, both speak, a store with two rows of history, purges, failing saves and queries, a buffer of two, two messages, shutdown left out | 1.2 million |
| `chat_live` | does the hub ever panic? does everything end that should? | two clients with the same name, one of whose peers never leaves, a buffer of one, one message, with shutdown | 240 thousand |
| `limiter` | is forgetting unobservable, and certain? | two addresses, a rate of 1, a burst of 3, a TTL of 3, a slack of 1, 16 ticks | 13 thousand |
| `alerts` | does the alerter announce what lasts, and only that? | one probe, `alertConfirm` 2, heartbeat every 3 observations, restarts and lost posts | 20 thousand |
| `watch` | does the roll-up ever mistake old news for health? | one pusher (the edge proxy), one probe (the certificate), an observation every 2 minutes, restarts | 870 thousand |
| `pihole` | what does the poller cost, what does it publish, does it recover? | three seats, four names for sessions, sessions of one tick or three, one session ended early in a poll, restarts | 640 thousand |
| `files` | what does the next start find? | six pairs, two visits, kills, failed writes, power cuts and deletions at any step | 420 thousand |
| `site` | is what is embedded the picture's own, and what is shown acceptable and current? | three versions of the file (AVIF pays for one, only WebP for another, the third cannot be decoded), a PNG, a JPEG or a style sheet, built in place or not, three changes of the source, builds and copies broken off anywhere; while a browser keeps a copy, one change, any deployments and requests | 1.6 million |
| `telemetry` | how is a reading graded, what does the history keep, how does a silent box look? | 389 readings, on both sides of every threshold; all periods of one tick, a pruning every 2, a window of 2, a retention of 3 | 1.2 million |
| `page` | is the log the room's? | a log of two lines, three sockets, six lines | 75 thousand |
| `chat_ghost` | **violated**: a client that is gone is in no room | two clients | |

Why the bounds are enough. A buffer of one or two frames instead of 256 fills after
one or two, so the slow-client path is taken in nearly every interleaving; a slot
cap of one makes two clients compete at it; two messages make order and
duplication visible and a page of two rows with purges makes the seam of history
and feed move; `chat_live` gives both clients one name so that the roster's
uniqueness matters. Three clients are where one may be dropped by the roster that
another's unregister causes while a third watches. In `limiter` several sweeps fit
the clock, and three ticks fill a bucket exactly. In `alerts` a status
can hold for one, two or more observations, change its mind in between and outlast
a heartbeat; in `watch` silence outlasts the limit by more than an observation,
which is where the counters stop (`Oldest`, `Overdue`), and no comparison looks
further. `watch` sets `alertConfirm` to 1 because its properties do not depend on
it; `alerts` covers the confirmation. In `pihole` the seats are one more than the
poller ever holds, so a single stray fills them; a session of three ticks is used,
extended, left to lapse and replaced. In `files` the pairs are one more than
the files, the disk and a browser can tell apart, and two visits make an old count
different from none. In `site` the sizes are chosen so that there is a tie with the
source, a tie between the encodings, and an encoding that the next version of the
file does not have; three changes are an edit, one back, and one during a build. A
browser is followed through one change (the constraint `OneChangeBrowsed`): the copy it
has is compared with what is deployed now and with nothing before, and each of the two
is one of two versions, with or without its encodings. In
`telemetry` the counters stop one past the last comparison (`Oldest`, `Silent`). In
`page` six lines overflow the log and the queue twice. `Speakers`, `Steady`,
`MaxMsgs`, `MaxNow`, `MaxRevoked`, `MaxVisits`, `MaxChanges`, `MaxSockets` and `MaxSaid`
bound the model and nothing in the code; the constraint `Serving` leaves the shutdown
to the runs that have it.

### Properties

- `NoPanic`, `SlotsBalanced`, `NothingSkipped`, `StreamOrdered`: see the comments in
  `ChatHub`. `RosterCovers` and `RosterCurrent` are the two directions of a roster: whoever
  is in the room is in the last roster of every member, and whoever is in it is in the
  room or was thrown out for a full buffer since. The code tells nobody of the latter;
  that nobody else leaves unnoticed, and that the next roster puts it right, is what the
  second says. `NothingSkipped` is about the time of a registration:
  between the history query and the registration a message may be missed, which
  the code nowhere excludes and a hazard records.
- `SlotReturned`, `DroppedIsClosed`, `SaidIsBroadcast`, `QueuedIsWritten`: what must happen
  in the end, up to the exit of the process, which may come at any time after the
  shutdown has begun.
- `ImplementsBuckets`, `IdleForgotten`: the two directions of eviction, neither too
  early nor too late.
- `SettledIsPosted` and `NothingHasty`: the two directions of debouncing.
  `SilenceMeansTrouble`: the heartbeat. `LastWordIsRecovery`: why the heartbeat also
  repairs a lost recovery.
- `OkIsRecent` and `SilenceShows`: the two directions of staleness.
- `SeatsBounded`, `SessionReused`: what the poller costs, at any moment and in a poll.
  `SnapshotHonest`: nothing of an earlier poll is published as news. `Recovers`: once
  the faults are over Pi-hole is up for good, even with all seats taken by strays.
- `TrustHolds` and `ComesUp` pull in opposite directions: a certificate that was served
  is kept, and a pair that is none is not. The code keeps whatever two files there
  are, so the second fails where a pair was spoiled; `OnlyBotched` says exactly when
  that can be: the key was being written, or an old key lay beside a new certificate,
  or the power failed. `CountGrows` exempts a failed write and a loss of power, and
  nothing else.
- `VariantsTrue`: the encodings embedded are the picture's own. It exempts a picture
  that cannot be decoded or encoded (`genimg` leaves an older encoding of it where it
  is), and a tree where something has happened that the times do not tell: a source
  replaced by a file that keeps its own time, an edit during a build in place, half an
  encoding left by a write that was broken off, or by a copy from or to the container's
  cache that failed or was broken off, and an encoding that could not be removed. In all
  of them `upToDate` may take the wrong encoding for a good one, until the next edit. That
  it takes nothing else for one, and that the edit repairs it in every build and cache, is
  what the property says.
  `Acceptable` and `ShownIsServed` are the two sides of caching.
- `WorseIsNotBetter` compares two reports in a row, of any kind; it exempts what
  `Unjudged` lists: an unknown number of cores, size, speed or schedule is fine, and a
  drive whose health cannot be read only warns, however hot. `RowsKept`,
  `FlatShows`: the history is complete in its window, and a flat line has its reason
  beside it.
- `LogIsRoom`: whatever was dropped from the queue of a hidden tab would have been
  dropped from the log. `SwitchIsQuiet`: of a replaced socket nothing is logged, however
  late it closes, but the error that the code does not detach.
  `LineShows`: no order of frames and switches loses the request for a frame.

### Fairness

- Chat: weak fairness of every step a goroutine takes without waiting for its
  peer, of the hub's quit arm and of the shutdown's steps. Go schedules runnable
  goroutines, and a `select` with a waiting sender takes it. A read on a connection
  that is gone or closed fails in the end: the read deadline (`pongWait`) sees to
  it. Not assumed: that a peer speaks, reads or leaves, that a signal comes, or that
  the retention job runs. `Steady` names peers that stay, as an assumption on
  the environment, where a property is about them.
- Watch: weak fairness of the clock, of the refresh of a due probe and of a due
  observation, each of which is a ticker's loop with time-outs on everything it
  calls; and that of infinitely many posts that fail, infinitely many others
  arrive. Nothing is assumed of the pushers.
- Pi-hole: weak fairness of the ticker and of the steps of a poll, each of which the
  poll's deadline ends. That the faults end is the premise of `Recovers`, not a
  fairness condition.
- Files: weak fairness of the start and of its steps: the container is restarted
  whenever it exits, and a process goes on. That the faults end is the premise of
  `ComesUp`.
- Page: strong fairness of the frame, because a tab may be hidden and shown again
  without end; that it is shown again and again is the premise of `LineShows`.

## Proofs

All theorems hold for every value of the constants that satisfies the named
assumptions: `CapsAssumption`, `HistoryAssumption`, `ChatAssumption`, `LimitAssumption`,
`AlertAssumption`, `WatchAssumption`, `PiholeAssumption`, `FilesAssumption`,
`ImagesAssumption`, `SiteAssumption`, `TelemetryAssumption`, `PageAssumption`.

**ChatHubProofs.** `TypeCorrect` needs more than types: that the messages read and
broadcast stay within the model's bound (`WithinBound`), that only a client of a
curated room gets past the checks (`Curated`, or `members[RoomOf[c]]` is no set), and
that the pumps run exactly when the handler is past the upgrade (`PumpsStarted`).
`HubNeverPanics` rests on `HInv`: while the hub runs, no member's channel is closed,
each member is in the room it asked for, and a client whose handler has yet to
register it is in no room, so a registration cannot bring a closed channel back.
`SlotsAlwaysBalanced` is inductive with the types, by counting the holders
before and after the steps that take or return a slot.

`PumpsAlwaysServe` is the safety behind two of the liveness properties: a client whose
channel was closed has a `writePump` that has yet to close its connection, unless that
is closed already, and whatever is queued for a peer that stays has a running
`writePump` and an open connection. `PumpInv` says of each client why: its `writePump`
ends only with the connection, and the connection of a peer that stays ends only by the
close frame, which is written after the hub has closed the channel and when the buffer
is empty; nor does its `readPump` leave before that. That the pump is scheduled at all
is the part TLC checks.

`NothingEverSkipped`, and `RosterNeverShort` with `RosterAlwaysCurrent` (`RosterTrue` is both),
are inductive together with the invariants above; the work is in what a fan-out does to the queues of the audience,
and in the last roster of a queue being written.

`StreamAlwaysOrdered` says that what a client was shown from the store, what it was
shown live and what waits for it are, one after the other, its room's messages in
rising order. That is not inductive: it says nothing of the table, from which the
next newcomer is shown something, nor of a client that is not there yet. `StreamInv`
adds that the rows are messages of the log, in its order and under its rooms
(`RowsInOrder`), that nothing was replayed to a connection before it is made, and
that nothing was shown or queued before its registration (`Stream`). Then a message
that is being broadcast is larger than anything the client has, and the history is
read when it has nothing else. The proof does not go through the actions one by one:
every step does one of five things to a client (`Untouched`, `Forgotten`, `Offers`,
`Takes`, `Starts`), which `StreamNext` reads off the actions, and `StreamStep` shows
that each of the five keeps it.

What waits is a filter of a queue (`Kept`, a recursive function), so this needs
induction over sequences. The library's induction theorems cannot be instantiated,
but well-foundedness of the naturals can be cited about a *set* of numbers: a least
number outside it (`Induction`). From that follows what `Kept` does to an append, a
concatenation and a tail (`KeptAppend`, `KeptCat`, `KeptTail`), and that what is kept
stands in its order in what it was kept of, and leaves nothing out (`KeptFrom`). The
same lemma gives `HistoryAlwaysLatest`: whatever saves failed and whatever was purged,
the query, which reads backwards from the newest row and is turned around, returns
the room's latest messages in their order. `AtEnd`, `Cat` and `Just` are names for
appending, concatenating and a sequence of one, which keep the provers from
rewriting them element by element.

`HubImplementsFeed` is the refinement: initial states map to initial states, and every
step of `ChatHub` to `Publish` or to `Change`, which may change nothing. What a
subscriber has is what it was shown live followed by what waits (`Got`), so a write
moves a message from one to the other and changes nothing (`GotWritten`); the fan-out
of a message maps to `Publish`; a registration, a departure, and the clients that a
roster throws out map to `Change`.

**IPLimiterProofs.** `LimiterTypeCorrect`, `IdleAlwaysForgotten` and the refinement
`ForgettingNeverShows`. The invariant says how far the sweeper may lag behind its
ticker (`Punctual`), how old an entry can be between sweeps and during one
(`Recently`), and that a bucket has gained its rate for every tick of idleness or is
full (`FillsWhenIdle`); with the assumption on the constants an evicted bucket is then
full, which is what a missing entry stands for.

**HomelabWatchProofs.** `SettledIsAnnounced`, `NeverHasty` and `HeartbeatKept` from
`Debounced`: the candidate and its count are what was observed last and how often,
unless that is what was announced. `OkRestsOnRecentNews` and `SilenceIsNoticed` from
three facts about the sources: probes are polled in time (`Polled`), a source heard
to be well was well when it was heard (`WellWhenHeard`), and the last observation of
`ok` overlooked no stale report (`Noticed`). `WatchTypeCorrect` comes with them.

**PiholePollerProofs.** `SeatsAlwaysBounded` from `TwoHeld`: what the poller holds is the
session in use and the one before it, which lapses no later than the poller gives
up the one in use; that is what the minute's margin buys. `SessionAlwaysReused` from
`OneToSpare`: the one session a poll has taken beyond those that were ended under it
is still in use. `SnapshotAlwaysHonest` from `ReadInOrder`.

**DurableFilesProofs.** The invariant says how far the making of a pair has got and
what is in the files then (`PairFits`), that a trusted certificate has its key beside
it and is not being replaced (`Trusted`), and how the count in memory, in the file
and on the screen compare (`CountFits`). `TrustAlwaysHolds`, `OnlyBotchedPairs` and
`CountAlwaysGrows` follow. That there is always a pair not yet in use (`FreshType`) is
a counting argument, and the reason for the number in the assumption.

**StaticSiteProofs.** `EmbeddedIsOwn` from `FilesTrue`, what is fresh is the source's own
unless there is `doubt`, or, in the tree being built, unless it is `unsure`, and `BuildTrue`, what a build has found out so far: what it
decoded is the source, the size to beat is at most the source's, and an encoding it
is done with is the source's own unless the source cannot be encoded. `ShowsAcceptable`
and `ShowsServed` from `CopyTrue`: only text is compressed, and always the same way,
so an ETag that is equal means a body that is.

**TelemetryProofs.** `GradesFollow` holds for all integers in all fields: one lemma per
kind of reading, the shares of a total by a lemma on quotients. It needs of the
state only that a report was valid when it was taken. `HistoryKept` is inductive with
the types and `SeriesOnly`, which keeps the rows to the kinds that have any;
`FlatIsExplained` from `FlatSince`, and from `HostStaleAfter <= SampleEvery`, which is an
assumption: both are five minutes in the code.

**ChatPageProofs.** `LogAlwaysRoom`: the log and the queue are each the end of a
segment of what was said, of at least the cap's length unless they are all of it
(`EndOf`). Cutting their concatenation to the cap again gives such an end of both
segments (`LastOfJoined`), which is why the two caps lose nothing; and two ends of
the same segment, neither longer than the cap, are equal (`LastUnique`), which turns
`EndOf` back into `LogIsRoom`. `SwitchAlwaysQuiet`: a replaced socket keeps one handler,
whose events can only log an error. `FrameAlwaysAsked` is the safety behind `LineShows`: as
long as a line waits, the browser owes the page a frame.

**Only model-checked.** Liveness and everything under fairness: `SlotReturned`,
`QueuedIsWritten`, `DroppedIsClosed`, `SaidIsBroadcast`, `LastWordIsRecovery`, `Recovers`,
`ComesUp`, `LineShows`. The prover has no rule for fairness and ENABLED here. Every
other property of a passing run is a theorem. Type correctness is a theorem of every
component but the page, whose proof carries the types it needs; the runs repeat it where
a type says more than a shape, as that a bucket is never above full.

## What the code does otherwise

`serveWs` starts `readPump` before it registers the client (`client.go:271`). A read
that fails at once unregisters first, and the late registration leaves a finished
connection in the room until the hub finds its buffer full. The run `chat_ghost`
shows it.

Behaviour that the models show, and which, but for one, no comment or test excludes:

- a member dropped for being slow leaves no new roster behind (`hub.go:91`), and its
  own unregister is then ignored;
- nothing waits for what `hub.stop` sets in motion (`main.go:537`), so the process may
  exit before a close frame is written;
- a message that is broadcast between the history query of a newcomer and its
  registration reaches it by neither way (`client.go:272`);
- the confirmation starts again whenever the candidate changes (`alert.go:63`), so a
  problem that alternates between `warn` and `bad` at every observation is never
  announced;
- after a restart a box that has stopped reporting is not stale but absent
  (`host.go:193`), and the first observation is `ok`;
- a pair that was spoiled is never repaired by a start (`tls.go:23`);
- an encoding left by an interrupted write, or older than a source that kept its own
  time, stays until the source is edited (`cmd/genimg/main.go:181`);
- `variant` returns for a picture that it cannot decode or encode before it comes to
  removing a stale encoding (`cmd/genimg/main.go:132-141`), so that of an earlier picture
  may be embedded beside a smaller file, which the comment at line 122 rules out
  (`VariantsTrue` exempts such pictures);
- half an encoding left in the container's cache by a build that was stopped while it
  saved, or in the tree by a copy that failed unheard, is newer than its source and is
  embedded by this build or the next (`Dockerfile:29-32`);
- `onerror` of a replaced socket still writes into the new room's log
  (`web_res/src/chat.ts:123`).

## Not modelled

- The routing table, the listeners and HTTP/3: the work of `net/http` and `quic-go`.
  Middleware, the tunes and donate endpoints, configuration, logging and ACME keep
  no state; the page decoration is presentation. Of the deployment files only the cache
  of encodings has state; two image builds that share it at the same time, and a tree
  built in place that is then the context of a container's build, are left out.
- `sanitizeName`, `chatLine`, `clientIP`, `sameOriginCheck`, the comparison of tokens, the
  templates of the dashboard and the page's forms: formatting and predicates
  without state.
- The Valheim report: stored and displayed, it takes no part in the status.
- The player's state: a few values in `localStorage`, last writer wins; the code
  promises nothing about two tabs.
- Refinements of detail: quality values in request headers, which `parseList` and
  `bestImage` ignore; the one ETag that all compressions of a text share; minifying; a
  pair made for other host names, which is kept like any other; several boxes and
  several readings in one report, whose grades are folded into the worst one; the
  roll-up's reading of its sources one after the other, each under its own lock
  (`main.go:268`), which no property here could tell from reading them at once.
