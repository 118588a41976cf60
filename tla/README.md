# A formal model of den-remux

TLA+ modules for den-remux, the service that turns a release behind a link into an HLS session by
running ffmpeg on demand; TLC runs over small instances; and proofs, checked by TLAPS, for every
value of the constants. Paths and lines are of this repository.

The server runs on one thread (`main.rs` builds tokio's `current_thread` runtime): code between two
`await`s is one atomic step, and every `await` is a place where any other step may come first. It is
also a place where a request may be cancelled, since hyper drops the handler of a connection that
closes. The models are cut exactly there. Only `spawn_blocking` (the cache writers, the files of a
segment) runs beside that thread.

## The system's parts

| Part | State | Operations | What is hard | What makes it correct | Modules |
|---|---|---|---|---|---|
| Admission (`state.rs`, `main.rs`, `session.rs`) | sessions, reservations, replacements, tombstones, each session's times | `reserve`, `Slot::drop`, `insert_session`, `replacement_started`, `replacement_played`, `end_session`, `end_owner`, `supervise`, `touch`, `heartbeat` | requests cancelled half-way, a grace timer, several maps that must agree, a deadline that moves both ways | shares and the box's size hold; what is evicted ends; a replacement settles and just one of its two goes; silence ends a session on time; who held its URL is told | `Admission`, `Lifetime` |
| Producers (`state.rs`, `session.rs`, `job.rs`) | two semaphores, each session's run | `acquire_producer`, `try_acquire_producer_slot`, `start_producer`, `reap_for_contention`, `gate`, `supervise`, `Job::{pause, resume, stop, drop}` | queues of two resources, cancelled waiters, a victim chosen before its lock is taken | permits conserved; no waiter forgotten, none waits for another that waits for it; a watched session keeps its run | `Producers` |
| GOP window (`session.rs`, `job.rs`) | `Inner`: the GOPs on disk, the run, what is wanted | `refresh`, `ready_chain`, `heads_for`, `gate`, `prune`, `serve_segment`, `ensure_job`, `end` | several runs' GOPs over one film, requests that prune under each other, ffmpeg going on meanwhile | the scratch count is exact; what a waiter needs is not deleted; a request is answered | `GopWindow` |
| Scan queue (`segments.rs`) | queue, installs, daily budget, fingerprints | `enqueue`, `next`, `worker`, `scan`, `save` | a result read before an episode is queued, a budget spent half-way through a pair, a sibling held by hand, writes that fail, restarts | nothing found is lost; no episode is left queued or running | `ScanQueue` |
| Opening a release (`session.rs`, `scout.rs`, `client.rs`) | memories of links, facts and verdicts | `create`'s walk, `open`, `pick_audio`, `need`, `prebuffer`, the list of releases | opens that answer in any order, late or never; which failure is remembered; four fallbacks | the best of what was looked at plays; a passing failure condemns nothing that can be told from a file; the list says what the pick does | `Picking`, `Capability`, `Playlist` |
| Playlist (`playlist.rs`) | none | `segments`, `segments_for_start`, `segment_bytes`, the rates | boundaries | segments tile the film at its keyframes; a player on a copy never runs dry | `Playlist` |
| Subtitles (`subs.rs`, `session.rs`) | den-subtitles' list, documents, one lock each | `plan`, `den_best`, `subtitle`, `subtitle_playlist`, `list_subtitles` | concurrent requests for what costs a quota, failures that may not stick | what is promised can be shown; one download; a blip heals | `Subtitles` |
| Caches (`state.rs`) | verdicts and probe results, in memory and on disk | get, put, load, the spawned writers | writers in any order, failures, a stop between write and rename | the file is whole and never goes back; nothing is left out | `VerdictStore`, `DurableCache` |
| Door (`source.rs`) | the head in memory, the upstream, a short queue | a read's ranges, `Pull`, `set_upstream` | a host that answers wrongly, a reader that leaves | exactly the file's bytes; each counted once; bounded reading ahead | `Door` |
| Probing (`probe/`) | none | `mkv::probe`, `mp4::probe`, the audits of clusters | indexes that lead elsewhere or in circles, reads that fail, tables walked apart | keyframes and their bytes are the file's; what is claimed was seen | `Probe`, `SampleTables` |
| Matching (`segments.rs`) | none | alignment of fingerprints | boundaries | symmetric, within the two episodes | — |
| Shutdown, health (`main.rs`) | none | `run`, `serve_until`, `end_all` | sessions created meanwhile | nothing runs afterwards | — |
| Authentication, configuration, logs | none | parsers, tables | input form | — | — |

The parts meet in few places. A request opens a release (Picking, which probes it and cuts its playlist),
is admitted (Admission) and gets a session; each segment it asks for is looked up in that
session's window (GopWindow), which, where no run heads for it, asks for a permit (Producers) and starts
one, and ffmpeg reads the release through the session's door (Door); a session's end, whoever causes it
(Lifetime), takes its run with it.

## The modules and how they are composed

1. `Admission`, and `Lifetime` over it: every action of `Lifetime` conjoins one of `Admission` with what it
   does to a session's times, or leaves `Admission` as it is; `LifetimeProofs` proves that it implements it.
2. `Producers`, `GopWindow`: a session's run seen from the semaphores and from its GOPs. In `GopWindow` the
   outcome of a permit is a choice, in `Producers` the segment a run heads for is one.
3. `ScanQueue`: one season.
4. `Picking` over `Capability` (what a player can show, and what is made of it) and `Playlist` (cuts and rates).
5. `Subtitles`, `Door`, `Probe` over `SampleTables`: components that share no state with the others.
6. `VerdictStore`, which implements the abstract `DurableCache`.

`LifetimeProofs` (of `Admission` too), `ProducersProofs`, `GopWindowProofs`, `ScanQueueProofs`, `PickingProofs`, `SubtitlesProofs`,
`VerdictStoreProofs` and `DoorProofs` hold the theorems; each `MC...` module the instances of its component. Operators that a comment calls a mutant or a slip are
small mistakes a change could make to a definition; they are used nowhere, and each property is violated once the
definition they are a variant of is replaced by them.

What a next step would take: the kept cues of a release's own tracks over several runs (`OwnCues`), `serve_init` and
`prepare` in `GopWindow`, `end_all` at shutdown against requests still creating sessions,
`match_episodes` over fingerprints of real length.

## The runs

| Run | Instance | States | Checks |
|---|---|---|---|
| `AdmissionTwo` | two owners, four sessions, room for three | 98,433 | `Capacity`, `ShareHeld`, `ReplacementBacked`, `KeptAtStart`, `OneGivesWay` |
| `Lifetime` | a browser, three sessions in a row, room for two and one tombstone | 47,759 | `InTime`, `GoneIsSaid`, `EvictedEnds`, `ReplacementSettles` |
| `ProducersMixed` | a copy and two transcodes, two slots, one GPU | 306,639 | `PermitsConserved`, `QueuesExact`, `EndedRunsNothing`, `WatchedKeepsProducer` |
| `ProducersLive` | two transcodes, one slot, one GPU | 6,253 | `ExitedSlotReturns`, `StartSettles` |
| `GopWindowPair` | two requests, three segments of 2, 1 and 1 GOPs, two runs that may fail | 257,372 | `BytesExact`, `CurrentRunWhole` |
| `GopWindowLive` | four segments, two runs; one player and failing runs, or two players at the film's two ends | 26,210 | `Answered` |
| `ScanQueueSeason` | three episodes, two days of two scans, a queue of two | 326,088 | `QueueExact`, `FoundIsKept`, `QueuedIsTaken` |
| `Picking` | five releases, five players, fifteen requests, two in a row; one page that poses as a file | 192,555 | `RuledOutForCause`, `TakesTheBest`, `VerdictKept`, `PlaysThrough`, `CutsRight`, `Decides` |
| `Subtitles` | some two thousand films of every pair of own tracks, a dozen with longer lists; two requests, three blips | 14,838 | `PromisedWell`, `FetchedOnce`, `Heals` |
| `Verdicts` | three releases, room for two, four changes, two faults, two ticks | 1,179,843 | `CaughtUp`, `Implements` |
| `Door` | fourteen bytes, one held, ranges of 1, 3 and 7, six kinds of read | 9,238 | `ServedExactly`, `CountedOnce`, `ReadsAhead`, `Ends` |
| `Probe` | some thousands of files, two reads that go wrong | 33,713 | `IndexExact`, `ClosedSeen`, `DolbyVisionSeen`, `NeededReadsOnly` |

`CHECK_DEADLOCK FALSE` where the system rightly stops: session ids, requests, changes and reads run out. The scan
queue has no such line, but can always restart: there it is `QueuedIsTaken` that says its worker is not stuck.

## Admission

`phase` follows a session through `create` ("setup" is a held `Slot`), the sessions map ("published"),
eviction by a reservation ("detached", waiting for the spawned clean-up), `Session::end` ("ending" until
ffmpeg is reaped and the directory gone, "ended" after), or a cancelled handler ("stranded").
`creating` is not a variable: it counts the sessions in "setup". `replacements`, `replaces` and
`graceTimers` are `AppState::replacements`, `Slot::replaces` and the tasks of `replacement_started`.

| Action | Code |
|---|---|
| `Reserve` | `AppState::reserve` up to its await (`state.rs:795-842`) |
| `CleanupNext` | its spawned clean-up, one session at a time (`:843-853`) |
| `Abandon` | `create` fails or is cancelled; `Slot::drop` |
| `Publish` | `insert_session`, `replacement_started`, the slot dropped |
| `EndSession`, `Ended`, `CancelRequest` | `end_session` up to the await in `Session::end`; the await over; the handler dropped in it |
| `Served` | `replacement_played` after a segment is served |
| `GraceOver` | the timer of `replacement_started` |
| `EndOwner`, `EndOwnerNext` | `end_owner`, from the admin's route |

`AdmissionTwo` has two owners with four sessions and room for three, so that a share, the box, and a kept
session compete. Symmetry permutes an owner's session ids, which only their instants tell apart; the run has
no liveness property.

`OneGivesWay` is about a replacement of two published sessions, which its first segment, its timer, an end of either, an
eviction or the admin may settle in any order: the step that settles it takes just one of the two, and a timer that fires
after that takes nothing.

`LifetimeProofs` proves of it, for any owners, shares, session ids and `MAX_SESSIONS`: `TypeOK`,
`ReplacementBacked`, `Capacity`, `ShareHeld`, and the action properties `KeptAtStart` and `OneGivesWay`. The only
assumptions are those `Admission` names (an owner for each session, a share and a size of the box of at
least one: `config.rs` enforces both).

`ShareHeld` is not inductive as it stands. That an owner may be one past its share depends on its replacement
still being under way, so `ReplacementBacked` is needed: a record always names a published old
session, and a new one that is being set up or published with its timer armed. `Capacity` and
`ShareHeld` count sessions, and the set of ids need not be finite; the invariant `Finite` says that those in use
are. `Bounded` is `Finite /\ Capacity /\ ShareHeld`, and the induction is on `TypeOK`, `ReplacementBacked` and
`Bounded` in turn, one step per action; a reservation's step is where a removal of the `excess` oldest and one more
reservation are counted against both limits. `OneGivesWay` rests on `ReplacementBacked`, which has both sessions published while
the record stands, and on `EitherGoes`: the steps that settle a record take one of the two to its end and leave the other.

## Lifetime

What `Admission` leaves to "a session's supervisor ends it" happens here over ticks of a clock. `life` has, of each
published session, the age of what was last heard of it (a request or a heartbeat, whichever is later), which of
the two that was, whether a segment was sent, and how long its supervisor still sleeps; `left` is the time to
`Session::exp`, of the tombstones too. `Patience` is `Inner::idle_deadline`.

| Action | Code |
|---|---|
| `Touch` | `Session::touch`, or a segment's or init file's own, which wakes the supervisor |
| `Heartbeat` | `Session::heartbeat` |
| `Played`, `TakesOverNow` | a segment sent (`session.rs:893-909`), and `replacement_played` after it |
| `Deletes` | DELETE, end, report, and any request past the expiry |
| `Ends`, `Sleeps` | one round of `supervise` |
| `Opens`, `Fails`, `Cleans`, `Settles`, `GivesUp`, `Kills` | `Publish`, `Abandon`, `CleanupNext`, `Ended` or `CancelRequest`, `GraceOver`, `EndOwnerNext` |
| `Tick` | the clock; a supervisor that is due looks within a tick |

`InTime`: no supervisor sleeps past its URL's expiry or the instant its session becomes idle. It could, since a heartbeat brings
that instant nearer than when the sleep began (`SESSION_IDLE_SECS` to `UNATTENDED_IDLE`); what saves it is that the
heartbeat wakes the supervisor. A request after a heartbeat, and a first segment, wake nobody: where `SESSION_IDLE_SECS` is
less than `UNATTENDED_IDLE` they bring the instant nearer too, and what holds then is `UNATTENDED_IDLE` after the session was
last heard of (`Longest`). `GoneIsSaid`: every session that ends leaves a tombstone until its URL expires
(README.md:65, "the session's URLs answer `410` from then on") unless `TOMBSTONES_MAX` others are in force. `EvictedEnds` and `ReplacementSettles` are
`Admission`'s liveness, checked with a browser that starts three sessions in a row, as far as the second replacement.

Fairness: a task that is ready is polled; `create`'s upstream calls and the wait for a killed ffmpeg
have timeouts; a timer fires; the clock goes on. Nothing is assumed of clients: a handler may be dropped in any await.
Session ids are used in their order, which loses nothing, as they are alike.

`LifetimeProofs` proves, for any owners, sessions, idle times and expiries: that `LifeSpec` implements `Admission`'s `Spec`
(so what is proved of `Admission` holds over time), `InTime`, and `GoneIsSaid`. `InTime` speaks of published sessions only;
the induction is on `Timely`, which also says that who is not published has no times, and rests on lemmas about
`Patience` and `Longest`: what a sleep is set to is within them, and only a heartbeat shortens the latter. `GoneIsSaid` needs that no step of
`Admission` takes two sessions to their end at once (`OneRemoved`), so that none finds its place taken.

Nothing is assumed of the two idle times but that they are positive. `config.rs` takes any `SESSION_IDLE_SECS` from 30 s, and
`UNATTENDED_IDLE` is 60 s: between the two, a session is there for longer than `SESSION_IDLE_SECS` without a request.

## Producers

One variable per thing that holds or awaits a permit: `job` (running, paused, or "gone": exited
and not yet polled), `pc` and `prey` of the one `start_producer` a session runs (`producer_gate`), `life`, and the two
semaphores (`slots`, `gpus`) with their queues. A permit is held by a running job, a job
being killed, a reaped victim, an ending session, or a waiter. Tokio's semaphores are external: fair, a waiter at
the head of the queue owns a free permit (`Ready`), `try_acquire` gets only what the queue leaves (`Left`).

`age` is `last_seen.elapsed()` in ticks up to `IdleAfter` (`PRODUCER_IDLE_SECS`) and `WaitMax`
(`SEGMENT_WAIT`). `Tick` waits for no process but for a `start_producer` at its deadline, which the code's `timeout_at`
ends; killing a process takes less than a tick. `WatchedKeepsProducer` holds for `IdleAfter > WaitMax`, which the
code's default (30 s against 20 s) gives and any smaller value, accepted by `config.rs`, does not:
`last_seen` is not refreshed while a request waits in `start_producer`. README.md:419 gives a default of 10 s, which would break it.

`ProducersMixed` (a copy and two transcodes over two slots and a GPU) is the smallest instance in which both queues form and both
resources run out; `ProducersLive` has a slot waiter behind a GPU waiter. Fairness (`Polled`): every session's own steps are
polled, a killed process dies, a permit offered to a waiter is taken.

With deadlines nothing waits for ever, whatever waits on what, so they are no part of the fairness. `StartSettles` has two premises, of
which either must do: that a segment's deadline comes (`Deadlines`), and then runs may go on for ever; or that a run which goes on comes to its film's end
(`RunsEnd`), and then no deadline need come. The second is where a mutual wait would show: the GPU is taken before a slot, and a run that is replaced gives both
back before its session waits for either, so no two sessions hold what the other waits for. Two transcodes over one slot and one GPU
are enough for each to hold one of the two; with a third session the liveness check takes longer than it is worth.

`ProducersProofs` proves, for any sessions and permits, `TypeOK`, `QueuesExact`, `EndedRunsNothing` and
`PermitsConserved`. The last one is a sum over the places a permit can be in, and is proved with the second, since
a waiter that is served must be one that waits. `WatchedKeeps` proves `WatchedKeepsProducer` from the one premise that
`PRODUCER_IDLE_SECS` is more than `SEGMENT_WAIT`: its invariant `Heard` bounds how long ago a session with a request waiting was
last heard of by how long that request has waited, which the segment's deadline bounds.

## GopWindow

A position in the film is a keyframe, a GOP lies between two; `Session::snap` pins every GOP to its keyframe,
so a comparison within `SNAP` is one of keyframes. That is why edges matter: `prune` compares with `SNAP`
slack and keeps a GOP that only touches its window. `i` is `Inner`; `run` is ffmpeg, ahead
of what `refresh` has read; `req` is what each request awaits. Scratch over its cap and the outcome of a permit are choices.

`GopWindowPair` (two requests over three segments, the second too short to seek to) covers pruning and ending under another
request. `GopWindowLive` has a player between the second and the last of four segments, with failing runs: the smallest film
in which a segment's first GOP is pruned and its last kept, where a run that has passed it still counts as heading for it.
`AHEAD_SEGMENTS` and `RESTART_GAP_SEGMENTS` are 1 (4 and 3 in the code): large enough for a run to be ahead, to be paused, and to
be replaced over these films. `MaxJobs` bounds runs; `Answered` exempts only a request that waits for a run past that bound.

`open_parts` runs beside the runtime and opens a segment's files one by one (`OpenNext`), while another request's `prune` deletes
them: what was opened is kept, what was deleted first sends the request back to look again (`LookAgain`). `GopWindowLive` therefore also has two
players of one session at the two ends of the film, so that whatever one is sent lies outside the other's window, and
two runs: the second replaces the first while the first's segment is being opened. There `Answered` says that the one whose file was
deleted gets its segment all the same, or waits for a third run. Which of the two instances it is, `MCPlayers` chooses at the start.

Fairness: strong for ffmpeg, because a pause keeps what it has done and time it is let run adds up, and for `StartProducer`,
as `producer_gate` is a tokio lock, had in the order it is asked for; weak for
the supervisor and for each request's next step. A player may leave at any time and need not ask.

`GopWindowProofs` proves `BytesExact` and `CurrentRunWhole` for any film, cuts, requests, limits and number of runs. Both
follow from `Sound`, which holds of a session and of what `refresh`, `gate` and `prune` make of it (a lemma each), given how far ffmpeg
has written. It adds that runs are numbered, so that a new run owns none of the GOPs there are, and that the current run's
lie before where it has been read to, so that `refresh` counts none twice. `RestartIsNat` says that a seek's keyframe exists.

## ScanQueue

`queue`, `installs`, `running`, `day` and `used` are `segments.rs`'s `Inner`, `wake` the permit of its `Notify`. The
worker is one task, so where it is (`at`) and what it carries (`ep`, `sib`, `found`, `foundSib`) are variables; each
value of `at` is an await. `season` and `stored` are the files, which alone survive `Restart`.

| Action | Code |
|---|---|
| `Ask`, `Enqueue` | `scan_route` up to the read of the stored result, and `Segments::enqueue` after it |
| `NextEpisode`, `Start` | `Segments::next`; the wait for transcodes and `scan`'s first lines |
| `ListEp`, `DecodedEp`, `FailEp` | `fingerprint` of the episode: scout's list and `Segments::spend`, its windows, a failure |
| `ListSib`, `DecodedSib`, `FailSib` | the same for the sibling, between `hold` and `release` |
| `Match`, `SaveEp`, `SaveSib` | `match_episodes` and the season's file; `save` for each of the pair |
| `Transcode`, `NewDay`, `Restart` | around it: producers, the clock, the process |

What two fingerprints match is a choice that keeps what `match_episodes` guarantees: a kind the season lacks is found in
both of a pair or in neither, and then becomes the season's. A release that cannot be opened is tried up to three
times in the code; here the episode's decoding succeeds or fails. A result of an earlier method counts as none, as `current` has
it. Any file may fail to be written (`write_json` logs and goes on).

`ScanQueueSeason` has three episodes of a season (the middle one has a sibling on both sides, the last one's
next is not listed, or its list comes and goes), a queue of two, two days of two scans, one request at a time between
its read and its enqueue: the queue fills, the budget is spent between the halves of a pair, and a day ends with the queue not
empty. `Last`, `Days` and `Requests` are bounds; one kind suffices since `Merge` and `Match` treat kinds apart.

Fairness is of the worker alone: its task is polled, scout's answers have timeouts, `SCAN_TIMEOUT` ends a decoding. No
request need come. `QueuedIsTaken` assumes that transcodes end at some time, since `worker` waits for them without a limit.

`ScanQueueProofs` proves `QueueExact` and `FoundIsKept` for any season, limits and number of requests. The induction needs `Place`:
which of episode and sibling the worker has at each of its awaits, and that they differ, so that releasing the one never
frees the other. That the queue's places hold different episodes is carried as such, and counted only at the end.

## Opening a release: Picking, Capability, Playlist

`pick` is `create` from the moment scout's list has come until its answer is sent: the ranked queue, the opens under
way and their answers, the first that fits, the copies too big for the link, what waits to be converted, and the
errors. `opened`, `known` and `unplayable` are `OpenedCache`, `KnownReleases` and `Unplayable`.

| Action | Code |
|---|---|
| `Begin` | `candidates`, what scout's attributes make of them (`Fit`), the first opens started |
| `Hit`, `Fails`, `Probes` | `open`: a memory, a refusal or `OPEN_TIMEOUT`, the probe of the file or of a page in its place |
| `Take` | the first in rank order has answered: sorted into a rung, remembered where the failure lasts, further opens started, or the end of the walk with its four fallbacks |
| `BudgetOver`, `Leave` | `PICK_BUDGET`; the answer, or a dropped request |
| `Forget`, `Heal`, `Restart` | `OPENED_TTL`, `UNPLAYABLE_TTL_SECS`, the process |

`Capability` is pure: `scout.rs`'s `Fit` and `verdict`, `client.rs`'s report, and what `create` makes of a probed file: the variant in
the master playlist, whether Dolby Vision is kept, the audio plan, the link's budget and the preset. `Playlist` is
`playlist.rs`: cuts, a start's cuts, bytes of segments, and the two rates.

What is checked of the walk is stated apart from it. `TakesTheBest` recomputes, from the releases that were looked
at, which rungs each is good for (fits, fits after a longer wait, converted, stalls) and compares with what is
played; `VerdictKept` compares it with what `POST /remux/releases` says meanwhile and with the variant; `PlaysThrough` lets a player
fetch tick by tick, where the code has a closed formula; `CutsRight` recomputes the cuts from the keyframes.
`RuledOutForCause` says that nothing that passes (a timeout, a refusal, a page that can be told from a file) is remembered as
a file that plays nowhere.

Whether a page came in a file's place is a guess, `the_files_own_head`: a head that starts neither container passes for the
file's own if it is as long as was asked for, or as the answer says the whole is, and its first character is no `<` or `{`.
A `head` is just that (`page`, `full`, `text`). A page of plain text, as long as its Content-Length says, poses as the file (`Posed`
names the releases whose hosts may send one); its release is then remembered as playing nowhere, so `RuledOutForCause` allows
what is in `BadFiles` or `Posed` and nothing else. The other way round, a bad file that begins with a `<`, or came short, is
looked at again each time.

The five releases are a Dolby Vision 5 film with no other picture, one whose list entry says so but whose file
has a base layer (its host may send a page that poses), an AVC film, a file that is no film, and one scout says nothing of; their byte indexes are heavy throughout, at the
start and in the middle, or have one entry. The players are a television with and one without Dolby Vision, an H.264 browser, a
desktop's, and one that sends no report; links carry a copy, a 720p transcode or none. Opens are two at
a time and four in all, so that an answer overtakes another and the tries run out.
Fairness: an open ends of itself, by `OPEN_TIMEOUT` at the latest, and `create`'s task is polled.

`PickingProofs` proves `RuledOutForCause`, `TakesTheBest`, `VerdictKept` and `CutsRight` for any list, files, players, requests, links and limits. The first three are
not inductive, for each speaks of what was looked at and the pick keeps only what it made of it. `Books` is the tie: of the releases looked at,
`chosen` is the only one that fits, `tooBig` has just the copies that are shown and do not, and `fallback` is one that plays only converted, if
there is any. From it `OutcomeIs` goes through the five ways a pick ends and shows of each that no release is good for a lower rung. That a copy is
also the first in order needs the line: `InLine` says that what is under way, then what waits, stands in the order of `TriedBefore`, and `Asked` that
who answered was looked at or is under way, so whatever answered and was not looked at is behind. `RankedIs` shows that the queue is that order,
by counting how many releases are ahead of each. `Known` ties an answer to the file, `Clear` every release in the line to scout's `Fit` and the verdicts,
which may change meanwhile only by the pick's own findings, and `Played` is what the list must agree with.

`CutsRight` is about what `Segments`' fold computes. A fold is unrolled by `StepsExist`, which builds the results of the first, the first two, and so on
by counting over a set of numbers (`Counting`), so no operator is quantified over; `AfterEach` then says what one keyframe adds, and `CutWell` is the invariant over the keyframes
read so far: each cut is the first of them at or past the target its predecessor set, and none read is past the next. `PlainIs` says the same of the segments,
`PointsAre` and `SplitsAre` which keyframes split the one a player opens on, `InOrderIs` that the cuts stand in order, each once, and `CutsTile` puts them together.
`FilmsAssumption` is what the proof needs of a file: keyframes ascending, each once, as `mkv.rs` and `mp4.rs` sort and dedup them, and a length of more than nothing.
`mkv.rs` refuses a film without one; an MP4's is taken from its header as it is, so the theorems are of MP4s that have one.

`AsksAre` shows that what a copy needs and how long it waits are numbers, whatever its index says: every divisor in `needed_rate`, `stretch_rate` and
`segment_bytes` is positive, since the segments `PlainIs` describes start one after another. `PlaysThrough` stays with TLC and is no theorem: it compares a closed
formula with a player in whole ticks, and where one segment alone is more than the byte cap, `stretch_rate` asks of it no more than its time does, while the player modelled
begins such a segment only when the film comes to it. None of the run's copies that fit has such a segment.

## Subtitles

`Plan` is `subs.rs`'s `plan`, before anything is downloaded; `list` and `docs` are what a session keeps of den-subtitles' answers,
`queue` the tokio lock of each, `req` where each request awaits. `Hold` looks again after the lock is had, `List` and `Fetch`
are `list_subtitles` and `fetch_subtitle`, which may fail for a moment (`MaxBlips`, three: a list's, a document's, and one more).
The audio a session plays is `pick_audio`'s here; one named by `audioTrack` (`session.rs:2792-2800`) is outside `AudioLang`, which loses
no language, as the tracks are arbitrary. `PromisedWell` states `plan`'s own comments about every pair of own tracks in three languages; `FetchedOnce` that a
download, which costs the viewer's quota, is made once however requests race, and not where the release's track does as well;
`Heals` that a rendition den-subtitles has a file for gets one of those in the end. A list that failed, or a document that did,
may not be kept, as an empty one or at all: who asks again must find it missing. Only a list that came and could not be parsed is
kept, as an empty one; films are with and without such a list (`garbles`), and without it `Heals` has no exception. Fairness: den-subtitles answers or times out, and for
`Heals` a player asks again for what it was not given (strong: it may be busy with another).

`SubtitlesProofs` proves `FetchedOnce` for any releases, lists and requests. Four facts carry one another: only the holder of the lock fetches, and
found no document and a list under it (`Alone`); who asks for a document was told of it (`Named`); there is no document without a list
(`Kept`); and in place of an own track a playlist tells of a document only where the best of the list, which no longer changes,
outranks it (`Better`). It assumes that no release's list is `None` and that `None` is no number.

It also proves `PromisedWell`, for any tracks, wishes and lists. `plan` is stated by places: the `n`-th language is the one with `n - 1` before it, and `NthIs`
shows by counting places off that every one kept has its place. `OwnIs` says that the track offered in a language is the best of those that can be shown, `PlanIs` what the plan
of a list is, and the invariant `Planned` that a playlist given out is the plan of what was known then.

## Caches

`VerdictStore` is `Unplayable` or `ProbeCache` (a behaviour chooses) with its file. `Take`, `Write` and `Rename` are
one spawned write; `Fail` any of its failures; `Restart` a stop anywhere and the load. States carry a version, a history
variable, so that the file can be said to go back.

`DurableCache` is what is promised: the memory changes by at most one entry at a time, the file takes on a state the memory has been in
since the one it holds, a new process knows nothing the file does not hold. `VerdictStore` implements it with `known <- memory`
(`Implements`, in the run and as a theorem).

`VerdictStoreProofs` proves, for any releases, room and age: `Implements`, `CaughtUp` and `Bounded`. The refinement's invariant `Inv` is of
three parts: types, the order of versions (what waits for the disk is later than what is on it, one of each version), and
the order of generations. `CaughtUp` adds `Seen`: a write that has read the newest generation knows what the memory knows. A put that
is refused makes no new generation, which is why `Seen` speaks of the releases known and not of equal states. `Bounded` adds
`Bounds`, counting the entries of memory, write and file.

## Door

One read: the range asked for, the head sent from memory, the task that asks the host for one bounded range
after another (`Ask`, `Answered`, `Chunk`, `Short`, `Send`, `Drain`, `Seal`), the queue of `QUEUE` frames, and the reader, who may leave at any
moment (`Leave`). The host may refuse, answer another range, send less or more; the link may expire and be replaced.
`ServedExactly`: the reader has the very bytes of its range, in order, or an error. `CountedOnce` is about `Stats`, which both ends
of the queue write; `ReadsAhead` and `Ends` are about a reader who pauses or is gone. Fourteen bytes with ranges of one, three and seven have every seam:
head and upstream, two requests, the last span repeated. Fairness is of the task: the host sends, ends, or runs into `SOURCE_READ_IDLE`.

`DoorProofs` proves the three for any file, head, request sizes, queue, frames and Range headers. What links the two ends is `Laid`: the frames in
the queue, and the one in the task's hand, carry just the bytes from the reader's position up to the task's, each frame no more than
`FrameMax`. That gives the order of what is read and, with the queue's length, `ReadsAhead`. `Placed` says where the task is in the
range in each of its steps; `Counted` that what was asked for covers the task's position and what is still to come, so that what was
read is never more, and that once the reader has gone what is neither read nor abandoned is at most what failed or may yet fail.

## Probing

`Probe` is the walk of `mkv::probe` and `mp4::probe`, one action per read. An element of a file is its id, its size as the parser sees it
(whole, cut by the file's end, refused), and what it says; a read comes whole, fails, or falls short. `SampleTables` is the
arithmetic of an MP4's tables (`timing_runs`, `keyframe_ticks`, `leading_pictures`, `sync_sample_bytes`), against a reference that expands them
sample by sample. Bytes of codec headers, names, audio and subtitle tracks are left out.

`IndexExact` compares keyframes and byte index with the file's meaning; `ClosedSeen` and `DolbyVisionSeen` say that what is claimed of GOPs and
picture was seen in the second keyframe and the first frame of the film, whatever the order of the cue points; `NeededReadsOnly` that tags and audits, failing,
cost nothing. Files have up to nine elements (both clusters audited, two SeekHeads past
the head) and tables of four samples (`MAX_SAMPLES` and `MAX_KEYFRAMES` at 4 and 3, so both limits are met). Two cue points of the same time for different
clusters are left out of the files, see below.

## What is proved, and what is only checked

Proved for every value of the constants: the safety properties, `KeptAtStart` and `OneGivesWay` of `Admission`; all of `Lifetime` but its liveness, and
that it implements `Admission`; the safety properties of `Producers`, `WatchedKeepsProducer` where `PRODUCER_IDLE_SECS` is more than a segment's wait; `BytesExact` and `CurrentRunWhole` of
`GopWindow`; `QueueExact` and `FoundIsKept` of `ScanQueue`; `RuledOutForCause`, `TakesTheBest`, `VerdictKept` and `CutsRight` of `Picking`; `FetchedOnce` and `PromisedWell` of
`Subtitles`; the refinement, `CaughtUp` and `Bounded` of `VerdictStore`; the safety properties of `Door`.

Out of the provers' reach: liveness under fairness and `ENABLED`; the library's induction theorems, which take an operator as a parameter (where a fold had to be
unrolled, `Counting` does it over sets of numbers); `RECURSIVE` operators. `EvictedEnds`, `ReplacementSettles`, `ExitedSlotReturns`, `StartSettles`, `Answered`, `QueuedIsTaken`,
`Decides`, `Heals` and `Ends` are therefore only model-checked. So are `PlaysThrough`, which does not hold of every file (see Opening a release), `IndexExact`, which is about several
walks of sample tables and their sorts, and the other safety properties of `Probe` (`ClosedSeen`, `DolbyVisionSeen`, `NeededReadsOnly`): they follow a walk of reads whose order
filters and sorts of the indexes decide, and nothing is proved of them.

## Disagreements observed

Places where the code does not do what a comment or the service's README says, met while modelling. The models have the code's behaviour;
no property states the comment.

- `the_files_own_head` is to tell "the file's own first bytes" from "an error page a debrid sent in its place"
  (`session.rs:1530-1531`); it goes by length and first character (`:1532-1536`), and a page of plain text answered 200 with its own Content-Length,
  which `scout.rs:276-314` lets through, gets its release remembered as one that plays nowhere.
- README.md:420, "A session with no request for this long is ended (min 30)"; `config.rs:283` takes a `SESSION_IDLE_SECS` from 30 s, and a session
  that has played nothing yet, or was last heard of by a heartbeat, is given `UNATTENDED_IDLE`, a minute.
- A request that ends a session and is cancelled while ffmpeg is reaped leaves the session's directory until the next start's sweep
  (`session.rs:1291`); README.md:382-383: "a session's directory is removed when it ends". A create cancelled while it awaits den-subtitles' list leaves
  its directory likewise.
- `start_producer` stops a paused run that heads for the wanted segment before it waits for a permit (`session.rs:744`), where
  `session.rs:792-795` says the wait "resumes the very same job rather than restarting it".
- A quiet session's run is reaped only where every producer slot is taken, never because the GPU is (`session.rs:759`);
  ARCHITECTURE.md:23-24 has it give way "promptly when another session queues for its slot".
- After a seek back, `prune`'s inclusive edges let segment 0 be answered from its last GOP alone, or a finished run's cut tail pass
  for the end (`session.rs:825`, `:342`); README.md:367-368: "the segments joined back-to-back hold every source frame exactly once".
- An episode whose sibling's scan failed is stored as scanned with nothing found (`segments.rs:596`), and not scanned again; README.md:257-258
  says a scan of one stores both, README.md:73 that none means "scanned, nothing found".
- A genuine Dolby Vision 5 release that the player shows but the link does not carry goes to `too_big` (`session.rs:2738`), and the fallback that
  converts the first HEVC of `too_big` does not ask whether it has a base layer, where `create`'s comment and `no_picture` rule such a picture out of a transcode.
- README.md:419 gives `PRODUCER_IDLE_SECS` a default of 10 s; the code's is 30 s, and 10 s would take runs from watched sessions.
- A session evicted by a reservation answers 404 rather than 410 until the clean-up reaches it (`state.rs:846`, `main.rs:962`).

## Other observations

- Admission: a session named by an admin's kill survives where the admin's own connection closes while another is being ended; a
  replacement given up after the session it was to replace had ended leaves the player with neither; a create that publishes during `end_all` is not ended.
- GOP window: of two players' requests for one session far apart, each replaces the other's run until one leaves; a
  second request may start a run on the link that failed while the fresh one is fetched (`session.rs:845`); both end by `MAX_FAILURES` or a deadline.
- Picking: the list of releases answers "yes" by the probed file where `create` skips by scout's `Fit::Never`, and its order is not `create`'s for players
  with `videoCodecs` alone; `known_key` has no size; sessions still being picked count nothing against the uplink; `fit` assumes that players
  with High tier take Main too; `need` truncates.
- Playlist: a start in segment zero counts any keyframe at or before the backed-up start as the first frame of zero; a start within the slack after an ordinary cut
  leaves its segment unsplit.
- Subtitles: a rendition whose own track lost to den-subtitles' listing serves an empty document where all listed files are refused; a list
  answered with 200 that cannot be parsed is kept as empty for the session; a rendition may be promised on an entry of foreign parts alone; a window
  from GOPs kept over a seek is never covered, and a cue that began before a run's seek point is missing.
- Caches: a failed write is not tried again before the next change; a refused (oversized) probe drops memory's entry
  with no new generation, so a restart brings it back; `inverted` keeps only a point's last position.
- Probing: a failed read of tags, GOP or picture is kept in the probe cache as the file's answer (`session.rs:1579`, `segments.rs:777`); of two cue points
  of one time the first in the list is the one audited (`mkv.rs:575-577`); a short read of an MP4 box's header counts as "no moov box".

## Not modelled

- `serve_init` and `prepare`, which start the first run before a segment is asked for, are not in `GopWindow`; two sessions' scratch shares
  one counter, of which a session's part is modelled.
- `OwnCues`: which windows of a release's own subtitle track the runs so far cover.
- Matching: alignment of thousands of hashes; at a size TLC enumerates, `MIN_RUN` and the gaps lose their meaning. `ScanQueue` keeps what it
  guarantees as a choice.
- Startup, shutdown and health: `end_all` over what was listed, the sweep of `SCRATCH_DIR`, counters.
- Authentication (pure functions over keys), configuration, the text of playlists and of ffmpeg's arguments, log lines, metrics and the shape of
  answers, throughout. That a URL carries the right signature is taken for granted in `Lifetime`.
