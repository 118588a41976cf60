------------------------------- MODULE Picking -------------------------------
(* How create() picks a release: scout's list is put in order unopened, a few *)
(* releases are opened at a time, their results are taken in rank order       *)
(* whatever order they come in, and what was found decides: a copy that fits  *)
(* the link, one worth a longer wait, a transcode, the copy that starves      *)
(* least, or a refusal.  What opening shows of a file is remembered: its link *)
(* (opened), its facts (known), and that it plays nowhere (unplayable).       *)
EXTENDS Capability, Playlist

CONSTANTS
  Rel,            \* releases of one title
  List,           \* scout's list of them, a sequence
  Attr,           \* [Rel -> what scout says of it]
  File,           \* [Rel -> what its file is]
  Wants,          \* the requests that may come, see Want
  Nobody,         \* no release
  Posed,          \* releases a page may come for that poses as the file, see Sent
  ParallelOpens,  \* PARALLEL_OPENS
  MaxTries,       \* MAX_TRIES
  MaxPrebuffer,   \* MAX_PREBUFFER
  LongPrebuffer,  \* LONG_PREBUFFER
  Buffers,        \* buffer_of: how far ahead each kind of player holds
  AacRate,        \* AudioOut::aac_bitrate
  Uplink,         \* UPLINK_MBPS, or NoLink
  OpenedMax,      \* OPENED_MAX
  KnownMax,       \* KNOWN_MAX
  Picks           \* bound: how many requests come

\* A request: player and codecs, its link and what the other sessions need of the
\* uplink then, how it buffers, where it starts, the release it names or Nobody,
\* those it switches away from, its audio track (0: picked for it), and the two ways
\* it asks for no transcode.
Want == [player : {w.player : w \in Wants}, codecs : SUBSET {"h264", "hevc"},
         link : Nat \cup {NoLink}, others : Nat, holds : DOMAIN Buffers, start : Nat,
         named : Rel \cup {Nobody}, exclude : SUBSET Rel,
         track : Nat, noTranscode : BOOLEAN, fitsOnly : BOOLEAN]

\* A file: its container ("media" or "neither"), what its video is, its length and its
\* keyframes, its byte index, its bits and its video's or NoSize, its audio tracks, and
\* the one pick_audio takes.
ASSUME PickingAssumption ==
  /\ List \in Seq(Rel) /\ \A i, j \in DOMAIN List : List[i] = List[j] => i = j
  /\ Wants \subseteq Want
  /\ Nobody \notin Rel
  /\ \A r \in Rel : File[r].container \in {"media", "neither"}
  /\ Uplink \in Nat \cup {NoLink}
  /\ ParallelOpens \in Nat \ {0} /\ MaxTries \in Nat \ {0}
  /\ MaxPrebuffer \in Nat \ {0} /\ AacRate \in [{"stereo", "5.1", "7.1"} -> Nat]
  /\ \A h \in DOMAIN Buffers : Buffers[h].secs \in Nat \ {0} /\ Buffers[h].bits \in Nat \cup {NoSize}

VARIABLES
  unplayable,  \* AppState::unplayable: the releases remembered as playing nowhere
  opened,      \* AppState::opened, oldest first
  known,       \* AppState::known, oldest first
  pick,        \* create() between scout's list and the session, see Begin
  picks        \* how many requests have come

vars == <<unplayable, opened, known, pick, picks>>

Hevc(w) == PlayerTakesHevc(w.player, w.codecs)
MayConvert(w) == ~w.noTranscode /\ ~w.fitsOnly

-----------------------------------------------------------------------------
(* open(): a resolve that answers, and whose head is the file's own first     *)
(* bytes or those of a page a debrid sent in its place.                       *)

\* What may come.  full: as long as was asked for, or as the answer says the whole is, and
\* not empty; text: past blanks it begins with a '<' or a '{'.
Heads == [page : BOOLEAN, full : BOOLEAN, text : BOOLEAN]

Sized(r) == Attr[r].sized
\* A slip a change could make: whatever came whole counts as the file's.
FullHead(head) == head.full

\* A guess: a page of plain text as long as it says passes too.
TheFilesOwnHead(head) == head.full /\ ~head.text
Neither(r, head) == head.page \/ File[r].container = "neither"
RefusedVideo(r) == File[r].info.video = "other" \/ File[r].audio = <<>>

\* What the probe of release r's head makes of it.
Opening(r, head) ==
  IF Neither(r, head) THEN IF TheFilesOwnHead(head) THEN "lasting" ELSE "passing"
  ELSE IF RefusedVideo(r) THEN "lasting" ELSE "ok"

\* Put last, the oldest giving way past `max`.
Remember(cache, r, max) ==
  LET others == RemoveFirst(cache, r)
  IN Append(IF Len(others) >= max THEN Tail(others) ELSE others, r)

-----------------------------------------------------------------------------
(* The order: the named release first, scout's order after it; those that     *)
(* play as they are before those that play only converted.                    *)

Candidates(w) == {r \in ToSet(List) : Remuxable(Attr[r], w.player)}

FitOf(w, attributes) == Fit(attributes, w.player, Hevc(w))

WorthOpening(w, r) ==
  /\ r \notin w.exclude
  /\ ~(Sized(r) /\ r \in unplayable)
  /\ FitOf(w, Attr[r]) # "never"
  /\ FitOf(w, Attr[r]) = "convert" => MayConvert(w)

Place(r) == CHOOSE i \in DOMAIN List : List[i] = r

TriedBefore(w, q, r) ==
  \/ q = w.named /\ r # w.named
  \/ /\ w.named \notin {q, r}
     /\ \/ FitOf(w, Attr[q]) # FitOf(w, Attr[r]) /\ FitOf(w, Attr[r]) = "convert"
        \/ FitOf(w, Attr[q]) = FitOf(w, Attr[r]) /\ Place(q) < Place(r)

\* The releases worth opening, in that order.
Ranked(w) ==
  LET worth    == {r \in Candidates(w) : WorthOpening(w, r)}
      Ahead(r) == {q \in worth : TriedBefore(w, q, r)}
  IN [i \in 1..Cardinality(worth) |-> CHOOSE r \in worth : Cardinality(Ahead(r)) = i - 1]

\* How many of the queue are started next: up to PARALLEL_OPENS under way and
\* MAX_TRIES in all, none once the time is up, and with a converted release in hand
\* none that scout says plays only converted, nor any behind it.
Starts(p) ==
  LET room == Smaller(Smaller(ParallelOpens - Len(p.opening), MaxTries - p.tried), Len(p.queue))
      stop == {i \in 1..Len(p.queue) : p.fallback # Nobody /\ FitOf(p.want, Attr[p.queue[i]]) = "convert"}
  IN IF p.late THEN 0
     ELSE IF stop = {} THEN room ELSE Smaller(room, Min(stop) - 1)

Fill(p) ==
  LET n == Starts(p)
  IN [p EXCEPT !.opening = @ \o SubSeq(p.queue, 1, n), !.tried = @ + n,
               !.queue = SubSeq(@, n + 1, Len(@))]

-----------------------------------------------------------------------------
(* What a copy of each release asks of each request's link.                   *)

Link(w) == Budgeted(w.link, Uplink, w.others)

\* The bits a session sends: its video and the one audio track it plays, else the file's.
Delivered(w, r) ==
  LET file  == File[r]
      track == file.audio[IF w.track \in DOMAIN file.audio THEN w.track ELSE file.picked]
      out   == AudioPlan(track.codec, track.channels, w.player)
      audio == IF out = "copy" THEN track.bits ELSE AacRate[out] * file.duration
  IN IF file.videoBits = NoSize \/ audio = NoSize THEN file.size ELSE file.videoBits + audio

Media == {r \in Rel : File[r].container = "media" /\ File[r].audio # <<>>}

\* What need() and prebuffer() weigh: the ordinary segments, their bits, and where the
\* player comes in.
Weighed(w, r) ==
  LET segs == Segments(File[r].keyframes, File[r].duration)
  IN [segs |-> segs, bits |-> SegmentBits(segs, File[r].index, Delivered(w, r)),
      from |-> StartSegment(segs, EffectiveStart(w.start, File[r].duration)), buffer |-> Buffers[w.holds]]

\* The rate it needs: with no index its average and half again, 0 where nothing says.
Need(w, r) ==
  LET x == Weighed(w, r)
      size == Delivered(w, r)
  IN IF x.bits # NoIndex THEN NeededRate(x.segs, x.bits, x.from, MaxPrebuffer, x.buffer)
     ELSE IF size = NoSize THEN 0 ELSE ((size \div File[r].duration) * 3) \div 2

\* How long a player waits before it plays through, times its link; NoIndex: for ever.
HeadStart(w, r) ==
  LET x == Weighed(w, r)
  IN IF Link(w) \in {NoLink, 0} \/ x.bits = NoIndex THEN NoIndex
     ELSE StartupDelay(x.segs, x.bits, x.from, Link(w), x.buffer)

\* Both, of every release this request may come to open.
Asks(w) == [r \in Media |-> [need |-> Need(w, r), wait |-> HeadStart(w, r)]]

\* A title has a length, and its keyframes come in order, each once (a probe sorts them);
\* its byte index is of times and offsets, in no order of the latter.
ASSUME FilmsAssumption == \A r \in Media :
  /\ File[r].duration \in Nat \ {0}
  /\ File[r].index \in Seq(Int \X Nat)
  /\ File[r].size \in Nat \cup {NoSize} /\ File[r].videoBits \in Nat \cup {NoSize}
  /\ File[r].picked \in DOMAIN File[r].audio
  /\ \A i \in DOMAIN File[r].audio : File[r].audio[i].bits \in Nat \cup {NoSize}
  /\ File[r].keyframes \in Seq(Int)
  /\ \A i, j \in DOMAIN File[r].keyframes : i < j => File[r].keyframes[i] < File[r].keyframes[j]

\* The segments a session of it names in its playlist.
Cuts == [w \in Wants |-> [r \in Media |->
  SegmentsForStart(File[r].keyframes, File[r].duration, EffectiveStart(w.start, File[r].duration))]]

-----------------------------------------------------------------------------
(* The loop's arms, in the order the match tries them.                        *)

ArmPlaysFirst(p, r, result) ==
  LET info == File[r].info
      w    == p.want
  IN CASE result # "ok" -> "failed"
       [] OTHER -> IF Plays(w.player, Hevc(w), info)
                   THEN IF Over(Link(w), p.asks[r].need) THEN "too big" ELSE "fits"
                   ELSE IF info.video = "hevc" THEN "converts" ELSE "skipped"

Arm(p, r, result) ==
  LET info == File[r].info
      w    == p.want
  IN CASE result # "ok" -> "failed"
       [] result = "ok" /\ NoPicture(w.player, Hevc(w), info) -> "skipped"
       [] OTHER -> IF Plays(w.player, Hevc(w), info)
                   THEN IF Over(Link(w), p.asks[r].need) THEN "too big" ELSE "fits"
                   ELSE IF info.video = "hevc" THEN "converts" ELSE "skipped"

\* The pick once the first release under way has been looked at.
Sorted(p, r, arm) ==
  LET ends == arm = "fits" \/ (arm \in {"too big", "converts"} /\ r = p.want.named)
  IN [p EXCEPT !.opening  = Tail(@),
               !.seen     = @ \cup {r},
               !.chosen   = IF arm = "fits" THEN r ELSE @,
               !.fallback = IF arm = "converts" /\ @ = Nobody THEN r ELSE @,
               !.tooBig   = IF arm = "too big" THEN Append(@, r) ELSE @,
               !.phase    = IF ends THEN "decided" ELSE @]

\* The copies too big for the link that ask at most LONG_PREBUFFER.
ShortWait(w, wait) == wait # NoIndex /\ wait <= LongPrebuffer * Link(w)
WaitsLonger(p) == {i \in DOMAIN p.tooBig : ShortWait(p.want, p.asks[p.tooBig[i]].wait)}

\* Of the releases at places I, the first that asks the least of `what`, need or wait.
Least(p, I, what) ==
  LET Ask(i) == p.asks[p.tooBig[i]][what]
  IN p.tooBig[CHOOSE i \in I : \A j \in I : Ask(i) < Ask(j) \/ (Ask(i) = Ask(j) /\ i <= j)]

\* A transcode at the preset the link takes, or at the floor's where nothing fits
\* and no copy plays: of the release kept back, else of the first HEVC copy too big
\* for the link that the preset comes in under.
Converted(p) ==
  LET floor  == Presets[Len(Presets)].rate
      fits   == PresetRate(Link(p.want)) > 0
      rate   == IF fits THEN PresetRate(Link(p.want)) ELSE floor
      Bigger == {i \in DOMAIN p.tooBig : File[p.tooBig[i]].info.video = "hevc" /\ p.asks[p.tooBig[i]].need > rate}
  IN IF ~MayConvert(p.want) \/ ~(fits \/ p.tooBig = <<>>) THEN Nobody
     ELSE IF p.fallback # Nobody THEN p.fallback
     ELSE IF Bigger # {} THEN p.tooBig[Min(Bigger)] ELSE Nobody

Refusal(p, gpu, converted) ==
  CASE p.want.fitsOnly -> "no_fitting_copy"
    [] ~p.want.fitsOnly /\ p.fallback # Nobody
       /\ (~MayConvert(p.want) \/ (converted # Nobody /\ ~gpu)) -> "no_copy"
    [] OTHER -> "no_playable_release"

\* A copy too big that no GPU converts still plays as it is, now last of them.
Starving(p, gpu, converted) ==
  IF converted # Nobody /\ p.fallback = Nobody /\ ~gpu
  THEN [p EXCEPT !.tooBig = Append(RemoveFirst(@, converted), converted)] ELSE p

\* What is played, once nothing more is opened.
Outcome(p, gpu, converted) ==
  LET Made(as, r) == [as |-> IF r # Nobody /\ p.want.track > Len(File[r].audio) THEN "bad_audio_track" ELSE as,
                      rel |-> r, gpu |-> gpu]
      left == Starving(p, gpu, converted)
  IN CASE p.chosen # Nobody -> Made("copy", p.chosen)
       [] p.chosen = Nobody /\ ~p.want.fitsOnly /\ WaitsLonger(p) # {} ->
            Made("long wait", Least(p, WaitsLonger(p), "wait"))
       [] OTHER ->
            IF converted # Nobody /\ gpu THEN Made("transcode", converted)
            ELSE IF ~p.want.fitsOnly /\ p.tooBig # <<>>
            THEN Made("starving", Least(left, DOMAIN left.tooBig, "need"))
            ELSE Made(Refusal(p, gpu, converted), Nobody)

SettlesLate(p, gpu) ==
  \E filled \in {IF p.phase = "decided" THEN p ELSE Fill(p)} :
    IF filled.phase = "decided"
    THEN \E converted \in {Converted(filled)} : pick' = [filled EXCEPT !.out = Outcome(filled, gpu, converted)]
    ELSE pick' = filled

\* The loop goes on while anything is under way; what is played is decided with it.
Settles(p, gpu) ==
  \E filled \in {IF p.phase = "decided" THEN p ELSE Fill(p)} :
    IF filled.phase = "decided" \/ filled.opening = <<>>
    THEN \E converted \in {Converted(filled)} :
           pick' = [filled EXCEPT !.phase = "decided", !.out = Outcome(filled, gpu, converted)]
    ELSE pick' = filled

-----------------------------------------------------------------------------
Idle == [phase |-> "idle"]

Init ==
  /\ unplayable = {} /\ opened = <<>> /\ known = <<>>
  /\ pick = Idle
  /\ picks = 0

\* Scout's list has come for request w.  `gpu`: can_transcode() when it is asked.
Begin(w, gpu) ==
  /\ pick.phase = "idle" /\ picks < Picks
  /\ picks' = picks + 1
  /\ Candidates(w) # {}            \* no_release
  /\ Settles([phase |-> "opening", want |-> w, asks |-> Asks(w), queue |-> Ranked(w), opening |-> <<>>,
              answer |-> [r \in Rel |-> "none"], tried |-> 0, late |-> FALSE, seen |-> {},
              chosen |-> Nobody, fallback |-> Nobody, tooBig |-> <<>>,
              out |-> [as |-> "none", rel |-> Nobody, gpu |-> FALSE]], gpu)
  /\ UNCHANGED <<unplayable, opened, known>>

UnderWay(r) == pick.phase = "opening" /\ Contains(pick.opening, r) /\ pick.answer[r] = "none"

Answered(r, result) == pick' = [pick EXCEPT !.answer[r] = result]

\* A recent open of it answers at once, its link with it.
Hit(r) ==
  /\ UnderWay(r) /\ Contains(opened, r)
  /\ Answered(r, "ok")
  /\ UNCHANGED <<unplayable, opened, known, picks>>

\* Scout or the debrid refuses, the probe's reads fail, or OPEN_TIMEOUT passes.
Fails(r) ==
  /\ UnderWay(r) /\ ~Contains(opened, r)
  /\ Answered(r, "passing")
  /\ UNCHANGED <<unplayable, opened, known, picks>>

\* It is resolved and probed.  Its facts are kept before its video or its want of
\* audio refuses it, its link only after.
Probes(r, head) ==
  /\ UnderWay(r) /\ ~Contains(opened, r)
  /\ Answered(r, Opening(r, head))
  /\ known' = IF Neither(r, head) THEN known ELSE Remember(known, r, KnownMax)
  /\ opened' = IF Opening(r, head) = "ok" THEN Remember(opened, r, OpenedMax) ELSE opened
  /\ UNCHANGED <<unplayable, picks>>

TakeAny(gpu) ==
  /\ pick.phase = "opening"
  /\ \E r \in ToSet(pick.opening) :
       /\ pick.answer[r] # "none"
       /\ \E p \in {[pick EXCEPT !.opening = <<r>> \o Remove(@, r)]} :
            \E arm \in {Arm(p, r, p.answer[r])} : \E sorted \in {Sorted(p, r, arm)} : Settles(sorted, gpu)
       /\ unplayable' = IF pick.answer[r] = "lasting" /\ Sized(r) THEN unplayable \cup {r} ELSE unplayable
  /\ UNCHANGED <<opened, known, picks>>

\* The first in rank order has answered, and is sorted with no await until the
\* next is waited for: a lasting failure is remembered, and a pick that ends here
\* drops whatever else is under way.
Take(gpu) ==
  /\ pick.phase = "opening" /\ pick.opening # <<>>
  /\ pick.answer[Head(pick.opening)] # "none"
  /\ LET r == Head(pick.opening)
     IN /\ \E arm \in {Arm(pick, r, pick.answer[r])} :
             \E sorted \in {Sorted(pick, r, arm)} : Settles(sorted, gpu)
        /\ unplayable' = IF pick.answer[r] = "lasting" /\ Sized(r) THEN unplayable \cup {r} ELSE unplayable
  /\ UNCHANGED <<opened, known, picks>>

\* PICK_BUDGET has passed: nothing more is started.
BudgetOver ==
  /\ pick.phase = "opening" /\ ~pick.late
  /\ pick' = [pick EXCEPT !.late = TRUE]
  /\ UNCHANGED <<unplayable, opened, known, picks>>

\* The answer is sent, or the request is dropped before it is.
Leave ==
  /\ pick.phase # "idle"
  /\ pick' = Idle
  /\ UNCHANGED <<unplayable, opened, known, picks>>

\* OPENED_TTL passes, or a session's link stopped working and was fetched again.
Forget(r) ==
  /\ Contains(opened, r)
  /\ opened' = RemoveFirst(opened, r)
  /\ UNCHANGED <<unplayable, known, pick, picks>>

\* UNPLAYABLE_TTL_SECS pass.
Heal(r) ==
  /\ r \in unplayable
  /\ unplayable' = unplayable \ {r}
  /\ UNCHANGED <<opened, known, pick, picks>>

\* Only the verdicts survive the process.
Restart ==
  /\ picks > 0
  /\ pick' = Idle /\ opened' = <<>> /\ known' = <<>>
  /\ UNCHANGED <<unplayable, picks>>

\* A page of plain text, as long as it says, comes only for the releases of Posed.
Sent(r) == {head \in Heads : head.page /\ head.full /\ ~head.text => r \in Posed}

Opens(r) == Hit(r) \/ Fails(r) \/ \E head \in Sent(r) : Probes(r, head)

Next ==
  \/ \E w \in Wants, gpu \in BOOLEAN : Begin(w, gpu)
  \/ \E r \in Rel : Opens(r)
  \/ \E gpu \in BOOLEAN : Take(gpu)
  \/ BudgetOver
  \/ Leave
  \/ \E r \in Rel : Forget(r)
  \/ \E r \in Rel : Heal(r)
  \/ Restart

Spec == Init /\ [][Next]_vars

\* Every open ends of itself, by OPEN_TIMEOUT at the latest, and create's task is run:
\* while one is under way, something goes on.
Fairness == WF_vars((\E r \in Rel : Opens(r)) \/ \E gpu \in BOOLEAN : Take(gpu))

FairSpec == Spec /\ Fairness

-----------------------------------------------------------------------------
Copies == {"copy", "long wait", "starving"}

BadFiles == {r \in Rel : File[r].container = "neither" \/ RefusedVideo(r)}

\* Opening a release rules it out for good only for what its file is, or for a page that
\* poses as one: never for a timeout, a refusal, a page of markup or JSON, one cut short,
\* an answer that came too late to be taken or one before a restart (OpenFailure::lasting).
RuledOutForCause == unplayable \subseteq BadFiles \cup Posed

\* Whether a release plays as it is, and the rungs it is good for: 1 fits the link,
\* 2 plays after a longer wait, 3 converted at a rate the link takes, 4 plays with
\* stalls, 5 converted though the link is below every preset.
Shown(w, r) == ~NoPicture(w.player, Hevc(w), File[r].info) /\ Plays(w.player, Hevc(w), File[r].info)
Convertible(w, r, gpu) ==
  /\ gpu /\ MayConvert(w)
  /\ File[r].info.video = "hevc" /\ ~NoPicture(w.player, Hevc(w), File[r].info)
Rungs(p, r, gpu) ==
  LET w      == p.want
      tooBig == Over(Link(w), p.asks[r].need)
      rate   == PresetRate(Link(w))
  IN {k \in 1..5 :
        \/ k = 1 /\ Shown(w, r) /\ ~tooBig
        \/ k = 2 /\ Shown(w, r) /\ ~w.fitsOnly /\ ShortWait(w, p.asks[r].wait)
        \/ k = 3 /\ Convertible(w, r, gpu) /\ rate > 0 /\ (Shown(w, r) => p.asks[r].need > rate)
        \/ k = 4 /\ Shown(w, r) /\ ~w.fitsOnly
        \/ k = 5 /\ Convertible(w, r, gpu) /\ rate = 0 /\ ~Shown(w, r)}
RungsOf(as) ==
  CASE as = "copy" -> {1} [] as = "long wait" -> {2} [] as = "transcode" -> {3, 5}
    [] as = "starving" -> {4} [] OTHER -> {6}

BestRung ==
  pick.phase = "decided" /\ pick.out.as # "bad_audio_track" =>
    LET good == {r \in pick.seen : pick.answer[r] = "ok"}
        best == Min({6} \cup UNION {Rungs(pick, r, pick.out.gpu) : r \in good})
    IN /\ best \in RungsOf(pick.out.as)
       /\ best # 6 => pick.out.rel \in good /\ best \in Rungs(pick, pick.out.rel, pick.out.gpu)

BestRanked ==
  pick.phase = "decided" /\ pick.out.as = "copy" =>
    \A r \in Rel \ {pick.out.rel} :
      pick.answer[r] = "ok" /\ 1 \in Rungs(pick, r, FALSE) => TriedBefore(pick.want, pick.out.rel, r)

\* What is played is on the best rung any release looked at is good for, and a refusal
\* means none is good for any: create's order of copies, transcode and stalls.  Which copy
\* that is does not depend on which open answered first: of those that answered and fit, it
\* is the one the player named, else the best ranked.
TakesTheBest == BestRung /\ BestRanked

\* What POST /remux/releases says of release r to the same player.
Verdict(w, r) ==
  CASE Sized(r) /\ r \in unplayable -> "no"
    [] ~(Sized(r) /\ r \in unplayable) /\ w.player = NoReport /\ w.codecs = {} -> "yes"
    [] OTHER -> IF Contains(known, r) THEN ProbedVerdict(File[r].info, w.player, Hevc(w))
                ELSE ScoutedVerdict(Attr[r], w.player, Hevc(w))

AgreesWithList ==
  pick.phase = "decided" /\ pick.out.rel # Nobody =>
    /\ Verdict(pick.want, pick.out.rel) # "no"
    /\ Contains(known, pick.out.rel) /\ pick.out.as \in Copies => Verdict(pick.want, pick.out.rel) = "yes"

ShownAsPicked ==
  pick # Idle /\ pick.phase = "decided" /\ pick.out.as \in Copies =>
    LET info    == File[pick.out.rel].info
        variant == Variant(info, FALSE, pick.want.player)
    IN /\ info.dv # NoDV /\ ~HasFallback(info.dv) /\ ~info.mismatch =>
            variant.dovi = "keep" /\ variant.named
       /\ info.hdr /\ info.video \in {"hevc", "vp9"} => variant.range # "none"

\* The list, the pick and the session it makes agree: nothing the list says is a "no" is
\* played, nothing once opened that it says needs converting is played as it is, and the
\* variant of what is copied keeps the Dolby Vision of a file that has no other picture
\* and says the range of an HEVC or VP9 that is HDR (an AV1 says what its codec string
\* does, an H.264 nothing: copied_range).
VerdictKept == AgreesWithList /\ ShownAsPicked

\* Whether a player at `rate` plays release r through after `wait`, tick by tick.
Through(w, r, rate, wait) ==
  LET x == Weighed(w, r) IN NeverDry(x.segs, x.bits, x.from, rate, wait, x.buffer)
Weighable(w, r) == Link(w) # NoLink /\ Weighed(w, r).bits # NoIndex
AsWeighed == [w \in Wants, r \in Media |-> Weighable(w, r) =>
  /\ Need(w, r) <= Link(w) => Through(w, r, Link(w) + 1, MaxPrebuffer)
  /\ Need(w, r) > Link(w) => ~Through(w, r, Link(w), MaxPrebuffer)
  /\ ShortWait(w, HeadStart(w, r)) <=> Through(w, r, Link(w), LongPrebuffer)]

\* A copy taken on a link plays through on it with the wait its rung allows, and one
\* put aside as too big would have run dry: the two formulas of needed_rate and
\* startup_delay against a player fetching tick by tick (need rounds down by less
\* than one unit, which the copy's player is granted).
PlaysThrough ==
  pick # Idle => \A r \in pick.seen \cap Media : pick.answer[r] = "ok" => AsWeighed[pick.want, r]

\* The cuts of a playlist, against the file's keyframes.
Tiles(file, start, cuts) ==
  LET keys  == {k \in ToSet(file.keyframes) : 0 < k /\ k < file.duration}
      Past(t) == {k \in keys : \E m \in 1..file.duration : t < m * Target /\ m * Target <= k}
      Spans(t, s) == s.start <= t /\ t < s.end
      plain == Segments(file.keyframes, file.duration)
  IN /\ cuts[1].start = 0 /\ cuts[Len(cuts)].end = file.duration
     /\ \A i \in DOMAIN cuts : /\ cuts[i].start < cuts[i].end /\ cuts[i].start \in keys \cup {0}
                               /\ i > 1 => cuts[i].start = cuts[i - 1].end
     /\ \A s \in ToSet(plain) : /\ s.end = Min({file.duration} \cup Past(s.start))
                                /\ s.start \in {c.start : c \in ToSet(cuts)}
                                /\ s \in ToSet(cuts) \/ Spans(BackedUp(start), s)
     /\ \A s \in ToSet(plain), c \in ToSet(cuts) :
          s.start > 0 /\ Spans(BackedUp(start), s) /\ Spans(start, s) /\ Spans(start, c) =>
            c.end = Min({file.duration, s.end} \cup {k \in keys : k > start})
Tiled == [w \in Wants |-> [r \in Media |->
  Tiles(File[r], EffectiveStart(w.start, File[r].duration), Cuts[w][r])]]

\* The playlist of what is played tiles the title at its keyframes: segment n is cut at
\* the first keyframe at or past a multiple of the target, the first such past cut n - 1,
\* and only the segment the player opens on is cut again, so that it opens on one GOP.
CutsRight ==
  pick # Idle /\ pick.phase = "decided" /\ pick.out.rel # Nobody => Tiled[pick.want][pick.out.rel]

\* A request that is picking comes to an answer, or is dropped.
Decides == pick.phase = "opening" ~> pick.phase # "opening"

=============================================================================
