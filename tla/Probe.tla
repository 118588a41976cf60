--------------------------------- MODULE Probe ---------------------------------
(* How den-remux learns what a release is from its first bytes and a few ranged  *)
(* reads, any of which may fail: Matroska's head, its SeekHeads and the indexes  *)
(* they list, an MP4's boxes up to moov, and the audits of single clusters that  *)
(* settle whether a segment stands alone and whose Dolby Vision record lies.     *)
(* An element is its place in the file, its size ("whole", "cut" by the file's   *)
(* end, "refused": unknown or too large) and what it says; names, audio tracks   *)
(* and subtitles are left out.                                                   *)
EXTENDS SampleTables, FiniteSets

CONSTANTS
  MaxBoxes,    \* the bound of mp4::probe's walk
  MaxFollowed, \* SeekHeads followed past those in the head
  MaxFaults    \* bound: reads that go wrong

ASSUME ProbeAssumption == MaxBoxes \in Nat /\ MaxFollowed \in Nat /\ MaxFaults \in Nat

VARIABLES
  file,     \* kind; elements, each [id, size, body]; how many of them the head reaches
  at,       \* where probe() is
  found,    \* info, tracks, cues, tags: what has been read of each, or None
  seeks,    \* <<id, place>> as the SeekHeads read so far list them
  followed, \* the SeekHeads followed past the head
  box,      \* mp4: the next top-level box
  media,    \* what the parse made of it
  answer,   \* None, "ok" or the ProbeError's kind
  wronged,  \* history: the parts whose read went wrong
  faults

vars == <<file, at, found, seeks, followed, box, media, answer, wronged, faults>>

Parts == {"info", "tracks", "cues", "tags"}
ElementAt(place) == file.elements[place]

\* fetch: the element a SeekHead lists, checked to be the one promised.
Holds(place, id) == /\ place \in DOMAIN file.elements
                    /\ ElementAt(place).id = id
                    /\ ElementAt(place).size # "refused"

\* What became of one read: the bytes, an error, or fewer bytes than were asked for.
Outcomes == {"whole", "failed", "short"}
Fetched(place, id, outcome) ==
  CASE outcome = "failed" -> [is |-> "fetch", body |-> None]
    [] outcome = "short" \/ place \notin DOMAIN file.elements -> [is |-> "truncated", body |-> None]
    [] ~Holds(place, id) -> [is |-> "unsupported", body |-> None]
    [] ElementAt(place).size = "cut" -> [is |-> "truncated", body |-> None]
    [] OTHER -> [is |-> "ok", body |-> ElementAt(place).body]

Listed(id) == SelectSeq(seeks, LAMBDA s : s[1] = id)
Find(id) == IF Listed(id) = <<>> THEN None ELSE Head(Listed(id))[2]

Wrong(parts, n) == /\ faults + n <= MaxFaults
                   /\ faults' = faults + n
                   /\ wronged' = wronged \cup parts

Refuse(kind) == at' = "done" /\ answer' = kind

-----------------------------------------------------------------------------
Init ==
  /\ at = "head" /\ found = [p \in Parts |-> None] /\ seeks = <<>> /\ followed = {}
  /\ box = 1 /\ media = None /\ answer = None /\ wronged = {} /\ faults = 0

\* Matroska's head: every element up to a cluster or to what the head does not hold whole.
Walked == LET stops == {i \in 1..file.head : ElementAt(i).size # "whole" \/ ElementAt(i).id = "cluster"}
          IN SubSeq(file.elements, 1, IF stops = {} THEN file.head
                                      ELSE (CHOOSE i \in stops : \A j \in stops : i <= j) - 1)

WalkHead ==
  /\ at = "head" /\ file.kind = "matroska"
  /\ seeks' = FoldLeft(LAMBDA all, e : IF e.id = "seekhead" THEN all \o e.body ELSE all, <<>>, Walked)
  /\ found' = FoldLeft(LAMBDA parts, e : IF e.id \in Parts THEN [parts EXCEPT ![e.id] = e.body]
                                         ELSE parts, found, Walked)
  /\ at' = "info"
  /\ UNCHANGED <<file, followed, box, media, answer, wronged, faults>>

\* Info, then Tracks, where the head had none and a SeekHead lists them.
FetchPart(p, next) ==
  /\ at = p
  /\ IF found[p] # None \/ Find(p) = None
       THEN at' = next /\ UNCHANGED <<found, answer, wronged, faults>>
       ELSE \E outcome \in Outcomes :
              LET got == Fetched(Find(p), p, outcome)
              IN /\ IF outcome = "whole" THEN UNCHANGED <<wronged, faults>> ELSE Wrong({p}, 1)
                 /\ IF got.is = "ok" THEN at' = next /\ UNCHANGED answer ELSE Refuse(got.is)
                 /\ found' = [found EXCEPT ![p] = got.body]
  /\ UNCHANGED <<file, seeks, followed, box, media>>

FetchCuesWithTags ==
  /\ at = "cues" /\ found.cues = None /\ Find("cues") # None
  /\ \E outcome \in Outcomes, beside \in Outcomes :
       LET got == Fetched(Find("cues"), "cues", outcome)
           wants == found.tags = None /\ Find("tags") # None
           tags == IF wants THEN Fetched(Find("tags"), "tags", beside) ELSE [is |-> "ok", body |-> found.tags]
           wrong == {p \in {"cues", "tags"} : (p = "cues" /\ outcome # "whole")
                                                \/ (p = "tags" /\ wants /\ beside # "whole")}
       IN /\ ~wants => beside = "whole"
          /\ Wrong(wrong, Cardinality(wrong))
          /\ IF got.is = "ok" /\ tags.is = "ok" THEN at' = "tags" /\ UNCHANGED answer
             ELSE Refuse(IF got.is = "ok" THEN tags.is ELSE got.is)
          /\ found' = [found EXCEPT !.cues = got.body, !.tags = tags.body]
  /\ UNCHANGED <<file, seeks, followed, box, media>>

\* The Cues, and at the same time the Tags: those are done without where they cannot be read.
FetchCues ==
  /\ at = "cues" /\ found.cues = None /\ Find("cues") # None
  /\ \E outcome \in Outcomes, beside \in Outcomes :
       LET got == Fetched(Find("cues"), "cues", outcome)
           wants == found.tags = None /\ Find("tags") # None
           wrong == {p \in {"cues", "tags"} : (p = "cues" /\ outcome # "whole")
                                                \/ (p = "tags" /\ wants /\ beside # "whole")}
       IN /\ ~wants => beside = "whole"
          /\ Wrong(wrong, Cardinality(wrong))
          /\ IF got.is = "ok" THEN at' = "tags" /\ UNCHANGED answer ELSE Refuse(got.is)
          /\ found' = [found EXCEPT !.cues = got.body,
                         !.tags = IF wants THEN Fetched(Find("tags"), "tags", beside).body ELSE @]
  /\ UNCHANGED <<file, seeks, followed, box, media>>

Unfollowed == SelectSeq(seeks, LAMBDA s : s[1] = "seekhead" /\ s[2] \notin followed)
MayFollow == Unfollowed # <<>> /\ Cardinality(followed) < MaxFollowed

\* A SeekHead lists another one, which may list the Cues: two of those at most.
FollowSeekHead ==
  /\ at = "cues" /\ found.cues = None /\ Find("cues") = None
  /\ MayFollow
  /\ \E outcome \in Outcomes :
       LET place == Head(Unfollowed)[2]
           got == Fetched(place, "seekhead", outcome)
       IN /\ IF outcome = "whole" THEN UNCHANGED <<wronged, faults>> ELSE Wrong({"seekhead"}, 1)
          /\ IF got.is = "ok" THEN UNCHANGED <<at, answer>> ELSE Refuse(got.is)
          /\ followed' = followed \cup {place}
          /\ seeks' = IF got.is = "ok" THEN seeks \o got.body ELSE seeks
  /\ UNCHANGED <<file, found, box, media>>

NoMoreCues ==
  /\ at = "cues"
  /\ found.cues # None \/ (Find("cues") = None /\ ~MayFollow)
  /\ at' = "tags"
  /\ UNCHANGED <<file, found, seeks, followed, box, media, answer, wronged, faults>>

\* The Tags by themselves, also where they failed beside the Cues.
FetchTags ==
  /\ at = "tags" /\ at' = "parse"
  /\ IF found.tags # None \/ Find("tags") = None THEN UNCHANGED <<found, wronged, faults>>
     ELSE \E outcome \in Outcomes :
            /\ IF outcome = "whole" THEN UNCHANGED <<wronged, faults>> ELSE Wrong({"tags"}, 1)
            /\ found' = [found EXCEPT !.tags = Fetched(Find("tags"), "tags", outcome).body]
  /\ UNCHANGED <<file, seeks, followed, box, media, answer>>

-----------------------------------------------------------------------------
\* parse_cues: the cue points that index the track, each at the first cluster it names for it.
CuesOf(points, track) ==
  LET its(p) == SelectSeq(p.on, LAMBDA on : on[1] = track)
      indexed == SelectSeq(points, LAMBDA p : its(p) # <<>>)
  IN [i \in DOMAIN indexed |-> [time |-> indexed[i].time, cluster |-> Head(its(indexed[i]))[2]]]

InTime(cues) ==
  LET order == SetToSortSeq(DOMAIN cues, LAMBDA i, j : cues[i].time < cues[j].time
                                                        \/ (cues[i].time = cues[j].time /\ i < j))
  IN [n \in DOMAIN order |-> cues[order[n]]]

\* A list of times ascending, each once.
Deduped(times) == SetToSortSeq({times[i] : i \in DOMAIN times}, <)

\* A slip a change could make, and the code's byte index: in the order of time, of entries of
\* one time the first.
IndexUnpaired(times, bytes) ==
  [n \in DOMAIN Deduped(times) |-> <<Deduped(times)[n], bytes[n]>>]
IndexOf(times, bytes) ==
  LET firsts == {i \in DOMAIN times : \A j \in 1..(i - 1) : times[j] # times[i]}
      order == SetToSortSeq(firsts, LAMBDA i, j : times[i] < times[j])
  IN [n \in DOMAIN order |-> <<times[order[n]], bytes[order[n]]>>]

\* parse_track_bytes: a track's size by the last tag that names it and no other.
BytesOf(tags, uid) ==
  LET its == IF tags = None THEN <<>> ELSE SelectSeq(tags, LAMBDA tag : tag.uids = {uid})
  IN IF its = <<>> THEN None ELSE Last(its).bytes

ContradictoryProfile5(dv, colour) == dv # None /\ dv.profile = 5 /\ dv.compat = 0 /\ colour \in {"pq", "hlg"}
RecordlessCandidate(video) == ~video.eightBit /\ video.colour = "none"

\* What is known once the indexes are read, before any cluster is.
ParseMatroska ==
  /\ at = "parse"
  /\ IF found.info = None \/ found.tracks = None THEN Refuse("truncated") /\ UNCHANGED media
     ELSE IF found.cues = None \/ found.info = 0 \/ found.tracks.video = None
       THEN Refuse("unsupported") /\ UNCHANGED media
     ELSE LET video == found.tracks.video
              cues == CuesOf(found.cues, video.number)
              times == [i \in DOMAIN cues |-> cues[i].time]
          IN IF cues = <<>> THEN Refuse("unsupported") /\ UNCHANGED media
             ELSE /\ at' = "gop" /\ UNCHANGED answer
                  /\ media' = [keyframes |-> Deduped(times), index |-> IndexOf(times, [i \in DOMAIN cues |-> cues[i].cluster]),
                               closed |-> video.codec \notin {"h264", "hevc", "other"},
                               dv |-> video.dv, recordless |-> FALSE,
                               mismatch |-> video.codec = "hevc" /\ ContradictoryProfile5(video.dv, video.colour),
                               bytes |-> BytesOf(found.tags, video.uid)]
  /\ UNCHANGED <<file, found, seeks, followed, box, wronged, faults>>

\* first_in_blocks: what the first of the track's frames that says anything says.
FirstIn(blocks, track, field) ==
  LET says == SelectSeq(blocks, LAMBDA b : b.track = track /\ b[field] # None)
  IN IF says = <<>> THEN None ELSE Head(says)[field]

\* A read of a cluster's start; None where it fails, is no cluster or does not reach far enough.
Audited(place, outcome, field) ==
  IF outcome = "whole" /\ place \in DOMAIN file.elements /\ ElementAt(place).id = "cluster"
  THEN FirstIn(ElementAt(place).body, found.tracks.video.number, field) ELSE None

VideoCues == CuesOf(found.cues, found.tracks.video.number)
SecondCueAsListed == VideoCues[SmallerOf(2, Len(VideoCues))]
SecondCue == InTime(VideoCues)[SmallerOf(2, Len(VideoCues))]
FirstCueAsListed == VideoCues[1]
FirstCue == InTime(VideoCues)[1]

\* keyframe_is_idr, of the second keyframe.
AuditGop ==
  /\ at = "gop" /\ at' = "rpu"
  /\ IF found.tracks.video.codec \notin {"h264", "hevc"} THEN UNCHANGED <<media, wronged, faults>>
     ELSE \E outcome \in Outcomes :
            /\ IF outcome = "whole" THEN UNCHANGED <<wronged, faults>> ELSE Wrong({"gop"}, 1)
            /\ media' = [media EXCEPT !.closed =
                           Audited(SecondCue.cluster, outcome, "idr") = TRUE]
  /\ UNCHANGED <<file, found, seeks, followed, box, answer>>

\* first_rpu_profile, where there is no record and no colour, or where the two contradict.
AuditRpu ==
  /\ at = "rpu" /\ Refuse("ok")
  /\ LET video == found.tracks.video
         recordless == video.codec = "hevc" /\ video.dv = None /\ RecordlessCandidate(video)
     IN IF ~recordless /\ ~media.mismatch THEN UNCHANGED <<media, wronged, faults>>
        ELSE \E outcome \in Outcomes :
               LET profile == Audited(FirstCue.cluster, outcome, "rpu")
               IN /\ IF outcome = "whole" THEN UNCHANGED <<wronged, faults>> ELSE Wrong({"rpu"}, 1)
                  /\ media' = CASE recordless /\ profile = 5 ->
                                     [media EXCEPT !.recordless = TRUE, !.dv = [profile |-> 5, compat |-> 0]]
                                [] media.mismatch /\ profile \in {7, 8} ->
                                     [media EXCEPT !.dv = [profile |-> profile,
                                                           compat |-> IF video.colour = "hlg" THEN 4 ELSE 1]]
                                [] OTHER -> media
  /\ UNCHANGED <<file, found, seeks, followed, box>>

-----------------------------------------------------------------------------
\* mp4::probe: from box to box, each header from the head or read, up to moov.
WalkBoxes ==
  /\ at = "head" /\ file.kind = "mp4"
  /\ \E outcome \in Outcomes :
       /\ box <= file.head \/ box > MaxBoxes => outcome = "whole"
       /\ IF outcome = "whole" THEN UNCHANGED <<wronged, faults>> ELSE Wrong({"box"}, 1)
       /\ CASE box > MaxBoxes -> Refuse("unsupported") /\ UNCHANGED box
            [] outcome = "failed" -> Refuse("fetch") /\ UNCHANGED box
            [] outcome = "short" \/ box \notin DOMAIN file.elements -> Refuse("unsupported") /\ UNCHANGED box
            [] OTHER -> IF ElementAt(box).id = "moov" THEN at' = "moov" /\ UNCHANGED <<box, answer>>
                        ELSE IF ElementAt(box).size = "refused" THEN Refuse("unsupported") /\ UNCHANGED box
                        ELSE box' = box + 1 /\ UNCHANGED <<at, answer>>
  /\ UNCHANGED <<file, found, seeks, followed, media>>

\* parse_trak's edit list: the empty edits before the first real one, and where that starts.
Edits(elst) ==
  FoldLeft(LAMBDA e, edit : IF e.done THEN e
                            ELSE IF edit[2] = -1 THEN [e EXCEPT !.empty = @ + edit[1]]
                            ELSE [e EXCEPT !.start = edit[2], !.done = TRUE],
           [empty |-> 0, start |-> 0, done |-> FALSE], elst)

\* parse_moov, of a video whose timescale is the film's.
ParseMoov(moov) ==
  LET video == moov.video
      edits == Edits(video.elst)
      ticks == KeyframeTicks(video.stbl, edits.start)
      times == [i \in DOMAIN ticks |-> ticks[i] + edits.empty]
      bytes == SyncSampleBytes(video.stbl)
      index == IF bytes = None THEN <<>> ELSE IF Len(bytes) # Len(times) THEN <<>> ELSE IndexOf(times, bytes)
  IN [keyframes |-> Deduped(times), index |-> index,
      closed |-> \/ video.codec \in {"av1", "vp9"}
                 \/ video.codec \in {"h264", "hevc"} /\ LeadingPictures(video.stbl) = FALSE,
      dv |-> video.dv, recordless |-> FALSE, mismatch |-> FALSE,
      bytes |-> TrackBytes(video.stbl.stsz)]

FetchMoov ==
  /\ at = "moov"
  /\ \E outcome \in Outcomes :
       /\ box <= file.head => outcome = "whole"
       /\ IF outcome = "whole" THEN UNCHANGED <<wronged, faults>> ELSE Wrong({"moov"}, 1)
       /\ LET moov == ElementAt(box).body
              got == Fetched(box, "moov", outcome)
          IN IF got.is # "ok" THEN Refuse(got.is) /\ UNCHANGED media
             ELSE IF moov.video = None THEN Refuse("unsupported") /\ UNCHANGED media
             ELSE IF KeyframeTicks(moov.video.stbl, 0) = None THEN Refuse("truncated") /\ UNCHANGED media
             ELSE IF KeyframeTicks(moov.video.stbl, 0) = <<>> THEN Refuse("unsupported") /\ UNCHANGED media
             ELSE Refuse("ok") /\ media' = ParseMoov(moov)
  /\ UNCHANGED <<file, found, seeks, followed, box>>

\* probe: what starts neither container.
Neither ==
  /\ at = "head" /\ file.kind \notin {"matroska", "mp4"}
  /\ Refuse("unsupported")
  /\ UNCHANGED <<file, found, seeks, followed, box, media, wronged, faults>>

Next ==
  \/ WalkHead \/ FetchPart("info", "tracks") \/ FetchPart("tracks", "cues")
  \/ FetchCues \/ FollowSeekHead \/ NoMoreCues \/ FetchTags
  \/ ParseMatroska \/ AuditGop \/ AuditRpu
  \/ WalkBoxes \/ FetchMoov \/ Neither

Spec == Init /\ [][Next]_vars

-----------------------------------------------------------------------------
Video == IF file.kind = "matroska" THEN found.tracks.video ELSE ElementAt(box).body.video
VideoPoints == {p \in Range(found.cues) : \E on \in Range(p.on) : on[1] = Video.number}
ShownOnFilm(sample) == Presented(Video.stbl, sample) - Edits(Video.elst).start + Edits(Video.elst).empty
Keyframes == Range(SyncSamples(Video.stbl, Len(Each(Video.stbl.stts))))

KeyframesExact ==
  answer = "ok" =>
    /\ Range(media.keyframes) = IF file.kind = "matroska" THEN {p.time : p \in VideoPoints}
                                ELSE {ShownOnFilm(sample) : sample \in Keyframes}
    /\ \A i, j \in DOMAIN media.keyframes : i < j => media.keyframes[i] < media.keyframes[j]

IndexAligned ==
  answer = "ok" /\ media.index # <<>> =>
    /\ [i \in DOMAIN media.index |-> media.index[i][1]] = media.keyframes
    /\ \A entry \in Range(media.index) :
         IF file.kind = "matroska"
           THEN \E p \in VideoPoints : p.time = entry[1] /\ <<Video.number, entry[2]>> \in Range(p.on)
           ELSE \E sample \in Keyframes :
                  ShownOnFilm(sample) = entry[1] /\ BytesBefore(Video.stbl, sample) = entry[2]

\* However the tables are cut into runs and the cue points ordered, the keyframes answered are
\* exactly those of the file's video, each once, ascending: every segment is cut at one of them
\* (MediaInfo::keyframes: "Keyframe presentation times in seconds, ascending").  A byte index has
\* every one of them, and beside each the bytes of that very keyframe, though samples are not
\* shown in the order they are stored and the two tables are walked apart.
IndexExact == KeyframesExact /\ IndexAligned

OpensOnIdr(place) == \E n \in DOMAIN ElementAt(place).body :
  LET b == ElementAt(place).body[n]
  IN /\ b.track = Video.number /\ b.idr = TRUE
     /\ \A m \in 1..(n - 1) : ElementAt(place).body[m].track = Video.number => ElementAt(place).body[m].idr = None

\* Segments are only said to stand alone where that was seen of the second keyframe on the film
\* (MediaInfo::closed_gops: "seen in the file, not assumed"): its cluster opens on an IDR, or none of
\* the pictures within Lookahead of it is shown before it.
ClosedSeen ==
  answer = "ok" /\ media.closed /\ Video.codec \notin {"av1", "vp9"} =>
    IF file.kind = "matroska"
      THEN \E p \in VideoPoints :
             /\ Cardinality({q \in VideoPoints : q.time < p.time}) = SmallerOf(1, Cardinality(VideoPoints) - 1)
             /\ \E on \in Range(p.on) : on[1] = Video.number /\ OpensOnIdr(on[2])
      ELSE \A a, b \in 1..Len(Each(Video.stbl.stts)) :
             /\ Cardinality({k \in Keyframes : k < a}) = 1 /\ a \in Keyframes
             /\ a < b /\ b < a + Lookahead /\ Keyframes \cap (a + 1)..b = {}
             => ShownOnFilm(b) >= ShownOnFilm(a)

RpuAtStart ==
  LET points == {p \in VideoPoints : \A q \in VideoPoints : p.time <= q.time}
      frames == UNION {{b \in Range(ElementAt(on[2]).body) : b.track = Video.number} :
                  on \in {o \in UNION {Range(p.on) : p \in points} :
                           o[1] = Video.number /\ o[2] \in DOMAIN file.elements /\ ElementAt(o[2]).id = "cluster"}}
  IN {b.rpu : b \in frames} \ {None}

\* A picture that plays tinted without its record is known for one: with no record and no colour
\* named, the film's first frame settles it, unless that could not be read; a record its colours
\* contradict is corrected by the same frame and by nothing else, and any other record stands.
DolbyVisionSeen ==
  answer = "ok" /\ file.kind = "matroska" =>
    LET unrecorded == Video.codec = "hevc" /\ Video.dv = None /\ Video.colour = "none" /\ ~Video.eightBit
    IN /\ media.recordless <=> unrecorded /\ RpuAtStart = {5} /\ "rpu" \notin wronged
       /\ ~media.recordless /\ media.dv # Video.dv <=>
            media.mismatch /\ "rpu" \notin wronged /\ RpuAtStart \subseteq {7, 8} /\ RpuAtStart # {}

ListedBy(places) == UNION {Range(ElementAt(p).body) : p \in places}
Reached(n) ==
  LET step[k \in 0..n] ==
        IF k = 0 THEN ListedBy({i \in 1..Len(Walked) : ElementAt(i).id = "seekhead"})
        ELSE step[k - 1] \cup ListedBy({s[2] : s \in {t \in step[k - 1] : t[1] = "seekhead"}})
  IN step[n]
InReach(id, n) ==
  \/ \E i \in 1..Len(Walked) : ElementAt(i).id = id
  \/ \E s \in Reached(n) : s[1] = id
SeeksRight == \A e \in Range(file.elements) : e.id = "seekhead" =>
  /\ e.size = "whole"
  /\ \A s \in Range(e.body) : s[2] \in DOMAIN file.elements /\ ElementAt(s[2]).id = s[1] /\ ElementAt(s[2]).size = "whole"

\* A file whose indexes its SeekHeads lead to, within those two, or whose moov can be reached.
Playable ==
  IF file.kind = "matroska"
    THEN /\ SeeksRight /\ InReach("info", 0) /\ InReach("tracks", 0)
         /\ \/ InReach("cues", 0)
            \/ InReach("cues", MaxFollowed) /\ Cardinality({s \in Reached(MaxFollowed) : s[1] = "seekhead"}) <= MaxFollowed
         /\ \A e \in Range(file.elements) :
              /\ e.id = "info" => e.body > 0
              /\ e.id = "tracks" => e.body.video # None
              /\ e.id = "cues" => \E p \in Range(e.body) : \E on \in Range(p.on) : on[1] = 1
    ELSE /\ file.kind = "mp4"
         /\ \E i \in DOMAIN file.elements :
              /\ i <= MaxBoxes /\ ElementAt(i).id = "moov" /\ ElementAt(i).size = "whole"
              /\ \A j \in 1..(i - 1) : ElementAt(j).id # "moov" /\ ElementAt(j).size # "refused"
              /\ ElementAt(i).body.video # None
              /\ KeyframeTicks(ElementAt(i).body.video.stbl, 0) \notin {None, <<>>}

\* What the file does not need costs it nothing: one whose indexes can be reached is refused only
\* where a read it needs went wrong, never for its tags or an audit, whatever order and however
\* often they fail (probe's comment: "a read of them that fails leaves the sizes unknown, and
\* costs nothing else").
NeededReadsOnly ==
  answer \notin {None, "ok"} /\ Playable => wronged \ {"tags", "gop", "rpu"} # {}
================================================================================
