------------------------------- MODULE Playlist -------------------------------
(* playlist.rs' arithmetic: where a title is cut into segments, how many bits *)
(* each holds, and what a link must carry for a player that starts at one of  *)
(* them.  Times are whole ticks and bits whole units, so that a rate is units *)
(* a tick; the epsilons of the code's floats have nothing to do here.         *)
EXTENDS Integers, SequencesExt

CONSTANTS
  Target,    \* TARGET_SECS
  Slack,     \* START_SLACK, and the second segments_for_start backs up by
  NoSize,    \* a release whose size nobody knows, a player without a byte cap
  NoIndex    \* segment_bytes' and startup_delay's None and infinity

ASSUME TimesAssumption == Target \in Nat \ {0} /\ Slack \in Nat

Largest(S) == IF S = {} THEN 0 ELSE Max(S)

-----------------------------------------------------------------------------
(* Cuts.                                                                      *)

\* The segments between the times of `cuts`, ascending, and the end.
Between(cuts, duration) ==
  [i \in DOMAIN cuts |-> [start |-> cuts[i], end |-> IF i < Len(cuts) THEN cuts[i + 1] ELSE duration]]

LastTarget(k) == (k \div Target) * Target

\* The next multiple of the target past a cut, not past the last target.
NextTarget(k) == (k \div Target + 1) * Target

\* A cut at the first keyframe at or after each target, and at 0.
Segments(keyframes, duration) ==
  LET Cut(a, k) == IF k > 0 /\ k < duration /\ k >= a.next
                   THEN [cuts |-> Append(a.cuts, k), next |-> NextTarget(k)] ELSE a
      made == FoldLeft(Cut, [cuts |-> <<0>>, next |-> Target], keyframes)
  IN Between(made.cuts, duration)

BackedUp(start) == IF start > Slack THEN start - Slack ELSE 0

\* The keyframes that split the segment a player opens on: from the last at or before
\* its backed-up start, never that one in segment zero, up to the first past its start.
Splits(keyframes, window, start) ==
  LET all    == ToSet(keyframes)
      upTo   == {k \in all : k <= BackedUp(start)}
      before == IF upTo = {} THEN Min(all) ELSE Max(upTo)
      inside == {k \in all : k > window.start /\ k < window.end /\ ~(window.start = 0 /\ k = before)}
      past   == {k \in inside : k > start}
  IN {k \in inside : k >= before /\ (past # {} => k <= Min(past))}

\* Times from the first on.
InOrder(times) ==
  [i \in 1..Cardinality(times) |-> CHOOSE t \in times : Cardinality({u \in times : u < t}) = i - 1]

SegmentsForStart(keyframes, duration, start) ==
  LET ordinary == Segments(keyframes, duration)
      point    == IF BackedUp(start) < duration THEN BackedUp(start) ELSE duration
      windows  == {s \in ToSet(ordinary) : s.start <= point /\ point < s.end}
      cuts     == {s.start : s \in ToSet(ordinary)} \cup UNION {Splits(keyframes, s, start) : s \in windows}
  IN Between(InOrder(cuts), duration)

\* The segment a session's first job heads for.
StartSegment(segs, start) ==
  Largest({1} \cup {i \in DOMAIN segs : segs[i].start <= BackedUp(start)})

\* Where a session starts: a start at or past the end starts the title over.
EffectiveStart(start, duration) == IF start < duration THEN start ELSE 0

-----------------------------------------------------------------------------
(* Bits.                                                                      *)

Total(bits) == FoldLeft(LAMBDA sum, b : sum + b, 0, bits)

\* The bits of each segment, by the file's byte index, a sequence of <<time, offset>>,
\* scaled to add up to what is delivered where that is known.
SegmentBits(segs, index, size) ==
  LET first == index[1]
      last  == index[Len(index)]
      At(t) == LET upTo == {i \in DOMAIN index : index[i][1] <= t}
               IN IF upTo = {} THEN first[2]
                  ELSE IF Max(upTo) = Len(index)
                  THEN last[2] + ((t - last[1]) * (last[2] - first[2])) \div (last[1] - first[1])
                  ELSE index[Max(upTo)][2]
      bits  == [i \in DOMAIN segs |-> Largest({0, At(segs[i].end) - At(segs[i].start)})]
      total == Total(bits)
  IN IF Len(index) < 2 \/ last[1] <= first[1] \/ last[2] <= first[2] THEN NoIndex
     ELSE IF size = NoSize \/ total = 0 THEN bits
     ELSE [i \in DOMAIN bits |-> (bits[i] * size) \div total]

\* The bits of segments j..k.
Stretch(bits, j, k) == Total(SubSeq(bits, j, k))

NoStretch(segs, bits, from, buffer) == 0

\* What every stretch asks of a link whose player holds `buffer` ahead, in whole rates:
\* a player can't fetch a segment before it is within its buffer of it.
StretchRate(segs, bits, from, buffer) ==
  LET Span(j, k)  == segs[k].start - segs[j].start
      Asked(j, k) == {Stretch(bits, j, k) \div (buffer.secs + Span(j, k))} \cup
                     (IF buffer.bits = NoSize \/ Span(j, k) = 0 THEN {}
                      ELSE {(Stretch(bits, j, k) - buffer.bits) \div Span(j, k)})
  IN Largest({0} \cup UNION {Asked(x[1], x[2]) : x \in {y \in (from..Len(bits)) \X (from..Len(bits)) : y[1] <= y[2]}})

\* What a player that starts at segment `from` and waits `prebuffer` at most asks of it.
NeededRate(segs, bits, from, prebuffer, buffer) ==
  Largest({StretchRate(segs, bits, from, buffer)} \cup
          {Stretch(bits, from, k) \div (prebuffer + segs[k].start - segs[from].start) : k \in from..Len(bits)})

\* What a player at `rate` must have before it starts, so that it never runs dry: the
\* rate times its wait, which says the same with no fraction; NoIndex where none would do.
StartupDelay(segs, bits, from, rate, buffer) ==
  LET Span(j, k) == segs[k].start - segs[j].start
      Carried(j, k) == /\ Stretch(bits, j, k) <= rate * (buffer.secs + Span(j, k))
                       /\ buffer.bits # NoSize /\ Span(j, k) > 0 =>
                            Stretch(bits, j, k) - buffer.bits <= rate * Span(j, k)
  IN IF \E j \in from..Len(bits) : \E k \in j..Len(bits) : ~Carried(j, k) THEN NoIndex
     ELSE Largest({0} \cup {Stretch(bits, from, k) - rate * Span(from, k) : k \in from..Len(bits)})

-----------------------------------------------------------------------------
(* What the arithmetic stands for: a player on a link, tick by tick.          *)

\* A player that starts after `wait` ticks at segment `from` and plays on: it has each
\* segment whole when it comes to it, fetching at `rate` no further ahead than `buffer`.
NeverDry(segs, bits, from, rate, wait, buffer) ==
  LET n       == Len(bits)
      begin   == segs[from].start
      Upto(t) == \* the bits of the title before time t
        LET i == CHOOSE j \in from..n : segs[j].start <= t /\ (t < segs[j].end \/ j = n)
        IN Stretch(bits, from, i - 1) + (bits[i] * (t - segs[i].start)) \div (segs[i].end - segs[i].start)
      head    == [t \in 0..(wait + segs[n].start - begin) |-> IF t < wait THEN begin ELSE begin + t - wait]
      Within(t) == \* the bits of the segments the player is within its buffer of
        Stretch(bits, from, Max({i \in from..n : segs[i].start <= head[t] + buffer.secs}))
      Capped(t) == \* a whole segment is fetched whatever the cap
        IF buffer.bits = NoSize THEN Stretch(bits, from, n)
        ELSE Max({Upto(head[t]) + buffer.bits,
                     Stretch(bits, from, Max({i \in from..n : segs[i].start <= head[t]}))})
      had[t \in DOMAIN head] ==
        IF t = 0 THEN 0 ELSE Min({had[t - 1] + rate, Within(t - 1), Capped(t)})
  IN \A i \in from..n : had[wait + segs[i].start - begin] >= Stretch(bits, from, i)

=============================================================================
