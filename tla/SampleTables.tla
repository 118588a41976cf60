----------------------------- MODULE SampleTables -----------------------------
(* The sample tables of an MP4's track: stts (how long each sample lasts) and    *)
(* ctts (how long after its decoding it is shown) as runs <<count, value>>, stss *)
(* (which samples are keyframes) and stsz (their bytes).  What a table may hold  *)
(* is any sequence of integers: the file is somebody else's.                     *)
EXTENDS Integers, Sequences, SequencesExt

CONSTANTS
  MaxSamples,    \* MAX_SAMPLES
  MaxKeyframes,  \* MAX_KEYFRAMES
  Lookahead,     \* LEADING_LOOKAHEAD
  None

ASSUME TablesAssumption == MaxSamples \in Nat /\ MaxKeyframes \in Nat /\ Lookahead \in Nat

SmallerOf(a, b) == IF a <= b THEN a ELSE b
Total(f, upTo) == FoldLeft(LAMBDA sum, v : sum + v, 0, SubSeq(f, 1, upTo))
Counts(runs) == [r \in DOMAIN runs |-> runs[r][1]]

\* timing_runs: how many samples the runs cover.  A table with an empty run, or one that
\* covers more than any film has, is not read.
TimingRuns(runs) ==
  LET total == Total(Counts(runs), Len(runs))
  IN IF runs # <<>> /\ total <= MaxSamples /\ \A r \in DOMAIN runs : runs[r][1] > 0
     THEN total ELSE None

\* Where the walk of the runs stops for a sample: it steps over whole runs.
RunOf(runs, sample) ==
  CHOOSE r \in DOMAIN runs : /\ sample < 1 + Total(Counts(runs), r)
                             /\ \A s \in 1..(r - 1) : sample >= 1 + Total(Counts(runs), s)

DecodedAt(stts, sample) ==
  LET run == RunOf(stts, sample)
      start == 1 + Total(Counts(stts), run - 1)
  IN Total([r \in DOMAIN stts |-> stts[r][1] * stts[r][2]], run - 1) + (sample - start) * stts[run][2]

ShownAt(stbl, sample) ==
  DecodedAt(stbl.stts, sample)
    + (IF stbl.ctts = None THEN 0 ELSE stbl.ctts[RunOf(stbl.ctts, sample)][2])

SyncSamples(stbl, total) == IF stbl.stss = None THEN [i \in 1..total |-> i] ELSE stbl.stss

\* keyframe_ticks: when each sync sample is shown, in the table's order; None for tables
\* that do not fit each other, or sync samples that are not ascending or not there.
KeyframeTicks(stbl, mediaTime) ==
  LET total == TimingRuns(stbl.stts)
      sync == SyncSamples(stbl, total)
      fits == /\ stbl.ctts # None => TimingRuns(stbl.ctts) = total
              /\ Len(sync) <= MaxKeyframes
              /\ \A i \in DOMAIN sync : sync[i] > (IF i = 1 THEN 0 ELSE sync[i - 1]) /\ sync[i] <= total
  IN IF total = None THEN None
     ELSE IF fits THEN [i \in DOMAIN sync |-> ShownAt(stbl, sync[i]) - mediaTime] ELSE None

\* leading_pictures: whether a picture decoded between the second sync sample and the next
\* is shown before it; None where the tables do not say.
LeadingPictures(stbl) ==
  LET total == TimingRuns(stbl.stts)
      second == stbl.stss[2]
      next == IF Len(stbl.stss) >= 3 THEN stbl.stss[3] ELSE total + 1
      until == SmallerOf(next, SmallerOf(second + Lookahead, total + 1))
  IN IF total = None THEN None
     ELSE IF stbl.ctts = None THEN FALSE
     ELSE IF TimingRuns(stbl.ctts) = None THEN None
     ELSE IF stbl.stss = None THEN FALSE
     ELSE IF Len(stbl.stss) < 2 THEN FALSE
     ELSE IF TimingRuns(stbl.ctts) # total \/ second = 0 \/ second > total THEN None
     ELSE \E sample \in (second + 1)..(until - 1) : ShownAt(stbl, sample) < ShownAt(stbl, second)

\* The sizes of stsz: one for all samples, or one each.
Samples(stsz) == IF stsz.fixed > 0 THEN stsz.count ELSE Len(stsz.each)
Sizes(stsz) == IF stsz.fixed > 0 THEN [i \in 1..stsz.count |-> stsz.fixed] ELSE stsz.each

\* sync_sample_bytes: the video's bytes before each sync sample, in the table's order.
SyncSampleBytes(stbl) ==
  LET count == Samples(stbl.stsz)
      sync == SyncSamples(stbl, count)
      read == SubSeq(sync, 1, SmallerOf(Len(sync), MaxKeyframes))
      fits == /\ count <= MaxSamples
              /\ \A i \in DOMAIN read : read[i] >= (IF i = 1 THEN 1 ELSE read[i - 1]) /\ read[i] <= count
  IN IF stbl.stsz = None THEN None
     ELSE IF fits THEN [i \in DOMAIN read |-> Total(Sizes(stbl.stsz), read[i] - 1)] ELSE None

\* track_bytes.
TrackBytes(stsz) ==
  IF stsz = None THEN None
  ELSE IF Samples(stsz) > MaxSamples THEN None ELSE Total(Sizes(stsz), Samples(stsz))

-----------------------------------------------------------------------------
\* A reference: what the tables mean, sample by sample.
Each(runs) == FoldLeft(LAMBDA all, run : all \o [i \in 1..run[1] |-> run[2]], <<>>, runs)
Presented(stbl, sample) ==
  Total(Each(stbl.stts), sample - 1) + (IF stbl.ctts = None THEN 0 ELSE Each(stbl.ctts)[sample])
BytesBefore(stbl, sample) ==
  IF stbl.stsz.fixed > 0 THEN stbl.stsz.fixed * (sample - 1)
  ELSE FoldSet(LAMBDA s, sum : sum + stbl.stsz.each[s], 0, 1..(sample - 1))
================================================================================
