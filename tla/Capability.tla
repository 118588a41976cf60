----------------------------- MODULE Capability -----------------------------
(* What a player decodes, and so what becomes of a release on it: session.rs' *)
(* pure half.  A player's report is a record of the levels its own tests      *)
(* found; what a probe read of a file (an `info`) and what scout says of one  *)
(* unopened (its `attributes`) are records of the fields the code reads.      *)
(* Rates are in one unit throughout, whatever it is.                          *)
EXTENDS Naturals, FiniteSets, Sequences

CONSTANTS
  NoReport,     \* a player that sent no `playable`
  NoLink,       \* a player at home, which sent no `maxBitrate`
  NoDV,         \* a video without Dolby Vision
  Presets,      \* the transcodes' sizes, sharpest first: [rate, floor] each
  AudioMax      \* the most audio a session adds to its video

ASSUME PresetsAssumption ==
  /\ Presets \in Seq([rate : Nat, floor : Nat]) /\ Presets # <<>>
  /\ AudioMax \in Nat

Larger(a, b) == IF a > b THEN a ELSE b
Smaller(a, b) == IF a < b THEN a ELSE b

-----------------------------------------------------------------------------
(* Playable::takes.  A file whose codec string is missing names no level, and *)
(* any level is taken.                                                        *)

Fits(max, info) == max > 0 /\ (info.named => info.level <= max)

HevcMax(p, info) ==
  IF ~info.named THEN Larger(p.main, p.main10)
  ELSE CASE info.high          -> p.highTier
         [] info.profile = 1   -> Larger(p.main, p.main10)
         [] info.profile = 2   -> p.main10
         [] OTHER              -> 0

\* `depth` is 0 where the codec string names none.
Av1Max(p, info) ==
  IF info.named /\ (info.profile # 0 \/ info.high) THEN 0
  ELSE CASE info.depth = 10        -> p.av1x10
         [] info.depth \in {0, 8}  -> Larger(p.av1, p.av1x10)
         [] OTHER                  -> 0

Takes(p, info) ==
  CASE info.video = "h264" -> Fits(IF info.named /\ info.profile = 110 THEN p.high10 ELSE p.h264, info)
    [] info.video = "hevc" -> Fits(HevcMax(p, info), info) /\ (info.hdr => p.hdr)
    [] info.video = "av1"  -> Fits(Av1Max(p, info), info) /\ (info.hdr => p.av1hdr)
    [] info.video = "vp9"  -> /\ info.named
                              /\ \/ info.profile = 0 /\ p.vp9
                                 \/ info.profile = 2 /\ info.depth = 10 /\ p.vp9x2
    [] OTHER -> FALSE

TakesHevc(p) == p.main > 0 \/ p.main10 > 0
TakesAv1(p)  == p # NoReport /\ (p.av1 > 0 \/ p.av1x10 > 0)
TakesVp9(p)  == p # NoReport /\ (p.vp9 \/ p.vp9x2)

\* `codecs` is the request's videoCodecs, which a report decides over.
PlayerTakesHevc(p, codecs) ==
  IF p = NoReport THEN codecs = {} \/ "hevc" \in codecs ELSE TakesHevc(p)

Plays(p, hevc, info) ==
  IF p # NoReport THEN Takes(p, info)
  ELSE IF info.video = "hevc" THEN hevc ELSE info.video \notin {"av1", "vp9"}

-----------------------------------------------------------------------------
(* Dolby Vision: which profile HLS has a name for, and which a copy keeps.    *)

HasFallback(dv) == dv.compat # 0

\* CODECS and SUPPLEMENTAL-CODECS are told apart only by which of them names it.
DVSignal(dv) ==
  CASE dv.profile = 5                   -> [own |-> TRUE,  range |-> "PQ"]
    [] dv.profile = 8 /\ dv.compat = 1  -> [own |-> FALSE, range |-> "PQ"]
    [] dv.profile = 8 /\ dv.compat = 2  -> [own |-> FALSE, range |-> "SDR"]
    [] dv.profile = 8 /\ dv.compat = 4  -> [own |-> FALSE, range |-> "HLG"]
    [] OTHER -> NoDV

KeepsDV(dv, p) ==
  /\ p # NoReport
  /\ DVSignal(dv) # NoDV
  /\ dv.profile = 5 => p.p5
  /\ dv.profile = 8 => p.p8

KeptDV(info, transcoded, p) ==
  /\ info.dv # NoDV
  /\ ~transcoded
  /\ ~info.mismatch
  /\ KeepsDV(info.dv, p)

NoPicture(p, hevc, info) ==
  /\ ~info.mismatch
  /\ info.dv # NoDV
  /\ ~HasFallback(info.dv)
  /\ ~(KeepsDV(info.dv, p) /\ Plays(p, hevc, info))

\* The VIDEO-RANGE of a copied variant that keeps no Dolby Vision: an AV1 by the
\* transfer its codec string names, an HEVC or VP9 by PQ unless its is HLG.
CopiedRange(info) ==
  CASE info.video = "av1" /\ info.named              -> info.transfer
    [] info.video \in {"hevc", "vp9"} /\ info.hdr    -> IF info.transfer = "HLG" THEN "HLG" ELSE "PQ"
    [] OTHER -> "none"

\* What create() puts in the master playlist, and what it tells ffmpeg (Dovi).
Variant(info, transcoded, p) ==
  LET kept == KeptDV(info, transcoded, p)
  IN [dovi  |-> IF info.dv = NoDV THEN "absent" ELSE IF kept THEN "keep" ELSE "strip",
      named |-> kept,
      range |-> IF kept THEN DVSignal(info.dv).range
                ELSE IF transcoded THEN "none" ELSE CopiedRange(info)]

\* Whether a transcode of it is mapped to SDR.
Tonemaps(info) == info.hdr \/ (info.dv # NoDV /\ info.dv.compat # 2)

-----------------------------------------------------------------------------
(* A track's codec and channels, and what the player is sent for it.          *)

AudioPlan(codec, channels, p) ==
  IF p = NoReport THEN "stereo"
  ELSE CASE codec \in {"eac3", "ac3"} /\ p.eac3 -> "copy"
         [] codec = "flac" /\ p.flac            -> "copy"
         [] OTHER -> IF channels >= 8 /\ p.aac71 THEN "7.1"
                     ELSE IF channels >= 6 /\ p.aac51 THEN "5.1" ELSE "stereo"

-----------------------------------------------------------------------------
(* fit(): the same question asked of scout's attributes, before it is opened. *)
(* codec "unnamed" where the title names none; bits is 0, 8 or 10.            *)

\* 3840 x 2160 needs level 5.1 of H.264, 5.0 of HEVC (150) and of AV1 (12).
FitReported(a, p) ==
  LET ten  == a.bits >= 10
      h264 == IF ten /\ (a.probed \/ ~a.hdr) THEN p.high10 ELSE p.h264
      hevc == IF ten THEN p.main10 ELSE Larger(p.main, p.main10)
      av1  == IF ten THEN p.av1x10 ELSE Larger(p.av1, p.av1x10)
      vp9  == CASE a.bits = 0 -> p.vp9 \/ p.vp9x2 [] ten -> p.vp9x2 [] OTHER -> p.vp9
      Short(max, least) == max = 0 \/ (a.uhd /\ max < least)
  IN CASE a.codec = "h264" /\ Short(h264, 51)                          -> "never"
       [] a.codec = "hevc" /\ (Short(hevc, 150) \/ (a.hdr /\ ~p.hdr))  -> "convert"
       [] a.codec = "av1" /\ (Short(av1, 12) \/ (a.hdr /\ ~p.av1hdr))  -> "never"
       [] a.codec = "vp9" /\ ~vp9                                      -> "never"
       [] OTHER -> "copy"

FitUnreported(a, hevc) ==
  CASE a.codec \in {"av1", "vp9"}  -> "never"
    [] a.codec = "hevc" /\ ~hevc   -> "convert"
    [] OTHER -> "copy"

Fit(a, p, hevc) ==
  IF a.dv = 5 /\ (p = NoReport \/ ~p.p5) THEN "convert"
  ELSE IF p = NoReport THEN FitUnreported(a, hevc)
  ELSE FitReported(a, p)

-----------------------------------------------------------------------------
(* POST /remux/releases: what the probe of a release found, and before that   *)
(* what scout says of it, as a verdict for one player.                        *)

ProbedVerdict(info, p, hevc) ==
  CASE NoPicture(p, hevc, info)  -> "no"
    [] ~NoPicture(p, hevc, info) /\ Plays(p, hevc, info) -> "yes"
    [] OTHER -> IF info.video = "hevc" /\ ~NoPicture(p, hevc, info) THEN "convert" ELSE "no"

ScoutedVerdict(a, p, hevc) ==
  CASE Fit(a, p, hevc) = "copy"     -> "yes"
    [] Fit(a, p, hevc) = "convert"  -> "convert"
    [] OTHER -> "no"

\* candidates(): what the browser could take with only its audio re-encoded.
Remuxable(a, p) ==
  /\ a.cached
  /\ ~a.threeD
  /\ ~a.leftOut                 \* a container named as one the probe can't open
  /\ a.codec = "av1" => TakesAv1(p)
  /\ a.codec = "vp9" => TakesVp9(p)
  /\ a.codec # "other"

-----------------------------------------------------------------------------
(* What the link carries.                                                     *)

\* The player's own measurement, narrowed by what other sessions leave of the
\* box's uplink; a player at home is never narrowed.
Budgeted(own, uplink, others) ==
  CASE own = NoLink                        -> NoLink
    [] own # NoLink /\ uplink = NoLink     -> own
    [] OTHER -> Smaller(own, IF uplink > others THEN uplink - others ELSE 0)

\* A copy that needs `rate`, 0 where nothing says what it needs.
Over(link, rate) == link # NoLink /\ rate > link

\* preset_for(): the sharpest size whose peak, half again its rate, fits beside
\* the audio; 0 for a link below the last floor.
PresetRate(link) ==
  LET Carries == IF link = NoLink THEN 0
                 ELSE IF link > AudioMax THEN (2 * (link - AudioMax)) \div 3 ELSE 0
      Fitting == {i \in DOMAIN Presets : Smaller(Presets[i].rate, Carries) >= Presets[i].floor}
      First   == CHOOSE i \in Fitting : \A j \in Fitting : i <= j
  IN IF link = NoLink THEN Presets[1].rate
     ELSE IF Fitting = {} THEN 0 ELSE Smaller(Presets[First].rate, Carries)

=============================================================================
