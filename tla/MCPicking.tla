------------------------------ MODULE MCPicking ------------------------------
(* Five releases of one title, five players, and the requests they make.  The *)
(* unit of a rate is 100 kbit/s, of time a second.                             *)
EXTENDS Picking

CONSTANTS p5, hdr, avc, junk, hd

Five == {p5, hdr, avc, junk, hd}
Deceived == {hdr}
ScoutsList == <<p5, junk, hdr, hd, avc>>

\* job.rs' HD1080, HD720 and SD540.
ThePresets == <<[rate |-> 80, floor |-> 40], [rate |-> 30, floor |-> 20], [rate |-> 15, floor |-> 10]>>

Blind == [h264 |-> 0, high10 |-> 0, main |-> 0, main10 |-> 0, highTier |-> 0, hdr |-> FALSE,
          av1 |-> 0, av1x10 |-> 0, av1hdr |-> FALSE, vp9 |-> FALSE, vp9x2 |-> FALSE,
          p5 |-> FALSE, p8 |-> FALSE, eac3 |-> FALSE, flac |-> FALSE, aac51 |-> FALSE, aac71 |-> FALSE]
\* A television that shows Dolby Vision 5, one that shows none, a
\* browser that takes H.264 alone, and a desktop's.
Tv == [Blind EXCEPT !.h264 = 52, !.main = 153, !.main10 = 153, !.hdr = TRUE, !.p5 = TRUE, !.p8 = TRUE]
Screen == [Tv EXCEPT !.p5 = FALSE, !.p8 = FALSE]
Plain == [Blind EXCEPT !.h264 = 42]
Desk == [Blind EXCEPT !.h264 = 52, !.high10 = 52, !.main = 123, !.main10 = 120, !.hdr = TRUE, !.av1 = 8,
         !.av1x10 = 13, !.vp9x2 = TRUE]

Video(v, level, isHdr, dv, wrong) ==
  [video |-> v, named |-> TRUE, profile |-> IF v = "hevc" THEN 2 ELSE 100, level |-> level, high |-> FALSE,
   depth |-> 0, hdr |-> isHdr, transfer |-> IF isHdr THEN "PQ" ELSE "none", dv |-> dv, mismatch |-> wrong]

\* Lengths in seconds, their keyframes apart as they like.
File4(container, info, keyframes, index, size, videoBits, tracks) ==
  [container |-> container, info |-> info, keyframes |-> keyframes, duration |-> 24, index |-> index,
   size |-> size, videoBits |-> videoBits, picked |-> 1,
   audio |-> [i \in 1..tracks |-> [codec |-> IF i = 1 THEN "aac" ELSE "eac3", channels |-> 6, bits |-> NoSize]]]

\* Heavy throughout, heavy at its start, heavy in its middle, nothing, and unindexed.
TheFiles == [r \in Five |->
  CASE r = p5   -> File4("media", Video("hevc", 150, TRUE, [profile |-> 5, compat |-> 0], FALSE),
                         <<0, 6, 12, 18>>, <<<<0, 0>>, <<6, 400>>, <<12, 800>>, <<18, 1200>>>>, 1600, NoSize, 1)
    [] r = hdr  -> File4("media", Video("hevc", 150, TRUE, [profile |-> 5, compat |-> 0], TRUE),
                         <<1, 6, 8, 12, 17, 19, 24>>, <<<<1, 10>>, <<6, 154>>, <<12, 214>>, <<19, 298>>>>, NoSize, NoSize, 2)
    [] r = avc  -> File4("media", Video("h264", 41, FALSE, NoDV, FALSE), <<0, 4, 7, 9, 11, 13, 15, 18, 21>>,
                         <<<<0, 0>>, <<7, 35>>, <<9, 60>>, <<13, 167>>, <<18, 252>>>>, 900, 600, 1)
    [] r = junk -> File4("neither", Video("other", 0, FALSE, NoDV, FALSE), <<>>, <<>>, 0, NoSize, 0)
    [] OTHER    -> File4("media", Video("hevc", 120, FALSE, NoDV, FALSE), <<0, 20>>, <<<<0, 0>>>>, 1440, NoSize, 1)]

Listed(codec, uhd, isHdr, bits, dv) ==
  [codec |-> codec, uhd |-> uhd, hdr |-> isHdr, bits |-> bits, dv |-> dv, probed |-> FALSE,
   cached |-> TRUE, threeD |-> FALSE, leftOut |-> FALSE, sized |-> TRUE]

TheAttributes == [r \in Five |->
  CASE r = p5   -> Listed("hevc", TRUE, TRUE, 10, 0)
    [] r = hdr  -> Listed("hevc", TRUE, TRUE, 10, 5)
    [] r = avc  -> Listed("h264", FALSE, FALSE, 8, 0)
    [] r = junk -> Listed("unnamed", FALSE, FALSE, 0, 0)
    [] OTHER    -> Listed("unnamed", FALSE, FALSE, 0, 0)]

Home(p) == [player |-> p, codecs |-> {}, link |-> NoLink, others |-> 0, holds |-> "native", start |-> 0,
            named |-> Nobody, exclude |-> {}, track |-> 0, noTranscode |-> FALSE, fitsOnly |-> FALSE]

TheBuffers == [native |-> [secs |-> 6, bits |-> NoSize], hlsjs |-> [secs |-> 12, bits |-> 270]]
TheAacRate == [stereo |-> 3] @@ ("5.1" :> 4) @@ ("7.1" :> 4)

\* At home and resuming, on a link that carries a 720p transcode, on one that carries
\* none, on one that other sessions use; a release named, another switched away from,
\* and none to be converted.
TheWants ==
  {Home(Tv), [Home(Screen) EXCEPT !.start = 13], Home(Plain), [Home(NoReport) EXCEPT !.codecs = {"h264"}, !.start = 8],
   [Home(Tv) EXCEPT !.link = 60, !.start = 14],
   [Home(Plain) EXCEPT !.link = 60, !.others = 67, !.holds = "hlsjs"], [Home(Plain) EXCEPT !.link = 12, !.start = 30],
   [Home(Tv) EXCEPT !.link = 36, !.exclude = {hdr}], [Home(Tv) EXCEPT !.link = 36, !.named = hd],
   [Home(NoReport) EXCEPT !.link = 40, !.named = avc, !.exclude = {hdr}], [Home(Screen) EXCEPT !.link = 60],
   [Home(Plain) EXCEPT !.noTranscode = TRUE, !.named = p5], [Home(Tv) EXCEPT !.link = 36, !.fitsOnly = TRUE],
   [Home(Tv) EXCEPT !.named = hdr, !.track = 2, !.start = 10], [Home(Desk) EXCEPT !.named = avc, !.track = 2]}
==============================================================================
