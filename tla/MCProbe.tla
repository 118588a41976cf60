------------------------------- MODULE MCProbe -------------------------------
(* Releases small enough to enumerate: Matroska files of nine elements whose      *)
(* SeekHeads lead to, past or around the indexes, and MP4 tables of four samples. *)
EXTENDS Probe

E(id, body) == [id |-> id, size |-> "whole", body |-> body]
Block(track, idr, rpu) == [track |-> track, idr |-> idr, rpu |-> rpu]

\* Info, tracks, the two clusters of the film, cues and tags have their places; the first
\* SeekHead opens the file, the others close it.
Heads ==
  {<<<<"info", 2>>, <<"tracks", 3>>, <<"cues", 6>>, <<"tags", 7>>>>,
   <<<<"info", 2>>, <<"tracks", 3>>, <<"seekhead", 8>>, <<"tags", 7>>>>,
   <<<<"info", 2>>, <<"tracks", 3>>, <<"seekhead", 1>>, <<"seekhead", 8>>>>,
   <<<<"info", 2>>, <<"tracks", 3>>, <<"cues", 7>>>>,
   <<<<"tracks", 3>>>>}
Tails == {<<<<<<"cues", 6>>>>, <<>>>>, <<<<<<"seekhead", 9>>>>, <<<<"cues", 6>>>>>>,
          <<<<<<"seekhead", 9>>>>, <<<<"seekhead", 8>>, <<"seekhead", 1>>>>>>}

File(head, tail, reach, cut, video, first, second, cues) ==
  [kind |-> "matroska", head |-> reach,
   elements |-> [<<E("seekhead", head), E("info", 1), E("tracks", [video |-> video]),
                   E("cluster", first), E("cluster", second), E("cues", cues),
                   E("tags", <<[uids |-> {1}, bytes |-> 7], [uids |-> {1, 2}, bytes |-> 9]>>),
                   E("seekhead", tail[1]), E("seekhead", tail[2])>> EXCEPT ![6].size = cut]]

Track(codec, dv, colour, eightBit) ==
  [number |-> 1, uid |-> 1, codec |-> codec, dv |-> dv, colour |-> colour, eightBit |-> eightBit]
Five == [profile |-> 5, compat |-> 0]
Tracks == {Track("hevc", None, "none", FALSE), Track("hevc", None, "none", TRUE), Track("hevc", Five, "hlg", FALSE),
           Track("hevc", Five, "none", FALSE), Track("h264", None, "none", TRUE), Track("vp9", None, "none", FALSE)}
At(time, on) == [time |-> time, on |-> on]
Cues == {<<At(0, <<<<1, 4>>>>), At(2, <<<<2, 4>>, <<1, 5>>>>)>>, <<At(2, <<<<1, 5>>>>), At(0, <<<<1, 4>>>>)>>,
         <<At(1, <<<<2, 5>>>>), At(0, <<<<1, 4>>>>)>>, <<At(0, <<<<2, 4>>>>)>>}

Ordinary == <<At(0, <<<<1, 4>>>>), At(2, <<<<1, 5>>>>)>>
Idr == <<Block(1, TRUE, None)>>
Layouts == {File(h, t, r, c, Track("h264", None, "none", TRUE), Idr, Idr, Ordinary) :
              h \in Heads, t \in Tails, r \in {1, 3, 9}, c \in {"whole", "cut", "refused"}}
Films == {File(CHOOSE h \in Heads : <<"cues", 6>> \in Range(h), CHOOSE t \in Tails : TRUE, 3, "whole", v,
               <<Block(2, FALSE, 8), Block(1, TRUE, a)>>, <<Block(1, None, None), Block(1, i, b)>>, c) :
            v \in Tracks, a \in {None, 5, 8}, b \in {None, 5}, i \in {TRUE, FALSE, None}, c \in Cues}

\* An MP4's tables, the moov before or after the media.
Runs == {<<<<4, 1>>>>, <<<<1, 1>>, <<3, 2>>>>, <<<<2, 2>>, <<2, 1>>>>, <<<<3, 1>>, <<1, 0>>>>, <<<<2, 1>>, <<0, 1>>>>, <<>>}
Offsets == {None, <<<<4, 0>>>>, <<<<1, 2>>, <<3, 0>>>>, <<<<2, 1>>, <<1, 3>>, <<1, -1>>>>, <<<<3, 2>>, <<1, -2>>>>,
            <<<<1, 0>>, <<1, 3>>, <<2, 1>>>>, <<<<3, 0>>>>}
Syncs == {None, <<1>>, <<1, 3>>, <<1, 2, 4>>, <<2, 4>>, <<3, 1>>, <<1, 5>>, <<>>}
ByteTables == {None, [fixed |-> 3, count |-> 4, each |-> <<>>], [fixed |-> 0, count |-> 4, each |-> <<5, 1, 2, 4>>],
          [fixed |-> 0, count |-> 4, each |-> <<5, 1>>]}
Movie(runs, offsets, syncs, sizes, elst, codec) ==
  E("moov", [video |-> [codec |-> codec, dv |-> None, elst |-> elst,
                        stbl |-> [stts |-> runs, ctts |-> offsets, stss |-> syncs, stsz |-> sizes]]])
Movies == {[kind |-> "mp4", head |-> 1, elements |-> <<E("ftyp", None), Movie(r, o, s, z, e, "h264")>>] :
             r \in Runs, o \in Offsets, s \in Syncs, z \in ByteTables, e \in {<<>>, <<<<2, -1>>, <<0, 1>>, <<0, 3>>>>}}
Usual == Movie(<<<<4, 1>>>>, None, <<1, 3>>, None, <<>>, "hevc")
Placed == {[kind |-> "mp4", head |-> h, elements |-> e] : h \in {0, 1, 3},
            e \in {<<E("ftyp", None), E("mdat", None), Usual>>, <<E("ftyp", None), Usual, E("mdat", None)>>,
                   <<E("ftyp", None), E("free", None), E("mdat", None), Usual>>, <<E("moov", [video |-> None])>>,
                   <<[E("ftyp", None) EXCEPT !.size = "refused"], Usual>>, <<[Usual EXCEPT !.size = "cut"]>>,
                   <<E("ftyp", None), [E("mdat", None) EXCEPT !.size = "cut"]>>}}

MCInit ==
  /\ Init
  /\ \/ file \in Layouts \/ file \in Films \/ file \in Movies \/ file \in Placed
     \/ file = [kind |-> "avi", head |-> 0, elements |-> <<>>]
MCSpec == MCInit /\ [][Next]_vars
================================================================================
