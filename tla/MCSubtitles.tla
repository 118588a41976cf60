----------------------------- MODULE MCSubtitles -----------------------------
(* Films in three languages, room for two renditions.                         *)
EXTENDS Subtitles, TLC

CONSTANTS r1, r2

Voice(lang, default) == [lang |-> lang, default |-> default, commentary |-> FALSE]
Text(lang, forced, sdh) == [lang |-> lang, text |-> TRUE, forced |-> forced, sdh |-> sdh]
Bitmap(lang) == [lang |-> lang, text |-> FALSE, forced |-> FALSE, sdh |-> FALSE]
Entry(lang, partial, body) == [lang |-> lang, partial |-> partial, body |-> body]

Langs == {"en", "fi", None}
Tracks == {Text(l, f, s) : l \in Langs, f \in BOOLEAN, s \in BOOLEAN} \cup {Bitmap("fi")}

\* Every pair of own tracks, before a third; no den-subtitles.
Alone ==
  [asked : {<<>>, <<"fi">>, <<"sv", "fi">>}, prefs : {<<>>, <<"fi">>}, install : {FALSE},
   audio : {<<Voice("en", FALSE), Voice("fi", TRUE)>>, <<[Voice("fi", TRUE) EXCEPT !.commentary = TRUE], Voice(None, FALSE)>>},
   tracks : {<<t, u, Text("sv", FALSE, FALSE)>> : t, u \in Tracks}, list : {<<>>},
   garbles : {FALSE}]

\* den-subtitles lists a dead entry before the one that serves, a sparse one, or more
\* than are tried; the release has a track of its own for one of the languages or none;
\* with and without a list that may come garbled.
Helped ==
  [asked : {<<"fi", "sv">>}, prefs : {<<>>, <<"fi">>}, install : {TRUE},
   audio : {<<Voice("en", TRUE), Voice("fi", FALSE)>>},
   tracks : {<<>>, <<Text("sv", FALSE, TRUE)>>, <<Text("fi", TRUE, FALSE), Text("fi", FALSE, TRUE)>>},
   list : {<<Entry("sv", FALSE, "dead"), Entry("fi", TRUE, "sparse"), Entry("fi", FALSE, "dead"), Entry("sv", FALSE, "full")>>,
           <<Entry("fi", FALSE, "dead"), Entry("fi", FALSE, "dead"), Entry("en", TRUE, "sparse"), Entry("fi", FALSE, "full")>>},
   garbles : BOOLEAN]

TheFilms == Alone \cup Helped
==============================================================================
