------------------------------- MODULE Subtitles -------------------------------
(* A session's subtitles: which renditions its master playlist promises        *)
(* (subs.rs' plan, over create's own look at den-subtitles' list), and the one  *)
(* document of a rendition that den-subtitles serves, made once behind a lock   *)
(* that is held over every await (Session::subtitle, Session::den_best).        *)
(* Languages are compared as lang::canonical gives them, and stand here for     *)
(* what it gives.  The release's own tracks are served by GopWindow's runs.     *)
EXTENDS Integers, SequencesExt

CONSTANTS
  Films,         \* releases and what is asked of them, see Film
  English,       \* "en"
  Und,           \* UNDETERMINED
  None,          \* no language tag, no track, no list, no document
  MaxLanguages,  \* MAX_LANGUAGES
  Tries,         \* how many of a language's entries are tried
  Req,           \* requests that may be under way at once
  MaxBlips       \* bound: failures of den-subtitles and dropped requests

\* A release's tracks, the languages a viewer wants of its audio and its subtitles, whether
\* a den-subtitles install was sent, den-subtitles' list: what each entry is; and whether it
\* may ever answer with a list that cannot be parsed.
Film == [asked : Seq(STRING), prefs : Seq(STRING), install : BOOLEAN,
         audio : Seq([lang : STRING, default : BOOLEAN, commentary : BOOLEAN]),
         tracks : Seq([lang : STRING, text : BOOLEAN, forced : BOOLEAN, sdh : BOOLEAN]),
         list : Seq([lang : STRING, partial : BOOLEAN, body : {"full", "sparse", "dead"}]),
         garbles : BOOLEAN]

\* None is no list and no track, and what was asked for and the tracks are lists.
ASSUME FilmsAssumption ==
  /\ None \notin Nat
  /\ \A f \in Films : f.list # None /\ f.asked \in Seq(ToSet(f.asked)) /\ f.tracks \in Seq(ToSet(f.tracks))

ASSUME BoundsAssumption == MaxLanguages \in Nat \ {0} /\ Tries \in Nat /\ MaxBlips \in Nat

VARIABLES
  film,        \* the release, and den-subtitles' list for it
  renditions,  \* Session::renditions
  list,        \* Cache::list
  docs,        \* Cache::docs: the entry each rendition's document was made of
  told,        \* renditions whose playlist named the document, not the release's own track
  queue,       \* Subs::cache's lock: its holder and who waits for it, in order
  req,         \* what each request does
  blips

vars == <<film, renditions, list, docs, told, queue, req, blips>>

-----------------------------------------------------------------------------
(* The plan                                                                   *)

\* The k-th of places I, and what s has at them, in its order.
Nth(I, k) == CHOOSE i \in I : Cardinality({j \in I : j < i}) = k - 1
Among(s, I) == [k \in 1..Cardinality(I) |-> s[Nth(I, k)]]

\* Where s has what it did not have before.
Firsts(s) == {i \in DOMAIN s : \A j \in 1..(i - 1) : s[j] # s[i]}
Once(s) == Among(s, Firsts(s))

UpTo(s, n) == SubSeq(s, 1, Min({Len(s), n}))

\* The first of places I at which f is least; None where there is none.
FirstLeast(I, f) ==
  IF I = {} THEN None ELSE CHOOSE i \in I : \A j \in I : f[i] < f[j] \/ (f[i] = f[j] /\ i <= j)

\* The most wanted language a track is in, the default one of it, never a commentary.
PickAudio(tracks, prefs) ==
  LET usable == {i \in DOMAIN tracks : ~tracks[i].commentary}
      Best(I) == FirstLeast(I, [i \in DOMAIN tracks |-> IF tracks[i].default THEN 0 ELSE 1])
      Of(l)   == {i \in usable : tracks[i].lang = l}
      met     == SelectSeq(prefs, LAMBDA l : Of(l) # {})
  IN IF met # <<>> THEN Best(Of(met[1])) ELSE IF usable # {} THEN Best(usable) ELSE 1

AudioLang(f) == f.audio[PickAudio(f.audio, f.prefs)].lang

\* What create() takes of subtitleLanguages, and whether den-subtitles is asked at all.
Requested(f) == UpTo(Once(f.asked), MaxLanguages)
Asked(f) == f.install /\ f.asked # <<>>

\* FULL_TIER, SDH_TIER and FORCED_TIER; a dub wants them the other way round.
OwnTier(t) == IF t.forced THEN 2 ELSE IF t.sdh THEN 1 ELSE 0
EntryTier(e) == IF e.partial THEN 2 ELSE 0
InContext(tier, dub) == IF dub THEN 2 - tier ELSE tier

OwnWins(t, entry, dub) ==
  entry = None \/ InContext(OwnTier(t), dub) <= InContext(EntryTier(entry), dub)

BestOwnForced(tracks, lang, audioLang) ==
  FirstLeast({n \in DOMAIN tracks : tracks[n].text /\ tracks[n].lang = lang},
             [n \in DOMAIN tracks |-> InContext(OwnTier(tracks[n]), lang = audioLang)])

\* A forced track is a candidate only where the audio is a dub in its language.
BestOwn(tracks, lang, audioLang) ==
  FirstLeast({n \in DOMAIN tracks : /\ tracks[n].text /\ tracks[n].lang = lang
                                    /\ lang = audioLang \/ ~tracks[n].forced},
             [n \in DOMAIN tracks |-> InContext(OwnTier(tracks[n]), lang = audioLang)])

BestUndetermined(tracks) ==
  FirstLeast({n \in DOMAIN tracks : tracks[n].text /\ tracks[n].lang = None /\ ~tracks[n].forced},
             [n \in DOMAIN tracks |-> OwnTier(tracks[n])])

Own(f, lang) ==
  IF lang = Und THEN BestUndetermined(f.tracks) ELSE BestOwn(f.tracks, lang, AudioLang(f))

Listed(entries, lang) == \E i \in DOMAIN entries : entries[i].lang = lang

\* The first language asked for, English, the others asked for, the audio's; then the
\* release's own in the order its tracks first name them.
Preferred(f) == UpTo(Requested(f), 1) \o <<English>> \o Requested(f) \o <<AudioLang(f)>>
Keys(f) == [n \in DOMAIN f.tracks |->
  LET t == f.tracks[n] IN IF ~t.text THEN None ELSE IF t.lang = None THEN Und ELSE t.lang]

Rendition(f, known, l) ==
  [lang |-> l, own |-> Own(f, l),
   den |-> l \in ToSet(Preferred(f)) /\ Asked(f) /\ (Own(f, l) # None \/ Listed(known, l))]

\* Of each of these, where something can be shown in it, as many as there is room for.
Plan(f, known) ==
  LET wanted   == Preferred(f) \o Keys(f)
      Shows(l) == Rendition(f, known, l).own # None \/ Rendition(f, known, l).den
      langs    == Among(wanted, {i \in Firsts(wanted) : wanted[i] # None /\ Shows(wanted[i])})
  IN [n \in 1..Min({Len(langs), MaxLanguages}) |-> Rendition(f, known, langs[n])]

-----------------------------------------------------------------------------
(* The requests                                                               *)

Free == [at |-> "free", n |-> 0, todo |-> <<>>, sparse |-> <<>>]

\* create() asks den-subtitles for its list before it promises anything, and takes a
\* failure for an empty one; what it got is not kept.
Init ==
  /\ film \in Films
  /\ \E had \in {film.list, <<>>} : renditions = Plan(film, had)
  /\ list = None
  /\ docs = [n \in 1..MaxLanguages |-> None]
  /\ told = {n \in DOMAIN renditions : renditions[n].own = None}
  /\ queue = <<>>
  /\ req = [r \in Req |-> Free]
  /\ blips = 0

Den(n) == n \in DOMAIN renditions /\ renditions[n].den

\* A rendition's playlist asks for the list only where both could play it; the document
\* is asked for by who was told of it.
Ask(r, n, at) ==
  /\ req[r].at = "free" /\ Den(n)
  /\ IF at = "playlist" THEN renditions[n].own # None ELSE n \in told
  /\ req' = [req EXCEPT ![r] = [Free EXCEPT !.at = at, !.n = n]]
  /\ queue' = Append(queue, r)
  /\ UNCHANGED <<film, renditions, list, docs, told, blips>>

Holds(r) == queue # <<>> /\ Head(queue) = r
Answer(r) == req' = [req EXCEPT ![r] = Free] /\ queue' = Tail(queue)
Goes(r, as) == req' = [req EXCEPT ![r] = as] /\ UNCHANGED queue

\* The entries of `entries` a document of rendition n may be made of, in their order.
Offered(entries, n) ==
  LET of == {i \in DOMAIN entries : entries[i].lang = renditions[n].lang}
  IN [k \in 1..Min({Cardinality(of), Tries}) |-> Nth(of, k)]

\* den_best: the first listed in rendition n's language.
DenBest(entries, n) ==
  LET lang == renditions[n].lang
  IN IF Listed(entries, lang)
     THEN entries[CHOOSE i \in DOMAIN entries : entries[i].lang = lang /\ \A j \in 1..i-1 : entries[j].lang # lang]
     ELSE None

TriedOnce(r, todo, sparse) ==
  IF todo = <<>> THEN Answer(r) ELSE Goes(r, [req[r] EXCEPT !.at = "strict", !.todo = todo, !.sparse = sparse])

\* What is fetched next: the offered one after another, then those refused as sparse.
Tried(r, todo, sparse) ==
  CASE todo # <<>> -> Goes(r, [req[r] EXCEPT !.at = "strict", !.todo = todo, !.sparse = sparse])
    [] todo = <<>> /\ sparse # <<>> -> Goes(r, [req[r] EXCEPT !.at = "sparse", !.todo = sparse, !.sparse = <<>>])
    [] OTHER -> Answer(r)

\* What an answered playlist names: the release's own track, or where den-subtitles' best
\* entry outranks it, the document.
Names(entries, n) ==
  LET r == renditions[n]
  IN told' = IF OwnWins(film.tracks[r.own], DenBest(entries, n), r.lang = AudioLang(film))
             THEN told ELSE told \cup {n}

\* The list was asked for: a playlist's answer is read off it, a document is looked for.
Offers(r, entries) ==
  IF req[r].at = "playlist" THEN Names(entries, req[r].n) /\ Answer(r)
  ELSE Tried(r, Offered(entries, req[r].n), <<>>) /\ UNCHANGED told

HoldUnchecked(r) ==
  /\ Holds(r) /\ req[r].at \in {"playlist", "document"} /\ list # None
  /\ Offers(r, list)
  /\ UNCHANGED <<film, renditions, list, docs, blips>>

\* The lock is had and the list is: what was made while the request waited is sent.
Hold(r) ==
  /\ Holds(r) /\ req[r].at \in {"playlist", "document"} /\ list # None
  /\ IF req[r].at = "document" /\ docs[req[r].n] # None THEN Answer(r) /\ UNCHANGED told ELSE Offers(r, list)
  /\ UNCHANGED <<film, renditions, list, docs, blips>>

\* Mutant: a list that could not be had is kept as an empty one.
ListKept(r, how) ==
  /\ Holds(r) /\ req[r].at \in {"playlist", "document"} /\ list = None
  /\ how # "answered" => blips < MaxBlips
  /\ how = "garbled" => film.garbles
  /\ blips' = IF how = "answered" THEN blips ELSE blips + 1
  /\ list' = IF how = "answered" THEN film.list ELSE <<>>
  /\ Offers(r, IF how = "answered" THEN film.list ELSE <<>>)
  /\ UNCHANGED <<film, renditions, docs>>

\* list_subtitles: kept once it answers, and what can't be parsed is an empty list.
List(r, how) ==
  /\ Holds(r) /\ req[r].at \in {"playlist", "document"} /\ list = None
  /\ how # "answered" => blips < MaxBlips
  /\ how = "garbled" => film.garbles
  /\ blips' = IF how = "answered" THEN blips ELSE blips + 1
  /\ list' = CASE how = "answered" -> film.list [] how = "garbled" -> <<>> [] OTHER -> None
  /\ Offers(r, IF how = "answered" THEN film.list ELSE <<>>)
  /\ UNCHANGED <<film, renditions, docs>>

\* Mutant: an entry that could not be had is kept as a document without cues.
FetchKept(r, blip) ==
  LET entry == Head(req[r].todo)
      body  == film.list[entry].body
      found == ~blip /\ (body = "full" \/ (body = "sparse" /\ req[r].at = "sparse"))
  IN /\ Holds(r) /\ req[r].at \in {"strict", "sparse"}
     /\ blip => blips < MaxBlips
     /\ blips' = IF blip THEN blips + 1 ELSE blips
     /\ docs' = [docs EXCEPT ![req[r].n] = IF found THEN entry ELSE 0]
     /\ Answer(r)
     /\ UNCHANGED <<film, renditions, list, told>>

\* fetch_subtitle, plain or with sparse=1.
Fetch(r, blip) ==
  LET entry == Head(req[r].todo)
      body  == film.list[entry].body
      found == ~blip /\ (body = "full" \/ (body = "sparse" /\ req[r].at = "sparse"))
      named == ~blip /\ body = "sparse" /\ req[r].at = "strict"
  IN /\ Holds(r) /\ req[r].at \in {"strict", "sparse"}
     /\ blip => blips < MaxBlips
     /\ blips' = IF blip THEN blips + 1 ELSE blips
     /\ docs' = IF found THEN [docs EXCEPT ![req[r].n] = entry] ELSE docs
     /\ IF found THEN Answer(r)
        ELSE Tried(r, Tail(req[r].todo), IF named THEN Append(req[r].sparse, entry) ELSE req[r].sparse)
     /\ UNCHANGED <<film, renditions, list, told>>

\* The player goes away: the lock, and the place in its queue, are given up.
Drop(r) ==
  /\ req[r].at # "free" /\ blips < MaxBlips
  /\ req' = [req EXCEPT ![r] = Free] /\ queue' = RemoveFirst(queue, r)
  /\ blips' = blips + 1
  /\ UNCHANGED <<film, renditions, list, docs, told>>

Works(r) ==
  \/ Hold(r)
  \/ \E how \in {"answered", "garbled", "failed"} : List(r, how)
  \/ \E blip \in BOOLEAN : Fetch(r, blip)

Next ==
  \/ \E r \in Req, n \in 1..MaxLanguages, at \in {"playlist", "document"} : Ask(r, n, at)
  \/ \E r \in Req : Works(r) \/ Drop(r)

Spec == Init /\ [][Next]_vars

\* den-subtitles answers or times out, and a player asks again for what it was not given.
Fairness ==
  /\ \A r \in Req : WF_vars(Works(r))
  /\ \A n \in 1..MaxLanguages : SF_vars(\E r \in Req : Ask(r, n, "document"))

FairSpec == Spec /\ Fairness

-----------------------------------------------------------------------------
\* What is promised can be shown, and nothing better is left out: one rendition a
\* language, no bitmap, no forced track but with a dub, of each language's tracks the
\* best for this audio; den-subtitles only where it is asked and names the language or
\* may outrank the release; the first language asked for, then English, and past the
\* cap only what was less wanted is missing (plan's own comments).
PromisedWell ==
  LET langs == {renditions[n].lang : n \in DOMAIN renditions}
      wants == ToSet(Requested(film)) \cup {English, AudioLang(film)}
      Dub(l) == l # Und /\ l = AudioLang(film)
      Usable(t, l) == t.text /\ (IF l = Und THEN t.lang = None ELSE t.lang = l) /\ (t.forced => Dub(l))
      Better(t, u, l) == InContext(OwnTier(t), Dub(l)) < InContext(OwnTier(u), Dub(l))
      Shows(l) == \E t \in ToSet(film.tracks) : Usable(t, l)
  IN /\ Len(renditions) <= MaxLanguages /\ Cardinality(langs) = Len(renditions)
     /\ \A n \in DOMAIN renditions :
          LET r == renditions[n] IN
          /\ r.own # None =>
               /\ Usable(film.tracks[r.own], r.lang)
               /\ \A m \in DOMAIN film.tracks : Usable(film.tracks[m], r.lang) =>
                    ~Better(film.tracks[m], film.tracks[r.own], r.lang) /\ (m < r.own => Better(film.tracks[r.own], film.tracks[m], r.lang))
          /\ r.own = None => ~Shows(r.lang) /\ r.den
          /\ r.den => Asked(film) /\ r.lang \in wants /\ (r.own = None => Listed(film.list, r.lang))
          /\ r.lang = English => n <= 2
          /\ Requested(film) # <<>> /\ r.lang = Requested(film)[1] => n = 1
     /\ \A l \in (wants \cup {t.lang : t \in ToSet(film.tracks)} \cup {Und}) \ (langs \cup {None}) : Shows(l) =>
          /\ Len(renditions) = MaxLanguages
          /\ l \in wants => langs \subseteq wants

\* Each download costs the viewer's quota: none is made for a rendition that has its
\* document, whoever asks for it meanwhile, nor where the release's own track does as well
\* for this audio as the best that is listed (own_wins' own comment).
FetchedOnce ==
  \A r \in Req : req[r].at \in {"strict", "sparse"} =>
    LET rendition == renditions[req[r].n]
        dub       == rendition.lang = AudioLang(film)
        best      == CHOOSE i \in DOMAIN list : list[i].lang = rendition.lang /\ \A j \in 1..i-1 : list[j].lang # rendition.lang
    IN /\ docs[req[r].n] = None
       /\ rendition.own # None =>
            InContext(EntryTier(list[best]), dub) < InContext(OwnTier(film.tracks[rendition.own]), dub)

\* What den-subtitles serves of what is tried for rendition n, whole or sparse.
Served(n) ==
  IF Den(n) THEN {i \in ToSet(Offered(film.list, n)) : film.list[i].body # "dead"} ELSE {}

\* A blip leaves no session without subtitles: a rendition den-subtitles has a file for gets
\* that document however its first requests went. Neither a list nor a document that could
\* not be had is kept; only a list that came and could not be parsed is, as an empty one.
Heals ==
  \A n \in 1..MaxLanguages :
    n \in told /\ Served(n) # {} ~> docs[n] \in Served(n) \/ (film.garbles /\ list = <<>>)

=============================================================================
