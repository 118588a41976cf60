---------------------------- MODULE SubtitlesProofs ----------------------------
(* For any releases, lists, tracks and requests: no document is downloaded that is  *)
(* there, or that the release's own track does as well as, and a master playlist     *)
(* promises what the viewer asked for and can be shown.                             *)
EXTENDS Subtitles, SequenceTheorems, FiniteSetTheorems, WellFoundedInduction,
        TLAPS

USE FilmsAssumption, BoundsAssumption

Fields == {"at", "n", "todo", "sparse"}
Fetching == {"strict", "sparse"}

Typed ==
  /\ film \in Films
  /\ DOMAIN req = Req
  /\ \A r \in Req : DOMAIN req[r] = Fields /\ (req[r].at # "free" => req[r].n \in 1..MaxLanguages)
  /\ queue \in Seq(Req)
  /\ DOMAIN docs = 1..MaxLanguages

\* Who fetches holds the lock, and found no document and a list under it.
Alone == \A r \in Req : req[r].at \in Fetching => Holds(r) /\ docs[req[r].n] = None /\ list # None

\* A document is asked for only where a playlist told of it,
Named == \A r \in Req : req[r].at \in {"document"} \cup Fetching => req[r].n \in told

\* made only of a list,
Kept == \A n \in 1..MaxLanguages : docs[n] # None => list # None

\* and told of in place of an own track only where the best of the list outranks it.
Outranked(entries, n) ==
  /\ Listed(entries, renditions[n].lang)
  /\ ~OwnWins(film.tracks[renditions[n].own], DenBest(entries, n), renditions[n].lang = AudioLang(film))
Better == \A n \in told : renditions[n].own # None => list # None /\ Outranked(list, n)

Inv == Typed /\ Alone /\ Named /\ Kept /\ Better

-----------------------------------------------------------------------------
(* The lock's queue *)

LEMMA LeastIs ==
  ASSUME NEW I, I \subseteq Nat, I # {}
  PROVE  Min(I) \in I /\ \A k \in I : Min(I) <= k
<1>1. \E m \in I : \A k \in I : <<k, m>> \notin OpToRel(<, Nat)
  BY NatLessThanWellFounded, WFMin
<1>2. PICK m \in I : \A k \in I : ~(k < m)
  BY <1>1 DEF OpToRel
<1>3. \A k \in I : m <= k
  BY <1>2
<1> QED BY <1>3 DEF Min

LEMMA FirstIndex ==
  ASSUME NEW q \in Seq(Req), NEW r \in Req, \E i \in 1..Len(q) : q[i] = r
  PROVE  \E k \in 1..Len(q) : q[k] = r /\ RemoveFirst(q, r) = SubSeq(q, 1, k - 1) \o SubSeq(q, k + 1, Len(q))
<1> DEFINE I == {i \in 1..Len(q) : q[i] = r}
           k == Min(I)
<1>1. k \in I
  <2>1. I \subseteq Nat /\ I # {}
    OBVIOUS
  <2> HIDE DEF I
  <2> QED BY <2>1, LeastIs
<1>2. SelectInSeq(q, LAMBDA v : v = r) = k
  BY DEF SelectInSeq
<1>3. RemoveFirst(q, r) = SubSeq(q, 1, k - 1) \o SubSeq(q, k + 1, Len(q))
  BY <1>2 DEF RemoveFirst, RemoveAt
<1> HIDE DEF k
<1> QED BY <1>1, <1>3

\* What is left of a queue without one of it are the others.
LEMMA RemovedIs ==
  ASSUME NEW q \in Seq(Req), NEW r \in Req
  PROVE  RemoveFirst(q, r) \in Seq(Req)
<1>1. CASE ~(\E i \in 1..Len(q) : q[i] = r)
  BY <1>1 DEF RemoveFirst
<1>2. CASE \E i \in 1..Len(q) : q[i] = r
  <2>1. PICK k \in 1..Len(q) : RemoveFirst(q, r) = SubSeq(q, 1, k - 1) \o SubSeq(q, k + 1, Len(q))
    BY <1>2, FirstIndex
  <2>2. /\ Len(q) \in Nat /\ k \in Nat
        /\ \A i \in 1..(k - 1) : q[i] \in Req
        /\ \A i \in (k + 1)..Len(q) : q[i] \in Req
    BY <2>1
  <2>3. SubSeq(q, 1, k - 1) \in Seq(Req) /\ SubSeq(q, k + 1, Len(q)) \in Seq(Req)
    BY <2>2, SubSeqProperties
  <2> QED BY <2>1, <2>3, ConcatProperties
<1> QED BY <1>1, <1>2

\* Who is not the first leaves the first where it is.
LEMMA FirstStays ==
  ASSUME NEW q \in Seq(Req), q # <<>>, NEW r \in Req, Head(q) # r
  PROVE  LET s == RemoveFirst(q, r) IN s \in Seq(Req) /\ s # <<>> /\ Head(s) = Head(q)
<1>1. CASE ~(\E i \in 1..Len(q) : q[i] = r)
  BY <1>1 DEF RemoveFirst
<1>2. CASE \E i \in 1..Len(q) : q[i] = r
  <2>1. PICK k \in 1..Len(q) : /\ q[k] = r
                              /\ RemoveFirst(q, r) = SubSeq(q, 1, k - 1) \o SubSeq(q, k + 1, Len(q))
    BY <1>2, FirstIndex
  <2> DEFINE a == SubSeq(q, 1, k - 1)
             b == SubSeq(q, k + 1, Len(q))
  <2>2. RemoveFirst(q, r) = a \o b
    BY <2>1
  <2>3. k \in 1..Len(q) /\ k # 1 /\ Len(q) \in Nat
    BY <2>1
  <2>4. a \in Seq(Req) /\ Len(a) = k - 1 /\ a[1] = q[1]
    <3>1. \A i \in 1..(k - 1) : q[i] \in Req
      BY <2>3
    <3> QED BY <2>3, <3>1, SubSeqProperties
  <2>5. b \in Seq(Req)
    <3>1. \A i \in (k + 1)..Len(q) : q[i] \in Req
      BY <2>3
    <3> QED BY <2>3, <3>1, SubSeqProperties
  <2> HIDE DEF a, b
  <2>6. a \o b \in Seq(Req) /\ Len(a \o b) = Len(a) + Len(b) /\ (a \o b)[1] = a[1] /\ Len(b) \in Nat
    <3>1. Len(b) \in Nat /\ 1 \in 1..(Len(a) + Len(b)) /\ 1 <= Len(a)
      BY <2>3, <2>4, <2>5
    <3> QED BY <2>4, <2>5, <3>1, ConcatProperties
  <2>7. a \o b # <<>> /\ Head(a \o b) = Head(q)
    BY <2>3, <2>4, <2>6
  <2> QED BY <2>2, <2>6, <2>7
<1> QED BY <1>1, <1>2

-----------------------------------------------------------------------------
(* What the holder does *)

\* A step of the holder ends its request or leaves it fetching what it asked for.
GoesOn(r) == \E as : Goes(r, as) /\ DOMAIN as = Fields /\ as.n = req[r].n /\ as.at \in Fetching

LEMMA TriedIs ==
  ASSUME Typed, NEW r \in Req, NEW todo, NEW sparse, Tried(r, todo, sparse)
  PROVE  /\ Answer(r) \/ GoesOn(r)
         /\ todo = <<>> /\ sparse = <<>> => Answer(r)
<1>1. DOMAIN req[r] = Fields
  BY DEF Typed
<1>2. CASE todo # <<>>
  <2> DEFINE as == [req[r] EXCEPT !.at = "strict", !.todo = todo, !.sparse = sparse]
  <2>1. Goes(r, as)
    BY <1>2 DEF Tried
  <2>2. DOMAIN as = Fields /\ as.n = req[r].n /\ as.at = "strict"
    BY <1>1 DEF Fields
  <2> HIDE DEF as
  <2> QED BY <1>2, <2>1, <2>2 DEF GoesOn, Fetching
<1>3. CASE todo = <<>> /\ sparse # <<>>
  <2> DEFINE as == [req[r] EXCEPT !.at = "sparse", !.todo = sparse, !.sparse = <<>>]
  <2>1. Goes(r, as)
    BY <1>3 DEF Tried
  <2>2. DOMAIN as = Fields /\ as.n = req[r].n /\ as.at = "sparse"
    BY <1>1 DEF Fields
  <2> HIDE DEF as
  <2> QED BY <1>3, <2>1, <2>2 DEF GoesOn, Fetching
<1>4. CASE todo = <<>> /\ sparse = <<>>
  BY <1>4 DEF Tried
<1> QED BY <1>2, <1>3, <1>4

\* Nothing is offered of an empty list.
LEMMA NothingOffered == ASSUME NEW n PROVE Offered(<<>>, n) = <<>> /\ DenBest(<<>>, n) = None
<1> DEFINE of == {i \in DOMAIN <<>> : <<>>[i].lang = renditions[n].lang}
<1>1. of = {}
  OBVIOUS
<1>2. Cardinality(of) = 0
  BY <1>1, FS_EmptySet
<1>3. Min({0, Tries}) = 0
  <2>1. Tries \in Nat
    BY BoundsAssumption
  <2> QED BY <2>1 DEF Min
<1>4. Offered(<<>>, n) = <<>>
  <2>1. Offered(<<>>, n) = [k \in 1..Min({Cardinality(of), Tries}) |-> Nth(of, k)]
    BY DEF Offered
  <2> HIDE DEF of
  <2> QED BY <1>2, <1>3, <2>1
<1>5. ~Listed(<<>>, renditions[n].lang)
  BY DEF Listed
<1> QED BY <1>4, <1>5 DEF DenBest

\* While one holds the lock no other fetches, and what the holder does leaves it so.
LEMMA HolderSteps ==
  ASSUME Typed, Alone, Named, NEW r \in Req, Holds(r), Answer(r) \/ GoesOn(r)
  PROVE  /\ DOMAIN req' = Req /\ queue' \in Seq(Req)
         /\ \A x \in Req \ {r} : req'[x] = req[x] /\ req[x].at \notin Fetching
         /\ DOMAIN req'[r] = Fields
         /\ Answer(r) => req'[r].at = "free"
         /\ ~Answer(r) => req'[r].at \in Fetching /\ req'[r].n = req[r].n /\ Holds(r)'
<1>1. \A x \in Req \ {r} : req[x].at \notin Fetching
  BY DEF Alone, Holds
<1>2. queue # <<>> /\ queue \in Seq(Req) /\ Tail(queue) \in Seq(Req) /\ DOMAIN req = Req
  BY DEF Typed, Holds
<1>3. CASE Answer(r)
  <2>1. req' = [req EXCEPT ![r] = Free] /\ queue' = Tail(queue)
    BY <1>3 DEF Answer
  <2>2. DOMAIN Free = Fields /\ Free.at = "free"
    BY DEF Free, Fields
  <2> QED BY <1>1, <1>2, <1>3, <2>1, <2>2
<1>4. CASE ~Answer(r)
  <2>1. PICK as : Goes(r, as) /\ DOMAIN as = Fields /\ as.n = req[r].n /\ as.at \in Fetching
    BY <1>4 DEF GoesOn
  <2>2. req' = [req EXCEPT ![r] = as] /\ queue' = queue
    BY <2>1 DEF Goes
  <2> QED BY <1>1, <1>2, <1>4, <2>1, <2>2 DEF Holds
<1> QED BY <1>3, <1>4

-----------------------------------------------------------------------------
(* Every step *)

\* What was told of stays so while list, release and renditions are the same.
LEMMA BetterStays == ASSUME Better, UNCHANGED <<film, renditions, list, told>> PROVE Better'
<1>1. \A n : Outranked(list, n) => Outranked(list, n)'
  BY DEF Outranked, DenBest, AudioLang
<1> QED BY <1>1 DEF Better

LEMMA InitInv == Init => Inv
<1> SUFFICES ASSUME Init PROVE Inv
  OBVIOUS
<1>1. /\ film \in Films /\ list = None /\ docs = [n \in 1..MaxLanguages |-> None]
      /\ told = {n \in DOMAIN renditions : renditions[n].own = None}
      /\ queue = <<>> /\ req = [r \in Req |-> Free]
  BY DEF Init
<1>2. DOMAIN Free = Fields /\ Free.at = "free"
  BY DEF Free, Fields
<1>3. Typed
  BY <1>1, <1>2 DEF Typed
<1>4. Alone /\ Named
  BY <1>1, <1>2 DEF Alone, Named, Fetching
<1>5. Kept /\ Better
  BY <1>1 DEF Kept, Better
<1> QED BY <1>3, <1>4, <1>5 DEF Inv

LEMMA AskInv ==
  ASSUME Inv, NEW r \in Req, NEW n \in 1..MaxLanguages, NEW as \in {"playlist", "document"}, Ask(r, n, as)
  PROVE  Inv'
<1> USE DEF Inv
<1> DEFINE asked == [Free EXCEPT !.at = as, !.n = n]
<1>1. /\ req[r].at = "free" /\ req' = [req EXCEPT ![r] = asked] /\ queue' = Append(queue, r)
      /\ UNCHANGED <<film, renditions, list, docs, told>> /\ (as = "document" => n \in told)
  BY DEF Ask
<1>2. DOMAIN asked = Fields /\ asked.at = as /\ asked.n = n
  BY DEF Free, Fields
<1> HIDE DEF asked
<1>3. DOMAIN req = Req /\ queue \in Seq(Req)
  BY DEF Typed
<1>4. req'[r] = asked /\ \A x \in Req \ {r} : req'[x] = req[x]
  BY <1>1, <1>3
<1>5. Typed'
  BY <1>1, <1>2, <1>3, <1>4 DEF Typed
<1>6. Alone'
  <2> SUFFICES ASSUME NEW x \in Req, req'[x].at \in Fetching
               PROVE  Holds(x)' /\ docs[req'[x].n] = None /\ list # None
    BY <1>1 DEF Alone
  <2>1. x # r /\ req'[x] = req[x]
    BY <1>2, <1>4 DEF Fetching
  <2>2. Holds(x) /\ docs[req[x].n] = None /\ list # None
    BY <2>1 DEF Alone
  <2>3. Append(queue, r) # <<>> /\ Head(Append(queue, r)) = Head(queue)
    BY <2>2, <1>3, AppendProperties DEF Holds
  <2> QED BY <1>1, <2>1, <2>2, <2>3 DEF Holds
<1>7. Named'
  <2> SUFFICES ASSUME NEW x \in Req, req'[x].at \in {"document"} \cup Fetching PROVE req'[x].n \in told
    BY <1>1 DEF Named
  <2>1. CASE x = r
    BY <1>1, <1>2, <1>4, <2>1 DEF Fetching
  <2>2. CASE x # r
    BY <1>4, <2>2 DEF Named
  <2> QED BY <2>1, <2>2
<1>8. Kept' /\ Better'
  BY <1>1, BetterStays DEF Kept
<1> QED BY <1>5, <1>6, <1>7, <1>8

\* The holder's step leaves requests and lock as they should be, where what is fetched
\* next is not there and was told of.
LEMMA HolderKeeps ==
  ASSUME Inv, NEW r \in Req, Holds(r), Answer(r) \/ GoesOn(r), req[r].at # "free", told \subseteq told',
         UNCHANGED film, DOMAIN docs' = DOMAIN docs,
         list # None => list' # None,
         \A n \in 1..MaxLanguages : docs'[n] # docs[n] => n = req[r].n,
         ~Answer(r) => docs'[req[r].n] = None /\ list' # None /\ req[r].n \in told
  PROVE  Typed' /\ Alone' /\ Named'
<1>1. Typed /\ Alone /\ Named
  BY DEF Inv
<1>2. /\ DOMAIN req' = Req /\ queue' \in Seq(Req)
      /\ \A x \in Req \ {r} : req'[x] = req[x] /\ req[x].at \notin Fetching
      /\ DOMAIN req'[r] = Fields
      /\ Answer(r) => req'[r].at = "free"
      /\ ~Answer(r) => req'[r].at \in Fetching /\ req'[r].n = req[r].n /\ Holds(r)'
  BY <1>1, HolderSteps
<1>3. \A x \in Req : DOMAIN req'[x] = Fields /\ (req'[x].at # "free" => req'[x].n \in 1..MaxLanguages)
  <2>1. req[r].n \in 1..MaxLanguages
    BY <1>1 DEF Typed
  <2>2. \A x \in Req \ {r} : DOMAIN req'[x] = Fields /\ (req'[x].at # "free" => req'[x].n \in 1..MaxLanguages)
    BY <1>1, <1>2 DEF Typed
  <2> QED BY <1>2, <2>1, <2>2
<1>4. Typed'
  BY <1>1, <1>2, <1>3 DEF Typed
<1>5. Alone'
  <2> SUFFICES ASSUME NEW x \in Req, req'[x].at \in Fetching
               PROVE  Holds(x)' /\ docs'[req'[x].n] = None /\ list' # None
    BY DEF Alone
  <2>1. x = r /\ ~Answer(r)
    BY <1>2 DEF Fetching
  <2> QED BY <1>2, <2>1
<1>6. Named'
  <2> SUFFICES ASSUME NEW x \in Req, req'[x].at \in {"document"} \cup Fetching
               PROVE  req'[x].n \in told'
    BY DEF Named
  <2>1. CASE x = r
    <3>1. ~Answer(r)
      BY <1>2, <2>1 DEF Fetching
    <3> QED BY <1>2, <2>1, <3>1
  <2>2. CASE x # r
    BY <1>1, <1>2, <2>2 DEF Named
  <2> QED BY <2>1, <2>2
<1> QED BY <1>4, <1>5, <1>6

\* What the playlists told of stays outranked, and what they tell of now is.
LEMMA OffersInv ==
  ASSUME Inv, NEW r \in Req, Holds(r), req[r].at \in {"playlist", "document"}, NEW entries, Offers(r, entries),
         UNCHANGED <<film, renditions, docs>>,
         \/ entries = list' /\ list' # None /\ (list # None => list' = list)
         \/ entries = <<>> /\ list = None,
         req[r].at = "document" => docs[req[r].n] = None
  PROVE  Inv'
<1> USE DEF Inv
<1> DEFINE n == req[r].n
<1>1. list # None => list' # None
  OBVIOUS
<1>2. Answer(r) \/ GoesOn(r)
  <2>1. CASE req[r].at = "playlist"
    BY <2>1 DEF Offers
  <2>2. CASE req[r].at # "playlist"
    BY <2>2, TriedIs DEF Offers
  <2> QED BY <2>1, <2>2
<1>3. ~Answer(r) => docs'[n] = None /\ list' # None /\ n \in told
  <2> SUFFICES ASSUME ~Answer(r) PROVE docs'[n] = None /\ list' # None /\ n \in told
    OBVIOUS
  <2>1. req[r].at = "document" /\ Tried(r, Offered(entries, n), <<>>)
    BY DEF Offers
  <2>2. entries # <<>>
    <3> SUFFICES ASSUME entries = <<>> PROVE FALSE
      OBVIOUS
    <3>1. Offered(entries, n) = <<>>
      BY NothingOffered
    <3> QED BY <2>1, <3>1, TriedIs
  <2> QED BY <2>1, <2>2 DEF Named
<1>4. told' = told \/ (told' = told \cup {n} /\ Outranked(entries, n))
  <2>1. CASE req[r].at = "playlist"
    <3>1. Names(entries, n)
      BY <2>1 DEF Offers
    <3>2. CASE OwnWins(film.tracks[renditions[n].own], DenBest(entries, n), renditions[n].lang = AudioLang(film))
      BY <3>1, <3>2 DEF Names
    <3>3. CASE ~OwnWins(film.tracks[renditions[n].own], DenBest(entries, n), renditions[n].lang = AudioLang(film))
      <4>1. told' = told \cup {n}
        BY <3>1, <3>3 DEF Names
      <4>2. DenBest(entries, n) # None
        BY <3>3 DEF OwnWins
      <4>3. Listed(entries, renditions[n].lang)
        BY <4>2 DEF DenBest
      <4> QED BY <3>3, <4>1, <4>3 DEF Outranked
    <3> QED BY <3>2, <3>3
  <2>2. CASE req[r].at # "playlist"
    BY <2>2 DEF Offers
  <2> QED BY <2>1, <2>2
<1>5. Typed' /\ Alone' /\ Named'
  <2>1. told \subseteq told'
    BY <1>4
  <2>2. req[r].at # "free" /\ DOMAIN docs' = DOMAIN docs /\ docs' = docs
    OBVIOUS
  <2> QED BY <1>1, <1>2, <1>3, <2>1, <2>2, HolderKeeps
<1>6. Kept'
  BY <1>1 DEF Kept
<1>7. Better'
  <2> SUFFICES ASSUME NEW m \in told', renditions[m].own # None
               PROVE  list' # None /\ Outranked(list', m)
    BY DEF Better, Outranked, DenBest, AudioLang
  <2>1. CASE m \in told
    <3>1. list # None /\ Outranked(list, m)
      BY <2>1 DEF Better
    <3> QED BY <3>1
  <2>2. CASE m \notin told
    <3>1. m = n /\ Outranked(entries, n)
      BY <1>4, <2>2
    <3>2. entries # <<>>
      BY <3>1 DEF Outranked, Listed
    <3> QED BY <3>1, <3>2
  <2> QED BY <2>1, <2>2
<1> QED BY <1>5, <1>6, <1>7

LEMMA HoldInv == ASSUME Inv, NEW r \in Req, Hold(r) PROVE Inv'
<1>1. /\ Holds(r) /\ req[r].at \in {"playlist", "document"} /\ list # None
      /\ UNCHANGED <<film, renditions, list, docs>>
  BY DEF Hold
<1>2. CASE req[r].at = "document" /\ docs[req[r].n] # None
  <2> USE DEF Inv
  <2>1. Answer(r) /\ told' = told
    BY <1>2 DEF Hold
  <2>2. Typed' /\ Alone' /\ Named'
    BY <1>1, <2>1, HolderKeeps
  <2>3. Kept'
    BY <1>1, <2>1 DEF Kept
  <2>4. Better'
    BY <1>1, <2>1, BetterStays
  <2> QED BY <2>2, <2>3, <2>4
<1>3. CASE ~(req[r].at = "document" /\ docs[req[r].n] # None)
  <2>1. Offers(r, list)
    BY <1>3 DEF Hold
  <2> QED BY <1>1, <1>3, <2>1, OffersInv
<1> QED BY <1>2, <1>3

LEMMA ListInv ==
  ASSUME Inv, NEW r \in Req, NEW how \in {"answered", "garbled", "failed"}, List(r, how)
  PROVE  Inv'
<1> DEFINE entries == IF how = "answered" THEN film.list ELSE <<>>
<1>1. /\ Holds(r) /\ req[r].at \in {"playlist", "document"} /\ list = None /\ Offers(r, entries)
      /\ UNCHANGED <<film, renditions, docs>> /\ (how = "answered" => list' = film.list)
  BY DEF List
<1>2. req[r].at = "document" => docs[req[r].n] = None
  BY <1>1 DEF Inv, Typed, Kept
<1>3. film.list # None
  BY DEF Inv, Typed
<1>4. (entries = list' /\ list' # None) \/ entries = <<>>
  BY <1>1, <1>3
<1> HIDE DEF entries
<1> QED BY <1>1, <1>2, <1>4, OffersInv

LEMMA FetchInv == ASSUME Inv, NEW r \in Req, NEW blip \in BOOLEAN, Fetch(r, blip) PROVE Inv'
<1> USE DEF Inv
<1>1. /\ Holds(r) /\ req[r].at \in Fetching /\ UNCHANGED <<film, renditions, list, told>>
  BY DEF Fetch, Fetching
<1>2. req[r].n \in told /\ docs[req[r].n] = None /\ list # None /\ req[r].at # "free" /\ DOMAIN docs = 1..MaxLanguages
  BY <1>1 DEF Named, Alone, Fetching, Typed
<1>3. \/ Answer(r) /\ \E entry : docs' = [docs EXCEPT ![req[r].n] = entry]
      \/ docs' = docs /\ (Answer(r) \/ GoesOn(r))
  <2> DEFINE entry == Head(req[r].todo)
             body == film.list[entry].body
             found == ~blip /\ (body = "full" \/ (body = "sparse" /\ req[r].at = "sparse"))
             named == ~blip /\ body = "sparse" /\ req[r].at = "strict"
             left == Tail(req[r].todo)
             refused == IF named THEN Append(req[r].sparse, entry) ELSE req[r].sparse
  <2>1. /\ docs' = (IF found THEN [docs EXCEPT ![req[r].n] = entry] ELSE docs)
        /\ IF found THEN Answer(r) ELSE Tried(r, left, refused)
    BY DEF Fetch
  <2> HIDE DEF entry, found, left, refused
  <2>2. CASE found
    BY <2>1, <2>2
  <2>3. CASE ~found
    BY <2>1, <2>3, TriedIs
  <2> QED BY <2>2, <2>3
<1>4. DOMAIN docs' = DOMAIN docs /\ \A n \in 1..MaxLanguages : docs'[n] # docs[n] => n = req[r].n
  BY <1>2, <1>3
<1>5. ~Answer(r) => docs'[req[r].n] = None
  BY <1>2, <1>3
<1>6. Typed' /\ Alone' /\ Named'
  BY <1>1, <1>2, <1>3, <1>4, <1>5, HolderKeeps
<1>7. Kept'
  BY <1>1, <1>2 DEF Kept
<1>8. Better'
  BY <1>1, BetterStays
<1> QED BY <1>6, <1>7, <1>8

LEMMA DropInv == ASSUME Inv, NEW r \in Req, Drop(r) PROVE Inv'
<1> USE DEF Inv
<1>1. /\ req' = [req EXCEPT ![r] = Free] /\ queue' = RemoveFirst(queue, r)
      /\ UNCHANGED <<film, renditions, list, docs, told>>
  BY DEF Drop
<1>2. DOMAIN Free = Fields /\ Free.at = "free"
  BY DEF Free, Fields
<1>3. DOMAIN req = Req /\ queue \in Seq(Req) /\ DOMAIN docs = 1..MaxLanguages
  BY DEF Typed
<1>4. DOMAIN req' = Req /\ req'[r] = Free /\ \A x \in Req \ {r} : req'[x] = req[x]
  BY <1>1, <1>3
<1>5. queue' \in Seq(Req)
  BY <1>1, <1>3, RemovedIs
<1>6. Typed'
  BY <1>1, <1>2, <1>3, <1>4, <1>5 DEF Typed
<1>7. Alone'
  <2> SUFFICES ASSUME NEW x \in Req, req'[x].at \in Fetching
               PROVE  Holds(x)' /\ docs[req'[x].n] = None /\ list # None
    BY <1>1 DEF Alone
  <2>1. x # r /\ req'[x] = req[x]
    BY <1>2, <1>4 DEF Fetching
  <2>2. Holds(x) /\ docs[req[x].n] = None /\ list # None
    BY <2>1 DEF Alone
  <2>3. queue # <<>> /\ Head(queue) # r /\ Head(queue) = x
    BY <2>1, <2>2 DEF Holds
  <2>4. queue' # <<>> /\ Head(queue') = x
    BY <1>1, <1>3, <2>3, FirstStays
  <2> QED BY <2>1, <2>2, <2>4 DEF Holds
<1>8. Named'
  BY <1>1, <1>2, <1>4 DEF Named, Fetching
<1>9. Kept' /\ Better'
  BY <1>1, BetterStays DEF Kept
<1> QED BY <1>6, <1>7, <1>8, <1>9

LEMMA NextInv == Inv /\ [Next]_vars => Inv'
<1> SUFFICES ASSUME Inv, [Next]_vars PROVE Inv'
  OBVIOUS
<1>1. ASSUME NEW r \in Req, NEW n \in 1..MaxLanguages, NEW as \in {"playlist", "document"}, Ask(r, n, as)
      PROVE  Inv'
  BY <1>1, AskInv
<1>2. ASSUME NEW r \in Req, Hold(r) PROVE Inv'
  BY <1>2, HoldInv
<1>3. ASSUME NEW r \in Req, NEW how \in {"answered", "garbled", "failed"}, List(r, how) PROVE Inv'
  BY <1>3, ListInv
<1>4. ASSUME NEW r \in Req, NEW blip \in BOOLEAN, Fetch(r, blip) PROVE Inv'
  BY <1>4, FetchInv
<1>5. ASSUME NEW r \in Req, Drop(r) PROVE Inv'
  BY <1>5, DropInv
<1>6. CASE UNCHANGED vars
  <2>1. UNCHANGED <<film, renditions, list, docs, told, queue, req>>
    BY <1>6 DEF vars
  <2>2. Better'
    BY <2>1, BetterStays DEF Inv
  <2> QED BY <2>1, <2>2 DEF Inv, Typed, Alone, Named, Kept, Holds
<1> QED BY <1>1, <1>2, <1>3, <1>4, <1>5, <1>6 DEF Next, Works

\* Lock, documents and what the playlists told of agree at all times.
THEOREM InvAlways == Spec => []Inv
BY InitInv, NextInv, PTL DEF Spec

\* No document is downloaded for a rendition that has one, nor where the release's own
\* track does as well for this audio as the best that is listed.
THEOREM DownloadedOnce == Spec => []FetchedOnce
<1>1. Inv => FetchedOnce
  <2> SUFFICES ASSUME Inv, NEW r \in Req, req[r].at \in {"strict", "sparse"}
               PROVE LET rendition == renditions[req[r].n]
                         dub       == rendition.lang = AudioLang(film)
                         best      == CHOOSE i \in DOMAIN list : list[i].lang = rendition.lang /\ \A j \in 1..i-1 : list[j].lang # rendition.lang
                     IN /\ docs[req[r].n] = None
                        /\ rendition.own # None =>
                             InContext(EntryTier(list[best]), dub) < InContext(OwnTier(film.tracks[rendition.own]), dub)
    BY DEF FetchedOnce
  <2>1. docs[req[r].n] = None /\ req[r].n \in told
    BY DEF Inv, Alone, Named, Fetching
  <2> DEFINE rendition == renditions[req[r].n]
             dub == rendition.lang = AudioLang(film)
             best == CHOOSE i \in DOMAIN list : list[i].lang = rendition.lang /\ \A j \in 1..i-1 : list[j].lang # rendition.lang
  <2>2. ASSUME rendition.own # None
        PROVE  InContext(EntryTier(list[best]), dub) < InContext(OwnTier(film.tracks[rendition.own]), dub)
    <3>1. Outranked(list, req[r].n)
      BY <2>1, <2>2 DEF Inv, Better
    <3>2. DenBest(list, req[r].n) = list[best]
      BY <3>1 DEF Outranked, DenBest
    <3> DEFINE t == film.tracks[rendition.own]
               e == list[best]
    <3>3. ~OwnWins(t, e, dub)
      BY <3>1, <3>2 DEF Outranked
    <3> HIDE DEF t, e, dub
    <3>4. ~(InContext(OwnTier(t), dub) <= InContext(EntryTier(e), dub))
      BY <3>3 DEF OwnWins
    <3>5. InContext(OwnTier(t), dub) \in Int /\ InContext(EntryTier(e), dub) \in Int
      BY DEF InContext, OwnTier, EntryTier
    <3>6. InContext(EntryTier(e), dub) < InContext(OwnTier(t), dub)
      BY <3>4, <3>5
    <3> QED BY <3>6 DEF t, e
  <2> QED BY <2>1, <2>2
<1> QED BY <1>1, InvAlways, PTL
-----------------------------------------------------------------------------
(* Places in a list *)

\* The places of a finite set can be counted off, from the least on.
LEMMA NthIs ==
  ASSUME NEW I, I \subseteq Nat, IsFiniteSet(I)
  PROVE  /\ Cardinality(I) \in Nat
         /\ \A k \in 1..Cardinality(I) : Nth(I, k) \in I /\ Cardinality({j \in I : j < Nth(I, k)}) = k - 1
         /\ \A k, m \in 1..Cardinality(I) : k < m => Nth(I, k) < Nth(I, m)
         /\ \A i \in I : \E k \in 1..Cardinality(I) : Nth(I, k) = i
<1> DEFINE n        == Cardinality(I)
           Below(i) == {j \in I : j < i}
           rank     == [i \in I |-> Cardinality(Below(i))]
<1>1. n \in Nat
  BY FS_CardinalityType
<1>2. \A i \in I : IsFiniteSet(Below(i)) /\ Cardinality(Below(i)) \in 0..(n - 1)
  <2> SUFFICES ASSUME NEW i \in I PROVE IsFiniteSet(Below(i)) /\ Cardinality(Below(i)) \in 0..(n - 1)
    OBVIOUS
  <2>1. Below(i) \subseteq I \ {i}
    OBVIOUS
  <2> HIDE DEF Below
  <2>2. IsFiniteSet(I \ {i}) /\ Cardinality(I \ {i}) = n - 1
    BY FS_RemoveElement
  <2>3. IsFiniteSet(Below(i)) /\ Cardinality(Below(i)) <= n - 1 /\ Cardinality(Below(i)) \in Nat
    BY <2>1, <2>2, FS_Subset, FS_CardinalityType
  <2> QED BY <1>1, <2>3
<1>3. \A i, j \in I : i < j => Cardinality(Below(i)) < Cardinality(Below(j))
  <2> SUFFICES ASSUME NEW i \in I, NEW j \in I, i < j PROVE Cardinality(Below(i)) < Cardinality(Below(j))
    OBVIOUS
  <2>1. Below(i) \subseteq Below(j) /\ i \in Below(j) /\ i \notin Below(i)
    <3>1. i \in Nat /\ j \in Nat /\ \A k \in I : k \in Nat
      OBVIOUS
    <3>2. (\A k \in I : k < i => k < j) /\ i < j /\ ~(i < i)
      BY <3>1
    <3> QED BY <3>2
  <2> HIDE DEF Below
  <2>2. Cardinality(Below(i)) <= Cardinality(Below(j)) /\ Cardinality(Below(i)) # Cardinality(Below(j))
    BY <1>2, <2>1, FS_Subset
  <2>3. Cardinality(Below(i)) \in 0..(n - 1) /\ Cardinality(Below(j)) \in 0..(n - 1)
    BY <1>2, Zenon
  <2> HIDE DEF n
  <2> QED BY <1>1, <2>2, <2>3
<1> HIDE DEF Below, n
<1>4. rank \in Surjection(I, 0..(n - 1))
  <2>1. rank \in [I -> 0..(n - 1)]
    BY <1>2
  <2>2. \A i, j \in I : i # j => rank[i] # rank[j]
    BY <1>1, <1>2, <1>3
  <2> HIDE DEF rank
  <2>3. rank \in Injection(I, 0..(n - 1))
    BY <2>1, <2>2 DEF Injection, IsInjective
  <2>4. IsFiniteSet(0..(n - 1)) /\ Cardinality(0..(n - 1)) = n
    <3>1. 0 \in Int /\ n - 1 \in Int
      BY <1>1
    <3> QED BY <1>1, <3>1, FS_Interval
  <2> QED BY <2>3, <2>4, FS_Injection DEF n
<1>5. \A k \in 1..n : Nth(I, k) \in I /\ Cardinality(Below(Nth(I, k))) = k - 1
  <2> SUFFICES ASSUME NEW k \in 1..n PROVE Nth(I, k) \in I /\ Cardinality(Below(Nth(I, k))) = k - 1
    OBVIOUS
  <2>1. k - 1 \in 0..(n - 1)
    BY <1>1
  <2>2. \E i \in I : rank[i] = k - 1
    BY <1>4, <2>1 DEF Surjection
  <2>3. \E i \in I : Cardinality(Below(i)) = k - 1
    BY <2>2
  <2> QED BY <2>3 DEF Nth, Below
<1>6. ASSUME NEW k \in 1..n, NEW m \in 1..n, k < m PROVE Nth(I, k) < Nth(I, m)
  <2> DEFINE a == Nth(I, k)
             b == Nth(I, m)
  <2>1. a \in I /\ b \in I /\ Cardinality(Below(a)) = k - 1 /\ Cardinality(Below(b)) = m - 1
    BY <1>5
  <2> HIDE DEF a, b
  <2>2. a # b /\ ~(b < a)
    BY <1>1, <1>3, <1>6, <2>1
  <2>3. a < b
    BY <2>1, <2>2
  <2> QED BY <2>3 DEF a, b
<1>7. ASSUME NEW i \in I PROVE \E k \in 1..n : Nth(I, k) = i
  <2> DEFINE k == Cardinality(Below(i)) + 1
  <2>1. k \in 1..n /\ Cardinality(Below(i)) = k - 1
    BY <1>1, <1>2
  <2> HIDE DEF k
  <2>2. Nth(I, k) \in I /\ Cardinality(Below(Nth(I, k))) = k - 1
    BY <1>5, <2>1
  <2>3. Nth(I, k) = i
    <3> DEFINE a == Nth(I, k)
    <3>1. a \in I /\ Cardinality(Below(a)) = Cardinality(Below(i))
      BY <2>1, <2>2
    <3> HIDE DEF a
    <3>2. ~(a < i) /\ ~(i < a)
      BY <1>2, <1>3, <3>1
    <3>3. a = i
      BY <3>1, <3>2
    <3> QED BY <3>3 DEF a
  <2> QED BY <2>1, <2>3
<1> QED BY <1>1, <1>5, <1>6, <1>7 DEF n, Below

\* None is counted before its place.
LEMMA NthPlace ==
  ASSUME NEW I, I \subseteq Nat \ {0}, IsFiniteSet(I), NEW k \in 1..Cardinality(I)
  PROVE  k <= Nth(I, k)
<1> DEFINE i == Nth(I, k)
           below == {j \in I : j < i}
<1>1. i \in I /\ Cardinality(below) = k - 1 /\ Cardinality(I) \in Nat
  <2>1. I \subseteq Nat
    OBVIOUS
  <2> QED BY <2>1, NthIs
<1> HIDE DEF i
<1>2. below \subseteq 1..(i - 1) /\ i \in Nat \ {0}
  <2>1. i \in Nat \ {0} /\ \A j \in I : j \in Nat \ {0}
    BY <1>1
  <2>2. \A j \in I : j < i => j \in 1..(i - 1)
    BY <2>1
  <2> QED BY <2>1, <2>2
<1> HIDE DEF below
<1>3. IsFiniteSet(1..(i - 1)) /\ Cardinality(1..(i - 1)) = i - 1
  <2>1. 1 \in Int /\ i - 1 \in Int
    BY <1>2
  <2>2. Cardinality(1..(i - 1)) = IF 1 > i - 1 THEN 0 ELSE i - 1 - 1 + 1
    BY <2>1, FS_Interval
  <2> QED BY <1>2, <2>1, <2>2, FS_Interval
<1>4. Cardinality(below) <= i - 1
  <2> DEFINE all == 1..(i - 1)
  <2>1. below \subseteq all /\ IsFiniteSet(all) /\ Cardinality(all) = i - 1
    BY <1>2, <1>3
  <2> HIDE DEF all
  <2> QED BY <2>1, FS_Subset
<1>5. k <= i
  BY <1>1, <1>2, <1>4
<1> QED BY <1>5 DEF i

\* Whatever a list has, it has a first time.
LEMMA FirstsIs ==
  ASSUME NEW S, NEW s \in Seq(S)
  PROVE  /\ Firsts(s) \subseteq 1..Len(s) /\ IsFiniteSet(Firsts(s))
         /\ \A i, j \in Firsts(s) : s[i] = s[j] => i = j
         /\ \A i \in 1..Len(s) : \E j \in Firsts(s) : j <= i /\ s[j] = s[i]
<1>1. DOMAIN s = 1..Len(s) /\ Len(s) \in Nat
  OBVIOUS
<1>2. Firsts(s) \subseteq 1..Len(s)
  BY <1>1 DEF Firsts
<1>3. IsFiniteSet(Firsts(s))
  <2>1. IsFiniteSet(1..Len(s))
    BY <1>1, FS_Interval
  <2> QED BY <1>2, <2>1, FS_Subset
<1>4. \A i, j \in Firsts(s) : s[i] = s[j] => i = j
  BY <1>1, <1>2 DEF Firsts
<1>5. ASSUME NEW i \in 1..Len(s) PROVE \E j \in Firsts(s) : j <= i /\ s[j] = s[i]
  <2> DEFINE I == {j \in 1..Len(s) : s[j] = s[i]}
             m == Min(I)
  <2>1. I \subseteq Nat /\ i \in I
    BY <1>1
  <2>2. m \in I /\ \A j \in I : m <= j
    <3> HIDE DEF I
    <3> QED BY <2>1, LeastIs
  <2> HIDE DEF m
  <2>3. m \in Firsts(s)
    BY <1>1, <2>2 DEF Firsts
  <2> QED BY <2>1, <2>2, <2>3
<1> QED BY <1>2, <1>3, <1>4, <1>5
-----------------------------------------------------------------------------
(* The release's own tracks *)

LEMMA LeastOf ==
  ASSUME NEW I, I \subseteq Nat, NEW D, I \subseteq D, NEW f \in [D -> Nat]
  PROVE  LET x == FirstLeast(I, f) IN
         /\ I = {} => x = None
         /\ I # {} => x \in I /\ \A j \in I : f[x] < f[j] \/ (f[x] = f[j] /\ x <= j)
<1>1. CASE I = {}
  BY <1>1 DEF FirstLeast
<1>2. CASE I # {}
  <2> DEFINE V == {f[i] : i \in I}
             v == Min(V)
  <2>1. V \subseteq Nat /\ V # {}
    BY <1>2
  <2>2. v \in V /\ \A w \in V : v <= w
    <3> HIDE DEF V
    <3> QED BY <2>1, LeastIs
  <2> DEFINE J == {i \in I : f[i] = v}
             m == Min(J)
  <2>3. J \subseteq Nat /\ J # {}
    BY <2>2
  <2>4. m \in J /\ \A j \in J : m <= j
    <3> HIDE DEF J
    <3> QED BY <2>3, LeastIs
  <2>5. m \in I /\ f[m] = v
    BY <2>4
  <2>6. \A j \in I : f[m] < f[j] \/ (f[m] = f[j] /\ m <= j)
    <3> SUFFICES ASSUME NEW j \in I PROVE f[m] < f[j] \/ (f[m] = f[j] /\ m <= j)
      OBVIOUS
    <3>1. v <= f[j] /\ f[j] \in Nat /\ v \in Nat
      BY <2>1, <2>2
    <3>2. f[j] = v => m <= j
      BY <2>4
    <3> HIDE DEF m, v
    <3> QED BY <2>5, <3>1, <3>2
  <2> HIDE DEF m
  <2> QED BY <1>2, <2>5, <2>6 DEF FirstLeast
<1> QED BY <1>1, <1>2

Dubbed(f, l) == l # Und /\ l = AudioLang(f)
UsableIn(f, t, l) == t.text /\ (IF l = Und THEN t.lang = None ELSE t.lang = l) /\ (t.forced => Dubbed(f, l))
TierIn(f, t, l) == InContext(OwnTier(t), Dubbed(f, l))

LEMMA TierIs == ASSUME NEW f, NEW t, NEW l PROVE TierIn(f, t, l) \in Nat
BY DEF TierIn, InContext, OwnTier

\* Of a language's own tracks that can be shown, the first that ranks best.
LEMMA OwnIs ==
  ASSUME NEW f \in Films, NEW l
  PROVE  LET own == Own(f, l) IN
         /\ own = None => \A n \in DOMAIN f.tracks : ~UsableIn(f, f.tracks[n], l)
         /\ own # None =>
              /\ own \in DOMAIN f.tracks /\ UsableIn(f, f.tracks[own], l)
              /\ \A m \in DOMAIN f.tracks : UsableIn(f, f.tracks[m], l) =>
                   /\ TierIn(f, f.tracks[own], l) <= TierIn(f, f.tracks[m], l)
                   /\ m < own => TierIn(f, f.tracks[own], l) < TierIn(f, f.tracks[m], l)
<1> DEFINE D == DOMAIN f.tracks
           I == {n \in D : UsableIn(f, f.tracks[n], l)}
           tier == [n \in D |-> TierIn(f, f.tracks[n], l)]
           own == FirstLeast(I, tier)
<1>1. D \subseteq Nat
  BY FilmsAssumption
<1>2. None \notin Nat
  BY FilmsAssumption
<1>3. Own(f, l) = own
  <2>1. CASE l = Und
    <3>1. I = {n \in D : f.tracks[n].text /\ f.tracks[n].lang = None /\ ~f.tracks[n].forced}
      BY <2>1 DEF UsableIn, Dubbed
    <3>2. tier = [n \in D |-> OwnTier(f.tracks[n])]
      BY <2>1 DEF TierIn, Dubbed, InContext
    <3> HIDE DEF I, tier
    <3> QED BY <2>1, <3>1, <3>2 DEF Own, BestUndetermined
  <2>2. CASE l # Und
    <3>1. I = {n \in D : /\ f.tracks[n].text /\ f.tracks[n].lang = l
                         /\ l = AudioLang(f) \/ ~f.tracks[n].forced}
      BY <2>2 DEF UsableIn, Dubbed
    <3>2. tier = [n \in D |-> InContext(OwnTier(f.tracks[n]), l = AudioLang(f))]
      <4>1. Dubbed(f, l) <=> l = AudioLang(f)
        BY <2>2 DEF Dubbed
      <4> QED BY <4>1 DEF TierIn, InContext
    <3> HIDE DEF I, tier
    <3> QED BY <2>2, <3>1, <3>2 DEF Own, BestOwn
  <2> QED BY <2>1, <2>2
<1>4. I \subseteq Nat /\ I \subseteq D /\ tier \in [D -> Nat]
  BY <1>1, TierIs
<1>5. /\ I = {} => own = None
      /\ I # {} => own \in I /\ \A j \in I : tier[own] < tier[j] \/ (tier[own] = tier[j] /\ own <= j)
  <2> HIDE DEF I, tier, D
  <2> QED BY <1>4, LeastOf
<1> HIDE DEF own
<1>6. CASE I = {}
  BY <1>3, <1>5, <1>6
<1>7. CASE I # {}
  <2>1. own \in D /\ own \in Nat /\ own # None /\ UsableIn(f, f.tracks[own], l)
    BY <1>1, <1>2, <1>5, <1>7
  <2>2. ASSUME NEW m \in D, UsableIn(f, f.tracks[m], l)
        PROVE  /\ TierIn(f, f.tracks[own], l) <= TierIn(f, f.tracks[m], l)
               /\ m < own => TierIn(f, f.tracks[own], l) < TierIn(f, f.tracks[m], l)
    <3>1. tier[own] < tier[m] \/ (tier[own] = tier[m] /\ own <= m)
      BY <1>5, <1>7, <2>2
    <3>2. tier[own] = TierIn(f, f.tracks[own], l) /\ tier[m] = TierIn(f, f.tracks[m], l) /\ m \in Nat
      BY <1>1, <2>1
    <3> DEFINE x == TierIn(f, f.tracks[own], l)
               y == TierIn(f, f.tracks[m], l)
    <3>3. x \in Nat /\ y \in Nat
      BY TierIs
    <3>4. x < y \/ (x = y /\ own <= m)
      BY <3>1, <3>2
    <3> HIDE DEF x, y
    <3>5. x <= y /\ (m < own => x < y)
      BY <2>1, <3>2, <3>3, <3>4
    <3> QED BY <3>5 DEF x, y
  <2> QED BY <1>3, <2>1, <2>2
<1> QED BY <1>6, <1>7

-----------------------------------------------------------------------------
(* The languages, in the order they are wanted *)

LEMMA RequestedIs == ASSUME NEW f \in Films PROVE Requested(f) \in Seq(ToSet(f.asked))
<1> DEFINE s == f.asked
           S == ToSet(s)
           I == Firsts(s)
           n == Cardinality(I)
           once == Once(s)
           m == Min({Len(once), MaxLanguages})
<1>1. s \in Seq(S)
  BY FilmsAssumption
<1>2. I \subseteq 1..Len(s) /\ IsFiniteSet(I) /\ I \subseteq Nat
  <2>1. I \subseteq 1..Len(s) /\ IsFiniteSet(I)
    BY <1>1, FirstsIs
  <2>2. 1..Len(s) \subseteq Nat
    BY <1>1
  <2> QED BY <2>1, <2>2
<1>3. n \in Nat /\ \A k \in 1..n : Nth(I, k) \in I
  BY <1>2, NthIs
<1>4. \A i \in 1..Len(s) : s[i] \in S
  BY <1>1
<1>5. once = [k \in 1..n |-> s[Nth(I, k)]]
  BY DEF Once, Among
<1> HIDE DEF I, n, S, s
<1>6. once \in [1..n -> S]
  BY <1>2, <1>3, <1>4, <1>5
<1> HIDE DEF once
<1>7. once \in Seq(S) /\ Len(once) \in Nat
  BY <1>3, <1>6
<1>8. m \in 0..Len(once)
  <2> DEFINE P == {Len(once), MaxLanguages}
  <2>1. P \subseteq Nat /\ P # {} /\ Len(once) \in P
    BY <1>7, BoundsAssumption
  <2> HIDE DEF P
  <2>2. Min(P) \in Nat /\ Min(P) <= Len(once)
    BY <2>1, LeastIs
  <2> QED BY <1>7, <2>2 DEF P
<1>9. Requested(f) = SubSeq(once, 1, m)
  BY DEF Requested, UpTo, once, s
<1> HIDE DEF m
<1>10. \A i \in 1..m : once[i] \in S
  BY <1>7, <1>8
<1>11. SubSeq(once, 1, m) \in Seq(S)
  <2>1. 1 \in Int /\ m \in Int
    BY <1>7, <1>8
  <2> QED BY <1>10, <2>1, SubSeqProperties
<1> QED BY <1>9, <1>11 DEF S, s

Speakable(f) == ToSet(f.asked) \cup {English, AudioLang(f)}

\* The first language asked for leads, English comes next at the latest.
LEMMA PreferredIs ==
  ASSUME NEW f \in Films
  PROVE  /\ Preferred(f) \in Seq(Speakable(f))
         /\ ToSet(Preferred(f)) = ToSet(Requested(f)) \cup {English, AudioLang(f)}
         /\ Len(Preferred(f)) >= 2
         /\ Requested(f) # <<>> => Preferred(f)[1] = Requested(f)[1]
         /\ English \in {Preferred(f)[1], Preferred(f)[2]}
<1> DEFINE S == Speakable(f)
           a == Requested(f)
           m == Min({Len(a), 1})
           first == SubSeq(a, 1, m)
           p == Preferred(f)
<1>1. a \in Seq(S) /\ Len(a) \in Nat /\ English \in S /\ AudioLang(f) \in S
  <2>1. a \in Seq(ToSet(f.asked))
    BY RequestedIs
  <2> QED BY <2>1 DEF Speakable
<1> HIDE DEF a, S
<1>2. m = IF a = <<>> THEN 0 ELSE 1
  <2> DEFINE P == {Len(a), 1}
  <2>1. P \subseteq Nat /\ P # {}
    BY <1>1
  <2>2. Min(P) \in P /\ \A k \in P : Min(P) <= k
    <3> HIDE DEF P
    <3> QED BY <2>1, LeastIs
  <2>3. m \in {Len(a), 1} /\ m <= Len(a) /\ m <= 1
    BY <2>2
  <2> HIDE DEF m
  <2>4. CASE a = <<>>
    BY <1>1, <2>3, <2>4
  <2>5. CASE a # <<>>
    <3>1. Len(a) >= 1
      BY <1>1, <2>5
    <3> QED BY <1>1, <2>3, <2>5, <3>1
  <2> QED BY <2>4, <2>5
<1> HIDE DEF m
<1>3. first \in Seq(S) /\ Len(first) = m /\ (m = 1 => first[1] = a[1])
  <2>1. CASE a = <<>>
    BY <1>1, <1>2, <2>1
  <2>2. CASE a # <<>>
    <3>1. m = 1 /\ Len(a) >= 1
      BY <1>1, <1>2, <2>2
    <3>2. first = SubSeq(a, 1, 1) /\ \A i \in 1..1 : a[i] \in S
      BY <1>1, <3>1
    <3> HIDE DEF first
    <3>3. first \in Seq(S) /\ Len(first) = 1 - 1 + 1 /\ first[1] = a[1 + 1 - 1]
      BY <3>2, SubSeqProperties
    <3> QED BY <3>1, <3>3
  <2> QED BY <2>1, <2>2
<1> HIDE DEF first
<1> DEFINE x == first \o <<English>>
           y == x \o a
<1>4. p = y \o <<AudioLang(f)>>
  BY DEF Preferred, UpTo, first, m, a
<1>5. x \in Seq(S) /\ Len(x) = m + 1 /\ x[m + 1] = English /\ (m = 1 => x[1] = a[1])
  <2> DEFINE e == <<English>>
  <2>1. e \in Seq(S) /\ Len(e) = 1 /\ e[1] = English
    BY <1>1
  <2>2. m \in {0, 1}
    BY <1>2
  <2> HIDE DEF e
  <2>3. /\ first \o e \in Seq(S) /\ Len(first \o e) = Len(first) + Len(e)
        /\ \A i \in 1..(Len(first) + Len(e)) : (first \o e)[i] = IF i <= Len(first) THEN first[i] ELSE e[i - Len(first)]
    BY <1>3, <2>1, ConcatProperties
  <2>4. m + 1 \in 1..(m + 1) /\ ~(m + 1 <= m) /\ (m + 1) - m = 1 /\ (m = 1 => 1 \in 1..(m + 1) /\ 1 <= m)
    BY <2>2
  <2>5. x = first \o e
    BY DEF e
  <2> HIDE DEF x
  <2> QED BY <1>3, <2>1, <2>3, <2>4, <2>5
<1> HIDE DEF x
<1>6. /\ y \in Seq(S) /\ Len(y) = m + 1 + Len(a)
      /\ \A i \in 1..(m + 1 + Len(a)) : y[i] = IF i <= m + 1 THEN x[i] ELSE a[i - (m + 1)]
  <2>1. /\ x \o a \in Seq(S) /\ Len(x \o a) = Len(x) + Len(a)
        /\ \A i \in 1..(Len(x) + Len(a)) : (x \o a)[i] = IF i <= Len(x) THEN x[i] ELSE a[i - Len(x)]
    BY <1>1, <1>5, ConcatProperties
  <2> QED BY <1>5, <2>1
<1> HIDE DEF y
<1> DEFINE z == <<AudioLang(f)>>
<1>7. z \in Seq(S) /\ Len(z) = 1 /\ z[1] = AudioLang(f)
  BY <1>1
<1>8. p = y \o z
  BY <1>4
<1> HIDE DEF p, z
<1>9. /\ p \in Seq(S) /\ Len(p) = m + 2 + Len(a)
      /\ \A i \in 1..(m + 2 + Len(a)) : p[i] = IF i <= m + 1 + Len(a) THEN y[i] ELSE z[i - (m + 1 + Len(a))]
  <2>1. /\ y \o z \in Seq(S) /\ Len(y \o z) = Len(y) + Len(z)
        /\ \A i \in 1..(Len(y) + Len(z)) : (y \o z)[i] = IF i <= Len(y) THEN y[i] ELSE z[i - Len(y)]
    BY <1>6, <1>7, ConcatProperties
  <2>2. Len(y) + Len(z) = m + 2 + Len(a)
    BY <1>1, <1>2, <1>6, <1>7
  <2> QED BY <1>6, <1>8, <2>1, <2>2
<1>10. DOMAIN p = 1..(m + 2 + Len(a)) /\ m \in {0, 1} /\ DOMAIN a = 1..Len(a)
  BY <1>1, <1>2, <1>9
<1>11. /\ \A i \in 1..Len(a) : p[m + 1 + i] = a[i]
       /\ p[m + 1] = English /\ p[m + 2 + Len(a)] = AudioLang(f)
       /\ m = 1 => p[1] = a[1]
  <2>1. \A i \in 1..Len(a) : p[m + 1 + i] = a[i]
    <3> SUFFICES ASSUME NEW i \in 1..Len(a) PROVE p[m + 1 + i] = a[i]
      OBVIOUS
    <3>1. m + 1 + i \in 1..(m + 1 + Len(a)) /\ m + 1 + i \in 1..(m + 2 + Len(a))
          /\ ~(m + 1 + i <= m + 1) /\ m + 1 + i <= m + 1 + Len(a) /\ (m + 1 + i) - (m + 1) = i
      BY <1>1, <1>10
    <3>2. p[m + 1 + i] = y[m + 1 + i]
      BY <1>9, <3>1
    <3>3. y[m + 1 + i] = a[(m + 1 + i) - (m + 1)]
      BY <1>6, <3>1
    <3> QED BY <3>1, <3>2, <3>3
  <2>2. p[m + 1] = English /\ (m = 1 => p[1] = a[1])
    <3>1. m + 1 \in 1..(m + 1 + Len(a)) /\ m + 1 \in 1..(m + 2 + Len(a)) /\ m + 1 <= m + 1 + Len(a)
      BY <1>1, <1>10
    <3>2. m = 1 => 1 \in 1..(m + 1 + Len(a)) /\ 1 \in 1..(m + 2 + Len(a)) /\ 1 <= m + 1 /\ 1 <= m + 1 + Len(a)
      BY <1>1, <1>10
    <3>3. p[m + 1] = y[m + 1] /\ (m = 1 => p[1] = y[1])
      BY <1>9, <3>1, <3>2
    <3>4. y[m + 1] = x[m + 1] /\ (m = 1 => y[1] = x[1])
      BY <1>6, <1>10, <3>1, <3>2
    <3> QED BY <1>5, <3>3, <3>4
  <2>3. p[m + 2 + Len(a)] = AudioLang(f)
    <3>1. m + 2 + Len(a) \in 1..(m + 2 + Len(a)) /\ ~(m + 2 + Len(a) <= m + 1 + Len(a))
          /\ (m + 2 + Len(a)) - (m + 1 + Len(a)) = 1
      BY <1>1, <1>10
    <3>2. p[m + 2 + Len(a)] = z[(m + 2 + Len(a)) - (m + 1 + Len(a))]
      BY <1>9, <3>1
    <3> QED BY <1>7, <3>1, <3>2
  <2> QED BY <2>1, <2>2, <2>3
<1>12. ToSet(p) \subseteq ToSet(a) \cup {English, AudioLang(f)}
  <2> SUFFICES ASSUME NEW i \in 1..(m + 2 + Len(a)) PROVE p[i] \in ToSet(a) \cup {English, AudioLang(f)}
    BY <1>10 DEF ToSet
  <2>1. i = m + 1 \/ i = m + 2 + Len(a) \/ (m = 1 /\ i = 1) \/ \E j \in 1..Len(a) : i = m + 1 + j
    <3>1. i > m + 1 /\ i # m + 2 + Len(a) => (i - (m + 1)) \in 1..Len(a) /\ i = m + 1 + (i - (m + 1))
      BY <1>1, <1>10
    <3>2. i <= m + 1 => i = m + 1 \/ (m = 1 /\ i = 1)
      BY <1>10
    <3> QED BY <1>10, <3>1, <3>2
  <2>2. \A j \in 1..Len(a) : a[j] \in ToSet(a)
    BY <1>10 DEF ToSet
  <2>3. m = 1 => a[1] \in ToSet(a)
    BY <1>1, <1>2, <2>2
  <2> QED BY <1>11, <2>1, <2>2, <2>3
<1>13. ToSet(a) \cup {English, AudioLang(f)} \subseteq ToSet(p)
  <2>1. \A i \in 1..(m + 2 + Len(a)) : p[i] \in ToSet(p)
    BY <1>10 DEF ToSet
  <2>2. m + 1 \in 1..(m + 2 + Len(a)) /\ m + 2 + Len(a) \in 1..(m + 2 + Len(a))
    BY <1>1, <1>10
  <2>3. \A j \in 1..Len(a) : m + 1 + j \in 1..(m + 2 + Len(a))
    BY <1>1, <1>10
  <2>4. \A j \in 1..Len(a) : a[j] \in ToSet(p)
    BY <1>11, <2>1, <2>3
  <2>5. ToSet(a) = {a[j] : j \in 1..Len(a)}
    BY <1>10 DEF ToSet
  <2> QED BY <1>11, <2>1, <2>2, <2>4, <2>5
<1>14. ToSet(p) = ToSet(a) \cup {English, AudioLang(f)}
  BY <1>12, <1>13
<1>15. Len(p) >= 2 /\ (a # <<>> => p[1] = a[1]) /\ English \in {p[1], p[2]}
  BY <1>1, <1>2, <1>9, <1>10, <1>11
<1> QED BY <1>9, <1>14, <1>15 DEF p, a, S
Wanted(f) == Preferred(f) \o Keys(f)

LEMMA WantedIs ==
  ASSUME NEW f \in Films
  PROVE  /\ Wanted(f) \in Seq(Speakable(f) \cup ToSet(Keys(f)))
         /\ Len(Preferred(f)) \in Nat
         /\ \A i \in 1..Len(Preferred(f)) : i \in 1..Len(Wanted(f)) /\ Wanted(f)[i] = Preferred(f)[i]
         /\ \A n \in DOMAIN f.tracks : /\ Len(Preferred(f)) + n \in 1..Len(Wanted(f))
                                       /\ Wanted(f)[Len(Preferred(f)) + n] = Keys(f)[n]
<1> DEFINE p == Preferred(f)
           k == Keys(f)
           S == Speakable(f) \cup ToSet(k)
<1>1. p \in Seq(S) /\ Len(p) \in Nat
  <2>1. p \in Seq(Speakable(f))
    BY PreferredIs
  <2> HIDE DEF p
  <2> QED BY <2>1
<1>2. f.tracks \in Seq(ToSet(f.tracks))
  BY FilmsAssumption
<1>3. DOMAIN k = 1..Len(f.tracks) /\ Len(f.tracks) \in Nat /\ DOMAIN f.tracks = 1..Len(f.tracks)
  BY <1>2 DEF Keys
<1>4. k \in Seq(S) /\ Len(k) = Len(f.tracks)
  <2>1. k = [n \in 1..Len(f.tracks) |-> k[n]]
    BY <1>3 DEF Keys
  <2>2. \A n \in 1..Len(f.tracks) : k[n] \in S
    BY <1>3 DEF ToSet
  <2> HIDE DEF k, S
  <2>3. k \in [1..Len(f.tracks) -> S]
    BY <2>1, <2>2
  <2> QED BY <1>3, <2>3
<1> HIDE DEF p, k, S
<1>5. /\ p \o k \in Seq(S) /\ Len(p \o k) = Len(p) + Len(k)
      /\ \A i \in 1..(Len(p) + Len(k)) : (p \o k)[i] = IF i <= Len(p) THEN p[i] ELSE k[i - Len(p)]
  BY <1>1, <1>4, ConcatProperties
<1>6. Wanted(f) = p \o k
  BY DEF Wanted, p, k
<1>7. ASSUME NEW i \in 1..Len(p) PROVE i \in 1..Len(p \o k) /\ (p \o k)[i] = p[i]
  BY <1>1, <1>3, <1>4, <1>5
<1>8. ASSUME NEW n \in DOMAIN f.tracks PROVE Len(p) + n \in 1..Len(p \o k) /\ (p \o k)[Len(p) + n] = k[n]
  <2>1. n \in 1..Len(f.tracks) /\ Len(p) + n \in 1..(Len(p) + Len(k)) /\ ~(Len(p) + n <= Len(p)) /\ (Len(p) + n) - Len(p) = n
    BY <1>1, <1>3, <1>4
  <2>2. (p \o k)[Len(p) + n] = k[(Len(p) + n) - Len(p)]
    BY <1>5, <2>1
  <2> QED BY <1>5, <2>1, <2>2
<1> QED BY <1>1, <1>5, <1>6, <1>7, <1>8 DEF p, k, S

ShownIn(f, known, l) == l # None /\ (Rendition(f, known, l).own # None \/ Rendition(f, known, l).den)
Places(f, known) == {i \in Firsts(Wanted(f)) : ShownIn(f, known, Wanted(f)[i])}

LEMMA PlacesAre ==
  ASSUME NEW f \in Films, NEW known
  PROVE  /\ Places(f, known) \subseteq 1..Len(Wanted(f)) /\ Places(f, known) \subseteq Nat \ {0}
         /\ IsFiniteSet(Places(f, known)) /\ Cardinality(Places(f, known)) \in Nat
<1>1. Wanted(f) \in Seq(Speakable(f) \cup ToSet(Keys(f)))
  BY WantedIs
<1>2. Firsts(Wanted(f)) \subseteq 1..Len(Wanted(f)) /\ IsFiniteSet(Firsts(Wanted(f)))
  BY <1>1, FirstsIs
<1>3. Places(f, known) \subseteq Firsts(Wanted(f))
  BY DEF Places
<1>4. IsFiniteSet(Places(f, known))
  BY <1>2, <1>3, FS_Subset
<1>5. Len(Wanted(f)) \in Nat
  BY <1>1
<1> QED BY <1>2, <1>3, <1>4, <1>5, FS_CardinalityType

\* A plan has as many of the places as there is room for, the first of them.
LEMMA PlanIs ==
  ASSUME NEW f \in Films, NEW known
  PROVE  LET p == Plan(f, known)
             I == Places(f, known)
         IN /\ Len(p) \in Nat /\ DOMAIN p = 1..Len(p) /\ Len(p) <= MaxLanguages /\ Len(p) <= Cardinality(I)
            /\ Len(p) = Cardinality(I) \/ Len(p) = MaxLanguages
            /\ \A n \in 1..Len(p) : /\ n \in 1..Cardinality(I) /\ Nth(I, n) \in I
                                    /\ p[n] = Rendition(f, known, Wanted(f)[Nth(I, n)])
<1> DEFINE I == Places(f, known)
           langs == Among(Wanted(f), I)
           m == Min({Len(langs), MaxLanguages})
<1>1. Plan(f, known) = [n \in 1..m |-> Rendition(f, known, langs[n])]
  BY DEF Plan, Places, ShownIn, Wanted
<1>2. I \subseteq Nat /\ IsFiniteSet(I) /\ Cardinality(I) \in Nat
  BY PlacesAre
<1>3. \A n \in 1..Cardinality(I) : Nth(I, n) \in I
  BY <1>2, NthIs
<1> HIDE DEF I
<1>4. Len(langs) = Cardinality(I) /\ \A n \in 1..Cardinality(I) : langs[n] = Wanted(f)[Nth(I, n)]
  BY <1>2 DEF Among
<1>5. m \in Nat /\ m <= MaxLanguages /\ m <= Cardinality(I) /\ m \in {Cardinality(I), MaxLanguages}
  <2> DEFINE P == {Len(langs), MaxLanguages}
  <2>1. P \subseteq Nat /\ P # {} /\ P = {Cardinality(I), MaxLanguages}
    BY <1>2, <1>4, BoundsAssumption
  <2>2. Min(P) \in P /\ \A k \in P : Min(P) <= k
    <3> HIDE DEF P
    <3> QED BY <2>1, LeastIs
  <2>3. m = Min(P)
    OBVIOUS
  <2> HIDE DEF P, m
  <2> QED BY <2>1, <2>2, <2>3
<1> HIDE DEF m
<1>6. DOMAIN Plan(f, known) = 1..m /\ Len(Plan(f, known)) = m
  BY <1>1, <1>5
<1>7. \A n \in 1..m : n \in 1..Cardinality(I) /\ Plan(f, known)[n] = Rendition(f, known, langs[n])
  BY <1>1, <1>2, <1>5
<1> QED BY <1>3, <1>4, <1>5, <1>6, <1>7 DEF I
Wants(f) == ToSet(Requested(f)) \cup {English, AudioLang(f)}

\* Whatever is named of the languages a release has or is asked in has its place.
LEMMA NamedIs ==
  ASSUME NEW f \in Films, NEW l
  PROVE  /\ l \in Wants(f) => \E i \in Firsts(Wanted(f)) : i <= Len(Preferred(f)) /\ Wanted(f)[i] = l
         /\ \A n \in DOMAIN f.tracks :
              UsableIn(f, f.tracks[n], l) /\ l # None => \E i \in Firsts(Wanted(f)) : Wanted(f)[i] = l
         /\ l = English => \A i \in Firsts(Wanted(f)) : Wanted(f)[i] = l => i <= 2
         /\ Requested(f) # <<>> /\ l = Requested(f)[1] => \A i \in Firsts(Wanted(f)) : Wanted(f)[i] = l => i = 1
         /\ \A i \in Firsts(Wanted(f)) : i <= Len(Preferred(f)) => Wanted(f)[i] \in Wants(f)
<1> DEFINE w == Wanted(f)
           p == Preferred(f)
           F == Firsts(w)
<1>1. /\ w \in Seq(Speakable(f) \cup ToSet(Keys(f))) /\ Len(p) \in Nat
      /\ \A i \in 1..Len(p) : i \in 1..Len(w) /\ w[i] = p[i]
      /\ \A n \in DOMAIN f.tracks : Len(p) + n \in 1..Len(w) /\ w[Len(p) + n] = Keys(f)[n]
  BY WantedIs
<1>2. /\ p \in Seq(Speakable(f)) /\ ToSet(p) = Wants(f) /\ Len(p) >= 2
      /\ Requested(f) # <<>> => p[1] = Requested(f)[1]
      /\ English \in {p[1], p[2]}
  BY PreferredIs DEF Wants
<1>3. /\ F \subseteq 1..Len(w) /\ \A i, j \in F : w[i] = w[j] => i = j
      /\ \A i \in 1..Len(w) : \E j \in F : j <= i /\ w[j] = w[i]
  BY <1>1, FirstsIs
<1>4. DOMAIN p = 1..Len(p) /\ Len(w) \in Nat
  BY <1>1, <1>2
<1>5. Keys(f) = [n \in DOMAIN f.tracks |->
                   IF ~f.tracks[n].text THEN None ELSE IF f.tracks[n].lang = None THEN Und ELSE f.tracks[n].lang]
  BY DEF Keys
<1> HIDE DEF w, p, F
<1>6. ASSUME l \in Wants(f) PROVE \E i \in F : i <= Len(p) /\ w[i] = l
  <2>1. PICK k \in 1..Len(p) : p[k] = l
    BY <1>2, <1>4, <1>6 DEF ToSet
  <2>2. PICK j \in F : j <= k /\ w[j] = l
    BY <1>1, <1>3, <2>1
  <2>3. j \in Nat /\ k \in Nat /\ k <= Len(p)
    BY <1>1, <1>3, <1>4, <2>1
  <2> QED BY <1>1, <2>2, <2>3
<1>7. ASSUME NEW n \in DOMAIN f.tracks, UsableIn(f, f.tracks[n], l), l # None
      PROVE  \E i \in F : w[i] = l
  <2>1. Keys(f)[n] = l
    <3>1. f.tracks[n].text /\ (l = Und => f.tracks[n].lang = None) /\ (l # Und => f.tracks[n].lang = l)
      BY <1>7 DEF UsableIn
    <3>2. Keys(f)[n] = IF ~f.tracks[n].text THEN None ELSE IF f.tracks[n].lang = None THEN Und ELSE f.tracks[n].lang
      BY <1>5, <1>7
    <3>3. CASE l = Und
      BY <3>1, <3>2, <3>3, Zenon
    <3>4. CASE l # Und
      BY <1>7, <3>1, <3>2, <3>4, Zenon
    <3> QED BY <3>3, <3>4
  <2>2. Len(p) + n \in 1..Len(w) /\ w[Len(p) + n] = l
    BY <1>1, <1>7, <2>1, Zenon
  <2>3. PICK j \in F : w[j] = w[Len(p) + n]
    BY <1>3, <2>2, Zenon
  <2> QED BY <2>2, <2>3, Zenon
<1>8. ASSUME l = English, NEW i \in F, w[i] = l PROVE i <= 2
  <2>1. PICK k \in 1..2 : p[k] = l
    BY <1>2, <1>8
  <2>2. k \in 1..Len(p)
    BY <1>1, <1>2
  <2>3. PICK j \in F : j <= k /\ w[j] = l
    BY <1>1, <1>3, <2>1, <2>2
  <2>4. i = j
    BY <1>3, <1>8, <2>3
  <2>5. j \in Nat
    BY <1>3, <1>4
  <2> QED BY <2>1, <2>3, <2>4, <2>5
<1>9. ASSUME Requested(f) # <<>>, l = Requested(f)[1], NEW i \in F, w[i] = l PROVE i = 1
  <2>1. p[1] = l /\ 1 \in 1..Len(p)
    BY <1>1, <1>2, <1>9
  <2>2. PICK j \in F : j <= 1 /\ w[j] = l
    BY <1>1, <1>3, <2>1
  <2>3. i = j /\ j \in 1..Len(w)
    BY <1>3, <1>9, <2>2
  <2> QED BY <1>4, <2>2, <2>3
<1>10. ASSUME NEW i \in F, i <= Len(p) PROVE w[i] \in Wants(f)
  <2>1. i \in 1..Len(p)
    BY <1>1, <1>3, <1>4, <1>10
  <2>2. w[i] = p[i] /\ p[i] \in ToSet(p)
    BY <1>1, <1>4, <2>1 DEF ToSet
  <2> QED BY <1>2, <2>2
<1> QED BY <1>6, <1>7, <1>8, <1>9, <1>10 DEF w, p, F

\* What create() promises of any release, whatever den-subtitles' list was then.
LEMMA WellPlanned ==
  ASSUME film \in Films, NEW had \in {film.list, <<>>}, renditions = Plan(film, had)
  PROVE  PromisedWell
<1> DEFINE I == Places(film, had)
           w == Wanted(film)
           size == Len(renditions)
           langs == {renditions[n].lang : n \in DOMAIN renditions}
           wants == ToSet(Requested(film)) \cup {English, AudioLang(film)}
           Dub(l) == l # Und /\ l = AudioLang(film)
           Usable(t, l) == t.text /\ (IF l = Und THEN t.lang = None ELSE t.lang = l) /\ (t.forced => Dub(l))
           Fitter(t, u, l) == InContext(OwnTier(t), Dub(l)) < InContext(OwnTier(u), Dub(l))
           Shows(l) == \E t \in ToSet(film.tracks) : Usable(t, l)
<1>1. /\ I \subseteq Nat \ {0} /\ I \subseteq Nat /\ IsFiniteSet(I) /\ Cardinality(I) \in Nat
      /\ \A i \in I : i \in Firsts(w) /\ ShownIn(film, had, w[i])
      /\ \A i \in Firsts(w) : ShownIn(film, had, w[i]) => i \in I
  BY PlacesAre DEF Places
<1>2. /\ size \in Nat /\ DOMAIN renditions = 1..size /\ size <= MaxLanguages /\ size <= Cardinality(I)
      /\ size = Cardinality(I) \/ size = MaxLanguages
      /\ \A n \in 1..size : /\ n \in 1..Cardinality(I) /\ Nth(I, n) \in I
                            /\ renditions[n] = Rendition(film, had, w[Nth(I, n)])
  BY PlanIs
<1>3. /\ \A k, m \in 1..Cardinality(I) : k < m => Nth(I, k) < Nth(I, m)
      /\ \A i \in I : \E k \in 1..Cardinality(I) : Nth(I, k) = i
      /\ \A k \in 1..Cardinality(I) : k <= Nth(I, k)
  BY <1>1, NthIs, NthPlace
<1>4. \A i, j \in Firsts(w) : w[i] = w[j] => i = j
  <2>1. w \in Seq(Speakable(film) \cup ToSet(Keys(film)))
    BY WantedIs
  <2> HIDE DEF w
  <2> QED BY <2>1, FirstsIs
<1>5. \A t, l : Usable(t, l) <=> UsableIn(film, t, l)
  BY DEF UsableIn, Dubbed
<1>6. \A t, u, l : Fitter(t, u, l) <=> TierIn(film, t, l) < TierIn(film, u, l)
  BY DEF TierIn, Dubbed
<1>7. None \notin Nat /\ DOMAIN film.tracks \subseteq Nat
  BY FilmsAssumption
<1>8. wants = Wants(film)
  BY DEF Wants
<1>9. \A l : Shows(l) <=> \E n \in DOMAIN film.tracks : UsableIn(film, film.tracks[n], l)
  BY <1>5 DEF ToSet
<1> HIDE DEF I, size, Usable, Fitter, Shows, wants, w
<1>10. \A n \in 1..size :
         LET l == w[Nth(I, n)] IN
         /\ n \in 1..Cardinality(I) /\ Nth(I, n) \in Firsts(w) /\ Nth(I, n) \in I /\ ShownIn(film, had, l)
         /\ renditions[n].lang = l /\ renditions[n].own = Own(film, l)
         /\ renditions[n].den = (l \in ToSet(Preferred(film)) /\ Asked(film) /\ (Own(film, l) # None \/ Listed(had, l)))
         /\ renditions[n] = Rendition(film, had, l)
  <2> SUFFICES ASSUME NEW n \in 1..size
               PROVE  LET l == w[Nth(I, n)] IN
                      /\ n \in 1..Cardinality(I) /\ Nth(I, n) \in Firsts(w) /\ Nth(I, n) \in I /\ ShownIn(film, had, l)
                      /\ renditions[n].lang = l /\ renditions[n].own = Own(film, l)
                      /\ renditions[n].den = (l \in ToSet(Preferred(film)) /\ Asked(film) /\ (Own(film, l) # None \/ Listed(had, l)))
                      /\ renditions[n] = Rendition(film, had, l)
    OBVIOUS
  <2>1. n \in 1..Cardinality(I) /\ Nth(I, n) \in I /\ renditions[n] = Rendition(film, had, w[Nth(I, n)])
    BY <1>2
  <2>2. Nth(I, n) \in Firsts(w) /\ ShownIn(film, had, w[Nth(I, n)])
    BY <1>1, <2>1
  <2> QED BY <2>1, <2>2 DEF Rendition
<1>11. size <= MaxLanguages /\ Cardinality(langs) = size
  <2> DEFINE said == [n \in 1..size |-> renditions[n].lang]
  <2>1. langs = {renditions[n].lang : n \in 1..size}
    BY <1>2
  <2> HIDE DEF langs
  <2>2. said \in Surjection(1..size, langs)
    BY <2>1 DEF Surjection
  <2>3. \A n, m \in 1..size : said[n] = said[m] => n = m
    <3> SUFFICES ASSUME NEW n \in 1..size, NEW m \in 1..size, said[n] = said[m] PROVE n = m
      OBVIOUS
    <3>1. w[Nth(I, n)] = w[Nth(I, m)] /\ Nth(I, n) \in Firsts(w) /\ Nth(I, m) \in Firsts(w)
      BY <1>10
    <3>2. Nth(I, n) = Nth(I, m)
      BY <1>4, <3>1
    <3>3. n \in 1..Cardinality(I) /\ m \in 1..Cardinality(I) /\ Nth(I, n) \in Nat
      BY <1>1, <1>10
    <3>4. ~(n < m) /\ ~(m < n)
      BY <1>3, <3>2, <3>3
    <3> QED BY <3>4
  <2>4. said \in Injection(1..size, langs)
    BY <2>2, <2>3 DEF Surjection, Injection, IsInjective
  <2>5. IsFiniteSet(1..size) /\ Cardinality(1..size) = size
    BY <1>2, FS_Interval
  <2> HIDE DEF said
  <2> QED BY <1>2, <2>2, <2>4, <2>5, FS_Surjection
<1>12. ASSUME NEW n \in 1..size
       PROVE  LET r == renditions[n] IN
              /\ r.own # None =>
                   /\ Usable(film.tracks[r.own], r.lang)
                   /\ \A m \in DOMAIN film.tracks : Usable(film.tracks[m], r.lang) =>
                        ~Fitter(film.tracks[m], film.tracks[r.own], r.lang) /\ (m < r.own => Fitter(film.tracks[r.own], film.tracks[m], r.lang))
              /\ r.own = None => ~Shows(r.lang) /\ r.den
              /\ r.den => Asked(film) /\ r.lang \in wants /\ (r.own = None => Listed(film.list, r.lang))
              /\ r.lang = English => n <= 2
              /\ Requested(film) # <<>> /\ r.lang = Requested(film)[1] => n = 1
  <2> DEFINE r == renditions[n]
             l == w[Nth(I, n)]
             own == Own(film, l)
  <2>1. /\ n \in 1..Cardinality(I) /\ Nth(I, n) \in Firsts(w) /\ Nth(I, n) \in I /\ ShownIn(film, had, l)
        /\ r.lang = l /\ r.own = own
        /\ r.den = (l \in ToSet(Preferred(film)) /\ Asked(film) /\ (own # None \/ Listed(had, l)))
        /\ r = Rendition(film, had, l)
    BY <1>10
  <2>2. /\ own = None => \A m \in DOMAIN film.tracks : ~UsableIn(film, film.tracks[m], l)
        /\ own # None =>
             /\ own \in DOMAIN film.tracks /\ UsableIn(film, film.tracks[own], l)
             /\ \A m \in DOMAIN film.tracks : UsableIn(film, film.tracks[m], l) =>
                  /\ TierIn(film, film.tracks[own], l) <= TierIn(film, film.tracks[m], l)
                  /\ m < own => TierIn(film, film.tracks[own], l) < TierIn(film, film.tracks[m], l)
    BY OwnIs
  <2>3. Nth(I, n) \in Nat /\ n <= Nth(I, n) /\ n \in Nat /\ n >= 1
    <3>1. n \in Nat /\ n >= 1
      BY <1>2
    <3> QED BY <1>1, <1>3, <2>1, <3>1
  <2>4. own # None \/ r.den
    BY <2>1 DEF ShownIn, Rendition
  <2> HIDE DEF own, r
  <2>5. own # None =>
          /\ Usable(film.tracks[own], l)
          /\ \A m \in DOMAIN film.tracks : Usable(film.tracks[m], l) =>
               ~Fitter(film.tracks[m], film.tracks[own], l) /\ (m < own => Fitter(film.tracks[own], film.tracks[m], l))
    <3> SUFFICES ASSUME own # None
                 PROVE  /\ Usable(film.tracks[own], l)
                        /\ \A m \in DOMAIN film.tracks : Usable(film.tracks[m], l) =>
                             ~Fitter(film.tracks[m], film.tracks[own], l) /\ (m < own => Fitter(film.tracks[own], film.tracks[m], l))
      OBVIOUS
    <3>1. Usable(film.tracks[own], l)
      BY <1>5, <2>2
    <3>2. ASSUME NEW m \in DOMAIN film.tracks, Usable(film.tracks[m], l)
          PROVE  ~Fitter(film.tracks[m], film.tracks[own], l) /\ (m < own => Fitter(film.tracks[own], film.tracks[m], l))
      <4> DEFINE x == TierIn(film, film.tracks[own], l)
                 y == TierIn(film, film.tracks[m], l)
      <4>1. x <= y /\ (m < own => x < y)
        BY <1>5, <2>2, <3>2
      <4>2. x \in Nat /\ y \in Nat
        BY TierIs
      <4>3. (Fitter(film.tracks[m], film.tracks[own], l) <=> y < x) /\ (Fitter(film.tracks[own], film.tracks[m], l) <=> x < y)
        BY <1>6
      <4> HIDE DEF x, y
      <4>4. ~(y < x)
        BY <4>1, <4>2
      <4> QED BY <4>1, <4>3, <4>4
    <3> QED BY <3>1, <3>2
  <2>6. own = None => ~Shows(l) /\ r.den
    BY <1>9, <2>2, <2>4
  <2>7. r.den => Asked(film) /\ l \in wants /\ (own = None => Listed(film.list, l))
    <3>1. ToSet(Preferred(film)) = wants
      BY PreferredIs, <1>8 DEF Wants
    <3>2. Listed(had, l) => Listed(film.list, l)
      BY DEF Listed
    <3> QED BY <2>1, <3>1, <3>2
  <2>8. l = English => n <= 2
    <3>1. l = English => Nth(I, n) <= 2
      BY <2>1, NamedIs DEF w
    <3> QED BY <2>3, <3>1
  <2>9. Requested(film) # <<>> /\ l = Requested(film)[1] => n = 1
    <3>1. Requested(film) # <<>> /\ l = Requested(film)[1] => Nth(I, n) = 1
      BY <2>1, NamedIs DEF w
    <3> QED BY <2>3, <3>1
  <2> HIDE DEF l
  <2> QED BY <2>1, <2>5, <2>6, <2>7, <2>8, <2>9 DEF r
<1>13. ASSUME NEW l, l \notin langs, l # None, Shows(l)
       PROVE  size = MaxLanguages /\ (l \in wants => langs \subseteq wants)
  <2>1. PICK t \in DOMAIN film.tracks : UsableIn(film, film.tracks[t], l)
    BY <1>9, <1>13
  <2>2. PICK i \in Firsts(w) : w[i] = l
    BY <1>13, <2>1, NamedIs DEF w
  <2>3. Own(film, l) # None
    BY <2>1, OwnIs
  <2>4. i \in I
    BY <1>1, <1>13, <2>2, <2>3 DEF ShownIn, Rendition
  <2>5. PICK k \in 1..Cardinality(I) : Nth(I, k) = i
    BY <1>3, <2>4
  <2>6. ~(k <= size)
    <3> SUFFICES ASSUME k <= size PROVE FALSE
      OBVIOUS
    <3>1. k \in 1..size
      BY <1>2
    <3>2. renditions[k].lang = l
      BY <1>10, <2>2, <2>5, <3>1
    <3> QED BY <1>2, <1>13, <3>1, <3>2
  <2>7. size = MaxLanguages
    BY <1>1, <1>2, <2>6
  <2>8. ASSUME l \in wants, NEW n \in 1..size PROVE renditions[n].lang \in wants
    <3>1. PICK j \in Firsts(w) : j <= Len(Preferred(film)) /\ w[j] = l
      BY <1>8, <2>8, NamedIs DEF w
    <3>2. j = i
      BY <1>4, <2>2, <3>1
    <3>3. n \in 1..Cardinality(I) /\ n < k /\ Nth(I, n) \in I /\ Nth(I, n) \in Firsts(w) /\ renditions[n].lang = w[Nth(I, n)]
      BY <1>1, <1>2, <1>10, <2>6
    <3>4. Nth(I, n) < i
      BY <1>3, <2>5, <3>3
    <3>5. Nth(I, n) <= Len(Preferred(film))
      <4>1. Nth(I, n) \in Nat /\ i \in Nat /\ Len(Preferred(film)) \in Nat
        BY <1>1, <2>4, <3>3, WantedIs
      <4> QED BY <3>1, <3>2, <3>4, <4>1
    <3>6. w[Nth(I, n)] \in Wants(film)
      BY <3>3, <3>5, NamedIs DEF w
    <3> QED BY <1>8, <3>3, <3>6
  <2>9. l \in wants => langs \subseteq wants
    BY <1>2, <2>8
  <2> QED BY <2>7, <2>9
<1>14. \A l \in (wants \cup {t.lang : t \in ToSet(film.tracks)} \cup {Und}) \ (langs \cup {None}) : Shows(l) =>
         size = MaxLanguages /\ (l \in wants => langs \subseteq wants)
  BY <1>13
<1>15. \A n \in DOMAIN renditions :
         LET r == renditions[n] IN
         /\ r.own # None =>
              /\ Usable(film.tracks[r.own], r.lang)
              /\ \A m \in DOMAIN film.tracks : Usable(film.tracks[m], r.lang) =>
                   ~Fitter(film.tracks[m], film.tracks[r.own], r.lang) /\ (m < r.own => Fitter(film.tracks[r.own], film.tracks[m], r.lang))
         /\ r.own = None => ~Shows(r.lang) /\ r.den
         /\ r.den => Asked(film) /\ r.lang \in wants /\ (r.own = None => Listed(film.list, r.lang))
         /\ r.lang = English => n <= 2
         /\ Requested(film) # <<>> /\ r.lang = Requested(film)[1] => n = 1
  BY <1>2, <1>12
<1> QED BY <1>11, <1>14, <1>15, Zenon DEF PromisedWell, size, wants, Usable, Fitter, Shows

\* A session's renditions are what create() planned, for good.
Planned == film \in Films /\ \E had \in {film.list, <<>>} : renditions = Plan(film, had)

LEMMA PlannedKept == Planned /\ [Next]_vars => Planned'
<1> SUFFICES ASSUME Planned, [Next]_vars PROVE Planned'
  OBVIOUS
<1>1. UNCHANGED <<film, renditions>>
  BY DEF Next, vars, Works, Ask, Hold, List, Fetch, Drop
<1>2. PICK had \in {film.list, <<>>} : renditions = Plan(film, had)
  BY DEF Planned
<1>3. Plan(film', had) = Plan(film, had)
  BY <1>1
<1> QED BY <1>1, <1>2, <1>3 DEF Planned

\* What a session promises can be shown and leaves nothing better out, for any release, list
\* and wishes.
THEOREM PromiseKept == Spec => []PromisedWell
<1>1. Init => Planned
  BY DEF Init, Planned
<1>2. Planned => PromisedWell
  BY WellPlanned DEF Planned
<1> QED BY <1>1, <1>2, PlannedKept, PTL DEF Spec
================================================================================
